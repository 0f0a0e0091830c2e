------------------------------- MODULE Proxy -------------------------------
(***************************************************************************)
(* The proxy's way from a tool call to an IDA process: the bridge          *)
(* (_tool_bridge.py), SessionRegistry (session_registry.py) and            *)
(* IDARpcClient (client.py), called from several worker threads, against   *)
(* IDA processes that come, go and come back on another port, and that     *)
(* serve one request at a time (http_server.py).                           *)
(*                                                                         *)
(* list_all and get are one step here (SessionStore has their file         *)
(* operations), and a block under SessionRegistry._lock is one step.       *)
(***************************************************************************)
EXTENDS Naturals, Sequences, FiniteSets

CONSTANTS
  Workers,      \* worker threads; each makes one tool call
  Sessions,     \* session ids
  Processes,    \* IDA processes
  SidOf,        \* process -> the session id it is started with
  None

ASSUME ProxyAssumption ==
  /\ SidOf \in [Processes -> Sessions]
  /\ None \notin Workers \cup Sessions \cup Processes
  /\ IsFiniteSet(Workers) /\ IsFiniteSet(Processes)

\* Ports are numbered in the order they are handed out.
Ports  == 1..Cardinality(Processes)
NoPort == 0

VARIABLES
  state,      \* process -> "unborn", "up", "withdrawn", "dead"
  port,       \* process -> the port it is bound to, or NoPort
  sidecar,    \* session -> the process its sidecar describes, or None
  inbox,      \* process -> calls that have connected, in order
  busy,       \* process -> the call its main thread handles, or None
  clients,    \* the IDARpcClient objects made so far: [session, port, ids]
  cached,     \* session -> index in clients, or 0: SessionRegistry._clients
  pc,         \* worker -> where it is
  arg,        \* worker -> the session argument, None when it is left out
  sid,        \* worker -> the session id resolved
  info,       \* worker -> the process whose SessionInfo get returned, or None
  client,     \* worker -> index of the client it uses, or 0
  outcome,    \* worker -> what the tool call ended with
  since       \* worker -> published and running since the call began (history)

idaVars  == <<state, port, sidecar, inbox, busy>>
callVars == <<arg, sid, info, client, outcome>>
vars     == <<state, port, sidecar, inbox, busy, clients, cached, pc, arg, sid, info,
              client, outcome, since>>

States   == {"unborn", "up", "withdrawn", "dead"}
Pcs      == {"idle", "list", "get", "pop", "lookup", "send", "wait", "done", "over"}
Outcomes == {"none", "answered", "transport", "notfound", "ambiguous"}

Running(p) == state[p] \in {"up", "withdrawn"}

\* At most one client is made per call.
Client == [session : Sessions, port : Ports, ids : 0..Cardinality(Workers)]

TypeOK ==
  /\ state \in [Processes -> States]
  /\ port \in [Processes -> Ports \cup {NoPort}]
  /\ sidecar \in [Sessions -> Processes \cup {None}]
  /\ inbox \in [Processes -> Seq(Workers)]
  /\ busy \in [Processes -> Workers \cup {None}]
  /\ clients \in Seq(Client)
  /\ Len(clients) <= Cardinality(Workers)
  /\ cached \in [Sessions -> 0..Len(clients)]
  /\ pc \in [Workers -> Pcs]
  /\ arg \in [Workers -> Sessions \cup {None}]
  /\ sid \in [Workers -> Sessions \cup {None}]
  /\ info \in [Workers -> Processes \cup {None}]
  /\ client \in [Workers -> 0..Len(clients)]
  /\ outcome \in [Workers -> Outcomes]
  /\ since \in [Workers -> SUBSET Processes]

Init ==
  /\ state = [p \in Processes |-> "unborn"]
  /\ port = [p \in Processes |-> NoPort]
  /\ sidecar = [s \in Sessions |-> None]
  /\ inbox = [p \in Processes |-> <<>>]
  /\ busy = [p \in Processes |-> None]
  /\ clients = <<>>
  /\ cached = [s \in Sessions |-> 0]
  /\ pc = [t \in Workers |-> "idle"]
  /\ arg = [t \in Workers |-> None]
  /\ sid = [t \in Workers |-> None]
  /\ info = [t \in Workers |-> None]
  /\ client = [t \in Workers |-> 0]
  /\ outcome = [t \in Workers |-> "none"]
  /\ since = [t \in Workers |-> {}]

Goto(t, p)    == pc' = [pc EXCEPT ![t] = p]
Finish(t, how) == outcome' = [outcome EXCEPT ![t] = how] /\ Goto(t, "done")

\* Advertised by its sidecar, and there.
Live(p) == sidecar[SidOf[p]] = p /\ Running(p)

LiveSessions == {s \in Sessions : sidecar[s] # None /\ Running(sidecar[s])}

-----------------------------------------------------------------------------
(* Resolving the session.                                                  *)

\* FastMCP calls a proxy, which pops "session" and dispatches.
Call(t) ==
  /\ pc[t] = "idle"
  /\ \E s \in Sessions \cup {None} :
       /\ arg' = [arg EXCEPT ![t] = s]
       /\ sid' = [sid EXCEPT ![t] = s]
       /\ Goto(t, IF s = None THEN "list" ELSE "get")
  /\ since' = [since EXCEPT ![t] = {p \in Processes : Live(p)}]
  /\ UNCHANGED <<idaVars, clients, cached, info, client, outcome>>

\* Mutated: the first of several live sessions is taken.
ListPicksAny(t) ==
  /\ pc[t] = "list"
  /\ \/ /\ LiveSessions = {}
        /\ Finish(t, "notfound")
        /\ UNCHANGED sid
     \/ \E s \in LiveSessions :
          /\ sid' = [sid EXCEPT ![t] = s]
          /\ Goto(t, "get")
          /\ UNCHANGED outcome
  /\ UNCHANGED <<idaVars, clients, cached, arg, info, client>>

\* resolve(None): exactly one live session, or an error that says which it was.
\* list_all drops the sidecars of dead processes on the way.
List(t) ==
  /\ pc[t] = "list"
  /\ sidecar' = [s \in Sessions |-> IF s \in LiveSessions THEN sidecar[s] ELSE None]
  /\ \/ /\ Cardinality(LiveSessions) = 0
        /\ Finish(t, "notfound")
        /\ UNCHANGED sid
     \/ /\ Cardinality(LiveSessions) > 1
        /\ Finish(t, "ambiguous")
        /\ UNCHANGED sid
     \/ \E s \in LiveSessions :
          /\ LiveSessions = {s}
          /\ sid' = [sid EXCEPT ![t] = s]
          /\ Goto(t, "get")
          /\ UNCHANGED outcome
  /\ UNCHANGED <<state, port, inbox, busy, clients, cached, arg, info, client>>

\* _get_client: session.get, outside the lock.
Get(t) ==
  /\ pc[t] = "get"
  /\ \/ /\ sid[t] \in LiveSessions
        /\ info' = [info EXCEPT ![t] = sidecar[sid[t]]]
        /\ Goto(t, "lookup")
        /\ UNCHANGED sidecar
     \/ /\ sid[t] \notin LiveSessions
        /\ sidecar' = [sidecar EXCEPT ![sid[t]] = None]
        /\ Goto(t, "pop")
        /\ UNCHANGED info
  /\ UNCHANGED <<state, port, inbox, busy, clients, cached, arg, sid, client,
                 outcome>>

Pop(t) ==                                  \* under _lock
  /\ pc[t] = "pop"
  /\ cached' = [cached EXCEPT ![sid[t]] = 0]
  /\ Finish(t, "notfound")
  /\ UNCHANGED <<idaVars, clients, arg, sid, info, client>>

UseClient(t, c) == client' = [client EXCEPT ![t] = c] /\ Goto(t, "send")

MakeClient(t) ==
  clients' = Append(clients, [session |-> sid[t], port |-> port[info[t]], ids |-> 0])

\* Mutated: a hit is not compared with the sidecar.
LookupTrusting(t) ==
  /\ pc[t] = "lookup"
  /\ \/ /\ cached[sid[t]] # 0
        /\ UseClient(t, cached[sid[t]])
        /\ UNCHANGED <<clients, cached>>
     \/ /\ cached[sid[t]] = 0
        /\ MakeClient(t)
        /\ cached' = [cached EXCEPT ![sid[t]] = Len(clients')]
        /\ UseClient(t, Len(clients'))
  /\ UNCHANGED <<idaVars, arg, sid, info, outcome>>

\* Mutated: a client that was made is not kept.
LookupForgetting(t) ==
  /\ pc[t] = "lookup"
  /\ MakeClient(t)
  /\ UseClient(t, Len(clients'))
  /\ UNCHANGED <<idaVars, cached, arg, sid, info, outcome>>

\* Mutated: the cache is told an index one too far.
LookupOffByOne(t) ==
  /\ pc[t] = "lookup"
  /\ MakeClient(t)
  /\ cached' = [cached EXCEPT ![sid[t]] = Len(clients') + 1]
  /\ UseClient(t, Len(clients'))
  /\ UNCHANGED <<idaVars, arg, sid, info, outcome>>

\* Under _lock: reuse the cached client when it has the port that get saw, else
\* put a new one in its place.
Lookup(t) ==
  /\ pc[t] = "lookup"
  /\ LET hit == cached[sid[t]] # 0 /\ clients[cached[sid[t]]].port = port[info[t]]
     IN \/ /\ hit
           /\ UseClient(t, cached[sid[t]])
           /\ UNCHANGED <<clients, cached>>
        \/ /\ ~hit
           /\ MakeClient(t)
           /\ cached' = [cached EXCEPT ![sid[t]] = Len(clients')]
           /\ UseClient(t, Len(clients'))
  /\ UNCHANGED <<idaVars, arg, sid, info, outcome>>

Invalidate(s) ==                           \* after an explicit close
  /\ s \notin LiveSessions
  /\ cached[s] # 0
  /\ cached' = [cached EXCEPT ![s] = 0]
  /\ UNCHANGED <<idaVars, clients, pc, callVars, since>>

-----------------------------------------------------------------------------
(* IDARpcClient.call.                                                      *)

Listener(q) == {p \in Processes : Running(p) /\ port[p] = q}

\* Take the next request id and connect; refused when nobody listens.
Send(t) ==
  /\ pc[t] = "send"
  /\ clients' = [clients EXCEPT ![client[t]].ids = @ + 1]
  /\ LET q == clients[client[t]].port
     IN \/ /\ Listener(q) = {}
           /\ Finish(t, "transport")
           /\ UNCHANGED inbox
        \/ \E p \in Listener(q) :
             /\ inbox' = [inbox EXCEPT ![p] = Append(@, t)]
             /\ Goto(t, "wait")
             /\ UNCHANGED outcome
  /\ UNCHANGED <<state, port, sidecar, busy, cached, arg, sid, info, client>>

\* The socket times out, or the connection breaks with the process: no answer is
\* read, but a request that was sent stays where it is.
GiveUp(t) ==
  /\ pc[t] = "wait"
  /\ Finish(t, "transport")
  /\ UNCHANGED <<idaVars, clients, cached, arg, sid, info, client>>

\* The call is over and its locals are gone.
Return(t) ==
  /\ pc[t] = "done"
  /\ Goto(t, "over")
  /\ arg' = [arg EXCEPT ![t] = None]
  /\ info' = [info EXCEPT ![t] = None]
  /\ client' = [client EXCEPT ![t] = 0]
  /\ since' = [since EXCEPT ![t] = {}]
  /\ UNCHANGED <<idaVars, clients, cached, sid, outcome>>

-----------------------------------------------------------------------------
(* The IDA processes.                                                      *)

\* Mutated: a fixed port instead of an ephemeral one.
StartOnFixedPort(p) ==
  /\ state[p] = "unborn"
  /\ Listener(1) = {}
  /\ port' = [port EXCEPT ![p] = 1]
  /\ state' = [state EXCEPT ![p] = "up"]
  /\ sidecar' = [sidecar EXCEPT ![SidOf[p]] = p]
  /\ UNCHANGED <<inbox, busy>>

\* Bind an ephemeral port (one that was handed out is not handed out again) and
\* publish it; nobody can know of it in between.
Start(p) ==
  /\ state[p] = "unborn"
  /\ port' = [port EXCEPT ![p] = 1 + Cardinality({q \in Processes : port[q] # NoPort})]
  /\ state' = [state EXCEPT ![p] = "up"]
  /\ sidecar' = [sidecar EXCEPT ![SidOf[p]] = p]
  /\ UNCHANGED <<inbox, busy>>

\* The main thread takes the next connection and runs the tool on it.
Handle(p) ==
  /\ state[p] = "up"
  /\ busy[p] = None
  /\ inbox[p] # <<>>
  /\ busy' = [busy EXCEPT ![p] = Head(inbox[p])]
  /\ inbox' = [inbox EXCEPT ![p] = Tail(@)]
  /\ UNCHANGED <<state, port, sidecar>>

\* The answer is read by a caller that still waits, and lost otherwise.
Answer(p) ==
  /\ state[p] = "up"
  /\ busy[p] # None
  /\ busy' = [busy EXCEPT ![p] = None]
  /\ IF pc[busy[p]] = "wait"
     THEN Finish(busy[p], "answered")
     ELSE UNCHANGED <<pc, outcome>>
  /\ UNCHANGED <<state, port, sidecar, inbox>>

\* The serve loop has ended: nothing more is handled; the sidecar goes first (by
\* id), then the socket with what is in its backlog.
Withdraw(p) ==
  /\ state[p] = "up"
  /\ busy[p] = None
  /\ state' = [state EXCEPT ![p] = "withdrawn"]
  /\ sidecar' = [sidecar EXCEPT ![SidOf[p]] = None]
  /\ UNCHANGED <<port, inbox, busy>>

Die(p) ==                                  \* exit, crash or kill
  /\ Running(p)
  /\ state' = [state EXCEPT ![p] = "dead"]
  /\ inbox' = [inbox EXCEPT ![p] = <<>>]
  /\ busy' = [busy EXCEPT ![p] = None]
  /\ UNCHANGED <<port, sidecar>>

Ida(p) == Start(p) \/ Handle(p) \/ Withdraw(p) \/ Die(p)

-----------------------------------------------------------------------------
Prune == since' = [t \in Workers |->
                     {p \in since[t] : /\ sidecar'[SidOf[p]] = p
                                       /\ state'[p] \in {"up", "withdrawn"}}]

Resolve(t) == List(t) \/ Get(t) \/ Pop(t) \/ Lookup(t)
Step(t)    == Resolve(t) \/ Send(t) \/ GiveUp(t)

Next ==
  \/ \E t \in Workers : Call(t) \/ Return(t)
  \/ \E t \in Workers : Step(t) /\ Prune
  \/ \E s \in Sessions : Invalidate(s)
  \/ \E p \in Processes :
       \/ Ida(p) /\ UNCHANGED <<clients, cached, pc, callVars>> /\ Prune
       \/ Answer(p) /\ UNCHANGED <<clients, cached, arg, sid, info, client>> /\ Prune

Spec == Init /\ [][Next]_vars

-----------------------------------------------------------------------------
(* Properties.                                                             *)

\* A tool never runs in an IDA that has another binary open than the session the
\* call was resolved to, whatever dies or restarts between get and connect.
RanInSession ==
  \A p \in Processes, t \in Workers : busy[p] = t => SidOf[p] = sid[t]

\* A stale client is never used: when the same process has been advertised and
\* alive all through the call, the request reaches that one, even if other calls
\* with older news have put older clients into the cache meanwhile.
SteadySessionReached ==
  \A t \in Workers : \A p \in since[t] :
    pc[t] = "wait" /\ SidOf[p] = sid[t] =>
      \/ busy[p] = t
      \/ \E i \in DOMAIN inbox[p] : inbox[p][i] = t

\* ... nor is it refused, taken for not running, or guessed: with no session given
\* and two sessions live all along, the call is turned down as ambiguous.
SteadySessionsSeen ==
  \A t \in Workers :
    /\ outcome[t] = "notfound" => ~ \E p \in since[t] : sid[t] \in {SidOf[p], None}
    /\ arg[t] = None /\ sid[t] # None => Cardinality({SidOf[p] : p \in since[t]}) <= 1

ClientsOf(s)  == {i \in DOMAIN clients : clients[i].session = s}
TurnedDown(s) == {t \in Workers : sid[t] = s /\ outcome[t] = "notfound"}

\* The request counter of a session survives across calls: while the only process
\* a session ever had is up, each client after the first is the doing of a call that
\* had not found the session yet and dropped the cached client of a later one.
OneClientPerSession ==
  \A p \in Processes :
    Live(p) /\ (\A q \in Processes : SidOf[q] = SidOf[p] /\ q # p => state[q] = "unborn")
      => Cardinality(ClientsOf(SidOf[p])) <= 1 + Cardinality(TurnedDown(SidOf[p]))
=============================================================================

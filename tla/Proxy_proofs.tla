---------------------------- MODULE Proxy_proofs ----------------------------
(***************************************************************************)
(* Proofs about Proxy, for any number of calls, sessions and IDA processes *)
(* that may take each other's place: types, that a tool runs in the        *)
(* session of its call, that a session which is there all along is seen    *)
(* and reached, and how many clients are made for it.                      *)
(***************************************************************************)
EXTENDS Proxy, SequenceTheorems, FiniteSetTheorems, TLAPS

Used == {p \in Processes : port[p] # NoPort}

\* A port is one process's, for good.
PortInv ==
  /\ \A p \in Processes : state[p] = "unborn" <=> port[p] = NoPort
  /\ \A p, q \in Processes : port[p] = port[q] /\ port[p] # NoPort => p = q
  /\ \A p \in Processes : port[p] <= Cardinality(Used)

\* A sidecar describes a process that was started for its session.
SidecarInv ==
  \A s \in Sessions : sidecar[s] # None => SidOf[sidecar[s]] = s /\ state[sidecar[s]] # "unborn"

\* Calls that have made a request, and those that have a client to make it with.
Asked == {t \in Workers : pc[t] \in {"wait", "done", "over"}}
Ready == {t \in Workers : pc[t] \in {"send", "wait", "done", "over"}}

\* A call makes one client and one request at most.
CountInv ==
  /\ Len(clients) <= Cardinality(Ready)
  /\ \A i \in DOMAIN clients : clients[i].ids <= Cardinality(Asked)

\* A client, cached or in use, has the port of a process of its session.
ClientInv ==
  /\ \A i \in DOMAIN clients :
       \E p \in Processes : port[p] = clients[i].port /\ SidOf[p] = clients[i].session
  /\ \A s \in Sessions : cached[s] # 0 => clients[cached[s]].session = s
  /\ \A t \in Workers : pc[t] = "send" => client[t] # 0 /\ clients[client[t]].session = sid[t]

\* What a call has found out so far.
CallInv ==
  \A t \in Workers :
    /\ pc[t] \in {"get", "pop", "lookup", "send"} => sid[t] \in Sessions
    /\ pc[t] = "list" => sid[t] = None
    /\ pc[t] = "lookup" => /\ info[t] \in Processes
                           /\ SidOf[info[t]] = sid[t]
                           /\ port[info[t]] # NoPort
    /\ outcome[t] # "none" => pc[t] \in {"done", "over"}

\* A call that a process has taken, or has in its backlog, is for its session.
ServedInv ==
  \A p \in Processes :
    /\ busy[p] # None => busy[p] \in Asked /\ SidOf[p] = sid[busy[p]]
    /\ \A i \in DOMAIN inbox[p] : inbox[p][i] \in Asked /\ SidOf[p] = sid[inbox[p][i]]

\* Of a process that has been there since the call began, the call knows the latest.
Known(t, p) ==
  /\ Live(p)
  /\ pc[t] = "pop" => sid[t] # SidOf[p]
  /\ pc[t] = "lookup" /\ sid[t] = SidOf[p] => info[t] = p
  /\ pc[t] = "send" /\ sid[t] = SidOf[p] => clients[client[t]].port = port[p]
  /\ outcome[t] = "notfound" => sid[t] \notin {SidOf[p], None}
  /\ arg[t] = None /\ sid[t] # None => sid[t] = SidOf[p]

SinceInv == \A t \in Workers : \A p \in since[t] : Known(t, p)

\* No process but p has been started for p's session.
Sole(p) == \A q \in Processes : SidOf[q] = SidOf[p] /\ q # p => state[q] = "unborn"

\* A client that is no longer cached was dropped by a call that was turned down.
SoleInv ==
  \A p \in Processes :
    Live(p) /\ Sole(p) =>
      Cardinality(ClientsOf(SidOf[p]))
        <= (IF cached[SidOf[p]] = 0 THEN 0 ELSE 1) + Cardinality(TurnedDown(SidOf[p]))

IInv == /\ TypeOK
        /\ PortInv
        /\ SidecarInv
        /\ CountInv
        /\ ClientInv
        /\ CallInv
        /\ ServedInv
        /\ SinceInv
        /\ SteadySessionReached
        /\ SoleInv

-----------------------------------------------------------------------------
(* About the operators of the model.                                       *)

\* Sets of calls and of processes are finite, and count no more than all.
LEMMA Finite ==
  /\ \A S \in SUBSET Workers : IsFiniteSet(S) /\ Cardinality(S) \in Nat
                               /\ Cardinality(S) <= Cardinality(Workers)
  /\ \A S \in SUBSET Processes : IsFiniteSet(S) /\ Cardinality(S) \in Nat
                                 /\ Cardinality(S) <= Cardinality(Processes)
<1>1. \A S \in SUBSET Workers : IsFiniteSet(S) /\ Cardinality(S) <= Cardinality(Workers)
  BY ProxyAssumption, FS_Subset
<1>2. \A S \in SUBSET Processes : IsFiniteSet(S) /\ Cardinality(S) <= Cardinality(Processes)
  BY ProxyAssumption, FS_Subset
<1> QED BY <1>1, <1>2, FS_CardinalityType

\* A set of calls that grows by one counts one more.
LEMMA OneMore ==
  ASSUME NEW S \in SUBSET Workers, NEW t \in Workers \ S
  PROVE  /\ Cardinality(S \cup {t}) = Cardinality(S) + 1
         /\ Cardinality(S) + 1 <= Cardinality(Workers)
<1>1. IsFiniteSet(S)
  BY Finite
<1>2. Cardinality(S \cup {t}) = Cardinality(S) + 1
  BY <1>1, FS_AddElement
<1> QED BY <1>2, Finite

\* A set of calls that grows counts no less.
LEMMA NoFewer ==
  ASSUME NEW S, NEW R \in SUBSET Workers, S \subseteq R
  PROVE  /\ Cardinality(S) \in Nat /\ Cardinality(R) \in Nat
         /\ Cardinality(S) <= Cardinality(R)
<1>1. IsFiniteSet(R)
  BY Finite
<1> QED BY <1>1, Finite, FS_Subset

\* Only processes that stay published and running are kept in the history.
LEMMA Pruned ==
  ASSUME TypeOK, Prune
  PROVE  /\ since' \in [Workers -> SUBSET Processes]
         /\ \A t \in Workers : since'[t] \subseteq since[t]
         /\ \A t \in Workers : \A p \in since'[t] : Live(p)'
BY DEF Prune, TypeOK, Live, Running

\* The process that Live is said of is there, and its session is among the live ones.
LEMMA LiveIs ==
  ASSUME TypeOK, NEW p \in Processes, Live(p)
  PROVE  SidOf[p] \in LiveSessions /\ sidecar[SidOf[p]] = p
BY ProxyAssumption DEF Live, LiveSessions

-----------------------------------------------------------------------------
(* Types.                                                                  *)

\* Looking up the cache makes at most one client, and there is room for it.
LEMMA LookupTypes ==
  ASSUME IInv, NEW t \in Workers, Lookup(t)
  PROVE  /\ clients' \in Seq(Client)
         /\ Len(clients) <= Len(clients') /\ Len(clients') <= Cardinality(Workers)
         /\ cached' \in [Sessions -> 0..Len(clients')]
         /\ client' \in [Workers -> 0..Len(clients')]
<1> USE DEF IInv, TypeOK
<1>1. sid[t] \in Sessions /\ info[t] \in Processes /\ port[info[t]] \in Ports /\ t \notin Ready
  BY DEF CallInv, Lookup, Ready
<1>2. CASE MakeClient(t) /\ cached' = [cached EXCEPT ![sid[t]] = Len(clients')]
           /\ UseClient(t, Len(clients'))
  <2>1. Ready \in SUBSET Workers /\ t \in Workers \ Ready
    BY <1>1 DEF Ready
  <2>a. /\ Cardinality(Ready) + 1 <= Cardinality(Workers)
        /\ Cardinality(Ready) \in Nat /\ Cardinality(Workers) \in Nat
    BY <2>1, OneMore, Finite
  <2>2. Len(clients) + 1 <= Cardinality(Workers)
    BY <2>a DEF CountInv
  <2>3. [session |-> sid[t], port |-> port[info[t]], ids |-> 0] \in Client
    BY <1>1, Finite DEF Client
  <2>4. clients' \in Seq(Client) /\ Len(clients') = Len(clients) + 1
    BY <1>2, <2>3, AppendProperties DEF MakeClient
  <2> QED BY <1>1, <1>2, <2>2, <2>4 DEF UseClient
<1>3. CASE UseClient(t, cached[sid[t]]) /\ UNCHANGED <<clients, cached>>
  BY <1>1, <1>3 DEF UseClient
<1> QED BY <1>2, <1>3 DEF Lookup

\* A request is a call's first.
LEMMA SendTypes ==
  ASSUME IInv, NEW t \in Workers, Send(t)
  PROVE  /\ clients' \in Seq(Client) /\ Len(clients') = Len(clients)
         /\ inbox' \in [Processes -> Seq(Workers)]
<1> USE DEF IInv, TypeOK
<1>1. client[t] \in DOMAIN clients /\ t \notin Asked
  BY DEF ClientInv, Send, Asked
<1>2. clients[client[t]].ids + 1 <= Cardinality(Workers)
  <2>1. Asked \in SUBSET Workers /\ t \in Workers \ Asked
    BY <1>1 DEF Asked
  <2>2. clients[client[t]] \in Client
    BY <1>1
  <2>3. /\ Cardinality(Asked) + 1 <= Cardinality(Workers)
        /\ Cardinality(Asked) \in Nat /\ Cardinality(Workers) \in Nat
    BY <2>1, OneMore, Finite
  <2> QED BY <1>1, <2>2, <2>3 DEF CountInv, Client
<1>3. [clients[client[t]] EXCEPT !.ids = @ + 1] \in Client
  <2> HIDE DEF IInv, TypeOK
  <2>1. clients[client[t]] \in Client /\ Cardinality(Workers) \in Nat
    BY <1>1, Finite DEF IInv, TypeOK
  <2>2. clients[client[t]].ids + 1 \in 0..Cardinality(Workers)
    BY <1>2, <2>1 DEF Client
  <2> QED BY <2>1, <2>2 DEF Client
<1>4. clients' = [clients EXCEPT ![client[t]] = [clients[client[t]] EXCEPT !.ids = @ + 1]]
  BY DEF Send
<1>5. clients' \in Seq(Client) /\ Len(clients') = Len(clients)
  BY <1>1, <1>3, <1>4, ExceptSeq
<1>6. inbox' \in [Processes -> Seq(Workers)]
  <2>1. ASSUME NEW p \in Processes PROVE Append(inbox[p], t) \in Seq(Workers)
    BY AppendProperties
  <2> QED BY <2>1 DEF Send, Listener
<1> QED BY <1>5, <1>6

\* A port that is handed out is one there is.
LEMMA StartPort ==
  ASSUME IInv, NEW p \in Processes, Start(p)
  PROVE  /\ port' = [port EXCEPT ![p] = 1 + Cardinality(Used)]
         /\ 1 + Cardinality(Used) \in Ports
         /\ port[p] = NoPort
<1>1. port[p] = NoPort
  BY DEF Start, IInv, PortInv
<1>2. port' = [port EXCEPT ![p] = 1 + Cardinality(Used)]
  BY DEF Start, Used
<1>3. Used \in SUBSET Processes /\ p \notin Used
  BY <1>1 DEF Used
<1>4. Cardinality(Used \cup {p}) = Cardinality(Used) + 1
  BY <1>3, Finite, FS_AddElement
<1>5. Cardinality(Used \cup {p}) <= Cardinality(Processes) /\ Cardinality(Used) \in Nat
      /\ Cardinality(Processes) \in Nat
  BY <1>3, Finite
<1> QED BY <1>1, <1>2, <1>4, <1>5 DEF Ports

\* What a worker does keeps the types.
LEMMA WorkerTypes ==
  ASSUME IInv, NEW t \in Workers, Call(t) \/ Return(t) \/ (Step(t) /\ Prune)
  PROVE  TypeOK'
<1> USE DEF IInv, Goto, Finish, idaVars
<1>1. CASE Call(t)
  BY <1>1 DEF TypeOK, Call, Pcs
<1>2. CASE Return(t)
  BY <1>2 DEF TypeOK, Return, Pcs
<1>3. ASSUME Prune PROVE since' \in [Workers -> SUBSET Processes]
  BY <1>3, Pruned
<1>4. CASE List(t) /\ Prune
  BY <1>3, <1>4 DEF TypeOK, List, LiveSessions, Pcs, Outcomes
<1>5. CASE Get(t) /\ Prune
  BY <1>3, <1>5 DEF TypeOK, Get, LiveSessions, Pcs
<1>6. CASE Pop(t) /\ Prune
  <2>1. sid[t] \in Sessions
    BY <1>6 DEF CallInv, Pop
  <2> QED BY <1>3, <1>6, <2>1 DEF TypeOK, Pop, Pcs, Outcomes
<1>7. CASE Lookup(t) /\ Prune
  <2>1. pc' \in [Workers -> Pcs]
    BY <1>7 DEF TypeOK, Lookup, UseClient, Pcs
  <2> QED BY <1>3, <1>7, <2>1, LookupTypes DEF TypeOK, Lookup
<1>8. CASE Send(t) /\ Prune
  <2>1. pc' \in [Workers -> Pcs] /\ outcome' \in [Workers -> Outcomes]
    BY <1>8 DEF TypeOK, Send, Pcs, Outcomes
  <2> QED BY <1>3, <1>8, <2>1, SendTypes DEF TypeOK, Send
<1>9. CASE GiveUp(t) /\ Prune
  BY <1>3, <1>9 DEF TypeOK, GiveUp, Pcs, Outcomes
<1> QED BY <1>1, <1>2, <1>4, <1>5, <1>6, <1>7, <1>8, <1>9 DEF Step, Resolve

\* What a process does keeps the types.
LEMMA ProcessTypes ==
  ASSUME IInv, NEW p \in Processes, Prune,
         \/ Ida(p) /\ UNCHANGED <<clients, cached, pc, callVars>>
         \/ Answer(p) /\ UNCHANGED <<clients, cached, arg, sid, info, client>>
  PROVE  TypeOK'
<1> USE DEF IInv, callVars
<1>1. since' \in [Workers -> SUBSET Processes]
  BY Pruned
<1>2. SidOf \in [Processes -> Sessions]
  BY ProxyAssumption
<1>3. CASE Start(p) /\ UNCHANGED <<clients, cached, pc, callVars>>
  BY <1>1, <1>2, <1>3, StartPort DEF TypeOK, Start, States
<1>4. CASE Handle(p) /\ UNCHANGED <<clients, cached, pc, callVars>>
  <2>1. Head(inbox[p]) \in Workers /\ Tail(inbox[p]) \in Seq(Workers)
    BY <1>4, HeadTailProperties DEF TypeOK, Handle
  <2> QED BY <1>1, <1>4, <2>1 DEF TypeOK, Handle
<1>5. CASE Withdraw(p) /\ UNCHANGED <<clients, cached, pc, callVars>>
  BY <1>1, <1>2, <1>5 DEF TypeOK, Withdraw, States
<1>6. CASE Die(p) /\ UNCHANGED <<clients, cached, pc, callVars>>
  <2>1. <<>> \in Seq(Workers)
    BY EmptySeq
  <2> QED BY <1>1, <1>6, <2>1 DEF TypeOK, Die, States
<1>7. CASE Answer(p) /\ UNCHANGED <<clients, cached, arg, sid, info, client>>
  BY <1>1, <1>7 DEF TypeOK, Answer, Finish, Goto, Pcs, Outcomes
<1> QED BY <1>3, <1>4, <1>5, <1>6, <1>7 DEF Ida

\* Every step keeps the types.
LEMMA TypesKept ==
  ASSUME IInv, Next
  PROVE  TypeOK'
<1>1. ASSUME NEW s \in Sessions, Invalidate(s) PROVE TypeOK'
  BY <1>1 DEF IInv, TypeOK, Invalidate, idaVars, callVars
<1> QED BY <1>1, WorkerTypes, ProcessTypes DEF Next

-----------------------------------------------------------------------------
(* What a step leaves alone.                                               *)

\* A worker changes nothing of a process but its backlog and a sidecar that is out
\* of date, and nothing of another call; and a call that has asked goes no way back.
LEMMA WorkerFrame ==
  ASSUME IInv, NEW t \in Workers, Call(t) \/ Return(t) \/ Step(t)
  PROVE  /\ UNCHANGED <<state, port, busy>>
         /\ \A u \in Workers \ {t} :
              /\ pc'[u] = pc[u] /\ arg'[u] = arg[u] /\ sid'[u] = sid[u]
              /\ info'[u] = info[u] /\ client'[u] = client[u] /\ outcome'[u] = outcome[u]
         /\ t \in Asked => pc'[t] \in {"wait", "done", "over"} /\ sid'[t] = sid[t]
         /\ t \in Ready => pc'[t] \in {"send", "wait", "done", "over"}
<1> USE DEF IInv, TypeOK, idaVars, Goto, Finish, Asked, Ready
<1>1. CASE Call(t)
  BY <1>1 DEF Call
<1>2. CASE Return(t)
  BY <1>2 DEF Return
<1>3. CASE List(t)
  BY <1>3 DEF List
<1>4. CASE Get(t)
  BY <1>4 DEF Get
<1>5. CASE Pop(t)
  BY <1>5 DEF Pop
<1>6. CASE Lookup(t)
  BY <1>6 DEF Lookup, UseClient
<1>7. CASE Send(t)
  BY <1>7 DEF Send
<1>8. CASE GiveUp(t)
  BY <1>8 DEF GiveUp
<1> QED BY <1>1, <1>2, <1>3, <1>4, <1>5, <1>6, <1>7, <1>8 DEF Step, Resolve

\* A process changes nothing of a call but the end of one that waits for it.
LEMMA ProcessFrame ==
  ASSUME IInv, NEW p \in Processes,
         \/ Ida(p) /\ UNCHANGED <<clients, cached, pc, callVars>>
         \/ Answer(p) /\ UNCHANGED <<clients, cached, arg, sid, info, client>>
  PROVE  /\ UNCHANGED <<clients, cached, arg, sid, info, client>>
         /\ \A t \in Workers :
              \/ pc'[t] = pc[t] /\ outcome'[t] = outcome[t]
              \/ pc[t] = "wait" /\ pc'[t] = "done" /\ outcome'[t] = "answered"
<1>1. CASE Ida(p) /\ UNCHANGED <<clients, cached, pc, callVars>>
  BY <1>1 DEF callVars
<1>2. CASE Answer(p) /\ UNCHANGED <<clients, cached, arg, sid, info, client>>
  BY <1>2 DEF Answer, Finish, Goto, IInv, TypeOK
<1> QED BY <1>1, <1>2

\* A call that has asked, or can, stays so.
LEMMA Onward ==
  ASSUME IInv, Next
  PROVE  /\ Asked \subseteq Asked' /\ Ready \subseteq Ready'
         /\ \A t \in Asked : sid'[t] = sid[t]
<1>1. ASSUME NEW t \in Workers, Call(t) \/ Return(t) \/ Step(t)
      PROVE  /\ Asked \subseteq Asked' /\ Ready \subseteq Ready'
             /\ \A u \in Asked : sid'[u] = sid[u]
  BY <1>1, WorkerFrame DEF Asked, Ready
<1>2. ASSUME NEW p \in Processes,
             \/ Ida(p) /\ UNCHANGED <<clients, cached, pc, callVars>>
             \/ Answer(p) /\ UNCHANGED <<clients, cached, arg, sid, info, client>>
      PROVE  /\ Asked \subseteq Asked' /\ Ready \subseteq Ready'
             /\ \A u \in Asked : sid'[u] = sid[u]
  BY <1>2, ProcessFrame DEF Asked, Ready
<1>3. ASSUME NEW s \in Sessions, Invalidate(s)
      PROVE  /\ Asked \subseteq Asked' /\ Ready \subseteq Ready'
             /\ \A u \in Asked : sid'[u] = sid[u]
  BY <1>3 DEF Invalidate, callVars, Asked, Ready
<1> QED BY <1>1, <1>2, <1>3 DEF Next

-----------------------------------------------------------------------------
(* Ports and sidecars.                                                     *)

\* A process that starts takes a port above all that were taken.
LEMMA PortsKept ==
  ASSUME IInv, Next
  PROVE  PortInv'
<1> USE DEF IInv, PortInv
<1>1. CASE UNCHANGED <<state, port>>
  BY <1>1 DEF Used
<1>2. ASSUME NEW p \in Processes, Start(p) PROVE PortInv'
  <2> DEFINE n == Cardinality(Used)
  <2>1. port' = [port EXCEPT ![p] = 1 + n] /\ port[p] = NoPort
    BY <1>2, StartPort
  <2>2. state' = [state EXCEPT ![p] = "up"]
    BY <1>2 DEF Start
  <2>3. Used \in SUBSET Processes /\ p \notin Used
    BY <2>1 DEF Used
  <2>4. n \in Nat
    BY <2>3, Finite
  <2>5. Used' = Used \cup {p}
    <3> HIDE DEF n
    <3>1. 1 + n # NoPort
      BY <2>4 DEF NoPort
    <3>2. port'[p] # NoPort /\ \A q \in Processes \ {p} : port'[q] = port[q]
      BY <2>1, <3>1 DEF TypeOK
    <3> QED BY <3>2 DEF Used
  <2>6. Cardinality(Used') = n + 1
    BY <2>3, <2>5, Finite, FS_AddElement
  <2>7. \A q \in Processes : port[q] \in Nat /\ port[q] <= n
    BY DEF TypeOK, Ports, NoPort
  <2> HIDE DEF n
  <2>8. \A q \in Processes : port'[q] \in Nat /\ port'[q] <= n + 1
    BY <2>1, <2>4, <2>7 DEF TypeOK
  <2>9. \A q \in Processes : (state'[q] = "unborn") <=> (port'[q] = NoPort)
    BY <2>1, <2>2, <2>4 DEF TypeOK, NoPort
  <2>10. \A q, r \in Processes : port'[q] = port'[r] /\ port'[q] # NoPort => q = r
    BY <2>1, <2>4, <2>7 DEF TypeOK
  <2> QED BY <2>6, <2>8, <2>9, <2>10
<1>3. ASSUME NEW p \in Processes, Withdraw(p) \/ Die(p) PROVE PortInv'
  <2>1. port' = port /\ Used' = Used
    BY <1>3 DEF Withdraw, Die, Used
  <2>2. \A q \in Processes : (state'[q] = "unborn") <=> (state[q] = "unborn")
    BY <1>3 DEF Withdraw, Die, Running, TypeOK
  <2> QED BY <2>1, <2>2
<1>4. ASSUME NEW p \in Processes, Handle(p) \/ Answer(p) PROVE UNCHANGED <<state, port>>
  BY <1>4 DEF Handle, Answer
<1>5. ASSUME NEW s \in Sessions, Invalidate(s) PROVE UNCHANGED <<state, port>>
  BY <1>5 DEF Invalidate, idaVars
<1> QED BY <1>1, <1>2, <1>3, <1>4, <1>5, WorkerFrame DEF Next, Ida

\* A process publishes itself under its own session; the rest only takes sidecars away.
LEMMA SidecarsKept ==
  ASSUME IInv, Next
  PROVE  SidecarInv'
<1> USE DEF IInv, SidecarInv
<1>1. ASSUME \A s \in Sessions : sidecar'[s] \in {sidecar[s], None},
             \A p \in Processes : state[p] # "unborn" => state'[p] # "unborn"
      PROVE  SidecarInv'
  BY <1>1 DEF TypeOK
<1>2. ASSUME NEW p \in Processes, Start(p) PROVE SidecarInv'
  BY <1>2, ProxyAssumption DEF Start, TypeOK
<1>3. ASSUME NEW p \in Processes, Handle(p) \/ Withdraw(p) \/ Die(p) \/ Answer(p)
      PROVE  SidecarInv'
  <2>1. \A s \in Sessions : sidecar'[s] \in {sidecar[s], None}
    BY <1>3, ProxyAssumption DEF Handle, Withdraw, Die, Answer, TypeOK
  <2>2. \A q \in Processes : state[q] # "unborn" => state'[q] # "unborn"
    BY <1>3 DEF Handle, Withdraw, Die, Answer, TypeOK
  <2> QED BY <1>1, <2>1, <2>2
<1>4. ASSUME NEW t \in Workers, Call(t) \/ Return(t) \/ Step(t) PROVE SidecarInv'
  <2>1. \A s \in Sessions : sidecar'[s] \in {sidecar[s], None}
    BY <1>4 DEF Call, Return, Step, Resolve, List, Get, Pop, Lookup, Send, GiveUp, idaVars,
                CallInv, TypeOK
  <2> QED BY <1>1, <1>4, <2>1, WorkerFrame
<1>5. ASSUME NEW s \in Sessions, Invalidate(s) PROVE SidecarInv'
  BY <1>5 DEF Invalidate, idaVars
<1> QED BY <1>2, <1>3, <1>4, <1>5 DEF Next, Ida

-----------------------------------------------------------------------------
(* Clients.                                                                *)

\* A look-up makes a client for the session and the port that get saw, or finds one.
LEMMA LookupEffect ==
  ASSUME IInv, NEW t \in Workers, Lookup(t)
  PROVE  /\ sid[t] \in Sessions /\ info[t] \in Processes /\ SidOf[info[t]] = sid[t]
         /\ pc'[t] = "send" /\ client'[t] \in DOMAIN clients'
         /\ clients'[client'[t]].session = sid[t]
         /\ clients'[client'[t]].port = port[info[t]]
         /\ \/ UNCHANGED <<clients, cached>>
            \/ /\ cached[sid[t]] = 0 \/ clients[cached[sid[t]]].port # port[info[t]]
               /\ Len(clients') = Len(clients) + 1
               /\ \A i \in DOMAIN clients : clients'[i] = clients[i]
               /\ clients'[Len(clients) + 1] =
                    [session |-> sid[t], port |-> port[info[t]], ids |-> 0]
               /\ cached' = [cached EXCEPT ![sid[t]] = Len(clients) + 1]
<1> USE DEF IInv, TypeOK
<1>1. sid[t] \in Sessions /\ info[t] \in Processes /\ SidOf[info[t]] = sid[t]
      /\ port[info[t]] \in Ports
  BY DEF CallInv, Lookup
<1> DEFINE new == [session |-> sid[t], port |-> port[info[t]], ids |-> 0]
<1>2. new \in Client
  BY <1>1, Finite DEF Client
<1>3. CASE /\ cached[sid[t]] # 0 /\ clients[cached[sid[t]]].port = port[info[t]]
           /\ UseClient(t, cached[sid[t]]) /\ UNCHANGED <<clients, cached>>
  BY <1>1, <1>3 DEF ClientInv, UseClient, Goto
<1>4. CASE /\ cached[sid[t]] = 0 \/ clients[cached[sid[t]]].port # port[info[t]]
           /\ MakeClient(t) /\ cached' = [cached EXCEPT ![sid[t]] = Len(clients')]
           /\ UseClient(t, Len(clients'))
  <2>1. clients' = Append(clients, new)
    BY <1>4 DEF MakeClient
  <2> HIDE DEF new
  <2>2. /\ clients' \in Seq(Client) /\ Len(clients') = Len(clients) + 1
        /\ \A i \in DOMAIN clients : clients'[i] = clients[i]
        /\ clients'[Len(clients) + 1] = new
    BY <1>2, <2>1, AppendProperties
  <2>3. pc'[t] = "send" /\ client'[t] = Len(clients) + 1 /\ Len(clients) \in Nat
    BY <1>4, <2>2 DEF UseClient, Goto
  <2> QED BY <1>1, <1>4, <2>2, <2>3 DEF new
<1> QED BY <1>3, <1>4 DEF Lookup

\* A request takes the client's next id.
LEMMA SendEffect ==
  ASSUME IInv, NEW t \in Workers, Send(t)
  PROVE  /\ Len(clients') = Len(clients) /\ client[t] \in DOMAIN clients
         /\ \A i \in DOMAIN clients :
              /\ clients'[i].session = clients[i].session
              /\ clients'[i].port = clients[i].port
              /\ clients'[i].ids <= clients[i].ids + 1
         /\ t \notin Asked /\ t \in Asked'
<1> USE DEF IInv, TypeOK
<1>1. client[t] \in DOMAIN clients /\ t \notin Asked
  BY DEF ClientInv, Send, Asked
<1>2. t \in Asked'
  BY DEF Send, Asked, Goto, Finish
<1>3. clients' = [clients EXCEPT ![client[t]] = [clients[client[t]] EXCEPT !.ids = @ + 1]]
  BY DEF Send
<1>4. ASSUME NEW r \in Client
      PROVE  LET n == [r EXCEPT !.ids = @ + 1]
             IN  n.session = r.session /\ n.port = r.port /\ n.ids = r.ids + 1 /\ r.ids \in Nat
  <2> HIDE DEF IInv, TypeOK
  <2> QED BY Finite DEF Client
<1>5. [clients[client[t]] EXCEPT !.ids = @ + 1] \in Client
  <2>1. clients' \in Seq(Client) /\ Len(clients') = Len(clients)
    BY SendTypes
  <2> QED BY <1>1, <1>3, <2>1
<1>6. /\ Len(clients') = Len(clients)
      /\ \A i \in DOMAIN clients :
           clients'[i] = IF i = client[t] THEN [clients[client[t]] EXCEPT !.ids = @ + 1]
                                          ELSE clients[i]
  BY <1>1, <1>3, <1>5, ExceptSeq
<1>7. ASSUME NEW i \in DOMAIN clients
      PROVE  /\ clients'[i].session = clients[i].session
             /\ clients'[i].port = clients[i].port
             /\ clients'[i].ids <= clients[i].ids + 1
  <2>1. clients[i] \in Client
    OBVIOUS
  <2> HIDE DEF IInv, TypeOK
  <2>2. clients[i].ids <= clients[i].ids + 1
    BY <1>4, <2>1
  <2>3. CASE i = client[t]
    <3> DEFINE r == clients[i]
    <3>1. clients'[i] = [r EXCEPT !.ids = @ + 1]
      BY <1>6, <2>3
    <3>2. r \in Client
      BY <2>1
    <3> HIDE DEF r
    <3>3. LET n == [r EXCEPT !.ids = @ + 1]
          IN  n.session = r.session /\ n.port = r.port /\ n.ids = r.ids + 1 /\ r.ids \in Nat
      BY <1>4, <3>2
    <3>4. /\ clients'[i].session = r.session /\ clients'[i].port = r.port
          /\ clients'[i].ids <= r.ids + 1
      BY <3>1, <3>3
    <3> QED BY <3>4 DEF r
  <2>4. CASE i # client[t]
    BY <1>6, <2>2, <2>4
  <2> QED BY <2>3, <2>4
<1> QED BY <1>1, <1>2, <1>6, <1>7

\* Nothing else makes or changes a client.
LEMMA SameClients ==
  ASSUME IInv, Next, \A t \in Workers : ~Lookup(t) /\ ~Send(t)
  PROVE  /\ clients' = clients
         /\ \A s \in Sessions : cached'[s] \in {cached[s], 0}
         /\ \A t \in Workers : pc'[t] = "send" => pc[t] = "send" /\ client'[t] = client[t]
                                                  /\ sid'[t] = sid[t]
<1> USE DEF IInv, TypeOK
<1>1. ASSUME NEW t \in Workers, Call(t) \/ Return(t) \/ List(t) \/ Get(t) \/ Pop(t) \/ GiveUp(t)
      PROVE  /\ clients' = clients /\ pc'[t] # "send"
             /\ \A s \in Sessions : cached'[s] \in {cached[s], 0}
  <2>1. clients' = clients /\ pc'[t] # "send"
    BY <1>1 DEF Call, Return, List, Get, Pop, GiveUp, Goto, Finish
  <2>2. \A s \in Sessions : cached'[s] \in {cached[s], 0}
    BY <1>1 DEF Call, Return, List, Get, Pop, GiveUp
  <2> QED BY <2>1, <2>2
<1>2. CASE \E t \in Workers : Call(t) \/ Return(t) \/ Step(t)
  BY <1>1, <1>2, WorkerFrame DEF Step, Resolve
<1>3. CASE \E s \in Sessions : Invalidate(s)
  BY <1>3 DEF Invalidate, callVars
<1>4. ASSUME NEW p \in Processes,
             \/ Ida(p) /\ UNCHANGED <<clients, cached, pc, callVars>>
             \/ Answer(p) /\ UNCHANGED <<clients, cached, arg, sid, info, client>>
      PROVE  /\ UNCHANGED <<clients, cached, client, sid>>
             /\ \A t \in Workers : pc'[t] = "send" => pc[t] = "send"
  BY <1>4, ProcessFrame
<1> QED BY <1>2, <1>3, <1>4 DEF Next

\* The counts keep up with the calls.
LEMMA CountsKept ==
  ASSUME IInv, Next
  PROVE  CountInv'
<1>1. /\ Ready \in SUBSET Workers /\ Ready' \in SUBSET Workers /\ Ready \subseteq Ready'
      /\ Asked \in SUBSET Workers /\ Asked' \in SUBSET Workers /\ Asked \subseteq Asked'
  BY Onward DEF Ready, Asked
<1>2. /\ Cardinality(Ready) \in Nat /\ Cardinality(Ready') \in Nat
      /\ Cardinality(Ready) <= Cardinality(Ready')
      /\ Cardinality(Asked) \in Nat /\ Cardinality(Asked') \in Nat
      /\ Cardinality(Asked) <= Cardinality(Asked')
  BY <1>1, NoFewer
<1>3. /\ Len(clients) \in Nat /\ DOMAIN clients = 1..Len(clients)
      /\ clients' \in Seq(Client) /\ DOMAIN clients' = 1..Len(clients')
      /\ \A i \in DOMAIN clients : clients[i] \in Client
  BY TypesKept DEF IInv, TypeOK
<1>4. /\ Len(clients) <= Cardinality(Ready)
      /\ \A i \in DOMAIN clients : clients[i].ids \in Nat /\ clients[i].ids <= Cardinality(Asked)
  BY <1>3, Finite DEF IInv, CountInv, Client
<1>5. ASSUME NEW t \in Workers, Lookup(t) PROVE CountInv'
  <2>1. t \in Workers \ Ready /\ t \in Ready'
    BY <1>5, LookupEffect DEF Lookup, Ready
  <2>2. Cardinality(Ready \cup {t}) = Cardinality(Ready) + 1
    BY <1>1, <2>1, OneMore
  <2>3. Cardinality(Ready \cup {t}) <= Cardinality(Ready')
    BY <1>1, <2>1, NoFewer
  <2>4. CASE UNCHANGED <<clients, cached>>
    BY <1>2, <1>3, <1>4, <2>4 DEF CountInv
  <2>5. CASE /\ Len(clients') = Len(clients) + 1
             /\ \A i \in DOMAIN clients : clients'[i] = clients[i]
             /\ clients'[Len(clients) + 1] =
                  [session |-> sid[t], port |-> port[info[t]], ids |-> 0]
    BY <1>2, <1>3, <1>4, <2>2, <2>3, <2>5 DEF CountInv
  <2> QED BY <1>5, <2>4, <2>5, LookupEffect
<1>6. ASSUME NEW t \in Workers, Send(t) PROVE CountInv'
  <2>1. t \in Workers \ Asked /\ t \in Asked'
    BY <1>6, SendEffect
  <2>2. Cardinality(Asked \cup {t}) = Cardinality(Asked) + 1
    BY <1>1, <2>1, OneMore
  <2>3. Cardinality(Asked \cup {t}) <= Cardinality(Asked')
    BY <1>1, <2>1, NoFewer
  <2>4. /\ Len(clients') = Len(clients)
        /\ \A i \in DOMAIN clients : clients'[i].ids <= clients[i].ids + 1
    BY <1>6, SendEffect
  <2>5. ASSUME NEW i \in DOMAIN clients' PROVE clients'[i].ids \in Nat
    <3>1. clients'[i] \in Client
      BY <1>3
    <3> QED BY <3>1, Finite DEF Client
  <2> QED BY <1>2, <1>3, <1>4, <2>2, <2>3, <2>4, <2>5 DEF CountInv
<1>7. CASE \A t \in Workers : ~Lookup(t) /\ ~Send(t)
  BY <1>2, <1>3, <1>4, <1>7, SameClients DEF CountInv
<1> QED BY <1>5, <1>6, <1>7

\* Who has a port keeps it.
LEMMA PortsStay ==
  ASSUME IInv, Next, NEW p \in Processes, port[p] # NoPort
  PROVE  port'[p] = port[p]
<1>1. ASSUME NEW q \in Processes, Start(q) PROVE port'[p] = port[p]
  BY <1>1, StartPort DEF IInv, TypeOK
<1>2. ASSUME NEW q \in Processes, Handle(q) \/ Withdraw(q) \/ Die(q) \/ Answer(q)
      PROVE  port'[p] = port[p]
  BY <1>2 DEF Handle, Withdraw, Die, Answer
<1>3. ASSUME NEW s \in Sessions, Invalidate(s) PROVE port'[p] = port[p]
  BY <1>3 DEF Invalidate, idaVars
<1> QED BY <1>1, <1>2, <1>3, WorkerFrame DEF Next, Ida

\* A client stays one of its session's.
LEMMA ClientsKept ==
  ASSUME IInv, Next
  PROVE  ClientInv'
<1>1. /\ DOMAIN clients = 1..Len(clients) /\ Len(clients) \in Nat
      /\ \A i \in DOMAIN clients : clients[i].port # NoPort
      /\ DOMAIN clients' = 1..Len(clients')
      /\ \A s \in Sessions : cached[s] \in 0..Len(clients)
      /\ \A u \in Workers : client[u] \in 0..Len(clients)
  <2>1. \A i \in DOMAIN clients : clients[i] \in Client
    BY DEF IInv, TypeOK
  <2> QED BY <2>1, TypesKept DEF IInv, TypeOK, Client, Ports, NoPort
<1>2. /\ \A i \in DOMAIN clients :
           \E p \in Processes : port[p] = clients[i].port /\ SidOf[p] = clients[i].session
      /\ \A s \in Sessions : cached[s] # 0 => clients[cached[s]].session = s
      /\ \A u \in Workers : pc[u] = "send" => client[u] # 0 /\ clients[client[u]].session = sid[u]
  BY DEF IInv, ClientInv
<1>3. \A i \in DOMAIN clients :
        \E p \in Processes : port'[p] = clients[i].port /\ SidOf[p] = clients[i].session
  BY <1>1, <1>2, PortsStay
<1>4. ASSUME NEW t \in Workers, Lookup(t) PROVE ClientInv'
  <2>1. /\ sid[t] \in Sessions /\ info[t] \in Processes /\ SidOf[info[t]] = sid[t]
        /\ pc'[t] = "send" /\ client'[t] \in DOMAIN clients'
        /\ clients'[client'[t]].session = sid[t]
    BY <1>4, LookupEffect
  <2>2. port' = port /\ sid' = sid
    BY <1>4 DEF Lookup, idaVars
  <2>3. \A u \in Workers \ {t} : pc'[u] = pc[u] /\ client'[u] = client[u]
    BY <1>4, WorkerFrame DEF Step, Resolve
  <2>4. CASE UNCHANGED <<clients, cached>>
    BY <1>1, <1>2, <2>1, <2>2, <2>3, <2>4 DEF ClientInv
  <2>5. CASE /\ Len(clients') = Len(clients) + 1
             /\ \A i \in DOMAIN clients : clients'[i] = clients[i]
             /\ clients'[Len(clients) + 1] =
                  [session |-> sid[t], port |-> port[info[t]], ids |-> 0]
             /\ cached' = [cached EXCEPT ![sid[t]] = Len(clients) + 1]
    <3>1. \A i \in DOMAIN clients' :
            \E p \in Processes : port'[p] = clients'[i].port /\ SidOf[p] = clients'[i].session
      BY <1>1, <1>2, <2>1, <2>2, <2>5
    <3>2. \A s \in Sessions : cached'[s] # 0 => clients'[cached'[s]].session = s
      BY <1>1, <1>2, <2>1, <2>5 DEF IInv, TypeOK
    <3>3. \A u \in Workers : pc'[u] = "send" => client'[u] # 0
                                                /\ clients'[client'[u]].session = sid'[u]
      BY <1>1, <1>2, <2>1, <2>2, <2>3, <2>5
    <3> QED BY <3>1, <3>2, <3>3 DEF ClientInv
  <2> QED BY <1>4, <2>4, <2>5, LookupEffect
<1>5. ASSUME NEW t \in Workers, Send(t) PROVE ClientInv'
  <2>1. /\ Len(clients') = Len(clients)
        /\ \A i \in DOMAIN clients : clients'[i].session = clients[i].session
                                     /\ clients'[i].port = clients[i].port
    BY <1>5, SendEffect
  <2>2. cached' = cached /\ sid' = sid /\ client' = client /\ pc'[t] # "send"
        /\ \A u \in Workers \ {t} : pc'[u] = pc[u]
    BY <1>5 DEF Send, Goto, Finish, IInv, TypeOK
  <2> QED BY <1>1, <1>2, <1>3, <2>1, <2>2 DEF ClientInv
<1>6. CASE \A t \in Workers : ~Lookup(t) /\ ~Send(t)
  BY <1>1, <1>2, <1>3, <1>6, SameClients DEF ClientInv
<1> QED BY <1>4, <1>5, <1>6

-----------------------------------------------------------------------------
(* Calls.                                                                  *)

\* A call goes on with the session, the process and the client that it found.
LEMMA CallsKept ==
  ASSUME IInv, Next
  PROVE  CallInv'
<1> DEFINE Knows(t) == /\ pc[t] \in {"get", "pop", "lookup", "send"} => sid[t] \in Sessions
                       /\ pc[t] = "list" => sid[t] = None
                       /\ pc[t] = "lookup" => /\ info[t] \in Processes
                                              /\ SidOf[info[t]] = sid[t]
                                              /\ port[info[t]] # NoPort
                       /\ outcome[t] # "none" => pc[t] \in {"done", "over"}
<1>1. \A t \in Workers : Knows(t)
  BY DEF IInv, CallInv
<1>2. ASSUME NEW t \in Workers, pc'[t] = pc[t], sid'[t] = sid[t], info'[t] = info[t],
             outcome'[t] = outcome[t]
      PROVE  Knows(t)'
  BY <1>1, <1>2, PortsStay
<1>3. ASSUME NEW t \in Workers, Call(t) \/ Return(t) \/ Step(t) PROVE Knows(t)'
  <2> USE DEF IInv, TypeOK, Goto, Finish
  <2>1. CASE Call(t)
    BY <1>1, <2>1 DEF Call
  <2>2. CASE Return(t)
    BY <1>1, <2>2 DEF Return
  <2>3. CASE List(t)
    BY <1>1, <2>3 DEF List, LiveSessions
  <2>4. CASE Get(t)
    <3>1. CASE sid[t] \in LiveSessions /\ info' = [info EXCEPT ![t] = sidecar[sid[t]]]
               /\ pc' = [pc EXCEPT ![t] = "lookup"]
      <4>1. sidecar[sid[t]] \in Processes /\ SidOf[sidecar[sid[t]]] = sid[t]
            /\ port[sidecar[sid[t]]] # NoPort
        BY <3>1 DEF LiveSessions, SidecarInv, PortInv, Running
      <4> QED BY <1>1, <2>4, <3>1, <4>1 DEF Get
    <3>2. CASE pc' = [pc EXCEPT ![t] = "pop"]
      BY <1>1, <2>4, <3>2 DEF Get
    <3> QED BY <2>4, <3>1, <3>2 DEF Get
  <2>5. CASE Pop(t)
    BY <1>1, <2>5 DEF Pop
  <2>6. CASE Lookup(t)
    BY <1>1, <2>6 DEF Lookup, UseClient
  <2>7. CASE Send(t)
    BY <1>1, <2>7 DEF Send
  <2>8. CASE GiveUp(t)
    BY <1>1, <2>8 DEF GiveUp
  <2> QED BY <1>3, <2>1, <2>2, <2>3, <2>4, <2>5, <2>6, <2>7, <2>8 DEF Step, Resolve
<1>4. ASSUME NEW p \in Processes,
             \/ Ida(p) /\ UNCHANGED <<clients, cached, pc, callVars>>
             \/ Answer(p) /\ UNCHANGED <<clients, cached, arg, sid, info, client>>,
             NEW t \in Workers
      PROVE  Knows(t)'
  <2>1. CASE pc'[t] = pc[t] /\ outcome'[t] = outcome[t]
    BY <1>2, <1>4, <2>1, ProcessFrame
  <2>2. CASE pc'[t] = "done"
    BY <2>2
  <2> QED BY <1>4, <2>1, <2>2, ProcessFrame
<1>5. ASSUME NEW s \in Sessions, Invalidate(s), NEW t \in Workers PROVE Knows(t)'
  BY <1>2, <1>5 DEF Invalidate, callVars
<1>6. ASSUME NEW t \in Workers, Call(t) \/ Return(t) \/ Step(t), NEW u \in Workers
      PROVE  Knows(u)'
  <2>1. CASE u = t
    BY <1>3, <1>6, <2>1
  <2>2. CASE u # t
    BY <1>2, <1>6, <2>2, WorkerFrame
  <2> QED BY <2>1, <2>2
<1>7. \A t \in Workers : Knows(t)'
  BY <1>4, <1>5, <1>6 DEF Next
<1> QED BY <1>7 DEF CallInv

\* A connection is made to a process of the call's session.
LEMMA ServedKept ==
  ASSUME IInv, Next
  PROVE  ServedInv'
<1> USE DEF IInv
<1> DEFINE Fit(p, t) == t \in Asked /\ SidOf[p] = sid[t]
<1> DEFINE Fits(p, t) == t \in Asked' /\ SidOf[p] = sid'[t]
<1>1. \A p \in Processes : \A t : Fit(p, t) => Fits(p, t)
  BY Onward
<1>2. \A p \in Processes : /\ busy[p] # None => Fit(p, busy[p])
                           /\ \A i \in DOMAIN inbox[p] : Fit(p, inbox[p][i])
  BY DEF ServedInv
<1>3. None \notin Workers /\ \A p \in Processes : inbox[p] \in Seq(Workers)
  BY ProxyAssumption DEF TypeOK
<1>a. ASSUME \A p \in Processes :
                /\ busy'[p] # None => Fits(p, busy'[p])
                /\ \A i \in DOMAIN inbox'[p] : Fits(p, inbox'[p][i])
      PROVE  ServedInv'
  BY <1>a DEF ServedInv
<1> HIDE DEF Fit, Fits
<1>4. ASSUME \A p \in Processes : busy'[p] \in {busy[p], None} /\ inbox'[p] = inbox[p]
      PROVE  ServedInv'
  BY <1>1, <1>2, <1>a, <1>4
<1>5. ASSUME NEW t \in Workers, Send(t) PROVE ServedInv'
  <2>1. CASE UNCHANGED inbox
    BY <1>4, <1>5, <2>1 DEF Send
  <2>2. ASSUME NEW p \in Listener(clients[client[t]].port),
               inbox' = [inbox EXCEPT ![p] = Append(@, t)]
        PROVE  ServedInv'
    <3>1. p \in Processes /\ Running(p) /\ port[p] = clients[client[t]].port
      BY <2>2 DEF Listener
    <3>2. SidOf[p] = sid[t]
      <4>1. client[t] \in DOMAIN clients /\ clients[client[t]].session = sid[t]
        BY <1>5 DEF Send, ClientInv, TypeOK
      <4>2. PICK q \in Processes : port[q] = port[p] /\ SidOf[q] = sid[t]
        BY <3>1, <4>1 DEF ClientInv
      <4>3. port[p] # NoPort
        BY <3>1 DEF PortInv, Running
      <4> QED BY <3>1, <4>2, <4>3 DEF PortInv
    <3>3. Fits(p, t)
      BY <1>5, <3>2, SendEffect DEF Fits, Send
    <3>4. /\ DOMAIN inbox'[p] = 1..Len(inbox[p]) + 1
          /\ inbox'[p][Len(inbox[p]) + 1] = t
          /\ \A i \in 1..Len(inbox[p]) : inbox'[p][i] = inbox[p][i]
          /\ Len(inbox[p]) \in Nat /\ DOMAIN inbox[p] = 1..Len(inbox[p])
      <4>1. inbox'[p] = Append(inbox[p], t)
        BY <2>2, <3>1 DEF TypeOK
      <4> QED BY <1>3, <3>1, <4>1, AppendProperties, LenProperties
    <3>5. \A i \in DOMAIN inbox'[p] : Fits(p, inbox'[p][i])
      BY <1>1, <1>2, <3>1, <3>3, <3>4
    <3>6. busy' = busy /\ \A q \in Processes \ {p} : inbox'[q] = inbox[q]
      BY <1>5, <2>2 DEF Send, TypeOK
    <3> QED BY <1>1, <1>2, <1>a, <3>5, <3>6
  <2> QED BY <1>5, <2>1, <2>2 DEF Send
<1>6. ASSUME NEW p \in Processes, Handle(p) PROVE ServedInv'
  <2>1. inbox[p] # <<>> /\ Head(inbox[p]) = inbox[p][1] /\ 1 \in DOMAIN inbox[p]
        /\ DOMAIN Tail(inbox[p]) = 1..Len(inbox[p]) - 1 /\ DOMAIN inbox[p] = 1..Len(inbox[p])
        /\ \A i \in 1..Len(inbox[p]) - 1 : Tail(inbox[p])[i] = inbox[p][i + 1]
        /\ Len(inbox[p]) \in Nat
    BY <1>3, <1>6, HeadTailProperties, LenProperties, EmptySeq DEF Handle
  <2>2. /\ busy'[p] = inbox[p][1] /\ inbox'[p] = Tail(inbox[p])
        /\ \A q \in Processes \ {p} : busy'[q] = busy[q] /\ inbox'[q] = inbox[q]
    BY <1>6, <2>1 DEF Handle, TypeOK
  <2>3. Fits(p, busy'[p]) /\ \A i \in DOMAIN inbox'[p] : Fits(p, inbox'[p][i])
    BY <1>1, <1>2, <2>1, <2>2
  <2>4. \A q \in Processes \ {p} :
          /\ busy'[q] # None => Fits(q, busy'[q])
          /\ \A i \in DOMAIN inbox'[q] : Fits(q, inbox'[q][i])
    BY <1>1, <1>2, <2>2
  <2> QED BY <1>a, <2>3, <2>4
<1>7. ASSUME NEW p \in Processes, Die(p) PROVE ServedInv'
  <2>1. /\ busy'[p] = None /\ inbox'[p] = <<>>
        /\ \A q \in Processes \ {p} : busy'[q] = busy[q] /\ inbox'[q] = inbox[q]
    BY <1>7 DEF Die, TypeOK
  <2> QED BY <1>1, <1>2, <1>a, <2>1
<1>8. ASSUME NEW p \in Processes, Start(p) \/ Withdraw(p) \/ Answer(p) PROVE ServedInv'
  <2>1. inbox' = inbox /\ \A q \in Processes : busy'[q] \in {busy[q], None}
    BY <1>8 DEF Start, Withdraw, Answer, TypeOK
  <2> QED BY <1>4, <2>1
<1>9. ASSUME NEW t \in Workers,
             Call(t) \/ Return(t) \/ Resolve(t) \/ GiveUp(t)
      PROVE  ServedInv'
  <2>1. UNCHANGED <<inbox, busy>>
    BY <1>9 DEF Call, Return, Resolve, List, Get, Pop, Lookup, GiveUp, idaVars
  <2> QED BY <1>4, <2>1
<1>10. ASSUME NEW s \in Sessions, Invalidate(s) PROVE ServedInv'
  BY <1>4, <1>10 DEF Invalidate, idaVars
<1> QED BY <1>5, <1>6, <1>7, <1>8, <1>9, <1>10 DEF Next, Step, Ida

-----------------------------------------------------------------------------
(* Processes that are there all along.                                     *)

\* What a worker that resolves, or asks, or gives up, knows afterwards of a process
\* that is still there.
LEMMA StepSince ==
  ASSUME IInv, NEW t \in Workers, Step(t), Prune, NEW p \in since'[t]
  PROVE  Known(t, p)'
<1> USE DEF IInv
<1>1. p \in since[t] /\ p \in Processes /\ Live(p)'
  BY Pruned DEF TypeOK
<1>2. /\ Live(p)
      /\ pc[t] = "pop" => sid[t] # SidOf[p]
      /\ pc[t] = "lookup" /\ sid[t] = SidOf[p] => info[t] = p
      /\ pc[t] = "send" /\ sid[t] = SidOf[p] => clients[client[t]].port = port[p]
      /\ outcome[t] = "notfound" => sid[t] \notin {SidOf[p], None}
      /\ arg[t] = None /\ sid[t] # None => sid[t] = SidOf[p]
  BY <1>1 DEF SinceInv, Known
<1>3. SidOf[p] \in LiveSessions /\ sidecar[SidOf[p]] = p /\ SidOf[p] \in Sessions
      /\ None \notin Sessions
  BY <1>1, <1>2, LiveIs, ProxyAssumption
<1>4. /\ outcome[t] # "none" => pc[t] \in {"done", "over"}
      /\ pc[t] \in {"get", "pop", "lookup", "send"} => sid[t] \in Sessions
  BY DEF CallInv
<1> USE DEF TypeOK, Goto, Finish, Known
<1> HIDE DEF Live
<1>5. CASE List(t)
  <2>1. CASE Cardinality(LiveSessions) = 0 /\ outcome' = [outcome EXCEPT ![t] = "notfound"]
    <3>1. LiveSessions \subseteq {SidOf[q] : q \in Processes}
      BY DEF LiveSessions, SidecarInv
    <3>2. IsFiniteSet({SidOf[q] : q \in Processes})
      <4> DEFINE Sids == {SidOf[q] : q \in Processes}
      <4>1. SidOf \in Surjection(Processes, Sids)
        BY ProxyAssumption DEF Surjection
      <4> HIDE DEF Sids
      <4>2. IsFiniteSet(Sids)
        BY <4>1, ProxyAssumption, FS_Surjection
      <4> QED BY <4>2 DEF Sids
    <3>3. IsFiniteSet(LiveSessions)
      BY <3>1, <3>2, FS_Subset
    <3>4. LiveSessions = {}
      BY <2>1, <3>3, FS_EmptySet
    <3> QED BY <1>3, <3>4
  <2>2. CASE outcome' = [outcome EXCEPT ![t] = "ambiguous"] /\ sid' = sid
             /\ pc' = [pc EXCEPT ![t] = "done"]
    BY <1>1, <1>2, <1>5, <2>2 DEF List
  <2>3. ASSUME NEW s \in LiveSessions, LiveSessions = {s}, sid' = [sid EXCEPT ![t] = s],
               pc' = [pc EXCEPT ![t] = "get"], UNCHANGED outcome
        PROVE  /\ pc'[t] = "get" /\ sid'[t] = SidOf[p] /\ outcome'[t] = "none"
    BY <1>3, <1>4, <1>5, <2>3 DEF List
  <2> QED BY <1>1, <1>2, <1>5, <2>1, <2>2, <2>3 DEF List
<1>6. CASE Get(t)
  BY <1>1, <1>2, <1>3, <1>4, <1>6 DEF Get
<1>7. CASE Pop(t)
  BY <1>1, <1>2, <1>3, <1>4, <1>7 DEF Pop
<1>8. CASE Lookup(t)
  <2>1. pc'[t] = "send" /\ clients'[client'[t]].port = port[info[t]]
    BY <1>8, LookupEffect
  <2>2. UNCHANGED <<port, arg, sid, outcome>> /\ pc[t] = "lookup"
    BY <1>8 DEF Lookup, idaVars
  <2> QED BY <1>1, <1>2, <2>1, <2>2
<1>9. CASE Send(t)
  <2>1. pc'[t] \in {"wait", "done"} /\ outcome'[t] \in {"transport", "none"}
        /\ UNCHANGED <<arg, sid>>
    BY <1>4, <1>9 DEF Send
  <2> QED BY <1>1, <1>2, <2>1
<1>10. CASE GiveUp(t)
  BY <1>1, <1>2, <1>10 DEF GiveUp
<1> QED BY <1>5, <1>6, <1>7, <1>8, <1>9, <1>10 DEF Step, Resolve

\* What is known of a process that is there all along stays so.
LEMMA SinceKept ==
  ASSUME IInv, Next
  PROVE  SinceInv'
<1> USE DEF IInv, Known
<1>1. ASSUME NEW t \in Workers, Call(t) \/ Return(t), NEW u \in Workers, NEW p \in since'[u]
      PROVE  Known(u, p)'
  <2>1. UNCHANGED <<state, port, sidecar, clients>>
    BY <1>1 DEF Call, Return, idaVars
  <2>2. CASE u # t
    <3>1. p \in since[u]
      BY <1>1, <2>2 DEF Call, Return, TypeOK
    <3> QED BY <1>1, <2>1, <2>2, <3>1, WorkerFrame DEF SinceInv, Live, Running
  <2>3. CASE u = t
    <3>1. Call(t) /\ Live(p)
      BY <1>1, <2>3 DEF Call, Return, TypeOK
    <3>2. pc'[t] \in {"list", "get"} /\ arg'[t] = sid'[t]
      BY <3>1 DEF Call, Goto, TypeOK
    <3>3. outcome'[t] = "none"
      BY <3>1 DEF Call, CallInv
    <3> QED BY <2>1, <2>3, <3>1, <3>2, <3>3 DEF Live, Running
  <2> QED BY <2>2, <2>3
<1>2. ASSUME NEW u \in Workers, Prune, NEW p \in since'[u],
             pc'[u] \in {pc[u], "done"}, sid'[u] = sid[u], info'[u] = info[u],
             client'[u] = client[u], arg'[u] = arg[u],
             outcome'[u] \in {outcome[u], "answered"},
             \A i \in DOMAIN clients : clients'[i].port = clients[i].port
      PROVE  Known(u, p)'
  <2>1. p \in since[u] /\ p \in Processes /\ Live(p)'
    BY <1>2, Pruned DEF TypeOK
  <2>2. port'[p] = port[p]
    <3>1. Live(p)
      BY <2>1 DEF SinceInv
    <3>2. port[p] # NoPort
      BY <2>1, <3>1 DEF PortInv, Live, Running
    <3> QED BY <2>1, <3>2, PortsStay
  <2>3. pc[u] = "send" => client[u] \in DOMAIN clients
    BY DEF ClientInv, TypeOK
  <2> QED BY <1>2, <2>1, <2>2, <2>3 DEF SinceInv
<1>3. ASSUME NEW t \in Workers, Step(t), Prune, NEW u \in Workers, NEW p \in since'[u]
      PROVE  Known(u, p)'
  <2>1. CASE u = t
    BY <1>3, <2>1, StepSince, Pruned
  <2>2. CASE u # t
    <3>1. \A i \in DOMAIN clients : clients'[i].port = clients[i].port
      <4>1. ASSUME NEW v \in Workers, Lookup(v)
            PROVE  \A i \in DOMAIN clients : clients'[i].port = clients[i].port
        BY <4>1, LookupEffect
      <4>2. ASSUME NEW v \in Workers, Send(v)
            PROVE  \A i \in DOMAIN clients : clients'[i].port = clients[i].port
        BY <4>2, SendEffect
      <4> QED BY <4>1, <4>2, SameClients
    <3> QED BY <1>2, <1>3, <2>2, <3>1, WorkerFrame
  <2> QED BY <2>1, <2>2
<1>4. ASSUME NEW q \in Processes, Prune,
             \/ Ida(q) /\ UNCHANGED <<clients, cached, pc, callVars>>
             \/ Answer(q) /\ UNCHANGED <<clients, cached, arg, sid, info, client>>,
             NEW u \in Workers, NEW p \in since'[u]
      PROVE  Known(u, p)'
  <2>1. UNCHANGED <<clients, cached, arg, sid, info, client>>
        /\ pc'[u] \in {pc[u], "done"} /\ outcome'[u] \in {outcome[u], "answered"}
    BY <1>4, ProcessFrame
  <2> QED BY <1>2, <1>4, <2>1
<1>5. ASSUME NEW s \in Sessions, Invalidate(s) PROVE SinceInv'
  BY <1>5 DEF Invalidate, idaVars, callVars, SinceInv, Live, Running
<1>6. ASSUME ~ \E s \in Sessions : Invalidate(s) PROVE SinceInv'
  BY <1>1, <1>3, <1>4, <1>6 DEF Next, SinceInv
<1> QED BY <1>5, <1>6

\* The request of a call stays with the process until that one takes it, answers it,
\* or is no longer there.
LEMMA SteadyKept ==
  ASSUME IInv, Next
  PROVE  SteadySessionReached'
<1> USE DEF IInv
<1> DEFINE Held(p, t) == \/ busy[p] = t
                         \/ \E i \in DOMAIN inbox[p] : inbox[p][i] = t
<1>1. \A t \in Workers : \A p \in since[t] :
        pc[t] = "wait" /\ SidOf[p] = sid[t] => Held(p, t)
  BY DEF SteadySessionReached
<1>2. ASSUME NEW t \in Workers, pc[t] = "wait", sid'[t] = sid[t],
             NEW p \in since[t], SidOf[p] = sid'[t], p \in Processes,
             busy'[p] = busy[p], inbox'[p] = inbox[p]
      PROVE  Held(p, t)'
  BY <1>1, <1>2
<1>3. None \notin Workers /\ \A p \in Processes : inbox[p] \in Seq(Workers)
  BY ProxyAssumption DEF TypeOK
<1>4. ASSUME NEW t \in Workers, Call(t) \/ Return(t), NEW u \in Workers, NEW p \in since'[u],
             pc'[u] = "wait", SidOf[p] = sid'[u]
      PROVE  Held(p, u)'
  <2>1. u # t
    BY <1>4 DEF Call, Return, Goto, TypeOK
  <2>2. p \in since[u] /\ p \in Processes /\ UNCHANGED <<inbox, busy>>
    BY <1>4, <2>1 DEF Call, Return, TypeOK, idaVars
  <2> QED BY <1>2, <1>4, <2>1, <2>2, WorkerFrame
<1>5. ASSUME NEW t \in Workers, Resolve(t) \/ GiveUp(t), Prune,
             NEW u \in Workers, NEW p \in since'[u], pc'[u] = "wait", SidOf[p] = sid'[u]
      PROVE  Held(p, u)'
  <2>1. UNCHANGED <<inbox, busy>>
    BY <1>5 DEF Resolve, List, Get, Pop, Lookup, GiveUp, idaVars
  <2>2. u # t
    BY <1>5 DEF Resolve, List, Get, Pop, Lookup, GiveUp, UseClient, Goto, Finish, TypeOK
  <2>3. p \in since[u] /\ p \in Processes
    BY <1>5, Pruned DEF TypeOK
  <2> QED BY <1>2, <1>5, <2>1, <2>2, <2>3, WorkerFrame DEF Step
<1>6. ASSUME NEW t \in Workers, Send(t), Prune,
             NEW u \in Workers, NEW p \in since'[u], pc'[u] = "wait", SidOf[p] = sid'[u]
      PROVE  Held(p, u)'
  <2>1. p \in since[u] /\ p \in Processes
    BY <1>6, Pruned DEF TypeOK
  <2>2. UNCHANGED <<sid, busy>>
    BY <1>6 DEF Send
  <2>3. \A q \in Processes : \/ inbox'[q] = inbox[q]
                             \/ inbox'[q] = Append(inbox[q], t)
    BY <1>6 DEF Send, TypeOK
  <2>4. \A q \in Processes :
          /\ \A i \in DOMAIN inbox[q] : i \in DOMAIN inbox'[q] /\ inbox'[q][i] = inbox[q][i]
          /\ inbox'[q] = Append(inbox[q], t)
               => \E i \in DOMAIN inbox'[q] : inbox'[q][i] = t
    BY <1>3, <2>3, AppendProperties, LenProperties
  <2>5. CASE u # t
    <3>1. pc[u] = "wait"
      BY <1>6, <2>5, WorkerFrame DEF Step
    <3> QED BY <1>1, <1>6, <2>1, <2>2, <2>4, <3>1
  <2>6. CASE u = t
    <3> DEFINE q == clients[client[t]].port
    <3>1. Known(t, p) /\ pc[t] = "send"
      BY <1>6, <2>1, <2>6 DEF SinceInv, Send
    <3>2. q = port[p] /\ Running(p) /\ port[p] # NoPort
      BY <1>6, <2>1, <2>2, <2>6, <3>1 DEF Known, Live, PortInv, Running
    <3>3. Listener(q) = {p}
      BY <2>1, <3>2 DEF Listener, PortInv
    <3>4. inbox' = [inbox EXCEPT ![p] = Append(@, t)]
      BY <1>6, <2>6, <3>3 DEF Send, Finish, Goto, TypeOK
    <3> QED BY <2>1, <2>4, <2>6, <3>4 DEF TypeOK
  <2> QED BY <2>5, <2>6
<1>7. ASSUME NEW q \in Processes, Ida(q) /\ UNCHANGED <<clients, cached, pc, callVars>>, Prune,
             NEW u \in Workers, NEW p \in since'[u], pc'[u] = "wait", SidOf[p] = sid'[u]
      PROVE  Held(p, u)'
  <2>1. p \in since[u] /\ p \in Processes /\ Running(p)' /\ pc[u] = "wait" /\ sid'[u] = sid[u]
    BY <1>7, Pruned DEF TypeOK, Live, callVars
  <2>2. CASE Start(q) \/ Withdraw(q)
    BY <1>2, <1>7, <2>1, <2>2 DEF Start, Withdraw
  <2>3. CASE Handle(q)
    <3>1. CASE p # q
      BY <1>2, <1>7, <2>1, <2>3, <3>1 DEF Handle, TypeOK
    <3>2. CASE p = q
      <4>1. busy[p] = None /\ inbox[p] # <<>> /\ busy'[p] = Head(inbox[p])
            /\ inbox'[p] = Tail(inbox[p])
        BY <2>1, <2>3, <3>2 DEF Handle, TypeOK
      <4>2. PICK i \in DOMAIN inbox[p] : inbox[p][i] = u
        BY <1>1, <1>3, <1>7, <2>1, <4>1
      <4>3. CASE i = 1
        BY <1>3, <2>1, <4>1, <4>2, <4>3, HeadTailProperties
      <4>4. CASE i # 1
        <5>1. /\ DOMAIN inbox[p] = 1..Len(inbox[p]) /\ Len(inbox[p]) \in Nat
              /\ DOMAIN inbox'[p] = 1..Len(inbox[p]) - 1
              /\ \A j \in 1..Len(inbox[p]) - 1 : inbox'[p][j] = inbox[p][j + 1]
          BY <1>3, <2>1, <4>1, HeadTailProperties, LenProperties
        <5>2. i - 1 \in DOMAIN inbox'[p] /\ inbox'[p][i - 1] = u
          BY <4>2, <4>4, <5>1
        <5> QED BY <5>2
      <4> QED BY <4>3, <4>4
    <3> QED BY <3>1, <3>2
  <2>4. CASE Die(q)
    <3>1. p # q
      BY <2>1, <2>4 DEF Die, Running, TypeOK
    <3> QED BY <1>2, <1>7, <2>1, <2>4, <3>1 DEF Die, TypeOK
  <2> QED BY <1>7, <2>2, <2>3, <2>4 DEF Ida
<1>8. ASSUME NEW q \in Processes, Prune,
             Answer(q) /\ UNCHANGED <<clients, cached, arg, sid, info, client>>,
             NEW u \in Workers, NEW p \in since'[u], pc'[u] = "wait", SidOf[p] = sid'[u]
      PROVE  Held(p, u)'
  <2>1. p \in since[u] /\ p \in Processes /\ pc[u] = "wait" /\ sid'[u] = sid[u]
    BY <1>8, Pruned, ProcessFrame DEF TypeOK
  <2>2. busy[q] # u
    BY <1>8, <2>1 DEF Answer, Finish, Goto, TypeOK
  <2>3. inbox' = inbox /\ \A r \in Processes : busy'[r] = busy[r] \/ r = q
    BY <1>8 DEF Answer, TypeOK
  <2> QED BY <1>1, <1>8, <2>1, <2>2, <2>3
<1>9. ASSUME NEW s \in Sessions, Invalidate(s) PROVE SteadySessionReached'
  BY <1>9 DEF Invalidate, idaVars, callVars, SteadySessionReached
<1>10. ASSUME ~ \E s \in Sessions : Invalidate(s),
              NEW u \in Workers, NEW p \in since'[u], pc'[u] = "wait", SidOf[p] = sid'[u]
       PROVE  Held(p, u)'
  BY <1>4, <1>5, <1>6, <1>7, <1>8, <1>10 DEF Next, Step
<1> QED BY <1>9, <1>10 DEF SteadySessionReached

-----------------------------------------------------------------------------
(* How many clients a session has.                                         *)

\* Of a session with one process so far, that one is in every client.
LEMMA SoleClients ==
  ASSUME IInv, NEW p \in Processes, Sole(p), NEW i \in ClientsOf(SidOf[p])
  PROVE  clients[i].port = port[p] /\ port[p] # NoPort
<1>1. clients[i] \in Client /\ i \in DOMAIN clients /\ clients[i].session = SidOf[p]
  BY DEF ClientsOf, IInv, TypeOK
<1>2. PICK q \in Processes : port[q] = clients[i].port /\ SidOf[q] = SidOf[p]
  BY <1>1 DEF IInv, ClientInv
<1>3. port[q] # NoPort
  BY <1>1, <1>2 DEF Client, Ports, NoPort
<1>4. q = p
  BY <1>2, <1>3 DEF Sole, IInv, PortInv
<1> QED BY <1>2, <1>3, <1>4

\* The clients, and the calls that were turned down, are counted by finite sets, which
\* lose none.
LEMMA SoleSets ==
  ASSUME IInv, Next, NEW s \in Sessions
  PROVE  /\ IsFiniteSet(ClientsOf(s)) /\ Cardinality(ClientsOf(s)) \in Nat
         /\ TurnedDown(s) \subseteq TurnedDown(s)'
         /\ Cardinality(TurnedDown(s)) \in Nat /\ Cardinality(TurnedDown(s)') \in Nat
         /\ Cardinality(TurnedDown(s)) <= Cardinality(TurnedDown(s)')
<1>1. IsFiniteSet(ClientsOf(s)) /\ Cardinality(ClientsOf(s)) \in Nat
  <2>1. ClientsOf(s) \subseteq 1..Len(clients) /\ Len(clients) \in Nat
    BY DEF ClientsOf, IInv, TypeOK
  <2>2. IsFiniteSet(1..Len(clients))
    BY <2>1, FS_Interval
  <2> QED BY <2>1, <2>2, FS_Subset, FS_CardinalityType
<1>2. ASSUME NEW t \in TurnedDown(s) PROVE t \in TurnedDown(s)'
  <2>1. t \in Workers /\ sid[t] = s /\ outcome[t] = "notfound" /\ pc[t] \in {"done", "over"}
    BY DEF TurnedDown, IInv, CallInv
  <2>2. t \in Asked
    BY <2>1 DEF Asked
  <2>3. sid'[t] = s
    BY <2>1, <2>2, Onward
  <2>4. outcome'[t] = "notfound"
    <3>1. ASSUME NEW u \in Workers, Call(u) \/ Return(u) \/ Step(u)
          PROVE  outcome'[t] = "notfound"
      <4>1. CASE u = t
        BY <2>1, <3>1, <4>1 DEF Call, Return, Step, Resolve, List, Get, Pop, Lookup, Send, GiveUp
      <4>2. CASE u # t
        BY <2>1, <3>1, <4>2, WorkerFrame
      <4> QED BY <4>1, <4>2
    <3>2. ASSUME NEW x \in Sessions, Invalidate(x) PROVE outcome'[t] = "notfound"
      BY <2>1, <3>2 DEF Invalidate, callVars
    <3>3. ASSUME NEW p \in Processes,
                 \/ Ida(p) /\ UNCHANGED <<clients, cached, pc, callVars>>
                 \/ Answer(p) /\ UNCHANGED <<clients, cached, arg, sid, info, client>>
          PROVE  outcome'[t] = "notfound"
      BY <2>1, <3>3, ProcessFrame
    <3> QED BY <3>1, <3>2, <3>3 DEF Next
  <2> QED BY <2>1, <2>3, <2>4 DEF TurnedDown
<1>3. TurnedDown(s) \in SUBSET Workers /\ TurnedDown(s)' \in SUBSET Workers
  BY DEF TurnedDown
<1> QED BY <1>1, <1>2, <1>3, NoFewer

\* A process that is up and published either starts with this step, or was.
LEMMA WasLive ==
  ASSUME IInv, Next, NEW p \in Processes, Live(p)', ~Start(p)
  PROVE  Live(p)
<1> USE DEF IInv, TypeOK
<1>1. Running(p)
  <2>1. ASSUME NEW q \in Processes, Ida(q) \/ Answer(q) PROVE Running(p)
    BY <2>1 DEF Ida, Start, Handle, Withdraw, Die, Answer, Live, Running
  <2>2. ASSUME NEW s \in Sessions, Invalidate(s) PROVE Running(p)
    BY <2>2 DEF Invalidate, idaVars, Live, Running
  <2> QED BY <2>1, <2>2, WorkerFrame DEF Next, Live, Running
<1>2. sidecar[SidOf[p]] = p
  <2>1. SidOf[p] \in Sessions /\ p # None /\ sidecar'[SidOf[p]] = p
    BY ProxyAssumption DEF Live
  <2>2. ASSUME NEW q \in Processes, Ida(q) \/ Answer(q) PROVE sidecar[SidOf[p]] = p
    BY <2>1, <2>2, ProxyAssumption DEF Ida, Start, Handle, Withdraw, Die, Answer
  <2>3. ASSUME NEW s \in Sessions, Invalidate(s) PROVE sidecar[SidOf[p]] = p
    BY <2>1, <2>3 DEF Invalidate, idaVars
  <2>4. ASSUME NEW t \in Workers, Call(t) \/ Return(t) \/ Step(t)
        PROVE  sidecar[SidOf[p]] = p
    BY <2>1, <2>4 DEF Call, Return, Step, Resolve, List, Get, Pop, Lookup, Send, GiveUp,
                      idaVars, CallInv
  <2> QED BY <2>2, <2>3, <2>4 DEF Next
<1> QED BY <1>1, <1>2 DEF Live

\* A process that has been started has been started.
LEMMA WasSole ==
  ASSUME IInv, Next, NEW p \in Processes, Sole(p)'
  PROVE  Sole(p)
<1>1. ASSUME NEW q \in Processes, state'[q] = "unborn" PROVE state[q] = "unborn"
  <2> USE DEF IInv, TypeOK
  <2>1. ASSUME NEW r \in Processes, Ida(r) \/ Answer(r) PROVE state[q] = "unborn"
    BY <1>1, <2>1 DEF Ida, Start, Handle, Withdraw, Die, Answer
  <2>2. ASSUME NEW s \in Sessions, Invalidate(s) PROVE state[q] = "unborn"
    BY <1>1, <2>2 DEF Invalidate, idaVars
  <2> QED BY <1>1, <2>1, <2>2, WorkerFrame DEF Next
<1> QED BY <1>1 DEF Sole

\* Only a call that misses the cache makes a client, and it puts it into the cache.
LEMMA SoleKept ==
  ASSUME IInv, Next
  PROVE  SoleInv'
<1> USE DEF IInv
<1> SUFFICES ASSUME NEW p \in Processes, Live(p)', Sole(p)'
             PROVE  Cardinality(ClientsOf(SidOf[p])')
                      <= (IF cached'[SidOf[p]] = 0 THEN 0 ELSE 1)
                           + Cardinality(TurnedDown(SidOf[p])')
  BY DEF SoleInv, ClientsOf, TurnedDown
<1> DEFINE s == SidOf[p]
           C == Cardinality(ClientsOf(s))
           T == Cardinality(TurnedDown(s))
<1>1. s \in Sessions /\ Sole(p)
  BY ProxyAssumption, WasSole
<1>2. C \in Nat /\ T \in Nat /\ T' \in Nat /\ T <= T' /\ IsFiniteSet(ClientsOf(s))
  BY <1>1, SoleSets
<1>3. CASE Start(p)
  <2>1. port[p] = NoPort /\ state[p] = "unborn" /\ state'[p] = "up"
    BY <1>3 DEF Start, PortInv, TypeOK
  <2>2. clients' = clients
    <3>1. ~ \E t \in Workers : Call(t) \/ Return(t) \/ Step(t)
      BY <2>1, WorkerFrame
    <3>2. ~ \E x \in Sessions : Invalidate(x)
      BY <2>1 DEF Invalidate, idaVars
    <3> QED BY <3>1, <3>2, ProcessFrame DEF Next
  <2>3. ClientsOf(s)' = ClientsOf(s)
    BY <2>2 DEF ClientsOf
  <2>4. ClientsOf(s) = {}
    BY <1>1, <2>1, SoleClients
  <2>5. Cardinality(ClientsOf(s)') = 0
    BY <2>3, <2>4, FS_EmptySet
  <2> HIDE DEF C, T
  <2> QED BY <1>2, <2>5 DEF T
<1>4. CASE ~Start(p)
  <2>1. Live(p) /\ C <= (IF cached[s] = 0 THEN 0 ELSE 1) + T
    BY <1>1, <1>4, WasLive DEF SoleInv
  <2>2. ASSUME UNCHANGED clients, cached'[s] = cached[s]
        PROVE  C' <= (IF cached'[s] = 0 THEN 0 ELSE 1) + T'
    <3>1. C' = C
      BY <2>2 DEF ClientsOf
    <3>2. cached'[s] = cached[s]
      BY <2>2
    <3> DEFINE room == IF cached[s] = 0 THEN 0 ELSE 1
    <3>3. room \in Nat /\ room = IF cached'[s] = 0 THEN 0 ELSE 1
      BY <3>2
    <3>4. C <= room + T
      BY <2>1
    <3> HIDE DEF C, T, room
    <3>5. C' <= room + T'
      BY <1>2, <3>1, <3>3, <3>4
    <3> QED BY <3>3, <3>5
  <2>3. ASSUME NEW t \in Workers, Lookup(t)
        PROVE  C' <= (IF cached'[s] = 0 THEN 0 ELSE 1) + T'
    <3>1. sid[t] \in Sessions /\ info[t] \in Processes /\ SidOf[info[t]] = sid[t]
          /\ port[info[t]] # NoPort
      BY <2>3 DEF CallInv, Lookup
    <3>2. CASE UNCHANGED <<clients, cached>>
      BY <2>2, <3>2
    <3>3. CASE /\ cached[sid[t]] = 0 \/ clients[cached[sid[t]]].port # port[info[t]]
               /\ Len(clients') = Len(clients) + 1
               /\ \A i \in DOMAIN clients : clients'[i] = clients[i]
               /\ clients'[Len(clients) + 1] =
                    [session |-> sid[t], port |-> port[info[t]], ids |-> 0]
               /\ cached' = [cached EXCEPT ![sid[t]] = Len(clients) + 1]
      <4>1. /\ DOMAIN clients = 1..Len(clients) /\ Len(clients) \in Nat
            /\ DOMAIN clients' = 1..Len(clients')
        BY TypesKept DEF TypeOK
      <4>2. CASE sid[t] # s
        <5>1. ClientsOf(s)' = ClientsOf(s)
          BY <3>3, <4>1, <4>2 DEF ClientsOf
        <5>2. cached'[s] = cached[s] /\ C' = C
          BY <1>1, <3>3, <4>2, <5>1 DEF TypeOK
        <5> HIDE DEF C, T
        <5> QED BY <1>2, <2>1, <5>2
      <4>3. CASE sid[t] = s
        <5>1. info[t] = p
          BY <1>1, <3>1, <4>3 DEF Sole, PortInv
        <5>2. cached[s] = 0
          <6>1. SUFFICES ASSUME cached[s] # 0 PROVE FALSE
            OBVIOUS
          <6>2. cached[s] \in ClientsOf(s)
            BY <1>1, <6>1 DEF ClientsOf, ClientInv, TypeOK
          <6> QED BY <1>1, <3>3, <4>3, <5>1, <6>1, <6>2, SoleClients
        <5>3. ClientsOf(s)' = ClientsOf(s) \cup {Len(clients) + 1}
              /\ Len(clients) + 1 \notin ClientsOf(s)
          BY <3>3, <4>1, <4>3 DEF ClientsOf
        <5>4. C' = C + 1
          BY <1>2, <5>3, FS_AddElement
        <5>5. cached'[s] # 0
          BY <1>1, <3>3, <4>1, <4>3 DEF TypeOK
        <5> HIDE DEF C, T
        <5> QED BY <1>2, <2>1, <5>2, <5>4, <5>5
      <4> QED BY <4>2, <4>3
    <3> QED BY <2>3, <3>2, <3>3, LookupEffect
  <2>4. ASSUME NEW t \in Workers, Send(t)
        PROVE  C' <= (IF cached'[s] = 0 THEN 0 ELSE 1) + T'
    <3>1. ClientsOf(s)' = ClientsOf(s)
      <4>1. DOMAIN clients' = DOMAIN clients
        BY <2>4, SendEffect, TypesKept DEF TypeOK
      <4> QED BY <2>4, <4>1, SendEffect DEF ClientsOf
    <3>2. C' = C /\ cached' = cached
      BY <2>4, <3>1 DEF Send
    <3> HIDE DEF C, T
    <3> QED BY <1>2, <2>1, <3>2
  <2>5. ASSUME NEW t \in Workers, Pop(t)
        PROVE  C' <= (IF cached'[s] = 0 THEN 0 ELSE 1) + T'
    <3>1. CASE sid[t] # s
      BY <1>1, <2>2, <2>5, <3>1 DEF Pop, TypeOK
    <3>2. CASE sid[t] = s
      <4>1. t \notin TurnedDown(s) /\ t \in TurnedDown(s)' /\ TurnedDown(s) \in SUBSET Workers
            /\ TurnedDown(s)' \in SUBSET Workers
        BY <2>5, <3>2 DEF Pop, Finish, TurnedDown, CallInv, TypeOK
      <4>2. Cardinality(TurnedDown(s) \cup {t}) = T + 1
        BY <4>1, OneMore
      <4>3. Cardinality(TurnedDown(s) \cup {t}) <= T'
        BY <1>1, <4>1, SoleSets, NoFewer
      <4>4. C' = C
        BY <2>5 DEF Pop, ClientsOf
      <4>5. cached'[s] = 0
        BY <1>1, <2>5, <3>2 DEF Pop, TypeOK
      <4> HIDE DEF C, T
      <4> QED BY <1>2, <2>1, <4>2, <4>3, <4>4, <4>5
    <3> QED BY <3>1, <3>2
  <2>6. ASSUME NEW t \in Workers, Call(t) \/ Return(t) \/ List(t) \/ Get(t) \/ GiveUp(t)
        PROVE  C' <= (IF cached'[s] = 0 THEN 0 ELSE 1) + T'
    <3>1. UNCHANGED <<clients, cached>>
      BY <2>6 DEF Call, Return, List, Get, GiveUp
    <3> QED BY <2>2, <3>1
  <2>7. ASSUME NEW x \in Sessions, Invalidate(x)
        PROVE  C' <= (IF cached'[s] = 0 THEN 0 ELSE 1) + T'
    <3>1. x # s
      BY <2>1, <2>7, LiveIs DEF Invalidate
    <3>2. UNCHANGED clients /\ cached'[s] = cached[s]
      BY <1>1, <2>7, <3>1 DEF Invalidate, TypeOK
    <3> QED BY <2>2, <3>2
  <2>8. ASSUME NEW q \in Processes,
               \/ Ida(q) /\ UNCHANGED <<clients, cached, pc, callVars>>
               \/ Answer(q) /\ UNCHANGED <<clients, cached, arg, sid, info, client>>
        PROVE  C' <= (IF cached'[s] = 0 THEN 0 ELSE 1) + T'
    BY <2>2, <2>8, ProcessFrame
  <2> QED BY <2>3, <2>4, <2>5, <2>6, <2>7, <2>8 DEF Next, Step, Resolve
<1> QED BY <1>3, <1>4

-----------------------------------------------------------------------------
(* The theorems.                                                           *)

\* Nothing has happened at the beginning.
LEMMA InitInv == Init => IInv
<1> SUFFICES ASSUME Init PROVE IInv
  OBVIOUS
<1> USE DEF Init
<1>1. Cardinality(Workers) \in Nat /\ Cardinality(Processes) \in Nat
      /\ Cardinality(Ready) \in Nat
  BY Finite DEF Ready
<1>2. <<>> \in Seq(Workers) /\ <<>> \in Seq(Client) /\ Len(<<>>) = 0
  BY EmptySeq
<1>3. TypeOK
  BY <1>1, <1>2 DEF TypeOK, States, Pcs, Outcomes, NoPort
<1>4. PortInv
  BY Finite DEF PortInv, Used, NoPort
<1>5. SidecarInv /\ CountInv /\ ClientInv /\ CallInv /\ SinceInv /\ SteadySessionReached
  BY <1>1, <1>2 DEF SidecarInv, CountInv, ClientInv, CallInv, SinceInv, SteadySessionReached
<1>6. ServedInv
  BY DEF ServedInv
<1>7. SoleInv
  BY ProxyAssumption DEF SoleInv, Live
<1> QED BY <1>3, <1>4, <1>5, <1>6, <1>7 DEF IInv

\* Each step keeps the invariant.
LEMMA NextInv == IInv /\ [Next]_vars => IInv'
<1>1. ASSUME IInv, Next PROVE IInv'
  BY <1>1, TypesKept, PortsKept, SidecarsKept, CountsKept, ClientsKept, CallsKept, ServedKept,
     SinceKept, SteadyKept, SoleKept DEF IInv
<1>2. ASSUME IInv, UNCHANGED vars PROVE IInv'
  <2> USE <1>2 DEF vars, idaVars, callVars, IInv
  <2>1. TypeOK'
    BY DEF TypeOK
  <2>2. PortInv' /\ SidecarInv' /\ CountInv' /\ ClientInv' /\ CallInv' /\ ServedInv'
    BY DEF PortInv, Used, SidecarInv, CountInv, Ready, Asked, ClientInv, CallInv, ServedInv
  <2>3. SinceInv' /\ SteadySessionReached'
    BY DEF SinceInv, Known, Live, Running, SteadySessionReached
  <2>4. SoleInv'
    BY DEF SoleInv, Sole, Live, Running, ClientsOf, TurnedDown
  <2> QED BY <2>1, <2>2, <2>3, <2>4
<1> QED BY <1>1, <1>2

\* The invariant holds in every behaviour.
LEMMA Invariance == Spec => []IInv
BY InitInv, NextInv, PTL DEF Spec

\* Every variable keeps its type, however often calls and processes come and go; so
\* no more than one client is made and one request id taken per call.
THEOREM TypeCorrect == Spec => []TypeOK
<1>1. IInv => TypeOK
  BY DEF IInv
<1> QED BY <1>1, Invariance, PTL

\* Whatever dies or restarts between get and connect, a tool runs in a process of the
\* session that its call was resolved to.
THEOREM RunsInSession == Spec => []RanInSession
<1>1. IInv => RanInSession
  BY ProxyAssumption DEF IInv, ServedInv, RanInSession
<1> QED BY <1>1, Invariance, PTL

\* A call reaches the process that has been there since it began, whatever older
\* calls leave in the cache.
THEOREM SteadySessionsReached == Spec => []SteadySessionReached
<1>1. IInv => SteadySessionReached
  BY DEF IInv
<1> QED BY <1>1, Invariance, PTL

\* A session that is there all along is not missed, and is not guessed among several.
THEOREM SteadySessionsFound == Spec => []SteadySessionsSeen
<1>1. ASSUME IInv PROVE SteadySessionsSeen
  <2> USE <1>1 DEF IInv
  <2>1. ASSUME NEW t \in Workers, outcome[t] = "notfound"
        PROVE  ~ \E p \in since[t] : sid[t] \in {SidOf[p], None}
    BY <2>1 DEF SinceInv, Known
  <2>2. ASSUME NEW t \in Workers, arg[t] = None, sid[t] # None
        PROVE  Cardinality({SidOf[p] : p \in since[t]}) <= 1
    <3> DEFINE S == {SidOf[p] : p \in since[t]}
    <3>1. S \subseteq {sid[t]}
      BY <2>2 DEF SinceInv, Known
    <3> HIDE DEF S
    <3>2. IsFiniteSet({sid[t]}) /\ Cardinality({sid[t]}) = 1
      BY FS_Singleton
    <3>3. Cardinality(S) <= 1
      BY <3>1, <3>2, FS_Subset
    <3> QED BY <3>3 DEF S
  <2> QED BY <2>1, <2>2 DEF SteadySessionsSeen
<1> QED BY <1>1, Invariance, PTL

\* While the only process of a session is up, there is one client for it, and another
\* for each call that found the session missing.
THEOREM OneClient == Spec => []OneClientPerSession
<1>1. ASSUME IInv PROVE OneClientPerSession
  <2> SUFFICES ASSUME NEW p \in Processes, Live(p), Sole(p)
               PROVE  Cardinality(ClientsOf(SidOf[p])) <= 1 + Cardinality(TurnedDown(SidOf[p]))
    BY DEF OneClientPerSession, Sole
  <2>1. Cardinality(TurnedDown(SidOf[p])) \in Nat
    BY Finite DEF TurnedDown
  <2>2. Cardinality(ClientsOf(SidOf[p])) \in Nat
    <3>1. ClientsOf(SidOf[p]) \subseteq 1..Len(clients) /\ Len(clients) \in Nat
      BY <1>1 DEF ClientsOf, IInv, TypeOK
    <3>2. IsFiniteSet(1..Len(clients))
      BY <3>1, FS_Interval
    <3> QED BY <3>1, <3>2, FS_Subset, FS_CardinalityType
  <2> QED BY <1>1, <2>1, <2>2 DEF IInv, SoleInv
<1> QED BY <1>1, Invariance, PTL
=============================================================================

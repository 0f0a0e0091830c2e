------------------------------ MODULE Control ------------------------------
(***************************************************************************)
(* What the user and the language model do with whole sessions: the local  *)
(* tools of _tool_bridge.py in one MCP proxy, and session_control.py with  *)
(* its command line.  The protocols below are abstracted to what the other *)
(* modules show of them: a sidecar is read and written in one step         *)
(* (SessionStore), open holds a lock per session from its check until the  *)
(* IDA it spawned has published or is gone (Spawner).                      *)
(*                                                                         *)
(* A path stands for one spelling of a binary's name; SessionOf is         *)
(* session_id_for_path, which maps every spelling to one id.               *)
(***************************************************************************)
EXTENDS Integers, FiniteSets, SequencesExt

CONSTANTS Sessions, Paths, SessionOf,
          Stem,            \* session -> session of the file named by its stem
          CommandLines,    \* arguments of "session close"
          Idas, Commands,
          IncludeUnsafe,   \* serve --unsafe
          HasSpawner,      \* the backend can spawn IDA
          Old,             \* a database from before
          None

ASSUME ControlAssumption ==
  /\ IsFiniteSet(Sessions)     \* the sidecars of one directory
  /\ SessionOf \in [Paths -> Sessions]
  /\ Stem \in [Sessions -> Sessions]
  /\ CommandLines \subseteq [all : BOOLEAN, force : BOOLEAN, ids : Seq(Sessions), paths : Seq(Paths)]
  /\ {IncludeUnsafe, HasSpawner} \subseteq BOOLEAN
  /\ Old \notin Idas
  /\ None \notin Idas \cup Sessions \cup Commands \cup {Old}

VARIABLES
  ida,       \* process -> its state
  bin,       \* process -> session of the binary it was started on, or None
  base,      \* process -> who wrote the database it loaded; None: it analyses anew
  sidecar,   \* session -> the process its file names, or None
  db,        \* session -> who wrote the database beside the binary, or None
  pc,        \* command -> where it is
  req,       \* command -> what it was asked
  targets,   \* command -> the sessions it is about
  result,    \* command -> how it ended
  left,      \* command -> names its listing, or its deletion, still has to visit
  listed,    \* command -> sessions its listing found
  found,     \* command -> the process close read from the sidecar
  outcomes,  \* command -> one CloseOutcome per session so far
  lock,      \* session -> the open that holds the proxy's spawn lock, or None
  child,     \* command -> the IDA process it spawned
  kept,      \* command -> databases it could not delete
  before,    \* command -> processes advertised when it began (history)
  unseen     \* command -> processes on its binary that open's check did not see (history)

idaVars   == <<ida, bin, base>>
disk      == <<sidecar, db>>
callVars  == <<pc, req, targets, result>>
listVars  == <<left, listed, before>>
closeVars == <<found, outcomes>>
openVars  == <<lock, child, kept, unseen>>
cmdVars   == <<callVars, listVars, closeVars, openVars>>
vars      == <<idaVars, disk, cmdVars>>

LocalTools ==
  {"check_connection", "list_ida_sessions"}
    \cup (IF HasSpawner THEN {"open_file", "close_file"} ELSE {})
    \cup (IF HasSpawner /\ IncludeUnsafe THEN {"reanalyse_file"} ELSE {})

\* What a command may be asked: a tool call, or "session close" with its arguments.
Requests ==
  [tool : LocalTools \cap {"open_file", "reanalyse_file"}, path : Paths]
    \cup [tool : LocalTools \cap {"check_connection", "close_file"}, session : Sessions \cup {None}]
    \cup [tool : LocalTools \cap {"list_ida_sessions"}]
    \cup [tool : {"session close"}, args : CommandLines]

Outcomes == [session : Sessions, found : Idas \cup {None}, closed : BOOLEAN, graceful : BOOLEAN]

TypeOK ==
  /\ ida \in [Idas -> {"unborn", "started", "analysing", "running", "saving", "gone"}]
  /\ bin \in [Idas -> Sessions \cup {None}]
  /\ base \in [Idas -> Idas \cup {Old, None}]
  /\ sidecar \in [Sessions -> Idas \cup {None}]
  /\ db \in [Sessions -> Idas \cup {Old, None}]
  /\ pc \in [Commands -> {"idle", "scan", "contact", "get", "wait", "lock", "check",
                          "delete", "spawn", "await", "done"}]
  /\ req \in [Commands -> Requests]
  /\ targets \in [Commands -> Seq(Sessions)]
  /\ result \in [Commands -> {"none", "ok", "error", "not found", "ambiguous"}]
  /\ left \in [Commands -> SUBSET Sessions]
  /\ listed \in [Commands -> SUBSET Sessions]
  /\ found \in [Commands -> Idas \cup {None}]
  /\ outcomes \in [Commands -> Seq(Outcomes)]
  /\ lock \in [Sessions -> Commands \cup {None}]
  /\ child \in [Commands -> Idas \cup {None}]
  /\ kept \in [Commands -> SUBSET Sessions]
  /\ before \in [Commands -> SUBSET Idas]
  /\ unseen \in [Commands -> SUBSET Idas]

\* Any sessions may be open already.
Init ==
  /\ bin \in [Idas -> Sessions \cup {None}]
  /\ \A i, j \in Idas : bin[i] = bin[j] /\ bin[i] # None => i = j
  /\ ida = [i \in Idas |-> IF bin[i] = None THEN "unborn" ELSE "running"]
  /\ base = [i \in Idas |-> None]
  /\ sidecar = [s \in Sessions |-> IF \E i \in Idas : bin[i] = s
                                   THEN CHOOSE i \in Idas : bin[i] = s ELSE None]
  /\ db = [s \in Sessions |-> Old]
  /\ pc = [k \in Commands |-> "idle"]
  /\ req = [k \in Commands |-> [tool |-> "list_ida_sessions"]]
  /\ targets = [k \in Commands |-> <<>>]
  /\ result = [k \in Commands |-> "none"]
  /\ left = [k \in Commands |-> {}]
  /\ listed = [k \in Commands |-> {}]
  /\ found = [k \in Commands |-> None]
  /\ outcomes = [k \in Commands |-> <<>>]
  /\ lock = [s \in Sessions |-> None]
  /\ child = [k \in Commands |-> None]
  /\ kept = [k \in Commands |-> {}]
  /\ before = [k \in Commands |-> {}]
  /\ unseen = [k \in Commands |-> {}]

-----------------------------------------------------------------------------
(* The IDA processes, as far as the commands can tell.                     *)

Alive(i) == ida[i] \in {"started", "analysing", "running", "saving"}

Advertised(i) == ida[i] = "running" /\ sidecar[bin[i]] = i

\* session.get: the sidecar's process; a dead process's file counts as absent.
Get(s) == IF sidecar[s] # None /\ Alive(sidecar[s]) THEN sidecar[s] ELSE None

Turns(i, from, to) == ida[i] = from /\ ida' = [ida EXCEPT ![i] = to]

\* IDA loads the database beside the binary, if there is one.
Load(i) ==
  /\ Turns(i, "started", "analysing")
  /\ base' = [base EXCEPT ![i] = db[bin[i]]]
  /\ UNCHANGED <<bin, disk, cmdVars>>

Publish(i) ==
  /\ Turns(i, "analysing", "running")
  /\ sidecar' = [sidecar EXCEPT ![bin[i]] = i]
  /\ UNCHANGED <<bin, base, db, cmdVars>>

\* _cleanup withdraws the sidecar by id; then qexit writes the database.
Withdraw(i) ==
  /\ Turns(i, "running", "saving")
  /\ sidecar' = [sidecar EXCEPT ![bin[i]] = None]
  /\ UNCHANGED <<bin, base, db, cmdVars>>

Save(i) ==
  /\ Turns(i, "saving", "gone")
  /\ db' = [db EXCEPT ![bin[i]] = i]
  /\ UNCHANGED <<bin, base, sidecar, cmdVars>>

Crash(i) ==
  /\ Alive(i)
  /\ ida' = [ida EXCEPT ![i] = "gone"]
  /\ UNCHANGED <<bin, base, disk, cmdVars>>

Ida(i) == Load(i) \/ Publish(i) \/ Withdraw(i) \/ Save(i) \/ Crash(i)

-----------------------------------------------------------------------------
(* Requests and listings.                                                  *)

Tool(k) == req[k].tool

Goes(k, from, to) == pc[k] = from /\ pc' = [pc EXCEPT ![k] = to]

Ends(k, from, res) == Goes(k, from, "done") /\ result' = [result EXCEPT ![k] = res]

\* The names that a command line gives: ids and then paths.
Candidates(ids, paths) == ids \o [n \in DOMAIN paths |-> SessionOf[paths[n]]]

\* What resolve_targets has in order after each of the candidates.
Ordered(candidates) ==
  LET ordered[n \in 0..Len(candidates)] ==
        IF n = 0 THEN <<>>
        ELSE IF candidates[n] \in ToSet(ordered[n - 1]) THEN ordered[n - 1]
        ELSE Append(ordered[n - 1], candidates[n])
  IN  ordered

ResolveTargets(ids, paths) ==
  LET candidates == Candidates(ids, paths)
  IN  Ordered(candidates)[Len(candidates)]

\* The sessions a request names.
Named(r) ==
  CASE r.tool \in {"open_file", "reanalyse_file"} -> <<SessionOf[r.path]>>
    [] r.tool \in {"check_connection", "close_file"} ->
         IF r.session = None THEN <<>> ELSE <<r.session>>
    [] r.tool = "list_ida_sessions" -> <<>>
    [] r.tool = "session close" -> ResolveTargets(r.args.ids, r.args.paths)

\* "session close" wants sessions or --all, and not both: exit code 2.
Usage(r) == r.tool = "session close" => r.args.all = (Named(r) = <<>>)

\* The first step of a request.  A listing begins with the names in the directory.
Begin(r) ==
  IF r.tool \in {"open_file", "reanalyse_file"} THEN "lock"
  ELSE IF Named(r) = <<>> THEN "scan"
  ELSE IF r.tool = "check_connection" THEN "contact"
  ELSE "get"

Start(k, r) ==
  /\ req' = [req EXCEPT ![k] = r]
  /\ before' = [before EXCEPT ![k] = {i \in Idas : Advertised(i) /\ (Begin(r) = "scan" \/ r.tool = "session close")}]
  /\ \/ /\ Usage(r)
        /\ Goes(k, "idle", Begin(r))
        /\ targets' = [targets EXCEPT ![k] = Named(r)]
        /\ left' = [left EXCEPT ![k] = {s \in Sessions : Begin(r) = "scan" /\ sidecar[s] # None}]
        /\ UNCHANGED result
     \/ /\ \/ ~Usage(r)
           \/ r.tool \in {"open_file", "reanalyse_file"}      \* no such file
        /\ Ends(k, "idle", "error")
        /\ UNCHANGED <<targets, left>>
  /\ UNCHANGED <<idaVars, disk, listed, closeVars, openVars>>

\* list_all looks at one sidecar after the other.
Scan(k, s) ==
  /\ pc[k] = "scan" /\ s \in left[k]
  /\ left' = [left EXCEPT ![k] = @ \ {s}]
  /\ listed' = [listed EXCEPT ![k] = IF Get(s) # None THEN @ \cup {s} ELSE @]
  /\ UNCHANGED <<idaVars, disk, callVars, before, closeVars, openVars>>

\* Mutated: the first of several sessions is as good as any.
ResolveFirst(k) ==
  /\ pc[k] = "scan" /\ left[k] = {}
  /\ \E order \in SetToSeqs(listed[k]) :
       /\ order # <<>>
       /\ Goes(k, "scan", "get")
       /\ targets' = [targets EXCEPT ![k] =
                        IF Tool(k) = "session close" THEN order ELSE SubSeq(order, 1, 1)]
  /\ listed' = [listed EXCEPT ![k] = {}]
  /\ UNCHANGED <<idaVars, disk, req, result, left, before, closeVars, openVars>>

\* The listing is complete.  A tool that was given no session takes the only one
\* there is; --all takes all, oldest first, and is content with none.
Resolve(k) ==
  /\ pc[k] = "scan" /\ left[k] = {}
  /\ \/ /\ Tool(k) = "list_ida_sessions"
        /\ Ends(k, "scan", "ok")
        /\ UNCHANGED targets
     \/ /\ Tool(k) = "session close" /\ listed[k] = {}
        /\ Ends(k, "scan", "ok")
        /\ UNCHANGED targets
     \/ /\ Tool(k) = "session close" /\ listed[k] # {}
        /\ Goes(k, "scan", "get")
        /\ \E order \in SetToSeqs(listed[k]) : targets' = [targets EXCEPT ![k] = order]
        /\ UNCHANGED result
     \/ /\ Tool(k) \in {"close_file", "check_connection"} /\ Cardinality(listed[k]) # 1
        /\ Ends(k, "scan", IF listed[k] = {} THEN "not found" ELSE "ambiguous")
        /\ UNCHANGED targets
     \/ /\ Tool(k) \in {"close_file", "check_connection"}
        /\ \E s \in Sessions :
             /\ listed[k] = {s}
             /\ Goes(k, "scan", IF Tool(k) = "close_file" THEN "get" ELSE "contact")
             /\ targets' = [targets EXCEPT ![k] = <<s>>]
        /\ UNCHANGED result
  /\ listed' = [listed EXCEPT ![k] = {}]
  /\ before' = [before EXCEPT ![k] = IF Tool(k) = "session close" THEN @ ELSE {}]
  /\ UNCHANGED <<idaVars, disk, req, left, closeVars, openVars>>

\* check_connection dispatches get_metadata and reports every failure as a text.
Contact(k) ==
  /\ pc[k] = "contact"
  /\ LET i == Get(targets[k][1])
     IN  \/ i = None /\ Ends(k, "contact", "not found")
         \/ i # None /\ ida[i] = "running" /\ Ends(k, "contact", "ok")
         \/ i # None /\ Ends(k, "contact", "error")
  /\ UNCHANGED <<idaVars, disk, req, targets, listVars, closeVars, openVars>>

-----------------------------------------------------------------------------
(* Spawner.close, for one session after the other.                         *)

Target(k) == targets[k][Len(outcomes[k]) + 1]

\* Mutated: CloseOutcome's arguments in another order.
OutcomeSwapped(k, from, closed, graceful) ==
  /\ outcomes' = [outcomes EXCEPT ![k] = Append(@, [session |-> closed, found |-> found'[k],
                                                   closed |-> Target(k), graceful |-> graceful])]
  /\ Ends(k, from, IF closed THEN "ok" ELSE "error")

\* The outcome of the current session is recorded; then the next one's turn, or the
\* end: an exception of the tool, or the exit code of the command line.
Outcome(k, from, closed, graceful) ==
  LET o   == [session |-> Target(k), found |-> found'[k], closed |-> closed, graceful |-> graceful]
      all == Append(outcomes[k], o)
  IN  /\ outcomes' = [outcomes EXCEPT ![k] = all]
      /\ IF Len(all) < Len(targets[k])
         THEN Goes(k, from, "get") /\ UNCHANGED result
         ELSE Ends(k, from, IF \A x \in ToSet(all) : x.closed THEN "ok" ELSE "error")

\* Mutated: the first failure ends the batch.
CloseAborts(k) ==
  /\ pc[k] = "get"
  /\ found' = [found EXCEPT ![k] = Get(Target(k))]
  /\ IF found'[k] = None
     THEN Ends(k, "get", "error") /\ UNCHANGED outcomes
     ELSE Goes(k, "get", "wait") /\ UNCHANGED <<outcomes, result>>
  /\ UNCHANGED <<idaVars, disk, req, targets, listVars, openVars>>

\* No live session of that name: FileNotFoundError.  Otherwise the process is asked.
CloseGet(k) ==
  /\ pc[k] = "get"
  /\ found' = [found EXCEPT ![k] = Get(Target(k))]
  /\ IF found'[k] = None
     THEN Outcome(k, "get", FALSE, FALSE)
     ELSE Goes(k, "get", "wait") /\ UNCHANGED <<outcomes, result>>
  /\ UNCHANGED <<idaVars, disk, req, targets, listVars, openVars>>

Forced(k) == Tool(k) = "session close" /\ req[k].args.force

\* A poll finds no session any more; --force (time-out 0) does not poll.
CloseGraceful(k) ==
  /\ pc[k] = "wait" /\ ~Forced(k)
  /\ Get(Target(k)) = None
  /\ UNCHANGED found
  /\ Outcome(k, "wait", TRUE, TRUE)
  /\ UNCHANGED <<idaVars, disk, req, targets, listVars, openVars>>

\* Time-out: hard kill, which the system may refuse (only logged), and the sidecar is
\* removed by id, whosever it is.
CloseEscalate(k) ==
  /\ pc[k] = "wait"
  /\ ida' \in {ida, [ida EXCEPT ![found[k]] = IF Alive(found[k]) THEN "gone" ELSE @]}
  /\ sidecar' = [sidecar EXCEPT ![Target(k)] = None]
  /\ UNCHANGED found
  /\ Outcome(k, "wait", TRUE, FALSE)
  /\ UNCHANGED <<bin, base, db, req, targets, listVars, openVars>>

Close(k) == CloseGet(k) \/ CloseGraceful(k) \/ CloseEscalate(k)

-----------------------------------------------------------------------------
(* Spawner.open, for open_file and reanalyse_file.                         *)

Session(k) == targets[k][1]

Fresh(k) == Tool(k) = "reanalyse_file"

Acquire(k) ==
  /\ Goes(k, "lock", "check")
  /\ lock[Session(k)] = None
  /\ lock' = [lock EXCEPT ![Session(k)] = k]
  /\ UNCHANGED <<idaVars, disk, req, targets, result, listVars, closeVars, child, kept, unseen>>

\* The call ends and leaves the lock.
Returns(k, from, res) ==
  /\ Ends(k, from, res)
  /\ lock' = [lock EXCEPT ![Session(k)] = None]

\* A live session is re-used, and never fought by a fresh analysis.
OpenExisting(k) ==
  /\ pc[k] = "check" /\ Get(Session(k)) # None
  /\ Returns(k, "check", IF Fresh(k) THEN "error" ELSE "ok")
  /\ UNCHANGED <<idaVars, disk, req, targets, listVars, closeVars, child, kept, unseen>>

OnBinary(s) == {i \in Idas : bin[i] = s /\ Alive(i)}

\* Mutated: the old database is not deleted.
OpenAsIs(k) ==
  /\ pc[k] = "check" /\ Get(Session(k)) = None
  /\ Goes(k, "check", "spawn")
  /\ unseen' = [unseen EXCEPT ![k] = OnBinary(Session(k))]
  /\ UNCHANGED <<idaVars, disk, req, targets, result, listVars, closeVars, lock, child, kept>>

OpenAbsent(k) ==
  /\ pc[k] = "check" /\ Get(Session(k)) = None
  /\ Goes(k, "check", IF Fresh(k) THEN "delete" ELSE "spawn")
  /\ left' = [left EXCEPT ![k] = {Session(k), Stem[Session(k)]}]
  /\ unseen' = [unseen EXCEPT ![k] = OnBinary(Session(k))]
  /\ UNCHANGED <<idaVars, disk, req, targets, result, listed, before, closeVars, lock, child, kept>>

\* delete_idb_artifacts unlinks the files named after the binary and after its stem;
\* what cannot be deleted is only logged.
Delete(k, s) ==
  /\ pc[k] = "delete" /\ s \in left[k]
  /\ left' = [left EXCEPT ![k] = @ \ {s}]
  /\ pc' = [pc EXCEPT ![k] = IF left[k] = {s} THEN "spawn" ELSE @]
  /\ \/ db' = [db EXCEPT ![s] = None] /\ UNCHANGED kept
     \/ db[s] # None /\ kept' = [kept EXCEPT ![k] = @ \cup {s}] /\ UNCHANGED db
  /\ UNCHANGED <<idaVars, sidecar, req, targets, result, listed, before, closeVars,
                 lock, child, unseen>>

Spawn(k, i) ==
  /\ Goes(k, "spawn", "await")
  /\ Turns(i, "unborn", "started")
  /\ bin' = [bin EXCEPT ![i] = Session(k)]
  /\ child' = [child EXCEPT ![k] = i]
  /\ UNCHANGED <<base, disk, req, targets, result, listVars, closeVars, lock, kept, unseen>>

\* No idat, or Popen fails.
SpawnFails(k) ==
  /\ Returns(k, "spawn", "error")
  /\ UNCHANGED <<idaVars, disk, req, targets, listVars, closeVars, child, kept, unseen>>

\* _await_sidecar: IDA ended early, or the deadline has passed and it is killed.
AwaitFails(k) ==
  /\ pc[k] = "await" /\ Get(Session(k)) = None
  /\ ida' = [ida EXCEPT ![child[k]] = "gone"]
  /\ Returns(k, "await", "error")
  /\ UNCHANGED <<bin, base, disk, req, targets, listVars, closeVars, child, kept, unseen>>

Await(k) ==
  /\ pc[k] = "await" /\ Get(Session(k)) # None
  /\ Returns(k, "await", "ok")
  /\ UNCHANGED <<idaVars, disk, req, targets, listVars, closeVars, child, kept, unseen>>

Open(k) ==
  \/ Acquire(k) \/ OpenExisting(k) \/ OpenAbsent(k)
  \/ \E s \in Sessions : Delete(k, s)
  \/ \E i \in Idas : Spawn(k, i)
  \/ SpawnFails(k) \/ AwaitFails(k) \/ Await(k)

-----------------------------------------------------------------------------

Command(k) ==
  \/ \E r \in Requests : Start(k, r)
  \/ \E s \in Sessions : Scan(k, s)
  \/ Resolve(k) \/ Contact(k) \/ Close(k) \/ Open(k)

Next == (\E i \in Idas : Ida(i)) \/ (\E k \in Commands : Command(k))

Spec == Init /\ [][Next]_vars

-----------------------------------------------------------------------------
(* Properties.                                                             *)

\* The names a "session close" was given, in its order, repetitions included.
Asked(k) == Candidates(req[k].args.ids, req[k].args.paths)

FirstIndex(s, seq) == CHOOSE n \in DOMAIN seq : seq[n] = s /\ \A m \in 1..(n - 1) : seq[m] # s

\* A finished "session close" tells the truth: it has one outcome for every session
\* that was asked for, in the order of their first mention, whatever became of the
\* others; a session reported closed is no longer advertised by the process that was
\* found; and exit code 0 means that every process that was advertised when the command
\* began, and was meant, no longer is (_cmd_session_close, close_sessions).
BatchTruthful ==
  \A k \in Commands :
    pc[k] = "done" /\ Tool(k) = "session close" /\ Usage(req[k]) =>
      /\ \A n \in DOMAIN outcomes[k] :
           outcomes[k][n].closed => /\ outcomes[k][n].found # None
                                    /\ ~Advertised(outcomes[k][n].found)
      /\ ~req[k].args.all =>
           /\ {o.session : o \in ToSet(outcomes[k])} = ToSet(Asked(k))
           /\ \A m, n \in DOMAIN outcomes[k] :
                m < n => FirstIndex(outcomes[k][m].session, Asked(k))
                           < FirstIndex(outcomes[k][n].session, Asked(k))
      /\ result[k] = "ok" =>
           \A i \in before[k] : req[k].args.all \/ bin[i] \in ToSet(Asked(k)) => ~Advertised(i)

\* close_file and check_connection without a session choose one only if it is the only
\* one: a process that was advertised when the call began, and still is when it
\* chooses, is the one that is chosen (_resolve_close_session, resolve).
SoleSessionOnly ==
  [][\A k \in Commands :
       /\ pc[k] = "scan" /\ pc'[k] \in {"get", "contact"}
       /\ Tool(k) \in {"close_file", "check_connection"}
       => \A i \in before[k] : Advertised(i) => bin[i] = targets'[k][1]]_vars

\* A re-analysis starts without the old database: what its IDA loads, if anything, was
\* left because it could not be deleted, or was written by an IDA that was already on
\* its way out, with its sidecar withdrawn, when open checked (Spawner.open with
\* fresh=True, delete_idb_artifacts).
FreshAnalysis ==
  \A k \in Commands :
    Fresh(k) /\ child[k] # None =>
      \/ base[child[k]] = None
      \/ base[child[k]] \in unseen[k] /\ ida[base[child[k]]] = "gone"
      \/ bin[child[k]] \in kept[k]
=============================================================================

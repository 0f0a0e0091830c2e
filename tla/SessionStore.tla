---------------------------- MODULE SessionStore ----------------------------
(***************************************************************************)
(* The sidecar directory of plugin/session.py, one file operation per      *)
(* step: IDA processes publish and withdraw their sidecars while readers   *)
(* (every proxy and CLI of the user) run get and list_all, which also      *)
(* collect the files of dead processes.                                    *)
(*                                                                         *)
(* A path is a session id (the sidecar <id>.json) or a process (the        *)
(* temporary file .<id>.<random>.json that process writes first).  The     *)
(* content of a file is the process its JSON describes, or Partial.        *)
(***************************************************************************)
EXTENDS FiniteSets

CONSTANTS Ids,         \* session ids
          Processes,   \* IDA processes, never reused even if their pid is
          Readers,     \* callers of get and list_all
          NoFile, Partial

ASSUME StoreAssumption ==
  /\ Ids \cap Processes = {}
  /\ {NoFile, Partial} \cap (Ids \cup Processes) = {}
  /\ NoFile # Partial

Paths == Ids \cup Processes

VARIABLES
  sid,       \* process -> the session id it was started with
  proc,      \* process -> "unborn", "running", "ghost", "gone"
  step,      \* process -> progress of its session.write / session.remove
  file,      \* path -> content, or NoFile
  rd,        \* reader -> where it is
  listing,   \* reader -> it runs list_all rather than get
  cur,       \* reader -> the path it looks at
  seen,      \* reader -> what _load read there
  todo,      \* reader -> paths of the directory listing still to visit
  result,    \* reader -> processes to be returned
  kept,      \* reader -> published and running since the call began (history)
  old        \* reader -> already gone when the call began (history)

procVars == <<sid, proc, step>>
readVars == <<rd, listing, cur, seen, todo, result, old>>
vars     == <<sid, proc, step, file, rd, listing, cur, seen, todo, result, kept, old>>

TypeOK ==
  /\ sid \in [Processes -> Ids]
  /\ proc \in [Processes -> {"unborn", "running", "ghost", "gone"}]
  /\ step \in [Processes -> {"boot", "temp", "filled", "published", "done", "failed"}]
  /\ file \in [Paths -> Processes \cup {Partial, NoFile}]
  /\ rd \in [Readers -> {"idle", "next", "load", "check", "drop", "done"}]
  /\ listing \in [Readers -> BOOLEAN]
  /\ cur \in [Readers -> Paths \cup {NoFile}]
  /\ seen \in [Readers -> Processes \cup {Partial, NoFile}]
  /\ todo \in [Readers -> SUBSET Paths]
  /\ result \in [Readers -> SUBSET Processes]
  /\ kept \in [Readers -> SUBSET Processes]
  /\ old \in [Readers -> SUBSET Processes]

Init ==
  /\ sid \in [Processes -> Ids]
  /\ proc = [p \in Processes |-> "unborn"]
  /\ step = [p \in Processes |-> "boot"]
  /\ file = [x \in Paths |-> NoFile]
  /\ rd = [r \in Readers |-> "idle"]
  /\ listing = [r \in Readers |-> FALSE]
  /\ cur = [r \in Readers |-> NoFile]
  /\ seen = [r \in Readers |-> NoFile]
  /\ todo = [r \in Readers |-> {}]
  /\ result = [r \in Readers |-> {}]
  /\ kept = [r \in Readers |-> {}]
  /\ old = [r \in Readers |-> {}]

-----------------------------------------------------------------------------
(* The processes.                                                          *)

\* is_pid_alive: a zombie nobody waited for, and an unrelated process that got
\* the same pid ("ghost"), answer like the IDA process itself.
IsPidAlive(p) == proc[p] \in {"running", "ghost"}

Running(p, s) == proc[p] = "running" /\ step[p] = s

Spawned(p) ==
  /\ proc[p] = "unborn"
  /\ proc' = [proc EXCEPT ![p] = "running"]
  /\ UNCHANGED <<sid, step, file>>

Advance(p, s) == step' = [step EXCEPT ![p] = s] /\ UNCHANGED <<sid, proc>>

\* Mutated: session.write opens the sidecar itself.
WriteInPlace(p) ==
  /\ Running(p, "boot")
  /\ file' = [file EXCEPT ![sid[p]] = Partial]
  /\ Advance(p, "temp")

WriteTemp(p) ==                            \* tempfile.mkstemp, or OSError
  /\ Running(p, "boot")
  /\ \/ file' = [file EXCEPT ![p] = Partial] /\ Advance(p, "temp")
     \/ UNCHANGED file /\ Advance(p, "failed")

\* The except clause: unlink the temporary file, FileNotFoundError suppressed.
WriteFails(p) ==
  /\ file' = [file EXCEPT ![p] = NoFile]
  /\ Advance(p, "failed")

\* The data goes to the open descriptor, also when the name is already gone.
WriteContent(p) ==
  /\ Running(p, "temp")
  /\ \/ /\ file' = [file EXCEPT ![p] = IF @ = NoFile THEN NoFile ELSE p]
        /\ Advance(p, "filled")
     \/ WriteFails(p)

WriteReplace(p) ==                         \* os.replace
  /\ Running(p, "filled")
  /\ \/ /\ file[p] # NoFile
        /\ file' = [file EXCEPT ![sid[p]] = file[p], ![p] = NoFile]
        /\ Advance(p, "published")
     \/ WriteFails(p)

\* session.remove goes by id: whatever sidecar is there, it is unlinked; an
\* OSError other than "not found" is logged and the file stays.
Remove(p) ==
  /\ Running(p, "published")
  /\ file' \in {[file EXCEPT ![sid[p]] = NoFile], file}
  /\ Advance(p, "done")

\* The process ends, at any time; its pid lingers or not.
Exit(p) ==
  /\ proc[p] = "running"
  /\ proc' \in {[proc EXCEPT ![p] = "ghost"], [proc EXCEPT ![p] = "gone"]}
  /\ UNCHANGED <<sid, step, file>>

Reaped(p) ==
  /\ proc[p] = "ghost"
  /\ proc' = [proc EXCEPT ![p] = "gone"]
  /\ UNCHANGED <<sid, step, file>>

Write(p) == WriteTemp(p) \/ WriteContent(p) \/ WriteReplace(p)

-----------------------------------------------------------------------------
(* The readers.                                                            *)

Published == {p \in Processes : file[sid[p]] = p /\ proc[p] = "running"}

Begin(r) ==
  /\ rd[r] = "idle"
  /\ result' = [result EXCEPT ![r] = {}]
  /\ old' = [old EXCEPT ![r] = {p \in Processes : proc[p] = "gone"}]
  /\ UNCHANGED <<seen, file>>

BeginGet(r, id) ==
  /\ Begin(r)
  /\ listing' = [listing EXCEPT ![r] = FALSE]
  /\ cur' = [cur EXCEPT ![r] = id]
  /\ rd' = [rd EXCEPT ![r] = "load"]
  /\ kept' = [kept EXCEPT ![r] = {p \in Published : sid[p] = id}]
  /\ UNCHANGED todo

\* The suffix test ".json" lets the temporary files through as well.
BeginListAll(r) ==
  /\ Begin(r)
  /\ listing' = [listing EXCEPT ![r] = TRUE]
  /\ todo' = [todo EXCEPT ![r] = {x \in Paths : file[x] # NoFile}]
  /\ rd' = [rd EXCEPT ![r] = "next"]
  /\ kept' = [kept EXCEPT ![r] = Published]
  /\ UNCHANGED cur

\* The next file of the listing; one that is no longer a file is skipped.
NextFile(r) ==
  /\ rd[r] = "next"
  /\ \/ /\ todo[r] = {}
        /\ rd' = [rd EXCEPT ![r] = "done"]
        /\ UNCHANGED <<cur, todo>>
     \/ \E x \in todo[r] :
          /\ todo' = [todo EXCEPT ![r] = @ \ {x}]
          /\ IF file[x] = NoFile
             THEN UNCHANGED <<rd, cur>>
             ELSE /\ rd' = [rd EXCEPT ![r] = "load"]
                  /\ cur' = [cur EXCEPT ![r] = x]
  /\ UNCHANGED <<listing, seen, result, old, file>>

\* A reader is through with a file it keeps or drops.
FileDone(r) ==
  /\ rd' = [rd EXCEPT ![r] = IF listing[r] THEN "next" ELSE "done"]
  /\ cur' = [cur EXCEPT ![r] = NoFile]
  /\ seen' = [seen EXCEPT ![r] = NoFile]

\* Mutated: the first unreadable file ends the listing.
LoadStopsListing(r) ==
  /\ rd[r] = "load"
  /\ seen' = [seen EXCEPT ![r] = file[cur[r]]]
  /\ rd' = [rd EXCEPT ![r] = IF file[cur[r]] \in Processes THEN "check" ELSE "done"]
  /\ UNCHANGED <<listing, cur, todo, result, old, file>>

\* Unreadable: get answers None and leaves the file, list_all drops it.
Load(r) ==
  /\ rd[r] = "load"
  /\ seen' = [seen EXCEPT ![r] = file[cur[r]]]
  /\ rd' = [rd EXCEPT ![r] = IF file[cur[r]] \in Processes THEN "check"
                             ELSE IF listing[r] THEN "drop" ELSE "done"]
  /\ UNCHANGED <<listing, cur, todo, result, old, file>>

\* Mutated: every readable sidecar counts as live.
CheckNothing(r) ==
  /\ rd[r] = "check"
  /\ result' = [result EXCEPT ![r] = @ \cup {seen[r]}]
  /\ FileDone(r)
  /\ UNCHANGED <<listing, todo, old, file>>

\* Mutated: the listing collects file names instead of infos.
CheckReturnsPath(r) ==
  /\ rd[r] = "check"
  /\ result' = [result EXCEPT ![r] = @ \cup {cur[r]}]
  /\ FileDone(r)
  /\ UNCHANGED <<listing, todo, old, file>>

\* Mutated: the test on the pid is the wrong way round.
CheckInverted(r) ==
  /\ rd[r] = "check"
  /\ \/ /\ IsPidAlive(seen[r])
        /\ rd' = [rd EXCEPT ![r] = "drop"]
        /\ UNCHANGED <<cur, seen>>
     \/ ~IsPidAlive(seen[r]) /\ FileDone(r)
  /\ UNCHANGED <<listing, todo, result, old, file>>

Check(r) ==
  /\ rd[r] = "check"
  /\ \/ /\ IsPidAlive(seen[r])
        /\ result' = [result EXCEPT ![r] = @ \cup {seen[r]}]
        /\ FileDone(r)
     \/ /\ ~IsPidAlive(seen[r])
        /\ rd' = [rd EXCEPT ![r] = "drop"]
        /\ UNCHANGED <<result, cur, seen>>
  /\ UNCHANGED <<listing, todo, old, file>>

\* _drop_stale, or remove in get: unlink what is at the path now, or OSError.
Drop(r) ==
  /\ rd[r] = "drop"
  /\ file' \in {[file EXCEPT ![cur[r]] = NoFile], file}
  /\ FileDone(r)
  /\ UNCHANGED <<listing, todo, result, old>>

Return(r) ==
  /\ rd[r] = "done"
  /\ rd' = [rd EXCEPT ![r] = "idle"]
  /\ listing' = [listing EXCEPT ![r] = FALSE]
  /\ cur' = [cur EXCEPT ![r] = NoFile]
  /\ seen' = [seen EXCEPT ![r] = NoFile]
  /\ todo' = [todo EXCEPT ![r] = {}]
  /\ result' = [result EXCEPT ![r] = {}]
  /\ old' = [old EXCEPT ![r] = {}]
  /\ kept' = [kept EXCEPT ![r] = {}]
  /\ UNCHANGED <<procVars, file>>

-----------------------------------------------------------------------------
StillKept(r) == {p \in kept[r] : file'[sid[p]] = p /\ proc'[p] = "running"}
Prune        == kept' = [r \in Readers |-> StillKept(r)]

ProcessStep(p) == Spawned(p) \/ Write(p) \/ Remove(p) \/ Exit(p) \/ Reaped(p)
ReadStep(r)    == NextFile(r) \/ Load(r) \/ Check(r) \/ Drop(r)

Next ==
  \/ \E p \in Processes : ProcessStep(p) /\ UNCHANGED readVars /\ Prune
  \/ \E r \in Readers : ReadStep(r) /\ UNCHANGED procVars /\ Prune
  \/ \E r \in Readers : BeginListAll(r) /\ UNCHANGED procVars
  \/ \E r \in Readers : Return(r)
  \/ \E r \in Readers, id \in Ids : BeginGet(r, id) /\ UNCHANGED procVars

Spec == Init /\ [][Next]_vars

-----------------------------------------------------------------------------
(* Safety.                                                                 *)

\* The file <id>.json is complete whenever it exists, and describes a process
\* that was started for that id (write renames a finished file over it).
SidecarComplete ==
  \A id \in Ids : file[id] # NoFile =>
    file[id] \in Processes /\ sid[file[id]] = id

\* A reader that decided to drop what it read is right: the process it read
\* about is gone for good, however long it takes to act on the decision.
DropDecisionSound ==
  \A r \in Readers : rd[r] = "drop" /\ seen[r] \in Processes => proc[seen[r]] = "gone"

\* A session that was published and running during the whole call is returned,
\* whatever other files come, go or turn out unreadable meanwhile.
ScanComplete ==
  \A r \in Readers : rd[r] = "done" => kept[r] \subseteq result[r]

\* A process that was gone before the call began is never returned.
ScanSound ==
  \A r \in Readers : rd[r] = "done" => result[r] \cap old[r] = {}
=============================================================================

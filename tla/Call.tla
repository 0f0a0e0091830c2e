-------------------------------- MODULE Call --------------------------------
(***************************************************************************)
(* What a tool call promises to its caller, without connections, requests  *)
(* and threads: a tool that is asked for runs at most once, alone, and the *)
(* answer says how it ended.  Nothing is promised about which calls run: a *)
(* call may get lost before its tool runs, while it runs or after.         *)
(***************************************************************************)

CONSTANTS Calls, Tools, Nullable, None

VARIABLES
  asked,    \* call -> {} at first, then {tool}, or {None} if no tool can be run for it
  run,      \* call -> "no", "running", or how its tool ended
  answer,   \* call -> "none", what was answered, or how it got lost
  up        \* IDA serves

Ends == {"value", "none", "unserialisable", "ida", "sync", "other", "base"}

Refusals == {"PARSE_ERROR", "INVALID_REQUEST", "METHOD_NOT_FOUND", "INVALID_PARAMS",
             "INVALID_ENDPOINT"}

Init ==
  /\ asked = [c \in Calls |-> {}]
  /\ run = [c \in Calls |-> "no"]
  /\ answer = [c \in Calls |-> "none"]
  /\ up = TRUE

\* A call may find IDA gone.
Ask(c) ==
  /\ asked[c] = {}
  /\ \E t \in Tools \cup {None} : asked' = [asked EXCEPT ![c] = {t}]
  /\ \/ UNCHANGED answer
     \/ ~up /\ answer' = [answer EXCEPT ![c] = "transport"]
  /\ UNCHANGED <<run, up>>

\* Also for a caller that has given up; never for one that has been answered.
Start(c) ==
  /\ up
  /\ \E t \in Tools : asked[c] = {t}
  /\ run[c] = "no"
  /\ \A d \in Calls : run[d] # "running"
  /\ answer[c] \in {"none", "transport"}
  /\ run' = [run EXCEPT ![c] = "running"]
  /\ UNCHANGED <<asked, answer, up>>

\* An exception from outside Exception ends the session, too.
End(c) ==
  /\ up
  /\ run[c] = "running"
  /\ \E e \in Ends : run' = [run EXCEPT ![c] = e] /\ up' = (e # "base")
  /\ UNCHANGED <<asked, answer>>

\* What can truly be answered.
Answers(c) ==
  CASE asked[c] = {None} -> Refusals
    [] run[c] = "value" -> {"value"}
    [] run[c] = "none" -> IF asked[c] \subseteq Nullable THEN {"null"} ELSE {"marker"}
    [] run[c] = "ida" -> {"IDA_ERROR"}
    [] run[c] \in {"unserialisable", "sync", "other"} -> {"INTERNAL_ERROR"}
    [] OTHER -> {}

Answer(c) ==
  /\ asked[c] # {}
  /\ answer[c] = "none"
  /\ \E a \in Answers(c) \cup {"transport", "incomplete"} : answer' = [answer EXCEPT ![c] = a]
  /\ UNCHANGED <<asked, run, up>>

\* A tool that was running then is never heard of again.
Stop ==
  /\ up
  /\ up' = FALSE
  /\ UNCHANGED <<asked, run, answer>>

Next ==
  \/ \E c \in Calls : Ask(c) \/ Start(c) \/ End(c) \/ Answer(c)
  \/ Stop

Spec == Init /\ [][Next]_<<asked, run, answer, up>>
=============================================================================

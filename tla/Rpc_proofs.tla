----------------------------- MODULE Rpc_proofs -----------------------------
(***************************************************************************)
(* Proofs about Rpc, for any callers and tools: types, the guard of        *)
(* ida_sync, that a caller learns what happened to its own tool, and that  *)
(* Rpc implements Call.  Behind them, what a call's arguments become       *)
(* before the tool sees them, and the proxy's own: Numerals, Arguments and *)
(* Launch, for every value, type, number, text and line that is typed.     *)
(***************************************************************************)
EXTENDS Rpc, Arguments, SequenceTheorems, FiniteSetTheorems, WellFoundedInduction, TLAPS

\* The request the main thread works on belongs to an open connection. Its tool has
\* not begun before dispatch, is running under dispatch, and has ended, or never
\* begins, once there is a reply; the reply is true of it, unless a first attempt
\* to send one has failed, and then nobody reads the second.
CurrentInv ==
  /\ cur \in Calls <=> stage \in {"read", "tool", "head", "body"}
  /\ cur \in Calls => conn[cur] = "open"
  /\ stage = "read" => ran[cur] = "no" /\ got[cur] = "nothing"
  /\ stage = "tool" => stack[1].tool = req[cur].tool /\ got[cur] = "nothing"
  /\ stage = "head" => /\ reply \in Replies \cup {"unserialisable"}
                       /\ Gone(cur) \/ Tells(reply, cur)
  /\ stage = "body" => /\ reply \in Replies
                       /\ Gone(cur) \/ Tells(reply, cur)

\* The slot's token is the empty slot: there is nothing around the call to restore.
TokenInv == stack # <<>> => stack[1].token = None

\* Until a connection is served nothing has happened on it, and until it is closed
\* no whole reply is on it, so that its caller has none.
ConnInv ==
  \A c \in Calls :
    /\ pc[c] = "idle" => conn[c] = "none"
    /\ conn[c] = "none" => ran[c] = "no" /\ got[c] = "nothing"
    /\ conn[c] = "open" => req[c] \in Requests
    /\ conn[c] = "open" /\ c # cur => ran[c] = "no" /\ got[c] = "nothing"
    /\ conn[c] # "closed" => got[c] \notin Replies /\ outcome[c] \notin Replies
    /\ pc[c] # "done" => outcome[c] = "none"

\* What has been written to a connection is true of its call.
GotInv == \A c \in Calls : Tells(got[c], c)

SafeInv == TypeOK /\ SyncExclusive /\ TokenInv

TruthInv == CurrentInv /\ ConnInv /\ GotInv /\ OutcomeTruthful

IInv == SafeInv /\ TruthInv
-----------------------------------------------------------------------------
\* The stack holds at most one call; these are its shapes (the guard of ida_sync).
LEMMA StackShape ==
  ASSUME SafeInv
  PROVE  /\ stage # "tool" => stack = <<>> /\ active = None
         /\ stage = "tool" => /\ Len(stack) = 1
                              /\ stack[1] \in [tool : Tools, token : Tools \cup {None}]
                              /\ Head(stack) = stack[1]
                              /\ stack[1].token = None
                              /\ active = stack[1].tool
                              /\ active # None
<1> USE DEF SafeInv, SyncExclusive
<1>1. stage # "tool" => stack = <<>> /\ active = None
  OBVIOUS
<1> DEFINE Frame == [tool : Tools, token : Tools \cup {None}]
<1>2. ASSUME stage = "tool" PROVE Len(stack) = 1
  <2>1. stack \in Seq(Frame) /\ stack # <<>>
    BY <1>2 DEF TypeOK
  <2>2. Len(stack) <= 1
    OBVIOUS
  <2> HIDE DEF Frame, SafeInv, SyncExclusive
  <2>3. Len(stack) \in Nat /\ Len(stack) # 0
    BY <2>1, EmptySeq
  <2> QED BY <2>2, <2>3
<1>3. ASSUME stage = "tool" PROVE stack[1] \in Frame /\ Head(stack) = stack[1]
  <2>1. stack \in Seq(Frame) /\ Len(stack) = 1
    BY <1>2, <1>3 DEF TypeOK
  <2> HIDE DEF Frame
  <2> QED BY <2>1
<1>4. ASSUME stage = "tool" PROVE active = stack[1].tool /\ stack[1].token = None
  BY <1>4 DEF TokenInv
<1> QED BY <1>1, <1>2, <1>3, <1>4, RpcAssumption

\* A request refused with one of the protocol's codes keeps the invariant: its tool
\* has not run (do_POST's early returns and JSONRPCError clause).
LEMMA RefusalStep ==
  ASSUME IInv, stage = "read",
         NEW r \in Codes \ {"IDA_ERROR", "INTERNAL_ERROR"},
         Respond(r),
         UNCHANGED <<callerVars, conn, got, ran, cur, stack, active>>
  PROVE  IInv'
<1> USE DEF IInv, SafeInv, TruthInv, Respond, callerVars
<1>1. TypeOK'
  BY DEF TypeOK, Replies, Codes
<1>2. SyncExclusive' /\ TokenInv'
  BY DEF SyncExclusive, TokenInv
<1>3. CurrentInv'
  BY DEF CurrentInv, Tells, Replies, Codes, Results, Gone
<1>4. ConnInv' /\ GotInv' /\ OutcomeTruthful'
  BY DEF ConnInv, GotInv, OutcomeTruthful, Tells
<1> QED BY <1>1, <1>2, <1>3, <1>4

\* Closing the connection of the current request keeps the invariant when what was
\* written last is true of the call, or nobody is there to read it.
LEMMA CloseStep ==
  ASSUME IInv, cur \in Calls, stage # "tool", Close,
         NEW w \in {"nothing", "head"} \cup Replies,
         Tells(w, cur),
         got' = [got EXCEPT ![cur] = w],
         UNCHANGED <<callerVars, ran, stack, active>>
  PROVE  IInv'
<1> USE DEF IInv, SafeInv, TruthInv, Close, callerVars
<1>1. TypeOK'
  BY DEF TypeOK
<1>2. SyncExclusive' /\ TokenInv'
  BY StackShape DEF SyncExclusive, TokenInv
<1>3. CurrentInv'
  BY RpcAssumption DEF CurrentInv
<1>4. ConnInv'
  BY RpcAssumption DEF ConnInv, CurrentInv, TypeOK
<1>5. GotInv'
  BY DEF GotInv, Tells, TypeOK
<1>6. OutcomeTruthful'
  BY DEF OutcomeTruthful, Tells
<1> QED BY <1>1, <1>2, <1>3, <1>4, <1>5, <1>6

\* The end of the process or of its loop keeps the invariant, also when it is the
\* running tool that ends it (SystemExit and the like).
LEMMA DownStep ==
  ASSUME IInv, Down, UNCHANGED <<callerVars, got>>,
         \/ UNCHANGED ran
         \/ stage = "tool" /\ ran' = [ran EXCEPT ![cur] = "base"]
  PROVE  IInv'
<1> USE DEF IInv, SafeInv, TruthInv, Down, callerVars
<1>1. TypeOK'
  <2>1. ran' \in [Calls -> {"no", "running"} \cup Ends]
    BY DEF TypeOK, Ends
  <2>2. conn' \in [Calls -> {"none", "open", "closed"}]
    BY DEF TypeOK
  <2> QED BY <2>1, <2>2 DEF TypeOK
<1>2. SyncExclusive' /\ TokenInv'
  BY DEF SyncExclusive, TokenInv
<1>3. CurrentInv'
  BY RpcAssumption DEF CurrentInv
<1>4. \A c \in Calls : ran'[c] # ran[c] => conn[c] = "open" /\ got[c] = "nothing"
  BY DEF CurrentInv, TypeOK
<1>5. ConnInv'
  BY <1>4 DEF ConnInv, TypeOK
<1>6. GotInv'
  BY <1>4 DEF GotInv, Tells, Codes
<1>7. OutcomeTruthful'
  BY <1>4 DEF OutcomeTruthful, ConnInv, TypeOK, Tells, Replies, Results, Codes
<1> QED BY <1>1, <1>2, <1>3, <1>5, <1>6, <1>7

\* The end of the innermost call keeps the invariant: the slot is empty again and
\* the reply says how the tool ended (ida_sync's finally, do_POST's except clauses).
LEMMA LeaveStep ==
  ASSUME IInv, stage = "tool", NEW e \in Ends, Leave(e),
         UNCHANGED <<callerVars, got>>
  PROVE  IInv'
<1> USE DEF IInv, SafeInv, TruthInv
<1> PICK t \in Tools : t = stack[1].tool
  BY StackShape
<1>1. cur \in Calls /\ t = req[cur].tool /\ Head(stack) = stack[1] /\ Len(stack) = 1
      /\ stack[1].token = None
  BY StackShape DEF CurrentInv
<1>2. ran' = [ran EXCEPT ![cur] = e]
  BY <1>1 DEF Leave
<1>3. CASE e = "base"
  <2>1. Down
    BY <1>1, <1>3 DEF Leave
  <2> QED BY <1>2, <1>3, <2>1, DownStep
<1>4. CASE e # "base"
  <2>1. /\ stack' = <<>> /\ active' = None
        /\ reply' = ReplyTo(t, e) /\ stage' = "head"
        /\ UNCHANGED <<conn, cur>>
    <3>1. ~(Len(stack) > 1)
      BY <1>1
    <3>2. /\ stack' = <<>> /\ active' = Head(stack).token
          /\ reply' = ReplyTo(Head(stack).tool, e) /\ stage' = "head"
          /\ UNCHANGED <<conn, cur>>
      BY <1>4, <3>1, Zenon DEF Leave, Respond
    <3> QED BY <1>1, <3>2
  <2>2. ReplyTo(t, e) \in Replies \cup {"unserialisable"}
    BY DEF ReplyTo, Replies, Results, Codes, Ends
  <2>3. TypeOK'
    <3>1. ran' \in [Calls -> {"no", "running"} \cup Ends]
      BY <1>2 DEF TypeOK
    <3>2. stack' \in Seq([tool : Tools, token : Tools \cup {None}])
      BY <2>1
    <3> QED BY <2>1, <2>2, <3>1, <3>2 DEF TypeOK, callerVars
  <2>4. SyncExclusive' /\ TokenInv'
    BY <2>1 DEF SyncExclusive, TokenInv
  <2>5. Tells(ReplyTo(t, e), cur)'
    <3>1. ran'[cur] = e /\ req'[cur].tool = t
      BY <1>1, <1>2, <2>1 DEF TypeOK, callerVars
    <3> QED BY <1>4, <2>1, <3>1 DEF Tells, ReplyTo, Codes, Ends
  <2>6. CurrentInv'
    <3>1. Tells(reply, cur)'
      BY <2>1, <2>5
    <3> QED BY <1>1, <2>1, <2>2, <3>1 DEF CurrentInv
  <2>7. \A c \in Calls : ran'[c] # ran[c] => c = cur
    BY <1>2 DEF TypeOK
  <2>8. ConnInv'
    BY <1>1, <2>1, <2>7 DEF ConnInv, CurrentInv, callerVars
  <2>9. GotInv'
    BY <1>1, <2>1, <2>7 DEF GotInv, CurrentInv, Tells, Codes, callerVars
  <2>10. OutcomeTruthful'
    BY <1>1, <2>1, <2>7
    DEF OutcomeTruthful, CurrentInv, ConnInv, TypeOK, Tells, Replies, Results, Codes, callerVars
  <2> QED BY <2>3, <2>4, <2>6, <2>8, <2>9, <2>10
<1> QED BY <1>3, <1>4

-----------------------------------------------------------------------------
\* A caller connects, or is refused.
LEMMA BeginStep ==
  ASSUME IInv, NEW c \in Calls, Begin(c)
  PROVE  IInv'
<1> USE DEF IInv, SafeInv, TruthInv, Begin, serverVars
<1>1. PICK r \in Requests : req' = [req EXCEPT ![c] = r]
  BY DEF TypeOK
<1>2. conn[c] = "none" /\ cur # c
  BY DEF ConnInv, CurrentInv
<1>3. \A x \in Calls : x # c => /\ pc'[x] = pc[x] /\ req'[x] = req[x]
                                /\ conn'[x] = conn[x] /\ outcome'[x] = outcome[x]
  BY <1>1 DEF TypeOK, Finish
<1>4. /\ pc'[c] # "idle" /\ conn'[c] \in {"none", "open"} /\ req'[c] \in Requests
      /\ outcome'[c] \in {"none", "transport"}
      /\ pc'[c] # "done" => outcome'[c] = "none"
  BY <1>1, <1>2 DEF TypeOK, Finish, ConnInv
<1>5. TypeOK'
  BY <1>1 DEF TypeOK, Finish
<1>6. SyncExclusive' /\ TokenInv'
  BY DEF SyncExclusive, TokenInv
<1>7. CurrentInv'
  BY <1>2, <1>3 DEF CurrentInv, Gone, Tells, TypeOK
<1>8. ConnInv'
  BY <1>2, <1>3, <1>4 DEF ConnInv, Replies, Results, Codes
<1>9. GotInv'
  BY <1>2, <1>3 DEF GotInv, ConnInv, Tells, Codes
<1>10. OutcomeTruthful'
  BY <1>3, <1>4 DEF OutcomeTruthful, Tells, Codes
<1> QED BY <1>5, <1>6, <1>7, <1>8, <1>9, <1>10

\* A caller that has connected goes on: only its own pc and what it has sent or
\* learnt changes, and what it learns is an error or what has been written to it.
LEMMA CallerStep ==
  ASSUME IInv, NEW c \in Calls, Caller(c) \/ GiveUp(c)
  PROVE  IInv'
<1> USE DEF IInv, SafeInv, TruthInv, serverVars
<1>1. /\ pc[c] \in {"body", "wait"}
      /\ \E q \in {"wait", "done"} : pc' = [pc EXCEPT ![c] = q]
      /\ UNCHANGED <<req, conn, got, ran, serverVars>>
      /\ sent' \in [Calls -> BOOLEAN]
  BY DEF Caller, SendBody, Receive, Broken, GiveUp, Finish, TypeOK
<1>2. PICK o \in {"none", "transport", "incomplete"} \cup Replies :
        /\ outcome' = [outcome EXCEPT ![c] = o]
        /\ o = "none" \/ pc'[c] = "done"
        /\ o \in Replies => o = got[c]
  <2>1. CASE SendBody(c)
    <3>1. outcome[c] = "none" /\ outcome' = [outcome EXCEPT ![c] = "none"]
      BY <2>1 DEF SendBody, ConnInv, TypeOK
    <3> QED BY <3>1 DEF Replies, Results, Codes
  <2>2. CASE Receive(c)
    BY <2>2 DEF Receive, Finish, TypeOK
  <2>3. CASE Broken(c)
    BY <2>3 DEF Broken, Finish, TypeOK, Replies, Results, Codes
  <2>4. CASE GiveUp(c)
    BY <2>4 DEF GiveUp, Finish, TypeOK, Replies, Results, Codes
  <2> QED BY <2>1, <2>2, <2>3, <2>4 DEF Caller
<1>3. \A x \in Calls : x # c => pc'[x] = pc[x] /\ outcome'[x] = outcome[x]
  BY <1>1, <1>2 DEF TypeOK
<1>4. outcome'[c] = o /\ pc'[c] \in {"wait", "done"}
  BY <1>1, <1>2 DEF TypeOK
<1>5. TypeOK'
  BY <1>1, <1>2 DEF TypeOK
<1>6. SyncExclusive' /\ TokenInv'
  BY <1>1 DEF SyncExclusive, TokenInv
<1>7. CurrentInv'
  BY <1>1, <1>3, <1>4 DEF CurrentInv, Gone, Tells, TypeOK
<1>8. ConnInv'
  BY <1>1, <1>2, <1>3, <1>4 DEF ConnInv
<1>9. GotInv'
  BY <1>1 DEF GotInv, Tells
<1>10. OutcomeTruthful'
  BY <1>1, <1>2, <1>3, <1>4 DEF OutcomeTruthful, GotInv, Tells, Replies, Results, Codes
<1> QED BY <1>5, <1>6, <1>7, <1>8, <1>9, <1>10

\* The next connection of the backlog is taken.
LEMMA AcceptStep ==
  ASSUME IInv, Accept
  PROVE  IInv'
<1> USE DEF IInv, SafeInv, TruthInv, Accept, callerVars
<1>1. PICK c \in Calls : conn[c] = "open" /\ cur' = c
  OBVIOUS
<1>2. cur \notin Calls
  BY DEF CurrentInv
<1>3. TypeOK'
  BY DEF TypeOK
<1>4. SyncExclusive' /\ TokenInv'
  BY DEF SyncExclusive, TokenInv
<1>5. CurrentInv'
  BY <1>1, <1>2 DEF CurrentInv, ConnInv
<1>6. ConnInv' /\ GotInv' /\ OutcomeTruthful'
  BY <1>1, <1>2 DEF ConnInv, GotInv, OutcomeTruthful, Tells
<1> QED BY <1>3, <1>4, <1>5, <1>6

\* do_POST refuses a request, or fails to decode it.
LEMMA RefuseStep ==
  ASSUME IInv, RefuseHeader \/ RefuseBody \/ FailToDecode
  PROVE  IInv'
<1>1. CASE RefuseHeader
  <2>1. HeaderRefusal[req[cur].shape] \in Codes \ {"IDA_ERROR", "INTERNAL_ERROR"}
    BY <1>1 DEF RefuseHeader, HeaderRefusal, Codes
  <2> QED BY <1>1, <2>1, RefusalStep DEF RefuseHeader
<1>2. CASE RefuseBody
  <2>1. PICK r \in Codes \ {"IDA_ERROR", "INTERNAL_ERROR"} : Respond(r)
    <3>1. req[cur].shape \in DOMAIN BodyRefusal =>
            BodyRefusal[req[cur].shape] \in Codes \ {"IDA_ERROR", "INTERNAL_ERROR"}
      BY DEF BodyRefusal, Codes
    <3>2. "PARSE_ERROR" \in Codes \ {"IDA_ERROR", "INTERNAL_ERROR"}
      BY DEF Codes
    <3> QED BY <1>2, <3>1, <3>2 DEF RefuseBody
  <2> QED BY <1>2, <2>1, RefusalStep DEF RefuseBody
<1>3. CASE FailToDecode
  <2>1. cur \in Calls /\ got[cur] = "nothing" /\ got' = [got EXCEPT ![cur] = "nothing"]
    BY <1>3 DEF FailToDecode, IInv, SafeInv, TruthInv, CurrentInv, TypeOK
  <2>2. Tells("nothing", cur)
    BY DEF Tells, Codes
  <2> QED BY <1>3, <2>1, <2>2, CloseStep DEF FailToDecode
<1> QED BY <1>1, <1>2, <1>3

\* The tool begins: the slot is always free at dispatch.
LEMMA DispatchStep ==
  ASSUME IInv, Dispatch
  PROVE  IInv'
<1> USE DEF IInv, SafeInv, TruthInv, Dispatch, callerVars
<1>1. cur \in Calls /\ stack = <<>> /\ active = None /\ req[cur] \in Requests
  BY StackShape DEF CurrentInv, ConnInv
<1> PICK t \in Tools : req[cur].tool = t
  <2>1. req[cur] \in [shape : {"call"}, tool : Tools]
    BY <1>1 DEF Requests, Refused
  <2> QED BY <2>1
<1>2. /\ stack' = <<[tool |-> t, token |-> None]>> /\ active' = t
      /\ ran' = [ran EXCEPT ![cur] = "running"] /\ stage' = "tool"
      /\ UNCHANGED <<conn, got, cur, reply>>
  BY <1>1 DEF Admits, Enter
<1>3. \A c \in Calls : ran'[c] # ran[c] => c = cur
  BY <1>2 DEF TypeOK
<1>4. TypeOK'
  <2>1. ran' \in [Calls -> {"no", "running"} \cup Ends]
    BY <1>2 DEF TypeOK
  <2>2. stack' \in Seq([tool : Tools, token : Tools \cup {None}])
    BY <1>2
  <2> QED BY <1>2, <2>1, <2>2 DEF TypeOK
<1>5. SyncExclusive' /\ TokenInv'
  BY <1>2 DEF SyncExclusive, TokenInv
<1>6. CurrentInv'
  BY <1>1, <1>2 DEF CurrentInv
<1>7. ConnInv'
  BY <1>1, <1>2, <1>3 DEF ConnInv, CurrentInv
<1>8. GotInv'
  BY <1>1, <1>2, <1>3 DEF GotInv, CurrentInv, Tells, Codes
<1>9. OutcomeTruthful'
  BY <1>1, <1>2, <1>3
  DEF OutcomeTruthful, CurrentInv, ConnInv, TypeOK, Tells, Replies, Results, Codes
<1> QED BY <1>4, <1>5, <1>6, <1>7, <1>8, <1>9

\* The tool ends, or calls another one: the guard always refuses that.
LEMMA ToolStep ==
  ASSUME IInv, EndTool \/ Nest
  PROVE  IInv'
<1>1. CASE EndTool
  BY <1>1, LeaveStep DEF EndTool
<1>2. CASE Nest
  <2>1. ~Admits
    BY <1>2, StackShape DEF Nest, Admits, IInv
  <2>2. "sync" \in Ends
    BY DEF Ends
  <2> QED BY <1>2, <2>1, <2>2, LeaveStep DEF Nest
<1> QED BY <1>1, <1>2

\* A write to a caller that has left fails: a second attempt, or the end of the
\* request; nobody will read either.
LEMMA WriteFailsStep ==
  ASSUME IInv, stage \in {"head", "body"}, WriteFails,
         UNCHANGED <<callerVars, ran, stack, active>>
  PROVE  IInv'
<1> USE DEF IInv, SafeInv, TruthInv, callerVars
<1>1. cur \in Calls /\ Gone(cur) /\ got' = got
  BY DEF CurrentInv, WriteFails
<1>2. CASE Respond("INTERNAL_ERROR") /\ UNCHANGED <<conn, cur>>
  <2> USE <1>1, <1>2 DEF Respond
  <2>1. TypeOK'
    BY DEF TypeOK, Replies, Codes
  <2>2. SyncExclusive' /\ TokenInv'
    BY DEF SyncExclusive, TokenInv
  <2>3. CurrentInv'
    BY DEF CurrentInv, Gone, Replies, Codes
  <2>4. ConnInv' /\ GotInv' /\ OutcomeTruthful'
    BY DEF ConnInv, GotInv, OutcomeTruthful, Tells
  <2> QED BY <2>1, <2>2, <2>3, <2>4
<1>3. CASE Close
  <2>1. PICK w \in {"nothing", "head"} \cup Replies : w = got[cur]
    BY <1>1 DEF TypeOK
  <2>2. Tells(w, cur) /\ got' = [got EXCEPT ![cur] = w]
    BY <1>1, <2>1 DEF GotInv, TypeOK
  <2> QED BY <1>1, <1>3, <2>2, CloseStep
<1> QED BY <1>2, <1>3 DEF WriteFails

\* _send_json, first half: the serialisation and the header.
LEMMA SendHeadStep ==
  ASSUME IInv, SendHead
  PROVE  IInv'
<1> USE DEF IInv, SafeInv, TruthInv, SendHead, callerVars
<1>1. cur \in Calls /\ conn[cur] = "open"
  BY DEF CurrentInv
<1>2. CASE reply = "unserialisable" /\ Respond("INTERNAL_ERROR") /\ UNCHANGED <<conn, cur, got>>
  <2> USE <1>1, <1>2 DEF Respond
  <2>1. TypeOK'
    BY DEF TypeOK, Replies, Codes
  <2>2. SyncExclusive' /\ TokenInv'
    BY DEF SyncExclusive, TokenInv
  <2>3. CurrentInv'
    BY DEF CurrentInv, Gone, Tells, Replies, Results, Codes
  <2>4. ConnInv' /\ GotInv' /\ OutcomeTruthful'
    BY DEF ConnInv, GotInv, OutcomeTruthful, Tells
  <2> QED BY <2>1, <2>2, <2>3, <2>4
<1>3. CASE reply \in Replies /\ Write("head") /\ stage' = "body" /\ UNCHANGED <<conn, cur, reply>>
  <2>1. \A c \in Calls : got'[c] = got[c] \/ (c = cur /\ got'[c] = "head")
    BY <1>1, <1>3 DEF Write, TypeOK
  <2>2. TypeOK'
    BY <1>1, <1>3 DEF Write, TypeOK
  <2>3. SyncExclusive' /\ TokenInv'
    BY <1>3 DEF SyncExclusive, TokenInv
  <2>4. CurrentInv'
    BY <1>1, <1>3 DEF CurrentInv, Gone, Tells
  <2>5. ConnInv'
    BY <1>1, <1>3, <2>1 DEF ConnInv, Replies, Results, Codes
  <2>6. GotInv' /\ OutcomeTruthful'
    BY <1>3, <2>1 DEF GotInv, OutcomeTruthful, Tells, Codes
  <2> QED BY <2>2, <2>3, <2>4, <2>5, <2>6
<1>4. CASE WriteFails
  BY <1>4, WriteFailsStep
<1> QED BY <1>2, <1>3, <1>4

\* _send_json, second half: what a caller that is still there can read is true.
LEMMA SendReplyStep ==
  ASSUME IInv, SendReply
  PROVE  IInv'
<1> USE DEF IInv, SafeInv, TruthInv, SendReply
<1>1. cur \in Calls /\ reply \in Replies /\ (Gone(cur) \/ Tells(reply, cur))
  BY DEF CurrentInv
<1>2. CASE Write(reply) /\ Close
  <2>1. PICK w \in {"nothing", "head"} \cup Replies :
          w = IF Gone(cur) THEN got[cur] ELSE reply
    BY <1>1 DEF TypeOK
  <2>2. Tells(w, cur)
    BY <1>1, <2>1 DEF GotInv
  <2>3. got' = [got EXCEPT ![cur] = w]
    BY <1>1, <1>2, <2>1 DEF Write, TypeOK
  <2> QED BY <1>1, <1>2, <2>2, <2>3, CloseStep
<1>3. CASE WriteFails
  BY <1>3, WriteFailsStep
<1> QED BY <1>2, <1>3

-----------------------------------------------------------------------------
\* Nothing has happened yet.
LEMMA InitInv == Init => IInv
<1> SUFFICES ASSUME Init PROVE IInv
  OBVIOUS
<1> USE DEF Init
<1>1. TypeOK
  BY DEF TypeOK
<1>2. SyncExclusive /\ TokenInv
  BY EmptySeq DEF SyncExclusive, TokenInv
<1>3. CurrentInv /\ ConnInv
  BY RpcAssumption DEF CurrentInv, ConnInv, Replies, Results, Codes
<1>4. GotInv /\ OutcomeTruthful
  BY DEF GotInv, OutcomeTruthful, Tells, Codes
<1> QED BY <1>1, <1>2, <1>3, <1>4 DEF IInv, SafeInv, TruthInv

\* Every step keeps the invariant.
LEMMA StepInv == IInv /\ [Next]_vars => IInv'
<1> SUFFICES ASSUME IInv, [Next]_vars PROVE IInv'
  OBVIOUS
<1>1. ASSUME NEW c \in Calls, Begin(c) PROVE IInv'
  BY <1>1, BeginStep
<1>2. ASSUME NEW c \in Calls, Caller(c) \/ GiveUp(c) PROVE IInv'
  BY <1>2, CallerStep
<1>3. CASE Server
  BY <1>3, AcceptStep, RefuseStep, DispatchStep, ToolStep, SendHeadStep, SendReplyStep
  DEF Server
<1>4. CASE Nest
  BY <1>4, ToolStep
<1>5. CASE Shutdown
  BY <1>5, DownStep DEF Shutdown
<1>6. CASE Die
  BY <1>6, DownStep DEF Die
<1>7. CASE UNCHANGED vars
  BY <1>7
  DEF vars, IInv, SafeInv, TruthInv, TypeOK, SyncExclusive, TokenInv, CurrentInv, ConnInv,
      GotInv, OutcomeTruthful, Tells, Gone
<1> QED BY <1>1, <1>2, <1>3, <1>4, <1>5, <1>6, <1>7 DEF Next

\* The invariant holds throughout.
LEMMA Invariant == Spec => []IInv
BY InitInv, StepInv, PTL DEF Spec

\* Every variable keeps its type, for any callers and tools.
THEOREM TypeCorrect == Spec => []TypeOK
<1>1. IInv => TypeOK
  BY DEF IInv, SafeInv
<1> QED BY <1>1, Invariant, PTL

\* ida_sync's guard: at most one synchronised call at a time, and the slot names it
\* and is empty after every way a call can end.
THEOREM SlotExclusive == Spec => []SyncExclusive
<1>1. IInv => SyncExclusive
  BY DEF IInv, SafeInv
<1> QED BY <1>1, Invariant, PTL

\* A result, a domain error or a refusal reaches a caller only when it is what
\* happened to its own tool, whatever connections break and whoever else calls.
THEOREM OutcomesTrue == Spec => []OutcomeTruthful
<1>1. IInv => OutcomeTruthful
  BY DEF IInv, TruthInv
<1> QED BY <1>1, Invariant, PTL

-----------------------------------------------------------------------------
(* Rpc implements Call.                                                    *)

\* A tool that has begun was asked for; while IDA serves, only the current call's tool
\* can be running; a refusal is only ever written for a request that no tool could be
\* run for; and an answer that was cut short had begun.
RunInv ==
  /\ \A c \in Calls :
       /\ ran[c] # "no" => pc[c] # "idle" /\ req[c].tool \in Tools
       /\ ran[c] = "running" => stage = "down" \/ (stage = "tool" /\ cur = c)
       /\ got[c] \in C!Refusals => req[c].tool = None
       /\ outcome[c] = "incomplete" => got[c] # "nothing"
  /\ stage = "tool" => ran[cur] = "running"
  /\ stage \in {"head", "body"} /\ reply \in C!Refusals => Gone(cur) \/ req[cur].tool = None

\* Nothing of the call's is changed.
Stutters == UNCHANGED <<Asked, ran, outcome, stage # "down">>

\* A step is a step of Call, or none.
Simulates == C!Next \/ Stutters

\* A caller connects.
LEMMA BeginSim ==
  ASSUME IInv, RunInv, NEW c \in Calls, Begin(c)
  PROVE  RunInv' /\ Simulates
<1> USE DEF IInv, SafeInv, TruthInv
<1>1. PICK r \in Requests : req' = [req EXCEPT ![c] = r]
  BY DEF Begin
<1>2. /\ pc[c] = "idle" /\ conn[c] = "none" /\ cur # c /\ ran[c] = "no" /\ got[c] = "nothing"
      /\ outcome[c] = "none"
  BY DEF Begin, ConnInv, CurrentInv
<1>3. /\ pc'[c] \in {"body", "done"}
      /\ \A x \in Calls \ {c} : pc'[x] = pc[x] /\ req'[x] = req[x] /\ outcome'[x] = outcome[x]
      /\ req'[c] = r
      /\ UNCHANGED <<ran, got, stage, cur, reply>>
      /\ \/ outcome' = outcome
         \/ stage = "down" /\ outcome' = [outcome EXCEPT ![c] = "transport"]
  BY <1>1 DEF Begin, Finish, TypeOK, serverVars
<1>4. RunInv'
  <2>1. outcome'[c] # "incomplete"
    BY <1>2, <1>3 DEF TypeOK
  <2>2. cur' \in Calls => cur' # c
    BY <1>2, <1>3
  <2>3. stage' \in {"head", "body"} => cur' \in Calls
    BY <1>3 DEF CurrentInv
  <2> QED BY <1>2, <1>3, <2>1, <2>2, <2>3 DEF RunInv, Gone, C!Refusals
<1>5. r.tool \in Tools \cup {None}
  BY DEF Requests
<1>6. Asked' = [Asked EXCEPT ![c] = {r.tool}] /\ Asked[c] = {}
  BY <1>2, <1>3 DEF Asked
<1>7. C!Ask(c)
  BY <1>3, <1>5, <1>6 DEF C!Ask
<1> QED BY <1>4, <1>7 DEF Simulates, C!Next

\* A caller that has connected goes on: it learns what was written to it, or nothing.
LEMMA CallerSim ==
  ASSUME IInv, RunInv, NEW c \in Calls, Caller(c) \/ GiveUp(c)
  PROVE  RunInv' /\ Simulates
<1> USE DEF IInv, SafeInv, TruthInv
<1>1. /\ pc[c] \in {"body", "wait"} /\ pc'[c] \in {"wait", "done"}
      /\ \A x \in Calls \ {c} : pc'[x] = pc[x] /\ outcome'[x] = outcome[x]
      /\ UNCHANGED <<req, conn, got, ran, stage, cur, reply>>
  BY DEF Caller, SendBody, Receive, Broken, GiveUp, Finish, TypeOK, serverVars
<1>2. \/ outcome' = outcome
      \/ outcome' = [outcome EXCEPT ![c] = "transport"]
      \/ got[c] = "head" /\ outcome' = [outcome EXCEPT ![c] = "incomplete"]
      \/ got[c] \in Replies /\ outcome' = [outcome EXCEPT ![c] = got[c]]
  BY DEF Caller, SendBody, Receive, Broken, GiveUp, Finish
<1>3. outcome'[c] = "incomplete" => got[c] # "nothing"
  BY <1>2 DEF TypeOK, RunInv, Replies, Results, Codes
<1>4. RunInv'
  BY <1>1, <1>3 DEF RunInv, Gone, CurrentInv
<1>5. Asked' = Asked /\ Asked[c] = {req[c].tool}
  BY <1>1 DEF Asked
<1>6. CASE outcome' = outcome
  BY <1>1, <1>4, <1>5, <1>6 DEF Simulates, Stutters
<1>7. CASE outcome' # outcome
  <2>1. outcome[c] = "none" /\ Asked[c] # {}
    BY <1>1, <1>5 DEF ConnInv
  <2>2. got[c] \in Replies => got[c] \in C!Answers(c)
    <3> SUFFICES ASSUME got[c] \in Replies PROVE got[c] \in C!Answers(c)
      OBVIOUS
    <3>1. Tells(got[c], c)
      BY DEF GotInv
    <3>2. CASE got[c] \in C!Refusals
      <4>1. req[c].tool = None
        BY <3>2 DEF RunInv
      <4>2. ran[c] = "no"
        BY <4>1, RpcAssumption DEF RunInv
      <4> QED BY <1>5, <3>2, <4>1, <4>2 DEF C!Answers
    <3>3. CASE got[c] \notin C!Refusals
      <4>1. ran[c] # "no" /\ req[c].tool \in Tools
        BY <3>1, <3>3 DEF Tells, Replies, Results, Codes, C!Refusals, RunInv
      <4>2. Asked[c] # {None} /\ (Asked[c] \subseteq Nullable <=> req[c].tool \in Nullable)
        BY <1>5, <4>1, RpcAssumption
      <4> QED BY <3>1, <3>3, <4>1, <4>2 DEF Tells, Replies, Results, Codes, C!Refusals, C!Answers
    <3> QED BY <3>2, <3>3
  <2>3. C!Answer(c)
    BY <1>1, <1>2, <1>5, <1>7, <2>1, <2>2 DEF C!Answer
  <2> QED BY <1>4, <2>3 DEF Simulates, C!Next
<1> QED BY <1>4, <1>6, <1>7

\* The main thread takes a request, or refuses it: the call sees nothing of that yet.
LEMMA RefuseSim ==
  ASSUME IInv, RunInv, Accept \/ RefuseHeader \/ RefuseBody \/ FailToDecode
  PROVE  RunInv' /\ Simulates
<1> USE DEF IInv, SafeInv, TruthInv
<1>1. UNCHANGED <<pc, req, outcome, got, ran>> /\ stage \in {"accept", "read"} /\ stage' # "down"
  BY DEF Accept, RefuseHeader, RefuseBody, FailToDecode, Respond, Close, callerVars
<1>2. Simulates
  BY <1>1 DEF Simulates, Stutters, Asked
<1>3. stage' = "head" => Gone(cur) \/ req[cur].tool = None
  <2> SUFFICES ASSUME stage' = "head" PROVE Gone(cur) \/ req[cur].tool = None
    OBVIOUS
  <2>1. stage = "read" /\ cur \in Calls /\ req[cur] \in Requests
    <3>1. stage = "read"
      BY DEF Accept, RefuseHeader, RefuseBody, FailToDecode, Close
    <3> QED BY <3>1 DEF CurrentInv, ConnInv
  <2>2. Gone(cur) \/ req[cur].shape \in DOMAIN HeaderRefusal \cup DOMAIN BodyRefusal
    BY DEF Accept, RefuseHeader, RefuseBody, FailToDecode, Close
  <2> QED BY <2>1, <2>2 DEF HeaderRefusal, BodyRefusal, Requests
<1>4. stage' \in {"accept", "read", "head"} /\ (stage' = "head" => cur' = cur)
  BY DEF Accept, RefuseHeader, RefuseBody, FailToDecode, Respond, Close
<1> QED BY <1>1, <1>2, <1>3, <1>4 DEF RunInv, Gone

\* The tool begins, and no other is running.
LEMMA DispatchSim ==
  ASSUME IInv, RunInv, Dispatch
  PROVE  RunInv' /\ Simulates
<1> USE DEF IInv, SafeInv, TruthInv
<1>1. stage = "read" /\ cur \in Calls /\ Admits
  BY StackShape DEF CurrentInv, Dispatch, Admits
<1>2. /\ stage' = "tool" /\ ran' = [ran EXCEPT ![cur] = "running"]
      /\ UNCHANGED <<pc, req, sent, outcome, conn, got, cur, reply>>
  BY <1>1 DEF Dispatch, callerVars
<1>3. ran[cur] = "no" /\ conn[cur] = "open" /\ got[cur] = "nothing" /\ pc[cur] # "idle"
  BY <1>1 DEF CurrentInv, ConnInv
<1>4. req[cur].tool \in Tools
  BY <1>1, <1>3 DEF ConnInv, Requests, Refused, Dispatch
<1>5. RunInv'
  BY <1>1, <1>2, <1>3, <1>4 DEF RunInv, TypeOK
<1>6. Asked' = Asked /\ Asked[cur] = {req[cur].tool}
  BY <1>1, <1>2, <1>3 DEF Asked
<1>7. \A d \in Calls : ran[d] # "running"
  BY <1>1 DEF RunInv
<1>8. outcome[cur] \in {"none", "transport"}
  BY <1>1, <1>3 DEF ConnInv, RunInv, TypeOK
<1>9. C!Start(cur)
  BY <1>1, <1>2, <1>3, <1>4, <1>6, <1>7, <1>8 DEF C!Start
<1> QED BY <1>1, <1>5, <1>9 DEF Simulates, C!Next

\* The tool ends, or what it calls is refused.
LEMMA ToolSim ==
  ASSUME IInv, RunInv, EndTool \/ Nest
  PROVE  RunInv' /\ Simulates
<1> USE DEF IInv, SafeInv, TruthInv
<1>1. PICK e \in Ends : Leave(e)
  <2>1. ~Admits \/ ~Nest
    BY StackShape DEF Nest, Admits
  <2> QED BY <2>1 DEF EndTool, Nest, Ends
<1>2. stage = "tool" /\ cur \in Calls /\ UNCHANGED <<pc, req, outcome, got>>
  BY DEF EndTool, Nest, CurrentInv, callerVars
<1>3. Len(stack) = 1 /\ Head(stack).tool = req[cur].tool
  <2>1. Len(stack) = 1 /\ Head(stack) = stack[1]
    BY <1>2, StackShape
  <2> QED BY <1>2, <2>1 DEF CurrentInv
<1>4. /\ ran' = [ran EXCEPT ![cur] = e]
      /\ \/ e = "base" /\ stage' = "down"
         \/ e # "base" /\ stage' = "head" /\ cur' = cur /\ reply' = ReplyTo(req[cur].tool, e)
  <2>1. ~(Len(stack) > 1)
    BY <1>3
  <2> QED BY <1>1, <1>3, <2>1, Zenon DEF Leave, Respond, Down
<1>5. ran[cur] = "running" /\ pc[cur] # "idle" /\ req[cur].tool \in Tools
  BY <1>2 DEF RunInv
<1>6. RunInv'
  <2>1. ReplyTo(req[cur].tool, e) \notin C!Refusals
    BY DEF ReplyTo, Ends, C!Refusals
  <2>2. \A c \in Calls : ran'[c] = IF c = cur THEN e ELSE ran[c]
    BY <1>2, <1>4 DEF TypeOK
  <2> QED BY <1>2, <1>4, <1>5, <2>1, <2>2 DEF RunInv, Ends
<1>7. Asked' = Asked
  BY <1>2 DEF Asked
<1>8. C!End(cur)
  BY <1>2, <1>4, <1>5, <1>7 DEF C!End, C!Ends, Ends
<1> QED BY <1>2, <1>6, <1>8 DEF Simulates, C!Next

\* The reply is written, or is not: the call sees it when the caller reads it.
LEMMA SendSim ==
  ASSUME IInv, RunInv, SendHead \/ SendReply
  PROVE  RunInv' /\ Simulates
<1> USE DEF IInv, SafeInv, TruthInv
<1>1. /\ stage \in {"head", "body"} /\ stage' \in {"head", "body", "accept"}
      /\ UNCHANGED <<pc, req, outcome, ran>>
      /\ cur \in Calls
  BY DEF SendHead, SendReply, WriteFails, Respond, Close, callerVars, CurrentInv
<1>2. Simulates
  BY <1>1 DEF Simulates, Stutters, Asked
<1>3. /\ stage' = "body" => cur' = cur /\ reply' = reply
      /\ stage' = "head" => cur' = cur /\ reply' = "INTERNAL_ERROR"
  BY DEF SendHead, SendReply, WriteFails, Respond, Close
<1>4. \A c \in Calls : \/ got'[c] = got[c]
                       \/ got'[c] = "head"
                       \/ c = cur /\ ~Gone(cur) /\ got'[c] = reply
  BY <1>1 DEF SendHead, SendReply, WriteFails, Write, TypeOK
<1>5. \A c \in Calls : got'[c] = "nothing" => got[c] = "nothing"
  BY <1>1 DEF SendHead, SendReply, WriteFails, Write, TypeOK, CurrentInv, Replies, Results, Codes
<1> QED BY <1>1, <1>2, <1>3, <1>4, <1>5 DEF RunInv, Gone, C!Refusals

\* IDA ends.
LEMMA DownSim ==
  ASSUME IInv, RunInv, Shutdown \/ Die
  PROVE  RunInv' /\ Simulates
<1> USE DEF IInv, SafeInv, TruthInv
<1>1. stage # "down" /\ stage' = "down" /\ UNCHANGED <<pc, req, outcome, got, ran>>
  BY DEF Shutdown, Die, Down, callerVars
<1>2. RunInv'
  BY <1>1 DEF RunInv
<1>3. C!Stop
  BY <1>1 DEF C!Stop, Asked
<1> QED BY <1>2, <1>3 DEF Simulates, C!Next

-----------------------------------------------------------------------------
\* Nothing has been asked yet.
LEMMA InitSim == Init => RunInv /\ C!Init
<1> SUFFICES ASSUME Init PROVE RunInv /\ C!Init
  OBVIOUS
<1>1. RunInv
  BY DEF Init, RunInv, C!Refusals
<1>2. C!Init
  BY DEF Init, C!Init, Asked
<1> QED BY <1>1, <1>2

\* Every step of Rpc is one of Call, or none.
LEMMA StepSim == IInv /\ RunInv /\ [Next]_vars => RunInv' /\ Simulates
<1> SUFFICES ASSUME IInv, RunInv, [Next]_vars PROVE RunInv' /\ Simulates
  OBVIOUS
<1>1. ASSUME NEW c \in Calls, Begin(c) PROVE RunInv' /\ Simulates
  BY <1>1, BeginSim
<1>2. ASSUME NEW c \in Calls, Caller(c) \/ GiveUp(c) PROVE RunInv' /\ Simulates
  BY <1>2, CallerSim
<1>3. CASE Server
  BY <1>3, RefuseSim, DispatchSim, ToolSim, SendSim DEF Server
<1>4. CASE Nest \/ Shutdown \/ Die
  BY <1>4, ToolSim, DownSim
<1>5. CASE UNCHANGED vars
  BY <1>5 DEF vars, RunInv, Gone, Simulates, Stutters, Asked
<1> QED BY <1>1, <1>2, <1>3, <1>4, <1>5 DEF Next

\* A tool call runs its tool at most once, alone, and not after it was refused or
\* answered, and its answer says how the tool ended, for any callers and tools
\* (do_POST, dispatch, ida_sync and call together keep the promise of Call).
THEOREM Implementation == Spec => CallImplemented
<1>1. Simulates => [C!Next]_<<Asked, ran, outcome, stage # "down">>
  BY DEF Simulates, Stutters
<1>2. Spec => []IInv
  BY Invariant
<1> QED BY <1>1, <1>2, InitSim, StepSim, PTL DEF Spec, CallImplemented, C!Spec
-----------------------------------------------------------------------------
(***************************************************************************)
(* What the proofs about arguments share: induction over natural numbers.  *)
(***************************************************************************)

\* Any set of natural numbers has a least member.
LEMMA LeastMember ==
  ASSUME NEW T \in SUBSET Nat, T # {}
  PROVE  \E m \in T : \A n \in T : m <= n
  <1> DEFINE Below(n) == {i \in Nat : i < n}
             U == {Below(n) : n \in T}
  <1>1. U \subseteq FiniteSubsetsOf(Nat)
    <2>1. ASSUME NEW n \in Nat
          PROVE  IsFiniteSet(Below(n))
      <3>1. Below(n) = 0..(n - 1)
        OBVIOUS
      <3>2. IsFiniteSet(0..(n - 1))
        <4>1. 0 \in Int /\ n - 1 \in Int
          OBVIOUS
        <4> QED
          BY ONLY <4>1, FS_Interval
      <3> QED
        BY <3>1, <3>2
    <2> QED
      BY <2>1 DEF FiniteSubsetsOf
  <1>2. IsWellFoundedOn(StrictSubsetOrdering(Nat), FiniteSubsetsOf(Nat))
    BY FS_StrictSubsetOrderingWellFounded
  <1>3. U # {}
    OBVIOUS
  <1> HIDE DEF U
  <1>4. PICK B \in U : \A D \in U : <<D, B>> \notin StrictSubsetOrdering(Nat)
    BY <1>1, <1>2, <1>3, WFMin
  <1>5. PICK m \in T : B = Below(m)
    BY DEF U
  <1>6. ASSUME NEW n \in T, n < m
        PROVE  FALSE
    <2>1. <<Below(n), Below(m)>> \notin StrictSubsetOrdering(Nat)
      BY <1>4, <1>5 DEF U
    <2>2. n \in Below(m) /\ n \notin Below(n) /\ Below(n) \subseteq Below(m)
      BY <1>6
    <2> QED
      BY <2>1, <2>2 DEF StrictSubsetOrdering
  <1> QED
    BY <1>6

\* Induction over the natural numbers.
LEMMA Induction ==
  ASSUME NEW T \in SUBSET Nat, 0 \in T, \A n \in T : n + 1 \in T
  PROVE  T = Nat
  <1> SUFFICES ASSUME Nat \ T # {}
               PROVE  FALSE
    OBVIOUS
  <1>1. PICK m \in Nat \ T : \A n \in Nat \ T : m <= n
    BY LeastMember
  <1>2. m # 0 /\ m - 1 \in T
    BY <1>1
  <1> QED
    BY <1>1, <1>2

\* And any that is bounded has a greatest one.
LEMMA GreatestMember ==
  ASSUME NEW N \in Nat, NEW T \in SUBSET (0..N), T # {}
  PROVE  \E m \in T : \A n \in T : n <= m
  <1> DEFINE U == {N - n : n \in T}
  <1>0. \A n \in T : n \in Int /\ N - n \in Nat
    OBVIOUS
  <1>1. U \in SUBSET Nat /\ U # {}
    BY <1>0
  <1>2. PICK u \in U : \A x \in U : u <= x
    BY <1>1, LeastMember
  <1>3. PICK m \in T : u = N - m
    BY <1>2
  <1>4. \A n \in T : N - n \in U
    OBVIOUS
  <1>5. \A n \in T : N - m <= N - n
    BY <1>2, <1>3, <1>4
  <1> QED
    BY <1>0, <1>5

-----------------------------------------------------------------------------
(***************************************************************************)
(* Numerals, for every number, text and listing.                           *)
(***************************************************************************)

\* A function goes on from each number to the next one.
Iterates(g, S, a, F) ==
  g \in [Nat -> S] /\ g[0] = a /\ \A n \in Nat : g[n + 1] = F[<<n, g[n]>>]

\* A function that starts at a, and goes from each number to the next by F, exists.
LEMMA Recursion ==
  ASSUME NEW S, NEW a \in S, NEW F \in [Nat \X S -> S]
  PROVE  \E g : Iterates(g, S, a, F)
  <1> DEFINE Solves(g, j) == /\ g \in [0..j -> S] /\ g[0] = a
                             /\ \A n \in 0..(j - 1) : g[n + 1] = F[<<n, g[n]>>]
             T == {j \in Nat : \E g : Solves(g, j)}
  <1>1. T = Nat
    <2>1. 0 \in T
      <3>1. Solves([n \in 0..0 |-> a], 0)
        OBVIOUS
      <3> QED
        BY <3>1
    <2>2. ASSUME NEW j \in T
          PROVE  j + 1 \in T
      <3>1. PICK g : Solves(g, j)
        OBVIOUS
      <3> DEFINE h == [n \in 0..(j + 1) |-> IF n = j + 1 THEN F[<<j, g[j]>>] ELSE g[n]]
      <3>2. g[j] \in S /\ F[<<j, g[j]>>] \in S
        BY <3>1
      <3>3. \A n \in 0..j : h[n] = g[n]
        OBVIOUS
      <3>4. h[j + 1] = F[<<j, g[j]>>] /\ h[j] = g[j] /\ h[0] = g[0]
        BY <3>3
      <3>5. h \in [0..(j + 1) -> S]
        BY <3>1, <3>2
      <3>6. \A n \in 0..((j + 1) - 1) : h[n + 1] = F[<<n, h[n]>>]
        <4>1. SUFFICES ASSUME NEW n \in 0..((j + 1) - 1)
                       PROVE  h[n + 1] = F[<<n, h[n]>>]
          OBVIOUS
        <4>2. CASE n = j
          BY <3>4, <4>2
        <4>3. CASE n # j
          <5>1. n \in 0..(j - 1) /\ n + 1 \in 0..j /\ n \in 0..j
            BY <4>3
          <5>2. g[n + 1] = F[<<n, g[n]>>]
            BY <3>1, <5>1
          <5> HIDE DEF h
          <5> QED
            BY <3>3, <5>1, <5>2
        <4> QED
          BY <4>2, <4>3
      <3>7. Solves(h, j + 1)
        <4> HIDE DEF h
        <4> QED
          BY <3>1, <3>4, <3>5, <3>6
      <3> HIDE DEF Solves, h
      <3> QED
        BY <3>7
    <2>3. T \in SUBSET Nat
      OBVIOUS
    <2> HIDE DEF T
    <2> QED
      BY <2>1, <2>2, <2>3, Induction
  <1>2. ASSUME NEW j \in Nat, NEW k \in Nat, NEW g, NEW h, Solves(g, j), Solves(h, k)
        PROVE  \A n \in Nat : n <= j /\ n <= k => g[n] = h[n]
    <2> DEFINE U == {n \in Nat : n <= j /\ n <= k => g[n] = h[n]}
    <2>1. 0 \in U
      BY <1>2
    <2>2. ASSUME NEW n \in U
          PROVE  n + 1 \in U
      <3>1. SUFFICES ASSUME n + 1 <= j, n + 1 <= k
                     PROVE  g[n + 1] = h[n + 1]
        OBVIOUS
      <3>2. n \in 0..(j - 1) /\ n \in 0..(k - 1) /\ g[n] = h[n]
        BY <3>1
      <3> QED
        BY <1>2, <3>2
    <2>3. U \in SUBSET Nat
      OBVIOUS
    <2>4. U = Nat
      <3> HIDE DEF U
      <3> QED
        BY <2>1, <2>2, <2>3, Induction
    <2> QED
      BY <2>4
  <1> DEFINE Upto(n) == CHOOSE g : Solves(g, n)
             G == [n \in Nat |-> Upto(n)[n]]
  <1>3. \A n \in Nat : Solves(Upto(n), n)
    <2> HIDE DEF Solves
    <2> QED
      BY <1>1
  <1>4. \A n \in Nat : Upto(n)[n] \in S /\ Upto(0)[0] = a
    <2> HIDE DEF Upto
    <2> QED
      BY <1>3
  <1>5. G \in [Nat -> S] /\ G[0] = a
    <2> HIDE DEF Upto
    <2> QED
      BY <1>4
  <1>6. ASSUME NEW n \in Nat
        PROVE  G[n + 1] = F[<<n, G[n]>>]
    <2>1. Solves(Upto(n), n) /\ Solves(Upto(n + 1), n + 1)
      <3> HIDE DEF Solves, Upto
      <3> QED
        BY <1>3
    <2>2. Upto(n)[n] = Upto(n + 1)[n]
      <3>1. n <= n /\ n <= n + 1 /\ n + 1 \in Nat
        OBVIOUS
      <3> HIDE DEF Solves, Upto
      <3> QED
        BY <1>2, <2>1, <3>1
    <2>3. Upto(n + 1)[n + 1] = F[<<n, Upto(n + 1)[n]>>]
      <3>1. n \in 0..((n + 1) - 1)
        OBVIOUS
      <3> HIDE DEF Upto
      <3> QED
        BY <2>1, <3>1
    <2> HIDE DEF Upto
    <2> QED
      BY <2>2, <2>3
  <1> HIDE DEF G
  <1> QED
    BY <1>5, <1>6 DEF Iterates

\* Powers.
LEMMA PowerIs ==
  ASSUME NEW base \in Nat \ {0}
  PROVE  /\ Power(base) \in [Nat -> Nat \ {0}]
         /\ Power(base)[0] = 1
         /\ \A n \in Nat : Power(base)[n + 1] = base * Power(base)[n]
  <1> DEFINE F == [x \in Nat \X (Nat \ {0}) |-> base * x[2]]
             Step(g, n) == IF n = 0 THEN 1 ELSE base * g[n - 1]
             Solves(g) == g = [n \in Nat |-> Step(g, n)]
             p == CHOOSE g : Solves(g)
  <1>1. Power(base) = p
    BY DEF Power
  <1>2. \A x \in Nat \ {0} : base * x \in Nat \ {0}
    OBVIOUS
  <1>3. F \in [Nat \X (Nat \ {0}) -> Nat \ {0}]
    BY <1>2
  <1>4. PICK g \in [Nat -> Nat \ {0}] : g[0] = 1 /\ \A n \in Nat : g[n + 1] = F[<<n, g[n]>>]
    <2>1. 1 \in Nat \ {0}
      OBVIOUS
    <2> HIDE DEF F
    <2>2. \E g : Iterates(g, Nat \ {0}, 1, F)
      BY <1>3, <2>1, Recursion
    <2> QED
      BY <2>2 DEF Iterates
  <1>5. \A n \in Nat : g[n + 1] = base * g[n]
    BY <1>4
  <1>6. Solves(g)
    <2>1. ASSUME NEW n \in Nat
          PROVE  g[n] = Step(g, n)
      <3>1. CASE n = 0
        BY <1>4, <3>1
      <3>2. CASE n # 0
        <4>1. n - 1 \in Nat /\ (n - 1) + 1 = n
          BY <3>2
        <4> QED
          BY <1>5, <3>2, <4>1
      <3> QED
        BY <3>1, <3>2
    <2> QED
      BY <1>4, <2>1
  <1>7. Solves(p)
    <2> HIDE DEF Solves
    <2> QED
      BY <1>6
  <1>8. p = [n \in Nat |-> Step(p, n)]
    BY <1>7
  <1> HIDE DEF p
  <1>9. p[0] = 1
    BY <1>8
  <1>10. \A n \in Nat : p[n + 1] = base * p[n]
    <2> SUFFICES ASSUME NEW n \in Nat
                 PROVE  p[n + 1] = base * p[n]
      OBVIOUS
    <2>1. n + 1 \in Nat /\ n + 1 # 0 /\ (n + 1) - 1 = n
      OBVIOUS
    <2>2. p[n + 1] = Step(p, n + 1)
      BY <1>8, <2>1
    <2> QED
      BY <2>1, <2>2
  <1> DEFINE T == {n \in Nat : p[n] \in Nat \ {0}}
  <1>11. 0 \in T
    BY <1>9
  <1>12. \A n \in T : n + 1 \in T
    BY <1>2, <1>10
  <1>13. T = Nat
    <2>1. T \in SUBSET Nat
      OBVIOUS
    <2> HIDE DEF T
    <2> QED
      BY <1>11, <1>12, <2>1, Induction
  <1>14. p \in [Nat -> Nat \ {0}]
    <2>1. \A n \in Nat : p[n] \in Nat \ {0}
      BY <1>13
    <2> QED
      BY <1>8, <2>1
  <1> QED
    BY <1>1, <1>9, <1>10, <1>14

\* Powers grow.
LEMMA PowerGrows ==
  ASSUME NEW base \in Nat, base >= 2, NEW m \in Nat, NEW n \in Nat, m <= n
  PROVE  Power(base)[m] <= Power(base)[n] /\ (m < n => 2 * Power(base)[m] <= Power(base)[n])
  <1> DEFINE p == Power(base)
             Grows(k) == p[m] <= p[m + k] /\ (k > 0 => 2 * p[m] <= p[m + k])
             T == {k \in Nat : Grows(k)}
  <1>1. p \in [Nat -> Nat \ {0}] /\ \A k \in Nat : p[k + 1] = base * p[k]
    BY PowerIs
  <1> HIDE DEF p
  <1>2. 0 \in T
    BY <1>1
  <1>3. ASSUME NEW k \in T
        PROVE  k + 1 \in T
    <2>1. p[m + (k + 1)] = base * p[m + k] /\ p[m + k] \in Nat /\ p[m] \in Nat /\ p[m] <= p[m + k]
          /\ m + (k + 1) = (m + k) + 1
      <3>1. m + k \in Nat /\ m + (k + 1) = (m + k) + 1
        OBVIOUS
      <3> QED
        BY <1>1, <3>1
    <2>2. base * p[m + k] >= 2 * p[m + k]
      <3>1. \A x, y \in Nat : y >= 2 => y * x >= 2 * x
        OBVIOUS
      <3> QED
        BY <2>1, <3>1
    <2>3. Grows(k + 1)
      <3>1. base * p[m + k] \in Nat
        BY <2>1
      <3> QED
        BY <2>1, <2>2, <3>1
    <2> HIDE DEF Grows
    <2> QED
      BY <2>3
  <1>4. T = Nat
    <2>1. T \in SUBSET Nat
      OBVIOUS
    <2> HIDE DEF T
    <2> QED
      BY <1>2, <1>3, <2>1, Induction
  <1>5. n - m \in Nat /\ m + (n - m) = n
    OBVIOUS
  <1>6. Grows(n - m)
    BY <1>4, <1>5
  <1> QED
    BY <1>5, <1>6 DEF p

\* A number is less than 2 to its power.
LEMMA PowerExceeds ==
  ASSUME NEW base \in Nat, base >= 2, NEW n \in Nat
  PROVE  n < Power(base)[n]
  <1> DEFINE p == Power(base)
             T == {k \in Nat : k < p[k]}
  <1>1. p \in [Nat -> Nat \ {0}] /\ p[0] = 1 /\ \A k \in Nat : p[k + 1] = base * p[k]
    <2>1. base \in Nat \ {0}
      OBVIOUS
    <2> QED
      BY <2>1, PowerIs
  <1> HIDE DEF p
  <1>2. 0 \in T
    BY <1>1
  <1>3. ASSUME NEW k \in T
        PROVE  k + 1 \in T
    <2>1. p[k + 1] = base * p[k] /\ p[k] \in Nat /\ k < p[k] /\ k \in Nat
      BY <1>1
    <2>2. \A x \in Nat : base * x >= 2 * x /\ base * x \in Nat
      OBVIOUS
    <2>3. p[k + 1] >= 2 * p[k] /\ p[k + 1] \in Nat
      BY <2>1, <2>2
    <2> QED
      BY <2>1, <2>3
  <1>4. T = Nat
    <2>1. T \in SUBSET Nat
      OBVIOUS
    <2> HIDE DEF T
    <2> QED
      BY <1>2, <1>3, <2>1, Induction
  <1> QED
    BY <1>4 DEF p

-----------------------------------------------------------------------------
\* Digits.

\* What the digits up to each place are worth.
LEMMA WorthIs ==
  ASSUME NEW base \in Nat, NEW digits \in Seq(Nat)
  PROVE  \E w \in [0..Len(digits) -> Nat] :
           /\ w[0] = 0
           /\ \A n \in 1..Len(digits) : w[n] = base * w[n - 1] + digits[n]
           /\ Worth(base, digits) = w[Len(digits)]
  <1> DEFINE N == Len(digits)
             F == [x \in Nat \X Nat |-> IF x[1] < N THEN base * x[2] + digits[x[1] + 1] ELSE 0]
             Step(g, n) == IF n = 0 THEN 0 ELSE base * g[n - 1] + digits[n]
             Solves(g) == g = [n \in 0..N |-> Step(g, n)]
             w == CHOOSE g : Solves(g)
  <1>0. N \in Nat /\ \A n \in 1..N : digits[n] \in Nat
    OBVIOUS
  <1>1. Worth(base, digits) = w[N]
    BY DEF Worth
  <1>2. F \in [Nat \X Nat -> Nat]
    <2>1. ASSUME NEW x \in Nat \X Nat
          PROVE  (IF x[1] < N THEN base * x[2] + digits[x[1] + 1] ELSE 0) \in Nat
      <3>1. x[1] < N => x[1] + 1 \in 1..N
        OBVIOUS
      <3>2. x[1] < N => digits[x[1] + 1] \in Nat
        BY <3>1
      <3>3. base * x[2] \in Nat
        OBVIOUS
      <3> QED
        BY <3>2, <3>3
    <2> QED
      BY <2>1
  <1>3. PICK g \in [Nat -> Nat] : g[0] = 0 /\ \A n \in Nat : g[n + 1] = F[<<n, g[n]>>]
    <2>1. 0 \in Nat
      OBVIOUS
    <2> HIDE DEF F
    <2>2. \E g : Iterates(g, Nat, 0, F)
      BY <1>2, <2>1, Recursion
    <2> QED
      BY <2>2 DEF Iterates
  <1>4. ASSUME NEW n \in 1..N
        PROVE  g[n] = base * g[n - 1] + digits[n]
    <2>1. n - 1 \in Nat /\ (n - 1) + 1 = n /\ n - 1 < N
      BY <1>0
    <2>2. g[n] = F[<<n - 1, g[n - 1]>>] /\ g[n - 1] \in Nat
      BY <1>3, <2>1
    <2>3. F[<<n - 1, g[n - 1]>>] = base * g[n - 1] + digits[(n - 1) + 1]
      <3> HIDE DEF N
      <3> QED
        BY <2>1, <2>2
    <2> QED
      BY <2>1, <2>2, <2>3
  <1> DEFINE h == [n \in 0..N |-> g[n]]
  <1>5. h \in [0..N -> Nat] /\ h[0] = 0
    BY <1>0, <1>3
  <1>6. \A n \in 1..N : h[n] = base * h[n - 1] + digits[n]
    <2>1. \A n \in 1..N : n \in 0..N /\ n - 1 \in 0..N
      BY <1>0
    <2> QED
      BY <1>4, <2>1
  <1>7. Solves(h)
    <2>1. ASSUME NEW n \in 0..N
          PROVE  h[n] = Step(h, n)
      <3>1. n = 0 \/ n \in 1..N
        BY <1>0
      <3> HIDE DEF h
      <3> QED
        BY <1>5, <1>6, <3>1
    <2>2. h = [n \in 0..N |-> h[n]]
      OBVIOUS
    <2> HIDE DEF h, Step
    <2> QED
      BY <2>1, <2>2
  <1>8. Solves(w)
    <2> HIDE DEF Solves, h
    <2> QED
      BY <1>7
  <1>9. w = [n \in 0..N |-> Step(w, n)]
    BY <1>8
  <1> HIDE DEF w, N
  <1>10. w[0] = 0
    BY <1>0, <1>9
  <1>11. ASSUME NEW n \in 1..N
         PROVE  w[n] = base * w[n - 1] + digits[n]
    <2>1. n \in 0..N /\ n # 0
      BY <1>0
    <2> QED
      BY <1>9, <2>1
  <1> DEFINE T == {n \in Nat : n <= N => w[n] \in Nat}
  <1>12. 0 \in T
    BY <1>10
  <1>13. ASSUME NEW n \in T
         PROVE  n + 1 \in T
    <2>1. SUFFICES ASSUME n + 1 <= N
                   PROVE  w[n + 1] \in Nat
      OBVIOUS
    <2>2. n \in Nat /\ n + 1 \in 1..N /\ (n + 1) - 1 = n /\ w[n] \in Nat
      BY <1>0, <2>1
    <2>3. digits[n + 1] \in Nat
      BY <1>0, <2>2
    <2>4. w[n + 1] = base * w[n] + digits[n + 1]
      BY <1>11, <2>2
    <2>5. (\A x \in Nat : base * x \in Nat) /\ \A x, y \in Nat : x + y \in Nat
      OBVIOUS
    <2>6. base * w[n] + digits[n + 1] \in Nat
      BY ONLY <2>2, <2>3, <2>5
    <2> QED
      BY <2>4, <2>6
  <1>14. T = Nat
    <2>1. T \in SUBSET Nat
      OBVIOUS
    <2> HIDE DEF T
    <2> QED
      BY <1>12, <1>13, <2>1, Induction
  <1>15. w \in [0..N -> Nat]
    <2>1. ASSUME NEW n \in 0..N
          PROVE  w[n] \in Nat
      <3>1. n \in Nat /\ n <= N
        BY <1>0
      <3> QED
        BY <1>14, <3>1
    <2> QED
      BY <1>9, <2>1
  <1> QED
    BY <1>1, <1>10, <1>11, <1>15 DEF N

-----------------------------------------------------------------------------
\* Division.
LEMMA Division ==
  ASSUME NEW a \in Int, NEW b \in Nat \ {0}
  PROVE  a \div b \in Int /\ a % b \in 0..(b - 1) /\ a = b * (a \div b) + (a % b)
  OBVIOUS

\* A product keeps the order of its factors.
LEMMA Product ==
  ASSUME NEW b \in Nat, NEW x \in Int, NEW y \in Int, x <= y
  PROVE  b * x \in Int /\ b * y \in Int /\ b * x <= b * y
  OBVIOUS

\* Quotient and remainder are known once they are found.
LEMMA DivisionIs ==
  ASSUME NEW a \in Int, NEW b \in Nat \ {0}, NEW q \in Int, NEW r \in 0..(b - 1), a = b * q + r
  PROVE  a \div b = q /\ a % b = r
  <1> DEFINE d == a \div b
             m == a % b
  <1>1. d \in Int /\ m \in 0..(b - 1) /\ a = b * d + m
    BY Division
  <1> HIDE DEF d, m
  <1>2. b * q \in Int /\ b * d \in Int /\ b * q + r = b * d + m
    BY <1>1
  <1>3. ~(d < q)
    <2> SUFFICES ASSUME d < q
                 PROVE  FALSE
      OBVIOUS
    <2>1. b * (d + 1) <= b * q
      BY <1>1, Product
    <2>2. b * (d + 1) = b * d + b
      BY <1>1
    <2> QED
      BY <1>1, <1>2, <2>1, <2>2
  <1>4. ~(q < d)
    <2> SUFFICES ASSUME q < d
                 PROVE  FALSE
      OBVIOUS
    <2>1. b * (q + 1) <= b * d
      BY <1>1, Product
    <2>2. b * (q + 1) = b * q + b
      BY <1>1
    <2> QED
      BY <1>1, <1>2, <2>1, <2>2
  <1>5. d = q
    BY <1>1, <1>3, <1>4
  <1> QED
    BY <1>1, <1>2, <1>5 DEF d, m

\* Dividing twice.
LEMMA DivisionTwice ==
  ASSUME NEW x \in Nat, NEW p \in Nat \ {0}, NEW b \in Nat \ {0}
  PROVE  (x \div p) \div b = x \div (b * p)
  <1> DEFINE q == x \div p
             r == x % p
             d == q \div b
             m == q % b
  <1>1. q \in Int /\ r \in 0..(p - 1) /\ x = p * q + r
    BY Division
  <1> HIDE DEF q, r
  <1>2. d \in Int /\ m \in 0..(b - 1) /\ q = b * d + m
    BY <1>1, Division
  <1> HIDE DEF d, m
  <1>3. b * p \in Nat \ {0}
    OBVIOUS
  <1>4. x = (b * p) * d + (p * m + r)
    BY <1>1, <1>2
  <1>5. p * m + r \in 0..(b * p - 1)
    <2>1. p * m <= p * (b - 1) /\ p * m \in Int /\ p * (b - 1) \in Int
      BY <1>2, Product
    <2>2. p * (b - 1) = b * p - p
      OBVIOUS
    <2>3. 0 <= p * m
      BY <1>2
    <2> QED
      BY <1>1, <1>3, <2>1, <2>2, <2>3
  <1>6. x \div (b * p) = d
    BY <1>2, <1>3, <1>4, <1>5, DivisionIs
  <1> QED
    BY <1>6 DEF d, q

-----------------------------------------------------------------------------
\* The digits of a number that there are enough places for are worth that number.
LEMMA DigitsWorth ==
  ASSUME NEW base \in Nat, base >= 2, NEW count \in Nat, NEW x \in Nat, x < Power(base)[count]
  PROVE  /\ DigitsOf(base, x, count) \in Seq(0..(base - 1))
         /\ Len(DigitsOf(base, x, count)) = count
         /\ Worth(base, DigitsOf(base, x, count)) = x
  <1> DEFINE p == Power(base)
             s == DigitsOf(base, x, count)
             q(n) == x \div p[count - n]
  <1>1. base \in Nat \ {0}
    OBVIOUS
  <1>2. p \in [Nat -> Nat \ {0}] /\ p[0] = 1 /\ \A n \in Nat : p[n + 1] = base * p[n]
    BY <1>1, PowerIs
  <1>3. x < p[count]
    OBVIOUS
  <1>4. s = [i \in 1..count |-> q(i) % base]
    BY DEF DigitsOf
  <1> HIDE DEF p, s
  <1>5. ASSUME NEW n \in 0..count
        PROVE  /\ q(n) \in Int /\ q(n) % base \in 0..(base - 1)
               /\ q(n) = base * (q(n) \div base) + (q(n) % base)
    <2>1. count - n \in Nat /\ p[count - n] \in Nat \ {0}
      BY <1>2
    <2>2. q(n) \in Int
      BY <2>1, Division
    <2> HIDE DEF q
    <2> QED
      BY <1>1, <2>2, Division
  <1>6. s \in Seq(0..(base - 1)) /\ Len(s) = count
    <2>1. \A i \in 1..count : q(i) % base \in 0..(base - 1)
      BY <1>5
    <2> HIDE DEF q
    <2> QED
      BY <1>4, <2>1
  <1>7. s \in Seq(Nat)
    BY <1>6
  <1>8. PICK w \in [0..Len(s) -> Nat] :
           /\ w[0] = 0
           /\ \A n \in 1..Len(s) : w[n] = base * w[n - 1] + s[n]
           /\ Worth(base, s) = w[Len(s)]
    BY <1>7, WorthIs
  <1> DEFINE T == {n \in Nat : n <= count => w[n] = q(n)}
  <1>9. 0 \in T
    <2> DEFINE y == p[count]
    <2>0. y \in Nat \ {0} /\ x < y
      BY <1>2, <1>3
    <2> HIDE DEF y, q, T
    <2>3. x = y * 0 + x /\ x \in 0..(y - 1) /\ count - 0 = count
      BY <2>0
    <2> USE DEF q, T, y
    <2>1. x = p[count] * 0 + x /\ x \in 0..(p[count] - 1) /\ count - 0 = count /\ p[count] \in Nat \ {0}
      BY <2>0, <2>3
    <2>2. x \div p[count] = 0
      BY <2>1, DivisionIs
    <2> QED
      BY <1>8, <2>1, <2>2
  <1>10. ASSUME NEW n \in T
         PROVE  n + 1 \in T
    <2>1. SUFFICES ASSUME n + 1 <= count
                   PROVE  w[n + 1] = q(n + 1)
      OBVIOUS
    <2>2. n \in Nat /\ n + 1 \in 1..count /\ n + 1 \in 0..count /\ (n + 1) - 1 = n /\ w[n] = q(n)
      BY <2>1
    <2>3. count - (n + 1) \in Nat /\ count - n = (count - (n + 1)) + 1
      BY <2>2
    <2>4. p[count - n] = base * p[count - (n + 1)] /\ p[count - (n + 1)] \in Nat \ {0}
      BY <1>2, <2>3
    <2>5. q(n) = q(n + 1) \div base
      BY <1>1, <2>4, DivisionTwice
    <2>6. s[n + 1] = q(n + 1) % base
      BY <1>4, <2>2
    <2>7. w[n + 1] = base * w[n] + s[n + 1]
      BY <1>6, <1>8, <2>2
    <2>8. q(n + 1) = base * (q(n + 1) \div base) + (q(n + 1) % base)
      BY <1>5, <2>2
    <2> HIDE DEF q, T
    <2> QED
      BY <2>2, <2>5, <2>6, <2>7, <2>8
  <1>11. T = Nat
    <2>1. T \in SUBSET Nat
      OBVIOUS
    <2> HIDE DEF T
    <2> QED
      BY <1>9, <1>10, <2>1, Induction
  <1>12. w[count] = q(count) /\ count - count = 0
    BY <1>11
  <1>13. q(count) = x
    <2>1. x = 1 * x + 0 /\ 0 \in 0..(1 - 1) /\ 1 \in Nat \ {0} /\ x \in Int
      OBVIOUS
    <2>2. x \div 1 = x
      BY <2>1, DivisionIs
    <2> QED
      BY <1>2, <1>12, <2>2
  <1> QED
    BY <1>6, <1>8, <1>12, <1>13 DEF s

\* Nothing but these are the digits that a number needs.
LEMMA DigitCountIs ==
  ASSUME NEW base \in Nat, base >= 2, NEW n \in Nat
  PROVE  /\ DigitCount(base, n) \in 0..n
         /\ n < Power(base)[DigitCount(base, n)]
         /\ DigitCount(base, n) > 0 => n >= Power(base)[DigitCount(base, n) - 1]
  <1> DEFINE p == Power(base)
             T == {k \in Nat : n < p[k]}
             Fits(k) == n < p[k] /\ (k > 0 => n >= p[k - 1])
  <1>1. p \in [Nat -> Nat \ {0}]
    <2>1. base \in Nat \ {0}
      OBVIOUS
    <2> QED
      BY <2>1, PowerIs
  <1>2. n \in T
    BY PowerExceeds
  <1>3. PICK k \in T : \A j \in T : k <= j
    <2>1. T \in SUBSET Nat /\ T # {}
      BY <1>2
    <2> HIDE DEF T
    <2> QED
      BY <2>1, LeastMember
  <1>4. k \in 0..n
    BY <1>2, <1>3
  <1>5. Fits(k)
    <2>1. SUFFICES ASSUME k > 0
                   PROVE  n >= p[k - 1]
      BY <1>3
    <2>2. k - 1 \in Nat /\ k - 1 \notin T
      BY <1>3, <2>1
    <2>3. p[k - 1] \in Nat /\ ~(n < p[k - 1])
      BY <1>1, <2>2
    <2> QED
      BY <2>3
  <1>6. DigitCount(base, n) = CHOOSE j \in 0..n : Fits(j)
    BY DEF DigitCount
  <1> HIDE DEF Fits
  <1>7. DigitCount(base, n) \in 0..n /\ Fits(DigitCount(base, n))
    BY <1>4, <1>5, <1>6
  <1> QED
    BY <1>7 DEF Fits

-----------------------------------------------------------------------------
\* Addresses.

\* What an address is printed as is read as that address.
LEMMA FormatIs ==
  ASSUME NEW n \in Nat
  PROVE  FormatEa(n).lead = "0x" /\ InBase(FormatEa(n).digits, 16) = {n}
  <1> DEFINE count == IF n = 0 THEN 1 ELSE DigitCount(16, n)
             s == DigitsOf(16, n, count)
  <1>1. count \in Nat \ {0} /\ n < Power(16)[count]
    <2>1. Power(16)[0] = 1 /\ Power(16)[0 + 1] = 16 * Power(16)[0] /\ 0 + 1 = 1
      <3>1. 16 \in Nat \ {0} /\ 0 \in Nat
        OBVIOUS
      <3>2. Power(16)[0] = 1 /\ Power(16)[0 + 1] = 16 * Power(16)[0]
        BY <3>1, PowerIs
      <3> QED
        BY <3>2
    <2>2. 16 \in Nat /\ 16 >= 2
      OBVIOUS
    <2>3. DigitCount(16, n) \in 0..n /\ n < Power(16)[DigitCount(16, n)]
      BY <2>2, DigitCountIs
    <2>4. n # 0 => DigitCount(16, n) # 0
      BY <2>1, <2>3
    <2> QED
      BY <2>1, <2>3, <2>4
  <1> HIDE DEF count
  <1>2. s \in Seq(0..15) /\ Len(s) = count /\ Worth(16, s) = n
    <2>1. 16 \in Nat /\ 16 >= 2 /\ 16 - 1 = 15 /\ count \in Nat
      BY <1>1
    <2> QED
      BY <1>1, <2>1, DigitsWorth
  <1>3. FormatEa(n) = [lead |-> "0x", digits |-> s]
    BY DEF FormatEa, Text, count
  <1> HIDE DEF s
  <1>4. s # <<>> /\ \A i \in DOMAIN s : s[i] < 16
    BY <1>1, <1>2
  <1>5. InBase(s, 16) = {n}
    BY <1>2, <1>4 DEF InBase, If
  <1> QED
    BY <1>3, <1>5

\* What is worth something is worth a natural number.
LEMMA WorthType ==
  ASSUME NEW base \in Nat, NEW digits \in Seq(Nat)
  PROVE  Worth(base, digits) \in Nat
  <1>1. PICK w \in [0..Len(digits) -> Nat] : Worth(base, digits) = w[Len(digits)]
    BY WorthIs
  <1>2. Len(digits) \in 0..Len(digits)
    OBVIOUS
  <1> QED
    BY <1>1, <1>2

\* Whatever parse_ea makes of a text is read back from how it is printed.
LEMMA AddressReadBack ==
  ASSUME NEW t, t.digits \in Seq(Nat), NEW n \in ParseEa(t)
  PROVE  ParseEa(FormatEa(n)) = {n} /\ ParseInt(FormatEa(n)) = {n}
  <1> DEFINE d == t.digits
  <1>1. Rest(t) \in Seq(Nat)
    <2>1. SubSeq(d, 3, Len(d)) \in Seq(Nat)
      <3>1. 3 \in Int /\ Len(d) \in Int /\ \A i \in 3..Len(d) : d[i] \in Nat
        OBVIOUS
      <3> HIDE DEF d
      <3> QED
        BY <3>1, SubSeqProperties
    <2> QED
      BY <2>1 DEF Rest
  <1>2. ASSUME NEW base \in Nat, NEW s \in Seq(Nat), n \in InBase(s, base)
        PROVE  n \in Nat
    <2>1. n = Worth(base, s)
      BY <1>2 DEF InBase, If
    <2> QED
      BY <2>1, WorthType
  <1>3. 2 \in Nat /\ 8 \in Nat /\ 10 \in Nat /\ 16 \in Nat
    OBVIOUS
  <1>4. n \in InBase(d, 16) \/ n \in InBase(d, 8) \/ n \in InBase(Rest(t), 10) \/ n \in InBase(Rest(t), 2)
    BY DEF ParseEa
  <1>5. n \in Nat
    BY <1>1, <1>2, <1>3, <1>4
  <1>6. FormatEa(n).lead = "0x" /\ InBase(FormatEa(n).digits, 16) = {n}
    BY <1>5, FormatIs
  <1> QED
    BY <1>6 DEF ParseEa, ParseInt

\* What tools print for an address is read as that address by parse_ea and by parse_int,
\* and a text with a prefix means the same to both, whatever the text.
THEOREM AddressesExact ==
  \A lead \in {"", "0x", "0o"}, digits \in Seq(Nat) : AddressExact(Text(lead, digits))
  <1> DEFINE t(lead, digits) == Text(lead, digits)
  <1>1. ASSUME NEW lead, NEW digits \in Seq(Nat)
        PROVE  \A n \in ParseEa(t(lead, digits)) :
                 ParseEa(FormatEa(n)) = {n} /\ ParseInt(FormatEa(n)) = {n}
    <2>1. t(lead, digits).digits \in Seq(Nat)
      BY DEF Text
    <2> HIDE DEF t
    <2> QED
      BY <2>1, AddressReadBack
  <1>2. ASSUME NEW lead, lead \in {"", "0x", "0o"}, NEW digits,
               lead # "" \/ Starts(t(lead, digits), 0, 11)
        PROVE  ParseEa(t(lead, digits)) = ParseInt(t(lead, digits))
    <2>1. t(lead, digits).lead = lead
      BY DEF Text
    <2> HIDE DEF t
    <2>2. CASE lead # ""
      BY <1>2, <2>1, <2>2 DEF ParseEa, ParseInt
    <2>3. CASE Starts(t(lead, digits), 0, 11)
      <3>1. t(lead, digits).lead = "" /\ t(lead, digits).digits[2] = 11
        BY <2>3 DEF Starts
      <3>2. 11 # 13
        OBVIOUS
      <3>3. ~Starts(t(lead, digits), 0, 13)
        BY <3>1, <3>2, Zenon DEF Starts
      <3> QED
        BY <2>3, <3>1, <3>3 DEF ParseEa, ParseInt
    <2> QED
      BY <1>2, <2>2, <2>3
  <1>3. \A lead, digits : t(lead, digits).lead = lead
    BY DEF Text
  <1> QED
    BY <1>1, <1>2, <1>3 DEF AddressExact

-----------------------------------------------------------------------------
\* Numbers.

\* A sequence from its end.
LEMMA ReverseIs ==
  ASSUME NEW S, NEW s \in Seq(S)
  PROVE  /\ Reverse(s) \in Seq(S) /\ Len(Reverse(s)) = Len(s)
         /\ \A i \in 1..Len(s) : Reverse(s)[i] = s[Len(s) + 1 - i]
         /\ Reverse(Reverse(s)) = s
  <1> DEFINE N == Len(s)
             r == Reverse(s)
  <1>1. N \in Nat /\ s \in [1..N -> S]
    OBVIOUS
  <1>2. r = [i \in 1..N |-> s[(N - i) + 1]]
    BY DEF Reverse
  <1>3. ASSUME NEW i \in 1..N
        PROVE  (N - i) + 1 \in 1..N /\ (N - i) + 1 = N + 1 - i /\ (N - ((N - i) + 1)) + 1 = i
    BY <1>1
  <1> HIDE DEF N, r
  <1>4. r \in [1..N -> S]
    BY <1>1, <1>2, <1>3
  <1>5. r \in Seq(S) /\ Len(r) = N
    BY <1>1, <1>4
  <1>6. \A i \in 1..N : r[i] = s[N + 1 - i]
    BY <1>2, <1>3
  <1>7. Reverse(r) = [i \in 1..N |-> r[(N - i) + 1]]
    BY <1>5 DEF Reverse
  <1>8. \A i \in 1..N : r[(N - i) + 1] = s[i]
    BY <1>2, <1>3
  <1>9. Reverse(r) = s
    BY <1>1, <1>7, <1>8
  <1> QED
    BY <1>5, <1>6, <1>9 DEF N, r

\* The digits in base 256.
LEMMA BytesWorth ==
  ASSUME NEW count \in Nat, NEW x \in Nat, x < Power(256)[count]
  PROVE  /\ DigitsOf(256, x, count) \in Seq(Nat)
         /\ Len(DigitsOf(256, x, count)) = count
         /\ Worth(256, DigitsOf(256, x, count)) = x
  <1>1. PICK b \in Nat : b = 256
    OBVIOUS
  <1>2. b >= 2
    BY <1>1
  <1>3. x < Power(b)[count]
    BY <1>1
  <1>4. /\ DigitsOf(b, x, count) \in Seq(0..(b - 1)) /\ Len(DigitsOf(b, x, count)) = count
        /\ Worth(b, DigitsOf(b, x, count)) = x
    BY <1>2, <1>3, DigitsWorth
  <1>5. DigitsOf(b, x, count) \in Seq(Nat)
    BY <1>4
  <1> QED
    BY <1>1, <1>4, <1>5

\* There is a place for n in so many bytes, with or without a sign.
Fitting(n, width) == -Power(256)[width] <= 2 * n /\ n < Power(256)[width]

\* int.to_bytes gives what the number is worth.
LEMMA BytesAre ==
  ASSUME NEW n \in Int, NEW width \in Nat \ {0}
  PROVE  /\ ToBytesEitherSign(n, width) = {} <=> ~Fitting(n, width)
         /\ \A raw \in ToBytesEitherSign(n, width) :
              /\ raw \in Seq(Nat) /\ Len(raw) = width
              /\ Worth(256, Reverse(raw)) = IF n < 0 THEN n + Power(256)[width] ELSE n
  <1> DEFINE P == Power(256)[width]
             x == n % P
             s == DigitsOf(256, x, width)
             unsigned == 0 <= n /\ n < P
             signed == -P <= 2 * n /\ 2 * n < P
  <1>1. P \in Nat \ {0}
    <2>1. 256 \in Nat \ {0} /\ width \in Nat
      OBVIOUS
    <2> QED
      BY <2>1, PowerIs
  <1>2. /\ ToBytes(n, width, FALSE) = If(unsigned, Reverse(s))
        /\ ToBytes(n, width, TRUE) = If(signed, Reverse(s))
    BY DEF ToBytes
  <1>3. ToBytesEitherSign(n, width) = If(unsigned \/ signed, Reverse(s))
    <2>1. CASE unsigned
      <3>1. n >= 0
        BY <2>1
      <3>2. ToBytes(n, width, FALSE) = {Reverse(s)}
        BY <1>2, <2>1 DEF If
      <3> HIDE DEF s
      <3> QED
        BY <2>1, <3>1, <3>2 DEF ToBytesEitherSign, If
    <2>2. CASE ~unsigned
      <3>1. ToBytes(n, width, FALSE) = {}
        BY <1>2, <2>2 DEF If
      <3>2. ToBytesEitherSign(n, width) = If(signed, Reverse(s))
        BY <1>2, <3>1 DEF ToBytesEitherSign
      <3> HIDE DEF s, signed
      <3> QED
        BY <2>2, <3>2 DEF If
    <2> QED
      BY <2>1, <2>2
  <1>4. unsigned \/ signed <=> Fitting(n, width)
    <2>1. Fitting(n, width) <=> -P <= 2 * n /\ n < P
      BY DEF Fitting
    <2> HIDE DEF P
    <2> QED
      BY <1>1, <2>1
  <1>5. ASSUME unsigned \/ signed
        PROVE  x = IF n < 0 THEN n + P ELSE n
    <2> HIDE DEF P
    <2>1. CASE n < 0
      <3>1. n + P \in 0..(P - 1) /\ n = P * (-1) + (n + P) /\ -1 \in Int
        BY <1>1, <1>5, <2>1
      <3> QED
        BY <1>1, <2>1, <3>1, DivisionIs
    <2>2. CASE ~(n < 0)
      <3>1. n \in 0..(P - 1) /\ n = P * 0 + n /\ 0 \in Int
        BY <1>1, <1>5, <2>2
      <3> QED
        BY <1>1, <2>2, <3>1, DivisionIs
    <2> QED
      BY <2>1, <2>2
  <1>6. s \in Seq(Nat) /\ Len(s) = width /\ Worth(256, s) = x
    <2>1. x \in 0..(P - 1)
      BY <1>1, Division
    <2>2. x \in Nat /\ x < P
      <3> HIDE DEF x, P
      <3> QED
        BY <1>1, <2>1
    <2>3. x < Power(256)[width] /\ width \in Nat
      BY <2>2
    <2> HIDE DEF x, P
    <2> QED
      BY <2>2, <2>3, BytesWorth
  <1>7. Reverse(s) \in Seq(Nat) /\ Len(Reverse(s)) = Len(s) /\ Reverse(Reverse(s)) = s
    <2> HIDE DEF s
    <2> QED
      BY <1>6, ReverseIs
  <1>8. ToBytesEitherSign(n, width) = {} <=> ~Fitting(n, width)
    <2> HIDE DEF unsigned, signed, s
    <2> QED
      BY <1>3, <1>4 DEF If
  <1>9. ASSUME NEW raw \in ToBytesEitherSign(n, width)
        PROVE  /\ raw \in Seq(Nat) /\ Len(raw) = width
               /\ Worth(256, Reverse(raw)) = IF n < 0 THEN n + P ELSE n
    <2>1. raw = Reverse(s) /\ (unsigned \/ signed)
      <3> HIDE DEF unsigned, signed, s
      <3> QED
        BY <1>3 DEF If
    <2>2. x = IF n < 0 THEN n + P ELSE n
      BY <1>5, <2>1
    <2> HIDE DEF x, s, P
    <2> QED
      BY <1>6, <1>7, <2>1, <2>2
  <1> QED
    BY <1>8, <1>9

\* Powers of two and of 256.
LEMMA TwoToTheEighth ==
  ASSUME NEW w \in Nat
  PROVE  Power(256)[w] = Power(2)[8 * w]
  <1>1. PICK b, c : b = 256 /\ c = 2
    OBVIOUS
  <1>2. b \in Nat \ {0} /\ c \in Nat \ {0}
    BY <1>1
  <1> DEFINE p == Power(c)
             P == Power(b)
             T == {k \in Nat : P[k] = p[8 * k]}
  <1>3. p \in [Nat -> Nat \ {0}] /\ p[0] = 1 /\ \A k \in Nat : p[k + 1] = c * p[k]
    BY <1>2, PowerIs
  <1>4. P \in [Nat -> Nat \ {0}] /\ P[0] = 1 /\ \A k \in Nat : P[k + 1] = b * P[k]
    BY <1>2, PowerIs
  <1> HIDE DEF p, P
  <1>5. \A k \in Nat : p[k + 1] = 2 * p[k] /\ P[k + 1] = 256 * P[k] /\ p[k] \in Nat /\ P[k] \in Nat
    BY <1>1, <1>3, <1>4
  <1>6. 0 \in T
    BY <1>3, <1>4
  <1>7. ASSUME NEW k \in T
        PROVE  k + 1 \in T
    <2>1. k \in Nat /\ 8 * k \in Nat /\ P[k] = p[8 * k]
      OBVIOUS
    <2>2. PICK m \in Nat : m = 8 * k
      BY <2>1
    <2>3. /\ p[m + 1] = 2 * p[m] /\ p[(m + 1) + 1] = 2 * p[m + 1]
          /\ p[((m + 1) + 1) + 1] = 2 * p[(m + 1) + 1]
          /\ p[(((m + 1) + 1) + 1) + 1] = 2 * p[((m + 1) + 1) + 1]
      BY <1>5
    <2>4. p[m + 4] = 16 * p[m] /\ p[m] \in Nat
      <3>1. (m + 1) + 1 = m + 2 /\ (m + 2) + 1 = m + 3 /\ (m + 3) + 1 = m + 4
        OBVIOUS
      <3>2. p[m] \in Nat
        BY <1>5
      <3> QED
        BY <2>3, <3>1, <3>2
    <2>5. PICK j \in Nat : j = m + 4
      OBVIOUS
    <2>6. /\ p[j + 1] = 2 * p[j] /\ p[(j + 1) + 1] = 2 * p[j + 1]
          /\ p[((j + 1) + 1) + 1] = 2 * p[(j + 1) + 1]
          /\ p[(((j + 1) + 1) + 1) + 1] = 2 * p[((j + 1) + 1) + 1]
      BY <1>5
    <2>7. p[j + 4] = 16 * p[j]
      <3>1. (j + 1) + 1 = j + 2 /\ (j + 2) + 1 = j + 3 /\ (j + 3) + 1 = j + 4
        OBVIOUS
      <3>2. p[j] \in Nat
        BY <1>5
      <3> QED
        BY <2>6, <3>1, <3>2
    <2>8. j + 4 = 8 * (k + 1)
      BY <2>1, <2>2, <2>5
    <2>9. p[8 * (k + 1)] = 256 * p[m]
      BY <2>4, <2>5, <2>7, <2>8
    <2>10. P[k + 1] = 256 * P[k] /\ k + 1 \in Nat
      BY <1>5, <2>1
    <2> QED
      BY <2>1, <2>2, <2>9, <2>10
  <1>8. T = Nat
    <2>1. T \in SUBSET Nat
      OBVIOUS
    <2> HIDE DEF T
    <2> QED
      BY <1>6, <1>7, <2>1, Induction
  <1>9. P[w] = p[8 * w]
    BY <1>8
  <1> QED
    BY <1>1, <1>9 DEF P, p

\* How many bits a number has.
LEMMA BitsAre ==
  ASSUME NEW n \in Nat
  PROVE  /\ DigitCount(2, n) \in Nat
         /\ n < Power(2)[DigitCount(2, n)]
         /\ DigitCount(2, n) > 0 => n >= Power(2)[DigitCount(2, n) - 1]
  <1>1. PICK b \in Nat : b = 2
    OBVIOUS
  <1>2. /\ DigitCount(b, n) \in 0..n
        /\ n < Power(b)[DigitCount(b, n)]
        /\ DigitCount(b, n) > 0 => n >= Power(b)[DigitCount(b, n) - 1]
    <2>1. b >= 2
      BY <1>1
    <2> QED
      BY <2>1, DigitCountIs
  <1>3. DigitCount(b, n) \in Nat
    BY <1>2
  <1> QED
    BY <1>1, <1>2, <1>3

\* Powers of two, as bit lengths need them.
LEMMA PowersOfTwo ==
  /\ Power(2) \in [Nat -> Nat \ {0}]
  /\ Power(2)[0] = 1
  /\ \A m \in Nat : Power(2)[m + 1] = 2 * Power(2)[m]
  /\ \A m, n \in Nat : m <= n => Power(2)[m] <= Power(2)[n]
  <1>1. PICK b \in Nat : b = 2
    OBVIOUS
  <1>2. b \in Nat \ {0} /\ b >= 2
    BY <1>1
  <1>3. /\ Power(b) \in [Nat -> Nat \ {0}] /\ Power(b)[0] = 1
        /\ \A m \in Nat : Power(b)[m + 1] = b * Power(b)[m]
    BY <1>2, PowerIs
  <1>4. \A m, n \in Nat : m <= n => Power(b)[m] <= Power(b)[n]
    BY <1>2, PowerGrows
  <1> QED
    BY <1>1, <1>3, <1>4

\* The width that a number is given has a place for it, and the next smaller has none.
LEMMA MinimumByteWidthIs ==
  ASSUME NEW n \in Int
  PROVE  /\ MinimumByteWidth(n) \in Nat \ {0}
         /\ Fitting(n, MinimumByteWidth(n))
         /\ MinimumByteWidth(n) > 1 => ~Fitting(n, MinimumByteWidth(n) - 1)
  <1> DEFINE p == Power(2)
             w == MinimumByteWidth(n)
             k == IF n < 0 THEN -(n + 1) ELSE n
             bits == DigitCount(2, k)
  <1>1. /\ p \in [Nat -> Nat \ {0}] /\ p[0] = 1 /\ \A m \in Nat : p[m + 1] = 2 * p[m]
        /\ \A i, j \in Nat : i <= j => p[i] <= p[j]
    BY PowersOfTwo
  <1>2. \A v \in Nat : Fitting(n, v) <=> -p[8 * v] <= 2 * n /\ n < p[8 * v]
    BY TwoToTheEighth DEF Fitting
  <1>3. k \in Nat
    OBVIOUS
  <1>4. bits \in Nat /\ k < p[bits] /\ (bits > 0 => k >= p[bits - 1])
    <2> HIDE DEF k
    <2> QED
      BY <1>3, BitsAre
  <1>5. w = IF n = 0 THEN 1 ELSE IF n > 0 THEN (bits + 7) \div 8 ELSE (bits + 8) \div 8
    <2>1. n > 0 => BitLength(n) = bits
      BY DEF BitLength
    <2>2. n < 0 => BitLength(n + 1) = bits
      <3> SUFFICES ASSUME n < 0
                   PROVE  BitLength(n + 1) = bits
        OBVIOUS
      <3>1. (IF n + 1 < 0 THEN -(n + 1) ELSE n + 1) = k
        OBVIOUS
      <3> QED
        BY <3>1 DEF BitLength
    <2> HIDE DEF bits
    <2> QED
      BY <2>1, <2>2 DEF MinimumByteWidth
  <1> HIDE DEF p, w, bits, k
  <1>6. CASE n = 0
    <2>1. w = 1
      BY <1>5, <1>6
    <2>2. p[8 * 1] \in Nat \ {0}
      BY <1>1
    <2>3. Fitting(n, 1)
      BY <1>2, <1>6, <2>2
    <2> QED
      BY <2>1, <2>3 DEF w
  <1>7. CASE n > 0
    <2>1. k = n
      BY <1>7 DEF k
    <2>2. bits > 0 /\ n < p[bits] /\ n >= p[bits - 1]
      <3>1. k < p[bits] /\ p[0] = 1 /\ bits \in Nat
        BY <1>1, <1>4
      <3>2. bits # 0
        BY <1>7, <2>1, <3>1
      <3>3. bits > 0
        BY <3>1, <3>2
      <3> QED
        BY <1>4, <2>1, <3>3
    <2>3. w \in Nat \ {0} /\ 8 * w >= bits /\ 8 * (w - 1) < bits
      BY <1>4, <1>5, <1>7, <2>2
    <2>4. p[bits] <= p[8 * w] /\ p[bits] \in Nat /\ p[8 * w] \in Nat
      <3>1. 8 * w \in Nat /\ bits \in Nat /\ bits <= 8 * w
        BY <1>4, <2>3
      <3> QED
        BY <1>1, <3>1
    <2>5. Fitting(n, w)
      BY <1>2, <1>7, <2>2, <2>3, <2>4
    <2>6. w > 1 => ~Fitting(n, w - 1)
      <3>1. w - 1 \in Nat /\ 8 * (w - 1) <= bits - 1 /\ bits - 1 \in Nat /\ 8 * (w - 1) \in Nat
        BY <1>4, <2>2, <2>3
      <3>2. p[8 * (w - 1)] <= p[bits - 1] /\ p[8 * (w - 1)] \in Nat /\ p[bits - 1] \in Nat
        BY <1>1, <3>1
      <3>3. ~(n < p[8 * (w - 1)])
        BY <2>2, <3>2
      <3> QED
        BY <1>2, <3>1, <3>3
    <2> QED
      BY <2>3, <2>5, <2>6 DEF w
  <1>8. CASE n < 0
    <2>1. k = -n - 1
      BY <1>8 DEF k
    <2>2. w \in Nat \ {0} /\ 8 * w >= bits + 1 /\ 8 * (w - 1) <= bits
      BY <1>4, <1>5, <1>8
    <2>3. p[bits + 1] <= p[8 * w] /\ p[bits + 1] = 2 * p[bits] /\ p[bits] \in Nat /\ p[8 * w] \in Nat
      <3>1. 8 * w \in Nat /\ bits \in Nat /\ bits + 1 \in Nat /\ bits + 1 <= 8 * w
        BY <1>4, <2>2
      <3>2. p[bits + 1] <= p[8 * w]
        BY <1>1, <3>1
      <3> QED
        BY <1>1, <3>1, <3>2
    <2>4. -p[8 * w] <= 2 * n /\ n < p[8 * w]
      BY <1>4, <1>8, <2>1, <2>3
    <2>5. Fitting(n, w)
      BY <1>2, <2>2, <2>4
    <2>6. w > 1 => ~Fitting(n, w - 1)
      <3>1. SUFFICES ASSUME w > 1
                     PROVE  ~Fitting(n, w - 1)
        OBVIOUS
      <3>2. bits > 0 /\ w - 1 \in Nat /\ bits - 1 \in Nat /\ (bits - 1) + 1 = bits
        BY <1>4, <2>2, <3>1
      <3>3. p[bits] = 2 * p[bits - 1] /\ p[bits - 1] \in Nat /\ k >= p[bits - 1]
        BY <1>1, <1>4, <3>2
      <3>4. p[8 * (w - 1)] <= p[bits] /\ p[8 * (w - 1)] \in Nat
        <4>1. 8 * (w - 1) \in Nat /\ bits \in Nat /\ 8 * (w - 1) <= bits
          BY <1>4, <2>2, <3>2
        <4> QED
          BY <1>1, <4>1
      <3>5. ~(-p[8 * (w - 1)] <= 2 * n)
        BY <2>1, <2>3, <3>3, <3>4
      <3> QED
        BY <1>2, <3>2, <3>5
    <2> QED
      BY <2>2, <2>5, <2>6 DEF w
  <1> QED
    BY <1>6, <1>7, <1>8

\* Zeros in front are worth nothing.
LEMMA LeadingZeros ==
  ASSUME NEW base \in Nat, NEW a \in Seq(Nat), NEW b \in Seq(Nat), NEW z \in Nat,
         Len(a) = z + Len(b),
         \A i \in 1..z : a[i] = 0,
         \A i \in 1..Len(b) : a[z + i] = b[i]
  PROVE  Worth(base, a) = Worth(base, b)
  <1> DEFINE N == Len(b)
  <1>1. N \in Nat /\ Len(a) = z + N
    OBVIOUS
  <1>2. PICK u \in [0..Len(a) -> Nat] :
          /\ u[0] = 0 /\ Worth(base, a) = u[Len(a)]
          /\ \A n \in 1..Len(a) : u[n] = base * u[n - 1] + a[n]
    BY WorthIs
  <1>3. PICK v \in [0..N -> Nat] :
          /\ v[0] = 0 /\ Worth(base, b) = v[N]
          /\ \A n \in 1..N : v[n] = base * v[n - 1] + b[n]
    BY WorthIs
  <1> HIDE DEF N
  <1> DEFINE T == {n \in Nat : n <= z => u[n] = 0}
             U == {n \in Nat : n <= N => u[z + n] = v[n]}
  <1>4. 0 \in T
    BY <1>2
  <1>5. ASSUME NEW n \in T
        PROVE  n + 1 \in T
    <2>1. SUFFICES ASSUME n + 1 <= z
                   PROVE  u[n + 1] = 0
      OBVIOUS
    <2>2. n \in Nat /\ u[n] = 0 /\ n + 1 \in 1..Len(a) /\ n + 1 \in 1..z /\ (n + 1) - 1 = n
      BY <1>1, <2>1
    <2>3. u[n + 1] = base * u[n] + a[n + 1] /\ a[n + 1] = 0
      BY <1>2, <2>2
    <2>4. base * 0 + 0 = 0
      OBVIOUS
    <2> QED
      BY <2>2, <2>3, <2>4
  <1>6. T = Nat
    <2>1. T \in SUBSET Nat
      OBVIOUS
    <2> HIDE DEF T
    <2> QED
      BY <1>4, <1>5, <2>1, Induction
  <1>7. 0 \in U
    <2>1. z \in T
      BY <1>6
    <2>2. z <= z /\ z + 0 = z
      OBVIOUS
    <2>3. u[z + 0] = v[0]
      <3> HIDE DEF U
      <3> QED
        BY <1>3, <2>1, <2>2
    <2> QED
      BY <2>3
  <1>8. ASSUME NEW n \in U
        PROVE  n + 1 \in U
    <2>1. SUFFICES ASSUME n + 1 <= N
                   PROVE  u[z + (n + 1)] = v[n + 1]
      OBVIOUS
    <2>2. n \in Nat /\ u[z + n] = v[n] /\ n + 1 \in 1..N /\ (n + 1) - 1 = n
      BY <1>1, <2>1
    <2>3. z + (n + 1) \in 1..Len(a) /\ (z + (n + 1)) - 1 = z + n
      BY <1>1, <2>2
    <2>4. u[z + (n + 1)] = base * u[z + n] + a[z + (n + 1)]
      BY <1>2, <2>3
    <2>5. v[n + 1] = base * v[n] + b[n + 1]
      BY <1>3, <2>2
    <2>6. a[z + (n + 1)] = b[n + 1]
      BY <2>2 DEF N
    <2> HIDE DEF U
    <2> QED
      BY <2>2, <2>4, <2>5, <2>6
  <1>9. U = Nat
    <2>1. U \in SUBSET Nat
      OBVIOUS
    <2> HIDE DEF U
    <2> QED
      BY <1>7, <1>8, <2>1, Induction
  <1>10. u[z + N] = v[N]
    <2>1. N \in U
      <3> HIDE DEF U
      <3> QED
        BY <1>1, <1>9
    <2>2. N <= N
      BY <1>1
    <2> QED
      BY <2>1, <2>2
  <1> QED
    BY <1>1, <1>2, <1>3, <1>10

\* The text of some bytes is worth what the bytes are.
LEMMA AsciiIs ==
  ASSUME NEW raw \in Seq(Nat), PrintableAscii(raw) # Nothing
  PROVE  Worth(256, Reverse(PrintableAscii(raw))) = Worth(256, Reverse(raw))
  <1> DEFINE N == Len(raw)
             LastAt(n) == (n > 0 => raw[n] # 0) /\ \A i \in (n + 1)..N : raw[i] = 0
             len == CHOOSE n \in 0..N : LastAt(n)
             txt == SubSeq(raw, 1, len)
             T == {n \in 0..N : n > 0 => raw[n] # 0}
  <1>1. N \in Nat /\ \A i \in 1..N : raw[i] \in Nat
    OBVIOUS
  <1> HIDE DEF N
  <1>2. \E n \in 0..N : LastAt(n)
    <2>1. 0 \in T /\ T \in SUBSET (0..N)
      BY <1>1
    <2>2. PICK n \in T : \A i \in T : i <= n
      <3>1. T # {}
        BY <2>1
      <3> HIDE DEF T
      <3> QED
        BY <1>1, <2>1, <3>1, GreatestMember
    <2>3. ASSUME NEW i \in (n + 1)..N
          PROVE  raw[i] = 0
      <3>1. i \in 0..N /\ i \notin T
        BY <1>1, <2>2
      <3> QED
        BY <3>1
    <2> QED
      BY <2>2, <2>3
  <1>3. len \in 0..N /\ LastAt(len)
    <2> HIDE DEF LastAt
    <2> QED
      BY <1>2
  <1>4. PrintableAscii(raw) = IF \A i \in DOMAIN txt : txt[i] \in 32..126 THEN txt ELSE Nothing
    BY DEF PrintableAscii, N
  <1> HIDE DEF len, txt
  <1>5. PrintableAscii(raw) = txt
    BY <1>4
  <1>6. len \in Nat /\ len <= N
    BY <1>1, <1>3
  <1>7. txt \in Seq(Nat) /\ Len(txt) = len /\ \A i \in 1..len : txt[i] = raw[i]
    <2>1. 1 \in Int /\ len \in Int /\ \A i \in 1..len : raw[i] \in Nat
      BY <1>1, <1>6
    <2>2. txt \in Seq(Nat) /\ Len(txt) = (IF 1 <= len THEN len - 1 + 1 ELSE 0)
            /\ \A i \in 1..(len - 1 + 1) : txt[i] = raw[1 + i - 1]
      BY <2>1, SubSeqProperties DEF txt
    <2>3. (IF 1 <= len THEN len - 1 + 1 ELSE 0) = len /\ len - 1 + 1 = len
      BY <1>6
    <2>4. \A i \in 1..len : 1 + i - 1 = i
      BY <1>6
    <2> QED
      BY <2>2, <2>3, <2>4
  <1> DEFINE a == Reverse(raw)
             b == Reverse(txt)
             z == N - len
  <1>9. a \in Seq(Nat) /\ Len(a) = N /\ \A i \in 1..N : a[i] = raw[N + 1 - i]
    BY ReverseIs DEF N
  <1>10. b \in Seq(Nat) /\ Len(b) = len /\ \A i \in 1..len : b[i] = txt[len + 1 - i]
    BY <1>7, ReverseIs
  <1> HIDE DEF a, b
  <1>11. z \in Nat /\ Len(a) = z + Len(b)
    BY <1>1, <1>6, <1>9, <1>10
  <1>12. ASSUME NEW i \in 1..z
         PROVE  a[i] = 0
    <2>1. i \in 1..N /\ N + 1 - i \in (len + 1)..N
      BY <1>1, <1>6
    <2>2. a[i] = raw[N + 1 - i]
      BY <1>9, <2>1
    <2>3. raw[N + 1 - i] = 0
      BY <1>3, <2>1
    <2> QED
      BY <2>2, <2>3
  <1>13. ASSUME NEW i \in 1..Len(b)
         PROVE  a[z + i] = b[i]
    <2>1. i \in 1..len
      BY <1>10
    <2>2. z + i \in 1..N /\ N + 1 - (z + i) = len + 1 - i /\ len + 1 - i \in 1..len
      BY <1>1, <1>6, <2>1
    <2> QED
      BY <1>7, <1>9, <1>10, <2>1, <2>2
  <1>14. PICK base \in Nat : base = 256
    OBVIOUS
  <1> HIDE DEF z, T, LastAt
  <1>15. Worth(base, a) = Worth(base, b)
    BY <1>9, <1>10, <1>11, <1>12, <1>13, LeadingZeros
  <1> QED
    BY <1>5, <1>14, <1>15 DEF a, b

\* convert_number gives a number's own bytes, in the width asked for or the least there
\* is, refuses only what does not fit, and shows either every byte as text or none: for
\* every number and every width.
THEOREM NumbersExact ==
  \A n \in Int, size \in Int \cup {Nothing} : NumberExact(n, size)
  <1> SUFFICES ASSUME NEW n \in Int, NEW size \in Int \cup {Nothing}
               PROVE  NumberExact(n, size)
    OBVIOUS
  <1> DEFINE results == ConvertNumber(n, size)
             width == IF size # Nothing THEN size ELSE MinimumByteWidth(n)
             raws == IF width <= 0 THEN {} ELSE ToBytesEitherSign(n, width)
  <1>1. results = {[bytes |-> raw, ascii |-> PrintableAscii(raw)] : raw \in raws}
    BY DEF ConvertNumber
  <1>2. width \in Int
    BY MinimumByteWidthIs
  <1>3. size = Nothing =>
          /\ width > 0 /\ Fitting(n, width)
          /\ width > 1 => ~Fitting(n, width - 1)
    BY MinimumByteWidthIs
  <1>4. size # Nothing => width = size
    OBVIOUS
  <1> HIDE DEF width
  <1>5. /\ raws = {} <=> width <= 0 \/ ~Fitting(n, width)
        /\ \A raw \in raws :
             /\ raw \in Seq(Nat) /\ Len(raw) = width /\ width > 0
             /\ Worth(256, Reverse(raw)) = IF n < 0 THEN n + Power(256)[width] ELSE n
    <2>1. CASE width <= 0
      BY <2>1
    <2>2. CASE ~(width <= 0)
      <3>1. width \in Nat \ {0} /\ raws = ToBytesEitherSign(n, width) /\ width > 0
        BY <1>2, <2>2
      <3> HIDE DEF raws
      <3> QED
        BY <2>2, <3>1, BytesAre
    <2> QED
      BY <2>1, <2>2
  <1> HIDE DEF raws, results
  <1>6. results = {} <=> size # Nothing /\ (size <= 0 \/ ~Fitting(n, size))
    <2>1. results = {} <=> raws = {}
      BY <1>1
    <2>2. CASE size = Nothing
      <3>1. ~(width <= 0)
        BY <1>2, <1>3, <2>2
      <3> QED
        BY <1>3, <1>5, <2>1, <2>2, <3>1
    <2>3. CASE size # Nothing
      BY <1>4, <1>5, <2>1, <2>3
    <2> QED
      BY <2>2, <2>3
  <1>7. ASSUME NEW r \in results
        PROVE  /\ Worth(256, Reverse(r.bytes)) = IF n < 0 THEN n + Power(256)[Len(r.bytes)] ELSE n
               /\ size # Nothing => Len(r.bytes) = size
               /\ size = Nothing => Len(r.bytes) >= 1 /\ (Len(r.bytes) > 1 => ~Fitting(n, Len(r.bytes) - 1))
               /\ r.ascii # Nothing => Worth(256, Reverse(r.ascii)) = Worth(256, Reverse(r.bytes))
    <2>1. PICK raw \in raws : r = [bytes |-> raw, ascii |-> PrintableAscii(raw)]
      BY <1>1
    <2>2. r.bytes = raw /\ r.ascii = PrintableAscii(raw)
      BY <2>1
    <2>3. /\ raw \in Seq(Nat) /\ Len(raw) = width /\ width > 0
          /\ Worth(256, Reverse(raw)) = IF n < 0 THEN n + Power(256)[width] ELSE n
      BY <1>5
    <2>4. width >= 1
      BY <1>2, <2>3
    <2>5. PrintableAscii(raw) # Nothing =>
            Worth(256, Reverse(PrintableAscii(raw))) = Worth(256, Reverse(raw))
      BY <2>3, AsciiIs
    <2> QED
      BY <1>3, <1>4, <2>2, <2>3, <2>4, <2>5
  <1> QED
    BY <1>6, <1>7 DEF NumberExact, Fitting, results

-----------------------------------------------------------------------------
\* Pages.

\* A page is all there is from its offset, or ends where the next one begins.
LEMMA PageIs ==
  ASSUME NEW data \in Seq(Nat), NEW offset \in Nat, NEW count \in Nat
  PROVE  LET page == Paginate(data, offset, count)
         IN  \/ page.next = Nothing /\ page.data = SubSeq(data, offset + 1, Len(data))
             \/ /\ page.next # Nothing /\ page.next \in Nat
                /\ offset < page.next /\ page.next < Len(data)
                /\ page.data = SubSeq(data, offset + 1, page.next)
  <1> DEFINE N == Len(data)
             end == IF count = 0 THEN N ELSE IF offset + count < N THEN offset + count ELSE N
             page == Paginate(data, offset, count)
  <1>1. N \in Nat
    OBVIOUS
  <1>2. page = [data |-> SubSeq(data, offset + 1, end), next |-> IF end < N THEN end ELSE Nothing]
    BY DEF Paginate
  <1>3. page.data = SubSeq(data, offset + 1, end) /\ page.next = IF end < N THEN end ELSE Nothing
    BY <1>2
  <1> HIDE DEF page, N
  <1>4. CASE end < N
    <2>1. end \in Nat /\ offset < end
      BY <1>1, <1>4
    <2>2. end # Nothing
      BY <2>1, NumeralsAssumption
    <2> HIDE DEF end
    <2> QED
      BY <1>3, <1>4, <2>1, <2>2 DEF N, page
  <1>5. CASE ~(end < N)
    <2>1. end = N
      BY <1>1, <1>5
    <2> HIDE DEF end
    <2> QED
      BY <1>3, <1>5, <2>1 DEF N, page
  <1> QED
    BY <1>4, <1>5

\* Two pieces of a sequence, one behind the other.
LEMMA Pieces ==
  ASSUME NEW data \in Seq(Nat), NEW from \in Nat, NEW to \in Nat, from < to, to < Len(data)
  PROVE  SubSeq(data, from + 1, to) \o SubSeq(data, to + 1, Len(data))
           = SubSeq(data, from + 1, Len(data))
  <1>1. from + 1 \in 1..Len(data) /\ to \in (from + 1)..Len(data) /\ Len(data) \in to..Len(data)
    OBVIOUS
  <1> QED
    BY <1>1, ConcatAdjacentSubSeq

\* A client that follows the pages of a listing sees all of it from where it began, each
\* item once and in order, for every listing and size of a page.
THEOREM PagesAllExact ==
  \A len, offset, count \in Nat : PagesExact(len, offset, count)
  <1> SUFFICES ASSUME NEW len \in Nat, NEW offset \in Nat, NEW count \in Nat
               PROVE  PagesExact(len, offset, count)
    OBVIOUS
  <1> DEFINE data == [i \in 1..len |-> i]
             Page(from) == Paginate(data, from, count)
             Step(g, from) ==
               Page(from).data \o (IF Page(from).next = Nothing THEN <<>> ELSE g[Page(from).next])
             Solves(g) == g = [from \in Nat |-> Step(g, from)]
             Left(from) == SubSeq(data, from + 1, len)
             seen == CHOOSE g : Solves(g)
  <1>1. data \in Seq(Nat) /\ Len(data) = len
    OBVIOUS
  <1>2. Walk(data, offset, count) = seen[offset]
    BY DEF Walk
  <1> HIDE DEF data
  <1>3. \A from \in Nat : Left(from) \in Seq(Nat)
    <2> SUFFICES ASSUME NEW from \in Nat
                 PROVE  Left(from) \in Seq(Nat)
      OBVIOUS
    <2>1. from + 1 \in Int /\ len \in Int /\ \A i \in (from + 1)..len : data[i] \in Nat
      BY <1>1
    <2> QED
      BY <2>1, SubSeqProperties
  <1>4. ASSUME NEW from \in Nat
        PROVE  \/ Page(from).next = Nothing /\ Page(from).data = Left(from)
               \/ /\ Page(from).next # Nothing /\ Page(from).next \in Nat
                  /\ from < Page(from).next /\ Page(from).next < len
                  /\ Page(from).data \o Left(Page(from).next) = Left(from)
    <2>1. \/ Page(from).next = Nothing /\ Page(from).data = Left(from)
          \/ /\ Page(from).next # Nothing /\ Page(from).next \in Nat
             /\ from < Page(from).next /\ Page(from).next < len
             /\ Page(from).data = SubSeq(data, from + 1, Page(from).next)
      BY <1>1, PageIs
    <2> HIDE DEF Page
    <2> QED
      BY <1>1, <2>1, Pieces
  <1> HIDE DEF Page, Left
  <1>5. \A from \in Nat : Left(from) \o <<>> = Left(from)
    BY <1>3
  <1>6. Solves([from \in Nat |-> Left(from)])
    <2> DEFINE g == [from \in Nat |-> Left(from)]
    <2>1. \A from \in Nat : g[from] = Left(from)
      OBVIOUS
    <2> HIDE DEF g
    <2>2. ASSUME NEW from \in Nat
          PROVE  Left(from) = Step(g, from)
      BY <1>4, <1>5, <2>1
    <2> HIDE DEF Step
    <2> QED
      BY <2>2 DEF g
  <1>7. Solves(seen)
    <2> HIDE DEF Solves
    <2> QED
      BY <1>6
  <1>8. \A from \in Nat : seen[from] = Step(seen, from)
    <2>1. seen = [from \in Nat |-> Step(seen, from)]
      BY <1>7
    <2> HIDE DEF seen, Step
    <2> QED
      BY <2>1
  <1> HIDE DEF seen
  <1> DEFINE T == {k \in Nat : \A from \in Nat : from + k >= len => seen[from] = Left(from)}
  <1>9. 0 \in T
    <2>1. ASSUME NEW from \in Nat, from + 0 >= len
          PROVE  seen[from] = Left(from)
      <3>1. ~\E next \in Nat : from < next /\ next < len
        BY <2>1
      <3>2. Page(from).next = Nothing /\ Page(from).data = Left(from)
        BY <1>4, <3>1
      <3> QED
        BY <1>5, <1>8, <3>2
    <2> QED
      BY <2>1
  <1>10. ASSUME NEW k \in T
         PROVE  k + 1 \in T
    <2>0. k \in Nat /\ k + 1 \in Nat /\ \A from \in Nat : from + k >= len => seen[from] = Left(from)
      OBVIOUS
    <2>1. ASSUME NEW from \in Nat, from + (k + 1) >= len
          PROVE  seen[from] = Left(from)
      <3>1. CASE Page(from).next = Nothing
        <4>1. Page(from).data = Left(from)
          BY <1>4, <3>1
        <4> QED
          BY <1>5, <1>8, <3>1, <4>1
      <3>2. CASE Page(from).next # Nothing
        <4>1. /\ Page(from).next \in Nat /\ from < Page(from).next
              /\ Page(from).data \o Left(Page(from).next) = Left(from)
          BY <1>4, <3>2
        <4>2. Page(from).next + k >= len
          BY <2>0, <2>1, <4>1
        <4>3. seen[Page(from).next] = Left(Page(from).next)
          BY <2>0, <4>1, <4>2
        <4> QED
          BY <1>8, <3>2, <4>1, <4>3
      <3> QED
        BY <3>1, <3>2
    <2> QED
      BY <2>0, <2>1
  <1>11. T = Nat
    <2>1. T \in SUBSET Nat
      OBVIOUS
    <2> HIDE DEF T
    <2> QED
      BY <1>9, <1>10, <2>1, Induction
  <1>12. seen[offset] = Left(offset)
    <2>1. len \in T
      BY <1>11
    <2>2. offset + len >= len
      OBVIOUS
    <2> QED
      BY <2>1, <2>2
  <1> QED
    BY <1>1, <1>2, <1>12 DEF PagesExact, Left, data

-----------------------------------------------------------------------------
(***************************************************************************)
(* Coercion, for every type and value there can be, by induction on how    *)
(* deep types are nested.                                                  *)
(***************************************************************************)

\* All that is defined by recursion on a depth or a position, at the n-th and before the first.
Deeper(words, n, below) ==
  [nested |-> Scalars \cup Lists(below.nested),
   types  |-> [s \in BOOLEAN |-> TypesOver(s, below.types[s])],
   coerce |-> [a \in Declared(TRUE)[n] |-> [v \in JSON |-> Convert(v, a, below.coerce)]],
   values |-> [a \in Declared(TRUE)[n] |-> {v \in JSON : IsOf(v, a, below.values)}],
   read   |-> IF n = 0 THEN {Reading(Defaults, Unset)} ELSE UNION {ReadWord(r, words[n]) : r \in below.read}]

Ground == [nested |-> {}, types |-> [s \in BOOLEAN |-> {}], coerce |-> <<>>, values |-> <<>>,
           read |-> {}]

Level(words, n, below) == Deeper(words, n, IF n = 0 THEN Ground ELSE below)

\* There are levels all the way up, each made from the one below.
LEMMA Levels ==
  ASSUME NEW words
  PROVE  \E c : c = [n \in Nat |-> Level(words, n, c[n - 1])]
  <1> DEFINE Solves(g, j) == g = [n \in 0..j |-> Level(words, n, g[n - 1])]
             Exists == {j \in Nat : \E g : Solves(g, j)}
             some(j) == CHOOSE g : Solves(g, j)
             c == [n \in Nat |-> some(n)[n]]
  <1>1. \A x, y : Level(words, 0, x) = Level(words, 0, y)
    <2>1. ASSUME NEW x
          PROVE  Level(words, 0, x) = Deeper(words, 0, Ground)
      BY DEF Level
    <2> QED
      BY ONLY <2>1, Zenon
  <1>2. ASSUME NEW j, NEW g, Solves(g, j)
        PROVE  \A n \in 0..j : g[n] = Level(words, n, g[n - 1])
    BY <1>2
  <1> HIDE DEF Solves
  <1>3. ASSUME NEW j \in Nat, NEW k \in Nat, NEW g, NEW h, Solves(g, j), Solves(h, k)
        PROVE  \A n \in Nat : n <= j /\ n <= k => g[n] = h[n]
    <2> DEFINE Same == {n \in Nat : n <= j /\ n <= k => g[n] = h[n]}
    <2>1. 0 \in Same
      <3>1. 0 \in 0..j /\ 0 \in 0..k
        OBVIOUS
      <3>2. g[0] = Level(words, 0, g[0 - 1]) /\ h[0] = Level(words, 0, h[0 - 1])
        BY <1>2, <1>3, <3>1
      <3>3. Level(words, 0, g[0 - 1]) = Level(words, 0, h[0 - 1])
        BY ONLY <1>1, Zenon
      <3>4. g[0] = h[0]
        BY ONLY <3>2, <3>3, Zenon
      <3> QED
        BY <3>4
    <2>2. ASSUME NEW n \in Same
          PROVE  n + 1 \in Same
      <3>1. SUFFICES ASSUME n + 1 <= j, n + 1 <= k
                     PROVE  g[n + 1] = h[n + 1]
        OBVIOUS
      <3>2. n + 1 \in 0..j /\ n + 1 \in 0..k /\ (n + 1) - 1 = n /\ g[n] = h[n]
        BY <3>1
      <3>3. g[n + 1] = Level(words, n + 1, g[(n + 1) - 1]) /\ h[n + 1] = Level(words, n + 1, h[(n + 1) - 1])
        BY <1>2, <1>3, <3>2
      <3> QED
        BY ONLY <3>2, <3>3
    <2>3. Same = Nat
      <3>1. Same \in SUBSET Nat
        OBVIOUS
      <3> HIDE DEF Same
      <3> QED
        BY <2>1, <2>2, <3>1, Induction
    <2> QED
      BY <2>3
  <1>4. Exists = Nat
    <2>1. 0 \in Exists
      <3> DEFINE g == [n \in 0..0 |-> Level(words, n, 0)]
      <3>1. \A n \in 0..0 : Level(words, n, 0) = Level(words, n, g[n - 1])
        BY <1>1, \A n \in 0..0 : n = 0
      <3>2. g = [n \in 0..0 |-> Level(words, n, g[n - 1])]
        BY <3>1
      <3>3. Solves(g, 0)
        BY ONLY <3>2 DEF Solves
      <3> QED
        BY <3>3
    <2>2. ASSUME NEW j \in Exists
          PROVE  j + 1 \in Exists
      <3>1. PICK g : Solves(g, j)
        OBVIOUS
      <3> DEFINE h == [n \in 0..(j + 1) |-> IF n = j + 1 THEN Level(words, n, g[j]) ELSE g[n]]
      <3>2. ASSUME NEW n \in 0..(j + 1)
            PROVE  h[n] = Level(words, n, h[n - 1])
        <4>1. CASE n = j + 1
          <5>1. j \in 0..(j + 1) /\ j # j + 1 /\ n - 1 = j
            BY <4>1
          <5>2. h[n] = Level(words, n, g[j]) /\ h[j] = g[j]
            BY <4>1, <5>1
          <5> HIDE DEF h
          <5> QED
            BY <5>1, <5>2
        <4>2. CASE n = 0
          <5>1. 0 \in 0..j /\ 0 # j + 1
            OBVIOUS
          <5>2. h[0] = g[0]
            BY <4>2, <5>1
          <5>3. g[0] = Level(words, 0, g[0 - 1])
            BY <1>2, <3>1, <5>1
          <5>4. Level(words, 0, g[0 - 1]) = Level(words, 0, h[0 - 1])
            BY ONLY <1>1, Zenon
          <5> HIDE DEF h
          <5> QED
            BY ONLY <4>2, <5>2, <5>3, <5>4
        <4>3. CASE n # j + 1 /\ n # 0
          <5>1. n \in 0..j /\ n - 1 \in 0..j /\ n - 1 \in 0..(j + 1) /\ n - 1 # j + 1
            BY <4>3
          <5>2. h[n] = g[n] /\ h[n - 1] = g[n - 1]
            BY <4>3, <5>1
          <5>3. g[n] = Level(words, n, g[n - 1])
            BY <1>2, <3>1, <5>1
          <5> HIDE DEF h
          <5> QED
            BY ONLY <5>2, <5>3
        <4> QED
          BY <4>1, <4>2, <4>3
      <3>3. h = [n \in 0..(j + 1) |-> h[n]]
        OBVIOUS
      <3>4. Solves(h, j + 1)
        <4> HIDE DEF h
        <4> QED
          BY ONLY <3>2, <3>3 DEF Solves
      <3> HIDE DEF h
      <3> QED
        BY <3>4
    <2>3. Exists \in SUBSET Nat
      OBVIOUS
    <2> HIDE DEF Exists
    <2> QED
      BY <2>1, <2>2, <2>3, Induction
  <1>5. \A j \in Nat : Solves(some(j), j)
    <2>1. \A j \in Nat : \E g : Solves(g, j)
      BY <1>4
    <2> QED
      BY <2>1
  <1> HIDE DEF Exists, some
  <1>6. ASSUME NEW n \in Nat
        PROVE  c[n] = Level(words, n, c[n - 1])
    <2>1. n \in 0..n
      OBVIOUS
    <2>2. c[n] = Level(words, n, some(n)[n - 1])
      BY <1>2, <1>5, <2>1
    <2>3. CASE n = 0
      <3>1. Level(words, 0, some(n)[n - 1]) = Level(words, 0, c[n - 1])
        BY ONLY <1>1, Zenon
      <3> HIDE DEF c
      <3> QED
        BY ONLY <2>2, <2>3, <3>1
    <2>4. CASE n # 0
      <3>1. n - 1 \in Nat /\ n - 1 <= n /\ n - 1 <= n - 1
        BY <2>4
      <3>2. some(n)[n - 1] = some(n - 1)[n - 1]
        BY ONLY <1>3, <1>5, <3>1, n \in Nat
      <3>3. c[n - 1] = some(n - 1)[n - 1]
        BY <3>1
      <3> HIDE DEF c
      <3> QED
        BY ONLY <2>2, <3>2, <3>3
    <2> QED
      BY <2>3, <2>4
  <1>7. c = [n \in Nat |-> c[n]]
    OBVIOUS
  <1>8. c = [n \in Nat |-> Level(words, n, c[n - 1])]
    <2> HIDE DEF c
    <2> QED
      BY ONLY <1>6, <1>7
  <1> HIDE DEF c
  <1> QED
    BY ONLY <1>8

\* Each part of c at a depth is made of that part at the depth before.
Leveled(words, c) ==
  /\ \A n \in Nat : c[n].nested = Scalars \cup Lists(IF n = 0 THEN {} ELSE c[n - 1].nested)
  /\ \A n \in Nat, s \in BOOLEAN :
       c[n].types[s] = TypesOver(s, IF n = 0 THEN {} ELSE c[n - 1].types[s])
  /\ \A n \in Nat : c[n].coerce = [a \in Declared(TRUE)[n] |->
                   [v \in JSON |-> Convert(v, a, IF n = 0 THEN <<>> ELSE c[n - 1].coerce)]]
  /\ \A n \in Nat : c[n].values = [a \in Declared(TRUE)[n] |->
                                   {v \in JSON : IsOf(v, a, IF n = 0 THEN <<>> ELSE c[n - 1].values)}]
  /\ \A n \in Nat : c[n].read = IF n = 0 THEN {Reading(Defaults, Unset)}
                                ELSE UNION {ReadWord(r, words[n]) : r \in c[n - 1].read}

\* The same, part by part.
LEMMA LevelsExist == \A words : \E c : Leveled(words, c)
  <1> SUFFICES ASSUME NEW words
               PROVE  \E c : Leveled(words, c)
    OBVIOUS
  <1>1. PICK c : c = [n \in Nat |-> Level(words, n, c[n - 1])]
    BY Levels
  <1> DEFINE below(n) == IF n = 0 THEN Ground ELSE c[n - 1]
  <1>2. ASSUME NEW n \in Nat
        PROVE  c[n] = Deeper(words, n, below(n))
    <2>1. c[n] = Level(words, n, c[n - 1])
      BY <1>1
    <2> QED
      BY ONLY <2>1, Zenon DEF Level
  <1>3. ASSUME NEW n \in Nat
        PROVE  c[n].nested = Scalars \cup Lists(IF n = 0 THEN {} ELSE c[n - 1].nested)
    <2>1. below(n).nested = IF n = 0 THEN {} ELSE c[n - 1].nested
      BY ONLY TRUE DEF Ground
    <2> HIDE DEF below
    <2>2. Deeper(words, n, below(n)).nested = Scalars \cup Lists(below(n).nested)
      BY ONLY TRUE DEF Deeper
    <2> QED
      BY ONLY <1>2, <2>1, <2>2, n \in Nat, Zenon
  <1>4. ASSUME NEW n \in Nat, NEW s \in BOOLEAN
        PROVE  c[n].types[s] = TypesOver(s, IF n = 0 THEN {} ELSE c[n - 1].types[s])
    <2>1. below(n).types[s] = IF n = 0 THEN {} ELSE c[n - 1].types[s]
      BY ONLY s \in BOOLEAN DEF Ground
    <2> HIDE DEF below
    <2>2. Deeper(words, n, below(n)).types = [x \in BOOLEAN |-> TypesOver(x, below(n).types[x])]
      BY ONLY TRUE DEF Deeper
    <2>3. Deeper(words, n, below(n)).types[s] = TypesOver(s, below(n).types[s])
      BY ONLY <2>2, s \in BOOLEAN, Zenon
    <2> QED
      BY ONLY <1>2, <2>1, <2>3, n \in Nat, Zenon
  <1>5. ASSUME NEW n \in Nat
        PROVE  c[n].coerce = [a \in Declared(TRUE)[n] |->
                   [v \in JSON |-> Convert(v, a, IF n = 0 THEN <<>> ELSE c[n - 1].coerce)]]
    <2>1. below(n).coerce = IF n = 0 THEN <<>> ELSE c[n - 1].coerce
      BY ONLY TRUE DEF Ground
    <2> HIDE DEF below
    <2>2. Deeper(words, n, below(n)).coerce =
            [a \in Declared(TRUE)[n] |-> [v \in JSON |-> Convert(v, a, below(n).coerce)]]
      BY ONLY TRUE DEF Deeper
    <2> QED
      BY ONLY <1>2, <2>1, <2>2, n \in Nat, Zenon
  <1>6. ASSUME NEW n \in Nat
        PROVE  c[n].values = [a \in Declared(TRUE)[n] |->
                   {v \in JSON : IsOf(v, a, IF n = 0 THEN <<>> ELSE c[n - 1].values)}]
    <2>1. below(n).values = IF n = 0 THEN <<>> ELSE c[n - 1].values
      BY ONLY TRUE DEF Ground
    <2> HIDE DEF below
    <2>2. Deeper(words, n, below(n)).values =
            [a \in Declared(TRUE)[n] |-> {v \in JSON : IsOf(v, a, below(n).values)}]
      BY ONLY TRUE DEF Deeper
    <2> QED
      BY ONLY <1>2, <2>1, <2>2, n \in Nat, Zenon
  <1>7. ASSUME NEW n \in Nat
        PROVE  c[n].read = IF n = 0 THEN {Reading(Defaults, Unset)}
                           ELSE UNION {ReadWord(r, words[n]) : r \in c[n - 1].read}
    <2>1. n # 0 => below(n) = c[n - 1]
      OBVIOUS
    <2> HIDE DEF below
    <2>2. Deeper(words, n, below(n)).read = IF n = 0 THEN {Reading(Defaults, Unset)}
                                          ELSE UNION {ReadWord(r, words[n]) : r \in below(n).read}
      BY ONLY TRUE DEF Deeper
    <2> QED
      BY ONLY <1>2, <2>1, <2>2, n \in Nat, Zenon
  <1>8. Leveled(words, c)
    BY ONLY <1>3, <1>4, <1>5, <1>6, <1>7, Zenon DEF Leveled
  <1> QED
    BY ONLY <1>8, Zenon

\* Values are nested in levels.
LEMMA NestedIs ==
  \A n \in Nat : Nested[n] = Scalars \cup Lists(IF n = 0 THEN {} ELSE Nested[n - 1])
  <1> DEFINE Solves(g) == g = [n \in Nat |-> Scalars \cup Lists(IF n = 0 THEN {} ELSE g[n - 1])]
  <1>1. Nested = CHOOSE g : Solves(g)
    BY Zenon DEF Nested
  <1>2. PICK words, c : Leveled(words, c)
    BY LevelsExist
  <1> DEFINE h == [n \in Nat |-> c[n].nested]
  <1>3. ASSUME NEW n \in Nat
        PROVE  h[n] = Scalars \cup Lists(IF n = 0 THEN {} ELSE h[n - 1])
    <2>1. (IF n = 0 THEN {} ELSE c[n - 1].nested) = (IF n = 0 THEN {} ELSE h[n - 1])
      BY n # 0 => n - 1 \in Nat
    <2>2. h[n] = c[n].nested
      OBVIOUS
    <2>3. c[n].nested = Scalars \cup Lists(IF n = 0 THEN {} ELSE c[n - 1].nested)
      BY ONLY <1>2, n \in Nat, Zenon DEF Leveled
    <2> HIDE DEF h
    <2> QED
      BY ONLY <2>1, <2>2, <2>3, Zenon
  <1>4. Solves(h)
    <2>1. h = [n \in Nat |-> h[n]]
      OBVIOUS
    <2> HIDE DEF h
    <2> QED
      BY ONLY <1>3, <2>1
  <1>5. Solves(Nested)
    <2> HIDE DEF Solves, h
    <2> QED
      BY ONLY <1>1, <1>4, Zenon
  <1> QED
    BY ONLY <1>5, Zenon

\* So are types.
LEMMA DeclaredIs ==
  ASSUME NEW s \in BOOLEAN
  PROVE  \A n \in Nat : Declared(s)[n] = TypesOver(s, IF n = 0 THEN {} ELSE Declared(s)[n - 1])
  <1> DEFINE Solves(g) == g = [n \in Nat |-> TypesOver(s, IF n = 0 THEN {} ELSE g[n - 1])]
             d == Declared(s)
  <1>1. d = CHOOSE g : Solves(g)
    BY Zenon DEF Declared
  <1>2. PICK words, c : Leveled(words, c)
    BY LevelsExist
  <1> DEFINE h == [n \in Nat |-> c[n].types[s]]
  <1>3. ASSUME NEW n \in Nat
        PROVE  h[n] = TypesOver(s, IF n = 0 THEN {} ELSE h[n - 1])
    <2>1. (IF n = 0 THEN {} ELSE c[n - 1].types[s]) = (IF n = 0 THEN {} ELSE h[n - 1])
      BY n # 0 => n - 1 \in Nat
    <2>2. h[n] = c[n].types[s]
      OBVIOUS
    <2>3. c[n].types[s] = TypesOver(s, IF n = 0 THEN {} ELSE c[n - 1].types[s])
      BY ONLY <1>2, n \in Nat, s \in BOOLEAN, Zenon DEF Leveled
    <2> HIDE DEF h
    <2> QED
      BY ONLY <2>1, <2>2, <2>3, Zenon
  <1>4. Solves(h)
    <2>1. h = [n \in Nat |-> h[n]]
      OBVIOUS
    <2> HIDE DEF h
    <2> QED
      BY ONLY <1>3, <2>1
  <1>5. Solves(d)
    <2> HIDE DEF Solves, h, d
    <2> QED
      BY ONLY <1>1, <1>4, Zenon
  <1> QED
    BY ONLY <1>5, Zenon

-----------------------------------------------------------------------------
\* Conversions of one level are made from those below.
LEMMA CoercionsAre ==
  \A n \in Nat : Coercions[n] =
    [a \in Declared(TRUE)[n] |-> [v \in JSON |-> Convert(v, a, IF n = 0 THEN <<>> ELSE Coercions[n - 1])]]
  <1> DEFINE Level1(g, n) ==
               [a \in Declared(TRUE)[n] |-> [v \in JSON |-> Convert(v, a, IF n = 0 THEN <<>> ELSE g[n - 1])]]
             Solves(g) == g = [n \in Nat |-> Level1(g, n)]
  <1>1. Coercions = CHOOSE g : Solves(g)
    BY Zenon DEF Coercions
  <1>2. PICK words, c : Leveled(words, c)
    BY LevelsExist
  <1> DEFINE h == [n \in Nat |-> c[n].coerce]
  <1>3. ASSUME NEW n \in Nat
        PROVE  h[n] = Level1(h, n)
    <2>1. (IF n = 0 THEN <<>> ELSE c[n - 1].coerce) = (IF n = 0 THEN <<>> ELSE h[n - 1])
      BY n # 0 => n - 1 \in Nat
    <2>2. h[n] = c[n].coerce
      OBVIOUS
    <2>3. c[n].coerce = [a \in Declared(TRUE)[n] |->
                           [v \in JSON |-> Convert(v, a, IF n = 0 THEN <<>> ELSE c[n - 1].coerce)]]
      BY ONLY <1>2, n \in Nat, Zenon DEF Leveled
    <2> HIDE DEF h
    <2> QED
      BY ONLY <2>1, <2>2, <2>3, Zenon
  <1> HIDE DEF Level1
  <1>4. Solves(h)
    <2>1. h = [n \in Nat |-> h[n]]
      OBVIOUS
    <2> HIDE DEF h
    <2> QED
      BY ONLY <1>3, <2>1
  <1>5. Solves(Coercions)
    <2> HIDE DEF Solves, h
    <2> QED
      BY ONLY <1>1, <1>4, Zenon
  <1>6. \A n \in Nat : Coercions[n] = Level1(Coercions, n)
    BY ONLY <1>5, Zenon
  <1> QED
    BY ONLY <1>6, Zenon DEF Level1

\* So is what the values of a type are.
LEMMA ValuesOfAre ==
  \A n \in Nat : ValuesOf[n] =
    [a \in Declared(TRUE)[n] |-> {v \in JSON : IsOf(v, a, IF n = 0 THEN <<>> ELSE ValuesOf[n - 1])}]
  <1> DEFINE Level1(g, n) ==
               [a \in Declared(TRUE)[n] |-> {v \in JSON : IsOf(v, a, IF n = 0 THEN <<>> ELSE g[n - 1])}]
             Solves(g) == g = [n \in Nat |-> Level1(g, n)]
  <1>1. ValuesOf = CHOOSE g : Solves(g)
    BY Zenon DEF ValuesOf
  <1>2. PICK words, c : Leveled(words, c)
    BY LevelsExist
  <1> DEFINE h == [n \in Nat |-> c[n].values]
  <1>3. ASSUME NEW n \in Nat
        PROVE  h[n] = Level1(h, n)
    <2>1. (IF n = 0 THEN <<>> ELSE c[n - 1].values) = (IF n = 0 THEN <<>> ELSE h[n - 1])
      BY n # 0 => n - 1 \in Nat
    <2>2. h[n] = c[n].values
      OBVIOUS
    <2>3. c[n].values = [a \in Declared(TRUE)[n] |->
                           {v \in JSON : IsOf(v, a, IF n = 0 THEN <<>> ELSE c[n - 1].values)}]
      BY ONLY <1>2, n \in Nat, Zenon DEF Leveled
    <2> HIDE DEF h
    <2> QED
      BY ONLY <2>1, <2>2, <2>3, Zenon
  <1> HIDE DEF Level1
  <1>4. Solves(h)
    <2>1. h = [n \in Nat |-> h[n]]
      OBVIOUS
    <2> HIDE DEF h
    <2> QED
      BY ONLY <1>3, <2>1
  <1>5. Solves(ValuesOf)
    <2> HIDE DEF Solves, h
    <2> QED
      BY ONLY <1>1, <1>4, Zenon
  <1>6. \A n \in Nat : ValuesOf[n] = Level1(ValuesOf, n)
    BY ONLY <1>5, Zenon
  <1> QED
    BY ONLY <1>6, Zenon DEF Level1

-----------------------------------------------------------------------------
\* What there is to know of a value by its type.
LEMMA ScalarIs ==
  ASSUME NEW v \in Scalars
  PROVE  /\ v.type \in {"null", "bool", "int", "float", "str"}
         /\ v.num \in Int
         /\ v.type = "str" => v.text \in DOMAIN IntOf
  <1>1. CASE v \in {Null, Bool(TRUE), Bool(FALSE)}
    BY <1>1 DEF Null, Bool, Value
  <1>2. CASE v \in {Str(t) : t \in DOMAIN IntOf}
    <2>1. PICK t \in DOMAIN IntOf : v = Str(t)
      BY <1>2
    <2> QED
      BY ONLY <2>1, t \in DOMAIN IntOf DEF Str, Value
  <1>3. CASE v \in [type : {"int", "float"}, num : Int, text : {Nothing}, items : {<<>>}]
    BY ONLY <1>3
  <1> QED
    BY <1>1, <1>2, <1>3 DEF Scalars

\* The constructors make scalars.
LEMMA ScalarsMade ==
  /\ Null \in Scalars
  /\ \A b \in BOOLEAN : Bool(b) \in Scalars
  /\ \A n \in Int : Num(n) \in Scalars /\ Float(n) \in Scalars
  <1>1. \A n \in Int : {Num(n), Float(n)} \subseteq
                         [type : {"int", "float"}, num : Int, text : {Nothing}, items : {<<>>}]
    BY DEF Num, Float, Value
  <1>2. ASSUME NEW b \in BOOLEAN
        PROVE  Bool(b) = Bool(TRUE) \/ Bool(b) = Bool(FALSE)
    BY DEF Bool
  <1> QED
    BY <1>1, <1>2 DEF Scalars

\* A list stays one with other items.
LEMMA ListIs ==
  ASSUME NEW S, NEW v \in Lists(S)
  PROVE  /\ v.type = "list" /\ v.items \in Seq(S)
         /\ \A s \in Seq(S) : [v EXCEPT !.items = s] \in Lists(S)
  BY DEF Lists

\* Levels of values contain one another.
LEMMA NestedGrows ==
  \A n \in Nat : \A m \in 0..n : Nested[m] \subseteq Nested[n]
  <1> DEFINE T == {n \in Nat : \A m \in 0..n : Nested[m] \subseteq Nested[n]}
             below(n) == IF n = 0 THEN {} ELSE Nested[n - 1]
  <1>0. \A n \in Nat : Nested[n] = Scalars \cup Lists(below(n))
    BY NestedIs
  <1>1. 0 \in T
    OBVIOUS
  <1>2. ASSUME NEW R, NEW S, R \subseteq S
        PROVE  Lists(R) \subseteq Lists(S)
    <2>1. Seq(R) \subseteq Seq(S)
      BY <1>2
    <2> QED
      BY ONLY <2>1 DEF Lists
  <1>3. ASSUME NEW n \in T
        PROVE  n + 1 \in T
    <2>1. below(n) \subseteq below(n + 1)
      <3>1. CASE n = 0
        BY ONLY <3>1
      <3>2. CASE n # 0
        <4>1. n - 1 \in 0..n /\ (n + 1) - 1 = n /\ n + 1 # 0
          BY <3>2
        <4>2. Nested[n - 1] \subseteq Nested[n]
          BY <4>1
        <4> QED
          BY ONLY <3>2, <4>1, <4>2
      <3> QED
        BY <3>1, <3>2
    <2>2. Nested[n] \subseteq Nested[n + 1]
      <3> HIDE DEF below
      <3>1. Lists(below(n)) \subseteq Lists(below(n + 1))
        BY ONLY <1>2, <2>1
      <3>2. n \in Nat /\ n + 1 \in Nat
        OBVIOUS
      <3> QED
        BY ONLY <1>0, <3>1, <3>2
    <2>3. ASSUME NEW m \in 0..(n + 1)
          PROVE  Nested[m] \subseteq Nested[n + 1]
      <3>1. m = n + 1 \/ m \in 0..n
        OBVIOUS
      <3>2. m \in 0..n => Nested[m] \subseteq Nested[n]
        OBVIOUS
      <3> HIDE DEF T
      <3> QED
        BY ONLY <2>2, <3>1, <3>2
    <2> QED
      BY <2>3
  <1>4. T \in SUBSET Nat
    OBVIOUS
  <1>5. T = Nat
    <2> HIDE DEF T
    <2> QED
      BY <1>1, <1>3, <1>4, Induction
  <1> QED
    BY <1>5

-----------------------------------------------------------------------------
\* What becomes of the values, and which are of type a.
Converted(a, f) == [v \in JSON |-> Convert(v, a, f)]

Members(a, g) == {v \in JSON : IsOf(v, a, g)}

\* With c, a value comes to be of the type whose values are t, and stays as it is then.
Decodes(c, t) ==
  \A v \in JSON :
    /\ \A k \in 0..Nesting : v \in Nested[k] => c[v] \subseteq Nested[k]
    /\ \A r, s \in c[v] : r = s
    /\ \A r \in c[v] : r \in t /\ c[r] = {r} /\ (r.type = "null" => v.type = "null")

Keeps(c, t) == \A v \in JSON : v \in t => c[v] = {v}

\* What f and g do with the types of W, and the settled ones of those in S.
Sound(W, S, f, g) ==
  /\ \A b \in W : Decodes(f[b], g[b])
  /\ \A b \in S : b \in W /\ Keeps(f[b], g[b])
  /\ \A b \in W : b.base = "str" => \A v \in JSON : f[b][v] \subseteq {v}
  /\ \A b \in W : b.base = "none" => \A v \in JSON : v \in g[b] <=> v.type = "null"

\* What is nested at most k deep is JSON.
LEMMA NestedJSON ==
  \A k \in 0..Nesting : Nested[k] \subseteq JSON
  BY NestedGrows, ArgumentsAssumption DEF JSON

\* A value is a scalar or a list of values.
LEMMA JSONIs ==
  ASSUME NEW v \in JSON
  PROVE  /\ v \in Nested[Nesting] /\ Nesting \in 0..Nesting
         /\ \/ v \in Scalars
            \/ \E S \in SUBSET JSON : v \in Lists(S)
  <1>1. Nesting \in Nat
    BY ArgumentsAssumption
  <1> DEFINE S == IF Nesting = 0 THEN {} ELSE Nested[Nesting - 1]
  <1>2. v \in Scalars \cup Lists(S)
    BY <1>1, NestedIs DEF JSON
  <1>3. S \subseteq JSON
    BY <1>1, NestedJSON, Nesting # 0 => Nesting - 1 \in 0..Nesting
  <1> HIDE DEF S
  <1> QED
    BY <1>1, <1>2, <1>3 DEF JSON

\* The types of JSON, of which only a list has something in it.
LEMMA TypeIs ==
  ASSUME NEW v \in JSON
  PROVE  /\ v.type \in {"null", "bool", "int", "float", "str", "list"}
         /\ v.type # "list" => v \in Scalars
  BY JSONIs, ScalarIs, ListIs

\* Every level has the scalars.
LEMMA ScalarsNested ==
  \A k \in 0..Nesting : Scalars \subseteq Nested[k]
  <1>1. 0..Nesting \subseteq Nat
    BY ArgumentsAssumption
  <1> QED
    BY <1>1, NestedIs

\* The types that hold no other, whose values are told by looking at them.
LEMMA SimpleDecodes ==
  ASSUME NEW a, NEW f, NEW g, NEW c, NEW t,
         c = Converted(a, f), t = Members(a, g),
         NEW base, base = a.base,
         base \in {"any", "none", "literal", "bool", "int", "float", "str"},
         a.literals \subseteq Scalars
  PROVE  Decodes(c, t) /\ Keeps(c, t)
  <1> DEFINE sound(v) == /\ c[v] \subseteq Scalars \cup {v}
                         /\ \A r, s \in c[v] : r = s
                         /\ \A r \in c[v] : r \in t /\ c[r] = {r} /\ (r.type = "null" => v.type = "null")
                         /\ v \in t => c[v] = {v}
  <1>1. ASSUME \A v \in JSON : sound(v)
        PROVE  Decodes(c, t) /\ Keeps(c, t)
    <2>1. Decodes(c, t)
      <3>1. ASSUME NEW v \in JSON
            PROVE  \A k \in 0..Nesting : v \in Nested[k] => c[v] \subseteq Nested[k]
        BY <1>1, ScalarsNested
      <3> QED
        BY <1>1, <3>1 DEF Decodes
    <2> QED
      BY <1>1, <2>1 DEF Keeps
  <1>2. ASSUME NEW v \in JSON
        PROVE  c[v] = Convert(v, a, f) /\ (v \in t <=> IsOf(v, a, g))
    BY DEF Converted, Members
  <1>3. Scalars \subseteq JSON
    BY ScalarsNested, ArgumentsAssumption DEF JSON
  <1>4. CASE base = "any"
    <2>1. ASSUME NEW v \in JSON
          PROVE  c[v] = {v} /\ v \in t
      BY <1>2, <1>4 DEF Convert, IsOf
    <2> QED
      BY <1>1, <2>1
  <1>5. CASE base = "none"
    <2>1. ASSUME NEW v \in JSON
          PROVE  c[v] = (IF v.type = "null" THEN {v} ELSE {}) /\ (v \in t <=> v.type = "null")
      BY <1>2, <1>5 DEF Convert, IsOf, If
    <2>2. \A v \in JSON : sound(v)
      BY ONLY <2>1
    <2> QED
      BY <1>1, <2>2
  <1>6. CASE base = "literal"
    <2>1. ASSUME NEW v \in JSON
          PROVE  c[v] = (IF v \in a.literals THEN {v} ELSE {}) /\ (v \in t <=> v \in a.literals)
      BY <1>2, <1>6 DEF Convert, IsOf, CoerceLiteral, If
    <2>2. \A v \in JSON : sound(v)
      BY ONLY <2>1
    <2> QED
      BY <1>1, <2>2
  <1>7. CASE base = "str"
    <2>1. ASSUME NEW v \in JSON
          PROVE  c[v] = (IF v.type = "str" THEN {v} ELSE {}) /\ (v \in t <=> v.type = "str")
      BY <1>2, <1>7 DEF Convert, IsOf, If
    <2>2. \A v \in JSON : sound(v)
      BY ONLY <2>1
    <2> QED
      BY <1>1, <2>2
  \* The other three give a scalar of their own type, and leave one that is.
  <1>8. ASSUME NEW own,
               \A v \in JSON : /\ c[v] \subseteq {r \in Scalars : r.type = own}
                               /\ \A r, s \in c[v] : r = s
                               /\ v.type = own => c[v] = {v}
                               /\ v \in t <=> v.type = own,
               own # "null"
        PROVE  \A v \in JSON : sound(v)
    BY <1>3, <1>8
  <1>9. CASE base = "int"
    <2>1. ASSUME NEW v \in JSON
          PROVE  c[v] = CoerceInt(v) /\ (v \in t <=> v.type = "int")
      BY <1>2, <1>9 DEF Convert, IsOf
    <2>2. ASSUME NEW v \in JSON
          PROVE  /\ CoerceInt(v) \subseteq {r \in Scalars : r.type = "int"}
                 /\ \A r, s \in CoerceInt(v) : r = s
                 /\ v.type = "int" => CoerceInt(v) = {v}
      <3>1. \A n \in Int : Num(n).type = "int" /\ Num(n) \in Scalars
        BY ScalarsMade DEF Num, Value
      <3>2. CASE v.type = "int"
        BY ONLY <3>2, TypeIs, v \in JSON DEF CoerceInt
      <3>3. CASE v.type = "bool"
        <4>1. CoerceInt(v) = {Num(v.num)} /\ v.num \in Int
          BY ONLY <3>3, TypeIs, ScalarIs, v \in JSON DEF CoerceInt
        <4> QED
          BY ONLY <3>1, <3>3, <4>1
      <3>4. CASE v.type = "float"
        <4>1. CoerceInt(v) \in {{}, {Num(v.num \div 2)}} /\ v.num \in Int
          BY ONLY <3>4, TypeIs, ScalarIs, v \in JSON DEF CoerceInt, If
        <4>2. v.num \div 2 \in Int
          BY ONLY <4>1
        <4> QED
          BY ONLY <3>1, <3>4, <4>1, <4>2
      <3>5. CASE v.type = "str"
        <4>1. CoerceInt(v) = If(IntOf[v.text] # Nothing, Num(IntOf[v.text]))
          BY ONLY <3>5 DEF CoerceInt
        <4>2. v.text \in DOMAIN IntOf
          BY ONLY <3>5, TypeIs, ScalarIs, v \in JSON
        <4>3. IntOf[v.text] # Nothing => IntOf[v.text] \in Int
          BY ONLY <4>2, ArgumentsAssumption
        <4> QED
          BY ONLY <3>1, <3>5, <4>1, <4>3 DEF If
      <3>6. CASE v.type \notin {"int", "bool", "float", "str"}
        BY ONLY <3>6 DEF CoerceInt
      <3> QED
        BY <3>2, <3>3, <3>4, <3>5, <3>6
    <2> HIDE DEF sound
    <2>3. PICK own : own = "int" /\ own # "null"
      OBVIOUS
    <2>4. \A v \in JSON : /\ c[v] \subseteq {r \in Scalars : r.type = own}
                          /\ \A r, s \in c[v] : r = s
                          /\ v.type = own => c[v] = {v}
                          /\ v \in t <=> v.type = own
      BY ONLY <2>1, <2>2, <2>3
    <2>5. \A v \in JSON : sound(v)
      BY ONLY <1>8, <2>3, <2>4
    <2> QED
      BY <1>1, <2>5
  <1>10. CASE base = "float"
    <2>1. ASSUME NEW v \in JSON
          PROVE  c[v] = CoerceFloat(v) /\ (v \in t <=> v.type = "float")
      BY <1>2, <1>10 DEF Convert, IsOf
    <2>2. ASSUME NEW v \in JSON
          PROVE  /\ CoerceFloat(v) \subseteq {r \in Scalars : r.type = "float"}
                 /\ \A r, s \in CoerceFloat(v) : r = s
                 /\ v.type = "float" => CoerceFloat(v) = {v}
      <3>1. \A n \in Int : Float(n).type = "float" /\ Float(n) \in Scalars
        BY ScalarsMade DEF Float, Value
      <3>2. CASE v.type = "float"
        BY ONLY <3>2, TypeIs, v \in JSON DEF CoerceFloat
      <3>3. CASE v.type \in {"bool", "int"}
        <4>1. CoerceFloat(v) = {Float(2 * v.num)} /\ v.num \in Int
          BY ONLY <3>3, TypeIs, ScalarIs, v \in JSON DEF CoerceFloat
        <4>2. 2 * v.num \in Int
          BY ONLY <4>1
        <4> QED
          BY ONLY <3>1, <3>3, <4>1, <4>2
      <3>5. CASE v.type = "str"
        <4>1. CoerceFloat(v) = If(HalfOf[v.text] # Nothing, Float(HalfOf[v.text]))
          BY ONLY <3>5 DEF CoerceFloat
        <4>2. v.text \in DOMAIN IntOf
          BY ONLY <3>5, TypeIs, ScalarIs, v \in JSON
        <4>3. HalfOf[v.text] # Nothing => HalfOf[v.text] \in Int
          BY ONLY <4>2, ArgumentsAssumption
        <4> QED
          BY ONLY <3>1, <3>5, <4>1, <4>3 DEF If
      <3>6. CASE v.type \notin {"int", "bool", "float", "str"}
        BY ONLY <3>6 DEF CoerceFloat
      <3> QED
        BY <3>2, <3>3, <3>5, <3>6
    <2> HIDE DEF sound
    <2>3. PICK own : own = "float" /\ own # "null"
      OBVIOUS
    <2>4. \A v \in JSON : /\ c[v] \subseteq {r \in Scalars : r.type = own}
                          /\ \A r, s \in c[v] : r = s
                          /\ v.type = own => c[v] = {v}
                          /\ v \in t <=> v.type = own
      BY ONLY <2>1, <2>2, <2>3
    <2>5. \A v \in JSON : sound(v)
      BY ONLY <1>8, <2>3, <2>4
    <2> QED
      BY <1>1, <2>5
  <1>11. CASE base = "bool"
    <2>1. ASSUME NEW v \in JSON
          PROVE  c[v] = CoerceBool(v) /\ (v \in t <=> v.type = "bool")
      BY <1>2, <1>11 DEF Convert, IsOf
    <2>2. ASSUME NEW v \in JSON
          PROVE  /\ CoerceBool(v) \subseteq {r \in Scalars : r.type = "bool"}
                 /\ \A r, s \in CoerceBool(v) : r = s
                 /\ v.type = "bool" => CoerceBool(v) = {v}
      <3>1. \A b \in BOOLEAN : Bool(b).type = "bool" /\ Bool(b) \in Scalars
        BY ScalarsMade DEF Bool, Value
      <3>2. CASE v.type = "bool"
        BY ONLY <3>2, TypeIs, v \in JSON DEF CoerceBool
      <3>3. CASE v.type = "int"
        <4>1. CoerceBool(v) \in {{}, {Bool(v.num = 1)}} /\ (v.num = 1) \in BOOLEAN
          BY ONLY <3>3 DEF CoerceBool, If
        <4> QED
          BY ONLY <3>1, <3>3, <4>1
      <3>4. CASE v.type = "float"
        <4>1. CoerceBool(v) \in {{}, {Bool(v.num = 2)}} /\ (v.num = 2) \in BOOLEAN
          BY ONLY <3>4 DEF CoerceBool, If
        <4> QED
          BY ONLY <3>1, <3>4, <4>1
      <3>5. CASE v.type = "str"
        <4>1. CoerceBool(v) \in {{}, {Bool(WordOf[v.text] = "true")}}
          BY ONLY <3>5 DEF CoerceBool, If
        <4>2. (WordOf[v.text] = "true") \in BOOLEAN
          OBVIOUS
        <4> QED
          BY ONLY <3>1, <3>5, <4>1, <4>2
      <3>6. CASE v.type \notin {"int", "bool", "float", "str"}
        BY ONLY <3>6 DEF CoerceBool
      <3> QED
        BY <3>2, <3>3, <3>4, <3>5, <3>6
    <2> HIDE DEF sound
    <2>3. PICK own : own = "bool" /\ own # "null"
      OBVIOUS
    <2>4. \A v \in JSON : /\ c[v] \subseteq {r \in Scalars : r.type = own}
                          /\ \A r, s \in c[v] : r = s
                          /\ v.type = own => c[v] = {v}
                          /\ v \in t <=> v.type = own
      BY ONLY <2>1, <2>2, <2>3
    <2>5. \A v \in JSON : sound(v)
      BY ONLY <1>8, <2>3, <2>4
    <2> QED
      BY <1>1, <2>5
  <1> QED
    BY <1>4, <1>5, <1>6, <1>7, <1>9, <1>10, <1>11

-----------------------------------------------------------------------------
\* Bounds: a value that was within them still is after a second decoding.
LEMMA AnnotatedDecodes ==
  ASSUME NEW a, NEW f, NEW g, NEW c, NEW t,
         c = Converted(a, f), t = Members(a, g),
         a.base = "annotated", Decodes(f[a.args[1]], g[a.args[1]])
  PROVE  Decodes(c, t) /\ (Keeps(f[a.args[1]], g[a.args[1]]) => Keeps(c, t))
  <1> DEFINE d == f[a.args[1]]
             u == g[a.args[1]]
  <1>1. ASSUME NEW v \in JSON
        PROVE  c[v] = {x \in d[v] : InBounds(x, a)} /\ (v \in t <=> v \in u /\ InBounds(v, a))
    BY DEF Converted, Members, Convert, IsOf
  <1>2. \A v \in JSON : d[v] \subseteq JSON
    BY ArgumentsAssumption, 0..Nesting # {} DEF Decodes, JSON
  <1> HIDE DEF d, u
  <1>3. Decodes(d, u)
    BY DEF d, u
  <1>4. ASSUME NEW v \in JSON, NEW r \in c[v]
        PROVE  r \in t /\ c[r] = {r} /\ (r.type = "null" => v.type = "null")
    <2>1. r \in d[v] /\ InBounds(r, a) /\ r \in JSON
      BY <1>1, <1>2, <1>4
    <2>2. r \in u /\ d[r] = {r} /\ (r.type = "null" => v.type = "null")
      BY <1>3, <2>1, v \in JSON DEF Decodes
    <2> QED
      BY <1>1, <2>1, <2>2
  <1>5. ASSUME NEW v \in JSON
        PROVE  /\ \A k \in 0..Nesting : v \in Nested[k] => c[v] \subseteq Nested[k]
               /\ \A r, s \in c[v] : r = s
    <2>1. c[v] \subseteq d[v]
      BY <1>1
    <2> QED
      BY <1>3, <2>1 DEF Decodes
  <1>6. Decodes(c, t)
    BY <1>4, <1>5 DEF Decodes
  <1>7. Keeps(d, u) => Keeps(c, t)
    BY <1>1 DEF Keeps
  <1> QED
    BY <1>6, <1>7 DEF d, u

\* A union: the member that took a value takes it again, as none before it does.
LEMMA UnionDecodes ==
  ASSUME NEW a, NEW f, NEW g, NEW c, NEW t,
         c = Converted(a, f), t = Members(a, g),
         NEW W, NEW S, Sound(W, S, f, g), a.base = "union", UnionSettled(a), a.args \in Seq(W)
  PROVE  Decodes(c, t)
  <1>0. /\ \A b \in W : Decodes(f[b], g[b])
        /\ \A b \in W : b.base = "str" => \A v \in JSON : f[b][v] \subseteq {v}
        /\ \A b \in W : b.base = "none" => \A v \in JSON : v \in g[b] <=> v.type = "null"
    BY DEF Sound
  <1> DEFINE takes(v, n) == n \in Concrete(a) /\ f[a.args[n]][v] # {}
  <1>1. ASSUME NEW n \in DOMAIN a.args
        PROVE  a.args[n] \in W
    OBVIOUS
  <1>2. DOMAIN a.args \subseteq Nat
    OBVIOUS
  <1>3. ASSUME NEW v \in JSON
        PROVE  c[v] = CoerceUnion(v, a, f) /\ (v \in t <=> \E n \in DOMAIN a.args : v \in g[a.args[n]])
    BY DEF Converted, Members, Convert, IsOf
  <1>4. Concrete(a) \subseteq DOMAIN a.args
    BY DEF Concrete
  \* null is null, and any other value is what the first member that takes it makes of it.
  <1>5. ASSUME NEW v \in JSON, v.type = "null", NEW r \in c[v]
        PROVE  r = v /\ c[v] = {v} /\ v \in t
    <2>1. c[v] = If(Concrete(a) # DOMAIN a.args, v)
      BY <1>3, <1>5 DEF CoerceUnion
    <2>2. PICK n \in DOMAIN a.args : a.args[n].base = "none"
      BY <1>4, <1>5, <2>1 DEF If, Concrete
    <2>3. v \in g[a.args[n]]
      BY <1>0, <1>1, <1>5, <2>2
    <2> QED
      BY <1>3, <1>5, <2>1, <2>3 DEF If
  <1>6. ASSUME NEW v \in JSON, v.type # "null", NEW k, takes(v, k), \A m : takes(v, m) => k <= m
        PROVE  c[v] = f[a.args[k]][v]
    <2> DEFINE takers == {n \in Concrete(a) : f[a.args[n]][v] # {}}
    <2>1. c[v] = UNION {f[a.args[n]][v] : n \in {m \in takers : \A l \in takers : m <= l}}
      BY <1>3, <1>6 DEF CoerceUnion
    <2>2. {m \in takers : \A l \in takers : m <= l} = {k}
      <3>1. k \in takers /\ takers \subseteq Nat
        BY <1>2, <1>4, <1>6
      <3>2. \A m \in takers : k <= m
        BY <1>6
      <3>3. \A m \in takers : (m <= k => m = k) /\ k <= m
        <4> HIDE DEF takers
        <4> QED
          BY ONLY <3>1, <3>2
      <3> HIDE DEF takers
      <3> QED
        BY ONLY <3>1, <3>3, Zenon
    <2> DEFINE firsts == {m \in takers : \A l \in takers : m <= l}
    <2>3. UNION {f[a.args[n]][v] : n \in firsts} = f[a.args[k]][v]
      <3>1. firsts = {k}
        BY ONLY <2>2
      <3> HIDE DEF firsts
      <3> QED
        BY ONLY <3>1
    <2> QED
      BY ONLY <2>1, <2>3
  <1>7. ASSUME NEW v \in JSON, v.type # "null", c[v] # {}
        PROVE  \E k : takes(v, k) /\ (\A m : takes(v, m) => k <= m) /\ c[v] = f[a.args[k]][v]
    <2> DEFINE takers == {n \in Concrete(a) : f[a.args[n]][v] # {}}
    <2>1. c[v] = UNION {f[a.args[n]][v] : n \in {m \in takers : \A l \in takers : m <= l}}
      BY <1>3, <1>7 DEF CoerceUnion
    <2>2. PICK k \in takers : \A m \in takers : k <= m
      <3> HIDE DEF takers
      <3> QED
        BY <1>7, <2>1
    <2>3. takes(v, k) /\ \A m : takes(v, m) => k <= m
      BY <2>2
    <2>4. c[v] = f[a.args[k]][v]
      BY <1>6, <1>7, <2>3
    <2> QED
      BY <2>3, <2>4
  <1> HIDE DEF takes
  <1>8. ASSUME NEW v \in JSON, v.type # "null", NEW r \in c[v]
        PROVE  /\ \A k \in 0..Nesting : v \in Nested[k] => c[v] \subseteq Nested[k]
               /\ \A s \in c[v] : r = s
               /\ r \in t /\ c[r] = {r} /\ r.type # "null"
    <2>1. PICK k : takes(v, k) /\ (\A m : takes(v, m) => k <= m) /\ c[v] = f[a.args[k]][v]
      BY <1>7, <1>8
    <2> DEFINE b == a.args[k]
    <2>2. k \in Concrete(a) /\ k \in DOMAIN a.args /\ b \in W
      BY <1>1, <1>4, <2>1 DEF takes
    <2>3. Decodes(f[b], g[b])
      BY <1>0, <2>2
    <2> HIDE DEF b
    <2>4. r \in f[b][v] /\ c[v] = f[b][v]
      BY <1>8, <2>1 DEF b
    <2>5. /\ \A j \in 0..Nesting : v \in Nested[j] => c[v] \subseteq Nested[j]
          /\ \A s \in c[v] : r = s
      BY <2>3, <2>4, v \in JSON DEF Decodes
    <2>6. r \in g[b] /\ f[b][r] = {r} /\ r.type # "null"
      BY <1>8, <2>3, <2>4, v \in JSON DEF Decodes
    <2>7. r \in JSON
      BY <2>4, <2>5, ArgumentsAssumption, Nesting \in 0..Nesting DEF JSON
    <2>8. r \in t
      BY <1>3, <2>2, <2>6, <2>7 DEF b
    <2>9. takes(r, k)
      BY <2>2, <2>6 DEF takes, b
    <2>10. ASSUME NEW m, takes(r, m)
           PROVE  k <= m
      <3>1. m \in Concrete(a) /\ m \in Nat /\ k \in Nat
        BY <1>2, <1>4, <2>2, <2>10 DEF takes
      <3>2. SUFFICES ASSUME m < k
                     PROVE  FALSE
        BY <3>1
      <3>3. b.base = "str"
        BY <2>2, <3>1, <3>2 DEF UnionSettled, b
      <3>4. f[b][v] \subseteq {v}
        BY <1>0, <2>2, <3>3
      <3>5. r = v
        BY <2>4, <3>4
      <3>6. k <= m
        BY <2>1, <2>10, <3>5
      <3> QED
        BY <3>1, <3>2, <3>6
    <2>11. c[r] = {r}
      <3>1. c[r] = f[a.args[k]][r]
        BY <1>6, <2>6, <2>7, <2>9, <2>10
      <3> QED
        BY <2>6, <3>1 DEF b
    <2> QED
      BY <2>5, <2>6, <2>8, <2>11
  <1>9. ASSUME NEW v \in JSON
        PROVE  /\ \A k \in 0..Nesting : v \in Nested[k] => c[v] \subseteq Nested[k]
               /\ \A r, s \in c[v] : r = s
               /\ \A r \in c[v] : r \in t /\ c[r] = {r} /\ (r.type = "null" => v.type = "null")
    <2>1. CASE v.type = "null"
      <3>1. \A r \in c[v] : r = v /\ c[v] = {v} /\ v \in t
        BY <1>5, <2>1
      <3> QED
        BY <2>1, <3>1
    <2>2. CASE v.type # "null"
      BY <1>8, <2>2
    <2> QED
      BY <2>1, <2>2
  <1> QED
    BY <1>9 DEF Decodes

\* With one member besides None, a union leaves its values as they are.
LEMMA UnionKeeps ==
  ASSUME NEW a, NEW f, NEW g, NEW c, NEW t,
         c = Converted(a, f), t = Members(a, g),
         NEW W, NEW S, Sound(W, S, f, g), a.base = "union", UnionSettled(a), a.args \in Seq(S),
         \A m, n \in Concrete(a) : m = n
  PROVE  Keeps(c, t)
  <1>0. /\ \A b \in S : Keeps(f[b], g[b])
        /\ \A b \in S : b.base = "none" => \A v \in JSON : v \in g[b] <=> v.type = "null"
    BY DEF Sound
  <1> SUFFICES ASSUME NEW v \in JSON, v \in t
               PROVE  c[v] = {v}
    BY DEF Keeps
  <1>1. c[v] = CoerceUnion(v, a, f)
    BY DEF Converted, Convert
  <1>2. PICK n \in DOMAIN a.args : v \in g[a.args[n]]
    BY DEF Members, IsOf
  <1>3. CASE v.type = "null"
    <2>1. Concrete(a) # DOMAIN a.args
      <3>1. 1 \in DOMAIN a.args /\ 2 \in DOMAIN a.args /\ 1 # 2
        BY DEF UnionSettled
      <3> QED
        BY <3>1
    <2> QED
      BY <1>1, <1>3, <2>1 DEF CoerceUnion, If
  <1>4. CASE v.type # "null"
    <2>1. a.args[n] \in S
      OBVIOUS
    <2>2. n \in Concrete(a)
      BY <1>0, <1>2, <1>4, <2>1 DEF Concrete
    <2>3. f[a.args[n]][v] = {v}
      BY <1>0, <1>2, <2>1 DEF Keeps
    <2> DEFINE takers == {m \in Concrete(a) : f[a.args[m]][v] # {}}
               firsts == {m \in takers : \A l \in takers : m <= l}
    <2>4. takers = {n}
      BY <2>2, <2>3
    <2>5. firsts = {n}
      <3>1. n <= n
        BY n \in DOMAIN a.args, DOMAIN a.args \subseteq Nat
      <3> HIDE DEF takers
      <3> QED
        BY ONLY <2>4, <3>1
    <2>6. c[v] = UNION {f[a.args[m]][v] : m \in firsts}
      BY ONLY <1>1, <1>4 DEF CoerceUnion
    <2> HIDE DEF firsts
    <2>7. UNION {f[a.args[m]][v] : m \in firsts} = f[a.args[n]][v]
      BY ONLY <2>5
    <2> QED
      BY ONLY <2>3, <2>6, <2>7
  <1> QED
    BY <1>3, <1>4

\* The values in lists are nested less deep.
LEMMA ListItems ==
  ASSUME NEW k \in 0..Nesting, NEW v \in Nested[k], v.type = "list"
  PROVE  \E S : /\ v \in Lists(S) /\ v.items \in Seq(S) /\ Lists(S) \subseteq Nested[k]
                /\ S = {} \/ \E j \in 0..Nesting : S = Nested[j]
  <1>1. k \in Nat /\ (k # 0 => k - 1 \in 0..Nesting)
    BY ArgumentsAssumption
  <1> DEFINE S == IF k = 0 THEN {} ELSE Nested[k - 1]
  <1>2. Nested[k] = Scalars \cup Lists(S)
    BY <1>1, NestedIs
  <1>3. S = {} \/ \E j \in 0..Nesting : S = Nested[j]
    BY <1>1
  <1> HIDE DEF S
  <1>4. v \in Lists(S)
    BY <1>2, ScalarIs
  <1> QED
    BY <1>2, <1>3, <1>4, ListIs

\* A list is decoded item by item.
LEMMA ListDecodes ==
  ASSUME NEW a, NEW f, NEW g, NEW c, NEW t,
         c = Converted(a, f), t = Members(a, g),
         a.base = "list", Decodes(f[a.args[1]], g[a.args[1]])
  PROVE  Decodes(c, t) /\ (Keeps(f[a.args[1]], g[a.args[1]]) => Keeps(c, t))
  <1> DEFINE d == f[a.args[1]]
             u == g[a.args[1]]
             items(v) == [n \in DOMAIN v.items |-> d[v.items[n]]]
             made(v) == [n \in DOMAIN v.items |-> CHOOSE x \in d[v.items[n]] : TRUE]
             taken(v) == v.type = "list" /\ \A n \in DOMAIN v.items : d[v.items[n]] # {}
  <1>1. ASSUME NEW v \in JSON
        PROVE  c[v] = CoerceList(v, a, f)
               /\ (v \in t <=> v.type = "list" /\ \A n \in DOMAIN v.items : v.items[n] \in u)
    BY DEF Converted, Members, Convert, IsOf
  <1> HIDE DEF d, u
  <1>2. ASSUME NEW v \in JSON
        PROVE  c[v] = If(taken(v), [v EXCEPT !.items = made(v)])
    <2> DEFINE sets == [n \in DOMAIN v.items |-> d[v.items[n]]]
    <2>1. c[v] = If(v.type = "list" /\ \A n \in DOMAIN v.items : sets[n] # {},
                    [v EXCEPT !.items = [n \in DOMAIN v.items |-> CHOOSE x \in sets[n] : TRUE]])
      BY <1>1 DEF CoerceList, d
    <2>2. \A n \in DOMAIN v.items : sets[n] = d[v.items[n]]
      OBVIOUS
    <2>3. [n \in DOMAIN v.items |-> CHOOSE x \in sets[n] : TRUE] = made(v)
      BY <2>2
    <2>4. (\A n \in DOMAIN v.items : sets[n] # {}) <=> \A n \in DOMAIN v.items : d[v.items[n]] # {}
      BY <2>2
    <2> HIDE DEF sets, made
    <2> QED
      BY ONLY <2>1, <2>3, <2>4 DEF If
  <1>3. Decodes(d, u)
    BY DEF d, u
  <1> HIDE DEF items
  <1>4. ASSUME NEW v \in JSON, taken(v), NEW k \in 0..Nesting, v \in Nested[k]
        PROVE  /\ v.items \in Seq(JSON)
               /\ [v EXCEPT !.items = made(v)] \in Nested[k]
               /\ \A n \in DOMAIN v.items : d[v.items[n]] = {made(v)[n]}
    <2>1. PICK S : /\ v \in Lists(S) /\ v.items \in Seq(S) /\ Lists(S) \subseteq Nested[k]
                   /\ S = {} \/ \E j \in 0..Nesting : S = Nested[j]
      BY <1>4, ListItems
    <2>2. S \subseteq JSON
      BY <2>1, NestedJSON
    <2>3. v.items \in Seq(JSON) /\ \A n \in DOMAIN v.items : v.items[n] \in S
      BY <2>1, <2>2
    <2>4. ASSUME NEW n \in DOMAIN v.items
          PROVE  d[v.items[n]] = {made(v)[n]} /\ made(v)[n] \in S
      <3> DEFINE y == v.items[n]
      <3>1. y \in S /\ y \in JSON
        BY <2>2, <2>3
      <3>2. made(v)[n] = CHOOSE x \in d[y] : TRUE
        OBVIOUS
      <3>3. d[y] # {}
        BY <1>4
      <3> HIDE DEF y, made
      <3>4. made(v)[n] \in d[y]
        BY <3>2, <3>3
      <3>5. d[y] = {made(v)[n]}
        BY <1>3, <3>1, <3>4 DEF Decodes
      <3>6. d[y] \subseteq S
        BY <1>3, <2>1, <3>1 DEF Decodes
      <3> QED
        BY <3>4, <3>5, <3>6 DEF y
    <2>5. made(v) \in Seq(S)
      <3>1. DOMAIN v.items = 1..Len(v.items) /\ Len(v.items) \in Nat
        BY <2>1
      <3>2. made(v) = [n \in 1..Len(v.items) |-> made(v)[n]]
        BY <3>1
      <3> HIDE DEF made
      <3>3. \A n \in 1..Len(v.items) : made(v)[n] \in S
        BY <2>4, <3>1
      <3> QED
        BY ONLY <3>1, <3>2, <3>3
    <2> HIDE DEF made
    <2>6. [v EXCEPT !.items = made(v)] \in Lists(S)
      BY <2>1, <2>5, ListIs
    <2> QED
      BY <2>1, <2>3, <2>4, <2>6
  <1>5. ASSUME NEW v \in JSON, NEW r \in c[v]
        PROVE  r = [v EXCEPT !.items = made(v)] /\ taken(v)
    BY <1>2, <1>5 DEF If
  <1>6. ASSUME NEW v \in JSON, NEW r \in c[v]
        PROVE  /\ \A k \in 0..Nesting : v \in Nested[k] => r \in Nested[k]
               /\ r \in t /\ c[r] = {r} /\ (r.type = "null" => v.type = "null")
    <2>1. r = [v EXCEPT !.items = made(v)] /\ taken(v)
      BY <1>5, <1>6
    <2>2. \A k \in 0..Nesting : v \in Nested[k] => r \in Nested[k]
      BY <1>4, <2>1
    <2>3. v \in Nested[Nesting] /\ Nesting \in 0..Nesting
      BY JSONIs
    <2>4. r \in JSON
      BY <2>2, <2>3 DEF JSON
    <2>5. v.items \in Seq(JSON) /\ \A n \in DOMAIN v.items : d[v.items[n]] = {made(v)[n]}
      BY <1>4, <2>1, <2>3
    <2>6. v.type = "list" /\ \A n \in DOMAIN v.items : v.items[n] \in JSON
      BY <2>1, <2>5
    <2>7. r.type = "list" /\ r.items = made(v) /\ DOMAIN r.items = DOMAIN v.items
      <3>1. v.type = "list" /\ \E S : v \in Lists(S)
        BY <2>3, <2>6, ListItems
      <3>2. PICK S : v \in Lists(S)
        BY <3>1
      <3>3. r.type = v.type /\ r.items = made(v)
        <4> HIDE DEF made, taken
        <4> QED
          BY ONLY <2>1, <3>2 DEF Lists
      <3> QED
        BY <2>6, <3>3
    <2>8. ASSUME NEW n \in DOMAIN r.items
          PROVE  r.items[n] \in u /\ d[r.items[n]] = {r.items[n]}
      <3>1. n \in DOMAIN v.items /\ r.items[n] = made(v)[n]
        BY <2>7
      <3> HIDE DEF made, taken
      <3>2. r.items[n] \in d[v.items[n]] /\ v.items[n] \in JSON
        BY <2>5, <2>6, <3>1
      <3> QED
        BY <1>3, <3>2 DEF Decodes
    <2>9. r \in t
      BY <1>1, <2>4, <2>7, <2>8
    <2>10. c[r] = {r}
      <3>1. taken(r)
        BY <2>7, <2>8
      <3>2. made(r) = r.items
        <4>1. \A n \in DOMAIN r.items : (CHOOSE x \in d[r.items[n]] : TRUE) = r.items[n]
          BY <2>8
        <4>2. r.items = [n \in DOMAIN r.items |-> r.items[n]]
          <5>1. made(v) = [n \in DOMAIN v.items |-> made(v)[n]]
            OBVIOUS
          <5> HIDE DEF made
          <5> QED
            BY ONLY <2>7, <5>1
        <4> QED
          BY <4>1, <4>2
      <3>3. [r EXCEPT !.items = r.items] = r
        <4>1. PICK S : r \in Lists(S)
          BY <2>3, <2>7, <2>4, ListItems DEF JSON
        <4> QED
          BY ONLY <4>1 DEF Lists
      <3> HIDE DEF made, taken
      <3> QED
        BY <1>2, <2>4, <3>1, <3>2, <3>3 DEF If
    <2> QED
      BY <2>2, <2>6, <2>7, <2>9, <2>10
  <1>7. Decodes(c, t)
    <2>1. ASSUME NEW v \in JSON, NEW r \in c[v], NEW s \in c[v]
          PROVE  r = s
      <3> HIDE DEF made, taken
      <3> QED
        BY <1>5, <2>1
    <2> HIDE DEF made, taken
    <2> QED
      BY <1>6, <2>1 DEF Decodes
  <1>8. ASSUME Keeps(d, u), NEW v \in JSON, v \in t
        PROVE  c[v] = {v}
    <2>1. v.type = "list" /\ \A n \in DOMAIN v.items : v.items[n] \in u
      BY <1>1, <1>8
    <2>2. v \in Nested[Nesting] /\ Nesting \in 0..Nesting
      BY JSONIs
    <2>3. PICK S : /\ v \in Lists(S) /\ v.items \in Seq(S)
                   /\ S = {} \/ \E j \in 0..Nesting : S = Nested[j]
      BY <2>1, <2>2, ListItems
    <2>4. \A n \in DOMAIN v.items : v.items[n] \in JSON
      BY <2>3, NestedJSON
    <2>5. \A n \in DOMAIN v.items : d[v.items[n]] = {v.items[n]}
      BY <1>8, <2>1, <2>4 DEF Keeps
    <2>6. taken(v)
      BY <2>1, <2>5
    <2>7. made(v) = v.items
      <3>1. \A n \in DOMAIN v.items : (CHOOSE x \in d[v.items[n]] : TRUE) = v.items[n]
        BY <2>5
      <3>2. v.items = [n \in DOMAIN v.items |-> v.items[n]]
        BY <2>3
      <3> QED
        BY <3>1, <3>2
    <2>8. [v EXCEPT !.items = v.items] = v
      BY ONLY <2>3 DEF Lists
    <2> HIDE DEF made, taken
    <2> QED
      BY <1>2, <2>6, <2>7, <2>8 DEF If
  <1>9. Keeps(d, u) => Keeps(c, t)
    BY <1>8 DEF Keeps
  <1> QED
    BY <1>7, <1>9 DEF d, u

-----------------------------------------------------------------------------
\* A type decodes as it should if the types within do: one case for each kind of type.
LEMMA TypeDecodes ==
  ASSUME NEW f, NEW g, NEW W, NEW S, Sound(W, S, f, g), NEW a \in TypesOver(TRUE, W)
  PROVE  /\ Decodes(Converted(a, f), Members(a, g))
         /\ a \in TypesOver(FALSE, S) => Keeps(Converted(a, f), Members(a, g))
         /\ a.base = "str" => \A v \in JSON : Converted(a, f)[v] \subseteq {v}
         /\ a.base = "none" => \A v \in JSON : v \in Members(a, g) <=> v.type = "null"
  <1>0. PICK c, t : c = Converted(a, f) /\ t = Members(a, g)
    OBVIOUS
  <1>1. /\ a.base \in {"annotated", "any", "none", "literal", "union", "list", "bool", "int", "float", "str"}
        /\ a.args \in Seq(W) /\ a.literals \subseteq Scalars
        /\ a.base \in {"annotated", "list"} => Len(a.args) = 1
        /\ a.base = "union" => UnionSettled(a)
    BY DEF TypesOver
  <1>2. ASSUME a \in TypesOver(FALSE, S)
        PROVE  a.args \in Seq(S) /\ (a.base = "union" => \A m, n \in Concrete(a) : m = n)
    BY <1>2 DEF TypesOver
  <1>3. a.base = "str" => \A v \in JSON : c[v] \subseteq {v}
    BY <1>0 DEF Converted, Convert, If
  <1>4. a.base = "none" => \A v \in JSON : v \in t <=> v.type = "null"
    BY <1>0 DEF Members, IsOf
  <1>5. CASE a.base \in {"annotated", "list"}
    <2>1. 1 \in DOMAIN a.args /\ a.args[1] \in W
      BY <1>1, <1>5
    <2>2. Decodes(f[a.args[1]], g[a.args[1]])
      BY <2>1 DEF Sound
    <2>3. Decodes(c, t) /\ (Keeps(f[a.args[1]], g[a.args[1]]) => Keeps(c, t))
      <3>1. CASE a.base = "annotated"
        BY <1>0, <2>2, <3>1, AnnotatedDecodes
      <3>2. CASE a.base = "list"
        BY <1>0, <2>2, <3>2, ListDecodes
      <3> QED
        BY <1>5, <3>1, <3>2
    <2>4. a \in TypesOver(FALSE, S) => Keeps(f[a.args[1]], g[a.args[1]])
      <3>1. a \in TypesOver(FALSE, S) => a.args[1] \in S
        BY <1>2, <2>1
      <3> QED
        BY <3>1 DEF Sound
    <2> QED
      BY <1>0, <1>3, <1>4, <2>3, <2>4
  <1>6. CASE a.base = "union"
    <2>1. Decodes(c, t)
      BY <1>0, <1>1, <1>6, UnionDecodes
    <2>2. a \in TypesOver(FALSE, S) => Keeps(c, t)
      BY <1>0, <1>1, <1>2, <1>6, UnionKeeps
    <2> QED
      BY <1>0, <1>3, <1>4, <2>1, <2>2
  <1>7. CASE a.base \notin {"annotated", "list", "union"}
    <2>1. PICK base : base = a.base
      OBVIOUS
    <2>2. base \in {"any", "none", "literal", "bool", "int", "float", "str"}
      BY <1>1, <1>7, <2>1
    <2>3. Decodes(c, t) /\ Keeps(c, t)
      BY <1>0, <1>1, <2>1, <2>2, SimpleDecodes
    <2> QED
      BY <1>0, <1>3, <1>4, <2>3
  <1> QED
    BY <1>5, <1>6, <1>7

\* So all types do, by induction on their level.
LEMMA AllDecode ==
  \A n \in Nat : Sound(Declared(TRUE)[n], Declared(FALSE)[n], Coercions[n], ValuesOf[n])
  <1> DEFINE W(n) == Declared(TRUE)[n]
             S(n) == Declared(FALSE)[n]
             T == {n \in Nat : Sound(W(n), S(n), Coercions[n], ValuesOf[n])}
  \* One level more.
  <1>1. ASSUME NEW n \in Nat, NEW V, NEW U, NEW f, NEW g, Sound(V, U, f, g),
               W(n) = TypesOver(TRUE, V), S(n) = TypesOver(FALSE, U),
               Coercions[n] = [a \in W(n) |-> Converted(a, f)],
               ValuesOf[n] = [a \in W(n) |-> Members(a, g)]
        PROVE  n \in T
    <2> DEFINE c(a) == Coercions[n][a]
               t(a) == ValuesOf[n][a]
    <2>1. ASSUME NEW a \in W(n)
          PROVE  /\ Decodes(c(a), t(a))
                 /\ a \in S(n) => Keeps(c(a), t(a))
                 /\ a.base = "str" => \A v \in JSON : c(a)[v] \subseteq {v}
                 /\ a.base = "none" => \A v \in JSON : v \in t(a) <=> v.type = "null"
      <3>1. c(a) = Converted(a, f) /\ t(a) = Members(a, g)
        BY <1>1
      <3>2. a \in TypesOver(TRUE, V)
        BY <1>1
      <3>3. Sound(V, U, f, g)
        BY <1>1
      <3>4. S(n) = TypesOver(FALSE, U)
        BY <1>1
      <3> HIDE DEF c, t, W, S
      <3>5. /\ Decodes(Converted(a, f), Members(a, g))
            /\ a \in TypesOver(FALSE, U) => Keeps(Converted(a, f), Members(a, g))
            /\ a.base = "str" => \A v \in JSON : Converted(a, f)[v] \subseteq {v}
            /\ a.base = "none" => \A v \in JSON : v \in Members(a, g) <=> v.type = "null"
        BY ONLY <3>2, <3>3, TypeDecodes
      <3> QED
        BY ONLY <3>1, <3>4, <3>5
    <2>2. S(n) \subseteq W(n)
      <3>1. U \subseteq V
        BY <1>1 DEF Sound
      <3>2. Seq(U) \subseteq Seq(V)
        BY <3>1
      <3> HIDE DEF W, S
      <3> QED
        BY ONLY <1>1, <3>2 DEF TypesOver
    <2> HIDE DEF c, t, W, S
    <2>3. Sound(W(n), S(n), Coercions[n], ValuesOf[n])
      BY <2>1, <2>2 DEF Sound, c, t
    <2> QED
      BY <2>3
  <1>2. 0 \in T
    <2>1. W(0) = TypesOver(TRUE, {}) /\ S(0) = TypesOver(FALSE, {})
      BY DeclaredIs
    <2>2. Coercions[0] = [a \in W(0) |-> Converted(a, <<>>)]
      <3>1. Coercions[0] = [a \in W(0) |-> Converted(a, IF 0 = 0 THEN <<>> ELSE Coercions[0 - 1])]
        BY CoercionsAre, 0 \in Nat, Zenon DEF Converted
      <3> QED
        BY ONLY <3>1
    <2>3. ValuesOf[0] = [a \in W(0) |-> Members(a, <<>>)]
      <3>1. ValuesOf[0] = [a \in W(0) |-> Members(a, IF 0 = 0 THEN <<>> ELSE ValuesOf[0 - 1])]
        BY ValuesOfAre, 0 \in Nat, Zenon DEF Members
      <3> QED
        BY ONLY <3>1
    <2>4. Sound({}, {}, <<>>, <<>>)
      BY DEF Sound
    <2> HIDE DEF T, W, S
    <2> QED
      BY ONLY <1>1, <2>1, <2>2, <2>3, <2>4
  <1>3. ASSUME NEW m \in T
        PROVE  m + 1 \in T
    <2>1. m \in Nat /\ m + 1 \in Nat /\ m + 1 # 0 /\ (m + 1) - 1 = m
      OBVIOUS
    <2>2. W(m + 1) = TypesOver(TRUE, W(m)) /\ S(m + 1) = TypesOver(FALSE, S(m))
      BY <2>1, DeclaredIs
    <2>3. Coercions[m + 1] = [a \in W(m + 1) |-> Converted(a, Coercions[m])]
      <3>1. Coercions[m + 1] = [a \in W(m + 1) |->
              Converted(a, IF m + 1 = 0 THEN <<>> ELSE Coercions[(m + 1) - 1])]
        BY CoercionsAre, <2>1, Zenon DEF Converted
      <3> QED
        BY ONLY <2>1, <3>1
    <2>4. ValuesOf[m + 1] = [a \in W(m + 1) |-> Members(a, ValuesOf[m])]
      <3>1. ValuesOf[m + 1] = [a \in W(m + 1) |->
              Members(a, IF m + 1 = 0 THEN <<>> ELSE ValuesOf[(m + 1) - 1])]
        BY ValuesOfAre, <2>1, Zenon DEF Members
      <3> QED
        BY ONLY <2>1, <3>1
    <2>5. Sound(W(m), S(m), Coercions[m], ValuesOf[m])
      OBVIOUS
    <2> HIDE DEF T, W, S
    <2> QED
      BY ONLY <1>1, <2>1, <2>2, <2>3, <2>4, <2>5
  <1>4. T = Nat
    <2>1. T \in SUBSET Nat
      OBVIOUS
    <2> HIDE DEF T
    <2> QED
      BY <1>2, <1>3, <2>1, Induction
  <1> QED
    BY <1>4

\* Whatever the value and however the declared type is nested: what coerce makes of it is of
\* that type and is left alone by the second decoding, and a value that was of the type
\* already is left alone by the first (CoerceExact).
THEOREM CoercionsExact ==
  \A v \in JSON, a \in Declared(TRUE)[Nesting] : CoerceExact(v, a)
  <1> SUFFICES ASSUME NEW v \in JSON, NEW a \in Declared(TRUE)[Nesting]
               PROVE  CoerceExact(v, a)
    OBVIOUS
  <1> DEFINE c == Coercions[Nesting][a]
             t == ValuesOf[Nesting][a]
  <1>1. Decodes(c, t) /\ (a \in Declared(FALSE)[Nesting] => Keeps(c, t))
    BY AllDecode, ArgumentsAssumption DEF Sound
  <1> HIDE DEF c, t
  <1> QED
    BY <1>1 DEF CoerceExact, Coerce, Conforms, Decodes, Keeps, c, t

\* For any list of parameters and any object: _build_kwargs refuses the call, or gives the
\* tool what it declares and no more, all that is required, each of its type, and would
\* give it the same again (KwargsExact).
THEOREM CallsExact ==
  ASSUME NEW sig, NEW params, \A n \in DOMAIN sig : sig[n].ann \in Declared(TRUE)[Nesting],
         \A n \in DOMAIN params : params[n] \in JSON
  PROVE  KwargsExact(sig, params)
  <1> SUFFICES ASSUME NEW k \in Kwargs(sig, params)
               PROVE  /\ DOMAIN k = DOMAIN params /\ DOMAIN k \subseteq DOMAIN sig
                      /\ \A n \in DOMAIN sig : n \in DOMAIN k \/ ~sig[n].required
                      /\ \A n \in DOMAIN k : Conforms(k[n], sig[n].ann)
                      /\ Kwargs(sig, k) = {k}
    BY DEF KwargsExact
  <1> DEFINE names == DOMAIN params
             made == [n \in names |-> CHOOSE x \in Coerce(params[n], sig[n].ann) : TRUE]
  <1>1. /\ names \subseteq DOMAIN sig /\ {n \in DOMAIN sig : sig[n].required} \subseteq names
        /\ \A n \in names : Coerce(params[n], sig[n].ann) # {}
        /\ k = made
    BY DEF Kwargs
  <1>2. DOMAIN k = names
    BY <1>1
  <1>3. ASSUME NEW n \in names
        PROVE  /\ Conforms(k[n], sig[n].ann)
               /\ Coerce(k[n], sig[n].ann) = {k[n]}
    <2>1. k[n] = CHOOSE x \in Coerce(params[n], sig[n].ann) : TRUE
      BY <1>1
    <2>2. k[n] \in Coerce(params[n], sig[n].ann)
      BY <1>1, <2>1
    <2>3. CoerceExact(params[n], sig[n].ann)
      BY <1>1, CoercionsExact
    <2> QED
      BY ONLY <2>2, <2>3 DEF CoerceExact
  <1>4. Kwargs(sig, k) = {k}
    <2> DEFINE again == [n \in DOMAIN k |-> CHOOSE x \in Coerce(k[n], sig[n].ann) : TRUE]
    <2>1. Kwargs(sig, k) = {again}
      <3>1. \A n \in DOMAIN k : Coerce(k[n], sig[n].ann) # {}
        BY <1>2, <1>3
      <3>2. DOMAIN k \subseteq DOMAIN sig /\ {n \in DOMAIN sig : sig[n].required} \subseteq DOMAIN k
        BY <1>1, <1>2
      <3> QED
        BY ONLY <3>1, <3>2 DEF Kwargs
    <2>2. again = k
      <3>1. \A n \in DOMAIN k : (CHOOSE x \in Coerce(k[n], sig[n].ann) : TRUE) = k[n]
        BY <1>2, <1>3
      <3>2. k = [n \in DOMAIN k |-> k[n]]
        BY <1>1, <1>2
      <3> HIDE DEF made
      <3> QED
        BY ONLY <3>1, <3>2
    <2> QED
      BY <2>1, <2>2
  <1> QED
    BY <1>1, <1>2, <1>3, <1>4

-----------------------------------------------------------------------------
(***************************************************************************)
(* Launches, for whatever is typed and wherever IDA is.                    *)
(***************************************************************************)

\* read is what argparse can have read of the words, after each of them.
ReadsOf(words, read) ==
  /\ read[0] = {Reading(Defaults, Unset)}
  /\ \A n \in 1..Len(words) : read[n] = UNION {ReadWord(r, words[n]) : r \in read[n - 1]}
  /\ ParseServe(words) = {r.args : r \in {x \in read[Len(words)] : x.option = Unset}}

\* A line of words can be read to its end.
LEMMA ReadsExist ==
  ASSUME NEW words, Len(words) \in Nat
  PROVE  \E read : ReadsOf(words, read)
  <1> DEFINE Next1(g, n) == IF n = 0 THEN {Reading(Defaults, Unset)}
                            ELSE UNION {ReadWord(r, words[n]) : r \in g[n - 1]}
             Solves(g) == g = [n \in 0..Len(words) |-> Next1(g, n)]
             read == CHOOSE g : Solves(g)
  <1>1. ParseServe(words) = {r.args : r \in {x \in read[Len(words)] : x.option = Unset}}
    BY Zenon DEF ParseServe
  <1>2. PICK c : Leveled(words, c)
    BY LevelsExist
  <1> DEFINE h == [n \in 0..Len(words) |-> c[n].read]
  <1>3. ASSUME NEW n \in 0..Len(words)
        PROVE  h[n] = Next1(h, n)
    <2>1. n \in Nat /\ (n # 0 => n - 1 \in 0..Len(words))
      OBVIOUS
    <2>2. c[n].read = IF n = 0 THEN {Reading(Defaults, Unset)}
                      ELSE UNION {ReadWord(r, words[n]) : r \in c[n - 1].read}
      BY ONLY <1>2, <2>1, Zenon DEF Leveled
    <2>3. n # 0 => h[n - 1] = c[n - 1].read
      BY <2>1
    <2>4. h[n] = c[n].read
      OBVIOUS
    <2> HIDE DEF h
    <2> QED
      BY ONLY <2>2, <2>3, <2>4, Zenon
  <1>4. Solves(h)
    <2>1. h = [n \in 0..Len(words) |-> h[n]]
      OBVIOUS
    <2> HIDE DEF h, Next1
    <2> QED
      BY ONLY <1>3, <2>1
  <1>5. Solves(read)
    <2> HIDE DEF Solves, h
    <2> QED
      BY ONLY <1>4, Zenon
  <1>6. \A n \in 0..Len(words) : read[n] = Next1(read, n)
    <2> HIDE DEF read, Next1
    <2> QED
      BY ONLY <1>5
  <1>7. 0 \in 0..Len(words) /\ \A n \in 1..Len(words) : n \in 0..Len(words) /\ n # 0
    OBVIOUS
  <1> HIDE DEF read
  <1>8. read[0] = {Reading(Defaults, Unset)}
    BY ONLY <1>6, <1>7
  <1>9. \A n \in 1..Len(words) : read[n] = UNION {ReadWord(r, words[n]) : r \in read[n - 1]}
    BY ONLY <1>6, <1>7
  <1>10. ReadsOf(words, read)
    BY ONLY <1>1, <1>8, <1>9 DEF ReadsOf
  <1> QED
    BY ONLY <1>10

\* One way to read the words so far is one way to read the next one.
LEMMA ReadStep ==
  ASSUME NEW words, NEW read, ReadsOf(words, read)
  PROVE  \A n \in 1..Len(words) : \A s : read[n - 1] = {s} => read[n] = ReadWord(s, words[n])
  <1> SUFFICES ASSUME NEW n \in 1..Len(words), NEW s, read[n - 1] = {s}
               PROVE  read[n] = ReadWord(s, words[n])
    OBVIOUS
  <1>1. read[n] = UNION {ReadWord(r, words[n]) : r \in read[n - 1]}
    BY DEF ReadsOf
  <1> QED
    BY ONLY <1>1, read[n - 1] = {s}

\* A refused word is the end of it.
LEMMA ReadRefused ==
  ASSUME NEW words, Len(words) \in Nat, NEW read, ReadsOf(words, read),
         NEW n \in 1..Len(words), read[n] = {}
  PROVE  ParseServe(words) = {}
  <1> DEFINE T == {m \in Nat : n + m <= Len(words) => read[n + m] = {}}
  <1>1. 0 \in T
    BY n + 0 = n
  <1>2. ASSUME NEW m \in T
        PROVE  m + 1 \in T
    <2>1. SUFFICES ASSUME n + (m + 1) <= Len(words)
                   PROVE  read[n + (m + 1)] = {}
      OBVIOUS
    <2> DEFINE l == n + (m + 1)
    <2>2. l \in 1..Len(words) /\ l - 1 = n + m /\ n + m <= Len(words)
      BY <2>1
    <2>3. read[l - 1] = {}
      BY <2>2
    <2>4. read[l] = UNION {ReadWord(r, words[l]) : r \in read[l - 1]}
      BY <2>2 DEF ReadsOf
    <2> HIDE DEF l
    <2>5. read[l] = {}
      BY ONLY <2>3, <2>4
    <2> QED
      BY <2>5 DEF l
  <1>3. T = Nat
    <2>1. T \in SUBSET Nat
      OBVIOUS
    <2> HIDE DEF T
    <2> QED
      BY <1>1, <1>2, <2>1, Induction
  <1>4. Len(words) - n \in Nat /\ n + (Len(words) - n) = Len(words)
    OBVIOUS
  <1>5. read[Len(words)] = {}
    <2>1. PICK m \in T : n + m = Len(words)
      <3> HIDE DEF T
      <3> QED
        BY <1>3, <1>4
    <2> QED
      BY <2>1
  <1>6. ParseServe(words) = {r.args : r \in {x \in read[Len(words)] : x.option = Unset}}
    BY DEF ReadsOf
  <1> QED
    BY ONLY <1>5, <1>6

\* What one word does, by what was read before it.
LEMMA ReadsOption ==
  ASSUME NEW args, NEW option, option \in ServeOptions
  PROVE  ReadWord(Reading(args, Unset), option) = {Reading(args, option)}
  <1>1. option # "--unsafe"
    BY DEF ServeOptions
  <1>2. Reading(args, Unset).option = Unset /\ Reading(args, Unset).args = args
    BY DEF Reading
  <1> QED
    BY ONLY <1>1, <1>2, option \in ServeOptions DEF ReadWord

\* A flag is read as it is.
LEMMA ReadsUnsafe ==
  ASSUME NEW args
  PROVE  ReadWord(Reading(args, Unset), "--unsafe") = {Reading([args EXCEPT !.unsafe = TRUE], Unset)}
  <1>1. Reading(args, Unset).option = Unset /\ Reading(args, Unset).args = args
    BY DEF Reading
  <1>2. "--unsafe" \notin ServeOptions
    BY DEF ServeOptions
  <1> QED
    BY ONLY <1>1, <1>2 DEF ReadWord

\* The word after an option is its value, unless it looks like an option.
LEMMA ReadsValue ==
  ASSUME NEW args, NEW option, option \in ServeOptions, NEW text
  PROVE  ReadWord(Reading(args, option), text) =
           IF Argument(text) THEN {Reading(x, Unset) : x \in SetOption(args, option, text)} ELSE {}
  <1>1. Reading(args, option).option = option /\ Reading(args, option).args = args
    BY DEF Reading
  <1>2. option # Unset
    <2>1. Unset \notin ServeOptions
      BY UnsetAssumption
    <2> QED
      BY <2>1
  <1> QED
    BY ONLY <1>1, <1>2 DEF ReadWord

\* An option with a value that it takes, and that says one thing.
LEMMA ReadsPair ==
  ASSUME NEW words, NEW read, ReadsOf(words, read), Len(words) \in Nat,
         NEW n \in 1..Len(words), n + 1 \in 1..Len(words),
         NEW args, read[n - 1] = {Reading(args, Unset)}, words[n] \in ServeOptions,
         NEW new, SetOption(args, words[n], words[n + 1]) = {new}
  PROVE  IF Argument(words[n + 1]) THEN read[n + 1] = {Reading(new, Unset)} ELSE read[n + 1] = {}
  <1> DEFINE option == words[n]
             text == words[n + 1]
             m == n + 1
  <1>1. read[n] = {Reading(args, option)}
    <2>1. read[n] = ReadWord(Reading(args, Unset), option)
      <3>1. \A s : read[n - 1] = {s} => read[n] = ReadWord(s, words[n])
        BY ReadStep
      <3> QED
        BY <3>1
    <2> QED
      BY <2>1, ReadsOption
  <1>2. m \in 1..Len(words) /\ m - 1 = n
    OBVIOUS
  <1>3. read[m] = ReadWord(Reading(args, option), text)
    <2> HIDE DEF option
    <2>1. read[m - 1] = {Reading(args, option)}
      BY <1>1, <1>2
    <2> HIDE DEF m
    <2>2. read[m] = ReadWord(Reading(args, option), words[m])
      <3>1. \A j \in 1..Len(words) : \A s : read[j - 1] = {s} => read[j] = ReadWord(s, words[j])
        BY ReadStep
      <3> QED
        BY ONLY <1>2, <2>1, <3>1, Zenon
    <2> QED
      BY <2>2 DEF m
  <1>4. option \in ServeOptions /\ SetOption(args, option, text) = {new}
    OBVIOUS
  <1> HIDE DEF option, text, m
  <1>5. read[m] = IF Argument(text) THEN {Reading(x, Unset) : x \in {new}} ELSE {}
    BY ONLY <1>3, <1>4, ReadsValue
  <1>6. {Reading(x, Unset) : x \in {new}} = {Reading(new, Unset)}
    OBVIOUS
  <1>7. IF Argument(text) THEN read[m] = {Reading(new, Unset)} ELSE read[m] = {}
    BY ONLY <1>5, <1>6
  <1> QED
    BY <1>7 DEF text, m

-----------------------------------------------------------------------------
\* The values that are written are accepted.
LEMMA SetOptionIs ==
  /\ \A args, text : SetOption(args, "--host", text) = {[args EXCEPT !.host = text]}
  /\ \A args, text : text \in HttpTransports =>
       SetOption(args, "--transport", text) = {[args EXCEPT !.transport = text]}
  /\ \A args, text : NumberOf[text] \in PortRange =>
       SetOption(args, "--port", text) = {[args EXCEPT !.port = NumberOf[text]]}
  <1>1. ASSUME NEW args, NEW text
        PROVE  SetOption(args, "--host", text) = {[args EXCEPT !.host = text]}
    BY DEF SetOption
  <1>2. ASSUME NEW args, NEW text, text \in HttpTransports
        PROVE  SetOption(args, "--transport", text) = {[args EXCEPT !.transport = text]}
    <2> DEFINE made(t) == [args EXCEPT !.transport = t]
    <2>1. SetOption(args, "--transport", text) = {made(t) : t \in {text} \cap TransportChoices("serve")}
      BY DEF SetOption
    <2>2. {text} \cap TransportChoices("serve") = {text}
      BY <1>2 DEF TransportChoices
    <2> HIDE DEF made
    <2>3. SetOption(args, "--transport", text) = {made(text)}
      BY ONLY <2>1, <2>2
    <2> QED
      BY ONLY <2>3 DEF made
  <1>3. ASSUME NEW args, NEW text, NumberOf[text] \in PortRange
        PROVE  SetOption(args, "--port", text) = {[args EXCEPT !.port = NumberOf[text]]}
    <2> DEFINE made(p) == [args EXCEPT !.port = p]
    <2>1. SetOption(args, "--port", text) = {made(p) : p \in PortType(text)}
      BY DEF SetOption
    <2>2. PortType(text) = {NumberOf[text]}
      BY <1>3 DEF PortType
    <2> HIDE DEF made
    <2>3. SetOption(args, "--port", text) = {made(NumberOf[text])}
      BY ONLY <2>1, <2>2
    <2> QED
      BY ONLY <2>3 DEF made
  <1> QED
    BY <1>1, <1>2, <1>3

\* The words of a launch over HTTP are read as what they say, if the host can be read.
LEMMA HttpParsed ==
  ASSUME NEW words, NEW t, t \in HttpTransports, NEW host, NEW text, NumberOf[text] \in PortRange,
         Argument(t), Argument(text), NEW unsafe, unsafe \in BOOLEAN,
         Len(words) = IF unsafe THEN 7 ELSE 6,
         words[1] = "--transport", words[2] = t, words[3] = "--host", words[4] = host,
         words[5] = "--port", words[6] = text, unsafe => words[7] = "--unsafe"
  PROVE  ParseServe(words) =
           IF Argument(host)
           THEN {[transport |-> t, host |-> host, port |-> NumberOf[text], unsafe |-> unsafe]} ELSE {}
  <1> DEFINE args1 == [Defaults EXCEPT !.transport = t]
             args2 == [args1 EXCEPT !.host = host]
             args3 == [args2 EXCEPT !.port = NumberOf[text]]
  <1>1. Len(words) \in Nat /\ 1..6 \subseteq 1..Len(words)
    <2>1. CASE unsafe
      BY <2>1
    <2>2. CASE ~unsafe
      BY <2>2
    <2> QED
      BY <2>1, <2>2
  <1>2. PICK read : ReadsOf(words, read)
    BY <1>1, ReadsExist
  <1>3. {"--transport", "--host", "--port"} \subseteq ServeOptions
    BY DEF ServeOptions
  <1>4. /\ SetOption(Defaults, "--transport", t) = {args1}
        /\ SetOption(args1, "--host", host) = {args2}
        /\ SetOption(args2, "--port", text) = {args3}
    BY SetOptionIs
  <1>5. args3.unsafe = FALSE /\ Defaults.unsafe = FALSE
    BY DEF Defaults
  <1>6. [transport |-> t, host |-> host, port |-> NumberOf[text], unsafe |-> unsafe] =
          IF unsafe THEN [args3 EXCEPT !.unsafe = TRUE] ELSE args3
    <2>1. CASE unsafe
      BY <2>1 DEF Defaults
    <2>2. CASE ~unsafe
      BY <2>2 DEF Defaults
    <2> QED
      BY <2>1, <2>2
  <1> HIDE DEF args1, args2, args3
  <1>7. \A n \in 1..Len(words) : \A args, new :
          n + 1 \in 1..Len(words) /\ read[n - 1] = {Reading(args, Unset)} /\ words[n] \in ServeOptions
            /\ SetOption(args, words[n], words[n + 1]) = {new} =>
          IF Argument(words[n + 1]) THEN read[n + 1] = {Reading(new, Unset)} ELSE read[n + 1] = {}
    BY ONLY <1>1, <1>2, ReadsPair
  <1>8. read[2] = {Reading(args1, Unset)}
    <2>1. read[1 - 1] = {Reading(Defaults, Unset)} /\ 1 \in 1..Len(words) /\ 1 + 1 \in 1..Len(words) /\ 1 + 1 = 2
      BY <1>1, <1>2 DEF ReadsOf
    <2> QED
      BY <1>3, <1>4, <1>7, <2>1
  <1>9. IF Argument(host) THEN read[4] = {Reading(args2, Unset)} ELSE read[4] = {}
    <2>1. read[3 - 1] = {Reading(args1, Unset)} /\ 3 \in 1..Len(words) /\ 3 + 1 \in 1..Len(words) /\ 3 + 1 = 4
      BY <1>1, <1>8
    <2> QED
      BY <1>3, <1>4, <1>7, <2>1
  <1>10. CASE ~Argument(host)
    <2>1. 4 \in 1..Len(words) /\ read[4] = {}
      BY <1>1, <1>9, <1>10
    <2>2. ParseServe(words) = {}
      BY ONLY <1>1, <1>2, <2>1, ReadRefused
    <2> QED
      BY <1>10, <2>2
  <1>11. CASE Argument(host)
    <2>1. read[6] = {Reading(args3, Unset)}
      <3>1. read[5 - 1] = {Reading(args2, Unset)} /\ 5 \in 1..Len(words) /\ 5 + 1 \in 1..Len(words) /\ 5 + 1 = 6
        BY <1>1, <1>9, <1>11
      <3> QED
        BY <1>3, <1>4, <1>7, <3>1
    <2> DEFINE last == IF unsafe THEN [args3 EXCEPT !.unsafe = TRUE] ELSE args3
    <2>2. read[Len(words)] = {Reading(last, Unset)}
      <3>1. CASE unsafe
        <4>1. 7 \in 1..Len(words) /\ read[7 - 1] = {Reading(args3, Unset)} /\ Len(words) = 7
          BY <2>1, <3>1
        <4>2. \A n \in 1..Len(words) : \A s : read[n - 1] = {s} => read[n] = ReadWord(s, words[n])
          BY ONLY <1>2, ReadStep
        <4>3. read[7] = ReadWord(Reading(args3, Unset), words[7])
          BY ONLY <4>1, <4>2
        <4>4. words[7] = "--unsafe"
          BY <3>1
        <4> QED
          BY ONLY <3>1, <4>1, <4>3, <4>4, ReadsUnsafe
      <3>2. CASE ~unsafe
        BY <2>1, <3>2
      <3> QED
        BY <3>1, <3>2
    <2>3. ParseServe(words) = {r.args : r \in {x \in read[Len(words)] : x.option = Unset}}
      BY <1>2 DEF ReadsOf
    <2>4. Reading(last, Unset).args = last /\ Reading(last, Unset).option = Unset
      BY DEF Reading
    <2> HIDE DEF last
    <2>5. ParseServe(words) = {last}
      BY ONLY <2>2, <2>3, <2>4
    <2> QED
      BY ONLY <1>6, <1>11, <2>5 DEF last
  <1> QED
    BY <1>10, <1>11

\* Without a word for the host, the port's option stands in its place.
LEMMA HostMissing ==
  ASSUME NEW words, Len(words) \in Nat, 4 \in 1..Len(words), NEW t, t \in HttpTransports, Argument(t),
         words[1] = "--transport", words[2] = t, words[3] = "--host", words[4] = "--port"
  PROVE  ParseServe(words) = {}
  <1> DEFINE args1 == [Defaults EXCEPT !.transport = t]
             args2 == [args1 EXCEPT !.host = "--port"]
  <1>1. 1..4 \subseteq 1..Len(words)
    OBVIOUS
  <1>2. PICK read : ReadsOf(words, read)
    BY <1>1, ReadsExist
  <1>3. {"--transport", "--host", "--port"} \subseteq ServeOptions
    BY DEF ServeOptions
  <1>4. /\ SetOption(Defaults, "--transport", t) = {args1}
        /\ SetOption(args1, "--host", "--port") = {args2}
    BY SetOptionIs
  <1> HIDE DEF args1, args2
  <1>5. \A n \in 1..Len(words) : \A args, new :
          n + 1 \in 1..Len(words) /\ read[n - 1] = {Reading(args, Unset)} /\ words[n] \in ServeOptions
            /\ SetOption(args, words[n], words[n + 1]) = {new} =>
          IF Argument(words[n + 1]) THEN read[n + 1] = {Reading(new, Unset)} ELSE read[n + 1] = {}
    BY ONLY <1>2, Len(words) \in Nat, ReadsPair
  <1>8. read[2] = {Reading(args1, Unset)}
    <2>1. read[1 - 1] = {Reading(Defaults, Unset)} /\ 1 \in 1..Len(words) /\ 1 + 1 \in 1..Len(words) /\ 1 + 1 = 2
      BY <1>1, <1>2 DEF ReadsOf
    <2> QED
      BY <1>3, <1>4, <1>5, <2>1
  <1>9. read[4] = {}
    <2>1. read[3 - 1] = {Reading(args1, Unset)} /\ 3 \in 1..Len(words) /\ 3 + 1 \in 1..Len(words) /\ 3 + 1 = 4
      BY <1>1, <1>8
    <2>2. ~Argument("--port")
      BY <1>3 DEF Argument
    <2> QED
      BY <1>3, <1>4, <1>5, <2>1, <2>2
  <1> QED
    BY <1>1, <1>2, <1>9, ReadRefused

\* The words of a launch over stdio: none, or the option without a value.
LEMMA StdioParsed ==
  ASSUME NEW words, NEW unsafe, unsafe \in BOOLEAN, Len(words) = IF unsafe THEN 1 ELSE 0,
         unsafe => words[1] = "--unsafe"
  PROVE  ParseServe(words) = {IF unsafe THEN [Defaults EXCEPT !.unsafe = TRUE] ELSE Defaults}
  <1>1. Len(words) \in Nat
    BY DEF Defaults
  <1>2. PICK read : ReadsOf(words, read)
    BY <1>1, ReadsExist
  <1> DEFINE last == IF unsafe THEN [Defaults EXCEPT !.unsafe = TRUE] ELSE Defaults
  <1>3. read[Len(words)] = {Reading(last, Unset)}
    <2>0. read[0] = {Reading(Defaults, Unset)}
      BY <1>2 DEF ReadsOf
    <2>1. CASE unsafe
      <3>1. 1 \in 1..Len(words) /\ read[1 - 1] = {Reading(Defaults, Unset)} /\ Len(words) = 1
        BY <2>0, <2>1
      <3>2. \A n \in 1..Len(words) : \A s : read[n - 1] = {s} => read[n] = ReadWord(s, words[n])
        BY ONLY <1>2, ReadStep
      <3>3. read[1] = ReadWord(Reading(Defaults, Unset), words[1])
        BY ONLY <3>1, <3>2
      <3>4. words[1] = "--unsafe" /\ unsafe = TRUE
        BY <2>1
      <3> QED
        BY ONLY <3>1, <3>3, <3>4, ReadsUnsafe
    <2>2. CASE ~unsafe
      <3>1. last = Defaults
        BY <2>2
      <3>2. Len(words) = 0
        BY <2>2
      <3> HIDE DEF last
      <3> QED
        BY ONLY <2>0, <3>1, <3>2
    <2> QED
      BY <2>1, <2>2
  <1>4. ParseServe(words) = {r.args : r \in {x \in read[Len(words)] : x.option = Unset}}
    BY <1>2 DEF ReadsOf
  <1>5. Reading(last, Unset).args = last /\ Reading(last, Unset).option = Unset
    BY DEF Reading
  <1> HIDE DEF last
  <1>6. ParseServe(words) = {last}
    BY ONLY <1>3, <1>4, <1>5
  <1> QED
    BY ONLY <1>6 DEF last

-----------------------------------------------------------------------------
\* v is s and then t.
Joins(v, s, t, W) ==
  /\ v \in Seq(W) /\ Len(v) = Len(s) + Len(t)
  /\ \A n \in 1..Len(s) : v[n] = s[n]
  /\ \A n \in 1..Len(t) : v[Len(s) + n] = t[n]

\* Two lines of words put together, word by word.
LEMMA Joined ==
  ASSUME NEW W, NEW s \in Seq(W), NEW t \in Seq(W)
  PROVE  Joins(s \o t, s, t, W)
  BY DEF Joins

\* A line begins with its first word.
LEMMA Headed ==
  ASSUME NEW W, NEW x \in W, NEW s \in Seq(W)
  PROVE  /\ <<x>> \o s # <<>> /\ (<<x>> \o s)[1] = x
         /\ Tail(<<x>> \o s) = s
  <1>1. <<x>> \in Seq(W) /\ Len(<<x>>) = 1 /\ <<x>>[1] = x
    OBVIOUS
  <1> DEFINE v == <<x>> \o s
  <1>2. v \in Seq(W) /\ Len(v) = 1 + Len(s) /\ v[1] = x /\ \A n \in 1..Len(s) : v[1 + n] = s[n]
    <2>1. Joins(v, <<x>>, s, W)
      BY <1>1, Joined
    <2> HIDE DEF v
    <2> QED
      BY <1>1, <2>1 DEF Joins
  <1> HIDE DEF v
  <1>3. Tail(v) \in Seq(W) /\ Len(Tail(v)) = Len(s) /\ \A n \in 1..Len(s) : Tail(v)[n] = s[n]
    BY ONLY <1>2, s \in Seq(W)
  <1>4. Tail(v) = s
    BY ONLY <1>3, s \in Seq(W)
  <1> QED
    BY <1>2, <1>4 DEF v

\* A line that begins with "serve" is read from its second word on.
LEMMA MainServes ==
  ASSUME NEW W, "serve" \in W, NEW x \in Seq(W), NEW y \in Seq(W)
  PROVE  Main(<<"serve">> \o x \o y) = {CmdServe(a) : a \in ParseServe(x \o y)}
  <1> DEFINE argv == <<"serve">> \o x \o y
             words == x \o y
  <1>1. argv = <<"serve">> \o words
    <2>1. <<"serve">> \in Seq(W)
      OBVIOUS
    <2> QED
      BY <2>1, ConcatAssociative
  <1>2. words \in Seq(W)
    OBVIOUS
  <1> HIDE DEF argv, words
  <1>3. argv # <<>> /\ argv[1] = "serve" /\ Tail(argv) = words
    BY <1>1, <1>2, Headed
  <1>4. Main(argv) = {CmdServe(a) : a \in ParseServe(words)}
    BY ONLY <1>3 DEF Main
  <1> QED
    BY <1>4 DEF argv, words

\* What follows the transport, and what stands for unsafe.
Pairs(t, host, text) == <<"--transport", t, "--host">> \o host \o <<"--port", text>>

UnsafeWord(unsafe) == IF unsafe THEN <<"--unsafe">> ELSE <<>>

\* An HTTP launch serves what it was made from, or is refused for its host.
LEMMA HttpServed ==
  ASSUME NEW args, args.transport \in HttpTransports, args.unsafe \in BOOLEAN, args.port \in PortRange,
         NEW text, text = TextOf[args.port], NumberOf[text] = args.port,
         Argument(args.transport), Argument(text)
  PROVE  /\ Main(ServeArgv(args, <<args.host>>)) =
              IF Argument(args.host)
              THEN {[transport |-> args.transport, host |-> args.host, port |-> args.port,
                     unsafe |-> args.unsafe]}
              ELSE {}
         /\ Main(ServeArgv(args, <<>>)) = {}
  <1> DEFINE t == args.transport
             host == args.host
             unsafe == args.unsafe
             W == {"serve", "--transport", t, "--host", host, "--port", text, "--unsafe"}
             y == UnsafeWord(unsafe)
             typed == [transport |-> t, host |-> host, port |-> args.port, unsafe |-> unsafe]
  <1>1. t # "stdio" /\ typed.transport # "stdio"
    BY DEF HttpTransports
  <1>2. \A h : ServeArgv(args, h) = <<"serve">> \o Pairs(t, h, text) \o y
    BY ONLY <1>1, text = TextOf[args.port] DEF ServeArgv, Pairs, UnsafeWord
  <1>3. y \in Seq(W) /\ (Len(y) = IF unsafe THEN 1 ELSE 0) /\ (unsafe => y[1] = "--unsafe")
    <2>1. CASE unsafe
      BY ONLY <2>1 DEF UnsafeWord
    <2>2. CASE ~unsafe
      BY ONLY <2>2 DEF UnsafeWord
    <2> QED
      BY <2>1, <2>2
  <1>4. /\ "serve" \in W /\ host \in W
        /\ <<"--transport", t, "--host">> \in Seq(W) /\ <<"--port", text>> \in Seq(W)
    OBVIOUS
  <1>5. t \in HttpTransports /\ NumberOf[text] \in PortRange /\ NumberOf[text] = args.port
          /\ Argument(t) /\ Argument(text) /\ unsafe \in BOOLEAN
    OBVIOUS
  <1> DEFINE before == <<"--transport", t, "--host">>
             after == <<"--port", text>>
  <1>6. Len(before) = 3 /\ before[1] = "--transport" /\ before[2] = t /\ before[3] = "--host"
    OBVIOUS
  <1>7. Len(after) = 2 /\ after[1] = "--port" /\ after[2] = text
    OBVIOUS
  <1>8. before \in Seq(W) /\ after \in Seq(W)
    BY <1>4
  <1>9. \A h : Pairs(t, h, text) = before \o h \o after
    BY DEF Pairs
  <1> HIDE DEF t, host, unsafe, W, y, before, after, typed
  <1>10. Main(ServeArgv(args, <<host>>)) = IF Argument(host) THEN {typed} ELSE {}
    <2> DEFINE second == <<host>>
               first == before \o second
               x == first \o after
               words == x \o y
    <2>1. second \in Seq(W) /\ Len(second) = 1 /\ second[1] = host
      BY <1>4
    <2> HIDE DEF second
    <2>2. first \in Seq(W) /\ Len(first) = 4 /\ first[1] = "--transport" /\ first[2] = t
            /\ first[3] = "--host" /\ first[4] = host
      <3> HIDE DEF first
      <3>1. Joins(first, before, second, W)
        BY ONLY <1>8, <2>1, Joined DEF first
      <3> QED
        BY ONLY <1>6, <2>1, <3>1 DEF Joins
    <2> HIDE DEF first
    <2>3. x \in Seq(W) /\ Len(x) = 6 /\ x[1] = "--transport" /\ x[2] = t
            /\ x[3] = "--host" /\ x[4] = host /\ x[5] = "--port" /\ x[6] = text
      <3> HIDE DEF x
      <3>1. Joins(x, first, after, W)
        BY ONLY <1>8, <2>2, Joined DEF x
      <3> QED
        BY ONLY <1>7, <2>2, <3>1 DEF Joins
    <2>4. Main(ServeArgv(args, <<host>>)) = {CmdServe(a) : a \in ParseServe(words)}
      <3>1. ServeArgv(args, <<host>>) = <<"serve">> \o x \o y
        BY ONLY <1>2, <1>9 DEF first, second
      <3> HIDE DEF x
      <3>2. Main(<<"serve">> \o x \o y) = {CmdServe(a) : a \in ParseServe(x \o y)}
        BY ONLY <1>3, <1>4, <2>3, MainServes
      <3> QED
        BY ONLY <3>1, <3>2
    <2> HIDE DEF x
    <2>5. (Len(words) = IF unsafe THEN 7 ELSE 6) /\ words[1] = "--transport" /\ words[2] = t
            /\ words[3] = "--host" /\ words[4] = host /\ words[5] = "--port" /\ words[6] = text
            /\ (unsafe => words[7] = "--unsafe")
      <3> HIDE DEF words
      <3>1. Joins(words, x, y, W)
        BY ONLY <1>3, <2>3, Joined DEF words
      <3> QED
        BY ONLY <1>3, <1>5, <2>3, <3>1 DEF Joins
    <2> HIDE DEF words
    <2>6. ParseServe(words) = IF Argument(host)
            THEN {[transport |-> t, host |-> host, port |-> NumberOf[text], unsafe |-> unsafe]} ELSE {}
      BY ONLY <1>5, <2>5, HttpParsed
    <2>7. ParseServe(words) = IF Argument(host) THEN {typed} ELSE {}
      BY ONLY <1>5, <2>6, Zenon DEF typed
    <2>8. CmdServe(typed) = typed
      BY ONLY <1>1 DEF CmdServe
    <2> QED
      BY ONLY <2>4, <2>7, <2>8
  <1>11. Main(ServeArgv(args, <<>>)) = {}
    <2> DEFINE second == <<>>
               first == before \o second
               x == first \o after
               words == x \o y
    <2>1. second \in Seq(W) /\ Len(second) = 0
      OBVIOUS
    <2> HIDE DEF second
    <2>2. first \in Seq(W) /\ Len(first) = 3 /\ first[1] = "--transport" /\ first[2] = t
            /\ first[3] = "--host"
      <3> HIDE DEF first
      <3>1. Joins(first, before, second, W)
        BY ONLY <1>8, <2>1, Joined DEF first
      <3> QED
        BY ONLY <1>6, <2>1, <3>1 DEF Joins
    <2> HIDE DEF first
    <2>3. x \in Seq(W) /\ Len(x) = 5 /\ x[1] = "--transport" /\ x[2] = t
            /\ x[3] = "--host" /\ x[4] = "--port"
      <3> HIDE DEF x
      <3>1. Joins(x, first, after, W)
        BY ONLY <1>8, <2>2, Joined DEF x
      <3> QED
        BY ONLY <1>7, <2>2, <3>1 DEF Joins
    <2>4. Main(ServeArgv(args, <<>>)) = {CmdServe(a) : a \in ParseServe(words)}
      <3>1. ServeArgv(args, <<>>) = <<"serve">> \o x \o y
        BY ONLY <1>2, <1>9 DEF first, second
      <3> HIDE DEF x
      <3>2. Main(<<"serve">> \o x \o y) = {CmdServe(a) : a \in ParseServe(x \o y)}
        BY ONLY <1>3, <1>4, <2>3, MainServes
      <3> QED
        BY ONLY <3>1, <3>2
    <2> HIDE DEF x
    <2>5. Len(words) \in Nat /\ 4 \in 1..Len(words) /\ words[1] = "--transport" /\ words[2] = t
            /\ words[3] = "--host" /\ words[4] = "--port"
      <3> HIDE DEF words
      <3>1. Joins(words, x, y, W)
        BY ONLY <1>3, <2>3, Joined DEF words
      <3> QED
        BY ONLY <1>3, <2>3, <3>1 DEF Joins
    <2> HIDE DEF words
    <2>6. ParseServe(words) = {}
      BY ONLY <1>5, <2>5, HostMissing
    <2> QED
      BY ONLY <2>4, <2>6
  <1> QED
    BY <1>10, <1>11 DEF t, host, unsafe, typed

\* Over stdio the host and the port stay what they are by default.
LEMMA StdioServed ==
  ASSUME NEW args, args.transport = "stdio", args.unsafe \in BOOLEAN, NEW host
  PROVE  Main(ServeArgv(args, host)) = {IF args.unsafe THEN [Defaults EXCEPT !.unsafe = TRUE] ELSE Defaults}
  <1> DEFINE unsafe == args.unsafe
             y == UnsafeWord(unsafe)
             W == {"serve", "--unsafe"}
             last == IF unsafe THEN [Defaults EXCEPT !.unsafe = TRUE] ELSE Defaults
  <1>1. ServeArgv(args, host) = <<"serve">> \o <<>> \o y
    BY DEF ServeArgv, UnsafeWord
  <1>2. y \in Seq(W) /\ (Len(y) = IF unsafe THEN 1 ELSE 0) /\ (unsafe => y[1] = "--unsafe")
    <2>1. CASE unsafe
      BY ONLY <2>1 DEF UnsafeWord
    <2>2. CASE ~unsafe
      BY ONLY <2>2 DEF UnsafeWord
    <2> QED
      BY <2>1, <2>2
  <1>3. "serve" \in W /\ <<>> \in Seq(W) /\ unsafe \in BOOLEAN
    OBVIOUS
  <1>4. CmdServe(last) = last
    <2>1. PICK u : last = [transport |-> "stdio", host |-> DefaultHost, port |-> DefaultPort, unsafe |-> u]
      <3>1. ASSUME NEW u
            PROVE  [Defaults EXCEPT !.unsafe = u] =
                     [transport |-> "stdio", host |-> DefaultHost, port |-> DefaultPort, unsafe |-> u]
        BY DEF Defaults
      <3>2. last = Defaults \/ last = [Defaults EXCEPT !.unsafe = TRUE]
        OBVIOUS
      <3> HIDE DEF last
      <3> QED
        BY <3>1, <3>2 DEF Defaults
    <2> HIDE DEF last
    <2>2. /\ last.transport = "stdio" /\ last.host = DefaultHost /\ last.port = DefaultPort
          /\ [last EXCEPT !.host = last.host, !.port = last.port] = last
      BY <2>1
    <2>3. CmdServe(last) = [last EXCEPT !.host = DefaultHost, !.port = DefaultPort]
      BY ONLY <2>2 DEF CmdServe
    <2> QED
      BY ONLY <2>2, <2>3
  <1> HIDE DEF W, y, unsafe
  <1>5. <<>> \o y = y
    BY <1>2, ConcatEmptySeq
  <1>6. Main(<<"serve">> \o <<>> \o y) = {CmdServe(a) : a \in ParseServe(<<>> \o y)}
    BY ONLY <1>2, <1>3, MainServes
  <1>7. ParseServe(y) = {last}
    BY ONLY <1>2, <1>3, StdioParsed
  <1> HIDE DEF last
  <1>8. Main(ServeArgv(args, host)) = {last}
    BY ONLY <1>1, <1>4, <1>5, <1>6, <1>7
  <1> QED
    BY <1>8 DEF last, unsafe

-----------------------------------------------------------------------------
\* What the options of a launch say.
Typed(l) == [transport |-> l.transport, host |-> l.host, port |-> NumberOf[l.port], unsafe |-> l.unsafe]

\* What is typed, part by part.
LEMMA LaunchIs ==
  ASSUME NEW l \in Launches
  PROVE  /\ l.cmd = "config" \/ l.cmd = "install"
         /\ l.transport = "stdio" \/ l.transport \in HttpTransports
         /\ l.host \in Hosts /\ l.port \in PortTexts /\ l.unsafe \in BOOLEAN
         /\ l.home \in Homes /\ l.env \in Homes
  <1>1. /\ l.cmd \in {"config", "install"} /\ l.transport \in TransportChoices("config")
        /\ l.host \in Hosts /\ l.port \in PortTexts /\ l.unsafe \in BOOLEAN
        /\ l.home \in Homes /\ l.env \in Homes
    BY DEF Launches
  <1>2. l.transport = "stdio" \/ l.transport \in HttpTransports
    BY <1>1 DEF TransportChoices
  <1> QED
    BY <1>1, <1>2

\* The transports and commands are different words.
LEMMA StdioApart == "stdio" \notin HttpTransports /\ "config" # "install"
  BY DEF HttpTransports

\* A line is written down with the one port that it gives, or not at all.
LEMMA WrittenIs ==
  ASSUME NEW l \in Launches
  PROVE  Written(l) =
           IF NumberOf[l.port] \in PortRange /\ l.transport \in TransportChoices(l.cmd)
           THEN IF l.cmd = "install" THEN InstalledSpec(Typed(l), l.home, l.env)
                ELSE PrintMcpConfig(Typed(l), l.platform, l.home, l.env)
           ELSE {}
  <1> DEFINE typed(p) == [transport |-> l.transport, host |-> l.host, port |-> p, unsafe |-> l.unsafe]
             made(p) == IF l.transport \notin TransportChoices(l.cmd) THEN {}
                        ELSE IF l.cmd = "install" THEN InstalledSpec(typed(p), l.home, l.env)
                        ELSE PrintMcpConfig(typed(p), l.platform, l.home, l.env)
  <1>1. Written(l) = UNION {made(p) : p \in PortType(l.port)}
    BY Zenon DEF Written
  <1>2. typed(NumberOf[l.port]) = Typed(l)
    BY DEF Typed
  <1>3. made(NumberOf[l.port]) =
          IF l.transport \in TransportChoices(l.cmd)
          THEN IF l.cmd = "install" THEN InstalledSpec(Typed(l), l.home, l.env)
               ELSE PrintMcpConfig(Typed(l), l.platform, l.home, l.env)
          ELSE {}
    <2> HIDE DEF typed
    <2> QED
      BY ONLY <1>2
  <1> HIDE DEF made
  <1>4. PortType(l.port) = IF NumberOf[l.port] \in PortRange THEN {NumberOf[l.port]} ELSE {}
    BY DEF PortType
  <1> QED
    BY ONLY <1>1, <1>3, <1>4

\* The options of a line, as they are understood.
LEMMA TypedIs ==
  ASSUME NEW l
  PROVE  /\ Typed(l).transport = l.transport /\ Typed(l).host = l.host
         /\ Typed(l).port = NumberOf[l.port] /\ Typed(l).unsafe = l.unsafe
  BY DEF Typed

\* The transports that each command offers.
LEMMA ChoicesAre ==
  /\ \A c : c # "install" => HttpTransports \cup {"stdio"} \subseteq TransportChoices(c)
  /\ TransportChoices("install") = HttpTransports
  BY DEF TransportChoices

\* What is written down, by the way it is.
LEMMA WrittenAs ==
  ASSUME NEW l \in Launches, NEW w \in Written(l)
  PROVE  /\ NumberOf[l.port] \in PortRange
         /\ \/ /\ l.cmd = "install" /\ l.transport \in HttpTransports /\ l.host # Empty
               /\ w.words = ServeArgv(Typed(l), <<l.host>>)
               /\ w.home \in ValidatedIdaHome("win32", l.home, l.env)
               /\ w.url = EndpointUrl(Typed(l), ProbeHost(l.host))
            \/ /\ l.cmd = "config" /\ l.transport = "stdio"
               /\ w.words = ServeArgv(Typed(l), <<l.host>>)
               /\ w.home \in ValidatedIdaHome(l.platform, l.home, l.env)
               /\ w.url = Unset
            \/ /\ l.cmd = "config" /\ l.transport \in HttpTransports
               /\ w.words = ServeArgv(Typed(l), IF l.host = Empty THEN <<>> ELSE <<l.host>>)
               /\ w.home = Unset
               /\ w.url = Url(Typed(l), l.host, FALSE)
  <1>1. /\ NumberOf[l.port] \in PortRange /\ l.transport \in TransportChoices(l.cmd)
        /\ w \in IF l.cmd = "install" THEN InstalledSpec(Typed(l), l.home, l.env)
                 ELSE PrintMcpConfig(Typed(l), l.platform, l.home, l.env)
    BY ONLY WrittenIs, l \in Launches, w \in Written(l)
  <1>2. CASE l.cmd = "install"
    <2>1. w \in InstalledSpec(Typed(l), l.home, l.env)
      BY ONLY <1>1, <1>2
    <2> DEFINE argv == ChildCommand(Typed(l))
               url == EndpointUrl(Typed(l), ProbeHost(Typed(l).host))
               homes == ValidatedIdaHome("win32", l.home, l.env)
    <2>2. SpecValid(Typed(l)) /\ w.words = argv /\ w.home \in homes /\ w.url = url
      <3>1. InstalledSpec(Typed(l), l.home, l.env) =
              {[words |-> argv, home |-> h, url |-> url] : h \in IF SpecValid(Typed(l)) THEN homes ELSE {}}
        BY ONLY TRUE DEF InstalledSpec
      <3> HIDE DEF argv, url, homes
      <3> QED
        BY ONLY <2>1, <3>1
    <2>3. l.host # Empty /\ l.transport \in HttpTransports
      BY ONLY <2>2, TypedIs DEF SpecValid
    <2>4. ChildCommand(Typed(l)) = ServeArgv(Typed(l), <<l.host>>) /\ Typed(l).host = l.host
      BY ONLY TypedIs DEF ChildCommand, BuildServeArgv
    <2> HIDE DEF homes
    <2> QED
      BY ONLY <1>1, <1>2, <2>2, <2>3, <2>4 DEF argv, url, homes
  <1>3. CASE l.cmd # "install"
    <2>1. l.cmd = "config" /\ w \in PrintMcpConfig(Typed(l), l.platform, l.home, l.env)
      BY ONLY <1>1, <1>3, LaunchIs, l \in Launches
    <2>2. CASE l.transport = "stdio"
      <3> DEFINE argv == ServeArgv(Typed(l), <<l.host>>)
                 homes == ValidatedIdaHome(l.platform, l.home, l.env)
      <3>1. w \in {StdioConfig(Typed(l), h) : h \in homes}
        BY ONLY <2>1, <2>2, TypedIs DEF PrintMcpConfig
      <3>2. \A h : StdioConfig(Typed(l), h) = [words |-> argv, home |-> h, url |-> Unset]
        BY ONLY TypedIs DEF StdioConfig, BuildServeArgv
      <3> HIDE DEF argv, homes
      <3>3. w.words = argv /\ w.home \in homes /\ w.url = Unset
        BY ONLY <3>1, <3>2
      <3> QED
        BY ONLY <1>1, <2>1, <2>2, <3>3 DEF argv, homes
    <2>3. CASE l.transport # "stdio"
      <3>1. w = HttpConfig(Typed(l))
        BY ONLY <2>1, <2>3, TypedIs DEF PrintMcpConfig
      <3> DEFINE argv == ServeArgv(Typed(l), IF l.host = Empty THEN <<>> ELSE <<l.host>>)
                 url == Url(Typed(l), l.host, FALSE)
      <3>2. HttpConfig(Typed(l)) = [words |-> argv, home |-> Unset, url |-> url]
        BY ONLY TypedIs DEF HttpConfig
      <3>3. l.transport \in HttpTransports
        BY ONLY <2>3, LaunchIs, l \in Launches
      <3> HIDE DEF argv, url
      <3>4. w.words = argv /\ w.home = Unset /\ w.url = url
        BY ONLY <3>1, <3>2
      <3> QED
        BY ONLY <1>1, <2>1, <3>3, <3>4 DEF argv, url
    <2> QED
      BY <2>2, <2>3
  <1> QED
    BY <1>2, <1>3

\* The proxy serves what was typed.
LEMMA TypedServed ==
  ASSUME NEW l \in Launches, NEW w \in Written(l)
  PROVE  ServesWhatWasTyped(l, w)
  <1> DEFINE args == Typed(l)
  <1>1. /\ args.transport = l.transport /\ args.host = l.host
        /\ args.port = NumberOf[l.port] /\ args.unsafe = l.unsafe
    BY TypedIs
  <1>2. /\ l.transport = "stdio" \/ l.transport \in HttpTransports
        /\ l.host \in Hosts /\ l.port \in PortTexts /\ l.unsafe \in BOOLEAN
    BY LaunchIs
  <1>3. /\ NumberOf[l.port] \in PortRange
        /\ \/ w.words = ServeArgv(args, <<l.host>>)
           \/ l.transport # "stdio" /\ l.host = Empty /\ w.words = ServeArgv(args, <<>>)
    <2>1. NumberOf[l.port] \in PortRange
      BY WrittenAs
    <2>2. \/ w.words = ServeArgv(args, <<l.host>>)
          \/ l.transport \in HttpTransports /\ l.host = Empty /\ w.words = ServeArgv(args, <<>>)
      BY WrittenAs
    <2> QED
      BY <2>1, <2>2, StdioApart
  <1> HIDE DEF args
  <1>4. CASE l.transport = "stdio"
    <2>1. Main(w.words) = {IF args.unsafe THEN [Defaults EXCEPT !.unsafe = TRUE] ELSE Defaults}
      BY ONLY <1>1, <1>2, <1>3, <1>4, StdioServed
    <2> DEFINE last == IF args.unsafe THEN [Defaults EXCEPT !.unsafe = TRUE] ELSE Defaults
    <2>2. last.transport = "stdio" /\ last.host = DefaultHost
      BY DEF Defaults
    <2>3. last.unsafe = l.unsafe
      <3>1. CASE l.unsafe
        BY <1>1, <3>1 DEF Defaults
      <3>2. CASE ~l.unsafe
        BY <1>1, <1>2, <3>2 DEF Defaults
      <3> QED
        BY <3>1, <3>2
    <2> HIDE DEF last
    <2>4. Main(w.words) = {last}
      BY ONLY <2>1 DEF last
    <2> QED
      BY ONLY <1>4, <2>2, <2>3, <2>4 DEF ServesWhatWasTyped
  <1>5. CASE l.transport \in HttpTransports
    <2> DEFINE text == TextOf[args.port]
               typed == [transport |-> args.transport, host |-> args.host, port |-> args.port,
                         unsafe |-> args.unsafe]
    <2>1. Argument(text) /\ NumberOf[text] = args.port
      BY <1>1, <1>2, <1>3, WordsAssumption
    <2>2. Argument(args.transport)
      BY <1>1, <1>5, WordsAssumption
    <2> HIDE DEF text
    <2>3. /\ Main(ServeArgv(args, <<args.host>>)) = IF Argument(args.host) THEN {typed} ELSE {}
          /\ Main(ServeArgv(args, <<>>)) = {}
      BY ONLY <1>1, <1>2, <1>3, <1>5, <2>1, <2>2, HttpServed DEF text
    <2>4. typed.transport = l.transport /\ typed.host = l.host /\ typed.port = NumberOf[l.port]
            /\ typed.unsafe = l.unsafe
      BY <1>1
    <2>5. ~Argument(l.host) => l.host \in Dashed
      BY <1>2, WordsAssumption DEF Argument
    <2>6. l.transport # "stdio"
      BY <1>5, StdioApart
    <2> HIDE DEF typed
    <2>7. Main(w.words) = {} => l.host \in Dashed \cup {Empty}
      BY ONLY <1>1, <1>3, <2>3, <2>5
    <2>8. \A p \in Main(w.words) : p = typed
      BY ONLY <1>1, <1>3, <2>3
    <2> QED
      BY ONLY <2>4, <2>6, <2>7, <2>8 DEF ServesWhatWasTyped
  <1> QED
    BY <1>2, <1>4, <1>5

-----------------------------------------------------------------------------
\* A client that follows the URL comes to the proxy.
LEMMA TypedReached ==
  ASSUME NEW l \in Launches, NEW w \in Written(l)
  PROVE  UrlLeadsToProxy(l, w)
  <1> DEFINE host == ProbeHost(l.host)
  <1>1. /\ Typed(l).transport = l.transport /\ Typed(l).port = NumberOf[l.port]
        /\ l.host \in Hosts
    BY TypedIs, LaunchIs
  <1>2. NumberOf[l.port] \in PortRange
    BY WrittenAs
  <1>3. /\ host \notin {"0.0.0.0", "::"}
        /\ host \in Hosts \cup {"127.0.0.1", "::1"}
        /\ \/ host = l.host
           \/ <<l.host, host>> \in {<<"0.0.0.0", "127.0.0.1">>, <<"::", "::1">>}
    BY <1>1 DEF ProbeHost
  <1>4. ASSUME NEW h, NEW b \in BOOLEAN
        PROVE  LET u == Url(Typed(l), h, b)
               IN  /\ u.host = h /\ u.brackets = b /\ u.port = NumberOf[l.port]
                   /\ u.path = "/sse" <=> l.transport = "sse"
                   /\ h \in Hosts \cup {"127.0.0.1", "::1"} => u # Unset
    <2> DEFINE u == Url(Typed(l), h, b)
    <2>1. u = [host |-> h, brackets |-> b, port |-> NumberOf[l.port], path |-> Path(l.transport)]
      BY <1>1 DEF Url
    <2>2. Path(l.transport) \in {"/sse", "/mcp"} /\ (Path(l.transport) = "/sse" <=> l.transport = "sse")
      BY DEF Path
    <2> HIDE DEF u
    <2>3. h \in Hosts \cup {"127.0.0.1", "::1"} => u \in Urls
      BY ONLY <1>2, <2>1, <2>2, b \in BOOLEAN DEF Urls
    <2>4. Unset \notin Urls
      BY UnsetAssumption
    <2>5. u.host = h /\ u.brackets = b /\ u.port = NumberOf[l.port] /\ u.path = Path(l.transport)
      BY ONLY <2>1
    <2> QED
      BY <2>2, <2>3, <2>4, <2>5 DEF u
  <1>5. CASE l.cmd = "install" /\ l.transport \in HttpTransports
    <2> DEFINE b == host \in Colons
               u == Url(Typed(l), host, b)
    <2>1. w.url = u
      <3>1. w.url = EndpointUrl(Typed(l), host)
        BY <1>5, WrittenAs, StdioApart
      <3> QED
        BY ONLY <3>1 DEF EndpointUrl
    <2>2. /\ u.host = host /\ u.brackets = b /\ u.port = NumberOf[l.port]
          /\ u.path = "/sse" <=> l.transport = "sse"
          /\ u # Unset
      <3>1. b \in BOOLEAN /\ host \in Hosts \cup {"127.0.0.1", "::1"}
        BY <1>3
      <3> HIDE DEF host, b
      <3> QED
        BY <1>4, <3>1
    <2>3. l.transport # "stdio"
      BY <1>5, StdioApart
    <2> HIDE DEF host, u
    <2> QED
      BY ONLY <1>3, <2>1, <2>2, <2>3 DEF UrlLeadsToProxy
  <1>6. CASE l.cmd = "config" /\ l.transport = "stdio"
    <2>1. w.url = Unset
      BY <1>6, WrittenAs, StdioApart
    <2> QED
      BY ONLY <1>6, <2>1 DEF UrlLeadsToProxy
  <1>7. CASE l.cmd = "config" /\ l.transport \in HttpTransports
    <2> DEFINE u == Url(Typed(l), l.host, FALSE)
    <2>1. w.url = u
      BY <1>7, WrittenAs, StdioApart
    <2>2. /\ u.host = l.host /\ u.brackets = FALSE /\ u.port = NumberOf[l.port]
          /\ u.path = "/sse" <=> l.transport = "sse"
          /\ u # Unset
      BY <1>1, <1>4
    <2>3. l.transport # "stdio" /\ l.cmd # "install"
      BY <1>7, StdioApart
    <2> HIDE DEF u
    <2> QED
      BY ONLY <1>7, <2>1, <2>2, <2>3 DEF UrlLeadsToProxy
  <1> HIDE DEF host
  <1> QED
    BY ONLY <1>5, <1>6, <1>7, WrittenAs, l \in Launches, w \in Written(l)

\* What an accepted path for IDA is: one that was given, or the placeholder.
LEMMA HomeIs ==
  ASSUME NEW platform, NEW explicit \in Homes, NEW env \in Homes,
         NEW h \in ValidatedIdaHome(platform, explicit, env)
  PROVE  /\ h = Placeholder <=> {explicit, env} \subseteq {Unset, Empty}
         /\ h # Placeholder => LocateIdat(platform, "shell", h) # {}
         /\ h # Unset
  <1> DEFINE home == ResolveIdaHome(explicit, env)
  <1>1. /\ h = home.value
        /\ home.placeholder \/ LocateIdat(platform, "shell", home.value) # {}
    BY DEF ValidatedIdaHome
  <1>2. Placeholder \notin Homes /\ Placeholder # Unset
    BY PlaceholderAssumption
  <1>3. CASE explicit \notin {Unset, Empty}
    <2>1. home.value = explicit /\ home.placeholder = FALSE
      BY <1>3 DEF ResolveIdaHome
    <2> QED
      BY <1>1, <1>2, <1>3, <2>1
  <1>4. CASE explicit \in {Unset, Empty} /\ env \notin {Unset, Empty}
    <2>1. home.value = env /\ home.placeholder = FALSE
      BY <1>4 DEF ResolveIdaHome
    <2> QED
      BY <1>1, <1>2, <1>4, <2>1
  <1>5. CASE explicit \in {Unset, Empty} /\ env \in {Unset, Empty}
    <2>1. home.value = Placeholder
      BY <1>5 DEF ResolveIdaHome
    <2> QED
      BY <1>1, <1>2, <1>5, <2>1
  <1> QED
    BY <1>3, <1>4, <1>5

\* A path that is not relative means the same everywhere.
LEMMA PlaceIrrelevant ==
  ASSUME NEW platform, NEW h, h \notin Relative
  PROVE  LocateIdat(platform, "launch", h) = LocateIdat(platform, "shell", h)
  <1>1. Directory("launch", h) = Directory("shell", h)
    BY DEF Directory
  <1> QED
    BY ONLY <1>1, Zenon DEF LocateIdat

\* The proxy finds the idat that was there.
LEMMA TypedFinds ==
  ASSUME NEW l \in Launches, NEW w \in Written(l)
  PROVE  FindsIdat(l, w)
  <1> DEFINE platform == IF l.cmd = "install" THEN "win32" ELSE l.platform
  <1>1. l.home \in Homes /\ l.env \in Homes
    BY LaunchIs
  <1>2. w.home = Unset \/ w.home \in ValidatedIdaHome(platform, l.home, l.env)
    BY WrittenAs, StdioApart
  <1> HIDE DEF platform
  <1>3. ASSUME w.home # Unset
        PROVE  /\ w.home = Placeholder <=> {l.home, l.env} \subseteq {Unset, Empty}
               /\ w.home \notin Relative =>
                    /\ LocateIdat(platform, "launch", w.home) # {}
                    /\ LocateIdat(platform, "launch", w.home) = LocateIdat(platform, "shell", w.home)
    <2> DEFINE h == w.home
    <2>1. h \in ValidatedIdaHome(platform, l.home, l.env)
      BY <1>2, <1>3
    <2> HIDE DEF h
    <2>2. /\ h = Placeholder <=> {l.home, l.env} \subseteq {Unset, Empty}
          /\ h # Placeholder => LocateIdat(platform, "shell", h) # {}
      BY ONLY <1>1, <2>1, HomeIs
    <2>3. h \notin Relative => h # Placeholder
      BY PlaceholderAssumption
    <2>4. h \notin Relative => LocateIdat(platform, "launch", h) = LocateIdat(platform, "shell", h)
      BY PlaceIrrelevant
    <2> QED
      BY <2>2, <2>3, <2>4 DEF h
  <1> QED
    BY <1>3 DEF FindsIdat, platform

\* What could be written down is.
LEMMA TypedWritten ==
  ASSUME NEW l \in Launches, ~RefusedForReason(l)
  PROVE  Written(l) # {}
  <1> DEFINE platform == IF l.cmd = "install" THEN "win32" ELSE l.platform
  <1>1. /\ ~(l.transport = "stdio" /\ l.cmd = "install")
        /\ NumberOf[l.port] \in PortRange
        /\ ~(l.host = Empty /\ l.cmd = "install")
        /\ \A h \in {l.home, l.env} \ {Unset, Empty} : LocateIdat(platform, "shell", h) # {}
    BY DEF RefusedForReason
  <1> HIDE DEF platform
  <1>2. ValidatedIdaHome(platform, l.home, l.env) # {}
    <2> DEFINE home == ResolveIdaHome(l.home, l.env)
    <2>1. home.placeholder \/ home.value \in {l.home, l.env} \ {Unset, Empty}
      BY DEF ResolveIdaHome
    <2>2. home.placeholder \/ LocateIdat(platform, "shell", home.value) # {}
      BY ONLY <1>1, <2>1
    <2> QED
      BY ONLY <2>2 DEF ValidatedIdaHome
  <1>3. Typed(l).transport = l.transport /\ Typed(l).host = l.host /\ Typed(l).port = NumberOf[l.port]
    BY TypedIs
  <1>4. /\ l.cmd = "config" \/ l.cmd = "install"
        /\ l.transport = "stdio" \/ l.transport \in HttpTransports
    BY LaunchIs
  <1>5. l.transport \in TransportChoices(l.cmd)
    BY <1>1, <1>4, ChoicesAre, StdioApart
  <1>6. CASE l.cmd = "install"
    <2>1. platform = "win32" /\ SpecValid(Typed(l))
      BY <1>1, <1>3, <1>4, <1>6 DEF SpecValid, platform
    <2>2. InstalledSpec(Typed(l), l.home, l.env) # {}
      BY ONLY <1>2, <2>1 DEF InstalledSpec
    <2> QED
      BY ONLY <1>1, <1>5, <1>6, <2>2, WrittenIs, l \in Launches
  <1>7. CASE l.cmd # "install"
    <2>1. platform = l.platform
      BY <1>7 DEF platform
    <2>2. PrintMcpConfig(Typed(l), l.platform, l.home, l.env) # {}
      BY ONLY <1>2, <2>1 DEF PrintMcpConfig
    <2> QED
      BY ONLY <1>1, <1>5, <1>7, <2>2, WrittenIs, l \in Launches
  <1> QED
    BY <1>6, <1>7

\* Whatever is typed, what is written down is what the proxy then does (LaunchExact):
\* for every set of hosts, ports and paths, and every layout of the directories.
THEOREM LaunchesExact ==
  \A l \in Launches : LaunchExact(l)
  <1> SUFFICES ASSUME NEW l \in Launches
               PROVE  LaunchExact(l)
    OBVIOUS
  <1>1. Written(l) = {} => RefusedForReason(l)
    BY TypedWritten
  <1>2. ASSUME NEW w \in Written(l)
        PROVE  ServesWhatWasTyped(l, w) /\ UrlLeadsToProxy(l, w) /\ FindsIdat(l, w)
    BY TypedServed, TypedReached, TypedFinds
  <1> QED
    BY ONLY <1>1, <1>2 DEF LaunchExact

-----------------------------------------------------------------------------
\* Whatever argument is looked at reaches a tool, and whatever is typed the proxy, as what
\* it means (ArgumentsExact): for all values and types, parameter lists, numbers, texts,
\* listings and launches.
THEOREM ArgumentsAllExact == Inputs => ArgumentsExact
  <1> SUFFICES ASSUME Inputs
               PROVE  ArgumentsExact
    OBVIOUS
  <1>1. CASE \E v \in Values, a \in Annotations : input = [kind |-> "value", value |-> v, ann |-> a]
    <2>1. PICK v \in Values, a \in Annotations : input = [kind |-> "value", value |-> v, ann |-> a]
      BY <1>1
    <2>2. v \in JSON /\ a \in Declared(TRUE)[Nesting]
      BY ArgumentsAssumption
    <2>3. CoerceExact(v, a)
      BY <2>2, CoercionsExact
    <2>4. input.kind = "value" /\ input.value = v /\ input.ann = a
      BY ONLY <2>1
    <2> QED
      BY ONLY <2>3, <2>4 DEF ArgumentsExact
  <1>2. CASE \E sig \in Signatures : \E o \in Objects(sig) :
               input = [kind |-> "call", sig |-> sig, params |-> o]
    <2>1. PICK sig \in Signatures : \E o \in Objects(sig) :
                 input = [kind |-> "call", sig |-> sig, params |-> o]
      BY <1>2
    <2>2. PICK o \in Objects(sig) : input = [kind |-> "call", sig |-> sig, params |-> o]
      BY <2>1
    <2>3. \A n \in DOMAIN sig : sig[n].ann \in Declared(TRUE)[Nesting]
      BY ArgumentsAssumption
    <2>4. \A n \in DOMAIN o : o[n] \in JSON
      <3>1. PICK names : o \in [names -> Values]
        BY DEF Objects
      <3> QED
        BY <3>1, ArgumentsAssumption
    <2>5. KwargsExact(sig, o)
      BY ONLY <2>3, <2>4, CallsExact
    <2>6. input.kind = "call" /\ input.sig = sig /\ input.params = o
      BY ONLY <2>2
    <2> QED
      BY ONLY <2>5, <2>6 DEF ArgumentsExact
  <1>3. CASE \E n \in Numbers, s \in Widths : input = [kind |-> "number", number |-> n, size |-> s]
    <2>1. PICK n \in Numbers, s \in Widths : input = [kind |-> "number", number |-> n, size |-> s]
      BY <1>3
    <2>2. n \in Int /\ s \in Int \cup {Nothing}
      BY ArgumentsAssumption
    <2>3. NumberExact(n, s)
      BY ONLY <2>2, NumbersExact
    <2>4. input.kind = "number" /\ input.number = n /\ input.size = s
      BY ONLY <2>1
    <2> QED
      BY ONLY <2>3, <2>4 DEF ArgumentsExact
  <1>4. CASE \E lead \in {"", "0x", "0o"}, d \in Digits : input = [kind |-> "address", text |-> Text(lead, d)]
    <2>1. \A lead \in {"", "0x", "0o"}, d \in Digits : AddressExact(Text(lead, d))
      BY AddressesExact, ArgumentsAssumption
    <2>2. PICK t : input = [kind |-> "address", text |-> t] /\ AddressExact(t)
      BY ONLY <1>4, <2>1, Zenon
    <2>3. input.kind = "address" /\ input.text = t
      BY ONLY <2>2
    <2> QED
      BY ONLY <2>2, <2>3 DEF ArgumentsExact
  <1>5. CASE \E len, offset, count \in 0..MaxItems :
               input = [kind |-> "page", len |-> len, offset |-> offset, count |-> count]
    <2>1. PICK len, offset, count \in 0..MaxItems :
                 input = [kind |-> "page", len |-> len, offset |-> offset, count |-> count]
      BY <1>5
    <2>2. PagesExact(len, offset, count)
      BY PagesAllExact, ArgumentsAssumption
    <2>3. input.kind = "page" /\ input.len = len /\ input.offset = offset /\ input.count = count
      BY ONLY <2>1
    <2> QED
      BY ONLY <2>2, <2>3 DEF ArgumentsExact
  <1>6. CASE \E l \in Launches : input = [kind |-> "launch", launch |-> l]
    <2>1. PICK l \in Launches : input = [kind |-> "launch", launch |-> l]
      BY <1>6
    <2>2. LaunchExact(l)
      BY LaunchesExact
    <2>3. input.kind = "launch" /\ input.launch = l
      BY ONLY <2>1
    <2> QED
      BY ONLY <2>2, <2>3 DEF ArgumentsExact
  <1> QED
    BY <1>1, <1>2, <1>3, <1>4, <1>5, <1>6 DEF Inputs
=============================================================================

-------------------------------- MODULE Rpc --------------------------------
(***************************************************************************)
(* One tool call end to end: IDARpcClient.call (client.py) and other HTTP  *)
(* callers on one side, JSONRPCRequestHandler.do_POST, RPCRegistry.dispatch*)
(* and the guard of ida_sync on IDA's main thread on the other, with the   *)
(* connection between them breaking at any point.                          *)
(*                                                                         *)
(* A request is what the handler can tell apart; a reply is its result or  *)
(* its error code.                                                         *)
(***************************************************************************)
EXTENDS Naturals, Sequences

CONSTANTS
  Calls,        \* callers, each with one connection
  Tools,        \* the registered methods; all are decorated idaread / idawrite
  Nullable,     \* those annotated "X | None"
  MaxDepth,     \* bound: how deep tools may call one another
  None

ASSUME RpcAssumption ==
  /\ Nullable \subseteq Tools
  /\ None \notin Calls \cup Tools
  /\ MaxDepth \in Nat

VARIABLES
  pc,        \* caller -> "idle", "body", "wait", "done"
  req,       \* caller -> its request
  sent,      \* caller -> its request body is on the wire
  conn,      \* caller -> "none", "open" (backlog, or handled) or "closed" by IDA
  got,       \* caller -> what has been written to its connection
  outcome,   \* caller -> what the call returned or raised
  ran,       \* caller -> how its tool ended, "no" if it never began (history)
  stage,     \* the main thread: "accept", "read", "tool", "head", "body", "down"
  cur,       \* the caller whose request do_POST handles, or None
  stack,     \* the synchronised calls in progress, innermost first
  active,    \* the ContextVar _active_call
  reply      \* what do_POST is about to send, or None

callerVars == <<pc, req, sent, outcome>>
serverVars == <<stage, cur, stack, active, reply>>
vars == <<pc, req, sent, conn, got, outcome, ran, stage, cur, stack, active, reply>>

\* What is wrong with a request, in the order in which it is found out.
Refused  == {"endpoint", "length", "empty", "undecodable", "garbled", "envelope",
             "method", "notobject", "params"}
Requests == [shape : Refused, tool : {None}] \cup [shape : {"call"}, tool : Tools]
NoRequest == [shape |-> "none", tool |-> None]

Results == {"value", "marker", "null"}
Codes   == {"PARSE_ERROR", "INVALID_REQUEST", "METHOD_NOT_FOUND", "INVALID_PARAMS",
            "INTERNAL_ERROR", "INVALID_ENDPOINT", "IDA_ERROR"}
Replies == Results \cup Codes

\* How a tool can end: a value, None, a value json.dumps rejects, or an exception.
Ends == {"value", "none", "unserialisable", "ida", "sync", "other", "base"}

TypeOK ==
  /\ pc \in [Calls -> {"idle", "body", "wait", "done"}]
  /\ req \in [Calls -> Requests \cup {NoRequest}]
  /\ sent \in [Calls -> BOOLEAN]
  /\ conn \in [Calls -> {"none", "open", "closed"}]
  /\ got \in [Calls -> {"nothing", "head"} \cup Replies]
  /\ outcome \in [Calls -> {"none", "transport", "incomplete"} \cup Replies]
  /\ ran \in [Calls -> {"no", "running"} \cup Ends]
  /\ stage \in {"accept", "read", "tool", "head", "body", "down"}
  /\ cur \in Calls \cup {None}
  /\ stack \in Seq([tool : Tools, token : Tools \cup {None}])
  /\ active \in Tools \cup {None}
  /\ reply \in Replies \cup {"unserialisable", None}

Init ==
  /\ pc = [c \in Calls |-> "idle"]
  /\ req = [c \in Calls |-> NoRequest]
  /\ sent = [c \in Calls |-> FALSE]
  /\ conn = [c \in Calls |-> "none"]
  /\ got = [c \in Calls |-> "nothing"]
  /\ outcome = [c \in Calls |-> "none"]
  /\ ran = [c \in Calls |-> "no"]
  /\ stage = "accept"
  /\ cur = None
  /\ stack = <<>>
  /\ active = None
  /\ reply = None

-----------------------------------------------------------------------------
(* The caller.                                                             *)

Finish(c, how) ==
  /\ outcome' = [outcome EXCEPT ![c] = how]
  /\ pc' = [pc EXCEPT ![c] = "done"]

\* Connect and send the header; refused when the server is down.
Begin(c) ==
  /\ pc[c] = "idle"
  /\ req' \in {[req EXCEPT ![c] = r] : r \in Requests}
  /\ \/ /\ stage = "down"
        /\ Finish(c, "transport")
        /\ UNCHANGED conn
     \/ /\ stage # "down"
        /\ conn' = [conn EXCEPT ![c] = "open"]
        /\ pc' = [pc EXCEPT ![c] = "body"]
        /\ UNCHANGED outcome
  /\ UNCHANGED <<sent, got, ran, serverVars>>

SendBody(c) ==
  /\ pc[c] = "body"
  /\ sent' = [sent EXCEPT ![c] = TRUE]
  /\ pc' = [pc EXCEPT ![c] = "wait"]
  /\ UNCHANGED <<req, conn, got, outcome, ran, serverVars>>

\* A whole response has been read: parse_response returns its result or raises
\* RemoteJSONRPCError with its code.
Receive(c) ==
  /\ pc[c] = "wait"
  /\ got[c] \in Replies
  /\ Finish(c, got[c])
  /\ UNCHANGED <<req, sent, conn, got, ran, serverVars>>

\* The connection ended early. An OSError becomes IDARpcTransportError; a response
\* cut off after its header is http.client.IncompleteRead, which is none.
Broken(c) ==
  /\ pc[c] \in {"body", "wait"}
  /\ conn[c] = "closed"
  /\ \/ pc[c] = "body" /\ Finish(c, "transport")
     \/ pc[c] = "wait" /\ got[c] = "nothing" /\ Finish(c, "transport")
     \/ pc[c] = "wait" /\ got[c] = "head" /\ Finish(c, "incomplete")
  /\ UNCHANGED <<req, sent, conn, got, ran, serverVars>>

\* A time-out, or the end of the calling process.
GiveUp(c) ==
  /\ pc[c] \in {"body", "wait"}
  /\ Finish(c, "transport")
  /\ UNCHANGED <<req, sent, conn, got, ran, serverVars>>

Gone(c) == pc[c] = "done"

-----------------------------------------------------------------------------
(* The main thread: taking a request apart.                                *)

Accept ==
  /\ stage = "accept"
  /\ \E c \in Calls : conn[c] = "open" /\ cur' = c
  /\ stage' = "read"
  /\ UNCHANGED <<callerVars, conn, got, ran, stack, active, reply>>

Respond(r) == reply' = r /\ stage' = "head"

\* The connection of the request is closed; on to the next.
Close ==
  /\ conn' = [conn EXCEPT ![cur] = "closed"]
  /\ cur' = None
  /\ reply' = None
  /\ stage' = "accept"

\* What do_POST finds wrong before it reads the body.
HeaderRefusal ==
  [endpoint |-> "INVALID_ENDPOINT", length |-> "INVALID_REQUEST", empty |-> "PARSE_ERROR"]

\* What json.loads, validate_request_envelope, dispatch and _build_kwargs refuse.
BodyRefusal ==
  [garbled |-> "PARSE_ERROR", envelope |-> "INVALID_REQUEST", method |-> "METHOD_NOT_FOUND",
   notobject |-> "INVALID_REQUEST", params |-> "INVALID_PARAMS"]

RefuseHeader ==
  /\ stage = "read"
  /\ req[cur].shape \in DOMAIN HeaderRefusal
  /\ Respond(HeaderRefusal[req[cur].shape])
  /\ UNCHANGED <<callerVars, conn, got, ran, cur, stack, active>>

\* Mutated: reads until it has as many bytes as were announced.
RefuseBodyInsists ==
  /\ stage = "read"
  /\ sent[cur]
  /\ req[cur].shape \in DOMAIN BodyRefusal
  /\ Respond(BodyRefusal[req[cur].shape])
  /\ UNCHANGED <<callerVars, conn, got, ran, cur, stack, active>>

\* rfile.read waits for the body; a caller that left before sending it leaves an
\* empty one.
RefuseBody ==
  /\ stage = "read"
  /\ req[cur].shape \notin DOMAIN HeaderRefusal
  /\ \/ sent[cur] /\ req[cur].shape \in DOMAIN BodyRefusal
                  /\ Respond(BodyRefusal[req[cur].shape])
     \/ ~sent[cur] /\ Gone(cur) /\ Respond("PARSE_ERROR")
  /\ UNCHANGED <<callerVars, conn, got, ran, cur, stack, active>>

\* Bytes that are no text raise something else than JSONDecodeError: do_POST ends,
\* and socketserver closes the connection.
FailToDecode ==
  /\ stage = "read"
  /\ sent[cur]
  /\ req[cur].shape = "undecodable"
  /\ Close
  /\ UNCHANGED <<callerVars, got, ran, stack, active>>

-----------------------------------------------------------------------------
(* The main thread: running the tool.                                      *)

\* Mutated: the runner does not look at _active_call.
AdmitsAlways == TRUE

\* The runner's test.
Admits == active = None

\* _active_call.set keeps the old value as its token.
Enter(t) ==
  /\ Len(stack) < MaxDepth
  /\ stack' = <<[tool |-> t, token |-> active]>> \o stack
  /\ active' = t

\* Mutated: the result of the tool is sent as it is.
ReplyToAsIs(t, e) ==
  IF e \in {"value", "none", "unserialisable"} THEN e
  ELSE IF e = "ida" THEN "IDA_ERROR"
  ELSE "INTERNAL_ERROR"

\* Mutated: the marker is sent for every None.
ReplyToMarks(t, e) ==
  IF e \in {"value", "unserialisable"} THEN e
  ELSE IF e = "none" THEN "marker"
  ELSE IF e = "ida" THEN "IDA_ERROR"
  ELSE "INTERNAL_ERROR"

\* None becomes {"ok": true} unless the tool declares it; code_for_exception knows
\* IDAError, and do_POST turns every other Exception into an internal error.
ReplyTo(t, e) ==
  IF e \in {"value", "unserialisable"} THEN e
  ELSE IF e = "none" THEN (IF t \in Nullable THEN "null" ELSE "marker")
  ELSE IF e = "ida" THEN "IDA_ERROR"
  ELSE "INTERNAL_ERROR"

Dispatch ==
  /\ stage = "read"
  /\ sent[cur]
  /\ req[cur].shape = "call"
  /\ IF Admits
     THEN /\ Enter(req[cur].tool)
          /\ ran' = [ran EXCEPT ![cur] = "running"]
          /\ stage' = "tool"
          /\ UNCHANGED reply
     ELSE /\ Respond("INTERNAL_ERROR")    \* IDASyncError out of dispatch
          /\ UNCHANGED <<ran, stack, active>>
  /\ UNCHANGED <<callerVars, conn, got, cur>>

\* The loop is over: the socket is closed and with it every connection.
Down ==
  /\ stage' = "down"
  /\ conn' = [c \in Calls |-> IF conn[c] = "open" THEN "closed" ELSE conn[c]]
  /\ cur' = None
  /\ stack' = <<>>
  /\ active' = None
  /\ reply' = None

\* The innermost synchronised call ends with e; the slot is reset on every path,
\* and execute_sync's caller gets the value or the exception. Only an exception
\* outside Exception passes do_POST, socketserver and the serve loop.
Leave(e) ==
  LET top == Head(stack)
  IN IF Len(stack) > 1
     THEN /\ stack' = Tail(stack)
          /\ active' = top.token
          /\ UNCHANGED <<conn, ran, stage, cur, reply>>
     ELSE /\ ran' = [ran EXCEPT ![cur] = e]
          /\ \/ e = "base" /\ Down
             \/ /\ e # "base"
                /\ stack' = <<>>
                /\ active' = top.token
                /\ Respond(ReplyTo(top.tool, e))
                /\ UNCHANGED <<conn, cur>>

EndTool ==
  /\ stage = "tool"
  /\ \E e \in Ends \ {"sync"} : Leave(e)
  /\ UNCHANGED <<callerVars, got>>

\* A tool calls another one. It is refused, and the tool may let the IDASyncError
\* through (or catch it and go on, which changes nothing).
Nest ==
  /\ stage = "tool"
  /\ IF Admits
     THEN (\E t \in Tools : Enter(t)) /\ UNCHANGED <<conn, ran, stage, cur, reply>>
     ELSE Leave("sync")
  /\ UNCHANGED <<callerVars, got>>

-----------------------------------------------------------------------------
(* The main thread: sending the reply.                                     *)

Write(what) == got' = [got EXCEPT ![cur] = IF Gone(cur) THEN @ ELSE what]

\* Mutated: the request is handled once more.
WriteFailsRepeats ==
  /\ Gone(cur)
  /\ reply' = None
  /\ stage' = "read"
  /\ UNCHANGED <<conn, cur, got>>

\* An OSError while a result is sent is caught by do_POST's last clause, which
\* tries an internal error; anywhere else the request ends there.
WriteFails ==
  /\ Gone(cur)
  /\ \/ reply \in Results /\ Respond("INTERNAL_ERROR") /\ UNCHANGED <<conn, cur>>
     \/ reply \in Codes /\ Close
  /\ UNCHANGED got

\* _send_json: json.dumps, then the header ...
SendHead ==
  /\ stage = "head"
  /\ \/ /\ reply = "unserialisable"
        /\ Respond("INTERNAL_ERROR")
        /\ UNCHANGED <<conn, cur, got>>
     \/ /\ reply \in Replies
        /\ Write("head")
        /\ stage' = "body"
        /\ UNCHANGED <<conn, cur, reply>>
     \/ WriteFails
  /\ UNCHANGED <<callerVars, ran, stack, active>>

SendReply ==                               \* ... and the body
  /\ stage = "body"
  /\ \/ Write(reply) /\ Close
     \/ WriteFails
  /\ UNCHANGED <<callerVars, ran, stack, active>>

Shutdown == stage = "accept" /\ Down /\ UNCHANGED <<callerVars, got, ran>>

Die == stage # "down" /\ Down /\ UNCHANGED <<callerVars, got, ran>>

-----------------------------------------------------------------------------
Caller(c) == SendBody(c) \/ Receive(c) \/ Broken(c)

Server ==
  \/ Accept \/ RefuseHeader \/ RefuseBody \/ FailToDecode
  \/ Dispatch \/ EndTool \/ SendHead \/ SendReply

Next ==
  \/ \E c \in Calls : Begin(c) \/ Caller(c) \/ GiveUp(c)
  \/ Server \/ Nest \/ Shutdown \/ Die

Spec == Init /\ [][Next]_vars

Fairness == WF_vars(Server) /\ \A c \in Calls : WF_vars(Caller(c))

FairSpec == Spec /\ Fairness

-----------------------------------------------------------------------------
(* Properties.                                                             *)

\* Synchronised code never runs inside synchronised code, and _active_call names
\* the tool that runs and nothing when none does, however the last one ended: a
\* slot that leaked would make every later call of the session fail.
SyncExclusive ==
  /\ Len(stack) <= 1
  /\ active = IF stack = <<>> THEN None ELSE stack[1].tool
  /\ stack # <<>> <=> stage = "tool"

\* What reply r says of the call c.
Tells(r, c) ==
  /\ r \in {"value", "unserialisable"} => ran[c] = r
  /\ r \in {"marker", "null"} => ran[c] = "none"
  /\ r = "null" => req[c].tool \in Nullable
  /\ r = "marker" => req[c].tool \notin Nullable
  /\ r = "IDA_ERROR" => ran[c] = "ida"
  /\ r = "INTERNAL_ERROR" => ran[c] \in {"unserialisable", "sync", "other"}
  /\ r \in Codes \ {"IDA_ERROR", "INTERNAL_ERROR"} => ran[c] = "no"

\* What the caller learns is what happened in IDA to its own tool: a result or a
\* domain error only if the tool ended that way, and a refusal only if the tool
\* has not run at all, so that the call can be put right and repeated.
OutcomeTruthful == \A c \in Calls : Tells(outcome[c], c)

\* A caller that waits gets an answer or an error without help from its time-out:
\* no request, failed reply or vanished caller blocks the one main thread.
AnswersArrive == \A c \in Calls : pc[c] = "wait" ~> pc[c] = "done"

\* What a caller has asked for.
Asked == [c \in Calls |-> IF pc[c] = "idle" THEN {} ELSE {req[c].tool}]

C == INSTANCE Call WITH asked <- Asked, run <- ran, answer <- outcome, up <- stage # "down"

\* The call's promise: whatever happens to connections, requests and callers, a tool
\* runs at most once for a call, never two at a time, never for a request that was
\* refused nor after its call was answered, and no answer comes before its tool ended
\* (do_POST, dispatch, ida_sync and call together).
CallImplemented == C!Spec
=============================================================================

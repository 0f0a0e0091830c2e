------------------------------- MODULE Tools -------------------------------
(***************************************************************************)
(* The tools that change the database or the debugged process, one IDA     *)
(* process, one call at a time.  What IDA's own functions do is outside    *)
(* the repository: each may refuse, and does one thing if it does not.     *)
(***************************************************************************)
EXTENDS Names, Sequences

CONSTANTS
  MemberNames, FrameSize, Frame0,   \* stack frames: names, bytes, the frames at the start
  Fp,                               \* frame offset of the frame pointer
  LocalNames, Locals0,              \* local variables: names, and who has which at the start
  Types, SizeOf,                    \* types that parse, and their sizes
  Comments,
  InEamap,                          \* address -> the address its pseudocode comment hangs on, or None
  Instructions, InstrSize,
  Requests,                         \* what patch_address_assembles is given
  Entries,                          \* entry points
  MaxSteps                          \* bound on calls that may write, and on analyses

Members == [name : MemberNames, off : 0..(FrameSize - 1), type : Types, special : BOOLEAN]

Span(m) == m.off .. (m.off + SizeOf[m.type] - 1)

\* What IDA sees to in a frame: its members lie in it, side by side, with a name of
\* their own each.
WellFormed(members) ==
  /\ \A m \in members : m.off + SizeOf[m.type] <= FrameSize
  /\ \A m, x \in members : m # x => m.name # x.name /\ Span(m) \cap Span(x) = {}

ASSUME ToolsAssumption ==
  /\ FrameSize \in Nat /\ Fp \in 0..FrameSize /\ MaxSteps \in Nat
  /\ SizeOf \in [Types -> Nat \ {0}]
  /\ Frame0 \in [Addrs -> SUBSET Members]
  /\ \A a \in Addrs : WellFormed(Frame0[a])
  /\ Locals0 \in [Addrs -> [LocalNames -> Types \cup {None}]]
  /\ InEamap \in [Addrs -> Addrs \cup {None}]
  /\ InstrSize \in [Instructions -> Nat \ {0}]
  /\ Requests \subseteq Seq(Instructions)
  /\ Entries \subseteq Addrs
  /\ None \notin Types \cup Comments \cup Instructions

VARIABLES
  frame,     \* function -> the members of its stack frame
  lvar,      \* function -> local variable -> its type, or None if there is none of that name
  typed,     \* address -> the type applied there, or None
  local,     \* local types that were declared
  cmt,       \* address -> its comment in the disassembly, or None
  mirror,    \* address -> the comment in the pseudocode, or None
  orphans,   \* pseudocode comments have lost their place
  code,      \* address -> the instruction patched there, or None
  bpt,       \* address -> "none", "on" or "off"
  debuggee,  \* "none", "paused" or "running"
  steps      \* calls that may write and analyses so far

stackVars == <<frame, lvar>>
typeVars  == <<typed, local>>
cmtVars   == <<cmt, mirror, orphans>>
dbgVars   == <<bpt, debuggee>>
toolVars  == <<stackVars, typeVars, cmtVars, code, dbgVars>>
vars      == <<nameVars, reply, toolVars, steps>>

TypeOK ==
  /\ NamesTypeOK
  /\ frame \in [Addrs -> SUBSET Members]
  /\ lvar \in [Addrs -> [LocalNames -> Types \cup {None}]]
  /\ typed \in [Addrs -> Types \cup {None}]
  /\ local \in SUBSET Types
  /\ cmt \in [Addrs -> Comments \cup {None}]
  /\ mirror \in [Addrs -> Comments \cup {None}]
  /\ orphans \in BOOLEAN
  /\ code \in [Addrs -> Instructions \cup {None}]
  /\ bpt \in [Addrs -> {"none", "on", "off"}]
  /\ debuggee \in {"none", "paused", "running"}
  /\ steps \in 0..MaxSteps

Init ==
  /\ NamesInit
  /\ frame = Frame0
  /\ lvar = Locals0
  /\ typed = [a \in Addrs |-> None]
  /\ local = {}
  /\ cmt = [a \in Addrs |-> None]
  /\ mirror = [a \in Addrs |-> None]
  /\ orphans = FALSE
  /\ code = [a \in Addrs |-> None]
  /\ bpt = [a \in Addrs |-> "none"]
  /\ debuggee = "none"
  /\ steps = 0

\* A call that resolves a function target and works on the function.
OnFunction(tool, t, args, Work(_)) ==
  /\ \E r \in Resolve(t) :
       LET f == FunctionAt(r.ea)
       IN  /\ cache' = r.map
           /\ \/ f # None /\ Work(f) /\ Reply(tool, t, args, f, TRUE)
              \/ UNCHANGED toolVars /\ Refused(tool, t, f)
  /\ UNCHANGED <<owner, name, hooked>>

\* A call about an address.
OnAddress(tool, t, args, Work(_)) ==
  /\ \/ EaOf[t] # None /\ Work(EaOf[t]) /\ Reply(tool, t, args, EaOf[t], TRUE)
     \/ UNCHANGED toolVars /\ Refused(tool, t, EaOf[t])
  /\ UNCHANGED nameVars

-----------------------------------------------------------------------------
(* Stack frames: stack.py.                                                 *)

\* _args_region_start: the end of the last special member; 0 if there is none.
ArgsStart(f) ==
  LET ends == {0} \cup {m.off + SizeOf[m.type] : m \in {x \in frame[f] : x.special}}
  IN  CHOOSE e \in ends : \A x \in ends : x <= e

\* Mutated: special members are not looked for.
CheckMutableBelow(f, m) == ArgsStart(f) = 0 \/ m.off < ArgsStart(f)

\* _check_mutable
CheckMutable(f, m) == ~m.special /\ (ArgsStart(f) = 0 \/ m.off < ArgsStart(f))

\* _resolve_frame_member; no frame, or no such member, is an error.
FrameMember(f, n) == {m \in frame[f] : m.name = n}

\* IDA's define_stkvar replaces what it overlaps.
DefineStkvar(f, n, fpoff, ty) ==
  LET new  == [name |-> n, off |-> fpoff + Fp, type |-> ty, special |-> FALSE]
      kept == {m \in frame[f] : Span(m) \cap Span(new) = {}}
  IN  /\ fpoff + Fp >= 0 /\ fpoff + Fp + SizeOf[ty] <= FrameSize
      /\ \A m \in kept : m.name # n
      /\ frame' = [frame EXCEPT ![f] = kept \cup {new}]
      /\ UNCHANGED <<lvar, typeVars, cmtVars, code, dbgVars>>

RenameStackVariable(t, old, new) ==
  OnFunction("rename_stack_frame_variable", t, <<old, new>>,
    LAMBDA f : \E m \in FrameMember(f, old) :
                 CheckMutable(f, m) /\ DefineStkvar(f, new, m.off - Fp, m.type))

\* The offset is the frame pointer's, and what is there is overwritten.
CreateStackVariable(t, fpoff, n, ty) ==
  OnFunction("create_stack_frame_variable", t, <<fpoff + Fp, n, ty>>,
    LAMBDA f : frame[f] # {} /\ DefineStkvar(f, n, fpoff, ty))

\* IDA's set_frame_member_type wants room for the type.
SetStackVariableType(t, n, ty) ==
  OnFunction("set_stack_frame_variable_type", t, <<n, ty>>,
    LAMBDA f : \E m \in FrameMember(f, n) :
      LET new == [m EXCEPT !.type = ty]
      IN  /\ new.off + SizeOf[ty] <= FrameSize
          /\ \A x \in frame[f] \ {m} : Span(x) \cap Span(new) = {}
          /\ frame' = [frame EXCEPT ![f] = (@ \ {m}) \cup {new}]
          /\ UNCHANGED <<lvar, typeVars, cmtVars, code, dbgVars>>)

\* delete_frame_members takes away what it meets in the range.
DeleteStackVariable(t, n) ==
  OnFunction("delete_stack_frame_variable", t, <<n>>,
    LAMBDA f : \E m \in FrameMember(f, n) :
      /\ CheckMutable(f, m)
      /\ frame' = [frame EXCEPT ![f] = {x \in @ : Span(x) \cap Span(m) = {}}]
      /\ UNCHANGED <<lvar, typeVars, cmtVars, code, dbgVars>>)

-----------------------------------------------------------------------------
(* Types and local variables: type_editing.py, rename.py.                  *)

\* parse_c_type: for a declaration that does not parse it raises, or gives an empty
\* type (None), as the value of parse_decl is not looked at.
Parse(d) == IF d \in Types THEN d ELSE None

RenameLocalVariable(t, old, new) ==
  OnFunction("rename_local_variable", t, <<old, new>>,
    LAMBDA f :
      /\ lvar[f][old] # None
      /\ old = new \/ lvar[f][new] = None
      /\ lvar' = [lvar EXCEPT ![f] = [@ EXCEPT ![old] = None, ![new] = lvar[f][old]]]
      /\ UNCHANGED <<frame, typeVars, cmtVars, code, dbgVars>>)

\* A rename to itself makes sure that IDA keeps a record of the variable.  A type that
\* is empty leaves the choice to the decompiler.  The type comes first: if it raises,
\* the function is not looked for.
SetLocalVariableType(t, n, d) ==
  \/ OnFunction("set_local_variable_type", t, <<n, d>>,
       LAMBDA f :
         /\ lvar[f][n] # None
         /\ \E ty \in IF Parse(d) = None THEN Types ELSE {Parse(d)} :
              lvar' = [lvar EXCEPT ![f][n] = ty]
         /\ UNCHANGED <<frame, typeVars, cmtVars, code, dbgVars>>)
  \/ /\ Parse(d) = None
     /\ Refused("set_local_variable_type", None, None)
     /\ UNCHANGED <<nameVars, toolVars>>

\* apply_tinfo refuses an empty type.
SetFunctionPrototype(t, d) ==
  OnFunction("set_function_prototype", t, <<d>>,
    LAMBDA f :
      /\ Parse(d) # None
      /\ typed' = [typed EXCEPT ![f] = Parse(d)]
      /\ UNCHANGED <<stackVars, local, cmtVars, code, dbgVars>>)

SetGlobalType(t, d) ==
  LET ea == NameOrAddress(t)
  IN  /\ \/ /\ ea # None /\ Parse(d) # None
            /\ typed' = [typed EXCEPT ![ea] = Parse(d)]
            /\ UNCHANGED <<stackVars, local, cmtVars, code, dbgVars>>
            /\ Reply("set_global_variable_type", t, <<d>>, ea, TRUE)
         \/ UNCHANGED toolVars /\ Refused("set_global_variable_type", t, ea)
      /\ UNCHANGED nameVars

\* IDA goes on after an error: what else is declared stays.
DeclareCType(ds) ==
  /\ \E done \in SUBSET (ds \cap Types) :
       /\ local' = local \cup done
       /\ Reply("declare_c_type", None, <<ds>>, None, done = ds)
  /\ UNCHANGED <<nameVars, stackVars, typed, cmtVars, code, dbgVars>>

-----------------------------------------------------------------------------
(* Comments: comments.py.                                                  *)

\* Mirrored in the pseudocode: not at all, if it does not decompile or has no place for
\* it; on the function; or where the first candidate sticks, if one does.  Comments
\* that have lost their place are thrown away first.
Attach(ea, c) ==
  \/ UNCHANGED <<mirror, orphans>>
  \/ /\ owner[ea] = ea
     /\ mirror' = [mirror EXCEPT ![ea] = c]
     /\ UNCHANGED orphans
  \/ /\ owner[ea] \notin {None, ea} /\ InEamap[ea] # None
     /\ mirror' \in {mirror, [mirror EXCEPT ![InEamap[ea]] = c]}
     /\ orphans' = FALSE

\* The comment in the disassembly decides.  An SDK without any of the ITP constants is
\* the exception: then the mirror raises.
SetComment(t, c) ==
  /\ \/ /\ EaOf[t] # None
        /\ cmt' = [cmt EXCEPT ![EaOf[t]] = c]
        /\ Attach(EaOf[t], c)
        /\ Reply("set_comment", t, <<c>>, EaOf[t], TRUE)
     \/ UNCHANGED cmtVars /\ Refused("set_comment", t, EaOf[t])
  /\ UNCHANGED <<nameVars, stackVars, typeVars, code, dbgVars>>

-----------------------------------------------------------------------------
(* Patches and breakpoints: patch.py, debug_breakpoints.py.                *)

\* Bytes before the nth of these instructions.
Before(p, n) ==
  LET b[i \in 1..Len(p)] == IF i = 1 THEN 0 ELSE b[i - 1] + InstrSize[p[i - 1]] IN b[n]

\* The place of the nth instruction.
Place(ea, p, n) == (ea + Before(p, n)) .. (ea + Before(p, n) + InstrSize[p[n]] - 1)

Patched(ea, p, k) ==
  [a \in Addrs |-> IF \E n \in 1..k : a \in Place(ea, p, n)
                   THEN p[CHOOSE n \in 1..k : a \in Place(ea, p, n)] ELSE code[a]]

\* One instruction after the other, until one does not assemble or cannot be written.
Patch(t, p) ==
  /\ \/ /\ EaOf[t] # None
        /\ \E k \in 1..Len(p) :
             /\ code' = Patched(EaOf[t], p, k)
             /\ Reply("patch_address_assembles", t, p, EaOf[t], k = Len(p))
     \/ UNCHANGED code /\ Refused("patch_address_assembles", t, EaOf[t])
  /\ UNCHANGED <<nameVars, stackVars, typeVars, cmtVars, dbgVars>>

SetBreakpoint(t) ==
  OnAddress("dbg_set_breakpoint", t, <<>>,
    LAMBDA a : /\ bpt' = [bpt EXCEPT ![a] = IF @ = "none" THEN "on" ELSE @]
               /\ UNCHANGED <<stackVars, typeVars, cmtVars, code, debuggee>>)

DeleteBreakpoint(t) ==
  OnAddress("dbg_delete_breakpoint", t, <<>>,
    LAMBDA a : /\ bpt[a] # "none" /\ bpt' = [bpt EXCEPT ![a] = "none"]
               /\ UNCHANGED <<stackVars, typeVars, cmtVars, code, debuggee>>)

EnableBreakpoint(t, enable) ==
  OnAddress("dbg_enable_breakpoint", t, <<enable>>,
    LAMBDA a : /\ bpt[a] # "none"
               /\ bpt' = [bpt EXCEPT ![a] = IF enable THEN "on" ELSE "off"]
               /\ UNCHANGED <<stackVars, typeVars, cmtVars, code, debuggee>>)

-----------------------------------------------------------------------------
(* The debugged process: debug_control.py.                                 *)

\* IDA tells where the process is only while it is paused; else current_ip_hex raises,
\* whatever was done before.
HasIp == debuggee' = "paused"

\* _seed_entry_breakpoints, if there is no breakpoint yet; each may be refused.
Seeds(auto) ==
  IF auto /\ \A a \in Addrs : bpt[a] = "none" THEN SUBSET Entries ELSE {{}}

StartProcess(auto) ==
  /\ \E new \in Seeds(auto) : bpt' = [a \in Addrs |-> IF a \in new THEN "on" ELSE bpt[a]]
  /\ \/ UNCHANGED debuggee
     \/ debuggee = "none" /\ debuggee' \in {"paused", "running"}
  /\ Reply("dbg_start_process", None, <<auto>>, None, debuggee = "none" /\ HasIp)
  /\ UNCHANGED <<nameVars, stackVars, typeVars, cmtVars, code>>

ExitProcess ==
  /\ \/ UNCHANGED debuggee
     \/ debuggee # "none" /\ debuggee' = "none"
  /\ Reply("dbg_exit_process", None, <<>>, None, debuggee' # debuggee)
  /\ UNCHANGED <<nameVars, stackVars, typeVars, cmtVars, code, bpt>>

\* dbg_continue_process, dbg_run_to, dbg_step_into, dbg_step_over: refused, or done, and
\* then the process is somewhere else, still running, or gone.
Move ==
  /\ \/ UNCHANGED debuggee /\ Refused("dbg_continue_process", None, None)
     \/ /\ debuggee = "paused"
        /\ debuggee' \in {"paused", "running", "none"}
        /\ Reply("dbg_continue_process", None, <<>>, None, HasIp)
  /\ UNCHANGED <<nameVars, stackVars, typeVars, cmtVars, code, bpt>>

-----------------------------------------------------------------------------

Rename ==
  /\ \/ \E t \in Texts, n \in RawNames \cup {None} : RenameFunction(t, n) \/ RenameGlobal(t, n)
  /\ UNCHANGED toolVars

Stack ==
  \E t \in Texts, n \in MemberNames :
    \/ \E new \in MemberNames : RenameStackVariable(t, n, new)
    \/ \E off \in 0..(FrameSize - 1), ty \in Types : CreateStackVariable(t, off - Fp, n, ty)
    \/ \E ty \in Types : SetStackVariableType(t, n, ty)
    \/ DeleteStackVariable(t, n)

\* None is a declaration that does not parse.
Typing ==
  \/ \E t \in Texts, n \in LocalNames :
       \/ \E new \in LocalNames : RenameLocalVariable(t, n, new)
       \/ \E d \in Types \cup {None} : SetLocalVariableType(t, n, d)
  \/ \E t \in Texts, d \in Types \cup {None} : SetFunctionPrototype(t, d) \/ SetGlobalType(t, d)
  \/ \E ds \in SUBSET (Types \cup {None}) : DeclareCType(ds)

Annotate ==
  \E t \in Texts :
    \/ \E c \in Comments \cup {None} : SetComment(t, c)
    \/ \E p \in Requests : Patch(t, p)

Debug ==
  \/ \E t \in Texts : SetBreakpoint(t) \/ DeleteBreakpoint(t)
  \/ \E t \in Texts, enable \in BOOLEAN : EnableBreakpoint(t, enable)
  \/ \E auto \in BOOLEAN : StartProcess(auto)
  \/ ExitProcess \/ Move

Write ==
  /\ steps < MaxSteps /\ steps' = steps + 1
  /\ Rename \/ Stack \/ Typing \/ Annotate \/ Debug

Read == (\E t \in Texts : GetFunction(t)) /\ UNCHANGED <<toolVars, steps>>

\* IDA's own doing: analysis, with which a function's frame and variables go and
\* comments may lose their place, and the debugged process coming to a halt.
Ida ==
  \/ /\ steps < MaxSteps /\ steps' = steps + 1
     /\ Reanalyse
     /\ frame' = [a \in Addrs |-> IF owner'[a] = a THEN frame[a] ELSE {}]
     /\ lvar' = [a \in Addrs |-> IF owner'[a] = a THEN lvar[a] ELSE [n \in LocalNames |-> None]]
     /\ orphans' \in BOOLEAN
     /\ UNCHANGED <<typeVars, cmt, mirror, code, dbgVars>>
  \/ /\ debuggee = "running" /\ debuggee' \in {"paused", "none"}
     /\ reply' = NoReply
     /\ UNCHANGED <<nameVars, stackVars, typeVars, cmtVars, code, bpt, steps>>

Next == Write \/ Read \/ Ida

Spec == Init /\ [][Next]_vars

-----------------------------------------------------------------------------
(* Properties.                                                             *)

FunctionTools ==
  {"get_function", "rename_function", "rename_stack_frame_variable",
   "create_stack_frame_variable", "set_stack_frame_variable_type",
   "delete_stack_frame_variable", "rename_local_variable", "set_local_variable_type",
   "set_function_prototype"}

\* A call that is given a function acts on the one that is meant: with the hooks in
\* place, some address of it parses from the text, or bears it as a raw or demangled
\* name at the time of the call, whatever was renamed and analysed since the map was
\* built.  And no call says that there is no such function while a function bears the
\* name, hooks or not, except where the map leads to a function that is gone, or where
\* a variable has the very name (resolve_function_target, idb_hooks).
TargetResolved ==
  [][LET r == reply'
         t == r.target
     IN  r # reply /\ r.tool \in FunctionTools /\ t # None =>
           /\ hooked /\ r.at # None => \E a \in Addrs : owner[a] = r.at /\ Bears(a, t)
           /\ r.at = None =>
                /\ EaOf[t] # None => owner[EaOf[t]] = None
                /\ \A a \in FunctionStarts :
                     /\ name[a] # t
                     /\ PrettyName(a) = t => NameEa(t) # None \/ Outdated(t)
    ]_vars

Changed(old, new) == {x \in DOMAIN old : old[x] # new[x]}

\* What differs after the step.
Touched ==
  ({"name"} \X Changed(name, name')) \cup ({"frame"} \X Changed(frame, frame'))
    \cup ({"lvar"} \X Changed(lvar, lvar')) \cup ({"typed"} \X Changed(typed, typed'))
    \cup ({"cmt"} \X Changed(cmt, cmt')) \cup ({"mirror"} \X Changed(mirror, mirror'))
    \cup ({"code"} \X Changed(code, code')) \cup ({"bpt"} \X Changed(bpt, bpt'))
    \cup ({"local"} \X (local' \ local)) \cup ({"lost"} \X (local \ local'))
    \cup (IF debuggee' = debuggee THEN {} ELSE {<<"debuggee", None>>})

\* What a call was about.
Subject(r) ==
  CASE r.tool \in {"rename_function", "rename_global_variable"} -> {<<"name", r.at>>}
    [] r.tool \in {"rename_stack_frame_variable", "create_stack_frame_variable",
                   "set_stack_frame_variable_type", "delete_stack_frame_variable"} ->
         {<<"frame", r.at>>}
    [] r.tool \in {"rename_local_variable", "set_local_variable_type"} -> {<<"lvar", r.at>>}
    [] r.tool \in {"set_function_prototype", "set_global_variable_type"} -> {<<"typed", r.at>>}
    [] r.tool = "declare_c_type" -> {"local"} \X r.args[1]
    [] r.tool = "set_comment" ->
         {<<"cmt", r.at>>, <<"mirror", r.at>>} \cup {<<"mirror", InEamap[a]>> : a \in Addrs \cap {r.at}}
    [] r.tool = "patch_address_assembles" -> {"code"} \X Addrs
    [] r.tool \in {"dbg_set_breakpoint", "dbg_delete_breakpoint", "dbg_enable_breakpoint"} ->
         {<<"bpt", r.at>>}
    [] r.tool = "dbg_start_process" -> {<<"debuggee", None>>} \cup ({"bpt"} \X Entries)
    [] r.tool = "get_function" -> {}
    [] OTHER -> {<<"debuggee", None>>}

\* The calls that may have done something before they fail.
Partial == {"patch_address_assembles", "declare_c_type", "dbg_start_process",
            "dbg_continue_process"}

\* Not an argument: a special member lies behind it, or there is none in the frame.
BeforeSpecial(f, m) ==
  (\E x \in frame[f] : x.special) => \E x \in frame[f] : x.special /\ x.off > m.off

\* One member of the frame, which has this name, becomes what New says, and no other.
OneMember(f, n, Good(_), New(_)) ==
  \E m \in frame[f] : m.name = n /\ Good(m) /\ frame'[f] = (frame[f] \ {m}) \cup New(m)

\* The first k instructions are in the code, one behind the other.
InCode(r, k) ==
  \A n \in 1..k : \A a \in Addrs :
    a - r.at - Before(r.args, n) \in 0..(InstrSize[r.args[n]] - 1) => code'[a] = r.args[n]

\* What an answer says has been done.
Done(r) ==
  CASE r.tool \in {"rename_function", "rename_global_variable"} -> name'[r.at] = r.args[1]
    [] r.tool = "rename_stack_frame_variable" ->
         OneMember(r.at, r.args[1], LAMBDA m : ~m.special /\ BeforeSpecial(r.at, m),
                   LAMBDA m : {[m EXCEPT !.name = r.args[2]]})
    [] r.tool = "delete_stack_frame_variable" ->
         OneMember(r.at, r.args[1], LAMBDA m : ~m.special /\ BeforeSpecial(r.at, m),
                   LAMBDA m : {})
    [] r.tool = "set_stack_frame_variable_type" ->
         OneMember(r.at, r.args[1], LAMBDA m : TRUE, LAMBDA m : {[m EXCEPT !.type = r.args[2]]})
    [] r.tool = "create_stack_frame_variable" ->
         \E m \in frame'[r.at] : m.off = r.args[1] /\ m.name = r.args[2] /\ m.type = r.args[3]
    [] r.tool = "rename_local_variable" -> lvar'[r.at][r.args[2]] = lvar[r.at][r.args[1]]
    [] r.tool = "set_local_variable_type" -> r.args[2] # None => lvar'[r.at][r.args[1]] = r.args[2]
    [] r.tool \in {"set_function_prototype", "set_global_variable_type"} -> typed'[r.at] = r.args[1]
    [] r.tool = "declare_c_type" -> r.args[1] \subseteq local'
    [] r.tool = "set_comment" -> cmt'[r.at] = r.args[1]
    [] r.tool = "patch_address_assembles" -> InCode(r, Len(r.args))
    [] r.tool = "dbg_set_breakpoint" -> bpt'[r.at] # "none"
    [] r.tool = "dbg_delete_breakpoint" -> bpt'[r.at] = "none"
    [] r.tool = "dbg_enable_breakpoint" -> bpt'[r.at] = IF r.args[1] THEN "on" ELSE "off"
    [] r.tool = "dbg_exit_process" -> debuggee' = "none"
    [] r.tool = "get_function" -> TRUE
    [] OTHER -> debuggee' = "paused"

\* An answer is true.  A call changes nothing but what it was about; a call that fails
\* changes nothing, except that a patch keeps its first instructions, declarations that
\* came before an error stay, and the debugged process may have started, with
\* breakpoints at its entry points, or moved; a call that succeeds has done what it was
\* asked.  A stack variable is renamed or deleted alone, and never a saved register,
\* the return address or an argument behind them; breakpoints are seeded only
\* where there are none (stack.py, comments.py, patch.py, debug_control.py and others).
AnswerTruthful ==
  [][LET r == reply'
     IN  r # reply /\ r # NoReply =>
           /\ Touched \subseteq Subject(r)
           /\ r.ok => Done(r)
           /\ ~r.ok => \/ Touched = {}
                       \/ r.tool \in Partial
           /\ r.tool = "patch_address_assembles" /\ ~r.ok =>
                Touched = {} \/ \E k \in 1..(Len(r.args) - 1) : InCode(r, k)
           /\ r.tool = "dbg_start_process" =>
                bpt' = bpt \/ (r.args[1] /\ \A a \in Addrs : bpt[a] = "none")
    ]_vars
=============================================================================

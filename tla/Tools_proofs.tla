---------------------------- MODULE Tools_proofs ----------------------------
(***************************************************************************)
(* Proofs about Tools and Names, for any database, texts and number of     *)
(* calls.                                                                  *)
(***************************************************************************)
EXTENDS Tools, FiniteSetTheorems, WellFoundedInduction, TLAPS

\* What is not the tools' to know of the name table: no name is given twice.
NamesUnique ==
  \A a, b \in Addrs : name[a] = name[b] /\ name[a] # None => a = b

NamesInv == NamesTypeOK /\ NamesUnique /\ CacheFresh

\* TypeOK's part about Tools itself, but for the count of steps.
ToolsTypeOK ==
  /\ frame \in [Addrs -> SUBSET Members]
  /\ lvar \in [Addrs -> [LocalNames -> Types \cup {None}]]
  /\ typed \in [Addrs -> Types \cup {None}]
  /\ local \in SUBSET Types
  /\ cmt \in [Addrs -> Comments \cup {None}]
  /\ mirror \in [Addrs -> Comments \cup {None}]
  /\ orphans \in BOOLEAN
  /\ code \in [Addrs -> Instructions \cup {None}]
  /\ bpt \in [Addrs -> {"none", "on", "off"}]
  /\ debuggee \in {"none", "paused", "running"}

IInv == NamesInv /\ ToolsTypeOK /\ steps \in 0..MaxSteps

\* TargetResolved, of the function at that text t led to.
Meant(t, at) ==
  /\ hooked /\ at # None => \E a \in Addrs : owner[a] = at /\ Bears(a, t)
  /\ at = None =>
       /\ EaOf[t] # None => owner[EaOf[t]] = None
       /\ \A a \in FunctionStarts :
            /\ name[a] # t
            /\ PrettyName(a) = t => NameEa(t) # None \/ Outdated(t)

\* A step that TargetResolved has nothing against.
Resolved ==
  reply' # reply /\ reply'.tool \in FunctionTools /\ reply'.target # None =>
    Meant(reply'.target, reply'.at)

-----------------------------------------------------------------------------
\* The look-ups.

\* A map that is built anew names functions by what they are called.
LEMMA MapsFresh ==
  ASSUME NamesInv, NEW m \in Maps
  PROVE  /\ DOMAIN m = {PrettyName(a) : a \in FunctionStarts} \ {None}
         /\ DOMAIN m \subseteq Pretty
         /\ m \in [DOMAIN m -> Addrs]
         /\ \A p \in DOMAIN m : m[p] \in FunctionStarts /\ PrettyName(m[p]) = p
  <1> DEFINE shown == {PrettyName(a) : a \in FunctionStarts} \ {None}
  <1>1. m \in [shown -> FunctionStarts] /\ \A p \in shown : PrettyName(m[p]) = p
    BY DEF Maps
  <1>2. shown \subseteq Pretty
    BY NamesAssumption DEF NamesInv, NamesTypeOK, PrettyName, FunctionStarts
  <1>3. FunctionStarts \subseteq Addrs
    BY DEF FunctionStarts
  <1> QED
    BY <1>1, <1>2, <1>3

\* NameEa finds the address with a name, if there is one.
LEMMA NameEaSound ==
  ASSUME NamesInv, NEW t \in Texts
  PROVE  /\ NameEa(t) # None => NameEa(t) \in Addrs /\ name[NameEa(t)] = t
         /\ NameEa(t) = None => \A a \in Addrs : name[a] # t
  BY NamesAssumption DEF NameEa

\* What a look-up finds, and what it says is not there.
LEMMA ResolveSound ==
  ASSUME NamesInv, NEW t \in Texts, NEW r \in Resolve(t)
  PROVE  /\ Meant(t, FunctionAt(r.ea))
         /\ r.ea \in Addrs \cup {None}
         /\ r.map = cache \/ r.map \in Maps
  <1> USE NamesAssumption
  <1>1. CASE EaOf[t] # None /\ owner[EaOf[t]] # None
    <2>1. r.ea = EaOf[t] /\ r.map = cache
      BY <1>1 DEF Resolve
    <2> QED
      BY <1>1, <2>1 DEF Meant, FunctionAt, Bears
  <1>2. CASE ~(EaOf[t] # None /\ owner[EaOf[t]] # None) /\ NameEa(t) # None
    <2>1. r.ea = NameEa(t) /\ r.map = cache
      BY <1>2 DEF Resolve, Lookup
    <2>2. NameEa(t) \in Addrs /\ name[NameEa(t)] = t
      BY <1>2, NameEaSound
    <2>3. FunctionAt(r.ea) = owner[NameEa(t)]
      BY <1>2, <2>1 DEF FunctionAt
    <2>4. owner[NameEa(t)] = None => \A a \in FunctionStarts : name[a] # t
      BY <2>2 DEF FunctionStarts, NamesInv, NamesUnique
    <2> QED
      BY <1>2, <2>1, <2>2, <2>3, <2>4 DEF Meant, Bears
  <1>3. CASE ~(EaOf[t] # None /\ owner[EaOf[t]] # None) /\ NameEa(t) = None
    <2>1. \A a \in Addrs : name[a] # t
      BY <1>3, NameEaSound
    <2>2. \/ \E m \in Get : t \in DOMAIN m /\ r = [ea |-> m[t], map |-> m]
          \/ \E m \in Maps : r = [ea |-> IF t \in DOMAIN m THEN m[t] ELSE None, map |-> m]
      BY <1>3 DEF Resolve, Lookup
    <2>3. ASSUME NEW m \in Maps, t \in DOMAIN m, r = [ea |-> m[t], map |-> m]
          PROVE  /\ Meant(t, FunctionAt(r.ea)) /\ r.ea \in Addrs
      <3>1. m[t] \in Addrs /\ owner[m[t]] = m[t] /\ PrettyName(m[t]) = t
        BY <2>3, MapsFresh DEF FunctionStarts
      <3>2. FunctionAt(r.ea) = m[t]
        BY <2>3, <3>1 DEF FunctionAt
      <3>3. Bears(m[t], t)
        BY <3>1 DEF Bears
      <3>4. m[t] # None /\ r.ea = m[t]
        BY <2>3, <3>1
      <3> QED
        BY <3>1, <3>2, <3>3, <3>4 DEF Meant
    <2>4. ASSUME NEW m \in Maps, t \notin DOMAIN m, r = [ea |-> None, map |-> m]
          PROVE  Meant(t, FunctionAt(r.ea))
      <3>1. FunctionAt(r.ea) = None
        BY <2>4 DEF FunctionAt
      <3>a. DOMAIN m = {PrettyName(a) : a \in FunctionStarts} \ {None}
        BY MapsFresh
      <3>2. \A a \in FunctionStarts : PrettyName(a) # t
        BY <2>4, <3>a
      <3>3. \A a \in FunctionStarts : name[a] # t
        BY <2>1 DEF FunctionStarts
      <3> QED
        BY <1>3, <3>1, <3>2, <3>3 DEF Meant
    <2>5. ASSUME cache # None, t \in DOMAIN cache, r = [ea |-> cache[t], map |-> cache]
          PROVE  Meant(t, FunctionAt(r.ea)) /\ r.ea \in Addrs
      <3>1. cache[t] \in Addrs
        BY <2>5 DEF NamesInv, NamesTypeOK
      <3>2. FunctionAt(r.ea) = owner[cache[t]]
        BY <2>5, <3>1 DEF FunctionAt
      <3>3. hooked => PrettyName(cache[t]) = t
        BY <2>5 DEF NamesInv, CacheFresh
      <3>4. \A a \in FunctionStarts : name[a] # t
        BY <2>1 DEF FunctionStarts
      <3>5. owner[cache[t]] = None => Outdated(t)
        BY <2>5 DEF Outdated
      <3> QED
        BY <1>3, <2>5, <3>1, <3>2, <3>3, <3>4, <3>5 DEF Meant, Bears
    <2>6. CASE \E m \in Get : t \in DOMAIN m /\ r = [ea |-> m[t], map |-> m]
      <3>1. PICK m \in Get : t \in DOMAIN m /\ r = [ea |-> m[t], map |-> m]
        BY <2>6
      <3>2. CASE cache = None
        BY <2>3, <3>1, <3>2 DEF Get
      <3>3. CASE cache # None
        BY <2>5, <3>1, <3>3 DEF Get
      <3> QED
        BY <3>2, <3>3
    <2>7. CASE \E m \in Maps : r = [ea |-> IF t \in DOMAIN m THEN m[t] ELSE None, map |-> m]
      BY <2>3, <2>4, <2>7
    <2> QED
      BY <2>2, <2>6, <2>7
  <1> QED
    BY <1>1, <1>2, <1>3

\* The map that a look-up leaves contradicts nothing.
LEMMA MapKept ==
  ASSUME NamesInv, cache' = cache \/ cache' \in Maps, UNCHANGED <<owner, name, hooked>>
  PROVE  NamesInv'
  <1>1. NamesTypeOK' /\ NamesUnique'
    BY MapsFresh DEF NamesInv, NamesTypeOK, NamesUnique
  <1>2. \A a \in Addrs : PrettyName(a)' = PrettyName(a)
    BY DEF PrettyName
  <1>3. ASSUME hooked', cache' # None, NEW p \in DOMAIN cache'
        PROVE  PrettyName(cache[p])' = p
    <2>1. cache'[p] \in Addrs
      BY <1>1, <1>3 DEF NamesTypeOK
    <2>2. PrettyName(cache'[p]) = p
      <3>1. CASE cache' = cache
        BY <1>3, <3>1 DEF NamesInv, CacheFresh
      <3>2. CASE cache' \in Maps
        BY <1>3, <3>2, MapsFresh
      <3> QED
        BY <3>1, <3>2
    <2> QED
      BY <1>2, <2>1, <2>2
  <1> QED
    BY <1>1, <1>3 DEF NamesInv, CacheFresh

\* A call that changes no name leaves the names as they should be, and has acted on the
\* function that was meant.
LEMMA FoundKept ==
  ASSUME NamesInv, NEW t \in Texts, NEW r \in Resolve(t), cache' = r.map,
         reply'.at = FunctionAt(r.ea), reply'.target = t, UNCHANGED <<owner, name, hooked>>
  PROVE  NamesInv' /\ Resolved
  <1>1. Meant(t, FunctionAt(r.ea)) /\ (r.map = cache \/ r.map \in Maps)
    BY ResolveSound
  <1> QED
    BY <1>1, MapKept DEF Resolved

\* A call that looks nothing up has nothing to do with names.
LEMMA OtherKept ==
  ASSUME NamesInv, UNCHANGED nameVars, reply'.tool \notin FunctionTools \/ reply'.target = None
  PROVE  NamesInv' /\ Resolved
  BY MapKept DEF nameVars, Resolved

\* IDA tells of a rename, and a new name is nobody else's.
LEMMA SetNameKept ==
  ASSUME NamesInv, NEW a \in Addrs, NEW n \in RawNames \cup {None}, NEW c,
         c = cache \/ c \in Maps, SetName(a, n, c), UNCHANGED <<owner, hooked>>
  PROVE  NamesInv'
  <1>1. NamesTypeOK'
    BY MapsFresh DEF SetName, NamesInv, NamesTypeOK
  <1>2. NamesUnique'
    BY DEF SetName, NamesInv, NamesUnique, NamesTypeOK
  <1>3. CacheFresh'
    BY DEF SetName, CacheFresh
  <1> QED
    BY <1>1, <1>2, <1>3 DEF NamesInv

\* What a function target leads to is an address.
LEMMA FoundIn ==
  ASSUME NamesInv, NEW t \in Texts, NEW r \in Resolve(t), FunctionAt(r.ea) # None
  PROVE  FunctionAt(r.ea) \in Addrs
  BY ResolveSound DEF FunctionAt, NamesInv, NamesTypeOK

-----------------------------------------------------------------------------
\* The tools, one by one: what they leave is of its type, and they act on what was meant.

\* What a call leaves alone stays typed.
LEMMA NothingTyped ==
  ASSUME IInv, UNCHANGED toolVars
  PROVE  ToolsTypeOK'
  BY DEF IInv, ToolsTypeOK, toolVars, stackVars, typeVars, cmtVars, dbgVars

\* define_stkvar puts a member where there is room for it.
LEMMA DefineTyped ==
  ASSUME IInv, NEW f \in Addrs, NEW n \in MemberNames, NEW fpoff \in Int, NEW ty \in Types,
         DefineStkvar(f, n, fpoff, ty)
  PROVE  ToolsTypeOK'
  <1> DEFINE new == [name |-> n, off |-> fpoff + Fp, type |-> ty, special |-> FALSE]
  <1>1. fpoff + Fp \in 0..(FrameSize - 1)
    BY ToolsAssumption DEF DefineStkvar
  <1>2. new \in Members
    BY <1>1 DEF Members
  <1>3. PICK kept \in SUBSET frame[f] : frame' = [frame EXCEPT ![f] = kept \cup {new}]
    BY DEF DefineStkvar
  <1>4. frame' \in [Addrs -> SUBSET Members]
    BY <1>2, <1>3 DEF IInv, ToolsTypeOK
  <1> QED
    BY <1>4 DEF DefineStkvar, IInv, ToolsTypeOK, typeVars, cmtVars, dbgVars

\* get_function, and every other tool that only reads.
LEMMA GetFunctionStep ==
  ASSUME IInv, NEW t \in Texts, GetFunction(t), UNCHANGED toolVars
  PROVE  NamesInv' /\ Resolved /\ ToolsTypeOK'
  <1>1. PICK r \in Resolve(t) :
          cache' = r.map /\ Reply("get_function", t, <<>>, FunctionAt(r.ea), FunctionAt(r.ea) # None)
    BY DEF GetFunction
  <1>2. UNCHANGED <<owner, name, hooked>>
    BY DEF GetFunction
  <1>3. NamesInv' /\ Resolved
    BY <1>1, <1>2, FoundKept DEF IInv, Reply
  <1> QED
    BY <1>3, NothingTyped

\* rename_stack_frame_variable: what define_stkvar puts there.
LEMMA RenameStackStep ==
  ASSUME IInv, NEW t \in Texts, NEW old \in MemberNames, NEW new \in MemberNames,
         RenameStackVariable(t, old, new)
  PROVE  NamesInv' /\ Resolved /\ ToolsTypeOK'
  <1> DEFINE Work(f) == \E m \in FrameMember(f, old) :
                       CheckMutable(f, m) /\ DefineStkvar(f, new, m.off - Fp, m.type)
  <1>1. PICK r \in Resolve(t) :
          /\ cache' = r.map
          /\ \/ /\ FunctionAt(r.ea) # None /\ Work(FunctionAt(r.ea))
                /\ Reply("rename_stack_frame_variable", t, <<old, new>>, FunctionAt(r.ea), TRUE)
             \/ UNCHANGED toolVars /\ Refused("rename_stack_frame_variable", t, FunctionAt(r.ea))
    BY DEF RenameStackVariable, OnFunction
  <1>2. UNCHANGED <<owner, name, hooked>>
    BY DEF RenameStackVariable, OnFunction
  <1>3. NamesInv' /\ Resolved
    BY <1>1, <1>2, FoundKept DEF IInv, Reply, Refused
  <1>4. ASSUME NEW f \in Addrs, Work(f)
        PROVE  ToolsTypeOK'
    <2>1. PICK m \in frame[f] : DefineStkvar(f, new, m.off - Fp, m.type)
      BY <1>4 DEF FrameMember
    <2>2. m.off - Fp \in Int /\ m.type \in Types
      BY ToolsAssumption DEF IInv, ToolsTypeOK, Members
    <2> QED
      BY <2>1, <2>2, DefineTyped
  <1>5. FunctionAt(r.ea) # None => FunctionAt(r.ea) \in Addrs
    BY FoundIn DEF IInv
  <1> QED
    BY <1>1, <1>3, <1>4, <1>5, NothingTyped

\* create_stack_frame_variable, at any offset.
LEMMA CreateStackStep ==
  ASSUME IInv, NEW t \in Texts, NEW fpoff \in Int, NEW n \in MemberNames, NEW ty \in Types,
         CreateStackVariable(t, fpoff, n, ty)
  PROVE  NamesInv' /\ Resolved /\ ToolsTypeOK'
  <1> DEFINE Work(f) == frame[f] # {} /\ DefineStkvar(f, n, fpoff, ty)
  <1>1. PICK r \in Resolve(t) :
          /\ cache' = r.map
          /\ \/ /\ FunctionAt(r.ea) # None /\ Work(FunctionAt(r.ea))
                /\ Reply("create_stack_frame_variable", t, <<fpoff + Fp, n, ty>>, FunctionAt(r.ea), TRUE)
             \/ UNCHANGED toolVars /\ Refused("create_stack_frame_variable", t, FunctionAt(r.ea))
    BY DEF CreateStackVariable, OnFunction
  <1>2. UNCHANGED <<owner, name, hooked>>
    BY DEF CreateStackVariable, OnFunction
  <1>3. NamesInv' /\ Resolved
    BY <1>1, <1>2, FoundKept DEF IInv, Reply, Refused
  <1>4. ASSUME NEW f \in Addrs, Work(f)
        PROVE  ToolsTypeOK'
    BY <1>4, DefineTyped
  <1>5. FunctionAt(r.ea) # None => FunctionAt(r.ea) \in Addrs
    BY FoundIn DEF IInv
  <1> QED
    BY <1>1, <1>3, <1>4, <1>5, NothingTyped

\* set_stack_frame_variable_type: the member with another type.
LEMMA SetStackTypeStep ==
  ASSUME IInv, NEW t \in Texts, NEW n \in MemberNames, NEW ty \in Types,
         SetStackVariableType(t, n, ty)
  PROVE  NamesInv' /\ Resolved /\ ToolsTypeOK'
  <1> DEFINE Work(f) == \E m \in FrameMember(f, n) :
         LET new == [m EXCEPT !.type = ty]
         IN  /\ new.off + SizeOf[ty] <= FrameSize
             /\ \A x \in frame[f] \ {m} : Span(x) \cap Span(new) = {}
             /\ frame' = [frame EXCEPT ![f] = (@ \ {m}) \cup {new}]
             /\ UNCHANGED <<lvar, typeVars, cmtVars, code, dbgVars>>
  <1>1. PICK r \in Resolve(t) :
          /\ cache' = r.map
          /\ \/ /\ FunctionAt(r.ea) # None /\ Work(FunctionAt(r.ea))
                /\ Reply("set_stack_frame_variable_type", t, <<n, ty>>, FunctionAt(r.ea), TRUE)
             \/ UNCHANGED toolVars /\ Refused("set_stack_frame_variable_type", t, FunctionAt(r.ea))
    BY DEF SetStackVariableType, OnFunction
  <1>2. UNCHANGED <<owner, name, hooked>>
    BY DEF SetStackVariableType, OnFunction
  <1>3. NamesInv' /\ Resolved
    BY <1>1, <1>2, FoundKept DEF IInv, Reply, Refused
  <1>4. ASSUME NEW f \in Addrs, Work(f)
        PROVE  ToolsTypeOK'
    <2>1. PICK m \in frame[f] :
            /\ frame' = [frame EXCEPT ![f] = (@ \ {m}) \cup {[m EXCEPT !.type = ty]}]
            /\ UNCHANGED <<lvar, typeVars, cmtVars, code, dbgVars>>
      BY <1>4 DEF FrameMember
    <2>2. [m EXCEPT !.type = ty] \in Members
      BY DEF IInv, ToolsTypeOK, Members
    <2>3. frame' \in [Addrs -> SUBSET Members]
      BY <2>1, <2>2 DEF IInv, ToolsTypeOK
    <2> QED
      BY <2>1, <2>3 DEF IInv, ToolsTypeOK, typeVars, cmtVars, dbgVars
  <1>5. FunctionAt(r.ea) # None => FunctionAt(r.ea) \in Addrs
    BY FoundIn DEF IInv
  <1> QED
    BY <1>1, <1>3, <1>4, <1>5, NothingTyped

\* delete_stack_frame_variable: some members of the frame.
LEMMA DeleteStackStep ==
  ASSUME IInv, NEW t \in Texts, NEW n \in MemberNames,
         DeleteStackVariable(t, n)
  PROVE  NamesInv' /\ Resolved /\ ToolsTypeOK'
  <1> DEFINE Work(f) == \E m \in FrameMember(f, n) :
         /\ CheckMutable(f, m)
         /\ frame' = [frame EXCEPT ![f] = {x \in @ : Span(x) \cap Span(m) = {}}]
         /\ UNCHANGED <<lvar, typeVars, cmtVars, code, dbgVars>>
  <1>1. PICK r \in Resolve(t) :
          /\ cache' = r.map
          /\ \/ /\ FunctionAt(r.ea) # None /\ Work(FunctionAt(r.ea))
                /\ Reply("delete_stack_frame_variable", t, <<n>>, FunctionAt(r.ea), TRUE)
             \/ UNCHANGED toolVars /\ Refused("delete_stack_frame_variable", t, FunctionAt(r.ea))
    BY DEF DeleteStackVariable, OnFunction
  <1>2. UNCHANGED <<owner, name, hooked>>
    BY DEF DeleteStackVariable, OnFunction
  <1>3. NamesInv' /\ Resolved
    BY <1>1, <1>2, FoundKept DEF IInv, Reply, Refused
  <1>4. ASSUME NEW f \in Addrs, Work(f)
        PROVE  ToolsTypeOK'
    <2>1. frame' \in [Addrs -> SUBSET Members]
      BY <1>4 DEF IInv, ToolsTypeOK
    <2> QED
      BY <1>4, <2>1 DEF IInv, ToolsTypeOK, typeVars, cmtVars, dbgVars
  <1>5. FunctionAt(r.ea) # None => FunctionAt(r.ea) \in Addrs
    BY FoundIn DEF IInv
  <1> QED
    BY <1>1, <1>3, <1>4, <1>5, NothingTyped

\* rename_local_variable: a name loses its variable, another gets it.
LEMMA RenameLocalStep ==
  ASSUME IInv, NEW t \in Texts, NEW old \in LocalNames, NEW new \in LocalNames,
         RenameLocalVariable(t, old, new)
  PROVE  NamesInv' /\ Resolved /\ ToolsTypeOK'
  <1> DEFINE Work(f) ==
         /\ lvar[f][old] # None
         /\ old = new \/ lvar[f][new] = None
         /\ lvar' = [lvar EXCEPT ![f] = [@ EXCEPT ![old] = None, ![new] = lvar[f][old]]]
         /\ UNCHANGED <<frame, typeVars, cmtVars, code, dbgVars>>
  <1>1. PICK r \in Resolve(t) :
          /\ cache' = r.map
          /\ \/ /\ FunctionAt(r.ea) # None /\ Work(FunctionAt(r.ea))
                /\ Reply("rename_local_variable", t, <<old, new>>, FunctionAt(r.ea), TRUE)
             \/ UNCHANGED toolVars /\ Refused("rename_local_variable", t, FunctionAt(r.ea))
    BY DEF RenameLocalVariable, OnFunction
  <1>2. UNCHANGED <<owner, name, hooked>>
    BY DEF RenameLocalVariable, OnFunction
  <1>3. NamesInv' /\ Resolved
    BY <1>1, <1>2, FoundKept DEF IInv, Reply, Refused
  <1>4. ASSUME NEW f \in Addrs, Work(f)
        PROVE  ToolsTypeOK'
    <2>1. lvar' \in [Addrs -> [LocalNames -> Types \cup {None}]]
      BY <1>4 DEF IInv, ToolsTypeOK
    <2> QED
      BY <1>4, <2>1 DEF IInv, ToolsTypeOK, typeVars, cmtVars, dbgVars
  <1>5. FunctionAt(r.ea) # None => FunctionAt(r.ea) \in Addrs
    BY FoundIn DEF IInv
  <1> QED
    BY <1>1, <1>3, <1>4, <1>5, NothingTyped

\* set_local_variable_type, if the function was looked for.
LEMMA SetLocalFoundStep ==
  ASSUME IInv, NEW t \in Texts, NEW n \in LocalNames, NEW d \in Types \cup {None},
         SetLocalVariableType(t, n, d), reply'.target # None
  PROVE  NamesInv' /\ Resolved /\ ToolsTypeOK'
  <1> DEFINE Work(f) ==
         /\ lvar[f][n] # None
         /\ \E ty \in IF Parse(d) = None THEN Types ELSE {Parse(d)} :
              lvar' = [lvar EXCEPT ![f][n] = ty]
         /\ UNCHANGED <<frame, typeVars, cmtVars, code, dbgVars>>
  <1>0. ~Refused("set_local_variable_type", None, None)
    BY DEF Refused, Reply
  <1>1. PICK r \in Resolve(t) :
          /\ cache' = r.map
          /\ \/ /\ FunctionAt(r.ea) # None /\ Work(FunctionAt(r.ea))
                /\ Reply("set_local_variable_type", t, <<n, d>>, FunctionAt(r.ea), TRUE)
             \/ UNCHANGED toolVars /\ Refused("set_local_variable_type", t, FunctionAt(r.ea))
    BY <1>0 DEF SetLocalVariableType, OnFunction
  <1>2. UNCHANGED <<owner, name, hooked>>
    BY <1>0 DEF SetLocalVariableType, OnFunction
  <1>3. NamesInv' /\ Resolved
    BY <1>1, <1>2, FoundKept DEF IInv, Reply, Refused
  <1>4. ASSUME NEW f \in Addrs, Work(f)
        PROVE  ToolsTypeOK'
    <2>1. PICK ty \in Types : lvar' = [lvar EXCEPT ![f][n] = ty]
      BY <1>4 DEF Parse
    <2>2. lvar' \in [Addrs -> [LocalNames -> Types \cup {None}]]
      BY <2>1 DEF IInv, ToolsTypeOK
    <2> QED
      BY <1>4, <2>2 DEF IInv, ToolsTypeOK, typeVars, cmtVars, dbgVars
  <1>5. FunctionAt(r.ea) # None => FunctionAt(r.ea) \in Addrs
    BY FoundIn DEF IInv
  <1> QED
    BY <1>1, <1>3, <1>4, <1>5, NothingTyped

\* set_function_prototype, which applies no empty type.
LEMMA SetPrototypeStep ==
  ASSUME IInv, NEW t \in Texts, NEW d \in Types \cup {None},
         SetFunctionPrototype(t, d)
  PROVE  NamesInv' /\ Resolved /\ ToolsTypeOK'
  <1> DEFINE Work(f) ==
         /\ Parse(d) # None
         /\ typed' = [typed EXCEPT ![f] = Parse(d)]
         /\ UNCHANGED <<stackVars, local, cmtVars, code, dbgVars>>
  <1>1. PICK r \in Resolve(t) :
          /\ cache' = r.map
          /\ \/ /\ FunctionAt(r.ea) # None /\ Work(FunctionAt(r.ea))
                /\ Reply("set_function_prototype", t, <<d>>, FunctionAt(r.ea), TRUE)
             \/ UNCHANGED toolVars /\ Refused("set_function_prototype", t, FunctionAt(r.ea))
    BY DEF SetFunctionPrototype, OnFunction
  <1>2. UNCHANGED <<owner, name, hooked>>
    BY DEF SetFunctionPrototype, OnFunction
  <1>3. NamesInv' /\ Resolved
    BY <1>1, <1>2, FoundKept DEF IInv, Reply, Refused
  <1>4. ASSUME NEW f \in Addrs, Work(f)
        PROVE  ToolsTypeOK'
    <2>1. Parse(d) \in Types
      BY <1>4 DEF Parse
    <2>2. typed' \in [Addrs -> Types \cup {None}]
      BY <1>4, <2>1 DEF IInv, ToolsTypeOK
    <2> QED
      BY <1>4, <2>2 DEF IInv, ToolsTypeOK, stackVars, cmtVars, dbgVars
  <1>5. FunctionAt(r.ea) # None => FunctionAt(r.ea) \in Addrs
    BY FoundIn DEF IInv
  <1> QED
    BY <1>1, <1>3, <1>4, <1>5, NothingTyped

\* set_local_variable_type, also if the type raises before the look-up.
LEMMA SetLocalStep ==
  ASSUME IInv, NEW t \in Texts, NEW n \in LocalNames, NEW d \in Types \cup {None},
         SetLocalVariableType(t, n, d)
  PROVE  NamesInv' /\ Resolved /\ ToolsTypeOK'
  <1>1. CASE reply'.target # None
    BY <1>1, SetLocalFoundStep
  <1>2. CASE reply'.target = None /\ UNCHANGED <<nameVars, toolVars>>
    <2>1. UNCHANGED nameVars /\ UNCHANGED toolVars
      BY <1>2
    <2> QED
      BY <1>2, <2>1, OtherKept, NothingTyped DEF IInv
  <1>3. reply'.target = None => UNCHANGED <<nameVars, toolVars>>
    <2>1. None # t
      BY NamesAssumption
    <2>2. CASE Parse(d) = None /\ Refused("set_local_variable_type", None, None) /\ UNCHANGED <<nameVars, toolVars>>
      BY <2>2
    <2>3. CASE ~(Parse(d) = None /\ Refused("set_local_variable_type", None, None) /\ UNCHANGED <<nameVars, toolVars>>)
      <3>1. reply'.target = t
        BY <2>3 DEF SetLocalVariableType, OnFunction, Reply, Refused
      <3> QED
        BY <2>1, <3>1
    <2> QED
      BY <2>2, <2>3
  <1> QED
    BY <1>1, <1>2, <1>3

\* rename_function: the new name is nobody else's, and the map goes.
LEMMA RenameFunctionStep ==
  ASSUME IInv, NEW t \in Texts, NEW n \in RawNames \cup {None}, RenameFunction(t, n),
         UNCHANGED toolVars
  PROVE  NamesInv' /\ Resolved /\ ToolsTypeOK'
  <1>1. PICK r \in Resolve(t) :
          \/ /\ FunctionAt(r.ea) # None /\ SetName(FunctionAt(r.ea), n, r.map)
             /\ Reply("rename_function", t, <<n>>, FunctionAt(r.ea), TRUE)
          \/ cache' = r.map /\ UNCHANGED name /\ Refused("rename_function", t, FunctionAt(r.ea))
    BY DEF RenameFunction
  <1>2. UNCHANGED <<owner, hooked>>
    BY DEF RenameFunction
  <1>3. Meant(t, FunctionAt(r.ea)) /\ (r.map = cache \/ r.map \in Maps)
    BY ResolveSound DEF IInv
  <1>4. Resolved
    BY <1>1, <1>3 DEF Resolved, Reply, Refused
  <1>5. CASE FunctionAt(r.ea) # None /\ SetName(FunctionAt(r.ea), n, r.map)
    <2>1. FunctionAt(r.ea) \in Addrs
      BY <1>5, FoundIn DEF IInv
    <2>2. NamesInv'
      BY <1>2, <1>3, <1>5, <2>1, SetNameKept DEF IInv
    <2> QED
      BY <1>4, <2>2, NothingTyped
  <1>6. CASE cache' = r.map /\ UNCHANGED name
    BY <1>2, <1>3, <1>4, <1>6, MapKept, NothingTyped DEF IInv
  <1> QED
    BY <1>1, <1>5, <1>6

\* rename_global_variable, which looks for a name only.
LEMMA RenameGlobalStep ==
  ASSUME IInv, NEW t \in Texts, NEW n \in RawNames \cup {None}, RenameGlobal(t, n),
         UNCHANGED toolVars
  PROVE  NamesInv' /\ Resolved /\ ToolsTypeOK'
  <1>1. reply'.tool \notin FunctionTools
    BY DEF RenameGlobal, Reply, Refused, FunctionTools
  <1>2. CASE NameEa(t) # None /\ SetName(NameEa(t), n, cache)
    <2>1. NameEa(t) \in Addrs
      BY <1>2, NameEaSound DEF IInv
    <2>2. UNCHANGED <<owner, hooked>>
      BY DEF RenameGlobal
    <2>3. NamesInv'
      BY <1>2, <2>1, <2>2, SetNameKept DEF IInv
    <2> QED
      BY <1>1, <2>3, NothingTyped DEF Resolved
  <1>3. CASE UNCHANGED <<name, cache>>
    BY <1>1, <1>3, OtherKept, NothingTyped DEF RenameGlobal, nameVars, IInv
  <1> QED
    BY <1>2, <1>3 DEF RenameGlobal

\* set_global_variable_type: a name first, then a number.
LEMMA SetGlobalTypeStep ==
  ASSUME IInv, NEW t \in Texts, NEW d \in Types \cup {None}, SetGlobalType(t, d)
  PROVE  NamesInv' /\ Resolved /\ ToolsTypeOK'
  <1>1. UNCHANGED nameVars /\ reply'.tool \notin FunctionTools
    BY DEF SetGlobalType, Reply, Refused, FunctionTools
  <1>2. ToolsTypeOK'
    <2>1. NameOrAddress(t) \in Addrs \cup {None}
      BY NameEaSound, NamesAssumption DEF NameOrAddress, IInv
    <2>2. Parse(d) # None => Parse(d) \in Types
      BY DEF Parse
    <2>3. typed' \in [Addrs -> Types \cup {None}]
      BY <2>1, <2>2 DEF SetGlobalType, IInv, ToolsTypeOK, toolVars, typeVars
    <2> QED
      BY <2>3, NothingTyped DEF SetGlobalType, IInv, ToolsTypeOK, stackVars, cmtVars, dbgVars
  <1> QED
    BY <1>1, <1>2, OtherKept DEF IInv

\* declare_c_type: the types that parse.
LEMMA DeclareStep ==
  ASSUME IInv, NEW ds \in SUBSET (Types \cup {None}), DeclareCType(ds)
  PROVE  NamesInv' /\ Resolved /\ ToolsTypeOK'
  <1>1. UNCHANGED nameVars /\ reply'.tool \notin FunctionTools
    BY DEF DeclareCType, Reply, Refused, FunctionTools
  <1>2. ToolsTypeOK'
    BY DEF DeclareCType, IInv, ToolsTypeOK, stackVars, cmtVars, dbgVars
  <1> QED
    BY <1>1, <1>2, OtherKept DEF IInv

\* set_comment: the pseudocode's comment may hang on another address.
LEMMA SetCommentStep ==
  ASSUME IInv, NEW t \in Texts, NEW c \in Comments \cup {None}, SetComment(t, c)
  PROVE  NamesInv' /\ Resolved /\ ToolsTypeOK'
  <1>1. UNCHANGED nameVars /\ reply'.tool \notin FunctionTools
    BY DEF SetComment, Reply, Refused, FunctionTools
  <1>2. ToolsTypeOK'
    <2>1. cmt' \in [Addrs -> Comments \cup {None}]
      BY NamesAssumption DEF SetComment, IInv, ToolsTypeOK, cmtVars
    <2>2. mirror' \in [Addrs -> Comments \cup {None}] /\ orphans' \in BOOLEAN
      <3>1. CASE UNCHANGED <<mirror, orphans>>
        BY <3>1 DEF IInv, ToolsTypeOK
      <3>2. CASE EaOf[t] # None /\ Attach(EaOf[t], c)
        <4>1. EaOf[t] \in Addrs
          BY <3>2, NamesAssumption
        <4>2. InEamap[EaOf[t]] # None => InEamap[EaOf[t]] \in Addrs
          BY <4>1, ToolsAssumption
        <4>3. PICK a \in Addrs : mirror' = mirror \/ mirror' = [mirror EXCEPT ![a] = c]
          BY <3>2, <4>1, <4>2 DEF Attach
        <4>4. orphans' = orphans \/ orphans' = FALSE
          BY <3>2 DEF Attach
        <4>5. mirror' \in [Addrs -> Comments \cup {None}]
          BY <4>3 DEF IInv, ToolsTypeOK
        <4> QED
          BY <4>4, <4>5 DEF IInv, ToolsTypeOK
      <3> QED
        BY <3>1, <3>2 DEF SetComment, cmtVars
    <2> QED
      BY <2>1, <2>2 DEF SetComment, IInv, ToolsTypeOK, stackVars, typeVars, dbgVars
  <1> QED
    BY <1>1, <1>2, OtherKept DEF IInv

\* patch_address_assembles: every byte of the place is of some instruction.
LEMMA PatchStep ==
  ASSUME IInv, NEW t \in Texts, NEW p \in Requests, Patch(t, p)
  PROVE  NamesInv' /\ Resolved /\ ToolsTypeOK'
  <1>1. UNCHANGED nameVars /\ reply'.tool \notin FunctionTools
    BY DEF Patch, Reply, Refused, FunctionTools
  <1>2. ToolsTypeOK'
    <2>1. ASSUME NEW ea, NEW k \in 1..Len(p)
          PROVE  Patched(ea, p, k) \in [Addrs -> Instructions \cup {None}]
      <3>1. \A n \in 1..k : p[n] \in Instructions
        BY ToolsAssumption
      <3>2. \A a \in Addrs : (\E n \in 1..k : a \in Place(ea, p, n)) =>
              (CHOOSE n \in 1..k : a \in Place(ea, p, n)) \in 1..k
        OBVIOUS
      <3> QED
        BY <3>1, <3>2 DEF Patched, IInv, ToolsTypeOK
    <2>2. code' \in [Addrs -> Instructions \cup {None}]
      BY <2>1 DEF Patch, IInv, ToolsTypeOK
    <2> QED
      BY <2>2 DEF Patch, IInv, ToolsTypeOK, stackVars, typeVars, cmtVars, dbgVars
  <1> QED
    BY <1>1, <1>2, OtherKept DEF IInv

\* dbg_set_breakpoint leaves a breakpoint as it is.
LEMMA SetBreakpointStep ==
  ASSUME IInv, NEW t \in Texts, SetBreakpoint(t)
  PROVE  NamesInv' /\ Resolved /\ ToolsTypeOK'
  <1>1. UNCHANGED nameVars /\ reply'.tool \notin FunctionTools
    BY DEF SetBreakpoint, OnAddress, Reply, Refused, FunctionTools
  <1>2. ToolsTypeOK'
    <2>1. bpt' \in [Addrs -> {"none", "on", "off"}]
      <3>1. \/ UNCHANGED bpt
            \/ \E a \in Addrs : bpt' = [bpt EXCEPT ![a] = IF bpt[a] = "none" THEN "on" ELSE bpt[a]]
        BY NamesAssumption DEF SetBreakpoint, OnAddress, toolVars, dbgVars
      <3> QED
        BY <3>1 DEF IInv, ToolsTypeOK
    <2>2. UNCHANGED <<stackVars, typeVars, cmtVars, code, debuggee>>
      BY DEF SetBreakpoint, OnAddress, toolVars, dbgVars
    <2> QED
      BY <2>1, <2>2 DEF IInv, ToolsTypeOK, stackVars, typeVars, cmtVars
  <1> QED
    BY <1>1, <1>2, OtherKept DEF IInv

\* dbg_delete_breakpoint.
LEMMA DeleteBreakpointStep ==
  ASSUME IInv, NEW t \in Texts, DeleteBreakpoint(t)
  PROVE  NamesInv' /\ Resolved /\ ToolsTypeOK'
  <1>1. UNCHANGED nameVars /\ reply'.tool \notin FunctionTools
    BY DEF DeleteBreakpoint, OnAddress, Reply, Refused, FunctionTools
  <1>2. ToolsTypeOK'
    <2>1. bpt' \in [Addrs -> {"none", "on", "off"}]
      BY NamesAssumption DEF DeleteBreakpoint, OnAddress, IInv, ToolsTypeOK, toolVars, dbgVars
    <2>2. UNCHANGED <<stackVars, typeVars, cmtVars, code, debuggee>>
      BY DEF DeleteBreakpoint, OnAddress, toolVars, dbgVars
    <2> QED
      BY <2>1, <2>2 DEF IInv, ToolsTypeOK, stackVars, typeVars, cmtVars
  <1> QED
    BY <1>1, <1>2, OtherKept DEF IInv

\* dbg_enable_breakpoint.
LEMMA EnableBreakpointStep ==
  ASSUME IInv, NEW t \in Texts, NEW enable \in BOOLEAN, EnableBreakpoint(t, enable)
  PROVE  NamesInv' /\ Resolved /\ ToolsTypeOK'
  <1>1. UNCHANGED nameVars /\ reply'.tool \notin FunctionTools
    BY DEF EnableBreakpoint, OnAddress, Reply, Refused, FunctionTools
  <1>2. ToolsTypeOK'
    <2>1. bpt' \in [Addrs -> {"none", "on", "off"}]
      BY NamesAssumption DEF EnableBreakpoint, OnAddress, IInv, ToolsTypeOK, toolVars, dbgVars
    <2>2. UNCHANGED <<stackVars, typeVars, cmtVars, code, debuggee>>
      BY DEF EnableBreakpoint, OnAddress, toolVars, dbgVars
    <2> QED
      BY <2>1, <2>2 DEF IInv, ToolsTypeOK, stackVars, typeVars, cmtVars
  <1> QED
    BY <1>1, <1>2, OtherKept DEF IInv

\* dbg_start_process, with its breakpoints at the entry points.
LEMMA StartProcessStep ==
  ASSUME IInv, NEW auto \in BOOLEAN, StartProcess(auto)
  PROVE  NamesInv' /\ Resolved /\ ToolsTypeOK'
  <1>1. UNCHANGED nameVars /\ reply'.tool \notin FunctionTools
    BY DEF StartProcess, Reply, Refused, FunctionTools
  <1>2. ToolsTypeOK'
    BY DEF StartProcess, IInv, ToolsTypeOK, stackVars, typeVars, cmtVars
  <1> QED
    BY <1>1, <1>2, OtherKept DEF IInv

\* dbg_exit_process.
LEMMA ExitProcessStep ==
  ASSUME IInv, ExitProcess
  PROVE  NamesInv' /\ Resolved /\ ToolsTypeOK'
  <1>1. UNCHANGED nameVars /\ reply'.tool \notin FunctionTools
    BY DEF ExitProcess, Reply, Refused, FunctionTools
  <1>2. ToolsTypeOK'
    BY DEF ExitProcess, IInv, ToolsTypeOK, stackVars, typeVars, cmtVars
  <1> QED
    BY <1>1, <1>2, OtherKept DEF IInv

\* dbg_continue_process and the other ways to go on.
LEMMA MoveStep ==
  ASSUME IInv, Move
  PROVE  NamesInv' /\ Resolved /\ ToolsTypeOK'
  <1>1. UNCHANGED nameVars /\ reply'.tool \notin FunctionTools
    BY DEF Move, Reply, Refused, FunctionTools
  <1>2. ToolsTypeOK'
    BY DEF Move, IInv, ToolsTypeOK, stackVars, typeVars, cmtVars
  <1> QED
    BY <1>1, <1>2, OtherKept DEF IInv

\* An analysis takes no name away, and the map is of names.
LEMMA ReanalyseKept ==
  ASSUME NamesInv, Reanalyse
  PROVE  NamesInv'
  <1>1. owner' \in [Addrs -> Addrs \cup {None}]
    BY DEF Reanalyse, NamesInv, NamesTypeOK, FunctionStarts
  <1>2. \A a \in Addrs : owner'[a] # None => owner'[owner'[a]] = owner'[a]
    <2>1. CASE \E a \in Addrs : owner[a] = None /\ owner' = [owner EXCEPT ![a] = a]
      BY <2>1, NamesAssumption DEF NamesInv, NamesTypeOK
    <2>2. CASE \E f \in FunctionStarts, g \in {None} \cup FunctionStarts :
                 f # g /\ owner' = [a \in Addrs |-> IF owner[a] = f THEN g ELSE owner[a]]
      BY <2>2, NamesAssumption DEF NamesInv, NamesTypeOK, FunctionStarts
    <2> QED
      BY <2>1, <2>2 DEF Reanalyse
  <1>3. NamesTypeOK'
    BY <1>1, <1>2 DEF Reanalyse, NamesInv, NamesTypeOK
  <1>4. NamesUnique' /\ CacheFresh'
    BY DEF Reanalyse, NamesInv, NamesUnique, CacheFresh, PrettyName
  <1> QED
    BY <1>3, <1>4 DEF NamesInv

\* What IDA does by itself is no call.
LEMMA IdaStep ==
  ASSUME IInv, Ida
  PROVE  NamesInv' /\ Resolved /\ ToolsTypeOK' /\ steps' \in 0..MaxSteps
  <1>1. Resolved
    BY DEF Ida, Reanalyse, Resolved, NoReply, FunctionTools
  <1>2. CASE /\ steps < MaxSteps /\ steps' = steps + 1
             /\ Reanalyse
             /\ frame' = [a \in Addrs |-> IF owner'[a] = a THEN frame[a] ELSE {}]
             /\ lvar' = [a \in Addrs |-> IF owner'[a] = a THEN lvar[a] ELSE [n \in LocalNames |-> None]]
             /\ orphans' \in BOOLEAN
             /\ UNCHANGED <<typeVars, cmt, mirror, code, dbgVars>>
    <2>1. frame' \in [Addrs -> SUBSET Members]
      BY <1>2 DEF IInv, ToolsTypeOK
    <2>2. lvar' \in [Addrs -> [LocalNames -> Types \cup {None}]]
      BY <1>2 DEF IInv, ToolsTypeOK
    <2>3. ToolsTypeOK'
      BY <1>2, <2>1, <2>2 DEF IInv, ToolsTypeOK, typeVars, dbgVars
    <2>4. steps' \in 0..MaxSteps
      BY <1>2, ToolsAssumption DEF IInv
    <2> QED
      BY <1>1, <1>2, <2>3, <2>4, ReanalyseKept DEF IInv
  <1>3. CASE /\ debuggee = "running" /\ debuggee' \in {"paused", "none"}
             /\ reply' = NoReply
             /\ UNCHANGED <<nameVars, stackVars, typeVars, cmtVars, code, bpt, steps>>
    <2>1. ToolsTypeOK'
      BY <1>3 DEF IInv, ToolsTypeOK, stackVars, typeVars, cmtVars
    <2>2. NamesInv'
      BY <1>3, MapKept DEF IInv, nameVars
    <2>3. steps' \in 0..MaxSteps
      BY <1>3 DEF IInv
    <2> QED
      BY <1>1, <2>1, <2>2, <2>3
  <1> QED
    BY <1>2, <1>3 DEF Ida

-----------------------------------------------------------------------------

\* The renames, together.
LEMMA RenameStep ==
  ASSUME IInv, Rename
  PROVE  NamesInv' /\ Resolved /\ ToolsTypeOK'
  BY RenameFunctionStep, RenameGlobalStep DEF Rename

\* The stack frame tools, together.
LEMMA StackStep ==
  ASSUME IInv, Stack
  PROVE  NamesInv' /\ Resolved /\ ToolsTypeOK'
  <1>1. PICK t \in Texts, n \in MemberNames :
          \/ \E new \in MemberNames : RenameStackVariable(t, n, new)
          \/ \E off \in 0..(FrameSize - 1), ty \in Types : CreateStackVariable(t, off - Fp, n, ty)
          \/ \E ty \in Types : SetStackVariableType(t, n, ty)
          \/ DeleteStackVariable(t, n)
    BY DEF Stack
  <1>2. \A off \in 0..(FrameSize - 1) : off - Fp \in Int
    BY ToolsAssumption
  <1> QED
    BY <1>1, <1>2, RenameStackStep, CreateStackStep, SetStackTypeStep, DeleteStackStep

\* The tools for types and local variables, together.
LEMMA TypingStep ==
  ASSUME IInv, Typing
  PROVE  NamesInv' /\ Resolved /\ ToolsTypeOK'
  BY RenameLocalStep, SetLocalStep, SetPrototypeStep, SetGlobalTypeStep, DeclareStep DEF Typing

\* Comments and patches, together.
LEMMA AnnotateStep ==
  ASSUME IInv, Annotate
  PROVE  NamesInv' /\ Resolved /\ ToolsTypeOK'
  BY SetCommentStep, PatchStep DEF Annotate

\* The debugger tools, together.
LEMMA DebugStep ==
  ASSUME IInv, Debug
  PROVE  NamesInv' /\ Resolved /\ ToolsTypeOK'
  BY SetBreakpointStep, DeleteBreakpointStep, EnableBreakpointStep, StartProcessStep,
     ExitProcessStep, MoveStep DEF Debug

\* Every step of every behaviour keeps the invariant, and resolves its target.
LEMMA NextStep ==
  ASSUME IInv, [Next]_vars
  PROVE  IInv' /\ (Resolved \/ UNCHANGED vars)
  <1>1. CASE Write
    <2>1. NamesInv' /\ Resolved /\ ToolsTypeOK'
      BY <1>1, RenameStep, StackStep, TypingStep, AnnotateStep, DebugStep DEF Write
    <2>2. steps' \in 0..MaxSteps
      BY <1>1, ToolsAssumption DEF Write, IInv
    <2> QED
      BY <2>1, <2>2 DEF IInv
  <1>2. CASE Read
    <2>1. NamesInv' /\ Resolved /\ ToolsTypeOK'
      BY <1>2, GetFunctionStep DEF Read
    <2>2. steps' \in 0..MaxSteps
      BY <1>2 DEF Read, IInv
    <2> QED
      BY <2>1, <2>2 DEF IInv
  <1>3. CASE Ida
    BY <1>3, IdaStep DEF IInv
  <1>4. CASE UNCHANGED vars
    <2>1. UNCHANGED <<nameVars, toolVars, steps>>
      BY <1>4 DEF vars
    <2>2. NamesInv'
      BY <2>1, MapKept DEF IInv, nameVars
    <2> QED
      BY <1>4, <2>1, <2>2, NothingTyped DEF IInv
  <1> QED
    BY <1>1, <1>2, <1>3, <1>4 DEF Next

\* The database as it was loaded.
LEMMA Initially == Init => IInv
  <1> SUFFICES ASSUME Init PROVE IInv
    OBVIOUS
  <1> USE NamesAssumption, ToolsAssumption
  <1>1. NamesInv
    BY DEF Init, NamesInit, NamesInv, NamesTypeOK, NamesUnique, CacheFresh
  <1>2. ToolsTypeOK
    BY DEF Init, ToolsTypeOK
  <1>3. steps \in 0..MaxSteps
    BY DEF Init
  <1> QED
    BY <1>1, <1>2, <1>3 DEF IInv

\* The invariant: names are typed and given once, the map contradicts none of them, and
\* the rest is typed.
LEMMA Invariance == Spec => []IInv
  <1>1. IInv /\ [Next]_vars => IInv'
    BY NextStep
  <1> QED
    BY Initially, <1>1, PTL DEF Spec

\* Whatever the tools do, in any order and with any answer of IDA, the database stays a
\* database: functions are owned by their starts, members fit their frames.
THEOREM TypeCorrect == Spec => []TypeOK
  <1>1. IInv => TypeOK
    BY DEF IInv, NamesInv, ToolsTypeOK, TypeOK
  <1> QED
    BY <1>1, Invariance, PTL

\* While the hooks are in, the map of demangled names never contradicts the name table
\* (idb_hooks, names.py).
THEOREM MapNeverContradicts == Spec => []CacheFresh
  <1>1. IInv => CacheFresh
    BY DEF IInv, NamesInv
  <1> QED
    BY <1>1, Invariance, PTL

\* A call acts on the function its target means, and says that there is none only if
\* that is so (resolve_function_target).
THEOREM TargetsResolved == Spec => TargetResolved
  <1>1. IInv /\ [Next]_vars =>
          [LET r == reply'
               t == r.target
           IN  r # reply /\ r.tool \in FunctionTools /\ t # None =>
                 /\ hooked /\ r.at # None => \E a \in Addrs : owner[a] = r.at /\ Bears(a, t)
                 /\ r.at = None =>
                      /\ EaOf[t] # None => owner[EaOf[t]] = None
                      /\ \A a \in FunctionStarts :
                           /\ name[a] # t
                           /\ PrettyName(a) = t => NameEa(t) # None \/ Outdated(t)
          ]_vars
    BY NextStep DEF Resolved, Meant
  <1> QED
    BY <1>1, Invariance, PTL DEF Spec, TargetResolved

-----------------------------------------------------------------------------
(* What calls answer.  FramesInv rests on IInv, and a call that works on a *)
(* frame needs both.                                                       *)

\* Induction.

\* Any set of natural numbers has a least member.
LEMMA LeastMember ==
  ASSUME NEW T \in SUBSET Nat, T # {}
  PROVE  \E m \in T : \A n \in T : m <= n
  <1> DEFINE Below(n) == {i \in Nat : i < n}
             U == {Below(n) : n \in T}
  <1>1. U \subseteq FiniteSubsetsOf(Nat)
    <2>1. ASSUME NEW n \in Nat
          PROVE  IsFiniteSet(Below(n))
      <3>1. Below(n) = 0..(n - 1)
        OBVIOUS
      <3>2. IsFiniteSet(0..(n - 1))
        <4>1. 0 \in Int /\ n - 1 \in Int
          OBVIOUS
        <4> QED
          BY ONLY <4>1, FS_Interval
      <3> QED
        BY <3>1, <3>2
    <2> QED
      BY <2>1 DEF FiniteSubsetsOf
  <1>2. IsWellFoundedOn(StrictSubsetOrdering(Nat), FiniteSubsetsOf(Nat))
    BY FS_StrictSubsetOrderingWellFounded
  <1>3. U # {}
    OBVIOUS
  <1> HIDE DEF U
  <1>4. PICK B \in U : \A C \in U : <<C, B>> \notin StrictSubsetOrdering(Nat)
    BY <1>1, <1>2, <1>3, WFMin
  <1>5. PICK m \in T : B = Below(m)
    BY DEF U
  <1>6. ASSUME NEW n \in T, n < m
        PROVE  FALSE
    <2>1. <<Below(n), Below(m)>> \notin StrictSubsetOrdering(Nat)
      BY <1>4, <1>5 DEF U
    <2>2. n \in Below(m) /\ n \notin Below(n) /\ Below(n) \subseteq Below(m)
      BY <1>6
    <2> QED
      BY <2>1, <2>2 DEF StrictSubsetOrdering
  <1> QED
    BY <1>6

\* Induction over the natural numbers.
LEMMA Induction ==
  ASSUME NEW T \in SUBSET Nat, 0 \in T, \A n \in T : n + 1 \in T
  PROVE  T = Nat
  <1> SUFFICES ASSUME Nat \ T # {}
               PROVE  FALSE
    OBVIOUS
  <1>1. PICK m \in Nat \ T : \A n \in Nat \ T : m <= n
    BY LeastMember
  <1>2. m # 0 /\ m - 1 \in T
    BY <1>1
  <1> QED
    BY <1>1, <1>2

\* And any that is bounded has a greatest one.
LEMMA GreatestMember ==
  ASSUME NEW N \in Nat, NEW T \in SUBSET (0..N), T # {}
  PROVE  \E m \in T : \A n \in T : n <= m
  <1> DEFINE U == {N - n : n \in T}
  <1>0. \A n \in T : n \in Int /\ N - n \in Nat
    OBVIOUS
  <1>1. U \in SUBSET Nat /\ U # {}
    BY <1>0
  <1>2. PICK u \in U : \A x \in U : u <= x
    BY <1>1, LeastMember
  <1>3. PICK m \in T : u = N - m
    BY <1>2
  <1>4. \A n \in T : N - n \in U
    OBVIOUS
  <1>5. \A n \in T : N - m <= N - n
    BY <1>2, <1>3, <1>4
  <1> QED
    BY <1>0, <1>5

-----------------------------------------------------------------------------
\* Where the instructions of a patch go.

\* The first one goes where the caller says, and each behind the one before it.
LEMMA BeforeIs ==
  ASSUME NEW p \in Seq(Instructions), NEW n \in 1..Len(p)
  PROVE  Before(p, n) = IF n = 1 THEN 0 ELSE Before(p, n - 1) + InstrSize[p[n - 1]]
  <1> DEFINE Step(g, i) == IF i = 1 THEN 0 ELSE g[i - 1] + InstrSize[p[i - 1]]
             Solves(g, j) == g = [i \in 1..j |-> Step(g, i)]
             T == {j \in Nat : \E g : Solves(g, j)}
             b == CHOOSE g : Solves(g, Len(p))
  <1>1. \A i : Before(p, i) = b[i]
    BY DEF Before
  <1>2. 0 \in T
    <2>1. Solves([i \in 1..0 |-> 0], 0)
      OBVIOUS
    <2> QED
      BY <2>1
  <1>3. ASSUME NEW j \in T
        PROVE  j + 1 \in T
    <2>1. PICK g : Solves(g, j)
      OBVIOUS
    <2> DEFINE h == [i \in 1..(j + 1) |-> IF i = j + 1 THEN Step(g, j + 1) ELSE g[i]]
    <2>2. Solves(h, j + 1)
      <3>1. ASSUME NEW i \in 1..j
            PROVE  h[i] = Step(h, i)
        <4>1. h[i] = g[i] /\ g[i] = Step(g, i)
          BY <2>1
        <4>2. i # 1 => h[i - 1] = g[i - 1]
          OBVIOUS
        <4> QED
          BY <4>1, <4>2
      <3>2. h[j + 1] = Step(h, j + 1)
        <4>1. h[j + 1] = Step(g, j + 1)
          OBVIOUS
        <4>2. j + 1 # 1 => h[j] = g[j] /\ (j + 1) - 1 = j
          OBVIOUS
        <4> QED
          BY <4>1, <4>2
      <3>3. \A i \in 1..(j + 1) : i \in 1..j \/ i = j + 1
        OBVIOUS
      <3>4. h = [i \in 1..(j + 1) |-> h[i]]
        OBVIOUS
      <3> HIDE DEF h, Step
      <3> QED
        BY <3>1, <3>2, <3>3, <3>4
    <2>3. j + 1 \in Nat
      OBVIOUS
    <2> HIDE DEF Solves, h
    <2> QED
      BY <2>2, <2>3
  <1>4. T = Nat
    <2>1. T \in SUBSET Nat
      OBVIOUS
    <2> HIDE DEF T
    <2> QED
      BY <1>2, <1>3, <2>1, Induction
  <1>5. \E g : Solves(g, Len(p))
    <2>1. Len(p) \in Nat
      OBVIOUS
    <2> HIDE DEF Solves
    <2> QED
      BY <1>4, <2>1
  <1> HIDE DEF Solves
  <1>6. Solves(b, Len(p))
    BY <1>5
  <1> HIDE DEF b
  <1>7. b[n] = Step(b, n)
    BY <1>6 DEF Solves
  <1> QED
    BY <1>1, <1>7

\* Lengths of instructions add up to a length.
LEMMA BeforeType ==
  ASSUME NEW p \in Seq(Instructions)
  PROVE  \A n \in 1..Len(p) : Before(p, n) \in Nat
  <1> DEFINE T == {n \in Nat : n \in 1..Len(p) => Before(p, n) \in Nat}
  <1>1. 0 \in T
    OBVIOUS
  <1>2. ASSUME NEW n \in T
        PROVE  n + 1 \in T
    <2> SUFFICES ASSUME n + 1 \in 1..Len(p)
                 PROVE  Before(p, n + 1) \in Nat
      OBVIOUS
    <2>1. Before(p, n + 1) = IF n + 1 = 1 THEN 0 ELSE Before(p, n) + InstrSize[p[n]]
      BY BeforeIs
    <2>2. CASE n = 0
      BY <2>1, <2>2
    <2>3. CASE n # 0
      <3>1. n \in 1..Len(p) /\ Before(p, n) \in Nat
        BY <2>3
      <3>2. InstrSize[p[n]] \in Nat
        BY <3>1, ToolsAssumption
      <3> QED
        BY <2>1, <3>1, <3>2
    <2> QED
      BY <2>2, <2>3
  <1>3. T \in SUBSET Nat
    OBVIOUS
  <1> HIDE DEF T
  <1>4. T = Nat
    BY <1>1, <1>2, <1>3, Induction
  <1> QED
    BY <1>4 DEF T

\* No instruction goes where another one of the same patch is.
LEMMA PlacesApart ==
  ASSUME NEW p \in Seq(Instructions), NEW m \in 1..Len(p)
  PROVE  \A n \in 1..Len(p) : m < n => Before(p, m) + InstrSize[p[m]] <= Before(p, n)
  <1> DEFINE T == {n \in Nat : n \in 1..Len(p) /\ m < n =>
                                  Before(p, m) + InstrSize[p[m]] <= Before(p, n)}
  <1>1. 0 \in T
    OBVIOUS
  <1>2. ASSUME NEW n \in T
        PROVE  n + 1 \in T
    <2> SUFFICES ASSUME n + 1 \in 1..Len(p), m < n + 1
                 PROVE  Before(p, m) + InstrSize[p[m]] <= Before(p, n + 1)
      OBVIOUS
    <2>1. n \in 1..Len(p) /\ (n = m \/ m < n)
      OBVIOUS
    <2>2. Before(p, n + 1) = Before(p, n) + InstrSize[p[n]]
      BY <2>1, BeforeIs
    <2>3. InstrSize[p[n]] \in Nat /\ InstrSize[p[m]] \in Nat
      BY <2>1, ToolsAssumption
    <2>4. Before(p, n) \in Nat /\ Before(p, m) \in Nat
      BY <2>1, BeforeType
    <2> QED
      BY <2>1, <2>2, <2>3, <2>4
  <1>3. T \in SUBSET Nat
    OBVIOUS
  <1> HIDE DEF T
  <1>4. T = Nat
    BY <1>1, <1>2, <1>3, Induction
  <1> QED
    BY <1>4 DEF T

\* Each of the first k instructions is where it should be.
LEMMA PatchedIs ==
  ASSUME NEW ea \in Addrs, NEW p \in Seq(Instructions), NEW k \in 1..Len(p),
         NEW n \in 1..k, NEW a \in Addrs,
         a - ea - Before(p, n) \in 0..(InstrSize[p[n]] - 1)
  PROVE  Patched(ea, p, k)[a] = p[n]
  <1>1. /\ ea \in Nat /\ a \in Nat
        /\ \A m \in 1..k : m \in 1..Len(p) /\ Before(p, m) \in Nat /\ InstrSize[p[m]] \in Nat
    <2>1. \A m \in 1..k : m \in 1..Len(p)
      OBVIOUS
    <2>2. \A m \in 1..Len(p) : p[m] \in Instructions
      OBVIOUS
    <2> QED
      BY <2>1, <2>2, BeforeType, NamesAssumption, ToolsAssumption
  <1>2. a \in Place(ea, p, n)
    BY <1>1 DEF Place
  <1>3. ASSUME NEW m \in 1..k, a \in Place(ea, p, m)
        PROVE  m = n
    <2>0. ASSUME NEW b \in Nat, NEW i \in Nat, NEW x \in Int, x \in b..(b + i - 1)
          PROVE  b <= x /\ x < b + i
      BY <2>0
    <2>1. ea + Before(p, m) <= a /\ a < ea + Before(p, m) + InstrSize[p[m]]
      <3>1. a \in (ea + Before(p, m))..(ea + Before(p, m) + InstrSize[p[m]] - 1)
        BY ONLY <1>3, Zenon DEF Place
      <3>2. ea \in Nat /\ a \in Nat /\ Before(p, m) \in Nat /\ InstrSize[p[m]] \in Nat
        BY ONLY <1>1, m \in 1..k, Zenon
      <3>3. ea + Before(p, m) \in Nat /\ a \in Int
        BY ONLY <3>2
      <3> QED
        BY <2>0, <3>1, <3>2, <3>3
    <2>2. ea + Before(p, n) <= a /\ a < ea + Before(p, n) + InstrSize[p[n]]
      <3>1. a \in (ea + Before(p, n))..(ea + Before(p, n) + InstrSize[p[n]] - 1)
        BY ONLY <1>2, Zenon DEF Place
      <3>2. ea \in Nat /\ a \in Nat /\ Before(p, n) \in Nat /\ InstrSize[p[n]] \in Nat
        BY ONLY <1>1, n \in 1..k, Zenon
      <3>3. ea + Before(p, n) \in Nat /\ a \in Int
        BY ONLY <3>2
      <3> QED
        BY <2>0, <3>1, <3>2, <3>3
    <2>3. m < n => Before(p, m) + InstrSize[p[m]] <= Before(p, n)
      BY <1>1, PlacesApart
    <2>4. n < m => Before(p, n) + InstrSize[p[n]] <= Before(p, m)
      BY <1>1, PlacesApart
    <2>5. m < n \/ n < m \/ m = n
      BY <1>1
    <2>6. /\ Before(p, m) \in Nat /\ InstrSize[p[m]] \in Nat /\ Before(p, n) \in Nat
          /\ InstrSize[p[n]] \in Nat /\ ea \in Nat /\ a \in Nat
      BY <1>1
    <2> QED
      BY ONLY <2>1, <2>2, <2>3, <2>4, <2>5, <2>6
  <1>4. (CHOOSE m \in 1..k : a \in Place(ea, p, m)) = n
    BY <1>2, <1>3
  <1> QED
    BY <1>2, <1>4 DEF Patched

-----------------------------------------------------------------------------
\* Stack frames.

FramesInv == \A a \in Addrs : WellFormed(frame[a])

\* A member takes some room.
LEMMA SpanIs ==
  ASSUME NEW m \in Members
  PROVE  /\ m.off \in 0..(FrameSize - 1) /\ SizeOf[m.type] \in Nat \ {0} /\ m.off \in Span(m)
         /\ \A o \in Int : o \in Span(m) <=> m.off <= o /\ o < m.off + SizeOf[m.type]
  <1>1. m.off \in 0..(FrameSize - 1) /\ SizeOf[m.type] \in Nat \ {0}
    BY ToolsAssumption DEF Members
  <1> QED
    BY <1>1 DEF Span

\* What may be renamed and deleted is no argument, and nothing that IDA put there.
LEMMA MutableIs ==
  ASSUME IInv, FramesInv, NEW f \in Addrs, NEW m \in frame[f], CheckMutable(f, m)
  PROVE  ~m.special /\ BeforeSpecial(f, m)
  <1> DEFINE ends == {0} \cup {x.off + SizeOf[x.type] : x \in {y \in frame[f] : y.special}}
  <1>1. /\ frame[f] \subseteq Members /\ FrameSize \in Nat
        /\ \A x \in frame[f] : x.off + SizeOf[x.type] <= FrameSize
        /\ \A x \in frame[f] : x # m => Span(m) \cap Span(x) = {}
    BY ToolsAssumption DEF IInv, ToolsTypeOK, FramesInv, WellFormed
  <1>2. \A x \in frame[f] : x.off \in Nat /\ SizeOf[x.type] \in Nat \ {0}
    BY <1>1, SpanIs
  <1>3. ends \in SUBSET (0..FrameSize) /\ ends # {}
    BY <1>1, <1>2
  <1>4. PICK e \in ends : \A x \in ends : x <= e
    BY <1>1, <1>3, GreatestMember
  <1>5. ArgsStart(f) \in ends /\ \A x \in ends : x <= ArgsStart(f)
    BY <1>4 DEF ArgsStart
  <1>6. ~m.special /\ (ArgsStart(f) = 0 \/ m.off < ArgsStart(f))
    BY DEF CheckMutable
  <1>7. ASSUME NEW x \in frame[f], x.special
        PROVE  \E y \in frame[f] : y.special /\ y.off > m.off
    <2>1. x.off + SizeOf[x.type] <= ArgsStart(f)
      BY <1>5, <1>7
    <2>2. ArgsStart(f) # 0
      BY <1>2, <2>1
    <2>3. PICK y \in frame[f] : y.special /\ ArgsStart(f) = y.off + SizeOf[y.type]
      BY <1>5, <2>2
    <2>4. y # m /\ m.off < y.off + SizeOf[y.type]
      BY <1>6, <2>2, <2>3
    <2>5. m.off \notin Span(y)
      <3>1. m.off \in Span(m)
        BY <1>1, SpanIs
      <3> QED
        BY <1>1, <2>4, <3>1
    <2>6. m.off \in Int
      BY <1>2
    <2>7. ~(y.off <= m.off)
      BY <1>1, <2>4, <2>5, <2>6, SpanIs
    <2> QED
      BY <1>2, <2>3, <2>7
  <1> QED
    BY <1>6, <1>7 DEF BeforeSpecial

-----------------------------------------------------------------------------
\* What AnswerTruthful says of a call.
Truthful ==
  /\ Touched \subseteq Subject(reply')
  /\ reply'.ok => Done(reply')
  /\ ~reply'.ok => Touched = {} \/ reply'.tool \in Partial
  /\ reply'.tool = "patch_address_assembles" /\ ~reply'.ok =>
       Touched = {} \/ \E k \in 1..(Len(reply'.args) - 1) : InCode(reply', k)
  /\ reply'.tool = "dbg_start_process" =>
       bpt' = bpt \/ (reply'.args[1] /\ \A a \in Addrs : bpt[a] = "none")

-----------------------------------------------------------------------------
\* What is touched.

\* One assignment to a function changes it there or nowhere.
LEMMA ChangedIs ==
  /\ \A g : Changed(g, g) = {}
  /\ \A g, x, y : Changed(g, [g EXCEPT ![x] = y]) \subseteq {x}
  BY DEF Changed

\* What a step touches (Touched) by what it leaves alone: all of it.
LEMMA NothingTouched ==
  ASSUME UNCHANGED <<name, toolVars>>
  PROVE  Touched = {}
  <1>1. UNCHANGED <<name, frame, lvar, typed, local, cmt, mirror, code, bpt, debuggee>>
    BY DEF toolVars, stackVars, typeVars, cmtVars, dbgVars
  <1> QED
    BY <1>1, ChangedIs DEF Touched

\* All but names.
LEMMA NameTouched ==
  ASSUME UNCHANGED toolVars
  PROVE  Touched = {"name"} \X Changed(name, name')
  <1>1. UNCHANGED <<frame, lvar, typed, local, cmt, mirror, code, bpt, debuggee>>
    BY DEF toolVars, stackVars, typeVars, cmtVars, dbgVars
  <1> QED
    BY <1>1, ChangedIs DEF Touched

\* All but stack frames.
LEMMA FrameTouched ==
  ASSUME UNCHANGED <<name, lvar, typeVars, cmtVars, code, dbgVars>>
  PROVE  Touched = {"frame"} \X Changed(frame, frame')
  <1>1. UNCHANGED <<name, lvar, typed, local, cmt, mirror, code, bpt, debuggee>>
    BY DEF typeVars, cmtVars, dbgVars
  <1> QED
    BY <1>1, ChangedIs DEF Touched

\* All but local variables.
LEMMA LvarTouched ==
  ASSUME UNCHANGED <<name, frame, typeVars, cmtVars, code, dbgVars>>
  PROVE  Touched = {"lvar"} \X Changed(lvar, lvar')
  <1>1. UNCHANGED <<name, frame, typed, local, cmt, mirror, code, bpt, debuggee>>
    BY DEF typeVars, cmtVars, dbgVars
  <1> QED
    BY <1>1, ChangedIs DEF Touched

\* All but applied types.
LEMMA TypedTouched ==
  ASSUME UNCHANGED <<name, stackVars, local, cmtVars, code, dbgVars>>
  PROVE  Touched = {"typed"} \X Changed(typed, typed')
  <1>1. UNCHANGED <<name, frame, lvar, local, cmt, mirror, code, bpt, debuggee>>
    BY DEF stackVars, cmtVars, dbgVars
  <1> QED
    BY <1>1, ChangedIs DEF Touched

\* All but comments.
LEMMA CmtTouched ==
  ASSUME UNCHANGED <<name, stackVars, typeVars, code, dbgVars>>
  PROVE  Touched = ({"cmt"} \X Changed(cmt, cmt')) \cup ({"mirror"} \X Changed(mirror, mirror'))
  <1>1. UNCHANGED <<name, frame, lvar, typed, local, code, bpt, debuggee>>
    BY DEF stackVars, typeVars, dbgVars
  <1> QED
    BY <1>1, ChangedIs DEF Touched

\* All but the instructions.
LEMMA CodeTouched ==
  ASSUME UNCHANGED <<name, stackVars, typeVars, cmtVars, dbgVars>>
  PROVE  Touched = {"code"} \X Changed(code, code')
  <1>1. UNCHANGED <<name, frame, lvar, typed, local, cmt, mirror, bpt, debuggee>>
    BY DEF stackVars, typeVars, cmtVars, dbgVars
  <1> QED
    BY <1>1, ChangedIs DEF Touched

\* All but breakpoints and the debugged process.
LEMMA DebugTouched ==
  ASSUME UNCHANGED <<name, stackVars, typeVars, cmtVars, code>>
  PROVE  Touched = ({"bpt"} \X Changed(bpt, bpt'))
                     \cup (IF debuggee' = debuggee THEN {} ELSE {<<"debuggee", None>>})
  <1>1. UNCHANGED <<name, frame, lvar, typed, local, cmt, mirror, code>>
    BY DEF stackVars, typeVars, cmtVars
  <1> QED
    BY <1>1, ChangedIs DEF Touched

-----------------------------------------------------------------------------
\* The answers.

\* A refusal is always true.
LEMMA RefusedTruthful ==
  ASSUME UNCHANGED <<name, toolVars>>, reply'.ok = FALSE, reply'.tool # "dbg_start_process"
  PROVE  Truthful
  BY NothingTouched DEF Truthful

\* So is a success that has done what it says, and nothing else.
LEMMA DoneTruthful ==
  ASSUME reply'.ok = TRUE, reply'.tool # "dbg_start_process",
         Touched \subseteq Subject(reply'), Done(reply')
  PROVE  Truthful
  BY DEF Truthful

\* get_function.
LEMMA GetFunctionTells ==
  ASSUME NEW t \in Texts, GetFunction(t), UNCHANGED toolVars
  PROVE  Truthful
  <1>1. UNCHANGED name /\ reply'.tool = "get_function" /\ reply'.ok \in BOOLEAN
    BY DEF GetFunction, Reply
  <1>2. Touched = {}
    BY <1>1, NothingTouched
  <1>3. Done(reply')
    BY <1>1 DEF Done
  <1> QED
    BY <1>1, <1>2, <1>3 DEF Truthful

\* rename_function.
LEMMA RenameFunctionTells ==
  ASSUME NEW t \in Texts, NEW n \in RawNames \cup {None}, RenameFunction(t, n), UNCHANGED toolVars,
         IInv
  PROVE  Truthful
  <1>1. PICK r \in Resolve(t) :
          \/ /\ FunctionAt(r.ea) # None /\ SetName(FunctionAt(r.ea), n, r.map)
             /\ Reply("rename_function", t, <<n>>, FunctionAt(r.ea), TRUE)
          \/ UNCHANGED name /\ Refused("rename_function", t, FunctionAt(r.ea))
    BY DEF RenameFunction
  <1> DEFINE f == FunctionAt(r.ea)
  <1>2. CASE f # None /\ SetName(f, n, r.map) /\ Reply("rename_function", t, <<n>>, f, TRUE)
    <2>1. f \in Addrs
      BY <1>2, FoundIn DEF IInv
    <2>2. name' = [name EXCEPT ![f] = n] /\ name'[f] = n
      BY <1>2, <2>1 DEF SetName, IInv, NamesInv, NamesTypeOK
    <2>3. reply' = [tool |-> "rename_function", target |-> t, args |-> <<n>>, at |-> f, ok |-> TRUE]
      BY <1>2 DEF Reply
    <2>4. Subject(reply') = {<<"name", f>>}
      BY <2>3 DEF Subject
    <2>5. Touched \subseteq {<<"name", f>>}
      <3>1. Changed(name, name') \subseteq {f}
        BY <2>2, ChangedIs
      <3> QED
        BY <3>1, NameTouched
    <2>6. Done(reply')
      BY <2>2, <2>3 DEF Done
    <2> QED
      BY <2>3, <2>4, <2>5, <2>6, DoneTruthful
  <1>3. CASE UNCHANGED name /\ Refused("rename_function", t, f)
    BY <1>3, RefusedTruthful DEF Refused, Reply
  <1> QED
    BY <1>1, <1>2, <1>3

\* One more member beside some of those there are.
LEMMA AddedWell ==
  ASSUME NEW F \in SUBSET Members, WellFormed(F), NEW kept \in SUBSET F, NEW new \in Members,
         new.off + SizeOf[new.type] <= FrameSize,
         \A m \in kept : m.name # new.name /\ Span(m) \cap Span(new) = {}
  PROVE  WellFormed(kept \cup {new})
  BY DEF WellFormed

\* A call changes one frame at most.
LEMMA FrameKept ==
  ASSUME IInv, FramesInv, NEW f \in Addrs, NEW F \in SUBSET Members, WellFormed(F),
         frame' = [frame EXCEPT ![f] = F]
  PROVE  FramesInv' /\ frame'[f] = F
  <1>1. \A a \in Addrs : frame'[a] = IF a = f THEN F ELSE frame[a]
    BY DEF IInv, ToolsTypeOK
  <1> QED
    BY <1>1 DEF FramesInv, WellFormed, Span

\* Frames that are left alone stay well formed.
LEMMA FramesStay ==
  ASSUME FramesInv, UNCHANGED frame
  PROVE  FramesInv'
  BY DEF FramesInv, WellFormed, Span

\* What define_stkvar makes of a frame.
LEMMA DefineIs ==
  ASSUME IInv, FramesInv, NEW f \in Addrs, NEW n \in MemberNames, NEW fpoff \in Int, NEW ty \in Types,
         DefineStkvar(f, n, fpoff, ty),
         NEW new, new = [name |-> n, off |-> fpoff + Fp, type |-> ty, special |-> FALSE]
  PROVE  /\ FramesInv' /\ new \in Members /\ Span(new) # {}
         /\ frame'[f] = {m \in frame[f] : Span(m) \cap Span(new) = {}} \cup {new}
         /\ Changed(frame, frame') \subseteq {f}
         /\ UNCHANGED <<lvar, typeVars, cmtVars, code, dbgVars>>
  <1> DEFINE kept == {m \in frame[f] : Span(m) \cap Span(new) = {}}
  <1>1. /\ fpoff + Fp >= 0 /\ fpoff + Fp + SizeOf[ty] <= FrameSize
        /\ \A m \in kept : m.name # n
        /\ frame' = [frame EXCEPT ![f] = kept \cup {new}]
        /\ UNCHANGED <<lvar, typeVars, cmtVars, code, dbgVars>>
    BY DEF DefineStkvar
  <1>2. new \in Members
    <2>1. fpoff + Fp \in 0..(FrameSize - 1)
      BY <1>1, ToolsAssumption
    <2> QED
      BY <2>1 DEF Members
  <1>3. frame[f] \in SUBSET Members /\ WellFormed(frame[f]) /\ kept \in SUBSET frame[f]
    BY DEF IInv, ToolsTypeOK, FramesInv
  <1>4. WellFormed(kept \cup {new})
    BY <1>1, <1>2, <1>3, AddedWell
  <1>5. FramesInv' /\ frame'[f] = kept \cup {new}
    BY <1>1, <1>2, <1>3, <1>4, FrameKept
  <1>6. Span(new) # {}
    BY <1>2, SpanIs
  <1>7. Changed(frame, frame') \subseteq {f}
    <2>1. PICK F : frame' = [frame EXCEPT ![f] = F]
      BY <1>1
    <2> QED
      BY <2>1, ChangedIs
  <1> QED
    BY <1>1, <1>2, <1>5, <1>6, <1>7

\* Whoever shares a byte with a member is that member.
LEMMA OthersApart ==
  ASSUME IInv, FramesInv, NEW f \in Addrs, NEW m \in frame[f]
  PROVE  {x \in frame[f] : Span(x) \cap Span(m) = {}} = frame[f] \ {m}
  <1>1. frame[f] \in SUBSET Members /\ WellFormed(frame[f])
    BY DEF IInv, ToolsTypeOK, FramesInv
  <1>2. Span(m) # {}
    BY <1>1, SpanIs
  <1>3. \A x \in frame[f] : x # m => Span(x) \cap Span(m) = {}
    BY <1>1 DEF WellFormed
  <1> QED
    BY <1>2, <1>3

\* A member that is not special, and the same under another name.
LEMMA RenamedIs ==
  ASSUME NEW m \in Members, ~m.special, NEW n \in MemberNames
  PROVE  [m EXCEPT !.name = n] = [name |-> n, off |-> m.off, type |-> m.type, special |-> FALSE]
  <1> DEFINE r == [m EXCEPT !.name = n]
             q == [name |-> n, off |-> m.off, type |-> m.type, special |-> FALSE]
  <1>1. r \in Members /\ r.name = n /\ r.off = m.off /\ r.type = m.type /\ r.special = m.special
    BY DEF Members
  <1>2. q \in Members /\ q.name = n /\ q.off = m.off /\ q.type = m.type /\ q.special = FALSE
    BY DEF Members
  <1>3. r.special = FALSE
    <2>1. m.special \in BOOLEAN
      BY DEF Members
    <2> QED
      BY <1>1, <2>1
  <1> HIDE DEF r, q
  <1>4. r = q
    BY <1>1, <1>2, <1>3 DEF Members
  <1> QED
    BY <1>4 DEF r, q

\* A call about a frame that is refused.
LEMMA FrameRefused ==
  ASSUME FramesInv, UNCHANGED name, UNCHANGED toolVars, NEW tool, tool # "dbg_start_process",
         NEW t, NEW at, Refused(tool, t, at)
  PROVE  FramesInv' /\ Truthful
  <1>1. UNCHANGED frame
    BY DEF toolVars, stackVars
  <1>2. reply'.ok = FALSE /\ reply'.tool # "dbg_start_process"
    BY DEF Refused, Reply
  <1> QED
    BY <1>1, <1>2, FramesStay, RefusedTruthful

\* rename_stack_frame_variable: this member has another name, and is neither special nor
\* an argument.
LEMMA RenameStackTells ==
  ASSUME IInv, FramesInv, NEW t \in Texts, NEW old \in MemberNames, NEW new \in MemberNames,
         RenameStackVariable(t, old, new)
  PROVE  FramesInv' /\ Truthful
  <1> DEFINE Work(f) == \E m \in FrameMember(f, old) :
                       CheckMutable(f, m) /\ DefineStkvar(f, new, m.off - Fp, m.type)
  <1>1. PICK r \in Resolve(t) :
          \/ /\ FunctionAt(r.ea) # None /\ Work(FunctionAt(r.ea))
             /\ Reply("rename_stack_frame_variable", t, <<old, new>>, FunctionAt(r.ea), TRUE)
          \/ UNCHANGED toolVars /\ Refused("rename_stack_frame_variable", t, FunctionAt(r.ea))
    BY DEF RenameStackVariable, OnFunction
  <1>2. UNCHANGED name
    BY DEF RenameStackVariable, OnFunction
  <1> DEFINE f == FunctionAt(r.ea)
  <1>3. ASSUME f # None, NEW m \in FrameMember(f, old), CheckMutable(f, m),
               DefineStkvar(f, new, m.off - Fp, m.type),
               Reply("rename_stack_frame_variable", t, <<old, new>>, f, TRUE)
        PROVE  FramesInv' /\ Truthful
    <2>1. f \in Addrs
      BY <1>3, FoundIn DEF IInv
    <2> HIDE DEF f
    <2>2. m \in frame[f] /\ m.name = old
      BY DEF FrameMember
    <2>3. ~m.special /\ BeforeSpecial(f, m)
      BY <1>3, <2>1, <2>2, MutableIs
    <2>4. m \in Members /\ m.off \in Int /\ m.off - Fp \in Int /\ (m.off - Fp) + Fp = m.off /\ m.type \in Types
      BY <2>1, <2>2, ToolsAssumption DEF IInv, ToolsTypeOK, Members
    <2> DEFINE n == [m EXCEPT !.name = new]
    <2>5. n = [name |-> new, off |-> (m.off - Fp) + Fp, type |-> m.type, special |-> FALSE]
      BY <2>3, <2>4, RenamedIs
    <2>6. Span(n) = Span(m)
      BY <2>4, <2>5 DEF Span
    <2>7. /\ FramesInv' /\ frame'[f] = {x \in frame[f] : Span(x) \cap Span(n) = {}} \cup {n}
          /\ Changed(frame, frame') \subseteq {f} /\ UNCHANGED <<lvar, typeVars, cmtVars, code, dbgVars>>
      BY <1>3, <2>1, <2>4, <2>5, DefineIs
    <2>8. frame'[f] = (frame[f] \ {m}) \cup {n}
      BY <2>1, <2>2, <2>6, <2>7, OthersApart
    <2>9. reply' = [tool |-> "rename_stack_frame_variable", target |-> t, args |-> <<old, new>>,
                    at |-> f, ok |-> TRUE]
      BY <1>3 DEF Reply
    <2>10. Touched \subseteq Subject(reply')
      BY <1>2, <2>7, <2>9, FrameTouched DEF Subject
    <2>11. \E x \in frame[f] :
             /\ x.name = old /\ ~x.special /\ BeforeSpecial(f, x)
             /\ frame'[f] = (frame[f] \ {x}) \cup {[x EXCEPT !.name = new]}
      BY <2>2, <2>3, <2>8
    <2>12. Done(reply')
      BY <2>9, <2>11 DEF Done, OneMember
    <2> QED
      BY <2>7, <2>9, <2>10, <2>12, DoneTruthful
  <1>4. CASE UNCHANGED toolVars /\ Refused("rename_stack_frame_variable", t, f)
    BY <1>2, <1>4, FrameRefused
  <1> QED
    BY <1>1, <1>3, <1>4

\* create_stack_frame_variable: there is such a member afterwards.
LEMMA CreateStackTells ==
  ASSUME IInv, FramesInv, NEW t \in Texts, NEW fpoff \in Int, NEW n \in MemberNames, NEW ty \in Types,
         CreateStackVariable(t, fpoff, n, ty)
  PROVE  FramesInv' /\ Truthful
  <1>1. PICK r \in Resolve(t) :
          \/ /\ FunctionAt(r.ea) # None /\ DefineStkvar(FunctionAt(r.ea), n, fpoff, ty)
             /\ Reply("create_stack_frame_variable", t, <<fpoff + Fp, n, ty>>, FunctionAt(r.ea), TRUE)
          \/ UNCHANGED toolVars /\ Refused("create_stack_frame_variable", t, FunctionAt(r.ea))
    BY DEF CreateStackVariable, OnFunction
  <1>2. UNCHANGED name
    BY DEF CreateStackVariable, OnFunction
  <1> DEFINE f == FunctionAt(r.ea)
             new == [name |-> n, off |-> fpoff + Fp, type |-> ty, special |-> FALSE]
  <1>3. CASE /\ f # None /\ DefineStkvar(f, n, fpoff, ty)
             /\ Reply("create_stack_frame_variable", t, <<fpoff + Fp, n, ty>>, f, TRUE)
    <2>1. f \in Addrs
      BY <1>3, FoundIn DEF IInv
    <2>2. /\ FramesInv' /\ new \in frame'[f]
          /\ Changed(frame, frame') \subseteq {f} /\ UNCHANGED <<lvar, typeVars, cmtVars, code, dbgVars>>
      BY <1>3, <2>1, DefineIs
    <2>3. reply' = [tool |-> "create_stack_frame_variable", target |-> t, args |-> <<fpoff + Fp, n, ty>>,
                    at |-> f, ok |-> TRUE]
      BY <1>3 DEF Reply
    <2>4. Touched \subseteq Subject(reply')
      BY <1>2, <2>2, <2>3, FrameTouched DEF Subject
    <2>5. Done(reply')
      BY <2>2, <2>3 DEF Done
    <2> QED
      BY <2>2, <2>3, <2>4, <2>5, DoneTruthful
  <1>4. CASE UNCHANGED toolVars /\ Refused("create_stack_frame_variable", t, f)
    BY <1>2, <1>4, FrameRefused
  <1> QED
    BY <1>1, <1>3, <1>4

\* set_stack_frame_variable_type: this member has another type.
LEMMA SetStackTypeTells ==
  ASSUME IInv, FramesInv, NEW t \in Texts, NEW n \in MemberNames, NEW ty \in Types,
         SetStackVariableType(t, n, ty)
  PROVE  FramesInv' /\ Truthful
  <1> DEFINE Work(f, m) ==
        /\ [m EXCEPT !.type = ty].off + SizeOf[ty] <= FrameSize
        /\ \A x \in frame[f] \ {m} : Span(x) \cap Span([m EXCEPT !.type = ty]) = {}
        /\ frame' = [frame EXCEPT ![f] = (@ \ {m}) \cup {[m EXCEPT !.type = ty]}]
        /\ UNCHANGED <<lvar, typeVars, cmtVars, code, dbgVars>>
  <1>1. PICK r \in Resolve(t) :
          \/ /\ FunctionAt(r.ea) # None /\ \E m \in FrameMember(FunctionAt(r.ea), n) : Work(FunctionAt(r.ea), m)
             /\ Reply("set_stack_frame_variable_type", t, <<n, ty>>, FunctionAt(r.ea), TRUE)
          \/ UNCHANGED toolVars /\ Refused("set_stack_frame_variable_type", t, FunctionAt(r.ea))
    BY DEF SetStackVariableType, OnFunction
  <1>2. UNCHANGED name
    BY DEF SetStackVariableType, OnFunction
  <1> DEFINE f == FunctionAt(r.ea)
  <1>3. ASSUME f # None, NEW m \in FrameMember(f, n), Work(f, m),
               Reply("set_stack_frame_variable_type", t, <<n, ty>>, f, TRUE)
        PROVE  FramesInv' /\ Truthful
    <2>1. f \in Addrs
      BY <1>3, FoundIn DEF IInv
    <2> HIDE DEF f
    <2> DEFINE new == [m EXCEPT !.type = ty]
    <2>2. m \in frame[f] /\ m.name = n /\ frame[f] \in SUBSET Members /\ WellFormed(frame[f])
      BY <2>1 DEF FrameMember, IInv, ToolsTypeOK, FramesInv
    <2>3. new \in Members /\ new.type = ty /\ new.name = m.name
      BY <2>2 DEF Members
    <2>4. /\ new.off + SizeOf[ty] <= FrameSize
          /\ \A x \in frame[f] \ {m} : Span(x) \cap Span(new) = {}
          /\ frame' = [frame EXCEPT ![f] = (frame[f] \ {m}) \cup {new}]
          /\ UNCHANGED <<lvar, typeVars, cmtVars, code, dbgVars>>
      BY <1>3, <2>1
    <2> HIDE DEF new
    <2>5. \A x \in frame[f] \ {m} : x.name # new.name /\ Span(x) \cap Span(new) = {}
      BY <2>2, <2>3, <2>4 DEF WellFormed
    <2>6. WellFormed((frame[f] \ {m}) \cup {new})
      <3>1. frame[f] \ {m} \in SUBSET frame[f]
        OBVIOUS
      <3> QED
        BY <2>2, <2>3, <2>4, <2>5, <3>1, AddedWell
    <2>7. FramesInv' /\ frame'[f] = (frame[f] \ {m}) \cup {new}
      <3>1. (frame[f] \ {m}) \cup {new} \in SUBSET Members
        BY <2>2, <2>3
      <3> QED
        BY <2>1, <2>4, <2>6, <3>1, FrameKept
    <2>8. reply' = [tool |-> "set_stack_frame_variable_type", target |-> t, args |-> <<n, ty>>,
                    at |-> f, ok |-> TRUE]
      BY <1>3 DEF Reply
    <2>9. Touched \subseteq Subject(reply')
      <3>1. Changed(frame, frame') \subseteq {f}
        <4>1. PICK y : frame' = [frame EXCEPT ![f] = y]
          BY <2>4
        <4> QED
          BY <4>1, ChangedIs
      <3>2. Touched = {"frame"} \X Changed(frame, frame')
        BY <1>2, <2>4, FrameTouched
      <3>3. Subject(reply') = {<<"frame", f>>}
        BY <2>8 DEF Subject
      <3> QED
        BY <3>1, <3>2, <3>3
    <2>10. \E x \in frame[f] : x.name = n /\ frame'[f] = (frame[f] \ {x}) \cup {[x EXCEPT !.type = ty]}
      BY <2>2, <2>7 DEF new
    <2>11. Done(reply')
      BY <2>8, <2>10 DEF Done, OneMember
    <2> QED
      BY <2>7, <2>8, <2>9, <2>11, DoneTruthful
  <1>4. CASE UNCHANGED toolVars /\ Refused("set_stack_frame_variable_type", t, f)
    BY <1>2, <1>4, FrameRefused
  <1> QED
    BY <1>1, <1>3, <1>4

\* delete_stack_frame_variable: this member is gone, and no other.
LEMMA DeleteStackTells ==
  ASSUME IInv, FramesInv, NEW t \in Texts, NEW n \in MemberNames, DeleteStackVariable(t, n)
  PROVE  FramesInv' /\ Truthful
  <1> DEFINE Work(f, m) ==
        /\ CheckMutable(f, m)
        /\ frame' = [frame EXCEPT ![f] = {x \in @ : Span(x) \cap Span(m) = {}}]
        /\ UNCHANGED <<lvar, typeVars, cmtVars, code, dbgVars>>
  <1>1. PICK r \in Resolve(t) :
          \/ /\ FunctionAt(r.ea) # None /\ \E m \in FrameMember(FunctionAt(r.ea), n) : Work(FunctionAt(r.ea), m)
             /\ Reply("delete_stack_frame_variable", t, <<n>>, FunctionAt(r.ea), TRUE)
          \/ UNCHANGED toolVars /\ Refused("delete_stack_frame_variable", t, FunctionAt(r.ea))
    BY DEF DeleteStackVariable, OnFunction
  <1>2. UNCHANGED name
    BY DEF DeleteStackVariable, OnFunction
  <1> DEFINE f == FunctionAt(r.ea)
  <1>3. ASSUME f # None, NEW m \in FrameMember(f, n), Work(f, m),
               Reply("delete_stack_frame_variable", t, <<n>>, f, TRUE)
        PROVE  FramesInv' /\ Truthful
    <2>1. f \in Addrs
      BY <1>3, FoundIn DEF IInv
    <2> HIDE DEF f
    <2>2. m \in frame[f] /\ m.name = n /\ frame[f] \in SUBSET Members /\ WellFormed(frame[f])
      BY <2>1 DEF FrameMember, IInv, ToolsTypeOK, FramesInv
    <2>3. ~m.special /\ BeforeSpecial(f, m)
      BY <1>3, <2>1, <2>2, MutableIs
    <2>4. frame' = [frame EXCEPT ![f] = frame[f] \ {m}]
      <3>1. frame' = [frame EXCEPT ![f] = {x \in frame[f] : Span(x) \cap Span(m) = {}}]
        BY <1>3, <2>1
      <3> QED
        BY <2>1, <2>2, <3>1, OthersApart
    <2>5. WellFormed(frame[f] \ {m})
      BY <2>2 DEF WellFormed
    <2>6. FramesInv' /\ frame'[f] = frame[f] \ {m}
      <3>1. frame[f] \ {m} \in SUBSET Members
        BY <2>2
      <3> QED
        BY <2>1, <2>4, <2>5, <3>1, FrameKept
    <2>7. reply' = [tool |-> "delete_stack_frame_variable", target |-> t, args |-> <<n>>,
                    at |-> f, ok |-> TRUE]
      BY <1>3 DEF Reply
    <2>8. Touched \subseteq Subject(reply')
      <3>1. Changed(frame, frame') \subseteq {f}
        <4>1. PICK y : frame' = [frame EXCEPT ![f] = y]
          BY <2>4
        <4> QED
          BY <4>1, ChangedIs
      <3>2. Touched = {"frame"} \X Changed(frame, frame')
        BY <1>2, <1>3, FrameTouched
      <3>3. Subject(reply') = {<<"frame", f>>}
        BY <2>7 DEF Subject
      <3> QED
        BY <3>1, <3>2, <3>3
    <2>9. \E x \in frame[f] : /\ x.name = n /\ ~x.special /\ BeforeSpecial(f, x)
                              /\ frame'[f] = (frame[f] \ {x}) \cup {}
      BY <2>2, <2>3, <2>6
    <2>10. Done(reply')
      BY <2>7, <2>9 DEF Done, OneMember
    <2> QED
      BY <2>6, <2>7, <2>8, <2>10, DoneTruthful
  <1>4. CASE UNCHANGED toolVars /\ Refused("delete_stack_frame_variable", t, f)
    BY <1>2, <1>4, FrameRefused
  <1> QED
    BY <1>1, <1>3, <1>4

-----------------------------------------------------------------------------
\* The tools for names, types and local variables.

\* A call that is refused has not touched a frame, or anything else.
LEMMA Refusal ==
  ASSUME UNCHANGED name, UNCHANGED toolVars, NEW tool, tool # "dbg_start_process",
         NEW t, NEW at, Refused(tool, t, at)
  PROVE  UNCHANGED frame /\ Truthful
  <1>1. UNCHANGED frame
    BY DEF toolVars, stackVars
  <1>2. reply'.ok = FALSE /\ reply'.tool # "dbg_start_process"
    BY DEF Refused, Reply
  <1> QED
    BY <1>1, <1>2, RefusedTruthful

\* rename_global_variable.
LEMMA RenameGlobalTells ==
  ASSUME IInv, NEW t \in Texts, NEW n \in RawNames \cup {None}, RenameGlobal(t, n), UNCHANGED toolVars
  PROVE  Truthful
  <1>1. CASE /\ NameEa(t) # None /\ SetName(NameEa(t), n, cache)
             /\ Reply("rename_global_variable", t, <<n>>, NameEa(t), TRUE)
    <2>1. NameEa(t) \in Addrs
      BY <1>1, NameEaSound DEF IInv
    <2>2. name' = [name EXCEPT ![NameEa(t)] = n] /\ name'[NameEa(t)] = n
      BY <1>1, <2>1 DEF SetName, IInv, NamesInv, NamesTypeOK
    <2>3. reply' = [tool |-> "rename_global_variable", target |-> t, args |-> <<n>>,
                    at |-> NameEa(t), ok |-> TRUE]
      BY <1>1 DEF Reply
    <2>4. Touched \subseteq Subject(reply')
      <3>1. Changed(name, name') \subseteq {NameEa(t)}
        <4>1. PICK y : name' = [name EXCEPT ![NameEa(t)] = y]
          BY <2>2
        <4> QED
          BY <4>1, ChangedIs
      <3>2. Touched = {"name"} \X Changed(name, name')
        BY NameTouched
      <3>3. Subject(reply') = {<<"name", NameEa(t)>>}
        BY <2>3 DEF Subject
      <3> QED
        BY <3>1, <3>2, <3>3
    <2>5. Done(reply')
      BY <2>2, <2>3 DEF Done
    <2> QED
      BY <2>3, <2>4, <2>5, DoneTruthful
  <1>2. CASE UNCHANGED <<name, cache>> /\ Refused("rename_global_variable", t, NameEa(t))
    BY <1>2, Refusal
  <1> QED
    BY <1>1, <1>2 DEF RenameGlobal

\* rename_local_variable: the other name has the type that this one had.
LEMMA RenameLocalTells ==
  ASSUME IInv, NEW t \in Texts, NEW old \in LocalNames, NEW new \in LocalNames,
         RenameLocalVariable(t, old, new)
  PROVE  UNCHANGED frame /\ Truthful
  <1> DEFINE Work(f) ==
        /\ lvar' = [lvar EXCEPT ![f] = [@ EXCEPT ![old] = None, ![new] = lvar[f][old]]]
        /\ UNCHANGED <<frame, typeVars, cmtVars, code, dbgVars>>
  <1>1. PICK r \in Resolve(t) :
          \/ /\ FunctionAt(r.ea) # None /\ Work(FunctionAt(r.ea))
             /\ Reply("rename_local_variable", t, <<old, new>>, FunctionAt(r.ea), TRUE)
          \/ UNCHANGED toolVars /\ Refused("rename_local_variable", t, FunctionAt(r.ea))
    BY DEF RenameLocalVariable, OnFunction
  <1>2. UNCHANGED name
    BY DEF RenameLocalVariable, OnFunction
  <1> DEFINE f == FunctionAt(r.ea)
  <1>3. CASE f # None /\ Work(f) /\ Reply("rename_local_variable", t, <<old, new>>, f, TRUE)
    <2>1. f \in Addrs
      BY <1>3, FoundIn DEF IInv
    <2>2. lvar' = [lvar EXCEPT ![f] = [lvar[f] EXCEPT ![old] = None, ![new] = lvar[f][old]]]
          /\ lvar \in [Addrs -> [LocalNames -> Types \cup {None}]]
      BY <1>3, <2>1 DEF IInv, ToolsTypeOK
    <2> HIDE DEF f
    <2>3. lvar'[f][new] = lvar[f][old]
      BY <2>1, <2>2
    <2>4. reply' = [tool |-> "rename_local_variable", target |-> t, args |-> <<old, new>>,
                    at |-> f, ok |-> TRUE]
      BY <1>3 DEF Reply
    <2>5. Touched \subseteq Subject(reply')
      <3>1. Changed(lvar, lvar') \subseteq {f}
        <4>1. PICK y : lvar' = [lvar EXCEPT ![f] = y]
          BY <2>2
        <4> QED
          BY <4>1, ChangedIs
      <3>2. Touched = {"lvar"} \X Changed(lvar, lvar')
        BY <1>2, <1>3, LvarTouched
      <3>3. Subject(reply') = {<<"lvar", f>>}
        BY <2>4 DEF Subject
      <3> QED
        BY <3>1, <3>2, <3>3
    <2>6. Done(reply')
      BY <2>3, <2>4 DEF Done
    <2> QED
      BY <1>3, <2>4, <2>5, <2>6, DoneTruthful
  <1>4. CASE UNCHANGED toolVars /\ Refused("rename_local_variable", t, f)
    BY <1>2, <1>4, Refusal
  <1> QED
    BY <1>1, <1>3, <1>4

\* set_local_variable_type: the type that parses from the text, if any does.
LEMMA SetLocalTells ==
  ASSUME IInv, NEW t \in Texts, NEW n \in LocalNames, NEW d \in Types \cup {None},
         SetLocalVariableType(t, n, d)
  PROVE  UNCHANGED frame /\ Truthful
  <1> DEFINE Work(f) ==
        /\ \E ty \in IF Parse(d) = None THEN Types ELSE {Parse(d)} : lvar' = [lvar EXCEPT ![f][n] = ty]
        /\ UNCHANGED <<frame, typeVars, cmtVars, code, dbgVars>>
  <1>1. CASE /\ Refused("set_local_variable_type", None, None)
             /\ UNCHANGED <<nameVars, toolVars>>
    BY <1>1, Refusal DEF nameVars
  <1>2. CASE /\ UNCHANGED name
             /\ \E r \in Resolve(t) :
                  \/ /\ FunctionAt(r.ea) # None /\ Work(FunctionAt(r.ea))
                     /\ Reply("set_local_variable_type", t, <<n, d>>, FunctionAt(r.ea), TRUE)
                  \/ UNCHANGED toolVars /\ Refused("set_local_variable_type", t, FunctionAt(r.ea))
    <2>0. PICK r \in Resolve(t) :
             \/ /\ FunctionAt(r.ea) # None /\ Work(FunctionAt(r.ea))
                /\ Reply("set_local_variable_type", t, <<n, d>>, FunctionAt(r.ea), TRUE)
             \/ UNCHANGED toolVars /\ Refused("set_local_variable_type", t, FunctionAt(r.ea))
      BY <1>2
    <2> DEFINE f == FunctionAt(r.ea)
    <2>a. CASE f # None /\ Work(f) /\ Reply("set_local_variable_type", t, <<n, d>>, f, TRUE)
      <3>1. f \in Addrs
        BY <2>a, FoundIn DEF IInv
      <3> HIDE DEF f
      <3>2. PICK ty : lvar' = [lvar EXCEPT ![f][n] = ty] /\ (d # None => ty = d)
        BY <2>a DEF Parse
      <3>3. lvar'[f][n] = ty
        BY <3>1, <3>2 DEF IInv, ToolsTypeOK
      <3>4. reply' = [tool |-> "set_local_variable_type", target |-> t, args |-> <<n, d>>,
                      at |-> f, ok |-> TRUE]
        BY <2>a DEF Reply
      <3>5. Touched \subseteq Subject(reply')
        <4>1. Changed(lvar, lvar') \subseteq {f}
          BY <3>2 DEF Changed
        <4>2. Touched = {"lvar"} \X Changed(lvar, lvar')
          BY <1>2, <2>a, LvarTouched
        <4>3. Subject(reply') = {<<"lvar", f>>}
          BY <3>4 DEF Subject
        <4> QED
          BY <4>1, <4>2, <4>3
      <3>6. Done(reply')
        BY <3>2, <3>3, <3>4 DEF Done
      <3> QED
        BY <2>a, <3>4, <3>5, <3>6, DoneTruthful
    <2>b. CASE UNCHANGED toolVars /\ Refused("set_local_variable_type", t, f)
      BY <1>2, <2>b, Refusal
    <2> QED
      BY <2>0, <2>a, <2>b
  <1> QED
    BY <1>1, <1>2 DEF SetLocalVariableType, OnFunction

\* set_function_prototype.
LEMMA SetPrototypeTells ==
  ASSUME IInv, NEW t \in Texts, NEW d \in Types \cup {None}, SetFunctionPrototype(t, d)
  PROVE  UNCHANGED frame /\ Truthful
  <1> DEFINE Work(f) ==
        /\ Parse(d) # None
        /\ typed' = [typed EXCEPT ![f] = Parse(d)]
        /\ UNCHANGED <<stackVars, local, cmtVars, code, dbgVars>>
  <1>1. PICK r \in Resolve(t) :
          \/ /\ FunctionAt(r.ea) # None /\ Work(FunctionAt(r.ea))
             /\ Reply("set_function_prototype", t, <<d>>, FunctionAt(r.ea), TRUE)
          \/ UNCHANGED toolVars /\ Refused("set_function_prototype", t, FunctionAt(r.ea))
    BY DEF SetFunctionPrototype, OnFunction
  <1>2. UNCHANGED name
    BY DEF SetFunctionPrototype, OnFunction
  <1> DEFINE f == FunctionAt(r.ea)
  <1>3. CASE f # None /\ Work(f) /\ Reply("set_function_prototype", t, <<d>>, f, TRUE)
    <2>1. f \in Addrs
      BY <1>3, FoundIn DEF IInv
    <2>2. typed' = [typed EXCEPT ![f] = d] /\ typed'[f] = d
      BY <1>3, <2>1 DEF Parse, IInv, ToolsTypeOK
    <2>3. reply' = [tool |-> "set_function_prototype", target |-> t, args |-> <<d>>,
                    at |-> f, ok |-> TRUE]
      BY <1>3 DEF Reply
    <2>4. Touched \subseteq Subject(reply')
      <3>1. Changed(typed, typed') \subseteq {f}
        <4>1. PICK y : typed' = [typed EXCEPT ![f] = y]
          BY <2>2
        <4> QED
          BY <4>1, ChangedIs
      <3>2. Touched = {"typed"} \X Changed(typed, typed')
        BY <1>2, <1>3, TypedTouched
      <3>3. Subject(reply') = {<<"typed", f>>}
        BY <2>3 DEF Subject
      <3> QED
        BY <3>1, <3>2, <3>3
    <2>5. Done(reply')
      BY <2>2, <2>3 DEF Done
    <2> QED
      BY <1>3, <2>3, <2>4, <2>5, DoneTruthful DEF stackVars
  <1>4. CASE UNCHANGED toolVars /\ Refused("set_function_prototype", t, f)
    BY <1>2, <1>4, Refusal
  <1> QED
    BY <1>1, <1>3, <1>4

\* set_global_variable_type.
LEMMA SetGlobalTypeTells ==
  ASSUME IInv, NEW t \in Texts, NEW d \in Types \cup {None}, SetGlobalType(t, d)
  PROVE  UNCHANGED frame /\ Truthful
  <1> DEFINE ea == NameOrAddress(t)
  <1>1. UNCHANGED name
    BY DEF SetGlobalType, nameVars
  <1>2. CASE /\ ea # None /\ Parse(d) # None
             /\ typed' = [typed EXCEPT ![ea] = Parse(d)]
             /\ UNCHANGED <<stackVars, local, cmtVars, code, dbgVars>>
             /\ Reply("set_global_variable_type", t, <<d>>, ea, TRUE)
    <2>1. ea \in Addrs
      BY <1>2, NameEaSound, NamesAssumption DEF NameOrAddress, IInv
    <2>2. typed' = [typed EXCEPT ![ea] = d] /\ typed'[ea] = d
      BY <1>2, <2>1 DEF Parse, IInv, ToolsTypeOK
    <2>3. reply' = [tool |-> "set_global_variable_type", target |-> t, args |-> <<d>>,
                    at |-> ea, ok |-> TRUE]
      BY <1>2 DEF Reply
    <2>4. Touched \subseteq Subject(reply')
      <3>1. Changed(typed, typed') \subseteq {ea}
        <4>1. PICK y : typed' = [typed EXCEPT ![ea] = y]
          BY <2>2
        <4> QED
          BY <4>1, ChangedIs
      <3>2. Touched = {"typed"} \X Changed(typed, typed')
        BY <1>1, <1>2, TypedTouched
      <3>3. Subject(reply') = {<<"typed", ea>>}
        BY <2>3 DEF Subject
      <3> QED
        BY <3>1, <3>2, <3>3
    <2>5. Done(reply')
      BY <2>2, <2>3 DEF Done
    <2> QED
      BY <1>2, <2>3, <2>4, <2>5, DoneTruthful DEF stackVars
  <1>3. CASE UNCHANGED toolVars /\ Refused("set_global_variable_type", t, ea)
    BY <1>1, <1>3, Refusal
  <1> QED
    BY <1>2, <1>3 DEF SetGlobalType

\* declare_c_type: what it declares is among what it was given.
LEMMA DeclareTells ==
  ASSUME IInv, NEW ds \in SUBSET (Types \cup {None}), DeclareCType(ds)
  PROVE  UNCHANGED frame /\ Truthful
  <1>1. PICK done \in SUBSET (ds \cap Types) :
          local' = local \cup done /\ Reply("declare_c_type", None, <<ds>>, None, done = ds)
    BY DEF DeclareCType
  <1>2. UNCHANGED <<name, frame, lvar, typed, cmt, mirror, code, bpt, debuggee>>
    BY DEF DeclareCType, nameVars, stackVars, cmtVars, dbgVars
  <1>3. /\ reply'.tool = "declare_c_type" /\ reply'.args = <<ds>> /\ reply'.ok = (done = ds)
    BY <1>1 DEF Reply
  <1>4. Touched \subseteq {"local"} \X ds
    <2>1. local' \ local \subseteq ds /\ local \ local' = {}
      BY <1>1
    <2> QED
      BY <1>2, <2>1, ChangedIs DEF Touched
  <1>5. Subject(reply') = {"local"} \X ds
    BY <1>3 DEF Subject
  <1>6. ASSUME reply'.ok
        PROVE  Done(reply')
    <2>1. ds \subseteq local'
      BY <1>1, <1>3, <1>6
    <2>2. reply'.args[1] = ds /\ reply'.tool = "declare_c_type"
      BY <1>3
    <2> QED
      BY <2>1, <2>2 DEF Done
  <1> QED
    BY <1>2, <1>3, <1>4, <1>5, <1>6 DEF Truthful, Partial

-----------------------------------------------------------------------------
\* Comments, patches, and the debugger.

\* set_comment: the disassembly has the comment, and the pseudocode at most.
LEMMA SetCommentTells ==
  ASSUME IInv, NEW t \in Texts, NEW c \in Comments \cup {None}, SetComment(t, c)
  PROVE  UNCHANGED frame /\ Truthful
  <1> DEFINE ea == EaOf[t]
  <1>1. UNCHANGED <<name, frame, stackVars, typeVars, code, dbgVars>>
    BY DEF SetComment, nameVars, stackVars
  <1>2. CASE /\ ea # None
             /\ cmt' = [cmt EXCEPT ![ea] = c]
             /\ Attach(ea, c)
             /\ Reply("set_comment", t, <<c>>, ea, TRUE)
    <2>1. ea \in Addrs
      BY <1>2, NamesAssumption
    <2> HIDE DEF ea
    <2>2. reply' = [tool |-> "set_comment", target |-> t, args |-> <<c>>, at |-> ea, ok |-> TRUE]
      BY <1>2 DEF Reply
    <2>3. Changed(cmt, cmt') \subseteq {ea}
      BY <1>2, ChangedIs
    <2>4. Changed(mirror, mirror') \subseteq {ea, InEamap[ea]}
      <3>1. \/ mirror' = mirror
            \/ mirror' = [mirror EXCEPT ![ea] = c]
            \/ mirror' = [mirror EXCEPT ![InEamap[ea]] = c]
        BY <1>2 DEF Attach
      <3>2. CASE mirror' = mirror
        BY <3>2, ChangedIs
      <3>3. CASE mirror' = [mirror EXCEPT ![ea] = c]
        BY <3>3, ChangedIs
      <3>4. CASE mirror' = [mirror EXCEPT ![InEamap[ea]] = c]
        BY <3>4, ChangedIs
      <3> QED
        BY <3>1, <3>2, <3>3, <3>4
    <2>5. Touched = ({"cmt"} \X Changed(cmt, cmt')) \cup ({"mirror"} \X Changed(mirror, mirror'))
      BY <1>1, CmtTouched
    <2>6. Subject(reply') = {<<"cmt", ea>>, <<"mirror", ea>>} \cup {<<"mirror", InEamap[a]>> : a \in Addrs \cap {ea}}
      BY <2>2 DEF Subject
    <2>7. {<<"cmt", ea>>, <<"mirror", ea>>, <<"mirror", InEamap[ea]>>} \subseteq Subject(reply')
      BY <2>1, <2>6
    <2>8. Touched \subseteq {<<"cmt", ea>>, <<"mirror", ea>>, <<"mirror", InEamap[ea]>>}
      BY <2>3, <2>4, <2>5
    <2>9. Done(reply')
      <3>1. cmt'[ea] = c
        BY <1>2, <2>1 DEF IInv, ToolsTypeOK
      <3> QED
        BY <2>2, <3>1 DEF Done
    <2> QED
      BY <1>1, <2>2, <2>7, <2>8, <2>9, DoneTruthful
  <1>3. CASE UNCHANGED cmtVars /\ Refused("set_comment", t, ea)
    <2>1. UNCHANGED toolVars
      BY <1>1, <1>3 DEF toolVars
    <2> QED
      BY <1>1, <1>3, <2>1, Refusal
  <1> QED
    BY <1>2, <1>3 DEF SetComment

\* patch_address_assembles: the instructions that the answer counts are all there.
LEMMA PatchTells ==
  ASSUME IInv, NEW t \in Texts, NEW p \in Requests, Patch(t, p)
  PROVE  UNCHANGED frame /\ Truthful
  <1> DEFINE ea == EaOf[t]
  <1>0. p \in Seq(Instructions)
    BY ToolsAssumption
  <1>1. UNCHANGED <<name, frame, stackVars, typeVars, cmtVars, dbgVars>>
    BY DEF Patch, nameVars, stackVars
  <1>2. ASSUME ea # None, NEW k \in 1..Len(p), code' = Patched(ea, p, k),
               Reply("patch_address_assembles", t, p, ea, k = Len(p))
        PROVE  UNCHANGED frame /\ Truthful
    <2>1. ea \in Addrs
      BY <1>2, NamesAssumption
    <2> HIDE DEF ea
    <2>2. /\ reply'.tool = "patch_address_assembles" /\ reply'.args = p /\ reply'.at = ea
          /\ reply'.ok = (k = Len(p))
      BY <1>2 DEF Reply
    <2>3. InCode(reply', k)
      <3> SUFFICES ASSUME NEW n \in 1..k, NEW a \in Addrs,
                          a - ea - Before(p, n) \in 0..(InstrSize[p[n]] - 1)
                   PROVE  code'[a] = p[n]
        BY <2>2 DEF InCode
      <3> QED
        BY <1>0, <1>2, <2>1, PatchedIs
    <2>4. Touched \subseteq Subject(reply')
      <3>1. Subject(reply') = {"code"} \X Addrs
        BY <2>2 DEF Subject
      <3>2. Changed(code, code') \subseteq Addrs
        BY DEF Changed, IInv, ToolsTypeOK
      <3>3. Touched = {"code"} \X Changed(code, code')
        BY <1>1, CodeTouched
      <3> QED
        BY <3>1, <3>2, <3>3
    <2>5. ASSUME reply'.ok
          PROVE  Done(reply')
      <3>1. InCode(reply', Len(reply'.args))
        BY <2>2, <2>3, <2>5
      <3> QED
        BY <2>2, <3>1 DEF Done
    <2>6. ASSUME ~reply'.ok
          PROVE  \E n \in 1..(Len(reply'.args) - 1) : InCode(reply', n)
      <3>1. k # Len(p)
        BY <2>2, <2>6
      <3>2. Len(p) \in Nat
        BY <1>0
      <3>3. k \in 1..(Len(p) - 1)
        BY <1>2, <3>1, <3>2
      <3> QED
        BY <2>2, <2>3, <3>3
    <2> QED
      BY <1>1, <2>2, <2>4, <2>5, <2>6 DEF Truthful, Partial
  <1>3. CASE UNCHANGED code /\ Refused("patch_address_assembles", t, ea)
    <2>1. UNCHANGED toolVars
      BY <1>1, <1>3 DEF toolVars
    <2> QED
      BY <1>1, <1>3, <2>1, Refusal
  <1> QED
    BY <1>2, <1>3 DEF Patch

\* A breakpoint is as the answer says, and no other one is touched.
LEMMA BreakpointTells ==
  ASSUME IInv, NEW tool, tool \in {"dbg_set_breakpoint", "dbg_delete_breakpoint", "dbg_enable_breakpoint"},
         NEW t, NEW args, NEW a \in Addrs, NEW b, bpt' = [bpt EXCEPT ![a] = b],
         tool = "dbg_set_breakpoint" => b # "none",
         tool = "dbg_delete_breakpoint" => b = "none",
         tool = "dbg_enable_breakpoint" => b = IF args[1] THEN "on" ELSE "off",
         UNCHANGED <<name, stackVars, typeVars, cmtVars, code, debuggee>>,
         Reply(tool, t, args, a, TRUE)
  PROVE  UNCHANGED frame /\ Truthful
  <1>1. reply' = [tool |-> tool, target |-> t, args |-> args, at |-> a, ok |-> TRUE]
    BY DEF Reply
  <1>2. bpt'[a] = b
    BY DEF IInv, ToolsTypeOK
  <1>3. Touched \subseteq {<<"bpt", a>>}
    <2>1. Changed(bpt, bpt') \subseteq {a}
      BY ChangedIs
    <2>2. Touched = {"bpt"} \X Changed(bpt, bpt')
      BY DebugTouched
    <2> QED
      BY ONLY <2>1, <2>2
  <1>4. Subject(reply') = {<<"bpt", a>>}
    BY <1>1 DEF Subject
  <1>5. Done(reply')
    <2>1. CASE tool = "dbg_set_breakpoint"
      BY <1>1, <1>2, <2>1 DEF Done
    <2>2. CASE tool = "dbg_delete_breakpoint"
      BY <1>1, <1>2, <2>2 DEF Done
    <2>3. CASE tool = "dbg_enable_breakpoint"
      BY <1>1, <1>2, <2>3 DEF Done
    <2> QED
      BY <2>1, <2>2, <2>3
  <1> QED
    BY <1>1, <1>3, <1>4, <1>5, DoneTruthful DEF stackVars

\* dbg_set_breakpoint.
LEMMA SetBreakpointTells ==
  ASSUME IInv, NEW t \in Texts, SetBreakpoint(t)
  PROVE  UNCHANGED frame /\ Truthful
  <1> DEFINE a == EaOf[t]
  <1>1. UNCHANGED name
    BY DEF SetBreakpoint, OnAddress, nameVars
  <1>2. CASE /\ a # None /\ bpt' = [bpt EXCEPT ![a] = IF @ = "none" THEN "on" ELSE @]
             /\ UNCHANGED <<stackVars, typeVars, cmtVars, code, debuggee>>
             /\ Reply("dbg_set_breakpoint", t, <<>>, a, TRUE)
    <2>1. a \in Addrs
      BY <1>2, NamesAssumption
    <2>2. PICK b : bpt' = [bpt EXCEPT ![a] = b] /\ b # "none"
      <3> DEFINE new == IF bpt[a] = "none" THEN "on" ELSE bpt[a]
      <3>1. bpt' = [bpt EXCEPT ![a] = new]
        BY <1>2, <2>1 DEF IInv, ToolsTypeOK
      <3>2. new # "none"
        OBVIOUS
      <3> HIDE DEF new
      <3> QED
        BY <3>1, <3>2
    <2> QED
      BY <1>1, <1>2, <2>1, <2>2, BreakpointTells
  <1>3. CASE UNCHANGED toolVars /\ Refused("dbg_set_breakpoint", t, a)
    BY <1>1, <1>3, Refusal
  <1> QED
    BY <1>2, <1>3 DEF SetBreakpoint, OnAddress

\* dbg_delete_breakpoint.
LEMMA DeleteBreakpointTells ==
  ASSUME IInv, NEW t \in Texts, DeleteBreakpoint(t)
  PROVE  UNCHANGED frame /\ Truthful
  <1> DEFINE a == EaOf[t]
  <1>1. UNCHANGED name
    BY DEF DeleteBreakpoint, OnAddress, nameVars
  <1>2. CASE /\ a # None /\ bpt' = [bpt EXCEPT ![a] = "none"]
             /\ UNCHANGED <<stackVars, typeVars, cmtVars, code, debuggee>>
             /\ Reply("dbg_delete_breakpoint", t, <<>>, a, TRUE)
    <2>1. a \in Addrs
      BY <1>2, NamesAssumption
    <2> QED
      BY <1>1, <1>2, <2>1, BreakpointTells
  <1>3. CASE UNCHANGED toolVars /\ Refused("dbg_delete_breakpoint", t, a)
    BY <1>1, <1>3, Refusal
  <1> QED
    BY <1>2, <1>3 DEF DeleteBreakpoint, OnAddress

\* dbg_enable_breakpoint.
LEMMA EnableBreakpointTells ==
  ASSUME IInv, NEW t \in Texts, NEW enable \in BOOLEAN, EnableBreakpoint(t, enable)
  PROVE  UNCHANGED frame /\ Truthful
  <1> DEFINE a == EaOf[t]
             b == IF enable THEN "on" ELSE "off"
  <1>1. UNCHANGED name
    BY DEF EnableBreakpoint, OnAddress, nameVars
  <1>2. CASE /\ a # None /\ bpt' = [bpt EXCEPT ![a] = b]
             /\ UNCHANGED <<stackVars, typeVars, cmtVars, code, debuggee>>
             /\ Reply("dbg_enable_breakpoint", t, <<enable>>, a, TRUE)
    <2>1. a \in Addrs
      BY <1>2, NamesAssumption
    <2>2. b = IF <<enable>>[1] THEN "on" ELSE "off"
      OBVIOUS
    <2> HIDE DEF b
    <2> QED
      BY <1>1, <1>2, <2>1, <2>2, BreakpointTells
  <1>3. CASE UNCHANGED toolVars /\ Refused("dbg_enable_breakpoint", t, a)
    BY <1>1, <1>3, Refusal
  <1> QED
    BY <1>2, <1>3 DEF EnableBreakpoint, OnAddress

\* dbg_start_process seeds breakpoints where it should, and only if there is none.
LEMMA StartProcessTells ==
  ASSUME IInv, NEW auto \in BOOLEAN, StartProcess(auto)
  PROVE  UNCHANGED frame /\ Truthful
  <1>1. UNCHANGED <<name, frame, stackVars, typeVars, cmtVars, code>>
    BY DEF StartProcess, nameVars, stackVars
  <1>2. PICK new \in Seeds(auto) : bpt' = [a \in Addrs |-> IF a \in new THEN "on" ELSE bpt[a]]
    BY DEF StartProcess
  <1>3. /\ reply'.tool = "dbg_start_process" /\ reply'.args = <<auto>>
        /\ reply'.ok = (debuggee = "none" /\ debuggee' = "paused")
    BY DEF StartProcess, Reply, HasIp
  <1>4. bpt \in [Addrs -> {"none", "on", "off"}]
    BY DEF IInv, ToolsTypeOK
  <1>5. bpt' = bpt \/ (auto /\ \A a \in Addrs : bpt[a] = "none")
    <2>1. CASE auto /\ \A a \in Addrs : bpt[a] = "none"
      BY <2>1
    <2>2. CASE ~(auto /\ \A a \in Addrs : bpt[a] = "none")
      <3>1. new = {}
        BY <1>2, <2>2 DEF Seeds
      <3> QED
        BY <1>2, <1>4, <3>1
    <2> QED
      BY <2>1, <2>2
  <1>6. Touched \subseteq Subject(reply')
    <2>1. new \subseteq Entries
      BY <1>2 DEF Seeds
    <2>2. Changed(bpt, bpt') \subseteq Entries
      BY <1>2, <1>4, <2>1 DEF Changed
    <2>3. Subject(reply') = {<<"debuggee", None>>} \cup ({"bpt"} \X Entries)
      BY <1>3 DEF Subject
    <2>4. Touched \subseteq {<<"debuggee", None>>} \cup ({"bpt"} \X Changed(bpt, bpt'))
      BY <1>1, DebugTouched
    <2> QED
      BY <2>2, <2>3, <2>4
  <1>7. ASSUME reply'.ok
        PROVE  Done(reply')
    <2>1. debuggee' = "paused"
      BY <1>3, <1>7
    <2> QED
      BY <1>3, <2>1 DEF Done
  <1>8. reply'.args[1] = auto
    BY <1>3
  <1> QED
    BY <1>1, <1>3, <1>5, <1>6, <1>7, <1>8 DEF Truthful, Partial

\* dbg_exit_process.
LEMMA ExitProcessTells ==
  ASSUME IInv, ExitProcess
  PROVE  UNCHANGED frame /\ Truthful
  <1>1. UNCHANGED <<name, frame, stackVars, typeVars, cmtVars, code, bpt>>
    BY DEF ExitProcess, nameVars, stackVars
  <1>2. /\ debuggee' = debuggee \/ debuggee' = "none"
        /\ reply'.tool = "dbg_exit_process" /\ reply'.ok = (debuggee' # debuggee)
    BY DEF ExitProcess, Reply
  <1>3. Touched = IF debuggee' = debuggee THEN {} ELSE {<<"debuggee", None>>}
    BY <1>1, DebugTouched, ChangedIs
  <1>4. Subject(reply') = {<<"debuggee", None>>}
    BY <1>2 DEF Subject
  <1>5. ASSUME reply'.ok
        PROVE  Done(reply')
    <2>1. debuggee' = "none"
      BY <1>2, <1>5
    <2> QED
      BY <1>2, <2>1 DEF Done
  <1>6. ~reply'.ok => Touched = {}
    BY <1>2, <1>3
  <1> QED
    BY <1>1, <1>2, <1>3, <1>4, <1>5, <1>6 DEF Truthful

\* dbg_continue_process and the other ways to go on.
LEMMA MoveTells ==
  ASSUME IInv, Move
  PROVE  UNCHANGED frame /\ Truthful
  <1>1. UNCHANGED <<name, frame, stackVars, typeVars, cmtVars, code, bpt>>
    BY DEF Move, nameVars, stackVars
  <1>2. CASE UNCHANGED debuggee /\ Refused("dbg_continue_process", None, None)
    <2>1. UNCHANGED toolVars
      BY <1>1, <1>2 DEF toolVars, dbgVars
    <2> QED
      BY <1>1, <1>2, <2>1, Refusal
  <1>3. CASE Reply("dbg_continue_process", None, <<>>, None, HasIp)
    <2>1. reply'.tool = "dbg_continue_process" /\ reply'.ok = (debuggee' = "paused")
      BY <1>3 DEF Reply, HasIp
    <2>2. Touched \subseteq {<<"debuggee", None>>}
      BY <1>1, DebugTouched, ChangedIs
    <2>3. Subject(reply') = {<<"debuggee", None>>}
      BY <2>1 DEF Subject
    <2>4. ASSUME reply'.ok
          PROVE  Done(reply')
      <3>1. debuggee' = "paused"
        BY <2>1, <2>4
      <3> QED
        BY <2>1, <3>1 DEF Done
    <2> QED
      BY <1>1, <2>1, <2>2, <2>3, <2>4 DEF Truthful, Partial
  <1> QED
    BY <1>2, <1>3 DEF Move

-----------------------------------------------------------------------------
\* What every step of a behaviour keeps, and what it says.
LEMMA NextTells ==
  ASSUME IInv, FramesInv, [Next]_vars
  PROVE  FramesInv' /\ (Truthful \/ reply' = NoReply \/ UNCHANGED reply)
  <1>1. CASE Rename
    <2>1. UNCHANGED frame
      BY <1>1 DEF Rename, toolVars, stackVars
    <2> QED
      BY <1>1, <2>1, FramesStay, RenameFunctionTells, RenameGlobalTells DEF Rename
  <1>2. CASE Stack
    <2>1. PICK t \in Texts, n \in MemberNames :
            \/ \E new \in MemberNames : RenameStackVariable(t, n, new)
            \/ \E off \in 0..(FrameSize - 1), ty \in Types : CreateStackVariable(t, off - Fp, n, ty)
            \/ \E ty \in Types : SetStackVariableType(t, n, ty)
            \/ DeleteStackVariable(t, n)
      BY <1>2 DEF Stack
    <2>2. \A off \in 0..(FrameSize - 1) : off - Fp \in Int
      BY ToolsAssumption
    <2> QED
      BY <2>1, <2>2, RenameStackTells, CreateStackTells, SetStackTypeTells, DeleteStackTells
  <1>3. CASE Typing
    BY <1>3, FramesStay, RenameLocalTells, SetLocalTells, SetPrototypeTells, SetGlobalTypeTells,
       DeclareTells DEF Typing
  <1>4. CASE Annotate
    BY <1>4, FramesStay, SetCommentTells, PatchTells DEF Annotate
  <1>5. CASE Debug
    BY <1>5, FramesStay, SetBreakpointTells, DeleteBreakpointTells, EnableBreakpointTells,
       StartProcessTells, ExitProcessTells, MoveTells DEF Debug
  <1>6. CASE Read
    <2>1. UNCHANGED frame
      BY <1>6 DEF Read, toolVars, stackVars
    <2> QED
      BY <1>6, <2>1, FramesStay, GetFunctionTells DEF Read
  <1>7. CASE Ida
    <2>1. reply' = NoReply
      BY <1>7 DEF Ida, Reanalyse
    <2>2. \A a \in Addrs : frame'[a] \in SUBSET frame[a]
      BY <1>7 DEF Ida, stackVars, IInv, ToolsTypeOK
    <2>3. FramesInv'
      BY <2>2 DEF FramesInv, WellFormed, Span
    <2> QED
      BY <2>1, <2>3
  <1>8. CASE UNCHANGED vars
    <2>1. UNCHANGED <<frame, reply>>
      BY <1>8 DEF vars, toolVars, stackVars
    <2> QED
      BY <2>1, FramesStay
  <1> QED
    BY <1>1, <1>2, <1>3, <1>4, <1>5, <1>6, <1>7, <1>8 DEF Next, Write

\* In every frame, members lie side by side and have names of their own, whatever tools
\* create, rename, retype and delete (stack.py).
THEOREM FramesWellFormed == Spec => []FramesInv
  <1>1. Init => FramesInv
    BY ToolsAssumption DEF Init, FramesInv
  <1>2. IInv /\ FramesInv /\ [Next]_vars => FramesInv'
    BY NextTells
  <1> QED
    BY <1>1, <1>2, Invariance, PTL DEF Spec

\* A call has done what it answers, and nothing that it does not (AnswerTruthful).
THEOREM AnswersTruthful == Spec => AnswerTruthful
  <1>1. IInv /\ FramesInv /\ [Next]_vars =>
          [LET r == reply'
           IN  r # reply /\ r # NoReply =>
                 /\ Touched \subseteq Subject(r)
                 /\ r.ok => Done(r)
                 /\ ~r.ok => \/ Touched = {}
                             \/ r.tool \in Partial
                 /\ r.tool = "patch_address_assembles" /\ ~r.ok =>
                      Touched = {} \/ \E k \in 1..(Len(r.args) - 1) : InCode(r, k)
                 /\ r.tool = "dbg_start_process" =>
                      bpt' = bpt \/ (r.args[1] /\ \A a \in Addrs : bpt[a] = "none")
          ]_vars
    BY NextTells DEF Truthful
  <1> QED
    BY <1>1, Invariance, FramesWellFormed, PTL DEF Spec, AnswerTruthful
=============================================================================

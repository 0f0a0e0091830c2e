------------------------------- MODULE Names -------------------------------
(***************************************************************************)
(* How a tool finds the function or variable its caller names: names.py    *)
(* with its map of demangled names, funcs.py, and the IDB hooks that flush *)
(* the map when IDA renames something.  IDA's name table and function list *)
(* are outside the repository; IDA changes the list by itself, too, when   *)
(* it analyses again.  Tools run one at a time (Rpc), so a call is a step. *)
(*                                                                         *)
(* A text is what a client may pass: a name as it is in the database, a    *)
(* demangled one, or a number.  EaOf is parse_ea.                          *)
(***************************************************************************)
EXTENDS Integers, FiniteSets, Functions

CONSTANTS Addrs,       \* addresses
          Texts,       \* what clients pass as a target
          RawNames,    \* names as they are in the database
          Pretty,      \* demangled names, without the arguments
          Demangle,    \* raw name -> demangled name, or None
          EaOf,        \* text -> the address it parses to, or None
          Owner0, Name0,   \* the database as it was loaded
          None

ASSUME NamesAssumption ==
  /\ Addrs \subseteq Nat
  /\ RawNames \cup Pretty \subseteq Texts
  /\ Demangle \in [RawNames -> Pretty \cup {None}]
  /\ EaOf \in [Texts -> Addrs \cup {None}]
  /\ None \notin Addrs \cup Texts
  /\ Owner0 \in [Addrs -> Addrs \cup {None}]
  /\ \A a \in Addrs : Owner0[a] # None => Owner0[Owner0[a]] = Owner0[a]
  /\ Name0 \in [Addrs -> RawNames \cup {None}]
  /\ \A a, b \in Addrs : Name0[a] = Name0[b] /\ Name0[a] # None => a = b

VARIABLES
  owner,    \* address -> start of the function it is in, or None
  name,     \* address -> its name, or None (IDA shows a made-up one)
  cache,    \* the map of demangled names, or None
  hooked,   \* hook() has succeeded
  reply     \* the answer, if the last step was a call

nameVars == <<owner, name, cache, hooked>>

NoReply == [tool |-> "none", target |-> None, args |-> <<>>, at |-> None, ok |-> FALSE]

Reply(tool, target, args, at, ok) ==
  reply' = [tool |-> tool, target |-> target, args |-> args, at |-> at, ok |-> ok]

Refused(tool, target, at) == Reply(tool, target, <<>>, at, FALSE)

FunctionStarts == {a \in Addrs : owner[a] = a}

PrettyName(a) == IF name[a] = None THEN None ELSE Demangle[name[a]]

NamesTypeOK ==
  /\ owner \in [Addrs -> Addrs \cup {None}]
  /\ \A a \in Addrs : owner[a] # None => owner[owner[a]] = owner[a]
  /\ name \in [Addrs -> RawNames \cup {None}]
  /\ \/ cache = None
     \/ DOMAIN cache \subseteq Pretty /\ cache \in [DOMAIN cache -> Addrs]
  /\ hooked \in BOOLEAN

\* install ran when the server started; whether hook() succeeded is only logged.
NamesInit ==
  /\ owner = Owner0
  /\ name = Name0
  /\ cache = None
  /\ hooked \in BOOLEAN
  /\ reply = NoReply

-----------------------------------------------------------------------------
(* Look-ups.  They may build the map, so each gives a result and the map   *)
(* it leaves behind, one for every map that may be built.                  *)

NameEa(t) == IF \E a \in Addrs : name[a] = t THEN CHOOSE a \in Addrs : name[a] = t ELSE None

\* Mutated: functions without a demangled name are entered, too.
MapsAll ==
  LET shown == {PrettyName(a) : a \in FunctionStarts}
  IN  {m \in [shown -> FunctionStarts] : \A p \in shown : PrettyName(m[p]) = p}

\* _build: of several functions with one demangled name, the last one that IDA
\* enumerates is kept.
Maps ==
  LET shown == {PrettyName(a) : a \in FunctionStarts} \ {None}
  IN  {m \in [shown -> FunctionStarts] : \A p \in shown : PrettyName(m[p]) = p}

\* The map if there is one, else a new one.
Get == IF cache = None THEN Maps ELSE {cache}

\* lookup_function_ea_by_name: a raw name, whatever it names; a demangled name; the
\* same with a new map.  None if it raises.
Lookup(t) ==
  IF NameEa(t) # None THEN {[ea |-> NameEa(t), map |-> cache]}
  ELSE {[ea |-> m[t], map |-> m] : m \in {x \in Get : t \in DOMAIN x}}
         \cup {[ea |-> IF t \in DOMAIN m THEN m[t] ELSE None, map |-> m] :
                 m \in IF \E x \in Get : t \notin DOMAIN x THEN Maps ELSE {}}

\* resolve_function_target: an address inside a function first.
Resolve(t) ==
  IF EaOf[t] # None /\ owner[EaOf[t]] # None THEN {[ea |-> EaOf[t], map |-> cache]} ELSE Lookup(t)

\* get_func_or_raise: the function at that address, None if there is none.
FunctionAt(ea) == IF ea = None THEN None ELSE owner[ea]

\* resolve_name_or_address: here the name comes first.
NameOrAddress(t) == IF NameEa(t) # None THEN NameEa(t) ELSE EaOf[t]

-----------------------------------------------------------------------------
(* Tools.                                                                  *)

\* Mutated: the listener knows closebase only.
SetNameUnnoticed(a, n, c) ==
  /\ \A b \in Addrs \ {a} : n # None => name[b] # n
  /\ name' = [name EXCEPT ![a] = n]
  /\ cache' = c

\* IDA's set_name refuses a name that is taken.  It raises the event renamed, at which
\* the listener, if there is one, has every cache flushed.
SetName(a, n, c) ==
  /\ \A b \in Addrs \ {a} : n # None => name[b] # n
  /\ name' = [name EXCEPT ![a] = n]
  /\ cache' = IF hooked THEN None ELSE c

\* What every tool that only reads a function does (get_function and others).
GetFunction(t) ==
  /\ \E r \in Resolve(t) :
       /\ cache' = r.map
       /\ Reply("get_function", t, <<>>, FunctionAt(r.ea), FunctionAt(r.ea) # None)
  /\ UNCHANGED <<owner, name, hooked>>

\* An empty new name (None) takes the name away.
RenameFunction(t, n) ==
  /\ \E r \in Resolve(t) :
       LET f == FunctionAt(r.ea)
       IN  \/ f # None /\ SetName(f, n, r.map) /\ Reply("rename_function", t, <<n>>, f, TRUE)
           \/ cache' = r.map /\ UNCHANGED name /\ Refused("rename_function", t, f)
  /\ UNCHANGED <<owner, hooked>>

RenameGlobal(t, n) ==
  /\ \/ /\ NameEa(t) # None
        /\ SetName(NameEa(t), n, cache)
        /\ Reply("rename_global_variable", t, <<n>>, NameEa(t), TRUE)
     \/ UNCHANGED <<name, cache>> /\ Refused("rename_global_variable", t, NameEa(t))
  /\ UNCHANGED <<owner, hooked>>

\* IDA analyses again: a function appears, disappears, or becomes part of another.
\* Names stay where they are, and no event of the listener's is raised.
Reanalyse ==
  /\ \/ \E a \in Addrs : owner[a] = None /\ owner' = [owner EXCEPT ![a] = a]
     \/ \E f \in FunctionStarts, g \in {None} \cup FunctionStarts :
          f # g /\ owner' = [a \in Addrs |-> IF owner[a] = f THEN g ELSE owner[a]]
  /\ reply' = NoReply
  /\ UNCHANGED <<name, cache, hooked>>

-----------------------------------------------------------------------------
(* Properties.                                                             *)

\* With the hooks in place the map never contradicts the name table, however many
\* renames and analyses there were since it was built (idb_hooks, _DemangledNameCache).
CacheFresh ==
  hooked /\ cache # None => \A p \in DOMAIN cache : PrettyName(cache[p]) = p

Bears(a, t) == EaOf[t] = a \/ name[a] = t \/ PrettyName(a) = t

\* What is known of the map without looking at it: t leads to where there is no
\* function any more.
Outdated(t) == cache # None /\ t \in DOMAIN cache /\ owner[cache[t]] = None
=============================================================================

----------------------------- MODULE Arguments -----------------------------
(***************************************************************************)
(* What a call's arguments become before a tool sees them: coerce.py and   *)
(* registry.py.  Numerals has the numbers, addresses and pages, and Launch *)
(* the proxy's own.  These are functions without state; each is compared   *)
(* with a definition of what it is for, on one input per behaviour.        *)
(***************************************************************************)
EXTENDS Integers, FiniteSets, Numerals, Launch

CONSTANTS
  Values, Annotations,     \* JSON values and declared types that are tried
  Signatures,              \* parameter lists: name -> [ann, required]
  Nesting,                 \* bound: how deep types and lists are nested
  IntOf, HalfOf, WordOf,   \* what int(), float() (in halves) and the table of Booleans
                           \* make of a text; Nothing if they refuse
  Numbers, Widths,         \* numbers to convert, byte widths asked for (Nothing: inferred)
  Digits,                  \* texts of hexadecimal digits, as sequences
  MaxItems                 \* bound on the length of a listing

VARIABLE input   \* the input that is looked at

\* A JSON value: num is a number (of halves, for a float), or 0 and 1 for a Boolean.
Value(type, num, text, items) == [type |-> type, num |-> num, text |-> text, items |-> items]

Null     == Value("null", 0, Nothing, <<>>)
Bool(b)  == Value("bool", IF b THEN 1 ELSE 0, Nothing, <<>>)
Num(n)   == Value("int", n, Nothing, <<>>)
Float(h) == Value("float", h, Nothing, <<>>)
Str(t)   == Value("str", 0, t, <<>>)
List(s)  == Value("list", 0, Nothing, s)

Scalars ==
  {Null, Bool(TRUE), Bool(FALSE)} \cup {Str(t) : t \in DOMAIN IntOf}
    \cup [type : {"int", "float"}, num : Int, text : {Nothing}, items : {<<>>}]

Lists(within) == [type : {"list"}, num : {0}, text : {Nothing}, items : Seq(within)]

\* The values in which at most n lists with something in them are nested.
Nested == LET upto[n \in Nat] == Scalars \cup Lists(IF n = 0 THEN {} ELSE upto[n - 1]) IN upto

JSON == Nested[Nesting]

\* A declared type.  "annotated" is one layer of Annotated[args[1], Doc(ge, gt)].
Ann(base, args) == [base |-> base, args |-> args, literals |-> {}, ge |-> Nothing, gt |-> Nothing]

Annotated(a, ge, gt) == [Ann("annotated", <<a>>) EXCEPT !.ge = ge, !.gt = gt]

Literal(values) == [Ann("literal", <<>>) EXCEPT !.literals = values]

Optional(a) == Ann("union", <<a, Ann("none", <<>>)>>)

\* The members of a union other than None.
Concrete(a) == {n \in DOMAIN a.args : a.args[n].base # "none"}

\* In a union of several types only the first of them converts.  bool | float, which no tool
\* declares, would make 1.0 of "1.0", and True of that.
UnionSettled(a) ==
  Len(a.args) > 1 /\ \A m, n \in Concrete(a) : m < n => a.args[n].base = "str"

\* What can be declared with the types within: unions of several types, or of one and None.
TypesOver(several, within) ==
  {a \in [base : {"annotated", "any", "none", "literal", "union", "list", "bool", "int", "float", "str"},
          args : Seq(within), literals : SUBSET Scalars, ge : Int \cup {Nothing}, gt : Int \cup {Nothing}] :
     /\ a.base \in {"annotated", "list"} => Len(a.args) = 1
     /\ a.base = "union" => UnionSettled(a) /\ (several \/ \A m, n \in Concrete(a) : m = n)}

\* The types that are nested at most n deep.
Declared(several) ==
  LET upto[n \in Nat] == TypesOver(several, IF n = 0 THEN {} ELSE upto[n - 1]) IN upto

-----------------------------------------------------------------------------
(* coerce.py.  The exception is CoercionError.                             *)

\* Mutated: a Boolean is an int, as in Python.
CoerceIntAsIs(v) ==
  CASE v.type \in {"bool", "int"} -> {v}
    [] v.type = "float" -> If(v.num % 2 = 0, Num(v.num \div 2))
    [] v.type = "str" -> If(IntOf[v.text] # Nothing, Num(IntOf[v.text]))
    [] OTHER -> {}

CoerceInt(v) ==
  CASE v.type = "int" -> {v}
    [] v.type = "bool" -> {Num(v.num)}
    [] v.type = "float" -> If(v.num % 2 = 0, Num(v.num \div 2))
    [] v.type = "str" -> If(IntOf[v.text] # Nothing, Num(IntOf[v.text]))
    [] OTHER -> {}

CoerceBool(v) ==
  CASE v.type = "bool" -> {v}
    [] v.type = "int" -> If(v.num \in {0, 1}, Bool(v.num = 1))
    [] v.type = "float" -> If(v.num \in {0, 2}, Bool(v.num = 2))
    [] v.type = "str" -> If(WordOf[v.text] # Nothing, Bool(WordOf[v.text] = "true"))
    [] OTHER -> {}

CoerceFloat(v) ==
  CASE v.type \in {"bool", "int"} -> {Float(2 * v.num)}
    [] v.type = "float" -> {v}
    [] v.type = "str" -> If(HalfOf[v.text] # Nothing, Float(HalfOf[v.text]))
    [] OTHER -> {}

\* The members of a Literal are compared with their types.
CoerceLiteral(v, a) == If(v \in a.literals, v)

\* _apply_bounds leaves Booleans alone.
InBounds(v, a) ==
  LET unit == IF v.type = "float" THEN 2 ELSE 1
  IN  v.type \in {"int", "float"} => /\ a.ge # Nothing => v.num >= unit * a.ge
                                     /\ a.gt # Nothing => v.num > unit * a.gt

\* Below, coerce is how values are converted to the types within.

CoerceList(v, a, coerce) ==
  LET items == [n \in DOMAIN v.items |-> coerce[a.args[1]][v.items[n]]]
  IN  If(v.type = "list" /\ \A n \in DOMAIN v.items : items[n] # {},
         [v EXCEPT !.items = [n \in DOMAIN v.items |-> CHOOSE x \in items[n] : TRUE]])

\* null if it is allowed; else the first member that takes the value.
CoerceUnion(v, a, coerce) ==
  LET takers == {n \in Concrete(a) : coerce[a.args[n]][v] # {}}
  IN  IF v.type = "null" THEN If(Concrete(a) # DOMAIN a.args, v)
      ELSE UNION {coerce[a.args[n]][v] : n \in {m \in takers : \A k \in takers : m <= k}}

Convert(v, a, coerce) ==
  CASE a.base = "annotated" -> {x \in coerce[a.args[1]][v] : InBounds(x, a)}
    [] a.base = "any" -> {v}
    [] a.base = "none" -> If(v.type = "null", v)
    [] a.base = "literal" -> CoerceLiteral(v, a)
    [] a.base = "union" -> CoerceUnion(v, a, coerce)
    [] a.base = "list" -> CoerceList(v, a, coerce)
    [] a.base = "bool" -> CoerceBool(v)
    [] a.base = "int" -> CoerceInt(v)
    [] a.base = "float" -> CoerceFloat(v)
    [] a.base = "str" -> If(v.type = "str", v)

Coercions ==
  LET upto[n \in Nat] ==
        [a \in Declared(TRUE)[n] |-> [v \in JSON |-> Convert(v, a, IF n = 0 THEN <<>> ELSE upto[n - 1])]]
  IN  upto

Coerce(v, a) == Coercions[Nesting][a][v]

\* _build_kwargs: params is an object, with no unknown name and every required one, and
\* every value converts; or the call is refused.
Kwargs(sig, params) ==
  LET names == DOMAIN params
  IN  IF names \subseteq DOMAIN sig /\ {n \in DOMAIN sig : sig[n].required} \subseteq names
         /\ \A n \in names : Coerce(params[n], sig[n].ann) # {}
      THEN {[n \in names |-> CHOOSE x \in Coerce(params[n], sig[n].ann) : TRUE]}
      ELSE {}

\* What a value of a declared type is, if values says so of the types within.
IsOf(v, a, values) ==
  CASE a.base = "annotated" -> v \in values[a.args[1]] /\ InBounds(v, a)
    [] a.base = "any" -> TRUE
    [] a.base = "none" -> v.type = "null"
    [] a.base = "literal" -> v \in a.literals
    [] a.base = "union" -> \E n \in DOMAIN a.args : v \in values[a.args[n]]
    [] a.base = "list" -> v.type = "list" /\ \A n \in DOMAIN v.items : v.items[n] \in values[a.args[1]]
    [] OTHER -> v.type = a.base

ValuesOf ==
  LET upto[n \in Nat] ==
        [a \in Declared(TRUE)[n] |-> {v \in JSON : IsOf(v, a, IF n = 0 THEN <<>> ELSE upto[n - 1])}]
  IN  upto

Conforms(v, a) == v \in ValuesOf[Nesting][a]

\* A decoded value is of the declared type, and decoding it again, as IDA does after the
\* proxy, changes nothing.  A value that is of the type already is left as it is, unless
\* the type offers several conversions.
CoerceExact(v, a) ==
  /\ \A r \in Coerce(v, a) : Conforms(r, a) /\ Coerce(r, a) = {r}
  /\ a \in Declared(FALSE)[Nesting] /\ Conforms(v, a) => Coerce(v, a) = {v}

\* A tool is called with what it declares and no more, or not at all.
KwargsExact(sig, params) ==
  \A k \in Kwargs(sig, params) :
    /\ DOMAIN k = DOMAIN params /\ DOMAIN k \subseteq DOMAIN sig
    /\ \A n \in DOMAIN sig : n \in DOMAIN k \/ ~sig[n].required
    /\ \A n \in DOMAIN k : Conforms(k[n], sig[n].ann)
    /\ Kwargs(sig, k) = {k}

-----------------------------------------------------------------------------

ASSUME ArgumentsAssumption ==
  /\ Nesting \in Nat /\ MaxItems \in Nat
  /\ IntOf \in [DOMAIN IntOf -> Int \cup {Nothing}]
  /\ HalfOf \in [DOMAIN IntOf -> Int \cup {Nothing}]
  /\ WordOf \in [DOMAIN IntOf -> {"true", "false", Nothing}]
  /\ Values \subseteq JSON /\ Annotations \subseteq Declared(TRUE)[Nesting]
  /\ \A sig \in Signatures : \A n \in DOMAIN sig : sig[n].ann \in Declared(TRUE)[Nesting]
  /\ Numbers \subseteq Int /\ Widths \subseteq Int \cup {Nothing} /\ Digits \subseteq Seq(Nat)

\* Objects: one value for each of some parameters, which need not be the declared ones.
Objects(sig) == UNION {[names -> Values] : names \in SUBSET (DOMAIN sig \cup {"other"})}

Inputs ==
  \/ \E v \in Values, a \in Annotations : input = [kind |-> "value", value |-> v, ann |-> a]
  \/ \E sig \in Signatures : \E o \in Objects(sig) : input = [kind |-> "call", sig |-> sig, params |-> o]
  \/ \E n \in Numbers, s \in Widths : input = [kind |-> "number", number |-> n, size |-> s]
  \/ \E lead \in {"", "0x", "0o"}, d \in Digits : input = [kind |-> "address", text |-> Text(lead, d)]
  \/ \E len, offset, count \in 0..MaxItems :
       input = [kind |-> "page", len |-> len, offset |-> offset, count |-> count]
  \/ \E l \in Launches : input = [kind |-> "launch", launch |-> l]

\* Arguments reach a tool as what they mean: decoded values are of their declared types
\* and survive a second decoding, numbers keep their value in as many bytes as they
\* need, addresses that tools print can be given back to them, and the pages of a
\* listing make up the listing (coerce, _build_kwargs, convert_number, parse_ea,
\* paginate).  The proxy's own are what was typed when its launch was written down
\* (build_serve_argv and who calls it).
ArgumentsExact ==
  CASE input.kind = "value" -> CoerceExact(input.value, input.ann)
    [] input.kind = "call" -> KwargsExact(input.sig, input.params)
    [] input.kind = "number" -> NumberExact(input.number, input.size)
    [] input.kind = "address" -> AddressExact(input.text)
    [] input.kind = "page" -> PagesExact(input.len, input.offset, input.count)
    [] input.kind = "launch" -> LaunchExact(input.launch)
    [] OTHER -> TRUE
=============================================================================

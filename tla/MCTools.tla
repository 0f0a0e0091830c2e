------------------------------ MODULE MCTools ------------------------------
(* Tools with two functions, of which one has a frame with an argument, and *)
(* three names, two of them overloads.  A behaviour follows the tools, or  *)
(* looks at one input of Arguments.                                        *)
EXTENDS Tools, Arguments, TLC

CONSTANTS nF, nG, nD, pF, tA, v, w, x, word, byte, c1, short, long

Owner == 0 :> 0 @@ 1 :> 0 @@ 2 :> 2 @@ 3 :> None

Name == 0 :> nF @@ 1 :> None @@ 2 :> nD @@ 3 :> nG

\* nF and nG are two overloads of pF.
DemangleTable == nF :> pF @@ nG :> pF @@ nD :> None

\* tA is the first function's address; nD reads as a number, too, in that function.
Eas == nF :> None @@ nG :> None @@ nD :> 1 @@ pF :> None @@ tA :> 0

M(n, off, ty, special) == [name |-> n, off |-> off, type |-> ty, special |-> special]

\* A local, a saved register, an argument; the other function has no special member.
Frames ==
  0 :> {M(v, 0, byte, FALSE), M(w, 1, byte, TRUE), M(x, 2, byte, FALSE)} @@ 1 :> {} @@
  2 :> {M(v, 1, byte, FALSE)} @@ 3 :> {}

TypeSizes == byte :> 1 @@ word :> 2

Locals == [a \in Addrs |-> v :> (IF a = 0 THEN byte ELSE None) @@ w :> None]

Eamap == 0 :> 0 @@ 1 :> 1 @@ 2 :> 2 @@ 3 :> None

InstrSizes == short :> 1 @@ long :> 2

Patches == {<<>>, <<long, short>>, <<short, short>>}

Vals ==
  {Null, Bool(TRUE), Bool(FALSE)} \cup {Num(n) : n \in -1..2} \cup {Float(h) : h \in -1..2}
    \cup {Str(t) : t \in {"7", "-1", "yes", "0.5", "word"}}
    \cup {List(<<>>), List(<<Num(1), Str("7")>>), List(<<Null>>),
          List(<<List(<<Str("7")>>)>>)}

IntType == Ann("int", <<>>)

Anns ==
  LET plain == {Ann(b, <<>>) : b \in {"any", "none", "bool", "int", "float", "str"}}
                 \cup {Literal({Str("word"), Str("yes")}), Literal({Num(1)}), Literal({Bool(TRUE)})}
                 \cup {Annotated(IntType, 0, Nothing), Annotated(IntType, Nothing, 0),
                       Annotated(Annotated(Ann("float", <<>>), 0, Nothing), Nothing, 0)}
  IN  plain \cup {Optional(a) : a \in plain} \cup {Ann("list", <<a>>) : a \in plain}
        \cup {Annotated(Optional(IntType), Nothing, 0), Ann("union", <<IntType, Ann("str", <<>>)>>),
              Ann("list", <<Ann("list", <<IntType>>)>>), Ann("list", <<Ann("union", <<IntType, Ann("str", <<>>)>>)>>)}

\* list_functions and list_globals, as far as their parameters go.
Sigs == {"offset" :> [ann |-> Annotated(IntType, 0, Nothing), required |-> FALSE],
         "filter" :> [ann |-> Ann("str", <<>>), required |-> FALSE]
           @@ "size" :> [ann |-> Annotated(Optional(IntType), Nothing, 0), required |-> TRUE]}

Ints == "7" :> 7 @@ "-1" :> -1 @@ "yes" :> Nothing @@ "0.5" :> Nothing @@ "word" :> Nothing

Halves == "7" :> 14 @@ "-1" :> -2 @@ "yes" :> Nothing @@ "0.5" :> 1 @@ "word" :> Nothing

Words == [t \in DOMAIN Ints |-> IF t = "yes" THEN "true" ELSE Nothing]

\* Around the limits of one, two and three bytes, and some characters.
Nums == UNION {{l - 1, l, l + 1, -l - 1, -l, -l + 1} : l \in {1, 127, 128, 255, 256, 32768, 65536}}
          \cup {65, 16640, 16706}

WidthSet == {Nothing, -1, 0, 1, 2, 3}

HexTexts == UNION {[1..n -> {0, 1, 7, 9, 11, 13}] : n \in 0..4}

\* Hosts and ports as users type them.
HostSet == {"127.0.0.1", "10.0.0.1", "0.0.0.0", "::1", "::", "-x", ""}

PortNumbers == "0" :> 0 @@ "1" :> 1 @@ "080" :> 80 @@ "65535" :> 65535 @@ "65536" :> 65536
                 @@ "word" :> Nothing @@ "80" :> 80 @@ "13337" :> 13337

PortNames == 1 :> "1" @@ 80 :> "80" @@ 65535 :> "65535" @@ 13337 :> "13337"

\* The relative "ida" is there only where the user types.
HomeSet == {Nothing, "", "/ida", "/old", "/none", "ida"}

Installs ==
  <<"/", "/ida">> :> ("idat" :> "exec" @@ "idat.exe" :> "plain")
    @@ <<"/", "/old">> :> ("idat" :> "plain" @@ "idat.exe" :> "none")
    @@ <<"shell", "ida">> :> ("idat" :> "none" @@ "idat.exe" :> "exec")

NoInput == [kind |-> "none"]

MCInit ==
  \/ Init /\ input = NoInput
  \/ Init /\ hooked /\ Inputs

MCNext == input = NoInput /\ Next /\ UNCHANGED input

MCSpec == MCInit /\ [][MCNext]_<<vars, input>>
=============================================================================

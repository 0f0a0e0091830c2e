------------------------------ MODULE Numerals ------------------------------
(***************************************************************************)
(* Numbers, addresses and pages: number_conversion.py, format.py and       *)
(* paginate of _helpers.py, as functions.                                  *)
(***************************************************************************)
EXTENDS Integers, SequencesExt

CONSTANT Nothing   \* Python's None, and what is left out

ASSUME NumeralsAssumption == Nothing \notin Int

\* A conversion gives a set: its result, or nothing if it raises an exception.
If(ok, v) == IF ok THEN {v} ELSE {}

\* base ^ n, in a form that can be reasoned about.
Power(base) == LET p[n \in Nat] == IF n = 0 THEN 1 ELSE base * p[n - 1] IN p

\* What digits are worth in a base.
Worth(base, digits) ==
  LET worth[n \in 0..Len(digits)] == IF n = 0 THEN 0 ELSE base * worth[n - 1] + digits[n]
  IN  worth[Len(digits)]

\* The least number of digits that has a place for n, and these digits.
DigitCount(base, n) ==
  CHOOSE k \in 0..n : n < Power(base)[k] /\ (k > 0 => n >= Power(base)[k - 1])

DigitsOf(base, n, count) == [i \in 1..count |-> (n \div Power(base)[count - i]) % base]

-----------------------------------------------------------------------------
(* number_conversion.py                                                    *)

BitLength(n) == DigitCount(2, IF n < 0 THEN -n ELSE n)

MinimumByteWidth(n) ==
  IF n = 0 THEN 1
  ELSE IF n > 0 THEN (BitLength(n) + 7) \div 8
  ELSE (BitLength(n + 1) + 8) \div 8

\* Python's int.to_bytes, little-endian: the digits in base 256, or nothing.
ToBytes(n, width, signed) ==
  LET full == Power(256)[width]
      fits == IF signed THEN -full <= 2 * n /\ 2 * n < full ELSE 0 <= n /\ n < full
  IN  If(fits, Reverse(DigitsOf(256, n % full, width)))

\* Unsigned if it can be, else signed.
ToBytesEitherSign(n, width) ==
  IF n >= 0 /\ ToBytes(n, width, FALSE) # {} THEN ToBytes(n, width, FALSE)
  ELSE ToBytes(n, width, TRUE)

\* _printable_ascii: the bytes without the zeros at the end; Nothing if one is no character.
PrintableAscii(raw) ==
  LET len == CHOOSE n \in 0..Len(raw) :
               (n > 0 => raw[n] # 0) /\ \A i \in (n + 1)..Len(raw) : raw[i] = 0
      txt == SubSeq(raw, 1, len)
  IN  IF \A i \in DOMAIN txt : txt[i] \in 32..126 THEN txt ELSE Nothing

ConvertNumber(n, size) ==
  LET width == IF size # Nothing THEN size ELSE MinimumByteWidth(n)
  IN  {[bytes |-> raw, ascii |-> PrintableAscii(raw)] :
         raw \in IF width <= 0 THEN {} ELSE ToBytesEitherSign(n, width)}

\* The bytes are the number's, in the width asked for, or in the least that has a place
\* for it; a number is refused only if it does not fit.  The text shows every byte, or is
\* none at all.
NumberExact(n, size) ==
  LET fits(w) == -Power(256)[w] <= 2 * n /\ n < Power(256)[w]
      results == ConvertNumber(n, size)
  IN  /\ results = {} <=> size # Nothing /\ (size <= 0 \/ ~fits(size))
      /\ \A r \in results :
           /\ Worth(256, Reverse(r.bytes)) = IF n < 0 THEN n + Power(256)[Len(r.bytes)] ELSE n
           /\ size # Nothing => Len(r.bytes) = size
           /\ size = Nothing => Len(r.bytes) >= 1 /\ (Len(r.bytes) > 1 => ~fits(Len(r.bytes) - 1))
           /\ r.ascii # Nothing => Worth(256, Reverse(r.ascii)) = Worth(256, Reverse(r.bytes))

-----------------------------------------------------------------------------
(* format.py.  A text is what comes before its digits ("0x", "0o", or      *)
(* nothing) and these.  "0b" and "0d" are digits themselves.               *)

Text(lead, digits) == [lead |-> lead, digits |-> digits]

\* int(digits, base)
InBase(digits, base) ==
  If(digits # <<>> /\ \A i \in DOMAIN digits : digits[i] < base, Worth(base, digits))

Starts(t, a, b) == t.lead = "" /\ Len(t.digits) >= 2 /\ t.digits[1] = a /\ t.digits[2] = b

Rest(t) == SubSeq(t.digits, 3, Len(t.digits))

ParseEa(t) ==
  IF t.lead = "0x" THEN InBase(t.digits, 16)
  ELSE IF t.lead = "0o" THEN InBase(t.digits, 8)
  ELSE IF Starts(t, 0, 13) THEN InBase(Rest(t), 10)
  ELSE IF Starts(t, 0, 11) THEN InBase(Rest(t), 2)
  ELSE InBase(t.digits, 16)

\* int(text, 0): decimal without a prefix, and then without leading zeros.
ParseInt(t) ==
  IF t.lead = "0x" THEN InBase(t.digits, 16)
  ELSE IF t.lead = "0o" THEN InBase(t.digits, 8)
  ELSE IF Starts(t, 0, 11) THEN InBase(Rest(t), 2)
  ELSE IF Len(t.digits) > 1 /\ t.digits[1] = 0 /\ \E i \in DOMAIN t.digits : t.digits[i] # 0 THEN {}
  ELSE InBase(t.digits, 10)

\* Zero has a digit, too.
FormatEa(n) == Text("0x", DigitsOf(16, n, IF n = 0 THEN 1 ELSE DigitCount(16, n)))

\* What tools print is read as the same address, by tools for addresses and for
\* numbers; and with a prefix, a text means the same to both.
AddressExact(t) ==
  /\ \A n \in ParseEa(t) : ParseEa(FormatEa(n)) = {n} /\ ParseInt(FormatEa(n)) = {n}
  /\ t.lead # "" \/ Starts(t, 0, 11) => ParseEa(t) = ParseInt(t)

-----------------------------------------------------------------------------
(* _helpers.py                                                             *)

\* paginate: the slice, and where the next page begins (Nothing at the end).
Paginate(data, offset, count) ==
  LET total  == Len(data)
      Least(a, b) == IF a < b THEN a ELSE b
      end    == IF count = 0 THEN total ELSE Least(offset + count, total)
  IN  [data |-> SubSeq(data, offset + 1, end), next |-> IF end < total THEN end ELSE Nothing]

\* What a client sees that asks for the next page until there is none.
Walk(data, offset, count) ==
  LET seen[from \in Nat] ==
        LET page == Paginate(data, from, count)
        IN  page.data \o (IF page.next = Nothing THEN <<>> ELSE seen[page.next])
  IN  seen[offset]

\* From any offset it sees every item from there on once, whatever the size of a page.
PagesExact(len, offset, count) ==
  LET data == [i \in 1..len |-> i]
  IN  Walk(data, offset, count) = SubSeq(data, offset + 1, len)
=============================================================================

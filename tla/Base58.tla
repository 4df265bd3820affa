------------------------------- MODULE Base58 -------------------------------
(***************************************************************************)
(* Base58-btc, both ways (base58.py): a sequence of digits is read as a    *)
(* number, most significant first, and written again in the other base.    *)
(* Leading zeros, which a number does not have, are carried over by their  *)
(* count.                                                                  *)
(***************************************************************************)
EXTENDS Naturals, Sequences

Base == 58
ByteBase == 256

Zeros(count) == [i \in 1..count |-> 0]

\* The digits of a number; none for zero.
DigitsOf(number, base) ==
  LET rest[n \in 0..number] == IF n = 0 THEN <<>> ELSE Append(rest[n \div base], n % base)
  IN  rest[number]
NumberOf(digits, base) ==
  LET upTo[k \in 0..Len(digits)] == IF k = 0 THEN 0 ELSE upTo[k - 1] * base + digits[k]
  IN  upTo[Len(digits)]

LeadingZeros(digits) ==
  LET ends == {i \in 1..(Len(digits) + 1) : i > Len(digits) \/ digits[i] # 0}
  IN  (CHOOSE i \in ends : \A j \in ends : i <= j) - 1

\* Faulty variant: a number has no leading zeros.
AsNumber(digits, from, to) == DigitsOf(NumberOf(digits, from), to)
Rebase(digits, from, to) ==
  Zeros(LeadingZeros(digits)) \o DigitsOf(NumberOf(digits, from), to)

Encode58(data) == Rebase(data, ByteBase, Base)
Decode58(text) == Rebase(text, Base, ByteBase)
=============================================================================

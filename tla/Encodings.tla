----------------------------- MODULE Encodings -----------------------------
(***************************************************************************)
(* The encodings that hashes and keys go through: canonical JSON (jcs.py)  *)
(* and, in Base58, base58 (base58.py).  A text is a sequence of numbers,   *)
(* one for each character.  A JSON object is the sequence of its members   *)
(* as they were inserted.                                                  *)
(***************************************************************************)
EXTENDS Integers, Sequences, FiniteSets, Base58

CONSTANTS
  JsonValues,   \* the values that are compared
  Depth,        \* how deep they are nested
  Nearest,      \* the double that stands for an integer: float(value)
  ByteStrings   \* what is written in base58

VARIABLES value, bytes
encodingVars == <<value, bytes>>

\* Digits are 0 to 9.  Punctuation and literals:
Dot == -1
Minus == -2
Exponent == -3
Plus == -4
Comma == -5
Colon == -6
OpenBracket == -7
CloseBracket == -8
Begin == -9
End == -10
Null == -11
True == -12
False == -13
\* What is escaped, or used in escapes.
Controls == 10..14
Quote == 15
Backslash == 16
Letter == 17
\* Surrogates come before the last characters of the basic plane, which ends at 29.
Surrogates == {20, 21}
Chars == {c \in Int : c >= End} \ Surrogates

-----------------------------------------------------------------------------
(* Values *)

Literal(w) == [kind |-> "word", word |-> w]
Numeral(integer, negative, digits, n) ==
  [kind |-> "number", integer |-> integer, negative |-> negative, digits |-> digits, n |-> n]
Number(negative, digits, n) == Numeral(FALSE, negative, digits, n)
String(chars) == [kind |-> "string", chars |-> chars]
Array(items) == [kind |-> "array", items |-> items]
Object(members) == [kind |-> "object", members |-> members]
Member(name, of) == [name |-> name, of |-> of]

JsonWords == [kind : {"word"}, word : {Null, True, False}]
JsonStrings == [kind : {"string"}, chars : Seq(Chars)]
\* 0.d1 d2 ... * 10^n, its digits without leading or trailing zeros; zero has none.
Numerals ==
  {v \in [kind : {"number"}, integer : BOOLEAN, negative : BOOLEAN, digits : Seq(0..9), n : Int] :
     v.digits # <<>> => v.digits[1] # 0 /\ v.digits[Len(v.digits)] # 0}
\* A double has the fewest digits that tell it from the others.
Doubles == {v \in Numerals : ~v.integer}
\* loads keeps all the digits of an integer; one that no double is near is refused.
JsonNumbers == Doubles \cup DOMAIN Nearest
JsonArrays(inner) == [kind : {"array"}, items : Seq(inner)]
\* loads refuses two members of one name.
JsonObjects(inner) ==
  {v \in [kind : {"object"}, members : Seq([name : Seq(Chars), of : inner])] :
     \A i, j \in DOMAIN v.members : v.members[i].name = v.members[j].name => i = j}

\* The values that are nested no deeper.
Nested[depth \in 0..Depth] ==
  JsonWords \cup JsonNumbers \cup JsonStrings
  \cup IF depth = 0 THEN {} ELSE JsonArrays(Nested[depth - 1]) \cup JsonObjects(Nested[depth - 1])

EncodingsAssumption ==
  /\ DOMAIN Nearest \subseteq {v \in Numerals : v.integer /\ Len(v.digits) <= v.n}
  /\ Nearest \in [DOMAIN Nearest -> Doubles]
  /\ Depth \in Nat /\ JsonValues \subseteq Nested[Depth]
  /\ ByteStrings \subseteq Seq(0..(ByteBase - 1))
ASSUME EncodingsAssumption

-----------------------------------------------------------------------------
(* Numbers: format_number *)

Sign(k) == IF k >= 0 THEN <<Plus, k>> ELSE <<Minus, -k>>

Magnitude(digits, n) ==
  LET k == Len(digits)
  IN  CASE k <= n /\ n <= 21 -> digits \o Zeros(n - k)
        [] 0 < n /\ n <= 21 /\ n < k -> SubSeq(digits, 1, n) \o <<Dot>> \o SubSeq(digits, n + 1, k)
        [] -6 < n /\ n <= 0 -> <<0, Dot>> \o Zeros(-n) \o digits
        [] n > 21 \/ n <= -6 ->
             (IF k = 1 THEN digits ELSE <<digits[1], Dot>> \o Tail(digits))
             \o <<Exponent>> \o Sign(n - 1)

FormatDouble(v) ==
  IF v.digits = <<>> THEN <<0>>
  ELSE (IF v.negative THEN <<Minus>> ELSE <<>>) \o Magnitude(v.digits, v.n)

\* An integer is written as the double nearest to it.
\* Faulty variant: with all their digits.
AsDouble(v) == IF v.integer THEN Nearest[v] ELSE v
FormatExactly(v) == FormatDouble(v)
FormatNumber(v) == FormatDouble(AsDouble(v))

-----------------------------------------------------------------------------
(* Strings and member names *)

\* The texts one after the other.
Chained(texts) ==
  LET upTo[i \in 0..Len(texts)] == IF i = 0 THEN <<>> ELSE upTo[i - 1] \o texts[i]
  IN  upTo[Len(texts)]

Escaped(c) ==
  IF c \in Controls THEN <<Backslash, Letter, c>>
  ELSE IF c \in {Quote, Backslash} THEN <<Backslash, c>> ELSE <<c>>
FormatString(chars) ==
  <<Quote>> \o Chained([i \in DOMAIN chars |-> Escaped(chars[i])]) \o <<Quote>>

Utf16(chars) ==
  Chained([i \in DOMAIN chars |-> IF chars[i] >= 30 THEN <<20, chars[i] - 9>> ELSE <<chars[i]>>])
Less(s, t) ==
  \E k \in 1..(Len(t)) :
    /\ \A i \in 1..(k - 1) : i <= Len(s) /\ s[i] = t[i]
    /\ Len(s) < k \/ s[k] < t[k]

MemberSet(members) == {members[i] : i \in DOMAIN members}
\* How many of the members come before one of this name.
Place(name, members) ==
  Cardinality({m.name : m \in {m \in MemberSet(members) : Less(Utf16(m.name), Utf16(name))}})
Sorted(members) ==
  [i \in DOMAIN members |-> CHOOSE m \in MemberSet(members) : Place(m.name, members) = i - 1]

-----------------------------------------------------------------------------
(* Values: _serialize *)

Joined(texts) ==
  Chained([i \in DOMAIN texts |-> IF i = 1 THEN texts[i] ELSE <<Comma>> \o texts[i]])

\* The text of a value, from the texts of those it is made of.
TextOf(v, inner) ==
  CASE v.kind = "word" -> <<v.word>>
    [] v.kind = "number" -> FormatNumber(v)
    [] v.kind = "string" -> FormatString(v.chars)
    [] v.kind = "array" ->
         <<OpenBracket>> \o Joined([i \in DOMAIN v.items |-> inner[v.items[i]]]) \o <<CloseBracket>>
    [] v.kind = "object" ->
         LET members == Sorted(v.members)
         IN  <<Begin>> \o Joined([i \in DOMAIN members |->
               FormatString(members[i].name) \o <<Colon>> \o inner[members[i].of]]) \o <<End>>
Texts[depth \in 0..Depth] == [v \in Nested[depth] |-> TextOf(v, Texts[depth - 1])]
Text(v) == Texts[Depth][v]

-----------------------------------------------------------------------------
NoValue == [kind |-> "nothing"]

EncodingInit == value = NoValue /\ bytes = <<>>
EncodingNext ==
  /\ value = NoValue /\ bytes = <<>>
  /\ \/ value' \in JsonValues /\ UNCHANGED bytes
     \/ bytes' \in ByteStrings /\ UNCHANGED value
EncodingSpec == EncodingInit /\ [][EncodingNext]_encodingVars

-----------------------------------------------------------------------------
\* What a value is, whatever the order its members were inserted in and the sign of zero;
\* a number is its double.
MeaningOf(v, inner) ==
  CASE v.kind = "object" ->
         [kind |-> "object", members |-> {<<m.name, inner[m.of]>> : m \in MemberSet(v.members)}]
    [] v.kind = "array" -> [kind |-> "array", items |-> [i \in DOMAIN v.items |-> inner[v.items[i]]]]
    [] v.kind = "number" ->
         IF AsDouble(v).digits = <<>> THEN Number(FALSE, <<>>, 0) ELSE AsDouble(v)
    [] OTHER -> v
Meanings[depth \in 0..Depth] == [v \in Nested[depth] |-> MeaningOf(v, Meanings[depth - 1])]
Meaning(v) == Meanings[Depth][v]

\* Two values have the same canonical text, and so the same hash, if and only if they are
\* the same value, an integer being the double nearest to it (so that 2^53 and 2^53 + 1
\* are one value); what is written in base58 is read back, leading zero bytes included.
EncodingsAreExact ==
  /\ value # NoValue =>
       LET text == Text(value)
           meaning == Meaning(value)
       IN  \A other \in JsonValues : Text(other) = text <=> Meaning(other) = meaning
  /\ Decode58(Encode58(bytes)) = bytes
=============================================================================

---------------------------- MODULE MCEncodings ----------------------------
EXTENDS Encodings
MCNumbers ==
  {Number(negative, digits, n) :
     negative \in BOOLEAN, digits \in {<<>>, <<5>>, <<1, 5>>, <<1, 0, 2>>}, n \in {-7, -6, -5, 0, 1, 2, 3, 21, 22}}
\* 2^53, which is a double, 2^53 + 1, which is not, and 10^21.
Big(last) == <<9, 0, 0, 7, 1, 9, 9, 2, 5, 4, 7, 4, 0, 9, 9, last>>
MCNearest ==
  [v \in {Numeral(TRUE, negative, digits, n) :
            negative \in BOOLEAN, digits \in {<<1, 5>>, Big(2), Big(3)}, n \in {16}}
         \cup {Numeral(TRUE, FALSE, <<>>, 0), Numeral(TRUE, FALSE, <<1, 5>>, 2),
               Numeral(TRUE, FALSE, <<1>>, 1), Numeral(TRUE, FALSE, <<1, 5>>, 22)} |->
     Number(v.negative, IF v.digits = Big(3) THEN Big(2) ELSE v.digits, v.n)]
MCIntegers == DOMAIN MCNearest \cup {Number(FALSE, Big(2), 16)}
MCTexts == {String(s) : s \in UNION {[1..k -> {Comma, 10, Quote, Backslash, Letter, 25, 30}] : k \in 0..2}}
Scalars == {Literal(Null), Number(FALSE, <<1>>, 1), Numeral(TRUE, FALSE, <<1>>, 1), String(<<>>), String(<<17>>)}
MemberNames == {<<>>, <<17>>, <<25>>, <<30>>, <<17, 30>>}
Lists(S) == UNION {[1..k -> S] : k \in 0..2}
MCObjects(S) ==
  {Object(m) : m \in {s \in Lists({Member(name, of) : name \in MemberNames, of \in S}) :
                        \A i, j \in DOMAIN s : s[i].name = s[j].name => i = j}}
Flat == Scalars \cup {Array(s) : s \in Lists({Literal(Null), String(<<17>>)})}
MCJson ==
  {Literal(True)} \cup MCNumbers \cup MCIntegers \cup MCTexts \cup Flat \cup {Array(s) : s \in Lists(Flat)}
  \cup MCObjects({Literal(Null), Array(<<Literal(Null)>>)})
MCBytes == UNION {[1..k -> {0, 1, 57, 58, 255}] : k \in 0..2}
=============================================================================

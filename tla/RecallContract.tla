--------------------------- MODULE RecallContract ---------------------------
(***************************************************************************)
(* What a recall consumer promises, without pages, cursors or dedup: it    *)
(* stands at a position of the feed; it moves forward only over changes    *)
(* whose outcome it knows; it may jump only when it joins the feed afresh, *)
(* and then only over changes it names as a gap; it forgets nothing.       *)
(***************************************************************************)
EXTENDS Integers

VARIABLES
  needed,    \* places in the feed of the changes it must know
  position,  \* how far it has come
  joining,   \* it has yet to join (again) the feed it left
  known,     \* changes whose outcome it knows
  gaps       \* changes it admits it jumped over

contract == <<needed, position, joining, known, gaps>>

\* Every change it must know, up to place p, is in `heard` or admitted in `jumped`.
Accounted(p, heard, jumped) == \A a \in needed : a <= p => a \in heard \/ a \in jumped

Init ==
  /\ needed = {} /\ known = {} /\ gaps = {}
  /\ position = 0 /\ joining = TRUE

\* The registry records a change.
Record ==
  /\ needed \subseteq needed'
  /\ \A a \in needed' \ needed : a \in Nat /\ a > position
  /\ UNCHANGED <<position, joining, known, gaps>>

\* The consumer learns outcomes where it stands.
Learn ==
  /\ known \subseteq known'
  /\ UNCHANGED <<needed, position, joining, gaps>>

\* It moves on, over changes it accounts for; the gaps do not grow.
Advance ==
  /\ ~joining /\ ~joining'
  /\ position' \in Nat /\ position' >= position
  /\ known \subseteq known'
  /\ Accounted(position', known', gaps')
  /\ UNCHANGED <<needed, gaps>>

\* It joins: only here may it jump.
Join ==
  /\ joining /\ ~joining'
  /\ position' \in Nat /\ position' >= position
  /\ known \subseteq known' /\ gaps \subseteq gaps'
  /\ \A a \in gaps' \ gaps : position < a /\ a <= position'
  /\ Accounted(position', known', gaps')
  /\ UNCHANGED needed

\* It lost its place: it re-verifies everything and joins again, no earlier
\* than where it stood.
Leave ==
  /\ joining'
  /\ position' \in Nat /\ position' >= position
  /\ Accounted(position', known, gaps)
  /\ UNCHANGED <<needed, known, gaps>>

\* A crash takes it back to a place it has been, with all it was told.
FallBack ==
  /\ position' \in Nat /\ position' <= position
  /\ Accounted(position', known, gaps)
  /\ UNCHANGED <<needed, known, gaps>>

Next == Record \/ Learn \/ Advance \/ Join \/ Leave \/ FallBack

Spec == Init /\ [][Next]_contract
=============================================================================

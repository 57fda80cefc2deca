----------------------- MODULE CollisionResolverProofs -----------------------
(***************************************************************************)
(* Proofs about CollisionResolver and DetectionThreshold.                  *)
(*                                                                         *)
(* Every loop turn takes a finding out of one sequence and puts pieces of  *)
(* it back into another.  The inductive invariant, ResolveInv, says that   *)
(* both hold only what was found: a piece lies in the text, and each of    *)
(* its characters was covered by a finding of its category.  For the order *)
(* of the accepted findings it takes the full statement, that any two are  *)
(* apart: it is what makes firstOverlap's search find an overlap if there  *)
(* is one, and so what keeps the next candidate apart from all of them.    *)
(*                                                                         *)
(* That nothing solid is dropped takes more.  The loop can drop text only  *)
(* where two pieces of one category meet, and two pieces of one finding    *)
(* may well meet: what slice gives when it counts from the end of a value  *)
(* overlaps the true remainder.  NarrowInv says why it does no harm.  The  *)
(* loop sweeps over the text: an accepted finding that is still fought     *)
(* starts at the sweep, s, and the queue is behind it (SweptTo).  Behind s *)
(* a piece of a solid finding that meets another piece of it is guarded:   *)
(* each character between s and it is under a stronger piece (Guarded,     *)
(* Safe).  Were it to meet one that starts at s and ends before it, the    *)
(* character at s would have to be under a stronger one, and there is      *)
(* none; so one of the two lies in the other, and the longer wins.         *)
(*                                                                         *)
(* How far the loop is from its end is measured by a load: a length is     *)
(* worth more than two shorter ones together, so what is left of a loser   *)
(* is worth less than it was, also where two parts of it overlap.          *)
(***************************************************************************)
EXTENDS DetectionThreshold, WellFoundedInduction, SequenceTheorems, TLAPS

----------------------------------------------------------------------------
(* Numbers *)

\* The natural numbers are well-founded.
LEMMA LeastExists ==
    ASSUME NEW S, S \subseteq Nat, S # {}
    PROVE  \E x \in S : \A y \in S : x <= y
<1> DEFINE Less == OpToRel(<, Nat)
<1>1. \A x, y \in Nat : y < x => <<y, x>> \in Less
  BY Zenon DEF OpToRel
<1> HIDE DEF Less
<1>2. PICK x \in S : \A y \in S : ~(<<y, x>> \in Less)
  <2>1. IsWellFoundedOn(Less, Nat)
    BY NatLessThanWellFounded DEF Less
  <2> QED
    BY <2>1, WFMin
<1>3. ASSUME NEW y \in S PROVE x <= y
  <2>1. x \in Nat /\ y \in Nat
    OBVIOUS
  <2>2. ~(y < x)
    BY <1>1, <1>2, <2>1
  <2> QED
    BY <2>1, <2>2
<1> QED
  BY <1>3

\* Min of a nonempty set of natural numbers.
LEMMA MinIsLeast ==
    ASSUME NEW S, S \subseteq Nat, S # {}
    PROVE  Min(S) \in S /\ \A y \in S : Min(S) <= y
BY LeastExists DEF Min

\* Max of a nonempty set of natural numbers with an upper bound.
LEMMA MaxIsGreatest ==
    ASSUME NEW n \in Nat, NEW S, S \subseteq 0..n, S # {}
    PROVE  Max(S) \in S /\ \A y \in S : Max(S) >= y
<1> DEFINE T == {n - x : x \in S}
<1>1. \A x \in S : x \in 0..n
  OBVIOUS
<1>2. PICK t \in T : \A u \in T : t <= u
  <2>1. T \subseteq Nat
    BY <1>1
  <2>2. T # {}
    OBVIOUS
  <2> HIDE DEF T
  <2> QED
    BY <2>1, <2>2, LeastExists
<1>3. PICK x \in S : t = n - x
  OBVIOUS
<1>4. ASSUME NEW y \in S PROVE x >= y
  <2>1. n - x <= n - y
    BY <1>2, <1>3
  <2> QED
    BY <2>1, <1>1
<1> QED
  BY <1>4 DEF Max

----------------------------------------------------------------------------
(* Sequences *)

\* A concatenation holds what its parts hold.
LEMMA ToSetConcat ==
    ASSUME NEW S, NEW T, NEW s \in Seq(S), NEW t \in Seq(T)
    PROVE  ToSet(s \o t) = ToSet(s) \union ToSet(t)
<1>1. s \in Seq(S \union T) /\ t \in Seq(S \union T)
  OBVIOUS
<1>2. /\ Len(s \o t) = Len(s) + Len(t) /\ s \o t \in Seq(S \union T)
      /\ \A i \in 1..(Len(s) + Len(t)) :
           (s \o t)[i] = IF i <= Len(s) THEN s[i] ELSE t[i - Len(s)]
  BY <1>1, ConcatProperties
<1>3. DOMAIN (s \o t) = 1..(Len(s) + Len(t)) /\ DOMAIN s = 1..Len(s) /\ DOMAIN t = 1..Len(t)
  BY <1>2
<1>4. ASSUME NEW x \in ToSet(s \o t) PROVE x \in ToSet(s) \union ToSet(t)
  BY <1>2, <1>3, <1>4 DEF ToSet
<1>5. ASSUME NEW x \in ToSet(s) PROVE x \in ToSet(s \o t)
  <2>1. PICK i \in 1..Len(s) : x = s[i]
    BY <1>3, <1>5 DEF ToSet
  <2>2. x = (s \o t)[i] /\ i \in DOMAIN (s \o t)
    BY <1>2, <1>3, <2>1
  <2> QED
    BY <2>2 DEF ToSet
<1>6. ASSUME NEW x \in ToSet(t) PROVE x \in ToSet(s \o t)
  <2>1. PICK i \in 1..Len(t) : x = t[i]
    BY <1>3, <1>6 DEF ToSet
  <2>2. x = (s \o t)[i + Len(s)] /\ i + Len(s) \in DOMAIN (s \o t)
    BY <1>2, <1>3, <2>1
  <2> QED
    BY <2>2 DEF ToSet
<1> QED
  BY <1>4, <1>5, <1>6

\* t is s with e put in place i, and the later elements moved up.
IsInserted(t, S, s, i, e) ==
    /\ t \in Seq(S)
    /\ Len(t) = Len(s) + 1
    /\ \A j \in 1..(Len(s) + 1) : t[j] = IF j < i THEN s[j] ELSE IF j = i THEN e ELSE s[j - 1]

\* t is s with element i taken away, and the later ones moved down.
IsRemoved(t, S, s, i) ==
    /\ t \in Seq(S)
    /\ Len(t) = Len(s) - 1
    /\ \A j \in 1..(Len(s) - 1) : t[j] = IF j < i THEN s[j] ELSE s[j + 1]

\* InsertAt puts one element in its place.
LEMMA InsertAtIndex ==
    ASSUME NEW S, NEW s \in Seq(S), NEW i \in 1..(Len(s) + 1), NEW e \in S
    PROVE  IsInserted(InsertAt(s, i, e), S, s, i, e)
<1> DEFINE left == SubSeq(s, 1, i - 1)
           right == SubSeq(s, i, Len(s))
<1>1. /\ left \in Seq(S) /\ Len(left) = i - 1
      /\ \A j \in 1..(i - 1) : left[j] = s[j]
  <2>1. \A j \in 1..(i - 1) : s[j] \in S
    OBVIOUS
  <2> QED
    BY <2>1, SubSeqProperties
<1>2. /\ right \in Seq(S) /\ Len(right) = Len(s) - i + 1
      /\ \A j \in 1..(Len(s) - i + 1) : right[j] = s[i + j - 1]
  <2>1. \A j \in i..Len(s) : s[j] \in S
    OBVIOUS
  <2> QED
    BY <2>1, SubSeqProperties
<1> HIDE DEF left, right
<1>3. /\ left \o <<e>> \in Seq(S) /\ Len(left \o <<e>>) = i
      /\ \A j \in 1..i : (left \o <<e>>)[j] = IF j < i THEN s[j] ELSE e
  BY <1>1
<1>4. InsertAt(s, i, e) = (left \o <<e>>) \o right
  BY DEF InsertAt, left, right
<1> DEFINE front == left \o <<e>>
<1> HIDE DEF front
<1>5. /\ front \o right \in Seq(S)
      /\ Len(front \o right) = Len(s) + 1
      /\ \A j \in 1..(Len(s) + 1) :
           (front \o right)[j] = IF j <= i THEN front[j] ELSE right[j - i]
  <2>1. front \in Seq(S) /\ Len(front) = i /\ i + Len(right) = Len(s) + 1
    BY <1>2, <1>3 DEF front
  <2>2. /\ front \o right \in Seq(S)
        /\ Len(front \o right) = Len(front) + Len(right)
        /\ \A j \in 1..(Len(front) + Len(right)) :
             (front \o right)[j] = IF j <= Len(front) THEN front[j] ELSE right[j - Len(front)]
    BY <1>2, <2>1, ConcatProperties
  <2> QED
    BY <2>1, <2>2
<1>6. ASSUME NEW j \in 1..(Len(s) + 1), j > i PROVE right[j - i] = s[j - 1]
  <2>1. j - i \in 1..(Len(s) - i + 1) /\ i + (j - i) - 1 = j - 1
    BY <1>6
  <2> QED
    BY <1>2, <2>1
<1>7. ASSUME NEW j \in 1..(Len(s) + 1), j <= i
      PROVE  front[j] = IF j < i THEN s[j] ELSE e
  BY <1>3, <1>7 DEF front
<1>8. ASSUME NEW j \in 1..(Len(s) + 1)
      PROVE  InsertAt(s, i, e)[j] =
               IF j < i THEN s[j] ELSE IF j = i THEN e ELSE s[j - 1]
  <2>1. CASE j <= i
    BY <1>3, <1>4, <1>5, <2>1 DEF front
  <2>2. CASE j > i
    BY <1>4, <1>5, <1>6, <2>2 DEF front
  <2> QED
    BY <2>1, <2>2
<1> QED
  BY <1>4, <1>5, <1>8 DEF front, IsInserted

\* RemoveAt takes one element away.
LEMMA RemoveAtIndex ==
    ASSUME NEW S, NEW s \in Seq(S), NEW i \in 1..Len(s)
    PROVE  IsRemoved(RemoveAt(s, i), S, s, i)
<1> DEFINE left == SubSeq(s, 1, i - 1)
           right == SubSeq(s, i + 1, Len(s))
<1>1. /\ left \in Seq(S) /\ Len(left) = i - 1
      /\ \A j \in 1..(i - 1) : left[j] = s[j]
  <2>1. \A j \in 1..(i - 1) : s[j] \in S
    OBVIOUS
  <2> QED
    BY <2>1, SubSeqProperties
<1>2. /\ right \in Seq(S) /\ Len(right) = Len(s) - i
      /\ \A j \in 1..(Len(s) - i) : right[j] = s[i + j]
  <2>1. \A j \in (i + 1)..Len(s) : s[j] \in S
    OBVIOUS
  <2> QED
    BY <2>1, SubSeqProperties
<1> HIDE DEF left, right
<1>3. /\ left \o right \in Seq(S)
      /\ Len(left \o right) = Len(s) - 1
      /\ \A j \in 1..(Len(s) - 1) :
           (left \o right)[j] = IF j <= i - 1 THEN left[j] ELSE right[j - (i - 1)]
  <2>1. Len(left) + Len(right) = Len(s) - 1
    BY <1>1, <1>2
  <2>2. /\ left \o right \in Seq(S)
        /\ Len(left \o right) = Len(left) + Len(right)
        /\ \A j \in 1..(Len(left) + Len(right)) :
             (left \o right)[j] = IF j <= Len(left) THEN left[j] ELSE right[j - Len(left)]
    BY <1>1, <1>2, ConcatProperties
  <2> QED
    BY <1>1, <2>1, <2>2
<1>4. ASSUME NEW j \in 1..(Len(s) - 1), ~(j < i) PROVE right[j - (i - 1)] = s[j + 1]
  <2>1. j - (i - 1) \in 1..(Len(s) - i) /\ i + (j - (i - 1)) = j + 1
    BY <1>4
  <2> QED
    BY <1>2, <2>1
<1>5. RemoveAt(s, i) = left \o right
  BY DEF RemoveAt, left, right
<1>6. ASSUME NEW j \in 1..(Len(s) - 1)
      PROVE  RemoveAt(s, i)[j] = IF j < i THEN s[j] ELSE s[j + 1]
  <2>1. CASE j < i
    BY <1>1, <1>3, <1>5, <2>1
  <2>2. CASE ~(j < i)
    <3>1. ~(j <= i - 1)
      BY <2>2
    <3> QED
      BY <1>3, <1>4, <1>5, <2>2, <3>1
  <2> QED
    BY <2>1, <2>2
<1> QED
  BY <1>3, <1>5, <1>6 DEF IsRemoved

\* Taking an element away leaves the others.
LEMMA RemoveAtHolds ==
    ASSUME NEW S, NEW s \in Seq(S), NEW i \in 1..Len(s)
    PROVE  ToSet(s) \subseteq ToSet(RemoveAt(s, i)) \union {s[i]}
<1> DEFINE t == RemoveAt(s, i)
<1>1. /\ t \in Seq(S) /\ Len(t) = Len(s) - 1
      /\ \A j \in 1..(Len(s) - 1) : t[j] = IF j < i THEN s[j] ELSE s[j + 1]
  <2>1. IsRemoved(t, S, s, i)
    BY RemoveAtIndex
  <2> HIDE DEF t
  <2> QED
    BY <2>1 DEF IsRemoved
<1> HIDE DEF t
<1>2. DOMAIN t = 1..(Len(s) - 1) /\ DOMAIN s = 1..Len(s)
  BY <1>1
<1>3. ASSUME NEW x \in ToSet(s), x # s[i] PROVE x \in ToSet(t)
  <2>1. PICK j \in 1..Len(s) : x = s[j] /\ j # i
    BY <1>2, <1>3 DEF ToSet
  <2>2. CASE j < i
    <3>1. x = t[j] /\ j \in DOMAIN t
      BY <1>1, <1>2, <2>1, <2>2
    <3> QED
      BY <3>1 DEF ToSet
  <2>3. CASE j > i
    <3>1. x = t[j - 1] /\ j - 1 \in DOMAIN t
      BY <1>1, <1>2, <2>1, <2>3
    <3> QED
      BY <3>1 DEF ToSet
  <2> QED
    BY <2>1, <2>2, <2>3
<1> QED
  BY <1>3 DEF t

\* A sequence's elements are its head and those of its tail.
LEMMA HeadTailHolds ==
    ASSUME NEW S, NEW q \in Seq(S), q # <<>>
    PROVE  ToSet(q) \subseteq ToSet(Tail(q)) \union {Head(q)}
<1>1. /\ Tail(q) \in Seq(S) /\ Len(Tail(q)) = Len(q) - 1
      /\ \A j \in 1..(Len(q) - 1) : Tail(q)[j] = q[j + 1]
  OBVIOUS
<1>2. DOMAIN Tail(q) = 1..(Len(q) - 1) /\ DOMAIN q = 1..Len(q) /\ Head(q) = q[1]
  BY <1>1
<1>3. ASSUME NEW x \in ToSet(q), x # Head(q) PROVE x \in ToSet(Tail(q))
  <2>1. PICK j \in 1..Len(q) : x = q[j] /\ j # 1
    BY <1>2, <1>3 DEF ToSet
  <2>2. x = Tail(q)[j - 1] /\ j - 1 \in DOMAIN Tail(q)
    BY <1>1, <1>2, <2>1
  <2> QED
    BY <2>2 DEF ToSet
<1> QED
  BY <1>3

----------------------------------------------------------------------------

\* The findings all of whose characters were found as their category.
Traced ==
    {f \in Findings : \A p \in Positions(f) :
       \E g \in found : g.category = f.category /\ p \in Positions(g)}

Apart == \A i, j \in 1..Len(accepted) : i < j => accepted[i].to <= accepted[j].from

ResolveInv ==
    /\ queue \in Seq(Traced)
    /\ accepted \in Seq(Traced)
    /\ SortedByStart(queue)
    /\ Apart

----------------------------------------------------------------------------
(* Findings *)

\* The fields of a finding.
LEMMA FindingFields ==
    ASSUME NEW f \in Findings
    PROVE  /\ f.category \in Categories /\ f.localeScoped \in BOOLEAN
           /\ f.from \in Nat /\ f.to \in Nat /\ f.length \in Nat
           /\ f.from < f.to /\ f.to <= Length
BY CollisionAssumption DEF Findings

\* A traced finding is a finding.
LEMMA TracedIsFinding == Traced \subseteq Findings
BY DEF Traced

\* The parts of a finding that some of its characters span are at most one, which
\* lies in the text and has the finding's category and no character of others.
LEMMA AsFindingTraced ==
    ASSUME NEW f \in Traced, NEW text \in SUBSET Positions(f)
    PROVE  AsFinding(f, text) \in Seq(Traced) /\ Len(AsFinding(f, text)) \in {0, 1}
<1>1. CASE text = {}
  BY <1>1 DEF AsFinding
<1>2. CASE text # {}
  <2> DEFINE lo == Min(text)
             hi == Max(text)
             part == [f EXCEPT !.from = lo, !.to = hi + 1, !.length = hi + 1 - lo]
  <2>1. f \in Findings
    BY TracedIsFinding
  <2>2. text \subseteq Nat /\ text \subseteq 0..Length /\ text \subseteq f.from..(f.to - 1)
    BY <2>1, FindingFields, CollisionAssumption DEF Positions
  <2>3. lo \in text /\ hi \in text /\ lo <= hi
    BY <1>2, <2>2, MinIsLeast, MaxIsGreatest, CollisionAssumption
  <2> HIDE DEF lo, hi
  <2>4. /\ lo \in Nat /\ hi \in Nat /\ f.from <= lo /\ hi <= f.to - 1
    BY <2>1, <2>2, <2>3, FindingFields
  <2>5. part \in Findings /\ part.category = f.category
    <3>1. lo \in 0..(Length - 1) /\ hi + 1 \in 1..Length /\ hi + 1 - lo \in 1..Length
      BY <2>1, <2>3, <2>4, FindingFields, CollisionAssumption
    <3>2. lo < hi + 1
      BY <2>3, <2>4
    <3>3. /\ part.category = f.category /\ part.from = lo /\ part.to = hi + 1
          /\ part \in [category : Categories, from : 0..(Length - 1), to : 1..Length,
                        length : 1..Length, localeScoped : BOOLEAN]
      BY <2>1, <3>1 DEF Findings
    <3> QED
      BY <3>2, <3>3 DEF Findings
  <2>6. Positions(part) \subseteq Positions(f)
    BY <2>1, <2>3, <2>4, FindingFields DEF Positions, Findings
  <2>7. part \in Traced
    BY <2>5, <2>6 DEF Traced
  <2>8. AsFinding(f, text) = <<part>>
    BY <1>2 DEF AsFinding, lo, hi
  <2> QED
    BY <2>7, <2>8
<1> QED
  BY <1>1, <1>2

\* The parts are a sequence, whatever they are parts of.
LEMMA AsFindingIsSeq ==
    ASSUME NEW f, NEW text
    PROVE  \E S : AsFinding(f, text) \in Seq(S)
<1> DEFINE part == [f EXCEPT !.from = Min(text), !.to = Max(text) + 1,
                             !.length = Max(text) + 1 - Min(text)]
<1>1. AsFinding(f, text) = <<>> \/ AsFinding(f, text) = <<part>>
  BY DEF AsFinding
<1> HIDE DEF part
<1>2. <<>> \in Seq({part}) /\ <<part>> \in Seq({part})
  OBVIOUS
<1> QED
  BY <1>1, <1>2

\* Those characters are all in it.
LEMMA AsFindingCovers ==
    ASSUME NEW f \in Findings, NEW text \in SUBSET Positions(f), NEW p \in text
    PROVE  \E part \in ToSet(AsFinding(f, text)) :
             p \in Positions(part) /\ part.category = f.category
<1> DEFINE lo == Min(text)
           hi == Max(text)
           part == [f EXCEPT !.from = lo, !.to = hi + 1, !.length = hi + 1 - lo]
<1>1. text \subseteq Nat /\ text \subseteq 0..Length
  BY FindingFields, CollisionAssumption DEF Positions
<1>2. lo \in Nat /\ hi \in Nat /\ lo <= p /\ p <= hi /\ p \notin Blanks
  BY <1>1, MinIsLeast, MaxIsGreatest, CollisionAssumption DEF Positions
<1>3. AsFinding(f, text) = <<part>>
  BY DEF AsFinding
<1> HIDE DEF lo, hi
<1>4. part.from = lo /\ part.to = hi + 1 /\ part.category = f.category
  BY DEF Findings
<1> HIDE DEF part
<1>5. p \in Positions(part)
  BY <1>1, <1>2, <1>4 DEF Positions
<1>6. part \in ToSet(AsFinding(f, text))
  BY <1>3 DEF ToSet
<1> QED
  BY <1>4, <1>5, <1>6

\* A slice of a value that is its span's text is characters of that span, also
\* when its end counts from the end of the value.
LEMMA PartOfFinding ==
    ASSUME NEW f \in Findings, Sliceable(f), NEW i \in Nat, NEW j \in Int
    PROVE  Part(f, i, j) \subseteq Positions(f)
<1> DEFINE last == IF j < 0 THEN f.length + j ELSE j
           end == f.from + (IF last < f.length THEN last ELSE f.length)
           part == [f EXCEPT !.from = f.from + i, !.to = end]
<1>1. end \in Int /\ end <= f.to
  BY FindingFields DEF Sliceable
<1>2. part.from = f.from + i /\ part.to = end
  BY DEF Findings
<1>3. Part(f, i, j) = Positions(part)
  BY DEF Part
<1> HIDE DEF end, part
<1>4. Positions(part) \subseteq Positions(f)
  BY <1>1, <1>2, FindingFields DEF Positions
<1> QED
  BY <1>3, <1>4

\* What narrowing leaves of a finding is two traced findings at most.
LEMMA SubtractTraced ==
    ASSUME NEW f \in Traced, NEW g \in Findings
    PROVE  Subtract(f, g) \in Seq(Traced) /\ Len(Subtract(f, g)) \in 0..2
<1>1. f \in Findings
  BY TracedIsFinding
<1>2. CASE f.category = g.category \/ ~Sliceable(f)
  BY <1>2 DEF Subtract
<1>3. CASE ~(f.category = g.category \/ ~Sliceable(f))
  <2> DEFINE end == IF f.to < g.from THEN f.to ELSE g.from
             start == IF f.from > g.to THEN f.from ELSE g.to
             left == AsFinding(f, Part(f, 0, end - f.from))
             right == AsFinding(f, Part(f, start - f.from, f.to - f.from))
  <2>1. /\ end - f.from \in Int /\ start - f.from \in Nat /\ f.to - f.from \in Int
    BY <1>1, FindingFields
  <2> HIDE DEF end, start
  <2>2. /\ Part(f, 0, end - f.from) \subseteq Positions(f)
        /\ Part(f, start - f.from, f.to - f.from) \subseteq Positions(f)
    BY <1>1, <1>3, <2>1, PartOfFinding
  <2>3. /\ left \in Seq(Traced) /\ Len(left) \in {0, 1}
        /\ right \in Seq(Traced) /\ Len(right) \in {0, 1}
    BY <2>2, AsFindingTraced
  <2>4. Subtract(f, g) = left \o right
    BY <1>3 DEF Subtract, start, end
  <2> QED
    BY <2>3, <2>4
<1> QED
  BY <1>2, <1>3

\* Narrowing loses no character: each is under the winner or in what is left.
LEMMA SubtractCovers ==
    ASSUME NEW f \in Findings, NEW g \in Findings,
           f.category # g.category, Sliceable(f), NEW p \in Positions(f)
    PROVE  \/ p \in Positions(g)
           \/ \E part \in ToSet(Subtract(f, g)) :
                p \in Positions(part) /\ part.category = f.category
<1> DEFINE end == IF f.to < g.from THEN f.to ELSE g.from
           start == IF f.from > g.to THEN f.from ELSE g.to
           before == Part(f, 0, end - f.from)
           behind == Part(f, start - f.from, f.to - f.from)
           left == AsFinding(f, before)
           right == AsFinding(f, behind)
<1>1. p \in Nat /\ f.from <= p /\ p < f.to /\ p \notin Blanks
  BY FindingFields DEF Positions
<1>2. /\ end - f.from \in Int /\ start - f.from \in Nat /\ f.to - f.from \in Int
  BY FindingFields
<1>3. before \subseteq Positions(f) /\ behind \subseteq Positions(f)
  BY <1>2, PartOfFinding
<1>4. Subtract(f, g) = left \o right
  BY DEF Subtract
<1>5. PICK S, T : left \in Seq(S) /\ right \in Seq(T)
  BY AsFindingIsSeq
<1>6. ToSet(left) \subseteq ToSet(left \o right) /\ ToSet(right) \subseteq ToSet(left \o right)
  BY <1>5, ToSetConcat
<1>7. CASE p < g.from
  <2>1. p \in before
    <3>1. f.from + (end - f.from) = end /\ f.from + 0 = f.from /\ p < end
      BY <1>1, <1>7, FindingFields
    <3>2. end - f.from >= 0 /\ end - f.from <= f.length
      BY <1>1, <3>1, FindingFields DEF Sliceable
    <3> HIDE DEF end
    <3> QED
      BY <1>1, <1>2, <3>1, <3>2, FindingFields DEF Part, Positions, Sliceable, Findings
  <2> QED
    BY <1>3, <1>4, <1>6, <2>1, AsFindingCovers
<1>8. CASE p >= g.to
  <2>1. p \in behind
    <3>1. f.from + (start - f.from) = start /\ start <= p
      BY <1>1, <1>8, FindingFields
    <3>2. f.to - f.from = f.length /\ f.from + f.length = f.to
      BY FindingFields DEF Sliceable
    <3> HIDE DEF start
    <3> QED
      BY <1>1, <1>2, <3>1, <3>2, FindingFields DEF Part, Positions, Findings
  <2> QED
    BY <1>3, <1>4, <1>6, <2>1, AsFindingCovers
<1>9. CASE g.from <= p /\ p < g.to
  BY <1>1, <1>9, FindingFields DEF Positions
<1> QED
  BY <1>1, <1>7, <1>8, <1>9, FindingFields

\* Characters between two positions make a part no longer than their distance.
LEMMA AsFindingSpan ==
    ASSUME NEW f \in Findings, NEW a \in Int, NEW b \in Int,
           NEW text \in SUBSET Positions(f), text \subseteq a..(b - 1),
           NEW part \in ToSet(AsFinding(f, text))
    PROVE  part.to \in Int /\ part.from \in Int /\ part.to - part.from <= b - a
<1> DEFINE lo == Min(text)
           hi == Max(text)
           whole == [f EXCEPT !.from = lo, !.to = hi + 1, !.length = hi + 1 - lo]
<1>1. text # {}
  BY DEF AsFinding, ToSet
<1>2. text \subseteq Nat /\ text \subseteq 0..Length
  BY FindingFields, CollisionAssumption DEF Positions
<1>3. lo \in text /\ hi \in text
  BY <1>1, <1>2, MinIsLeast, MaxIsGreatest, CollisionAssumption
<1>4. part = whole
  BY <1>1 DEF AsFinding, ToSet
<1> HIDE DEF lo, hi
<1>5. part.to = hi + 1 /\ part.from = lo
  BY <1>4 DEF Findings
<1> QED
  BY <1>2, <1>3, <1>5

\* "Terminates because every overlap either removes a finding outright or replaces
\* one with strictly shorter parts": true of both parts, also of one whose end slice
\* counts from the end of the value.
THEOREM PartsAreShorter ==
    ASSUME NEW f \in Findings, NEW g \in Findings, Overlap(f, g),
           NEW part \in ToSet(Subtract(f, g))
    PROVE  part.to - part.from < f.to - f.from
<1> DEFINE end == IF f.to < g.from THEN f.to ELSE g.from
           start == IF f.from > g.to THEN f.from ELSE g.to
           before == Part(f, 0, end - f.from)
           behind == Part(f, start - f.from, f.to - f.from)
           left == AsFinding(f, before)
           right == AsFinding(f, behind)
<1>1. f.category # g.category /\ Sliceable(f)
  BY DEF Subtract, ToSet
<1>2. /\ f.from \in Nat /\ f.to \in Nat /\ f.length \in Nat /\ g.from \in Nat /\ g.to \in Nat
      /\ f.from < f.to /\ f.from < g.to /\ g.from < f.to /\ f.length = f.to - f.from
  BY <1>1, FindingFields DEF Overlap, Sliceable
<1>3. /\ end - f.from \in Int /\ end - f.from < f.length
      /\ start - f.from \in Nat /\ start > f.from /\ f.to - f.from \in Int
  BY <1>2
<1>4. Subtract(f, g) = left \o right
  BY <1>1 DEF Subtract
<1> HIDE DEF end, start
<1>5. before \subseteq Positions(f) /\ behind \subseteq Positions(f)
  BY <1>1, <1>3, PartOfFinding
<1>6. part \in ToSet(left) \/ part \in ToSet(right)
  <2>1. PICK S, T : left \in Seq(S) /\ right \in Seq(T)
    BY AsFindingIsSeq
  <2> QED
    BY <1>4, <2>1, ToSetConcat
<1>7. CASE part \in ToSet(left)
  <2>1. before \subseteq f.from..((f.to - 1) - 1)
    <3>1. CASE end - f.from < 0
      BY <1>2, <1>3, <3>1 DEF Part, Positions, Findings
    <3>2. CASE end - f.from >= 0
      BY <1>2, <1>3, <3>2 DEF Part, Positions, Findings
    <3> QED
      BY <1>3, <3>1, <3>2
  <2>2. f.to - 1 \in Int /\ f.from \in Int
    BY <1>2
  <2> HIDE DEF before
  <2>3. part.to \in Int /\ part.from \in Int /\ part.to - part.from <= (f.to - 1) - f.from
    BY <1>5, <1>7, <2>1, <2>2, AsFindingSpan
  <2> QED
    BY <1>2, <2>3
<1>8. CASE part \in ToSet(right)
  <2>1. behind \subseteq (f.from + 1)..(f.to - 1)
    <3> DEFINE last == IF f.to - f.from < 0 THEN f.length + (f.to - f.from) ELSE f.to - f.from
               stop == f.from + (IF last < f.length THEN last ELSE f.length)
               rest == [f EXCEPT !.from = f.from + (start - f.from), !.to = stop]
    <3>1. behind = Positions(rest)
      BY DEF Part
    <3>2. rest.from = f.from + (start - f.from) /\ rest.to = stop
      BY DEF Findings
    <3>3. f.from + (start - f.from) >= f.from + 1 /\ f.from + (start - f.from) \in Int
      <4>1. start \in Int
        BY <1>2 DEF start
      <4> QED
        BY <1>2, <1>3, <4>1
    <3>4. stop = f.to
      BY <1>2
    <3> HIDE DEF rest, stop, behind
    <3> QED
      BY <1>2, <3>1, <3>2, <3>3, <3>4 DEF Positions
  <2>2. f.to \in Int /\ f.from + 1 \in Int
    BY <1>2
  <2> HIDE DEF behind
  <2>3. part.to \in Int /\ part.from \in Int /\ part.to - part.from <= f.to - (f.from + 1)
    BY <1>5, <1>8, <2>1, <2>2, AsFindingSpan
  <2> QED
    BY <1>2, <2>3
<1> QED
  BY <1>6, <1>7, <1>8

----------------------------------------------------------------------------
(* The sequences *)

\* Where insertSorted puts a finding: after some that start at or before it, before
\* one that starts later.
LEMMA InsertSortedPlace ==
    ASSUME NEW s \in Seq(Findings), NEW f \in Findings
    PROVE  \E k \in 1..(Len(s) + 1) :
             /\ InsertSorted(s, f) = InsertAt(s, k, f)
             /\ \A j \in 1..(k - 1) : s[j].from <= f.from
             /\ k \in 1..Len(s) => s[k].from > f.from
<1> DEFINE after == {i \in 1..Len(s) : s[i].from > f.from}
           k == IF after = {} THEN Len(s) + 1 ELSE Min(after)
<1>1. after \subseteq Nat /\ after \subseteq 1..Len(s)
  OBVIOUS
<1>2. \A i \in 1..Len(s) : s[i].from \in Nat
  BY FindingFields
<1>3. \A i \in 1..Len(s) : i \notin after => s[i].from <= f.from
  BY <1>2, FindingFields
<1>4. \A i \in after : s[i].from > f.from
  OBVIOUS
<1>5. InsertSorted(s, f) = InsertAt(s, k, f)
  BY DEF InsertSorted
<1> HIDE DEF after
<1>6. CASE after = {}
  BY <1>3, <1>5, <1>6
<1>7. CASE after # {}
  <2>1. k \in after /\ \A i \in after : k <= i
    BY <1>1, <1>7, MinIsLeast
  <2> HIDE DEF k
  <2> QED
    BY <1>1, <1>3, <1>4, <1>5, <2>1
<1> QED
  BY <1>6, <1>7

\* insertSorted adds a finding and keeps the order.
LEMMA InsertSortedKeeps ==
    ASSUME NEW S \in SUBSET Findings, NEW s \in Seq(S), SortedByStart(s), NEW f \in S
    PROVE  InsertSorted(s, f) \in Seq(S) /\ SortedByStart(InsertSorted(s, f))
<1>1. s \in Seq(Findings) /\ f \in Findings
  OBVIOUS
<1>2. PICK k \in 1..(Len(s) + 1) :
        /\ InsertSorted(s, f) = InsertAt(s, k, f)
        /\ \A j \in 1..(k - 1) : s[j].from <= f.from
        /\ k \in 1..Len(s) => s[k].from > f.from
  BY <1>1, InsertSortedPlace
<1> DEFINE t == InsertAt(s, k, f)
<1>3. /\ t \in Seq(S)
      /\ Len(t) = Len(s) + 1
      /\ \A j \in 1..(Len(s) + 1) : t[j] = IF j < k THEN s[j] ELSE IF j = k THEN f ELSE s[j - 1]
  <2>1. IsInserted(t, S, s, k, f)
    BY InsertAtIndex
  <2> HIDE DEF t
  <2> QED
    BY <2>1 DEF IsInserted
<1> HIDE DEF t
<1>4. ASSUME NEW j \in 1..(Len(t) - 1) PROVE t[j].from <= t[j + 1].from
  <2>1. f.from \in Nat /\ \A i \in 1..Len(s) : s[i].from \in Nat
    BY <1>1, FindingFields
  <2>2. CASE j + 1 < k
    BY <1>3, <1>4, <2>2 DEF SortedByStart
  <2>3. CASE j + 1 = k
    BY <1>2, <1>3, <1>4, <2>3
  <2>4. CASE j = k
    BY <1>2, <1>3, <1>4, <2>1, <2>4
  <2>5. CASE j > k
    <3>1. j - 1 \in 1..(Len(s) - 1) /\ (j - 1) + 1 = j
      BY <1>3, <1>4, <2>5
    <3>2. s[j - 1].from <= s[j].from
      BY <3>1 DEF SortedByStart
    <3>3. t[j] = s[j - 1] /\ t[j + 1] = s[j]
      BY <1>3, <1>4, <2>5
    <3> QED
      BY <3>2, <3>3
  <2> QED
    BY <2>2, <2>3, <2>4, <2>5, <1>3
<1> QED
  BY <1>2, <1>3, <1>4 DEF SortedByStart, t

\* It adds that finding and takes none away.
LEMMA InsertSortedHolds ==
    ASSUME NEW S \in SUBSET Findings, NEW s \in Seq(S), NEW f \in S
    PROVE  ToSet(s) \union {f} \subseteq ToSet(InsertSorted(s, f))
<1>1. PICK k \in 1..(Len(s) + 1) : InsertSorted(s, f) = InsertAt(s, k, f)
  <2>1. s \in Seq(Findings) /\ f \in Findings
    OBVIOUS
  <2> QED
    BY <2>1, InsertSortedPlace
<1> DEFINE t == InsertAt(s, k, f)
<1>2. /\ t \in Seq(S)
      /\ Len(t) = Len(s) + 1
      /\ \A j \in 1..(Len(s) + 1) : t[j] = IF j < k THEN s[j] ELSE IF j = k THEN f ELSE s[j - 1]
  <2>1. IsInserted(t, S, s, k, f)
    BY InsertAtIndex
  <2> HIDE DEF t
  <2> QED
    BY <2>1 DEF IsInserted
<1> HIDE DEF t
<1>3. DOMAIN t = 1..(Len(s) + 1) /\ DOMAIN s = 1..Len(s)
  BY <1>2
<1>4. ASSUME NEW x \in ToSet(s) PROVE x \in ToSet(t)
  <2>1. PICK i \in 1..Len(s) : x = s[i]
    BY <1>3, <1>4 DEF ToSet
  <2>2. CASE i < k
    <3>1. x = t[i] /\ i \in DOMAIN t
      BY <1>2, <1>3, <2>1, <2>2
    <3> QED
      BY <3>1 DEF ToSet
  <2>3. CASE i >= k
    <3>1. x = t[i + 1] /\ i + 1 \in DOMAIN t
      BY <1>2, <1>3, <2>1, <2>3
    <3> QED
      BY <3>1 DEF ToSet
  <2> QED
    BY <2>2, <2>3
<1>5. f \in ToSet(t)
  BY <1>2, <1>3 DEF ToSet
<1> QED
  BY <1>1, <1>4, <1>5 DEF t

\* So does putting back what is left of a loser.
LEMMA PushAllKeeps ==
    ASSUME NEW S \in SUBSET Findings, NEW q \in Seq(S), SortedByStart(q),
           NEW parts \in Seq(S), Len(parts) \in 0..2
    PROVE  PushAll(q, parts) \in Seq(S) /\ SortedByStart(PushAll(q, parts))
<1>1. CASE Len(parts) = 0
  BY <1>1 DEF PushAll
<1>2. CASE Len(parts) = 1
  BY <1>2, InsertSortedKeeps DEF PushAll
<1>3. CASE Len(parts) = 2
  <2>1. parts[1] \in S /\ parts[2] \in S
    BY <1>3
  <2>2. InsertSorted(q, parts[1]) \in Seq(S) /\ SortedByStart(InsertSorted(q, parts[1]))
    BY <2>1, InsertSortedKeeps
  <2> QED
    BY <1>3, <2>1, <2>2, InsertSortedKeeps DEF PushAll
<1> QED
  BY <1>1, <1>2, <1>3

\* Putting them back loses neither them nor what was in the queue.
LEMMA PushAllHolds ==
    ASSUME NEW q \in Seq(Findings), SortedByStart(q),
           NEW parts \in Seq(Findings), Len(parts) \in 0..2
    PROVE  ToSet(q) \union ToSet(parts) \subseteq ToSet(PushAll(q, parts))
<1>1. CASE Len(parts) = 0
  <2>1. ToSet(parts) = {}
    BY <1>1 DEF ToSet
  <2> QED
    BY <1>1, <2>1 DEF PushAll
<1>2. CASE Len(parts) = 1
  <2>1. ToSet(parts) = {parts[1]} /\ parts[1] \in Findings
    BY <1>2 DEF ToSet
  <2>2. PushAll(q, parts) = InsertSorted(q, parts[1])
    BY <1>2 DEF PushAll
  <2> QED
    BY <2>1, <2>2, InsertSortedHolds
<1>3. CASE Len(parts) = 2
  <2>1. ToSet(parts) = {parts[1], parts[2]} /\ parts[1] \in Findings /\ parts[2] \in Findings
    <3>1. DOMAIN parts = 1..2 /\ parts[1] \in Findings /\ parts[2] \in Findings
      <4>1. DOMAIN parts = 1..Len(parts) /\ \A i \in 1..Len(parts) : parts[i] \in Findings
        OBVIOUS
      <4> QED
        BY <1>3, <4>1
    <3>2. ToSet(parts) = {parts[i] : i \in 1..2}
      BY <3>1 DEF ToSet
    <3>3. 1..2 = {1, 2}
      OBVIOUS
    <3> QED
      BY <3>1, <3>2, <3>3
  <2>2. PushAll(q, parts) = InsertSorted(InsertSorted(q, parts[1]), parts[2])
    BY <1>3 DEF PushAll
  <2>3. InsertSorted(q, parts[1]) \in Seq(Findings)
    BY <2>1, InsertSortedKeeps
  <2> QED
    BY <2>1, <2>2, <2>3, InsertSortedHolds
<1> QED
  BY <1>1, <1>2, <1>3

\* The queue without its head is in order.
LEMMA TailKeeps ==
    ASSUME NEW S \in SUBSET Findings, NEW q \in Seq(S), q # <<>>, SortedByStart(q)
    PROVE  Head(q) \in S /\ Tail(q) \in Seq(S) /\ SortedByStart(Tail(q))
BY DEF SortedByStart

----------------------------------------------------------------------------
(* firstOverlap *)

\* The comment at collision-resolver.ts:193: of findings that are in order and
\* apart, the first to end after the candidate starts is the leftmost that
\* overlaps it, if one does.
THEOREM FirstOverlapIsLeftmost ==
    ASSUME accepted \in Seq(Findings), Apart, NEW f \in Findings
    PROVE  FirstOverlap(f) =
             {i \in 1..Len(accepted) :
                Overlap(accepted[i], f) /\ \A j \in 1..(i - 1) : ~Overlap(accepted[j], f)}
<1> DEFINE later == {i \in 1..Len(accepted) : accepted[i].to > f.from}
           leftmost == {i \in 1..Len(accepted) :
                Overlap(accepted[i], f) /\ \A j \in 1..(i - 1) : ~Overlap(accepted[j], f)}
<1>1. f.from \in Nat /\ f.to \in Nat /\ f.from < f.to
  BY FindingFields
<1>2. \A i \in 1..Len(accepted) :
        accepted[i].from \in Nat /\ accepted[i].to \in Nat /\ accepted[i].from < accepted[i].to
  BY FindingFields
<1>3. FirstOverlap(f) = {i \in later : i = Min(later) /\ accepted[i].from < f.to}
  BY DEF FirstOverlap
<1>4. CASE later = {}
  <2>1. \A i \in 1..Len(accepted) : ~Overlap(accepted[i], f)
    BY <1>4 DEF Overlap
  <2>2. leftmost = {}
    BY <2>1
  <2> QED
    BY <1>3, <1>4, <2>2
<1>5. CASE later # {}
  <2> DEFINE m == Min(later)
  <2>1. later \subseteq Nat
    OBVIOUS
  <2>2. m \in later /\ \A i \in later : m <= i
    BY <1>5, <2>1, MinIsLeast
  <2> HIDE DEF m
  <2>3. m \in 1..Len(accepted) /\ accepted[m].to > f.from
    BY <2>2
  <2>4. \A j \in 1..(m - 1) : ~Overlap(accepted[j], f)
    BY <1>1, <1>2, <2>2 DEF Overlap
  <2>5. \A i \in 1..Len(accepted) : i > m => accepted[i].from >= accepted[m].to
    BY <1>2, <2>3 DEF Apart
  <2>6. CASE accepted[m].from < f.to
    <3>1. Overlap(accepted[m], f)
      BY <2>3, <2>6 DEF Overlap
    <3>2. leftmost = {m}
      BY <2>3, <2>4, <3>1
    <3>3. FirstOverlap(f) = {m}
      BY <1>3, <2>2, <2>6 DEF m
    <3> QED
      BY <3>2, <3>3
  <2>7. CASE ~(accepted[m].from < f.to)
    <3>1. \A i \in 1..Len(accepted) : ~Overlap(accepted[i], f)
      <4>1. \A i \in 1..Len(accepted) : i > m => ~Overlap(accepted[i], f)
        BY <1>1, <1>2, <2>3, <2>5, <2>7 DEF Overlap
      <4>2. ~Overlap(accepted[m], f)
        BY <2>7 DEF Overlap
      <4> QED
        BY <2>3, <2>4, <4>1, <4>2
    <3>2. leftmost = {}
      BY <3>1
    <3>3. FirstOverlap(f) = {}
      BY <1>3, <2>7 DEF m
    <3> QED
      BY <3>2, <3>3
  <2> QED
    BY <2>6, <2>7
<1> QED
  BY <1>4, <1>5

\* If there is no leftmost one there is none.
LEMMA NoneOverlaps ==
    ASSUME accepted \in Seq(Findings), Apart, NEW f \in Findings, FirstOverlap(f) = {}
    PROVE  \A i \in 1..Len(accepted) : ~Overlap(accepted[i], f)
<1> DEFINE S == {i \in 1..Len(accepted) : Overlap(accepted[i], f)}
<1>1. S \subseteq Nat /\ S \subseteq 1..Len(accepted)
  OBVIOUS
<1>2. SUFFICES ASSUME S # {} PROVE FALSE
  OBVIOUS
<1>3. Min(S) \in S /\ \A i \in S : Min(S) <= i
  BY <1>1, <1>2, MinIsLeast
<1>4. \A j \in 1..(Min(S) - 1) : ~Overlap(accepted[j], f)
  BY <1>1, <1>3
<1>5. Min(S) \in FirstOverlap(f)
  BY <1>3, <1>4, FirstOverlapIsLeftmost
<1> QED
  BY <1>5

\* A candidate that firstOverlap finds nothing for goes between the accepted
\* findings without touching any.
LEMMA AcceptKeepsApart ==
    ASSUME ResolveInv, NEW f \in Traced, FirstOverlap(f) = {}
    PROVE  /\ InsertSorted(accepted, f) \in Seq(Traced)
           /\ \A i, j \in 1..Len(InsertSorted(accepted, f)) :
                i < j => InsertSorted(accepted, f)[i].to <= InsertSorted(accepted, f)[j].from
<1>1. accepted \in Seq(Findings) /\ f \in Findings /\ accepted \in Seq(Traced)
  BY TracedIsFinding DEF ResolveInv
<1>2. /\ f.from \in Nat /\ f.to \in Nat /\ f.from < f.to
      /\ \A i \in 1..Len(accepted) :
          accepted[i].from \in Nat /\ accepted[i].to \in Nat /\ accepted[i].from < accepted[i].to
  BY <1>1, FindingFields
<1>3. \A i \in 1..Len(accepted) : ~Overlap(accepted[i], f)
  BY <1>1, <1>2, NoneOverlaps DEF ResolveInv
<1>4. PICK k \in 1..(Len(accepted) + 1) :
        /\ InsertSorted(accepted, f) = InsertAt(accepted, k, f)
        /\ \A j \in 1..(k - 1) : accepted[j].from <= f.from
        /\ k \in 1..Len(accepted) => accepted[k].from > f.from
  BY <1>1, InsertSortedPlace
<1> DEFINE t == InsertAt(accepted, k, f)
<1>5. /\ t \in Seq(Traced)
      /\ Len(t) = Len(accepted) + 1
      /\ \A j \in 1..(Len(accepted) + 1) :
           t[j] = IF j < k THEN accepted[j] ELSE IF j = k THEN f ELSE accepted[j - 1]
  <2>1. IsInserted(t, Traced, accepted, k, f)
    BY <1>1, InsertAtIndex
  <2> HIDE DEF t
  <2> QED
    BY <2>1 DEF IsInserted
<1> HIDE DEF t
<1>6. \A j \in 1..(k - 1) : accepted[j].to <= f.from
  BY <1>2, <1>3, <1>4 DEF Overlap
<1>7. \A j \in k..Len(accepted) : f.to <= accepted[j].from
  <2>1. ASSUME NEW j \in k..Len(accepted) PROVE f.to <= accepted[j].from
    <3>1. k \in 1..Len(accepted) /\ f.to <= accepted[k].from
      BY <1>2, <1>3, <1>4, <2>1 DEF Overlap
    <3>2. accepted[k].from <= accepted[j].from
      BY <1>2, <2>1, <3>1 DEF ResolveInv, Apart
    <3> QED
      BY <1>2, <2>1, <3>1, <3>2
  <2> QED
    BY <2>1
<1>8. ASSUME NEW i \in 1..Len(t), NEW j \in 1..Len(t), i < j
      PROVE  t[i].to <= t[j].from
  <2> \A m, n \in 1..Len(accepted) : m < n => accepted[m].to <= accepted[n].from
    BY DEF ResolveInv, Apart
  <2>1. CASE j < k
    BY <1>5, <1>8, <2>1
  <2>2. CASE j = k
    BY <1>5, <1>6, <1>8, <2>2
  <2>3. CASE i = k
    <3>1. j - 1 \in k..Len(accepted) /\ t[i] = f /\ t[j] = accepted[j - 1]
      BY <1>5, <1>8, <2>3
    <3> QED
      BY <1>7, <3>1
  <2>4. CASE i > k
    <3>1. /\ i - 1 \in 1..Len(accepted) /\ j - 1 \in 1..Len(accepted) /\ i - 1 < j - 1
          /\ t[i] = accepted[i - 1] /\ t[j] = accepted[j - 1]
      BY <1>5, <1>8, <2>4
    <3> QED
      BY <3>1
  <2>5. CASE i < k /\ j > k
    <3>1. /\ i \in 1..Len(accepted) /\ j - 1 \in 1..Len(accepted) /\ i < j - 1
          /\ t[i] = accepted[i] /\ t[j] = accepted[j - 1]
      BY <1>5, <1>8, <2>5
    <3> QED
      BY <3>1
  <2> QED
    BY <1>5, <2>1, <2>2, <2>3, <2>4, <2>5
<1> QED
  BY <1>4, <1>5, <1>8 DEF t

----------------------------------------------------------------------------
(* resolveCollisions *)

\* Every finding is traced at the start.
LEMMA FoundIsTraced ==
    ASSUME NEW s \in BoundedSeq(Inputs, MaxFindings), found = ToSet(s)
    PROVE  s \in Seq(Traced)
<1>1. PICK n \in Nat : s \in [1..n -> Inputs]
  BY CollisionAssumption DEF BoundedSeq, SeqOf
<1>2. \A i \in 1..n : s[i] \in Findings /\ s[i] \in found
  BY <1>1, CollisionAssumption DEF ToSet
<1>3. \A i \in 1..n : s[i] \in Traced
  BY <1>2 DEF Traced
<1>4. s \in [1..n -> Traced]
  BY <1>1, <1>3
<1> QED
  BY <1>4

\* The loop begins with the findings as they were made.
LEMMA InitResolveInv == Init => ResolveInv
<1> SUFFICES ASSUME Init PROVE ResolveInv
  OBVIOUS
<1>1. queue \in Seq(Traced)
  BY FoundIsTraced DEF Init
<1>2. accepted \in Seq(Traced) /\ Apart
  BY DEF Init, Apart
<1> QED
  BY <1>1, <1>2 DEF Init, ResolveInv

\* The candidate and the accepted finding it meets.
LEMMA Meeting ==
    ASSUME ResolveInv, queue # <<>>
    PROVE  /\ Head(queue) \in Traced /\ Tail(queue) \in Seq(Traced)
           /\ SortedByStart(Tail(queue))
           /\ \A i \in FirstOverlap(Head(queue)) :
                i \in 1..Len(accepted) /\ accepted[i] \in Traced
<1>1. /\ Head(queue) \in Traced /\ Tail(queue) \in Seq(Traced)
      /\ SortedByStart(Tail(queue))
  BY TailKeeps, TracedIsFinding DEF ResolveInv
<1>2. ASSUME NEW i \in FirstOverlap(Head(queue))
      PROVE  i \in 1..Len(accepted) /\ accepted[i] \in Traced
  <2>1. i \in 1..Len(accepted)
    BY <1>2 DEF FirstOverlap
  <2> QED
    BY <2>1 DEF ResolveInv
<1> QED
  BY <1>1, <1>2

\* Every turn of the loop keeps the invariant.
LEMMA NextResolveInv == ResolveInv /\ [Next]_vars => ResolveInv'
<1> SUFFICES ASSUME ResolveInv, [Next]_vars PROVE ResolveInv'
  OBVIOUS
<1>1. found' = found
  BY DEF Next, Accept, Displace, Lose, vars
<1>2. Traced' = Traced
  BY <1>1 DEF Traced
<1>3. CASE Accept
  <2>1. accepted' = InsertSorted(accepted, Head(queue)) /\ queue' = Tail(queue)
    BY <1>3 DEF Accept
  <2>2. queue' \in Seq(Traced) /\ SortedByStart(queue') /\ Head(queue) \in Traced
    BY <1>3, <2>1, Meeting DEF Accept
  <2>3. /\ accepted' \in Seq(Traced)
        /\ \A i, j \in 1..Len(accepted') : i < j => accepted'[i].to <= accepted'[j].from
    BY <1>3, <2>1, <2>2, AcceptKeepsApart DEF Accept
  <2> QED
    BY <1>2, <2>2, <2>3 DEF ResolveInv, Apart, SortedByStart
<1>4. CASE Displace
  <2>1. PICK i \in FirstOverlap(Head(queue)) :
          /\ accepted' = RemoveAt(accepted, i)
          /\ queue' = PushAll(InsertSorted(Tail(queue), Head(queue)),
                              Subtract(accepted[i], Head(queue)))
    BY <1>4 DEF Displace
  <2>2. /\ Head(queue) \in Traced /\ Tail(queue) \in Seq(Traced)
        /\ SortedByStart(Tail(queue))
        /\ i \in 1..Len(accepted) /\ accepted[i] \in Traced
    BY <1>4, Meeting DEF Displace
  <2>3. /\ InsertSorted(Tail(queue), Head(queue)) \in Seq(Traced)
        /\ SortedByStart(InsertSorted(Tail(queue), Head(queue)))
    BY <2>2, InsertSortedKeeps, TracedIsFinding
  <2>4. /\ Subtract(accepted[i], Head(queue)) \in Seq(Traced)
        /\ Len(Subtract(accepted[i], Head(queue))) \in 0..2
    BY <2>2, SubtractTraced, TracedIsFinding
  <2>5. queue' \in Seq(Traced) /\ SortedByStart(queue')
    BY <2>1, <2>3, <2>4, PushAllKeeps, TracedIsFinding
  <2>6. /\ accepted' \in Seq(Traced)
        /\ Len(accepted') = Len(accepted) - 1
        /\ \A j \in 1..(Len(accepted) - 1) :
             accepted'[j] = IF j < i THEN accepted[j] ELSE accepted[j + 1]
    <3>1. IsRemoved(accepted', Traced, accepted, i)
      BY <2>1, <2>2, RemoveAtIndex DEF ResolveInv
    <3> QED
      BY <3>1 DEF IsRemoved
  <2>7. ASSUME NEW m \in 1..Len(accepted'), NEW n \in 1..Len(accepted'), m < n
        PROVE  accepted'[m].to <= accepted'[n].from
    <3>1. PICK k \in 1..Len(accepted), l \in 1..Len(accepted) :
            k < l /\ accepted'[m] = accepted[k] /\ accepted'[n] = accepted[l]
      <4>1. CASE n < i
        <5>1. accepted'[m] = accepted[m] /\ accepted'[n] = accepted[n]
          BY <2>2, <2>6, <2>7, <4>1
        <5> QED
          BY <2>6, <2>7, <5>1
      <4>2. CASE m < i /\ n >= i
        BY <2>6, <2>7, <4>2
      <4>3. CASE m >= i
        <5>1. accepted'[m] = accepted[m + 1] /\ accepted'[n] = accepted[n + 1]
          BY <2>2, <2>6, <2>7, <4>3
        <5>2. m + 1 \in 1..Len(accepted) /\ n + 1 \in 1..Len(accepted) /\ m + 1 < n + 1
          BY <2>2, <2>6, <2>7
        <5> QED
          BY <5>1, <5>2
      <4> QED
        BY <2>2, <2>6, <2>7, <4>1, <4>2, <4>3 DEF ResolveInv
    <3> QED
      BY <3>1 DEF ResolveInv, Apart
  <2> QED
    BY <1>2, <2>5, <2>6, <2>7 DEF ResolveInv, Apart, SortedByStart
<1>5. CASE Lose
  <2>1. PICK i \in FirstOverlap(Head(queue)) :
          queue' = PushAll(Tail(queue), Subtract(Head(queue), accepted[i]))
    BY <1>5 DEF Lose
  <2>2. /\ Head(queue) \in Traced /\ Tail(queue) \in Seq(Traced)
        /\ SortedByStart(Tail(queue))
        /\ i \in 1..Len(accepted) /\ accepted[i] \in Traced
    BY <1>5, Meeting DEF Lose
  <2>3. /\ Subtract(Head(queue), accepted[i]) \in Seq(Traced)
        /\ Len(Subtract(Head(queue), accepted[i])) \in 0..2
    BY <2>2, SubtractTraced, TracedIsFinding
  <2>4. queue' \in Seq(Traced) /\ SortedByStart(queue')
    BY <2>1, <2>2, <2>3, PushAllKeeps, TracedIsFinding
  <2>5. accepted' = accepted
    BY <1>5 DEF Lose
  <2> QED
    BY <1>2, <2>4, <2>5 DEF ResolveInv, Apart, SortedByStart
<1>6. CASE UNCHANGED vars
  BY <1>2, <1>6 DEF vars, ResolveInv, Apart, SortedByStart
<1> QED
  BY <1>3, <1>4, <1>5, <1>6 DEF Next

----------------------------------------------------------------------------
(* Narrowing *)

\* A finding gives way to another, which is as strong, and what is left of it is put
\* back: each of its characters is still as strongly redacted, but where it is dropped.
LEMMA LoserKept ==
    ASSUME NEW f \in Findings, NEW g \in Findings, NEW after,
           Overlap(f, g), g \in after, ToSet(Subtract(f, g)) \subseteq after,
           Priority[g.category] <= Priority[f.category],
           NEW p \in Positions(f)
    PROVE  \/ \E h \in after : p \in Positions(h) /\ Priority[h.category] <= Priority[f.category]
           \/ f # g /\ Overlap(f, g) /\ (f.category = g.category \/ ~Sliceable(f))
<1>1. Priority[f.category] <= Priority[f.category]
  BY FindingFields, CollisionAssumption
<1>2. CASE f.category # g.category /\ Sliceable(f)
  BY <1>1, <1>2, SubtractCovers
<1>3. CASE f = g
  BY <1>1, <1>3
<1> QED
  BY <1>2, <1>3

\* The winner is as strong as the loser.
LEMMA WinnerIsStronger ==
    ASSUME NEW f \in Findings, NEW g \in Findings
    PROVE  /\ CandidateWins(f, g) => Priority[f.category] <= Priority[g.category]
           /\ ~CandidateWins(f, g) => Priority[g.category] <= Priority[f.category]
<1>1. Priority[f.category] \in Nat /\ Priority[g.category] \in Nat
  BY FindingFields, CollisionAssumption
<1>2. CASE Priority[f.category] = Priority[g.category]
  BY <1>1, <1>2
<1>3. CASE Priority[f.category] # Priority[g.category]
  <2>1. CandidateWins(f, g) <=> Priority[f.category] < Priority[g.category]
    BY <1>3 DEF CandidateWins
  <2> QED
    BY <1>1, <1>3, <2>1
<1> QED
  BY <1>2, <1>3

\* What NeverWeakened says of one character of one finding.
KeptOrDropped(f, p) ==
    \/ \E g \in Pieces' : p \in Positions(g) /\ Priority[g.category] <= Priority[f.category]
    \/ \E g \in Pieces \ {f} : Overlap(f, g) /\ (f.category = g.category \/ ~Sliceable(f))

\* A finding that is still there keeps its characters.
LEMMA StaysKept ==
    ASSUME NEW f \in Findings, f \in Pieces', NEW p \in Positions(f)
    PROVE  KeptOrDropped(f, p)
BY FindingFields, CollisionAssumption DEF KeptOrDropped

\* No turn of the loop weakens a finding.
LEMMA NextKeeps ==
    ASSUME ResolveInv, Next, NEW f \in Pieces, NEW p \in Positions(f)
    PROVE  KeptOrDropped(f, p)
<1>1. /\ queue \in Seq(Findings) /\ accepted \in Seq(Findings) /\ queue # <<>>
  BY TracedIsFinding DEF ResolveInv, Next, Accept, Displace, Lose
<1>2. Pieces = ToSet(queue) \union ToSet(accepted) /\ f \in Findings
  <2>1. Pieces = ToSet(queue) \union ToSet(accepted)
    BY <1>1, ToSetConcat DEF Pieces
  <2>2. ToSet(queue) \subseteq Findings /\ ToSet(accepted) \subseteq Findings
    BY <1>1 DEF ToSet
  <2> QED
    BY <2>1, <2>2
<1>3. /\ queue' \in Seq(Findings) /\ accepted' \in Seq(Findings)
  <2>1. ResolveInv' /\ Traced' \subseteq Findings
    BY NextResolveInv DEF Traced
  <2> QED
    BY <2>1 DEF ResolveInv
<1>4. Pieces' = ToSet(queue') \union ToSet(accepted')
  BY <1>3, ToSetConcat DEF Pieces
<1>5. /\ Head(queue) \in Findings /\ Tail(queue) \in Seq(Findings)
      /\ SortedByStart(Tail(queue)) /\ Head(queue) \in ToSet(queue)
      /\ ToSet(queue) \subseteq ToSet(Tail(queue)) \union {Head(queue)}
  <2>1. /\ Head(queue) \in Findings /\ Tail(queue) \in Seq(Findings)
        /\ SortedByStart(Tail(queue))
    BY <1>1, Meeting, TracedIsFinding
  <2>2. Head(queue) \in ToSet(queue)
    BY <1>1 DEF ToSet
  <2>3. ToSet(queue) \subseteq ToSet(Tail(queue)) \union {Head(queue)}
    BY <1>1, HeadTailHolds
  <2> QED
    BY <2>1, <2>2, <2>3
<1>6. \A i \in FirstOverlap(Head(queue)) :
        /\ i \in 1..Len(accepted) /\ accepted[i] \in Findings /\ accepted[i] \in ToSet(accepted)
        /\ Overlap(accepted[i], Head(queue)) /\ Overlap(Head(queue), accepted[i])
  BY <1>1 DEF FirstOverlap, Overlap, ToSet
<1>7. CASE Accept
  <2>1. f \in Pieces'
    BY <1>1, <1>2, <1>4, <1>5, <1>7, InsertSortedHolds DEF Accept
  <2> QED
    BY <1>2, <2>1, StaysKept
<1>8. CASE Displace
  <2>1. PICK i \in FirstOverlap(Head(queue)) :
          /\ CandidateWins(Head(queue), accepted[i])
          /\ accepted' = RemoveAt(accepted, i)
          /\ queue' = PushAll(InsertSorted(Tail(queue), Head(queue)),
                              Subtract(accepted[i], Head(queue)))
    BY <1>8 DEF Displace
  <2> DEFINE q == InsertSorted(Tail(queue), Head(queue))
             parts == Subtract(accepted[i], Head(queue))
  <2>2. q \in Seq(Findings) /\ SortedByStart(q) /\ ToSet(queue) \subseteq ToSet(q)
    BY <1>5, InsertSortedKeeps, InsertSortedHolds
  <2>3. parts \in Seq(Findings) /\ Len(parts) \in 0..2
    <3>1. accepted[i] \in Traced
      BY <1>1, <2>1, Meeting
    <3> QED
      BY <1>5, <3>1, SubtractTraced, TracedIsFinding
  <2>4. ToSet(q) \union ToSet(parts) \subseteq ToSet(queue')
    BY <2>1, <2>2, <2>3, PushAllHolds
  <2>5. ToSet(accepted) \subseteq ToSet(accepted') \union {accepted[i]}
    BY <1>1, <1>6, <2>1, RemoveAtHolds
  <2>6. CASE f = accepted[i]
    <3>1. Priority[Head(queue).category] <= Priority[accepted[i].category]
      BY <1>5, <1>6, <2>1, WinnerIsStronger
    <3>2. \/ \E h \in Pieces' : p \in Positions(h) /\ Priority[h.category] <= Priority[f.category]
          \/ /\ f # Head(queue) /\ Overlap(f, Head(queue))
             /\ f.category = Head(queue).category \/ ~Sliceable(f)
      <4>1. Head(queue) \in Pieces' /\ ToSet(Subtract(f, Head(queue))) \subseteq Pieces'
        BY <1>4, <1>5, <2>2, <2>4, <2>6
      <4> QED
        BY <1>2, <1>5, <1>6, <2>1, <2>6, <3>1, <4>1, LoserKept
    <3> QED
      BY <1>2, <1>5, <3>2 DEF KeptOrDropped
  <2>7. CASE f # accepted[i]
    BY <1>2, <1>4, <2>2, <2>4, <2>5, <2>7, StaysKept
  <2> QED
    BY <2>6, <2>7
<1>9. CASE Lose
  <2>1. PICK i \in FirstOverlap(Head(queue)) :
          /\ ~CandidateWins(Head(queue), accepted[i])
          /\ queue' = PushAll(Tail(queue), Subtract(Head(queue), accepted[i]))
          /\ accepted' = accepted
    BY <1>9 DEF Lose
  <2> DEFINE parts == Subtract(Head(queue), accepted[i])
  <2>2. parts \in Seq(Findings) /\ Len(parts) \in 0..2
    <3>1. Head(queue) \in Traced
      BY <1>1, Meeting
    <3> QED
      BY <1>6, <2>1, <3>1, SubtractTraced, TracedIsFinding
  <2>3. ToSet(Tail(queue)) \union ToSet(parts) \subseteq ToSet(queue')
    BY <1>5, <2>1, <2>2, PushAllHolds
  <2>4. CASE f = Head(queue)
    <3>1. Priority[accepted[i].category] <= Priority[Head(queue).category]
      BY <1>5, <1>6, <2>1, WinnerIsStronger
    <3>2. \/ \E h \in Pieces' : p \in Positions(h) /\ Priority[h.category] <= Priority[f.category]
          \/ /\ f # accepted[i] /\ Overlap(f, accepted[i])
             /\ f.category = accepted[i].category \/ ~Sliceable(f)
      <4>1. accepted[i] \in Pieces' /\ ToSet(Subtract(f, accepted[i])) \subseteq Pieces'
        BY <1>4, <1>6, <2>1, <2>3, <2>4
      <4> QED
        BY <1>2, <1>6, <2>1, <2>4, <3>1, <4>1, LoserKept
    <3> QED
      BY <1>2, <1>6, <2>1, <3>2 DEF KeptOrDropped
  <2>5. CASE f # Head(queue)
    BY <1>2, <1>4, <1>5, <2>1, <2>3, <2>5, StaysKept
  <2> QED
    BY <2>4, <2>5
<1> QED
  BY <1>7, <1>8, <1>9 DEF Next

----------------------------------------------------------------------------
(* runDetectors *)

\* The findings below the threshold wait in order for the second pass.
BelowInv == below \in BoundedSeq(Inputs, MaxFindings) /\ SortedByStart(below)

\* The first pass begins with the passing findings.
LEMMA InitDetectInv == DetectInit => ResolveInv /\ BelowInv
<1> SUFFICES ASSUME DetectInit PROVE ResolveInv /\ BelowInv
  OBVIOUS
<1>1. ResolveInv
  BY InitResolveInv DEF DetectInit
<1>2. PICK n \in Nat : n <= MaxFindings /\ queue \in [1..n -> Inputs]
  BY CollisionAssumption DEF DetectInit, Init, BoundedSeq, SeqOf
<1>3. Len(queue) = n
  BY <1>2
<1>4. BelowBound(Len(queue)) \in Int /\ BelowBound(Len(queue)) <= MaxFindings
  BY <1>2, <1>3, CollisionAssumption, ThresholdAssumption DEF BelowBound
<1>5. PICK m \in 0..MaxFindings : below \in [1..m -> Inputs] /\ SortedByStart(below)
  BY <1>4, CollisionAssumption DEF DetectInit, BoundedSeq, SeqOf
<1>6. below \in BoundedSeq(Inputs, MaxFindings)
  BY <1>5, CollisionAssumption DEF BoundedSeq, SeqOf
<1> QED
  BY <1>1, <1>5, <1>6 DEF BelowInv

\* The second pass begins with the others; no other step disturbs either.
LEMMA NextDetectInv ==
    ResolveInv /\ BelowInv /\ [DetectNext]_<<vars, thresholdVars>> => (ResolveInv /\ BelowInv)'
<1> SUFFICES ASSUME ResolveInv, BelowInv, [DetectNext]_<<vars, thresholdVars>>
             PROVE  ResolveInv' /\ BelowInv'
  OBVIOUS
<1>1. below' = below
  BY DEF DetectNext, Resolve, KeepPassing, ReportSuppressed, thresholdVars
<1>2. BelowInv'
  BY <1>1 DEF BelowInv, SortedByStart
<1>3. CASE KeepPassing
  <2>1. found' = ToSet(below) /\ queue' = below /\ accepted' = <<>>
    BY <1>3 DEF KeepPassing
  <2>2. queue' \in Seq(Traced')
    <3>1. PICK n \in Nat : below \in [1..n -> Inputs]
      BY CollisionAssumption DEF BelowInv, BoundedSeq, SeqOf
    <3>2. \A i \in 1..n : below[i] \in Findings /\ below[i] \in found'
      BY <2>1, <3>1, CollisionAssumption DEF ToSet
    <3>3. \A i \in 1..n : below[i] \in Traced'
      BY <3>2 DEF Traced
    <3>4. below \in [1..n -> Traced']
      BY <3>1, <3>3
    <3> QED
      BY <2>1, <3>4
  <2>3. SortedByStart(queue')
    BY <2>1 DEF BelowInv
  <2> QED
    BY <1>2, <2>1, <2>2, <2>3 DEF ResolveInv, Apart, SortedByStart
<1>4. CASE ReportSuppressed
  BY <1>2, <1>4, NextResolveInv DEF ReportSuppressed, vars
<1>5. CASE Resolve
  BY <1>2, <1>5, NextResolveInv DEF Resolve
<1>6. CASE UNCHANGED <<vars, thresholdVars>>
  BY <1>2, <1>6, NextResolveInv
<1> QED
  BY <1>2, <1>3, <1>4, <1>5, <1>6 DEF DetectNext

----------------------------------------------------------------------------
(* The remains of a loser *)

\* A part is as long as its span, and begins and ends with characters.
LEMMA AsFindingShape ==
    ASSUME NEW f \in Findings, NEW text \in SUBSET Positions(f),
           NEW x \in ToSet(AsFinding(f, text))
    PROVE  /\ x \in Findings /\ Sliceable(x)
           /\ x.category = f.category /\ x.localeScoped = f.localeScoped
           /\ x.from \in text /\ x.to - 1 \in text
           /\ \A p \in text : x.from <= p /\ p < x.to
<1> DEFINE lo == Min(text)
           hi == Max(text)
           whole == [f EXCEPT !.from = lo, !.to = hi + 1, !.length = hi + 1 - lo]
<1>1. text # {}
  BY DEF AsFinding, ToSet
<1>2. text \subseteq Nat /\ text \subseteq 0..Length /\ text \subseteq f.from..(f.to - 1)
  BY FindingFields, CollisionAssumption DEF Positions
<1>3. lo \in text /\ hi \in text /\ \A p \in text : lo <= p /\ p <= hi
  BY <1>1, <1>2, MinIsLeast, MaxIsGreatest, CollisionAssumption
<1>4. x = whole
  BY <1>1 DEF AsFinding, ToSet
<1> HIDE DEF lo, hi
<1>5. /\ lo \in Nat /\ hi \in Nat /\ lo <= hi /\ f.from <= lo /\ hi <= f.to - 1
  BY <1>2, <1>3, FindingFields
<1>6. /\ x.to = hi + 1 /\ x.from = lo /\ x.length = hi + 1 - lo
      /\ x.category = f.category /\ x.localeScoped = f.localeScoped
  BY <1>4 DEF Findings
<1>7. x \in Findings
  <2>1. lo \in 0..(Length - 1) /\ hi + 1 \in 1..Length /\ hi + 1 - lo \in 1..Length
    BY <1>5, FindingFields, CollisionAssumption
  <2>2. x \in [category : Categories, from : 0..(Length - 1), to : 1..Length,
               length : 1..Length, localeScoped : BOOLEAN]
    BY <1>4, <2>1 DEF Findings
  <2>3. x.from < x.to
    BY <1>5, <1>6
  <2> QED
    BY <2>2, <2>3 DEF Findings
<1>8. \A p \in text : x.from <= p /\ p < x.to
  BY <1>2, <1>3, <1>5, <1>6
<1>9. Sliceable(x)
  BY <1>5, <1>6 DEF Sliceable
<1>10. x.to - 1 = hi
  BY <1>5, <1>6
<1> QED
  BY <1>3, <1>6, <1>7, <1>8, <1>9, <1>10

\* The characters between a start and a finding that starts after it.
Gap(s, f) == {p \in s..(f.from - 1) : p \notin Blanks}

\* What is left of a loser lies in it, as long as its span and starting with a
\* character; and what the winner starts before, up to there, the winner covers.
LEMMA SubtractShape ==
    ASSUME NEW f \in Findings, NEW g \in Findings, Overlap(f, g),
           NEW x \in ToSet(Subtract(f, g))
    PROVE  /\ f.category # g.category /\ Sliceable(f)
           /\ x \in Findings /\ Sliceable(x)
           /\ x.category = f.category /\ x.localeScoped = f.localeScoped
           /\ f.from <= x.from /\ x.to <= f.to /\ x.from \notin Blanks
           /\ x.to <= g.from \/ x.from >= g.from
           /\ Gap(g.from, x) \subseteq Positions(g)
<1> DEFINE end == IF f.to < g.from THEN f.to ELSE g.from
           start == IF f.from > g.to THEN f.from ELSE g.to
           before == Part(f, 0, end - f.from)
           behind == Part(f, start - f.from, f.to - f.from)
           left == AsFinding(f, before)
           right == AsFinding(f, behind)
<1>1. f.category # g.category /\ Sliceable(f)
  BY DEF Subtract, ToSet
<1>2. /\ f.from \in Nat /\ f.to \in Nat /\ f.length \in Nat /\ g.from \in Nat /\ g.to \in Nat
      /\ f.from < f.to /\ f.from < g.to /\ g.from < f.to /\ g.from < g.to
      /\ f.length = f.to - f.from
  BY <1>1, FindingFields DEF Overlap, Sliceable
<1>3. end = g.from /\ start = g.to
  BY <1>2
<1>4. Subtract(f, g) = left \o right
  BY <1>1 DEF Subtract
<1>5. before \subseteq Positions(f) /\ behind \subseteq Positions(f)
  <2>1. end - f.from \in Int /\ start - f.from \in Nat /\ f.to - f.from \in Int
    BY <1>2, <1>3
  <2> QED
    BY <1>1, <2>1, PartOfFinding
<1>6. x \in ToSet(left) \/ x \in ToSet(right)
  <2>1. PICK S, T : left \in Seq(S) /\ right \in Seq(T)
    BY AsFindingIsSeq
  <2> QED
    BY <1>4, <2>1, ToSetConcat
<1>7. ASSUME NEW text \in SUBSET Positions(f), x \in ToSet(AsFinding(f, text))
      PROVE  /\ x \in Findings /\ Sliceable(x)
             /\ x.category = f.category /\ x.localeScoped = f.localeScoped
             /\ x.from \in text /\ x.to - 1 \in text
             /\ \A p \in text : x.from <= p /\ p < x.to
             /\ x.from \in Nat /\ x.to \in Nat
             /\ f.from <= x.from /\ x.to <= f.to /\ x.from \notin Blanks
  <2>1. /\ x \in Findings /\ Sliceable(x)
        /\ x.category = f.category /\ x.localeScoped = f.localeScoped
        /\ x.from \in text /\ x.to - 1 \in text
        /\ \A p \in text : x.from <= p /\ p < x.to
    BY <1>7, AsFindingShape
  <2>2. x.from \in Positions(f) /\ x.to - 1 \in Positions(f)
    BY <2>1
  <2>3. x.from \in Nat /\ x.to \in Nat
    BY <2>1, FindingFields
  <2>4. f.from <= x.from /\ x.to <= f.to /\ x.from \notin Blanks
    BY <1>2, <2>2, <2>3 DEF Positions
  <2> QED
    BY <2>1, <2>3, <2>4
<1>8. CASE x \in ToSet(left)
  <2>1. CASE g.from > f.from
    <3>1. before \subseteq f.from..(g.from - 1)
      BY <1>2, <1>3, <2>1 DEF Part, Positions, Findings
    <3>2. x.to <= g.from
      BY <1>2, <1>5, <1>7, <1>8, <3>1
    <3>3. Gap(g.from, x) = {}
      <4>1. x.from < x.to /\ x.from \in Nat /\ x.to \in Nat
        BY <1>5, <1>7, <1>8, FindingFields
      <4> QED
        BY <1>2, <3>2, <4>1 DEF Gap
    <3> QED
      BY <1>1, <1>5, <1>7, <1>8, <3>2, <3>3
  <2>2. CASE ~(g.from > f.from)
    <3> DEFINE stop == f.from + (IF f.length + (end - f.from) < f.length
                                 THEN f.length + (end - f.from) ELSE f.length)
               rest == [f EXCEPT !.from = f.from + 0, !.to = stop]
    <3>1. CASE end - f.from < 0
      <4>1. before = Positions(rest)
        BY <3>1 DEF Part
      <4>2. rest.from = f.from /\ rest.to = stop
        BY <1>2 DEF Findings
      <4>3. stop \in Int /\ stop < f.to
        BY <1>2, <1>3, <3>1
      <4>4. \A p \in f.from..(x.from - 1) : p \notin Blanks => p \in before
        <5>1. x.from \in before
          BY <1>5, <1>7, <1>8
        <5> HIDE DEF rest, stop, before
        <5> QED
          BY <1>2, <4>1, <4>2, <4>3, <5>1 DEF Positions
      <4>5. \A p \in f.from..(x.from - 1) : p \in Blanks
        <5>1. x.from \in Nat /\ \A p \in before : x.from <= p
          BY <1>5, <1>7, <1>8
        <5> HIDE DEF rest, stop, before
        <5> QED
          BY <1>2, <4>4, <5>1
      <4>6. Gap(g.from, x) \subseteq Positions(g)
        <5>1. x.from \in Nat
          BY <1>5, <1>7, <1>8
        <5> HIDE DEF rest, stop, before
        <5> QED
          BY <1>2, <2>2, <4>5, <5>1 DEF Gap, Positions
      <4>7. x.from >= g.from
        BY <1>2, <1>5, <1>7, <1>8, <2>2
      <4> QED
        BY <1>1, <1>5, <1>7, <1>8, <4>6, <4>7
    <3>2. CASE ~(end - f.from < 0)
      <4>1. end = f.from
        BY <1>2, <1>3, <2>2, <3>2
      <4>2. before = {}
        BY <1>2, <4>1 DEF Part, Positions, Findings
      <4> QED
        BY <1>8, <4>2 DEF AsFinding, ToSet
    <3> QED
      BY <3>1, <3>2
  <2> QED
    BY <2>1, <2>2
<1>9. CASE x \in ToSet(right)
  <2> DEFINE last == IF f.to - f.from < 0 THEN f.length + (f.to - f.from) ELSE f.to - f.from
             stop == f.from + (IF last < f.length THEN last ELSE f.length)
             rest == [f EXCEPT !.from = f.from + (start - f.from), !.to = stop]
  <2>1. behind = Positions(rest)
    BY DEF Part
  <2>2. rest.from = f.from + (start - f.from) /\ rest.to = stop
    BY DEF Findings
  <2>3. f.from + (start - f.from) = g.to /\ stop = f.to
    BY <1>2, <1>3
  <2> HIDE DEF rest, stop, behind
  <2>4. x.from \in behind /\ \A p \in behind : x.from <= p
    BY <1>5, <1>7, <1>9
  <2>5. behind = {p \in g.to..(f.to - 1) : p \notin Blanks}
    BY <2>1, <2>2, <2>3 DEF Positions
  <2>6. x.from >= g.to /\ x.from \in Nat
    BY <1>2, <1>5, <1>7, <1>9, <2>4, <2>5
  <2>7. \A p \in g.to..(x.from - 1) : p \in Blanks
    BY <1>2, <2>4, <2>5, <2>6
  <2>8. Gap(g.from, x) \subseteq Positions(g)
    BY <1>2, <2>6, <2>7 DEF Gap, Positions
  <2>9. x.from >= g.from
    BY <1>2, <2>6
  <2> QED
    BY <1>1, <1>5, <1>7, <1>9, <2>8, <2>9
<1> QED
  BY <1>6, <1>8, <1>9

\* The second part, if there are two, is behind the winner.
LEMMA SubtractSecond ==
    ASSUME NEW f \in Findings, NEW g \in Findings, Overlap(f, g),
           Len(Subtract(f, g)) = 2
    PROVE  Subtract(f, g)[2].from >= g.from
<1> DEFINE end == IF f.to < g.from THEN f.to ELSE g.from
           start == IF f.from > g.to THEN f.from ELSE g.to
           before == Part(f, 0, end - f.from)
           behind == Part(f, start - f.from, f.to - f.from)
           left == AsFinding(f, before)
           right == AsFinding(f, behind)
<1>1. f.category # g.category /\ Sliceable(f)
  <2>1. Len(<<>>) = 0
    OBVIOUS
  <2> QED
    BY <2>1 DEF Subtract
<1>2. /\ f.from \in Nat /\ f.to \in Nat /\ f.length \in Nat /\ g.from \in Nat /\ g.to \in Nat
      /\ f.from < f.to /\ f.from < g.to /\ g.from < f.to /\ g.from < g.to
      /\ f.length = f.to - f.from
  BY <1>1, FindingFields DEF Overlap, Sliceable
<1>3. start = g.to
  BY <1>2
<1>4. Subtract(f, g) = left \o right
  BY <1>1 DEF Subtract
<1>5. behind \subseteq Positions(f)
  <2>1. start - f.from \in Nat /\ f.to - f.from \in Int
    BY <1>2, <1>3
  <2> QED
    BY <1>1, <2>1, PartOfFinding
<1> DEFINE last == IF f.to - f.from < 0 THEN f.length + (f.to - f.from) ELSE f.to - f.from
           stop == f.from + (IF last < f.length THEN last ELSE f.length)
           rest == [f EXCEPT !.from = f.from + (start - f.from), !.to = stop]
<1>6. behind = Positions(rest)
  BY DEF Part
<1>7. rest.from = f.from + (start - f.from) /\ rest.to = stop
  BY DEF Findings
<1>8. f.from + (start - f.from) = g.to /\ stop = f.to
  BY <1>2, <1>3
<1> HIDE DEF rest, stop, behind
<1>9. behind = {p \in g.to..(f.to - 1) : p \notin Blanks}
  BY <1>6, <1>7, <1>8 DEF Positions
<1>10. \E y : left \in {<<>>, <<y>>}
  BY DEF AsFinding
<1>11. \E z : right \in {<<>>, <<z>>}
  BY DEF AsFinding
<1> HIDE DEF left
<1>12. (left \o right)[2] \in ToSet(right)
  <2>1. PICK y, z : left \in {<<>>, <<y>>} /\ right \in {<<>>, <<z>>}
    BY <1>10, <1>11
  <2> HIDE DEF right
  <2>2. Len(left \o right) = 2
    BY <1>4
  <2>3. left = <<y>> /\ right = <<z>>
    <3>1. CASE left = <<>>
      <4>1. left \o right = right
        BY <2>1, <3>1
      <4>2. Len(right) <= 1
        <5>1. right = <<>> \/ right = <<z>>
          BY <2>1
        <5>2. Len(<<>>) = 0 /\ Len(<<z>>) = 1
          OBVIOUS
        <5> QED
          BY <5>1, <5>2
      <4> QED
        BY <2>2, <4>1, <4>2
    <3>2. CASE right = <<>>
      <4>1. left \o right = left
        BY <2>1, <3>2
      <4>2. Len(left) <= 1
        <5>1. left = <<>> \/ left = <<y>>
          BY <2>1
        <5>2. Len(<<>>) = 0 /\ Len(<<y>>) = 1
          OBVIOUS
        <5> QED
          BY <5>1, <5>2
      <4> QED
        BY <2>2, <4>1, <4>2
    <3> QED
      BY <2>1, <3>1, <3>2
  <2> QED
    BY <2>3 DEF ToSet
<1>13. Subtract(f, g)[2].from \in behind
  BY <1>4, <1>5, <1>12, AsFindingShape
<1> QED
  BY <1>2, <1>9, <1>13

----------------------------------------------------------------------------
(* What a turn does to the pieces *)

\* A piece is what is left of a finding that was made.
Origin(g, o) ==
    /\ g.category = o.category /\ g.localeScoped = o.localeScoped
    /\ o.from <= g.from /\ g.to <= o.to
    /\ Sliceable(o) => Sliceable(g)
    /\ g = o \/ g.from \notin Blanks

Originate(P) == \A g \in P : g \in Findings /\ \E o \in found : o \in Findings /\ Origin(g, o)

\* The loser leaves what the winner leaves of it, the others stay.
Narrowed(P, P2, loser, winner) ==
    /\ loser \in P /\ winner \in P
    /\ winner \in P2 /\ ToSet(Subtract(loser, winner)) \subseteq P2
    /\ P \subseteq P2 \union {loser}
    /\ P2 \subseteq P \union ToSet(Subtract(loser, winner))

\* A turn leaves only what is left of findings that were made.
LEMMA NarrowedOriginate ==
    ASSUME NEW P, NEW P2, NEW l, NEW w, Originate(P), Narrowed(P, P2, l, w), Overlap(l, w)
    PROVE  Originate(P2)
<1> SUFFICES ASSUME NEW x \in P2
             PROVE  x \in Findings /\ \E o \in found : o \in Findings /\ Origin(x, o)
  BY DEF Originate
<1>1. CASE x \in P
  BY <1>1 DEF Originate
<1>2. CASE x \in ToSet(Subtract(l, w))
  <2>1. l \in Findings /\ w \in Findings
    BY DEF Originate, Narrowed
  <2>2. PICK o \in found : o \in Findings /\ Origin(l, o)
    BY DEF Originate, Narrowed
  <2>3. /\ x \in Findings /\ Sliceable(x)
        /\ x.category = l.category /\ x.localeScoped = l.localeScoped
        /\ l.from <= x.from /\ x.to <= l.to /\ x.from \notin Blanks
    BY <1>2, <2>1, SubtractShape
  <2>4. Origin(x, o)
    <3>1. o.from <= x.from /\ x.to <= o.to
      BY <2>1, <2>2, <2>3, FindingFields DEF Origin
    <3> QED
      BY <2>2, <2>3, <3>1 DEF Origin
  <2> QED
    BY <2>2, <2>3, <2>4
<1> QED
  BY <1>1, <1>2 DEF Narrowed

\* Near a solid finding every piece can be sliced, pieces of one category that meet
\* are left of one finding, and pieces of two categories have two priorities.
LEMMA NearSolid ==
    ASSUME NEW P, Originate(P), NEW F \in found, F \in Findings, Solid(F),
           NEW g \in P, Overlap(g, F)
    PROVE  /\ Sliceable(g)
           /\ \A h \in P :
                Overlap(h, F) /\ Overlap(g, h) =>
                  /\ g.category = h.category
                       => \E o \in found : o \in Findings /\ Origin(g, o) /\ Origin(h, o)
                  /\ g.category # h.category
                       => Priority[g.category] # Priority[h.category]
<1>1. g \in Findings
  BY DEF Originate
<1>2. PICK o \in found : o \in Findings /\ Origin(g, o)
  BY DEF Originate
<1>3. Overlap(F, o)
  BY <1>1, <1>2, FindingFields DEF Origin, Overlap
<1>4. ~Droppable(o) /\ ~Tied(o)
  BY <1>2, <1>3 DEF Solid
<1>5. Sliceable(g)
  BY <1>2, <1>4 DEF Droppable, Origin
<1>6. ASSUME NEW h \in P, Overlap(h, F), Overlap(g, h)
      PROVE  /\ g.category = h.category
                  => \E r \in found : r \in Findings /\ Origin(g, r) /\ Origin(h, r)
             /\ g.category # h.category
                  => Priority[g.category] # Priority[h.category]
  <2>1. h \in Findings
    BY DEF Originate
  <2>2. PICK r \in found : r \in Findings /\ Origin(h, r)
    BY DEF Originate
  <2>3. Overlap(o, r) /\ Overlap(r, o)
    BY <1>1, <1>2, <1>6, <2>1, <2>2, FindingFields DEF Origin, Overlap
  <2>4. ASSUME g.category = h.category PROVE r = o
    <3>1. r.category = o.category
      BY <1>2, <2>2, <2>4 DEF Origin
    <3> QED
      BY <1>4, <2>2, <2>3, <3>1 DEF Droppable, Rivals
  <2>5. ASSUME g.category # h.category PROVE Priority[g.category] # Priority[h.category]
    BY <1>2, <1>4, <2>2, <2>3, <2>5 DEF Tied, Origin
  <2> QED
    BY <1>2, <2>2, <2>4, <2>5
<1> QED
  BY <1>5, <1>6

\* a is accepted and starts where the sweep is; b, the candidate, does not start
\* before.  Nothing else reaches over that place, if b starts behind it.
Contest(P, s, a, b) ==
    /\ a \in P /\ b \in P /\ Overlap(a, b)
    /\ s \in Nat /\ a.from = s /\ b.from >= s
    /\ b.from > s => \A h \in P : h.from <= s /\ s < h.to => h = a

\* Who wins it.
Decided(a, b, loser, winner) ==
    \/ loser = a /\ winner = b /\ CandidateWins(b, a)
    \/ loser = b /\ winner = a /\ ~CandidateWins(b, a)

\* Of two pieces of one finding the longer wins, and the accepted one if none is.
LEMMA LongerOfOneWins ==
    ASSUME NEW a \in Findings, NEW b \in Findings, NEW l, NEW w, Decided(a, b, l, w),
           Sliceable(a), Sliceable(b), a.category = b.category, a.localeScoped = b.localeScoped
    PROVE  /\ l.to - l.from <= w.to - w.from
           /\ CandidateWins(b, a) => l.to - l.from < w.to - w.from
<1>1. CandidateWins(b, a) <=> b.length > a.length
  BY FindingFields DEF CandidateWins
<1>2. a.length = a.to - a.from /\ b.length = b.to - b.from
  BY DEF Sliceable
<1>3. a.length \in Nat /\ b.length \in Nat
  BY FindingFields
<1>4. CASE l = a /\ w = b /\ CandidateWins(b, a)
  BY <1>1, <1>2, <1>3, <1>4
<1>5. CASE l = b /\ w = a /\ ~CandidateWins(b, a)
  BY <1>1, <1>2, <1>3, <1>5
<1> QED
  BY <1>4, <1>5 DEF Decided

\* No winner's category is weaker than its loser's.
LEMMA WinnerAsStrong ==
    ASSUME NEW a \in Findings, NEW b \in Findings, NEW l, NEW w, Decided(a, b, l, w)
    PROVE  /\ l \in Findings /\ w \in Findings
           /\ Priority[w.category] <= Priority[l.category]
           /\ Priority[w.category] \in Nat /\ Priority[l.category] \in Nat
<1>1. l \in Findings /\ w \in Findings
  BY DEF Decided
<1>2. Priority[w.category] \in Nat /\ Priority[l.category] \in Nat
  BY <1>1, FindingFields, CollisionAssumption
<1>3. Priority[w.category] <= Priority[l.category]
  BY WinnerIsStronger DEF Decided
<1> QED
  BY <1>1, <1>2, <1>3

\* Every character between s and a piece is under a stronger piece of G.
Guarded(G, s, g) ==
    \A p \in Gap(s, g) : \E h \in G : p \in Positions(h) /\ Priority[h.category] < Priority[g.category]

\* Two guarded pieces of one finding, one accepted and one the candidate: the one that
\* started first starts with a blank, and so is the whole finding.
LEMMA GuardedIsInside ==
    ASSUME NEW P, Originate(P), NEW s, NEW a, NEW b, Contest(P, s, a, b),
           NEW o, o \in Findings, Origin(a, o), Origin(b, o),
           NEW G \in SUBSET P, Guarded(G, s, b), b.from > s
    PROVE  b.to <= a.to
<1>1. a \in Findings /\ b \in Findings
  BY DEF Originate, Contest
<1>2. s \in Blanks
  <2>1. SUFFICES ASSUME s \notin Blanks PROVE FALSE
    OBVIOUS
  <2>2. s \in Gap(s, b)
    BY <1>1, <2>1, FindingFields DEF Gap, Contest
  <2>3. PICK h \in G : s \in Positions(h) /\ Priority[h.category] < Priority[b.category]
    BY <2>2 DEF Guarded
  <2>4. h \in Findings /\ h \in P
    BY DEF Originate
  <2>5. h.from <= s /\ s < h.to
    BY <2>3, <2>4, FindingFields DEF Positions
  <2>6. h = a
    BY <2>4, <2>5 DEF Contest
  <2>7. h.category = b.category
    BY <2>6 DEF Origin
  <2>8. Priority[b.category] \in Nat
    BY <1>1, FindingFields, CollisionAssumption
  <2> QED
    BY <2>3, <2>7, <2>8
<1>3. a = o
  BY <1>2 DEF Origin, Contest
<1> QED
  BY <1>3 DEF Origin

\* Another piece of its category that a piece meets.
Sibling(P, g) == \E v \in P \ {g} : v.category = g.category /\ Overlap(v, g)

\* G holds the pieces of F that end behind s, and guards those with siblings.
Safe(P, F, s, G) ==
    /\ F.from <= s
    /\ G \subseteq P
    /\ \A g \in G : Overlap(g, F) /\ (Sibling(P, g) => Guarded(G, s, g))
    /\ \A g \in P : g.category = F.category /\ Overlap(g, F) /\ g.to > s => g \in G

\* What a turn of the loop does where F is solid.
Fight(P, P2, F, s, a, b, l, w) ==
    /\ Originate(P)
    /\ F \in found /\ F \in Findings /\ Solid(F)
    /\ Contest(P, s, a, b) /\ Decided(a, b, l, w) /\ Narrowed(P, P2, l, w)

\* Who fights, where, and what becomes of the winner.
LEMMA FightFacts ==
    ASSUME NEW P, NEW P2, NEW F, NEW s, NEW a, NEW b, NEW l, NEW w,
           Fight(P, P2, F, s, a, b, l, w)
    PROVE  /\ a \in P /\ b \in P /\ l \in P /\ w \in P /\ w \in P2
           /\ a \in Findings /\ b \in Findings /\ l \in Findings /\ w \in Findings
           /\ Overlap(l, w) /\ Overlap(w, l) /\ Overlap(a, b) /\ Overlap(b, a)
           /\ s \in Nat /\ a.from = s /\ s <= b.from /\ s <= l.from /\ s <= w.from
           /\ \/ l = a /\ w = b /\ CandidateWins(b, a)
              \/ l = b /\ w = a /\ ~CandidateWins(b, a)
           /\ Priority[w.category] <= Priority[l.category]
           /\ Priority[w.category] \in Nat /\ Priority[l.category] \in Nat
<1>1. a \in P /\ b \in P /\ a \in Findings /\ b \in Findings
  BY DEF Fight, Contest, Originate
<1>2. s \in Nat /\ a.from = s /\ s <= b.from /\ Overlap(a, b)
  BY DEF Fight, Contest
<1>3. Overlap(b, a)
  BY <1>2 DEF Overlap
<1>4. \/ l = a /\ w = b /\ CandidateWins(b, a)
      \/ l = b /\ w = a /\ ~CandidateWins(b, a)
  BY DEF Fight, Decided
<1>5. /\ Priority[w.category] <= Priority[l.category]
      /\ Priority[w.category] \in Nat /\ Priority[l.category] \in Nat
  BY <1>1, WinnerAsStrong DEF Fight
<1>6. w \in P2
  BY DEF Fight, Narrowed
<1>7. s <= l.from /\ s <= w.from
  BY <1>1, <1>2, <1>4, FindingFields
<1> QED
  BY <1>1, <1>2, <1>3, <1>4, <1>5, <1>6, <1>7

\* Near a solid finding a winner of another category is stronger.
LEMMA StrictlyStronger ==
    ASSUME NEW P, NEW P2, NEW F, NEW s, NEW a, NEW b, NEW l, NEW w,
           Fight(P, P2, F, s, a, b, l, w), Overlap(l, F), Overlap(w, F),
           l.category # w.category
    PROVE  Priority[w.category] < Priority[l.category]
<1>1. /\ l \in P /\ w \in P /\ Overlap(l, w) /\ Priority[w.category] <= Priority[l.category]
      /\ Priority[w.category] \in Nat /\ Priority[l.category] \in Nat
  BY FightFacts
<1>2. Priority[l.category] # Priority[w.category]
  BY <1>1, NearSolid DEF Fight
<1> QED
  BY <1>1, <1>2

\* What is left of a loser is guarded by the winner.
LEMMA GuardedByWinner ==
    ASSUME NEW P, NEW P2, NEW F, NEW s, NEW a, NEW b, NEW l, NEW w,
           Fight(P, P2, F, s, a, b, l, w), F.from <= w.from,
           NEW y \in Findings, y.category = l.category, l.category # w.category,
           l.from <= y.from, y.to <= l.to, Overlap(y, F),
           Gap(w.from, y) \subseteq Positions(w),
           NEW G, Overlap(w, F) => w \in G
    PROVE  Guarded(G, w.from, y)
<1> SUFFICES ASSUME NEW p \in Gap(w.from, y)
             PROVE  \E h \in G : p \in Positions(h) /\ Priority[h.category] < Priority[y.category]
  BY DEF Guarded
<1>1. l \in Findings /\ w \in Findings /\ F \in Findings
  BY FightFacts DEF Fight
<1>2. p \in Positions(w)
  OBVIOUS
<1>3. Overlap(w, F) /\ Overlap(l, F)
  <2>1. /\ w.from \in Nat /\ y.from \in Nat /\ y.to \in Nat /\ F.from \in Nat /\ F.to \in Nat
        /\ w.to \in Nat /\ l.from \in Nat /\ l.to \in Nat
    BY <1>1, FindingFields
  <2>2. p \in Int /\ w.from <= p /\ p < y.from
    BY <2>1 DEF Gap
  <2>3. y.from < F.to /\ F.from < y.to
    BY DEF Overlap
  <2>4. p < w.to
    BY <1>2, <2>1 DEF Positions
  <2> QED
    BY <2>1, <2>2, <2>3, <2>4 DEF Overlap
<1>4. Priority[w.category] < Priority[l.category]
  BY <1>3, StrictlyStronger
<1> QED
  BY <1>2, <1>3, <1>4

\* The characters of F that the loser takes with it the winner has, or a part of the
\* loser, but where both are left of one finding and the winner ends before.
LEMMA LostIsFound ==
    ASSUME NEW P, NEW P2, NEW F, NEW s, NEW a, NEW b, NEW l, NEW w,
           Fight(P, P2, F, s, a, b, l, w), Overlap(l, F),
           NEW p \in Positions(l), w.from <= p
    PROVE  \/ p \in Positions(w)
           \/ \E x \in ToSet(Subtract(l, w)) : p \in Positions(x) /\ x.category = l.category
           \/ l.category = w.category /\ w.to <= p
<1>1. l \in Findings /\ w \in Findings
  BY FightFacts
<1>2. Sliceable(l)
  BY FightFacts, NearSolid DEF Fight
<1>3. CASE l.category # w.category
  BY <1>1, <1>2, <1>3, SubtractCovers
<1>4. CASE l.category = w.category /\ p < w.to
  <2>1. p \in Positions(w)
    BY <1>1, <1>4, FindingFields DEF Positions
  <2> QED
    BY <2>1
<1>5. p \in Int /\ w.to \in Int
  BY <1>1, FindingFields DEF Positions
<1> QED
  BY <1>3, <1>4, <1>5

\* A guarded loser does not reach over the end of a winner left of the same finding.
LEMMA NotBeyond ==
    ASSUME NEW P, NEW P2, NEW F, NEW s, NEW a, NEW b, NEW l, NEW w,
           Fight(P, P2, F, s, a, b, l, w), Overlap(l, F), Overlap(w, F),
           l.category = w.category,
           NEW G \in SUBSET P, w = a /\ b.from > s => Guarded(G, s, b)
    PROVE  l.to <= w.to
<1>1. /\ a \in P /\ b \in P /\ l \in P /\ w \in P
      /\ a \in Findings /\ b \in Findings
      /\ Overlap(l, w) /\ Overlap(a, b)
      /\ s \in Nat /\ a.from = s /\ s <= b.from
      /\ \/ l = a /\ w = b /\ CandidateWins(b, a)
         \/ l = b /\ w = a /\ ~CandidateWins(b, a)
  BY FightFacts
<1>2. PICK o \in found : o \in Findings /\ Origin(l, o) /\ Origin(w, o)
  BY <1>1, NearSolid DEF Fight
<1>3. Origin(a, o) /\ Origin(b, o)
  BY <1>1, <1>2
<1>4. Sliceable(a) /\ Sliceable(b)
  BY <1>1, NearSolid DEF Fight
<1>5. a.category = b.category /\ a.localeScoped = b.localeScoped
  BY <1>3 DEF Origin
<1>6. /\ l.to - l.from <= w.to - w.from
      /\ CandidateWins(b, a) => l.to - l.from < w.to - w.from
  BY <1>1, <1>4, <1>5, LongerOfOneWins DEF Fight
<1>7. a.to \in Nat /\ b.to \in Nat /\ a.from \in Nat /\ b.from \in Nat
  BY <1>1, FindingFields
<1>8. CASE l = a /\ w = b /\ CandidateWins(b, a)
  BY <1>1, <1>6, <1>7, <1>8
<1>9. CASE l = b /\ w = a /\ ~CandidateWins(b, a)
  <2>1. CASE b.from = s
    BY <1>1, <1>6, <1>7, <1>9, <2>1
  <2>2. CASE b.from # s
    <3>1. b.from > s
      BY <1>1, <1>7, <2>2
    <3>2. Guarded(G, s, b)
      BY <1>9, <3>1
    <3>3. b.to <= a.to
      BY <1>2, <1>3, <3>1, <3>2, GuardedIsInside DEF Fight
    <3> QED
      BY <1>9, <3>3
  <2> QED
    BY <2>1, <2>2
<1> QED
  BY <1>1, <1>8, <1>9

\* The pieces that guard F after a fight: those that did, and the new ones.
After(P2, F, G, l, w) ==
    {g \in P2 : g \in G \/ (Overlap(g, F) /\ (g = w \/ g \in ToSet(Subtract(l, w))))}

\* The gap of a piece only shrinks as the sweep goes on.
LEMMA GapShrinks ==
    ASSUME NEW s \in Nat, NEW t \in Nat, s <= t, NEW g, g.from \in Nat
    PROVE  Gap(t, g) \subseteq Gap(s, g)
BY DEF Gap

\* A fight leaves a solid finding safe.
LEMMA SafeKept ==
    ASSUME NEW P, NEW P2, NEW F, NEW s, NEW a, NEW b, NEW l, NEW w,
           Fight(P, P2, F, s, a, b, l, w), NEW G, Safe(P, F, s, G)
    PROVE  Safe(P2, F, w.from, After(P2, F, G, l, w))
<1> DEFINE G2 == After(P2, F, G, l, w)
           parts == ToSet(Subtract(l, w))
<1>1. /\ a \in P /\ b \in P /\ l \in P /\ w \in P /\ w \in P2
      /\ a \in Findings /\ b \in Findings /\ l \in Findings /\ w \in Findings
      /\ Overlap(l, w) /\ Overlap(w, l) /\ Overlap(a, b) /\ Overlap(b, a)
      /\ s \in Nat /\ a.from = s /\ s <= b.from /\ s <= l.from /\ s <= w.from
      /\ \/ l = a /\ w = b /\ CandidateWins(b, a)
         \/ l = b /\ w = a /\ ~CandidateWins(b, a)
      /\ Priority[w.category] <= Priority[l.category]
      /\ Priority[w.category] \in Nat /\ Priority[l.category] \in Nat
  BY FightFacts
<1>2. /\ w.from \in Nat /\ w.to \in Nat /\ l.from \in Nat /\ l.to \in Nat
      /\ F.from \in Nat /\ F.to \in Nat /\ w.from < w.to /\ l.from < l.to /\ F.from < F.to
      /\ F \in Findings
  BY <1>1, FindingFields DEF Fight
<1>3. F.from <= s /\ F.from <= w.from /\ G \subseteq P
  BY <1>1, <1>2 DEF Safe
<1>4. P \subseteq Findings /\ P2 \subseteq Findings
  <2>1. Originate(P2)
    BY <1>1, NarrowedOriginate DEF Fight
  <2> QED
    BY <2>1 DEF Fight, Originate
<1>5. /\ \A x \in parts : x \in P2
      /\ \A g \in P : g \in P2 \/ g = l
      /\ \A g \in P2 : g \in P \/ g \in parts
  BY DEF Fight, Narrowed
<1>6. \A x \in parts : /\ l.category # w.category /\ x \in Findings
                       /\ x.category = l.category
                       /\ l.from <= x.from /\ x.to <= l.to
                       /\ Gap(w.from, x) \subseteq Positions(w)
  BY <1>1, SubtractShape
<1>7. ASSUME NEW g \in G PROVE Overlap(g, F) /\ (Sibling(P, g) => Guarded(G, s, g))
  BY DEF Safe
<1>8. ASSUME NEW g \in G2, Sibling(P2, g) PROVE Guarded(G2, w.from, g)
  <2>1. g \in P2 /\ g \in Findings /\ Overlap(g, F)
    BY <1>4, <1>7 DEF After
  <2>2. CASE g = w
    BY <1>2, <2>2 DEF Guarded, Gap
  <2>3. Overlap(w, F) => w \in G2
    BY <1>1 DEF After
  <2>4. CASE g \in parts
    BY <1>3, <1>6, <2>1, <2>3, <2>4, GuardedByWinner
  <2>5. CASE g \notin parts /\ g # w
    <3>1. g \in G /\ g \in P
      BY <1>3, <2>5 DEF After
    <3>2. PICK v \in P2 : v # g /\ v.category = g.category /\ Overlap(v, g)
      BY <1>8 DEF Sibling
    <3>3. CASE v \in parts /\ g = l
      <4>1. Gap(w.from, l) \subseteq Positions(w)
        BY <1>1, <1>2 DEF Gap, Positions, Overlap
      <4>2. l.category # w.category
        BY <1>6, <3>3
      <4>3. l.from <= l.from /\ l.to <= l.to
        BY <1>2
      <4> QED
        BY <1>1, <1>3, <2>1, <2>3, <3>3, <4>1, <4>2, <4>3, GuardedByWinner
    <3>4. CASE ~(v \in parts /\ g = l)
      <4>1. Sibling(P, g)
        <5>1. CASE v \in P
          BY <3>2, <5>1 DEF Sibling
        <5>2. CASE v \in parts
          <6>1. g # l /\ l.category = g.category
            BY <1>6, <3>2, <3>4, <5>2
          <6>2. Overlap(l, g)
            <7>1. v \in Findings /\ l.from <= v.from /\ v.to <= l.to /\ Overlap(v, g)
              BY <1>6, <3>2, <5>2
            <7> QED
              BY <1>2, <2>1, <7>1, FindingFields DEF Overlap
          <6> QED
            BY <1>1, <6>1, <6>2 DEF Sibling
        <5> QED
          BY <1>5, <3>2, <5>1, <5>2
      <4>2. Guarded(G, s, g)
        BY <1>7, <3>1, <4>1
      <4>3. SUFFICES ASSUME NEW p \in Gap(w.from, g)
                     PROVE  \E h \in G2 : p \in Positions(h)
                                          /\ Priority[h.category] < Priority[g.category]
        BY DEF Guarded
      <4>4. p \in Nat /\ w.from <= p /\ p < g.from /\ p \notin Blanks
        BY <1>2, <2>1, FindingFields DEF Gap
      <4>5. PICK h \in G : p \in Positions(h) /\ Priority[h.category] < Priority[g.category]
        <5>1. p \in Gap(s, g)
          BY <1>1, <1>2, <2>1, FindingFields, GapShrinks
        <5> QED
          BY <4>2, <5>1 DEF Guarded
      <4>6. CASE h \in P2
        BY <4>5, <4>6 DEF After
      <4>7. CASE h \notin P2
        <5>1. h = l
          BY <1>3, <1>5, <4>7
        <5>2. Overlap(l, F)
          BY <1>7, <5>1
        <5>3. F.from <= p /\ p < F.to
          <6>1. g.from \in Nat /\ g.from < F.to
            BY <2>1, FindingFields DEF Overlap
          <6> QED
            BY <1>2, <1>3, <4>4, <6>1
        <5>4. \A x \in Findings : p \in Positions(x) => Overlap(x, F)
          BY <1>2, <4>4, <5>3, FindingFields DEF Positions, Overlap
        <5>5. Priority[g.category] \in Nat
          BY <2>1, FindingFields, CollisionAssumption
        <5>6. \/ p \in Positions(w)
              \/ \E x \in parts : p \in Positions(x) /\ x.category = l.category
              \/ l.category = w.category /\ w.to <= p
          BY <4>4, <4>5, <5>1, <5>2, LostIsFound
        <5>7. CASE p \in Positions(w)
          <6>1. w \in G2
            BY <1>1, <2>3, <5>4, <5>7
          <6>2. Priority[w.category] < Priority[g.category]
            BY <1>1, <4>5, <5>1, <5>5
          <6> QED
            BY <5>7, <6>1, <6>2
        <5>8. CASE \E x \in parts : p \in Positions(x) /\ x.category = l.category
          <6>1. PICK x \in parts : p \in Positions(x) /\ x.category = l.category
            BY <5>8
          <6>2. x \in G2
            BY <1>5, <1>6, <5>4, <6>1 DEF After
          <6> QED
            BY <4>5, <5>1, <6>1, <6>2
        <5>9. CASE l.category = w.category /\ w.to <= p
          <6>1. Overlap(w, F)
            BY <1>2, <1>3, <4>4, <5>3 DEF Overlap
          <6>2. w = a /\ b.from > s => Guarded(G, s, b)
            <7>1. SUFFICES ASSUME w = a, b.from > s PROVE Guarded(G, s, b)
              OBVIOUS
            <7>2. l = b \/ a = b
              BY <1>1, <7>1
            <7>3. l = b /\ a # b
              BY <1>1, <7>1, <7>2
            <7>4. Sibling(P, b)
              BY <1>1, <5>9, <7>1, <7>3 DEF Sibling
            <7> QED
              BY <1>7, <5>1, <7>3, <7>4
          <6>3. l.to <= w.to
            BY <1>3, <5>2, <5>9, <6>1, <6>2, NotBeyond
          <6>4. p < l.to
            BY <1>2, <4>4, <4>5, <5>1 DEF Positions
          <6> QED
            BY <1>2, <4>4, <5>9, <6>3, <6>4
        <5> QED
          BY <5>6, <5>7, <5>8, <5>9
      <4> QED
        BY <4>6, <4>7
    <3> QED
      BY <3>3, <3>4
  <2> QED
    BY <2>2, <2>4, <2>5
<1>9. ASSUME NEW g \in P2, g.category = F.category, Overlap(g, F), g.to > w.from
      PROVE  g \in G2
  <2>1. CASE g \in P
    <3>1. g.to > s
      BY <1>1, <1>2, <1>4, <1>9, <2>1, FindingFields
    <3>2. g \in G
      BY <1>9, <2>1, <3>1 DEF Safe
    <3> QED
      BY <3>2 DEF After
  <2>2. CASE g \in parts
    BY <1>9, <2>2 DEF After
  <2> QED
    BY <1>5, <2>1, <2>2
<1>10. G2 \subseteq P2 /\ \A g \in G2 : Overlap(g, F)
  BY <1>7 DEF After
<1> QED
  BY <1>3, <1>8, <1>9, <1>10 DEF Safe

\* A piece of F that meets another of F is inside it, or starts with it: the loser's
\* characters are the winner's.
LEMMA LoserIsInside ==
    ASSUME NEW P, NEW P2, NEW F, NEW s, NEW a, NEW b, NEW l, NEW w,
           Fight(P, P2, F, s, a, b, l, w), NEW G, Safe(P, F, s, G),
           l.category = F.category, Overlap(l, F),
           w.category = F.category, Overlap(w, F)
    PROVE  Positions(l) \subseteq Positions(w)
<1>1. /\ a \in P /\ b \in P /\ l \in P /\ w \in P
      /\ a \in Findings /\ b \in Findings /\ l \in Findings /\ w \in Findings
      /\ Overlap(l, w) /\ Overlap(w, l) /\ Overlap(a, b) /\ Overlap(b, a)
      /\ s \in Nat /\ a.from = s /\ s <= b.from
      /\ \/ l = a /\ w = b /\ CandidateWins(b, a)
         \/ l = b /\ w = a /\ ~CandidateWins(b, a)
  BY FightFacts
<1>2. /\ a.to \in Nat /\ b.to \in Nat /\ b.from \in Nat /\ a.from \in Nat
      /\ b.from < b.to
  BY <1>1, FindingFields
<1>3. ASSUME b.from > s PROVE Guarded(G, s, b)
  <2>1. a # b
    BY <1>1, <1>3
  <2>2. Sibling(P, b)
    BY <1>1, <2>1 DEF Sibling
  <2>3. b \in G
    BY <1>1, <1>2, <1>3 DEF Safe
  <2> QED
    BY <2>2, <2>3 DEF Safe
<1>4. G \subseteq P
  BY DEF Safe
<1>5. l.to <= w.to
  BY <1>3, <1>4, NotBeyond
<1>6. w.from <= l.from
  <2>1. CASE b.from > s
    <3>1. PICK o \in found : o \in Findings /\ Origin(l, o) /\ Origin(w, o)
      BY <1>1, NearSolid DEF Fight
    <3>2. Origin(a, o) /\ Origin(b, o)
      BY <1>1, <3>1
    <3>3. b.to <= a.to
      BY <1>3, <1>4, <2>1, <3>1, <3>2, GuardedIsInside DEF Fight
    <3>4. Sliceable(a) /\ Sliceable(b) /\ a.category = b.category
          /\ a.localeScoped = b.localeScoped
      <4>1. Sliceable(l) /\ Sliceable(w)
        BY <1>1, NearSolid DEF Fight
      <4> QED
        BY <1>1, <3>2, <4>1 DEF Origin
    <3>5. CandidateWins(b, a) => l.to - l.from < w.to - w.from
      BY <1>1, <3>4, LongerOfOneWins DEF Fight
    <3> QED
      BY <1>1, <1>2, <2>1, <3>3, <3>5
  <2>2. CASE ~(b.from > s)
    BY <1>1, <1>2, <2>2
  <2> QED
    BY <2>1, <2>2
<1> QED
  BY <1>1, <1>5, <1>6, FindingFields DEF Positions

----------------------------------------------------------------------------
(* Before the sweep is at F *)

\* F is whole, if it is there.
Untouched(P, F) == \A g \in P : g.category = F.category /\ Overlap(g, F) => g = F

\* Or it has lost to a stronger one, which starts where the sweep is: what is left of F
\* has lost no character to others.
Ahead(P, Q, A, F, s) ==
    /\ \A x \in Q : x.from >= F.from
    /\ \E v \in A :
         /\ v.from = s /\ v.to > F.from
         /\ Priority[v.category] < Priority[F.category]
         /\ \A g \in P : g.category = F.category /\ Overlap(g, F)
              => \A p \in F.from..(g.from - 1) : p \notin Blanks => p < v.to

Followed(P, Q, A, F, s) ==
    \/ s < F.from /\ (Untouched(P, F) \/ Ahead(P, Q, A, F, s))
    \/ \E G \in SUBSET P : Safe(P, F, s, G)

\* A whole finding is safe.
LEMMA UntouchedIsSafe ==
    ASSUME NEW P, NEW F \in Findings, NEW s, Untouched(P, F), F.from <= s
    PROVE  \E G \in SUBSET P : Safe(P, F, s, G)
<1> DEFINE G == {g \in P : g = F}
<1>1. Overlap(F, F)
  BY FindingFields DEF Overlap
<1>2. ASSUME NEW g \in G PROVE Overlap(g, F) /\ ~Sibling(P, g)
  BY <1>1, <1>2 DEF Sibling, Untouched
<1>3. \A g \in P : g.category = F.category /\ Overlap(g, F) /\ g.to > s => g \in G
  BY DEF Untouched
<1> QED
  BY <1>2, <1>3 DEF Safe

\* The sweep goes on.
LEMMA SafeOn ==
    ASSUME NEW P, Originate(P), NEW F \in Findings, NEW s \in Nat, NEW t \in Nat, s <= t,
           NEW G, Safe(P, F, s, G)
    PROVE  Safe(P, F, t, G)
<1>1. F.from <= t
  BY FindingFields DEF Safe
<1>2. G \subseteq P /\ P \subseteq Findings
  BY DEF Safe, Originate
<1>3. ASSUME NEW g \in G PROVE Overlap(g, F) /\ (Sibling(P, g) => Guarded(G, t, g))
  <2>1. g.from \in Nat
    BY <1>2, FindingFields
  <2>2. Gap(t, g) \subseteq Gap(s, g)
    BY <2>1, GapShrinks
  <2> QED
    BY <2>2 DEF Safe, Guarded
<1>4. ASSUME NEW g \in P, g.category = F.category, Overlap(g, F), g.to > t PROVE g \in G
  <2>1. g.to > s
    BY <1>2, <1>4, FindingFields
  <2> QED
    BY <1>4, <2>1 DEF Safe
<1> QED
  BY <1>1, <1>2, <1>3, <1>4 DEF Safe

\* Accepting a candidate.
LEMMA FollowedAccept ==
    ASSUME NEW P, Originate(P), NEW F \in Findings, NEW s \in Nat, NEW t \in Nat, s <= t,
           NEW Q, NEW A, NEW Q2, NEW A2, NEW c \in Q, c \in Findings, A \subseteq P,
           \A v \in A : ~Overlap(v, c),
           c.from >= s => t = c.from,
           Followed(P, Q, A, F, s)
    PROVE  Followed(P, Q2, A2, F, t)
<1>1. F.from \in Nat /\ c.from \in Nat /\ c.to \in Nat /\ c.from < c.to
  BY FindingFields
<1>2. CASE Untouched(P, F)
  <2>1. CASE t < F.from
    BY <1>2, <2>1 DEF Followed
  <2>2. CASE ~(t < F.from)
    <3>1. F.from <= t
      BY <1>1, <2>2
    <3>2. \E G \in SUBSET P : Safe(P, F, t, G)
      BY <1>2, <3>1, UntouchedIsSafe
    <3> QED
      BY <3>2 DEF Followed
  <2> QED
    BY <2>1, <2>2
<1>3. CASE \E G \in SUBSET P : Safe(P, F, s, G)
  BY <1>3, SafeOn DEF Followed
<1>4. CASE s < F.from /\ Ahead(P, Q, A, F, s)
  <2>1. c.from >= F.from /\ t = c.from
    BY <1>1, <1>4 DEF Ahead
  <2>2. PICK v \in A : /\ v.from = s /\ v.to > F.from
                       /\ \A g \in P : g.category = F.category /\ Overlap(g, F)
                            => \A p \in F.from..(g.from - 1) : p \notin Blanks => p < v.to
    BY <1>4 DEF Ahead
  <2>3. v \in Findings
    BY DEF Originate
  <2>4. v.to <= c.from
    BY <1>1, <1>4, <2>1, <2>2, <2>3, FindingFields DEF Overlap
  <2> DEFINE G == {g \in P : g.category = F.category /\ Overlap(g, F) /\ g.to > t}
  <2>5. ASSUME NEW g \in G PROVE Guarded(G, t, g)
    <3>1. Gap(t, g) = {}
      <4>1. g.from \in Nat
        BY FindingFields DEF Originate
      <4>2. \A p \in F.from..(g.from - 1) : p \notin Blanks => p < v.to
        BY <2>2
      <4> QED
        BY <1>1, <2>1, <2>3, <2>4, <4>1, <4>2, FindingFields DEF Gap
    <3> QED
      BY <3>1 DEF Guarded
  <2>6. Safe(P, F, t, G)
    BY <2>1, <2>5 DEF Safe
  <2> QED
    BY <2>6 DEF Followed
<1> QED
  BY <1>2, <1>3, <1>4 DEF Followed

\* A fight, where F is whole.
LEMMA UntouchedFight ==
    ASSUME NEW P, NEW P2, NEW F, NEW s, NEW a, NEW b, NEW l, NEW w,
           Fight(P, P2, F, s, a, b, l, w), s < F.from, Untouched(P, F),
           NEW Q, NEW Q2, NEW A2, b \in Q, \A x \in Q : x.from >= b.from,
           ~CandidateWins(b, a)
             => a \in A2 /\ \A x \in Q2 : x \in Q \/ x \in ToSet(Subtract(l, w))
    PROVE  Untouched(P2, F) \/ (w.from = s /\ Ahead(P2, Q2, A2, F, s))
<1> DEFINE parts == ToSet(Subtract(l, w))
<1>1. /\ a \in P /\ b \in P /\ l \in P /\ w \in P /\ w \in P2
      /\ a \in Findings /\ b \in Findings /\ l \in Findings /\ w \in Findings
      /\ Overlap(l, w) /\ Overlap(w, l) /\ Overlap(a, b) /\ Overlap(b, a)
      /\ s \in Nat /\ a.from = s /\ s <= b.from /\ s <= l.from /\ s <= w.from
      /\ \/ l = a /\ w = b /\ CandidateWins(b, a)
         \/ l = b /\ w = a /\ ~CandidateWins(b, a)
  BY FightFacts
<1>2. /\ w.from \in Nat /\ w.to \in Nat /\ l.from \in Nat /\ l.to \in Nat
      /\ F.from \in Nat /\ F.to \in Nat /\ w.from < w.to /\ l.from < l.to /\ F.from < F.to
      /\ F \in Findings
  BY <1>1, FindingFields DEF Fight
<1>3. \A g \in P2 : g \in P \/ g \in parts
  BY DEF Fight, Narrowed
<1>4. \A x \in parts : /\ l.category # w.category /\ x \in Findings
                       /\ x.category = l.category
                       /\ l.from <= x.from /\ x.to <= l.to
                       /\ Gap(w.from, x) \subseteq Positions(w)
  BY <1>1, SubtractShape
<1>5. Overlap(F, F)
  BY <1>2 DEF Overlap
<1>6. CASE l # F
  <2>1. SUFFICES ASSUME NEW g \in P2, g.category = F.category, Overlap(g, F) PROVE g = F
    BY DEF Untouched
  <2>2. CASE g \in P
    BY <2>1, <2>2 DEF Untouched
  <2>3. CASE g \in parts
    <3>1. g \in Findings /\ l.category = F.category /\ l.from <= g.from /\ g.to <= l.to
      BY <1>4, <2>1, <2>3
    <3>2. Overlap(l, F)
      BY <1>2, <2>1, <3>1, FindingFields DEF Overlap
    <3> QED
      BY <1>1, <1>6, <3>1, <3>2 DEF Untouched
  <2> QED
    BY <1>3, <2>2, <2>3
<1>7. CASE l = F
  <2>1. l = b /\ w = a /\ w.from = s /\ ~CandidateWins(b, a)
    BY <1>1, <1>2, <1>7
  <2>2. w.to > F.from /\ Overlap(w, F)
    BY <1>1, <1>7 DEF Overlap
  <2>3. Priority[w.category] < Priority[F.category]
    <3>1. w.category # F.category
      <4>1. SUFFICES ASSUME w.category = F.category PROVE FALSE
        OBVIOUS
      <4>2. w = F
        BY <1>1, <2>2, <4>1 DEF Untouched
      <4> QED
        BY <1>2, <2>1, <4>2
    <3> QED
      BY <1>5, <1>7, <2>2, <3>1, StrictlyStronger
  <2>4. \A x \in Q2 : x.from >= F.from
    <3>1. \A x \in Q2 : x \in Q \/ x \in parts
      BY <2>1
    <3> QED
      BY <1>4, <1>7, <2>1, <3>1
  <2>5. ASSUME NEW g \in P2, g.category = F.category, Overlap(g, F),
               NEW p \in F.from..(g.from - 1), p \notin Blanks
        PROVE  p < w.to
    <3>1. CASE g \in P
      <4>1. g = F
        BY <2>5, <3>1 DEF Untouched
      <4> QED
        BY <1>2, <4>1
    <3>2. CASE g \in parts
      <4>1. g \in Findings /\ g.from \in Nat
        BY <1>4, <3>2, FindingFields
      <4>2. p \in Gap(w.from, g)
        BY <1>2, <2>1, <2>5, <4>1 DEF Gap
      <4>3. p \in Positions(w)
        BY <1>4, <3>2, <4>2
      <4> QED
        BY <1>2, <4>3 DEF Positions
    <3> QED
      BY <1>3, <3>1, <3>2
  <2>6. w \in A2
    BY <2>1
  <2>7. Ahead(P2, Q2, A2, F, s)
    BY <2>1, <2>2, <2>3, <2>4, <2>5, <2>6 DEF Ahead
  <2> QED
    BY <2>1, <2>7
<1> QED
  BY <1>6, <1>7

\* A fight, where F lost to what starts at the sweep: if that wins again it is ahead
\* as before.
LEMMA AheadLose ==
    ASSUME NEW P, NEW P2, NEW F, NEW s, NEW a, NEW b, NEW l, NEW w,
           Fight(P, P2, F, s, a, b, l, w), s < F.from,
           NEW Q, NEW A, NEW Q2, NEW A2, Ahead(P, Q, A, F, s),
           b \in Q, \A v \in A : v.from = s => v = a,
           w = a, l = b, a \in A2, \A x \in Q2 : x \in Q \/ x \in ToSet(Subtract(l, w))
    PROVE  Ahead(P2, Q2, A2, F, s)
<1> DEFINE parts == ToSet(Subtract(l, w))
<1>1. /\ l \in Findings /\ w \in Findings /\ Overlap(l, w)
      /\ s \in Nat /\ w.from = s
  BY FightFacts
<1>2. w.from \in Nat /\ w.to \in Nat /\ l.from \in Nat /\ F.from \in Nat /\ l.to \in Nat /\ F.to \in Nat
  BY <1>1, FindingFields DEF Fight
<1>3. \A g \in P2 : g \in P \/ g \in parts
  BY DEF Fight, Narrowed
<1>4. \A x \in parts : /\ l.category # w.category /\ x \in Findings
                       /\ x.category = l.category
                       /\ l.from <= x.from /\ x.to <= l.to
                       /\ Gap(w.from, x) \subseteq Positions(w)
  BY <1>1, SubtractShape
<1>5. /\ w.to > F.from /\ Priority[w.category] < Priority[F.category]
      /\ \A g \in P : g.category = F.category /\ Overlap(g, F)
              => \A p \in F.from..(g.from - 1) : p \notin Blanks => p < w.to
  BY DEF Ahead
<1>6. \A x \in Q2 : x.from >= F.from
  <2>1. l.from >= F.from
    BY DEF Ahead
  <2>2. \A x \in parts : x.from >= F.from
    BY <1>2, <1>4, <2>1, FindingFields
  <2> QED
    BY <2>2 DEF Ahead
<1>7. ASSUME NEW g \in P2, g.category = F.category, Overlap(g, F),
             NEW p \in F.from..(g.from - 1), p \notin Blanks
      PROVE  p < w.to
  <2>1. CASE g \in P
    BY <1>5, <1>7, <2>1
  <2>2. CASE g \in parts
    <3>1. g \in Findings /\ g.from \in Nat
      BY <1>4, <2>2, FindingFields
    <3>2. p \in Gap(w.from, g)
      BY <1>1, <1>2, <1>7, <3>1 DEF Gap
    <3>3. p \in Positions(w)
      BY <1>4, <2>2, <3>2
    <3> QED
      BY <1>2, <3>3 DEF Positions
  <2> QED
    BY <1>3, <2>1, <2>2
<1> QED
  BY <1>1, <1>5, <1>6, <1>7 DEF Ahead

\* If it is displaced the sweep is at F, and what is left of it and of F is guarded.
LEMMA AheadDisplace ==
    ASSUME NEW P, NEW P2, NEW F, NEW s, NEW a, NEW b, NEW l, NEW w,
           Fight(P, P2, F, s, a, b, l, w), s < F.from,
           NEW Q, NEW A, Ahead(P, Q, A, F, s),
           b \in Q, \A v \in A : v.from = s => v = a,
           l = a, w = b, CandidateWins(b, a)
    PROVE  \E G \in SUBSET P2 : Safe(P2, F, w.from, G)
<1> DEFINE parts == ToSet(Subtract(l, w))
           G == {g \in P2 : /\ Overlap(g, F)
                            /\ \/ g = w \/ g \in parts
                               \/ g.category = F.category /\ g.to > w.from}
<1>1. /\ a \in P /\ b \in P /\ l \in P /\ w \in P /\ w \in P2
      /\ l \in Findings /\ w \in Findings /\ Overlap(l, w)
      /\ s \in Nat /\ l.from = s /\ l.from <= w.from
      /\ Priority[w.category] <= Priority[l.category]
      /\ Priority[w.category] \in Nat /\ Priority[l.category] \in Nat
  BY FightFacts
<1>2. /\ w.from \in Nat /\ w.to \in Nat /\ l.from \in Nat /\ F.from \in Nat /\ l.to \in Nat
      /\ F.to \in Nat /\ w.from < w.to /\ F.from < F.to /\ l.from < l.to
      /\ F \in Findings
  BY <1>1, FindingFields DEF Fight
<1>3. /\ \A g \in P2 : g \in P \/ g \in parts
      /\ \A x \in parts : x \in P2
  BY DEF Fight, Narrowed
<1>4. \A x \in parts : /\ l.category # w.category /\ x \in Findings
                       /\ x.category = l.category
                       /\ l.from <= x.from /\ x.to <= l.to
                       /\ Gap(w.from, x) \subseteq Positions(w)
  BY <1>1, SubtractShape
<1>5. /\ w.from >= F.from
      /\ l.to > F.from /\ Priority[l.category] < Priority[F.category]
      /\ \A g \in P : g.category = F.category /\ Overlap(g, F)
              => \A p \in F.from..(g.from - 1) : p \notin Blanks => p < l.to
  BY DEF Ahead
<1>6. Overlap(l, F)
  BY <1>1, <1>2, <1>5 DEF Overlap
<1>7. Overlap(w, F) => w \in G
  BY <1>1
<1>8. Priority[F.category] \in Nat
  BY <1>2, FindingFields, CollisionAssumption
<1>9. ASSUME NEW g \in G PROVE Guarded(G, w.from, g)
  <2>1. CASE g = w
    BY <1>2, <2>1 DEF Guarded, Gap
  <2>2. CASE g \in parts
    BY <1>4, <1>5, <1>7, <2>2, GuardedByWinner
  <2>3. CASE g \notin parts /\ g # w
    <3>1. g \in P /\ g.category = F.category /\ Overlap(g, F) /\ g \in Findings
      BY <1>3, <2>3 DEF Fight, Originate
    <3>2. SUFFICES ASSUME NEW p \in Gap(w.from, g)
                   PROVE  \E h \in G : p \in Positions(h)
                                        /\ Priority[h.category] < Priority[g.category]
      BY DEF Guarded
    <3>3. p \in Nat /\ w.from <= p /\ p < g.from /\ p \notin Blanks /\ g.from \in Nat
      BY <1>2, <3>1, FindingFields DEF Gap
    <3>4. F.from <= p /\ p < F.to
      BY <1>2, <1>5, <3>1, <3>3 DEF Overlap
    <3>5. p < l.to
      <4>1. p \in F.from..(g.from - 1)
        BY <1>2, <3>3, <3>4
      <4> QED
        BY <1>5, <3>1, <3>3, <4>1
    <3>6. p \in Positions(l)
      BY <1>1, <1>2, <3>3, <3>5 DEF Positions
    <3>7. \A x \in Findings : p \in Positions(x) => Overlap(x, F)
      BY <1>2, <3>3, <3>4, FindingFields DEF Positions, Overlap
    <3>8. CASE p \in Positions(w)
      <4>1. Overlap(w, F)
        BY <1>1, <3>7, <3>8
      <4>2. Priority[w.category] < Priority[g.category]
        BY <1>1, <1>5, <1>8, <3>1
      <4> QED
        BY <1>7, <3>8, <4>1, <4>2
    <3>9. CASE \E x \in parts : p \in Positions(x) /\ x.category = l.category
      <4>1. PICK x \in parts : p \in Positions(x) /\ x.category = l.category
        BY <3>9
      <4>2. x \in G
        BY <1>3, <1>4, <3>7, <4>1
      <4> QED
        BY <1>5, <3>1, <4>1, <4>2
    <3>10. CASE l.category = w.category /\ w.to <= p
      <4>1. Overlap(w, F)
        BY <1>2, <1>5, <3>3, <3>4 DEF Overlap
      <4>3. w = a /\ b.from > s => Guarded({}, s, b)
        BY <1>1, <1>2
      <4>4. l.to <= w.to
        BY <1>6, <3>10, <4>1, <4>3, NotBeyond
      <4> QED
        BY <1>2, <3>3, <3>5, <3>10, <4>4
    <3> QED
      BY <1>6, <3>3, <3>6, <3>8, <3>9, <3>10, LostIsFound
  <2> QED
    BY <2>1, <2>2, <2>3
<1>10. Safe(P2, F, w.from, G)
  <2>1. \A g \in P2 : g.category = F.category /\ Overlap(g, F) /\ g.to > w.from => g \in G
    OBVIOUS
  <2> QED
    BY <1>5, <1>9, <2>1 DEF Safe
<1> QED
  BY <1>10

\* What a fight does to the queue Q and the accepted findings A.
FightIn(P, P2, Q, Q2, A, A2, F, s, a, b, l, w) ==
    /\ Fight(P, P2, F, s, a, b, l, w)
    /\ b \in Q /\ (\A x \in Q : x.from >= b.from)
    /\ \A v \in A : v.from = s => v = a
    /\ ~CandidateWins(b, a)
         => a \in A2 /\ \A x \in Q2 : x \in Q \/ x \in ToSet(Subtract(l, w))

\* A fight, anywhere.
LEMMA FollowedFight ==
    ASSUME NEW P, NEW P2, NEW Q, NEW Q2, NEW A, NEW A2,
           NEW F, NEW s, NEW a, NEW b, NEW l, NEW w,
           FightIn(P, P2, Q, Q2, A, A2, F, s, a, b, l, w), Followed(P, Q, A, F, s)
    PROVE  Followed(P2, Q2, A2, F, w.from)
<1> /\ Fight(P, P2, F, s, a, b, l, w)
    /\ b \in Q /\ (\A x \in Q : x.from >= b.from)
    /\ \A v \in A : v.from = s => v = a
    /\ ~CandidateWins(b, a)
         => a \in A2 /\ \A x \in Q2 : x \in Q \/ x \in ToSet(Subtract(l, w))
  BY DEF FightIn
<1>1. /\ w \in Findings /\ w.from \in Nat /\ F.from \in Nat /\ F \in Findings
      /\ \/ l = a /\ w = b /\ CandidateWins(b, a)
         \/ l = b /\ w = a /\ ~CandidateWins(b, a)
      /\ a.from = s
  BY FightFacts, FindingFields DEF Fight
<1>2. CASE \E G \in SUBSET P : Safe(P, F, s, G)
  <2>1. PICK G \in SUBSET P : Safe(P, F, s, G)
    BY <1>2
  <2>2. Safe(P2, F, w.from, After(P2, F, G, l, w))
    BY <2>1, SafeKept
  <2>3. After(P2, F, G, l, w) \in SUBSET P2
    BY DEF After
  <2> QED
    BY <2>2, <2>3 DEF Followed
<1>3. CASE s < F.from /\ Untouched(P, F)
  <2>2. Untouched(P2, F) \/ (w.from = s /\ Ahead(P2, Q2, A2, F, s))
    BY <1>3, UntouchedFight
  <2>3. CASE Untouched(P2, F)
    <3>1. CASE w.from < F.from
      BY <2>3, <3>1 DEF Followed
    <3>2. CASE ~(w.from < F.from)
      <4>1. \E G \in SUBSET P2 : Safe(P2, F, w.from, G)
        BY <1>1, <2>3, <3>2, UntouchedIsSafe
      <4> QED
        BY <4>1 DEF Followed
    <3> QED
      BY <3>1, <3>2
  <2>4. CASE w.from = s /\ Ahead(P2, Q2, A2, F, s)
    BY <1>3, <2>4 DEF Followed
  <2> QED
    BY <2>2, <2>3, <2>4
<1>4. CASE s < F.from /\ Ahead(P, Q, A, F, s)
  <2>1. CASE l = a /\ w = b /\ CandidateWins(b, a)
    <3>1. \E G \in SUBSET P2 : Safe(P2, F, w.from, G)
      BY <1>4, <2>1, AheadDisplace
    <3> QED
      BY <3>1 DEF Followed
  <2>2. CASE l = b /\ w = a /\ ~CandidateWins(b, a)
    <3>1. Ahead(P2, Q2, A2, F, s)
      BY <1>4, <2>2, AheadLose
    <3> QED
      BY <1>1, <1>4, <2>2, <3>1 DEF Followed
  <2> QED
    BY <1>1, <2>1, <2>2
<1> QED
  BY <1>2, <1>3, <1>4 DEF Followed

----------------------------------------------------------------------------
(* The sequences, again: a turn adds nothing else *)

\* insertSorted puts the finding after some, and adds no other.
LEMMA InsertSortedIndex ==
    ASSUME NEW S \in SUBSET Findings, NEW s \in Seq(S), NEW f \in S
    PROVE  \E k \in 1..(Len(s) + 1) :
             /\ IsInserted(InsertSorted(s, f), S, s, k, f)
             /\ \A j \in 1..(k - 1) : s[j].from <= f.from
             /\ k \in 1..Len(s) => s[k].from > f.from
<1>1. s \in Seq(Findings) /\ f \in Findings
  OBVIOUS
<1>2. PICK k \in 1..(Len(s) + 1) :
        /\ InsertSorted(s, f) = InsertAt(s, k, f)
        /\ \A j \in 1..(k - 1) : s[j].from <= f.from
        /\ k \in 1..Len(s) => s[k].from > f.from
  BY <1>1, InsertSortedPlace
<1>3. IsInserted(InsertAt(s, k, f), S, s, k, f)
  BY InsertAtIndex
<1> QED
  BY <1>2, <1>3

\* insertSorted adds one finding.
LEMMA InsertSortedOnly ==
    ASSUME NEW S \in SUBSET Findings, NEW s \in Seq(S), NEW f \in S
    PROVE  ToSet(InsertSorted(s, f)) \subseteq ToSet(s) \union {f}
<1> DEFINE t == InsertSorted(s, f)
<1>1. PICK k \in 1..(Len(s) + 1) : IsInserted(t, S, s, k, f)
  BY InsertSortedIndex
<1> HIDE DEF t
<1>2. /\ t \in Seq(S) /\ Len(t) = Len(s) + 1
      /\ \A j \in 1..(Len(s) + 1) : t[j] = IF j < k THEN s[j] ELSE IF j = k THEN f ELSE s[j - 1]
  BY <1>1 DEF IsInserted
<1>3. DOMAIN t = 1..(Len(s) + 1) /\ DOMAIN s = 1..Len(s)
  BY <1>2
<1>4. ASSUME NEW x \in ToSet(t) PROVE x \in ToSet(s) \union {f}
  <2>1. PICK j \in 1..(Len(s) + 1) : x = t[j]
    BY <1>3, <1>4 DEF ToSet
  <2>2. x = f \/ \E i \in 1..Len(s) : x = s[i]
    <3>1. CASE j < k
      BY <1>2, <2>1, <3>1
    <3>2. CASE j = k
      BY <1>2, <2>1, <3>2
    <3>3. CASE j > k
      <4>1. x = s[j - 1] /\ j - 1 \in 1..Len(s)
        BY <1>2, <2>1, <3>3
      <4> QED
        BY <4>1
    <3> QED
      BY <2>1, <3>1, <3>2, <3>3
  <2> QED
    BY <1>3, <2>2 DEF ToSet
<1> QED
  BY <1>4 DEF t

\* Putting parts back adds those parts.
LEMMA PushAllOnly ==
    ASSUME NEW q \in Seq(Findings), SortedByStart(q),
           NEW parts \in Seq(Findings), Len(parts) \in 0..2
    PROVE  ToSet(PushAll(q, parts)) \subseteq ToSet(q) \union ToSet(parts)
<1>1. DOMAIN parts = 1..Len(parts) /\ \A i \in 1..Len(parts) : parts[i] \in Findings
  OBVIOUS
<1>2. CASE Len(parts) = 0
  BY <1>2 DEF PushAll
<1>3. CASE Len(parts) = 1
  <2>1. parts[1] \in Findings /\ parts[1] \in ToSet(parts)
    BY <1>1, <1>3 DEF ToSet
  <2>2. PushAll(q, parts) = InsertSorted(q, parts[1])
    BY <1>3 DEF PushAll
  <2> QED
    BY <2>1, <2>2, InsertSortedOnly
<1>4. CASE Len(parts) = 2
  <2>1. /\ parts[1] \in Findings /\ parts[1] \in ToSet(parts)
        /\ parts[2] \in Findings /\ parts[2] \in ToSet(parts)
    BY <1>1, <1>4 DEF ToSet
  <2>2. PushAll(q, parts) = InsertSorted(InsertSorted(q, parts[1]), parts[2])
    BY <1>4 DEF PushAll
  <2>3. InsertSorted(q, parts[1]) \in Seq(Findings)
    BY <2>1, InsertSortedKeeps
  <2>4. ToSet(InsertSorted(q, parts[1])) \subseteq ToSet(q) \union {parts[1]}
    BY <2>1, InsertSortedOnly
  <2>5. ToSet(InsertSorted(InsertSorted(q, parts[1]), parts[2]))
          \subseteq ToSet(InsertSorted(q, parts[1])) \union {parts[2]}
    BY <2>1, <2>3, InsertSortedOnly
  <2> QED
    BY <2>1, <2>2, <2>4, <2>5
<1> QED
  BY <1>2, <1>3, <1>4

\* Taking one out leaves those that stand elsewhere.
LEMMA RemoveAtOnly ==
    ASSUME NEW S, NEW s \in Seq(S), NEW i \in 1..Len(s)
    PROVE  \A x \in ToSet(RemoveAt(s, i)) : \E j \in 1..Len(s) : j # i /\ x = s[j]
<1> DEFINE t == RemoveAt(s, i)
<1>1. /\ t \in Seq(S) /\ Len(t) = Len(s) - 1
      /\ \A j \in 1..(Len(s) - 1) : t[j] = IF j < i THEN s[j] ELSE s[j + 1]
  <2>1. IsRemoved(t, S, s, i)
    BY RemoveAtIndex
  <2> HIDE DEF t
  <2> QED
    BY <2>1 DEF IsRemoved
<1> HIDE DEF t
<1>2. DOMAIN t = 1..(Len(s) - 1)
  BY <1>1
<1>3. ASSUME NEW x \in ToSet(t) PROVE \E j \in 1..Len(s) : j # i /\ x = s[j]
  <2>1. PICK j \in 1..(Len(s) - 1) : x = t[j]
    BY <1>2, <1>3 DEF ToSet
  <2>2. CASE j < i
    BY <1>1, <2>1, <2>2
  <2>3. CASE ~(j < i)
    <3>1. x = s[j + 1] /\ j + 1 \in 1..Len(s) /\ j + 1 # i
      BY <1>1, <2>1, <2>3
    <3> QED
      BY <3>1
  <2> QED
    BY <2>2, <2>3
<1> QED
  BY <1>3 DEF t

\* Nothing in the queue starts before its head.
LEMMA HeadIsFirst ==
    ASSUME NEW q \in Seq(Findings), SortedByStart(q)
    PROVE  \A i \in 1..Len(q) : q[i].from >= q[1].from
<1> DEFINE S == {i \in 1..Len(q) : q[i].from < q[1].from}
<1>1. \A i \in 1..Len(q) : q[i].from \in Nat
  BY FindingFields
<1>2. SUFFICES ASSUME S # {} PROVE FALSE
  <2>1. SUFFICES ASSUME NEW i \in 1..Len(q), S = {} PROVE q[i].from >= q[1].from
    BY <1>2
  <2>2. i \notin S /\ 1 \in 1..Len(q)
    BY <2>1
  <2> QED
    BY <1>1, <2>2
<1>3. PICK k \in S : \A j \in S : k <= j
  <2>1. S \subseteq Nat
    OBVIOUS
  <2> HIDE DEF S
  <2> QED
    BY <1>2, <2>1, LeastExists
<1>4. k - 1 \in 1..(Len(q) - 1) /\ (k - 1) + 1 = k
  <2>1. k # 1
    BY <1>1
  <2> QED
    BY <2>1
<1>5. q[k - 1].from <= q[k].from
  BY <1>4 DEF SortedByStart
<1>6. k - 1 \in 1..Len(q) /\ 1 \in 1..Len(q) /\ k \in 1..Len(q)
  BY <1>4
<1>7. k - 1 \notin S
  BY <1>3
<1>8. ~(q[k - 1].from < q[1].from) /\ q[k].from < q[1].from
  BY <1>6, <1>7
<1> QED
  BY <1>1, <1>5, <1>6, <1>8

\* All of a queue, and all but its head, from s on.
AllFrom(q, s) == \A i \in 1..Len(q) : q[i].from >= s
RestFrom(q, s) == \A i \in 2..Len(q) : q[i].from >= s

\* A finding put in a queue behind s: behind s if it is, else all but the head are...
LEMMA InsertAllFrom ==
    ASSUME NEW q \in Seq(Findings), NEW f \in Findings, NEW s \in Nat, AllFrom(q, s)
    PROVE  /\ f.from >= s => AllFrom(InsertSorted(q, f), s)
           /\ RestFrom(InsertSorted(q, f), s)
<1> DEFINE t == InsertSorted(q, f)
<1>1. PICK k \in 1..(Len(q) + 1) : IsInserted(t, Findings, q, k, f)
                                   /\ \A j \in 1..(k - 1) : q[j].from <= f.from
  BY InsertSortedIndex
<1> HIDE DEF t
<1>2. /\ Len(t) = Len(q) + 1
      /\ \A j \in 1..(Len(q) + 1) : t[j] = IF j < k THEN q[j] ELSE IF j = k THEN f ELSE q[j - 1]
  BY <1>1 DEF IsInserted
<1>3. \A j \in 1..Len(q) : q[j].from \in Nat /\ q[j].from >= s
  BY FindingFields DEF AllFrom
<1>4. f.from \in Nat
  BY FindingFields
<1>5. \A j \in 1..Len(t) : j # k => t[j].from >= s
  <2>1. SUFFICES ASSUME NEW j \in 1..Len(t), j # k PROVE t[j].from >= s
    OBVIOUS
  <2>2. CASE j < k
    BY <1>2, <1>3, <2>1, <2>2
  <2>3. CASE j > k
    <3>1. t[j] = q[j - 1] /\ j - 1 \in 1..Len(q)
      BY <1>2, <2>3
    <3> QED
      BY <1>3, <3>1
  <2> QED
    BY <2>1, <2>2, <2>3
<1>6. t[k] = f
  BY <1>2
<1>7. ASSUME f.from >= s PROVE AllFrom(t, s)
  BY <1>5, <1>6, <1>7 DEF AllFrom
<1>8. RestFrom(t, s)
  <2>1. CASE f.from >= s
    BY <1>7, <2>1, <1>2 DEF AllFrom, RestFrom
  <2>2. CASE ~(f.from >= s)
    <3>1. k = 1
      <4>1. SUFFICES ASSUME k # 1 PROVE FALSE
        OBVIOUS
      <4>2. 1 \in 1..(k - 1) /\ 1 \in 1..Len(q)
        BY <4>1
      <4>3. q[1].from <= f.from /\ q[1].from >= s /\ q[1].from \in Nat
        BY <1>1, <1>3, <4>2
      <4> QED
        BY <1>4, <2>2, <4>3
    <3> QED
      BY <1>2, <1>5, <3>1 DEF RestFrom
  <2> QED
    BY <2>1, <2>2
<1> QED
  BY <1>7, <1>8 DEF t

\* ...and one behind s put in a queue of which all but the head are.
LEMMA InsertRestFrom ==
    ASSUME NEW q \in Seq(Findings), NEW f \in Findings, NEW s \in Nat, RestFrom(q, s),
           f.from >= s
    PROVE  RestFrom(InsertSorted(q, f), s)
<1> DEFINE t == InsertSorted(q, f)
<1>1. PICK k \in 1..(Len(q) + 1) : IsInserted(t, Findings, q, k, f)
                                   /\ (k \in 1..Len(q) => q[k].from > f.from)
  BY InsertSortedIndex
<1> HIDE DEF t
<1>2. /\ Len(t) = Len(q) + 1
      /\ \A j \in 1..(Len(q) + 1) : t[j] = IF j < k THEN q[j] ELSE IF j = k THEN f ELSE q[j - 1]
  BY <1>1 DEF IsInserted
<1>3. \A j \in 1..Len(q) : q[j].from \in Nat
  BY FindingFields
<1>4. f.from \in Nat
  BY FindingFields
<1>5. ASSUME NEW j \in 2..Len(t) PROVE t[j].from >= s
  <2>1. CASE j < k
    BY <1>2, <2>1 DEF RestFrom
  <2>2. CASE j = k
    BY <1>2, <2>2
  <2>3. CASE j > k /\ j > 2
    <3>1. t[j] = q[j - 1] /\ j - 1 \in 2..Len(q)
      BY <1>2, <2>3
    <3> QED
      BY <3>1 DEF RestFrom
  <2>4. CASE j > k /\ j = 2
    <3>1. k = 1 /\ 1 \in 1..Len(q) /\ t[j] = q[1]
      BY <1>2, <2>4
    <3>2. q[1].from > f.from
      BY <1>1, <3>1
    <3> QED
      BY <1>3, <1>4, <3>1, <3>2
  <2> QED
    BY <2>1, <2>2, <2>3, <2>4
<1> QED
  BY <1>5 DEF RestFrom, t

----------------------------------------------------------------------------
(* The sweep *)

\* The loop works through the text from left to right: s is how far it is.  The queue
\* is behind s, but for one remainder of a displaced finding, which meets nothing; the
\* accepted findings end before s, but for one that starts there.
SweptTo(s) ==
    /\ s \in Nat
    /\ RestFrom(queue, s)
    /\ queue # <<>> =>
         \/ Head(queue).from >= s
         \/ /\ Head(queue).to <= s
            /\ \A i \in 1..Len(accepted) : accepted[i].to <= Head(queue).from
    /\ \A i \in 1..Len(accepted) : accepted[i].to <= s \/ accepted[i].from = s

\* The queue and the accepted findings.
LEMMA SequenceFacts ==
    ASSUME ResolveInv
    PROVE  /\ queue \in Seq(Findings) /\ accepted \in Seq(Findings)
           /\ DOMAIN queue = 1..Len(queue) /\ DOMAIN accepted = 1..Len(accepted)
           /\ Pieces = ToSet(queue) \union ToSet(accepted)
           /\ Pieces \subseteq Findings
           /\ \A i \in 1..Len(queue) : queue[i] \in Findings
                 /\ queue[i].from \in Nat /\ queue[i].to \in Nat /\ queue[i].from < queue[i].to
           /\ \A i \in 1..Len(accepted) : accepted[i] \in Findings
                 /\ accepted[i].from \in Nat /\ accepted[i].to \in Nat
                 /\ accepted[i].from < accepted[i].to
<1>1. queue \in Seq(Findings) /\ accepted \in Seq(Findings)
  BY TracedIsFinding DEF ResolveInv
<1>2. DOMAIN queue = 1..Len(queue) /\ DOMAIN accepted = 1..Len(accepted)
  BY <1>1
<1>3. Pieces = ToSet(queue) \union ToSet(accepted)
  BY <1>1, ToSetConcat DEF Pieces
<1>4. /\ \A i \in 1..Len(queue) : queue[i] \in Findings
      /\ \A i \in 1..Len(accepted) : accepted[i] \in Findings
  BY <1>1
<1>5. Pieces \subseteq Findings
  BY <1>2, <1>3, <1>4 DEF ToSet
<1> QED
  BY <1>1, <1>2, <1>3, <1>4, <1>5, FindingFields

\* The candidate.
LEMMA HeadFacts ==
    ASSUME ResolveInv, queue # <<>>
    PROVE  /\ Head(queue) = queue[1] /\ Head(queue) \in ToSet(queue) /\ Head(queue) \in Findings
           /\ 1 \in 1..Len(queue)
           /\ \A x \in ToSet(queue) : x.from >= Head(queue).from
           /\ Tail(queue) \in Seq(Findings) /\ SortedByStart(Tail(queue))
           /\ ToSet(Tail(queue)) \subseteq ToSet(queue)
           /\ ToSet(queue) = ToSet(Tail(queue)) \union {Head(queue)}
           /\ AllFrom(Tail(queue), Head(queue).from)
<1>1. /\ queue \in Seq(Findings) /\ SortedByStart(queue) /\ DOMAIN queue = 1..Len(queue)
      /\ 1 \in 1..Len(queue) /\ Head(queue) = queue[1]
  BY SequenceFacts DEF ResolveInv
<1>2. Head(queue) \in ToSet(queue) /\ Head(queue) \in Findings
  BY <1>1 DEF ToSet
<1>3. \A i \in 1..Len(queue) : queue[i].from >= Head(queue).from
  BY <1>1, HeadIsFirst
<1>4. /\ Tail(queue) \in Seq(Findings) /\ Len(Tail(queue)) = Len(queue) - 1
      /\ \A j \in 1..(Len(queue) - 1) : Tail(queue)[j] = queue[j + 1]
      /\ DOMAIN Tail(queue) = 1..(Len(queue) - 1)
  BY <1>1
<1>5. \A j \in 1..(Len(queue) - 1) : j + 1 \in 1..Len(queue)
  BY <1>1
<1>6. ToSet(Tail(queue)) \subseteq ToSet(queue)
  <2>1. ASSUME NEW x \in ToSet(Tail(queue)) PROVE x \in ToSet(queue)
    <3>1. PICK j \in 1..(Len(queue) - 1) : x = Tail(queue)[j]
      BY <1>4, <2>1 DEF ToSet
    <3>2. x = queue[j + 1] /\ j + 1 \in DOMAIN queue
      BY <1>1, <1>4, <1>5, <3>1
    <3> QED
      BY <3>2 DEF ToSet
  <2> QED
    BY <2>1
<1>7. ToSet(queue) \subseteq ToSet(Tail(queue)) \union {Head(queue)}
  BY <1>1, HeadTailHolds
<1>8. AllFrom(Tail(queue), Head(queue).from)
  BY <1>3, <1>4, <1>5 DEF AllFrom
<1>9. SortedByStart(Tail(queue))
  BY Meeting
<1>10. \A x \in ToSet(queue) : x.from >= Head(queue).from
  BY <1>1, <1>3 DEF ToSet
<1> QED
  BY <1>1, <1>2, <1>4, <1>6, <1>7, <1>8, <1>9, <1>10

\* A candidate that meets an accepted finding meets the one that starts at the sweep.
LEMMA MeetsAtSweep ==
    ASSUME ResolveInv, NEW s, SweptTo(s), queue # <<>>, NEW i \in FirstOverlap(Head(queue))
    PROVE  /\ i \in 1..Len(accepted) /\ accepted[i] \in ToSet(accepted)
           /\ Contest(Pieces, s, accepted[i], Head(queue))
           /\ \A j \in 1..Len(accepted) : j # i => accepted[j].to <= s
           /\ \A v \in ToSet(accepted) : v.from = s => v = accepted[i]
<1> DEFINE a == accepted[i]
           b == Head(queue)
<1>1. i \in 1..Len(accepted) /\ Overlap(a, b)
  BY DEF FirstOverlap, Overlap
<1>2. /\ b \in ToSet(queue) /\ b \in Findings
      /\ \A x \in ToSet(queue) : x.from >= b.from
  BY HeadFacts
<1>3. /\ a \in Findings /\ a.from \in Nat /\ a.to \in Nat
      /\ \A j \in 1..Len(accepted) :
           accepted[j].from \in Nat /\ accepted[j].to \in Nat /\ accepted[j].from < accepted[j].to
      /\ DOMAIN accepted = 1..Len(accepted)
      /\ Pieces = ToSet(queue) \union ToSet(accepted)
  BY <1>1, SequenceFacts
<1>4. b.from \in Nat /\ b.to \in Nat /\ b.from < b.to
  BY <1>2, FindingFields
<1>5. s \in Nat /\ b.from >= s
  BY <1>1, <1>3, <1>4 DEF SweptTo, Overlap
<1>6. a.from = s
  BY <1>1, <1>3, <1>4, <1>5 DEF SweptTo, Overlap
<1>7. ASSUME NEW j \in 1..Len(accepted), j # i PROVE accepted[j].to <= s
  <2>1. CASE j < i
    BY <1>1, <1>6, <2>1 DEF ResolveInv, Apart
  <2>2. CASE i < j
    <3>1. a.to <= accepted[j].from
      BY <1>1, <2>2 DEF ResolveInv, Apart
    <3>2. accepted[j].from # s
      BY <1>1, <1>3, <1>6, <3>1
    <3> QED
      BY <3>2 DEF SweptTo
  <2> QED
    BY <1>1, <1>7, <2>1, <2>2
<1>8. ASSUME b.from > s, NEW h \in Pieces, h.from <= s, s < h.to PROVE h = a
  <2>1. CASE h \in ToSet(queue)
    BY <1>2, <1>4, <1>5, <1>8, <2>1, SequenceFacts, FindingFields
  <2>2. CASE h \in ToSet(accepted)
    <3>1. PICK j \in 1..Len(accepted) : h = accepted[j]
      BY <1>3, <2>2 DEF ToSet
    <3> QED
      BY <1>3, <1>5, <1>7, <1>8, <3>1
  <2> QED
    BY <1>3, <2>1, <2>2
<1>9. ASSUME NEW v \in ToSet(accepted), v.from = s PROVE v = a
  <2>1. PICK j \in 1..Len(accepted) : v = accepted[j]
    BY <1>3, <1>9 DEF ToSet
  <2> QED
    BY <1>3, <1>5, <1>7, <1>9, <2>1
<1>10. a \in ToSet(accepted)
  BY <1>1, <1>3 DEF ToSet
<1> QED
  BY <1>1, <1>2, <1>3, <1>5, <1>6, <1>7, <1>8, <1>9, <1>10 DEF Contest

\* Accepting the candidate brings the sweep to it.
LEMMA SweptAccept ==
    ASSUME ResolveInv, NEW s, SweptTo(s), Accept
    PROVE  /\ Pieces' = Pieces
           /\ \E t \in Nat : s <= t /\ (Head(queue).from >= s => t = Head(queue).from)
                             /\ SweptTo(t)'
<1> DEFINE b == Head(queue)
<1>1. /\ queue # <<>> /\ FirstOverlap(b) = {}
      /\ accepted' = InsertSorted(accepted, b) /\ queue' = Tail(queue)
  BY DEF Accept
<1>2. /\ b \in ToSet(queue) /\ b \in Findings
      /\ \A x \in ToSet(queue) : x.from >= b.from
      /\ Tail(queue) \in Seq(Findings)
      /\ ToSet(queue) = ToSet(Tail(queue)) \union {b}
      /\ AllFrom(Tail(queue), b.from)
  BY <1>1, HeadFacts
<1>3. b.from \in Nat /\ b.to \in Nat /\ b.from < b.to /\ s \in Nat
  BY <1>2, FindingFields DEF SweptTo
<1> PICK t \in Nat : t = IF b.from >= s THEN b.from ELSE s
  BY <1>3
<1>4. ResolveInv'
  BY NextResolveInv DEF Next
<1>5. /\ queue' \in Seq(Findings) /\ accepted' \in Seq(Findings)
      /\ DOMAIN accepted' = 1..Len(accepted')
  <2>1. Traced' \subseteq Findings
    BY DEF Traced
  <2> QED
    BY <1>4, <2>1 DEF ResolveInv
<1>6. Pieces' = ToSet(queue') \union ToSet(accepted')
  BY <1>5, ToSetConcat DEF Pieces
<1>7. /\ accepted \in Seq(Findings) /\ DOMAIN accepted = 1..Len(accepted)
      /\ Pieces = ToSet(queue) \union ToSet(accepted)
      /\ \A i \in 1..Len(accepted) : accepted[i] \in Findings
            /\ accepted[i].from \in Nat /\ accepted[i].to \in Nat
  BY SequenceFacts
<1>8. ToSet(accepted') = ToSet(accepted) \union {b}
  BY <1>1, <1>2, <1>7, InsertSortedHolds, InsertSortedOnly
<1>9. Pieces' = Pieces
  BY <1>1, <1>2, <1>6, <1>7, <1>8
<1>10. \A i \in 1..Len(accepted) : ~Overlap(accepted[i], b)
  BY <1>1, <1>2, <1>7, NoneOverlaps DEF ResolveInv
<1>11. ASSUME NEW i \in 1..Len(accepted)
       PROVE  accepted[i].to <= t \/ accepted[i].from = t
  <2>1. CASE b.from >= s
    BY <1>3, <1>7, <1>10, <1>11, <2>1 DEF SweptTo, Overlap
  <2>2. CASE ~(b.from >= s)
    BY <1>11, <2>2 DEF SweptTo
  <2> QED
    BY <2>1, <2>2
<1>12. b.to <= t \/ b.from = t
  BY <1>1, <1>3 DEF SweptTo
<1>13. ASSUME NEW i \in 1..Len(accepted')
       PROVE  accepted'[i].to <= t \/ accepted'[i].from = t
  <2>1. accepted'[i] \in ToSet(accepted')
    BY <1>5, <1>13 DEF ToSet
  <2>2. accepted'[i] = b \/ \E j \in 1..Len(accepted) : accepted'[i] = accepted[j]
    <3>1. \A x \in ToSet(accepted) : \E j \in 1..Len(accepted) : x = accepted[j]
      BY <1>7 DEF ToSet
    <3> QED
      BY <1>8, <2>1, <3>1
  <2> QED
    BY <1>11, <1>12, <2>2
<1>14. AllFrom(queue', t)
  <2>1. CASE b.from >= s
    BY <1>1, <1>2, <2>1
  <2>2. CASE ~(b.from >= s)
    <3>1. Len(queue') = Len(queue) - 1 /\ \A j \in 1..(Len(queue) - 1) : queue'[j] = queue[j + 1]
      BY <1>1, SequenceFacts
    <3>2. ASSUME NEW j \in 1..Len(queue') PROVE queue'[j].from >= s
      <4>1. j + 1 \in 2..Len(queue) /\ queue'[j] = queue[j + 1]
        <5>1. Len(queue) \in Nat
          BY SequenceFacts
        <5> QED
          BY <3>1, <5>1
      <4> QED
        BY <4>1 DEF SweptTo, RestFrom
    <3> QED
      BY <2>2, <3>2 DEF AllFrom
  <2> QED
    BY <2>1, <2>2
<1>15. RestFrom(queue', t) /\ (queue' # <<>> => Head(queue').from >= t)
  <2>1. RestFrom(queue', t)
    BY <1>14 DEF AllFrom, RestFrom
  <2>2. ASSUME queue' # <<>> PROVE Head(queue').from >= t
    <3>1. 1 \in 1..Len(queue') /\ Head(queue') = queue'[1]
      BY <1>5, <2>2
    <3> QED
      BY <1>14, <3>1 DEF AllFrom
  <2> QED
    BY <2>1, <2>2
<1>16. SweptTo(t)'
  BY <1>3, <1>13, <1>15 DEF SweptTo, RestFrom
<1>17. s <= t /\ (b.from >= s => t = b.from)
  BY <1>3
<1> QED
  BY <1>3, <1>9, <1>16, <1>17

\* What a turn in which the candidate b meets the accepted finding a does.
Fights(s, a, b, l, w) ==
    /\ Contest(Pieces, s, a, b) /\ Decided(a, b, l, w) /\ Narrowed(Pieces, Pieces', l, w)
    /\ b \in ToSet(queue) /\ \A x \in ToSet(queue) : x.from >= b.from
    /\ \A v \in ToSet(accepted) : v.from = s => v = a
    /\ ~CandidateWins(b, a) =>
         /\ a \in ToSet(accepted')
         /\ \A x \in ToSet(queue') : x \in ToSet(queue) \/ x \in ToSet(Subtract(l, w))
    /\ SweptTo(w.from)'

\* The parts of a loser are two findings at most.
LEMMA PartsFacts ==
    ASSUME NEW f \in Traced, NEW g \in Findings
    PROVE  /\ Subtract(f, g) \in Seq(Findings) /\ Len(Subtract(f, g)) \in 0..2
           /\ DOMAIN Subtract(f, g) = 1..Len(Subtract(f, g))
           /\ \A i \in 1..Len(Subtract(f, g)) :
                Subtract(f, g)[i] \in Findings /\ Subtract(f, g)[i] \in ToSet(Subtract(f, g))
<1>1. Subtract(f, g) \in Seq(Traced) /\ Len(Subtract(f, g)) \in 0..2
  BY SubtractTraced
<1> DEFINE parts == Subtract(f, g)
<1> HIDE DEF parts
<1>2. parts \in Seq(Findings) /\ Len(parts) \in 0..2
  BY <1>1, TracedIsFinding DEF parts
<1>3. DOMAIN parts = 1..Len(parts)
  BY <1>2
<1>4. \A i \in 1..Len(parts) : parts[i] \in Findings /\ parts[i] \in ToSet(parts)
  BY <1>2, <1>3 DEF ToSet
<1> QED
  BY <1>2, <1>3, <1>4 DEF parts

\* The remains of a displaced finding are put in a queue that is behind the winner.
LEMMA PushRestFrom ==
    ASSUME NEW q \in Seq(Findings), NEW s \in Nat, AllFrom(q, s),
           NEW parts \in Seq(Findings), Len(parts) \in 0..2,
           Len(parts) = 2 => parts[2].from >= s
    PROVE  RestFrom(PushAll(q, parts), s)
<1>1. \A i \in 1..Len(parts) : parts[i] \in Findings
  OBVIOUS
<1>2. CASE Len(parts) = 0
  BY <1>2 DEF PushAll, AllFrom, RestFrom
<1>3. CASE Len(parts) = 1
  BY <1>1, <1>3, InsertAllFrom DEF PushAll
<1>4. CASE Len(parts) = 2
  <2>1. parts[1] \in Findings /\ parts[2] \in Findings
    BY <1>1, <1>4
  <2>2. RestFrom(InsertSorted(q, parts[1]), s)
    BY <2>1, InsertAllFrom
  <2>3. InsertSorted(q, parts[1]) \in Seq(Findings)
    <3>1. PICK k \in 1..(Len(q) + 1) : IsInserted(InsertSorted(q, parts[1]), Findings, q, k, parts[1])
      BY <2>1, InsertSortedIndex
    <3> QED
      BY <3>1 DEF IsInserted
  <2>4. RestFrom(InsertSorted(InsertSorted(q, parts[1]), parts[2]), s)
    BY <1>4, <2>1, <2>2, <2>3, InsertRestFrom
  <2> QED
    BY <1>4, <2>4 DEF PushAll
<1> QED
  BY <1>2, <1>3, <1>4

\* A candidate that displaces an accepted finding fights it at the sweep...
LEMMA DisplaceFights ==
    ASSUME ResolveInv, NEW s, SweptTo(s), Displace
    PROVE  \E a, b : Fights(s, a, b, a, b)
<1>1. /\ queue # <<>> /\ s \in Nat
  BY DEF Displace, SweptTo
<1>2. PICK i \in FirstOverlap(Head(queue)) :
        /\ CandidateWins(Head(queue), accepted[i])
        /\ accepted' = RemoveAt(accepted, i)
        /\ queue' = PushAll(InsertSorted(Tail(queue), Head(queue)),
                            Subtract(accepted[i], Head(queue)))
  BY DEF Displace
<1>3. PICK a, b : a = accepted[i] /\ b = Head(queue)
  OBVIOUS
<1>4. /\ CandidateWins(b, a)
      /\ accepted' = RemoveAt(accepted, i)
      /\ queue' = PushAll(InsertSorted(Tail(queue), b), Subtract(a, b))
  BY <1>2, <1>3
<1>5. /\ b \in ToSet(queue) /\ b \in Findings
      /\ \A x \in ToSet(queue) : x.from >= b.from
      /\ Tail(queue) \in Seq(Findings) /\ SortedByStart(Tail(queue))
      /\ ToSet(queue) = ToSet(Tail(queue)) \union {b}
      /\ AllFrom(Tail(queue), b.from)
  BY <1>1, <1>3, HeadFacts
<1>6. /\ i \in 1..Len(accepted) /\ a \in ToSet(accepted)
      /\ Contest(Pieces, s, a, b)
      /\ \A j \in 1..Len(accepted) : j # i => accepted[j].to <= s
      /\ \A v \in ToSet(accepted) : v.from = s => v = a
  BY <1>1, <1>3, MeetsAtSweep
<1>7. /\ accepted \in Seq(Findings) /\ DOMAIN accepted = 1..Len(accepted)
      /\ Pieces = ToSet(queue) \union ToSet(accepted)
      /\ Pieces \subseteq Findings
      /\ \A j \in 1..Len(accepted) : accepted[j].to \in Nat
  BY SequenceFacts
<1>8. a \in Traced /\ a \in Findings
  BY <1>1, <1>3, Meeting, TracedIsFinding
<1>9. /\ b.from \in Nat /\ b.to \in Nat /\ b.from < b.to /\ a.from = s /\ s <= b.from
      /\ a.to \in Nat /\ Overlap(a, b)
  BY <1>5, <1>6, <1>8, FindingFields DEF Contest
<1> DEFINE q == InsertSorted(Tail(queue), b)
           parts == Subtract(a, b)
<1>10. /\ parts \in Seq(Findings) /\ Len(parts) \in 0..2
       /\ \A j \in 1..Len(parts) : parts[j] \in Findings /\ parts[j] \in ToSet(parts)
  BY <1>5, <1>8, PartsFacts
<1>11. /\ q \in Seq(Findings) /\ SortedByStart(q)
       /\ ToSet(q) = ToSet(queue)
       /\ AllFrom(q, b.from)
  <2>1. q \in Seq(Findings) /\ SortedByStart(q)
    BY <1>5, InsertSortedKeeps
  <2>2. ToSet(q) = ToSet(Tail(queue)) \union {b}
    BY <1>5, InsertSortedHolds, InsertSortedOnly
  <2>3. AllFrom(q, b.from)
    BY <1>5, <1>9, InsertAllFrom
  <2> QED
    BY <1>5, <2>1, <2>2, <2>3
<1>12. Len(parts) = 2 => parts[2].from >= b.from
  BY <1>5, <1>8, <1>9, SubtractSecond
<1>13. \A x \in ToSet(parts) : x \in Findings /\ a.from <= x.from
                               /\ (x.to <= b.from \/ x.from >= b.from)
  BY <1>5, <1>8, <1>9, SubtractShape
<1> HIDE DEF q, parts
<1>14. ToSet(queue') = ToSet(queue) \union ToSet(parts)
  BY <1>4, <1>10, <1>11, PushAllHolds, PushAllOnly DEF q, parts
<1>15. RestFrom(PushAll(q, parts), b.from)
  BY <1>9, <1>10, <1>11, <1>12, PushRestFrom
<1>16. /\ ToSet(accepted) \subseteq ToSet(accepted') \union {a}
       /\ \A x \in ToSet(accepted') : \E j \in 1..Len(accepted) : j # i /\ x = accepted[j]
  BY <1>3, <1>4, <1>6, <1>7, RemoveAtHolds, RemoveAtOnly
<1>17. /\ queue' \in Seq(Findings) /\ accepted' \in Seq(Findings)
       /\ DOMAIN accepted' = 1..Len(accepted') /\ DOMAIN queue' = 1..Len(queue')
  <2>1. ResolveInv' /\ Traced' \subseteq Findings
    BY NextResolveInv DEF Next, Traced
  <2>2. queue' \in Seq(Findings) /\ accepted' \in Seq(Findings)
    BY <2>1 DEF ResolveInv
  <2> QED
    BY <2>2
<1>18. Pieces' = ToSet(queue') \union ToSet(accepted')
  BY <1>17, ToSetConcat DEF Pieces
<1>19. Narrowed(Pieces, Pieces', a, b)
  <2>1. ToSet(accepted') \subseteq ToSet(accepted)
    BY <1>7, <1>16 DEF ToSet
  <2>2. a \in Pieces /\ b \in Pieces
    BY <1>5, <1>6, <1>7
  <2>3. b \in Pieces' /\ ToSet(parts) \subseteq Pieces'
    BY <1>5, <1>14, <1>18
  <2>4. Pieces \subseteq Pieces' \union {a}
    BY <1>7, <1>14, <1>16, <1>18
  <2>5. Pieces' \subseteq Pieces \union ToSet(parts)
    BY <1>7, <1>14, <1>18, <2>1
  <2> QED
    BY <2>2, <2>3, <2>4, <2>5 DEF Narrowed, parts
<1>20. \A x \in ToSet(accepted') : x.to \in Nat /\ x.to <= s
  BY <1>6, <1>7, <1>16
<1>21. \A j \in 1..Len(accepted') : accepted'[j].to \in Nat /\ accepted'[j].to <= s
  BY <1>17, <1>20 DEF ToSet
<1>22. queue' # <<>> =>
         \/ Head(queue').from >= b.from
         \/ /\ Head(queue').to <= b.from
            /\ \A j \in 1..Len(accepted') : accepted'[j].to <= Head(queue').from
  <2>1. SUFFICES ASSUME queue' # <<>>, ~(Head(queue').from >= b.from)
                 PROVE  /\ Head(queue').to <= b.from
                        /\ \A j \in 1..Len(accepted') : accepted'[j].to <= Head(queue').from
    OBVIOUS
  <2>2. PICK x : x = Head(queue')
    OBVIOUS
  <2>3. x \in ToSet(queue')
    <3>1. 1 \in DOMAIN queue' /\ x = queue'[1]
      BY <1>17, <2>1, <2>2
    <3> QED
      BY <3>1 DEF ToSet
  <2>4. x \in ToSet(parts)
    BY <1>5, <1>14, <2>1, <2>2, <2>3
  <2>5. x.from \in Nat /\ a.from <= x.from /\ x.to <= b.from
    BY <1>13, <2>1, <2>2, <2>4, FindingFields
  <2> QED
    BY <1>1, <1>9, <1>21, <2>2, <2>5
<1>23. SweptTo(b.from)'
  <2>1. RestFrom(queue', b.from)
    BY <1>4, <1>15 DEF q, parts
  <2>2. \A j \in 1..Len(accepted') : accepted'[j].to <= b.from
    BY <1>1, <1>9, <1>21
  <2> QED
    BY <1>9, <1>22, <2>1, <2>2 DEF SweptTo, RestFrom
<1>24. Decided(a, b, a, b)
  BY <1>4 DEF Decided
<1> QED
  BY <1>4, <1>5, <1>6, <1>19, <1>23, <1>24 DEF Fights

\* ...and so does one that loses.
LEMMA LoseFights ==
    ASSUME ResolveInv, NEW s, SweptTo(s), Lose
    PROVE  \E a, b : Fights(s, a, b, b, a)
<1>1. /\ queue # <<>> /\ s \in Nat
  BY DEF Lose, SweptTo
<1>2. PICK i \in FirstOverlap(Head(queue)) :
        /\ ~CandidateWins(Head(queue), accepted[i])
        /\ queue' = PushAll(Tail(queue), Subtract(Head(queue), accepted[i]))
        /\ accepted' = accepted
  BY DEF Lose
<1>3. PICK a, b : a = accepted[i] /\ b = Head(queue)
  OBVIOUS
<1>4. /\ ~CandidateWins(b, a)
      /\ accepted' = accepted
      /\ queue' = PushAll(Tail(queue), Subtract(b, a))
  BY <1>2, <1>3
<1>5. /\ b \in ToSet(queue) /\ b \in Findings
      /\ \A x \in ToSet(queue) : x.from >= b.from
      /\ Tail(queue) \in Seq(Findings) /\ SortedByStart(Tail(queue))
      /\ ToSet(queue) = ToSet(Tail(queue)) \union {b}
  BY <1>1, <1>3, HeadFacts
<1>6. /\ i \in 1..Len(accepted) /\ a \in ToSet(accepted)
      /\ Contest(Pieces, s, a, b)
      /\ \A j \in 1..Len(accepted) : j # i => accepted[j].to <= s
      /\ \A v \in ToSet(accepted) : v.from = s => v = a
  BY <1>1, <1>3, MeetsAtSweep
<1>7. /\ accepted \in Seq(Findings) /\ DOMAIN accepted = 1..Len(accepted)
      /\ Pieces = ToSet(queue) \union ToSet(accepted)
      /\ Pieces \subseteq Findings
  BY SequenceFacts
<1>8. a \in Findings /\ b \in Traced
  BY <1>1, <1>3, Meeting, TracedIsFinding
<1>9. /\ b.from \in Nat /\ b.to \in Nat /\ b.from < b.to /\ a.from = s /\ s <= b.from
      /\ a.to \in Nat /\ Overlap(b, a)
  BY <1>5, <1>6, <1>8, FindingFields DEF Contest, Overlap
<1> DEFINE parts == Subtract(b, a)
<1>10. /\ parts \in Seq(Findings) /\ Len(parts) \in 0..2
       /\ \A j \in 1..Len(parts) : parts[j] \in Findings /\ parts[j] \in ToSet(parts)
  BY <1>8, PartsFacts
<1>11. \A x \in ToSet(parts) : x \in Findings /\ b.from <= x.from
  BY <1>5, <1>8, <1>9, SubtractShape
<1> HIDE DEF parts
<1>12. ToSet(queue') = ToSet(Tail(queue)) \union ToSet(parts)
  BY <1>4, <1>5, <1>10, PushAllHolds, PushAllOnly DEF parts
<1>13. /\ queue' \in Seq(Findings) /\ accepted' \in Seq(Findings)
       /\ DOMAIN queue' = 1..Len(queue')
  <2>1. ResolveInv' /\ Traced' \subseteq Findings
    BY NextResolveInv DEF Next, Traced
  <2>2. queue' \in Seq(Findings) /\ accepted' \in Seq(Findings)
    BY <2>1 DEF ResolveInv
  <2> QED
    BY <2>2
<1>14. Pieces' = ToSet(queue') \union ToSet(accepted')
  BY <1>13, ToSetConcat DEF Pieces
<1>15. Narrowed(Pieces, Pieces', b, a)
  <2>1. a \in Pieces /\ b \in Pieces
    BY <1>5, <1>6, <1>7
  <2>2. a \in Pieces' /\ ToSet(parts) \subseteq Pieces'
    BY <1>4, <1>6, <1>12, <1>14
  <2>3. Pieces \subseteq Pieces' \union {b}
    BY <1>4, <1>5, <1>7, <1>12, <1>14
  <2>4. Pieces' \subseteq Pieces \union ToSet(parts)
    BY <1>4, <1>5, <1>7, <1>12, <1>14
  <2> QED
    BY <2>1, <2>2, <2>3, <2>4 DEF Narrowed, parts
<1>16. ASSUME NEW j \in 1..Len(queue') PROVE queue'[j].from >= s
  <2>1. PICK x : x = queue'[j]
    OBVIOUS
  <2>2. x \in ToSet(queue')
    BY <1>13, <2>1 DEF ToSet
  <2>3. x.from >= b.from /\ x.from \in Nat
    <3>1. CASE x \in ToSet(queue)
      BY <1>5, <1>7, <3>1, FindingFields
    <3>2. CASE x \in ToSet(parts)
      BY <1>9, <1>11, <3>2, FindingFields
    <3> QED
      BY <1>5, <1>12, <2>2, <3>1, <3>2
  <2> QED
    BY <1>1, <1>9, <2>1, <2>3
<1>17. SweptTo(a.from)'
  <2>1. RestFrom(queue', s)
    BY <1>16 DEF RestFrom
  <2>2. queue' # <<>> => Head(queue').from >= s
    BY <1>13, <1>16
  <2>3. \A j \in 1..Len(accepted') : accepted'[j].to <= s \/ accepted'[j].from = s
    BY <1>4 DEF SweptTo
  <2> QED
    BY <1>1, <1>9, <2>1, <2>2, <2>3 DEF SweptTo, RestFrom
<1>18. Decided(a, b, b, a)
  BY <1>4 DEF Decided
<1>19. a \in ToSet(accepted') /\ \A x \in ToSet(queue') : x \in ToSet(queue) \/ x \in ToSet(Subtract(b, a))
  BY <1>4, <1>5, <1>6, <1>12 DEF parts
<1> QED
  BY <1>5, <1>6, <1>15, <1>17, <1>18, <1>19 DEF Fights

----------------------------------------------------------------------------
(* Nothing solid is dropped *)

\* A character that only solid findings cover.
AllSolid(p) == \A o \in found : p \in Positions(o) => Solid(o)

\* It is in a piece as strong as each finding that covers it.
Held ==
    \A f \in found : \A p \in Positions(f) :
      AllSolid(p) => \E g \in Pieces : p \in Positions(g)
                                        /\ Priority[g.category] <= Priority[f.category]

Sweeping(s) ==
    /\ SweptTo(s)
    /\ \A F \in found : Solid(F) => Followed(Pieces, ToSet(queue), ToSet(accepted), F, s)

NarrowInv ==
    /\ Originate(Pieces)
    /\ found \subseteq Findings
    /\ Held
    /\ \E s \in Nat : Sweeping(s)

\* Of a solid finding there is no rival.
LEMMA SolidHasNoRival ==
    ASSUME NEW F \in found, F \in Findings, Solid(F),
           NEW g \in found, g.category = F.category, Overlap(g, F)
    PROVE  g = F
<1>1. Overlap(F, F)
  BY FindingFields DEF Overlap
<1>2. Rivals(F) = {}
  BY <1>1 DEF Solid, Droppable
<1> QED
  BY <1>2 DEF Rivals, Overlap

\* A pass begins with every finding whole.
LEMMA StartNarrowInv ==
    ResolveInv /\ accepted = <<>> /\ found = ToSet(queue) => NarrowInv
<1> SUFFICES ASSUME ResolveInv, accepted = <<>>, found = ToSet(queue) PROVE NarrowInv
  OBVIOUS
<1>1. Pieces = found /\ Pieces \subseteq Findings
  <2>1. ToSet(accepted) = {}
    BY DEF ToSet
  <2> QED
    BY <2>1, SequenceFacts
<1>2. Originate(Pieces)
  BY <1>1, FindingFields DEF Originate, Origin
<1>3. Held
  <2>1. \A f \in found : Priority[f.category] <= Priority[f.category]
    BY <1>1, FindingFields, CollisionAssumption
  <2> QED
    BY <1>1, <2>1 DEF Held
<1>4. SweptTo(0)
  <2>1. \A i \in 1..Len(queue) : queue[i].from \in Nat
    BY SequenceFacts
  <2>2. RestFrom(queue, 0)
    BY <2>1 DEF RestFrom
  <2>3. queue # <<>> => Head(queue).from >= 0
    BY HeadFacts, FindingFields
  <2> QED
    BY <2>2, <2>3 DEF SweptTo
<1>5. ASSUME NEW F \in found, Solid(F)
      PROVE  Followed(Pieces, ToSet(queue), ToSet(accepted), F, 0)
  <2>1. F \in Findings /\ F.from \in Nat
    BY <1>1, FindingFields
  <2>2. Untouched(Pieces, F)
    BY <1>1, <1>5, <2>1, SolidHasNoRival DEF Untouched
  <2>3. CASE 0 < F.from
    BY <2>2, <2>3 DEF Followed
  <2>4. CASE ~(0 < F.from)
    <3>1. \E G \in SUBSET Pieces : Safe(Pieces, F, 0, G)
      BY <2>1, <2>2, <2>4, UntouchedIsSafe
    <3> QED
      BY <3>1 DEF Followed
  <2> QED
    BY <2>3, <2>4
<1> QED
  BY <1>1, <1>2, <1>3, <1>4, <1>5 DEF NarrowInv, Sweeping

\* A character of solid findings that a loser had is the winner's or in what is left.
LEMMA HeldInFight ==
    ASSUME ResolveInv, NarrowInv, NEW s, Sweeping(s),
           NEW a, NEW b, NEW l, NEW w,
           Contest(Pieces, s, a, b), Decided(a, b, l, w), Narrowed(Pieces, Pieces', l, w),
           NEW p \in Positions(l), AllSolid(p)
    PROVE  \E g \in Pieces' : p \in Positions(g) /\ Priority[g.category] <= Priority[l.category]
<1>1. Originate(Pieces) /\ found \subseteq Findings
  BY DEF NarrowInv
<1>2. l \in Pieces /\ w \in Pieces /\ l \in Findings /\ w \in Findings
  BY <1>1 DEF Narrowed, Originate
<1>3. PICK o \in found : o \in Findings /\ Origin(l, o)
  BY <1>1, <1>2 DEF Originate
<1>4. p \in Positions(o) /\ Overlap(l, o)
  BY <1>2, <1>3, FindingFields DEF Positions, Origin, Overlap
<1>5. Solid(o)
  BY <1>3, <1>4 DEF AllSolid
<1>6. Fight(Pieces, Pieces', o, s, a, b, l, w)
  BY <1>1, <1>3, <1>5 DEF Fight
<1>7. /\ Overlap(l, w) /\ Overlap(w, l) /\ w \in Pieces'
      /\ Priority[w.category] <= Priority[l.category]
      /\ Priority[l.category] \in Nat
      /\ a.from = s /\ (a = l \/ a = w)
  BY <1>6, FightFacts
<1>8. ToSet(Subtract(l, w)) \subseteq Pieces'
  BY DEF Narrowed
<1>9. CASE l.category # w.category
  <2>1. Sliceable(l)
    BY <1>1, <1>2, <1>3, <1>4, <1>5, NearSolid
  <2>2. \/ p \in Positions(w)
        \/ \E part \in ToSet(Subtract(l, w)) : p \in Positions(part) /\ part.category = l.category
    BY <1>2, <1>9, <2>1, SubtractCovers
  <2>3. Priority[l.category] <= Priority[l.category]
    BY <1>7
  <2> QED
    BY <1>7, <1>8, <2>2, <2>3
<1>10. CASE l.category = w.category
  <2>1. PICK r \in found : r \in Findings /\ Origin(w, r)
    BY <1>1, <1>2 DEF Originate
  <2>2. r.category = o.category /\ Overlap(r, o)
    BY <1>2, <1>3, <1>7, <1>10, <2>1, FindingFields DEF Origin, Overlap
  <2>3. r = o
    BY <1>3, <1>5, <2>2, SolidHasNoRival
  <2>4. Overlap(w, o) /\ w.category = o.category /\ l.category = o.category
    BY <1>2, <1>3, <2>1, <2>3, FindingFields DEF Origin, Overlap
  <2>5. o.from \in Nat /\ a.from \in Nat /\ o.from <= s
    <3>1. o.from <= l.from /\ o.from <= w.from
      BY <1>3, <2>1, <2>3 DEF Origin
    <3> QED
      BY <1>2, <1>3, <1>7, <3>1, FindingFields
  <2>6. PICK G \in SUBSET Pieces : Safe(Pieces, o, s, G)
    <3>1. Followed(Pieces, ToSet(queue), ToSet(accepted), o, s)
      BY <1>3, <1>5 DEF Sweeping
    <3>2. ~(s < o.from)
      BY <1>7, <2>5
    <3> QED
      BY <3>1, <3>2 DEF Followed
  <2>7. Positions(l) \subseteq Positions(w)
    BY <1>4, <1>6, <2>4, <2>6, LoserIsInside
  <2> QED
    BY <1>7, <2>7
<1> QED
  BY <1>9, <1>10

\* A fight keeps the invariant.
LEMMA FightsNarrowInv ==
    ASSUME ResolveInv, NarrowInv, found' = found, NEW s, Sweeping(s),
           NEW a, NEW b, NEW l, NEW w, Fights(s, a, b, l, w)
    PROVE  NarrowInv'
<1>1. Originate(Pieces) /\ found \subseteq Findings /\ Held
  BY DEF NarrowInv
<1>2. /\ Contest(Pieces, s, a, b) /\ Decided(a, b, l, w) /\ Narrowed(Pieces, Pieces', l, w)
      /\ b \in ToSet(queue) /\ \A x \in ToSet(queue) : x.from >= b.from
      /\ \A v \in ToSet(accepted) : v.from = s => v = a
      /\ ~CandidateWins(b, a) =>
           /\ a \in ToSet(accepted')
           /\ \A x \in ToSet(queue') : x \in ToSet(queue) \/ x \in ToSet(Subtract(l, w))
      /\ SweptTo(w.from)'
  BY DEF Fights
<1>3. \A F \in found : Solid(F)' <=> Solid(F)
  BY DEF Solid, Droppable, Rivals, Tied
<1>4. \A p : AllSolid(p)' <=> AllSolid(p)
  BY <1>3 DEF AllSolid
<1>5. l \in Findings /\ w \in Findings /\ Overlap(l, w) /\ w.from \in Nat
  <2>1. l \in Findings /\ w \in Findings
    BY <1>1, <1>2 DEF Narrowed, Originate
  <2>2. Overlap(l, w)
    BY <1>2 DEF Contest, Decided, Overlap
  <2> QED
    BY <2>1, <2>2, FindingFields
<1>6. Originate(Pieces)'
  <2>1. Originate(Pieces')
    BY <1>1, <1>2, <1>5, NarrowedOriginate
  <2> QED
    BY <2>1 DEF Originate
<1>7. Held'
  <2>1. SUFFICES ASSUME NEW f \in found, NEW p \in Positions(f), AllSolid(p)
                 PROVE  \E g \in Pieces' : p \in Positions(g)
                                            /\ Priority[g.category] <= Priority[f.category]
    BY <1>4 DEF Held
  <2>2. PICK g \in Pieces : p \in Positions(g) /\ Priority[g.category] <= Priority[f.category]
    BY <1>1, <2>1 DEF Held
  <2>3. CASE g \in Pieces'
    BY <2>2, <2>3
  <2>4. CASE g \notin Pieces'
    <3>1. g = l
      BY <1>2, <2>4 DEF Narrowed
    <3>2. PICK h \in Pieces' : p \in Positions(h) /\ Priority[h.category] <= Priority[l.category]
      BY <1>2, <2>1, <2>2, <3>1, HeldInFight
    <3>3. /\ Priority[h.category] \in Nat /\ Priority[l.category] \in Nat
          /\ Priority[f.category] \in Nat
      <4>1. h \in Findings
        BY <1>6 DEF Originate
      <4> QED
        BY <1>1, <1>5, <4>1, FindingFields, CollisionAssumption
    <3> QED
      BY <2>2, <3>1, <3>2, <3>3
  <2> QED
    BY <2>3, <2>4
<1>8. ASSUME NEW F \in found, Solid(F)
      PROVE  Followed(Pieces', ToSet(queue'), ToSet(accepted'), F, w.from)
  <2>1. Fight(Pieces, Pieces', F, s, a, b, l, w)
    BY <1>1, <1>2, <1>8 DEF Fight
  <2>2. Followed(Pieces, ToSet(queue), ToSet(accepted), F, s)
    BY <1>8 DEF Sweeping
  <2>3. FightIn(Pieces, Pieces', ToSet(queue), ToSet(queue'), ToSet(accepted), ToSet(accepted'),
               F, s, a, b, l, w)
    BY <1>2, <2>1 DEF FightIn
  <2> QED
    BY <2>2, <2>3, FollowedFight
<1>9. Sweeping(w.from)'
  <2>1. \A F \in found' : Solid(F)' => Followed(Pieces', ToSet(queue'), ToSet(accepted'), F, w.from)
    BY <1>3, <1>8
  <2> QED
    BY <1>2, <2>1 DEF Sweeping, Followed, Ahead, Untouched, Safe
<1> QED
  BY <1>1, <1>5, <1>6, <1>7, <1>9 DEF NarrowInv

\* So does every turn.
LEMMA NextNarrowInv == ResolveInv /\ NarrowInv /\ [Next]_vars => NarrowInv'
<1> SUFFICES ASSUME ResolveInv, NarrowInv, [Next]_vars PROVE NarrowInv'
  OBVIOUS
<1>1. found' = found
  BY DEF Next, Accept, Displace, Lose, vars
<1>2. PICK s \in Nat : Sweeping(s)
  BY DEF NarrowInv
<1>3. SweptTo(s)
  BY <1>2 DEF Sweeping
<1>4. CASE Displace
  BY <1>1, <1>2, <1>3, <1>4, DisplaceFights, FightsNarrowInv
<1>5. CASE Lose
  BY <1>1, <1>2, <1>3, <1>5, LoseFights, FightsNarrowInv
<1>6. \A F \in found : Solid(F)' <=> Solid(F)
  BY <1>1 DEF Solid, Droppable, Rivals, Tied
<1>7. \A p : AllSolid(p)' <=> AllSolid(p)
  BY <1>1, <1>6 DEF AllSolid
<1>8. Originate(Pieces) /\ found \subseteq Findings /\ Held
  BY DEF NarrowInv
<1>9. ASSUME Pieces' = Pieces PROVE Originate(Pieces)' /\ (found \subseteq Findings)' /\ Held'
  BY <1>1, <1>7, <1>8, <1>9 DEF Originate, Held
<1>10. CASE Accept
  <2>1. queue # <<>> /\ FirstOverlap(Head(queue)) = {}
    BY <1>10 DEF Accept
  <2>2. Pieces' = Pieces
    BY <1>3, <1>10, SweptAccept
  <2>3. PICK t \in Nat : s <= t /\ (Head(queue).from >= s => t = Head(queue).from) /\ SweptTo(t)'
    BY <1>3, <1>10, SweptAccept
  <2>4. PICK c : c = Head(queue)
    OBVIOUS
  <2>5. c \in ToSet(queue) /\ c \in Findings
    BY <2>1, <2>4, HeadFacts
  <2>6. ToSet(accepted) \subseteq Pieces /\ \A v \in ToSet(accepted) : ~Overlap(v, c)
    <3>1. \A i \in 1..Len(accepted) : ~Overlap(accepted[i], c)
      BY <2>1, <2>4, <2>5, NoneOverlaps, SequenceFacts DEF ResolveInv
    <3> QED
      BY <3>1, SequenceFacts DEF ToSet
  <2>7. ASSUME NEW F \in found, Solid(F)
        PROVE  Followed(Pieces', ToSet(queue'), ToSet(accepted'), F, t)
    <3>1. Followed(Pieces, ToSet(queue), ToSet(accepted), F, s) /\ F \in Findings
      BY <1>2, <1>8, <2>7 DEF Sweeping
    <3>2. Followed(Pieces, ToSet(queue'), ToSet(accepted'), F, t)
      BY <1>8, <2>3, <2>4, <2>5, <2>6, <3>1, FollowedAccept
    <3> QED
      BY <2>2, <3>2
  <2>8. Sweeping(t)'
    <3>1. \A F \in found' : Solid(F)' => Followed(Pieces', ToSet(queue'), ToSet(accepted'), F, t)
      BY <1>1, <1>6, <2>7
    <3> QED
      BY <2>3, <3>1 DEF Sweeping, Followed, Ahead, Untouched, Safe
  <2> QED
    BY <1>9, <2>2, <2>8 DEF NarrowInv
<1>11. CASE UNCHANGED vars
  <2>1. queue' = queue /\ accepted' = accepted
    BY <1>11 DEF vars
  <2>2. Pieces' = Pieces
    BY <2>1 DEF Pieces
  <2>3. Sweeping(s)'
    <3>1. \A F \in found' : Solid(F)' => Followed(Pieces', ToSet(queue'), ToSet(accepted'), F, s)
      BY <1>1, <1>2, <1>6, <2>1, <2>2 DEF Sweeping
    <3>2. SweptTo(s)'
      BY <1>3, <2>1 DEF SweptTo
    <3> QED
      BY <3>1, <3>2 DEF Sweeping, Followed, Ahead, Untouched, Safe
  <2> QED
    BY <1>9, <2>2, <2>3 DEF NarrowInv
<1> QED
  BY <1>4, <1>5, <1>10, <1>11 DEF Next

\* The accepted findings that cover a character are one.
LEMMA OneCovers ==
    ASSUME ResolveInv, NEW g \in ToSet(accepted), NEW h \in ToSet(accepted),
           NEW p \in Positions(g), p \in Positions(h)
    PROVE  g = h
<1>1. /\ DOMAIN accepted = 1..Len(accepted)
      /\ \A i \in 1..Len(accepted) : accepted[i] \in Findings
            /\ accepted[i].from \in Nat /\ accepted[i].to \in Nat
  BY SequenceFacts
<1>2. PICK i \in 1..Len(accepted), j \in 1..Len(accepted) : g = accepted[i] /\ h = accepted[j]
  BY <1>1 DEF ToSet
<1>3. p \in Nat /\ g.from <= p /\ p < g.to /\ h.from <= p /\ p < h.to
  BY <1>1, <1>2 DEF Positions
<1>4. CASE i < j
  BY <1>1, <1>2, <1>3, <1>4 DEF ResolveInv, Apart
<1>5. CASE j < i
  BY <1>1, <1>2, <1>3, <1>5 DEF ResolveInv, Apart
<1> QED
  BY <1>2, <1>4, <1>5

\* When the queue is empty a piece is an accepted finding.
LEMMA ResolvedPieces ==
    ASSUME ResolveInv, Resolved
    PROVE  Pieces = ToSet(accepted)
<1>1. ToSet(queue) = {}
  BY DEF Resolved, ToSet
<1> QED
  BY <1>1, SequenceFacts

\* With nothing queued, what is held is redacted, by one finding: by the strongest.
LEMMA InvNarrowed == ResolveInv /\ NarrowInv => NarrowedNotDropped
<1> SUFFICES ASSUME ResolveInv, NarrowInv, Resolved, NEW p \in 0..(Length - 1),
                    FoundAs(p) # {}, \A f \in found : p \in Positions(f) => Solid(f)
             PROVE  \E n \in RedactedAs(p) : \A m \in FoundAs(p) : n <= m
  BY DEF NarrowedNotDropped
<1>1. \A f \in found : p \in Positions(f) =>
        \E g \in ToSet(accepted) : p \in Positions(g)
                                    /\ Priority[g.category] <= Priority[f.category]
  BY ResolvedPieces DEF NarrowInv, Held, AllSolid
<1>2. PICK f \in found : p \in Positions(f)
  BY DEF FoundAs
<1>3. PICK g \in ToSet(accepted) : p \in Positions(g)
  BY <1>1, <1>2
<1>4. Priority[g.category] \in RedactedAs(p)
  BY <1>3 DEF RedactedAs
<1>5. ASSUME NEW m \in FoundAs(p) PROVE Priority[g.category] <= m
  <2>1. PICK e \in found : p \in Positions(e) /\ m = Priority[e.category]
    BY <1>5 DEF FoundAs
  <2>2. PICK h \in ToSet(accepted) : p \in Positions(h)
                                      /\ Priority[h.category] <= Priority[e.category]
    BY <1>1, <2>1
  <2>3. h = g
    BY <1>3, <2>2, OneCovers
  <2> QED
    BY <2>1, <2>2, <2>3
<1> QED
  BY <1>4, <1>5

\* The invariant begins with the loop.
LEMMA InitNarrowInv == Init => NarrowInv
BY InitResolveInv, StartNarrowInv DEF Init

\* Both passes begin so; what is done between them and after does not matter.
LEMMA DetectNarrowInv ==
    ResolveInv /\ BelowInv /\ NarrowInv /\ [DetectNext]_<<vars, thresholdVars>> => NarrowInv'
<1>1. (ResolveInv /\ accepted = <<>> /\ found = ToSet(queue) => NarrowInv)'
  BY StartNarrowInv, PTL
<1> SUFFICES ASSUME ResolveInv, BelowInv, NarrowInv, [DetectNext]_<<vars, thresholdVars>>
             PROVE  NarrowInv'
  OBVIOUS
<1>2. CASE KeepPassing
  <2>1. ResolveInv'
    BY NextDetectInv
  <2>2. accepted' = <<>> /\ found' = ToSet(queue')
    BY <1>2 DEF KeepPassing
  <2> QED
    BY <1>1, <2>1, <2>2
<1>3. CASE Resolve
  BY <1>3, NextNarrowInv DEF Resolve
<1>4. CASE ReportSuppressed
  BY <1>4, NextNarrowInv DEF ReportSuppressed, vars
<1>5. CASE UNCHANGED <<vars, thresholdVars>>
  BY <1>5, NextNarrowInv
<1> QED
  BY <1>2, <1>3, <1>4, <1>5 DEF DetectNext

----------------------------------------------------------------------------
(* What a threshold leaves in the clear *)

\* How far the kept findings reach, when they reached to c without the n-th.
Further(c, n) == IF kept[n].from <= c /\ c < kept[n].to THEN kept[n].to ELSE c

\* The loop of isCovered can be run, for any number of findings...
LEMMA CursorExists ==
    ASSUME NEW f, NEW N \in Nat
    PROVE  \E g : g = [n \in 0..N |-> IF n = 0 THEN f.from ELSE Further(g[n - 1], n)]
<1> DEFINE Run(g, k) == g = [n \in 0..k |-> IF n = 0 THEN f.from ELSE Further(g[n - 1], n)]
           S == {k \in Nat : ~\E g : Run(g, k)}
<1>1. SUFFICES ASSUME S # {} PROVE FALSE
  BY <1>1
<1>2. PICK k \in S : \A j \in S : k <= j
  <2>1. S \subseteq Nat
    OBVIOUS
  <2> HIDE DEF S
  <2> QED
    BY <1>1, <2>1, LeastExists
<1>3. k \in Nat /\ ~\E g : Run(g, k)
  BY <1>2
<1>4. CASE k = 0
  <2> DEFINE g == [n \in 0..0 |-> f.from]
  <2>1. Run(g, 0)
    OBVIOUS
  <2> QED
    BY <1>3, <1>4, <2>1
<1>5. CASE k # 0
  <2>1. k - 1 \in Nat /\ k - 1 \notin S
    BY <1>2, <1>3, <1>5
  <2>2. PICK g : Run(g, k - 1)
    BY <2>1
  <2> DEFINE h == [n \in 0..k |-> IF n = k THEN Further(g[k - 1], k) ELSE g[n]]
  <2>3. \A n \in 0..(k - 1) : g[n] = IF n = 0 THEN f.from ELSE Further(g[n - 1], n)
    BY <2>2
  <2>4. ASSUME NEW n \in 0..k
        PROVE  h[n] = IF n = 0 THEN f.from ELSE Further(h[n - 1], n)
    <3>1. CASE n = k
      <4>1. h[n] = Further(g[k - 1], k) /\ n - 1 \in 0..k /\ n - 1 # k
        BY <1>3, <1>5, <3>1
      <4>2. h[n - 1] = g[k - 1]
        BY <3>1, <4>1
      <4> QED
        BY <1>5, <3>1, <4>1, <4>2
    <3>2. CASE n = 0
      <4>1. 0 \in 0..(k - 1) /\ h[0] = g[0]
        BY <1>3, <1>5
      <4> QED
        BY <2>3, <3>2, <4>1
    <3>3. CASE n # k /\ n # 0
      <4>1. n \in 0..(k - 1) /\ n - 1 \in 0..k /\ n - 1 # k
        BY <1>3, <3>3
      <4>2. h[n] = g[n] /\ h[n - 1] = g[n - 1]
        BY <3>3, <4>1
      <4> QED
        BY <2>3, <3>3, <4>1, <4>2
    <3> QED
      BY <3>1, <3>2, <3>3
  <2>5. h = [n \in 0..k |-> h[n]]
    OBVIOUS
  <2> HIDE DEF h
  <2>6. h = [n \in 0..k |-> IF n = 0 THEN f.from ELSE Further(h[n - 1], n)]
    BY <2>4, <2>5
  <2> QED
    BY <1>3, <2>6
<1> QED
  BY <1>4, <1>5

\* ...and tells whether one is covered.
Reaches(cursor, f) ==
    /\ cursor[0] = f.from
    /\ \A n \in 1..Len(kept) : cursor[n] = Further(cursor[n - 1], n)

\* What isCovered finds is where such a run ends.
LEMMA CoveredReaches ==
    ASSUME NEW f, Len(kept) \in Nat
    PROVE  \E cursor : Reaches(cursor, f) /\ (IsCovered(f) <=> cursor[Len(kept)] >= f.to)
<1> DEFINE cursor[n \in 0..Len(kept)] ==
             IF n = 0 THEN f.from
             ELSE IF kept[n].from <= cursor[n - 1] /\ cursor[n - 1] < kept[n].to
                  THEN kept[n].to ELSE cursor[n - 1]
<1>1. IsCovered(f) <=> cursor[Len(kept)] >= f.to
  BY DEF IsCovered
<1>2. cursor = CHOOSE g : g = [n \in 0..Len(kept) |-> IF n = 0 THEN f.from ELSE Further(g[n - 1], n)]
  BY DEF Further
<1>3. PICK g : g = [n \in 0..Len(kept) |-> IF n = 0 THEN f.from ELSE Further(g[n - 1], n)]
  BY CursorExists
<1> HIDE DEF cursor
<1>4. cursor = [n \in 0..Len(kept) |-> IF n = 0 THEN f.from ELSE Further(cursor[n - 1], n)]
  BY <1>2, <1>3, Zenon
<1>5. Reaches(cursor, f)
  BY <1>4 DEF Reaches
<1> QED
  BY <1>1, <1>5

\* What is kept is in order and apart.
KeptInv ==
    /\ kept \in Seq(Findings)
    /\ \A i, j \in 1..Len(kept) : i < j => kept[i].to <= kept[j].from

\* The cursor is a number, and only goes on.
LEMMA CursorGoesOn ==
    ASSUME KeptInv, NEW f \in Findings, NEW cursor, Reaches(cursor, f)
    PROVE  /\ \A n \in 0..Len(kept) : cursor[n] \in Nat
           /\ \A n \in 1..Len(kept) : cursor[n - 1] <= cursor[n]
           /\ \A m, n \in 0..Len(kept) : m <= n => cursor[m] <= cursor[n]
<1>1. /\ Len(kept) \in Nat
      /\ \A n \in 1..Len(kept) : kept[n].from \in Nat /\ kept[n].to \in Nat
  BY FindingFields DEF KeptInv
<1>2. cursor[0] \in Nat /\ \A n \in 1..Len(kept) : cursor[n] = Further(cursor[n - 1], n)
  BY FindingFields DEF Reaches
<1>3. \A n \in 0..Len(kept) : cursor[n] \in Nat
  <2> DEFINE S == {n \in 0..Len(kept) : cursor[n] \notin Nat}
  <2>1. SUFFICES ASSUME S # {} PROVE FALSE
    OBVIOUS
  <2>2. PICK k \in S : \A j \in S : k <= j
    <3>1. S \subseteq Nat
      BY <1>1
    <3> HIDE DEF S
    <3> QED
      BY <2>1, <3>1, LeastExists
  <2>3. k \in 1..Len(kept) /\ k - 1 \in 0..Len(kept) /\ cursor[k] \notin Nat
    BY <1>1, <1>2
  <2>4. cursor[k - 1] \in Nat
    BY <2>2, <2>3
  <2> QED
    BY <1>1, <1>2, <2>3, <2>4 DEF Further
<1>4. \A n \in 1..Len(kept) : cursor[n - 1] <= cursor[n]
  BY <1>1, <1>2, <1>3 DEF Further
<1>5. ASSUME NEW m \in 0..Len(kept), NEW n \in 0..Len(kept), m <= n
      PROVE  cursor[m] <= cursor[n]
  <2> DEFINE S == {k \in m..Len(kept) : ~(cursor[m] <= cursor[k])}
  <2>1. SUFFICES ASSUME S # {} PROVE FALSE
    <3>1. SUFFICES ASSUME S = {} PROVE cursor[m] <= cursor[n]
      BY <2>1
    <3>2. n \in m..Len(kept) /\ n \notin S
      BY <1>1, <1>5, <3>1
    <3> QED
      BY <3>2
  <2>2. PICK k \in S : \A j \in S : k <= j
    <3>1. S \subseteq Nat
      BY <1>1
    <3> HIDE DEF S
    <3> QED
      BY <2>1, <3>1, LeastExists
  <2>3. k \in m..Len(kept) /\ ~(cursor[m] <= cursor[k])
    BY <2>2
  <2>4. k # m
    BY <1>3, <2>3
  <2>5. k - 1 \in m..Len(kept) /\ k - 1 \notin S /\ k \in 1..Len(kept)
    BY <1>1, <2>2, <2>3, <2>4
  <2>6. cursor[m] <= cursor[k - 1] /\ cursor[k - 1] <= cursor[k]
    BY <1>4, <2>5
  <2>7. cursor[m] \in Nat /\ cursor[k] \in Nat /\ cursor[k - 1] \in Nat
    BY <1>1, <1>3, <2>3, <2>5
  <2> QED
    BY <2>3, <2>6, <2>7
<1> QED
  BY <1>3, <1>4, <1>5

\* All that the cursor has passed is kept.
LEMMA PassedIsSpanned ==
    ASSUME KeptInv, NEW f \in Findings, NEW cursor, Reaches(cursor, f),
           NEW n \in 0..Len(kept), NEW p \in Nat, f.from <= p, p < cursor[n]
    PROVE  p \in Spanned(kept)
<1> DEFINE S == {k \in 0..Len(kept) : p < cursor[k]}
<1>1. /\ Len(kept) \in Nat
      /\ DOMAIN kept = 1..Len(kept)
      /\ \A k \in 1..Len(kept) : kept[k].from \in Nat /\ kept[k].to \in Nat
  BY FindingFields DEF KeptInv
<1>2. PICK k \in S : \A j \in S : k <= j
  <2>1. S \subseteq Nat /\ n \in S
    BY <1>1
  <2> HIDE DEF S
  <2> QED
    BY <2>1, LeastExists
<1>3. k \in 1..Len(kept) /\ k - 1 \in 0..Len(kept) /\ p < cursor[k]
  <2>1. k # 0
    BY FindingFields DEF Reaches
  <2> QED
    BY <1>1, <2>1
<1>4. cursor[k] = Further(cursor[k - 1], k) /\ cursor[k - 1] \in Nat
  BY <1>3, CursorGoesOn DEF Reaches
<1>5. ~(p < cursor[k - 1])
  BY <1>2, <1>3
<1>6. kept[k].from <= p /\ p < kept[k].to
  BY <1>1, <1>3, <1>4, <1>5 DEF Further
<1>7. kept[k] \in ToSet(kept) /\ p \in kept[k].from..(kept[k].to - 1)
  BY <1>1, <1>3, <1>6 DEF ToSet
<1> QED
  BY <1>7 DEF Spanned

\* Where all of a finding is kept, the cursor passes it.
LEMMA SpannedIsPassed ==
    ASSUME KeptInv, NEW f \in Findings, NEW cursor, Reaches(cursor, f),
           f.from..(f.to - 1) \subseteq Spanned(kept)
    PROVE  cursor[Len(kept)] >= f.to
<1> DEFINE N == Len(kept)
           c == cursor[N]
           S == {i \in 1..N : kept[i].from > cursor[i - 1]}
<1>1. /\ N \in Nat
      /\ DOMAIN kept = 1..N
      /\ \A i \in 1..N : /\ kept[i].from \in Nat /\ kept[i].to \in Nat
                         /\ kept[i].from < kept[i].to
  BY FindingFields DEF KeptInv
<1>2. /\ \A n \in 0..N : cursor[n] \in Nat
      /\ \A m, n \in 0..N : m <= n => cursor[m] <= cursor[n]
  BY CursorGoesOn
<1>3. /\ cursor[0] = f.from /\ f.from \in Nat /\ f.to \in Nat
      /\ \A n \in 1..N : cursor[n] = Further(cursor[n - 1], n)
  BY FindingFields DEF Reaches
<1>4. SUFFICES ASSUME c < f.to PROVE FALSE
  BY <1>1, <1>2, <1>3
<1>5. \A n \in 0..N : cursor[n] \in f.from..c
  BY <1>1, <1>2, <1>3
<1>6. ASSUME NEW n \in 0..N
      PROVE  \E j \in 1..N : kept[j].from <= cursor[n] /\ cursor[n] < kept[j].to
  <2>1. cursor[n] \in f.from..(f.to - 1)
    BY <1>1, <1>2, <1>3, <1>4, <1>5
  <2>2. PICK g \in ToSet(kept) : cursor[n] \in g.from..(g.to - 1)
    BY <2>1 DEF Spanned
  <2>3. PICK j \in 1..N : g = kept[j]
    BY <1>1, <2>2 DEF ToSet
  <2>4. kept[j].from \in Nat /\ kept[j].to \in Nat /\ cursor[n] \in Nat
    BY <1>1, <1>2
  <2>5. cursor[n] \in kept[j].from..(kept[j].to - 1)
    BY <2>2, <2>3
  <2> QED
    BY <2>4, <2>5
<1>7. ASSUME NEW n \in 0..N, NEW j \in 1..N, kept[j].from <= cursor[n], cursor[n] < kept[j].to,
             j <= n
      PROVE  j \in S
  <2>1. j - 1 \in 0..N /\ j \in 0..N /\ cursor[j - 1] <= cursor[n] /\ cursor[j] <= cursor[n]
    BY <1>1, <1>2, <1>7
  <2>2. CASE kept[j].from <= cursor[j - 1]
    <3>1. cursor[j] = kept[j].to
      BY <1>1, <1>2, <1>3, <1>7, <2>1, <2>2 DEF Further
    <3> QED
      BY <1>1, <1>2, <1>7, <2>1, <3>1
  <2> QED
    BY <1>1, <1>2, <2>1, <2>2
<1>8. S # {}
  <2>1. PICK j \in 1..N : kept[j].from <= cursor[N] /\ cursor[N] < kept[j].to
    BY <1>1, <1>6
  <2> QED
    BY <1>1, <1>7, <2>1
<1>9. PICK i \in S : \A j \in S : i <= j
  <2>1. S \subseteq Nat
    OBVIOUS
  <2> HIDE DEF S
  <2> QED
    BY <1>8, <2>1, LeastExists
<1>10. i \in 1..N /\ i - 1 \in 0..N /\ kept[i].from > cursor[i - 1]
  BY <1>1
<1>11. PICK j \in 1..N : kept[j].from <= cursor[i - 1] /\ cursor[i - 1] < kept[j].to
  BY <1>6, <1>10
<1>12. j < i
  <2>1. i < j => kept[i].to <= kept[j].from
    BY <1>10 DEF KeptInv
  <2> QED
    BY <1>1, <1>2, <1>10, <1>11, <2>1
<1>13. j \in S
  BY <1>7, <1>10, <1>11, <1>12
<1> QED
  BY <1>9, <1>10, <1>12, <1>13

\* isCovered tells whether all of a finding is kept.
LEMMA CoveredIsSpanned ==
    ASSUME KeptInv, NEW f \in Findings
    PROVE  IsCovered(f) <=> f.from..(f.to - 1) \subseteq Spanned(kept)
<1>1. Len(kept) \in Nat
  BY DEF KeptInv
<1>2. PICK cursor : Reaches(cursor, f) /\ (IsCovered(f) <=> cursor[Len(kept)] >= f.to)
  BY <1>1, CoveredReaches
<1>3. ASSUME IsCovered(f), NEW p \in f.from..(f.to - 1) PROVE p \in Spanned(kept)
  <2>1. p \in Nat /\ f.from <= p /\ p < f.to /\ f.to \in Nat
    BY FindingFields
  <2>2. cursor[Len(kept)] \in Nat /\ Len(kept) \in 0..Len(kept)
    BY <1>1, <1>2, CursorGoesOn
  <2>3. p < cursor[Len(kept)]
    BY <1>2, <1>3, <2>1, <2>2
  <2> QED
    BY <1>2, <2>1, <2>2, <2>3, PassedIsSpanned
<1>4. ASSUME f.from..(f.to - 1) \subseteq Spanned(kept) PROVE IsCovered(f)
  BY <1>2, <1>4, SpannedIsPassed
<1> QED
  BY <1>3, <1>4

\* Once the second pass is done, so is all.
DoneInv ==
    /\ KeptInv
    /\ pass = "done" => Resolved
    /\ SuppressedIsWhatIsLeft

\* What is reported in the end is what the threshold left in the clear.
LEMMA ReportsWhatIsLeft ==
    ASSUME ResolveInv, NarrowInv, KeptInv, ReportSuppressed
    PROVE  SuppressedIsWhatIsLeft'
<1>1. /\ Resolved
      /\ suppressed' = {f \in ToSet(accepted) : ~IsCovered(f)}
      /\ found' = found /\ kept' = kept
  BY DEF ReportSuppressed
<1>2. ToSet(accepted) \subseteq Findings /\ ToSet(accepted) = Pieces
  <2>1. Pieces \subseteq Findings
    BY DEF NarrowInv, Originate
  <2> QED
    BY <1>1, <2>1, ResolvedPieces
<1>3. \A f \in ToSet(accepted) : IsCovered(f) <=> f.from..(f.to - 1) \subseteq Spanned(kept)
  BY <1>2, CoveredIsSpanned
<1>4. ASSUME NEW p \in (0..(Length - 1)) \ Spanned(kept), FoundAs(p) # {},
             \A f \in found : p \in Positions(f) => Solid(f)
      PROVE  \E s \in suppressed' : p \in Positions(s)
  <2>1. PICK f \in found : p \in Positions(f)
    BY <1>4 DEF FoundAs
  <2>2. PICK g \in ToSet(accepted) : p \in Positions(g)
    BY <1>2, <1>4, <2>1 DEF NarrowInv, Held, AllSolid
  <2>3. p \in g.from..(g.to - 1)
    BY <2>2 DEF Positions
  <2>4. ~IsCovered(g)
    BY <1>3, <1>4, <2>2, <2>3
  <2> QED
    BY <1>1, <2>2, <2>4
<1>5. ASSUME NEW s \in suppressed' PROVE ~(s.from..(s.to - 1) \subseteq Spanned(kept))
  BY <1>1, <1>3, <1>5
<1>6. \A f \in found : Solid(f)' <=> Solid(f)
  BY <1>1 DEF Solid, Droppable, Rivals, Tied
<1>7. \A p : FoundAs(p)' = FoundAs(p)
  BY <1>1 DEF FoundAs
<1> QED
  BY <1>1, <1>4, <1>5, <1>6, <1>7 DEF SuppressedIsWhatIsLeft, Spanned

\* Nothing is reported before.
LEMMA InitDoneInv == DetectInit => DoneInv
<1> SUFFICES ASSUME DetectInit PROVE DoneInv
  OBVIOUS
<1>1. kept = <<>> /\ pass = "passing"
  BY DEF DetectInit
<1> QED
  BY <1>1 DEF DoneInv, KeptInv, SuppressedIsWhatIsLeft

\* Nothing happens after that.
LEMMA NextDoneInv ==
    ResolveInv /\ NarrowInv /\ DoneInv /\ [DetectNext]_<<vars, thresholdVars>> => DoneInv'
<1> SUFFICES ASSUME ResolveInv, NarrowInv, DoneInv, [DetectNext]_<<vars, thresholdVars>>
             PROVE  DoneInv'
  OBVIOUS
<1>1. KeptInv /\ (pass = "done" => Resolved) /\ SuppressedIsWhatIsLeft
  BY DEF DoneInv
<1>2. ASSUME kept' = kept PROVE KeptInv'
  BY <1>1, <1>2 DEF KeptInv
<1>3. CASE Resolve
  <2>1. queue # <<>> /\ kept' = kept /\ pass' = pass
    BY <1>3 DEF Resolve, Next, Accept, Displace, Lose, thresholdVars
  <2>2. pass' # "done"
    BY <1>1, <2>1 DEF Resolved
  <2> QED
    BY <1>2, <2>1, <2>2 DEF DoneInv, SuppressedIsWhatIsLeft
<1>4. CASE KeepPassing
  <2>1. pass' = "below" /\ kept' = accepted
    BY <1>4 DEF KeepPassing
  <2>2. accepted \in Seq(Findings)
    BY TracedIsFinding DEF ResolveInv
  <2>3. KeptInv'
    BY <2>1, <2>2 DEF KeptInv, ResolveInv, Apart
  <2> QED
    BY <2>1, <2>3 DEF DoneInv, SuppressedIsWhatIsLeft
<1>5. CASE ReportSuppressed
  <2>1. kept' = kept /\ queue' = queue /\ Resolved
    BY <1>5 DEF ReportSuppressed
  <2>2. Resolved'
    BY <2>1 DEF Resolved
  <2>3. SuppressedIsWhatIsLeft'
    BY <1>1, <1>5, ReportsWhatIsLeft
  <2> QED
    BY <1>2, <2>1, <2>2, <2>3 DEF DoneInv
<1>6. CASE UNCHANGED <<vars, thresholdVars>>
  <2>1. UNCHANGED <<queue, accepted, found, kept, suppressed, pass>>
    BY <1>6 DEF vars, thresholdVars
  <2>2. SuppressedIsWhatIsLeft'
    <3>1. \A f \in found : Solid(f)' <=> Solid(f)
      BY <2>1 DEF Solid, Droppable, Rivals, Tied
    <3>2. \A p : FoundAs(p)' = FoundAs(p)
      BY <2>1 DEF FoundAs
    <3> QED
      BY <1>1, <2>1, <3>1, <3>2 DEF SuppressedIsWhatIsLeft, Spanned
  <2> QED
    BY <1>1, <1>2, <2>1, <2>2 DEF DoneInv, Resolved
<1> QED
  BY <1>3, <1>4, <1>5, <1>6 DEF DetectNext

----------------------------------------------------------------------------
(* How far the loop is from its end *)

\* A value carried over the steps from 1 to N.
IsRun(g, V, first, N, step) ==
    /\ g \in [0..N -> V] /\ g[0] = first
    /\ \A n \in 1..N : g[n] = step[<<g[n - 1], n>>]

\* It can be, over any number of steps.
LEMMA RunExists ==
    ASSUME NEW V, NEW first \in V, NEW N \in Nat, NEW step \in [V \X (1..N) -> V]
    PROVE  \E g : IsRun(g, V, first, N, step)
<1> DEFINE Run(g, k) == /\ g \in [0..k -> V] /\ g[0] = first
                        /\ \A n \in 1..k : g[n] = step[<<g[n - 1], n>>]
           S == {k \in 0..N : ~\E g : Run(g, k)}
<1>1. SUFFICES ASSUME S # {} PROVE FALSE
  <2>1. SUFFICES ASSUME S = {} PROVE \E g : Run(g, N)
    BY <1>1 DEF IsRun
  <2>2. N \in 0..N
    OBVIOUS
  <2>3. N \notin S
    <3> HIDE DEF S
    <3> QED
      BY <2>1
  <2> QED
    BY <2>2, <2>3
<1>2. PICK k \in S : \A j \in S : k <= j
  <2>1. S \subseteq Nat
    OBVIOUS
  <2> HIDE DEF S
  <2> QED
    BY <1>1, <2>1, LeastExists
<1>3. k \in 0..N /\ ~\E g : Run(g, k)
  BY <1>2
<1>4. CASE k = 0
  <2>1. Run([n \in 0..0 |-> first], 0)
    OBVIOUS
  <2> QED
    BY <1>3, <1>4, <2>1
<1>5. CASE k # 0
  <2>1. k - 1 \in 0..N /\ k - 1 \notin S
    BY <1>2, <1>3, <1>5
  <2>2. PICK g : Run(g, k - 1)
    BY <2>1
  <2>3. /\ g \in [0..(k - 1) -> V] /\ g[0] = first
        /\ \A n \in 1..(k - 1) : g[n] = step[<<g[n - 1], n>>]
    BY <2>2
  <2> DEFINE next == step[<<g[k - 1], k>>]
             h == [n \in 0..k |-> IF n = k THEN next ELSE g[n]]
  <2>4. next \in V
    BY <1>3, <1>5, <2>3
  <2> HIDE DEF next
  <2>5. h \in [0..k -> V] /\ h[0] = first
    <3>1. \A n \in 0..k : n # k => n \in 0..(k - 1)
      BY <1>3
    <3>2. \A n \in 0..k : h[n] \in V
      BY <2>3, <2>4, <3>1
    <3>3. 0 \in 0..k /\ 0 # k
      BY <1>3, <1>5
    <3> QED
      BY <2>3, <3>2, <3>3
  <2>6. ASSUME NEW n \in 1..k PROVE h[n] = step[<<h[n - 1], n>>]
    <3>1. h[n - 1] = g[n - 1]
      <4>1. n - 1 \in 0..k /\ n - 1 # k
        BY <1>3
      <4> QED
        BY <4>1
    <3>2. CASE n = k
      <4>1. h[n] = next
        BY <3>2
      <4> QED
        BY <3>1, <3>2, <4>1 DEF next
    <3>3. CASE n # k
      <4>1. n \in 1..(k - 1) /\ h[n] = g[n]
        BY <1>3, <3>3
      <4> QED
        BY <2>3, <3>1, <4>1
    <3> QED
      BY <3>2, <3>3
  <2> HIDE DEF h
  <2>7. Run(h, k)
    BY <2>5, <2>6
  <2> QED
    BY <1>3, <2>7
<1> QED
  BY <1>4, <1>5

\* What each length is worth.
LEMMA WeightFacts ==
    /\ Weight \in [0..Length -> Nat] /\ Weight[0] = 1
    /\ \A n \in 1..Length : Weight[n] = 3 * Weight[n - 1]
<1> DEFINE step == [x \in Nat \X (1..Length) |-> 3 * x[1]]
           Grows(g) == g = [n \in 0..Length |-> IF n = 0 THEN 1 ELSE 3 * g[n - 1]]
<1>1. Length \in Nat
  BY CollisionAssumption
<1>2. step \in [Nat \X (1..Length) -> Nat]
  OBVIOUS
<1>3. \A m \in Nat, n \in 1..Length : step[<<m, n>>] = 3 * m
  OBVIOUS
<1> HIDE DEF step
<1>4. PICK g : IsRun(g, Nat, 1, Length, step)
  BY <1>1, <1>2, RunExists
<1>5. ASSUME NEW n \in 0..Length PROVE g[n] = IF n = 0 THEN 1 ELSE 3 * g[n - 1]
  <2>1. CASE n = 0
    BY <1>4, <2>1 DEF IsRun
  <2>2. CASE n # 0
    <3>1. n \in 1..Length /\ n - 1 \in 0..Length
      BY <1>1, <2>2
    <3>2. g[n - 1] \in Nat /\ g[n] = step[<<g[n - 1], n>>]
      BY <1>4, <3>1 DEF IsRun
    <3> QED
      BY <1>3, <2>2, <3>1, <3>2
  <2> QED
    BY <2>1, <2>2
<1>6. Grows(g)
  <2>1. g = [n \in 0..Length |-> g[n]]
    BY <1>4 DEF IsRun
  <2> QED
    BY <1>5, <2>1
<1>7. Weight = CHOOSE h : Grows(h)
  BY DEF Weight
<1>8. Grows(Weight)
  <2> HIDE DEF Grows
  <2> QED
    BY <1>6, <1>7, Zenon
<1>9. \A n \in 0..Length : Weight[n] = IF n = 0 THEN 1 ELSE 3 * Weight[n - 1]
  BY <1>8
<1>10. DOMAIN Weight = 0..Length /\ Weight = [n \in 0..Length |-> Weight[n]]
  BY <1>8
<1>11. Weight[0] = 1 /\ \A n \in 1..Length : Weight[n] = 3 * Weight[n - 1]
  BY <1>1, <1>9
<1> DEFINE S == {n \in 0..Length : Weight[n] \notin Nat}
<1>12. S = {}
  <2> SUFFICES ASSUME S # {} PROVE FALSE
    OBVIOUS
  <2>1. PICK n \in S : \A m \in S : n <= m
    <3>1. S \subseteq Nat
      OBVIOUS
    <3> HIDE DEF S
    <3> QED
      BY <3>1, LeastExists
  <2>2. n # 0
    BY <1>11, <2>1
  <2>3. n - 1 \in 0..Length /\ n - 1 \notin S
    BY <1>1, <2>1, <2>2
  <2>4. Weight[n] = 3 * Weight[n - 1] /\ Weight[n - 1] \in Nat
    BY <1>1, <1>11, <2>1, <2>2, <2>3
  <2> QED
    BY <2>1, <2>4
<1> QED
  BY <1>10, <1>11, <1>12

\* "Replaces one with strictly shorter parts": of which two may be left, so a length
\* is worth more than two of any shorter one.
LEMMA TwoShorterAreLess ==
    ASSUME NEW n \in 0..Length, NEW m \in 0..Length, m < n
    PROVE  Weight[m] \in Nat /\ Weight[n] \in Nat /\ 2 * Weight[m] < Weight[n]
<1> DEFINE Heavy(k) == Weight[k] > 0 /\ \A l \in 0..(k - 1) : 2 * Weight[l] < Weight[k]
           S == {k \in 0..Length : ~Heavy(k)}
<1>1. Length \in Nat /\ \A k \in 0..Length : Weight[k] \in Nat
  BY WeightFacts, CollisionAssumption
<1>2. S = {}
  <2> SUFFICES ASSUME S # {} PROVE FALSE
    OBVIOUS
  <2>1. PICK k \in S : \A l \in S : k <= l
    <3>1. S \subseteq Nat
      OBVIOUS
    <3> HIDE DEF S
    <3> QED
      BY <3>1, LeastExists
  <2>2. k # 0
    BY <2>1, WeightFacts
  <2>3. k - 1 \in 0..Length /\ k - 1 \notin S
    BY <1>1, <2>1, <2>2
  <2>4. Weight[k] = 3 * Weight[k - 1]
    BY <2>1, <2>2, <1>1, WeightFacts
  <2>5. /\ Weight[k - 1] \in Nat /\ Weight[k - 1] > 0
        /\ \A l \in 0..((k - 1) - 1) : 2 * Weight[l] < Weight[k - 1]
    BY <1>1, <2>3
  <2>6. ASSUME NEW l \in 0..(k - 1) PROVE 2 * Weight[l] < Weight[k]
    <3>1. l \in 0..Length
      BY <1>1, <2>1
    <3>2. Weight[l] \in Nat
      BY <1>1, <3>1
    <3>3. CASE l = k - 1
      BY <2>4, <2>5, <3>3
    <3>4. CASE l # k - 1
      <4>1. l \in 0..((k - 1) - 1)
        BY <2>1, <3>4
      <4>2. 2 * Weight[l] < Weight[k - 1]
        BY <2>5, <4>1
      <4> QED
        BY <2>4, <2>5, <3>2, <4>2
    <3> QED
      BY <3>3, <3>4
  <2>7. Heavy(k)
    BY <2>4, <2>5, <2>6
  <2> QED
    BY <2>1, <2>7
<1> QED
  BY <1>1, <1>2

\* What a finding is worth.
Worth(f) == Weight[f.to - f.from]

\* A finding's length is one of the text's, and its worth a number.
LEMMA WorthIsNat ==
    ASSUME NEW f \in Findings
    PROVE  Worth(f) \in Nat /\ f.to - f.from \in 0..Length
<1>1. f.to - f.from \in 0..Length
  BY FindingFields, CollisionAssumption DEF Findings
<1> QED
  BY <1>1, WeightFacts DEF Worth

\* sum[n] is what the first n findings of s are worth.
IsCount(sum, s) ==
    /\ sum \in [0..Len(s) -> Nat] /\ sum[0] = 0
    /\ \A n \in 1..Len(s) : sum[n] = sum[n - 1] + Worth(s[n])

\* A load is a count's end.
LEMMA LoadCounts ==
    ASSUME NEW s \in Seq(Findings)
    PROVE  \E sum : IsCount(sum, s) /\ Load(s) = sum[Len(s)]
<1> DEFINE N == Len(s)
           step == [x \in Nat \X (1..N) |-> x[1] + Worth(s[x[2]])]
           Counts(g) == g = [n \in 0..N |-> IF n = 0 THEN 0
                                           ELSE g[n - 1] + Weight[s[n].to - s[n].from]]
           sum[n \in 0..Len(s)] == IF n = 0 THEN 0 ELSE sum[n - 1] + Weight[s[n].to - s[n].from]
<1>1. N \in Nat /\ \A n \in 1..N : s[n] \in Findings
  OBVIOUS
<1>2. \A n \in 1..N : Worth(s[n]) \in Nat
  BY <1>1, WorthIsNat
<1>3. step \in [Nat \X (1..N) -> Nat]
  BY <1>2
<1>4. \A m \in Nat, n \in 1..N : step[<<m, n>>] = m + Worth(s[n])
  OBVIOUS
<1>5. Load(s) = sum[Len(s)]
  BY DEF Load, Summed
<1>6. sum = CHOOSE g : Counts(g)
  OBVIOUS
<1> HIDE DEF step, sum, N
<1>7. PICK g : IsRun(g, Nat, 0, N, step)
  BY <1>1, <1>3, RunExists
<1>8. ASSUME NEW n \in 0..N
      PROVE  g[n] = IF n = 0 THEN 0 ELSE g[n - 1] + Weight[s[n].to - s[n].from]
  <2>1. CASE n = 0
    BY <1>7, <2>1 DEF IsRun
  <2>2. CASE n # 0
    <3>1. n \in 1..N /\ n - 1 \in 0..N
      BY <1>1, <2>2
    <3>2. g[n - 1] \in Nat /\ g[n] = step[<<g[n - 1], n>>]
      BY <1>7, <3>1 DEF IsRun
    <3>3. g[n] = g[n - 1] + Worth(s[n])
      BY <1>4, <3>1, <3>2
    <3> QED
      BY <2>2, <3>3 DEF Worth
  <2> QED
    BY <2>1, <2>2
<1>9. Counts(g)
  <2>1. g = [n \in 0..N |-> g[n]]
    BY <1>7 DEF IsRun
  <2> QED
    BY <1>8, <2>1
<1>10. Counts(sum)
  <2> HIDE DEF Counts
  <2> QED
    BY <1>6, <1>9, Zenon
<1>11. \A n \in 0..N : sum[n] = IF n = 0 THEN 0 ELSE sum[n - 1] + Weight[s[n].to - s[n].from]
  BY <1>10
<1>12. DOMAIN sum = 0..N /\ sum = [n \in 0..N |-> sum[n]]
  BY <1>10
<1> HIDE DEF Counts
<1>13. sum[0] = 0 /\ \A n \in 1..N : sum[n] = sum[n - 1] + Worth(s[n])
  BY <1>1, <1>11 DEF Worth
<1> DEFINE S == {n \in 0..N : sum[n] \notin Nat}
<1>14. S = {}
  <2> SUFFICES ASSUME S # {} PROVE FALSE
    OBVIOUS
  <2>1. PICK n \in S : \A m \in S : n <= m
    <3>1. S \subseteq Nat
      BY <1>1
    <3> HIDE DEF S
    <3> QED
      BY <3>1, LeastExists
  <2>2. n # 0
    BY <1>13, <2>1
  <2>3. n \in 1..N /\ n - 1 \in 0..N /\ n - 1 \notin S
    BY <1>1, <2>1, <2>2
  <2>4. sum[n] = sum[n - 1] + Worth(s[n]) /\ sum[n - 1] \in Nat
    BY <1>13, <2>3
  <2> QED
    BY <1>2, <2>1, <2>3, <2>4
<1>15. \A n \in 0..N : sum[n] \in Nat
  BY <1>14
<1>16. sum \in [0..N -> Nat]
  BY <1>12, <1>15
<1>17. IsCount(sum, s)
  BY <1>13, <1>16 DEF IsCount, N
<1> QED
  BY <1>5, <1>17

\* A load is a number.
LEMMA LoadIsNat ==
    ASSUME NEW s \in Seq(Findings)
    PROVE  Load(s) \in Nat
<1>1. PICK sum : IsCount(sum, s) /\ Load(s) = sum[Len(s)]
  BY LoadCounts
<1>2. Len(s) \in 0..Len(s)
  OBVIOUS
<1> QED
  BY <1>1, <1>2 DEF IsCount

\* A finding more is its worth more.
LEMMA LoadOfInserted ==
    ASSUME NEW s \in Seq(Findings), NEW i \in 1..(Len(s) + 1), NEW f \in Findings,
           NEW t, IsInserted(t, Findings, s, i, f)
    PROVE  Load(t) = Load(s) + Worth(f)
<1> DEFINE N == Len(s)
<1>1. /\ t \in Seq(Findings) /\ Len(t) = N + 1 /\ N \in Nat
      /\ \A j \in 1..(N + 1) : t[j] = IF j < i THEN s[j] ELSE IF j = i THEN f ELSE s[j - 1]
  BY DEF IsInserted
<1>2. PICK a : IsCount(a, s) /\ Load(s) = a[N]
  BY LoadCounts
<1>3. PICK b : IsCount(b, t) /\ Load(t) = b[N + 1]
  BY <1>1, LoadCounts
<1>4. /\ \A n \in 0..N : a[n] \in Nat
      /\ a[0] = 0 /\ \A n \in 1..N : a[n] = a[n - 1] + Worth(s[n])
  BY <1>2 DEF IsCount
<1>5. /\ \A n \in 0..(N + 1) : b[n] \in Nat
      /\ b[0] = 0 /\ \A n \in 1..(N + 1) : b[n] = b[n - 1] + Worth(t[n])
  BY <1>1, <1>3 DEF IsCount
<1>6. Worth(f) \in Nat /\ \A n \in 1..N : Worth(s[n]) \in Nat
  <2>1. \A n \in 1..N : s[n] \in Findings
    OBVIOUS
  <2> QED
    BY <2>1, WorthIsNat
<1> DEFINE Agree(n) == b[n] = IF n < i THEN a[n] ELSE a[n - 1] + Worth(f)
           S == {n \in 0..(N + 1) : ~Agree(n)}
<1> HIDE DEF N
<1>7. i \in 1..(N + 1)
  BY DEF N
<1>8. S = {}
  <2> SUFFICES ASSUME S # {} PROVE FALSE
    OBVIOUS
  <2>1. PICK n \in S : \A m \in S : n <= m
    <3>1. S \subseteq Nat
      BY <1>1
    <3> HIDE DEF S
    <3> QED
      BY <3>1, LeastExists
  <2>2. n # 0
    BY <1>4, <1>5, <1>7, <2>1
  <2>3. n \in 1..(N + 1) /\ n - 1 \in 0..(N + 1) /\ n - 1 \notin S
    BY <1>1, <2>1, <2>2
  <2>4. b[n - 1] = IF n - 1 < i THEN a[n - 1] ELSE a[(n - 1) - 1] + Worth(f)
    BY <2>3
  <2>5. b[n] = b[n - 1] + Worth(t[n])
    BY <1>5, <2>3
  <2>6. CASE n < i
    <3>1. n \in 1..N /\ n - 1 < i
      BY <1>1, <1>7, <2>3, <2>6
    <3>2. t[n] = s[n] /\ a[n] = a[n - 1] + Worth(s[n])
      BY <1>1, <1>4, <2>3, <2>6, <3>1
    <3> QED
      BY <2>1, <2>4, <2>5, <2>6, <3>1, <3>2
  <2>7. CASE n = i
    <3>1. t[n] = f /\ n - 1 < i
      BY <1>1, <1>7, <2>3, <2>7
    <3> QED
      BY <2>1, <2>4, <2>5, <2>7, <3>1
  <2>8. CASE n > i
    <3>1. n - 1 \in 1..N /\ (n - 1) - 1 \in 0..N /\ ~(n - 1 < i)
      BY <1>1, <1>7, <2>3, <2>8
    <3>2. t[n] = s[n - 1]
      BY <1>1, <1>7, <2>3, <2>8
    <3>3. a[n - 1] = a[(n - 1) - 1] + Worth(s[n - 1])
      BY <1>4, <3>1
    <3>4. b[n] = (a[(n - 1) - 1] + Worth(f)) + Worth(s[n - 1])
      BY <2>4, <2>5, <3>1, <3>2
    <3>5. a[(n - 1) - 1] \in Nat /\ Worth(s[n - 1]) \in Nat /\ Worth(f) \in Nat
      BY <1>4, <1>6, <3>1
    <3>6. b[n] = a[n - 1] + Worth(f)
      BY <3>3, <3>4, <3>5
    <3> QED
      BY <2>1, <2>8, <1>7, <3>6
  <2> QED
    BY <1>7, <2>3, <2>6, <2>7, <2>8
<1>9. N + 1 \in 0..(N + 1) /\ ~(N + 1 < i) /\ (N + 1) - 1 = N
  BY <1>1, <1>7
<1>10. Agree(N + 1)
  BY <1>8, <1>9
<1> QED
  BY <1>2, <1>3, <1>9, <1>10

\* A finding put in its place adds its worth.
LEMMA LoadOfPushed ==
    ASSUME NEW q \in Seq(Findings), NEW f \in Findings
    PROVE  /\ InsertSorted(q, f) \in Seq(Findings)
           /\ Load(InsertSorted(q, f)) = Load(q) + Worth(f)
<1> DEFINE t == InsertSorted(q, f)
<1>1. PICK k \in 1..(Len(q) + 1) : IsInserted(t, Findings, q, k, f)
  BY InsertSortedIndex
<1> HIDE DEF t
<1>2. t \in Seq(Findings) /\ Load(t) = Load(q) + Worth(f)
  BY <1>1, LoadOfInserted DEF IsInserted
<1> QED
  BY <1>2 DEF t

\* What is left of a loser is worth less than it was.
LEMMA LoadOfRest ==
    ASSUME NEW q \in Seq(Findings), NEW f \in Traced, NEW g \in Findings, Overlap(f, g)
    PROVE  Load(PushAll(q, Subtract(f, g))) < Load(q) + Worth(f)
<1> DEFINE parts == Subtract(f, g)
<1>1. /\ parts \in Seq(Findings) /\ Len(parts) \in 0..2
      /\ \A i \in 1..Len(parts) : parts[i] \in Findings /\ parts[i] \in ToSet(parts)
  BY PartsFacts
<1>2. f \in Findings
  BY TracedIsFinding
<1>3. \A i \in 1..Len(parts) : parts[i].to - parts[i].from < f.to - f.from
  BY <1>1, <1>2, PartsAreShorter
<1> SUFFICES Load(PushAll(q, parts)) < Load(q) + Worth(f)
  OBVIOUS
<1> HIDE DEF parts
<1>4. Load(q) \in Nat /\ Worth(f) \in Nat /\ f.to - f.from \in 0..Length
  BY <1>2, LoadIsNat, WorthIsNat
<1>5. ASSUME NEW i \in 1..Len(parts)
      PROVE  Worth(parts[i]) \in Nat /\ 2 * Worth(parts[i]) < Worth(f)
  <2>1. parts[i].to - parts[i].from \in 0..Length
    BY <1>1, WorthIsNat
  <2> QED
    BY <1>3, <1>4, <2>1, TwoShorterAreLess DEF Worth
<1>6. Worth(f) > 0
  <2>1. 0 \in 0..Length /\ 0 < f.to - f.from
    BY <1>2, FindingFields, CollisionAssumption
  <2> QED
    BY <1>4, <2>1, TwoShorterAreLess DEF Worth
<1>7. CASE Len(parts) = 0
  BY <1>4, <1>6, <1>7 DEF PushAll
<1>8. CASE Len(parts) = 1
  <2>1. PushAll(q, parts) = InsertSorted(q, parts[1]) /\ 1 \in 1..Len(parts)
    BY <1>8 DEF PushAll
  <2>2. Load(PushAll(q, parts)) = Load(q) + Worth(parts[1])
    BY <1>1, <2>1, LoadOfPushed
  <2> QED
    BY <1>4, <1>5, <2>1, <2>2
<1>9. CASE Len(parts) = 2
  <2>1. /\ PushAll(q, parts) = InsertSorted(InsertSorted(q, parts[1]), parts[2])
        /\ 1 \in 1..Len(parts) /\ 2 \in 1..Len(parts)
    BY <1>9 DEF PushAll
  <2>2. /\ InsertSorted(q, parts[1]) \in Seq(Findings)
        /\ Load(InsertSorted(q, parts[1])) = Load(q) + Worth(parts[1])
    BY <1>1, <2>1, LoadOfPushed
  <2>3. Load(PushAll(q, parts)) = (Load(q) + Worth(parts[1])) + Worth(parts[2])
    BY <1>1, <2>1, <2>2, LoadOfPushed
  <2> QED
    BY <1>4, <1>5, <2>1, <2>3
<1> QED
  BY <1>1, <1>7, <1>8, <1>9

\* A finding taken away takes its worth with it.
LEMMA LoadOfRemoved ==
    ASSUME NEW s \in Seq(Findings), NEW i \in 1..Len(s)
    PROVE  /\ RemoveAt(s, i) \in Seq(Findings)
           /\ Load(s) = Load(RemoveAt(s, i)) + Worth(s[i])
<1> DEFINE t == RemoveAt(s, i)
<1>1. IsRemoved(t, Findings, s, i)
  BY RemoveAtIndex
<1> HIDE DEF t
<1>2. /\ t \in Seq(Findings) /\ Len(t) = Len(s) - 1
      /\ \A j \in 1..(Len(s) - 1) : t[j] = IF j < i THEN s[j] ELSE s[j + 1]
  BY <1>1 DEF IsRemoved
<1>3. s[i] \in Findings /\ i \in 1..(Len(t) + 1) /\ Len(s) = Len(t) + 1
  BY <1>2
<1>4. ASSUME NEW j \in 1..(Len(t) + 1)
      PROVE  s[j] = IF j < i THEN t[j] ELSE IF j = i THEN s[i] ELSE t[j - 1]
  BY <1>2, <1>3
<1>5. IsInserted(s, Findings, t, i, s[i])
  BY <1>3, <1>4 DEF IsInserted
<1> QED
  BY <1>2, <1>3, <1>5, LoadOfInserted DEF t

\* So does the head of a queue.
LEMMA LoadOfTail ==
    ASSUME NEW q \in Seq(Findings), q # <<>>
    PROVE  /\ Head(q) \in Findings /\ Tail(q) \in Seq(Findings) /\ Len(Tail(q)) < Len(q)
           /\ Load(q) = Load(Tail(q)) + Worth(Head(q))
<1> DEFINE t == Tail(q)
<1>1. /\ t \in Seq(Findings) /\ Len(q) = Len(t) + 1 /\ Len(t) \in Nat
      /\ \A j \in 1..Len(t) : t[j] = q[j + 1]
  OBVIOUS
<1>2. Head(q) = q[1] /\ q[1] \in Findings
  OBVIOUS
<1> HIDE DEF t
<1>3. 1 \in 1..(Len(t) + 1)
  BY <1>1
<1>4. ASSUME NEW j \in 1..(Len(t) + 1)
      PROVE  q[j] = IF j < 1 THEN t[j] ELSE IF j = 1 THEN q[1] ELSE t[j - 1]
  BY <1>1
<1>5. IsInserted(q, Findings, t, 1, q[1])
  BY <1>1, <1>4 DEF IsInserted
<1>6. Load(q) = Load(t) + Worth(q[1])
  BY <1>1, <1>2, <1>3, <1>5, LoadOfInserted
<1> QED
  BY <1>1, <1>2, <1>6 DEF t

\* What a turn does to the load of both sequences.
ComesCloser ==
    queue # <<>> =>
      \/ Load(queue') + Load(accepted') < Load(queue) + Load(accepted)
      \/ /\ Load(queue') + Load(accepted') = Load(queue) + Load(accepted)
         /\ Len(queue') < Len(queue)

\* An accepted candidate brings its worth along; a loser leaves less than its own.
LEMMA NextCloser == ResolveInv /\ [Next]_vars => [ComesCloser]_vars
<1> SUFFICES ASSUME ResolveInv, Next, queue # <<>> PROVE ComesCloser
  BY DEF ComesCloser
<1> DEFINE f == Head(queue)
           rest == Tail(queue)
<1>1. queue \in Seq(Findings) /\ accepted \in Seq(Findings)
  BY SequenceFacts
<1>2. /\ f \in Findings /\ rest \in Seq(Findings) /\ Len(rest) < Len(queue)
      /\ Load(queue) = Load(rest) + Worth(f)
  BY <1>1, LoadOfTail
<1>3. f \in Traced
  BY Meeting
<1>4. ASSUME NEW i \in FirstOverlap(f)
      PROVE  /\ i \in 1..Len(accepted) /\ accepted[i] \in Traced /\ accepted[i] \in Findings
             /\ Overlap(f, accepted[i]) /\ Overlap(accepted[i], f)
  <2>1. i \in 1..Len(accepted) /\ accepted[i] \in Traced
    BY <1>4, Meeting
  <2>2. accepted[i].to > f.from /\ accepted[i].from < f.to
    BY <1>4 DEF FirstOverlap
  <2>3. accepted[i] \in Findings
    BY <2>1, TracedIsFinding
  <2> QED
    BY <1>2, <2>1, <2>2, <2>3, FindingFields DEF Overlap
<1>5. /\ Load(queue) \in Nat /\ Load(accepted) \in Nat /\ Load(rest) \in Nat /\ Worth(f) \in Nat
  BY <1>1, <1>2, LoadIsNat, WorthIsNat
<1> HIDE DEF f, rest
<1>6. CASE Accept
  <2>1. accepted' = InsertSorted(accepted, f) /\ queue' = rest
    BY <1>6 DEF Accept, f, rest
  <2>2. Load(accepted') = Load(accepted) + Worth(f)
    BY <1>1, <1>2, <2>1, LoadOfPushed
  <2>3. Load(queue') = Load(rest) /\ Len(queue') = Len(rest)
    BY <2>1
  <2> QED
    BY <1>2, <1>5, <2>2, <2>3 DEF ComesCloser
<1>7. CASE Displace
  <2>1. PICK i \in FirstOverlap(f) :
          /\ accepted' = RemoveAt(accepted, i)
          /\ queue' = PushAll(InsertSorted(rest, f), Subtract(accepted[i], f))
    BY <1>7 DEF Displace, f, rest
  <2> DEFINE e == accepted[i]
             again == InsertSorted(rest, f)
  <2>2. i \in 1..Len(accepted) /\ e \in Traced /\ e \in Findings /\ Overlap(e, f)
    BY <1>4
  <2>3. RemoveAt(accepted, i) \in Seq(Findings) /\ Load(accepted) = Load(RemoveAt(accepted, i)) + Worth(e)
    BY <1>1, <2>2, LoadOfRemoved
  <2>4. again \in Seq(Findings) /\ Load(again) = Load(rest) + Worth(f)
    BY <1>2, LoadOfPushed
  <2> HIDE DEF e, again
  <2>5. Load(PushAll(again, Subtract(e, f))) < Load(again) + Worth(e)
    BY <1>2, <2>2, <2>4, LoadOfRest
  <2>6. queue' = PushAll(again, Subtract(e, f))
    BY <2>1 DEF e, again
  <2>7. Load(queue') \in Nat /\ Load(accepted') \in Nat /\ Worth(e) \in Nat
    <3>1. queue' \in Seq(Findings) /\ accepted' \in Seq(Findings)
      <4>1. ResolveInv'
        BY NextResolveInv
      <4>2. Traced' = Traced
        BY <1>7 DEF Displace, Traced
      <4> QED
        BY <4>1, <4>2, TracedIsFinding DEF ResolveInv
    <3> QED
      BY <2>2, <3>1, LoadIsNat, WorthIsNat
  <2>8. Load(accepted) = Load(accepted') + Worth(e)
    BY <2>1, <2>3
  <2>9. Load(queue') < (Load(rest) + Worth(f)) + Worth(e)
    BY <2>4, <2>5, <2>6
  <2> QED
    BY <1>2, <1>5, <2>7, <2>8, <2>9 DEF ComesCloser
<1>8. CASE Lose
  <2>1. PICK i \in FirstOverlap(f) :
          queue' = PushAll(rest, Subtract(f, accepted[i]))
    BY <1>8 DEF Lose, f, rest
  <2>2. accepted[i] \in Findings /\ Overlap(f, accepted[i])
    BY <1>4
  <2>3. Load(queue') < Load(rest) + Worth(f)
    BY <1>2, <1>3, <2>1, <2>2, LoadOfRest
  <2>4. Load(accepted') = Load(accepted)
    BY <1>8 DEF Lose
  <2>5. Load(queue') \in Nat
    <3>1. queue' \in Seq(Findings)
      <4>1. ResolveInv'
        BY NextResolveInv
      <4>2. Traced' = Traced
        BY <1>8 DEF Lose, Traced
      <4> QED
        BY <4>1, <4>2, TracedIsFinding DEF ResolveInv
    <3> QED
      BY <3>1, LoadIsNat
  <2> QED
    BY <1>2, <1>5, <2>3, <2>4, <2>5 DEF ComesCloser
<1> QED
  BY <1>6, <1>7, <1>8 DEF Next

\* runDetectors adds no turn of its own.
LEMMA DetectCloser ==
    ResolveInv /\ [DetectNext]_<<vars, thresholdVars>> => [ComesCloser]_vars
<1> SUFFICES ASSUME ResolveInv, DetectNext PROVE [ComesCloser]_vars
  BY DEF vars
<1>1. CASE Resolve
  BY <1>1, NextCloser DEF Resolve
<1>2. CASE KeepPassing \/ ReportSuppressed
  BY <1>2 DEF KeepPassing, ReportSuppressed, Resolved, ComesCloser
<1> QED
  BY <1>1, <1>2 DEF DetectNext

----------------------------------------------------------------------------
(* The theorems *)

\* Pieces lie in the text; the rest the invariant says.
LEMMA InvSortedAndApart == ResolveInv => SortedAndApart
<1> SUFFICES ASSUME ResolveInv PROVE SortedAndApart
  OBVIOUS
<1>1. queue \o accepted \in Seq(Findings)
  BY TracedIsFinding, ConcatProperties DEF ResolveInv
<1>2. ToSet(queue \o accepted) \subseteq Findings
  BY <1>1 DEF ToSet
<1> QED
  BY <1>2 DEF ResolveInv, Apart, SortedAndApart, Pieces

\* Every accepted character was found.
LEMMA InvOnlyFound == ResolveInv => OnlyFoundTextRedacted
BY DEF ResolveInv, Traced, OnlyFoundTextRedacted

\* A new pass starts with all that is found again, if it was found before: nothing is
\* weakened in what was there.
LEMMA DetectKeeps ==
    ASSUME ResolveInv, BelowInv, DetectNext, found' = found,
           NEW f \in Pieces, NEW p \in Positions(f)
    PROVE  KeptOrDropped(f, p)
<1>1. Pieces = ToSet(queue) \union ToSet(accepted)
  BY ToSetConcat DEF ResolveInv, Pieces
<1>2. f \in Traced /\ f \in Findings
  BY <1>1, TracedIsFinding DEF ResolveInv, ToSet
<1>3. CASE Resolve
  BY <1>3, NextKeeps DEF Resolve
<1>4. CASE KeepPassing
  <2>1. Pieces' = found
    <3>1. PICK n \in Nat : below \in [1..n -> Inputs]
      BY CollisionAssumption DEF BelowInv, BoundedSeq, SeqOf
    <3>2. below \in Seq(Inputs) /\ <<>> \in Seq(Inputs) /\ ToSet(<<>>) = {}
      BY <3>1 DEF ToSet
    <3>3. ToSet(below \o <<>>) = ToSet(below)
      BY <3>2, ToSetConcat
    <3> QED
      BY <1>4, <3>3 DEF KeepPassing, Pieces
  <2>2. PICK g \in found : g.category = f.category /\ p \in Positions(g)
    BY <1>2 DEF Traced
  <2>3. Priority[g.category] <= Priority[f.category]
    BY <1>2, <2>2, FindingFields, CollisionAssumption
  <2> QED
    BY <2>1, <2>2, <2>3 DEF KeptOrDropped
<1>5. CASE ReportSuppressed
  <2>1. f \in Pieces'
    BY <1>5 DEF ReportSuppressed, Pieces
  <2> QED
    BY <1>2, <2>1, StaysKept
<1> QED
  BY <1>3, <1>4, <1>5 DEF DetectNext

\* "Returns findings sorted by start position ascending, guaranteed pairwise
\* non-overlapping - scrub relies on that": for any text, findings and priorities,
\* at every turn of the loop, in a call of resolveCollisions...
THEOREM ResolvedApart == Spec => []SortedAndApart
<1>1. Spec => []ResolveInv
  BY InitResolveInv, NextResolveInv, PTL DEF Spec
<1> QED
  BY <1>1, InvSortedAndApart, PTL

\* ...and in both the calls that runDetectors makes of it.
THEOREM DetectedApart == DetectSpec => []SortedAndApart
<1>1. DetectSpec => [](ResolveInv /\ BelowInv)
  BY InitDetectInv, NextDetectInv, PTL DEF DetectSpec
<1> QED
  BY <1>1, InvSortedAndApart, PTL

\* Narrowing invents nothing: what resolveCollisions returns redacts a character
\* as a category only if a finding of that category covered it, also where slice
\* takes the end of a part from the end of the value.
THEOREM ResolvedOnlyFound == Spec => []OnlyFoundTextRedacted
<1>1. Spec => []ResolveInv
  BY InitResolveInv, NextResolveInv, PTL DEF Spec
<1> QED
  BY <1>1, InvOnlyFound, PTL

\* The same of both passes of runDetectors.
THEOREM DetectedOnlyFound == DetectSpec => []OnlyFoundTextRedacted
<1>1. DetectSpec => [](ResolveInv /\ BelowInv)
  BY InitDetectInv, NextDetectInv, PTL DEF DetectSpec
<1> QED
  BY <1>1, InvOnlyFound, PTL

\* "The loser is kept, narrowed to the part of its span the winner does not cover":
\* no turn of the loop leaves a character to a weaker finding or to none, but in the
\* two documented cases, whichever end of the value slice counts from...
THEOREM ResolvingWeakensNothing == Spec => NeverWeakened
<1>1. ResolveInv /\ [Next]_vars
        => [found' = found => \A f \in Pieces : \A p \in Positions(f) : KeptOrDropped(f, p)]_vars
  BY NextKeeps
<1>2. Spec => []ResolveInv
  BY InitResolveInv, NextResolveInv, PTL DEF Spec
<1> QED
  BY <1>1, <1>2, PTL DEF Spec, NeverWeakened, KeptOrDropped

\* ...in both passes of runDetectors.
THEOREM DetectingWeakensNothing == DetectSpec => NeverWeakened
<1>1. ResolveInv /\ BelowInv /\ [DetectNext]_<<vars, thresholdVars>>
        => [found' = found => \A f \in Pieces : \A p \in Positions(f) : KeptOrDropped(f, p)]_vars
  BY DetectKeeps
<1>2. DetectSpec => [](ResolveInv /\ BelowInv)
  BY InitDetectInv, NextDetectInv, PTL DEF DetectSpec
<1> QED
  BY <1>1, <1>2, PTL DEF DetectSpec, NeverWeakened, KeptOrDropped

\* "Splits `loser` into the parts `winner` does not cover, so an over-broad finding is
\* narrowed rather than dropped": for any text, findings and priorities, a character
\* that only solid findings cover is redacted in the end, as the strongest of what it
\* was found as...
THEOREM ResolvedNarrowedNotDropped == Spec => []NarrowedNotDropped
<1>1. Spec => [](ResolveInv /\ NarrowInv)
  BY InitResolveInv, InitNarrowInv, NextResolveInv, NextNarrowInv, PTL DEF Spec
<1> QED
  BY <1>1, InvNarrowed, PTL

\* ...in both passes of runDetectors.
THEOREM DetectedNarrowedNotDropped == DetectSpec => []NarrowedNotDropped
<1>1. DetectInit => NarrowInv
  BY InitNarrowInv DEF DetectInit
<1>2. DetectSpec => [](ResolveInv /\ BelowInv /\ NarrowInv)
  BY <1>1, InitDetectInv, NextDetectInv, DetectNarrowInv, PTL DEF DetectSpec
<1> QED
  BY <1>2, InvNarrowed, PTL

\* "So callers can tell the user what a threshold cost them": for any text, findings
\* and priorities, of what solid findings below it cover, what is left in the clear is
\* reported, and nothing "whose span another finding redacts anyway".
THEOREM SuppressedIsLeft == DetectSpec => []SuppressedIsWhatIsLeft
<1>1. DetectInit => NarrowInv
  BY InitNarrowInv DEF DetectInit
<1>2. DetectSpec => [](ResolveInv /\ BelowInv /\ NarrowInv /\ DoneInv)
  BY <1>1, InitDetectInv, InitDoneInv, NextDetectInv, DetectNarrowInv, NextDoneInv, PTL
     DEF DetectSpec
<1>3. DoneInv => SuppressedIsWhatIsLeft
  BY DEF DoneInv
<1> QED
  BY <1>2, <1>3, PTL

\* The argument for termination at collision-resolver.ts:247, for any text, findings and
\* priorities: not the total length but a load falls with every overlap resolved, and
\* stays when a candidate is accepted, which makes the queue shorter...
THEOREM ResolvingComesCloser == Spec => Closer
<1>1. ResolveInv /\ [Next]_vars => [ComesCloser]_vars
  BY NextCloser
<1>2. Spec => []ResolveInv
  BY InitResolveInv, NextResolveInv, PTL DEF Spec
<1> QED
  BY <1>1, <1>2, PTL DEF Spec, Closer, ComesCloser

\* ...in both passes of runDetectors.
THEOREM DetectingComesCloser == DetectSpec => Closer
<1>1. ResolveInv /\ BelowInv /\ [DetectNext]_<<vars, thresholdVars>> => [ComesCloser]_vars
  BY DetectCloser
<1>2. DetectSpec => [](ResolveInv /\ BelowInv)
  BY InitDetectInv, NextDetectInv, PTL DEF DetectSpec
<1> QED
  BY <1>1, <1>2, PTL DEF DetectSpec, Closer, ComesCloser

=============================================================================

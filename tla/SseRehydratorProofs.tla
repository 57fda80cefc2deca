-------------------------- MODULE SseRehydratorProofs --------------------------
(***************************************************************************)
(* For any answers, any placeholders, and any cut of texts into events and *)
(* of events into chunks: what the client has and what is held back is the *)
(* text restored as if it had come in one piece, and a stream that ended   *)
(* in order has delivered every answer whole and nothing but events.       *)
(***************************************************************************)
EXTENDS SseRehydrator, WellFoundedInduction, SequenceTheorems, FiniteSetTheorems, TLAPS

----------------------------------------------------------------------------
(* Numbers *)

\* The natural numbers are well-founded.
LEMMA LeastExists ==
    ASSUME NEW S, S \subseteq Nat, S # {}
    PROVE  \E x \in S : \A y \in S : x <= y
<1> DEFINE Less == OpToRel(<, Nat)
<1>1. \A x, y \in Nat : y < x => <<y, x>> \in Less
  BY Zenon DEF OpToRel
<1> HIDE DEF Less
<1>2. PICK x \in S : \A y \in S : ~(<<y, x>> \in Less)
  <2>1. IsWellFoundedOn(Less, Nat)
    BY NatLessThanWellFounded DEF Less
  <2> QED
    BY <2>1, WFMin
<1>3. ASSUME NEW y \in S PROVE x <= y
  <2>1. x \in Nat /\ y \in Nat
    OBVIOUS
  <2>2. ~(y < x)
    BY <1>1, <1>2, <2>1
  <2> QED
    BY <2>1, <2>2
<1> QED
  BY <1>3

\* Min of a nonempty set of natural numbers.
LEMMA MinIsLeast ==
    ASSUME NEW S, S \subseteq Nat, S # {}
    PROVE  Min(S) \in S /\ \A y \in S : Min(S) <= y
BY LeastExists DEF Min

\* Max of a nonempty set of natural numbers with an upper bound.
LEMMA MaxIsGreatest ==
    ASSUME NEW n \in Nat, NEW S, S \subseteq 0..n, S # {}
    PROVE  Max(S) \in S /\ \A y \in S : Max(S) >= y
<1> DEFINE T == {n - x : x \in S}
<1>1. \A x \in S : x \in 0..n
  OBVIOUS
<1>2. PICK t \in T : \A u \in T : t <= u
  <2>1. T \subseteq Nat
    BY <1>1
  <2>2. T # {}
    OBVIOUS
  <2> HIDE DEF T
  <2> QED
    BY <2>1, <2>2, LeastExists
<1>3. PICK x \in S : t = n - x
  OBVIOUS
<1>4. ASSUME NEW y \in S PROVE x >= y
  <2>1. n - x <= n - y
    BY <1>2, <1>3
  <2> QED
    BY <2>1, <1>1
<1> QED
  BY <1>4 DEF Max

\* Induction on a number, with the claim for all smaller ones at hand.
LEMMA CourseOfValues ==
    ASSUME NEW m \in Nat, NEW S, \A n \in 0..m : 0..(n - 1) \subseteq S => n \in S
    PROVE  0..m \subseteq S
<1> DEFINE T == {n \in 0..m : n \notin S}
<1>1. ASSUME T # {} PROVE FALSE
  <2>1. T \subseteq Nat
    OBVIOUS
  <2>2. PICK x \in T : \A y \in T : x <= y
    <3> HIDE DEF T
    <3> QED
      BY <1>1, <2>1, LeastExists
  <2>3. 0..(x - 1) \subseteq S
    BY <2>2
  <2> QED
    BY <2>3
<1> QED
  BY <1>1

----------------------------------------------------------------------------

(* Restored, by its recursion *)

IsPlaceholder(text, names, i) ==
    /\ i + 2 <= Len(text)
    /\ text[i] = "open" /\ text[i + 1] \in names /\ text[i + 2] = "close"

\* What is restored from place i on, if rest[j] is what is from a later j on.
Step(text, names, k, rest, i) ==
    CASE i > Len(text) -> <<>>
      [] i <= Len(text) /\ IsPlaceholder(text, names, i) ->
           <<Value(text[i + 1], k)>> \o rest[i + 3]
      [] OTHER -> <<text[i]>> \o rest[i + 1]

Places(text) == 1..(Len(text) + 1)

Restoring(text, names, k, rest) ==
    rest = [i \in Places(text) |-> Step(text, names, k, rest, i)]

From(text, names, k) == CHOOSE rest : Restoring(text, names, k, rest)

\* What a client may get.
Output == Symbols \union {Plain[n] : n \in Names} \union {InJson[n] : n \in Names}

Texts == Seq(Symbols)
Outputs == Seq(Output)

\* Outputs can be put together in any order.
LEMMA OutputsAssociate ==
    ASSUME NEW x \in Outputs, NEW y \in Outputs, NEW z \in Outputs
    PROVE  (x \o y) \o z = x \o (y \o z)
BY ConcatAssociative DEF Outputs

LEMMA OutputsConcat ==
    ASSUME NEW x \in Outputs, NEW y \in Outputs
    PROVE  x \o y \in Outputs
BY ConcatProperties DEF Outputs

\* Restored is its recursive function at the first place.
LEMMA RestoredFrom ==
    ASSUME NEW text, NEW names, NEW k
    PROVE  Restored(text, names, k) = From(text, names, k)[1]
BY DEF Restored, From, Restoring, Step, IsPlaceholder, Places

\* The three cases of a step.
LEMMA StepCases ==
    ASSUME NEW text \in Texts, NEW names, NEW k, NEW f, NEW i \in Places(text)
    PROVE  \/ i = Len(text) + 1 /\ Step(text, names, k, f, i) = <<>>
           \/ /\ i \in 1..Len(text) /\ IsPlaceholder(text, names, i)
              /\ i + 1 \in 1..Len(text) /\ i + 3 \in Places(text)
              /\ Step(text, names, k, f, i) = <<Value(text[i + 1], k)>> \o f[i + 3]
           \/ /\ i \in 1..Len(text) /\ ~IsPlaceholder(text, names, i)
              /\ i + 1 \in Places(text)
              /\ Step(text, names, k, f, i) = <<text[i]>> \o f[i + 1]
<1> USE DEF Texts, Outputs
<1>1. Len(text) \in Nat
  OBVIOUS
<1>2. CASE i > Len(text)
  BY <1>1, <1>2 DEF Step, Places
<1>3. CASE i <= Len(text) /\ IsPlaceholder(text, names, i)
  <2>1. Step(text, names, k, f, i) = <<Value(text[i + 1], k)>> \o f[i + 3]
    BY <1>1, <1>3 DEF Step, Places
  <2>2. i + 1 \in 1..Len(text) /\ i + 3 \in Places(text)
    BY <1>1, <1>3 DEF IsPlaceholder, Places
  <2> QED
    BY <1>1, <1>3, <2>1, <2>2 DEF Places
<1>4. CASE i <= Len(text) /\ ~IsPlaceholder(text, names, i)
  <2>1. Step(text, names, k, f, i) = <<text[i]>> \o f[i + 1]
    BY <1>1, <1>4 DEF Step, Places
  <2> QED
    BY <1>1, <1>4, <2>1 DEF Places
<1> QED
  BY <1>1, <1>2, <1>3, <1>4 DEF Places

LEMMA StepAtEnd ==
    ASSUME NEW text \in Texts, NEW names, NEW k, NEW f
    PROVE  Step(text, names, k, f, Len(text) + 1) = <<>>
<1> USE DEF Texts, Outputs
<1>1. Len(text) \in Nat
  OBVIOUS
<1> QED
  BY <1>1 DEF Step

LEMMA StepAtPlaceholder ==
    ASSUME NEW text \in Texts, NEW names, NEW k, NEW f, NEW i \in 1..Len(text),
           IsPlaceholder(text, names, i)
    PROVE  Step(text, names, k, f, i) = <<Value(text[i + 1], k)>> \o f[i + 3]
<1>1. i \in Nat /\ i <= Len(text) /\ Len(text) \in Nat
  BY DEF Texts
<1> QED
  BY <1>1 DEF Step

LEMMA PlaceholderInText ==
    ASSUME NEW text \in Texts, NEW names, NEW i \in 1..Len(text),
           IsPlaceholder(text, names, i)
    PROVE  i + 1 \in 1..Len(text) /\ i + 3 \in Places(text)
BY DEF Texts, IsPlaceholder, Places

LEMMA StepElsewhere ==
    ASSUME NEW text \in Texts, NEW names, NEW k, NEW f, NEW i \in 1..Len(text),
           ~IsPlaceholder(text, names, i)
    PROVE  /\ i + 1 \in Places(text)
           /\ Step(text, names, k, f, i) = <<text[i]>> \o f[i + 1]
<1> USE DEF Texts, Outputs
<1>1. i \in Nat /\ i <= Len(text) /\ Len(text) \in Nat
  OBVIOUS
<1>2. i + 1 \in Places(text)
  BY <1>1 DEF Places
<1> QED
  BY <1>1, <1>2 DEF Step

\* A step looks at later places only.
LEMMA StepLooksAhead ==
    ASSUME NEW text \in Texts, NEW names, NEW k, NEW i \in Nat, NEW f, NEW g,
           \A j \in (i + 1)..(Len(text) + 1) : f[j] = g[j]
    PROVE  Step(text, names, k, f, i) = Step(text, names, k, g, i)
<1> USE DEF Texts, Outputs
<1>1. Len(text) \in Nat
  OBVIOUS
<1> QED
  BY <1>1 DEF Step, IsPlaceholder

\* There is such a function: from the end on, one place at a time.
LEMMA FromExists ==
    ASSUME NEW text \in Texts, NEW names, NEW k
    PROVE  Restoring(text, names, k, From(text, names, k))
<1> USE DEF Texts, Outputs
<1> DEFINE n == Len(text)
           Upto(m) == (n + 1 - m)..(n + 1)
           Good(m, f) == f = [i \in Upto(m) |-> Step(text, names, k, f, i)]
           S == {m \in 0..n : \E f : Good(m, f)}
<1>1. n \in Nat
  OBVIOUS
<1>2. ASSUME NEW m \in 0..n, 0..(m - 1) \subseteq S PROVE m \in S
  <2>1. CASE m = 0
    <3> DEFINE f == [i \in Upto(0) |-> <<>>]
    <3>1. \A i \in Upto(0) : Step(text, names, k, f, i) = <<>>
      BY <1>1 DEF Step
    <3>2. Good(0, f)
      BY <3>1
    <3> QED
      BY <2>1, <3>2
  <2>2. CASE m # 0
    <3>1. m - 1 \in S
      <4>1. m - 1 \in 0..(m - 1)
        BY <2>2
      <4> HIDE DEF S
      <4> QED
        BY <1>2, <4>1
    <3>2. PICK g : Good(m - 1, g)
      BY <3>1
    <3> DEFINE f == [i \in Upto(m) |-> IF i = n + 1 - m THEN Step(text, names, k, g, i) ELSE g[i]]
    <3>3. \A i \in Upto(m - 1) : i \in Upto(m) /\ i # n + 1 - m
      BY <1>1
    <3>4. \A i \in Upto(m) : i # n + 1 - m => i \in Upto(m - 1)
      BY <1>1
    <3>5. \A i \in Upto(m - 1) : f[i] = g[i]
      BY <3>3
    <3>6. \A i \in Upto(m) : Step(text, names, k, f, i) = Step(text, names, k, g, i)
      <4> TAKE i \in Upto(m)
      <4>1. i \in Nat /\ (i + 1)..(n + 1) \subseteq Upto(m - 1)
        BY <1>1
      <4> HIDE DEF f
      <4> QED
        BY <3>5, <4>1, StepLooksAhead
    <3>7. \A i \in Upto(m - 1) : g[i] = Step(text, names, k, g, i)
      <4> HIDE DEF Upto
      <4> QED
        BY <3>2
    <3>8. \A i \in Upto(m) : f[i] = Step(text, names, k, f, i)
      <4> HIDE DEF Upto
      <4> QED
        BY <3>4, <3>6, <3>7
    <3>9. f = [i \in Upto(m) |-> Step(text, names, k, f, i)]
      <4> HIDE DEF Upto
      <4> QED
        BY <3>8
    <3> QED
      BY <3>9
  <2> QED
    BY <2>1, <2>2
<1>3. n \in S
  <2> HIDE DEF S
  <2> QED
    BY <1>1, <1>2, CourseOfValues
<1>4. \E f : Good(n, f)
  BY <1>3
<1>5. Upto(n) = Places(text)
  BY <1>1 DEF Places
<1> QED
  BY <1>4, <1>5 DEF From, Restoring

\* And only one.
LEMMA FromUnique ==
    ASSUME NEW text \in Texts, NEW names, NEW k, NEW g, Restoring(text, names, k, g)
    PROVE  g = From(text, names, k)
<1> USE DEF Texts, Outputs
<1> DEFINE n == Len(text)
           f == From(text, names, k)
           S == {m \in 0..n : f[n + 1 - m] = g[n + 1 - m]}
<1>1. n \in Nat
  OBVIOUS
<1>2. /\ f = [i \in Places(text) |-> Step(text, names, k, f, i)]
      /\ g = [i \in Places(text) |-> Step(text, names, k, g, i)]
  BY FromExists DEF Restoring
<1> HIDE DEF f
<1>3. ASSUME NEW m \in 0..n, 0..(m - 1) \subseteq S PROVE m \in S
  <2> DEFINE i == n + 1 - m
  <2>1. \A j \in (i + 1)..(n + 1) : f[j] = g[j]
    <3> TAKE j \in (i + 1)..(n + 1)
    <3>1. n + 1 - j \in 0..(m - 1) /\ n + 1 - (n + 1 - j) = j
      BY <1>1
    <3>2. n + 1 - j \in S
      BY <1>3, <3>1
    <3> QED
      BY <3>1, <3>2
  <2>2. Step(text, names, k, f, i) = Step(text, names, k, g, i)
    BY <1>1, <2>1, StepLooksAhead
  <2>3. i \in Places(text)
    BY <1>1 DEF Places
  <2>4. f[i] = g[i]
    BY <1>2, <2>2, <2>3
  <2> QED
    BY <2>4
<1>4. 0..n \subseteq S
  <2> HIDE DEF S
  <2> QED
    BY <1>1, <1>3, CourseOfValues
<1>5. ASSUME NEW i \in Places(text) PROVE f[i] = g[i]
  <2>1. CASE i = n + 1
    BY <1>1, <1>2, <2>1 DEF Step, Places
  <2>2. CASE i # n + 1
    <3>1. n + 1 - i \in 0..n /\ n + 1 - (n + 1 - i) = i
      BY <1>1, <2>2 DEF Places
    <3> QED
      BY <1>4, <3>1
  <2> QED
    BY <2>1, <2>2
<1> QED
  BY <1>2, <1>5 DEF f

\* Restoring gives what a client may get.
LEMMA FromTyped ==
    ASSUME NEW text \in Texts, NEW names \in SUBSET Names, NEW k
    PROVE  From(text, names, k) \in [Places(text) -> Outputs]
<1> USE DEF Texts, Outputs
<1> DEFINE n == Len(text)
           f == From(text, names, k)
           S == {m \in 0..n : f[n + 1 - m] \in Outputs}
<1>1. n \in Nat
  OBVIOUS
<1>2. f = [i \in Places(text) |-> Step(text, names, k, f, i)]
  BY FromExists DEF Restoring
<1> HIDE DEF f
<1>3. \A i \in 1..n : <<text[i]>> \in Outputs
  BY DEF Output
<1>4. \A i \in 1..n : IsPlaceholder(text, names, i) => <<Value(text[i + 1], k)>> \in Outputs
  BY DEF IsPlaceholder, Value, Output
<1>5. ASSUME NEW m \in 0..n, 0..(m - 1) \subseteq S PROVE m \in S
  <2> DEFINE i == n + 1 - m
  <2>1. \A j \in (i + 1)..(n + 1) : f[j] \in Outputs
    <3> TAKE j \in (i + 1)..(n + 1)
    <3>1. n + 1 - j \in 0..(m - 1) /\ n + 1 - (n + 1 - j) = j
      BY <1>1
    <3>2. n + 1 - j \in S
      BY <1>5, <3>1
    <3> QED
      BY <3>1, <3>2
  <2>2. i \in Places(text)
    BY <1>1 DEF Places
  <2> SUFFICES f[i] \in Outputs
    OBVIOUS
  <2> HIDE DEF i
  <2>3. f[i] = Step(text, names, k, f, i)
    BY <1>2, <2>2
  <2>4. \A j \in Places(text) : j > i => f[j] \in Outputs
    <3> TAKE j \in Places(text)
    <3> HAVE j > i
    <3>1. j \in (i + 1)..(n + 1)
      BY <1>1, <2>2 DEF Places
    <3> QED
      BY <2>1, <3>1
  <2>5. CASE i = n + 1 /\ f[i] = <<>>
    BY <2>5, EmptySeq
  <2>6. CASE /\ i \in 1..n /\ IsPlaceholder(text, names, i) /\ i + 3 \in Places(text)
             /\ f[i] = <<Value(text[i + 1], k)>> \o f[i + 3]
    <3>1. f[i + 3] \in Outputs
      BY <2>4, <2>6
    <3> QED
      BY <1>4, <2>6, <3>1, ConcatProperties
  <2>7. CASE i \in 1..n /\ i + 1 \in Places(text) /\ f[i] = <<text[i]>> \o f[i + 1]
    <3>1. f[i + 1] \in Outputs
      BY <2>4, <2>7
    <3> QED
      BY <1>3, <2>7, <3>1, ConcatProperties
  <2> QED
    BY <2>2, <2>3, <2>5, <2>6, <2>7, StepCases
<1>6. 0..n \subseteq S
  <2> HIDE DEF S
  <2> QED
    BY <1>1, <1>5, CourseOfValues
<1>7. ASSUME NEW i \in Places(text) PROVE f[i] \in Outputs
  <2>1. CASE i = n + 1
    BY <1>1, <1>2, <2>1 DEF Step, Places
  <2>2. CASE i # n + 1
    <3>1. n + 1 - i \in 0..n /\ n + 1 - (n + 1 - i) = i
      BY <1>1, <2>2 DEF Places
    <3>2. n + 1 - i \in S
      BY <1>6, <3>1
    <3> QED
      BY <3>1, <3>2
  <2> QED
    BY <2>1, <2>2
<1> QED
  BY <1>2, <1>7 DEF f

\* A text without closing guillemets is restored to itself.
LEMMA NothingToRestore ==
    ASSUME NEW text \in Texts, NEW names, NEW k,
           \A i \in 1..Len(text) : text[i] # "close"
    PROVE  Restored(text, names, k) = text
<1> USE DEF Texts, Outputs
<1> DEFINE g == [i \in Places(text) |-> SubSeq(text, i, Len(text))]
<1>1. Len(text) \in Nat
  OBVIOUS
<1>2. ASSUME NEW i \in Places(text) PROVE g[i] = Step(text, names, k, g, i)
  <2>1. CASE i > Len(text)
    BY <1>1, <2>1, SubSeqEmpty DEF Step, Places
  <2>2. CASE i <= Len(text)
    <3>1. ~IsPlaceholder(text, names, i)
      BY <1>1, <2>2 DEF IsPlaceholder, Places
    <3>2. i \in 1..Len(text)
      BY <1>1, <2>2 DEF Places
    <3>6. Len(text) \in i..Len(text)
      BY <1>1, <3>2
    <3>3. SubSeq(text, i, Len(text)) = <<text[i]>> \o SubSeq(text, i + 1, Len(text))
      <4> HIDE DEF g
      <4> QED
        BY <3>2, <3>6, SubSeqRecursiveFirst
    <3>4. g[i + 1] = SubSeq(text, i + 1, Len(text))
      BY <1>1, <3>2 DEF Places
    <3> HIDE DEF g
    <3>5. Step(text, names, k, g, i) = <<text[i]>> \o g[i + 1]
      BY <1>1, <3>1, <3>2 DEF Step
    <3> QED
      BY <3>3, <3>4, <3>5 DEF g
  <2> QED
    BY <1>1, <2>1, <2>2 DEF Places
<1>3. Restoring(text, names, k, g)
  BY <1>2 DEF Restoring
<1>4. g[1] = text
  BY <1>1, SubSeqFull DEF Places
<1> HIDE DEF g
<1> QED
  BY <1>3, <1>4, FromUnique, RestoredFrom

\* Names that are not in a text make no difference to it.
LEMMA OtherNames ==
    ASSUME NEW names \in SUBSET Names, NEW more \in SUBSET Names, names \subseteq more,
           NEW text \in Seq(names \union Marks), NEW k
    PROVE  Restored(text, more, k) = Restored(text, names, k)
<1> USE DEF Texts, Outputs
<1>1. text \in Texts
  BY SeqMonotonic DEF Symbols
<1>2. ASSUME NEW i \in Places(text) PROVE IsPlaceholder(text, more, i) <=> IsPlaceholder(text, names, i)
  <2>1. i + 2 <= Len(text) => text[i + 1] \in names \union Marks
    BY DEF Places
  <2> QED
    BY <2>1, SseAssumption DEF IsPlaceholder
<1> DEFINE f == From(text, names, k)
<1>3. f = [i \in Places(text) |-> Step(text, names, k, f, i)]
  BY <1>1, FromExists DEF Restoring
<1> HIDE DEF f
<1>4. \A i \in Places(text) : Step(text, names, k, f, i) = Step(text, more, k, f, i)
  BY <1>2 DEF Step
<1>5. Restoring(text, more, k, f)
  BY <1>3, <1>4 DEF Restoring
<1> QED
  BY <1>1, <1>5, FromUnique, RestoredFrom DEF f

\* No placeholder of s \o t begins in s and ends in t.
NoneCut(s, t, names) ==
    \A i \in 1..Len(s) : IsPlaceholder(s \o t, names, i) => i + 2 <= Len(s)

\* Two parts of a text, cut at no placeholder, can be restored one by one.
LEMMA RestoredInParts ==
    ASSUME NEW s \in Texts, NEW t \in Texts, NEW names \in SUBSET Names, NEW k,
           NoneCut(s, t, names)
    PROVE  Restored(s \o t, names, k) = Restored(s, names, k) \o Restored(t, names, k)
<1> DEFINE f == From(s, names, k)
           g == From(t, names, k)
           u == s \o t
           h == [i \in Places(u) |-> IF i <= Len(s) THEN f[i] \o g[1] ELSE g[i - Len(s)]]
<1>1. /\ Len(s) \in Nat /\ Len(t) \in Nat
      /\ u \in Texts /\ Len(u) = Len(s) + Len(t)
      /\ \A i \in 1..Len(s) : u[i] = s[i]
      /\ \A i \in 1..Len(t) : u[i + Len(s)] = t[i]
  BY ConcatProperties DEF Texts
<1>0. u \in Texts
  BY <1>1
<1>2. \A i \in 1..Len(s) : IsPlaceholder(u, names, i) => i + 2 <= Len(s)
  BY DEF NoneCut
<1>3. /\ f = [i \in Places(s) |-> Step(s, names, k, f, i)]
      /\ g = [i \in Places(t) |-> Step(t, names, k, g, i)]
      /\ f \in [Places(s) -> Outputs] /\ g \in [Places(t) -> Outputs]
  BY FromExists, FromTyped DEF Restoring
<1> HIDE DEF f, g, u
<1>4. /\ 1 \in Places(s) /\ 1 \in Places(t) /\ Len(s) + 1 \in Places(s)
      /\ \A i \in 1..Len(s) : i \in Places(s) /\ i \in Places(u) /\ i <= Len(s)
      /\ \A i \in Places(t) : i + Len(s) \in Places(u) /\ i + Len(s) > Len(s)
      /\ \A i \in Places(s) : i \in 1..Len(s) \/ i = Len(s) + 1
      /\ \A i \in Places(u) : i \in 1..Len(s) \/ (i - Len(s) \in Places(t) /\ (i - Len(s)) + Len(s) = i)
  BY <1>1 DEF Places
<1>5. f[Len(s) + 1] = <<>> /\ g[1] \in Outputs /\ <<>> \o g[1] = g[1]
  <2>1. f[Len(s) + 1] = <<>>
    BY <1>1, <1>3, <1>4 DEF Step
  <2>2. g[1] \in Outputs
    BY <1>3, <1>4
  <2> QED
    BY <2>1, <2>2, ConcatEmptySeq DEF Outputs
<1>6. \A i \in Places(t) : h[i + Len(s)] = g[i]
  <2> TAKE i \in Places(t)
  <2> DEFINE j == i + Len(s)
  <2>1. ~(j <= Len(s)) /\ j - Len(s) = i
    BY <1>1 DEF Places
  <2>2. j \in Places(u)
    BY <1>4
  <2> HIDE DEF j
  <2>3. h[j] = g[i]
    BY <2>1, <2>2
  <2> QED
    BY <2>3 DEF j
<1>7. \A i \in Places(s) : h[i] = f[i] \o g[1]
  <2> TAKE i \in Places(s)
  <2>1. CASE i \in 1..Len(s)
    <3>1. i \in Places(u) /\ i <= Len(s)
      BY <1>4, <2>1
    <3> QED
      BY <3>1
  <2>2. CASE i = Len(s) + 1
    <3>1. h[i] = g[1]
      BY <1>1, <1>4, <1>6, <2>2
    <3> QED
      BY <1>5, <2>2, <3>1
  <2> QED
    BY <1>4, <2>1, <2>2
<1>8. h = [i \in Places(u) |-> h[i]]
  OBVIOUS
<1> HIDE DEF h
<1>9. ASSUME NEW i \in Places(t) PROVE h[i + Len(s)] = Step(u, names, k, h, i + Len(s))
  <2> DEFINE j == i + Len(s)
  <2>0. i \in Nat /\ i >= 1 /\ i <= Len(t) + 1
    BY <1>1 DEF Places
  <2>1. /\ i \in Nat /\ j \in Nat
        /\ j + 1 = (i + 1) + Len(s) /\ j + 2 = (i + 2) + Len(s) /\ j + 3 = (i + 3) + Len(s)
        /\ j \in 1..Len(u) <=> i \in 1..Len(t)
        /\ j + 1 \in 1..Len(u) <=> i + 1 \in 1..Len(t)
        /\ i + 2 <= Len(t) <=> j + 2 <= Len(u)
        /\ i + 2 <= Len(t) => i \in 1..Len(t) /\ i + 1 \in 1..Len(t) /\ i + 2 \in 1..Len(t)
        /\ j = Len(u) + 1 <=> i = Len(t) + 1
        /\ i \in 1..Len(t) \/ i = Len(t) + 1
    BY <1>1, <2>0
  <2>2. /\ i \in 1..Len(t) => u[j] = t[i]
        /\ i + 1 \in 1..Len(t) => u[j + 1] = t[i + 1]
        /\ i + 2 \in 1..Len(t) => u[j + 2] = t[i + 2]
    BY <1>1, <2>1
  <2>3. IsPlaceholder(u, names, j) <=> IsPlaceholder(t, names, i)
    BY <2>1, <2>2 DEF IsPlaceholder
  <2>4. /\ i + 1 \in Places(t) => h[j + 1] = g[i + 1]
        /\ i + 3 \in Places(t) => h[j + 3] = g[i + 3]
    <3>1. j + 1 = (i + 1) + Len(s) /\ j + 3 = (i + 3) + Len(s)
      BY <2>1
    <3> HIDE DEF j
    <3> QED
      BY <1>6, <3>1
  <2>5. h[j] = Step(t, names, k, g, i)
    BY <1>3, <1>6
  <2> HIDE DEF j
  <2>7. CASE i = Len(t) + 1
    <3>1. Step(t, names, k, g, i) = <<>>
      BY <2>7, StepAtEnd
    <3>2. Step(u, names, k, h, j) = <<>>
      BY <1>1, <2>1, <2>7, StepAtEnd
    <3> QED
      BY <2>5, <3>1, <3>2 DEF j
  <2>8. CASE i \in 1..Len(t) /\ IsPlaceholder(t, names, i)
    <3>1. /\ i + 1 \in 1..Len(t) /\ i + 3 \in Places(t)
          /\ Step(t, names, k, g, i) = <<Value(t[i + 1], k)>> \o g[i + 3]
      BY <2>8, StepAtPlaceholder, PlaceholderInText
    <3>2. Step(u, names, k, h, j) = <<Value(u[j + 1], k)>> \o h[j + 3]
      <4>1. u \in Texts /\ j \in 1..Len(u) /\ IsPlaceholder(u, names, j)
        BY <1>1, <2>1, <2>3, <2>8
      <4> QED
        BY <4>1, StepAtPlaceholder
    <3> QED
      BY <2>2, <2>4, <2>5, <3>1, <3>2 DEF j
  <2>9. CASE i \in 1..Len(t) /\ ~IsPlaceholder(t, names, i)
    <3>1. i + 1 \in Places(t) /\ Step(t, names, k, g, i) = <<t[i]>> \o g[i + 1]
      BY <2>9, StepElsewhere
    <3>2. Step(u, names, k, h, j) = <<u[j]>> \o h[j + 1]
      <4>1. j \in 1..Len(u)
        BY <2>1, <2>9
      <4> HIDE DEF j
      <4> QED
        BY <1>0, <2>3, <2>9, <4>1, StepElsewhere
    <3> QED
      BY <2>2, <2>4, <2>5, <2>9, <3>1, <3>2 DEF j
  <2> QED
    BY <2>1, <2>7, <2>8, <2>9
<1>10. ASSUME NEW i \in 1..Len(s) PROVE h[i] = Step(u, names, k, h, i)
  <2>1. i \in Places(u) /\ i \in Places(s) /\ i \in 1..Len(u)
    BY <1>1, <1>4
  <2>2. IsPlaceholder(u, names, i) <=> IsPlaceholder(s, names, i)
    <3>1. i + 2 <= Len(s) => /\ i + 1 \in 1..Len(s) /\ i + 2 \in 1..Len(s)
                             /\ i + 2 <= Len(u)
      BY <1>1
    <3> QED
      BY <1>1, <1>2, <3>1 DEF IsPlaceholder
  <2>3. h[i] = f[i] \o g[1] /\ f[i] = Step(s, names, k, f, i)
    BY <1>3, <1>7, <2>1
  <2>4. CASE IsPlaceholder(s, names, i)
    <3>1. /\ f[i] = <<Value(s[i + 1], k)>> \o f[i + 3]
          /\ i + 1 \in 1..Len(s) /\ i + 3 \in Places(s)
      BY <2>3, <2>4, StepAtPlaceholder, PlaceholderInText
    <3>2. Step(u, names, k, h, i) = <<Value(u[i + 1], k)>> \o h[i + 3]
      BY <1>0, <2>1, <2>2, <2>4, StepAtPlaceholder
    <3>3. u[i + 1] = s[i + 1] /\ h[i + 3] = f[i + 3] \o g[1]
      BY <1>1, <1>7, <3>1
    <3>4. <<Value(s[i + 1], k)>> \in Outputs /\ f[i + 3] \in Outputs
      <4>1. Value(s[i + 1], k) \in Output
        BY <2>4 DEF IsPlaceholder, Value, Output
      <4> QED
        BY <1>3, <3>1, <4>1 DEF Outputs
    <3>5. (<<Value(s[i + 1], k)>> \o f[i + 3]) \o g[1] = <<Value(s[i + 1], k)>> \o (f[i + 3] \o g[1])
      BY <1>5, <3>4, OutputsAssociate
    <3> QED
      BY <2>3, <3>1, <3>2, <3>3, <3>5
  <2>5. CASE ~IsPlaceholder(s, names, i)
    <3>1. f[i] = <<s[i]>> \o f[i + 1] /\ i + 1 \in Places(s)
      BY <2>3, <2>5, StepElsewhere
    <3>2. Step(u, names, k, h, i) = <<u[i]>> \o h[i + 1]
      BY <1>0, <2>1, <2>2, <2>5, StepElsewhere
    <3>3. u[i] = s[i] /\ h[i + 1] = f[i + 1] \o g[1]
      BY <1>1, <1>7, <3>1
    <3>4. <<s[i]>> \in Outputs /\ f[i + 1] \in Outputs
      <4>1. s[i] \in Output
        BY DEF Output, Texts
      <4> QED
        BY <1>3, <3>1, <4>1 DEF Outputs
    <3>5. (<<s[i]>> \o f[i + 1]) \o g[1] = <<s[i]>> \o (f[i + 1] \o g[1])
      BY <1>5, <3>4, OutputsAssociate
    <3> QED
      BY <2>3, <3>1, <3>2, <3>3, <3>5
  <2> QED
    BY <2>4, <2>5
<1>11. ASSUME NEW i \in Places(u) PROVE h[i] = Step(u, names, k, h, i)
  <2>1. CASE i \in 1..Len(s)
    BY <1>10, <2>1
  <2>2. CASE i - Len(s) \in Places(t) /\ (i - Len(s)) + Len(s) = i
    <3>1. h[(i - Len(s)) + Len(s)] = Step(u, names, k, h, (i - Len(s)) + Len(s))
      BY <1>9, <2>2
    <3> QED
      BY <2>2, <3>1
  <2> QED
    BY <1>4, <2>1, <2>2
<1>12. h = From(u, names, k)
  BY <1>1, <1>8, <1>11, FromUnique DEF Restoring
<1>13. h[1] = f[1] \o g[1]
  BY <1>4, <1>7
<1> QED
  BY <1>12, <1>13, RestoredFrom DEF f, g, u

----------------------------------------------------------------------------
(* What is held back *)

TextsOf(names) == Seq(names \union Marks)

\* No placeholder can begin in this text and end in the next.
EndsWhole(text) ==
    \A i \in 1..Len(text) :
      text[i] = "open" /\ i + 1 >= Len(text) => i + 1 = Len(text) /\ text[i + 1] \notin Names

\* A held tail is short, has no end of a placeholder, and the beginning of one.
IsTail(text) ==
    /\ Len(text) <= MaxHeldTail
    /\ \A i \in 1..Len(text) : text[i] # "close"
    /\ text # <<>> => text[1] = "open"

LEMMA SomeTexts ==
    ASSUME NEW names \in SUBSET Names, NEW text \in TextsOf(names)
    PROVE  text \in Texts /\ Len(text) \in Nat
BY SeqMonotonic DEF Texts, TextsOf, Symbols

\* What splitAtOpenPlaceholder lets go ends whole, or it holds a tail back.
LEMMA SplitParts ==
    ASSUME NEW names \in SUBSET Names, NEW text \in TextsOf(names)
    PROVE  /\ Split(text).ready \in TextsOf(names) /\ Split(text).held \in TextsOf(names)
           /\ Split(text).ready \o Split(text).held = text
           /\ IsTail(Split(text).held)
           /\ Split(text).held = <<>> => Split(text).ready = text /\ EndsWhole(text)
<1> USE SseAssumption DEF TextsOf
<1> DEFINE n == Len(text)
           opens == {i \in 1..n : text[i] = "open"}
           start == SelectLastInSeq(text, LAMBDA c : c = "open")
           candidate == SubSeq(text, start, n)
<1>1. n \in Nat
  OBVIOUS
<1>2. \/ start = 0 /\ opens = {}
      \/ start \in opens /\ \A i \in opens : i <= start
  <2>1. CASE opens = {}
    BY <2>1 DEF SelectLastInSeq
  <2>2. CASE opens # {}
    <3>1. start = Max(opens)
      BY <2>2 DEF SelectLastInSeq
    <3>2. opens \subseteq 0..n
      BY <1>1
    <3> HIDE DEF opens
    <3>3. Max(opens) \in opens /\ \A y \in opens : Max(opens) >= y
      BY <1>1, <2>2, <3>2, MaxIsGreatest
    <3>4. \A i \in opens : i <= Max(opens)
      BY <1>1, <3>2, <3>3
    <3> QED
      BY <3>1, <3>3, <3>4
  <2> QED
    BY <2>1, <2>2
<1>3. Split(text) =
        IF start = 0 \/ {"close", "blank"} \intersect ToSet(candidate) # {} \/ Len(candidate) > MaxHeldTail
        THEN [ready |-> text, held |-> <<>>]
        ELSE [ready |-> SubSeq(text, 1, start - 1), held |-> candidate]
  BY DEF Split
<1> HIDE DEF start
<1>4. ASSUME start # 0
      PROVE  /\ start \in 1..n /\ text[start] = "open"
             /\ candidate \in Seq(names \union Marks)
             /\ Len(candidate) = n - start + 1
             /\ \A i \in 1..Len(candidate) : candidate[i] = text[start + i - 1]
             /\ ToSet(candidate) = {candidate[i] : i \in 1..Len(candidate)}
  <2>1. start \in 1..n /\ text[start] = "open"
    BY <1>2, <1>4
  <2>2. \A i \in start..n : text[i] \in names \union Marks
    BY <2>1
  <2>3. /\ candidate \in Seq(names \union Marks)
        /\ Len(candidate) = n - start + 1
        /\ \A i \in 1..(n - start + 1) : candidate[i] = text[start + i - 1]
    BY <1>1, <2>1, <2>2, SubSeqProperties
  <2> HIDE DEF candidate
  <2>4. DOMAIN candidate = 1..Len(candidate)
    BY <2>3, LenProperties
  <2>5. ToSet(candidate) = {candidate[i] : i \in 1..Len(candidate)}
    BY <2>4 DEF ToSet
  <2> QED
    BY <1>1, <2>1, <2>3, <2>5
<1> HIDE DEF candidate
<1>5. CASE start = 0
  <2>1. Split(text).ready = text /\ Split(text).held = <<>>
    BY <1>3, <1>5
  <2>2. EndsWhole(text)
    BY <1>2, <1>5 DEF EndsWhole
  <2> QED
    BY <2>1, <2>2, ConcatEmptySeq, EmptySeq DEF IsTail
<1>6. CASE start # 0 /\ ({"close", "blank"} \intersect ToSet(candidate) # {} \/ Len(candidate) > MaxHeldTail)
  <2>1. Split(text).ready = text /\ Split(text).held = <<>>
    BY <1>3, <1>6
  <2>2. ASSUME NEW i \in 1..n, text[i] = "open", i + 1 >= n
        PROVE  i + 1 = n /\ text[i + 1] \notin Names
    <3>1. i <= start /\ start \in 1..n /\ text[start] = "open"
      BY <1>2, <1>4, <1>6, <2>2
    <3>2. Len(candidate) <= 2
      BY <1>1, <1>4, <1>6, <2>2, <3>1
    <3>3. {"close", "blank"} \intersect ToSet(candidate) # {}
      BY <1>1, <1>6, <3>2
    <3>4. PICK j \in 1..Len(candidate) : candidate[j] \in {"close", "blank"}
      BY <1>4, <1>6, <3>3
    <3>5. text[start + j - 1] \in {"close", "blank"}
      BY <1>4, <1>6, <3>4
    <3>6. j # 1
      BY <1>1, <3>1, <3>5
    <3>7. j = 2 /\ Len(candidate) = 2
      <4>1. Len(candidate) \in Nat
        BY <1>1, <1>4, <1>6
      <4>2. j \in Nat /\ 1 <= j /\ j <= Len(candidate) /\ Len(candidate) <= 2
        BY <3>2, <3>4, <4>1
      <4>3. j # 1
        BY <3>6
      <4>4. \A a, b \in Nat : 1 <= a /\ a <= b /\ b <= 2 /\ a # 1 => a = 2 /\ b = 2
        OBVIOUS
      <4> QED
        BY <4>1, <4>2, <4>3, <4>4, Zenon
    <3>8. start = n - 1 /\ i = start
      BY <1>1, <1>4, <1>6, <2>2, <3>1, <3>7
    <3>9. text[i + 1] \in {"close", "blank"}
      BY <3>1, <3>5, <3>7, <3>8
    <3> QED
      BY <1>1, <3>8, <3>9 DEF Marks
  <2>3. EndsWhole(text)
    BY <2>2 DEF EndsWhole
  <2> QED
    BY <2>1, <2>3, ConcatEmptySeq, EmptySeq DEF IsTail
<1>7. CASE start # 0 /\ ~({"close", "blank"} \intersect ToSet(candidate) # {} \/ Len(candidate) > MaxHeldTail)
  <2>1. Split(text).ready = SubSeq(text, 1, start - 1) /\ Split(text).held = candidate
    <3>1. ~(start = 0 \/ {"close", "blank"} \intersect ToSet(candidate) # {} \/ Len(candidate) > MaxHeldTail)
      BY <1>7
    <3>2. Split(text) = [ready |-> SubSeq(text, 1, start - 1), held |-> candidate]
      BY <1>3, <3>1, Zenon
    <3>3. \A a, b : [ready |-> a, held |-> b].ready = a /\ [ready |-> a, held |-> b].held = b
      OBVIOUS
    <3> QED
      BY <3>2, <3>3, Zenon
  <2>2. SubSeq(text, 1, start - 1) \in Seq(names \union Marks)
    <3>1. \A i \in 1..(start - 1) : text[i] \in names \union Marks
      BY <1>1, <1>4, <1>7
    <3> QED
      BY <1>1, <1>4, <1>7, <3>1, SubSeqProperties
  <2>3. SubSeq(text, 1, start - 1) \o candidate = text
    <3>1. /\ 1 \in 1..(Len(text) + 1) /\ start - 1 \in (1 - 1)..Len(text)
          /\ n \in (start - 1)..Len(text) /\ (start - 1) + 1 = start
      BY <1>1, <1>4, <1>7
    <3>2. SubSeq(text, 1, start - 1) \o SubSeq(text, (start - 1) + 1, n) = SubSeq(text, 1, n)
      BY <3>1, ConcatAdjacentSubSeq
    <3> QED
      BY <3>1, <3>2, SubSeqFull DEF candidate
  <2>4. IsTail(candidate)
    <3>1. \A i \in 1..Len(candidate) : candidate[i] # "close"
      BY <1>4, <1>7
    <3>2. candidate[1] = "open" /\ candidate # <<>>
      BY <1>1, <1>4, <1>7
    <3> QED
      BY <1>1, <1>4, <1>7, <3>1, <3>2 DEF IsTail
  <2>5. candidate # <<>>
    BY <1>1, <1>4, <1>7
  <2> QED
    BY <1>4, <1>7, <2>1, <2>2, <2>3, <2>4, <2>5
<1> QED
  BY <1>5, <1>6, <1>7

\* Between a text that ends whole and any other, or before an open guillemet, no
\* placeholder is cut.
LEMMA CutSafely ==
    ASSUME NEW s \in Texts, NEW t \in Texts, NEW names \in SUBSET Names,
           EndsWhole(s) \/ (t # <<>> => t[1] = "open")
    PROVE  NoneCut(s, t, names)
<1> USE SseAssumption
<1>1. /\ Len(s) \in Nat /\ Len(t) \in Nat
      /\ Len(s \o t) = Len(s) + Len(t)
      /\ \A i \in 1..Len(s) : (s \o t)[i] = s[i]
      /\ \A i \in 1..Len(t) : (s \o t)[i + Len(s)] = t[i]
  BY ConcatProperties DEF Texts
<1>2. SUFFICES ASSUME NEW i \in 1..Len(s), IsPlaceholder(s \o t, names, i), i + 2 > Len(s)
               PROVE  FALSE
  BY <1>1 DEF NoneCut
<1>3. /\ s[i] = "open" /\ (s \o t)[i + 1] \in Names /\ (s \o t)[i + 2] = "close"
      /\ 1 \in 1..Len(t)
  BY <1>1, <1>2 DEF IsPlaceholder
<1>4. CASE EndsWhole(s)
  <2>1. i + 1 = Len(s) /\ s[i + 1] \notin Names
    BY <1>1, <1>2, <1>3, <1>4 DEF EndsWhole
  <2> QED
    BY <1>1, <1>3, <2>1
<1>5. CASE t # <<>> => t[1] = "open"
  <2>1. (s \o t)[1 + Len(s)] = "open"
    BY <1>1, <1>3, <1>5
  <2>2. 1 + Len(s) \in {i + 1, i + 2}
    BY <1>1, <1>2
  <2> QED
    BY <1>3, <2>1, <2>2 DEF Marks
<1> QED
  BY <1>2, <1>4, <1>5


LEMMA RestoredTyped ==
    ASSUME NEW text \in Texts, NEW names \in SUBSET Names, NEW k
    PROVE  Restored(text, names, k) \in Outputs
<1>1. 1 \in Places(text)
  BY DEF Places, Texts
<1> QED
  BY <1>1, FromTyped, RestoredFrom, Zenon

LEMMA TextsConcat ==
    ASSUME NEW names, NEW s \in TextsOf(names), NEW t \in TextsOf(names)
    PROVE  s \o t \in TextsOf(names)
BY ConcatProperties DEF TextsOf

LEMMA TextsAssociate ==
    ASSUME NEW names
    PROVE  \A x, y, z \in TextsOf(names) : (x \o y) \o z = x \o (y \o z)
BY ConcatAssociative DEF TextsOf

\* A tail is as it was when it is restored after what was let go before it.
LEMMA TailAsItIs ==
    ASSUME NEW names \in SUBSET Names, NEW k,
           NEW s \in TextsOf(names), NEW t \in TextsOf(names),
           IsTail(t), t = <<>> => EndsWhole(s)
    PROVE  Restored(s \o t, names, k) = Restored(s, names, k) \o t
<1>1. s \in Texts /\ t \in Texts
  BY SomeTexts
<1>2. NoneCut(s, t, names)
  BY <1>1, CutSafely DEF IsTail
<1>3. Restored(t, names, k) = t
  BY <1>1, NothingToRestore DEF IsTail
<1>4. Restored(s \o t, names, k) = Restored(s, names, k) \o Restored(t, names, k)
  BY <1>1, <1>2, RestoredInParts
<1> QED
  BY <1>3, <1>4, Zenon

\* The same text, cut in two places.
SameText(ready, held, t, fragment) == ready \o held = t \o fragment

LEMMA Regroup ==
    ASSUME NEW names
    PROVE  \A s, t, fragment, ready, held \in TextsOf(names) :
              SameText(ready, held, t, fragment) => SameText(s \o ready, held, s \o t, fragment)
<1>0. \A x, y, z \in TextsOf(names) : (x \o y) \o z = x \o (y \o z)
  BY TextsAssociate
<1> TAKE s, t, fragment, ready, held \in TextsOf(names)
<1> DEFINE u == ready \o held
<1>1. (s \o ready) \o held = s \o u /\ (s \o t) \o fragment = s \o (t \o fragment)
  <2>1. (s \o ready) \o held = s \o (ready \o held)
    BY <1>0
  <2>2. (s \o t) \o fragment = s \o (t \o fragment)
    BY <1>0
  <2> QED
    BY <2>1, <2>2
<1> HIDE DEF u
<1>2. u = t \o fragment => s \o u = s \o (t \o fragment)
  OBVIOUS
<1>3. u = t \o fragment => (s \o ready) \o held = (s \o t) \o fragment
  BY <1>1, <1>2
<1> QED
  BY <1>3 DEF u, SameText

\* A text that ends whole still does after another that does, or when it opens
\* with a guillemet.
LEMMA StillEndsWhole ==
    ASSUME NEW s \in Texts, NEW u \in Texts, EndsWhole(u),
           EndsWhole(s) \/ (u # <<>> /\ u[1] = "open")
    PROVE  EndsWhole(s \o u)
<1>0. Len(s) \in Nat /\ Len(u) \in Nat
  BY DEF Texts
<1>1. /\ Len(s \o u) = Len(s) + Len(u)
      /\ \A i \in 1..Len(s) : (s \o u)[i] = s[i]
      /\ \A i \in 1..Len(u) : (s \o u)[i + Len(s)] = u[i]
  BY <1>0, ConcatProperties DEF Texts
<1>2. SUFFICES ASSUME NEW i \in 1..Len(s \o u),
                      (s \o u)[i] = "open", i + 1 >= Len(s \o u)
               PROVE  i + 1 = Len(s \o u) /\ (s \o u)[i + 1] \notin Names
  BY DEF EndsWhole
<1>3. CASE i > Len(s)
  <2>1. i - Len(s) \in 1..Len(u) /\ (i - Len(s)) + Len(s) = i /\ (i - Len(s)) + 1 >= Len(u)
    BY <1>0, <1>1, <1>2, <1>3
  <2>2. u[i - Len(s)] = "open"
    BY <1>1, <1>2, <2>1
  <2>3. (i - Len(s)) + 1 = Len(u) /\ u[(i - Len(s)) + 1] \notin Names
    BY <1>2, <2>1, <2>2 DEF EndsWhole
  <2>4. (i - Len(s)) + 1 \in 1..Len(u) /\ ((i - Len(s)) + 1) + Len(s) = i + 1
    BY <1>0, <2>1, <2>3
  <2>5. (s \o u)[i + 1] = u[(i - Len(s)) + 1]
    BY <1>1, <2>4
  <2> QED
    BY <1>0, <1>1, <2>3, <2>4, <2>5
<1>4. CASE i <= Len(s)
  <2>1. i \in 1..Len(s) /\ s[i] = "open" /\ i + 1 >= Len(s)
    BY <1>0, <1>1, <1>2, <1>4
  <2>2. CASE EndsWhole(s)
    <3>1. i + 1 = Len(s) /\ s[i + 1] \notin Names
      BY <2>1, <2>2 DEF EndsWhole
    <3>2. Len(u) = 0 /\ i + 1 \in 1..Len(s)
      BY <1>0, <1>1, <1>2, <3>1
    <3>3. (s \o u)[i + 1] = s[i + 1] /\ Len(s \o u) = Len(s)
      BY <1>0, <1>1, <3>2
    <3> QED
      BY <3>1, <3>3
  <2>3. CASE u # <<>> /\ u[1] = "open"
    <3>1. Len(u) # 0
      BY <1>0, <2>3, EmptySeq DEF Texts
    <3>2. i = Len(s) /\ Len(u) = 1 /\ 1 \in 1..Len(u)
      BY <1>0, <1>1, <1>2, <2>1, <3>1
    <3>3. (s \o u)[1 + Len(s)] = "open"
      BY <1>1, <2>3, <3>2
    <3>4. i + 1 = 1 + Len(s) /\ i + 1 = Len(s \o u)
      BY <1>0, <1>1, <3>2
    <3> QED
      BY <3>3, <3>4, SseAssumption DEF Marks
  <2> QED
    BY <2>2, <2>3
<1> QED
  BY <1>0, <1>1, <1>3, <1>4

\* What is let go of a tail and a fragment after it.
LEMMA LetGo ==
    ASSUME NEW names \in SUBSET Names, NEW k, NEW s \in TextsOf(names),
           NEW t \in TextsOf(names), NEW fragment \in TextsOf(names),
           IsTail(t), t = <<>> => EndsWhole(s),
           NEW ready \in TextsOf(names), NEW held \in TextsOf(names),
           SameText(ready, held, t, fragment),
           held = <<>> => ready = t \o fragment /\ EndsWhole(t \o fragment)
    PROVE  /\ s \o ready \in TextsOf(names)
           /\ SameText(s \o ready, held, s \o t, fragment)
           /\ Restored(s \o ready, names, k) = Restored(s, names, k) \o Restored(ready, names, k)
           /\ held = <<>> => EndsWhole(s \o ready)
<1> DEFINE u == t \o fragment
<1>1. u \in TextsOf(names)
  BY TextsConcat
<1>2. ready \o held = u /\ (held = <<>> => ready = u /\ EndsWhole(u))
  BY DEF SameText
<1>3. s \o ready \in TextsOf(names)
  BY <1>2, TextsConcat
<1>4. SameText(s \o ready, held, s \o t, fragment)
  BY Regroup
<1>5. /\ s \in Texts /\ t \in Texts /\ u \in Texts /\ ready \in Texts
      /\ Len(s) \in Nat /\ Len(t) \in Nat /\ Len(u) \in Nat /\ Len(ready) \in Nat
  BY <1>1, <1>2, SomeTexts
<1>6. t # <<>> => u # <<>> /\ u[1] = "open"
  <2>1. SUFFICES ASSUME t # <<>> PROVE u # <<>> /\ u[1] = "open"
    OBVIOUS
  <2>2. 1 \in 1..Len(t) /\ t[1] = "open"
    BY <1>5, <2>1, EmptySeq DEF IsTail, TextsOf
  <2>3. u[1] = t[1] /\ Len(u) = Len(t) + Len(fragment) /\ Len(fragment) \in Nat
    BY <2>2, ConcatProperties DEF TextsOf
  <2> QED
    BY <1>5, <2>2, <2>3, EmptySeq
<1>7. EndsWhole(s) \/ (u # <<>> /\ u[1] = "open")
  BY <1>6
<1> HIDE DEF u
<1>8. EndsWhole(s) \/ (ready # <<>> => ready[1] = "open")
  <2>1. SUFFICES ASSUME ready # <<>>, u[1] = "open" PROVE ready[1] = "open"
    BY <1>7
  <2>2. 1 \in 1..Len(ready)
    BY <1>2, <1>5, <2>1, EmptySeq DEF TextsOf
  <2>3. (ready \o held)[1] = ready[1]
    <3>1. held \in Texts /\ Len(held) \in Nat
      BY <1>2, SomeTexts
    <3>2. \A i \in 1..Len(ready) : (ready \o held)[i] = ready[i]
      BY <1>5, <3>1, ConcatProperties DEF Texts
    <3> QED
      BY <2>2, <3>2
  <2> QED
    BY <1>2, <2>1, <2>3
<1>9. Restored(s \o ready, names, k) = Restored(s, names, k) \o Restored(ready, names, k)
  <2>1. NoneCut(s, ready, names)
    BY <1>5, <1>8, CutSafely, Zenon
  <2> QED
    BY <1>5, <2>1, RestoredInParts
<1>10. EndsWhole(u) => EndsWhole(s \o u)
  BY <1>5, <1>7, StillEndsWhole
<1> QED
  BY <1>2, <1>3, <1>4, <1>9, <1>10


----------------------------------------------------------------------------
(* The stream *)

\* What may be on the wire: terminators, and halves of a data line.
Data(names) == [key : Keys, text : TextsOf(names), half : {1, 2}]
Items(names) == {CR, LF} \union Data(names)
Lines(names) == Seq(Items(names))

StreamTypes ==
    /\ known \in SUBSET Names /\ IsFiniteSet(known) /\ escaped \subseteq known
    /\ unsent \in [Keys -> Texts] /\ ending \in Seq({CR, LF})
    /\ wire \in Lines(known) /\ buffer \in Lines(known)

TextTypes ==
    /\ tails \in [Keys -> TextsOf(known)] /\ seen \in [Keys -> TextsOf(known)]
    /\ received \in [Keys -> Outputs]

\* What came is a text let go and restored, and a tail, with no placeholder across.
InParts(all, out, tail, names, k) ==
    /\ IsTail(tail)
    /\ \E s \in TextsOf(names) :
        /\ s \o tail = all
        /\ out = Restored(s, names, k)
        /\ tail = <<>> => EndsWhole(s)

InWhole(all, out, tail, names, k) == tail = <<>> /\ out = Restored(all, names, k)

HeldBack ==
    \A k \in Keys :
        /\ phase # "closed" => InParts(seen[k], received[k], tails[k], known, k)
        /\ phase = "closed" => InWhole(seen[k], received[k], tails[k], known, k)

StreamInv == StreamTypes /\ TextTypes /\ HeldBack

\* More names leave what was let go as it was.
LEMMA MoreNames ==
    ASSUME NEW names \in SUBSET Names, NEW more \in SUBSET Names, names \subseteq more
    PROVE  /\ TextsOf(names) \subseteq TextsOf(more)
           /\ Lines(names) \subseteq Lines(more)
<1>1. TextsOf(names) \subseteq TextsOf(more)
  BY SeqMonotonic DEF TextsOf
<1>2. Items(names) \subseteq Items(more)
  BY <1>1 DEF Items, Data
<1> QED
  BY <1>1, <1>2, SeqMonotonic DEF Lines

LEMMA InPartsStill ==
    ASSUME NEW names \in SUBSET Names, NEW more \in SUBSET Names, names \subseteq more,
           NEW all, NEW out, NEW tail, NEW k, InParts(all, out, tail, names, k)
    PROVE  InParts(all, out, tail, more, k)
<1>1. PICK s \in TextsOf(names) :
        s \o tail = all /\ out = Restored(s, names, k) /\ (tail = <<>> => EndsWhole(s))
  BY DEF InParts
<1>2. s \in TextsOf(more)
  BY MoreNames
<1>3. Restored(s, more, k) = Restored(s, names, k)
  BY OtherNames DEF TextsOf
<1> QED
  BY <1>1, <1>2, <1>3 DEF InParts

\* What InParts and InWhole promise.
LEMMA InPartsAsOne ==
    ASSUME NEW names \in SUBSET Names, NEW all, NEW out, NEW tail \in TextsOf(names), NEW k,
           InParts(all, out, tail, names, k)
    PROVE  out \o tail = Restored(all, names, k) /\ Len(tail) <= MaxHeldTail
<1>1. PICK s \in TextsOf(names) :
        s \o tail = all /\ out = Restored(s, names, k) /\ (tail = <<>> => EndsWhole(s))
  BY DEF InParts
<1>2. Restored(s \o tail, names, k) = Restored(s, names, k) \o tail
  BY <1>1, TailAsItIs DEF InParts
<1> QED
  BY <1>1, <1>2 DEF InParts, IsTail

\* rehydrateFragment keeps what InParts says.
LEMMA TransformKeeps ==
    ASSUME NEW names \in SUBSET Names, NEW k, NEW all \in TextsOf(names), NEW out,
           NEW tail \in TextsOf(names), NEW fragment \in TextsOf(names),
           InParts(all, out, tail, names, k),
           NEW split, split = Split(tail \o fragment)
    PROVE  /\ split.held \in TextsOf(names) /\ split.ready \in TextsOf(names)
           /\ all \o fragment \in TextsOf(names)
           /\ InParts(all \o fragment, out \o Restored(split.ready, names, k), split.held, names, k)
<1> DEFINE ready == Split(tail \o fragment).ready
           held == Split(tail \o fragment).held
<1>2. tail \o fragment \in TextsOf(names) /\ all \o fragment \in TextsOf(names)
  BY TextsConcat
<1>3. /\ ready \in TextsOf(names) /\ held \in TextsOf(names)
      /\ SameText(ready, held, tail, fragment)
      /\ IsTail(held)
      /\ held = <<>> => ready = tail \o fragment /\ EndsWhole(tail \o fragment)
  BY <1>2, SplitParts DEF SameText
<1> HIDE DEF ready, held
<1>4. IsTail(tail)
  BY DEF InParts
<1>5. ASSUME NEW s \in TextsOf(names), tail = <<>> => EndsWhole(s)
      PROVE  /\ s \o ready \in TextsOf(names)
             /\ SameText(s \o ready, held, s \o tail, fragment)
             /\ Restored(s \o ready, names, k) = Restored(s, names, k) \o Restored(ready, names, k)
             /\ held = <<>> => EndsWhole(s \o ready)
  BY <1>3, <1>4, <1>5, LetGo
<1>1. PICK s \in TextsOf(names) :
        s \o tail = all /\ out = Restored(s, names, k) /\ (tail = <<>> => EndsWhole(s))
  BY DEF InParts
<1>6. InParts(all \o fragment, out \o Restored(ready, names, k), held, names, k)
  <2>1. (s \o ready) \o held = all \o fragment
    BY <1>1, <1>5 DEF SameText
  <2>2. out \o Restored(ready, names, k) = Restored(s \o ready, names, k)
    BY <1>1, <1>5
  <2> DEFINE more == s \o ready
             given == all \o fragment
             got == out \o Restored(ready, names, k)
  <2>3. /\ more \in TextsOf(names) /\ more \o held = given /\ got = Restored(more, names, k)
        /\ held = <<>> => EndsWhole(more)
    BY <1>1, <1>5, <2>1, <2>2
  <2> HIDE DEF more, given, got
  <2>4. InParts(given, got, held, names, k)
    BY <1>3, <2>3 DEF InParts
  <2> QED
    BY <2>4 DEF given, got
<1> QED
  BY <1>2, <1>3, <1>6 DEF ready, held


\* A part of a sequence is one of the same items.
LEMMA PartOfSeq ==
    ASSUME NEW S, NEW s \in Seq(S), NEW m \in Nat \ {0}, NEW n \in Int, n <= Len(s)
    PROVE  SubSeq(s, m, n) \in Seq(S)
<1>1. \A i \in m..n : s[i] \in S
  OBVIOUS
<1> QED
  BY <1>1, SubSeqProperties

LEMMA EmptyTexts ==
    ASSUME NEW names \in SUBSET Names, NEW k
    PROVE  /\ <<>> \in TextsOf(names) /\ <<>> \in Outputs
           /\ Restored(<<>>, names, k) = <<>>
           /\ IsTail(<<>>) /\ EndsWhole(<<>>)
<1>1. <<>> \in TextsOf(names) /\ <<>> \in Outputs /\ <<>> \in Texts /\ Len(<<>>) = 0
  BY EmptySeq DEF TextsOf, Outputs, Texts
<1>2. Restored(<<>>, names, k) = <<>>
  BY <1>1, NothingToRestore
<1>3. IsTail(<<>>) /\ EndsWhole(<<>>)
  BY <1>1, SseAssumption DEF IsTail, EndsWhole
<1> QED
  BY <1>1, <1>2, <1>3

\* The buffer but for a final CR.
LEMMA BodyIs ==
    ASSUME NEW S, buffer \in Seq(S)
    PROVE  /\ Body \in Seq(S)
           /\ \A i \in 1..Len(Body) : i \in 1..Len(buffer) /\ Body[i] = buffer[i]
           /\ \/ Len(Body) = Len(buffer) /\ (Len(buffer) > 0 => buffer[Len(buffer)] # CR)
              \/ /\ Len(buffer) > 0 /\ buffer[Len(buffer)] = CR
                 /\ Len(Body) = Len(buffer) - 1
<1>1. Len(buffer) \in Nat /\ (buffer # <<>> <=> Len(buffer) > 0)
  BY EmptySeq
<1>2. CASE buffer # <<>> /\ Last(buffer) = CR
  <2>1. Body = SubSeq(buffer, 1, Len(buffer) - 1)
    BY <1>2 DEF Body
  <2>2. \A i \in 1..(Len(buffer) - 1) : buffer[i] \in S
    BY <1>1
  <2> DEFINE b == SubSeq(buffer, 1, Len(buffer) - 1)
  <2>3. /\ b \in Seq(S) /\ Len(b) = IF 1 <= Len(buffer) - 1 THEN Len(buffer) - 1 - 1 + 1 ELSE 0
        /\ \A i \in 1..(Len(buffer) - 1 - 1 + 1) : b[i] = buffer[1 + i - 1]
    BY <1>1, <2>2, SubSeqProperties
  <2> HIDE DEF b
  <2>4. Len(b) = Len(buffer) - 1 /\ \A i \in 1..(Len(buffer) - 1) : b[i] = buffer[i]
    <3>1. Len(buffer) \in Nat \ {0}
      BY <1>1, <1>2
    <3>2. Len(b) = Len(buffer) - 1
      <4>1. \A n \in Nat \ {0} : (IF 1 <= n - 1 THEN n - 1 - 1 + 1 ELSE 0) = n - 1
        OBVIOUS
      <4> QED
        BY <2>3, <3>1, <4>1
    <3>3. \A i \in 1..(Len(buffer) - 1) : b[i] = buffer[i]
      <4> TAKE i \in 1..(Len(buffer) - 1)
      <4>1. i \in 1..(Len(buffer) - 1 - 1 + 1) /\ 1 + i - 1 = i
        BY <3>1
      <4> QED
        BY <2>3, <4>1
    <3> QED
      BY <3>2, <3>3
  <2>5. Body = b
    BY <2>1 DEF b
  <2> QED
    BY <1>1, <1>2, <2>3, <2>4, <2>5 DEF Last
<1>3. CASE ~(buffer # <<>> /\ Last(buffer) = CR)
  BY <1>1, <1>3 DEF Body, Last
<1> QED
  BY <1>2, <1>3

\* The first complete event and the blank line after it.
LEMMA EventInBuffer ==
    ASSUME NEW S, buffer \in Seq(S)
    PROVE  /\ EventEnd \in 0..Len(buffer)
           /\ \A s, i : Boundary(s, i) \in Nat
<1>1. \A s, i : Eol(s, i) \in Nat
  BY DEF Eol
<1>2. \A s, i : Boundary(s, i) \in Nat
  BY <1>1 DEF Boundary
<1>3. Len(Body) \in 0..Len(buffer)
  BY BodyIs
<1>4. EventEnd \in 0..Len(buffer)
  <2> DEFINE ends == {i \in 1..Len(Body) : Boundary(Body, i) > 0}
  <2>1. EventEnd = IF ends = {} THEN 0 ELSE Min(ends)
    BY DEF EventEnd
  <2>2. ends \subseteq Nat /\ ends \subseteq 1..Len(Body)
    BY <1>3
  <2> HIDE DEF ends
  <2>3. ends # {} => Min(ends) \in ends
    BY <2>2, MinIsLeast
  <2> QED
    BY <1>3, <2>1, <2>2, <2>3
<1> QED
  BY <1>2, <1>4

\* The escaped view that is read has every placeholder.
LEMMA EscapedIsKnown ==
    ASSUME StreamTypes
    PROVE  Escaped = known
BY FS_Subset DEF StreamTypes, Escaped

\* What may end an event: two ends of lines.
LEMMA EndingTyped ==
    ASSUME NEW e \in Terminators
    PROVE  /\ e \in Seq({CR, LF})
           /\ \/ Len(e) = 2 /\ e \in {<<LF, LF>>, <<LF, CR>>, <<CR, CR>>}
              \/ /\ Len(e) = 3
                 /\ e \in {<<LF, CR, LF>>, <<CR, LF, LF>>, <<CR, LF, CR>>, <<CR, CR, LF>>}
              \/ Len(e) = 4 /\ e = <<CR, LF, CR, LF>>
<1>0. \/ e \in {<<LF, LF>>, <<LF, CR>>, <<CR, CR>>}
      \/ e \in {<<LF, CR, LF>>, <<CR, LF, LF>>, <<CR, LF, CR>>, <<CR, CR, LF>>}
      \/ e = <<CR, LF, CR, LF>>
  BY SseAssumption DEF BlankLines
<1>1. \A x, y \in {CR, LF} : <<x, y>> \in Seq({CR, LF}) /\ Len(<<x, y>>) = 2
  OBVIOUS
<1>2. \A x, y, z \in {CR, LF} : <<x, y, z>> \in Seq({CR, LF}) /\ Len(<<x, y, z>>) = 3
  OBVIOUS
<1>3. \A x, y, z, w \in {CR, LF} : <<x, y, z, w>> \in Seq({CR, LF}) /\ Len(<<x, y, z, w>>) = 4
  OBVIOUS
<1>4. CASE e \in {<<LF, LF>>, <<LF, CR>>, <<CR, CR>>}
  BY <1>1, <1>4
<1>5. CASE e \in {<<LF, CR, LF>>, <<CR, LF, LF>>, <<CR, LF, CR>>, <<CR, CR, LF>>}
  BY <1>2, <1>5
<1>6. CASE e = <<CR, LF, CR, LF>>
  BY <1>3, <1>6
<1> QED
  BY <1>0, <1>4, <1>5, <1>6

LEMMA StreamInit ==
    ASSUME Init
    PROVE  StreamInv
<1> USE SseAssumption DEF Init
<1>1. StreamTypes
  <2>1. unsent \in [Keys -> Texts] /\ ending \in Seq({CR, LF})
    BY EndingTyped DEF Texts
  <2>2. wire \in Lines(known) /\ buffer \in Lines(known)
    BY EmptySeq DEF Lines
  <2> QED
    BY <2>1, <2>2 DEF StreamTypes
<1>2. known \in SUBSET Names
  OBVIOUS
<1>3. TextTypes
  BY <1>2, EmptyTexts DEF TextTypes
<1>4. ASSUME NEW k \in Keys PROVE InParts(seen[k], received[k], tails[k], known, k)
  <2>1. seen[k] = <<>> /\ received[k] = <<>> /\ tails[k] = <<>>
    BY <1>4
  <2>2. InParts(<<>>, <<>>, <<>>, known, k)
    <3>1. <<>> \o <<>> = <<>>
      BY <1>2, EmptyTexts, ConcatEmptySeq DEF Outputs
    <3> QED
      BY <1>2, <3>1, EmptyTexts DEF InParts
  <2> QED
    BY <2>1, <2>2
<1> QED
  BY <1>1, <1>3, <1>4 DEF StreamInv, HeldBack

LEMMA SendKeeps ==
    ASSUME StreamInv, NEW k \in Keys, NEW n \in 1..MaxFragment, Send(k, n)
    PROVE  StreamInv'
<1> DEFINE text == SubSeq(unsent[k], 1, n)
           data == [key |-> k, text |-> text, half |-> 1]
<1>1. unsent[k] \in Texts /\ n \in Nat \ {0} /\ n <= Len(unsent[k]) /\ Len(unsent[k]) \in Nat
  BY SseAssumption DEF StreamInv, StreamTypes, Send, Texts
<1>2. text \in Texts
  BY <1>1, PartOfSeq DEF Texts
<1>3. ToSet(text) \intersect Names \subseteq known
  BY DEF Send
<1>4. SubSeq(unsent[k], n + 1, Len(unsent[k])) \in Texts
  BY <1>1, PartOfSeq DEF Texts
<1>5. unsent' \in [Keys -> Texts]
  BY <1>4 DEF StreamInv, StreamTypes, Send
<1>6. wire' = wire \o (<<data, [data EXCEPT !.half = 2]>> \o ending)
  BY DEF Send
<1> HIDE DEF text
<1>7. text \in TextsOf(known)
  <2>1. Len(text) \in Nat /\ DOMAIN text = 1..Len(text)
    BY <1>2 DEF Texts
  <2>2. \A i \in 1..Len(text) : text[i] \in ToSet(text) /\ text[i] \in Names \union Marks
    BY <1>2, <2>1 DEF ToSet, Texts, Symbols
  <2>3. \A i \in 1..Len(text) : text[i] \in known \union Marks
    BY <1>3, <2>2
  <2> QED
    BY <1>2, <2>1, <2>3 DEF Texts, TextsOf
<1>8. data \in Items(known) /\ [data EXCEPT !.half = 2] \in Items(known)
  BY <1>7 DEF Items, Data
<1> HIDE DEF data
<1>9. <<data, [data EXCEPT !.half = 2]>> \in Lines(known) /\ ending \in Lines(known)
  <2>1. ending \in Seq(Items(known))
    BY SeqMonotonic DEF StreamInv, StreamTypes, Items
  <2> QED
    BY <1>8, <2>1 DEF Lines
<1>10. wire' \in Lines(known)
  BY <1>6, <1>9 DEF StreamInv, StreamTypes, Lines
<1>11. UNCHANGED <<known, escaped, ending, buffer, tails, seen, received, phase>>
  BY DEF Send, client
<1> QED
  BY <1>5, <1>10, <1>11 DEF StreamInv, StreamTypes, TextTypes, HeldBack


LEMMA GrowKeeps ==
    ASSUME StreamInv, NEW n \in Names, Grow(n)
    PROVE  StreamInv'
<1>1. /\ known' = known \union {n} /\ phase = "open"
      /\ UNCHANGED <<escaped, unsent, ending, wire, buffer, tails, seen, received, phase>>
  BY DEF Grow, client
<1>2. known \in SUBSET Names /\ known' \in SUBSET Names /\ known \subseteq known'
  BY <1>1 DEF StreamInv, StreamTypes
<1>3. TextsOf(known) \subseteq TextsOf(known') /\ Lines(known) \subseteq Lines(known')
  BY <1>2, MoreNames
<1>4. IsFiniteSet(known')
  BY <1>1, FS_AddElement DEF StreamInv, StreamTypes
<1>5. StreamTypes'
  BY <1>1, <1>2, <1>3, <1>4 DEF StreamInv, StreamTypes
<1>6. TextTypes'
  BY <1>1, <1>3 DEF StreamInv, TextTypes
<1>7. ASSUME NEW k \in Keys PROVE InParts(seen[k], received[k], tails[k], known', k)
  <2>1. InParts(seen[k], received[k], tails[k], known, k)
    BY <1>1 DEF StreamInv, HeldBack
  <2> QED
    BY <1>2, <2>1, InPartsStill
<1> QED
  BY <1>1, <1>5, <1>6, <1>7 DEF StreamInv, HeldBack

LEMMA PushKeeps ==
    ASSUME StreamInv, NEW n \in 1..Len(wire), Push(n)
    PROVE  StreamInv'
<1>1. wire \in Lines(known) /\ buffer \in Lines(known) /\ n \in Nat \ {0} /\ n <= Len(wire)
      /\ Len(wire) \in Nat
  BY DEF StreamInv, StreamTypes, Push, Lines
<1>2. SubSeq(wire, 1, n) \in Lines(known) /\ SubSeq(wire, n + 1, Len(wire)) \in Lines(known)
  BY <1>1, PartOfSeq DEF Lines
<1>3. buffer' = buffer \o SubSeq(wire, 1, n) /\ wire' = SubSeq(wire, n + 1, Len(wire))
  BY DEF Push
<1>4. wire' \in Lines(known) /\ buffer' \in Lines(known)
  BY <1>1, <1>2, <1>3, ConcatProperties DEF Lines
<1>5. UNCHANGED <<known, escaped, unsent, ending, tails, seen, received, phase>>
  BY DEF Push, upstream, client
<1> QED
  BY <1>4, <1>5 DEF StreamInv, StreamTypes, TextTypes, HeldBack

\* The event transformed is one of the upstream's, whatever was cut.
LEMMA TransformInStream ==
    ASSUME StreamInv, phase # "closed", NEW k \in Keys, NEW fragment \in TextsOf(known),
           Transform(k, fragment), UNCHANGED <<known, phase>>
    PROVE  TextTypes' /\ HeldBack' /\ escaped' \subseteq known
<1> DEFINE split == Split(tails[k] \o fragment)
           json == k \in JsonKeys /\ "open" \in ToSet(split.ready)
           view == IF json THEN Escaped ELSE known
<1>1. StreamTypes /\ TextTypes /\ known \in SUBSET Names
  BY DEF StreamInv, StreamTypes
<1>2. view = known
  BY <1>1, EscapedIsKnown
<1>3. escaped' \subseteq known
  BY <1>1, EscapedIsKnown DEF Transform, StreamTypes
<1>4. /\ tails' = [tails EXCEPT ![k] = split.held]
      /\ seen' = [seen EXCEPT ![k] = seen[k] \o fragment]
      /\ received' = [received EXCEPT ![k] = received[k] \o Restored(split.ready, view, k)]
  BY DEF Transform
<1> HIDE DEF view
<1>5. /\ tails[k] \in TextsOf(known) /\ seen[k] \in TextsOf(known) /\ received[k] \in Outputs
      /\ InParts(seen[k], received[k], tails[k], known, k)
  BY <1>1 DEF TextTypes, StreamInv, HeldBack
<1>6. /\ split.held \in TextsOf(known) /\ split.ready \in TextsOf(known)
      /\ seen[k] \o fragment \in TextsOf(known)
      /\ InParts(seen[k] \o fragment, received[k] \o Restored(split.ready, known, k),
                 split.held, known, k)
  BY <1>1, <1>5, TransformKeeps
<1> HIDE DEF split
<1>7. received[k] \o Restored(split.ready, known, k) \in Outputs
  BY <1>1, <1>5, <1>6, SomeTexts, RestoredTyped, OutputsConcat
<1>8. TextTypes'
  BY <1>1, <1>2, <1>4, <1>6, <1>7 DEF TextTypes
<1>9. ASSUME NEW j \in Keys PROVE InParts(seen'[j], received'[j], tails'[j], known, j)
  <2>1. CASE j = k
    <3>1. /\ seen'[k] = seen[k] \o fragment /\ tails'[k] = split.held
          /\ received'[k] = received[k] \o Restored(split.ready, known, k)
      BY <1>1, <1>2, <1>4 DEF TextTypes
    <3> QED
      BY <1>6, <2>1, <3>1
  <2>2. CASE j # k
    <3>1. seen'[j] = seen[j] /\ received'[j] = received[j] /\ tails'[j] = tails[j]
      BY <1>1, <1>4, <2>2 DEF TextTypes
    <3> QED
      BY <3>1 DEF StreamInv, HeldBack
  <2> QED
    BY <2>1, <2>2
<1> QED
  BY <1>3, <1>8, <1>9 DEF HeldBack

LEMMA EmitEventKeeps ==
    ASSUME StreamInv, EmitEvent
    PROVE  StreamInv'
<1> DEFINE block == SubSeq(buffer, 1, EventEnd - 1)
<1>1. buffer \in Seq(Items(known)) /\ Len(buffer) \in Nat
  BY DEF StreamInv, StreamTypes, Lines
<1>2. EventEnd \in 1..Len(buffer) /\ Boundary(Body, EventEnd) \in Nat
  BY <1>1, EventInBuffer DEF EmitEvent
<1>3. block \in Seq(Items(known))
  BY <1>1, <1>2, PartOfSeq
<1>4. buffer' \in Lines(known)
  <2>1. buffer' = SubSeq(buffer, EventEnd + Boundary(Body, EventEnd), Len(buffer))
    BY DEF EmitEvent
  <2>2. EventEnd + Boundary(Body, EventEnd) \in Nat \ {0}
    BY <1>2
  <2> QED
    BY <1>1, <2>1, <2>2, PartOfSeq DEF Lines
<1>5. UNCHANGED <<known, unsent, ending, wire, phase>> /\ phase # "closed"
  BY DEF EmitEvent, upstream
<1>6. \/ \E i \in DataOf(block) : IsEvent(block, i) /\ Transform(block[i].key, block[i].text)
      \/ UNCHANGED <<tails, escaped, seen, received>>
  BY DEF EmitEvent
<1> HIDE DEF block
<1>7. CASE \E i \in DataOf(block) : IsEvent(block, i) /\ Transform(block[i].key, block[i].text)
  <2>1. PICK i \in DataOf(block) : Transform(block[i].key, block[i].text)
    BY <1>7
  <2>2. block[i] \in Data(known)
    BY <1>3, <2>1 DEF DataOf, Items
  <2>3. block[i].key \in Keys /\ block[i].text \in TextsOf(known)
    BY <2>2 DEF Data
  <2>4. TextTypes' /\ HeldBack' /\ escaped' \subseteq known
    BY <1>5, <2>1, <2>3, TransformInStream
  <2> QED
    BY <1>4, <1>5, <2>4 DEF StreamInv, StreamTypes
<1>8. CASE UNCHANGED <<tails, escaped, seen, received>>
  BY <1>4, <1>5, <1>8 DEF StreamInv, StreamTypes, TextTypes, HeldBack
<1> QED
  BY <1>6, <1>7, <1>8

LEMMA EndStreamKeeps ==
    ASSUME StreamInv, EndStream
    PROVE  StreamInv'
<1>1. /\ phase = "open" /\ phase' = "flushing" /\ wire' = <<>> /\ buffer' = buffer \o <<LF, LF>>
      /\ UNCHANGED <<known, escaped, unsent, ending, tails, seen, received>>
  BY DEF EndStream, upstream, client
<1>2. wire' \in Lines(known) /\ buffer' \in Lines(known)
  <2>1. <<LF, LF>> \in Lines(known) /\ buffer \in Lines(known)
    BY DEF StreamInv, StreamTypes, Lines, Items
  <2> QED
    BY <1>1, <2>1, EmptySeq, ConcatProperties DEF Lines
<1> QED
  BY <1>1, <1>2 DEF StreamInv, StreamTypes, TextTypes, HeldBack

LEMMA OrphansKeeps ==
    ASSUME StreamInv, Orphans
    PROVE  StreamInv'
<1>1. /\ phase = "flushing" /\ phase' = "closed" /\ buffer' = <<>>
      /\ received' = [k \in Keys |-> received[k] \o tails[k]]
      /\ tails' = [k \in Keys |-> <<>>]
      /\ UNCHANGED <<known, escaped, unsent, ending, wire, seen>>
  BY DEF Orphans, upstream
<1>2. TextTypes /\ known \in SUBSET Names
  BY DEF StreamInv, StreamTypes
<1>3. buffer' \in Lines(known)
  BY <1>1, EmptySeq DEF Lines
<1>4. ASSUME NEW k \in Keys
      PROVE  /\ received'[k] = Restored(seen[k], known, k)
             /\ received'[k] \in Outputs /\ tails'[k] = <<>>
  <2>1. InParts(seen[k], received[k], tails[k], known, k)
    BY <1>1 DEF StreamInv, HeldBack
  <2>2. tails[k] \in TextsOf(known) /\ seen[k] \in TextsOf(known)
    BY <1>2 DEF TextTypes
  <2>3. received[k] \o tails[k] = Restored(seen[k], known, k)
    BY <1>2, <2>1, <2>2, InPartsAsOne
  <2>4. Restored(seen[k], known, k) \in Outputs
    BY <1>2, <2>2, SomeTexts, RestoredTyped
  <2> QED
    BY <1>1, <2>3, <2>4
<1>5. TextTypes'
  BY <1>1, <1>2, <1>4, EmptyTexts DEF TextTypes
<1> QED
  BY <1>1, <1>3, <1>4, <1>5 DEF StreamInv, StreamTypes, HeldBack, InWhole

LEMMA StreamNext ==
    ASSUME StreamInv, [Next]_vars
    PROVE  StreamInv'
<1>1. ASSUME NEW k \in Keys, NEW n \in 1..MaxFragment, Send(k, n) PROVE StreamInv'
  BY <1>1, SendKeeps
<1>2. ASSUME NEW n \in Names, Grow(n) PROVE StreamInv'
  BY <1>2, GrowKeeps
<1>3. ASSUME NEW n \in 1..Len(wire), Push(n) PROVE StreamInv'
  BY <1>3, PushKeeps
<1>4. CASE EmitEvent
  BY <1>4, EmitEventKeeps
<1>5. CASE EndStream
  BY <1>5, EndStreamKeeps
<1>6. CASE Orphans
  BY <1>6, OrphansKeeps
<1>7. CASE UNCHANGED vars
  BY <1>7 DEF vars, StreamInv, StreamTypes, TextTypes, HeldBack
<1> QED
  BY <1>1, <1>2, <1>3, <1>4, <1>5, <1>6, <1>7 DEF Next

\* However a text was cut into events, the events into chunks, and whatever came
\* between them, the client has it restored as in one piece, but for a short tail
\* that is held back (emitCompleteEvents, rehydrateFragment and flush).
THEOREM OnePiece == Spec => []AsIfInOnePiece
<1>1. Init => StreamInv
  BY StreamInit
<1>2. StreamInv /\ [Next]_vars => StreamInv'
  BY StreamNext
<1>3. StreamInv => AsIfInOnePiece
  <2> SUFFICES ASSUME StreamInv, NEW k \in Keys
               PROVE  /\ received[k] \o tails[k] = Restored(seen[k], known, k)
                      /\ Len(tails[k]) <= MaxHeldTail
    BY DEF AsIfInOnePiece
  <2>1. /\ known \in SUBSET Names /\ tails[k] \in TextsOf(known)
        /\ seen[k] \in TextsOf(known) /\ received[k] \in Outputs
    BY DEF StreamInv, StreamTypes, TextTypes
  <2>2. CASE phase = "closed"
    <3>1. tails[k] = <<>> /\ received[k] = Restored(seen[k], known, k)
      BY <2>2 DEF StreamInv, HeldBack, InWhole
    <3>2. received[k] \o <<>> = received[k]
      BY <2>1, ConcatEmptySeq DEF Outputs
    <3> QED
      BY <2>1, <3>1, <3>2, EmptyTexts DEF IsTail
  <2>3. CASE phase # "closed"
    <3>1. InParts(seen[k], received[k], tails[k], known, k)
      BY <2>3 DEF StreamInv, HeldBack
    <3> QED
      BY <2>1, <3>1, InPartsAsOne
  <2> QED
    BY <2>2, <2>3
<1> QED
  BY <1>1, <1>2, <1>3, PTL DEF Spec

----------------------------------------------------------------------------
(* Where the first complete event of a buffer ends *)

LEMMA EndingLen ==
    ASSUME NEW e \in Terminators
    PROVE  Len(e) \in Nat /\ Len(e) >= 2 /\ Len(e) <= 4
<1>1. Len(e) = 2 \/ Len(e) = 3 \/ Len(e) = 4
  BY EndingTyped, Zenon
<1>2. \A n : n = 2 \/ n = 3 \/ n = 4 => n \in Nat /\ n >= 2 /\ n <= 4
  OBVIOUS
<1> QED
  BY <1>1, <1>2, Zenon

LEMMA EolsDiffer == CR # LF
BY DEF CR, LF

\* The length of a line terminator, case by case.
LEMMA EolCases ==
    ASSUME NEW S, NEW s \in Seq(S), NEW i \in Nat \ {0}
    PROVE  /\ (i > Len(s) \/ s[i] \notin {CR, LF}) => Eol(s, i) = 0 /\ Boundary(s, i) = 0
           /\ i <= Len(s) /\ s[i] = LF => Eol(s, i) = 1
           /\ i <= Len(s) /\ s[i] = CR /\ (i = Len(s) \/ s[i + 1] # LF) => Eol(s, i) = 1
           /\ i < Len(s) /\ s[i] = CR /\ s[i + 1] = LF => Eol(s, i) = 2
           /\ Eol(s, i) = 0 => Boundary(s, i) = 0
           /\ i = Len(s) => Boundary(s, i) = 0
<1>1. Len(s) \in Nat
  OBVIOUS
<1>2. (i > Len(s) \/ s[i] \notin {CR, LF}) => Eol(s, i) = 0
  BY <1>1 DEF Eol
<1>3. i <= Len(s) /\ s[i] = LF => Eol(s, i) = 1
  BY <1>1, EolsDiffer DEF Eol
<1>4. i <= Len(s) /\ s[i] = CR /\ (i = Len(s) \/ s[i + 1] # LF) => Eol(s, i) = 1
  BY <1>1 DEF Eol
<1>5. i < Len(s) /\ s[i] = CR /\ s[i + 1] = LF => Eol(s, i) = 2
  BY <1>1 DEF Eol
<1>6. Eol(s, i) = 0 => Boundary(s, i) = 0
  BY DEF Boundary
<1>7. i = Len(s) => Boundary(s, i) = 0
  <2>1. i = Len(s) => Eol(s, i) \in {0, 1} /\ Eol(s, i + 1) = 0
    BY <1>1 DEF Eol
  <2> QED
    BY <2>1 DEF Boundary
<1> QED
  BY <1>2, <1>3, <1>4, <1>5, <1>6, <1>7

\* A block cut before its end, and not within a CRLF, has no blank line.
LEMMA CutShort ==
    ASSUME NEW e \in Terminators, NEW S, NEW b \in Seq(S), Len(b) < 2 + Len(e),
           \A i \in 1..Len(b) : i > 2 => b[i] = e[i - 2],
           Len(b) > 2 => b[Len(b)] # CR \/ e[Len(b) - 1] = CR,
           NEW i \in 3..Len(b)
    PROVE  Boundary(b, i) = 0
<1> DEFINE n == Len(b)
<1>1. n \in Nat /\ n >= 3 /\ i \in 3..n
  OBVIOUS
<1>2. /\ b[3] = e[1] /\ (n >= 4 => b[4] = e[2]) /\ (n >= 5 => b[5] = e[3])
      /\ b[n] # CR \/ e[n - 1] = CR
  BY <1>1
<1>3. n < 2 + Len(e)
  OBVIOUS
<1> HIDE DEF n
<1>4. CASE e \in {<<LF, LF>>, <<LF, CR>>, <<CR, CR>>}
  <2>1. n = 3 /\ i = 3
    <3>1. Len(e) = 2
      BY <1>4
    <3> QED
      BY <1>1, <1>3, <3>1
  <2> QED
    BY <2>1 DEF Boundary, Eol, n
<1>5. CASE e \in {<<LF, CR, LF>>, <<CR, LF, LF>>, <<CR, LF, CR>>, <<CR, CR, LF>>}
  <2>1. n < 5
    <3>1. Len(e) = 3
      BY <1>5
    <3> QED
      BY <1>1, <1>3, <3>1
  <2>2. i = n \/ (i = 3 /\ n = 4)
    BY <1>1, <2>1
  <2>3. CASE i = n
    BY <1>1, <2>3 DEF Boundary, Eol, n
  <2>4. CASE i = 3 /\ n = 4
    BY <1>2, <1>5, <2>4, EolsDiffer DEF Boundary, Eol, n
  <2> QED
    BY <2>2, <2>3, <2>4
<1>6. CASE e = <<CR, LF, CR, LF>>
  BY <1>1, <1>2, <1>3, <1>6, EolsDiffer DEF Boundary, Eol, n
<1> QED
  BY <1>4, <1>5, <1>6, EndingTyped

\* A whole block, and what may come after it.
LEMMA WholeBlock ==
    ASSUME NEW e \in Terminators, NEW S, NEW b \in Seq(S), Len(b) >= 2 + Len(e),
           \A i \in 1..Len(e) : b[i + 2] = e[i]
    PROVE  /\ (Len(b) = 2 + Len(e) \/ b[3 + Len(e)] # LF) => Boundary(b, 3) = Len(e)
           /\ Boundary(b, 3) \in {Len(e), Len(e) + 1}
<1> DEFINE n == Len(b)
<1>1. /\ n \in Nat /\ n >= 2 + Len(e) /\ Len(e) \in 2..4
      /\ b[3] = e[1] /\ b[4] = e[2]
      /\ (Len(e) >= 3 => b[5] = e[3]) /\ (Len(e) = 4 => b[6] = e[4])
  BY EndingTyped
<1> HIDE DEF n
<1>2. CASE e \in {<<LF, LF>>, <<LF, CR>>, <<CR, CR>>}
  BY <1>1, <1>2, EolsDiffer DEF Boundary, Eol, n
<1>3. CASE e = <<LF, CR, LF>>
  <2>1. b[3] = LF /\ b[4] = CR /\ b[5] = LF /\ Len(e) = 3 /\ n >= 5
    BY <1>1, <1>3
  <2> QED
    BY <1>1, <2>1, EolsDiffer DEF Boundary, Eol, n
<1>4. CASE e = <<CR, LF, LF>>
  <2>1. b[3] = CR /\ b[4] = LF /\ b[5] = LF /\ Len(e) = 3 /\ n >= 5
    BY <1>1, <1>4
  <2> QED
    BY <1>1, <2>1, EolsDiffer DEF Boundary, Eol, n
<1>6. CASE e = <<CR, LF, CR>>
  <2>1. b[3] = CR /\ b[4] = LF /\ b[5] = CR /\ Len(e) = 3 /\ n >= 5
    BY <1>1, <1>6
  <2> QED
    BY <1>1, <2>1, EolsDiffer DEF Boundary, Eol, n
<1>7. CASE e = <<CR, CR, LF>>
  <2>1. b[3] = CR /\ b[4] = CR /\ b[5] = LF /\ Len(e) = 3 /\ n >= 5
    BY <1>1, <1>7
  <2> QED
    BY <1>1, <2>1, EolsDiffer DEF Boundary, Eol, n
<1>5. CASE e = <<CR, LF, CR, LF>>
  BY <1>1, <1>5, EolsDiffer DEF Boundary, Eol, n
<1> QED
  BY <1>2, <1>3, <1>4, <1>5, <1>6, <1>7, EndingTyped

\* The first complete event of a buffer that begins with the event ev.
LEMMA FirstEvent ==
    ASSUME NEW e \in Terminators, NEW S, buffer \in Seq(S), NEW ev \in Seq(S),
           Len(ev) = 2 + Len(e), ev[1] \notin {CR, LF}, ev[2] \notin {CR, LF},
           \A i \in 1..Len(e) : ev[i + 2] = e[i],
           \A i \in 1..Len(buffer) : i <= Len(ev) => buffer[i] = ev[i]
    PROVE  /\ EventEnd > 0 =>
                /\ EventEnd = 3 /\ Len(buffer) >= Len(ev)
                /\ Boundary(Body, 3) \in {Len(e), Len(e) + 1}
                /\ (Len(buffer) = Len(ev) \/ buffer[Len(ev) + 1] # LF) => Boundary(Body, 3) = Len(e)
           /\ Len(buffer) > Len(ev) => EventEnd > 0
<1> DEFINE ends == {i \in 1..Len(Body) : Boundary(Body, i) > 0}
<1>0. Len(e) \in Nat /\ Len(e) >= 2
  BY EndingLen
<1>1. /\ Body \in Seq(S) /\ Len(Body) \in Nat /\ Len(buffer) \in Nat
      /\ \A i \in 1..Len(Body) : i \in 1..Len(buffer) /\ Body[i] = buffer[i]
  BY BodyIs
<1>2. \/ Len(Body) = Len(buffer) /\ (Len(buffer) > 0 => buffer[Len(buffer)] # CR)
      \/ Len(buffer) > 0 /\ buffer[Len(buffer)] = CR /\ Len(Body) = Len(buffer) - 1
  BY BodyIs
<1>3. \A i \in 1..Len(Body) : i <= 2 + Len(e) => Body[i] = ev[i]
  BY <1>1
<1>4. \A i \in 1..Len(Body) : i <= 2 => Boundary(Body, i) = 0
  <2> SUFFICES ASSUME NEW i \in 1..Len(Body), i <= 2 PROVE Boundary(Body, i) = 0
    OBVIOUS
  <2>1. Body[i] \notin {CR, LF} /\ i \in Nat \ {0}
    BY <1>1, <1>3
  <2> QED
    BY <1>1, <2>1, EolCases
<1>5. EventEnd = IF ends = {} THEN 0 ELSE Min(ends)
  BY DEF EventEnd
<1>6. ends # {} => Min(ends) \in ends /\ \A y \in ends : Min(ends) <= y
  <2>1. ends \subseteq Nat
    BY <1>1
  <2> HIDE DEF ends
  <2> QED
    BY <2>1, MinIsLeast
<1>7. CASE Len(Body) < 2 + Len(e)
  <2>1. \A i \in 1..Len(Body) : i > 2 => Body[i] = e[i - 2]
    <3> SUFFICES ASSUME NEW i \in 1..Len(Body), i > 2 PROVE Body[i] = e[i - 2]
      OBVIOUS
    <3>1. i - 2 \in 1..Len(e) /\ (i - 2) + 2 = i
      BY <1>1, <1>7
    <3> QED
      BY <1>1, <1>3, <1>7, <3>1
  <2>2. Len(Body) > 2 => Body[Len(Body)] # CR \/ e[Len(Body) - 1] = CR
    <3>1. SUFFICES ASSUME Len(Body) > 2, Len(buffer) > 0, buffer[Len(buffer)] = CR,
                          Len(Body) = Len(buffer) - 1
                   PROVE  e[Len(Body) - 1] = CR
      BY <1>1, <1>2
    <3>2. /\ Len(buffer) \in 1..Len(buffer) /\ Len(buffer) <= Len(ev)
          /\ Len(Body) - 1 \in 1..Len(e) /\ (Len(Body) - 1) + 2 = Len(buffer)
      BY <1>1, <1>7, <3>1
    <3> QED
      BY <3>1, <3>2
  <2>3. \A i \in 3..Len(Body) : Boundary(Body, i) = 0
    BY <1>1, <1>7, <2>1, <2>2, CutShort
  <2>4. ends = {}
    <3>1. \A i \in 1..Len(Body) : i <= 2 \/ i \in 3..Len(Body)
      BY <1>1
    <3> QED
      BY <1>4, <2>3, <3>1
  <2>5. Len(buffer) <= Len(ev)
    BY <1>1, <1>2, <1>7
  <2> QED
    BY <1>1, <1>5, <2>4, <2>5
<1>8. CASE Len(Body) >= 2 + Len(e)
  <2>1. \A i \in 1..Len(e) : Body[i + 2] = e[i]
    <3> SUFFICES ASSUME NEW i \in 1..Len(e) PROVE Body[i + 2] = e[i]
      OBVIOUS
    <3>1. i + 2 \in 1..Len(Body) /\ i + 2 <= 2 + Len(e)
      BY <1>1, <1>8
    <3> QED
      BY <1>3, <3>1
  <2>2. /\ (Len(Body) = 2 + Len(e) \/ Body[3 + Len(e)] # LF) => Boundary(Body, 3) = Len(e)
        /\ Boundary(Body, 3) \in {Len(e), Len(e) + 1}
    BY <1>1, <1>8, <2>1, WholeBlock
  <2>3. 3 \in ends
    <3>0. Len(Body) \in Nat
      BY <1>1
    <3>1. Len(Body) >= 4
      BY <1>0, <1>8, <3>0
    <3>2. 3 \in 1..Len(Body)
      BY <3>0, <3>1
    <3>3. Boundary(Body, 3) > 0
      BY <1>0, <2>2
    <3> QED
      BY <3>2, <3>3
  <2>4. \A y \in ends : y >= 3
    <3>1. \A i \in 1..Len(Body) : i <= 2 \/ i >= 3
      BY <1>1
    <3> QED
      BY <1>4, <3>1
  <2>5. EventEnd = 3
    <3>1. Min(ends) \in ends /\ Min(ends) <= 3
      BY <1>6, <2>3
    <3>2. Min(ends) >= 3 /\ Min(ends) \in Nat
      BY <1>1, <2>4, <3>1
    <3> HIDE DEF ends
    <3> QED
      BY <1>5, <2>3, <3>1, <3>2
  <2>6. (Len(buffer) = Len(ev) \/ buffer[Len(ev) + 1] # LF) => Boundary(Body, 3) = Len(e)
    <3>1. SUFFICES ASSUME Len(buffer) = Len(ev) \/ buffer[Len(ev) + 1] # LF
                   PROVE  Len(Body) = 2 + Len(e) \/ Body[3 + Len(e)] # LF
      BY <2>2
    <3>2. CASE Len(Body) > 2 + Len(e)
      <4>1. 3 + Len(e) \in 1..Len(Body) /\ Len(ev) + 1 = 3 + Len(e)
        BY <1>1, <3>2
      <4>2. Len(buffer) # Len(ev)
        BY <1>1, <1>2, <3>2
      <4> QED
        BY <1>1, <3>1, <4>1, <4>2
    <3> QED
      BY <1>1, <1>8, <3>2
  <2>7. Len(buffer) >= Len(ev)
    BY <1>1, <1>2, <1>8
  <2> QED
    BY <2>2, <2>5, <2>6, <2>7
<1> QED
  BY <1>1, <1>7, <1>8

----------------------------------------------------------------------------
(* Events one after another, and the texts they carry *)

Piece == [key : Keys, text : Texts]
Half(d, h) == [key |-> d.key, text |-> d.text, half |-> h]
Event(d, e) == <<Half(d, 1), Half(d, 2)>> \o e

AllLines == Lines(Names)
AllTexts == [Keys -> Texts]
Nothing == [k \in Keys |-> <<>>]
Before(d, f) == [f EXCEPT ![d.key] = d.text \o f[d.key]]
After(f, d) == [f EXCEPT ![d.key] = f[d.key] \o d.text]

\* What events can be put together from the last to the first, with their texts.
Closed(C, e) ==
    /\ <<<<>>, Nothing>> \in C
    /\ \A q \in AllLines, f \in AllTexts, d \in Piece :
          <<q, f>> \in C => <<Event(d, e) \o q, Before(d, f)>> \in C

\* q is whole events, ended by e, that carry the texts f.
Carries(q, f, e) == \A C \in SUBSET (AllLines \X AllTexts) : Closed(C, e) => <<q, f>> \in C

LEMMA EventTyped ==
    ASSUME NEW e \in Terminators, NEW d \in Piece
    PROVE  /\ Event(d, e) \in AllLines
           /\ Len(Event(d, e)) = 2 + Len(e)
           /\ Event(d, e)[1] = Half(d, 1) /\ Event(d, e)[2] = Half(d, 2)
           /\ \A i \in 1..Len(e) : Event(d, e)[i + 2] = e[i]
           /\ \A h \in {1, 2} : Half(d, h) \notin {CR, LF}
<1> DEFINE S == Items(Names)
           p == <<Half(d, 1), Half(d, 2)>>
<1>1. \A h \in {1, 2} : Half(d, h) \in Data(Names)
  BY DEF Half, Piece, Data, Texts, TextsOf, Symbols
<1>2. \A h \in {1, 2} : Half(d, h) \notin {CR, LF}
  BY DEF Half, CR, LF
<1>3. p \in Seq(S) /\ Len(p) = 2 /\ p[1] = Half(d, 1) /\ p[2] = Half(d, 2)
  BY <1>1 DEF Items
<1>4. e \in Seq(S) /\ Len(e) \in Nat
  <2>1. e \in Seq({CR, LF})
    BY EndingTyped, Zenon
  <2> QED
    BY <2>1, SeqMonotonic, EndingLen DEF Items
<1> HIDE DEF S, p
<1>5. /\ p \o e \in Seq(S) /\ Len(p \o e) = Len(p) + Len(e)
      /\ \A i \in 1..(Len(p) + Len(e)) : (p \o e)[i] = IF i <= Len(p) THEN p[i] ELSE e[i - Len(p)]
  BY <1>3, <1>4, ConcatProperties
<1>6. Len(p \o e) = 2 + Len(e)
  BY <1>3, <1>5
<1>7. (p \o e)[1] = p[1] /\ (p \o e)[2] = p[2]
  BY <1>3, <1>4, <1>5
<1>8. ASSUME NEW i \in 1..Len(e) PROVE (p \o e)[i + 2] = e[i]
  <2>1. i + 2 \in 1..(Len(p) + Len(e)) /\ ~(i + 2 <= Len(p)) /\ (i + 2) - Len(p) = i
    BY <1>3, <1>4
  <2> QED
    BY <1>5, <2>1
<1> QED
  BY <1>2, <1>3, <1>5, <1>6, <1>7, <1>8 DEF S, p, Event, AllLines, Lines

LEMMA TextsMoved ==
    ASSUME NEW f \in AllTexts, NEW d \in Piece
    PROVE  Before(d, f) \in AllTexts /\ After(f, d) \in AllTexts /\ Nothing \in AllTexts
<1>1. d.key \in Keys /\ d.text \in Texts
  BY DEF Piece
<1>2. f[d.key] \in Texts
  BY <1>1 DEF AllTexts
<1>3. d.text \o f[d.key] \in Texts /\ f[d.key] \o d.text \in Texts /\ <<>> \in Texts
  BY <1>1, <1>2, ConcatProperties, EmptySeq DEF Texts
<1> QED
  BY <1>3 DEF Before, After, Nothing, AllTexts

\* Lines put together are lines, in any order.
LEMMA LinesConcat ==
    ASSUME NEW q \in AllLines, NEW r \in AllLines
    PROVE  q \o r \in AllLines
BY ConcatProperties DEF AllLines, Lines

LEMMA LinesAssociate ==
    \A q, r, s \in AllLines : (q \o r) \o s = q \o (r \o s)
BY ConcatAssociative DEF AllLines, Lines

\* What is carried, and how it is built from the last event to the first.
LEMMA CarriesTyped ==
    ASSUME NEW e \in Terminators, NEW q, NEW f, Carries(q, f, e)
    PROVE  q \in AllLines /\ f \in AllTexts
<1> DEFINE C == AllLines \X AllTexts
<1>1. <<<<>>, Nothing>> \in C
  BY EmptySeq DEF AllLines, Lines, Nothing, AllTexts, Texts
<1>2. \A r \in AllLines, g \in AllTexts, d \in Piece : <<Event(d, e) \o r, Before(d, g)>> \in C
  BY EventTyped, LinesConcat, TextsMoved
<1>3. Closed(C, e)
  BY <1>1, <1>2 DEF Closed
<1>4. <<q, f>> \in C
  BY <1>3 DEF Carries
<1> QED
  BY <1>4

LEMMA CarriesNothing ==
    ASSUME NEW e
    PROVE  Carries(<<>>, Nothing, e)
BY DEF Carries, Closed

LEMMA CarriesFirst ==
    ASSUME NEW e \in Terminators, NEW q, NEW f, Carries(q, f, e), NEW d \in Piece
    PROVE  Carries(Event(d, e) \o q, Before(d, f), e)
<1>1. q \in AllLines /\ f \in AllTexts
  BY CarriesTyped
<1>2. SUFFICES ASSUME NEW C \in SUBSET (AllLines \X AllTexts), Closed(C, e)
               PROVE  <<Event(d, e) \o q, Before(d, f)>> \in C
  BY DEF Carries
<1>3. <<q, f>> \in C
  BY <1>2 DEF Carries
<1> QED
  BY <1>1, <1>2, <1>3 DEF Closed

\* Whole events begin with one, unless there is none.
LEMMA CarriesInv ==
    ASSUME NEW e \in Terminators, NEW q, NEW f, Carries(q, f, e)
    PROVE  \/ q = <<>> /\ f = Nothing
           \/ \E d \in Piece, r \in AllLines, g \in AllTexts :
                 Carries(r, g, e) /\ q = Event(d, e) \o r /\ f = Before(d, g)
<1> DEFINE C == {x \in AllLines \X AllTexts :
                    /\ Carries(x[1], x[2], e)
                    /\ \/ x[1] = <<>> /\ x[2] = Nothing
                       \/ \E d \in Piece, r \in AllLines, g \in AllTexts :
                             /\ Carries(r, g, e)
                             /\ x[1] = Event(d, e) \o r /\ x[2] = Before(d, g)}
<1>1. <<<<>>, Nothing>> \in C
  <2>1. Carries(<<>>, Nothing, e)
    BY CarriesNothing
  <2>2. <<>> \in AllLines /\ Nothing \in AllTexts
    BY <2>1, CarriesTyped
  <2> QED
    BY <2>1, <2>2
<1>2. ASSUME NEW r \in AllLines, NEW g \in AllTexts, NEW d \in Piece, <<r, g>> \in C
      PROVE  <<Event(d, e) \o r, Before(d, g)>> \in C
  <2>1. Carries(r, g, e)
    BY <1>2
  <2>2. Carries(Event(d, e) \o r, Before(d, g), e)
    BY <2>1, CarriesFirst
  <2>3. Event(d, e) \o r \in AllLines /\ Before(d, g) \in AllTexts
    BY <2>2, CarriesTyped
  <2> QED
    BY <2>1, <2>2, <2>3
<1>3. Closed(C, e)
  <2> HIDE DEF C
  <2> QED
    BY <1>1, <1>2 DEF Closed
<1>4. C \in SUBSET (AllLines \X AllTexts)
  OBVIOUS
<1>5. <<q, f>> \in C
  BY <1>3, <1>4 DEF Carries
<1> QED
  BY <1>5

LEMMA PiecesAssociate ==
    \A x, y, z \in Texts : x \o (y \o z) = (x \o y) \o z
BY ConcatAssociative DEF Texts

\* One text after another, for the key of a piece and the others.
LEMMA BeforeAfter ==
    ASSUME NEW f \in AllTexts, NEW c \in Piece, NEW d \in Piece
    PROVE  Before(c, After(f, d)) = After(Before(c, f), d)
<1>1. c.key \in Keys /\ d.key \in Keys /\ c.text \in Texts /\ d.text \in Texts
  BY DEF Piece
<1>2. f[c.key] \in Texts
  BY <1>1 DEF AllTexts
<1>3. c.text \o (f[c.key] \o d.text) = (c.text \o f[c.key]) \o d.text
  BY <1>1, <1>2, PiecesAssociate
<1>4. After(f, d) \in AllTexts /\ Before(c, f) \in AllTexts
  BY TextsMoved
<1>5. Before(c, After(f, d)) \in AllTexts /\ After(Before(c, f), d) \in AllTexts
  BY <1>4, TextsMoved
<1>6. ASSUME NEW k \in Keys PROVE Before(c, After(f, d))[k] = After(Before(c, f), d)[k]
  <2>1. CASE k = c.key /\ k = d.key
    <3>1. After(f, d)[k] = f[k] \o d.text /\ Before(c, f)[k] = c.text \o f[k]
      BY <1>1, <2>1 DEF After, Before, AllTexts
    <3>2. Before(c, After(f, d))[k] = c.text \o (f[k] \o d.text)
      BY <1>1, <1>4, <2>1, <3>1 DEF Before, AllTexts
    <3>3. After(Before(c, f), d)[k] = (c.text \o f[k]) \o d.text
      BY <1>1, <1>4, <2>1, <3>1 DEF After, AllTexts
    <3> QED
      BY <1>3, <2>1, <3>2, <3>3
  <2>2. CASE k = c.key /\ k # d.key
    <3>1. After(f, d)[k] = f[k] /\ Before(c, f)[k] = c.text \o f[k]
      BY <1>1, <2>2 DEF After, Before, AllTexts
    <3>2. Before(c, After(f, d))[k] = c.text \o f[k]
      BY <1>1, <1>4, <2>2, <3>1 DEF Before, AllTexts
    <3>3. After(Before(c, f), d)[k] = c.text \o f[k]
      BY <1>1, <1>4, <2>2, <3>1 DEF After, AllTexts
    <3> QED
      BY <3>2, <3>3
  <2>3. CASE k # c.key
    <3>1. Before(c, After(f, d))[k] = After(f, d)[k]
      BY <1>1, <1>4, <2>3 DEF Before, AllTexts
    <3>2. Before(c, f)[k] = f[k]
      BY <1>1, <2>3 DEF Before, AllTexts
    <3>3. CASE k = d.key
      <4>1. After(f, d)[k] = f[k] \o d.text
        BY <1>1, <3>3 DEF After, AllTexts
      <4>2. After(Before(c, f), d)[k] = f[k] \o d.text
        BY <1>1, <1>4, <3>2, <3>3 DEF After, AllTexts
      <4> QED
        BY <3>1, <4>1, <4>2
    <3>4. CASE k # d.key
      <4>1. After(f, d)[k] = f[k]
        BY <1>1, <3>4 DEF After, AllTexts
      <4>2. After(Before(c, f), d)[k] = f[k]
        BY <1>1, <1>4, <3>2, <3>4 DEF After, AllTexts
      <4> QED
        BY <3>1, <4>1, <4>2
    <3> QED
      BY <3>3, <3>4
  <2> QED
    BY <2>1, <2>2, <2>3
<1> QED
  BY <1>5, <1>6 DEF AllTexts

\* An event more at the end.
LEMMA CarriesLast ==
    ASSUME NEW e \in Terminators, NEW q, NEW f, Carries(q, f, e), NEW d \in Piece
    PROVE  Carries(q \o Event(d, e), After(f, d), e)
<1> DEFINE C == {x \in AllLines \X AllTexts : Carries(x[1] \o Event(d, e), After(x[2], d), e)}
<1>1. <<<<>>, Nothing>> \in C
  <2>1. Carries(<<>>, Nothing, e)
    BY CarriesNothing
  <2>2. <<>> \in AllLines /\ Nothing \in AllTexts
    BY <2>1, CarriesTyped
  <2>3. Carries(Event(d, e) \o <<>>, Before(d, Nothing), e)
    BY <2>1, CarriesFirst
  <2>4. Event(d, e) \o <<>> = <<>> \o Event(d, e)
    BY EventTyped, ConcatEmptySeq DEF AllLines, Lines
  <2>5. Before(d, Nothing) = After(Nothing, d)
    <3>1. d.key \in Keys /\ d.text \in Seq(Symbols)
      BY DEF Piece, Texts
    <3>2. Nothing[d.key] = <<>>
      BY <3>1 DEF Nothing
    <3>3. d.text \o <<>> = <<>> \o d.text
      BY <3>1, ConcatEmptySeq
    <3> QED
      BY <3>2, <3>3 DEF Before, After
  <2> DEFINE p == <<>> \o Event(d, e)
             g == After(Nothing, d)
  <2>6. Carries(p, g, e)
    BY <2>3, <2>4, <2>5
  <2> HIDE DEF p, g
  <2> QED
    BY <2>2, <2>6 DEF p, g
<1>2. ASSUME NEW r \in AllLines, NEW g \in AllTexts, NEW c \in Piece, <<r, g>> \in C
      PROVE  <<Event(c, e) \o r, Before(c, g)>> \in C
  <2>1. Carries(r \o Event(d, e), After(g, d), e)
    BY <1>2
  <2>2. Carries(Event(c, e) \o (r \o Event(d, e)), Before(c, After(g, d)), e)
    BY <2>1, CarriesFirst
  <2>3. Event(c, e) \in AllLines /\ Event(d, e) \in AllLines
    BY EventTyped
  <2>4. Event(c, e) \o (r \o Event(d, e)) = (Event(c, e) \o r) \o Event(d, e)
    BY <2>3, LinesAssociate
  <2>5. Before(c, After(g, d)) = After(Before(c, g), d)
    BY BeforeAfter
  <2>6. Event(c, e) \o r \in AllLines /\ Before(c, g) \in AllTexts
    BY <2>3, LinesConcat, TextsMoved
  <2>7. Carries((Event(c, e) \o r) \o Event(d, e), After(Before(c, g), d), e)
    BY <2>2, <2>4, <2>5
  <2> QED
    BY <2>6, <2>7
<1>3. Closed(C, e)
  <2> HIDE DEF C
  <2> QED
    BY <1>1, <1>2 DEF Closed
<1>4. C \in SUBSET (AllLines \X AllTexts)
  OBVIOUS
<1>5. <<q, f>> \in C
  BY <1>3, <1>4 DEF Carries
<1> QED
  BY <1>5

----------------------------------------------------------------------------
(* The first event is taken *)

\* Two ways to cut the same lines in two.
SameLines(x, y, z, w) == x \o y = z \o w

\* The lines taken after the first m, and those after them.
Remains(first, m, rest, r, n) == SubSeq(first, m + 1, Len(first)) \o rest = SubSeq(r, n + 1, Len(r))

LEMMA LinesAt ==
    ASSUME NEW x \in AllLines, NEW y \in AllLines
    PROVE  /\ x \o y \in AllLines /\ Len(x \o y) = Len(x) + Len(y)
           /\ \A i \in 1..Len(x) : (x \o y)[i] = x[i]
           /\ \A i \in 1..Len(y) : (x \o y)[Len(x) + i] = y[i]
<1>1. Len(x) \in Nat /\ Len(y) \in Nat
  BY DEF AllLines, Lines
<1>2. /\ x \o y \in AllLines /\ Len(x \o y) = Len(x) + Len(y)
      /\ \A i \in 1..(Len(x) + Len(y)) :
            (x \o y)[i] = IF i <= Len(x) THEN x[i] ELSE y[i - Len(x)]
  BY ConcatProperties DEF AllLines, Lines
<1>3. \A i \in 1..Len(x) : i \in 1..(Len(x) + Len(y)) /\ i <= Len(x)
  BY <1>1
<1>4. \A i \in 1..Len(y) : /\ Len(x) + i \in 1..(Len(x) + Len(y))
                           /\ ~(Len(x) + i <= Len(x)) /\ (Len(x) + i) - Len(x) = i
  BY <1>1
<1> QED
  BY <1>2, <1>3, <1>4

LEMMA PartAt ==
    ASSUME NEW x \in AllLines, NEW m \in Nat, m <= Len(x)
    PROVE  /\ SubSeq(x, m + 1, Len(x)) \in AllLines
           /\ Len(SubSeq(x, m + 1, Len(x))) = Len(x) - m
           /\ \A i \in 1..(Len(x) - m) : SubSeq(x, m + 1, Len(x))[i] = x[m + i]
<1>1. Len(x) \in Nat /\ m + 1 \in Nat \ {0} /\ x \in Seq(Items(Names))
  BY DEF AllLines, Lines
<1>2. SubSeq(x, m + 1, Len(x)) \in AllLines
  BY <1>1, PartOfSeq DEF AllLines, Lines
<1>3. \A i \in (m + 1)..Len(x) : x[i] \in Items(Names)
  BY <1>1
<1> DEFINE s == SubSeq(x, m + 1, Len(x))
<1>4. /\ Len(s) = IF m + 1 <= Len(x) THEN Len(x) - (m + 1) + 1 ELSE 0
      /\ \A i \in 1..(Len(x) - (m + 1) + 1) : s[i] = x[(m + 1) + i - 1]
  BY <1>1, <1>3, SubSeqProperties
<1> HIDE DEF s
<1>5. Len(s) = Len(x) - m
  BY <1>1, <1>4
<1>6. \A i \in 1..(Len(x) - m) : i \in 1..(Len(x) - (m + 1) + 1) /\ (m + 1) + i - 1 = m + i
  BY <1>1
<1> QED
  BY <1>2, <1>4, <1>5, <1>6 DEF s

LEMMA SameItems ==
    ASSUME NEW x \in AllLines, NEW y \in AllLines, Len(x) = Len(y),
           \A i \in 1..Len(x) : x[i] = y[i]
    PROVE  x = y
BY SeqEqual DEF AllLines, Lines

\* What is left when the first event, and n items more, are taken.
LEMMA LeftOver ==
    ASSUME NEW first \in AllLines, NEW rest \in AllLines, NEW ev \in AllLines, NEW r \in AllLines,
           SameLines(first, rest, ev, r), NEW n \in Nat, Len(ev) + n <= Len(first)
    PROVE  /\ n <= Len(r)
           /\ Remains(first, Len(ev) + n, rest, r, n)
<1>1. /\ Len(first) \in Nat /\ Len(rest) \in Nat /\ Len(ev) \in Nat /\ Len(r) \in Nat
      /\ Len(ev) + n \in Nat
  BY DEF AllLines, Lines
<1> DEFINE all == first \o rest
           left == SubSeq(first, Len(ev) + n + 1, Len(first))
           right == SubSeq(r, n + 1, Len(r))
<1>2. /\ Len(all) = Len(first) + Len(rest)
      /\ \A i \in 1..Len(first) : all[i] = first[i]
      /\ \A i \in 1..Len(rest) : all[Len(first) + i] = rest[i]
  BY LinesAt
<1>3. all = ev \o r
  BY DEF SameLines
<1>4. /\ Len(all) = Len(ev) + Len(r)
      /\ \A i \in 1..Len(r) : all[Len(ev) + i] = r[i]
  BY <1>3, LinesAt
<1> HIDE DEF all
<1>5. n <= Len(r)
  BY <1>1, <1>2, <1>4
<1>6. /\ left \in AllLines /\ Len(left) = Len(first) - (Len(ev) + n)
      /\ \A i \in 1..(Len(first) - (Len(ev) + n)) : left[i] = first[Len(ev) + n + i]
  BY <1>1, PartAt
<1>7. /\ right \in AllLines /\ Len(right) = Len(r) - n
      /\ \A i \in 1..(Len(r) - n) : right[i] = r[n + i]
  BY <1>1, <1>5, PartAt
<1> HIDE DEF left, right
<1>8. /\ left \o rest \in AllLines /\ Len(left \o rest) = Len(left) + Len(rest)
      /\ \A i \in 1..Len(left) : (left \o rest)[i] = left[i]
      /\ \A i \in 1..Len(rest) : (left \o rest)[Len(left) + i] = rest[i]
  BY <1>6, LinesAt
<1> DEFINE both == left \o rest
<1> HIDE DEF both
<1>9. Len(both) = Len(right) /\ both \in AllLines
  <2>1. Len(both) = Len(left) + Len(rest) /\ both \in AllLines
    BY <1>8 DEF both
  <2>2. Len(first) + Len(rest) = Len(ev) + Len(r)
    BY <1>2, <1>4
  <2> QED
    BY <1>1, <1>6, <1>7, <2>1, <2>2
<1>10. ASSUME NEW i \in 1..Len(both) PROVE both[i] = right[i]
  <2>0. i \in 1..(Len(r) - n) /\ n + i \in 1..Len(r) /\ Len(ev) + (n + i) = Len(ev) + n + i
    BY <1>1, <1>5, <1>7, <1>9
  <2>1. right[i] = r[n + i]
    BY <1>7, <2>0
  <2>2. right[i] = all[Len(ev) + n + i]
    BY <1>4, <2>0, <2>1
  <2>3. CASE i <= Len(left)
    <3>1. i \in 1..Len(left) /\ i \in 1..(Len(first) - (Len(ev) + n))
          /\ Len(ev) + n + i \in 1..Len(first)
      BY <1>1, <1>6, <2>3
    <3>2. both[i] = left[i] /\ left[i] = first[Len(ev) + n + i]
      BY <1>6, <1>8, <3>1 DEF both
    <3> QED
      BY <1>2, <2>2, <3>1, <3>2
  <2>4. CASE i > Len(left)
    <3> DEFINE j == i - Len(left)
    <3>0. Len(both) = Len(left) + Len(rest) /\ Len(left) \in Nat
      BY <1>1, <1>6, <1>8 DEF both
    <3>1. /\ j \in 1..Len(rest) /\ Len(left) + j = i
          /\ Len(first) + j = Len(ev) + n + i
      BY <1>1, <1>6, <2>4, <3>0
    <3> HIDE DEF j
    <3>2. both[i] = rest[j]
      BY <1>8, <3>1 DEF both
    <3>3. all[Len(ev) + n + i] = rest[j]
      BY <1>2, <3>1
    <3> QED
      BY <2>2, <3>2, <3>3
  <2> QED
    BY <1>1, <1>6, <2>3, <2>4
<1> QED
  BY <1>5, <1>7, <1>9, <1>10, SameItems DEF both, left, right, Remains

\* The first complete event of a buffer that, with what may come, begins with an event.
LEMMA TakeFirst ==
    ASSUME NEW e \in Terminators, buffer \in AllLines, NEW rest \in AllLines, NEW d \in Piece,
           NEW r \in AllLines, SameLines(buffer, rest, Event(d, e), r)
    PROVE  /\ Len(buffer) > 2 + Len(e) => EventEnd > 0
           /\ EventEnd > 0 =>
                /\ EventEnd = 3 /\ buffer[1] = Half(d, 1) /\ buffer[2] = Half(d, 2)
                /\ Len(buffer) >= 2 + Len(e)
                /\ \E n \in {0, 1} :
                      /\ Boundary(Body, 3) = Len(e) + n
                      /\ 2 + Len(e) + n <= Len(buffer)
                      /\ n = 1 => r # <<>> /\ r[1] = LF
                      /\ Remains(buffer, EventEnd + Boundary(Body, EventEnd) - 1, rest, r, n)
<1> DEFINE ev == Event(d, e)
<1>1. /\ ev \in AllLines /\ Len(ev) = 2 + Len(e)
      /\ ev[1] = Half(d, 1) /\ ev[2] = Half(d, 2)
      /\ \A i \in 1..Len(e) : ev[i + 2] = e[i]
      /\ Half(d, 1) \notin {CR, LF} /\ Half(d, 2) \notin {CR, LF}
  BY EventTyped
<1>2. /\ Len(e) \in Nat /\ Len(e) >= 2 /\ Len(buffer) \in Nat /\ Len(r) \in Nat /\ Len(rest) \in Nat
  BY EndingLen DEF AllLines, Lines
<1>3. SameLines(buffer, rest, ev, r)
  OBVIOUS
<1> HIDE DEF ev
<1>4. /\ \A i \in 1..Len(buffer) : i <= Len(ev) => buffer[i] = ev[i]
      /\ Len(buffer) > Len(ev) => r # <<>> /\ buffer[Len(ev) + 1] = r[1]
  <2> DEFINE all == buffer \o rest
  <2>1. /\ Len(all) = Len(buffer) + Len(rest)
        /\ \A i \in 1..Len(buffer) : all[i] = buffer[i]
    BY LinesAt
  <2>2. all = ev \o r
    BY <1>3 DEF SameLines
  <2>3. /\ Len(all) = Len(ev) + Len(r)
        /\ \A i \in 1..Len(ev) : all[i] = ev[i]
        /\ \A i \in 1..Len(r) : all[Len(ev) + i] = r[i]
    <3>1. ev \in AllLines
      BY <1>1
    <3> QED
      BY <2>2, <3>1, LinesAt
  <2> HIDE DEF all
  <2>4. ASSUME NEW i \in 1..Len(buffer), i <= Len(ev) PROVE buffer[i] = ev[i]
    <3>1. i \in 1..Len(ev)
      BY <1>1, <1>2, <2>4
    <3> QED
      BY <2>1, <2>3, <3>1
  <2>5. ASSUME Len(buffer) > Len(ev) PROVE r # <<>> /\ buffer[Len(ev) + 1] = r[1]
    <3>1. Len(ev) + 1 \in 1..Len(buffer) /\ Len(r) >= 1 /\ 1 \in 1..Len(r)
      BY <1>1, <1>2, <2>1, <2>3, <2>5
    <3>2. r # <<>>
      BY <3>1
    <3> QED
      BY <2>1, <2>3, <3>1, <3>2
  <2> QED
    BY <2>4, <2>5
<1>5. /\ EventEnd > 0 =>
           /\ EventEnd = 3 /\ Len(buffer) >= Len(ev)
           /\ Boundary(Body, 3) \in {Len(e), Len(e) + 1}
           /\ (Len(buffer) = Len(ev) \/ buffer[Len(ev) + 1] # LF) => Boundary(Body, 3) = Len(e)
      /\ Len(buffer) > Len(ev) => EventEnd > 0
  <2>1. ev[1] \notin {CR, LF} /\ ev[2] \notin {CR, LF}
    BY <1>1
  <2>2. buffer \in Seq(Items(Names)) /\ ev \in Seq(Items(Names))
    BY <1>1 DEF AllLines, Lines
  <2>3. \A i \in 1..Len(buffer) : i <= Len(ev) => buffer[i] = ev[i]
    BY <1>4
  <2> QED
    BY <1>1, <2>1, <2>2, <2>3, FirstEvent
<1>6. ASSUME EventEnd > 0
      PROVE  \E n \in {0, 1} :
                /\ Boundary(Body, 3) = Len(e) + n
                /\ 2 + Len(e) + n <= Len(buffer)
                /\ n = 1 => r # <<>> /\ r[1] = LF
                /\ Remains(buffer, EventEnd + Boundary(Body, EventEnd) - 1, rest, r, n)
  <2>1. PICK n \in {0, 1} : Boundary(Body, 3) = Len(e) + n
    BY <1>2, <1>5, <1>6
  <2>2. n = 1 => Len(buffer) > Len(ev) /\ buffer[Len(ev) + 1] = LF
    BY <1>1, <1>2, <1>5, <1>6, <2>1
  <2>3. Len(ev) + n <= Len(buffer) /\ n \in Nat
    BY <1>1, <1>2, <1>5, <1>6, <2>2
  <2>4. Remains(buffer, Len(ev) + n, rest, r, n)
    BY <1>1, <1>3, <2>3, LeftOver
  <2>5. EventEnd + Boundary(Body, EventEnd) - 1 = Len(ev) + n
    BY <1>1, <1>2, <1>5, <1>6, <2>1
  <2>6. 2 + Len(e) + n <= Len(buffer)
    BY <1>1, <2>3
  <2>7. n = 1 => r # <<>> /\ r[1] = LF
    BY <1>4, <2>2
  <2>8. Remains(buffer, EventEnd + Boundary(Body, EventEnd) - 1, rest, r, n)
    BY <2>4, <2>5
  <2> QED
    BY <2>1, <2>6, <2>7, <2>8
<1>7. EventEnd > 0 => buffer[1] = Half(d, 1) /\ buffer[2] = Half(d, 2)
  <2>1. SUFFICES ASSUME EventEnd > 0 PROVE buffer[1] = Half(d, 1) /\ buffer[2] = Half(d, 2)
    OBVIOUS
  <2>2. 1 \in 1..Len(buffer) /\ 2 \in 1..Len(buffer) /\ 1 <= Len(ev) /\ 2 <= Len(ev)
    BY <1>1, <1>2, <1>5, <2>1
  <2> QED
    BY <1>1, <1>4, <2>2
<1> QED
  BY <1>1, <1>5, <1>6, <1>7

\* Events that there are begin with data.
LEMMA CarriesData ==
    ASSUME NEW e \in Terminators, NEW q, NEW f, Carries(q, f, e), q # <<>>,
           NEW r \in AllLines
    PROVE  q \o r # <<>> /\ (q \o r)[1] # LF
<1>1. PICK d \in Piece, p \in AllLines, g \in AllTexts : q = Event(d, e) \o p
  BY CarriesInv
<1>2. q \in AllLines
  BY CarriesTyped
<1>3. /\ Event(d, e) \in AllLines /\ Len(Event(d, e)) >= 1
      /\ Event(d, e)[1] # LF
  BY EventTyped, EndingLen
<1>4. Len(q) >= 1 /\ Len(q) \in Nat /\ q[1] = Event(d, e)[1]
  <2>1. Len(Event(d, e)) \in Nat /\ Len(p) \in Nat
    BY <1>3 DEF AllLines, Lines
  <2>2. Len(q) = Len(Event(d, e)) + Len(p)
    BY <1>1, <1>3, LinesAt
  <2>3. 1 \in 1..Len(Event(d, e))
    BY <1>3, <2>1
  <2>4. q[1] = Event(d, e)[1]
    BY <1>1, <1>3, <2>3, LinesAt
  <2> QED
    BY <1>3, <2>1, <2>2, <2>4
<1>5. (q \o r)[1] = q[1] /\ Len(q \o r) = Len(q) + Len(r) /\ Len(r) \in Nat
  <2>1. 1 \in 1..Len(q)
    BY <1>4
  <2> QED
    BY <1>2, <2>1, LinesAt DEF AllLines, Lines
<1>6. Len(q \o r) > 0
  BY <1>4, <1>5
<1> QED
  BY <1>3, <1>4, <1>5, <1>6

----------------------------------------------------------------------------
(* Whole events stay whole *)

\* The answer is what was transformed, what is on its way and what is yet to be sent.
OnItsWay(answer, s, f, u) == \A k \in Keys : answer[k] = (s[k] \o f[k]) \o u[k]

\* The line ends left after the last event of a stream that ended.
Trails == {<<>>, <<LF>>, <<LF, LF>>}

\* In buffer and wire there are whole events, and line ends after the end of the stream.
Framed(q, f, trail) ==
    /\ Carries(q, f, ending)
    /\ trail \in Trails /\ SameLines(buffer, wire, q, trail)
    /\ \E answer \in Answers : OnItsWay(answer, seen, f, unsent)
    /\ phase = "open" => trail = <<>>
    /\ phase = "flushing" =>
          /\ wire = <<>> /\ \A k \in Keys : unsent[k] = <<>>
          /\ q # <<>> => trail = <<LF, LF>>

FrameInv ==
    /\ phase \in {"open", "flushing", "closed"} /\ ending \in Terminators
    /\ phase = "open" => ~cut
    /\ ~cut =>
          /\ ~garbled
          /\ phase # "closed" => \E q, f, trail : Framed(q, f, trail)
          /\ phase = "closed" => seen \in Answers

LEMMA TrailsTyped ==
    /\ Trails \subseteq AllLines
    /\ Trails \subseteq Seq({LF})
<1>1. <<>> \in Seq({LF}) /\ <<LF>> \in Seq({LF}) /\ <<LF, LF>> \in Seq({LF})
  OBVIOUS
<1>2. Seq({LF}) \subseteq AllLines
  BY SeqMonotonic DEF AllLines, Lines, Items
<1> QED
  BY <1>1, <1>2 DEF Trails

LEMMA NoMoreLines ==
    ASSUME NEW x \in AllLines
    PROVE  x \o <<>> = x /\ <<>> \o x = x /\ <<>> \in AllLines
BY ConcatEmptySeq, EmptySeq DEF AllLines, Lines

LEMMA NoMoreText ==
    ASSUME NEW x \in Texts
    PROVE  x \o <<>> = x /\ <<>> \o x = x /\ <<>> \in Texts
BY ConcatEmptySeq, EmptySeq DEF Texts

LEMMA LinesOfKnown ==
    ASSUME StreamInv
    PROVE  /\ known \in SUBSET Names
           /\ buffer \in AllLines /\ wire \in AllLines
           /\ unsent \in AllTexts /\ seen \in AllTexts
<1>1. known \in SUBSET Names
  BY DEF StreamInv, StreamTypes
<1>2. TextsOf(known) \subseteq Texts
  BY <1>1, SomeTexts
<1>3. Lines(known) \subseteq AllLines
  BY <1>1, MoreNames DEF AllLines
<1> QED
  BY <1>1, <1>2, <1>3 DEF StreamInv, StreamTypes, TextTypes, AllTexts

\* The blank line that flush adds.
LEMMA BlankEnd ==
    /\ buffer = <<>> \/ buffer = <<LF>> => EventEnd = 0
    /\ buffer = <<LF, LF>> => EventEnd = 1 /\ Boundary(Body, 1) = 2
<1>1. ASSUME buffer = <<>> PROVE EventEnd = 0
  BY <1>1, EventInBuffer, EmptySeq
<1>2. ASSUME buffer = <<LF>> PROVE EventEnd = 0
  <2>1. Body = <<LF>>
    BY <1>2, EolsDiffer DEF Body, Last
  <2>2. Boundary(Body, 1) = 0
    BY <2>1 DEF Boundary, Eol
  <2> QED
    BY <2>1, <2>2 DEF EventEnd
<1>3. ASSUME buffer = <<LF, LF>> PROVE EventEnd = 1 /\ Boundary(Body, 1) = 2
  <2>1. Body = <<LF, LF>>
    BY <1>3, EolsDiffer DEF Body, Last
  <2>2. Boundary(Body, 1) = 2
    BY <2>1, EolsDiffer DEF Boundary, Eol
  <2> DEFINE ends == {i \in 1..Len(Body) : Boundary(Body, i) > 0}
  <2>3. 1 \in ends /\ ends \subseteq Nat \ {0}
    BY <2>1, <2>2
  <2>4. EventEnd = IF ends = {} THEN 0 ELSE Min(ends)
    BY DEF EventEnd
  <2> HIDE DEF ends
  <2>5. Min(ends) \in ends /\ Min(ends) <= 1
    BY <2>3, MinIsLeast
  <2>6. EventEnd = 1
    BY <2>3, <2>4, <2>5
  <2> QED
    BY <2>2, <2>6
<1> QED
  BY <1>1, <1>2, <1>3

LEMMA FrameInit ==
    ASSUME Init
    PROVE  FrameInv
<1>1. /\ phase = "open" /\ ~cut /\ ~garbled /\ ending \in Terminators
      /\ buffer = <<>> /\ wire = <<>> /\ seen = Nothing /\ unsent \in Answers
  BY DEF Init, Nothing
<1>2. Carries(<<>>, Nothing, ending)
  BY CarriesNothing
<1>3. OnItsWay(unsent, seen, Nothing, unsent)
  <2> SUFFICES ASSUME NEW k \in Keys PROVE unsent[k] = (seen[k] \o Nothing[k]) \o unsent[k]
    BY DEF OnItsWay
  <2>1. unsent[k] \in Texts /\ seen[k] = <<>> /\ Nothing[k] = <<>>
    BY <1>1, SseAssumption DEF Nothing, Texts
  <2>2. <<>> \o <<>> = <<>> /\ <<>> \o unsent[k] = unsent[k]
    BY <2>1, NoMoreText
  <2> QED
    BY <2>1, <2>2
<1>4. SameLines(buffer, wire, <<>>, <<>>)
  BY <1>1 DEF SameLines
<1>5. Framed(<<>>, Nothing, <<>>)
  BY <1>1, <1>2, <1>3, <1>4 DEF Framed, Trails
<1> QED
  BY <1>1, <1>5 DEF FrameInv

\* A stream that was cut stays so.
LEMMA CutStays ==
    ASSUME FrameInv, phase' = phase, cut' = cut, ending' = ending, cut
    PROVE  FrameInv'
BY DEF FrameInv

\* An open stream stays framed if each of its ways to be framed leads to one.
LEMMA FramedGoesOn ==
    ASSUME FrameInv, phase # "closed", UNCHANGED <<phase, cut, ending>>, ~cut => ~garbled',
           ASSUME NEW q, NEW f, NEW trail, Framed(q, f, trail)
           PROVE  \E r, g, t : Framed(r, g, t)'
    PROVE  FrameInv'
BY DEF FrameInv

\* A sequence in two parts.
LEMMA TwoParts ==
    ASSUME NEW S, NEW s \in Seq(S), NEW n \in 1..Len(s)
    PROVE  SubSeq(s, 1, n) \o SubSeq(s, n + 1, Len(s)) = s
<1>1. Len(s) \in Nat /\ n \in 1..Len(s)
  OBVIOUS
<1>2. SubSeq(s, 1, n) \o SubSeq(s, n + 1, Len(s)) = SubSeq(s, 1, Len(s))
  BY <1>1, ConcatAdjacentSubSeq
<1>3. SubSeq(s, 1, Len(s)) = s
  BY SubSeqFull
<1> QED
  BY <1>2, <1>3

\* A piece more of one text is on its way.
LEMMA SentPiece ==
    ASSUME NEW answer, NEW s \in AllTexts, NEW f \in AllTexts, NEW u \in AllTexts,
           NEW d \in Piece, NEW t \in Texts, u[d.key] = d.text \o t,
           OnItsWay(answer, s, f, u)
    PROVE  OnItsWay(answer, s, After(f, d), [u EXCEPT ![d.key] = t])
<1>1. d.key \in Keys /\ d.text \in Texts
  BY DEF Piece
<1> DEFINE v == [u EXCEPT ![d.key] = t]
<1>2. /\ After(f, d) \in AllTexts
      /\ \A k \in Keys : After(f, d)[k] = IF k = d.key THEN f[k] \o d.text ELSE f[k]
      /\ \A k \in Keys : v[k] = IF k = d.key THEN t ELSE u[k]
  BY <1>1, TextsMoved DEF After, AllTexts
<1> HIDE DEF v
<1>3. ASSUME NEW k \in Keys PROVE answer[k] = (s[k] \o After(f, d)[k]) \o v[k]
  <2>0. answer[k] = (s[k] \o f[k]) \o u[k]
    BY DEF OnItsWay
  <2>1. CASE k = d.key
    <3>0. s[k] \in Texts /\ f[k] \in Texts
      BY DEF AllTexts
    <3>1. s[k] \in Texts /\ f[k] \in Texts /\ f[k] \o d.text \in Texts
      BY <1>1, <3>0, ConcatProperties DEF Texts
    <3>2. (s[k] \o f[k]) \o (d.text \o t) = s[k] \o (f[k] \o (d.text \o t))
      <4>1. d.text \o t \in Texts
        BY <1>1, ConcatProperties DEF Texts
      <4> QED
        BY <3>1, <4>1, PiecesAssociate
    <3>3. f[k] \o (d.text \o t) = (f[k] \o d.text) \o t
      BY <1>1, <3>1, PiecesAssociate
    <3>4. s[k] \o ((f[k] \o d.text) \o t) = (s[k] \o (f[k] \o d.text)) \o t
      BY <3>1, PiecesAssociate
    <3>5. u[k] = d.text \o t
      BY <2>1
    <3>6. answer[k] = (s[k] \o (f[k] \o d.text)) \o t
      BY <2>0, <3>2, <3>3, <3>4, <3>5
    <3> QED
      BY <1>2, <2>1, <3>6
  <2>2. CASE k # d.key
    BY <1>2, <2>0, <2>2
  <2> QED
    BY <2>1, <2>2
<1> QED
  BY <1>3 DEF OnItsWay, v

\* The steps, one by one.
LEMMA SendFrames ==
    ASSUME StreamInv, FrameInv, NEW k \in Keys, NEW n \in 1..MaxFragment, Send(k, n)
    PROVE  FrameInv'
<1> DEFINE d == [key |-> k, text |-> SubSeq(unsent[k], 1, n)]
           t == SubSeq(unsent[k], n + 1, Len(unsent[k]))
           e == ending
<1>1. /\ phase = "open" /\ n <= Len(unsent[k])
      /\ unsent' = [unsent EXCEPT ![k] = SubSeq(unsent[k], n + 1, Len(unsent[k]))]
      /\ UNCHANGED <<known, ending, buffer, tails, seen, garbled, phase, cut>>
  BY DEF Send, client
<1>2. buffer \in AllLines /\ wire \in AllLines /\ unsent \in AllTexts /\ seen \in AllTexts
  BY LinesOfKnown
<1>3. e \in Terminators /\ phase # "closed"
  BY <1>1 DEF FrameInv
<1>4. unsent[k] \in Texts /\ n \in Nat \ {0} /\ n \in 1..Len(unsent[k])
  BY <1>1, <1>2, SseAssumption DEF AllTexts, Texts
<1>5. d \in Piece /\ t \in Texts /\ d.key = k
  BY <1>4, PartOfSeq DEF Texts, Piece
<1>6. unsent[k] = d.text \o t
  BY <1>4, TwoParts DEF Texts
<1>7. wire' = wire \o Event(d, e)
  <2> DEFINE data == [key |-> k, text |-> SubSeq(unsent[k], 1, n), half |-> 1]
  <2>1. wire' = wire \o (<<data, [data EXCEPT !.half = 2]>> \o ending)
    BY DEF Send
  <2>2. data = Half(d, 1) /\ [data EXCEPT !.half = 2] = Half(d, 2)
    BY DEF Half
  <2> HIDE DEF data, d
  <2> QED
    BY <2>1, <2>2 DEF Event
<1>8. unsent' = [unsent EXCEPT ![d.key] = t]
  BY <1>1
<1> HIDE DEF d, t
<1>9. ASSUME NEW q, NEW f, NEW trail, Framed(q, f, trail)
      PROVE  \E r, g, u : Framed(r, g, u)'
  <2>1. Carries(q, f, e) /\ trail = <<>> /\ buffer \o wire = q \o <<>>
    BY <1>1, <1>9 DEF Framed, SameLines
  <2>2. q \in AllLines /\ f \in AllTexts /\ Event(d, e) \in AllLines
    BY <1>3, <1>5, <2>1, CarriesTyped, EventTyped
  <2>3. Carries(q \o Event(d, e), After(f, d), e)
    BY <1>3, <1>5, <2>1, CarriesLast
  <2>4. SameLines(buffer, wire \o Event(d, e), q \o Event(d, e), <<>>)
    <3>1. buffer \o (wire \o Event(d, e)) = (buffer \o wire) \o Event(d, e)
      BY <1>2, <2>2, LinesAssociate
    <3>2. buffer \o wire = q
      BY <2>1, <2>2, NoMoreLines
    <3>3. (q \o Event(d, e)) \o <<>> = q \o Event(d, e)
      BY <2>2, LinesConcat, NoMoreLines
    <3> QED
      BY <3>1, <3>2, <3>3 DEF SameLines
  <2>5. PICK answer \in Answers : OnItsWay(answer, seen, f, unsent)
    BY <1>9 DEF Framed
  <2>7. unsent[d.key] = d.text \o t
    BY <1>5, <1>6
  <2>8. OnItsWay(answer, seen, After(f, d), unsent')
    BY <1>2, <1>5, <1>8, <2>2, <2>5, <2>7, SentPiece
  <2> DEFINE r == q \o Event(d, e)
           g == After(f, d)
  <2>9. PICK lines, texts : lines = r /\ texts = g
    OBVIOUS
  <2>10. /\ Carries(lines, texts, ending) /\ SameLines(buffer, wire \o Event(d, e), lines, <<>>)
        /\ OnItsWay(answer, seen, texts, unsent')
    BY <2>3, <2>4, <2>8, <2>9
  <2>11. Framed(lines, texts, <<>>)'
    BY <1>1, <1>7, <2>5, <2>10 DEF Framed, Trails
  <2> QED
    BY <2>11
<1> QED
  BY <1>1, <1>3, <1>9, FramedGoesOn DEF FrameInv

LEMMA PushFrames ==
    ASSUME StreamInv, FrameInv, NEW n \in 1..Len(wire), Push(n)
    PROVE  FrameInv'
<1> DEFINE first == SubSeq(wire, 1, n)
           rest == SubSeq(wire, n + 1, Len(wire))
<1>1. /\ phase = "open" /\ buffer' = buffer \o first /\ wire' = rest
      /\ UNCHANGED <<unsent, ending, seen, garbled, phase, cut>>
  BY DEF Push, upstream, client
<1>2. buffer \in AllLines /\ wire \in AllLines
  BY LinesOfKnown
<1>3. first \in AllLines /\ rest \in AllLines /\ first \o rest = wire
  BY <1>2, PartOfSeq, TwoParts DEF AllLines, Lines
<1> HIDE DEF first, rest
<1>4. ASSUME NEW q, NEW f, NEW trail, Framed(q, f, trail)
      PROVE  Framed(q, f, trail)'
  <2>1. SameLines(buffer', wire', q, trail)
    <3>1. (buffer \o first) \o rest = buffer \o (first \o rest)
      BY <1>2, <1>3, LinesAssociate
    <3>2. buffer \o (first \o rest) = q \o trail
      BY <1>3, <1>4 DEF Framed, SameLines
    <3> QED
      BY <1>1, <3>1, <3>2 DEF SameLines
  <2>2. phase' = "open"
    BY <1>1
  <2> QED
    BY <1>1, <1>4, <2>1, <2>2 DEF Framed
<1> QED
  BY <1>1, <1>4, FramedGoesOn DEF FrameInv

LEMMA EndStreamFrames ==
    ASSUME StreamInv, FrameInv, EndStream
    PROVE  FrameInv'
<1>1. /\ phase = "open" /\ phase' = "flushing" /\ wire' = <<>> /\ buffer' = buffer \o <<LF, LF>>
      /\ cut' = (wire # <<>> \/ \E k \in Keys : unsent[k] # <<>>)
      /\ UNCHANGED <<unsent, ending, seen, garbled>>
  BY DEF EndStream, upstream, client
<1>2. ending' \in Terminators /\ ~garbled
  BY <1>1 DEF FrameInv
<1>3. ASSUME ~cut' PROVE \E q, f, trail : Framed(q, f, trail)'
  <2>1. wire = <<>> /\ \A k \in Keys : unsent[k] = <<>>
    BY <1>1, <1>3
  <2>2. PICK q, f, trail : Framed(q, f, trail)
    BY <1>1 DEF FrameInv
  <2>3. Carries(q, f, ending) /\ trail = <<>> /\ buffer \o <<>> = q \o <<>>
    BY <1>1, <2>1, <2>2 DEF Framed, SameLines
  <2>4. q \in AllLines /\ buffer \in AllLines
    BY <2>3, CarriesTyped, LinesOfKnown DEF FrameInv
  <2>5. buffer = q
    BY <2>3, <2>4, NoMoreLines
  <2>6. SameLines(buffer', wire', q, <<LF, LF>>)
    <3>1. <<LF, LF>> \in AllLines
      BY TrailsTyped DEF Trails
    <3>2. (q \o <<LF, LF>>) \o <<>> = q \o <<LF, LF>>
      BY <2>4, <3>1, LinesConcat, NoMoreLines
    <3> QED
      BY <1>1, <2>5, <3>2 DEF SameLines
  <2>7. Framed(q, f, <<LF, LF>>)'
    BY <1>1, <2>1, <2>2, <2>3, <2>6 DEF Framed, Trails
  <2> QED
    BY <2>7
<1> QED
  BY <1>1, <1>2, <1>3 DEF FrameInv

\* An event of the upstream's is transformed as one.
LEMMA EventTransformed ==
    ASSUME buffer \in AllLines, EmitEvent, EventEnd = 3, NEW d \in Piece,
           buffer[1] = Half(d, 1), buffer[2] = Half(d, 2), Len(buffer) >= 2
    PROVE  seen' = After(seen, d) /\ garbled' = garbled
<1> DEFINE block == SubSeq(buffer, 1, EventEnd - 1)
<1>1. Len(block) = 2 /\ block[1] = Half(d, 1) /\ block[2] = Half(d, 2)
  <2>1. buffer \in Seq(Items(Names)) /\ Len(buffer) \in Nat
    BY DEF AllLines, Lines
  <2>2. \A i \in 1..2 : buffer[i] \in Items(Names)
    BY <2>1
  <2> DEFINE b == SubSeq(buffer, 1, 2)
  <2>3. /\ Len(b) = IF 1 <= 2 THEN 2 - 1 + 1 ELSE 0
        /\ \A i \in 1..(2 - 1 + 1) : b[i] = buffer[1 + i - 1]
    BY <2>2, SubSeqProperties
  <2> HIDE DEF b
  <2>4. Len(b) = 2 /\ b[1] = buffer[1] /\ b[2] = buffer[2]
    BY <2>3
  <2>5. block = b
    BY DEF b
  <2> QED
    BY <2>4, <2>5
<1>2. \/ \E i \in DataOf(block) : IsEvent(block, i) /\ Transform(block[i].key, block[i].text)
      \/ ~\E i \in DataOf(block) : IsEvent(block, i)
  BY DEF EmitEvent
<1> HIDE DEF block
<1>3. DataOf(block) = {1, 2}
  <2>1. Half(d, 1) \notin {CR, LF} /\ Half(d, 2) \notin {CR, LF}
    BY DEF Half, CR, LF
  <2>2. DataOf(block) = {i \in 1..2 : block[i] \notin {CR, LF}}
    BY <1>1 DEF DataOf
  <2> QED
    BY <1>1, <2>1, <2>2
<1>4. IsEvent(block, 1) /\ ~IsEvent(block, 2)
  <2>1. block[1].half = 1 /\ block[2] = [block[1] EXCEPT !.half = 2]
    BY <1>1 DEF Half
  <2>2. IsEvent(block, 1)
    BY <1>1, <1>3, <2>1 DEF IsEvent
  <2>3. ~IsEvent(block, 2)
    BY <1>1 DEF IsEvent
  <2> QED
    BY <2>2, <2>3
<1>5. Transform(block[1].key, block[1].text)
  BY <1>2, <1>3, <1>4
<1>6. block[1].key = d.key /\ block[1].text = d.text
  BY <1>1 DEF Half
<1>7. Transform(d.key, d.text)
  BY <1>5, <1>6
<1> QED
  BY <1>7 DEF Transform, After

\* The text of an event that is transformed is no longer on its way.
LEMMA PieceArrived ==
    ASSUME NEW answer, NEW s \in AllTexts, NEW g \in AllTexts, NEW u, NEW d \in Piece,
           OnItsWay(answer, s, Before(d, g), u)
    PROVE  OnItsWay(answer, After(s, d), g, u)
<1>1. d.key \in Keys /\ d.text \in Texts
  BY DEF Piece
<1>2. ASSUME NEW k \in Keys PROVE s[k] \o Before(d, g)[k] = After(s, d)[k] \o g[k]
  <2>1. CASE k = d.key
    <3>1. Before(d, g)[k] = d.text \o g[k] /\ After(s, d)[k] = s[k] \o d.text
      BY <1>1, <2>1 DEF Before, After, AllTexts
    <3>2. s[k] \in Texts /\ g[k] \in Texts
      BY <1>2 DEF AllTexts
    <3>3. s[k] \o (d.text \o g[k]) = (s[k] \o d.text) \o g[k]
      BY <1>1, <3>2, PiecesAssociate
    <3> QED
      BY <3>1, <3>3
  <2>2. CASE k # d.key
    BY <1>1, <2>2 DEF Before, After, AllTexts
  <2> QED
    BY <2>1, <2>2
<1> QED
  BY <1>2 DEF OnItsWay

\* What is left of the line ends after the last event, which may take one of them.
LEMMA TrailEnds ==
    /\ SubSeq(<<LF, LF>>, 1 + 1, Len(<<LF, LF>>)) = <<LF>>
    /\ \A r \in AllLines : SubSeq(r, 0 + 1, Len(r)) = r
<1>1. \A r \in AllLines : SubSeq(r, 1, Len(r)) = r
  BY SubSeqFull DEF AllLines, Lines
<1>2. SubSeq(<<LF, LF>>, 2, 2) = <<LF>>
  <2> DEFINE t == <<LF, LF>>
             s == SubSeq(t, 2, 2)
  <2>1. \A i \in 2..2 : t[i] \in {LF}
    OBVIOUS
  <2>2. s \in Seq({LF}) /\ Len(s) = IF 2 <= 2 THEN 2 - 2 + 1 ELSE 0
    BY <2>1, SubSeqProperties
  <2> HIDE DEF s
  <2>3. s \in Seq({LF}) /\ Len(s) = 1 /\ s[1] = LF
    BY <2>2
  <2>4. <<LF>> \in Seq({LF}) /\ Len(<<LF>>) = 1 /\ <<LF>>[1] = LF
    OBVIOUS
  <2>5. s = <<LF>>
    BY <2>3, <2>4, SeqEqual
  <2> QED
    BY <2>5 DEF s
<1> QED
  BY <1>1, <1>2

\* The whole events that are left when the first one is transformed.
LEMMA FirstEmitted ==
    ASSUME StreamInv, FrameInv, EmitEvent, NEW q, NEW f, NEW trail, Framed(q, f, trail), q # <<>>
    PROVE  /\ \E r, g, t : Framed(r, g, t)'
           /\ garbled' = garbled
<1> DEFINE e == ending
<1>0. /\ buffer \in AllLines /\ wire \in AllLines /\ seen \in AllTexts /\ trail \in AllLines
      /\ e \in Terminators
  BY LinesOfKnown, TrailsTyped DEF Framed, FrameInv
<1>1. /\ UNCHANGED <<unsent, wire, phase, ending>> /\ EventEnd > 0 /\ phase # "closed"
      /\ buffer' = SubSeq(buffer, EventEnd + Boundary(Body, EventEnd), Len(buffer))
  BY DEF EmitEvent, upstream
<1>2. PICK d \in Piece, r \in AllLines, g \in AllTexts :
         Carries(r, g, e) /\ q = Event(d, e) \o r /\ f = Before(d, g)
  BY <1>0, CarriesInv DEF Framed
<1>3. SameLines(buffer, wire, Event(d, e), r \o trail) /\ r \o trail \in AllLines
  <2>1. Event(d, e) \in AllLines
    BY <1>0, EventTyped
  <2>2. (Event(d, e) \o r) \o trail = Event(d, e) \o (r \o trail)
    BY <1>0, <2>1, LinesAssociate
  <2>3. buffer \o wire = (Event(d, e) \o r) \o trail
    BY <1>2 DEF Framed, SameLines
  <2> QED
    BY <1>0, <2>2, <2>3, LinesConcat DEF SameLines
<1> DEFINE later == r \o trail
<1>4. /\ EventEnd = 3 /\ buffer[1] = Half(d, 1) /\ buffer[2] = Half(d, 2)
      /\ Len(buffer) >= 2 + Len(e)
      /\ \E n \in {0, 1} :
            /\ n = 1 => later # <<>> /\ later[1] = LF
            /\ Remains(buffer, EventEnd + Boundary(Body, EventEnd) - 1, wire, later, n)
  <2>1. later \in AllLines /\ SameLines(buffer, wire, Event(d, e), later) /\ EventEnd > 0
    BY <1>1, <1>3
  <2> HIDE DEF later
  <2> QED
    BY <1>0, <2>1, TakeFirst
<1>5. PICK n \in {0, 1} :
         /\ n = 1 => r \o trail # <<>> /\ (r \o trail)[1] = LF
         /\ Remains(buffer, EventEnd + Boundary(Body, EventEnd) - 1, wire, r \o trail, n)
  BY <1>4
<1> HIDE DEF later
<1>6. seen' = After(seen, d) /\ garbled' = garbled
  <2>1. Len(buffer) >= 2
    BY <1>0, <1>4, EndingLen DEF AllLines, Lines
  <2> QED
    BY <1>0, <1>4, <2>1, EventTransformed
<1>7. \E answer \in Answers : OnItsWay(answer, seen', g, unsent')
  <2>1. PICK answer \in Answers : OnItsWay(answer, seen, Before(d, g), unsent)
    BY <1>2 DEF Framed
  <2> QED
    BY <1>0, <1>1, <1>6, <2>1, PieceArrived
<1>8. buffer' \o wire = SubSeq(r \o trail, n + 1, Len(r \o trail))
  <2>1. Boundary(Body, 3) \in Nat
    BY <1>0, EventInBuffer DEF AllLines, Lines
  <2>2. (EventEnd + Boundary(Body, EventEnd) - 1) + 1 = EventEnd + Boundary(Body, EventEnd)
    BY <1>4, <2>1
  <2> QED
    BY <1>1, <1>5, <2>2 DEF Remains
<1>9. CASE n = 0
  <2>1. SameLines(buffer', wire', r, trail)
    <3> DEFINE all == r \o trail
    <3>1. all \in AllLines
      BY <1>3
    <3>2. buffer' \o wire = SubSeq(all, n + 1, Len(all))
      BY <1>8
    <3> HIDE DEF all
    <3>3. buffer' \o wire = all
      BY <1>9, <3>1, <3>2, TrailEnds
    <3> QED
      BY <1>1, <3>3 DEF all, SameLines
  <2>2. /\ trail \in Trails /\ (phase = "open" => trail = <<>>)
        /\ phase = "flushing" => /\ wire = <<>> /\ \A k \in Keys : unsent[k] = <<>>
                                 /\ trail = <<LF, LF>>
    BY DEF Framed
  <2>3. Framed(r, g, trail)'
    BY <1>1, <1>2, <1>7, <2>1, <2>2 DEF Framed
  <2> QED
    BY <1>6, <2>3
<1>10. CASE n = 1
  <2>1. r = <<>> /\ g = Nothing
    <3>1. r = <<>>
      BY <1>0, <1>2, <1>5, <1>10, CarriesData
    <3>2. r # <<>> \/ g = Nothing
      <4>1. \A c \in Piece, p \in AllLines : Event(c, e) \o p # <<>>
        <5> SUFFICES ASSUME NEW c \in Piece, NEW p \in AllLines PROVE Event(c, e) \o p # <<>>
          OBVIOUS
        <5>1. /\ Event(c, e) \in AllLines /\ Len(Event(c, e)) = 2 + Len(e)
              /\ Len(Event(c, e) \o p) = Len(Event(c, e)) + Len(p)
          BY <1>0, EventTyped, LinesAt
        <5>2. Len(Event(c, e) \o p) > 0
          BY <1>0, <5>1, EndingLen DEF AllLines, Lines
        <5> QED
          BY <5>2
      <4> QED
        BY <1>0, <1>2, <4>1, CarriesInv
    <3> QED
      BY <3>1, <3>2
  <2>2. r \o trail = trail
    BY <1>0, <2>1, NoMoreLines
  <2>3. trail # <<>>
    BY <1>5, <1>10, <2>2
  <2>4. phase = "flushing" /\ trail = <<LF, LF>> /\ wire = <<>> /\ \A k \in Keys : unsent[k] = <<>>
    BY <1>1, <2>3 DEF Framed, FrameInv
  <2>5. SameLines(buffer', wire', <<>>, <<LF>>)
    <3>1. buffer' \o wire = <<LF>>
      BY <1>8, <1>10, <2>2, <2>4, TrailEnds
    <3>2. <<>> \o <<LF>> = <<LF>>
      BY TrailsTyped, NoMoreLines DEF Trails
    <3> QED
      BY <1>1, <3>1, <3>2 DEF SameLines
  <2>6. Framed(<<>>, g, <<LF>>)'
    BY <1>1, <1>2, <1>7, <2>1, <2>4, <2>5 DEF Framed, Trails
  <2> QED
    BY <1>6, <2>6
<1> QED
  BY <1>9, <1>10

\* What is emitted of the line ends that are left is no event.
LEMMA TrailEmitted ==
    ASSUME StreamInv, FrameInv, EmitEvent, ~cut, NEW f, NEW trail, Framed(<<>>, f, trail)
    PROVE  /\ \E r, g, t : Framed(r, g, t)'
           /\ ~garbled'
<1>0. buffer \in AllLines /\ trail \in AllLines /\ ~garbled
  BY LinesOfKnown, TrailsTyped DEF Framed, FrameInv
<1>1. /\ UNCHANGED <<unsent, wire, phase, ending>> /\ EventEnd > 0 /\ phase # "closed"
      /\ buffer' = SubSeq(buffer, EventEnd + Boundary(Body, EventEnd), Len(buffer))
  BY DEF EmitEvent, upstream
<1>2. buffer \o wire = trail
  <2>1. buffer \o wire = <<>> \o trail
    BY DEF Framed, SameLines
  <2> QED
    BY <1>0, <2>1, NoMoreLines
<1>3. phase = "flushing" /\ wire = <<>>
  <2>1. ASSUME phase = "open" PROVE FALSE
    <3>1. trail = <<>>
      BY <2>1 DEF Framed
    <3>2. wire \in AllLines
      BY LinesOfKnown
    <3>3. buffer = <<>>
      <4>1. Len(buffer \o wire) = Len(buffer) + Len(wire)
        BY <1>0, <3>2, LinesAt
      <4>2. Len(buffer) \in Nat /\ Len(wire) \in Nat /\ Len(buffer \o wire) = 0
        BY <1>0, <1>2, <3>1, <3>2 DEF AllLines, Lines
      <4>3. Len(buffer) = 0
        BY <4>1, <4>2
      <4> QED
        BY <1>0, <4>3, EmptySeq DEF AllLines, Lines
    <3> QED
      BY <1>1, <3>3, BlankEnd
  <2> QED
    BY <1>1, <2>1 DEF Framed, FrameInv
<1>4. buffer = trail
  BY <1>0, <1>2, <1>3, NoMoreLines
<1>5. buffer = <<LF, LF>> /\ EventEnd = 1 /\ Boundary(Body, 1) = 2
  BY <1>1, <1>4, BlankEnd DEF Framed, Trails
<1>6. buffer' = <<>>
  BY <1>1, <1>5
<1>7. seen' = seen /\ ~garbled'
  <2>1. SubSeq(buffer, 1, EventEnd - 1) = <<>>
    BY <1>5
  <2>2. DataOf(<<>>) = {}
    BY DEF DataOf
  <2> QED
    BY <1>0, <2>1, <2>2 DEF EmitEvent
<1>8. SameLines(buffer', wire', <<>>, <<>>)
  BY <1>1, <1>3, <1>6 DEF SameLines
<1>9. Framed(<<>>, f, <<>>)'
  BY <1>1, <1>3, <1>7, <1>8 DEF Framed, Trails
<1> QED
  BY <1>7, <1>9

LEMMA EmitEventFrames ==
    ASSUME StreamInv, FrameInv, EmitEvent
    PROVE  FrameInv'
<1>1. UNCHANGED <<phase, cut, ending>> /\ phase # "closed"
  BY DEF EmitEvent, upstream
<1>2. CASE cut
  BY <1>1, <1>2, CutStays
<1>3. CASE ~cut
  <2>1. PICK q, f, trail : Framed(q, f, trail)
    BY <1>1, <1>3 DEF FrameInv
  <2>2. ~garbled
    BY <1>3 DEF FrameInv
  <2>3. ~garbled' /\ \E r, g, t : Framed(r, g, t)'
    BY <1>3, <2>1, <2>2, FirstEmitted, TrailEmitted
  <2> QED
    BY <1>1, <2>3 DEF FrameInv
<1> QED
  BY <1>2, <1>3

LEMMA OrphansFrames ==
    ASSUME StreamInv, FrameInv, Orphans
    PROVE  FrameInv'
<1>1. /\ phase = "flushing" /\ EventEnd = 0 /\ phase' = "closed"
      /\ garbled' = (garbled \/ DataOf(buffer) # {})
      /\ UNCHANGED <<unsent, ending, wire, seen, cut>>
  BY DEF Orphans, upstream
<1>2. ASSUME ~cut PROVE ~garbled' /\ seen' \in Answers
  <2>1. PICK q, f, trail : Framed(q, f, trail)
    BY <1>1, <1>2 DEF FrameInv
  <2>2. /\ buffer \in AllLines /\ trail \in AllLines /\ wire = <<>> /\ seen \in AllTexts
        /\ ending \in Terminators /\ Carries(q, f, ending)
        /\ \A k \in Keys : unsent[k] = <<>>
        /\ trail \in Trails
    BY <1>1, <2>1, LinesOfKnown, TrailsTyped DEF Framed, FrameInv
  <2>3. q = <<>> /\ f = Nothing
    <3>1. SUFFICES ASSUME NEW d \in Piece, NEW r \in AllLines, q = Event(d, ending) \o r
                   PROVE  FALSE
      BY <2>2, CarriesInv
    <3>2. /\ Event(d, ending) \in AllLines /\ Len(Event(d, ending)) = 2 + Len(ending)
          /\ Len(ending) \in Nat /\ Len(r) \in Nat
      BY <2>2, EventTyped, EndingLen DEF AllLines, Lines
    <3>3. q \in AllLines /\ Len(q) = 2 + Len(ending) + Len(r)
      BY <3>1, <3>2, LinesConcat, LinesAt
    <3>4. q # <<>>
      <4>1. Len(q) > 0
        BY <3>2, <3>3
      <4> QED
        BY <4>1
    <3>5. trail = <<LF, LF>> /\ SameLines(buffer, wire, q, trail)
      BY <1>1, <2>1, <3>4 DEF Framed
    <3>6. buffer = q \o trail
      BY <2>2, <3>5, NoMoreLines DEF SameLines
    <3>7. Len(buffer) > 2 + Len(ending)
      <4>1. Len(buffer) = Len(q) + Len(trail)
        BY <2>2, <3>3, <3>6, LinesAt
      <4>2. Len(trail) = 2
        BY <3>5
      <4> QED
        BY <3>2, <3>3, <4>1, <4>2
    <3>8. SameLines(buffer, wire, Event(d, ending), r \o trail) /\ r \o trail \in AllLines
      <4>1. (Event(d, ending) \o r) \o trail = Event(d, ending) \o (r \o trail)
        BY <2>2, <3>2, LinesAssociate
      <4>2. buffer \o wire = (Event(d, ending) \o r) \o trail
        BY <3>1, <3>5 DEF SameLines
      <4> QED
        BY <2>2, <4>1, <4>2, LinesConcat DEF SameLines
    <3>9. wire \in AllLines
      BY LinesOfKnown
    <3>10. EventEnd > 0
      BY <2>2, <3>7, <3>8, <3>9, TakeFirst
    <3> QED
      BY <1>1, <3>10
  <2>4. buffer = trail
    <3>1. buffer \o <<>> = <<>> \o trail
      BY <2>1, <2>2, <2>3 DEF Framed, SameLines
    <3> QED
      BY <2>2, <3>1, NoMoreLines
  <2>5. DataOf(buffer) = {}
    <3>1. buffer \in Seq({LF})
      BY <2>2, <2>4, TrailsTyped
    <3> QED
      BY <3>1 DEF DataOf
  <2>6. seen \in Answers
    <3>1. PICK answer \in Answers : OnItsWay(answer, seen, Nothing, unsent)
      BY <2>1, <2>3 DEF Framed
    <3>2. ASSUME NEW k \in Keys PROVE answer[k] = seen[k]
      <4>1. answer[k] = (seen[k] \o <<>>) \o <<>>
        BY <2>2, <3>1 DEF OnItsWay, Nothing
      <4>2. seen[k] \in Texts
        BY <2>2 DEF AllTexts
      <4> QED
        BY <4>1, <4>2, NoMoreText
    <3>3. answer \in AllTexts
      BY SseAssumption DEF AllTexts, Texts
    <3>4. answer = seen
      BY <2>2, <3>2, <3>3 DEF AllTexts
    <3> QED
      BY <3>4
  <2> QED
    BY <1>1, <1>2, <2>5, <2>6 DEF FrameInv
<1> QED
  BY <1>1, <1>2 DEF FrameInv

LEMMA FrameGrows ==
    ASSUME FrameInv, NEW n \in Names, Grow(n)
    PROVE  FrameInv'
BY DEF Grow, client, FrameInv, Framed

\* A stream that ended in order has delivered every answer whole and nothing but
\* events, wherever a chunk was cut (emitCompleteEvents, findEventBoundary and flush).
THEOREM WholeAnswers == Spec => []DeliveredWhole
<1>1. Init => StreamInv /\ FrameInv
  BY StreamInit, FrameInit
<1>2. StreamInv /\ FrameInv /\ [Next]_vars => StreamInv' /\ FrameInv'
  <2> SUFFICES ASSUME StreamInv, FrameInv, [Next]_vars PROVE FrameInv'
    BY StreamNext
  <2>1. ASSUME NEW k \in Keys, NEW n \in 1..MaxFragment, Send(k, n) PROVE FrameInv'
    BY <2>1, SendFrames
  <2>2. ASSUME NEW n \in Names, Grow(n) PROVE FrameInv'
    BY <2>2, FrameGrows
  <2>3. ASSUME NEW n \in 1..Len(wire), Push(n) PROVE FrameInv'
    BY <2>3, PushFrames
  <2>4. CASE EmitEvent
    BY <2>4, EmitEventFrames
  <2>5. CASE EndStream
    BY <2>5, EndStreamFrames
  <2>6. CASE Orphans
    BY <2>6, OrphansFrames
  <2>7. CASE UNCHANGED vars
    BY <2>7 DEF vars, upstream, client, FrameInv, Framed
  <2> QED
    BY <2>1, <2>2, <2>3, <2>4, <2>5, <2>6, <2>7 DEF Next
<1>3. StreamInv /\ FrameInv => DeliveredWhole
  BY DEF StreamInv, HeldBack, InWhole, FrameInv, DeliveredWhole
<1> QED
  BY <1>1, <1>2, <1>3, PTL DEF Spec

=============================================================================

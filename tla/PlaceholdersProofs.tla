-------------------------- MODULE PlaceholdersProofs --------------------------
(***************************************************************************)
(* For any values, texts and number of calls: a session's map only grows,  *)
(* a value never gets a second placeholder, and what is sent holds no      *)
(* value and restores to what was meant.                                   *)
(***************************************************************************)
EXTENDS Placeholders, WellFoundedInduction, SequenceTheorems, TLAPS

----------------------------------------------------------------------------
(* Numbers *)

\* The natural numbers are well-founded.
LEMMA LeastExists ==
    ASSUME NEW S, S \subseteq Nat, S # {}
    PROVE  \E x \in S : \A y \in S : x <= y
<1> DEFINE Less == OpToRel(<, Nat)
<1>1. \A x, y \in Nat : y < x => <<y, x>> \in Less
  BY Zenon DEF OpToRel
<1> HIDE DEF Less
<1>2. PICK x \in S : \A y \in S : ~(<<y, x>> \in Less)
  <2>1. IsWellFoundedOn(Less, Nat)
    BY NatLessThanWellFounded DEF Less
  <2> QED
    BY <2>1, WFMin
<1>3. ASSUME NEW y \in S PROVE x <= y
  <2>1. x \in Nat /\ y \in Nat
    OBVIOUS
  <2>2. ~(y < x)
    BY <1>1, <1>2, <2>1
  <2> QED
    BY <2>1, <2>2
<1> QED
  BY <1>3

\* Max of a nonempty set of natural numbers with an upper bound.
LEMMA MaxIsGreatest ==
    ASSUME NEW n \in Nat, NEW S, S \subseteq 0..n, S # {}
    PROVE  Max(S) \in S /\ \A y \in S : Max(S) >= y
<1> DEFINE T == {n - x : x \in S}
<1>1. \A x \in S : x \in 0..n
  OBVIOUS
<1>2. PICK t \in T : \A u \in T : t <= u
  <2>1. T \subseteq Nat
    BY <1>1
  <2>2. T # {}
    OBVIOUS
  <2> HIDE DEF T
  <2> QED
    BY <2>1, <2>2, LeastExists
<1>3. PICK x \in S : t = n - x
  OBVIOUS
<1>4. ASSUME NEW y \in S PROVE x >= y
  <2>1. n - x <= n - y
    BY <1>2, <1>3
  <2> QED
    BY <2>1, <1>1
<1> QED
  BY <1>4 DEF Max

----------------------------------------------------------------------------

\* What a placeholder stands for never changes: literals are entered only where
\* there is no entry, and a name is minted only when it is free.
THEOREM MapGrows == Spec => MapOnlyGrows
<1> DEFINE Grows == \A t \in DOMAIN map : t \in DOMAIN map' /\ map'[t] = map[t]
<1>1. ASSUME NEW texts \in Contents, BeginInProxy(texts) PROVE Grows
  BY <1>1 DEF BeginInProxy, WithLiterals
<1>2. ASSUME Mint PROVE Grows
  <2>1. Name \notin DOMAIN map
    BY <1>2 DEF Mint, Taken
  <2> QED
    BY <1>2, <2>1 DEF Mint
<1>3. ASSUME UNCHANGED map PROVE Grows
  BY <1>3
<1>4. [Next]_vars => Grows
  <2> SUFFICES ASSUME [Next]_vars PROVE Grows
    OBVIOUS
  <2>1. UNCHANGED map \/ Mint \/ \E texts \in Contents : BeginInProxy(texts)
    BY DEF Next, vars, BeginOnDisk, Keep, Reuse, StartCount, TryNext, NextMessage, Return
  <2> QED
    BY <1>1, <1>2, <1>3, <2>1
<1> QED
  BY <1>4, PTL DEF Spec, MapOnlyGrows

----------------------------------------------------------------------------
\* While createPlaceholder looks for a name, it is for a value that has none.
SearchIsForNewValue ==
    count > 0 => ~Idle /\ pos > 0 /\ Atom \in Values /\ ExistingPlaceholder(Atom) = {}

UniqueInv == SearchIsForNewValue /\ OnePlaceholderPerValue

\* Entering the literals of a text gives no value a second placeholder.
LEMMA LiteralsAreNoValues ==
    ASSUME OnePlaceholderPerValue, NEW texts, map' = WithLiterals(map, Reserve(texts))
    PROVE  OnePlaceholderPerValue'
<1>1. \A t \in Reserve(texts) : t \notin Values
  BY DEF Reserve, TokensIn
<1> QED
  BY <1>1 DEF OnePlaceholderPerValue, WithLiterals

LEMMA UniqueInit == Init => UniqueInv
BY DEF Init, UniqueInv, SearchIsForNewValue, OnePlaceholderPerValue

\* Every step keeps the inductive invariant.
LEMMA UniqueStep == UniqueInv /\ [Next]_vars => UniqueInv'
<1> SUFFICES ASSUME UniqueInv, [Next]_vars PROVE UniqueInv'
  OBVIOUS
<1> USE PlaceholderAssumption DEF UniqueInv, SearchIsForNewValue, Idle
<1>1. ASSUME NEW texts \in Contents, BeginOnDisk(texts) PROVE UniqueInv'
  BY <1>1 DEF BeginOnDisk, Start, OnePlaceholderPerValue
<1>2. ASSUME NEW texts \in Contents, BeginInProxy(texts) PROVE UniqueInv'
  <2>1. ~(count > 0) /\ count' = count
    BY <1>2 DEF BeginInProxy, Start
  <2>2. OnePlaceholderPerValue'
    BY <1>2, LiteralsAreNoValues DEF BeginInProxy
  <2> QED
    BY <2>1, <2>2
<1>3. CASE Keep
  BY <1>3 DEF Keep, OnePlaceholderPerValue
<1>4. CASE Reuse
  BY <1>4 DEF Reuse, OnePlaceholderPerValue
<1>5. CASE StartCount
  <2>1. ~Idle /\ pos > 0 /\ Atom \in Values /\ ExistingPlaceholder(Atom) = {}
    BY <1>5 DEF StartCount
  <2>2. UNCHANGED <<map, messages, current, pos>>
    BY <1>5 DEF StartCount, call
  <2>3. SearchIsForNewValue'
    BY <2>1, <2>2 DEF ExistingPlaceholder, Atom
  <2> QED
    BY <2>2, <2>3 DEF OnePlaceholderPerValue
<1>6. CASE TryNext
  BY <1>6 DEF TryNext, OnePlaceholderPerValue, ExistingPlaceholder, Atom, call
<1>7. CASE Mint
  <2>1. Name \notin DOMAIN map /\ ExistingPlaceholder(Atom) = {}
    BY <1>7 DEF Mint, Taken
  <2>2. count' = 0
    BY <1>7 DEF Mint
  <2>3. OnePlaceholderPerValue'
    BY <1>7, <2>1 DEF Mint, OnePlaceholderPerValue, ExistingPlaceholder
  <2> QED
    BY <2>2, <2>3
<1>8. CASE NextMessage
  BY <1>8 DEF NextMessage, OnePlaceholderPerValue
<1>9. CASE Return
  BY <1>9 DEF Return, OnePlaceholderPerValue
<1>10. CASE UNCHANGED vars
  BY <1>10 DEF vars, call, OnePlaceholderPerValue, ExistingPlaceholder, Atom
<1> QED
  BY <1>1, <1>2, <1>3, <1>4, <1>5, <1>6, <1>7, <1>8, <1>9, <1>10 DEF Next

\* A value has one placeholder for the whole session, however its calls and the
\* placeholders their texts carry are mixed.
THEOREM OneEach == Spec => []OnePlaceholderPerValue
<1>1. Init => UniqueInv
  BY UniqueInit
<1>2. UniqueInv => OnePlaceholderPerValue
  BY DEF UniqueInv
<1> QED
  BY <1>1, <1>2, UniqueStep, PTL DEF Spec

----------------------------------------------------------------------------
(* Type correctness *)

Atoms == Values \union Placeholder
Texts == Seq(Atoms)

\* The three texts of every message of the call have the same places.
SameShape ==
    /\ intended \in Seq(Texts) /\ scrubbed \in Seq(Texts)
    /\ \A i \in 1..Len(messages) :
          Len(intended[i]) = Len(messages[i]) /\ Len(scrubbed[i]) = Len(messages[i])

HistoryTyped ==
    \A n \in DOMAIN history :
        /\ history[n].sent \in Seq(Texts) /\ history[n].intended \in Seq(Texts)
        /\ Len(history[n].intended) = Len(history[n].sent)
        /\ \A i \in 1..Len(history[n].sent) :
              Len(history[n].intended[i]) = Len(history[n].sent[i])

TypeInv ==
    /\ TypeOK
    /\ SameShape
    /\ ~Idle => current > 0
    /\ history \in Seq([sent : Seq(Texts), intended : Seq(Texts)])
    /\ HistoryTyped

\* The number after the highest is again one of the numbers.
LEMMA SuccType == ASSUME NEW n \in 0..MaxIndex PROVE Succ(n) \in 0..MaxIndex
BY PlaceholderAssumption DEF Succ

\* rebuildCategoryCounts gives numbers, whatever the map holds.
LEMMA CountsType ==
    ASSUME NEW m, DOMAIN m \subseteq Placeholder
    PROVE  RebuildCategoryCounts(m) \in [CategoryPrefixes -> 0..MaxIndex]
<1> SUFFICES ASSUME NEW p \in CategoryPrefixes
             PROVE  RebuildCategoryCounts(m)[p] \in 0..MaxIndex
  BY DEF RebuildCategoryCounts
<1> DEFINE indexes == {t.index : t \in {t \in DOMAIN m : t.prefix = p}}
<1>1. indexes \subseteq 0..MaxIndex
  BY DEF Placeholder
<1>2. RebuildCategoryCounts(m)[p] = IF indexes = {} THEN 0 ELSE Succ(Max(indexes))
  BY DEF RebuildCategoryCounts
<1> HIDE DEF indexes
<1>3. CASE indexes = {}
  BY <1>2, <1>3, PlaceholderAssumption
<1>4. CASE indexes # {}
  <2>1. Max(indexes) \in 0..MaxIndex
    BY <1>1, <1>4, MaxIsGreatest, PlaceholderAssumption
  <2> QED
    BY <1>2, <1>4, <2>1, SuccType
<1> QED
  BY <1>3, <1>4

\* The placeholders a call's texts carry.
LEMMA ReserveType ==
    ASSUME NEW texts \in Seq(Texts)
    PROVE  Reserve(texts) \subseteq Placeholder
BY DEF Reserve, TokensIn, Texts, Atoms, ToSet

\* Rehydrating a text of the model gives one of the same length.
LEMMA RehydrateType ==
    ASSUME NEW text \in Texts, NEW m, \A t \in DOMAIN m : m[t] \in Values \union {t}
    PROVE  Rehydrate(text, m) \in Texts /\ Len(Rehydrate(text, m)) = Len(text)
<1>1. text \in [1..Len(text) -> Atoms] /\ Len(text) \in Nat
  BY DEF Texts
<1>2. Rehydrate(text, m) \in [1..Len(text) -> Atoms]
  BY <1>1 DEF Rehydrate, Atoms
<1> QED
  BY <1>1, <1>2 DEF Texts

\* Starting a call on texts that can be scrubbed.
LEMMA StartType ==
    ASSUME TypeInv, NEW texts \in Contents, Start(texts)
    PROVE  /\ texts \in Seq(Texts) /\ texts # <<>>
           /\ messages' \in Contents /\ ~Idle'
           /\ Len(scrubbed') = Len(messages') /\ Len(intended') = Len(messages')
           /\ current' \in 1..Len(messages') /\ pos' \in 0..Len(messages'[current'])
           /\ SameShape'
<1>1. texts \in Seq(Texts) /\ texts # <<>>
  BY PlaceholderAssumption DEF Texts, Atoms
<1>2. messages' = texts /\ scrubbed' = texts /\ current' = 1 /\ pos' = Len(texts[1])
  BY DEF Start
<1>3. intended' = [i \in DOMAIN texts |-> Rehydrate(texts[i], map)]
  BY DEF Start
<1>4. Len(texts) \in Nat /\ Len(texts) > 0 /\ DOMAIN texts = 1..Len(texts)
  BY <1>1
<1>5. \A i \in 1..Len(texts) : texts[i] \in Texts
  BY <1>1
<1>6. \A i \in 1..Len(texts) :
        Rehydrate(texts[i], map) \in Texts /\ Len(Rehydrate(texts[i], map)) = Len(texts[i])
  BY <1>5, RehydrateType DEF TypeInv, TypeOK
<1>7. intended' \in Seq(Texts) /\ Len(intended') = Len(texts)
  <2>1. intended' \in [1..Len(texts) -> Texts]
    BY <1>3, <1>4, <1>6
  <2> QED
    BY <2>1, <1>4
<1>8. SameShape'
  BY <1>1, <1>2, <1>3, <1>4, <1>6, <1>7 DEF SameShape
<1>9. pos' \in 0..Len(messages'[current']) /\ current' \in 1..Len(messages')
  BY <1>2, <1>4, <1>5 DEF Texts
<1> QED
  BY <1>1, <1>2, <1>7, <1>8, <1>9 DEF Idle

\* Replacing one place of the scrubbed texts by a placeholder keeps their shape.
LEMMA ReplaceType ==
    ASSUME TypeInv, ~Idle, pos > 0, NEW t \in Placeholder, ReplaceBy(t),
           UNCHANGED call
    PROVE  SameShape' /\ Len(scrubbed') = Len(messages')
<1>1. scrubbed \in Seq(Texts) /\ Len(scrubbed) = Len(messages) /\ current \in 1..Len(messages)
  BY DEF TypeInv, TypeOK, SameShape
<1>2. pos \in 1..Len(messages[current]) /\ Len(scrubbed[current]) = Len(messages[current])
  BY <1>1 DEF TypeInv, TypeOK, SameShape
<1> DEFINE new == [scrubbed[current] EXCEPT ![pos] = t]
<1>3. scrubbed[current] \in Texts /\ new \in Texts /\ Len(new) = Len(scrubbed[current])
  BY <1>1, <1>2 DEF Texts, Atoms
<1>4. scrubbed' = [scrubbed EXCEPT ![current] = new]
  BY DEF ReplaceBy
<1> HIDE DEF new
<1>5. scrubbed' \in Seq(Texts) /\ Len(scrubbed') = Len(scrubbed)
  BY <1>1, <1>3, <1>4
<1>6. \A i \in 1..Len(messages) : Len(scrubbed'[i]) = Len(scrubbed[i])
  BY <1>1, <1>3, <1>4
<1> QED
  BY <1>1, <1>5, <1>6 DEF SameShape, TypeInv, call

\* Every step keeps the types, as long as a search is for a value.
LEMMA TypeStep == TypeInv /\ SearchIsForNewValue /\ [Next]_vars => TypeInv'
<1> SUFFICES ASSUME TypeInv, SearchIsForNewValue, [Next]_vars PROVE TypeInv'
  OBVIOUS
<1> USE PlaceholderAssumption
<1>0. /\ DOMAIN map \subseteq Placeholder /\ reserved \subseteq Placeholder
      /\ \A t \in DOMAIN map : map[t] \in Values \union {t}
      /\ counts \in [CategoryPrefixes -> 0..MaxIndex] /\ count \in 0..MaxIndex
      /\ mode \in {"disk", "proxy"} /\ messages \in Contents \union {<<>>}
  BY DEF TypeInv, TypeOK
<1>1. ASSUME NEW texts \in Contents, BeginOnDisk(texts) PROVE TypeInv'
  <2>1. Start(texts) /\ counts' = RebuildCategoryCounts(map) /\ reserved' = Reserve(texts)
        /\ UNCHANGED <<mode, map, count, history>>
    BY <1>1 DEF BeginOnDisk, Manage
  <2>2. texts \in Seq(Texts)
    BY <2>1, StartType
  <2>3. counts' \in [CategoryPrefixes -> 0..MaxIndex] /\ reserved' \subseteq Placeholder
    BY <1>0, <2>1, <2>2, CountsType, ReserveType
  <2>4. TypeOK'
    BY <1>0, <2>1, <2>3, StartType DEF TypeOK
  <2> QED
    BY <2>1, <2>4, StartType DEF TypeInv, HistoryTyped
<1>2. ASSUME NEW texts \in Contents, BeginInProxy(texts) PROVE TypeInv'
  <2>1. Start(texts) /\ map' = WithLiterals(map, Reserve(texts))
        /\ counts' = RebuildCategoryCounts(map') /\ reserved' = Reserve(<<texts[1]>>)
        /\ UNCHANGED <<mode, count, history>>
    BY <1>2 DEF BeginInProxy, Manage
  <2>2. texts \in Seq(Texts) /\ texts # <<>>
    BY <2>1, StartType
  <2>3. <<texts[1]>> \in Seq(Texts)
    BY <2>2
  <2>4. DOMAIN map' \subseteq Placeholder /\ \A t \in DOMAIN map' : map'[t] \in Values \union {t}
    BY <1>0, <2>1, <2>2, ReserveType DEF WithLiterals
  <2>5. counts' \in [CategoryPrefixes -> 0..MaxIndex] /\ reserved' \subseteq Placeholder
    BY <2>1, <2>3, <2>4, CountsType, ReserveType
  <2>6. /\ messages' \in Contents /\ ~Idle'
        /\ Len(scrubbed') = Len(messages') /\ Len(intended') = Len(messages')
        /\ current' \in 1..Len(messages') /\ pos' \in 0..Len(messages'[current'])
        /\ SameShape' /\ UNCHANGED <<mode, count, history>>
    BY <2>1, StartType
  <2>7. TypeOK'
    BY <1>0, <2>4, <2>5, <2>6 DEF TypeOK
  <2> QED
    BY <2>6, <2>7 DEF TypeInv, HistoryTyped
<1>3. CASE Keep
  BY <1>3 DEF Keep, TypeInv, TypeOK, SameShape, HistoryTyped, Idle, call
<1>4. CASE Reuse
  <2>1. PICK t \in ExistingPlaceholder(Atom) : ReplaceBy(t)
    BY <1>4 DEF Reuse
  <2>2. t \in Placeholder
    BY <1>0, <2>1 DEF ExistingPlaceholder
  <2>3. SameShape' /\ Len(scrubbed') = Len(messages')
    BY <1>4, <2>1, <2>2, ReplaceType DEF Reuse
  <2> QED
    BY <1>4, <2>3 DEF Reuse, TypeInv, TypeOK, HistoryTyped, Idle, call
<1>5. CASE StartCount
  <2>1. count' \in 0..MaxIndex
    BY <1>0, <1>5 DEF StartCount, CategoryPrefixes
  <2> QED
    BY <1>5, <2>1 DEF StartCount, TypeInv, TypeOK, SameShape, HistoryTyped, Idle, call
<1>6. CASE TryNext
  <2>1. count' = Succ(count)
    BY <1>6 DEF TryNext
  <2>2. count' \in 0..MaxIndex
    BY <1>0, <2>1, SuccType
  <2> QED
    BY <1>6, <2>2 DEF TryNext, TypeInv, TypeOK, SameShape, HistoryTyped, Idle, call
<1>7. CASE Mint
  <2>1. ~Idle /\ pos > 0 /\ Atom \in Values
    BY <1>7 DEF Mint, SearchIsForNewValue
  <2>2. Name \in Placeholder /\ Name.prefix \in CategoryPrefixes
    BY <1>0, <2>1 DEF Name, Placeholder, CategoryPrefixes
  <2>3. SameShape' /\ Len(scrubbed') = Len(messages')
    BY <1>7, <2>1, <2>2, ReplaceType DEF Mint
  <2>4. counts' \in [CategoryPrefixes -> 0..MaxIndex]
    <3>1. Succ(count) \in 0..MaxIndex
      BY <1>0, SuccType
    <3>2. counts' = [counts EXCEPT ![Name.prefix] = Succ(count)]
      BY <1>7 DEF Mint
    <3> QED
      BY <1>0, <3>1, <3>2
  <2>5. DOMAIN map' \subseteq Placeholder /\ \A t \in DOMAIN map' : map'[t] \in Values \union {t}
    BY <1>0, <1>7, <2>1, <2>2 DEF Mint
  <2>6. count' = 0 /\ pos' = pos - 1
        /\ UNCHANGED <<mode, reserved, messages, intended, current, history>>
    BY <1>7 DEF Mint, call
  <2>7. pos - 1 \in 0..Len(messages[current]) /\ current \in 0..Len(messages)
        /\ Len(intended) = Len(messages)
    BY <2>1 DEF TypeInv, TypeOK
  <2>8. /\ ~Idle' /\ pos' \in 0..Len(messages'[current']) /\ current' \in 0..Len(messages')
        /\ Len(intended') = Len(messages') /\ count' \in 0..MaxIndex
        /\ mode' \in {"disk", "proxy"} /\ reserved' \subseteq Placeholder
        /\ messages' \in Contents \union {<<>>}
    BY <1>0, <2>1, <2>6, <2>7 DEF Idle
  <2>9. TypeOK'
    BY <2>3, <2>4, <2>5, <2>8 DEF TypeOK
  <2> QED
    BY <2>3, <2>6, <2>9 DEF TypeInv, HistoryTyped, Idle
<1>8. CASE NextMessage
  <2>1. messages \in Seq(Texts) /\ current + 1 \in 1..Len(messages)
    BY <1>0, <1>8 DEF NextMessage, Idle, TypeInv, TypeOK, Texts, Atoms
  <2>2. <<messages[current + 1]>> \in Seq(Texts) /\ Len(messages[current + 1]) \in Nat
    BY <2>1 DEF Texts
  <2>3. counts' \in [CategoryPrefixes -> 0..MaxIndex] /\ reserved' \subseteq Placeholder
    <3>1. \/ UNCHANGED <<reserved, counts>>
          \/ counts' = RebuildCategoryCounts(map) /\ reserved' = Reserve(<<messages[current + 1]>>)
      BY <1>8 DEF NextMessage, Manage
    <3>2. RebuildCategoryCounts(map) \in [CategoryPrefixes -> 0..MaxIndex]
      BY <1>0, CountsType
    <3>3. Reserve(<<messages[current + 1]>>) \subseteq Placeholder
      BY <2>2, ReserveType
    <3> QED
      BY <1>0, <3>1, <3>2, <3>3
  <2> QED
    BY <1>8, <2>1, <2>2, <2>3 DEF NextMessage, TypeInv, TypeOK, SameShape, HistoryTyped, Idle, call
<1>9. CASE Return
  <2> DEFINE entry == [sent |-> scrubbed, intended |-> intended]
  <2>1. history' = Append(history, entry) /\ messages' = <<>> /\ intended' = <<>>
        /\ scrubbed' = <<>> /\ current' = 0 /\ pos' = 0 /\ UNCHANGED <<mode, map, count>>
    BY <1>9 DEF Return
  <2>2. reserved' = {} /\ counts' \in [CategoryPrefixes -> 0..MaxIndex]
    BY <1>9 DEF Return
  <2>3. TypeOK' /\ SameShape' /\ Idle'
    BY <1>0, <2>1, <2>2 DEF TypeOK, SameShape, Idle
  <2>4. entry \in [sent : Seq(Texts), intended : Seq(Texts)]
        /\ Len(entry.intended) = Len(entry.sent)
        /\ \A i \in 1..Len(entry.sent) : Len(entry.intended[i]) = Len(entry.sent[i])
    BY DEF TypeInv, TypeOK, SameShape
  <2> HIDE DEF entry
  <2>5. history \in Seq([sent : Seq(Texts), intended : Seq(Texts)]) /\ HistoryTyped
    BY DEF TypeInv
  <2>6. /\ history' \in Seq([sent : Seq(Texts), intended : Seq(Texts)])
        /\ DOMAIN history' = 1..Len(history) + 1
        /\ \A n \in DOMAIN history' : history'[n] = IF n \in DOMAIN history THEN history[n] ELSE entry
    BY <2>1, <2>4, <2>5
  <2>7. HistoryTyped'
    BY <2>4, <2>5, <2>6 DEF HistoryTyped
  <2> QED
    BY <2>3, <2>6, <2>7 DEF TypeInv
<1>10. CASE UNCHANGED vars
  BY <1>10 DEF vars, call, TypeInv, TypeOK, SameShape, HistoryTyped, Idle
<1> QED
  BY <1>1, <1>2, <1>3, <1>4, <1>5, <1>6, <1>7, <1>8, <1>9, <1>10 DEF Next

LEMMA TypeInit == Init => TypeInv
BY PlaceholderAssumption
   DEF Init, TypeInv, TypeOK, SameShape, HistoryTyped, Idle, Texts, Atoms

\* The session's state has its types in every call, whatever its texts.
THEOREM TypeCorrect == Spec => []TypeOK
<1>1. Init => TypeInv /\ UniqueInv
  BY TypeInit, UniqueInit
<1>2. TypeInv /\ UniqueInv /\ [Next]_vars => (TypeInv /\ UniqueInv)'
  BY TypeStep, UniqueStep DEF UniqueInv
<1>3. TypeInv => TypeOK
  BY DEF TypeInv
<1> QED
  BY <1>1, <1>2, <1>3, PTL DEF Spec

----------------------------------------------------------------------------
(* What is sent restores *)

\* rehydrate, at one place.
Restored(a, m) == IF a \in DOMAIN m THEN m[a] ELSE a

\* No name that is still handed out can be this placeholder.
Claimed(a) == a \in DOMAIN map \/ (mode = "disk" /\ a \in reserved)

Done(i, j) == i < current \/ (i = current /\ j > pos)

\* Of the current call: what its messages were and what has become of them restore
\* to what they should, their placeholders are never handed out, and no value is
\* left where it is done.
CallRestores ==
    \A i \in 1..Len(messages) : \A j \in 1..Len(messages[i]) :
        /\ Restored(messages[i][j], map) = intended[i][j]
        /\ Restored(scrubbed[i][j], map) = intended[i][j]
        /\ messages[i][j] \in Values \/ Claimed(messages[i][j])
        /\ scrubbed[i][j] \in Values \/ Claimed(scrubbed[i][j])
        /\ IF Done(i, j) THEN scrubbed[i][j] \notin Values
                         ELSE scrubbed[i][j] = messages[i][j]

\* What a call sent restores, holds no value, and in the proxy only placeholders
\* that the map knows.
Kept(h) ==
    \A i \in 1..Len(h.sent) : \A j \in 1..Len(h.sent[i]) :
        /\ Restored(h.sent[i][j], map) = h.intended[i][j]
        /\ h.sent[i][j] \notin Values
        /\ mode = "proxy" => h.sent[i][j] \in DOMAIN map

HistoryRestores == \A n \in Restorable : Kept(history[n])

RestoreInv == TypeInv /\ UniqueInv /\ CallRestores /\ HistoryRestores

\* A value is not a placeholder, so it restores to itself.
LEMMA ValueRestored ==
    ASSUME TypeOK, NEW v \in Values
    PROVE  v \notin DOMAIN map /\ Restored(v, map) = v
BY PlaceholderAssumption DEF TypeOK, Restored

\* Where a placeholder of a message is, and that its text restores to its intent.
LEMMA CallShape ==
    ASSUME TypeInv
    PROVE  /\ messages \in Seq(Texts) /\ scrubbed \in Seq(Texts) /\ intended \in Seq(Texts)
           /\ Len(scrubbed) = Len(messages) /\ Len(intended) = Len(messages)
           /\ \A i \in 1..Len(messages) :
                /\ messages[i] \in Texts /\ scrubbed[i] \in Texts /\ intended[i] \in Texts
                /\ Len(intended[i]) = Len(messages[i]) /\ Len(scrubbed[i]) = Len(messages[i])
                /\ \A j \in 1..Len(messages[i]) :
                     messages[i][j] \in Atoms /\ scrubbed[i][j] \in Atoms
<1>1. messages \in Seq(Texts)
  <2>1. Contents \subseteq Seq(Texts)
    BY PlaceholderAssumption DEF Texts, Atoms
  <2>2. <<>> \in Seq(Texts)
    OBVIOUS
  <2>3. messages \in Contents \union {<<>>}
    BY DEF TypeInv, TypeOK
  <2> QED
    BY <2>1, <2>2, <2>3
<1>2. /\ scrubbed \in Seq(Texts) /\ intended \in Seq(Texts)
      /\ Len(scrubbed) = Len(messages) /\ Len(intended) = Len(messages)
      /\ \A i \in 1..Len(messages) :
            Len(intended[i]) = Len(messages[i]) /\ Len(scrubbed[i]) = Len(messages[i])
  BY DEF TypeInv, TypeOK, SameShape
<1>3. \A i \in 1..Len(messages) :
        messages[i] \in Texts /\ scrubbed[i] \in Texts /\ intended[i] \in Texts
  BY <1>1, <1>2
<1>4. ASSUME NEW i \in 1..Len(messages), NEW j \in 1..Len(messages[i])
      PROVE  messages[i][j] \in Atoms /\ scrubbed[i][j] \in Atoms
  BY <1>2, <1>3 DEF Texts
<1> QED
  BY <1>1, <1>2, <1>3, <1>4

\* A call begins: nothing is done, and its placeholders are claimed.
LEMMA BeginRestores ==
    ASSUME TypeInv, TypeInv', NEW texts \in Contents, Start(texts),
           \/ mode' = "disk" /\ map' = map /\ reserved' = Reserve(texts)
           \/ map' = WithLiterals(map, Reserve(texts))
    PROVE  CallRestores'
<1>1. messages' = texts /\ scrubbed' = texts /\ current' = 1 /\ pos' = Len(texts[1])
      /\ intended' = [i \in DOMAIN texts |-> Rehydrate(texts[i], map)]
  BY DEF Start
<1>2. texts \in Seq(Texts)
  BY StartType
<1> SUFFICES ASSUME NEW i \in 1..Len(texts), NEW j \in 1..Len(texts[i])
             PROVE  /\ Restored(texts[i][j], map') = intended'[i][j]
                    /\ texts[i][j] \in Values \/ Claimed(texts[i][j])'
                    /\ ~Done(i, j)'
  BY <1>1 DEF CallRestores, Claimed, Done
<1> DEFINE a == texts[i][j]
<1>3. DOMAIN texts = 1..Len(texts) /\ texts[i] \in Texts /\ DOMAIN texts[i] = 1..Len(texts[i])
  BY <1>2 DEF Texts
<1>4. intended'[i][j] = Restored(a, map)
  BY <1>1, <1>3 DEF Rehydrate, Restored
<1>5. a \in Values \/ a \in Reserve(texts)
  BY <1>3 DEF Reserve, TokensIn, ToSet
<1>6. a \in Values => a \notin DOMAIN map /\ a \notin DOMAIN map'
  BY PlaceholderAssumption DEF TypeInv, TypeOK
<1>7. Restored(a, map') = Restored(a, map)
  BY <1>5, <1>6 DEF Restored, WithLiterals
<1>8. a \in Values \/ Claimed(a)'
  BY <1>5 DEF Claimed, WithLiterals
<1>9. ~Done(i, j)'
  BY <1>1, <1>3 DEF Done, Texts
<1> QED
  BY <1>4, <1>7, <1>8, <1>9

\* The place at pos gets a placeholder that stands for its value: it is done.
LEMMA PlaceDone ==
    ASSUME TypeInv, CallRestores, ~Idle, pos > 0, NEW t \in Placeholder,
           ReplaceBy(t), UNCHANGED <<mode, call, current, reserved>>, pos' = pos - 1,
           Atom \in Values, Restored(t, map') = Atom, t \in DOMAIN map',
           DOMAIN map \subseteq DOMAIN map',
           \A i \in 1..Len(messages) : \A j \in 1..Len(messages[i]) :
             /\ Restored(messages[i][j], map') = Restored(messages[i][j], map)
             /\ Restored(scrubbed[i][j], map') = Restored(scrubbed[i][j], map)
    PROVE  CallRestores'
<1>1. /\ current \in 1..Len(messages) /\ pos \in 1..Len(messages[current])
  BY DEF TypeInv, TypeOK
<1>2. \A i \in 1..Len(messages) : \A j \in 1..Len(messages[i]) :
        scrubbed'[i][j] = IF i = current /\ j = pos THEN t ELSE scrubbed[i][j]
  <2>1. scrubbed' = [scrubbed EXCEPT ![current] = [scrubbed[current] EXCEPT ![pos] = t]]
    BY DEF ReplaceBy
  <2>2. /\ scrubbed \in Seq(Texts) /\ Len(scrubbed) = Len(messages)
        /\ scrubbed[current] \in Texts /\ Len(scrubbed[current]) = Len(messages[current])
    BY <1>1, CallShape
  <2>3. pos \in DOMAIN scrubbed[current]
    BY <1>1, <2>2 DEF Texts
  <2>4. current \in DOMAIN scrubbed
    BY <1>1, <2>2
  <2> QED
    BY <2>1, <2>2, <2>3, <2>4
<1>3. UNCHANGED <<messages, intended>>
  BY DEF call
<1> SUFFICES ASSUME NEW i \in 1..Len(messages), NEW j \in 1..Len(messages[i]),
                    NEW a, a = messages[i][j], NEW s, s = scrubbed'[i][j]
             PROVE  /\ Restored(a, map') = intended[i][j] /\ Restored(s, map') = intended[i][j]
                    /\ a \in Values \/ Claimed(a)'
                    /\ s \in Values \/ Claimed(s)'
                    /\ IF Done(i, j)' THEN s \notin Values ELSE s = a
  BY <1>3 DEF CallRestores, Claimed, Done
<1>4. \A b : Claimed(b) => Claimed(b)'
  BY DEF Claimed
<1>5. i \in Nat /\ j \in Nat /\ current \in Nat /\ pos \in Nat
  BY <1>1, CallShape DEF Texts
<1>6. CASE i = current /\ j = pos
  <2>1. s = t /\ a = Atom /\ t \notin Values
    BY <1>2, <1>6, PlaceholderAssumption DEF Atom
  <2>2. Restored(Atom, map) = Atom
    BY ValueRestored DEF TypeInv
  <2>3. Done(i, j)'
    BY <1>5, <1>6 DEF Done
  <2>4. intended[i][j] = Atom
    BY <1>6, <2>1, <2>2 DEF CallRestores
  <2> QED
    BY <2>1, <2>2, <2>3, <2>4 DEF Claimed
<1>7. CASE ~(i = current /\ j = pos)
  <2>1. s = scrubbed[i][j]
    BY <1>2, <1>7
  <2>2. Done(i, j)' <=> Done(i, j)
    BY <1>5, <1>7 DEF Done
  <2>3. IF Done(i, j)' THEN s \notin Values ELSE s = a
    BY <2>1, <2>2 DEF CallRestores
  <2>4. /\ a \in Values \/ Claimed(a)'
        /\ s \in Values \/ Claimed(s)'
    BY <1>4, <2>1 DEF CallRestores
  <2> QED
    BY <2>1, <2>3, <2>4 DEF CallRestores
<1> QED
  BY <1>6, <1>7

\* Growing the map changes nothing for a placeholder it holds, or for one that it
\* still does not hold.
LEMMA GrownMap ==
    ASSUME \A t \in DOMAIN map : t \in DOMAIN map' /\ map'[t] = map[t],
           NEW a, a \in DOMAIN map \/ a \notin DOMAIN map'
    PROVE  Restored(a, map') = Restored(a, map)
BY DEF Restored

\* What a proxy session has sent restores for ever; on disk nothing is promised
\* once the next call has begun.
LEMMA HistoryKept ==
    ASSUME HistoryRestores, UNCHANGED <<mode, history>>, mode \in {"disk", "proxy"},
           mode = "disk" => ~Idle' \/ (Idle /\ UNCHANGED map),
           \A t \in DOMAIN map : t \in DOMAIN map' /\ map'[t] = map[t]
    PROVE  HistoryRestores'
<1>1. CASE mode = "disk" /\ ~Idle'
  BY <1>1 DEF HistoryRestores, Restorable
<1>2. CASE mode = "disk" /\ Idle /\ UNCHANGED map
  <2>1. \A n \in Restorable' : n \in Restorable
    BY <1>2 DEF Restorable
  <2>2. \A n : Kept(history[n])' <=> Kept(history[n])
    BY <1>2 DEF Kept, Restored
  <2> QED
    BY <2>1, <2>2 DEF HistoryRestores
<1>3. CASE mode = "proxy"
  <2>1. Restorable' = DOMAIN history /\ Restorable = DOMAIN history
    BY <1>3 DEF Restorable
  <2>2. ASSUME NEW n \in DOMAIN history PROVE Kept(history[n])'
    <3>1. Kept(history[n])
      BY <2>1 DEF HistoryRestores
    <3> QED
      BY <1>3, <3>1, GrownMap DEF Kept
  <2> QED
    BY <2>1, <2>2 DEF HistoryRestores
<1> QED
  BY <1>1, <1>2, <1>3

\* Every step of a call keeps what it restores to, and what the calls before do.
LEMMA RestoreStep == RestoreInv /\ [Next]_vars => CallRestores' /\ HistoryRestores'
<1> SUFFICES ASSUME RestoreInv, [Next]_vars PROVE CallRestores' /\ HistoryRestores'
  OBVIOUS
<1>0. /\ TypeInv /\ UniqueInv /\ CallRestores /\ HistoryRestores /\ TypeOK
      /\ mode \in {"disk", "proxy"} /\ TypeInv'
  BY TypeStep DEF RestoreInv, TypeInv, TypeOK, UniqueInv
<1>1. ASSUME NEW texts \in Contents, BeginOnDisk(texts) PROVE CallRestores' /\ HistoryRestores'
  <2>1. /\ Start(texts) /\ reserved' = Reserve(texts) /\ mode = "disk"
        /\ UNCHANGED <<mode, map, history>>
    BY <1>1 DEF BeginOnDisk, Manage
  <2>2. CallRestores' /\ ~Idle'
    BY <1>0, <2>1, BeginRestores, StartType
  <2> QED
    BY <1>0, <2>1, <2>2, HistoryKept
<1>2. ASSUME NEW texts \in Contents, BeginInProxy(texts) PROVE CallRestores' /\ HistoryRestores'
  <2>1. /\ Start(texts) /\ map' = WithLiterals(map, Reserve(texts)) /\ mode = "proxy"
        /\ UNCHANGED <<mode, history>>
    BY <1>2 DEF BeginInProxy
  <2>2. \A t \in DOMAIN map : t \in DOMAIN map' /\ map'[t] = map[t]
    BY <2>1 DEF WithLiterals
  <2> QED
    BY <1>0, <2>1, <2>2, HistoryKept, BeginRestores
<1>3. CASE Keep
  <2>1. ~Idle /\ pos > 0 /\ Atom \notin Values /\ pos' = pos - 1
        /\ UNCHANGED <<mode, map, reserved, messages, intended, scrubbed, current, history>>
    BY <1>3 DEF Keep, call
  <2>2. current \in Nat /\ pos \in Nat
    BY <1>0, <2>1, CallShape DEF TypeInv, TypeOK, Texts
  <2>3. ASSUME NEW i \in 1..Len(messages), NEW j \in 1..Len(messages[i])
        PROVE  IF Done(i, j)' THEN scrubbed[i][j] \notin Values
                             ELSE scrubbed[i][j] = messages[i][j]
    <3>1. CASE i = current /\ j = pos
      <4>1. ~Done(i, j)
        BY <2>2, <3>1 DEF Done
      <4>2. scrubbed[i][j] = Atom /\ messages[i][j] = Atom
        BY <1>0, <3>1, <4>1 DEF CallRestores, Atom
      <4> QED
        BY <2>1, <4>2
    <3>2. CASE ~(i = current /\ j = pos)
      <4>1. Len(messages[i]) \in Nat
        BY <1>0, CallShape DEF Texts
      <4>2. Done(i, j)' <=> Done(i, j)
        BY <2>1, <2>2, <3>2, <4>1 DEF Done
      <4> QED
        BY <1>0, <4>2 DEF CallRestores
    <3> QED
      BY <3>1, <3>2
  <2>4. CallRestores'
    BY <1>0, <2>1, <2>3 DEF CallRestores, Claimed
  <2> QED
    BY <1>0, <2>1, <2>4, HistoryKept DEF Idle
<1>4. CASE Reuse
  <2>1. ~Idle /\ pos > 0 /\ Atom \in Values /\ pos' = pos - 1
        /\ UNCHANGED <<mode, map, reserved, call, current, history>>
    BY <1>4 DEF Reuse
  <2>2. PICK t \in ExistingPlaceholder(Atom) : ReplaceBy(t)
    BY <1>4 DEF Reuse
  <2>3. t \in DOMAIN map /\ map[t] = Atom /\ t \in Placeholder /\ Restored(t, map) = Atom
    BY <1>0, <2>2 DEF ExistingPlaceholder, TypeOK, Restored
  <2>4. CallRestores'
    BY <1>0, <2>1, <2>2, <2>3, PlaceDone
  <2> QED
    BY <1>0, <2>1, <2>4, HistoryKept DEF Idle, call
<1>5. CASE StartCount \/ TryNext
  <2>1. UNCHANGED <<mode, map, reserved, messages, intended, scrubbed, current, pos, history>>
    BY <1>5 DEF StartCount, TryNext, call
  <2>2. CallRestores'
    BY <1>0, <2>1 DEF CallRestores, Claimed, Done
  <2>3. ~Idle
    BY <1>0, <1>5 DEF StartCount, TryNext, UniqueInv, SearchIsForNewValue
  <2> QED
    BY <1>0, <2>1, <2>2, <2>3, HistoryKept DEF Idle
<1>6. CASE Mint
  <2>1. /\ ~Idle /\ pos > 0 /\ Atom \in Values /\ pos' = pos - 1 /\ ~Taken(Name)
        /\ ReplaceBy(Name) /\ UNCHANGED <<mode, reserved, call, current, history>>
    BY <1>0, <1>6 DEF Mint, UniqueInv, SearchIsForNewValue
  <2>2. /\ DOMAIN map' = DOMAIN map \union {Name} /\ map'[Name] = Atom
        /\ \A t \in DOMAIN map : map'[t] = map[t]
    BY <1>6, <2>1 DEF Mint, Taken
  <2>3. Name \in Placeholder
    BY <1>0, <2>2 DEF TypeInv, TypeOK
  <2>4. ASSUME NEW a, a \in Values \/ Claimed(a) PROVE Restored(a, map') = Restored(a, map)
    <3>1. a # Name
      BY <2>1, <2>3, <2>4, PlaceholderAssumption DEF Claimed, Taken
    <3> QED
      BY <2>2, <3>1 DEF Restored
  <2>5. \A i \in 1..Len(messages) : \A j \in 1..Len(messages[i]) :
          /\ Restored(messages[i][j], map') = Restored(messages[i][j], map)
          /\ Restored(scrubbed[i][j], map') = Restored(scrubbed[i][j], map)
    BY <1>0, <2>4 DEF CallRestores
  <2>6. CallRestores'
    BY <1>0, <2>1, <2>2, <2>3, <2>5, PlaceDone DEF Restored
  <2> QED
    BY <1>0, <2>1, <2>2, <2>6, HistoryKept DEF Idle, call
<1>7. CASE NextMessage
  <2>1. /\ ~Idle /\ pos = 0 /\ current' = current + 1 /\ pos' = Len(messages[current + 1])
        /\ current + 1 \in 1..Len(messages)
        /\ UNCHANGED <<mode, map, messages, intended, scrubbed, history>>
        /\ mode = "proxy" \/ UNCHANGED reserved
    BY <1>0, <1>7 DEF NextMessage, call, TypeInv, TypeOK
  <2>2. ASSUME NEW i \in 1..Len(messages), NEW j \in 1..Len(messages[i])
        PROVE  Done(i, j)' <=> Done(i, j)
    <3>1. Len(messages[i]) \in Nat /\ Len(messages[current + 1]) \in Nat
      BY <1>0, <2>1, CallShape DEF Texts
    <3> QED
      BY <1>0, <2>1, <3>1 DEF Done, TypeInv, TypeOK
  <2>3. \A a : Claimed(a)' <=> Claimed(a)
    BY <2>1 DEF Claimed
  <2>4. CallRestores'
    BY <1>0, <2>1, <2>2, <2>3 DEF CallRestores
  <2> QED
    BY <1>0, <2>1, <2>4, HistoryKept DEF Idle
<1>8. CASE Return
  <2> DEFINE entry == [sent |-> scrubbed, intended |-> intended]
  <2>1. /\ ~Idle /\ pos = 0 /\ current = Len(messages) /\ messages' = <<>>
        /\ history' = Append(history, entry) /\ UNCHANGED <<mode, map>>
    BY <1>8 DEF Return
  <2>2. CallRestores'
    BY <2>1 DEF CallRestores
  <2>3. \A i \in 1..Len(entry.sent) : \A j \in 1..Len(entry.sent[i]) :
          /\ Restored(entry.sent[i][j], map) = entry.intended[i][j]
          /\ entry.sent[i][j] \notin Values
          /\ mode = "proxy" => entry.sent[i][j] \in DOMAIN map
    <3> SUFFICES ASSUME NEW i \in 1..Len(scrubbed), NEW j \in 1..Len(scrubbed[i])
                 PROVE  /\ Restored(scrubbed[i][j], map) = intended[i][j]
                        /\ scrubbed[i][j] \notin Values
                        /\ mode = "proxy" => scrubbed[i][j] \in DOMAIN map
      OBVIOUS
    <3>1. i \in 1..Len(messages) /\ j \in 1..Len(messages[i]) /\ i \in Nat /\ j \in Nat /\ j > 0
      BY <1>0, CallShape DEF Texts
    <3>2. Done(i, j)
      BY <2>1, <3>1 DEF Done
    <3> QED
      BY <1>0, <3>1, <3>2 DEF CallRestores, Claimed
  <2> HIDE DEF entry
  <2>4. /\ Len(history') = Len(history) + 1 /\ Len(history) \in Nat
        /\ DOMAIN history' = 1..(Len(history) + 1) /\ DOMAIN history = 1..Len(history)
        /\ \A n \in DOMAIN history : history'[n] = history[n]
        /\ history'[Len(history) + 1] = entry
    BY <1>0, <2>1 DEF TypeInv
  <2>5. \A n \in Restorable' : n = Len(history) + 1 \/ (n \in DOMAIN history /\ mode = "proxy")
    BY <1>0, <2>1, <2>4 DEF Restorable
  <2>6. HistoryRestores'
    <3>1. Kept(entry)
      BY <2>3 DEF Kept
    <3>2. ASSUME NEW n \in DOMAIN history, mode = "proxy" PROVE Kept(history[n])
      BY <1>0, <3>2 DEF HistoryRestores, Restorable
    <3>3. PICK past : past = history'
      OBVIOUS
    <3>4. \A n \in Restorable' : Kept(past[n])
      BY <2>4, <2>5, <3>1, <3>2, <3>3
    <3>5. \A n : Kept(past[n])' <=> Kept(past[n])
      BY <2>1 DEF Kept, Restored
    <3> QED
      BY <3>3, <3>4, <3>5 DEF HistoryRestores
  <2> QED
    BY <2>2, <2>6
<1>9. CASE UNCHANGED vars
  BY <1>0, <1>9 DEF vars, call, CallRestores, Claimed, Done, HistoryRestores, Kept, Restorable, Idle
<1> QED
  BY <1>1, <1>2, <1>3, <1>4, <1>5, <1>6, <1>7, <1>8, <1>9 DEF Next

\* Place by place is text by text.
LEMMA RestoresEach ==
    ASSUME TypeInv, HistoryRestores
    PROVE  RoundTrip
<1> SUFFICES ASSUME NEW n \in Restorable, NEW i \in DOMAIN history[n].sent
             PROVE  /\ ToSet(history[n].sent[i]) \intersect Values = {}
                    /\ Rehydrate(history[n].sent[i], map) = history[n].intended[i]
  BY DEF RoundTrip
<1> DEFINE sent == history[n].sent[i]
           want == history[n].intended[i]
<1>1. n \in DOMAIN history
  BY DEF Restorable, TypeInv
<1>2. /\ i \in 1..Len(history[n].sent) /\ sent \in Texts /\ want \in Texts
      /\ Len(want) = Len(sent)
  <2>1. /\ history[n].sent \in Seq(Texts) /\ history[n].intended \in Seq(Texts)
        /\ Len(history[n].intended) = Len(history[n].sent)
        /\ \A k \in 1..Len(history[n].sent) :
              Len(history[n].intended[k]) = Len(history[n].sent[k])
    BY <1>1 DEF TypeInv, HistoryTyped
  <2> HIDE DEF Texts
  <2>2. i \in 1..Len(history[n].sent) /\ i \in 1..Len(history[n].intended)
    BY <2>1
  <2> QED
    BY <2>1, <2>2
<1>3. Kept(history[n])
  BY DEF HistoryRestores
<1>4. \A j \in 1..Len(sent) : Restored(sent[j], map) = want[j] /\ sent[j] \notin Values
  BY <1>2, <1>3 DEF Kept
<1> HIDE DEF sent, want
<1>5. ToSet(sent) \intersect Values = {}
  BY <1>2, <1>4 DEF ToSet, Texts
<1>6. Rehydrate(sent, map) = want
  BY <1>2, <1>4 DEF Rehydrate, Restored, Texts
<1> QED
  BY <1>5, <1>6 DEF sent, want

\* No value is ever sent, and what is sent restores to what was meant: on disk as
\* long as no other call has begun, in the proxy whatever comes after it.
THEOREM RoundTripHolds == Spec => []RoundTrip
<1>1. Init => RestoreInv
  <2> SUFFICES ASSUME Init PROVE CallRestores /\ HistoryRestores
    BY TypeInit, UniqueInit DEF RestoreInv
  <2> QED
    BY DEF Init, CallRestores, HistoryRestores, Restorable
<1>2. RestoreInv /\ [Next]_vars => RestoreInv'
  BY TypeStep, UniqueStep, RestoreStep DEF RestoreInv, UniqueInv
<1>3. RestoreInv => RoundTrip
  BY RestoresEach DEF RestoreInv
<1> QED
  BY <1>1, <1>2, <1>3, PTL DEF Spec

=============================================================================

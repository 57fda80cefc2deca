-------------------------- MODULE CollisionResolver --------------------------
(***************************************************************************)
(* Resolution of overlapping findings (src/core/collision-resolver.ts):    *)
(* findings leave a queue in start order and are accepted, or fight the    *)
(* leftmost accepted finding they overlap; the loser is narrowed to what   *)
(* the winner leaves of it, and put back.                                  *)
(*                                                                         *)
(* A text is a range of positions, some of them blank; a finding is a      *)
(* span, a category, the length of its value, which is another than its    *)
(* span's when the detector normalised it, and whether a detector with     *)
(* locales made it.  Confidence, which decides nothing here, is left out.  *)
(***************************************************************************)
EXTENDS Integers, Sequences, SequencesExt, FiniteSetsExt

CONSTANTS
    Length,        \* of the text
    Blanks,        \* its whitespace positions
    Categories,
    Priority,      \* DETECTOR_PRIORITY, 99 for a category it does not name
    Inputs,        \* the findings detectors may make of the text
    MaxFindings    \* bound: how many they make

Findings ==
    {f \in [category : Categories, from : 0..(Length - 1), to : 1..Length,
            length : 1..Length, localeScoped : BOOLEAN] : f.from < f.to}

ASSUME CollisionAssumption ==
    /\ Length \in Nat /\ MaxFindings \in Nat
    /\ Blanks \subseteq 0..(Length - 1)
    /\ Priority \in [Categories -> Nat]
    /\ Inputs \subseteq Findings

VARIABLES
    queue,       \* FindingQueue
    accepted,
    found        \* the findings it all began with

vars == <<queue, accepted, found>>

----------------------------------------------------------------------------
(* Findings *)

Positions(f) == {p \in f.from..(f.to - 1) : p \notin Blanks}
Overlap(f, g) == f.from < g.to /\ g.from < f.to

\* Whether a value is the text of its span, and not one the detector normalised.
Sliceable(f) == f.length = f.to - f.from

Covers(outer, inner) == outer.from <= inner.from /\ outer.to >= inner.to

\* Mutant: the longer value wins, whatever its category.
LongerWins(candidate, existing) == candidate.length > existing.length

\* candidateWins: by priority; in one category the locale-scoped finding, if it
\* covers the other; else the longer.
CandidateWins(candidate, existing) ==
    LET c == Priority[candidate.category]
        e == Priority[existing.category]
        preferred == IF candidate.localeScoped THEN candidate ELSE existing
        other == IF candidate.localeScoped THEN existing ELSE candidate
    IN  CASE c # e -> c < e
          [] c = e /\ candidate.category = existing.category
                   /\ candidate.localeScoped # existing.localeScoped
             -> (preferred = candidate) <=> Covers(preferred, other)
          [] OTHER -> candidate.length > existing.length

\* The part of a finding's value that slice(i, j) gives, trimmed.  A negative j
\* counts from the end.
Part(f, i, j) ==
    LET last == IF j < 0 THEN f.length + j ELSE j
    IN  Positions([f EXCEPT !.from = f.from + i,
                            !.to = f.from + (IF last < f.length THEN last ELSE f.length)])

\* Mutant: the end is off by one.
AsFindingShort(f, text) ==
    IF text = {} THEN <<>>
    ELSE <<[f EXCEPT !.from = Min(text), !.to = Max(text),
                     !.length = Max(text) - Min(text)]>>

\* A part as a finding: none where it has no text.
AsFinding(f, text) ==
    IF text = {} THEN <<>>
    ELSE <<[f EXCEPT !.from = Min(text), !.to = Max(text) + 1,
                     !.length = Max(text) + 1 - Min(text)]>>

\* Mutant: only what precedes the winner is kept.
SubtractLeft(loser, winner) ==
    IF loser.category = winner.category \/ ~Sliceable(loser)
    THEN <<>>
    ELSE AsFinding(loser, Part(loser, 0, winner.from - loser.from))

\* Mutant: the remainder runs on to the end of the text.
SubtractOpen(loser, winner) ==
    IF loser.category = winner.category \/ ~Sliceable(loser)
    THEN <<>>
    ELSE AsFinding(loser, {p \in winner.to..(Length - 1) : p \notin Blanks})

\* subtract: what the winner leaves of the loser, on its left and on its right.
Subtract(loser, winner) ==
    IF loser.category = winner.category \/ ~Sliceable(loser)
    THEN <<>>
    ELSE LET end == IF loser.to < winner.from THEN loser.to ELSE winner.from
             start == IF loser.from > winner.to THEN loser.from ELSE winner.to
         IN  AsFinding(loser, Part(loser, 0, end - loser.from))
               \o AsFinding(loser, Part(loser, start - loser.from, loser.to - loser.from))

----------------------------------------------------------------------------
(* The queue and the accepted findings, both sorted by start *)

\* Mutant: a finding is put last.
InsertLast(s, f) == Append(s, f)

\* insertSorted, and FindingQueue.push: after all that start at or before f.
InsertSorted(s, f) ==
    LET after == {i \in 1..Len(s) : s[i].from > f.from}
    IN  InsertAt(s, IF after = {} THEN Len(s) + 1 ELSE Min(after), f)

\* Mutant: only the first part is put back.
PushFirst(q, parts) == IF parts = <<>> THEN q ELSE InsertSorted(q, Head(parts))

\* What is left of a loser is two parts at most.
PushAll(q, parts) ==
    CASE Len(parts) = 0 -> q
      [] Len(parts) = 1 -> InsertSorted(q, parts[1])
      [] Len(parts) = 2 -> InsertSorted(InsertSorted(q, parts[1]), parts[2])

\* firstOverlap: of the accepted findings, the first to end after f starts, if it
\* also starts before f ends.
FirstOverlap(f) ==
    LET later == {i \in 1..Len(accepted) : accepted[i].to > f.from}
    IN  {i \in later : i = Min(later) /\ accepted[i].from < f.to}

----------------------------------------------------------------------------
(* resolveCollisions *)

SortedByStart(s) == \A i \in 1..(Len(s) - 1) : s[i].from <= s[i + 1].from

Init ==
    /\ queue \in {s \in BoundedSeq(Inputs, MaxFindings) : SortedByStart(s)}
    /\ accepted = <<>>
    /\ found = ToSet(queue)

\* The next candidate overlaps nothing accepted.
Accept ==
    /\ queue # <<>>
    /\ FirstOverlap(Head(queue)) = {}
    /\ accepted' = InsertSorted(accepted, Head(queue))
    /\ queue' = Tail(queue)
    /\ UNCHANGED found

\* Mutant: the displaced finding is not narrowed but tried again.
DisplaceWhole ==
    /\ queue # <<>>
    /\ \E i \in FirstOverlap(Head(queue)) :
         /\ CandidateWins(Head(queue), accepted[i])
         /\ accepted' = RemoveAt(accepted, i)
         /\ queue' = PushAll(Tail(queue), <<accepted[i], Head(queue)>>)
    /\ UNCHANGED found

\* It beats the accepted finding it meets: it is tried again, with the remains.
Displace ==
    /\ queue # <<>>
    /\ \E i \in FirstOverlap(Head(queue)) :
         /\ CandidateWins(Head(queue), accepted[i])
         /\ accepted' = RemoveAt(accepted, i)
         /\ queue' = PushAll(InsertSorted(Tail(queue), Head(queue)),
                             Subtract(accepted[i], Head(queue)))
    /\ UNCHANGED found

\* It loses: what is left of it is tried again.
Lose ==
    /\ queue # <<>>
    /\ \E i \in FirstOverlap(Head(queue)) :
         /\ ~CandidateWins(Head(queue), accepted[i])
         /\ queue' = PushAll(Tail(queue), Subtract(Head(queue), accepted[i]))
    /\ UNCHANGED <<accepted, found>>

Next == Accept \/ Displace \/ Lose

\* The loop runs to its end.
Spec == Init /\ [][Next]_vars /\ WF_vars(Next)

Resolved == queue = <<>>

----------------------------------------------------------------------------
(* Properties *)

Pieces == ToSet(queue \o accepted)

\* What firstOverlap's binary search and the rebuilding of the text rely on: at
\* every step the accepted findings are in order and apart, the queue is in
\* order, and narrowing never leaves the text, or a finding without characters.
SortedAndApart ==
    /\ Pieces \subseteq Findings
    /\ \A i, j \in 1..Len(accepted) : i < j => accepted[i].to <= accepted[j].from
    /\ SortedByStart(queue)

\* "The loser is kept, narrowed to the part of its span the winner does not cover":
\* no turn of the loop takes a character from a finding and leaves it to none, or to
\* a weaker one, but where the finding meets another reading of its entity, or its
\* value is not the text of its span.
NeverWeakened ==
    [][found' = found =>
         \A f \in Pieces : \A p \in Positions(f) :
           \/ \E g \in Pieces' : p \in Positions(g) /\ Priority[g.category] <= Priority[f.category]
           \/ \E g \in Pieces \ {f} :
                Overlap(f, g) /\ (f.category = g.category \/ ~Sliceable(f))]_vars

\* A loser's text may be dropped where it meets a rival, another reading of its
\* entity, or where its value is not its span's text and cannot be sliced.  The text
\* of a finding that lost to such a one goes with it.  And where two categories tie,
\* the longer remainder wins, and two parts of one finding may meet as rivals.
Rivals(f) == {g \in found \ {f} : g.category = f.category /\ Overlap(f, g)}
Droppable(f) == Rivals(f) # {} \/ ~Sliceable(f)
Tied(f) ==
    \E g \in found : Overlap(f, g) /\ f.category # g.category
                     /\ Priority[f.category] = Priority[g.category]
Solid(f) == \A g \in found : Overlap(f, g) => ~Droppable(g) /\ ~Tied(g)

RedactedAs(p) == {Priority[f.category] : f \in {f \in ToSet(accepted) : p \in Positions(f)}}
FoundAs(p) == {Priority[f.category] : f \in {f \in found : p \in Positions(f)}}

\* An over-broad finding is narrowed and never leaked: a character that only such
\* findings cover as meet none that may be dropped or ties with another is redacted
\* in the end, as the strongest of the categories it was found as.
NarrowedNotDropped ==
    Resolved =>
      \A p \in 0..(Length - 1) :
        FoundAs(p) # {} /\ (\A f \in found : p \in Positions(f) => Solid(f))
          => \E n \in RedactedAs(p) : \A m \in FoundAs(p) : n <= m

\* Narrowing invents nothing: a character is redacted as a category only if a
\* finding of that category covered it.
OnlyFoundTextRedacted ==
    Resolved =>
      \A i \in 1..Len(accepted) : \A p \in Positions(accepted[i]) :
        \E f \in found : f.category = accepted[i].category /\ p \in Positions(f)

\* What the findings of a sequence, given the worth of each length, are worth together.
Summed(s, worth) ==
    LET sum[n \in 0..Len(s)] ==
          IF n = 0 THEN 0 ELSE sum[n - 1] + worth[s[n].to - s[n].from]
    IN  sum[Len(s)]

\* A length is worth more than two shorter ones together.
Weight[n \in 0..Length] == IF n = 0 THEN 1 ELSE 3 * Weight[n - 1]
Load(s) == Summed(s, Weight)

\* The loop comes closer to its end with every turn.  What is left of a loser is
\* shorter, but may overlap and be longer together, so it is not the total length that
\* falls: the load of both sequences does, or it stays and the queue gets shorter.
Closer ==
    [][queue # <<>> =>
         \/ Load(queue') + Load(accepted') < Load(queue) + Load(accepted)
         \/ /\ Load(queue') + Load(accepted') = Load(queue) + Load(accepted)
            /\ Len(queue') < Len(queue)]_vars

\* The precedence of locale findings never shrinks what is redacted: text found
\* without them, by a finding that had no other rival, is redacted in the end.
LocaleNeverShrinks ==
    Resolved =>
      \A f \in found :
        ~f.localeScoped /\ (\A g \in Rivals(f) : g.localeScoped)
          => \A p \in Positions(f) : RedactedAs(p) # {}

=============================================================================

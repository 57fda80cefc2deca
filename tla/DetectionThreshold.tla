-------------------------- MODULE DetectionThreshold --------------------------
(***************************************************************************)
(* runDetectors (src/core/scrub.ts): the findings below `minConfidence` are *)
(* set aside, the passing ones are resolved and redacted, and then those   *)
(* set aside are resolved too, so that what the threshold leaves in the     *)
(* clear can be reported.  Both passes are runs of CollisionResolver.      *)
(*                                                                         *)
(* Of a confidence only the side of the threshold matters; no finding      *)
(* below it stands for a threshold of 0 as well.                           *)
(***************************************************************************)
EXTENDS CollisionResolver

CONSTANT MaxBelow    \* bound: findings below the threshold

ASSUME ThresholdAssumption == MaxBelow \in Nat

VARIABLES
    below,       \* the findings set aside
    kept,        \* DetectionResult.findings
    suppressed,  \* DetectionResult.suppressed, as a set
    pass         \* which findings are being resolved

thresholdVars == <<below, kept, suppressed, pass>>

\* The bound on the findings below, when n pass.
BelowBound(n) == IF MaxBelow < MaxFindings - n THEN MaxBelow ELSE MaxFindings - n

DetectInit ==
    /\ Init
    /\ below \in {s \in BoundedSeq(Inputs, BelowBound(Len(queue))) : SortedByStart(s)}
    /\ kept = <<>> /\ suppressed = {}
    /\ pass = "passing"

Resolve == Next /\ UNCHANGED thresholdVars

\* The passing findings are resolved; the others come next.
KeepPassing ==
    /\ pass = "passing" /\ Resolved
    /\ kept' = accepted
    /\ queue' = below
    /\ found' = ToSet(below)
    /\ accepted' = <<>>
    /\ pass' = "below"
    /\ UNCHANGED <<below, suppressed>>

\* Mutant: a finding that a kept one overlaps counts as covered.
IsTouched(f) == \E g \in ToSet(kept) : Overlap(f, g)

\* isCovered: the kept findings, in order, reach from its start to its end; cursor[n]
\* is how far the first n of them do.
IsCovered(f) ==
    LET cursor[n \in 0..Len(kept)] ==
          IF n = 0 THEN f.from
          ELSE IF kept[n].from <= cursor[n - 1] /\ cursor[n - 1] < kept[n].to
               THEN kept[n].to ELSE cursor[n - 1]
    IN  cursor[Len(kept)] >= f.to

ReportSuppressed ==
    /\ pass = "below" /\ Resolved
    /\ suppressed' = {f \in ToSet(accepted) : ~IsCovered(f)}
    /\ pass' = "done"
    /\ UNCHANGED <<queue, accepted, found, below, kept>>

DetectNext == Resolve \/ KeepPassing \/ ReportSuppressed

\* The call runs to its end.
DetectSpec ==
    DetectInit /\ [][DetectNext]_<<vars, thresholdVars>> /\ WF_<<vars, thresholdVars>>(DetectNext)

----------------------------------------------------------------------------
(* Properties *)

Spanned(s) == UNION {f.from..(f.to - 1) : f \in ToSet(s)}

\* "So callers can tell the user what a threshold cost them": of what was found
\* below it, by findings that meet none that may be dropped, every character left
\* in the clear is reported; and none "whose span another finding redacts anyway".
SuppressedIsWhatIsLeft ==
    pass = "done" =>
      /\ \A p \in (0..(Length - 1)) \ Spanned(kept) :
           FoundAs(p) # {} /\ (\A f \in found : p \in Positions(f) => Solid(f))
             => \E s \in suppressed : p \in Positions(s)
      /\ \A s \in suppressed : ~(s.from..(s.to - 1) \subseteq Spanned(kept))

\* The call ends with both passes done.
Detected == <>(pass = "done")

=============================================================================

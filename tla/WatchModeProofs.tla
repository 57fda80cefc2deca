--------------------------- MODULE WatchModeProofs ---------------------------
(***************************************************************************)
(* For any versions and any number of overlapping ticks: types, and that,  *)
(* as long as no edit falls between the copy and the write, a tick backs   *)
(* up whatever it overwrites.                                              *)
(***************************************************************************)
EXTENDS WatchMode, TLAPS

\* Every step keeps the types of the watch's state.
LEMMA TypeStep == TypeOK /\ [Next]_vars => TypeOK'
<1> SUFFICES ASSUME TypeOK, [Next]_vars PROVE TypeOK'
  OBVIOUS
<1> USE WatchAssumption DEF TypeOK, Contents, Raw, Finish, ticks
<1>1. ASSUME NEW v \in Versions, Edit(v) PROVE TypeOK'
  BY <1>1 DEF Edit
<1>2. ASSUME NEW t \in Ticks, Tick(t) PROVE TypeOK'
  BY <1>2 DEF Tick
<1>3. ASSUME NEW t \in Ticks, ScrubThrows(t) PROVE TypeOK'
  BY <1>3 DEF ScrubThrows
<1>4. ASSUME NEW t \in Ticks, FoundClean(t) PROVE TypeOK'
  BY <1>4 DEF FoundClean, Clean, Scrubbed
<1>5. ASSUME NEW t \in Ticks, CopyBackup(t) PROVE TypeOK'
  BY <1>5 DEF CopyBackup
<1>6. ASSUME NEW t \in Ticks, Write(t) PROVE TypeOK'
  BY <1>6 DEF Write, Scrubbed
<1>7. CASE UNCHANGED vars
  BY <1>7 DEF vars, ticks
<1> QED
  BY <1>1, <1>2, <1>3, <1>4, <1>5, <1>6, <1>7 DEF Next

\* The watch's state keeps its types.
THEOREM TypeCorrect == Spec => []TypeOK
<1>1. Init => TypeOK
  BY WatchAssumption DEF Init, TypeOK, Contents, Raw
<1> QED
  BY <1>1, TypeStep, PTL DEF Spec

----------------------------------------------------------------------------
\* Between the copy and the write the .bak is the file, and nobody else writes.
BackedUp ==
    \A t \in Ticks : pc[t] = "writing" =>
        /\ Backup => backup = file
        /\ \A u \in Ticks : pc[u] = "writing" => u = t

\* Every step keeps the file and its copy together until the write.
LEMMA BackedUpStep == QuietWrites /\ TypeOK /\ BackedUp /\ [Next]_vars => BackedUp'
<1> SUFFICES ASSUME QuietWrites, TypeOK, BackedUp, [Next]_vars PROVE BackedUp'
  OBVIOUS
<1> USE DEF TypeOK, BackedUp, Finish, LoopFree, ticks
<1>1. ASSUME NEW v \in Versions, Edit(v) PROVE BackedUp'
  BY <1>1 DEF Edit
<1>2. ASSUME NEW t \in Ticks, Tick(t) PROVE BackedUp'
  BY <1>2 DEF Tick
<1>3. ASSUME NEW t \in Ticks, ScrubThrows(t) PROVE BackedUp'
  BY <1>3 DEF ScrubThrows
<1>4. ASSUME NEW t \in Ticks, FoundClean(t) PROVE BackedUp'
  BY <1>4 DEF FoundClean
<1>5. ASSUME NEW t \in Ticks, CopyBackup(t) PROVE BackedUp'
  BY <1>5 DEF CopyBackup
<1>6. ASSUME NEW t \in Ticks, Write(t) PROVE BackedUp'
  BY <1>6 DEF Write
<1>7. CASE UNCHANGED vars
  BY <1>7 DEF vars, ticks
<1> QED
  BY <1>1, <1>2, <1>3, <1>4, <1>5, <1>6, <1>7 DEF Next

\* A tick overwrites nothing that the .bak does not hold: the write of any tick,
\* of however many that overlap, finds in the .bak what it is about to replace.
THEOREM BacksUp == ASSUME QuietWrites PROVE Spec => OverwrittenIsBackedUp
<1>1. Init => BackedUp
  BY DEF Init, BackedUp
<1>2. BackedUp /\ [Next]_vars => [Backup => \A t \in Ticks : Write(t) => backup = file]_vars
  BY DEF BackedUp, Write
<1>3. Spec => []TypeOK
  BY TypeCorrect
<1>4. Spec => []BackedUp
  BY <1>1, <1>3, BackedUpStep, PTL DEF Spec
<1> QED
  BY <1>2, <1>4, PTL DEF Spec, OverwrittenIsBackedUp

=============================================================================

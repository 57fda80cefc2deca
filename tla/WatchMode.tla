------------------------------ MODULE WatchMode ------------------------------
(***************************************************************************)
(* Watch mode (src/cli/commands/watch.ts) on one file: a timer starts a    *)
(* tick at every interval, whether or not the one before is done; a tick   *)
(* reads the file, scrubs what it read, and writes the result, while the   *)
(* user goes on editing.  The clipboard is watched in the same way,        *)
(* without a backup.                                                       *)
(*                                                                         *)
(* A content is a version the user wrote, as it was or scrubbed; scrubbing *)
(* a version without findings leaves it as it is.                          *)
(***************************************************************************)
EXTENDS Naturals, FiniteSets

CONSTANTS
    Versions,        \* what the user may write, each once
    Sensitive,       \* the versions with something to scrub
    Nothing,         \* the content of a file that is empty, or was never read
    Ticks,           \* bound: ticks under way at a time
    Backup,          \* --backup
    MaxFailures,     \* bound: scrubs that throw
    QuietWrites      \* assumption: no edit falls between the copy and the write

ASSUME WatchAssumption ==
    /\ Sensitive \subseteq Versions /\ Nothing \notin Versions
    /\ Backup \in BOOLEAN /\ QuietWrites \in BOOLEAN
    /\ MaxFailures \in Nat

Raw(v) == [version |-> v, scrubbed |-> FALSE]
Contents ==
    {c \in [version : Versions \union {Nothing}, scrubbed : BOOLEAN] :
        c.scrubbed => c.version \in Sensitive}

Scrubbed(c) == [c EXCEPT !.scrubbed = @ \/ c.version \in Sensitive]
Clean(c) == Scrubbed(c) = c

VARIABLES
    file, backup,    \* the contents of the file and of its .bak
    lastContent,     \* lastFileContents[f]
    pc,              \* where each tick is
    current,         \* what it read
    written,         \* the versions the user has written
    failures

ticks == <<pc, current>>
vars == <<file, backup, lastContent, ticks, written, failures>>

Init ==
    /\ file = Raw(Nothing) /\ backup = Raw(Nothing)
    /\ lastContent = Raw(Nothing)
    /\ pc = [t \in Ticks |-> "idle"]
    /\ current = [t \in Ticks |-> Raw(Nothing)]
    /\ written = {}
    /\ failures = 0

\* Between the copy and the write the event loop runs nothing else.
LoopFree == \A t \in Ticks : pc[t] # "writing"

Edit(v) ==
    /\ v \notin written
    /\ QuietWrites => LoopFree
    /\ file' = Raw(v)
    /\ written' = written \union {v}
    /\ UNCHANGED <<backup, lastContent, ticks, failures>>

\* Mutant: the content is noted when it is read.
TickNotesAtOnce(t) ==
    /\ pc[t] = "idle" /\ LoopFree
    /\ file # lastContent
    /\ pc' = [pc EXCEPT ![t] = "scrubbing"]
    /\ current' = [current EXCEPT ![t] = file]
    /\ lastContent' = file
    /\ UNCHANGED <<file, backup, written, failures>>

\* watchFileStep, up to the scrub: nothing to do unless the content is new.
Tick(t) ==
    /\ pc[t] = "idle" /\ LoopFree
    /\ file # lastContent
    /\ pc' = [pc EXCEPT ![t] = "scrubbing"]
    /\ current' = [current EXCEPT ![t] = file]
    /\ UNCHANGED <<file, backup, lastContent, written, failures>>

Finish(t) ==
    /\ pc' = [pc EXCEPT ![t] = "idle"]
    /\ current' = [current EXCEPT ![t] = Raw(Nothing)]

\* handleScrub throws; the rejection is swallowed.
ScrubThrows(t) ==
    /\ pc[t] = "scrubbing" /\ LoopFree
    /\ failures < MaxFailures
    /\ failures' = failures + 1
    /\ Finish(t)
    /\ UNCHANGED <<file, backup, lastContent, written>>

\* Mutant: a content without findings is not noted.
FoundCleanUnnoted(t) ==
    /\ pc[t] = "scrubbing" /\ LoopFree
    /\ Clean(current[t])
    /\ Finish(t)
    /\ UNCHANGED <<file, lastContent, backup, written, failures>>

\* Nothing to replace.
FoundClean(t) ==
    /\ pc[t] = "scrubbing" /\ LoopFree
    /\ Clean(current[t])
    /\ lastContent' = current[t]
    /\ Finish(t)
    /\ UNCHANGED <<file, backup, written, failures>>

\* Mutant: what is kept is the content that was scrubbed.
CopyCurrent(t) ==
    /\ pc[t] = "scrubbing" /\ LoopFree
    /\ ~Clean(current[t])
    /\ backup' = IF Backup THEN current[t] ELSE backup
    /\ pc' = [pc EXCEPT ![t] = "writing"]
    /\ UNCHANGED <<file, lastContent, current, written, failures>>

\* copyFileSync: the file as it is now, which need not be what was read.
CopyBackup(t) ==
    /\ pc[t] = "scrubbing" /\ LoopFree
    /\ ~Clean(current[t])
    /\ backup' = IF Backup THEN file ELSE backup
    /\ pc' = [pc EXCEPT ![t] = "writing"]
    /\ UNCHANGED <<file, lastContent, current, written, failures>>

\* writeFileSync, over whatever is there.
Write(t) ==
    /\ pc[t] = "writing"
    /\ file' = Scrubbed(current[t])
    /\ lastContent' = Scrubbed(current[t])
    /\ Finish(t)
    /\ UNCHANGED <<backup, written, failures>>

Next ==
    \/ \E v \in Versions : Edit(v)
    \/ \E t \in Ticks :
        Tick(t) \/ ScrubThrows(t) \/ FoundClean(t) \/ CopyBackup(t) \/ Write(t)

\* The timer keeps firing, and a tick that has begun comes to its end.
Fairness ==
    /\ WF_vars(\E t \in Ticks : Tick(t))
    /\ \A t \in Ticks : WF_vars(FoundClean(t) \/ CopyBackup(t) \/ Write(t))

Spec == Init /\ [][Next]_vars /\ Fairness

----------------------------------------------------------------------------
(* Properties *)

\* Types; only a version with something to scrub is ever scrubbed.
TypeOK ==
    /\ {file, backup, lastContent} \subseteq Contents
    /\ pc \in [Ticks -> {"idle", "scrubbing", "writing"}]
    /\ current \in [Ticks -> Contents]
    /\ written \subseteq Versions
    /\ failures \in 0..MaxFailures

\* With --backup, a tick overwrites nothing that the .bak does not hold, however
\* old the content it scrubbed: an edit made meanwhile is there.
OverwrittenIsBackedUp ==
    [][Backup => \A t \in Ticks : Write(t) => backup = file]_vars

\* Once the user has stopped, the file is free of sensitive versions for good,
\* although ticks overlap, write what is out of date, and fail; and the watch
\* comes to rest: what it wrote itself is not new to it.
SettlesClean == <>[](Clean(file) /\ file = lastContent)

=============================================================================

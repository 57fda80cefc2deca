---------------------------- MODULE SessionStore ----------------------------
(***************************************************************************)
(* One session on disk, shared by commands running in several processes:   *)
(* scrub, rehydrate, `sessions rm`, `sessions encrypt [--rekey]` and the   *)
(* garbage collector (src/session/storage.ts, session-manager.ts,          *)
(* core/scrub.ts, cli/commands).  A step is a file-system access or a      *)
(* private computation; the lock is one step, as SessionMutex (which       *)
(* SessionLock implements) allows.  rehydrate takes no lock.               *)
(*                                                                         *)
(* One placeholder category: the index i stands for the token «Email_i».   *)
(***************************************************************************)
EXTENDS Naturals, FiniteSets

CONSTANTS
    Procs,       \* commands that may run at the same time
    Values,      \* sensitive values
    Keys,        \* passphrases
    None,
    MaxIndex,    \* bound on the placeholder index
    Ops,         \* the commands in play
    Damage,      \* what may happen to the file, or to an attempt to read it
    Calm         \* assume no damage under the lock and no late quarantine

AllOps == {"scrub", "rehydrate", "rm", "gc", "encrypt", "rekey"}
\* "corrupt" and "malformed" are states of the file (see States); "readError" is
\* a read that fails although the file is sound (EMFILE, EBUSY, EACCES).
AllDamage == {"corrupt", "malformed", "readError"}

ASSUME StoreAssumption ==
    /\ None \notin Values \union Keys \union Procs
    /\ MaxIndex \in Nat
    /\ Ops \subseteq AllOps
    /\ Damage \subseteq AllDamage
    /\ Calm \in BOOLEAN

VARIABLES
    disk,      \* the session file
    encOn,     \* encryptionEnabled in the config file
    holder,    \* the process in withSessionLock, or None
    pc, op,    \* where each process is, and in which command
    key,       \* its passphrase: cached key or PROMPT_SCRUB_KEY
    base,      \* SessionManager.map, or the map `encrypt` carries over
    found,     \* the state of the file that map was read from
    minted,    \* the indices this call handed out
    seal,      \* shouldEncrypt, as writeSessionMap decided it
    owed,      \* token/value pairs in output not yet printed
    emitted    \* pairs printed since the session was last deleted

vars == <<disk, encOn, holder, pc, op, key, base, found, minted, seal, owed,
          emitted>>
locals == <<op, key, base, found, minted, seal>>

Index == 1..MaxIndex
Maps == [Index -> Values \union {None}]
EmptyMap == [i \in Index |-> None]
Used(m) == {i \in Index : m[i] # None}
Pairs(m) == {<<i, m[i]>> : i \in Used(m)}

\* "corrupt" does not parse; "malformed" parses, but is no longer the
\* envelope it was, as isEncryptedEnvelope sees it.
States == {"absent", "good", "corrupt", "malformed"}
Disks == [state : States, key : Keys \union {None}, map : Maps, expired : BOOLEAN]
NoFile == [state |-> "absent", key |-> None, map |-> EmptyMap, expired |-> FALSE]

IsSessionEncrypted == disk.state = "good" /\ disk.key # None

\* What a read may find: a failed one looks like a corrupt file.
ReadFails == disk.state # "absent" /\ "readError" \in Damage

Init ==
    /\ disk = NoFile
    /\ encOn \in (IF Keys = {} THEN {FALSE} ELSE BOOLEAN)
    /\ holder = None
    /\ pc = [p \in Procs |-> "idle"]
    /\ op = [p \in Procs |-> "scrub"]
    /\ key = [p \in Procs |-> None]
    /\ base = [p \in Procs |-> EmptyMap]
    /\ found = [p \in Procs |-> "absent"]
    /\ minted = [p \in Procs |-> {}]
    /\ seal = [p \in Procs |-> FALSE]
    /\ owed = [p \in Procs |-> {}]
    /\ emitted = {}

Goto(p, l) == pc' = [pc EXCEPT ![p] = l]

\* The command ends and its memory goes with it.
Finish(p) ==
    /\ Goto(p, "idle")
    /\ op' = [op EXCEPT ![p] = "scrub"]
    /\ key' = [key EXCEPT ![p] = None]
    /\ base' = [base EXCEPT ![p] = EmptyMap]
    /\ found' = [found EXCEPT ![p] = "absent"]
    /\ minted' = [minted EXCEPT ![p] = {}]
    /\ seal' = [seal EXCEPT ![p] = FALSE]
    /\ owed' = [owed EXCEPT ![p] = {}]

\* unlinkSync.  The session is gone on purpose: nothing printed so far has to
\* be restorable.  It throws when the file is gone already, which changes nothing.
Deleted ==
    IF disk.state = "absent" THEN UNCHANGED <<disk, owed, emitted>>
    ELSE /\ disk' = NoFile
         /\ emitted' = {}
         /\ owed' = [p \in Procs |-> {}]

----------------------------------------------------------------------------
(* Before the lock: choosing a command, resolving its key, taking the lock *)

NeedsKey(o) ==
    CASE o = "scrub" -> encOn \/ IsSessionEncrypted
      [] o = "rehydrate" -> IsSessionEncrypted
      [] o \in {"encrypt", "rekey"} -> TRUE
      [] o \in {"rm", "gc"} -> FALSE

Start(p, o, k) ==
    /\ pc[p] = "idle"
    /\ NeedsKey(o) => k # None
    /\ o \in {"encrypt", "rekey"} => encOn
    /\ o = "gc" => disk.state # "absent" /\ disk.expired
    /\ op' = [op EXCEPT ![p] = o]
    /\ key' = [key EXCEPT ![p] = k]
    /\ Goto(p, IF o = "rehydrate" THEN "read" ELSE "lock")
    /\ UNCHANGED <<disk, encOn, holder, base, found, minted, seal, owed, emitted>>

\* Mutant: the lock is taken while another process has it.
LockShared(p) ==
    /\ pc[p] = "lock"
    /\ holder' = p
    /\ Goto(p, CASE op[p] = "scrub" -> "read"
                 [] op[p] \in {"rm", "gc"} -> "recheck"
                 [] op[p] \in {"encrypt", "rekey"} -> "check")
    /\ UNCHANGED <<disk, encOn, locals, owed, emitted>>

Lock(p) ==
    /\ pc[p] = "lock" /\ holder = None
    /\ holder' = p
    /\ Goto(p, CASE op[p] = "scrub" -> "read"
                 [] op[p] \in {"rm", "gc"} -> "recheck"
                 [] op[p] \in {"encrypt", "rekey"} -> "check")
    /\ UNCHANGED <<disk, encOn, locals, owed, emitted>>

\* SessionLockTimeoutError; the garbage collector does not wait at all.
LockTimeout(p) ==
    /\ pc[p] = "lock" /\ holder # None
    /\ Finish(p)
    /\ UNCHANGED <<disk, encOn, holder, emitted>>

----------------------------------------------------------------------------
(* readSessionMap *)

\* What the caller does with the map it got.
AfterRead(p) ==
    CASE op[p] = "scrub" -> "mint"
      [] op[p] \in {"encrypt", "rekey"} -> "decide"
      [] op[p] = "rehydrate" -> "done"

Open(p, m) ==
    /\ base' = [base EXCEPT ![p] = m]
    /\ found' = [found EXCEPT ![p] = disk.state]
    /\ Goto(p, AfterRead(p))
    /\ UNCHANGED <<owed, minted>>

\* SessionDecryptionError: nothing has been minted, nothing is written.
Throw(p) ==
    /\ Goto(p, IF op[p] = "rehydrate" THEN "done" ELSE "unlock")
    /\ owed' = [owed EXCEPT ![p] = {}]
    /\ minted' = [minted EXCEPT ![p] = {}]
    /\ UNCHANGED <<base, found>>

\* existsSync: no file, no mappings.
Exists(p) ==
    /\ pc[p] = "read"
    /\ \/ disk.state = "absent" /\ Open(p, EmptyMap)
       \/ disk.state # "absent" /\ Goto(p, "open") /\ UNCHANGED <<base, found, owed, minted>>
    /\ UNCHANGED <<disk, encOn, holder, op, key, seal, emitted>>

\* A file that has gone since fails like one that does not parse.
Read(p) ==
    /\ pc[p] = "open"
    /\ \/ disk.state = "malformed" /\ Open(p, EmptyMap)
       \/ disk.state = "good" /\ disk.key \in {None, key[p]} /\ Open(p, disk.map)
       \/ disk.state = "good" /\ disk.key \notin {None, key[p]} /\ Throw(p)
       \/ /\ disk.state \in {"absent", "corrupt"} \/ ReadFails
          /\ Goto(p, "quarantine")
          /\ UNCHANGED <<base, found, owed, minted>>
    /\ UNCHANGED <<disk, encOn, holder, op, key, seal, emitted>>

\* quarantineCorruptFile renames whatever is at the path by now.
Quarantine(p) ==
    /\ pc[p] = "quarantine"
    /\ disk' = NoFile
    /\ Open(p, EmptyMap)
    /\ UNCHANGED <<encOn, holder, op, key, seal, emitted>>

----------------------------------------------------------------------------
(* scrubWithSession and writeSessionMap *)

\* Mutant: the counters start at zero, not from the map that was read.
MintFromZero(p, v) ==
    /\ pc[p] = "mint"
    /\ \E i \in Index :
         /\ base[p][i] = v \/ \A j \in minted[p] : i > j
         /\ minted' = [minted EXCEPT ![p] = @ \union {i}]
         /\ base' = [base EXCEPT ![p][i] = v]
         /\ owed' = [owed EXCEPT ![p] = @ \union {<<i, v>>}]
    /\ UNCHANGED <<disk, encOn, holder, pc, op, key, found, seal, emitted>>

\* createPlaceholder: the value's token, or an index above every index in the
\* map (by how much depends on the literals reserved in the text).
Mint(p, v) ==
    /\ pc[p] = "mint"
    /\ \E i \in Index :
         /\ \/ base[p][i] = v
            \/ /\ \A j \in Index : base[p][j] # v
               /\ \A j \in Used(base[p]) : i > j
         /\ minted' = [minted EXCEPT ![p] = IF base[p][i] = v THEN @ ELSE @ \union {i}]
         /\ base' = [base EXCEPT ![p][i] = v]
         /\ owed' = [owed EXCEPT ![p] = @ \union {<<i, v>>}]
    /\ UNCHANGED <<disk, encOn, holder, pc, op, key, found, seal, emitted>>

\* "Only write to disk if something was actually scrubbed": if the map has
\* any key, which the fields of a malformed envelope are, too.
EndOfText(p) ==
    /\ pc[p] = "mint"
    /\ Goto(p, IF Used(base[p]) # {} \/ found[p] = "malformed"
               THEN "decide" ELSE "unlock")
    /\ UNCHANGED <<disk, encOn, holder, locals, owed, emitted>>

\* Mutant: the option alone decides, not the file on disk.
DecideByOption(p) ==
    /\ pc[p] = "decide"
    /\ encOn => key[p] # None
    /\ seal' = [seal EXCEPT ![p] = encOn]
    /\ Goto(p, "write")
    /\ UNCHANGED <<disk, encOn, holder, op, key, base, found, owed, minted, emitted>>

\* Mutant: the key stands in for the decision.
DecideByKey(p) ==
    /\ pc[p] = "decide"
    /\ seal' = [seal EXCEPT ![p] = key[p]]
    /\ Goto(p, "write")
    /\ UNCHANGED <<disk, encOn, holder, op, key, base, found, owed, minted, emitted>>

\* shouldEncrypt; isSessionEncrypted says no when it cannot read the file.
\* Without a key, encryptWithKey throws.
Decide(p) ==
    /\ pc[p] = "decide"
    /\ \E encrypted \in {IsSessionEncrypted, IsSessionEncrypted /\ ~ReadFails} :
         LET enc == encOn \/ encrypted IN
         \/ /\ enc => key[p] # None
            /\ seal' = [seal EXCEPT ![p] = enc]
            /\ Goto(p, "write")
            /\ UNCHANGED <<base, found, owed, minted>>
         \/ enc /\ key[p] = None /\ Throw(p) /\ seal' = seal
    /\ UNCHANGED <<disk, encOn, holder, op, key, emitted>>

\* Mutant: only the mappings of this call are saved.
WriteOwnOnly(p) ==
    /\ pc[p] = "write"
    /\ disk' = [state |-> "good", key |-> IF seal[p] THEN key[p] ELSE None,
                map |-> [i \in Index |-> IF i \in minted[p] THEN base[p][i] ELSE None],
                expired |-> FALSE]
    /\ Goto(p, "unlock")
    /\ UNCHANGED <<encOn, holder, locals, owed, emitted>>

\* The rename that publishes the new file.
Write(p) ==
    /\ pc[p] = "write"
    /\ Calm => \A q \in Procs : pc[q] # "quarantine"
    /\ disk' = [state |-> "good", key |-> IF seal[p] THEN key[p] ELSE None,
                map |-> base[p], expired |-> FALSE]
    /\ Goto(p, "unlock")
    /\ UNCHANGED <<encOn, holder, locals, owed, emitted>>

Unlock(p) ==
    /\ pc[p] = "unlock"
    /\ holder' = None
    /\ Goto(p, "done")
    /\ UNCHANGED <<disk, encOn, locals, owed, emitted>>

\* The command prints its result and exits.
Done(p) ==
    /\ pc[p] = "done"
    /\ emitted' = emitted \union owed[p]
    /\ Finish(p)
    /\ UNCHANGED <<disk, encOn, holder>>

----------------------------------------------------------------------------
(* sessions rm, gcSessions, sessions encrypt *)

\* Mutant: the age seen before the lock was taken decides.
RecheckSkipped(p) ==
    /\ pc[p] = "recheck"
    /\ Goto(p, "unlink")
    /\ UNCHANGED <<disk, encOn, holder, locals, owed, emitted>>

\* Under the lock, rm looks whether there is a file and gcSessions at its age;
\* statSync of a file that has gone throws, which ends in the same way.
Recheck(p) ==
    /\ pc[p] = "recheck"
    /\ Goto(p, IF disk.state # "absent" /\ (op[p] = "gc" => disk.expired)
               THEN "unlink" ELSE "unlock")
    /\ UNCHANGED <<disk, encOn, holder, locals, owed, emitted>>

Unlink(p) ==
    /\ pc[p] = "unlink"
    /\ Deleted
    /\ Goto(p, "unlock")
    /\ UNCHANGED <<encOn, holder, locals>>

\* 'missing' and 'skipped', or go on to readSessionMap.
Check(p) ==
    /\ pc[p] = "check"
    /\ Goto(p, IF disk.state = "absent" \/ (IsSessionEncrypted /\ op[p] = "encrypt")
               THEN "unlock" ELSE "read")
    /\ UNCHANGED <<disk, encOn, holder, locals, owed, emitted>>

----------------------------------------------------------------------------
(* The environment *)

\* A killed process: its lock is taken over, its memory is lost.
Crash(p) ==
    /\ pc[p] # "idle"
    /\ holder' = IF holder = p THEN None ELSE holder
    /\ Finish(p)
    /\ UNCHANGED <<disk, encOn, emitted>>

ToggleEncryption ==
    /\ Keys # {}
    /\ encOn' = ~encOn
    /\ UNCHANGED <<disk, holder, pc, locals, owed, emitted>>

Expire ==
    /\ disk.state # "absent" /\ ~disk.expired
    /\ disk' = [disk EXCEPT !.expired = TRUE]
    /\ UNCHANGED <<encOn, holder, pc, locals, owed, emitted>>

\* A bad disk or a hand edit; what was printed is beyond repair.
DamageFile(d) ==
    /\ disk.state = "good"
    /\ d = "malformed" => disk.key # None
    /\ Calm => holder = None
    /\ disk' = [disk EXCEPT !.state = d, !.map = EmptyMap]
    /\ emitted' = {}
    /\ owed' = [p \in Procs |-> {}]
    /\ UNCHANGED <<encOn, holder, pc, locals>>

Next ==
    \/ \E p \in Procs :
         \/ \E o \in Ops, k \in Keys \union {None} : Start(p, o, k)
         \/ Lock(p) \/ LockTimeout(p) \/ Exists(p) \/ Read(p) \/ Quarantine(p)
         \/ \E v \in Values : Mint(p, v)
         \/ EndOfText(p) \/ Decide(p) \/ Write(p) \/ Unlock(p) \/ Done(p)
         \/ Recheck(p) \/ Unlink(p) \/ Check(p) \/ Crash(p)
    \/ ToggleEncryption \/ Expire
    \/ \E d \in Damage \ {"readError"} : DamageFile(d)

Spec == Init /\ [][Next]_vars

----------------------------------------------------------------------------
PCs == {"idle", "lock", "check", "read", "open", "quarantine", "mint", "decide",
        "write", "recheck", "unlink", "unlock", "done"}

TypeOK ==
    /\ disk \in Disks
    /\ encOn \in BOOLEAN
    /\ holder \in Procs \union {None}
    /\ pc \in [Procs -> PCs]
    /\ op \in [Procs -> AllOps]
    /\ key \in [Procs -> Keys \union {None}]
    /\ base \in [Procs -> Maps]
    /\ found \in [Procs -> States]
    /\ minted \in [Procs -> SUBSET Index]
    /\ seal \in [Procs -> BOOLEAN]
    /\ owed \in [Procs -> SUBSET (Index \X Values)]
    /\ emitted \subseteq Index \X Values

\* "Two values get «Email_1»" is what the lock is there to prevent, across
\* commands: in everything printed during a session's life a token stands for
\* one value, and a value for one token.
OneValuePerToken ==
    \A a, b \in emitted : a[1] = b[1] <=> a[2] = b[2]

\* Output whose mappings are not on disk can never be rehydrated: a save that
\* another command undoes, or output printed before its save, loses them.
EmittedIsRestorable == emitted \subseteq Pairs(disk.map)

\* "A save landing after the delete would bring the session back": a file that
\* replaces another keeps all of its mappings and adds only those its own
\* command minted, so that no save is lost and no deleted session returns.
SaveExtendsDisk ==
    [][\A p \in Procs : pc[p] = "write" /\ pc'[p] = "unlock" =>
         /\ \A i \in Used(disk.map) : disk'.map[i] = disk.map[i]
         /\ Used(disk'.map) \ Used(disk.map) \subseteq minted[p]]_vars

\* gcSessions: "a save that landed since the check above makes it current".
GcSparesFresh ==
    [][\A p \in Procs : op[p] = "gc" /\ pc[p] = "unlink" /\ pc'[p] = "unlock" /\ disk' # disk
         => disk.expired]_vars

\* writeSessionMap, "This prevents a silent plaintext downgrade": a file that is
\* an encrypted session is never replaced by one in the clear, even if the
\* option is switched off between two commands or two steps of one.
NoPlaintextDowngrade ==
    [][IsSessionEncrypted /\ disk'.state = "good" => disk'.key # None]_vars
=============================================================================

-------------------------- MODULE SessionStoreProofs --------------------------
(***************************************************************************)
(* For any processes, values, passphrases and number of commands: no token *)
(* stands for two values, printed tokens can be restored, no save loses    *)
(* another, gc spares a fresh session, and no encrypted session is         *)
(* rewritten in the clear, as long as reads do not fail on a sound file    *)
(* and the two assumptions of Calm hold.                                   *)
(***************************************************************************)
EXTENDS SessionStore, TLAPS

\* The assumptions: Calm, and a read fails only on a file that is bad or gone.
Sound == Calm /\ "readError" \notin Damage

Reading == {"read", "open", "quarantine"}
Working == {"mint", "decide", "write"}

\* Which command can be where.
OpAtPC ==
    \A p \in Procs :
      /\ pc[p] = "lock" => op[p] # "rehydrate"
      /\ pc[p] \in Reading => op[p] \in {"scrub", "encrypt", "rekey", "rehydrate"}
      /\ pc[p] \in Working => op[p] \in {"scrub", "encrypt", "rekey"}
      /\ pc[p] = "check" => op[p] \in {"encrypt", "rekey"}
      /\ pc[p] \in {"recheck", "unlink"} => op[p] \in {"rm", "gc"}

\* What touches the file runs under the lock, except for rehydrate's reads.
InSection(p) ==
    \/ pc[p] \in Working \union {"check", "recheck", "unlink", "unlock"}
    \/ pc[p] \in Reading /\ op[p] # "rehydrate"
UnderLock == \A p \in Procs : InSection(p) => holder = p

\* What withSessionLock promises, of the commands: they take turns at the file.
Mutex == INSTANCE SessionMutex WITH holders <- {p \in Procs : InSection(p)}
CommandsTakeTurns == Mutex!MutexSpec

\* A file that is not good has no mappings, and only such a one is renamed.
NothingToLose ==
    /\ disk.state # "good" => disk.map = EmptyMap
    /\ (\E q \in Procs : pc[q] = "quarantine") => disk.state # "good"

Injective(m) == \A i, j \in Index : m[i] # None /\ m[i] = m[j] => i = j

\* A map has all of these token/value pairs.
Has(m, pairs) == \A i \in Index, v \in Values : <<i, v>> \in pairs => m[i] = v

\* The map a process is working on: the file's, with what it has minted.
WorkingCopy ==
    \A p \in Procs : pc[p] \in Working =>
      /\ \A i \in Index : disk.map[i] # None => base[p][i] = disk.map[i]
      /\ \A i \in Index : base[p][i] # None /\ disk.map[i] = None => i \in minted[p]
      /\ Injective(base[p])
      /\ Has(base[p], owed[p])

\* What was printed, or is about to be, is on disk.
OwedIsSaved ==
    \A p \in Procs :
      /\ pc[p] \in {"unlock", "done"} => Has(disk.map, owed[p])
      /\ pc[p] \in Reading \union {"idle", "lock", "check", "recheck", "unlink"}
           => owed[p] = {}

\* What gc saw at its second look still holds.
SeenExpired ==
    \A p \in Procs :
      pc[p] = "unlink" /\ op[p] = "gc" => disk.state = "absent" \/ disk.expired

\* What writeSessionMap decided still holds at the rename.
SealedIfEncrypted ==
    \A p \in Procs : pc[p] = "write" =>
      /\ IsSessionEncrypted => seal[p]
      /\ seal[p] => key[p] # None

Control == OpAtPC /\ UnderLock /\ NothingToLose
Contents == WorkingCopy /\ OwedIsSaved /\ Injective(disk.map) /\ Has(disk.map, emitted)
Decisions == SeenExpired /\ SealedIfEncrypted
StoreInv == TypeOK /\ Control /\ Contents /\ Decisions

----------------------------------------------------------------------------
Typed == TypeOK /\ OpAtPC

\* Every step keeps the types of the session, its file and the commands, and
\* each command where it belongs.
LEMMA TypeStep == Typed /\ [Next]_vars => Typed'
<1> SUFFICES ASSUME Typed, [Next]_vars PROVE Typed'
  OBVIOUS
<1> USE StoreAssumption DEF Typed, TypeOK, OpAtPC, PCs, AllOps, Reading, Working, Goto, locals
<1>1. ASSUME NEW p \in Procs, NEW o \in Ops, NEW k \in Keys \union {None}, Start(p, o, k) PROVE Typed'
  BY <1>1 DEF Start
<1>2. ASSUME NEW p \in Procs, Lock(p) PROVE Typed'
  BY <1>2 DEF Lock
<1>3. ASSUME NEW p \in Procs, LockTimeout(p) PROVE Typed'
  BY <1>3 DEF LockTimeout, Finish, EmptyMap, Maps, States
<1>4. ASSUME NEW p \in Procs, Exists(p) PROVE Typed'
  <2>1. CASE Open(p, EmptyMap)
    BY <1>4, <2>1 DEF Exists, Open, AfterRead, EmptyMap, Maps, Disks, States
  <2>2. CASE Goto(p, "open") /\ UNCHANGED <<base, found, owed, minted>>
    BY <1>4, <2>2 DEF Exists
  <2> QED
    BY <1>4, <2>1, <2>2 DEF Exists
<1>5. ASSUME NEW p \in Procs, Read(p) PROVE Typed'
  <2>1. EmptyMap \in Maps /\ disk.map \in Maps /\ disk.state \in States
    BY DEF EmptyMap, Maps, Disks
  <2>2. ASSUME NEW m \in Maps, Open(p, m) PROVE Typed'
    BY <1>5, <2>1, <2>2 DEF Read, Open, AfterRead
  <2>3. CASE Throw(p)
    BY <1>5, <2>3 DEF Read, Throw
  <2>4. CASE Goto(p, "quarantine") /\ UNCHANGED <<base, found, owed, minted>>
    BY <1>5, <2>4 DEF Read
  <2> QED
    BY <1>5, <2>1, <2>2, <2>3, <2>4 DEF Read
<1>6. ASSUME NEW p \in Procs, Quarantine(p) PROVE Typed'
  BY <1>6 DEF Quarantine, Open, AfterRead, Disks, NoFile, EmptyMap, Maps, States
<1>7. ASSUME NEW p \in Procs, NEW v \in Values, Mint(p, v) PROVE Typed'
  BY <1>7 DEF Mint, Maps
<1>8. ASSUME NEW p \in Procs, EndOfText(p) PROVE Typed'
  BY <1>8 DEF EndOfText
<1>9. ASSUME NEW p \in Procs, Decide(p) PROVE Typed'
  <2>1. UNCHANGED <<disk, encOn, holder, op, key, emitted, base, found>>
    BY <1>9 DEF Decide, Throw
  <2>2. seal' \in [Procs -> BOOLEAN]
    BY <1>9 DEF Decide
  <2>3. /\ pc[p] = "decide"
        /\ \/ Goto(p, "write") /\ UNCHANGED <<owed, minted>>
           \/ Throw(p)
    BY <1>9 DEF Decide
  <2>4. CASE Goto(p, "write") /\ UNCHANGED <<owed, minted>>
    BY <2>1, <2>2, <2>3, <2>4
  <2>5. CASE Throw(p)
    BY <2>1, <2>2, <2>3, <2>5 DEF Throw
  <2> QED
    BY <2>3, <2>4, <2>5
<1>10. ASSUME NEW p \in Procs, Write(p) PROVE Typed'
  BY <1>10 DEF Write, Disks, States
<1>11. ASSUME NEW p \in Procs, Unlock(p) PROVE Typed'
  BY <1>11 DEF Unlock
<1>12. ASSUME NEW p \in Procs, Done(p) PROVE Typed'
  BY <1>12 DEF Done, Finish, EmptyMap, Maps, States
<1>13. ASSUME NEW p \in Procs, Recheck(p) PROVE Typed'
  BY <1>13 DEF Recheck
<1>14. ASSUME NEW p \in Procs, Unlink(p) PROVE Typed'
  <2>1. NoFile \in Disks
    BY DEF NoFile, EmptyMap, Maps, Disks, States
  <2>2. CASE UNCHANGED <<disk, owed, emitted>>
    BY <1>14, <2>2 DEF Unlink
  <2>3. CASE disk' = NoFile /\ emitted' = {} /\ owed' = [q \in Procs |-> {}]
    BY <1>14, <2>1, <2>3 DEF Unlink
  <2> QED
    BY <1>14, <2>2, <2>3 DEF Unlink, Deleted
<1>15. ASSUME NEW p \in Procs, Check(p) PROVE Typed'
  BY <1>15 DEF Check
<1>16. ASSUME NEW p \in Procs, Crash(p) PROVE Typed'
  BY <1>16 DEF Crash, Finish, EmptyMap, Maps, States
<1>17. CASE ToggleEncryption
  BY <1>17 DEF ToggleEncryption
<1>18. CASE Expire
  BY <1>18 DEF Expire, Disks
<1>19. ASSUME NEW d \in Damage \ {"readError"}, DamageFile(d) PROVE Typed'
  BY <1>19 DEF DamageFile, Disks, EmptyMap, Maps, States, AllDamage
<1>20. CASE UNCHANGED vars
  BY <1>20 DEF vars
<1> QED
  BY <1>1, <1>2, <1>3, <1>4, <1>5, <1>6, <1>7, <1>8, <1>9, <1>10, <1>11, <1>12,
     <1>13, <1>14, <1>15, <1>16, <1>17, <1>18, <1>19, <1>20 DEF Next

\* At first, too.
LEMMA TypeInit == Init => Typed
<1> SUFFICES ASSUME Init PROVE Typed
  OBVIOUS
<1>1. EmptyMap \in Maps /\ NoFile \in Disks
  BY DEF NoFile, EmptyMap, Maps, Disks, States
<1>2. encOn \in BOOLEAN
  BY DEF Init
<1> QED
  BY <1>1, <1>2, StoreAssumption
     DEF Init, Typed, TypeOK, OpAtPC, Reading, Working, PCs, AllOps, States

\* The store's state keeps its types, whatever is damaged or fails.
THEOREM TypeCorrect == Spec => []TypeOK
<1>1. Typed => TypeOK
  BY DEF Typed
<1> QED
  BY <1>1, TypeInit, TypeStep, PTL DEF Spec

----------------------------------------------------------------------------
\* Every step keeps the file to the lock's holder.
LEMMA LockStep == Typed /\ UnderLock /\ [Next]_vars => UnderLock'
<1> SUFFICES ASSUME Typed, UnderLock, [Next]_vars PROVE UnderLock'
  OBVIOUS
<1> USE StoreAssumption
        DEF Typed, TypeOK, OpAtPC, UnderLock, InSection, Reading, Working, Goto, locals
<1>1. ASSUME NEW p \in Procs, NEW o \in Ops, NEW k \in Keys \union {None}, Start(p, o, k) PROVE UnderLock'
  BY <1>1 DEF Start
<1>2. ASSUME NEW p \in Procs, Lock(p) PROVE UnderLock'
  BY <1>2 DEF Lock
<1>3. ASSUME NEW p \in Procs, LockTimeout(p) PROVE UnderLock'
  BY <1>3 DEF LockTimeout, Finish
<1>4. ASSUME NEW p \in Procs, Exists(p) PROVE UnderLock'
  BY <1>4 DEF Exists, Open, AfterRead
<1>5. ASSUME NEW p \in Procs, Read(p) PROVE UnderLock'
  BY <1>5 DEF Read, Open, Throw, AfterRead, ReadFails
<1>6. ASSUME NEW p \in Procs, Quarantine(p) PROVE UnderLock'
  BY <1>6 DEF Quarantine, Open, AfterRead
<1>7. ASSUME NEW p \in Procs, NEW v \in Values, Mint(p, v) PROVE UnderLock'
  BY <1>7 DEF Mint
<1>8. ASSUME NEW p \in Procs, EndOfText(p) PROVE UnderLock'
  BY <1>8 DEF EndOfText
<1>9. ASSUME NEW p \in Procs, Decide(p) PROVE UnderLock'
  BY <1>9 DEF Decide, Throw
<1>10. ASSUME NEW p \in Procs, Write(p) PROVE UnderLock'
  BY <1>10 DEF Write
<1>11. ASSUME NEW p \in Procs, Unlock(p) PROVE UnderLock'
  BY <1>11 DEF Unlock
<1>12. ASSUME NEW p \in Procs, Done(p) PROVE UnderLock'
  BY <1>12 DEF Done, Finish
<1>13. ASSUME NEW p \in Procs, Recheck(p) PROVE UnderLock'
  BY <1>13 DEF Recheck
<1>14. ASSUME NEW p \in Procs, Unlink(p) PROVE UnderLock'
  BY <1>14 DEF Unlink, Deleted, NoFile
<1>15. ASSUME NEW p \in Procs, Check(p) PROVE UnderLock'
  BY <1>15 DEF Check
<1>16. ASSUME NEW p \in Procs, Crash(p) PROVE UnderLock'
  BY <1>16 DEF Crash, Finish
<1>17. CASE ToggleEncryption
  BY <1>17 DEF ToggleEncryption
<1>18. CASE Expire
  BY <1>18 DEF Expire
<1>19. ASSUME NEW d \in Damage \ {"readError"}, DamageFile(d) PROVE UnderLock'
  BY <1>19 DEF DamageFile
<1>20. CASE UNCHANGED vars
  BY <1>20 DEF vars
<1> QED
  BY <1>1, <1>2, <1>3, <1>4, <1>5, <1>6, <1>7, <1>8, <1>9, <1>10, <1>11, <1>12,
     <1>13, <1>14, <1>15, <1>16, <1>17, <1>18, <1>19, <1>20 DEF Next

\* What the commands do between Lock and Unlock is a critical section, whatever is
\* damaged, fails or dies: the one-step lock is the abstract lock of withSessionLock.
THEOREM TakeTurns == Spec => CommandsTakeTurns
<1> DEFINE inside == {p \in Procs : InSection(p)}
<1>1. Init => Mutex!MutexInit
  BY DEF Init, InSection, Reading, Working, Mutex!MutexInit
<1>2. ASSUME Typed, UnderLock, [Next]_vars PROVE [Mutex!MutexNext]_inside
  <2> USE <1>2, StoreAssumption
          DEF Typed, TypeOK, OpAtPC, InSection, Reading, Working, Goto, locals
  <2>1. ASSUME NEW p \in Procs, Lock(p) PROVE Mutex!Acquire(p)
    <3>1. inside = {}
      BY <2>1 DEF Lock, UnderLock
    <3>2. InSection(p)'
      BY <2>1 DEF Lock, AllOps
    <3>3. ASSUME NEW q \in Procs, q # p PROVE InSection(q)' <=> InSection(q)
      BY <2>1, <3>3 DEF Lock
    <3>4. inside' = {p}
      BY <3>1, <3>2, <3>3 DEF inside
    <3> QED
      BY <3>1, <3>4 DEF Mutex!Acquire
  <2>2. ASSUME NEW p \in Procs, Unlock(p) PROVE Mutex!Leave(p)
    <3>1. p \in inside /\ inside' = inside \ {p}
      BY <2>2 DEF Unlock
    <3> QED
      BY <3>1 DEF Mutex!Leave
  <2>3. ASSUME NEW p \in Procs, Crash(p) PROVE Mutex!Leave(p) \/ UNCHANGED inside
    <3>1. inside' = inside \ {p}
      BY <2>3 DEF Crash, Finish
    <3> QED
      BY <3>1 DEF Mutex!Leave
  <2>4. ASSUME NEW p \in Procs,
               \/ \E o \in Ops, k \in Keys \union {None} : Start(p, o, k)
               \/ LockTimeout(p) \/ Done(p)
        PROVE UNCHANGED inside
    BY <2>4 DEF Start, LockTimeout, Done, Finish
  <2>5. ASSUME NEW p \in Procs, Exists(p) \/ Read(p) \/ Quarantine(p)
        PROVE UNCHANGED inside
    BY <2>5 DEF Exists, Read, Quarantine, Open, Throw, AfterRead
  <2>6. ASSUME NEW p \in Procs,
               \/ \E v \in Values : Mint(p, v)
               \/ EndOfText(p) \/ Decide(p) \/ Write(p)
               \/ Recheck(p) \/ Unlink(p) \/ Check(p)
        PROVE UNCHANGED inside
    BY <2>6 DEF Mint, EndOfText, Decide, Throw, Write, Recheck, Unlink, Check
  <2>7. ASSUME \/ ToggleEncryption \/ Expire \/ UNCHANGED vars
               \/ \E d \in Damage \ {"readError"} : DamageFile(d)
        PROVE UNCHANGED inside
    BY <2>7 DEF ToggleEncryption, Expire, DamageFile, vars
  <2> HIDE DEF inside, Typed, TypeOK, OpAtPC, InSection, Reading, Working, Goto, locals
  <2> QED
    BY <1>2, <2>1, <2>2, <2>3, <2>4, <2>5, <2>6, <2>7 DEF Next, Mutex!MutexNext
<1>3. [][Mutex!MutexNext]_inside <=> [][Mutex!MutexNext]_({p \in Procs : InSection(p)})
  BY DEF inside
<1>4. Init => UnderLock
  BY DEF Init, UnderLock, InSection, Reading, Working
<1> QED
  BY <1>1, <1>2, <1>3, <1>4, TypeInit, TypeStep, LockStep, PTL
     DEF Spec, CommandsTakeTurns, Mutex!MutexSpec

\* Every step keeps a file that may yet be renamed free of mappings.
LEMMA LossStep == Sound /\ Typed /\ NothingToLose /\ [Next]_vars => NothingToLose'
<1> SUFFICES ASSUME Sound, Typed, NothingToLose, [Next]_vars PROVE NothingToLose'
  OBVIOUS
<1> USE StoreAssumption
        DEF Sound, Typed, TypeOK, OpAtPC, NothingToLose, AllOps, Reading, Working,
            Goto, locals
<1>1. ASSUME NEW p \in Procs, NEW o \in Ops, NEW k \in Keys \union {None}, Start(p, o, k) PROVE NothingToLose'
  BY <1>1 DEF Start
<1>2. ASSUME NEW p \in Procs, Lock(p) PROVE NothingToLose'
  BY <1>2 DEF Lock
<1>3. ASSUME NEW p \in Procs, LockTimeout(p) PROVE NothingToLose'
  BY <1>3 DEF LockTimeout, Finish
<1>4. ASSUME NEW p \in Procs, Exists(p) PROVE NothingToLose'
  BY <1>4 DEF Exists, Open, AfterRead
<1>5. ASSUME NEW p \in Procs, Read(p) PROVE NothingToLose'
  BY <1>5 DEF Read, Open, Throw, AfterRead, ReadFails
<1>6. ASSUME NEW p \in Procs, Quarantine(p) PROVE NothingToLose'
  BY <1>6 DEF Quarantine, Open, AfterRead, NoFile
<1>7. ASSUME NEW p \in Procs, NEW v \in Values, Mint(p, v) PROVE NothingToLose'
  BY <1>7 DEF Mint
<1>8. ASSUME NEW p \in Procs, EndOfText(p) PROVE NothingToLose'
  BY <1>8 DEF EndOfText
<1>9. ASSUME NEW p \in Procs, Decide(p) PROVE NothingToLose'
  BY <1>9 DEF Decide, Throw
<1>10. ASSUME NEW p \in Procs, Write(p) PROVE NothingToLose'
  BY <1>10 DEF Write
<1>11. ASSUME NEW p \in Procs, Unlock(p) PROVE NothingToLose'
  BY <1>11 DEF Unlock
<1>12. ASSUME NEW p \in Procs, Done(p) PROVE NothingToLose'
  BY <1>12 DEF Done, Finish
<1>13. ASSUME NEW p \in Procs, Recheck(p) PROVE NothingToLose'
  BY <1>13 DEF Recheck
<1>14. ASSUME NEW p \in Procs, Unlink(p) PROVE NothingToLose'
  BY <1>14 DEF Unlink, Deleted, NoFile
<1>15. ASSUME NEW p \in Procs, Check(p) PROVE NothingToLose'
  BY <1>15 DEF Check
<1>16. ASSUME NEW p \in Procs, Crash(p) PROVE NothingToLose'
  BY <1>16 DEF Crash, Finish
<1>17. CASE ToggleEncryption
  BY <1>17 DEF ToggleEncryption
<1>18. CASE Expire
  BY <1>18 DEF Expire, Disks
<1>19. ASSUME NEW d \in Damage \ {"readError"}, DamageFile(d) PROVE NothingToLose'
  BY <1>19 DEF DamageFile, Disks, AllDamage
<1>20. CASE UNCHANGED vars
  BY <1>20 DEF vars
<1> QED
  BY <1>1, <1>2, <1>3, <1>4, <1>5, <1>6, <1>7, <1>8, <1>9, <1>10, <1>11, <1>12,
     <1>13, <1>14, <1>15, <1>16, <1>17, <1>18, <1>19, <1>20 DEF Next

----------------------------------------------------------------------------
\* Every step keeps the copies at work extensions of the file, and maps injective.
LEMMA CopyStep ==
    Sound /\ Typed /\ Control /\ Contents /\ [Next]_vars
      => WorkingCopy' /\ Injective(disk.map)'
<1> DEFINE Goal == WorkingCopy /\ Injective(disk.map)
<1> SUFFICES ASSUME Sound, Typed, Control, Contents, [Next]_vars PROVE Goal'
  OBVIOUS
<1> USE StoreAssumption
        DEF Sound, Typed, TypeOK, OpAtPC, Control, UnderLock, InSection, NothingToLose, Contents,
            WorkingCopy, OwedIsSaved, Injective, Has, Disks, Maps, AllOps, Reading, Working,
            Goto, locals
<1>1. ASSUME NEW p \in Procs, NEW o \in Ops, NEW k \in Keys \union {None}, Start(p, o, k) PROVE Goal'
  BY <1>1 DEF Start
<1>2. ASSUME NEW p \in Procs, Lock(p) PROVE Goal'
  BY <1>2 DEF Lock
<1>3. ASSUME NEW p \in Procs, LockTimeout(p) PROVE Goal'
  BY <1>3 DEF LockTimeout, Finish
<1>4. ASSUME NEW p \in Procs, Exists(p) PROVE Goal'
  BY <1>4 DEF Exists, Open, AfterRead, EmptyMap
<1>5. ASSUME NEW p \in Procs, Read(p) PROVE Goal'
  BY SMTT(30), <1>5 DEF Read, Open, Throw, AfterRead, ReadFails, EmptyMap
<1>6. ASSUME NEW p \in Procs, Quarantine(p) PROVE Goal'
  BY <1>6 DEF Quarantine, Open, AfterRead, NoFile, EmptyMap
<1>7. ASSUME NEW p \in Procs, NEW v \in Values, Mint(p, v) PROVE Goal'
  <2>1. PICK i \in Index :
           /\ \/ base[p][i] = v
              \/ /\ \A j \in Index : base[p][j] # v
                 /\ \A j \in Used(base[p]) : i > j
           /\ minted' = [minted EXCEPT ![p] = IF base[p][i] = v THEN @ ELSE @ \union {i}]
           /\ base' = [base EXCEPT ![p][i] = v]
           /\ owed' = [owed EXCEPT ![p] = @ \union {<<i, v>>}]
    BY <1>7 DEF Mint
  <2>2. UNCHANGED <<disk, pc>> /\ pc[p] = "mint"
    BY <1>7 DEF Mint
  <2>3. base'[p] = [base[p] EXCEPT ![i] = v] /\ base'[p] \in Maps
    BY <2>1
  <2>4. base[p][i] \in {v, None}
    <3>1. \A j \in Index : ~(j > j)
      BY DEF Index
    <3>2. base[p][i] # None => i \in Used(base[p])
      BY DEF Used
    <3> QED
      BY <2>1, <3>1, <3>2
  <2>5. minted[p] \subseteq minted'[p] /\ (base[p][i] = None => i \in minted'[p])
    <3>1. minted'[p] = IF base[p][i] = v THEN minted[p] ELSE minted[p] \union {i}
      BY <2>1
    <3> QED
      BY <3>1
  <2>6. Injective(base'[p])
    BY <2>1, <2>2, <2>3, <2>4
  <2>7. Has(base'[p], owed'[p])
    BY <2>1, <2>2, <2>3, <2>4
  <2>8. /\ \A j \in Index : disk.map[j] # None => base'[p][j] = disk.map[j]
        /\ \A j \in Index : base'[p][j] # None /\ disk.map[j] = None => j \in minted'[p]
    BY <2>2, <2>3, <2>4, <2>5
  <2>9. \A q \in Procs \ {p} : UNCHANGED <<base[q], minted[q], owed[q]>>
    BY <2>1
  <2> QED
    BY <2>2, <2>6, <2>7, <2>8, <2>9
<1>8. ASSUME NEW p \in Procs, EndOfText(p) PROVE Goal'
  BY <1>8 DEF EndOfText, Used
<1>9. ASSUME NEW p \in Procs, Decide(p) PROVE Goal'
  BY <1>9 DEF Decide, Throw
<1>10. ASSUME NEW p \in Procs, Write(p) PROVE Goal'
  BY <1>10 DEF Write
<1>11. ASSUME NEW p \in Procs, Unlock(p) PROVE Goal'
  BY <1>11 DEF Unlock
<1>12. ASSUME NEW p \in Procs, Done(p) PROVE Goal'
  BY <1>12 DEF Done, Finish
<1>13. ASSUME NEW p \in Procs, Recheck(p) PROVE Goal'
  BY <1>13 DEF Recheck
<1>14. ASSUME NEW p \in Procs, Unlink(p) PROVE Goal'
  BY <1>14 DEF Unlink, Deleted, NoFile, EmptyMap
<1>15. ASSUME NEW p \in Procs, Check(p) PROVE Goal'
  BY <1>15 DEF Check
<1>16. ASSUME NEW p \in Procs, Crash(p) PROVE Goal'
  BY <1>16 DEF Crash, Finish
<1>17. CASE ToggleEncryption
  BY <1>17 DEF ToggleEncryption
<1>18. CASE Expire
  BY <1>18 DEF Expire
<1>19. ASSUME NEW d \in Damage \ {"readError"}, DamageFile(d) PROVE Goal'
  BY <1>19 DEF DamageFile, EmptyMap
<1>20. CASE UNCHANGED vars
  BY <1>20 DEF vars
<1> QED
  BY <1>1, <1>2, <1>3, <1>4, <1>5, <1>6, <1>7, <1>8, <1>9, <1>10, <1>11, <1>12,
     <1>13, <1>14, <1>15, <1>16, <1>17, <1>18, <1>19, <1>20 DEF Next

\* Every step keeps what is printed, or about to be, on disk.
LEMMA OwedStep ==
    Sound /\ Typed /\ Control /\ Contents /\ [Next]_vars
      => OwedIsSaved' /\ Has(disk.map, emitted)'
<1> DEFINE Goal == OwedIsSaved /\ Has(disk.map, emitted)
<1> SUFFICES ASSUME Sound, Typed, Control, Contents, [Next]_vars PROVE Goal'
  OBVIOUS
<1> USE StoreAssumption
        DEF Sound, Typed, TypeOK, OpAtPC, Control, UnderLock, InSection, NothingToLose, Contents,
            WorkingCopy, OwedIsSaved, Injective, Has, Disks, Maps, AllOps, Reading, Working,
            Goto, locals
<1>1. ASSUME NEW p \in Procs, NEW o \in Ops, NEW k \in Keys \union {None}, Start(p, o, k) PROVE Goal'
  BY <1>1 DEF Start
<1>2. ASSUME NEW p \in Procs, Lock(p) PROVE Goal'
  BY <1>2 DEF Lock
<1>3. ASSUME NEW p \in Procs, LockTimeout(p) PROVE Goal'
  BY <1>3 DEF LockTimeout, Finish
<1>4. ASSUME NEW p \in Procs, Exists(p) PROVE Goal'
  BY <1>4 DEF Exists, Open, AfterRead, EmptyMap
<1>5. ASSUME NEW p \in Procs, Read(p) PROVE Goal'
  BY <1>5 DEF Read, Open, Throw, AfterRead, ReadFails, EmptyMap
<1>6. ASSUME NEW p \in Procs, Quarantine(p) PROVE Goal'
  BY <1>6 DEF Quarantine, Open, AfterRead, NoFile, EmptyMap
<1>7. ASSUME NEW p \in Procs, NEW v \in Values, Mint(p, v) PROVE Goal'
  BY <1>7 DEF Mint
<1>8. ASSUME NEW p \in Procs, EndOfText(p) PROVE Goal'
  BY <1>8 DEF EndOfText, Used
<1>9. ASSUME NEW p \in Procs, Decide(p) PROVE Goal'
  BY <1>9 DEF Decide, Throw
<1>10. ASSUME NEW p \in Procs, Write(p) PROVE Goal'
  <2>1. \A i \in Index : disk.map[i] # None => disk'.map[i] = disk.map[i]
    BY <1>10 DEF Write
  <2>2. \A S : Has(disk.map, S) => Has(disk'.map, S)
    BY SMTT(30), <2>1
  <2>3. Has(disk'.map, owed[p])
    BY <1>10 DEF Write
  <2> QED
    BY <1>10, <2>2, <2>3 DEF Write
<1>11. ASSUME NEW p \in Procs, Unlock(p) PROVE Goal'
  BY <1>11 DEF Unlock
<1>12. ASSUME NEW p \in Procs, Done(p) PROVE Goal'
  BY <1>12 DEF Done, Finish
<1>13. ASSUME NEW p \in Procs, Recheck(p) PROVE Goal'
  BY <1>13 DEF Recheck
<1>14. ASSUME NEW p \in Procs, Unlink(p) PROVE Goal'
  BY <1>14 DEF Unlink, Deleted, NoFile, EmptyMap
<1>15. ASSUME NEW p \in Procs, Check(p) PROVE Goal'
  BY <1>15 DEF Check
<1>16. ASSUME NEW p \in Procs, Crash(p) PROVE Goal'
  BY <1>16 DEF Crash, Finish
<1>17. CASE ToggleEncryption
  BY <1>17 DEF ToggleEncryption
<1>18. CASE Expire
  BY <1>18 DEF Expire
<1>19. ASSUME NEW d \in Damage \ {"readError"}, DamageFile(d) PROVE Goal'
  BY <1>19 DEF DamageFile, EmptyMap
<1>20. CASE UNCHANGED vars
  BY <1>20 DEF vars
<1> QED
  BY <1>1, <1>2, <1>3, <1>4, <1>5, <1>6, <1>7, <1>8, <1>9, <1>10, <1>11, <1>12,
     <1>13, <1>14, <1>15, <1>16, <1>17, <1>18, <1>19, <1>20 DEF Next

\* Every step keeps what was decided before a change of the file true until it.
LEMMA DecisionStep ==
    Sound /\ Typed /\ Control /\ Decisions /\ [Next]_vars => Decisions'
<1> SUFFICES ASSUME Sound, Typed, Control, Decisions, [Next]_vars PROVE Decisions'
  OBVIOUS
<1> USE StoreAssumption
        DEF Sound, Typed, TypeOK, OpAtPC, Control, UnderLock, InSection, NothingToLose, Decisions,
            SeenExpired, SealedIfEncrypted, IsSessionEncrypted, Disks, AllOps, Reading, Working,
            Goto, locals
<1>1. ASSUME NEW p \in Procs, NEW o \in Ops, NEW k \in Keys \union {None}, Start(p, o, k) PROVE Decisions'
  BY <1>1 DEF Start
<1>2. ASSUME NEW p \in Procs, Lock(p) PROVE Decisions'
  BY <1>2 DEF Lock
<1>3. ASSUME NEW p \in Procs, LockTimeout(p) PROVE Decisions'
  BY <1>3 DEF LockTimeout, Finish
<1>4. ASSUME NEW p \in Procs, Exists(p) PROVE Decisions'
  BY <1>4 DEF Exists, Open, AfterRead
<1>5. ASSUME NEW p \in Procs, Read(p) PROVE Decisions'
  BY <1>5 DEF Read, Open, Throw, AfterRead, ReadFails
<1>6. ASSUME NEW p \in Procs, Quarantine(p) PROVE Decisions'
  BY <1>6 DEF Quarantine, Open, AfterRead, NoFile
<1>7. ASSUME NEW p \in Procs, NEW v \in Values, Mint(p, v) PROVE Decisions'
  BY <1>7 DEF Mint
<1>8. ASSUME NEW p \in Procs, EndOfText(p) PROVE Decisions'
  BY <1>8 DEF EndOfText
<1>9. ASSUME NEW p \in Procs, Decide(p) PROVE Decisions'
  <2>1. PICK encrypted \in {IsSessionEncrypted, IsSessionEncrypted /\ ~ReadFails} :
           \/ /\ (encOn \/ encrypted) => key[p] # None
              /\ seal' = [seal EXCEPT ![p] = encOn \/ encrypted]
              /\ Goto(p, "write")
           \/ Throw(p) /\ seal' = seal
    BY <1>9 DEF Decide
  <2>2. encrypted <=> IsSessionEncrypted
    BY DEF ReadFails
  <2>3. UNCHANGED <<disk, op, key>>
    BY <1>9 DEF Decide
  <2> QED
    BY <2>1, <2>2, <2>3 DEF Throw
<1>10. ASSUME NEW p \in Procs, Write(p) PROVE Decisions'
  BY <1>10 DEF Write
<1>11. ASSUME NEW p \in Procs, Unlock(p) PROVE Decisions'
  BY <1>11 DEF Unlock
<1>12. ASSUME NEW p \in Procs, Done(p) PROVE Decisions'
  BY <1>12 DEF Done, Finish
<1>13. ASSUME NEW p \in Procs, Recheck(p) PROVE Decisions'
  BY <1>13 DEF Recheck
<1>14. ASSUME NEW p \in Procs, Unlink(p) PROVE Decisions'
  BY <1>14 DEF Unlink, Deleted, NoFile
<1>15. ASSUME NEW p \in Procs, Check(p) PROVE Decisions'
  BY <1>15 DEF Check
<1>16. ASSUME NEW p \in Procs, Crash(p) PROVE Decisions'
  BY <1>16 DEF Crash, Finish
<1>17. CASE ToggleEncryption
  BY <1>17 DEF ToggleEncryption
<1>18. CASE Expire
  BY <1>18 DEF Expire
<1>19. ASSUME NEW d \in Damage \ {"readError"}, DamageFile(d) PROVE Decisions'
  BY <1>19 DEF DamageFile
<1>20. CASE UNCHANGED vars
  BY <1>20 DEF vars
<1> QED
  BY <1>1, <1>2, <1>3, <1>4, <1>5, <1>6, <1>7, <1>8, <1>9, <1>10, <1>11, <1>12,
     <1>13, <1>14, <1>15, <1>16, <1>17, <1>18, <1>19, <1>20 DEF Next

----------------------------------------------------------------------------
\* Every step keeps the store's inductive invariant.
LEMMA InductiveStep == Sound /\ StoreInv /\ [Next]_vars => StoreInv'
<1> SUFFICES ASSUME Sound, StoreInv, [Next]_vars PROVE StoreInv'
  OBVIOUS
<1>1. Typed /\ Typed'
  BY TypeStep DEF StoreInv, Control, Typed
<1>2. UnderLock' /\ NothingToLose'
  BY <1>1, LockStep, LossStep DEF StoreInv, Control
<1>3. Contents'
  BY <1>1, CopyStep, OwedStep DEF StoreInv, Contents
<1>4. Decisions'
  BY <1>1, DecisionStep DEF StoreInv
<1> QED
  BY <1>1, <1>2, <1>3, <1>4 DEF StoreInv, Control, Typed

\* The store's inductive invariant holds.
LEMMA Inductive == ASSUME Sound PROVE Spec => []StoreInv
<1>1. Init => StoreInv
  <2> SUFFICES ASSUME Init PROVE StoreInv
    OBVIOUS
  <2>1. TypeOK /\ OpAtPC
    BY TypeInit DEF Typed
  <2>2. Injective(EmptyMap) /\ \A S : Has(EmptyMap, S) <=> \A i \in Index, v \in Values : <<i, v>> \notin S
    BY StoreAssumption DEF Injective, Has, EmptyMap
  <2>3. UnderLock /\ NothingToLose
    BY DEF Init, UnderLock, InSection, NothingToLose, Reading, Working, NoFile
  <2>4. Contents
    BY <2>2 DEF Init, Contents, WorkingCopy, OwedIsSaved, Reading, Working, NoFile
  <2>5. Decisions
    BY DEF Init, Decisions, SeenExpired, SealedIfEncrypted
  <2> QED
    BY <2>1, <2>3, <2>4, <2>5 DEF StoreInv, Control
<1> QED
  BY <1>1, InductiveStep, PTL DEF Spec

\* A process that leaves its write, or its unlink, for the unlock has done it.
LEMMA StepOfTheFile ==
    ASSUME Typed, Next, NEW r \in Procs, pc[r] \in {"write", "unlink"}, pc'[r] = "unlock"
    PROVE  Write(r) \/ Unlink(r)
<1> DEFINE Goal == Write(r) \/ Unlink(r)
<1> USE DEF Typed, TypeOK, OpAtPC, Reading, Working, Goto
<1>1. ASSUME NEW p \in Procs, NEW o \in Ops, NEW k \in Keys \union {None}, Start(p, o, k) PROVE Goal
  BY <1>1 DEF Start
<1>2. ASSUME NEW p \in Procs, Lock(p) PROVE Goal
  BY <1>2 DEF Lock
<1>3. ASSUME NEW p \in Procs, LockTimeout(p) PROVE Goal
  BY <1>3 DEF LockTimeout, Finish
<1>4. ASSUME NEW p \in Procs, Exists(p) PROVE Goal
  BY <1>4 DEF Exists, Open, AfterRead
<1>5. ASSUME NEW p \in Procs, Read(p) PROVE Goal
  BY <1>5 DEF Read, Open, Throw, AfterRead, ReadFails
<1>6. ASSUME NEW p \in Procs, Quarantine(p) PROVE Goal
  BY <1>6 DEF Quarantine, Open, AfterRead
<1>7. ASSUME NEW p \in Procs, NEW v \in Values, Mint(p, v) PROVE Goal
  BY <1>7 DEF Mint
<1>8. ASSUME NEW p \in Procs, EndOfText(p) PROVE Goal
  BY <1>8 DEF EndOfText
<1>9. ASSUME NEW p \in Procs, Decide(p) PROVE Goal
  BY <1>9 DEF Decide, Throw
<1>10. ASSUME NEW p \in Procs, Write(p) PROVE Goal
  BY <1>10 DEF Write
<1>11. ASSUME NEW p \in Procs, Unlock(p) PROVE Goal
  BY <1>11 DEF Unlock
<1>12. ASSUME NEW p \in Procs, Done(p) PROVE Goal
  BY <1>12 DEF Done, Finish
<1>13. ASSUME NEW p \in Procs, Recheck(p) PROVE Goal
  BY <1>13 DEF Recheck
<1>14. ASSUME NEW p \in Procs, Unlink(p) PROVE Goal
  BY <1>14 DEF Unlink, Deleted
<1>15. ASSUME NEW p \in Procs, Check(p) PROVE Goal
  BY <1>15 DEF Check
<1>16. ASSUME NEW p \in Procs, Crash(p) PROVE Goal
  BY <1>16 DEF Crash, Finish
<1>17. CASE ToggleEncryption
  BY <1>17 DEF ToggleEncryption
<1>18. CASE Expire
  BY <1>18 DEF Expire
<1>19. ASSUME NEW d \in Damage \ {"readError"}, DamageFile(d) PROVE Goal
  BY <1>19 DEF DamageFile
<1> QED
  BY <1>1, <1>2, <1>3, <1>4, <1>5, <1>6, <1>7, <1>8, <1>9, <1>10, <1>11, <1>12,
     <1>13, <1>14, <1>15, <1>16, <1>17, <1>18, <1>19 DEF Next

\* What a step does to the file.
LEMMA FileChanges ==
    ASSUME Next
    PROVE  \/ disk' \in {disk, NoFile} \/ Expire
           \/ \E q \in Procs : Write(q)
           \/ \E e \in Damage \ {"readError"} : DamageFile(e)
<1> DEFINE Goal == \/ disk' \in {disk, NoFile} \/ Expire
                   \/ \E q \in Procs : Write(q)
                   \/ \E e \in Damage \ {"readError"} : DamageFile(e)
<1>1. ASSUME NEW p \in Procs, NEW o \in Ops, NEW k \in Keys \union {None}, Start(p, o, k) PROVE Goal
  BY <1>1 DEF Start
<1>2. ASSUME NEW p \in Procs, Lock(p) PROVE Goal
  BY <1>2 DEF Lock
<1>3. ASSUME NEW p \in Procs, LockTimeout(p) PROVE Goal
  BY <1>3 DEF LockTimeout, Finish
<1>4. ASSUME NEW p \in Procs, Exists(p) PROVE Goal
  BY <1>4 DEF Exists, Open, AfterRead
<1>5. ASSUME NEW p \in Procs, Read(p) PROVE Goal
  BY <1>5 DEF Read, Open, Throw, AfterRead, ReadFails
<1>6. ASSUME NEW p \in Procs, Quarantine(p) PROVE Goal
  BY <1>6 DEF Quarantine, Open, AfterRead
<1>7. ASSUME NEW p \in Procs, NEW v \in Values, Mint(p, v) PROVE Goal
  BY <1>7 DEF Mint
<1>8. ASSUME NEW p \in Procs, EndOfText(p) PROVE Goal
  BY <1>8 DEF EndOfText
<1>9. ASSUME NEW p \in Procs, Decide(p) PROVE Goal
  BY <1>9 DEF Decide, Throw
<1>10. ASSUME NEW p \in Procs, Write(p) PROVE Goal
  BY <1>10 DEF Write
<1>11. ASSUME NEW p \in Procs, Unlock(p) PROVE Goal
  BY <1>11 DEF Unlock
<1>12. ASSUME NEW p \in Procs, Done(p) PROVE Goal
  BY <1>12 DEF Done, Finish
<1>13. ASSUME NEW p \in Procs, Recheck(p) PROVE Goal
  BY <1>13 DEF Recheck
<1>14. ASSUME NEW p \in Procs, Unlink(p) PROVE Goal
  BY <1>14 DEF Unlink, Deleted
<1>15. ASSUME NEW p \in Procs, Check(p) PROVE Goal
  BY <1>15 DEF Check
<1>16. ASSUME NEW p \in Procs, Crash(p) PROVE Goal
  BY <1>16 DEF Crash, Finish
<1>17. CASE ToggleEncryption
  BY <1>17 DEF ToggleEncryption
<1>18. CASE Expire
  BY <1>18 DEF Expire
<1>19. ASSUME NEW d \in Damage \ {"readError"}, DamageFile(d) PROVE Goal
  BY <1>19 DEF DamageFile
<1> QED
  BY <1>1, <1>2, <1>3, <1>4, <1>5, <1>6, <1>7, <1>8, <1>9, <1>10, <1>11, <1>12,
     <1>13, <1>14, <1>15, <1>16, <1>17, <1>18, <1>19 DEF Next

\* "Two values get «Email_1»" is out of the question, for any commands.
THEOREM TokensStandForOne == ASSUME Sound PROVE Spec => []OneValuePerToken
<1>1. StoreInv => OneValuePerToken
  BY StoreAssumption DEF StoreInv, TypeOK, Contents, Injective, Has, OneValuePerToken
<1> QED
  BY <1>1, Inductive, PTL

\* Whatever was printed since the last delete can be restored from the file.
THEOREM PrintedIsSaved == ASSUME Sound PROVE Spec => []EmittedIsRestorable
<1>1. StoreInv => EmittedIsRestorable
  BY StoreAssumption DEF StoreInv, TypeOK, Contents, Has, EmittedIsRestorable, Pairs, Used
<1> QED
  BY <1>1, Inductive, PTL

\* No save undoes another, and none brings a deleted session back.
THEOREM SavesExtend == ASSUME Sound PROVE Spec => SaveExtendsDisk
<1> DEFINE Extends(p) ==
      pc[p] = "write" /\ pc'[p] = "unlock" =>
        /\ \A i \in Used(disk.map) : disk'.map[i] = disk.map[i]
        /\ Used(disk'.map) \ Used(disk.map) \subseteq minted[p]
<1>1. StoreInv /\ [Next]_vars => [\A p \in Procs : Extends(p)]_vars
  <2> SUFFICES ASSUME StoreInv, Next, NEW p \in Procs, pc[p] = "write", pc'[p] = "unlock"
               PROVE  Extends(p)
    OBVIOUS
  <2>1. Write(p)
    BY StepOfTheFile DEF StoreInv, Control, Typed, Unlink
  <2> QED
    BY <2>1 DEF Write, StoreInv, Contents, WorkingCopy, Working, Used
<1> QED
  BY <1>1, Inductive, PTL DEF Spec, SaveExtendsDisk

\* gc deletes no session that was saved since it looked.
THEOREM FreshIsSpared == ASSUME Sound PROVE Spec => GcSparesFresh
<1>1. StoreInv /\ [Next]_vars
        => [\A p \in Procs : op[p] = "gc" /\ pc[p] = "unlink" /\ pc'[p] = "unlock" /\ disk' # disk
              => disk.expired]_vars
  <2> SUFFICES ASSUME StoreInv, Next, NEW p \in Procs, op[p] = "gc",
                      pc[p] = "unlink", pc'[p] = "unlock", disk' # disk
               PROVE  disk.expired
    OBVIOUS
  <2>1. Unlink(p)
    BY StepOfTheFile DEF StoreInv, Control, Typed, Write
  <2> QED
    BY <2>1 DEF Unlink, Deleted, StoreInv, Decisions, SeenExpired
<1> QED
  BY <1>1, Inductive, PTL DEF Spec, GcSparesFresh

\* An encrypted session is never replaced by one in the clear.
THEOREM StaysEncrypted == ASSUME Sound PROVE Spec => NoPlaintextDowngrade
<1>1. StoreInv /\ [Next]_vars
        => [IsSessionEncrypted /\ disk'.state = "good" => disk'.key # None]_vars
  <2> SUFFICES ASSUME StoreInv, Next, IsSessionEncrypted, disk'.state = "good"
               PROVE  disk'.key # None
    OBVIOUS
  <2>1. CASE disk' \in {disk, NoFile}
    BY <2>1 DEF NoFile, IsSessionEncrypted
  <2>2. CASE Expire
    BY <2>2 DEF Expire, StoreInv, TypeOK, Disks, IsSessionEncrypted
  <2>3. ASSUME NEW q \in Procs, Write(q) PROVE disk'.key # None
    BY <2>3 DEF Write, StoreInv, Decisions, SealedIfEncrypted
  <2>4. ASSUME NEW d \in Damage \ {"readError"}, DamageFile(d) PROVE disk'.key # None
    BY <2>4, StoreAssumption DEF DamageFile, StoreInv, TypeOK, Disks, IsSessionEncrypted
  <2> QED
    BY <2>1, <2>2, <2>3, <2>4, FileChanges
<1> QED
  BY <1>1, Inductive, PTL DEF Spec, NoPlaintextDowngrade

=============================================================================

------------------------- MODULE ConfigReloadProofs -------------------------
(***************************************************************************)
(* For any contents and any number of writes and signals: a reload never   *)
(* replaces the configuration in force by what was read of an older file,  *)
(* nor one content that is not valid, and the two ways in which what is in *)
(* force may differ from what the file says are the only ones.             *)
(***************************************************************************)
EXTENDS ConfigReload, TLAPS

Active == {"readConfig", "readPacks", "import"}

\* The links of the chain exist from the first on, and none before the proxy
\* runs; a link at work has only settled ones before it.
Chain ==
    /\ phase # "running" => triggers = 0
    /\ \A i \in Links : i > triggers => runs[i].pc = "unborn"
    /\ \A i \in Links : runs[i].pc \in Active => Turn(i)

\* f was read no later than g; if it had another content, the file has left
\* f's content since.
Earlier(f, g) ==
    /\ f.version <= g.version
    /\ f.version = g.version => f = g
    /\ f.content # g.content => f.content \in past

\* What the link at work has read, in the order it read it.
LinkInOrder(run) ==
    /\ run.pc \in Active => Earlier(run.hash, file)
    /\ run.pc \in {"readPacks", "import"} =>
         /\ Earlier(run.hash, run.config) /\ Earlier(run.config, file)
         /\ run.config.content \in Good \union BadPack
         /\ current.config.version <= run.config.version
    /\ run.pc = "import" =>
         /\ Earlier(run.config, run.packs) /\ Earlier(run.packs, file)
         /\ current.packs.version <= run.packs.version

InOrder ==
    /\ current.config.version <= file.version
    /\ current.packs.version <= file.version
    /\ \A i \in Links : LinkInOrder(runs[i])

\* When nobody writes the file during startup, the hash, the settings and the
\* packs in force were read in this order.
InForce ==
    /\ phase \in {"import", "config", "listen"} => current.packs = file
    /\ phase = "listen" => current.config = file
    /\ phase = "running" => /\ Earlier(appliedHash, current.config)
                            /\ Earlier(current.config, current.packs)
                            /\ Earlier(current.packs, file)

ReloadInv == TypeOK /\ Chain /\ InOrder

----------------------------------------------------------------------------
\* Every step keeps the types of the file, the configuration and the links.
LEMMA TypeStep == TypeOK /\ [Next]_vars => TypeOK'
  <1> SUFFICES ASSUME TypeOK, [Next]_vars PROVE TypeOK'
    OBVIOUS
  <1> DEFINE RunType == [pc : RunPCs, hash : Files, config : Files, packs : Files]
  <1> HIDE DEF RunType
  <1>a. runs \in [Links -> RunType]
    BY DEF TypeOK, RunType
  <1>b. file \in Files
    BY DEF TypeOK
  <1>c. ASSUME NEW i \in Links, NEW x \in RunPCs
        PROVE  [runs[i] EXCEPT !.pc = x] \in RunType
    BY <1>a DEF RunType
  <1> USE ReloadAssumption DEF inputs, history
  <1>1. ASSUME NEW k \in Contents, WriteFile(k) PROVE TypeOK'
    <2>1. file' \in Files
      BY <1>1 DEF WriteFile, TypeOK, Files
    <2>2. past' \subseteq Contents
      BY <1>1 DEF WriteFile, TypeOK, Files
    <2>3. notice' \in BOOLEAN /\ signalled' \in BOOLEAN
      BY <1>1 DEF WriteFile
    <2>4. QED
      BY <1>1, <2>1, <2>2, <2>3 DEF WriteFile, TypeOK
  <1>2. ASSUME Startup PROVE TypeOK'
    BY <1>2, <1>b DEF Startup, StartPacks, StartImported, StartConfig, StartReloader, TypeOK, Phases
  <1>3. ASSUME Notify \/ WatcherStops \/ Close PROVE TypeOK'
    BY <1>3 DEF Notify, WatcherStops, Close, TypeOK
  <1>4. ASSUME TimerFires \/ Sighup PROVE TypeOK'
    <2>1. /\ triggers + 1 \in Links
          /\ triggers' = triggers + 1
          /\ runs' = [runs EXCEPT ![triggers + 1] = [@ EXCEPT !.pc = "queued"]]
      BY <1>4 DEF TimerFires, Sighup, Enqueue
    <2>2. runs' \in [Links -> RunType]
      BY <2>1, <1>a, <1>c DEF RunPCs
    <2>3. triggers' \in 0..(MaxVersion + MaxSignals)
      BY <2>1 DEF TypeOK, Links
    <2>4. signals' \in 0..MaxSignals
      BY <1>4 DEF TimerFires, Sighup, TypeOK
    <2>a. signalled' \in BOOLEAN
      BY <1>4 DEF TimerFires, Sighup, TypeOK
    <2>5. UNCHANGED <<file, phase, current, appliedHash, watching, notice, closed, past>> /\ timer' \in BOOLEAN
      BY <1>4 DEF TimerFires, Sighup, TypeOK
    <2>6. QED
      BY <2>2, <2>3, <2>4, <2>a, <2>5 DEF TypeOK, RunType
  <1>5. ASSUME NEW i \in Links, Begin(i) PROVE TypeOK'
    <2>1. runs' = [runs EXCEPT ![i] = [@ EXCEPT !.pc = IF Skips THEN "done" ELSE "readConfig",
                                               !.hash = file]]
      BY <1>5 DEF Begin
    <2>2. runs' \in [Links -> RunType]
      BY <2>1, <1>a, <1>b DEF RunPCs, RunType
    <2>3. QED
      BY <2>2, <1>5 DEF Begin, TypeOK, RunType
  <1>6. ASSUME NEW i \in Links, ReadConfig(i) PROVE TypeOK'
    <2>1. runs' = [runs EXCEPT ![i] = [@ EXCEPT
                     !.pc = IF file.content \in Good \union BadPack THEN "readPacks" ELSE "done",
                     !.config = file]]
      BY <1>6 DEF ReadConfig
    <2>2. runs' \in [Links -> RunType]
      BY <2>1, <1>a DEF RunPCs, RunType, TypeOK
    <2>3. QED
      BY <2>2, <1>6 DEF ReadConfig, TypeOK, RunType
  <1>7. ASSUME NEW i \in Links, ReadPacks(i) PROVE TypeOK'
    <2>1. runs' = [runs EXCEPT ![i] = [@ EXCEPT !.pc = "import", !.packs = file]]
      BY <1>7 DEF ReadPacks
    <2>2. runs' \in [Links -> RunType]
      BY <2>1, <1>a DEF RunPCs, RunType, TypeOK
    <2>3. QED
      BY <2>2, <1>7 DEF ReadPacks, TypeOK, RunType
  <1>8. ASSUME NEW i \in Links, Apply(i) PROVE TypeOK'
    <2>1. runs' = [runs EXCEPT ![i] = [@ EXCEPT !.pc = "done"]]
      BY <1>8 DEF Apply
    <2>2. runs' \in [Links -> RunType]
      BY <2>1, <1>a, <1>c DEF RunPCs
    <2>3. runs[i] \in RunType
      BY <1>a
    <2>4. QED
      BY <2>2, <2>3, <1>8 DEF Apply, TypeOK, RunType
  <1>9. CASE UNCHANGED vars
    BY <1>9 DEF vars, TypeOK
  <1>10. QED
    BY <1>1, <1>2, <1>3, <1>4, <1>5, <1>6, <1>7, <1>8, <1>9 DEF Next, Startup

\* Every step keeps the links in their order.
LEMMA ChainStep == TypeOK /\ Chain /\ [Next]_vars => Chain'
  <1> SUFFICES ASSUME TypeOK, Chain, [Next]_vars PROVE Chain'
    OBVIOUS
  <1> USE ReloadAssumption DEF TypeOK, Chain, Active, Turn, Links, inputs, history
  <1>1. ASSUME NEW k \in Contents, WriteFile(k) PROVE Chain'
    BY <1>1 DEF WriteFile
  <1>2. ASSUME StartPacks PROVE Chain'
    BY <1>2 DEF StartPacks
  <1>3. ASSUME StartImported PROVE Chain'
    BY <1>3 DEF StartImported
  <1>4. ASSUME StartConfig PROVE Chain'
    BY <1>4 DEF StartConfig
  <1>5. ASSUME StartReloader PROVE Chain'
    BY <1>5 DEF StartReloader
  <1>6. ASSUME Notify PROVE Chain'
    BY <1>6 DEF Notify, EventLoop
  <1>7. ASSUME TimerFires PROVE Chain'
    BY <1>7 DEF TimerFires, Enqueue, EventLoop
  <1>8. ASSUME Sighup PROVE Chain'
    BY <1>8 DEF Sighup, Enqueue, EventLoop
  <1>9. ASSUME Close \/ WatcherStops PROVE Chain'
    BY <1>9 DEF Close, WatcherStops
  <1>10. ASSUME NEW i \in Links, Begin(i) PROVE Chain'
    BY <1>10 DEF Begin, Turn, Skips
  <1>11. ASSUME NEW i \in Links, ReadConfig(i) PROVE Chain'
    BY <1>11 DEF ReadConfig
  <1>12. ASSUME NEW i \in Links, ReadPacks(i) PROVE Chain'
    BY <1>12 DEF ReadPacks
  <1>13. ASSUME NEW i \in Links, Apply(i) PROVE Chain'
    BY <1>13 DEF Apply
  <1>14. CASE UNCHANGED vars
    BY <1>14 DEF vars
  <1>15. QED
    BY <1>1, <1>2, <1>3, <1>4, <1>5, <1>6, <1>7, <1>8, <1>9, <1>10, <1>11, <1>12, <1>13, <1>14 DEF Next

\* What was read in order stays in order, whatever is written.
LEMMA StaysEarlier ==
    ASSUME past \subseteq past', NEW f, NEW g, Earlier(f, g)
    PROVE  Earlier(f, g)'
  BY DEF Earlier

\* A write makes what was read of the file older.
LEMMA WriteAges ==
    ASSUME TypeOK, NEW k \in Contents, WriteFile(k), NEW f \in Files, Earlier(f, file)
    PROVE  Earlier(f, file)'
  BY DEF WriteFile, Earlier, TypeOK, Files

\* What the file holds is no older than itself, and earlier is transitive.
LEMMA EarlierOrder ==
    /\ file \in Files => Earlier(file, file)
    /\ \A f, g, h \in Files : Earlier(f, g) /\ Earlier(g, h) => Earlier(f, h)
  BY DEF Earlier, Files

\* Every step keeps what was read no newer than the file, and in order.
LEMMA ReadStep == TypeOK /\ Chain /\ InOrder /\ [Next]_vars => InOrder'
  <1> SUFFICES ASSUME TypeOK, Chain, InOrder, [Next]_vars PROVE InOrder'
    OBVIOUS
  <1>a. \A i \in Links : /\ runs[i].hash \in Files
                         /\ runs[i].config \in Files /\ runs[i].packs \in Files
    BY DEF TypeOK
  <1>b. file.version \in Nat /\ current.config.version \in Nat /\ current.packs.version \in Nat
    BY DEF TypeOK, Files
  <1>c. file \in Files /\ Earlier(file, file)
    BY EarlierOrder DEF TypeOK
  <1>1. ASSUME NEW k \in Contents, WriteFile(k) PROVE InOrder'
    <2>1. UNCHANGED <<runs, current>> /\ file'.version = file.version + 1 /\ past \subseteq past'
      BY <1>1 DEF WriteFile
    <2>2. \A f \in Files : Earlier(f, file) => Earlier(f, file)'
      BY <1>1, WriteAges
    <2>3. \A f, g \in Files : Earlier(f, g) => Earlier(f, g)'
      BY <2>1, StaysEarlier
    <2>4. ASSUME NEW i \in Links PROVE LinkInOrder(runs[i])'
      <3>1. LinkInOrder(runs[i])
        BY DEF InOrder
      <3>2. PICK r : r = runs[i]
        OBVIOUS
      <3>3. r.hash \in Files /\ r.config \in Files /\ r.packs \in Files /\ runs'[i] = r
        BY <1>a, <2>1, <3>2
      <3>4. LinkInOrder(r)
        BY <3>1, <3>2
      <3>5. LinkInOrder(r)'
        BY <2>1, <2>2, <2>3, <3>3, <3>4 DEF LinkInOrder
      <3>6. QED
        BY <3>3, <3>5
    <2>5. QED
      BY <1>b, <2>1, <2>4 DEF InOrder
  <1>2. CASE Startup
    <2>1. phase # "running" /\ UNCHANGED <<file, runs>>
      BY <1>2 DEF Startup, StartPacks, StartImported, StartConfig, StartReloader
    <2>2. \A i \in Links : runs[i].pc = "unborn"
      BY <2>1 DEF Chain, Links
    <2>3. /\ current'.config = file \/ current'.config = current.config
          /\ current'.packs = file \/ current'.packs = current.packs
      BY <1>2 DEF Startup, StartPacks, StartImported, StartConfig, StartReloader, TypeOK
    <2>4. QED
      BY <1>b, <2>1, <2>2, <2>3 DEF InOrder, LinkInOrder, Active
  <1>3. ASSUME Notify \/ WatcherStops \/ Close \/ UNCHANGED vars PROVE InOrder'
    BY <1>3 DEF Notify, WatcherStops, Close, vars, history, InOrder, LinkInOrder, Earlier
  <1>4. CASE TimerFires \/ Sighup
    <2>1. PICK t \in Links : runs' = [runs EXCEPT ![t].pc = "queued"]
      BY <1>4 DEF TimerFires, Sighup, Enqueue
    <2>2. UNCHANGED <<file, current, past>>
      BY <1>4 DEF TimerFires, Sighup, history
    <2>3. runs'[t].pc = "queued"
      BY <2>1 DEF TypeOK
    <2>4. ASSUME NEW j \in Links, j # t PROVE LinkInOrder(runs[j])'
      <3>1. runs'[j] = runs[j]
        BY <2>1, <2>4 DEF TypeOK
      <3>2. QED
        BY <2>2, <3>1 DEF InOrder, LinkInOrder, Earlier
    <2>5. QED
      BY <2>2, <2>3, <2>4 DEF InOrder, LinkInOrder, Active
  <1>5. ASSUME NEW i \in Links, Begin(i) \/ ReadConfig(i) \/ ReadPacks(i)
        PROVE  InOrder'
    <2>1. UNCHANGED <<file, current, past>>
      BY <1>5 DEF Begin, ReadConfig, ReadPacks
    <2>a. \A f, g \in Files : Earlier(f, g) => Earlier(f, g)'
      BY <2>1, StaysEarlier
    <2>2. ASSUME NEW j \in Links, j # i PROVE LinkInOrder(runs[j])'
      <3>1. runs'[j] = runs[j]
        BY <1>5, <2>2 DEF Begin, ReadConfig, ReadPacks, TypeOK
      <3>2. QED
        BY <2>1, <3>1 DEF InOrder, LinkInOrder, Earlier
    <2>3. LinkInOrder(runs[i])
      BY DEF InOrder
    <2>4. PICK r : r = runs'[i]
      OBVIOUS
    <2>5. CASE Begin(i)
      <3>1. r.pc \in {"done", "readConfig"} /\ r.hash = file
        BY <2>4, <2>5 DEF Begin, TypeOK
      <3>2. LinkInOrder(r)
        BY <1>c, <3>1 DEF LinkInOrder
      <3>3. QED
        BY <2>1, <2>2, <2>4, <3>2 DEF InOrder, LinkInOrder, Earlier
    <2>6. CASE ReadConfig(i)
      <3>1. /\ runs[i].pc = "readConfig"
            /\ r.pc \in {"done", "readPacks"}
            /\ r.pc = "readPacks" => file.content \in Good \union BadPack
            /\ r.hash = runs[i].hash /\ r.config = file
        BY <2>4, <2>6 DEF ReadConfig, TypeOK
      <3>2. Earlier(r.hash, file) /\ current.config.version <= file.version
        BY <2>3, <3>1 DEF InOrder, LinkInOrder, Active
      <3>3. LinkInOrder(r)
        BY <1>c, <3>1, <3>2 DEF LinkInOrder
      <3>4. QED
        BY <2>1, <2>2, <2>4, <3>3 DEF InOrder, LinkInOrder, Earlier
    <2>7. CASE ReadPacks(i)
      <3>1. /\ runs[i].pc = "readPacks" /\ r.pc = "import"
            /\ r.hash = runs[i].hash /\ r.config = runs[i].config
            /\ r.packs = file
        BY <2>4, <2>7 DEF ReadPacks, TypeOK
      <3>2. current.packs.version <= file.version
        BY DEF InOrder
      <3>3. LinkInOrder(r)
        BY <1>c, <2>3, <3>1, <3>2 DEF LinkInOrder, Active
      <3>4. QED
        BY <2>1, <2>2, <2>4, <3>3 DEF InOrder, LinkInOrder, Earlier
    <2>8. QED
      BY <1>5, <2>5, <2>6, <2>7
  <1>6. ASSUME NEW i \in Links, Apply(i) PROVE InOrder'
    <2>1. UNCHANGED file /\ runs[i].pc = "import" /\ runs'[i].pc = "done"
      BY <1>6 DEF Apply, TypeOK
    <2>2. ASSUME NEW j \in Links, j # i PROVE runs'[j].pc \notin Active
      <3>1. runs'[j] = runs[j]
        BY <1>6, <2>2 DEF Apply, TypeOK
      <3>2. CASE j < i
        BY <2>1, <3>1, <3>2 DEF Chain, Turn, Active, Links
      <3>3. CASE i < j
        BY <2>1, <3>1, <3>3 DEF Chain, Turn, Active, Links
      <3>4. QED
        BY <2>2, <3>2, <3>3 DEF Links
    <2>3. current' = current \/ current' = [config |-> runs[i].config, packs |-> runs[i].packs]
      BY <1>6 DEF Apply
    <2>4. runs[i].config.version <= file.version /\ runs[i].packs.version <= file.version
      BY <2>1 DEF InOrder, LinkInOrder, Earlier
    <2>5. current'.config.version <= file.version /\ current'.packs.version <= file.version
      BY <2>3, <2>4 DEF InOrder
    <2>6. \A j \in Links : runs'[j].pc \notin Active
      BY <2>1, <2>2 DEF Active
    <2>7. QED
      BY <2>1, <2>5, <2>6 DEF InOrder, LinkInOrder, Active
  <1>7. QED
    BY <1>1, <1>2, <1>3, <1>4, <1>5, <1>6 DEF Next, Startup

\* Every step keeps what is in force read in order, when startup is quiet.
LEMMA ForceStep ==
    QuietStartup /\ ReloadInv /\ InForce /\ [Next]_vars => InForce'
  <1> SUFFICES ASSUME QuietStartup, ReloadInv, InForce, [Next]_vars PROVE InForce'
    OBVIOUS
  <1> USE DEF ReloadInv
  <1>a. file \in Files /\ Earlier(file, file)
    BY EarlierOrder DEF TypeOK
  <1>1. ASSUME NEW k \in Contents, WriteFile(k) PROVE InForce'
    <2>1. phase = "running" /\ UNCHANGED <<phase, current, appliedHash>> /\ past \subseteq past'
      BY <1>1 DEF WriteFile
    <2>2. PICK h, c, p \in Files : h = appliedHash /\ c = current.config /\ p = current.packs
      BY DEF TypeOK
    <2>3. Earlier(h, c) /\ Earlier(c, p) /\ Earlier(p, file)
      BY <2>1, <2>2 DEF InForce
    <2>4. Earlier(h, c)' /\ Earlier(c, p)'
      BY <2>1, <2>3, StaysEarlier
    <2>5. Earlier(p, file)'
      BY <1>1, <2>3, WriteAges
    <2>6. h = appliedHash' /\ c = current'.config /\ p = current'.packs
      BY <2>1, <2>2
    <2>7. QED
      BY <2>1, <2>4, <2>5, <2>6 DEF InForce
  <1>2. CASE StartPacks \/ StartImported \/ StartConfig
    BY <1>2 DEF StartPacks, StartImported, StartConfig, InForce, TypeOK
  <1>3. CASE StartReloader
    <2>1. /\ phase = "listen" /\ phase' = "running" /\ appliedHash' = file
          /\ UNCHANGED <<file, current, past>>
      BY <1>3 DEF StartReloader, history
    <2>2. current.config = file /\ current.packs = file
      BY <2>1 DEF InForce
    <2>3. QED
      BY <1>a, <2>1, <2>2 DEF InForce, Earlier
  <1>4. ASSUME NEW i \in Links, Apply(i) PROVE InForce'
    <2>1. UNCHANGED <<file, phase, past>> /\ runs[i].pc = "import"
      BY <1>4 DEF Apply
    <2>2. phase = "running"
      BY <2>1, ReloadAssumption DEF Chain, Links
    <2>3. CASE UNCHANGED <<current, appliedHash>>
      BY <2>1, <2>2, <2>3 DEF InForce, Earlier
    <2>4. CASE /\ current' = [config |-> runs[i].config, packs |-> runs[i].packs]
               /\ appliedHash' = runs[i].hash
      <3>1. /\ Earlier(runs[i].hash, runs[i].config)
            /\ Earlier(runs[i].config, runs[i].packs)
            /\ Earlier(runs[i].packs, file)
        BY <2>1 DEF InOrder, LinkInOrder
      <3>2. QED
        BY <2>1, <2>2, <2>4, <3>1 DEF InForce, Earlier
    <2>5. QED
      BY <1>4, <2>3, <2>4 DEF Apply
  <1>5. CASE UNCHANGED <<file, phase, current, appliedHash, past>>
    BY <1>5 DEF InForce, Earlier
  <1>6. QED
    <2>1. CASE \E i \in Links : Begin(i) \/ ReadConfig(i) \/ ReadPacks(i)
      BY <1>5, <2>1 DEF Begin, ReadConfig, ReadPacks
    <2>2. CASE Notify \/ WatcherStops \/ TimerFires \/ Sighup \/ Close \/ UNCHANGED vars
      BY <1>5, <2>2 DEF Notify, WatcherStops, TimerFires, Sighup, Close, vars, history
    <2>3. QED
      BY <1>1, <1>2, <1>3, <1>4, <2>1, <2>2 DEF Next

\* In every state, the links are in order and have read nothing newer than the
\* file, nor older than what is in force.
LEMMA Inductive == Spec => []ReloadInv
  <1>1. Init => ReloadInv
    <2> SUFFICES ASSUME Init PROVE ReloadInv
      OBVIOUS
    <2>1. Unset \in Files
      BY ReloadAssumption DEF Unset, Files, Contents
    <2>2. TypeOK
      <3>1. NoRun \in [pc : RunPCs, hash : Files, config : Files, packs : Files]
        BY <2>1 DEF NoRun, RunPCs
      <3>2. /\ current \in [config : Files, packs : Files]
            /\ signals \in 0..MaxSignals /\ triggers \in 0..(MaxVersion + MaxSignals)
        BY <2>1, ReloadAssumption DEF Init
      <3>3. QED
        BY <2>1, <3>1, <3>2 DEF Init, TypeOK, Phases
    <2>3. Chain
      BY DEF Init, Chain, NoRun, Active
    <2>4. InOrder
      BY DEF Init, InOrder, LinkInOrder, NoRun, Unset, Active, Files
    <2>5. QED
      BY <2>2, <2>3, <2>4 DEF ReloadInv
  <1>2. ReloadInv /\ [Next]_vars => ReloadInv'
    BY TypeStep, ChainStep, ReadStep DEF ReloadInv
  <1>3. QED
    BY <1>1, <1>2, PTL DEF Spec

\* The proxy's state keeps its types, for any contents, writes and signals.
THEOREM TypeCorrect == Spec => []TypeOK
  BY Inductive, PTL DEF ReloadInv

\* However reloads, writes and imports interleave, once the proxy listens what is
\* in force is only ever replaced by what was read later: one valid content, or,
\* if the file was written between the two reads, the settings of a valid content
\* and whatever packs the newer one names, which may be none.
THEOREM NeverGoesBack == Spec => ReplacedByNewerValid
  <1> DEFINE Newer ==
        phase = "running" /\ current' # current =>
          /\ current'.config.version >= current.config.version
          /\ current'.packs.version >= current.packs.version
          /\ \/ current'.config = current'.packs /\ current'.config.content \in Good
             \/ /\ current'.config.version < current'.packs.version
                /\ current'.config.content \in Good \union BadPack
                /\ current'.packs.content \notin BadPack
  <1>1. ReloadInv /\ [Next]_vars => Newer
    <2> SUFFICES ASSUME ReloadInv, [Next]_vars, phase = "running", current' # current
                 PROVE  Newer
      OBVIOUS
    <2>1. PICK i \in Links : Apply(i) /\ current' = [config |-> runs[i].config, packs |-> runs[i].packs]
                                      /\ runs[i].packs.content \notin BadPack
      BY DEF Next, WriteFile, StartPacks, StartImported, StartConfig, StartReloader, Notify,
             WatcherStops, TimerFires, Sighup, Close, Begin, ReadConfig, ReadPacks, Apply, vars
    <2>2. LinkInOrder(runs[i]) /\ runs[i].pc = "import"
      BY <2>1 DEF Apply, ReloadInv, InOrder
    <2>3. /\ current.config.version \in Nat /\ current.packs.version \in Nat
          /\ runs[i].config.version \in Nat /\ runs[i].packs.version \in Nat
      BY DEF ReloadInv, TypeOK, Files
    <2>4. QED
      BY <2>1, <2>2, <2>3 DEF LinkInOrder, Earlier
  <1>2. QED
    BY <1>1, Inductive, PTL DEF Spec, ReplacedByNewerValid

\* If the file is left alone until the proxy listens, a trigger that comes to
\* nothing leaves the file's content in force; unless a write fell into the reload
\* applied last and the file has gone back to an earlier content since.
THEOREM SkipsWhatIsInForce ==
    ASSUME QuietStartup PROVE Spec => SkippedOnlyInForce
  <1> DEFINE Skipped ==
        \A i \in Links :
          runs[i].pc = "queued" /\ runs'[i].pc = "done" /\ ~closed /\ file.content \in Good
            => InForceNow \/ MayDeceive
  <1>1. Init => InForce
    BY DEF Init, InForce
  <1>2. ReloadInv /\ InForce /\ [Next]_vars => InForce'
    BY ForceStep
  <1>3. ReloadInv /\ InForce /\ [Next]_vars => Skipped
    <2> SUFFICES ASSUME ReloadInv, InForce, [Next]_vars, NEW i \in Links,
                        runs[i].pc = "queued", runs'[i].pc = "done", ~closed,
                        file.content \in Good
                 PROVE  InForceNow \/ MayDeceive
      OBVIOUS
    <2>1. Begin(i) /\ Skips
      <3>1. CASE \E j \in Links : Begin(j) \/ ReadConfig(j) \/ ReadPacks(j) \/ Apply(j)
        BY <3>1 DEF ReloadInv, TypeOK, Begin, ReadConfig, ReadPacks, Apply
      <3>2. CASE TimerFires \/ Sighup
        BY <3>2 DEF TimerFires, Sighup, Enqueue, ReloadInv, TypeOK
      <3>3. CASE \/ \E k \in Contents : WriteFile(k)
                 \/ Startup \/ Notify \/ WatcherStops \/ Close \/ UNCHANGED vars
        BY <3>3 DEF WriteFile, Startup, StartPacks, StartImported, StartConfig,
                    StartReloader, Notify, WatcherStops, Close, vars
      <3>4. QED
        BY <3>1, <3>2, <3>3 DEF Next, Startup
    <2>2. file.content = appliedHash.content
      BY <2>1 DEF Skips, Hash
    <2>3. phase = "running"
      BY ReloadAssumption DEF ReloadInv, Chain, Links
    <2>4. PICK h, c, p \in Files : h = appliedHash /\ c = current.config /\ p = current.packs
      BY DEF ReloadInv, TypeOK
    <2>5. Earlier(h, c) /\ Earlier(c, p)
      BY <2>3, <2>4 DEF InForce
    <2>6. CASE h.version = p.version
      <3>1. h = c /\ c = p
        BY <2>4, <2>5, <2>6 DEF Earlier, Files
      <3>2. QED
        BY <2>2, <2>4, <3>1 DEF InForceNow, Hash
    <2>7. CASE h.version < p.version
      <3>1. c.content # h.content \/ p.content # h.content => h.content \in past
        BY <2>5 DEF Earlier
      <3>2. QED
        BY <2>2, <2>4, <2>7, <3>1 DEF InForceNow, MayDeceive, Hash
    <2>8. h.version <= p.version
      BY <2>4, <2>5 DEF Earlier, Files
    <2>9. QED
      BY <2>4, <2>6, <2>7, <2>8 DEF Files
  <1>4. QED
    BY <1>1, <1>2, <1>3, Inductive, PTL DEF Spec, SkippedOnlyInForce
=============================================================================

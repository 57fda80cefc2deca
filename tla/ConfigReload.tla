---------------------------- MODULE ConfigReload ----------------------------
(***************************************************************************)
(* How `prompt-scrub proxy` picks up config.json: the reads at startup and *)
(* the reloads of src/proxy/config-reloader.ts with applyConfig of         *)
(* proxy-server.ts.  Other processes write the file at any moment, also    *)
(* between two of the proxy's reads; everything inside the proxy happens   *)
(* on one event loop, and only an await lets another event in.             *)
(***************************************************************************)
EXTENDS Naturals

CONSTANTS
    Good,          \* contents of config.json that are valid and whose packs load,
    BadPack,       \* that are valid but name a rule pack that does not load,
    Invalid,       \* and that readConfigFile finds errors in
    None,          \* the content of a file that is missing
    MaxVersion,    \* bound on the number of times the file is written
    MaxSignals,    \* bound on the number of SIGHUPs
    QuietStartup   \* is the file left alone until the proxy is listening?

VARIABLES
    file,         \* config.json
    phase,        \* of createProxyServer
    current,      \* scrubState.current: the settings and rule packs in force
    appliedHash,  \* the file whose content was hashed for what is in force
    signals,      \* how many SIGHUPs came
    triggers,     \* how many reloads were asked for
    runs,         \* the links of the promise chain
    watching,     \* does a watcher report changes of the directory?
    notice,       \* a change it has yet to report
    timer,        \* the debounce timer
    closed,
    past,         \* history: the contents the file had before it got another
    signalled     \* history: has a SIGHUP come since the last write?

vars == <<file, phase, current, appliedHash, signals, triggers, runs, watching,
          notice, timer, closed, past, signalled>>
inputs == <<watching, notice, timer, signals, triggers, signalled>>
history == <<past, signalled>>

Contents == Good \union BadPack \union Invalid \union {None}

\* The version counts the writes.  The code sees the content alone.
Files == [version : 0..MaxVersion, content : Contents]
Unset == [version |-> 0, content |-> None]

ASSUME ReloadAssumption ==
    /\ MaxVersion \in Nat /\ MaxSignals \in Nat
    /\ QuietStartup \in BOOLEAN
    /\ Good \intersect BadPack = {}
    /\ Invalid \intersect (Good \union BadPack) = {}
    /\ None \notin Good \union BadPack \union Invalid

\* hashConfigFile
Hash(f) == f.content

Phases == {"packs", "import", "config", "listen", "running"}
RunPCs == {"unborn", "queued", "readConfig", "readPacks", "import", "done"}
NoRun == [pc |-> "unborn", hash |-> Unset, config |-> Unset, packs |-> Unset]
\* A write arms the timer, and the timer fires, once at most.
Links == 1..(MaxVersion + MaxSignals)

Init ==
    /\ file \in {f \in Files : f.version = 0}
    /\ phase = "packs"
    /\ current = [config |-> Unset, packs |-> Unset]
    /\ appliedHash = Unset
    /\ signals = 0
    /\ triggers = 0
    /\ runs = [i \in Links |-> NoRun]
    /\ watching = FALSE /\ notice = FALSE /\ timer = FALSE
    /\ closed = FALSE
    /\ past = {} /\ signalled = FALSE

\* A run between its three reads: no other event is handled until its await.
Synchronous == \E i \in Links : runs[i].pc \in {"readConfig", "readPacks"}

----------------------------------------------------------------------------
(* The file *)

\* Another process writes, replaces, truncates or deletes the file, or puts an
\* earlier content back.
WriteFile(c) ==
    /\ file.version < MaxVersion
    /\ QuietStartup => phase = "running"
    /\ file' = [version |-> file.version + 1, content |-> c]
    /\ notice' = (watching /\ ~closed)
    /\ past' = IF c = file.content THEN past ELSE past \union {file.content}
    /\ signalled' = FALSE
    /\ UNCHANGED <<phase, current, appliedHash, signals, triggers, runs, watching,
                   timer, closed>>

----------------------------------------------------------------------------
(* Startup.  A file that is missing, invalid or names a bad pack counts for *)
(* whatever part of it can be used.                                         *)

StartPacks ==
    /\ phase = "packs"
    /\ current' = [current EXCEPT !.packs = file]
    /\ phase' = "import"
    /\ UNCHANGED <<file, appliedHash, runs, inputs, closed, past>>

StartImported ==
    /\ phase = "import"
    /\ phase' = "config"
    /\ UNCHANGED <<file, current, appliedHash, runs, inputs, closed, past>>

StartConfig ==
    /\ phase = "config"
    /\ current' = [current EXCEPT !.config = file]
    /\ phase' = "listen"
    /\ UNCHANGED <<file, appliedHash, runs, inputs, closed, past>>

\* createConfigReloader, once the server listens.  There is no watcher when the
\* directory does not exist or cannot be watched.
StartReloader ==
    /\ phase = "listen"
    /\ appliedHash' = file
    /\ watching' \in BOOLEAN
    /\ phase' = "running"
    /\ UNCHANGED <<file, current, runs, notice, timer, signals, triggers, closed, history>>

----------------------------------------------------------------------------
(* Triggers *)

EventLoop == phase = "running" /\ ~closed /\ ~Synchronous

\* reload(trigger): one more link on the chain.
Enqueue ==
    /\ triggers + 1 \in Links
    /\ triggers' = triggers + 1
    /\ runs' = [runs EXCEPT ![triggers + 1].pc = "queued"]

\* The watcher's callback arms the timer, or arms it anew.
Notify ==
    /\ EventLoop /\ notice
    /\ notice' = FALSE
    /\ timer' = TRUE
    /\ UNCHANGED <<file, phase, current, appliedHash, signals, triggers, runs, watching,
                   closed, history>>

\* The watcher's 'error', or a file system that reports no more changes.
WatcherStops ==
    /\ EventLoop /\ watching
    /\ watching' = FALSE
    /\ notice' = FALSE
    /\ UNCHANGED <<file, phase, current, appliedHash, signals, triggers, runs, timer,
                   closed, history>>

\* Mutant: a reload under way absorbs the timer.
TimerFiresWhenIdle ==
    /\ EventLoop /\ timer
    /\ timer' = FALSE
    /\ IF \E i \in Links : runs[i].pc = "import"
       THEN UNCHANGED <<triggers, runs>> ELSE Enqueue
    /\ UNCHANGED <<file, phase, current, appliedHash, watching, notice, signals, closed,
                   history>>

TimerFires ==
    /\ EventLoop /\ timer
    /\ timer' = FALSE
    /\ Enqueue
    /\ UNCHANGED <<file, phase, current, appliedHash, watching, notice, signals, closed,
                   history>>

Sighup ==
    /\ EventLoop
    /\ signals < MaxSignals
    /\ signals' = signals + 1
    /\ signalled' = TRUE
    /\ Enqueue
    /\ UNCHANGED <<file, phase, current, appliedHash, watching, notice, timer, closed, past>>

Close ==
    /\ phase = "running" /\ ~closed /\ ~Synchronous
    /\ closed' = TRUE
    /\ timer' = FALSE
    /\ notice' = FALSE
    /\ UNCHANGED <<file, phase, current, appliedHash, signals, triggers, runs, watching,
                   history>>

----------------------------------------------------------------------------
(* run *)

\* Mutant: reloads are not chained.
TurnAlways(i) == i \in Links

\* chain.then: a link starts when the one before it has settled.
Turn(i) == \A j \in 1..(i - 1) : runs[j].pc = "done"

Skips == closed \/ Hash(file) = Hash(appliedHash)

Begin(i) ==
    /\ runs[i].pc = "queued" /\ Turn(i) /\ ~Synchronous
    /\ runs' = [runs EXCEPT ![i].pc = IF Skips THEN "done" ELSE "readConfig",
                            ![i].hash = file]
    /\ UNCHANGED <<file, phase, current, appliedHash, inputs, closed, past>>

\* Mutant: loadConfig, which drops what is invalid, instead of readConfigFile.
ReadConfigLeniently(i) ==
    /\ runs[i].pc = "readConfig"
    /\ runs' = [runs EXCEPT ![i].pc = "readPacks", ![i].config = file]
    /\ UNCHANGED <<file, phase, current, appliedHash, inputs, closed, past>>

\* applyConfig: readConfigFile, whose errors reject the reload ...
ReadConfig(i) ==
    /\ runs[i].pc = "readConfig"
    /\ runs' = [runs EXCEPT
         ![i].pc = IF file.content \in Good \union BadPack THEN "readPacks" ELSE "done",
         ![i].config = file]
    /\ UNCHANGED <<file, phase, current, appliedHash, inputs, closed, past>>

\* ... then loadConfiguredRulePacks, which reads the file again for itself, with
\* loadConfig: a file that is invalid or missing by then names no pack.
ReadPacks(i) ==
    /\ runs[i].pc = "readPacks"
    /\ runs' = [runs EXCEPT ![i].pc = "import", ![i].packs = file]
    /\ UNCHANGED <<file, phase, current, appliedHash, inputs, closed, past>>

\* Mutant: the hash is taken once the configuration is applied.
ApplyThenHash(i) ==
    /\ runs[i].pc = "import" /\ ~Synchronous
    /\ runs' = [runs EXCEPT ![i].pc = "done"]
    /\ IF runs[i].packs.content \in BadPack
       THEN UNCHANGED <<current, appliedHash>>
       ELSE /\ current' = [config |-> runs[i].config, packs |-> runs[i].packs]
            /\ appliedHash' = file
    /\ UNCHANGED <<file, phase, inputs, closed, past>>

\* The packs are imported; a failed one rejects the reload.
Apply(i) ==
    /\ runs[i].pc = "import" /\ ~Synchronous
    /\ runs' = [runs EXCEPT ![i].pc = "done"]
    /\ IF runs[i].packs.content \in BadPack
       THEN UNCHANGED <<current, appliedHash>>
       ELSE /\ current' = [config |-> runs[i].config, packs |-> runs[i].packs]
            /\ appliedHash' = runs[i].hash
    /\ UNCHANGED <<file, phase, inputs, closed, past>>

Run(i) == Begin(i) \/ ReadConfig(i) \/ ReadPacks(i) \/ Apply(i)

Startup == StartPacks \/ StartImported \/ StartConfig \/ StartReloader

Next ==
    \/ \E c \in Contents : WriteFile(c)
    \/ StartPacks \/ StartImported \/ StartConfig \/ StartReloader
    \/ Notify \/ WatcherStops \/ TimerFires \/ Sighup \/ Close
    \/ \E i \in Links : Begin(i) \/ ReadConfig(i) \/ ReadPacks(i) \/ Apply(i)

\* The event loop runs, a watcher that has not stopped reports changes, timers
\* fire and imports settle.  Nobody is obliged to write the file, signal or close.
Fairness == /\ WF_vars(Startup) /\ WF_vars(Notify) /\ WF_vars(TimerFires)
            /\ \A i \in Links : WF_vars(Run(i))

Spec == Init /\ [][Next]_vars /\ Fairness

----------------------------------------------------------------------------
TypeOK ==
    /\ file \in Files
    /\ phase \in Phases
    /\ current \in [config : Files, packs : Files]
    /\ appliedHash \in Files
    /\ signals \in 0..MaxSignals
    /\ triggers \in 0..(MaxVersion + MaxSignals)
    /\ runs \in [Links -> [pc : RunPCs, hash : Files, config : Files, packs : Files]]
    /\ watching \in BOOLEAN /\ notice \in BOOLEAN /\ timer \in BOOLEAN
    /\ closed \in BOOLEAN /\ signalled \in BOOLEAN
    /\ past \subseteq Contents

\* Settings and rule packs are those of the file as it is now.
InForceNow == Hash(current.config) = Hash(file) /\ Hash(current.packs) = Hash(file)

\* The one way a hash in force may deceive: the file was written between the
\* hash and the last read of the reload applied last, and has since gone back to
\* a content it had before.
MayDeceive == appliedHash.version < current.packs.version /\ file.content \in past

\* docs/getting-started/cli.md: a reload "re-reads config.json"; one is skipped
\* when "the file content has not changed since the last successful reload".  A
\* trigger that does nothing leaves the file's content in force, also when the
\* file has gone back to an earlier content, as long as no write fell into the
\* reload that was applied last.
SkippedOnlyInForce ==
    [][\A i \in Links :
         runs[i].pc = "queued" /\ runs'[i].pc = "done" /\ ~closed /\ file.content \in Good
           => InForceNow \/ MayDeceive]_vars

\* "Reloads run one at a time": however long a rule pack takes to import, what is
\* in force is never replaced by what was read of an older file.  What replaces
\* it is one valid content whose packs loaded; or, when the file was written
\* between the two reads, the settings of a valid content with the packs that
\* the newer one names, of which none failed to load.
ReplacedByNewerValid ==
    [][phase = "running" /\ current' # current =>
         /\ current'.config.version >= current.config.version
         /\ current'.packs.version >= current.packs.version
         /\ \/ current'.config = current'.packs /\ current'.config.content \in Good
            \/ /\ current'.config.version < current'.packs.version
               /\ current'.config.content \in Good \union BadPack
               /\ current'.packs.content \notin BadPack]_vars

\* Once the file stops changing and is valid, what it says is in force for
\* good, whatever happened between the proxy's reads of the versions before: if
\* changes are reported, or a SIGHUP came after the last one.
LastSaveInForce ==
    <>[](/\ phase = "running" /\ ~closed /\ file.content \in Good
         /\ watching \/ signalled
         /\ ~MayDeceive)
        => <>[]InForceNow
=============================================================================

# prompt-scrub: a TLA+ model

prompt-scrub replaces sensitive values in prompts by placeholders (`«Email_1»`)
before they reach a language model, keeps the mapping in a *session*, and puts
the values back into the answer. It is a command-line program (`scrub`,
`rehydrate`, `watch`, `sessions ...`) and an HTTP proxy (`prompt-scrub proxy`).
The TypeScript is in `src/src/`; paths below are relative to it.

This directory holds TLA+ modules translated from that code, TLC
configurations that check them on small instances, and proofs that TLAPS checks
for every value of the constants. `PROJECT.json` maps every definition to its
lines of code and lists components, runs, mutants, hazards, findings and theorems.

To check: `tlc -config SessionLock_safety.cfg MCSessionLock`, and so on for the
runs below; `tlapm SessionLockProofs.tla`.

## 1. Inventory

| Component | State | Operations | What is hard | What makes it correct |
|---|---|---|---|---|
| **Session lock** `session/storage.ts` | a lock file and a takeover file per session, their owner and age; `heldLocks` in each process | `withSessionLock`, `createLockFile`, `releaseLock`, `isLockStale`, `breakStaleLock` | mutual exclusion from `open('wx')` and `unlink` by path; processes die anywhere; PIDs are reused; operations are refused | one process at a time in the guarded function; a lock is deleted only if its holder is dead; a dead holder's lock goes away |
| **Session storage** `session/storage.ts` | the session file: plain map, encrypted envelope, damaged, or absent | read, quarantine, write (tmp + rename), delete, garbage collection | read-modify-write by several commands; `rehydrate` takes no lock; age is looked at before and under the lock; encryption is switched between steps | no token for two values, no lost save, no silent plaintext downgrade, gc spares what is fresh |
| **Session manager** `session/session-manager.ts` | map, counters, reverse lookup, reserved names | `createPlaceholder`, `reservePlaceholdersIn`, `rebuildCategoryCounts` | numbering across calls, around tokens the text already carries; numbers at 2^53 | one token per value, tokens keep their meaning, minting returns |
| **Scrub pipeline** `core/scrub.ts` | none of its own | detect, filter by confidence, resolve twice, replace right to left, save | the order of reserving, minting and saving; a list of messages is one call; what a threshold leaves in the clear is worked out from two separate resolutions | what was sent restores to what was meant; what a threshold costs is reported |
| **Collision resolver** `core/collision-resolver.ts` | queue and accepted list of one call | `resolveCollisions` | losers are narrowed and re-queued; locale precedence is not transitive; normalised values cannot be sliced | sorted and disjoint result, nothing leaks that is not documented to, the loop ends |
| **Rehydration** `core/rehydrate.ts` | none | `rehydrate`, `rehydrateString` | values that contain placeholders | known tokens replaced, others left |
| **Proxy requests** `proxy/proxy-server.ts` | per request: body, session, upstream connection, trace | the handler and its completion paths, shutdown | client and upstream fail at any await; many ways to end | one `response` event, no orphaned upstream, own values restored |
| **Proxy session store** `proxy/session-store.ts` | an ordered `Map` of maps | `openSession`, `dropIfEmpty` | eviction while a request still uses the map | bounded, one map per session |
| **Streamed answers** `proxy/response-transform.ts` | buffer, held tails, cached escaped view | `push`, `flush` | placeholders cut by events, events cut by chunks, CRLF cut in two, several texts interleaved, a map that grows | the text is what it would be in one piece |
| **JSON bodies** `proxy/request-transform.ts`, `response-transform.ts`, `json-scrub.ts` | none; the session's map, between calls | walk a request, a whole answer, a streamed answer | three walks with a list of places each; credential keys; literal tokens in any string; the client sends answers back | the documented places and no others; what was restored is scrubbed again to the same token; tools get values |
| **Audit log** `proxy/audit-log.ts` | stream with back-pressure | `write`, `close`, the stream's `error` | records after `close`, a slow disk, a failing one | every request recorded or counted as dropped |
| **Metrics** `proxy/metrics.ts` | counters and a gauge | `observe` | the in-flight gauge over every completion path | gauge = requests without their response |
| **Config reload** `proxy/config-reloader.ts`, `core/config.ts` | settings in force, hash last applied, promise chain, debounce timer, watcher | watch, SIGHUP, `applyConfig`, `close` | the file changes between two reads of one reload, and may go back to an earlier content; triggers during an import; no watcher | last valid content in force, never an older one, no trigger wrongly skipped |
| **Rule packs and locales** `core/rule-packs.ts`, `core/locale.ts` | the loaded packs | `loadConfiguredRulePacks` | reads the file for itself | as above |
| **Watch mode** `cli/commands/watch.ts` | `lastFileContents`, the polling timer | `watchFileStep`, `watchClipboardStep` | ticks overlap; the user edits meanwhile | `.bak` holds what is overwritten; ends clean and at rest |
| **Encryption and keys** `core/crypto.ts`, `key-manager.ts` | cached keys | `resolveKey`, `encryptWithKey`, `decryptWithKey` | the key is resolved before the lock, used after | opens only with its passphrase |
| **Session commands** `cli/commands/` | none | `rm`, `gc`, `encrypt`, `--rekey` | see storage | see storage |
| **Detectors**, **reports and configuration commands**, **terminal I/O** | none kept | regular expressions; read and print | - | not modelled |

How they interact: `scrub` resolves its key, takes the session lock, reads the
session through the storage, mints through the session manager for what the
resolver kept, writes and releases the lock. The garbage collector and the session commands take
the same lock; `rehydrate` does not. The proxy has no files: requests share maps
in memory, one event loop runs them all, and they meet in the store, the metrics and
the audit log. The reloader replaces the settings that later requests read.

## 2. Modules

| Module | Models | State and actions |
|---|---|---|
| `SessionMutex` | the abstract lock: what `withSessionLock` promises | `holders`; `Acquire`, `Leave` |
| `SessionLock` | the lock protocol | the two files by path (creator, owner written, age), each process's program counter, `check`/`seen` = locals of `isLockStale`, `held` = `heldLocks`. One action per file-system call; `Verdict` is the return of `isLockStale` |
| `SessionStore` | a session on disk under several commands | `disk`, `encOn`, and for each command its key, the map it read, what it minted; the lock is one step, as `SessionMutex` allows. Looking whether there is a file (`Exists`), reading it, renaming a bad one (`Quarantine`), the second look of `gc` and `rm` (`Recheck`) and the `Unlink` are steps of their own |
| `Placeholders` | numbering and restoring over a session's life | `map`, `reserved`, `counts`; `StartCount`, `TryNext`, `Mint` are the loop of `createPlaceholder` |
| `CollisionResolver` | `resolveCollisions` | `queue`, `accepted`; an iteration is `Accept`, `Displace` or `Lose` |
| `DetectionThreshold` | `runDetectors`, over `CollisionResolver` | `below`, `kept`, `suppressed`; `Resolve` is a step of the resolver, in either pass |
| `ChatBodies` | the walks over chat bodies, over a conversation | a place is a path of keys; `Reached`, `RestoredInJson`, `RestoredInStream` say which places a walk gets to; `Compose` (the client), `Request`, `Answer`, `Evict` |
| `ProxyServer` | requests, store, metrics' gauge, audit log, shutdown | an action is what runs between two awaits; `listeners` has what is registered for the 'close' of a response and on the abort signal, and `ClientCloses` runs them |
| `SseRehydrator` | `createSseRehydrator` | `buffer`, `tails`, `escaped`; `Push` a chunk, `EmitEvent`, `EndStream` and `Orphans` = `flush` |
| `ConfigReload` | startup reads, watcher, debounce, SIGHUP, chained reloads, close | `file`, `current`, `appliedHash`, `watching`, one record per link of the promise chain. A file is a content and a version: the code compares contents, the properties versions |
| `WatchMode` | `startPolling` and `watchFileStep` | `file`, `backup`, `lastContent`, one program counter per tick in flight |
| `MC*` | values for the constants, symmetry | - |
| `*Proofs` | theorems; each begins with what it needs of numbers and sequences | - |

`SessionLock` implements `SessionMutex` (`Mutex == INSTANCE SessionMutex WITH
holders <- ...`, run `lock_safety`, theorem `Refinement`); `SessionStore` uses
the abstract lock, so the two together stand for the commands over the files.
`Placeholders` and `SessionStore` split the session: the first has the names and
texts of one writer at a time, the second has many writers and one category of names.
`DetectionThreshold` extends `CollisionResolver` and runs it twice. `ChatBodies` has one
request at a time and every string of its body; `ProxyServer` has many requests with one string each.

Each module starts with what it abstracts. Operators under a `\* Mutant:`
comment are not part of a specification: each is a variant of the definition it
precedes, with a bug one could plausibly write, and is what shows that a property
can fail (`PROJECT.json`, "mutants").

## 3. Runs

| Run | Module, configuration | Properties | States | Shows |
|---|---|---|---|---|
| `lock_safety` | `MCSessionLock`, `SessionLock_safety.cfg` | `MutualExclusion`, `LockIntact`, `DeletesOnlyDeadLocks`, `ImplementsMutex` | 625,201 | Four processes, one with a PID that is reused after its death, under refused file operations and crashes: the lock excludes, is never deleted under its holder, and implements the abstract lock. Processes may all be dead, so the system may stop. |
| `lock_recovery` | `MCSessionLock`, `SessionLock_recovery.cfg` | `DeadLockCleared` | 35,712 | Three processes with abandoned takeover files and the gcSessions sweep: a dead process's lock is cleared while some process keeps retrying. |
| `store` | `MCSessionStore`, `SessionStore_store.cfg` | `TypeOK`, `OneValuePerToken`, `EmittedIsRestorable`, `SaveExtendsDisk`, `GcSparesFresh`, `NoPlaintextDowngrade` | 2,136,964 | Two commands of every kind on one session, under two passphrases, with crashes, a damaged file and the encryption option switched at any step: no token stands for two values, printed tokens can be restored, no save loses another, gc spares a session saved in time, and no encrypted session is rewritten in the clear. |
| `store_quarantine` (violated) | `MCSessionStore`, `SessionStore_quarantine.cfg` | `OneValuePerToken` | - | No file is ever damaged: rehydrate, which takes no lock, sees the file, `sessions rm` deletes it, the read fails, and the quarantine that follows renames the good file a scrub has saved meanwhile; the next scrub numbers from 1 again. |
| `config_reload` | `ConfigReload`, `ConfigReload_reload.cfg` | `SkippedOnlyInForce`, `ReplacedByNewerValid`, `LastSaveInForce` | 2,178,300 | Three writes of the file at any moment after startup, also between two reads of one reload and back to an earlier content, a SIGHUP, and a watcher that may be absent or stop: what is saved last ends up in force, nothing older or rejected does, and no trigger is wrongly skipped, but in the case `MayDeceive` names. The file is written a bounded number of times, so the system stops. |
| `proxy_requests` | `MCProxyServer`, `ProxyServer_requests.cfg` | `TypeOK`, `ExactlyOneResponse`, `RestoresOwnValues`, `StoreSound`, `AuditAccountsForAll`, `NoOrphanUpstream` | 396,561 | Three requests in two sessions over a store of one, with clients and the upstream failing at any moment, detectors that throw and a shutdown: one response event each, own values restored after an eviction, no orphaned upstream, a complete audit trail. Every request comes once, so the system stops. |
| `scrub_session` | `MCPlaceholders`, `Placeholders_scrub.cfg` | `TypeOK`, `RoundTrip`, `OnePlaceholderPerValue`, `MapOnlyGrows`, `MintReturns` | 362,010 | Three calls of up to two messages in one session, on disk and in the proxy, with texts that carry placeholders already: what is sent has no value in it and restores to what was meant, a value keeps one placeholder, and minting returns. |
| `collisions` | `MCDetectionThreshold`, `DetectionThreshold_detect.cfg` | `SortedAndApart`, `NarrowedNotDropped`, `OnlyFoundTextRedacted`, `SuppressedIsWhatIsLeft`, `NeverWeakened`, `Closer`, `Detected` | 1,484,940 | Every three findings of four categories of three priorities on a text of five characters, up to two of them below the threshold, with normalised values and locale findings: both passes are sorted and apart, no turn leaves a character to a weaker finding, nothing leaks but in the documented cases, what the threshold leaves in the clear is reported, every turn comes closer to the end, and the call ends. |
| `collision_locale` (violated) | `MCCollisionResolver`, `CollisionResolver_locale.cfg` | `LocaleNeverShrinks` | - | A locale finding displaces a built-in one it covers and then loses to another, so the first one's text is left in the clear. |
| `sse_stream` | `MCSseRehydrator`, `SseRehydrator_stream.cfg` | `AsIfInOnePiece`, `DeliveredWhole` | 2,764,318 | Every content of three characters beside a tool call, in every cut into events and chunks, with three event terminators, a session that grows meanwhile and a stream that ends early: the client gets the text as if it had come in one piece. The upstream has a bounded text to send, so the stream stops. |
| `chat_bodies` | `MCChatBodies`, `ChatBodies_chat.cfg` | `AsDocumented`, `EchoStable`, `MeaningKept`, `ClientGetsValues` | 1,223,386 | Two requests of a conversation and the answer between them, for either provider, with a string of every kind of place and every answer whole or streamed, an eviction, and literal tokens: the documented places are scrubbed and the others left, the model gets its own words back with the same tokens, what goes out restores to what was meant, and the client's tools get values. The conversation ends. |
| `watch_file` | `WatchMode`, `WatchMode_file.cfg` | `OverwrittenIsBackedUp`, `SettlesClean` | 124,813 | Three overlapping ticks on one file that is edited four times and whose scrub throws twice: what a tick overwrites is in the .bak, and once the edits stop the file ends up clean and left alone. The user stops editing, so the system may stop. |

### The bounds, and why they are enough

* `lock_safety` has four processes: a dead holder, a waiter in the takeover, a
  second waiter, and a process that takes the lock meanwhile. All four
  roles can meet in one behaviour; the theorems are for any number. One
  process's PID is reused after its death, so a dead lock may look alive.
  Deaths are final; a restarted program is one of the other processes.
* `lock_recovery` is without symmetry, for a liveness property, with three processes: a dead one
  and two who compete. `Abandon` and `GcSweep` are on, so a takeover file may
  stay behind and be cleared by `TkClear` or by the sweep.
* `store` has every command on two processes, two values and two indices, enough for two
  writers to conflict, two passphrases, two kinds of damage, and the option switched at any
  step. Commands start over as often as they like, so a third command is one of the two again. `Calm` is
  an assumption: the file is not damaged under the lock, and nothing is saved while
  a failed read waits to rename the file. Without the second half the finding below is met;
  `store_quarantine` drops it, and needs three commands, two at a time, no damage and no key.
* `scrub_session` has calls of one or two messages with two atoms each and a
  literal at the highest number a text is given (`Highest`), so that the loop
  meets taken names above and below. `MaxIndex` is above what three calls reach.
* `collisions` lets three findings of four categories, at three levels of priority, fall
  anywhere on five positions, one of them blank: chains where A loses to B and B to C, findings
  inside, across and beside others, and remains on both sides. The category at the middle level
  is always normalised to one character, so that it cannot be sliced. Any two findings may be
  below the threshold. Every start of the queue is an initial state.
* `chat_bodies` has, per provider, one place of every kind the comments of the walks name, those they leave
  alone, and some past the depth cap, which is 2 (64 in the code), deep enough for a nested
  `tool_result` and for a key two levels above its string. The client writes two strings, the first anywhere and the second
  in prose, in a tool description or under a credential key (`FollowUps`): two strings already
  meet over one token in either order of the walk. Two requests with an
  answer between them close the loop of restoring and scrubbing again; the session may be evicted in between.
* `proxy_requests` has three requests in two sessions over a store of one, so a
  session is evicted and begun anew while its first request still waits. `HighWater`
  is 2, so the third record meets back-pressure. A client may hang up before and after
  each hand-over of its response.
* `sse_stream` takes every text of three characters beside a tool call with two
  placeholders, one of which becomes known only meanwhile, every cut of it into
  events and every cut of the wire into chunks. The next event is sent while fewer than four
  symbols are on the wire (`MaxAhead`): a chunk may end one event, carry the whole of
  the next and cut a third, but not carry three whole ones. `MaxHeldTail` is 2, the first two
  characters of a placeholder, so a longer tail is let go (in the code, 48 characters).
* `config_reload` has three writes after startup and one SIGHUP: a write before,
  during and after a reload's reads, with a trigger already queued. There are two good contents,
  a bad pack, an invalid file and a missing one. A write may put any earlier content back, and three
  are enough for the file to go from B to C and to B again under one reload. The watcher may be
  absent from the start, or stop.
* `watch_file` has three overlapping ticks, four versions (one has nothing to
  scrub) and two failures.

Where a run turns deadlock checking off the system may really stop: every process
may be dead, every request answered, every edit made. `SessionStore` never stops,
and its runs check for deadlock.

### Fairness

* `SessionLock`: a process inside a call goes on (weak fairness of `Step`) and
  files grow old (weak fairness of `GrowOld`). `TkAcquired` needs strong
  fairness in form only: it competes with `TkWriteFails`, a full disk, which must not
  strike for ever. Nobody has to call, retry or die; `DeadLockCleared` assumes
  that some process keeps retrying. It excludes processes with a reused PID: a dead
  lock whose PID is in use again is never judged stale by `isLockStale`.
* `ConfigReload`: startup ends, a watcher that has not stopped reports a change, timers
  fire, imports settle. Writes, signals, `close` and the watcher's end are free, so
  `LastSaveInForce` is only about behaviours in which a watcher remains or a SIGHUP comes after the last write.
* `WatchMode`: the interval keeps firing, and a tick that has begun ends.
* `Placeholders` and `DetectionThreshold`: a synchronous call goes on. `ChatBodies`,
  `SessionStore`, `ProxyServer` and `SseRehydrator` state no liveness property and assume nothing.

## 4. Proofs

| Theorem | Property | Says |
|---|---|---|
| `TypeCorrect` (`SessionLockProofs`) | - | The lock's state keeps its types, for any processes and any environment. |
| `LockExcludes` (`SessionLockProofs`) | `MutualExclusion` | No two processes run the guarded function at once, for any number of processes, under Prompt: live holders release in time, no takeover file is abandoned, no sweep. |
| `LockStays` (`SessionLockProofs`) | `LockIntact` | Under Prompt, the file at the lock's path is its holder's own from the open to the unlink. |
| `DeletesDeadLocks` (`SessionLockProofs`) | `DeletesOnlyDeadLocks` | Under Prompt, a waiter deletes only a lock no living process holds. |
| `DeletesAlone` (`SessionLockProofs`) | - | Under Prompt, at most one waiter at a time is about to delete the lock. |
| `Refinement` (`SessionLockProofs`) | `ImplementsMutex` | Under Prompt, every step of the lock protocol is a step of SessionMutex or a stutter. |
| `TypeCorrect` (`SessionStoreProofs`) | `TypeOK` | The session file, what each command holds of it and what was printed keep their types, for any processes and any damage. |
| `TokensStandForOne` (`SessionStoreProofs`) | `OneValuePerToken` | No printed token ever stands for another value, for any number of commands, values and passphrases, under Sound: no read fails on a sound file, and the two assumptions of Calm. |
| `PrintedIsSaved` (`SessionStoreProofs`) | `EmittedIsRestorable` | Under Sound, every printed token is on disk with its value, until the session is deleted, by gc included, or its file is damaged. |
| `SavesExtend` (`SessionStoreProofs`) | `SaveExtendsDisk` | Under Sound, a save keeps every mapping that other commands have saved. |
| `FreshIsSpared` (`SessionStoreProofs`) | `GcSparesFresh` | Under Sound, a session gc deletes is expired at the unlink, not only when gc looked. |
| `StaysEncrypted` (`SessionStoreProofs`) | `NoPlaintextDowngrade` | Under Sound, no command replaces an encrypted session by a plain one. |
| `TakeTurns` (`SessionStoreProofs`) | - | What the commands do between Lock and Unlock is a step of SessionMutex or a stutter, for any number of commands and any damage: the lock as one step is the abstract lock that SessionLock implements. |
| `TypeCorrect` (`ConfigReloadProofs`) | - | The reloads' state keeps its types, for any number of writes and signals. |
| `NeverGoesBack` (`ConfigReloadProofs`) | `ReplacedByNewerValid` | However reloads, writes and imports interleave, what is in force is only replaced by what was read later: one valid content whose packs loaded, or, if the file was written between the two reads, the settings of a valid content with the packs the newer file names, which are none if that one is invalid or missing. |
| `SkipsWhatIsInForce` (`ConfigReloadProofs`) | `SkippedOnlyInForce` | A trigger that comes to nothing leaves the file's content in force, also when the file has gone back to an earlier content, for any number of writes and signals, if the file is left alone during startup; excepted is a file back at an earlier content after a write fell into the reload that was applied last (MayDeceive). |
| `TypeCorrect` (`ProxyServerProofs`) | `TypeOK` | Requests, sessions, maps, metrics and audit log keep their types, and the audit stream never buffers more than its high-water mark, for any number of requests. |
| `StoreStaysSound` (`ProxyServerProofs`) | `StoreSound` | For any size of the store and any order of requests, it stays within its bound, with one map for a session and none that is empty, but for maps that a detector threw on. |
| `OneResponse` (`ProxyServerProofs`) | `ExactlyOneResponse` | Every request has exactly one response event, and the gauge counts those without, for any number of requests. |
| `OwnValuesComeBack` (`ProxyServerProofs`) | `RestoresOwnValues` | For any requests, sessions and values, and any size of the store, an answer is rehydrated to the client's own value, whatever was evicted meanwhile. |
| `EveryRecordCounts` (`ProxyServerProofs`) | `AuditAccountsForAll` | The audit log takes every request's record or counts it as dropped, as long as its file does not fail. |
| `UpstreamGoesWithClient` (`ProxyServerProofs`) | `NoOrphanUpstream` | Whenever a client hangs up, the listeners its response has by then, over every hand-over between onClientClose, the abort listener, dropUpstreamIfClientGone and the stream's own, end the upstream; and a request that is done leaves none open. |
| `MapGrows` (`PlaceholdersProofs`) | `MapOnlyGrows` | A placeholder, once in a session's map, keeps its value for ever, for any values, texts and number of calls. |
| `OneEach` (`PlaceholdersProofs`) | `OnePlaceholderPerValue` | A value never gets a second placeholder in a session. |
| `TypeCorrect` (`PlaceholdersProofs`) | `TypeOK` | The map, the counters and every call keep their types, for any values, texts and number of calls. |
| `RoundTripHolds` (`PlaceholdersProofs`) | `RoundTrip` | What a call sends carries no value, and restores to what was meant: at once on disk, for as long as the session lives in the proxy; for any values, texts and number of calls. |
| `FirstOverlapIsLeftmost` (`CollisionResolverProofs`) | - | Of findings in order and apart, the first to end after the candidate starts is the leftmost it overlaps, if there is one. |
| `PartsAreShorter` (`CollisionResolverProofs`) | - | Every part of a loser is strictly shorter than it was, also one whose end slice counts from the end of the value. |
| `DetectedApart` (`CollisionResolverProofs`) | `SortedAndApart` | For any text, findings and priorities, at every turn of both passes the accepted findings are in order and apart, and the parts are findings in the text. |
| `DetectedOnlyFound` (`CollisionResolverProofs`) | `OnlyFoundTextRedacted` | For any text, findings and priorities, a character is redacted as a category only if a finding of that category covered it. |
| `DetectingWeakensNothing` (`CollisionResolverProofs`) | `NeverWeakened` | For any text, findings and priorities, no turn leaves a character to a weaker finding or to none, but where a loser is dropped. |
| `DetectedNarrowedNotDropped` (`CollisionResolverProofs`) | `NarrowedNotDropped` | For any text, findings and priorities, a character that only findings cover which meet none that may be dropped, and none of a category of equal priority, is redacted in the end, as the strongest of what it was found as. |
| `SuppressedIsLeft` (`CollisionResolverProofs`) | `SuppressedIsWhatIsLeft` | For any text, findings and priorities, what such findings below the threshold cover and no kept one does is reported, and nothing is that kept ones cover. |
| `DetectingComesCloser` (`CollisionResolverProofs`) | `Closer` | For any text, findings and priorities, every turn of both passes lowers a measure in the natural numbers, or keeps it and shortens the queue, though the total length may grow: the argument why the loop ends. |
| `OnePiece` (`SseRehydratorProofs`) | `AsIfInOnePiece` | For any answers and placeholders, however texts were cut into events and events into chunks, and whatever came in between, the client has each text restored as if it had come in one piece, but for a tail of at most MAX_HELD_TAIL characters. |
| `WholeAnswers` (`SseRehydratorProofs`) | `DeliveredWhole` | For any answers, placeholders and blank lines an upstream may end its events with, wherever chunks were cut, also within a CRLF: a stream that ended in order has delivered every answer whole and nothing but events. |
| `TypeCorrect` (`WatchModeProofs`) | - | The watch's state keeps its types, and only sensitive versions are ever rewritten. |
| `BacksUp` (`WatchModeProofs`) | `OverwrittenIsBackedUp` | For any number of overlapping ticks, the .bak holds what a write replaces, when no edit falls between the copy and the write. |

**Session lock.** `MutualExclusion` is not inductive: it is a consequence of
who owns which file. `IInv` says that a holder's file is at the lock's path (`LockIntact`), that
the process in the takeover owns the takeover file and the file is there only while a process
is (`TakeoverIntact`, `TakeoverInUse`), that a file past `LOCK_STALE_MS` is not in
use (`OldIsIdle`), that the two unguarded deletions are unreachable (`NoUnguardedDelete`),
that nobody removes the old lock under the one who judges it a second time
(`ProbesOldLock`), and that what is deleted is dead
(`DeletesOnlyDeadLocks`). Exclusion follows because one path has one creator.
The theorems assume `Prompt`, three conditions the comments of
the code rely on: no live process holds a lock past `LOCK_STALE_MS`, no takeover
file outlives the call that created it, and no sweep of `gcSessions` deletes
lock files in use. They are needed: with any one of `SlowHolders`, `Abandon`, `GcSweep`
TLC finds `LockIntact` violated. `docs/features/session-management.md:35`
says that locks are held for milliseconds, the first condition.
`TypeCorrect` assumes none of them.

**Placeholders.** `MapGrows` needs no invariant: literals are entered only
where there is no entry, and a name is minted only when free. `OneEach` needs
`UniqueInv`: while `createPlaceholder` searches, it is for a value without a
placeholder (`SearchIsForNewValue`), as nothing else changes the map meanwhile.
`TypeCorrect` is of weight for the call's position and its counters, which are rebuilt
by `Math.max` (`MaxIsGreatest`). `RoundTripHolds` needs
`RestoreInv`, which says of a call under way what `RoundTrip` says of one that has
returned: every atom of a message, as it came and as it is by now, restores to what was meant, and
every token among them is claimed, in the map or among the reserved names, so that `Mint` cannot hand it
out for another value. In the proxy the literals of earlier messages are in the map, which only grows;
on disk they are reserved for the call only, which is why `Restorable` ends with it there.

**Collision resolver.** The loop takes a finding out of one sequence and puts pieces of it back
into the other. `ResolveInv` says that both hold pieces in the text all of whose characters were found
as their category (`Traced`), that the queue is in order, and that any two accepted findings are apart. The
last is what `firstOverlap`'s binary search needs in order to find an overlap if there is one
(`FirstOverlapIsLeftmost`, the comment at `collision-resolver.ts:193`), and so what makes the next step
keep them apart: `DetectedApart`, over both passes. `DetectedOnlyFound` is from `Traced`.
`DetectingWeakensNothing` follows a character through one turn: the part that has it
is pushed, or the winner has it.

`DetectedNarrowedNotDropped` is about several turns. Text can be dropped only where two pieces of one
category meet, and two pieces of one finding may meet: when the winner starts before the loser, `slice`
counts from the end of the value, and the part it gives overlaps the true remainder. What makes it harmless is
the order of the loop, which sweeps over the text: an accepted finding that still has to fight starts at
the sweep `s`, and the queue is behind it, but for one piece that lies before it (`SweptTo`). `NarrowInv`
says where every piece of a solid finding comes from (`Origin`); that where it meets another piece of the same
finding each character between `s` and it is under a stronger piece (`Guarded`, `Safe`); and that every character of
a solid finding is still followed by a piece of it, or redacted as something as strong (`Followed`). Were a guarded
piece to meet one that starts at `s` and ends before it, the character at `s` would be under a stronger one, and there
is none; so of two pieces of one finding that meet, one lies in the other, and the longer wins. `Solid` names what is
excepted: a finding that overlaps one which may be dropped, or one that ties with another category, as the argument
needs priorities that differ (`StrictlyStronger`); section 5 has a behaviour for either that loses text. The exception for ties may be wider than
needed: no loss is known to us in which no tied finding starts with a blank.

`SuppressedIsLeft` adds that `kept` is in order and apart (`KeptInv`), and what `isCovered` computes: that its cursor
can be run over any number of findings is by a least counterexample (`CursorExists`), and so is that it never
goes back (`CursorGoesOn`); a span is covered just if all of it is under kept findings (`CoveredIsSpanned`).

`DetectingComesCloser` takes the place of the comment's argument for termination (`:247`), which is not true (section 5).
Every part `subtract` gives is strictly shorter than what it is a part of, negative `slice` bounds included
(`PartsAreShorter`), but there may be two that overlap. So a length is given a `Weight`, more than two of any
shorter one (`TwoShorterAreLess`), and `Load` is the sum over a sequence: that of both falls when a loser is replaced
by what is left of it, and stays when the candidate is accepted, which makes the queue shorter. Such a pair of natural
numbers cannot fall for ever. That the loop therefore ends needs ENABLED, and `Detected` stays with TLC.

Nothing is assumed but `CollisionAssumption`, so the theorems hold for any priorities, lengths and locales.

**Streamed answers.** `OnePiece` rests on what `Restored` computes for every text. Its recursion is unfolded
once (`From`): each place is a `Step` from the later ones. That there is such a function, and only one, and
that what holds of a text's end holds of all of it, is shown by a least counterexample
(`LeastExists`, `CourseOfValues`). From it: a text without a closing guillemet is left alone
(`NothingToRestore`), placeholders that are not in it do not matter (`OtherNames`), and two texts with no placeholder
across the cut are restored each by itself (`RestoredInParts`). The invariant, `InParts`, says that what came is a text
that was let go, and a tail; that the first has been restored; and that no placeholder begins in
it that could end in what comes next: it `EndsWhole`, or the tail begins with an open guillemet. `LetGo` keeps it, which is the
argument the comment of `splitAtOpenPlaceholder` makes. It takes `MaxHeldTail >= 2`,
as a placeholder longer than that is cut (section 5), and the escaped view to be current whenever
it is read (`EscapedIsKnown`): the map only grows, so equal sizes are equal maps.
`WholeAnswers` is about the framing. `Carries` says which lines are whole events, and what texts they carry: the least
relation with no events and closed under an event more at the front, from which follows that one
more may come at the end (`CarriesLast`). The invariant, `FrameInv`: while the stream is open, buffer
and wire together are whole events; once it has ended in order, the buffer is whole events and the line ends that
`flush` added; and what was transformed, what the events carry and what is yet to be sent are together an answer
(`OnItsWay`). That `EmitEvent` then takes exactly the first event is `TakeFirst`: cut anywhere before
its end, a block has no blank line, as a final CR waits (`CutShort`); whole, it has one, at its end, and
takes no line end more unless `flush` put one there (`WholeBlock`). Of the upstream it assumes what
server-sent events have: it ends every event with one blank line, of the eight that `EVENT_BOUNDARY` matches.

**Watch mode.** `BacksUp` needs `BackedUp`: with `--backup`, while a tick stands between the copy
and the write, the file is what was copied. This holds because both calls
are synchronous, and under `QuietWrites`: no other program writes the file between them. Without it TLC
finds the edit that is lost.

**Session store.** None of its properties is inductive, as each relates the file to what some
process read from it earlier. `StoreInv` says what holds in between: whoever touches the file other than
`rehydrate` has the lock (`UnderLock`); a process between its read and its write works on a map that
extends the file's by what it has minted, with one value per token (`WorkingCopy`); what it owes its
reader is in that map, and on disk once it has written (`OwedIsSaved`); what has been printed is on disk;
and what was decided from an earlier look, that the session is expired (`SeenExpired`) or is to be sealed
(`SealedIfEncrypted`), is still true when acted on. `Typed` has the types for any damage. The rest assumes
`Sound`: `Calm`, without which run `store_quarantine` finds a
session lost, and no read that fails on a sound file, the case described in section 5. `TakeTurns`
needs neither: what the commands do between `Lock` and `Unlock` is a critical section of `SessionMutex`, whatever
is damaged, fails or dies. `SessionLock` implements the same module, which is what
allows `SessionStore` to take the lock in one step.

**Config reload.** `ReplacedByNewerValid` needs that a link at work has only settled ones before
it (`Chain`), so that no other applies meanwhile, and that what it has read is no older than what is in force
and no newer than the file (`InOrder`). It says what is valid about a replacement, and not more: it is one
valid content with its packs, or the settings of a valid content with the packs a newer file names, which may be
none (section 5). The code compares contents, which may return, so `SkippedOnlyInForce` cannot be
argued from versions alone. `Earlier` orders the reads: `f` was read no later than `g`, and if the
contents differ the file has left `f`'s (`past`). `InForce` says that the applied hash, the settings and
the packs were read in this order, the file last. If the file now has the content of the applied
hash, and settings or packs another, that content has been left and come back, and a write fell between the hash and
the last of the two reads: this is `MayDeceive`, where the code skips a trigger it should not
(section 5). In every other case a skipped trigger leaves the file's content in force. The theorem assumes `QuietStartup`.

**Proxy.** `RestoresOwnValues` needs `OwnMap`: while the upstream works, the map the request was
scrubbed against, which need not be its session's any more, has the value at the placeholder
that was sent. Maps only grow (`MintExtends`) and none that a request refers to is
collected. `ExactlyOneResponse` and `AuditAccountsForAll` need that requests under way have had no response event
(`OneEach`, `Gauge`). The store plays no part in these theorems: eviction is irrelevant to them.
`NoOrphanUpstream` is about three hand-overs: `onAbort` goes when the headers come, `onClientClose` goes when
an answer is streamed, and `pipeStreamingResponse` or `dropUpstreamIfClientGone` comes in their place.
`Watched` says which listeners a request has at each point of the way, so that whenever the response emits 'close'
they reach the upstream. Between the headers and the next line of the handler neither `onAbort` nor
`dropUpstreamIfClientGone` is there; that no 'close' falls in between is because a promise that is settled goes on before
the next callback (`Microtask`). Were a callback to come in between, the immediate call at `proxy-server.ts:620`
would still end the upstream of an answer in one piece, but nothing that of a stream.
`StoreStaysSound` follows the store through an `openSession` and a `dropIfEmpty`: the
entry just opened is the last, so it survives the cut (`OpenedEndsIn`); a map that is empty after
scrubbing was empty before, as maps only grow, and so was in no entry but that one, unless a detector threw
on it (`threw`, section 5). `TypeCorrect` includes that the
audit stream never buffers more than `HighWater` records, from `SinkInv`: a stream that need not drain is
below the mark. Nothing is assumed of the constants but `ProxyAssumption`.

**Model-checked only.**

* Liveness (`DeadLockCleared`, `MintReturns`, `Detected`, `LastSaveInForce`, `SettlesClean`), which needs ENABLED.
* The four invariants of `ChatBodies`: its walks over paths and texts are `RECURSIVE` operators and folds, what they compute
  for every body is induction over data.
* The properties of the runs that expect a violation, which are false.

## 5. Findings

1. **A locale finding can leave text in the clear** (run `collision_locale`,
   `core/collision-resolver.ts:74`). A finding with a locale displaces one of its
   category which it covers; the loser is dropped, being a rival. A second one that
   overlaps it only in part then displaces it. The first one's text is no longer
   covered by anything. `docs/features/detectors.md:157` promises that nothing
   previously covered is left in the clear.
2. **`rehydrate` can quarantine a good session** (run `store_quarantine`,
   `session/storage.ts:109`). It takes no lock. It sees the file (`:78`), `sessions rm`
   deletes it, the read fails, and what is at the path by then, which may be what a
   `scrub` has saved meanwhile, is renamed. No file needs to be damaged. The next
   scrub starts from nothing and gives a token a second meaning.

What else came up while modelling, and no run states:

* A finding can be lost with the one that covered it (`collision-resolver.ts:289`). Inside one of a stronger
  category it leaves nothing when it loses. If the stronger one then meets a rival of its own category, or cannot be
  sliced, it is dropped, and nobody redacts the text of the first. With a ticket [0,1), a secret [0,2) and a secret
  [1,4), character 0 is in the clear, though the ticket meets neither of the exceptions that
  `docs/features/detectors.md:159` lists. Hence `NarrowedNotDropped` speaks of characters that only solid findings cover.
* Narrowing can lose text (`collision-resolver.ts:122`). If the winner starts before the loser, the end of the first
  bound is negative, and `slice` counts it from the end of the value: beside the true remainder there is
  a part that lies partly under the winner. Normally it meets the winner again and shrinks away. Two behaviours in which
  it does not are why `Solid` excepts more than `Droppable` findings; both are against the comment at `:95` and
  `docs/features/detectors.md:159`.
  * The winner is dropped meanwhile. Let k = [0,3) have a normalised value, f = [1,5) a lower priority and
    m = [1,2) a higher one than both. f loses to k and becomes [1,4) and [3,5); m displaces k, which cannot be sliced;
    [1,4) loses to m and becomes [2,4), which is accepted; [3,5) is dropped as its rival. Character 4 is in the
    clear, though f met no rival. With `Solid(f) == ~Droppable(f)` and `Blanks = {}` TLC finds this.
  * Two categories tie, as those of two rule packs do, and the longer value wins. In a text of eight characters, of which
    2 and 3 are blank, let there be a secret [0,2), findings [1,8) and [2,6) of two rule packs, and an address [1,5). No two
    share a category, and no value is normalised. [1,8) is narrowed to [4,8) and several parts that overlap it; the
    other rule pack's finding wins over [4,8), which leaves [6,8), and then loses to the part [4,7), which leaves [5,7) after the
    address; [6,8) is dropped as its rival. Character 7 is in the clear. A run of `CollisionResolver` with these
    `Inputs` shows it.
* For the same reason the total length need not fall: [1,3), losing to [0,2), leaves [1,2) and [2,3), as long
  together as it was, and longer losers leave more. The comment at `:247` has the loop end because
  the total "strictly decreases each time an overlap is resolved". It ends for another reason (`Closer`).
* A dead lock with a reused PID, or beside an abandoned takeover file whose PID
  is reused, makes every later command time out until the file is removed by hand or swept.
* Against a file that is sound but cannot be read for a moment (`Damage`
  containing `"readError"`), `NoPlaintextDowngrade` fails: `isSessionEncrypted` answers
  no and `readSessionMap` quarantines. It needs a failing read, so the runs leave it out.
* An encrypted file that parses but is no longer an envelope is read as a plain map
  (`storage.ts:92`), whereas the comment at `:72` says such a file is not trusted.
* `sessions encrypt --rekey` opens the session with the passphrase it seals it with, so
  it renews the salt and never changes the passphrase.
* With a literal numbered 2^53 in the text, adding one changes nothing
  and `createPlaceholder` does not return: `MintReturns` fails with
  `MaxIndex = Highest = 3`.
* On disk, tokens a text carries by itself are reserved for one call only
  (`RoundTrip` covers the last call there, all calls in the proxy).
* `rehydrateString` replaces one token after another, so a value that contains a
  known placeholder is rewritten again (`Restore` in `ChatBodies`).
* `rehydrateOpenAIStreamChunk` leaves the deprecated `function_call.arguments` alone, which
  `rehydrateOpenAIJsonBody` restores: a client that streams runs the function with placeholders.
  `ClientGetsValues` excepts it.
* What a credential key alone gave away is restored in the model's prose, where no
  detector finds it in the next request: it then goes out in the clear. `EchoStable` excepts it.
* `arguments` that do not parse are restored with escaped values; in the next request an
  escaped value is another text, and gets another token. `EchoStable` excepts it, too.
* Past `MAX_DEPTH` a request is not scrubbed (the comments say so) and a whole answer is not
  restored, but a streamed one is, as fragments have no depth.
* `thinking` blocks pass in both directions. After an eviction the tokens in one are not
  reserved, and may be handed out for other values.
* `sessions encrypt` on a file that does not parse quarantines it and writes an empty
  encrypted session, which the check at `cli/commands/sessions.ts:197` is meant to prevent.
* A placeholder longer than `MAX_HELD_TAIL` is not restored if cut by events; an
  upstream error mid-stream drops held tails; a stream is piped without back-pressure
  (`proxy-server.ts:1053`).
* Records the audit stream had buffered when it fails are lost and not counted as dropped,
  hence the premise of `AuditAccountsForAll`.
* A reload reads the file three times, for its hash (`config-reloader.ts:55`), its settings (`proxy-server.ts:164`)
  and its rule packs (`:173`), and may put the settings of one content and the packs of the next in force, until the next
  one's own trigger comes. Two cases do not pass:
  * The next content is invalid, or the file is missing. `loadConfiguredRulePacks` reads with the lenient `loadConfig`
    (`rule-packs.ts:51`), so the packs are emptied, and the trigger of that content is rejected: no
    rule pack is in force until a valid file is saved. `docs/getting-started/cli.md:225` says that for such a file "the
    previous configuration stays in force". If a second alternative of `ReplacedByNewerValid` asks for
    `current'.packs.content \in Good`, TLC finds this.
  * The hash is taken of B, C is written before the two reads and applied, and the file goes back to B: C is in force
    with B's hash, and every trigger is skipped (`:56`), SIGHUP included, until the file gets a third content. Without `MayDeceive`
    in `SkippedOnlyInForce` or `LastSaveInForce`, TLC finds this.
* A file changed between the proxy's first reads and the reloader's hash is not
  picked up (`QuietStartup` FALSE violates `SkippedOnlyInForce`).
* The directory of the file is not watched if it does not exist when the proxy starts (`config-reloader.ts:78`)
  or `fs.watch` throws (`:89`), and no more once the watcher has failed: then only a SIGHUP reloads, and on Windows there is
  none. `docs/getting-started/cli.md:227` says the watcher is not reliable on some file systems.
* A detector that throws skips `dropIfEmpty` (`proxy-server.ts:557`): a session without placeholders stays
  in the store and may crowd another out, against the comment at `session-store.ts:25`. `StoreSound` excepts its map.
* If an answer cannot be rehydrated, `onError` ends the response but not the upstream (`proxy-server.ts:1054`), which goes
  on until the response emits 'close' (`:1067`). `NoOrphanUpstream` speaks of clients that have hung up and requests that are done.
* Overlapping ticks that read the same content can replace the `.bak` that held an
  edit; the clipboard has no backup at all.

## 6. Abstractions

* **Lock.** A streak of EPERM beyond `LOCK_EPERM_RETRIES` is `CreateThrows`,
  one below it `CreateFails`; the ten attempts of `releaseLock` are one step that may
  fail. Worker threads, which share a PID, are not modelled. Ages have three
  values: young, past `LOCK_STALE_MS`, past the session's TTL.
* **Store.** One session, one category, any gap between numbers (what `Placeholders`
  makes precise). A file is replaced in one step by `rename`. Which damage may befall
  a file is a constant.
* **Placeholders.** A text is a sequence of values and placeholders; detectors
  find the values exactly. `MaxIndex` plays 2^53.
* **Collision resolver.** No confidence, which plays no part in it; in `DetectionThreshold`
  only its side of the threshold.
* **Chat bodies.** A body is the list of its strings with their places, so structure is kept by
  construction, except that no string is lost. A text is a sequence of atoms; a stream comes in one fragment
  (`SseRehydrator` has the cuts). Detectors find values by their shape and nothing in `Words`.
* **Proxy.** One value per request and one string per body; a `RegExp`, a header
  or a URL is not looked at. The early refusals are `Refuse` and
  `RejectUnauthorized`. A promise that is settled goes on before the next callback.
* **Stream.** An event is one data line in two halves, so a chunk may cut it;
  its JSON is the key and the piece of text. Names have one character.
* **Reload.** A content is one of the four kinds a reload tells apart; equal hashes are equal contents. The
  watcher reports a change some time after it, or has stopped.
* **Watch.** Scrubbing is an abstract function with no findings the second time. Ticks
  overlap from the start, while the code awaits the first: the model allows more.

Not modelled: detectors (pure functions of text, their findings are inputs
here), reports, configuration commands, terminal I/O, metrics other than the
gauge, `sessions list`, the notification and clipboard tools, module loading.

## 7. Plan

Done: the lock and its abstract specification first, as everything on
disk relies on it, then the store, the session manager, the proxy and its
reload, the resolver, the stream, watch mode, the bodies, and the threshold.

To extend the model:

1. `KeyCache`: the cache of derived keys in `key-manager.ts` and `crypto.ts` over salts
   and passphrases.
2. Several strings per request in `ProxyServer`, with `ChatBodies`' map shared by requests under way.

To prove:

1. `CollisionResolver`: `NarrowedNotDropped` with ties between categories excepted only where a finding starts with blanks.
2. `ChatBodies`, once its walks are rewritten as recursive functions over places: `MeaningKept`, whose invariant should be
   that of `Placeholders`' `RestoreInv` per place.

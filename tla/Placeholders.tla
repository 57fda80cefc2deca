---------------------------- MODULE Placeholders ----------------------------
(***************************************************************************)
(* Placeholders over the life of one session: how scrub (src/core/scrub.ts *)
(* and src/session/session-manager.ts) numbers them around the             *)
(* placeholders a text already carries, call after call, and what          *)
(* rehydrate (src/core/rehydrate.ts) makes of the scrubbed texts.  In mode *)
(* "disk" a call scrubs its messages with one SessionManager; in mode      *)
(* "proxy" (src/proxy/proxy-server.ts) each string has a SessionManager of *)
(* its own, on a map that holds the placeholders met so far as themselves. *)
(*                                                                         *)
(* A text is a sequence of sensitive values and placeholders; the words    *)
(* between them play no part.  Detectors find every value, and nothing     *)
(* else; no value has a placeholder inside.                                *)
(***************************************************************************)
EXTENDS Naturals, Sequences, FiniteSets, SequencesExt, FiniteSetsExt

CONSTANTS
    Values,
    PrefixOf,      \* the placeholder prefix of a value's category
    Contents,      \* what scrub may be called with: sequences of texts
    MaxIndex,      \* the number from which adding one changes nothing (2^53)
    MaxCalls       \* bound

CategoryPrefixes == {PrefixOf[v] : v \in Values}
Placeholder == [prefix : CategoryPrefixes, index : 0..MaxIndex]

ASSUME PlaceholderAssumption ==
    /\ IsFiniteSet(Values) /\ DOMAIN PrefixOf = Values
    /\ Values \intersect Placeholder = {}
    /\ Contents \subseteq Seq(Seq(Values \union Placeholder)) \ {<<>>}
    /\ MaxIndex \in Nat \ {0} /\ MaxCalls \in Nat

VARIABLES
    mode,        \* "disk" or "proxy"
    map,         \* the session map
    reserved,    \* reservedNames of the current SessionManager
    counts,      \* its categoryCounts, 0 where there is none
    messages,    \* those of the current call; none between calls
    intended,    \* what they should restore to
    scrubbed,    \* its messages as far as they are scrubbed
    current,     \* the message being scrubbed
    pos,         \* its atoms up to here are still to do
    count,       \* the number createPlaceholder tries, 0 outside its loop
    history      \* the calls so far: what was sent, and what it should restore to

call == <<messages, intended>>
vars == <<mode, map, reserved, counts, call, scrubbed, current, pos, count, history>>

----------------------------------------------------------------------------
(* SessionManager *)

Succ(n) == IF n < MaxIndex THEN n + 1 ELSE n

TokensIn(text) == {a \in ToSet(text) : a \notin Values}

\* rebuildCategoryCounts: one more than the highest number in the map.
RebuildCategoryCounts(m) ==
    [p \in CategoryPrefixes |->
        LET indexes == {t.index : t \in {t \in DOMAIN m : t.prefix = p}}
        IN  IF indexes = {} THEN 0 ELSE Succ(Max(indexes))]

\* Mutant: the reverse lookup forgets what the map holds.
NoExistingPlaceholder(v) == {}

\* getExistingPlaceholder
ExistingPlaceholder(v) == {t \in DOMAIN map : map[t] = v}

\* The name must not be handed out.
Taken(t) == t \in reserved \/ t \in DOMAIN map

\* Mutant: any word counts for a placeholder.
ReserveWords(texts) == UNION {ToSet(texts[i]) : i \in DOMAIN texts}

\* Mutant: only the text that is scrubbed first is looked at.
ReserveFirst(texts) == TokensIn(texts[1])

\* reservePlaceholdersIn, over the whole request.
Reserve(texts) == UNION {TokensIn(texts[i]) : i \in DOMAIN texts}

\* Mutant: what a text carries replaces what the map holds.
WithLiteralsOverwritten(m, tokens) ==
    [t \in DOMAIN m \union tokens |-> IF t \in tokens THEN t ELSE m[t]]

\* reserveLiteralPlaceholders: an entry for itself, unless there is one.
WithLiterals(m, tokens) ==
    [t \in DOMAIN m \union tokens |-> IF t \in DOMAIN m THEN m[t] ELSE t]

----------------------------------------------------------------------------
(* rehydrate *)

\* The known placeholders are replaced and the others left.
Rehydrate(text, m) ==
    [i \in DOMAIN text |-> IF text[i] \in DOMAIN m THEN m[text[i]] ELSE text[i]]

----------------------------------------------------------------------------
(* scrub *)

Init ==
    /\ mode \in {"disk", "proxy"}
    /\ map = <<>>
    /\ reserved = {}
    /\ counts = [p \in CategoryPrefixes |-> 0]
    /\ messages = <<>> /\ intended = <<>> /\ scrubbed = <<>>
    /\ current = 0 /\ pos = 0 /\ count = 0
    /\ history = <<>>

Idle == messages = <<>>

\* A SessionManager on map m, which reserves the placeholders of some texts.
Manage(m, texts) ==
    /\ counts' = RebuildCategoryCounts(m)
    /\ reserved' = Reserve(texts)

\* What the messages of a call should restore to: themselves, but for the
\* placeholders of the session they carry, which stand for a value already.
Start(texts) ==
    /\ Idle /\ Len(history) < MaxCalls
    /\ messages' = texts /\ scrubbed' = texts
    /\ intended' = [i \in DOMAIN texts |-> Rehydrate(texts[i], map)]
    /\ current' = 1 /\ pos' = Len(texts[1])

\* A call; on disk, with the placeholders of all its messages reserved.
BeginOnDisk(texts) ==
    /\ mode = "disk"
    /\ Start(texts)
    /\ Manage(map, texts)
    /\ UNCHANGED <<mode, map, count, history>>

\* A request; the map gets the placeholders of all its texts.
BeginInProxy(texts) ==
    /\ mode = "proxy"
    /\ Start(texts)
    /\ map' = WithLiterals(map, Reserve(texts))
    /\ Manage(map', <<texts[1]>>)
    /\ UNCHANGED <<mode, count, history>>

Atom == messages[current][pos]
ReplaceBy(t) == scrubbed' = [scrubbed EXCEPT ![current][pos] = t]

\* What no detector found stays as it is.
Keep ==
    /\ ~Idle /\ pos > 0 /\ Atom \notin Values
    /\ pos' = pos - 1
    /\ UNCHANGED <<mode, map, reserved, counts, call, scrubbed, current, count, history>>

\* createPlaceholder, for a value that has one.
Reuse ==
    /\ ~Idle /\ pos > 0 /\ count = 0 /\ Atom \in Values
    /\ \E t \in ExistingPlaceholder(Atom) : ReplaceBy(t)
    /\ pos' = pos - 1
    /\ UNCHANGED <<mode, map, reserved, counts, call, current, count, history>>

\* createPlaceholder, for a value that has none: where the search starts.
StartCount ==
    /\ ~Idle /\ pos > 0 /\ count = 0 /\ Atom \in Values
    /\ ExistingPlaceholder(Atom) = {}
    /\ LET n == counts[PrefixOf[Atom]]
       IN  count' = IF n = 0 THEN 1 ELSE n
    /\ UNCHANGED <<mode, map, reserved, counts, call, scrubbed, current, pos, history>>

Name == [prefix |-> PrefixOf[Atom], index |-> count]

\* Mutant: the number is not advanced.
RetrySame ==
    /\ count > 0 /\ Taken(Name)
    /\ UNCHANGED vars

\* The loop: the name is taken.
TryNext ==
    /\ count > 0 /\ Taken(Name)
    /\ count' = Succ(count)
    /\ UNCHANGED <<mode, map, reserved, counts, call, scrubbed, current, pos, history>>

\* Mutant: the entry is written the wrong way round, from the value to its name.
MintSwapped ==
    /\ count > 0 /\ ~Taken(Name)
    /\ map' = [t \in DOMAIN map \union {Atom} |-> IF t = Atom THEN Name ELSE map[t]]
    /\ counts' = [counts EXCEPT ![Name.prefix] = Succ(count)]
    /\ ReplaceBy(Name)
    /\ count' = 0 /\ pos' = pos - 1
    /\ UNCHANGED <<mode, reserved, call, current, history>>

\* The name is free: it is the value's from now on.
Mint ==
    /\ count > 0 /\ ~Taken(Name)
    /\ map' = [t \in DOMAIN map \union {Name} |-> IF t = Name THEN Atom ELSE map[t]]
    /\ counts' = [counts EXCEPT ![Name.prefix] = Succ(count)]
    /\ ReplaceBy(Name)
    /\ count' = 0 /\ pos' = pos - 1
    /\ UNCHANGED <<mode, reserved, call, current, history>>

\* The message is done; in the proxy the next one has its own SessionManager.
NextMessage ==
    /\ ~Idle /\ pos = 0 /\ current < Len(messages)
    /\ current' = current + 1
    /\ pos' = Len(messages[current + 1])
    /\ IF mode = "proxy"
       THEN Manage(map, <<messages[current + 1]>>)
       ELSE UNCHANGED <<reserved, counts>>
    /\ UNCHANGED <<mode, map, call, scrubbed, count, history>>

\* scrub returns, having saved the map.
Return ==
    /\ ~Idle /\ pos = 0 /\ current = Len(messages)
    /\ history' = Append(history, [sent |-> scrubbed, intended |-> intended])
    /\ messages' = <<>> /\ intended' = <<>> /\ scrubbed' = <<>>
    /\ current' = 0
    /\ reserved' = {} /\ counts' = [p \in CategoryPrefixes |-> 0]
    /\ UNCHANGED <<mode, map, pos, count>>

Next ==
    \/ \E texts \in Contents : BeginOnDisk(texts) \/ BeginInProxy(texts)
    \/ Keep \/ Reuse \/ StartCount \/ TryNext \/ Mint \/ NextMessage \/ Return

\* A call runs to its end.
Spec ==
    /\ Init /\ [][Next]_vars
    /\ WF_vars(Keep \/ Reuse \/ StartCount \/ TryNext \/ Mint \/ NextMessage \/ Return)

----------------------------------------------------------------------------
(* Properties *)

TypeOK ==
    /\ mode \in {"disk", "proxy"}
    /\ DOMAIN map \subseteq Placeholder
    /\ \A t \in DOMAIN map : map[t] \in Values \union {t}
    /\ reserved \subseteq Placeholder
    /\ counts \in [CategoryPrefixes -> 0..MaxIndex]
    /\ messages \in Contents \union {<<>>}
    /\ Len(scrubbed) = Len(messages) /\ Len(intended) = Len(messages)
    /\ current \in 0..Len(messages)
    /\ pos \in IF Idle THEN {0} ELSE 0..Len(messages[current])
    /\ count \in 0..MaxIndex

\* The calls whose output must still restore: all of a proxy session's, and on
\* disk, where nothing keeps the placeholders a text carried, the last.
Restorable ==
    IF mode = "proxy" THEN DOMAIN history
    ELSE {n \in {Len(history)} : n > 0 /\ Idle}

\* What was sent carries no value, and rehydrating it gives what was scrubbed:
\* every value back in its place, and the placeholders the text carried by itself
\* unharmed, whatever was scrubbed before and, in the proxy, after it.
RoundTrip ==
    \A n \in Restorable : \A i \in DOMAIN history[n].sent :
        /\ ToSet(history[n].sent[i]) \intersect Values = {}
        /\ Rehydrate(history[n].sent[i], map) = history[n].intended[i]

\* A value has one placeholder for the whole session, so that the model sees that
\* it is the same value.
OnePlaceholderPerValue ==
    \A t, u \in DOMAIN map : map[t] \in Values /\ map[t] = map[u] => t = u

\* What a placeholder stands for never changes.
MapOnlyGrows ==
    [][\A t \in DOMAIN map : t \in DOMAIN map' /\ map'[t] = map[t]]_vars

\* createPlaceholder returns.
MintReturns == count > 0 ~> count = 0

=============================================================================

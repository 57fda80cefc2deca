---------------------------- MODULE SseRehydrator ----------------------------
(***************************************************************************)
(* createSseRehydrator (src/proxy/response-transform.ts): placeholders     *)
(* restored in a streamed answer that arrives in chunks cut anywhere, its  *)
(* texts in events cut anywhere, several texts at a time.                  *)
(*                                                                         *)
(* On the wire an event is a data line, which a chunk may cut in two, and  *)
(* the terminators that end it.  A text is a sequence of guillemets,       *)
(* blanks and names; a placeholder is a name in guillemets.                *)
(***************************************************************************)
EXTENDS Naturals, Sequences, FiniteSets, SequencesExt

CONSTANTS
    Keys,          \* the texts of the answer: content, and arguments of tool calls
    JsonKeys,      \* those inside a JSON string
    Names,         \* the letters placeholders are made of
    InitialNames,  \* the placeholders of the session at the start
    Plain, InJson, \* what each stands for, and that escaped for a JSON string
    Answers,       \* what the upstream may answer: a text for each key
    Terminators,   \* what it may end an event with
    MaxFragment,   \* bound: on the text of an event
    MaxAhead,      \* bound: on what is on the wire when the next event is sent
    MaxHeldTail    \* MAX_HELD_TAIL

Marks == {"open", "close", "blank"}
Symbols == Names \union Marks

CR == [eol |-> "CR"]
LF == [eol |-> "LF"]

\* EVENT_BOUNDARY: two line ends, each CR, LF or CRLF, but not a CRLF split.
BlankLines ==
    {<<LF, LF>>, <<LF, CR>>, <<LF, CR, LF>>, <<CR, CR>>, <<CR, CR, LF>>,
     <<CR, LF, LF>>, <<CR, LF, CR>>, <<CR, LF, CR, LF>>}

ASSUME SseAssumption ==
    /\ JsonKeys \subseteq Keys
    /\ Names \intersect Marks = {}
    /\ InitialNames \subseteq Names /\ IsFiniteSet(InitialNames)
    /\ DOMAIN Plain = Names /\ DOMAIN InJson = Names
    /\ Answers \subseteq [Keys -> Seq(Symbols)]
    /\ Terminators \subseteq BlankLines
    /\ MaxFragment \in Nat \ {0} /\ MaxAhead \in Nat \ {0}
    /\ MaxHeldTail \in Nat /\ MaxHeldTail >= 2   \* a placeholder but for its end

VARIABLES
    known,       \* the placeholders of sessionMap
    escaped,     \* those of its cached escaped view
    unsent,      \* what of its texts the upstream has yet to send
    ending,      \* how it ends its events
    wire,        \* what is on its way
    buffer,
    tails,       \* state.tails, empty for none
    seen,        \* the text of the events transformed so far, for each key
    received,    \* the text the client has put together
    garbled,     \* it also got data that is no event
    phase,       \* "open", "flushing" or "closed"
    cut          \* the stream ended before all of it had come

upstream == <<known, unsent, ending>>
client == <<received, garbled>>
vars == <<known, escaped, unsent, ending, wire, buffer, tails, seen, received, garbled,
          phase, cut>>

----------------------------------------------------------------------------
(* Placeholders *)

\* What takes the place of a placeholder: its value, escaped where it has to be.
Value(n, k) == IF k \in JsonKeys THEN InJson[n] ELSE Plain[n]

\* rehydrateText: the placeholders of a text with these names replaced.
Restored(text, names, k) ==
    LET isPlaceholder(i) ==
            /\ i + 2 <= Len(text)
            /\ text[i] = "open" /\ text[i + 1] \in names /\ text[i + 2] = "close"
        from[i \in 1..(Len(text) + 1)] ==
            CASE i > Len(text) -> <<>>
              [] i <= Len(text) /\ isPlaceholder(i) -> <<Value(text[i + 1], k)>> \o from[i + 3]
              [] OTHER -> <<text[i]>> \o from[i + 1]
    IN  from[1]

\* splitAtOpenPlaceholder
Split(text) ==
    LET start == SelectLastInSeq(text, LAMBDA c : c = "open")
        candidate == SubSeq(text, start, Len(text))
    IN  IF \/ start = 0
           \/ {"close", "blank"} \intersect ToSet(candidate) # {}
           \/ Len(candidate) > MaxHeldTail
        THEN [ready |-> text, held |-> <<>>]
        ELSE [ready |-> SubSeq(text, 1, start - 1), held |-> candidate]

\* Mutant: the escaped view is built once.
EscapedOnce == IF escaped = {} THEN known ELSE escaped

\* createEscapedMapReader: rebuilt when the number of entries has changed.
Escaped == IF Cardinality(known) # Cardinality(escaped) THEN known ELSE escaped

----------------------------------------------------------------------------
(* Events in the buffer *)

\* The length of the line terminator at a position, 0 where there is none.
Eol(s, i) ==
    CASE i > Len(s) \/ s[i] \notin {CR, LF} -> 0
      [] i < Len(s) /\ s[i] = CR /\ s[i + 1] = LF -> 2
      [] OTHER -> 1

\* The length of the blank line, two terminators, that ends an event.
Boundary(s, i) ==
    LET first == Eol(s, i)
        second == Eol(s, i + first)
    IN  IF first > 0 /\ second > 0 THEN first + second ELSE 0

\* A final CR may be half of a CRLF and waits.
Body ==
    IF buffer # <<>> /\ Last(buffer) = CR THEN SubSeq(buffer, 1, Len(buffer) - 1) ELSE buffer

\* Where the first complete event of the buffer ends, or 0.
EventEnd ==
    LET body == Body
        ends == {i \in 1..Len(body) : Boundary(body, i) > 0}
    IN  IF ends = {} THEN 0 ELSE Min(ends)

\* Where a block has data, between its terminators.
DataOf(block) == {i \in 1..Len(block) : block[i] \notin {CR, LF}}

\* The two halves of one data line, of which i is the first.
IsEvent(block, i) ==
    \E j \in 1..Len(block) :
        /\ i < j /\ DataOf(block) = {i, j}
        /\ block[i].half = 1 /\ block[j] = [block[i] EXCEPT !.half = 2]

----------------------------------------------------------------------------
(* The stream *)

Init ==
    /\ known = InitialNames /\ escaped = {}
    /\ unsent \in Answers
    /\ ending \in Terminators
    /\ wire = <<>> /\ buffer = <<>>
    /\ tails = [k \in Keys |-> <<>>]
    /\ seen = [k \in Keys |-> <<>>]
    /\ received = [k \in Keys |-> <<>>]
    /\ garbled = FALSE
    /\ phase = "open" /\ cut = FALSE

\* The upstream sends an event, with the next piece of one of its texts.  It
\* knows a placeholder once a request has carried it.
Send(k, n) ==
    /\ phase = "open" /\ Len(wire) < MaxAhead
    /\ n <= Len(unsent[k])
    /\ LET text == SubSeq(unsent[k], 1, n)
           data == [key |-> k, text |-> text, half |-> 1]
       IN  /\ ToSet(text) \intersect Names \subseteq known
           /\ wire' = wire \o <<data, [data EXCEPT !.half = 2]>> \o ending
    /\ unsent' = [unsent EXCEPT ![k] = SubSeq(@, n + 1, Len(@))]
    /\ UNCHANGED <<known, escaped, ending, buffer, tails, seen, client, phase, cut>>

\* Another request of the session adds a placeholder to the map meanwhile.
Grow(n) ==
    /\ n \notin known /\ phase = "open" /\ EventEnd = 0
    /\ known' = known \union {n}
    /\ UNCHANGED <<escaped, unsent, ending, wire, buffer, tails, seen, client, phase, cut>>

\* push: a chunk, after which the complete events are taken one by one.
Push(n) ==
    /\ phase = "open" /\ EventEnd = 0
    /\ n <= Len(wire)
    /\ buffer' = buffer \o SubSeq(wire, 1, n)
    /\ wire' = SubSeq(wire, n + 1, Len(wire))
    /\ UNCHANGED <<upstream, escaped, tails, seen, client, phase, cut>>

\* rehydrateFragment, for an event with a piece of text.
Transform(k, fragment) ==
    LET split == Split(tails[k] \o fragment)
        json == k \in JsonKeys /\ "open" \in ToSet(split.ready)
    IN  /\ tails' = [tails EXCEPT ![k] = split.held]
        /\ escaped' = IF json THEN Escaped ELSE escaped
        /\ seen' = [seen EXCEPT ![k] = @ \o fragment]
        /\ received' = [received EXCEPT ![k] =
              @ \o Restored(split.ready, IF json THEN Escaped ELSE known, k)]
        /\ UNCHANGED garbled

\* emitCompleteEvents: the next complete event.  What is no event goes through.
EmitEvent ==
    /\ phase # "closed" /\ EventEnd > 0
    /\ LET block == SubSeq(buffer, 1, EventEnd - 1)
       IN  \/ \E i \in DataOf(block) :
                IsEvent(block, i) /\ Transform(block[i].key, block[i].text)
           \/ /\ ~\E i \in DataOf(block) : IsEvent(block, i)
              /\ garbled' = (garbled \/ DataOf(block) # {})
              /\ UNCHANGED <<tails, escaped, seen, received>>
    /\ buffer' = SubSeq(buffer, EventEnd + Boundary(Body, EventEnd), Len(buffer))
    /\ UNCHANGED <<upstream, wire, phase, cut>>

\* flush: the stream has ended, early if something was still to come.
EndStream ==
    /\ phase = "open" /\ EventEnd = 0
    /\ phase' = "flushing"
    /\ cut' = (wire # <<>> \/ \E k \in Keys : unsent[k] # <<>>)
    /\ wire' = <<>>
    /\ buffer' = buffer \o <<LF, LF>>
    /\ UNCHANGED <<upstream, escaped, tails, seen, client>>

\* Mutant: what was held back is lost.
DropOrphans ==
    /\ phase = "flushing" /\ EventEnd = 0
    /\ tails' = [k \in Keys |-> <<>>]
    /\ garbled' = (garbled \/ DataOf(buffer) # {})
    /\ phase' = "closed" /\ buffer' = <<>>
    /\ UNCHANGED <<upstream, escaped, wire, seen, received, cut>>

\* Its end: what was held back comes as events of its own, and what is left in
\* the buffer as it is.
Orphans ==
    /\ phase = "flushing" /\ EventEnd = 0
    /\ received' = [k \in Keys |-> received[k] \o tails[k]]
    /\ tails' = [k \in Keys |-> <<>>]
    /\ garbled' = (garbled \/ DataOf(buffer) # {})
    /\ phase' = "closed" /\ buffer' = <<>>
    /\ UNCHANGED <<upstream, escaped, wire, seen, cut>>

Next ==
    \/ \E k \in Keys, n \in 1..MaxFragment : Send(k, n)
    \/ \E n \in Names : Grow(n)
    \/ \E n \in 1..Len(wire) : Push(n)
    \/ EmitEvent \/ EndStream \/ Orphans

Spec == Init /\ [][Next]_vars

----------------------------------------------------------------------------
(* Properties *)

\* However events and chunks were cut, and whatever else was streamed between
\* them, what the client has and what is held back is the text restored as if it
\* had come in one piece, with the session as it is by now; and no more than
\* MAX_HELD_TAIL characters are held back, so that a lone guillemet does not stall
\* the stream.
AsIfInOnePiece ==
    \A k \in Keys :
        /\ received[k] \o tails[k] = Restored(seen[k], known, k)
        /\ Len(tails[k]) <= MaxHeldTail

\* A stream that ended in order has delivered every text whole, and nothing but
\* events.
DeliveredWhole ==
    phase = "closed" /\ ~cut =>
        /\ ~garbled
        /\ seen \in Answers
        /\ \A k \in Keys : received[k] = Restored(seen[k], known, k)

=============================================================================

---------------------------- MODULE ProxyServer ----------------------------
(***************************************************************************)
(* The life of a request in the proxy (src/proxy/proxy-server.ts): reading *)
(* the body, scrubbing against the in-memory session store, waiting for    *)
(* the upstream, answering in one piece or as a stream, with the client    *)
(* and the upstream failing at any moment; and what every request leaves   *)
(* in the metrics and in the audit log.                                    *)
(*                                                                         *)
(* The event loop runs one callback at a time, so an action is all that    *)
(* happens between two awaits.  What a promise that settles goes on with   *)
(* is a microtask, which runs before the next callback.  A chat request    *)
(* carries at most one value.                                              *)
(***************************************************************************)
EXTENDS Naturals, Sequences, SequencesExt, FiniteSets, Functions

CONSTANTS
    Requests,      \* client requests, each of which comes once
    Sids,          \* session IDs
    Values,        \* sensitive values
    None,
    MaxSessions,   \* --max-sessions
    HighWater      \* records the audit stream buffers before it needs to drain

\* A scrubbable body without findings, and a body that cannot be scrubbed.
Bodies == Values \union {"plain", "opaque"}

\* Math.max(1, max)
Bound == IF MaxSessions > 1 THEN MaxSessions ELSE 1

ASSUME ProxyAssumption ==
    /\ None \notin Requests
    /\ Values \intersect {"plain", "opaque"} = {}
    /\ MaxSessions \in Nat /\ HighWater \in Nat \ {0}

VARIABLES
    pc,          \* where each request is
    sid, carries,\* its session and its body
    client,      \* FALSE once its response emitted 'close' before its end
    upstream,    \* the connection to the upstream: "none", "open" or "closed"
    aborted,     \* clientGone.signal.aborted
    listeners,   \* what is registered for the 'close' of its response, and "onAbort"
    store,       \* the session store, least recently used first
    heap,        \* the placeholder maps, by the request that created them
    threw,       \* history: the maps that a detector threw on
    requestMap,  \* the map the request was scrubbed against
    token,       \* the placeholder index its value was sent as
    responses,   \* how many `response` events it had; trace.finished
    inflight,    \* ProxyMetrics.inflight
    sink,        \* the audit log: "open", "closing" or "failed"
    buffered,    \* how many records its stream has yet to write
    needDrain,   \* writableNeedDrain
    accepted, dropped,   \* the requests whose record it took or refused
    closing      \* handle.close() was called

request == <<sid, carries, client, aborted, listeners, requestMap, token>>
sessions == <<store, heap, threw>>
trace == <<responses, inflight, buffered, needDrain, accepted, dropped>>
vars == <<pc, request, upstream, sessions, trace, sink, closing>>

PCs == {"idle", "reading", "waiting", "answered", "body", "stream", "sent", "done"}

\* onClientClose, the abort listener of dispatchUpstream, dropUpstreamIfClientGone,
\* and the listener of pipeStreamingResponse.
Listeners == {"onClientClose", "onAbort", "dropUpstream", "pipe"}

Init ==
    /\ pc = [r \in Requests |-> "idle"]
    /\ sid = [r \in Requests |-> None]
    /\ carries = [r \in Requests |-> "plain"]
    /\ client = [r \in Requests |-> TRUE]
    /\ upstream = [r \in Requests |-> "none"]
    /\ aborted = [r \in Requests |-> FALSE]
    /\ listeners = [r \in Requests |-> {}]
    /\ store = <<>>
    /\ heap = [r \in Requests |-> <<>>]
    /\ threw = {}
    /\ requestMap = [r \in Requests |-> None]
    /\ token = [r \in Requests |-> 0]
    /\ responses = [r \in Requests |-> 0]
    /\ inflight = 0
    /\ sink = "open"
    /\ buffered = 0 /\ needDrain = FALSE
    /\ accepted = {} /\ dropped = {}
    /\ closing = FALSE

Goto(r, l) == pc' = [pc EXCEPT ![r] = l]
Hangup(r) == upstream' = [upstream EXCEPT ![r] = "closed"]

\* The maps the store or a request still refers to; the others are garbage.
Kept(entries, refs) ==
    LET live == {e.map : e \in Range(entries)} \union {refs[r] : r \in Requests}
    IN  [m \in Requests |-> IF m \in live THEN heap[m] ELSE <<>>]

\* handleClientRequest returns and its locals go; a streamed response keeps its
\* listener, and the store its map.
Forget(r) ==
    /\ sid' = [sid EXCEPT ![r] = None]
    /\ carries' = [carries EXCEPT ![r] = "plain"]
    /\ client' = [client EXCEPT ![r] = TRUE]
    /\ aborted' = [aborted EXCEPT ![r] = FALSE]
    /\ listeners' = [listeners EXCEPT ![r] = @ \intersect {"pipe"}]
    /\ requestMap' = [requestMap EXCEPT ![r] = None]
    /\ token' = [token EXCEPT ![r] = 0]

Return(r) ==
    /\ Forget(r)
    /\ heap' = Kept(store, requestMap')
    /\ UNCHANGED <<store, threw>>

----------------------------------------------------------------------------
(* finishTrace: the `response` event, its metrics and its audit record *)

\* Mutant: records are buffered however slow the disk is.
AuditWriteUnbounded(r) ==
    IF sink # "open"
    THEN dropped' = dropped \union {r} /\ UNCHANGED <<accepted, buffered, needDrain>>
    ELSE /\ accepted' = accepted \union {r}
         /\ buffered' = buffered + 1
         /\ UNCHANGED <<dropped, needDrain>>

\* Mutant: a record that comes after the log was closed is written in vain.
AuditWriteAfterEnd(r) ==
    IF sink = "failed" \/ needDrain
    THEN dropped' = dropped \union {r} /\ UNCHANGED <<accepted, buffered, needDrain>>
    ELSE IF sink = "closing" THEN UNCHANGED <<accepted, dropped, buffered, needDrain>>
    ELSE /\ accepted' = accepted \union {r}
         /\ buffered' = buffered + 1
         /\ needDrain' = (buffered + 1 >= HighWater)
         /\ UNCHANGED dropped

\* AuditLog.write: the stream takes the record, or it is counted as dropped.
AuditWrite(r) ==
    IF sink # "open" \/ needDrain
    THEN /\ dropped' = dropped \union {r}
         /\ UNCHANGED <<accepted, buffered, needDrain>>
    ELSE /\ accepted' = accepted \union {r}
         /\ buffered' = buffered + 1
         /\ needDrain' = (buffered + 1 >= HighWater)
         /\ UNCHANGED dropped

\* recordResponse, on a gauge that stands at n.
RecordResponse(n) == inflight' = IF n > 0 THEN n - 1 ELSE 0

\* The `response` event: metrics.observe and audit.write.
Respond(r, n) ==
    /\ responses' = [responses EXCEPT ![r] = @ + 1]
    /\ RecordResponse(n)
    /\ AuditWrite(r)

\* Mutant: every completion path emits the event.
FinishTraceAgain(r) == Respond(r, inflight)

FinishTrace(r) ==
    IF responses[r] > 0 THEN UNCHANGED trace ELSE Respond(r, inflight)

----------------------------------------------------------------------------
(* The request *)

\* observe, for a `request` event.
CountRequest == inflight' = inflight + 1

\* The headers are in; the `request` event.
Arrive(r, s, b) ==
    /\ pc[r] = "idle" /\ ~closing
    /\ sid' = [sid EXCEPT ![r] = s]
    /\ carries' = [carries EXCEPT ![r] = b]
    /\ CountRequest
    /\ Goto(r, "reading")
    /\ UNCHANGED <<client, aborted, listeners, requestMap, token, upstream, sessions,
                   responses, buffered, needDrain, accepted, dropped, sink, closing>>

\* rejectUnauthorized: a `request` and a `response` event at once.
RejectUnauthorized(r) ==
    /\ pc[r] = "idle" /\ ~closing
    /\ Respond(r, inflight + 1)
    /\ Goto(r, "done")
    /\ UNCHANGED <<request, upstream, sessions, sink, closing>>

\* 413 for a body past maxBodyBytes, 403 for one that --strict, where it is on,
\* does not let through.
Refuse(r) ==
    /\ pc[r] = "reading"
    /\ FinishTrace(r) /\ Return(r)
    /\ Goto(r, "done")
    /\ UNCHANGED <<upstream, sink, closing>>

\* sessions.delete(id)
Deleted(entries, s) ==
    LET at == {i \in DOMAIN entries : entries[i].sid = s}
    IN  IF at = {} THEN entries ELSE RemoveAt(entries, CHOOSE i \in at : TRUE)

\* Mutant: the store is never cut down to size.
OpenedUnbounded(s, m) == Append(Deleted(store, s), [sid |-> s, map |-> m])

\* openSession: fetched or created, made the most recently used, and the store
\* cut down to size.
Opened(s, m) ==
    LET all == Append(Deleted(store, s), [sid |-> s, map |-> m])
    IN  IF Len(all) > Bound THEN SubSeq(all, Len(all) - Bound + 1, Len(all)) ELSE all

\* sessions.get(id): the map stored for a session, as the request that made it.
Stored(s) == {m \in Requests : [sid |-> s, map |-> m] \in Range(store)}

\* The value's placeholder in a map: the one it has, or the next free one.
Mint(m, v) ==
    IF v \notin Values \/ v \in Range(m) THEN m ELSE Append(m, v)

\* dropIfEmpty
WithoutEmpty(entries, s, m, map) ==
    IF map = <<>> /\ [sid |-> s, map |-> m] \in Range(entries)
    THEN Deleted(entries, s) ELSE entries

\* The map a request is scrubbed against: its session's, or a new one.
MapOf(r) == IF Stored(sid[r]) = {} THEN r ELSE CHOOSE m \in Stored(sid[r]) : TRUE

\* A scrubbable body: its session is opened and its value replaced.
ScrubBody(r) ==
    /\ carries[r] # "opaque"
    /\ LET m == MapOf(r)
           map == Mint(heap[m], carries[r])
       IN  /\ requestMap' = [requestMap EXCEPT ![r] = m]
           /\ store' = WithoutEmpty(Opened(sid[r], m), sid[r], m, map)
           /\ heap' = [Kept(store', requestMap') EXCEPT ![m] = map]
           /\ token' = [token EXCEPT ![r] =
                IF carries[r] \in Values
                THEN CHOOSE i \in DOMAIN map : map[i] = carries[r] ELSE 0]
           /\ UNCHANGED threw

\* A detector throws, before or after the value was replaced: the catch answers
\* 502, and dropIfEmpty is not reached.
ScrubThrows(r) ==
    /\ pc[r] = "reading" /\ carries[r] # "opaque"
    /\ FinishTrace(r) /\ Forget(r)
    /\ Goto(r, "done")
    /\ store' = Opened(sid[r], MapOf(r))
    /\ \E map \in {heap[MapOf(r)], Mint(heap[MapOf(r)], carries[r])} :
         heap' = [Kept(store', requestMap') EXCEPT ![MapOf(r)] = map]
    /\ threw' = threw \union {MapOf(r)}
    /\ UNCHANGED <<upstream, sink, closing>>

\* The whole body has arrived: it is scrubbed or passed through, and sent on.
Forward(r) ==
    /\ pc[r] = "reading"
    /\ \/ ScrubBody(r)
       \/ carries[r] = "opaque" /\ UNCHANGED <<sessions, requestMap, token>>
    /\ upstream' = [upstream EXCEPT ![r] = "open"]
    /\ listeners' = [listeners EXCEPT ![r] = {"onClientClose", "onAbort"}]
    /\ Goto(r, "waiting")
    /\ UNCHANGED <<sid, carries, client, aborted, trace, sink, closing>>

----------------------------------------------------------------------------
(* The answer *)

handover == <<sid, carries, client, aborted, requestMap, token, sessions, trace, sink,
              closing>>

\* The headers came: dispatchUpstream takes its listener off and resolves.
ResponseHeaders(r) ==
    /\ pc[r] = "waiting" /\ ~aborted[r]
    /\ listeners' = [listeners EXCEPT ![r] = @ \ {"onAbort"}]
    /\ Goto(r, "answered")
    /\ UNCHANGED <<handover, upstream>>

\* Mutant: onClientClose is taken off whatever the answer is.
ContinuesUnwatched(r) ==
    /\ pc[r] = "answered"
    /\ \/ Goto(r, "stream") /\ listeners' = [listeners EXCEPT ![r] = {"pipe"}]
       \/ Goto(r, "body") /\ listeners' = [listeners EXCEPT ![r] = {"dropUpstream"}]
    /\ UNCHANGED <<handover, upstream>>

\* The await goes on.  pipeStreamingResponse takes over from onClientClose; for an
\* answer in one piece, dropUpstreamIfClientGone is registered and called at once.
Continues(r) ==
    /\ pc[r] = "answered"
    /\ \/ /\ Goto(r, "stream")
          /\ listeners' = [listeners EXCEPT ![r] = (@ \ {"onClientClose"}) \union {"pipe"}]
          /\ UNCHANGED upstream
       \/ /\ Goto(r, "body")
          /\ listeners' = [listeners EXCEPT ![r] = @ \union {"dropUpstream"}]
          /\ IF aborted[r] THEN Hangup(r) ELSE UNCHANGED upstream
    /\ UNCHANGED handover

\* The request is over: its upstream has ended, or is broken or cancelled.
Over(r, l) ==
    /\ Hangup(r)
    /\ FinishTrace(r) /\ Return(r)
    /\ Goto(r, l)
    /\ UNCHANGED <<sink, closing>>

\* No connection, a timeout or a broken one: the catch answers 502.
UpstreamFails(r) == pc[r] \in {"waiting", "body"} /\ ~aborted[r] /\ Over(r, "done")

\* Mutant: a fresh lookup of the session instead of the request's own map.
RehydratedFromStore(r) ==
    LET hits == {m \in Stored(sid[r]) : token[r] \in DOMAIN heap[m]}
    IN  IF hits = {} THEN None ELSE heap[CHOOSE m \in hits : TRUE][token[r]]

\* What the placeholder a request sent is rehydrated to.
Rehydrated(r) ==
    LET maps == IF requestMap[r] # None THEN {requestMap[r]} ELSE Stored(sid[r])
        hits == {m \in maps : token[r] \in DOMAIN heap[m]}
    IN  IF hits = {} THEN None ELSE heap[CHOOSE m \in hits : TRUE][token[r]]

\* The last chunk came: rehydrate, send, done.
BodyEnds(r) == pc[r] = "body" /\ Over(r, "done")

\* pipeStreamingResponse: onEnd, and onError for the stream's 'error'.
StreamEnds(r) == pc[r] = "stream" /\ Over(r, "sent")
StreamBreaks(r) == pc[r] = "stream" /\ Over(r, "sent")

\* onError for an exception in onData: the upstream goes on for now.
StreamThrows(r) ==
    /\ pc[r] = "stream"
    /\ FinishTrace(r) /\ Return(r)
    /\ Goto(r, "sent")
    /\ UNCHANGED <<upstream, sink, closing>>

\* The 'close' of a streamed answer that was ended.
ResponseCloses(r) ==
    /\ pc[r] = "sent"
    /\ FinishTrace(r)
    /\ IF "pipe" \in listeners[r] THEN Hangup(r) ELSE UNCHANGED upstream
    /\ listeners' = [listeners EXCEPT ![r] = {}]
    /\ Goto(r, "done")
    /\ UNCHANGED <<sid, carries, client, aborted, requestMap, token, sessions, sink, closing>>

----------------------------------------------------------------------------
(* The client hangs up *)

\* While it uploads: the error of its body is answered, in vain.
LeavesUpload(r) ==
    /\ pc[r] = "reading"
    /\ FinishTrace(r) /\ Return(r)
    /\ Goto(r, "done")
    /\ UNCHANGED <<upstream, sink, closing>>

\* Do the listeners of a 'close', in the order they were registered, destroy the
\* upstream?  The response is not finished, so onClientClose aborts.
Destroys(r) ==
    LET aborts == "onClientClose" \in listeners[r]
    IN  \/ aborts /\ "onAbort" \in listeners[r]
        \/ (aborts \/ aborted[r]) /\ "dropUpstream" \in listeners[r]
        \/ "pipe" \in listeners[r]

\* Before the answer is sent: the response emits 'close'.  A streamed one is over;
\* the await for another settles later.
ClientCloses(r) ==
    /\ pc[r] \in {"waiting", "body", "stream"} /\ client[r]
    /\ IF Destroys(r) THEN Hangup(r) ELSE UNCHANGED upstream
    /\ \/ /\ "pipe" \in listeners[r]
          /\ FinishTrace(r) /\ Return(r)
          /\ Goto(r, "done")
       \/ /\ "pipe" \notin listeners[r]
          /\ client' = [client EXCEPT ![r] = FALSE]
          /\ aborted' = [aborted EXCEPT ![r] = @ \/ "onClientClose" \in listeners[r]]
          /\ UNCHANGED <<pc, sid, carries, listeners, requestMap, token, sessions, trace>>
    /\ UNCHANGED <<sink, closing>>

\* The await rejects: abandon.
Abandon(r) == pc[r] \in {"waiting", "body"} /\ aborted[r] /\ Over(r, "done")

----------------------------------------------------------------------------
(* The audit log and shutdown *)

others == <<pc, request, upstream, sessions, responses, inflight, accepted, dropped>>

\* One more record is written; 'drain' once there is none left.
AuditFlush ==
    /\ buffered > 0
    /\ buffered' = buffered - 1
    /\ needDrain' = (needDrain /\ buffered > 1)
    /\ UNCHANGED <<others, sink, closing>>

\* The stream's 'error': what it had buffered is gone.
AuditFails ==
    /\ sink = "open"
    /\ sink' = "failed" /\ buffered' = 0
    /\ UNCHANGED <<others, needDrain, closing>>

Close ==
    /\ ~closing
    /\ closing' = TRUE
    /\ UNCHANGED <<others, buffered, needDrain, sink>>

\* server.close calls back once every connection is closed.
AuditClose ==
    /\ closing /\ sink = "open"
    /\ \A r \in Requests : pc[r] \in {"idle", "done"} \/ ~client[r]
    /\ sink' = "closing"
    /\ UNCHANGED <<others, buffered, needDrain, closing>>

\* An await that may go on does so before the next callback.
Microtask == \E r \in Requests : pc[r] = "answered"

Next ==
    \/ \E r \in Requests : Continues(r)
    \/ /\ ~Microtask
       /\ \/ \E r \in Requests :
               \/ \E s \in Sids, b \in Bodies : Arrive(r, s, b)
               \/ RejectUnauthorized(r)
               \/ LeavesUpload(r) \/ ClientCloses(r)
               \/ Refuse(r) \/ ScrubThrows(r) \/ Forward(r)
               \/ ResponseHeaders(r) \/ UpstreamFails(r)
               \/ BodyEnds(r) \/ StreamEnds(r) \/ StreamBreaks(r) \/ StreamThrows(r)
               \/ ResponseCloses(r) \/ Abandon(r)
          \/ AuditFlush \/ AuditFails \/ Close \/ AuditClose

Spec == Init /\ [][Next]_vars

----------------------------------------------------------------------------
TypeOK ==
    /\ pc \in [Requests -> PCs]
    /\ sid \in [Requests -> Sids \union {None}]
    /\ carries \in [Requests -> Bodies]
    /\ client \in [Requests -> BOOLEAN] /\ aborted \in [Requests -> BOOLEAN]
    /\ upstream \in [Requests -> {"none", "open", "closed"}]
    /\ listeners \in [Requests -> SUBSET Listeners]
    /\ threw \subseteq Requests
    /\ store \in Seq([sid : Sids, map : Requests])
    /\ heap \in [Requests -> Seq(Values)]
    /\ requestMap \in [Requests -> Requests \union {None}]
    /\ token \in [Requests -> Nat]
    /\ responses \in [Requests -> Nat] /\ inflight \in Nat
    /\ sink \in {"open", "closing", "failed"}
    /\ buffered \in 0..HighWater /\ needDrain \in BOOLEAN
    /\ accepted \union dropped \subseteq Requests
    /\ closing \in BOOLEAN

\* types.ts: the `response` event is "emitted exactly once per client request",
\* whichever of its completion paths run; and the in-flight gauge counts the
\* requests that have not had theirs.
ExactlyOneResponse ==
    /\ \A r \in Requests : responses[r] = IF pc[r] \in {"sent", "done"} THEN 1 ELSE 0
    /\ inflight = Cardinality({r \in Requests : pc[r] \notin {"idle", "sent", "done"}})

\* "other traffic can evict the session from the store while the upstream is
\* still answering": an answer gives the client its own value back, though the
\* session may have been forgotten, begun anew and numbered afresh meanwhile.
RestoresOwnValues ==
    \A r \in Requests :
        pc[r] \in {"body", "stream"} /\ carries[r] \in Values => Rehydrated(r) = carries[r]

\* A session that is in the store has one map, the store is bounded, and it
\* holds no session that "holds no placeholders", unless a detector threw on it.
StoreSound ==
    /\ Len(store) <= Bound
    /\ \A i, j \in DOMAIN store : store[i].sid = store[j].sid => i = j
    /\ \A i \in DOMAIN store : heap[store[i].map] # <<>> \/ store[i].map \in threw

\* Unless the file failed, every request's record was taken by the audit log or
\* counted in prompt_scrub_audit_dropped_total, and not both, even when it
\* comes after the log was closed.
AuditAccountsForAll ==
    sink # "failed" =>
        /\ {r \in Requests : responses[r] > 0} = accepted \union dropped
        /\ accepted \intersect dropped = {}

\* "A client that hangs up has no use for the answer": whichever listeners the
\* hand-overs between the awaits have left on its response when it emits 'close',
\* they end the upstream; and no upstream is left open by a request that is done.
NoOrphanUpstream ==
    \A r \in Requests : ~client[r] \/ pc[r] = "done" => upstream[r] # "open"
=============================================================================

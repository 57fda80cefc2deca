-------------------------- MODULE ProxyServerProofs --------------------------
(***************************************************************************)
(* For any number of requests, sessions and values: every request has one  *)
(* response event, the gauge and the audit log account for all of them, a  *)
(* client that leaves always meets listeners that end its upstream, an     *)
(* answer is rehydrated to the client's own value whatever happened to the *)
(* session meanwhile, and the session store stays within its bound,        *)
(* whatever its size.                                                      *)
(***************************************************************************)
EXTENDS ProxyServer, SequenceTheorems, FiniteSetTheorems, TLAPS

----------------------------------------------------------------------------
(* Sequences *)

\* t is s with element i taken away, and the later ones moved down.
IsRemoved(t, S, s, i) ==
    /\ t \in Seq(S)
    /\ Len(t) = Len(s) - 1
    /\ \A j \in 1..(Len(s) - 1) : t[j] = IF j < i THEN s[j] ELSE s[j + 1]

\* RemoveAt takes one element away.
LEMMA RemoveAtIndex ==
    ASSUME NEW S, NEW s \in Seq(S), NEW i \in 1..Len(s)
    PROVE  IsRemoved(RemoveAt(s, i), S, s, i)
<1> DEFINE left == SubSeq(s, 1, i - 1)
           right == SubSeq(s, i + 1, Len(s))
<1>1. /\ left \in Seq(S) /\ Len(left) = i - 1
      /\ \A j \in 1..(i - 1) : left[j] = s[j]
  <2>1. \A j \in 1..(i - 1) : s[j] \in S
    OBVIOUS
  <2> QED
    BY <2>1, SubSeqProperties
<1>2. /\ right \in Seq(S) /\ Len(right) = Len(s) - i
      /\ \A j \in 1..(Len(s) - i) : right[j] = s[i + j]
  <2>1. \A j \in (i + 1)..Len(s) : s[j] \in S
    OBVIOUS
  <2> QED
    BY <2>1, SubSeqProperties
<1> HIDE DEF left, right
<1>3. /\ left \o right \in Seq(S)
      /\ Len(left \o right) = Len(s) - 1
      /\ \A j \in 1..(Len(s) - 1) :
           (left \o right)[j] = IF j <= i - 1 THEN left[j] ELSE right[j - (i - 1)]
  <2>1. Len(left) + Len(right) = Len(s) - 1
    BY <1>1, <1>2
  <2>2. /\ left \o right \in Seq(S)
        /\ Len(left \o right) = Len(left) + Len(right)
        /\ \A j \in 1..(Len(left) + Len(right)) :
             (left \o right)[j] = IF j <= Len(left) THEN left[j] ELSE right[j - Len(left)]
    BY <1>1, <1>2, ConcatProperties
  <2> QED
    BY <1>1, <2>1, <2>2
<1>4. ASSUME NEW j \in 1..(Len(s) - 1), ~(j < i) PROVE right[j - (i - 1)] = s[j + 1]
  <2>1. j - (i - 1) \in 1..(Len(s) - i) /\ i + (j - (i - 1)) = j + 1
    BY <1>4
  <2> QED
    BY <1>2, <2>1
<1>5. RemoveAt(s, i) = left \o right
  BY DEF RemoveAt, left, right
<1>6. ASSUME NEW j \in 1..(Len(s) - 1)
      PROVE  RemoveAt(s, i)[j] = IF j < i THEN s[j] ELSE s[j + 1]
  <2>1. CASE j < i
    BY <1>1, <1>3, <1>5, <2>1
  <2>2. CASE ~(j < i)
    <3>1. ~(j <= i - 1)
      BY <2>2
    <3> QED
      BY <1>3, <1>4, <1>5, <2>2, <3>1
  <2> QED
    BY <2>1, <2>2
<1> QED
  BY <1>3, <1>5, <1>6 DEF IsRemoved

----------------------------------------------------------------------------

\* The types that the proofs about requests need: nothing of the store.
Shape ==
    /\ pc \in [Requests -> PCs]
    /\ carries \in [Requests -> Bodies]
    /\ client \in [Requests -> BOOLEAN] /\ aborted \in [Requests -> BOOLEAN]
    /\ upstream \in [Requests -> {"none", "open", "closed"}]
    /\ listeners \in [Requests -> SUBSET Listeners]
    /\ threw \subseteq Requests
    /\ heap \in [Requests -> Seq(Values)]
    /\ requestMap \in [Requests -> Requests \union {None}]
    /\ token \in [Requests -> Nat]
    /\ responses \in [Requests -> Nat] /\ inflight \in Nat
    /\ accepted \subseteq Requests /\ dropped \subseteq Requests

Answered == {"sent", "done"}

\* The requests that have begun and not had their response event.
Pending == {r \in Requests : pc[r] \notin {"idle", "sent", "done"}}

OneEach == \A r \in Requests : responses[r] = IF pc[r] \in Answered THEN 1 ELSE 0

Gauge == IsFiniteSet(Pending) /\ inflight = Cardinality(Pending)

\* At every await, the listeners on the response are those that end the upstream
\* when it emits 'close'; nothing opens one after that.
Watched ==
    \A r \in Requests :
      /\ ~client[r] \/ pc[r] = "done" => upstream[r] # "open"
      /\ pc[r] \in {"idle", "reading"} => client[r] /\ upstream[r] = "none"
      /\ client[r] /\ pc[r] = "waiting" => {"onClientClose", "onAbort"} \subseteq listeners[r]
      /\ client[r] /\ pc[r] = "answered" => "onClientClose" \in listeners[r]
      /\ client[r] /\ pc[r] = "body" => {"onClientClose", "dropUpstream"} \subseteq listeners[r]
      /\ pc[r] \in {"stream", "sent"} => "pipe" \in listeners[r]

\* While the upstream works, the request's own map has the value it sent.
OwnMap ==
    \A r \in Requests :
      pc[r] \in {"waiting", "answered", "body", "stream"} /\ carries[r] \in Values =>
        /\ requestMap[r] \in Requests
        /\ token[r] \in DOMAIN heap[requestMap[r]]
        /\ heap[requestMap[r]][token[r]] = carries[r]

----------------------------------------------------------------------------
\* A map only grows when a value is given its placeholder in it.
LEMMA MintExtends ==
    ASSUME NEW m \in Seq(Values), NEW v \in Bodies
    PROVE  /\ Mint(m, v) \in Seq(Values)
           /\ \A i \in DOMAIN m : i \in DOMAIN Mint(m, v) /\ Mint(m, v)[i] = m[i]
           /\ v \in Values => \E i \in DOMAIN Mint(m, v) : Mint(m, v)[i] = v
  <1>1. CASE v \notin Values \/ v \in Range(m)
    BY <1>1 DEF Mint, Range
  <1>2. CASE v \in Values /\ v \notin Range(m)
    <2>1. Mint(m, v) = Append(m, v)
      BY <1>2 DEF Mint
    <2>2. Append(m, v) \in Seq(Values) /\ Len(m) + 1 \in DOMAIN Append(m, v)
      BY <1>2
    <2>3. QED
      BY <1>2, <2>1, <2>2
  <1>3. QED
    BY <1>1, <1>2

\* When a request is scrubbed, its map has its value, and every map a request
\* or the store refers to keeps what it had.
LEMMA Scrubbed ==
    ASSUME Shape, NEW r \in Requests, ScrubBody(r)
    PROVE  /\ heap' \in [Requests -> Seq(Values)]
           /\ requestMap' \in [Requests -> Requests \union {None}]
           /\ token' \in [Requests -> Nat]
           /\ \A q \in Requests \ {r} : requestMap'[q] = requestMap[q] /\ token'[q] = token[q]
           /\ requestMap'[r] \in Requests
           /\ carries[r] \in Values =>
                /\ token'[r] \in DOMAIN heap'[requestMap'[r]]
                /\ heap'[requestMap'[r]][token'[r]] = carries[r]
           /\ \A q \in Requests \ {r} : requestMap[q] \in Requests =>
                \A i \in DOMAIN heap[requestMap[q]] :
                  /\ i \in DOMAIN heap'[requestMap[q]]
                  /\ heap'[requestMap[q]][i] = heap[requestMap[q]][i]
  <1> DEFINE m == MapOf(r)
             map == Mint(heap[m], carries[r])
             kept == Kept(store', requestMap')
  <1>1. m \in Requests
    BY DEF Stored, MapOf
  <1>2. /\ requestMap' = [requestMap EXCEPT ![r] = m]
        /\ heap' = [kept EXCEPT ![m] = map]
        /\ token' = [token EXCEPT ![r] =
             IF carries[r] \in Values THEN CHOOSE i \in DOMAIN map : map[i] = carries[r] ELSE 0]
    BY DEF ScrubBody
  <1>3. kept \in [Requests -> Seq(Values)]
    BY DEF Kept, Shape
  <1>4. \A q \in Requests : requestMap'[q] \in Requests =>
          kept[requestMap'[q]] = heap[requestMap'[q]]
    <2> SUFFICES ASSUME NEW q \in Requests, requestMap'[q] \in Requests
                 PROVE  kept[requestMap'[q]] = heap[requestMap'[q]]
      OBVIOUS
    <2>1. requestMap'[q] \in {requestMap'[x] : x \in Requests}
      OBVIOUS
    <2>2. QED
      BY <2>1 DEF Kept
  <1>5. /\ map \in Seq(Values)
        /\ \A i \in DOMAIN heap[m] : i \in DOMAIN map /\ map[i] = heap[m][i]
        /\ carries[r] \in Values => \E i \in DOMAIN map : map[i] = carries[r]
    <2> HIDE DEF m
    <2>1. heap[m] \in Seq(Values) /\ carries[r] \in Bodies
      BY <1>1 DEF Shape
    <2>2. QED
      BY <2>1, MintExtends
  <1> HIDE DEF m, map, kept
  <1>6. carries[r] \in Values => token'[r] \in DOMAIN map /\ map[token'[r]] = carries[r]
    BY <1>2, <1>5 DEF Shape
  <1>7. token'[r] \in Nat
    <2>1. CASE carries[r] \in Values
      BY <2>1, <1>5, <1>6
    <2>2. CASE carries[r] \notin Values
      BY <2>2, <1>2 DEF Shape
    <2>3. QED
      BY <2>1, <2>2
  <1>8. heap' \in [Requests -> Seq(Values)] /\ heap'[m] = map
    BY <1>1, <1>2, <1>3, <1>5
  <1>9. \A q \in Requests \ {r} : requestMap'[q] = requestMap[q] /\ token'[q] = token[q]
    BY <1>2 DEF Shape
  <1>10. requestMap'[r] = m
    BY <1>2 DEF Shape
  <1>11. /\ requestMap' \in [Requests -> Requests \union {None}]
         /\ token' \in [Requests -> Nat]
    BY <1>1, <1>2, <1>7 DEF Shape
  <1>12. ASSUME NEW q \in Requests \ {r}, requestMap[q] \in Requests
         PROVE  \A i \in DOMAIN heap[requestMap[q]] :
                  /\ i \in DOMAIN heap'[requestMap[q]]
                  /\ heap'[requestMap[q]][i] = heap[requestMap[q]][i]
    <2>1. CASE requestMap[q] = m
      BY <2>1, <1>5, <1>8
    <2>2. CASE requestMap[q] # m
      BY <2>2, <1>2, <1>3, <1>4, <1>9, <1>12
    <2>3. QED
      BY <2>1, <2>2
  <1>13. QED
    BY <1>1, <1>6, <1>8, <1>9, <1>10, <1>11, <1>12

\* What a request's return leaves of the others.
LEMMA Returned ==
    ASSUME Shape, NEW r \in Requests, Return(r)
    PROVE  /\ heap' \in [Requests -> Seq(Values)]
           /\ \A q \in Requests \ {r} : requestMap[q] \in Requests =>
                heap'[requestMap[q]] = heap[requestMap[q]]
           /\ \A q \in Requests \ {r} :
                requestMap'[q] = requestMap[q] /\ token'[q] = token[q] /\ carries'[q] = carries[q]
           /\ carries' \in [Requests -> Bodies] /\ carries'[r] = "plain"
           /\ client' \in [Requests -> BOOLEAN] /\ aborted' \in [Requests -> BOOLEAN]
           /\ listeners' \in [Requests -> SUBSET Listeners] /\ threw' = threw
           /\ requestMap' \in [Requests -> Requests \union {None}]
           /\ token' \in [Requests -> Nat]
  <1>1. /\ carries' \in [Requests -> Bodies] /\ carries'[r] = "plain"
        /\ client' \in [Requests -> BOOLEAN] /\ aborted' \in [Requests -> BOOLEAN]
        /\ listeners' \in [Requests -> SUBSET Listeners] /\ threw' = threw
        /\ requestMap' \in [Requests -> Requests \union {None}]
        /\ token' \in [Requests -> Nat]
        /\ \A q \in Requests \ {r} :
             requestMap'[q] = requestMap[q] /\ token'[q] = token[q] /\ carries'[q] = carries[q]
    BY DEF Return, Forget, Shape, Bodies
  <1>2. heap' = Kept(store, requestMap')
    BY DEF Return
  <1>3. heap' \in [Requests -> Seq(Values)]
    BY <1>2 DEF Kept, Shape
  <1>4. ASSUME NEW q \in Requests \ {r}, requestMap[q] \in Requests
        PROVE  heap'[requestMap[q]] = heap[requestMap[q]]
    <2>1. requestMap[q] \in {requestMap'[x] : x \in Requests}
      BY <1>1
    <2>2. QED
      BY <1>2, <1>4, <2>1 DEF Kept
  <1>5. QED
    BY <1>1, <1>3, <1>4

\* When a detector throws on a request, every map that another refers to keeps what
\* it had.
LEMMA Thrown ==
    ASSUME Shape, NEW r \in Requests, ScrubThrows(r)
    PROVE  /\ heap' \in [Requests -> Seq(Values)] /\ threw' \subseteq Requests
           /\ \A q \in Requests \ {r} :
                requestMap'[q] = requestMap[q] /\ token'[q] = token[q] /\ carries'[q] = carries[q]
           /\ carries' \in [Requests -> Bodies] /\ carries'[r] = "plain"
           /\ client' \in [Requests -> BOOLEAN] /\ aborted' \in [Requests -> BOOLEAN]
           /\ listeners' \in [Requests -> SUBSET Listeners]
           /\ requestMap' \in [Requests -> Requests \union {None}]
           /\ token' \in [Requests -> Nat]
           /\ \A q \in Requests \ {r} : requestMap[q] \in Requests =>
                \A i \in DOMAIN heap[requestMap[q]] :
                  /\ i \in DOMAIN heap'[requestMap[q]]
                  /\ heap'[requestMap[q]][i] = heap[requestMap[q]][i]
  <1> DEFINE m == MapOf(r)
             kept == Kept(store', requestMap')
  <1>1. m \in Requests
    BY DEF Stored, MapOf
  <1>2. /\ carries' \in [Requests -> Bodies] /\ carries'[r] = "plain"
        /\ client' \in [Requests -> BOOLEAN] /\ aborted' \in [Requests -> BOOLEAN]
        /\ listeners' \in [Requests -> SUBSET Listeners]
        /\ requestMap' \in [Requests -> Requests \union {None}]
        /\ token' \in [Requests -> Nat]
        /\ \A q \in Requests \ {r} :
             requestMap'[q] = requestMap[q] /\ token'[q] = token[q] /\ carries'[q] = carries[q]
    BY DEF ScrubThrows, Forget, Shape, Bodies
  <1>3. /\ threw' = threw \union {m}
        /\ \E map \in {heap[m], Mint(heap[m], carries[r])} : heap' = [kept EXCEPT ![m] = map]
    BY DEF ScrubThrows
  <1>4. kept \in [Requests -> Seq(Values)]
    BY DEF Kept, Shape
  <1>5. \A q \in Requests \ {r} : requestMap[q] \in Requests => kept[requestMap[q]] = heap[requestMap[q]]
    <2> SUFFICES ASSUME NEW q \in Requests \ {r}, requestMap[q] \in Requests
                 PROVE  kept[requestMap[q]] = heap[requestMap[q]]
      OBVIOUS
    <2>1. requestMap[q] \in {requestMap'[x] : x \in Requests}
      BY <1>2
    <2>2. QED
      BY <2>1 DEF Kept
  <1> HIDE DEF m, kept
  <1>6. PICK map \in {heap[m], Mint(heap[m], carries[r])} : heap' = [kept EXCEPT ![m] = map]
    BY <1>3
  <1>7. map \in Seq(Values) /\ \A i \in DOMAIN heap[m] : i \in DOMAIN map /\ map[i] = heap[m][i]
    <2>1. heap[m] \in Seq(Values) /\ carries[r] \in Bodies
      BY <1>1 DEF Shape
    <2>2. QED
      BY <1>6, <2>1, MintExtends
  <1>8. heap' \in [Requests -> Seq(Values)] /\ heap'[m] = map
    BY <1>1, <1>4, <1>6, <1>7
  <1>9. ASSUME NEW q \in Requests \ {r}, requestMap[q] \in Requests
        PROVE  \A i \in DOMAIN heap[requestMap[q]] :
                 /\ i \in DOMAIN heap'[requestMap[q]]
                 /\ heap'[requestMap[q]][i] = heap[requestMap[q]][i]
    <2>1. CASE requestMap[q] = m
      BY <2>1, <1>7, <1>8
    <2>2. CASE requestMap[q] # m
      BY <2>2, <1>4, <1>5, <1>6, <1>9
    <2>3. QED
      BY <2>1, <2>2
  <1>10. threw' \subseteq Requests
    BY <1>1, <1>3 DEF Shape
  <1>11. QED
    BY <1>2, <1>8, <1>9, <1>10

\* What a response event leaves behind has the right types.
LEMMA Traced ==
    ASSUME Shape, NEW r \in Requests, NEW n \in Nat, FinishTrace(r) \/ Respond(r, n)
    PROVE  /\ responses' \in [Requests -> Nat] /\ inflight' \in Nat
           /\ accepted' \subseteq Requests /\ dropped' \subseteq Requests
  <1>1. CASE UNCHANGED trace
    BY <1>1 DEF trace, Shape
  <1>2. ASSUME NEW k \in Nat, Respond(r, k)
        PROVE  /\ responses' \in [Requests -> Nat] /\ inflight' \in Nat
               /\ accepted' \subseteq Requests /\ dropped' \subseteq Requests
    BY <1>2 DEF Respond, RecordResponse, AuditWrite, Shape
  <1>3. QED
    BY <1>1, <1>2 DEF FinishTrace, Shape

\* The client of a streamed answer leaves, or one that waits for its answer does.
LeavesStream(r) == ClientCloses(r) /\ "pipe" \in listeners[r]
LeavesWaiting(r) == ClientCloses(r) /\ "pipe" \notin listeners[r]

\* The steps that end a request.
Ending(r) ==
    \/ LeavesUpload(r) \/ Refuse(r) \/ LeavesStream(r) \/ UpstreamFails(r)
    \/ BodyEnds(r) \/ StreamEnds(r) \/ StreamBreaks(r) \/ StreamThrows(r) \/ Abandon(r)

\* A request that ends has its response event, if it had none.  Its upstream is
\* closed or was never opened, unless it ends with an answer that is to be sent.
LEMMA EndOfRequest ==
    ASSUME NEW r \in Requests, Ending(r)
    PROVE  /\ pc[r] \notin {"idle", "sent", "done"}
           /\ FinishTrace(r) /\ Return(r)
           /\ \E l \in Answered : /\ Goto(r, l)
                                  /\ l = "sent" => pc[r] = "stream"
                                  /\ l = "done" => Hangup(r) \/ pc[r] = "reading"
           /\ upstream' = upstream \/ Hangup(r)
           /\ UNCHANGED <<sink, closing>>
  <1> DEFINE Ended ==
        /\ pc[r] \notin {"idle", "sent", "done"}
        /\ FinishTrace(r) /\ Return(r)
        /\ \E l \in Answered : /\ Goto(r, l)
                               /\ l = "sent" => pc[r] = "stream"
                               /\ l = "done" => Hangup(r) \/ pc[r] = "reading"
        /\ upstream' = upstream \/ Hangup(r)
        /\ UNCHANGED <<sink, closing>>
  <1>1. CASE LeavesUpload(r) \/ Refuse(r)
    BY <1>1 DEF LeavesUpload, Refuse, Answered
  <1>2. ASSUME NEW l \in Answered, Over(r, l), pc[r] \in {"waiting", "body", "stream"},
               l = "sent" => pc[r] = "stream"
        PROVE  Ended
    BY <1>2 DEF Over
  <1>3. CASE LeavesStream(r)
    <2>1. /\ pc[r] \in {"waiting", "body", "stream"} /\ "pipe" \in listeners[r]
          /\ FinishTrace(r) /\ Return(r) /\ Goto(r, "done")
          /\ IF Destroys(r) THEN Hangup(r) ELSE UNCHANGED upstream
          /\ UNCHANGED <<sink, closing>>
      BY <1>3 DEF LeavesStream, ClientCloses
    <2>2. Hangup(r)
      BY <2>1 DEF Destroys
    <2>3. QED
      BY <2>1, <2>2 DEF Answered
  <1>4. CASE UpstreamFails(r)
    BY <1>2, <1>4 DEF UpstreamFails, Answered
  <1>5. CASE BodyEnds(r)
    BY <1>2, <1>5 DEF BodyEnds, Answered
  <1>6. CASE StreamEnds(r)
    BY <1>2, <1>6 DEF StreamEnds, Answered
  <1>7. CASE StreamBreaks(r)
    BY <1>2, <1>7 DEF StreamBreaks, Answered
  <1>8. CASE Abandon(r)
    BY <1>2, <1>8 DEF Abandon, Answered
  <1>9. CASE StreamThrows(r)
    BY <1>9 DEF StreamThrows, Answered
  <1>10. QED
    BY <1>1, <1>3, <1>4, <1>5, <1>6, <1>7, <1>8, <1>9 DEF Ending

\* The two steps in which the listeners of an answer are handed over.
HandsOver(r) == ResponseHeaders(r) \/ Continues(r)

\* While a request waits, hand-overs and its client's leaving change nothing but
\* where it is, its listeners, its client and its upstream.
LEMMA Between ==
    ASSUME Shape, NEW r \in Requests, HandsOver(r) \/ LeavesWaiting(r)
    PROVE  /\ UNCHANGED <<sid, carries, requestMap, token, store, heap, threw, responses,
                          inflight, buffered, needDrain, accepted, dropped, sink, closing>>
           /\ pc[r] \in {"waiting", "answered", "body", "stream"}
           /\ pc' = pc \/ \E l \in {"answered", "body", "stream"} : Goto(r, l)
           /\ client' \in [Requests -> BOOLEAN] /\ aborted' \in [Requests -> BOOLEAN]
           /\ upstream' \in [Requests -> {"none", "open", "closed"}]
           /\ listeners' \in [Requests -> SUBSET Listeners]
  <1>1. CASE ResponseHeaders(r)
    BY <1>1 DEF ResponseHeaders, handover, sessions, trace, Shape
  <1>2. CASE Continues(r)
    <2>1. /\ UNCHANGED <<sid, carries, requestMap, token, store, heap, threw, responses,
                         inflight, buffered, needDrain, accepted, dropped, sink, closing,
                         client, aborted>>
          /\ pc[r] = "answered"
          /\ \E l \in {"answered", "body", "stream"} : Goto(r, l)
      BY <1>2 DEF Continues, handover, sessions, trace
    <2>a. ASSUME NEW l \in SUBSET Listeners, listeners' = [listeners EXCEPT ![r] = l]
          PROVE  listeners' \in [Requests -> SUBSET Listeners]
      BY <2>a DEF Shape
    <2>b. (listeners[r] \ {"onClientClose"}) \union {"pipe"} \in SUBSET Listeners
      BY DEF Listeners, Shape
    <2>c. listeners[r] \union {"dropUpstream"} \in SUBSET Listeners
      BY DEF Listeners, Shape
    <2>2. listeners' \in [Requests -> SUBSET Listeners]
      BY <1>2, <2>a, <2>b, <2>c DEF Continues
    <2>3. upstream' \in [Requests -> {"none", "open", "closed"}]
      BY <1>2 DEF Continues, Hangup, Shape
    <2>4. QED
      BY <2>1, <2>2, <2>3 DEF Shape
  <1>3. CASE LeavesWaiting(r)
    <2>1. /\ UNCHANGED <<sid, carries, requestMap, token, store, heap, threw, responses,
                         inflight, buffered, needDrain, accepted, dropped, sink, closing,
                         pc, listeners>>
          /\ pc[r] \in {"waiting", "answered", "body", "stream"}
          /\ client' = [client EXCEPT ![r] = FALSE]
          /\ aborted' = [aborted EXCEPT ![r] = @ \/ "onClientClose" \in listeners[r]]
          /\ Hangup(r) \/ UNCHANGED upstream
      BY <1>3 DEF LeavesWaiting, ClientCloses, sessions, trace
    <2>2. QED
      BY <2>1 DEF Hangup, Shape
  <1>4. QED
    BY <1>1, <1>2, <1>3 DEF HandsOver

----------------------------------------------------------------------------
(* The session store *)

Entries == [sid : Sids, map : Requests]

\* A session that is being read for is one of the sessions.
SessionInv ==
    /\ sid \in [Requests -> Sids \union {None}]
    /\ \A r \in Requests : pc[r] = "reading" => sid[r] \in Sids

Distinct(entries) == \A i, j \in 1..Len(entries) : entries[i].sid = entries[j].sid => i = j

StoreInv == store \in Seq(Entries) /\ StoreSound

\* d holds no more than entries, once each, and nothing of session s.
IsWithout(d, entries, s) ==
    /\ d \in Seq(Entries) /\ Len(d) <= Len(entries) /\ Distinct(d)
    /\ \A i \in 1..Len(d) : d[i].sid # s /\ \E j \in 1..Len(entries) : d[i] = entries[j]

\* d ends in the entry of s and m; its others were in entries and are not of s.
EndsIn(d, entries, s, m) ==
    /\ d \in Seq(Entries) /\ Distinct(d)
    /\ Len(d) > 0 /\ d[Len(d)] = [sid |-> s, map |-> m]
    /\ \A i \in 1..Len(d) : i < Len(d) =>
         d[i].sid # s /\ \E j \in 1..Len(entries) : d[i] = entries[j]

LEMMA BoundIsPositive == Bound \in Nat /\ Bound >= 1
BY ProxyAssumption DEF Bound

\* sessions.delete takes out the one entry of the session, if it has one.
LEMMA DeletedIsWithout ==
    ASSUME NEW entries \in Seq(Entries), Distinct(entries), NEW s \in Sids
    PROVE  IsWithout(Deleted(entries, s), entries, s)
<1> DEFINE at == {i \in DOMAIN entries : entries[i].sid = s}
<1>1. CASE at = {}
  <2>1. Deleted(entries, s) = entries
    BY <1>1 DEF Deleted
  <2> QED
    BY <1>1, <2>1 DEF IsWithout
<1>2. CASE at # {}
  <2> DEFINE k == CHOOSE i \in at : TRUE
             d == RemoveAt(entries, k)
  <2>1. k \in 1..Len(entries) /\ entries[k].sid = s
    BY <1>2
  <2>2. Deleted(entries, s) = d
    BY <1>2 DEF Deleted
  <2> HIDE DEF at, k
  <2>3. IsRemoved(d, Entries, entries, k)
    BY <2>1, RemoveAtIndex
  <2> HIDE DEF d
  <2>4. /\ d \in Seq(Entries) /\ Len(d) = Len(entries) - 1
        /\ \A j \in 1..(Len(entries) - 1) : d[j] = IF j < k THEN entries[j] ELSE entries[j + 1]
    BY <2>3 DEF IsRemoved
  <2>5. ASSUME NEW i \in 1..Len(d)
        PROVE  \E j \in 1..Len(entries) : j # k /\ j = (IF i < k THEN i ELSE i + 1) /\ d[i] = entries[j]
    BY <2>1, <2>4
  <2>6. Distinct(d)
    <3> SUFFICES ASSUME NEW i \in 1..Len(d), NEW j \in 1..Len(d), d[i].sid = d[j].sid
                 PROVE  i = j
      BY DEF Distinct
    <3>1. PICK x \in 1..Len(entries) : x = (IF i < k THEN i ELSE i + 1) /\ d[i] = entries[x]
      BY <2>5
    <3>2. PICK y \in 1..Len(entries) : y = (IF j < k THEN j ELSE j + 1) /\ d[j] = entries[y]
      BY <2>5
    <3>3. x = y
      BY <3>1, <3>2 DEF Distinct
    <3> QED
      BY <2>1, <3>1, <3>2, <3>3
  <2>7. \A i \in 1..Len(d) : d[i].sid # s
    BY <2>1, <2>5 DEF Distinct
  <2> QED
    BY <2>2, <2>4, <2>5, <2>6, <2>7 DEF IsWithout
<1> QED
  BY <1>1, <1>2

\* openSession makes the session the most recently used, and what it cuts off are
\* the least recently used others.
LEMMA OpenedEndsIn ==
    ASSUME StoreInv, NEW s \in Sids, NEW m \in Requests
    PROVE  EndsIn(Opened(s, m), store, s, m) /\ Len(Opened(s, m)) <= Bound
<1> DEFINE e == [sid |-> s, map |-> m]
           d == Deleted(store, s)
           all == Append(d, e)
<1>1. Opened(s, m) = IF Len(all) > Bound THEN SubSeq(all, Len(all) - Bound + 1, Len(all)) ELSE all
  BY DEF Opened
<1>2. IsWithout(d, store, s)
  BY DeletedIsWithout DEF StoreInv, StoreSound, Distinct
<1> HIDE DEF d
<1>3. /\ d \in Seq(Entries) /\ Distinct(d) /\ e \in Entries
      /\ \A i \in 1..Len(d) : d[i].sid # s /\ \E j \in 1..Len(store) : d[i] = store[j]
  BY <1>2 DEF IsWithout, Entries
<1>4. /\ all \in Seq(Entries) /\ Len(all) = Len(d) + 1 /\ all[Len(all)] = e /\ e.sid = s
      /\ \A i \in 1..Len(d) : all[i] = d[i]
  BY <1>3
<1> HIDE DEF e, all
<1>5. EndsIn(all, store, s, m)
  <2>1. Distinct(all)
    BY <1>3, <1>4 DEF Distinct
  <2> QED
    BY <1>3, <1>4, <2>1 DEF EndsIn, e
<1>6. CASE Len(all) <= Bound
  <2>1. Opened(s, m) = all
    BY <1>4, <1>6, <1>1, BoundIsPositive
  <2> QED
    BY <1>5, <1>6, <2>1
<1>7. CASE ~(Len(all) <= Bound)
  <2> DEFINE first == Len(all) - Bound + 1
             cut == SubSeq(all, first, Len(all))
  <2>1. Opened(s, m) = cut
    BY <1>4, <1>7, <1>1, BoundIsPositive
  <2>2. first \in 1..Len(all) /\ Len(all) - first + 1 = Bound
    BY <1>4, <1>7, BoundIsPositive
  <2> HIDE DEF first
  <2>3. /\ cut \in Seq(Entries) /\ Len(cut) = Bound
        /\ \A i \in 1..Bound : cut[i] = all[first + i - 1]
    <3>1. ASSUME NEW i \in first..Len(all) PROVE all[i] \in Entries
      <4>1. i \in 1..Len(all)
        BY <1>4, <2>2
      <4> QED
        BY <1>4, <4>1
    <3>2. first \in Int /\ Len(all) \in Int /\ first <= Len(all)
      BY <1>4, <2>2
    <3>3. /\ cut \in Seq(Entries) /\ Len(cut) = Len(all) - first + 1
          /\ \A i \in 1..(Len(all) - first + 1) : cut[i] = all[first + i - 1]
      BY <3>1, <3>2, SubSeqProperties
    <3> HIDE DEF cut
    <3> QED
      BY <2>2, <3>3
  <2> HIDE DEF cut
  <2>4. \A i \in 1..Bound : first + i - 1 \in 1..Len(all) /\ (i < Bound => first + i - 1 < Len(all))
    BY <1>4, <2>2, BoundIsPositive
  <2>5. Distinct(cut)
    <3> SUFFICES ASSUME NEW i \in 1..Bound, NEW j \in 1..Bound, cut[i].sid = cut[j].sid
                 PROVE  i = j
      BY <2>3 DEF Distinct
    <3>1. first + i - 1 = first + j - 1
      <4>1. Distinct(all)
        BY <1>5 DEF EndsIn
      <4>2. all[first + i - 1].sid = all[first + j - 1].sid
        BY <2>3
      <4> QED
        BY <2>4, <4>1, <4>2 DEF Distinct
    <3> QED
      BY <2>2, <3>1
  <2>6. cut[Len(cut)] = all[Len(all)] /\ Len(cut) > 0
    <3>1. Bound \in 1..Bound /\ first + Bound - 1 = Len(all)
      BY <1>4, <2>2, BoundIsPositive
    <3> QED
      BY <2>3, <3>1, BoundIsPositive
  <2>7. \A i \in 1..Len(cut) : i < Len(cut) =>
          cut[i].sid # s /\ \E j \in 1..Len(store) : cut[i] = store[j]
    BY <1>5, <2>3, <2>4 DEF EndsIn
  <2> QED
    BY <1>5, <2>1, <2>3, <2>5, <2>6, <2>7 DEF EndsIn
<1> QED
  BY <1>4, <1>6, <1>7, BoundIsPositive

\* A session's new entry is dropped again only when its map is empty, and then the
\* entries that are left are of other maps.
LEMMA ScrubbedStore ==
    ASSUME Shape, StoreInv, NEW r \in Requests, sid[r] \in Sids, ScrubBody(r)
    PROVE  StoreInv'
<1> DEFINE m == MapOf(r)
           map == Mint(heap[m], carries[r])
           kept == Kept(store', requestMap')
           opened == Opened(sid[r], m)
<1>1. m \in Requests
  BY DEF Stored, MapOf
<1>2. /\ store' = WithoutEmpty(opened, sid[r], m, map)
      /\ heap' = [kept EXCEPT ![m] = map]
      /\ threw' = threw
  BY DEF ScrubBody
<1>3. kept \in [Requests -> Seq(Values)]
  BY DEF Kept, Shape
<1>4. map = <<>> => heap[m] = <<>>
  <2>1. heap[m] \in Seq(Values) /\ carries[r] \in Bodies
    BY <1>1 DEF Shape
  <2> HIDE DEF m
  <2>2. map \in Seq(Values) /\ \A i \in DOMAIN heap[m] : i \in DOMAIN map
    BY <2>1, MintExtends
  <2> HIDE DEF map
  <2>3. ASSUME map = <<>> PROVE ~(1 \in DOMAIN heap[m])
    BY <2>2, <2>3
  <2> QED
    BY <2>1, <2>3
<1>5. EndsIn(opened, store, sid[r], m) /\ Len(opened) <= Bound
  <2> HIDE DEF m
  <2> QED
    BY <1>1, OpenedEndsIn
<1>6. ASSUME store' \in Seq(Entries), NEW i \in 1..Len(store'), store'[i].map # m,
             \E j \in 1..Len(store) : store'[i] = store[j]
      PROVE  heap'[store'[i].map] # <<>> \/ store'[i].map \in threw'
  <2>1. store'[i] \in Range(store') /\ store'[i].map \in Requests
    <3>1. i \in DOMAIN store' /\ store'[i] \in Entries
      BY <1>6
    <3> QED
      BY <3>1 DEF Range, Entries
  <2>2. kept[store'[i].map] = heap[store'[i].map]
    BY <2>1 DEF Kept
  <2> HIDE DEF m, kept
  <2>3. heap'[store'[i].map] = heap[store'[i].map]
    BY <1>2, <1>3, <1>6, <2>1, <2>2
  <2>4. heap[store'[i].map] # <<>> \/ store'[i].map \in threw
    BY <1>6 DEF StoreInv, StoreSound
  <2> QED
    BY <1>2, <2>3, <2>4
<1> HIDE DEF m, map, kept, opened
<1>7. CASE map = <<>>
  <2>1. [sid |-> sid[r], map |-> m] \in Range(opened)
    BY <1>5 DEF EndsIn, Range
  <2>2. store' = Deleted(opened, sid[r])
    BY <1>2, <1>7, <2>1 DEF WithoutEmpty
  <2>3. IsWithout(store', opened, sid[r])
    <3>1. opened \in Seq(Entries) /\ Distinct(opened)
      BY <1>5 DEF EndsIn
    <3> QED
      BY <2>2, <3>1, DeletedIsWithout
  <2>4. /\ store' \in Seq(Entries) /\ Len(store') <= Bound
        /\ \A i, j \in DOMAIN store' : store'[i].sid = store'[j].sid => i = j
    <3>1. opened \in Seq(Entries)
      BY <1>5 DEF EndsIn
    <3>2. store' \in Seq(Entries) /\ Len(store') <= Len(opened) /\ Distinct(store')
      BY <2>3 DEF IsWithout
    <3>3. Len(store') <= Bound /\ DOMAIN store' = 1..Len(store')
      BY <1>5, <3>1, <3>2, BoundIsPositive
    <3> QED
      BY <3>2, <3>3 DEF Distinct
  <2>5. ASSUME NEW i \in 1..Len(store')
        PROVE  heap'[store'[i].map] # <<>> \/ store'[i].map \in threw'
    <3>1. store'[i].sid # sid[r] /\ \E j \in 1..Len(opened) : store'[i] = opened[j]
      BY <2>3 DEF IsWithout
    <3>2. \E j \in 1..Len(store) : store'[i] = store[j]
      BY <1>5, <3>1 DEF EndsIn
    <3>3. store'[i].map = m => store'[i].map \in threw
      BY <1>4, <1>7, <3>2 DEF StoreInv, StoreSound
    <3> QED
      BY <1>2, <1>6, <2>4, <3>2, <3>3
  <2> QED
    BY <2>4, <2>5 DEF StoreInv, StoreSound, Bound
<1>8. CASE map # <<>>
  <2>1. store' = opened
    BY <1>2, <1>8 DEF WithoutEmpty
  <2>2. /\ store' \in Seq(Entries) /\ Len(store') <= Bound
        /\ \A i, j \in DOMAIN store' : store'[i].sid = store'[j].sid => i = j
    BY <1>5, <2>1 DEF EndsIn, Distinct
  <2>3. ASSUME NEW i \in 1..Len(store')
        PROVE  heap'[store'[i].map] # <<>> \/ store'[i].map \in threw'
    <3>1. CASE store'[i].map = m
      BY <1>1, <1>2, <1>3, <1>8, <3>1
    <3>2. CASE store'[i].map # m
      <4>1. \E j \in 1..Len(store) : store'[i] = store[j]
        BY <1>5, <2>1, <3>2 DEF EndsIn
      <4> QED
        BY <1>6, <2>2, <3>2, <4>1
    <3> QED
      BY <3>1, <3>2
  <2> QED
    BY <2>2, <2>3 DEF StoreInv, StoreSound, Bound
<1> QED
  BY <1>7, <1>8

\* A session on which a detector threw is in the store like any other, though its map
\* may be empty.
LEMMA ThrownStore ==
    ASSUME Shape, StoreInv, NEW r \in Requests, sid[r] \in Sids, ScrubThrows(r)
    PROVE  StoreInv'
<1> DEFINE m == MapOf(r)
           kept == Kept(store', requestMap')
<1>1. m \in Requests
  BY DEF Stored, MapOf
<1>2. /\ store' = Opened(sid[r], m)
      /\ threw' = threw \union {m}
      /\ \E map \in {heap[m], Mint(heap[m], carries[r])} : heap' = [kept EXCEPT ![m] = map]
  BY DEF ScrubThrows
<1>3. kept \in [Requests -> Seq(Values)]
  BY DEF Kept, Shape
<1>4. ASSUME NEW e \in Range(store'), e.map \in Requests PROVE kept[e.map] = heap[e.map]
  BY <1>4 DEF Kept
<1> HIDE DEF m, kept
<1>5. EndsIn(store', store, sid[r], m) /\ Len(store') <= Bound
  BY <1>1, <1>2, OpenedEndsIn
<1>6. /\ store' \in Seq(Entries)
      /\ \A i, j \in DOMAIN store' : store'[i].sid = store'[j].sid => i = j
  BY <1>5 DEF EndsIn, Distinct
<1>7. ASSUME NEW i \in 1..Len(store')
      PROVE  heap'[store'[i].map] # <<>> \/ store'[i].map \in threw'
  <2>1. CASE store'[i].map = m
    BY <1>2, <2>1
  <2>2. CASE store'[i].map # m
    <3>1. \E j \in 1..Len(store) : store'[i] = store[j]
      BY <1>5, <2>2 DEF EndsIn
    <3>2. store'[i] \in Range(store') /\ store'[i].map \in Requests
      <4>1. i \in DOMAIN store' /\ store'[i] \in Entries
        BY <1>6
      <4> QED
        BY <4>1 DEF Range, Entries
    <3>3. kept[store'[i].map] = heap[store'[i].map]
      BY <1>4, <3>2
    <3>4. heap'[store'[i].map] = kept[store'[i].map]
      BY <1>2, <1>3, <2>2, <3>2
    <3>5. heap[store'[i].map] # <<>> \/ store'[i].map \in threw
      BY <3>1 DEF StoreInv, StoreSound
    <3> QED
      BY <1>2, <3>3, <3>4, <3>5
  <2> QED
    BY <2>1, <2>2
<1> QED
  BY <1>5, <1>6, <1>7 DEF StoreInv, StoreSound, Bound

\* The store refers to its maps as long as they are in it.
LEMMA ReturnedStore ==
    ASSUME Shape, StoreInv, NEW r \in Requests, Return(r)
    PROVE  StoreInv'
<1>1. store' = store /\ heap' = Kept(store, requestMap') /\ threw' = threw
  BY DEF Return
<1>2. ASSUME NEW i \in DOMAIN store PROVE heap'[store[i].map] = heap[store[i].map]
  <2>1. store[i] \in Range(store) /\ store[i].map \in Requests
    <3>1. store[i] \in Entries
      BY DEF StoreInv
    <3> QED
      BY <3>1 DEF Range, Entries
  <2> QED
    BY <1>1, <2>1 DEF Kept
<1> QED
  BY <1>1, <1>2 DEF StoreInv, StoreSound, Bound

----------------------------------------------------------------------------
(* Steps *)

\* Every step keeps the types.
LEMMA ShapeStep == Shape /\ [Next]_vars => Shape'
  <1> SUFFICES ASSUME Shape, [Next]_vars PROVE Shape'
    OBVIOUS
  <1>1. ASSUME NEW r \in Requests, NEW s \in Sids, NEW b \in Bodies, Arrive(r, s, b)
        PROVE  Shape'
    BY <1>1 DEF Arrive, CountRequest, Goto, Shape, PCs, sessions
  <1>2. ASSUME NEW r \in Requests, RejectUnauthorized(r) PROVE Shape'
    <2>1. inflight + 1 \in Nat
      BY DEF Shape
    <2>2. QED
      BY <1>2, <2>1, Traced DEF RejectUnauthorized, Goto, Shape, PCs, request, sessions
  <1>3. ASSUME NEW r \in Requests, Ending(r) PROVE Shape'
    <2>1. /\ FinishTrace(r) /\ Return(r)
          /\ pc' \in [Requests -> PCs]
          /\ upstream' \in [Requests -> {"none", "open", "closed"}]
      BY <1>3, EndOfRequest DEF Hangup, Goto, Shape, PCs, Answered
    <2>2. QED
      BY <2>1, Returned, Traced DEF Shape
  <1>4. ASSUME NEW r \in Requests, ResponseCloses(r) PROVE Shape'
    <2>1. /\ pc' \in [Requests -> PCs] /\ FinishTrace(r)
          /\ upstream' \in [Requests -> {"none", "open", "closed"}]
          /\ listeners' \in [Requests -> SUBSET Listeners]
      BY <1>4 DEF ResponseCloses, Hangup, Goto, Shape, PCs
    <2>2. UNCHANGED <<carries, client, aborted, requestMap, token, heap, threw>>
      BY <1>4 DEF ResponseCloses, sessions
    <2>3. QED
      BY <2>1, <2>2, Traced DEF Shape
  <1>5. ASSUME NEW r \in Requests, Forward(r) PROVE Shape'
    <2>1. /\ pc' \in [Requests -> PCs]
          /\ upstream' \in [Requests -> {"none", "open", "closed"}]
          /\ listeners' \in [Requests -> SUBSET Listeners]
          /\ UNCHANGED <<sid, carries, client, aborted, trace, sink, closing>>
      BY <1>5 DEF Forward, Goto, Shape, PCs, Listeners
    <2>2. CASE ScrubBody(r)
      <3>1. threw' = threw
        BY <2>2 DEF ScrubBody
      <3>2. QED
        BY <2>1, <2>2, <3>1, Scrubbed DEF Shape, trace
    <2>3. CASE UNCHANGED <<sessions, requestMap, token>>
      BY <2>1, <2>3 DEF Shape, trace, sessions
    <2>4. QED
      BY <1>5, <2>2, <2>3 DEF Forward
  <1>6. ASSUME NEW r \in Requests, HandsOver(r) \/ LeavesWaiting(r) PROVE Shape'
    <2>1. pc' \in [Requests -> PCs]
      BY <1>6, Between DEF Goto, Shape, PCs
    <2>2. QED
      BY <1>6, <2>1, Between DEF Shape
  <1>a. ASSUME NEW r \in Requests, ScrubThrows(r) PROVE Shape'
    <2>1. pc' \in [Requests -> PCs] /\ UNCHANGED upstream /\ FinishTrace(r)
      BY <1>a DEF ScrubThrows, Goto, Shape, PCs
    <2>2. QED
      BY <1>a, <2>1, Thrown, Traced DEF Shape
  <1>7. CASE AuditFlush \/ AuditFails \/ Close \/ AuditClose
    BY <1>7 DEF AuditFlush, AuditFails, Close, AuditClose, others, Shape, request, sessions
  <1>8. CASE UNCHANGED vars
    BY <1>8 DEF vars, Shape, request, sessions, trace
  <1>9. QED
    BY <1>1, <1>2, <1>3, <1>4, <1>5, <1>6, <1>a, <1>7, <1>8
       DEF Next, Ending, HandsOver, LeavesWaiting, LeavesStream

\* Every step keeps one response event per request that is answered.
LEMMA ResponseStep == Shape /\ OneEach /\ [Next]_vars => OneEach'
  <1> SUFFICES ASSUME Shape, OneEach, [Next]_vars PROVE OneEach'
    OBVIOUS
  <1>1. ASSUME NEW r \in Requests, NEW l \in Answered, pc[r] # "idle", FinishTrace(r), Goto(r, l)
        PROVE  OneEach'
    BY <1>1 DEF FinishTrace, Respond, Goto, OneEach, Answered, Shape, trace
  <1>2. ASSUME NEW r \in Requests, Ending(r) PROVE OneEach'
    <2>1. PICK l \in Answered : Goto(r, l)
      BY <1>2, EndOfRequest
    <2>2. pc[r] # "idle" /\ FinishTrace(r)
      BY <1>2, EndOfRequest
    <2>3. QED
      BY <1>1, <2>1, <2>2
  <1>3. ASSUME NEW r \in Requests, ResponseCloses(r) PROVE OneEach'
    BY <1>1, <1>3 DEF ResponseCloses, Answered
  <1>4. ASSUME NEW r \in Requests, RejectUnauthorized(r) PROVE OneEach'
    BY <1>4 DEF RejectUnauthorized, Respond, Goto, OneEach, Answered, Shape
  <1>5. ASSUME NEW r \in Requests, \E s \in Sids, b \in Bodies : Arrive(r, s, b)
        PROVE  OneEach'
    BY <1>5 DEF Arrive, Goto, OneEach, Answered, Shape
  <1>6. ASSUME NEW r \in Requests, Forward(r) PROVE OneEach'
    BY <1>6 DEF Forward, Goto, OneEach, Answered, Shape, trace
  <1>a. ASSUME NEW r \in Requests, HandsOver(r) \/ LeavesWaiting(r) PROVE OneEach'
    BY <1>a, Between DEF Goto, OneEach, Answered, Shape
  <1>b. ASSUME NEW r \in Requests, ScrubThrows(r) PROVE OneEach'
    BY <1>1, <1>b DEF ScrubThrows, Answered
  <1>7. CASE \/ AuditFlush \/ AuditFails \/ Close \/ AuditClose \/ UNCHANGED vars
    BY <1>7 DEF AuditFlush, AuditFails, Close, AuditClose, others, vars, trace, OneEach
  <1>8. QED
    BY <1>2, <1>3, <1>4, <1>5, <1>6, <1>a, <1>b, <1>7
       DEF Next, Ending, HandsOver, LeavesWaiting, LeavesStream

\* The watch of one request.
WatchedOne(r) ==
    /\ ~client[r] \/ pc[r] = "done" => upstream[r] # "open"
    /\ pc[r] \in {"idle", "reading"} => client[r] /\ upstream[r] = "none"
    /\ client[r] /\ pc[r] = "waiting" => {"onClientClose", "onAbort"} \subseteq listeners[r]
    /\ client[r] /\ pc[r] = "answered" => "onClientClose" \in listeners[r]
    /\ client[r] /\ pc[r] = "body" => {"onClientClose", "dropUpstream"} \subseteq listeners[r]
    /\ pc[r] \in {"stream", "sent"} => "pipe" \in listeners[r]

\* A step touches the watch of its own request alone.
LEMMA WatchOthers ==
    ASSUME Shape, Watched, NEW r \in Requests, WatchedOne(r)',
           \A q \in Requests \ {r} :
             /\ client'[q] = client[q] /\ pc'[q] = pc[q] /\ upstream'[q] = upstream[q]
             /\ listeners'[q] = listeners[q]
    PROVE  Watched'
  BY DEF Watched, WatchedOne

\* Every step keeps the listeners that end the upstream, until they have ended it.
LEMMA WatchStep == Shape /\ Watched /\ [Next]_vars => Watched'
  <1> SUFFICES ASSUME Shape, Watched, [Next]_vars PROVE Watched'
    OBVIOUS
  <1>a. \A r \in Requests : WatchedOne(r)
    BY DEF Watched, WatchedOne
  <1>1. ASSUME NEW r \in Requests, Ending(r) PROVE Watched'
    <2>1. /\ client' = [client EXCEPT ![r] = TRUE]
          /\ listeners' = [listeners EXCEPT ![r] = @ \intersect {"pipe"}]
      BY <1>1, EndOfRequest DEF Return, Forget
    <2>2. PICK l \in Answered : /\ Goto(r, l)
                                /\ l = "sent" => pc[r] = "stream"
                                /\ l = "done" => Hangup(r) \/ pc[r] = "reading"
      BY <1>1, EndOfRequest
    <2>3. upstream' = upstream \/ Hangup(r)
      BY <1>1, EndOfRequest
    <2>4. WatchedOne(r)'
      BY <1>a, <2>1, <2>2, <2>3 DEF WatchedOne, Goto, Hangup, Answered, Shape
    <2>5. \A q \in Requests \ {r} :
            /\ client'[q] = client[q] /\ pc'[q] = pc[q] /\ upstream'[q] = upstream[q]
            /\ listeners'[q] = listeners[q]
      BY <2>1, <2>2, <2>3 DEF Goto, Hangup, Shape
    <2>6. QED
      BY <2>4, <2>5, WatchOthers
  <1>2. ASSUME NEW r \in Requests, LeavesWaiting(r) PROVE Watched'
    <2>1. /\ pc[r] \in {"waiting", "body", "stream"} /\ client[r]
          /\ client' = [client EXCEPT ![r] = FALSE]
          /\ UNCHANGED <<pc, listeners>>
          /\ IF Destroys(r) THEN Hangup(r) ELSE UNCHANGED upstream
          /\ "pipe" \notin listeners[r]
      BY <1>2 DEF LeavesWaiting, ClientCloses
    <2>2. Destroys(r)
      BY <1>a, <2>1 DEF WatchedOne, Destroys
    <2>3. WatchedOne(r)'
      BY <1>a, <2>1, <2>2 DEF WatchedOne, Hangup, Shape
    <2>4. QED
      BY <2>1, <2>2, <2>3, WatchOthers DEF Hangup, Shape
  <1>3. ASSUME NEW r \in Requests, Forward(r) PROVE Watched'
    <2>1. /\ pc[r] = "reading" /\ Goto(r, "waiting") /\ UNCHANGED client
          /\ upstream' = [upstream EXCEPT ![r] = "open"]
          /\ listeners' = [listeners EXCEPT ![r] = {"onClientClose", "onAbort"}]
      BY <1>3 DEF Forward
    <2>2. WatchedOne(r)'
      BY <1>a, <2>1 DEF WatchedOne, Goto, Shape
    <2>3. QED
      BY <2>1, <2>2, WatchOthers DEF Goto, Shape
  <1>4. ASSUME NEW r \in Requests, ResponseHeaders(r) PROVE Watched'
    <2>1. /\ pc[r] = "waiting" /\ Goto(r, "answered") /\ UNCHANGED <<client, upstream>>
          /\ listeners' = [listeners EXCEPT ![r] = @ \ {"onAbort"}]
      BY <1>4 DEF ResponseHeaders, handover
    <2>2. WatchedOne(r)'
      BY <1>a, <2>1 DEF WatchedOne, Goto, Shape
    <2>3. QED
      BY <2>1, <2>2, WatchOthers DEF Goto, Shape
  <1>5. ASSUME NEW r \in Requests, Continues(r) PROVE Watched'
    <2>1. CASE /\ pc[r] = "answered" /\ Goto(r, "stream") /\ UNCHANGED <<client, upstream>>
               /\ listeners' = [listeners EXCEPT ![r] = (@ \ {"onClientClose"}) \union {"pipe"}]
      <3>1. WatchedOne(r)'
        BY <1>a, <2>1 DEF WatchedOne, Goto, Shape
      <3>2. QED
        BY <2>1, <3>1, WatchOthers DEF Goto, Shape
    <2>2. CASE /\ pc[r] = "answered" /\ Goto(r, "body") /\ UNCHANGED client
               /\ listeners' = [listeners EXCEPT ![r] = @ \union {"dropUpstream"}]
               /\ Hangup(r) \/ UNCHANGED upstream
      <3>1. WatchedOne(r)'
        BY <1>a, <2>2 DEF WatchedOne, Goto, Hangup, Shape
      <3>2. QED
        BY <2>2, <3>1, WatchOthers DEF Goto, Hangup, Shape
    <2>3. QED
      BY <1>5, <2>1, <2>2 DEF Continues, handover
  <1>6. ASSUME NEW r \in Requests, ResponseCloses(r) PROVE Watched'
    <2>1. /\ pc[r] = "sent" /\ Goto(r, "done") /\ UNCHANGED client
          /\ listeners' = [listeners EXCEPT ![r] = {}]
          /\ "pipe" \in listeners[r] => Hangup(r)
      BY <1>6 DEF ResponseCloses
    <2>2. Hangup(r)
      BY <1>a, <2>1 DEF WatchedOne
    <2>3. WatchedOne(r)'
      BY <2>1, <2>2 DEF WatchedOne, Goto, Hangup, Shape
    <2>4. QED
      BY <2>1, <2>2, <2>3, WatchOthers DEF Goto, Hangup, Shape
  <1>7. ASSUME NEW r \in Requests, ScrubThrows(r) PROVE Watched'
    <2>1. /\ pc[r] = "reading" /\ Goto(r, "done") /\ UNCHANGED upstream
          /\ client' = [client EXCEPT ![r] = TRUE]
          /\ listeners' = [listeners EXCEPT ![r] = @ \intersect {"pipe"}]
      BY <1>7 DEF ScrubThrows, Forget
    <2>2. WatchedOne(r)'
      BY <1>a, <2>1 DEF WatchedOne, Goto, Shape
    <2>3. QED
      BY <2>1, <2>2, WatchOthers DEF Goto, Shape
  <1>8. ASSUME NEW r \in Requests,
               (\E s \in Sids, b \in Bodies : Arrive(r, s, b)) \/ RejectUnauthorized(r)
        PROVE  Watched'
    <2>1. /\ pc[r] = "idle" /\ \E l \in {"reading", "done"} : Goto(r, l)
          /\ UNCHANGED <<client, upstream, listeners>>
      BY <1>8 DEF Arrive, RejectUnauthorized, request
    <2>2. WatchedOne(r)'
      BY <1>a, <2>1 DEF WatchedOne, Goto, Shape
    <2>3. QED
      BY <2>1, <2>2, WatchOthers DEF Goto, Shape
  <1>9. CASE \/ AuditFlush \/ AuditFails \/ Close \/ AuditClose \/ UNCHANGED vars
    BY <1>9 DEF AuditFlush, AuditFails, Close, AuditClose, others, vars, request, Watched
  <1>10. QED
    BY <1>1, <1>2, <1>3, <1>4, <1>5, <1>6, <1>7, <1>8, <1>9
       DEF Next, Ending, LeavesWaiting, LeavesStream

\* Every step keeps the gauge at the number of requests under way.
LEMMA GaugeStep == Shape /\ OneEach /\ Gauge /\ [Next]_vars => Gauge'
  <1> SUFFICES ASSUME Shape, OneEach, Gauge, [Next]_vars PROVE Gauge'
    OBVIOUS
  <1>1. ASSUME NEW r \in Requests, NEW s \in Sids, NEW b \in Bodies, Arrive(r, s, b)
        PROVE  Gauge'
    <2>1. Pending' = Pending \union {r} /\ r \notin Pending
      BY <1>1 DEF Arrive, Goto, Pending, Shape
    <2>2. inflight' = inflight + 1
      BY <1>1 DEF Arrive, CountRequest
    <2>3. QED
      BY <2>1, <2>2, FS_AddElement DEF Gauge
  <1>2. ASSUME NEW r \in Requests, RejectUnauthorized(r) PROVE Gauge'
    <2>1. Pending' = Pending
      BY <1>2 DEF RejectUnauthorized, Goto, Pending, Shape
    <2>2. inflight' = inflight
      BY <1>2 DEF RejectUnauthorized, Respond, RecordResponse, Shape
    <2>3. QED
      BY <2>1, <2>2 DEF Gauge
  <1>3. ASSUME NEW r \in Requests, NEW l \in Answered, pc[r] \notin {"idle", "sent", "done"},
               FinishTrace(r), Goto(r, l)
        PROVE  Gauge'
    <2>1. Pending' = Pending \ {r} /\ r \in Pending
      BY <1>3 DEF Goto, Pending, Shape, Answered
    <2>2. inflight' = IF inflight > 0 THEN inflight - 1 ELSE 0
      BY <1>3 DEF FinishTrace, Respond, RecordResponse, OneEach, Shape, Answered
    <2>3. Cardinality(Pending \ {r}) = inflight - 1 /\ IsFiniteSet(Pending \ {r})
      BY <2>1, FS_RemoveElement DEF Gauge
    <2>4. Cardinality(Pending \ {r}) \in Nat
      BY <2>3, FS_CardinalityType
    <2>5. QED
      BY <2>1, <2>2, <2>3, <2>4 DEF Gauge, Shape
  <1>4. ASSUME NEW r \in Requests, Ending(r) PROVE Gauge'
    <2>1. PICK l \in Answered : Goto(r, l)
      BY <1>4, EndOfRequest
    <2>2. pc[r] \notin {"idle", "sent", "done"} /\ FinishTrace(r)
      BY <1>4, EndOfRequest
    <2>3. QED
      BY <1>3, <2>1, <2>2
  <1>5. ASSUME NEW r \in Requests, ResponseCloses(r) PROVE Gauge'
    <2>1. responses[r] > 0 /\ pc[r] = "sent"
      BY <1>5 DEF ResponseCloses, OneEach, Answered
    <2>2. Pending' = Pending
      BY <1>5, <2>1 DEF ResponseCloses, Goto, Pending, Shape
    <2>3. UNCHANGED inflight
      BY <1>5, <2>1 DEF ResponseCloses, FinishTrace, trace
    <2>4. QED
      BY <2>2, <2>3 DEF Gauge
  <1>6. ASSUME NEW r \in Requests, Forward(r) PROVE Gauge'
    BY <1>6 DEF Forward, Goto, Pending, Shape, Gauge, trace
  <1>a. ASSUME NEW r \in Requests, HandsOver(r) \/ LeavesWaiting(r) PROVE Gauge'
    <2>1. Pending' = Pending
      BY <1>a, Between DEF Goto, Pending, Shape
    <2>2. QED
      BY <1>a, <2>1, Between DEF Gauge
  <1>b. ASSUME NEW r \in Requests, ScrubThrows(r) PROVE Gauge'
    <2>1. pc[r] \notin {"idle", "sent", "done"} /\ FinishTrace(r) /\ Goto(r, "done")
      BY <1>b DEF ScrubThrows
    <2>2. QED
      BY <1>3, <2>1 DEF Answered
  <1>7. CASE \/ AuditFlush \/ AuditFails \/ Close \/ AuditClose \/ UNCHANGED vars
    BY <1>7 DEF AuditFlush, AuditFails, Close, AuditClose, others, vars, trace, Pending, Gauge
  <1>8. QED
    BY <1>1, <1>2, <1>4, <1>5, <1>6, <1>a, <1>b, <1>7
       DEF Next, Ending, HandsOver, LeavesWaiting, LeavesStream

\* Every step keeps the audit's two sets to the requests that were answered.
LEMMA AuditStep ==
    Shape /\ OneEach /\ AuditAccountsForAll /\ [Next]_vars => AuditAccountsForAll'
  <1> SUFFICES ASSUME Shape, OneEach, AuditAccountsForAll, [Next]_vars
               PROVE  AuditAccountsForAll'
    OBVIOUS
  <1>1. ASSUME NEW r \in Requests, NEW n \in Nat, responses[r] = 0, Respond(r, n),
               UNCHANGED sink
        PROVE  AuditAccountsForAll'
    BY <1>1 DEF Respond, AuditWrite, AuditAccountsForAll, Shape
  <1>2. ASSUME NEW r \in Requests, FinishTrace(r), UNCHANGED sink
        PROVE  AuditAccountsForAll'
    BY <1>1, <1>2 DEF FinishTrace, trace, AuditAccountsForAll, Shape
  <1>3. ASSUME NEW r \in Requests, RejectUnauthorized(r) PROVE AuditAccountsForAll'
    <2>1. /\ pc[r] = "idle"
          /\ Respond(r, inflight + 1) /\ UNCHANGED sink
      BY <1>3 DEF RejectUnauthorized
    <2>2. responses[r] = 0
      BY <2>1 DEF OneEach, Answered
    <2>3. inflight + 1 \in Nat
      BY DEF Shape
    <2>4. QED
      BY <1>1, <2>1, <2>2, <2>3
  <1>4. ASSUME NEW r \in Requests, Ending(r) \/ ResponseCloses(r) \/ ScrubThrows(r)
        PROVE  AuditAccountsForAll'
    BY <1>2, <1>4, EndOfRequest DEF ResponseCloses, ScrubThrows
  <1>5. ASSUME NEW r \in Requests,
               \/ \E s \in Sids, b \in Bodies : Arrive(r, s, b)
               \/ Forward(r)
        PROVE  AuditAccountsForAll'
    BY <1>5 DEF Arrive, Forward, trace, AuditAccountsForAll
  <1>a. ASSUME NEW r \in Requests, HandsOver(r) \/ LeavesWaiting(r)
        PROVE  AuditAccountsForAll'
    BY <1>a, Between DEF AuditAccountsForAll
  <1>6. CASE \/ AuditFlush \/ AuditFails \/ Close \/ AuditClose \/ UNCHANGED vars
    <2>1. UNCHANGED <<responses, accepted, dropped>>
      BY <1>6 DEF AuditFlush, AuditFails, Close, AuditClose, others, vars, trace
    <2>2. sink' # "failed" => sink # "failed"
      BY <1>6 DEF AuditFlush, AuditFails, Close, AuditClose, vars
    <2>3. QED
      BY <2>1, <2>2 DEF AuditAccountsForAll
  <1>7. QED
    BY <1>3, <1>4, <1>5, <1>a, <1>6 DEF Next, Ending, HandsOver, LeavesWaiting, LeavesStream

\* Every step keeps the values sent in the maps of their requests.
LEMMA OwnMapStep == Shape /\ OwnMap /\ [Next]_vars => OwnMap'
  <1> SUFFICES ASSUME Shape, OwnMap, [Next]_vars PROVE OwnMap'
    OBVIOUS
  <1>1. ASSUME NEW r \in Requests, NEW s \in Sids, NEW b \in Bodies, Arrive(r, s, b)
        PROVE  OwnMap'
    BY <1>1 DEF Arrive, Goto, OwnMap, Shape, sessions
  <1>2. ASSUME NEW r \in Requests, Return(r), NEW l \in Answered, Goto(r, l)
        PROVE  OwnMap'
    <2>1. carries'[r] \notin Values
      BY <1>2, Returned, ProxyAssumption
    <2>2. ASSUME NEW q \in Requests \ {r}, pc'[q] \in {"waiting", "answered", "body", "stream"},
                 carries'[q] \in Values
          PROVE  /\ requestMap'[q] \in Requests
                 /\ token'[q] \in DOMAIN heap'[requestMap'[q]]
                 /\ heap'[requestMap'[q]][token'[q]] = carries'[q]
      <3>1. pc'[q] = pc[q]
        BY <1>2 DEF Goto, Shape
      <3>2. /\ requestMap'[q] = requestMap[q] /\ token'[q] = token[q]
            /\ carries'[q] = carries[q]
        BY <1>2, Returned
      <3>3. /\ requestMap[q] \in Requests
            /\ token[q] \in DOMAIN heap[requestMap[q]]
            /\ heap[requestMap[q]][token[q]] = carries[q]
        BY <2>2, <3>1, <3>2 DEF OwnMap
      <3>4. heap'[requestMap[q]] = heap[requestMap[q]]
        BY <1>2, <3>3, Returned
      <3>5. QED
        BY <3>2, <3>3, <3>4
    <2>3. QED
      BY <2>1, <2>2 DEF OwnMap
  <1>3. ASSUME NEW r \in Requests, Ending(r) PROVE OwnMap'
    BY <1>2, <1>3, EndOfRequest
  <1>4. ASSUME NEW r \in Requests, RejectUnauthorized(r) \/ ResponseCloses(r) PROVE OwnMap'
    BY <1>4 DEF RejectUnauthorized, ResponseCloses, Goto, OwnMap, Shape, request, sessions
  <1>5. ASSUME NEW r \in Requests, Forward(r) PROVE OwnMap'
    <2>1. CASE ScrubBody(r)
      <3>1. ASSUME NEW q \in Requests \ {r}, pc'[q] \in {"waiting", "answered", "body", "stream"},
                   carries'[q] \in Values
            PROVE  /\ requestMap'[q] \in Requests
                   /\ token'[q] \in DOMAIN heap'[requestMap'[q]]
                   /\ heap'[requestMap'[q]][token'[q]] = carries'[q]
        <4>1. pc'[q] = pc[q] /\ carries'[q] = carries[q]
          BY <1>5 DEF Forward, Goto, Shape
        <4>2. /\ requestMap[q] \in Requests
              /\ token[q] \in DOMAIN heap[requestMap[q]]
              /\ heap[requestMap[q]][token[q]] = carries[q]
          BY <3>1, <4>1 DEF OwnMap
        <4>3. requestMap'[q] = requestMap[q] /\ token'[q] = token[q]
          BY <2>1, Scrubbed
        <4>4. /\ token[q] \in DOMAIN heap'[requestMap[q]]
              /\ heap'[requestMap[q]][token[q]] = heap[requestMap[q]][token[q]]
          BY <2>1, <4>2, Scrubbed
        <4>5. QED
          BY <4>1, <4>2, <4>3, <4>4
      <3>2. QED
        BY <1>5, <2>1, <3>1, Scrubbed DEF OwnMap, Forward
    <2>2. CASE carries[r] = "opaque" /\ UNCHANGED <<sessions, requestMap, token>>
      BY <1>5, <2>2, ProxyAssumption DEF Forward, Goto, OwnMap, Shape, sessions
    <2>3. QED
      BY <1>5, <2>1, <2>2 DEF Forward
  <1>6. ASSUME NEW r \in Requests, HandsOver(r) \/ LeavesWaiting(r) PROVE OwnMap'
    <2>1. /\ UNCHANGED <<carries, requestMap, token, heap>>
          /\ pc[r] \in {"waiting", "answered", "body", "stream"}
          /\ \A q \in Requests \ {r} : pc'[q] = pc[q]
      BY <1>6, Between DEF Goto, Shape
    <2>2. QED
      BY <2>1 DEF OwnMap
  <1>a. ASSUME NEW r \in Requests, ScrubThrows(r) PROVE OwnMap'
    <2>1. carries'[r] \notin Values
      BY <1>a, Thrown, ProxyAssumption
    <2>2. ASSUME NEW q \in Requests \ {r}, pc'[q] \in {"waiting", "answered", "body", "stream"},
                 carries'[q] \in Values
          PROVE  /\ requestMap'[q] \in Requests
                 /\ token'[q] \in DOMAIN heap'[requestMap'[q]]
                 /\ heap'[requestMap'[q]][token'[q]] = carries'[q]
      <3>1. pc'[q] = pc[q]
        BY <1>a DEF ScrubThrows, Goto, Shape
      <3>2. /\ requestMap'[q] = requestMap[q] /\ token'[q] = token[q]
            /\ carries'[q] = carries[q]
        BY <1>a, Thrown
      <3>3. /\ requestMap[q] \in Requests
            /\ token[q] \in DOMAIN heap[requestMap[q]]
            /\ heap[requestMap[q]][token[q]] = carries[q]
        BY <2>2, <3>1, <3>2 DEF OwnMap
      <3>4. /\ token[q] \in DOMAIN heap'[requestMap[q]]
            /\ heap'[requestMap[q]][token[q]] = heap[requestMap[q]][token[q]]
        BY <1>a, <3>3, Thrown
      <3>5. QED
        BY <3>2, <3>3, <3>4
    <2>3. QED
      BY <2>1, <2>2 DEF OwnMap
  <1>7. CASE \/ AuditFlush \/ AuditFails \/ Close \/ AuditClose \/ UNCHANGED vars
    BY <1>7 DEF AuditFlush, AuditFails, Close, AuditClose, others, vars, request, sessions, OwnMap
  <1>8. QED
    BY <1>1, <1>3, <1>4, <1>5, <1>6, <1>a, <1>7
       DEF Next, Ending, HandsOver, LeavesWaiting, LeavesStream

\* Every step keeps the store sound, and the sessions known.
LEMMA StoreStep ==
    Shape /\ SessionInv /\ StoreInv /\ [Next]_vars => SessionInv' /\ StoreInv'
<1> SUFFICES ASSUME Shape, SessionInv, StoreInv, [Next]_vars PROVE SessionInv' /\ StoreInv'
  OBVIOUS
<1>1. ASSUME UNCHANGED sessions PROVE StoreInv'
  BY <1>1 DEF sessions, StoreInv, StoreSound, Bound
<1>2. ASSUME NEW r \in Requests, Ending(r) PROVE SessionInv' /\ StoreInv'
  <2>1. Return(r) /\ \E l \in Answered : Goto(r, l)
    BY <1>2, EndOfRequest
  <2>2. SessionInv'
    BY <2>1 DEF Return, Forget, Goto, Answered, SessionInv, Shape
  <2> QED
    BY <2>1, <2>2, ReturnedStore
<1>3. ASSUME NEW r \in Requests, Forward(r) PROVE SessionInv' /\ StoreInv'
  <2>1. sid[r] \in Sids
    BY <1>3 DEF Forward, SessionInv
  <2>2. SessionInv'
    BY <1>3 DEF Forward, Goto, SessionInv, Shape
  <2> QED
    BY <1>1, <1>3, <2>1, <2>2, ScrubbedStore DEF Forward
<1>4. ASSUME NEW r \in Requests, NEW s \in Sids, NEW b \in Bodies, Arrive(r, s, b)
      PROVE  SessionInv' /\ StoreInv'
  <2>1. SessionInv'
    BY <1>4 DEF Arrive, Goto, SessionInv, Shape
  <2> QED
    BY <1>1, <1>4, <2>1 DEF Arrive
<1>5. ASSUME NEW r \in Requests,
             RejectUnauthorized(r) \/ ResponseCloses(r) \/ HandsOver(r) \/ LeavesWaiting(r)
      PROVE  SessionInv' /\ StoreInv'
  <2>1. UNCHANGED <<sid, sessions>>
    BY <1>5, Between DEF RejectUnauthorized, ResponseCloses, request, sessions
  <2>2. pc' = pc \/ \E l \in PCs \ {"reading"} : Goto(r, l)
    BY <1>5, Between DEF RejectUnauthorized, ResponseCloses, PCs
  <2>3. SessionInv'
    BY <2>1, <2>2 DEF Goto, SessionInv, Shape
  <2> QED
    BY <1>1, <2>1, <2>3
<1>6. CASE \/ AuditFlush \/ AuditFails \/ Close \/ AuditClose \/ UNCHANGED vars
  <2>1. UNCHANGED <<pc, sid, sessions>>
    BY <1>6 DEF AuditFlush, AuditFails, Close, AuditClose, others, vars, request
  <2> QED
    BY <1>1, <2>1 DEF SessionInv
<1>7. ASSUME NEW r \in Requests, ScrubThrows(r) PROVE SessionInv' /\ StoreInv'
  <2>1. sid[r] \in Sids
    BY <1>7 DEF ScrubThrows, SessionInv
  <2>2. SessionInv'
    BY <1>7 DEF ScrubThrows, Forget, Goto, SessionInv, Shape
  <2> QED
    BY <1>7, <2>1, <2>2, ThrownStore
<1> QED
  BY <1>2, <1>3, <1>4, <1>5, <1>6, <1>7 DEF Next, Ending, HandsOver, LeavesWaiting, LeavesStream

\* The log takes a record only below the high-water mark: a drained stream is below
\* it, and one that is not drained takes none.
SinkInv ==
    /\ sink \in {"open", "closing", "failed"} /\ closing \in BOOLEAN
    /\ buffered \in 0..HighWater /\ needDrain \in BOOLEAN
    /\ ~needDrain => buffered < HighWater

\* Every step keeps the stream's buffer within its bound.
LEMMA SinkStep == SinkInv /\ [Next]_vars => SinkInv'
<1> SUFFICES ASSUME SinkInv, [Next]_vars PROVE SinkInv'
  OBVIOUS
<1>1. ASSUME NEW r \in Requests, UNCHANGED trace \/ AuditWrite(r), UNCHANGED <<sink, closing>>
      PROVE  SinkInv'
  <2>1. CASE UNCHANGED <<buffered, needDrain>>
    BY <1>1, <2>1 DEF SinkInv
  <2>2. CASE /\ sink = "open" /\ ~needDrain /\ buffered' = buffered + 1
             /\ needDrain' = (buffered + 1 >= HighWater)
    <3> DEFINE full == buffered + 1 >= HighWater
    <3>1. full \in BOOLEAN
      OBVIOUS
    <3> HIDE DEF full
    <3>2. needDrain' = full
      BY <2>2, Zenon DEF full
    <3>3. needDrain' \in BOOLEAN /\ (~needDrain' => ~full)
      BY <3>1, <3>2, Zenon
    <3>4. buffered \in 0..HighWater /\ buffered < HighWater
      BY <2>2 DEF SinkInv
    <3>5. buffered' \in 0..HighWater
      BY <2>2, <3>4, ProxyAssumption
    <3>6. ~needDrain' => buffered' < HighWater
      BY <2>2, <3>3, <3>4, ProxyAssumption DEF full
    <3> QED
      BY <1>1, <3>3, <3>5, <3>6 DEF SinkInv
  <2> QED
    BY <1>1, <2>1, <2>2, Zenon DEF AuditWrite, trace
<1>2. ASSUME NEW r \in Requests, Ending(r) \/ RejectUnauthorized(r) \/ ResponseCloses(r) \/ ScrubThrows(r)
      PROVE  SinkInv'
  BY <1>1, <1>2, EndOfRequest
     DEF RejectUnauthorized, ResponseCloses, ScrubThrows, FinishTrace, Respond
<1>3. ASSUME NEW r \in Requests,
             \/ \E s \in Sids, b \in Bodies : Arrive(r, s, b)
             \/ Forward(r) \/ ResponseHeaders(r) \/ Continues(r) \/ LeavesWaiting(r)
      PROVE  SinkInv'
  <2>1. UNCHANGED <<sink, closing, buffered, needDrain>>
    BY <1>3 DEF Arrive, Forward, ResponseHeaders, Continues, handover, LeavesWaiting,
                ClientCloses, trace
  <2> QED
    BY <2>1 DEF SinkInv
<1>4. CASE AuditFlush
  <2>1. /\ buffered > 0 /\ buffered' = buffered - 1
        /\ needDrain' = (needDrain /\ buffered > 1)
        /\ UNCHANGED <<sink, closing>>
    BY <1>4, Zenon DEF AuditFlush
  <2>2. /\ needDrain' \in BOOLEAN
        /\ ~needDrain' => ~needDrain \/ ~(buffered > 1)
    BY <2>1, Zenon
  <2>3. buffered \in 0..HighWater /\ (~needDrain => buffered < HighWater)
    BY DEF SinkInv
  <2>4. buffered' \in 0..HighWater
    BY <2>1, <2>3, ProxyAssumption
  <2>5. ~needDrain' => buffered' < HighWater
    BY <2>1, <2>2, <2>3, ProxyAssumption
  <2> QED
    BY <2>1, <2>2, <2>4, <2>5 DEF SinkInv
<1>5. CASE AuditFails
  BY <1>5, ProxyAssumption DEF AuditFails, SinkInv
<1>6. CASE Close \/ AuditClose \/ UNCHANGED vars
  BY <1>6 DEF Close, AuditClose, vars, trace, SinkInv
<1> QED
  BY <1>2, <1>3, <1>4, <1>5, <1>6 DEF Next, Ending, LeavesWaiting, LeavesStream

----------------------------------------------------------------------------
ProxyInv ==
    /\ Shape /\ OneEach /\ Gauge /\ Watched /\ OwnMap /\ AuditAccountsForAll
    /\ SessionInv /\ StoreInv /\ SinkInv

\* In every state, responses, gauge, audit log, upstreams and maps agree with
\* where the requests are.
LEMMA Inductive == Spec => []ProxyInv
  <1>1. Init => ProxyInv
    <2> SUFFICES ASSUME Init PROVE ProxyInv
      OBVIOUS
    <2>1. Shape
      BY DEF Init, Shape, PCs, Bodies
    <2>2. OneEach /\ Watched /\ OwnMap
      BY DEF Init, OneEach, Answered, Watched, OwnMap
    <2>3. AuditAccountsForAll
      BY DEF Init, AuditAccountsForAll
    <2>4. Pending = {} /\ inflight = 0
      BY DEF Init, Pending
    <2>5. SessionInv /\ StoreInv
      BY BoundIsPositive DEF Init, SessionInv, StoreInv, StoreSound
    <2>6. SinkInv
      <3>1. /\ sink = "open" /\ closing = FALSE
            /\ buffered = 0 /\ needDrain = FALSE
        BY Zenon DEF Init
      <3>2. buffered \in 0..HighWater /\ buffered < HighWater
        BY <3>1, ProxyAssumption
      <3>3. QED
        BY <3>1, <3>2, Zenon DEF SinkInv
    <2>7. QED
      BY <2>1, <2>2, <2>3, <2>4, <2>5, <2>6, FS_EmptySet DEF ProxyInv, Gauge
  <1>2. ProxyInv /\ [Next]_vars => ProxyInv'
    BY ShapeStep, ResponseStep, GaugeStep, WatchStep, OwnMapStep, AuditStep,
       StoreStep, SinkStep DEF ProxyInv
  <1>3. QED
    BY <1>1, <1>2, PTL DEF Spec

\* The state of every request, the session store, the maps, the metrics and the
\* audit log keep their types, and the audit stream never buffers more records than
\* its high-water mark, for any number of requests and sessions.
THEOREM TypeCorrect == Spec => []TypeOK
  <1>1. ProxyInv => TypeOK
    BY DEF ProxyInv, Shape, SessionInv, StoreInv, SinkInv, Entries, TypeOK
  <1>2. QED
    BY <1>1, Inductive, PTL

\* For any size of the store and any order of requests and evictions, the store
\* stays within its bound, with one map for a session and none that is empty.
THEOREM StoreStaysSound == Spec => []StoreSound
  <1>1. ProxyInv => StoreSound
    BY DEF ProxyInv, StoreInv
  <1>2. QED
    BY <1>1, Inductive, PTL

\* Whichever completion paths run, every request has exactly one response
\* event, and the in-flight gauge counts those that have not had theirs.
THEOREM OneResponse == Spec => []ExactlyOneResponse
  <1>1. ProxyInv => ExactlyOneResponse
    BY DEF ProxyInv, OneEach, Answered, Gauge, Pending, ExactlyOneResponse
  <1>2. QED
    BY <1>1, Inductive, PTL

\* Unless its file fails, the audit log took every request's record or counted
\* it as dropped.
THEOREM EveryRecordCounts == Spec => []AuditAccountsForAll
  BY Inductive, PTL DEF ProxyInv

\* Whichever hand-over a request is in when its response emits 'close', the listeners
\* it has then end its upstream, and a request that is done leaves none open.
THEOREM UpstreamGoesWithClient == Spec => []NoOrphanUpstream
  <1>1. ProxyInv => NoOrphanUpstream
    BY DEF ProxyInv, Watched, NoOrphanUpstream
  <1>2. QED
    BY <1>1, Inductive, PTL

\* Whatever other requests do to the store meanwhile, an answer gives the
\* client its own value back.
THEOREM OwnValuesComeBack == Spec => []RestoresOwnValues
  <1>1. ProxyInv => RestoresOwnValues
    <2> SUFFICES ASSUME ProxyInv, NEW r \in Requests, pc[r] \in {"body", "stream"},
                        carries[r] \in Values
                 PROVE  Rehydrated(r) = carries[r]
      BY DEF RestoresOwnValues
    <2>1. /\ requestMap[r] \in Requests
          /\ token[r] \in DOMAIN heap[requestMap[r]]
          /\ heap[requestMap[r]][token[r]] = carries[r]
      BY DEF ProxyInv, OwnMap
    <2>2. requestMap[r] # None
      BY <2>1, ProxyAssumption
    <2>3. {m \in {requestMap[r]} : token[r] \in DOMAIN heap[m]} = {requestMap[r]}
      BY <2>1
    <2>4. QED
      BY <2>1, <2>2, <2>3 DEF Rehydrated
  <1>2. QED
    BY <1>1, Inductive, PTL
=============================================================================

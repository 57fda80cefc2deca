------------------------------ MODULE ChatBodies ------------------------------
(***************************************************************************)
(* What the proxy does to the strings of chat-completion bodies: it scrubs *)
(* those of a request (proxy/request-transform.ts, json-scrub.ts), restores *)
(* those of an answer (proxy/response-transform.ts), and the client sends  *)
(* the answer back with its next request.                                  *)
(*                                                                         *)
(* A body is reduced to the places of its strings.  A place is the path    *)
(* from the root: keys, "[]" for an array entry, "#text" for an entry or   *)
(* source of that type.  "raw" below `arguments` is a text that does not   *)
(* parse as JSON; any other path there is one into the parsed value.       *)
(*                                                                         *)
(* A text is a sequence of atoms: values a detector finds by their shape,  *)
(* words that only a credential key gives away, and tokens.                *)
(***************************************************************************)
EXTENDS Naturals, Sequences, SequencesExt

CONSTANTS
    Documented,   \* per provider: the places the comments list as covered,
    Contract,     \* the places they list as deliberately untouched,
    Opaque,       \* and other places with text
    Credentials,  \* per provider: covered places that a credential key names
    FollowUps,    \* bound: the places of a client's strings after its first
    AnswerPlaces, \* per provider: where a model writes, relative to its message
    ClientTexts,  \* what a client writes
    ModelTexts,   \* what a model writes
    Values, Words,
    Escape,       \* escapeMapForJsonString: a value as it stands in a JSON string
    CredentialKeys, \* isCredentialKeyName
    MaxDepth,     \* MAX_DEPTH, 64 in the code
    MaxIndex,     \* bound on the placeholder index
    MaxStrings,   \* bound: strings the client writes itself
    MaxRequests   \* bound: requests of the conversation

Providers == {"openai", "anthropic"}
Categories == {"Secret", "Email"}
Tokens == [category : Categories, n : 1..MaxIndex]
Places(p) == Documented[p] \union Contract[p] \union Opaque[p]

ASSUME ChatAssumption ==
    /\ {MaxDepth, MaxIndex, MaxStrings, MaxRequests} \subseteq Nat
    /\ \A p \in Providers : /\ FollowUps[p] \subseteq Places(p)
                             /\ Credentials[p] \subseteq Documented[p]
    /\ Escape \in [Values -> Values]
    /\ \A t \in ClientTexts \union ModelTexts :
         t # <<>> /\ ToSet(t) \subseteq Values \union Words \union Tokens

VARIABLES
    provider,   \* detectProvider
    map,        \* the session: the text of each token, <<>> where there is none
    strings,    \* the client's body: places and texts; whether they are the client's or
                \* came in an answer, and how; and what the model had said
    wire,       \* the same strings as the upstream got them, until it answers
    received,   \* the map when the request came
    requests    \* how many requests were sent

vars == <<provider, map, strings, wire, received, requests>>

----------------------------------------------------------------------------
(* The walk over a request: which places it reaches *)

Drop(path, n) == SubSeq(path, n + 1, Len(path))
Under(path, prefix) == IsPrefix(prefix, path)
Below(path, prefix) == Drop(path, Len(prefix))

\* mapJsonStrings: every step into the value adds to the depth.
JsonStrings(path) == Len(path) <= MaxDepth

\* mapJsonStringField: a text that does not parse is rewritten as a whole.
Arguments(path) == path = <<"raw">> \/ JsonStrings(path)

\* Mutant: every string of the schema is scrubbed.
WholeSchema(path) == path # <<>> /\ Len(path) - 1 <= MaxDepth

\* scrubSchemaDescriptions
SchemaDescriptions(path) ==
    path # <<>> /\ Last(path) = "description" /\ Len(path) - 1 <= MaxDepth

\* scrubToolDescriptions
ToolDescriptions(path, schemaKey) ==
    \/ path = <<"description">>
    \/ Under(path, <<schemaKey>>) /\ SchemaDescriptions(Below(path, <<schemaKey>>))

OpenAIContent(path) == path \in {<<>>, <<"#text", "text">>}

\* scrubContent, scrubAnthropicContentPart and scrubAnthropicDocument.
RECURSIVE AnthropicContent(_, _)
AnthropicContent(path, depth) ==
    LET nested == {<<"#tool_result", "content">>, <<"#search_result", "content">>,
                   <<"#document", "source", "#content", "content">>}
        input == <<"#tool_use", "input">>
    IN  \/ path = <<>>
        \/ /\ depth <= MaxDepth
           /\ \/ path \in {<<"#text", "text">>, <<"#search_result", "title">>,
                           <<"#document", "title">>, <<"#document", "context">>,
                           <<"#document", "source", "#text", "data">>}
              \/ Under(path, input) /\ JsonStrings(Below(path, input))
              \/ \E n \in nested :
                   Under(path, n) /\ AnthropicContent(Below(path, n), depth + 1)

Calls == {<<"tool_calls", "[]", "function", "arguments">>, <<"function_call", "arguments">>}

\* Mutant: the deprecated form of a call is not walked.
ToolCallsOnly(path) ==
    \/ Under(path, <<"content">>) /\ OpenAIContent(Below(path, <<"content">>))
    \/ LET c == <<"tool_calls", "[]", "function", "arguments">>
       IN  Under(path, c) /\ Arguments(Below(path, c))

\* scrubOpenAIMessage
OpenAIMessage(path) ==
    \/ Under(path, <<"content">>) /\ OpenAIContent(Below(path, <<"content">>))
    \/ \E c \in Calls : Under(path, c) /\ Arguments(Below(path, c))

\* scrubOpenAIChatBody
OpenAIReached(place) ==
    LET in(prefix, Walk(_)) == Under(place, prefix) /\ Walk(Below(place, prefix))
        parameters(path) == ToolDescriptions(path, "parameters")
        schema(path) == ToolDescriptions(path, "schema")
    IN  \/ in(<<"messages", "[]">>, OpenAIMessage)
        \/ \E kind \in {"function", "custom"} : in(<<"tools", "[]", kind>>, parameters)
        \/ in(<<"functions", "[]">>, parameters)
        \/ place \in {<<"user">>, <<"safety_identifier">>}
        \/ in(<<"metadata">>, JsonStrings)
        \/ in(<<"prediction", "content">>, OpenAIContent)
        \/ in(<<"response_format", "json_schema">>, schema)

\* scrubAnthropicMessagesBody
AnthropicReached(place) ==
    LET in(prefix, Walk(_)) == Under(place, prefix) /\ Walk(Below(place, prefix))
        content(path) == AnthropicContent(path, 0)
        inputSchema(path) == ToolDescriptions(path, "input_schema")
    IN  \/ in(<<"messages", "[]", "content">>, content)
        \/ in(<<"system">>, content)
        \/ in(<<"tools", "[]">>, inputSchema)
        \/ in(<<"metadata">>, JsonStrings)

Reached(place) ==
    IF provider = "openai" THEN OpenAIReached(place) ELSE AnthropicReached(place)

\* The order in which scrubBody walks the fields.
Fields == <<"messages", "system", "tools", "functions", "user", "safety_identifier",
            "metadata", "prediction", "response_format">>

WalkOrder(body) ==
    LET rank(i) == SelectInSeq(Fields, LAMBDA f : f = Head(body[i].place))
        walked == SelectSeq([i \in DOMAIN body |-> i], LAMBDA i : Reached(body[i].place))
    IN  SortSeq(walked, LAMBDA i, j : rank(i) < rank(j) \/ (rank(i) = rank(j) /\ i < j))

\* Mutant: only the name right above the string counts.
KeyedByLast(place) == Last(place) \in CredentialKeys

\* asJsonTransform: a key on the way to the string inside a JSON value.
Keyed(place) ==
    \E i \in DOMAIN place :
      /\ place[i] \in {"arguments", "input", "metadata"}
      /\ ToSet(Drop(place, i)) \intersect CredentialKeys # {}

----------------------------------------------------------------------------
(* One string: scrubTextSync, reserveLiteralPlaceholders, rehydrateText *)

IsToken(a) == a \in Tokens
NoMap == [t \in Tokens |-> <<>>]

\* createPlaceholder, numbering from the highest token of its category.
Minted(m, category, text) ==
    IF \E t \in Tokens : m[t] = text THEN m
    ELSE LET used == {t.n : t \in {t \in Tokens : t.category = category /\ m[t] # <<>>}}
             n == CHOOSE n \in 1..MaxIndex :
                    /\ \A k \in used : k < n
                    /\ n = 1 \/ n - 1 \in used
         IN  [m EXCEPT ![[category |-> category, n |-> n]] = text]

TokenOf(m, text) == CHOOSE t \in Tokens : m[t] = text

\* Mutant: a value that holds a token is left to the plain scrub, too.
HoldsToken(text) == \E i \in DOMAIN text : IsToken(text[i])

\* "A value that is already one placeholder is left to the plain scrub."
OnePlaceholder(text) == Len(text) = 1 /\ IsToken(text[1])

\* What scrub does to one string: the map it leaves, and the text.
Scrubbed(m, string) ==
    LET text == string.text
        mintValue(a, acc) == IF a \in Values THEN Minted(acc, "Email", <<a>>) ELSE acc
        prose == FoldRight(mintValue, text, m)
        whole == Minted(m, "Secret", text)
    IN  IF Keyed(string.place) /\ ~OnePlaceholder(text)
        THEN [map |-> whole, text |-> <<TokenOf(whole, text)>>]
        ELSE [map |-> prose,
              text |-> [i \in DOMAIN text |->
                          IF text[i] \in Values THEN TokenOf(prose, <<text[i]>>) ELSE text[i]]]

\* Mutant: nothing is reserved before the scrub.
NothingReserved(m, body) == m

\* reserveLiteralPlaceholders: over all strings the walk reaches, an entry of its
\* own for every token that has none.
Reserved(m, body) ==
    LET literals == UNION {ToSet(body[i].text) : i \in ToSet(WalkOrder(body))}
    IN  [t \in Tokens |-> IF t \in literals /\ m[t] = <<>> THEN <<t>> ELSE m[t]]

\* Mutant: strings that are not walked are dropped.
WalkedOnly(m, body) ==
    LET step(acc, i) ==
          LET s == Scrubbed(acc.map, body[i])
          IN  [map |-> s.map, texts |-> Append(acc.texts, s.text)]
    IN  FoldLeft(step, [map |-> m, texts |-> <<>>], WalkOrder(body))

\* scrubChatBody
ScrubbedBody(m, body) ==
    LET step(acc, i) ==
          LET s == Scrubbed(acc.map, body[i])
          IN  [map |-> s.map, texts |-> [acc.texts EXCEPT ![i] = s.text]]
    IN  FoldLeft(step, [map |-> m, texts |-> [i \in DOMAIN body |-> body[i].text]],
                 WalkOrder(body))

\* rehydrateText: the tokens of the text, longer names first, one after the other,
\* also in what the earlier ones have put in.  A stream does the same with its
\* fragments (SseRehydrator); here it comes in one.
Restore(m, text) ==
    LET named(c) == SelectSeq(text, LAMBDA a : IsToken(a) /\ a.category = c)
        put(acc, t) == IF m[t] = <<>> THEN acc
                       ELSE FlattenSeq([i \in DOMAIN acc |->
                                          IF acc[i] = t THEN m[t] ELSE <<acc[i]>>])
    IN  FoldLeft(put, text, named("Secret") \o named("Email"))

----------------------------------------------------------------------------
(* The walk over an answer *)

\* Mutant: blocks of tool use are not restored.
RestoredTextOnly(path) == path \in {<<"content">>, <<"#text", "text">>}

\* rehydrateJsonBody
RestoredInJson(path) ==
    IF provider = "openai"
    THEN \/ path = <<"content">>
         \/ \E c \in Calls : Under(path, c) /\ Arguments(Below(path, c))
    ELSE \/ path = <<"#text", "text">>
         \/ Under(path, <<"#tool_use", "input">>)
              /\ JsonStrings(Below(path, <<"#tool_use", "input">>))

\* rehydrateOpenAIStreamChunk, rehydrateAnthropicStreamChunk: fragments of JSON
\* are restored at any depth, and the deprecated form of a call is not.
RestoredInStream(path) ==
    IF provider = "openai"
    THEN path = <<"content">> \/ Under(path, <<"tool_calls", "[]", "function", "arguments">>)
    ELSE path = <<"#text", "text">> \/ Under(path, <<"#tool_use", "input">>)

\* What the client gets of a text the model writes at that place.  Where there is
\* no value to serialise again, the values go in escaped.
Restored(path, text, streaming) ==
    LET values == Restore(map, text)
    IN  CASE ~(IF streaming THEN RestoredInStream(path) ELSE RestoredInJson(path)) -> text
          [] path[Len(path)] = "raw" ->
               [i \in DOMAIN values |->
                  IF values[i] \in Values THEN Escape[values[i]] ELSE values[i]]
          [] OTHER -> values

\* Where the client puts the model's message into its next request.
SentBackAt(path) ==
    IF provider = "openai" THEN <<"messages", "[]">> \o path
    ELSE <<"messages", "[]", "content">> \o path

----------------------------------------------------------------------------
Answering == wire # <<>>
OwnStrings == Len(SelectSeq(strings, LAMBDA s : s.via = "client"))

Init ==
    /\ provider \in Providers
    /\ map = NoMap /\ received = NoMap
    /\ strings = <<>> /\ wire = <<>>
    /\ requests = 0

\* The client puts a string of its own into its body.
Compose(place, text) ==
    /\ ~Answering /\ requests < MaxRequests
    /\ OwnStrings < MaxStrings
    /\ OwnStrings > 0 => place \in FollowUps[provider]
    /\ strings' = Append(strings, [place |-> place, text |-> text, said |-> text, via |-> "client"])
    /\ UNCHANGED <<provider, map, wire, received, requests>>

\* A request: from JSON.parse to the dispatch there is no await.
Request ==
    /\ ~Answering /\ requests < MaxRequests
    /\ strings # <<>>
    /\ LET scrubbed == ScrubbedBody(Reserved(map, strings), strings)
       IN  map' = scrubbed.map /\ wire' = scrubbed.texts
    /\ received' = map
    /\ requests' = requests + 1
    /\ UNCHANGED <<provider, strings>>

\* The model answers, in one piece or as a stream, and the client keeps its message.
Answer(path, text, streaming) ==
    /\ Answering /\ requests < MaxRequests
    /\ strings' = Append(strings,
                    [place |-> SentBackAt(path), text |-> Restored(path, text, streaming),
                     said |-> text, via |-> IF streaming THEN "stream" ELSE "json"])
    /\ wire' = <<>>
    /\ UNCHANGED <<provider, map, received, requests>>

\* The session leaves the store; what the model said in it is no longer known.
Evict ==
    /\ ~Answering /\ map # NoMap /\ requests < MaxRequests
    /\ map' = NoMap
    /\ strings' = [i \in DOMAIN strings |-> [strings[i] EXCEPT !.said = strings[i].text]]
    /\ UNCHANGED <<provider, wire, received, requests>>

Next ==
    \/ \E place \in Places(provider), text \in ClientTexts : Compose(place, text)
    \/ Request
    \/ \E path \in AnswerPlaces[provider], text \in ModelTexts, streaming \in BOOLEAN :
         Answer(path, text, streaming)
    \/ Evict

Spec == Init /\ [][Next]_vars

----------------------------------------------------------------------------
(* Properties *)

\* The two lists of places in the comments of scrubOpenAIChatBody and
\* scrubAnthropicMessagesBody: no value leaves from a place "covered", nor any
\* text a credential key names; a place "deliberately untouched", the contract the
\* model has to echo, is not changed; and the body is "walked, never filtered".
AsDocumented ==
    Answering =>
      /\ Len(wire) = Len(strings)
      /\ \A i \in DOMAIN wire :
           LET place == strings[i].place IN
           /\ place \in Documented[provider] => ToSet(wire[i]) \intersect Values = {}
           /\ place \in Credentials[provider] => Len(wire[i]) = 1 /\ IsToken(wire[i][1])
           /\ place \in Contract[provider] => wire[i] = strings[i].text

\* "Both directions share these helpers": what the model wrote comes back to it
\* word for word with the next request, so whatever was restored in its answer,
\* whole or streamed, is scrubbed again, to the same token.  Not so for a token
\* of a credential outside a credential key, or inside a longer text below one, nor
\* past the depth cap, nor for a value that is escaped in `arguments` that do not parse.
TooDeep(place) ==
    \E i \in DOMAIN place :
      place[i] \in {"arguments", "input"} /\ Len(place) - i > MaxDepth

EchoStable ==
    Answering => \A i \in DOMAIN wire :
      LET s == strings[i]
          plain == \A a \in ToSet(s.said) \ Words : IsToken(a) /\ a.category = "Email"
          escaped == s.place[Len(s.place)] = "raw"
                       /\ \E v \in Values : Escape[v] # v /\ Escape[v] \in ToSet(s.text)
      IN  s.via # "client" /\ ~TooDeep(s.place) /\ ~escaped
            /\ (IF Keyed(s.place) THEN OnePlaceholder(s.said) ELSE plain)
          => wire[i] = s.said

\* reserveLiteralPlaceholders, "across all of its messages and for the rest of the
\* session": what goes upstream restores to what the client sent, as it stands or
\* with the tokens it held when it came read as the session reads them.
MeaningKept ==
    Answering => \A i \in DOMAIN wire :
      Reached(strings[i].place) =>
        Restore(map, wire[i]) \in {strings[i].text, Restore(received, strings[i].text)}

\* "The client executes that tool locally, so a placeholder left in there reaches
\* the caller's own code": no token the session knows is left in an answer's text
\* or arguments, whole or streamed.  Not so past the depth cap, in `thinking`, and
\* in the deprecated form of a call when it is streamed.
ClientGetsValues ==
    \A i \in DOMAIN strings :
      LET s == strings[i]
          unrestored == \/ TooDeep(s.place)
                        \/ "thinking" \in ToSet(s.place)
                        \/ s.via = "stream" /\ "function_call" \in ToSet(s.place)
      IN  s.via # "client" /\ ~unrestored =>
            \A t \in ToSet(s.said) \intersect ToSet(s.text) :
              IsToken(t) => map[t] \in {<<>>, <<t>>}

=============================================================================

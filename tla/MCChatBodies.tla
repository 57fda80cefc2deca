----------------------------- MODULE MCChatBodies -----------------------------
(* The places of a chat-completion body, one of each kind, at depth 2.       *)
EXTENDS ChatBodies

CONSTANTS e1, e2, e3, w

MCDocumented ==
    LET message(path) == <<"messages", "[]">> \o path
        block(path) == <<"messages", "[]", "content">> \o path
    IN  [openai |->
           {message(p) : p \in {
              <<"content">>, <<"content", "#text", "text">>,
              <<"tool_calls", "[]", "function", "arguments", "raw">>,
              <<"tool_calls", "[]", "function", "arguments", "to">>,
              <<"tool_calls", "[]", "function", "arguments", "password", "value">>,
              <<"function_call", "arguments", "password">>}}
           \union {
              <<"tools", "[]", "function", "description">>,
              <<"tools", "[]", "function", "parameters", "properties", "password", "description">>,
              <<"tools", "[]", "custom", "description">>,
              <<"functions", "[]", "description">>,
              <<"functions", "[]", "parameters", "description">>,
              <<"user">>, <<"safety_identifier">>, <<"metadata", "note">>,
              <<"prediction", "content", "#text", "text">>,
              <<"response_format", "json_schema", "schema", "properties", "to", "description">>},
         anthropic |->
           {block(p) : p \in {
              <<>>, <<"#text", "text">>,
              <<"#tool_result", "content">>,
              <<"#tool_result", "content", "#tool_result", "content", "#text", "text">>,
              <<"#tool_use", "input", "to">>,
              <<"#tool_use", "input", "password", "value">>,
              <<"#document", "title">>, <<"#document", "context">>,
              <<"#document", "source", "#text", "data">>,
              <<"#document", "source", "#content", "content", "#text", "text">>,
              <<"#search_result", "title">>,
              <<"#search_result", "content", "#text", "text">>}}
           \union {
              <<"system">>, <<"system", "#text", "text">>,
              <<"tools", "[]", "description">>,
              <<"tools", "[]", "input_schema", "properties", "to", "description">>,
              <<"metadata", "password">>}]

MCContract ==
    [openai |->
       {<<"messages", "[]", "tool_calls", "[]", "id">>,
        <<"messages", "[]", "tool_calls", "[]", "function", "name">>,
        <<"tools", "[]", "function", "name">>,
        <<"tools", "[]", "function", "parameters", "enum", "[]">>},
     anthropic |->
       {<<"messages", "[]", "content", "#tool_use", "id">>,
        <<"messages", "[]", "content", "#tool_use", "name">>,
        <<"messages", "[]", "content", "#tool_result", "tool_use_id">>,
        <<"tools", "[]", "name">>,
        <<"tools", "[]", "input_schema", "enum", "[]">>}]

\* What a schema says of a password is no password.
MCCredentials ==
    [openai |->
       {<<"messages", "[]", "tool_calls", "[]", "function", "arguments", "password", "value">>,
        <<"messages", "[]", "function_call", "arguments", "password">>},
     anthropic |->
       {<<"messages", "[]", "content", "#tool_use", "input", "password", "value">>,
        <<"metadata", "password">>}]

\* Opaque blocks, and places past the depth cap.
MCOpaque ==
    [openai |->
       {<<"messages", "[]", "content", "#image_url", "url">>,
        <<"messages", "[]", "tool_calls", "[]", "function", "arguments", "a", "b", "c">>},
     anthropic |->
       {<<"messages", "[]", "content", "#thinking", "thinking">>,
        <<"messages", "[]", "content", "#document", "source", "#base64", "data">>,
        <<"messages", "[]", "content", "#tool_use", "input", "a", "b", "c">>}]

MCFollowUps ==
    [openai |-> {<<"messages", "[]", "content">>, <<"functions", "[]", "description">>,
                 <<"messages", "[]", "function_call", "arguments", "password">>},
     anthropic |-> {<<"messages", "[]", "content">>, <<"system">>, <<"metadata", "password">>}]

MCAnswerPlaces ==
    LET call == <<"tool_calls", "[]", "function", "arguments">>
    IN  [openai |->
           {<<"content">>, call \o <<"raw">>, call \o <<"to">>, call \o <<"password">>,
            call \o <<"a", "b", "c">>,
            <<"function_call", "arguments", "to">>, <<"function_call", "arguments", "password">>},
         anthropic |->
           {<<"#text", "text">>, <<"#thinking", "thinking">>, <<"#tool_use", "input", "to">>,
            <<"#tool_use", "input", "password", "value">>, <<"#tool_use", "input", "a", "b", "c">>}]

Email(k) == [category |-> "Email", n |-> k]
Secret(k) == [category |-> "Secret", n |-> k]

\* e2 has a backslash, and e3 is e2 with two.
MCEscape == [v \in Values |-> IF v = e2 THEN e3 ELSE v]

MCClientTexts == {<<e1>>, <<w, e2>>, <<w>>, <<w, Email(1)>>, <<Secret(1)>>}
MCModelTexts == {<<Email(1)>>, <<w, Email(2)>>, <<Secret(1)>>, <<Secret(2), Email(1)>>}
=============================================================================

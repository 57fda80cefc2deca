--------------------------- MODULE MCSseRehydrator ---------------------------
(* All contents of MaxText characters, next to a tool call with two           *)
(* placeholders, one of which is new; the first two characters of a           *)
(* placeholder fit a held tail.                                               *)
EXTENDS SseRehydrator

CONSTANT MaxText

MCKeys == {"content", "call"}
MCAnswers ==
    {[k \in MCKeys |-> IF k = "content" THEN text
                       ELSE <<"open", "p", "close", "open", "q", "close">>] :
        text \in [1..MaxText -> {"open", "close", "blank", "p"}]}
MCPlain == [n \in {"p", "q"} |-> IF n = "p" THEN "P" ELSE "Q"]
MCInJson == [n \in {"p", "q"} |-> IF n = "p" THEN "escaped P" ELSE "escaped Q"]
MCTerminators == {<<LF, LF>>, <<CR, CR>>, <<CR, LF, CR, LF>>}
=============================================================================

--------------------------- MODULE MCPlaceholders ---------------------------
(* Two values of one category, and texts that carry its first placeholder    *)
(* and the one with the number Highest.                                      *)
EXTENDS Placeholders

CONSTANTS a, b, Highest

MCValues == {a, b}
MCPrefixOf == [v \in MCValues |-> "Email"]
MCAtoms == MCValues \union {[prefix |-> "Email", index |-> n] : n \in {1, Highest}}

\* One text, or two messages; two atoms in all.
MCContents ==
    {<<<<x>>>> : x \in MCAtoms}
      \union {<<<<x, y>>>> : x, y \in MCAtoms}
      \union {<<<<x>>, <<y>>>> : x, y \in MCAtoms}
=============================================================================

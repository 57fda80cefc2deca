------------------------- MODULE MCCollisionResolver -------------------------
(* Two categories outside DETECTOR_PRIORITY below two inside it; one blank.  *)
EXTENDS CollisionResolver

CONSTANTS Secret, Phone, Cpf, Ticket

MCPriority == [c \in Categories |-> CASE c = Secret -> 1 [] c = Phone -> 9 [] OTHER -> 99]

\* Values as long as their span; Phone's detector and Ticket's normalise them,
\* to one character; only Cpf's detector may have locales.
MCInputs ==
    {f \in Findings :
      /\ f.category = Phone => f.length = 1
      /\ f.length = f.to - f.from \/ (f.category \in {Phone, Ticket} /\ f.length = 1)
      /\ f.localeScoped => f.category = Cpf
      /\ {f.from, f.to - 1} \intersect Blanks = {}}
=============================================================================

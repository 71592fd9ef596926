---------------------------- MODULE MCImageStore ----------------------------
EXTENDS ImageStore, TLC

\* "Lobby", its normal form "lobby", "spacer1", and the reserved name, whose
\* normal form has lost its underscores.
Names   == {"Lobby", "lobby", "spacer1", "__spacer_base_image__", "spacerbaseimage"}
Reserved == "__spacer_base_image__"
Normal  == [n \in Names |-> CASE n = "Lobby" -> "lobby"
                               [] n = "__spacer_base_image__" -> "spacerbaseimage"
                               [] OTHER -> n]
Spacers == {"spacer1", "__spacer_base_image__", "spacerbaseimage"}
Usual   == {"Lobby", "spacer1"}
Unusual == {"Lobby", "__spacer_base_image__"}

\* The images a migrated installation may have, and their ids: of two ordinary
\* names, or the shared one beside another.
Images  == [n \in {"lobby", "spacer1"} |-> IF n = "lobby" THEN 1 ELSE 2]
Shared  == [n \in {"lobby", Reserved} |-> IF n = "lobby" THEN 1 ELSE 2]

Symmetry == Permutations(Request) \cup Permutations(Cid)
=============================================================================

---------------------------- MODULE MCSkipSteps -----------------------------
EXTENDS SkipSteps

(* A header of each kind with few elements, scalars of one, two and three   *)
(* bytes, an invalid prefix, a header of more elements than there are ever *)
(* bytes, and the 32-bit counts of a scaled int.                           *)
Pieces == {<<1>>, <<192>>, <<193>>, <<161>>, <<204>>, <<146>>, <<145>>, <<129>>, <<196, 1>>,
           <<220, 0, 2>>, <<220, 0, 40>>, <<222, 0, 1>>, <<221, 0, 0, 0, 1>>, <<223, 0, 4, 0, 0>>, <<198, 0, 7, 255, 251>>,
           <<198, 0, 4, 0, 0>>}

MCMessages == {<<>>} \cup Pieces \cup {a \o b : a, b \in Pieces} \cup {a \o b \o c : a, b, c \in Pieces}
              \cup {a \o b \o c \o d : a, b, c, d \in {<<1>>, <<146>>, <<129>>, <<145>>}}
=============================================================================

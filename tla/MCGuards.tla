------------------------------ MODULE MCGuards ------------------------------
(* Finite instances of Guards for TLC. *)
EXTENDS Guards

MCLimit == [t \in Throttlers |-> IF t = "global" THEN 3 ELSE 2]

MCTtl == [t \in Throttlers |-> IF t = "global" THEN 2 ELSE 3]
==============================================================================

------------------------------ MODULE MCCards ------------------------------
(* Finite instances of Cards for TLC. *)
EXTENDS Cards

First == CHOOSE t \in Texts : TRUE

\* Cards are added in front or at the end, changed and moved to the front, deleted and
\* reordered.
MCOperations ==
    [kind : {"create"}, card : Ids, data : {First}, at : {Nil, 0}]
        \cup [kind : {"update"}, card : Ids, data : Texts \ {First}, at : {0}]
        \cup [kind : {"delete"}, card : Ids]
        \cup [kind : {"reorder"}, list : SetToSeqs(Ids)]
        \cup [kind : {"publish", "revert", "remove"}]

\* Cards are added at the end and reordered.
MCReorders ==
    [kind : {"create"}, card : Ids, data : {First}, at : {Nil}]
        \cup [kind : {"reorder"}, list : SetToSeqs(Ids)]

Symmetry == Permutations(Ids) \cup Permutations(Requests)
==============================================================================

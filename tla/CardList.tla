------------------------------ MODULE CardList ------------------------------
(***************************************************************************)
(* What NewsService promises of the cards of an article: they are a list,  *)
(* and every operation takes effect at once on the list as it is.          *)
(***************************************************************************)
EXTENDS SequencesExt

CONSTANTS Ids, Texts   \* ids of cards, and what a card says

VARIABLE list

ListedCard == [id : Ids, data : Texts]

\* The new card comes before position i, or at the end.
Insert(c, i) ==
    /\ \A j \in DOMAIN list : list[j].id # c.id
    /\ list' = InsertAt(list, i, c)

\* Card i takes new data, position j, or both.
Update(i, data, j) ==
    list' = InsertAt(RemoveAt(list, i), j, [id |-> list[i].id, data |-> data])

Delete(i) == list' = RemoveAt(list, i)

\* p[i] is the position from which the new card i comes.
Reorder(p) ==
    /\ \A i, j \in DOMAIN list : p[i] = p[j] => i = j
    /\ list' = [i \in DOMAIN list |-> list[p[i]]]

Init == list = << >>

\* An operation that leaves the list as it is does not count as a step.
Next ==
    /\ list' # list
    /\ \/ \E c \in ListedCard, i \in 1 .. Len(list) + 1 : Insert(c, i)
       \/ \E i, j \in DOMAIN list, data \in Texts : Update(i, data, j)
       \/ \E i \in DOMAIN list : Delete(i)
       \/ \E p \in [DOMAIN list -> DOMAIN list] : Reorder(p)

Spec == Init /\ [][Next]_list
==============================================================================

------------------------------- MODULE MCNews -------------------------------
(* Finite instances of News for TLC. *)
EXTENDS News, TLC

CONSTANTS s1, s2

MCCreations == [slug : {s1, s2}, date : {Nil}]

\* A new slug, no date.
MCUpdates ==
    [slug : {s1, s2}, date : {Same}] \cup [slug : {Same}, date : {Nil}]

Symmetry == Permutations(Requests)
==============================================================================

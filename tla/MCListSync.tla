----------------------------- MODULE MCListSync -----------------------------
(***************************************************************************)
(* ListSync with two runs over two collections, two lists at a time and    *)
(* two films that pass for one another.  The lists may bear a third name,  *)
(* which suits both collections at TMDB and one of them at Trakt.          *)
(***************************************************************************)
EXTENDS ListSync, TLC

CONSTANTS t1, t2, c1, c2, n1, l1, l2, l3

MCTitle   == {t1, t2}
MCTwins   == {<<t1, t2>>}
MCColl    == {c1, c2}
MCName    == {c1, c2, n1}
MCListId  == {l1, l2}
MCSimilar == [s \in {"trakt", "tmdb"} |->
                IF s = "tmdb" THEN {<<c1, n1>>, <<c2, n1>>} ELSE {<<c1, n1>>}]
Symmetric == Permutations(MCListId) \cup Permutations(MCTitle)

\* Initially there is one list at most, and one member on either side.
MCInit ==
  /\ Init
  /\ Cardinality(local) <= 1 /\ Cardinality(remote) <= 1 /\ Cardinality(lists) <= 1
  /\ svc = "trakt" => account   \* which only TMDB asks for

MCSpec == MCInit /\ [][Next]_vars
=============================================================================

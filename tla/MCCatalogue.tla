----------------------------- MODULE MCCatalogue ------------------------------
(***************************************************************************)
(* An instance of Catalogue for TLC: a page that shows both ids, one that  *)
(* shows one and one that shows none.                                      *)
(***************************************************************************)
EXTENDS Catalogue, TLC
CONSTANTS a, b

MCSymmetry == Permutations(Releases)

\* A title within another of the same year, one much like it, an equal one that
\* is two years off
MCScores == {TitleScore(<<<<"within">>>>) + YearScore(0),
             TitleScore(<<<<"other">>, <<"alike", "other">>>>) + YearScore(None),
             TitleScore(<<<<"equal", "within">>>>) + YearScore(2)}
MCCategory == 1 :> "films" @@ 2 :> "films" @@ 3 :> "cartoons"
MCPageIds ==
    ("both" :> [kp |-> a, imdb |-> a]) @@ ("imdb" :> [kp |-> None, imdb |-> b]) @@
    ("bare" :> [kp |-> None, imdb |-> None])
=============================================================================

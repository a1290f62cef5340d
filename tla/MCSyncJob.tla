----------------------------- MODULE MCSyncJob ------------------------------
(***************************************************************************)
(* Instances of SyncJob for TLC: films, where most releases are, and       *)
(* series.  f2 and f5 are of one title.  Before the first run of the large *)
(* instance two unwanted films, a page of them, have come after f1.        *)
(***************************************************************************)
EXTENDS SyncJob

CONSTANTS films, series, f0, f1, f2, f3, f4, f5, s0, s1

MCCats == <<films, series>>
MCCategoryOf == [r \in Release |-> IF r \in {s0, s1} THEN series ELSE films]
MCTitleOf == [r \in Release |-> IF r = f5 THEN f2 ELSE r]

MCBacklog == <<s1, f1, f3, f4>>
MCOneLate == <<f1>>
=============================================================================

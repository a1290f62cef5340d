----------------------------- MODULE MCCloudSync ----------------------------
(***************************************************************************)
(* Instances of CloudSync for TLC: two tables, or items alone.             *)
(***************************************************************************)
EXTENDS CloudSync

CONSTANTS items, collections

MCOrder == <<items, collections>>
MCOneTable == <<items>>
=============================================================================

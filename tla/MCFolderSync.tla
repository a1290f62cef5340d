---------------------------- MODULE MCFolderSync ----------------------------
(***************************************************************************)
(* FolderSync with two films a search takes for one another, two names     *)
(* much alike, each of which may be a collection, a folder, both or        *)
(* neither, the name of a hidden collection, and both services.            *)
(***************************************************************************)
EXTENDS FolderSync

CONSTANTS t1, t2, n1, n2, n3

MCTitle == {t1, t2}
MCName  == {n1, n2, n3}
Twin    == {<<t1, t2>>}
Alike   == {<<n1, n2>>, <<n2, n1>>}

\* At the start there are at most two members in all.  A folder of the hidden name
\* is the only one and there is at most one collection.
MCInit == /\ Init
          /\ Cardinality(local) + Cardinality(remote) <= 2
          /\ n3 \in folders => folders = {n3} /\ colls \subseteq {n1}
MCSpec == MCInit /\ [][Next]_vars /\ WF_vars(Script)
=============================================================================

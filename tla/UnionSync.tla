----------------------------- MODULE UnionSync -----------------------------
(***************************************************************************)
(* What a two-way sync of collections promises, whatever the service and   *)
(* the program.  It takes a collection and the folder it goes with, looks  *)
(* at both, and copies: a side only ever gains members, and only members   *)
(* seen on the other side.  Whatever else changes is an edit of somebody   *)
(* else.  The service may show more than it holds, where answers are       *)
(* cached, until they age.  A title is copied as the card it is taken for, *)
(* which is its own as long as no mistake was made.                        *)
(***************************************************************************)
EXTENDS Naturals

CONSTANTS Name, Title,
          NoPair   \* "cur" and "coll" before a pair is taken

VARIABLES local,   \* pairs <<collection, title>> of the database
          remote,  \* pairs <<folder, title>> of the service
          visible, \* those its answers show
          cur, coll,    \* the folder and the collection being compared
          there, here,  \* what the sync has read of them
          edits,   \* edits made by others so far
          mixed    \* a card has been taken for another title's

sides == <<local, remote, visible>>
pair  == <<cur, coll>>
views == <<there, here>>
vars  == <<sides, pair, views, edits, mixed>>

Members(side, n) == {t \in Title : <<n, t>> \in side}
Both(n, S)       == {n} \X S

Init == /\ local \in SUBSET (Name \X Title)
        /\ remote \in SUBSET (Name \X Title) /\ visible = remote
        /\ cur = NoPair /\ coll = NoPair
        /\ there = {} /\ here = {}
        /\ edits = 0 /\ mixed \in BOOLEAN

Take == /\ cur' \in Name /\ coll' \in Name
        /\ UNCHANGED <<sides, views, edits, mixed>>

\* The sync ends and forgets what it has read.
Leave == /\ cur' = NoPair /\ coll' = NoPair /\ there' = {} /\ here' = {}
         /\ UNCHANGED <<sides, edits, mixed>>

\* A folder may be read in part only: a page of it that could not be fetched.
LookThere == /\ there' \in SUBSET Members(visible, cur)
             /\ UNCHANGED <<sides, pair, here, edits, mixed>>

\* The cards, or the titles, taken for those of S.
Cards(S) == {card \in [S -> Title] : (\A t \in S : card[t] = t) \/ mixed'}

LookHere == /\ mixed => mixed'
            /\ \E id \in Cards(Members(local, coll)) :
                 here' = {id[r] : r \in Members(local, coll)}
            /\ UNCHANGED <<sides, pair, there, edits>>

Pull == /\ mixed => mixed'
        /\ \E S \in SUBSET there : \E card \in Cards(S) :
             local' = local \cup Both(coll, {card[t] : t \in S})
        /\ UNCHANGED <<remote, visible, pair, views, edits>>

Push == /\ mixed => mixed'
        /\ \E S \in SUBSET here : \E id \in Cards(S) :
             LET ids == {id[r] : r \in S}
             IN  remote' = remote \cup Both(cur, ids) /\ visible' = visible \cup Both(cur, ids)
        /\ UNCHANGED <<local, pair, views, edits>>

Mistake == mixed' = TRUE /\ UNCHANGED <<sides, pair, views, edits>>

Edit == /\ edits' = edits + 1
        /\ \/ local' \in SUBSET (Name \X Title) /\ UNCHANGED <<remote, visible>>
           \/ /\ remote' \in SUBSET (Name \X Title) /\ UNCHANGED local
              /\ remote' \subseteq visible' /\ visible' \subseteq visible \cup remote'
        /\ UNCHANGED <<pair, views, mixed>>

Age == /\ remote \subseteq visible' /\ visible' \subseteq visible
       /\ UNCHANGED <<local, remote, pair, views, edits, mixed>>

Next == Take \/ Leave \/ LookThere \/ LookHere \/ Pull \/ Push \/ Mistake \/ Edit \/ Age

Spec == Init /\ [][Next]_vars
=============================================================================

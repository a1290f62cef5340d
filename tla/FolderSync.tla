----------------------------- MODULE FolderSync -----------------------------
(***************************************************************************)
(* kinopub_collections_sync.py and rezka_collections_sync.py: the two-way  *)
(* sync of the local collections with the folders of a service.  The       *)
(* script walks over the folders; for each it pulls the members the        *)
(* collection lacks, making cards for titles the catalogue has never seen, *)
(* and then pushes the members the folder lacks, looking up the service's  *)
(* id of those that have none.  Meanwhile the user edits collections,      *)
(* cards and folders: what the script has read grows stale.                *)
(*                                                                         *)
(* A title stands for a film: its card (row of items), its identity at the *)
(* service (kinopub_id, rezka_url) and its place in collections.  Cards    *)
(* are found by name and year, and by the rowid of an insert that may have *)
(* been ignored: a card can come to carry the id of another film.          *)
(***************************************************************************)
EXTENDS FiniteSets, Naturals

CONSTANTS Title, Name,
          Service,  \* which of the two scripts are run: "kinopub", "rezka"
          Similar,  \* pairs of names the fuzzy match takes for one another
          Twins,    \* pairs of films a search by name and year takes for one another
          Hidden,   \* names of system collections, which get_collections leaves out
          Ignored,  \* settings.kinopub_ignored_folders
          MaxEdits, \* bound: edits of users during a run
          NoTitle

ASSUME NoTitleIsNone == NoTitle \notin Title
ASSUME EditsAreCounted == MaxEdits \in Nat
ASSUME HiddenAreNames == Hidden \subseteq Name
ASSUME SimilarIsSymmetric == \A p \in Similar : <<p[2], p[1]>> \in Similar

VARIABLES
  colls, local, rows, link,  \* collections, collection_items, items, items.kinopub_id
  folders, remote,           \* the service: folders and what is in them
  svc, pc,                   \* the script run and where it is
  seen,       \* collections: the list of collections as last read
  known, ids, \* all_items: the cards at the start and the ids they carried
  map,        \* kp_to_item / url_to_item: the card bound to an id, as known here
  todo,       \* folders not yet visited
  cur, coll,  \* the folder being synced and its collection
  there,      \* the folder's titles (folder_kp_ids)
  bound,      \* folder_local_item_ids: cards found for them
  here,       \* project_item_ids
  unbound,    \* titles of the folder for which no card is known
  push,       \* only_on_project
  lastrow,    \* rowid of the connection's last successful INSERT, any table
  edits, calm, \* edits made; nothing failed, stopped or was edited so far
  mixed       \* history: a card was taken for another film's

db      == <<colls, local, rows, link>>
service == <<folders, remote>>
loop    == <<cur, coll, there, bound, here, unbound, push>>
memo    == <<known, ids, map>>
vars    == <<db, service, svc, pc, seen, memo, todo, loop, lastrow, edits, calm, mixed>>

Close(n, m)  == n = m \/ <<n, m>> \in Similar
In(side, n)  == {t \in Title : <<n, t>> \in side}
Linked(t)    == \E r \in rows : link[r] = t

\* The films whose name and year may pass for those of t.
Lookalikes(t) == {t} \cup {u \in Title : <<t, u>> \in Twins \/ <<u, t>> \in Twins}

\* Initially a card carries an id of its film, of one much like it, or none.
Init ==
  /\ colls \in SUBSET (Name \ Hidden) /\ folders \in SUBSET Name
  /\ rows \in SUBSET Title
  /\ link \in {l \in [Title -> Title \cup {NoTitle}] :
                 \A t \in Title : l[t] = NoTitle \/ (l[t] \in Lookalikes(t) /\ t \in rows)}
  /\ mixed = (\E t \in Title : link[t] \notin {t, NoTitle})
  /\ local \in SUBSET (colls \X rows)
  /\ remote \in SUBSET (folders \X Title)
  /\ svc \in Service
  /\ pc = "list"
  /\ seen = {} /\ known = {} /\ todo = {}
  /\ ids = [t \in Title |-> NoTitle] /\ map = [t \in Title |-> NoTitle]
  /\ cur = NoTitle /\ coll = NoTitle
  /\ there = {} /\ bound = {} /\ here = {} /\ unbound = {} /\ push = {}
  /\ lastrow = NoTitle
  /\ edits = 0 /\ calm = TRUE

-----------------------------------------------------------------------------
(* The start: sign in, list the folders, read the catalogue.               *)

Abort == pc' = "done" /\ calm' = FALSE

\* kino.pub: not signed in, rate limited twice, or the list could not be fetched.
ListFails ==
  /\ pc = "list" /\ svc = "kinopub" /\ Abort
  /\ UNCHANGED <<db, service, svc, seen, memo, todo, loop, lastrow, edits, mixed>>

LoginFails ==
  /\ pc = "list" /\ svc = "rezka" /\ Abort
  /\ UNCHANGED <<db, service, svc, seen, memo, todo, loop, lastrow, edits, mixed>>

\* Without folders kino.pub goes on: it makes them from the collections.
ListFolders ==
  /\ pc = "list" /\ svc = "kinopub"
  /\ todo' = folders \ Ignored
  /\ pc' = "read"
  /\ UNCHANGED <<db, service, svc, seen, memo, loop, lastrow, edits, calm, mixed>>

ReadSidebar ==
  /\ pc = "list" /\ svc = "rezka"
  /\ todo' = folders
  /\ pc' = IF folders = {} THEN "done" ELSE "read"
  /\ UNCHANGED <<db, service, svc, seen, memo, loop, lastrow, edits, calm, mixed>>

\* map keeps one card per id; which one of several is up to the database.
ReadCatalogue ==
  /\ pc = "read"
  /\ seen' = colls /\ known' = rows /\ ids' = link
  /\ map' = [t \in Title |-> IF Linked(t) THEN CHOOSE r \in rows : link[r] = t ELSE NoTitle]
  /\ pc' = IF svc = "kinopub" THEN "create" ELSE "walk"
  /\ UNCHANGED <<db, service, svc, todo, loop, lastrow, edits, calm, mixed>>

\* kino.pub only: a folder for every collection that has none.
Missing == {n \in seen \ Ignored : ~ \E f \in todo : Close(n, f)}

\* Variant that also appends the answer of a folder without a title.
CreateFolderNameless(n) ==
  /\ pc = "create" /\ n \in Missing
  /\ folders' = folders \cup {n} /\ todo' = todo \cup {n, NoTitle}
  /\ UNCHANGED <<db, remote, svc, pc, seen, memo, loop, lastrow, edits, calm, mixed>>

CreateFolder(n) ==
  /\ pc = "create" /\ n \in Missing
  /\ \/ /\ folders' = folders \cup {n} /\ todo' = todo \cup {n}
        /\ UNCHANGED <<seen, calm>>
     \/ /\ seen' = seen \ {n} /\ calm' = FALSE   \* the request failed
        /\ UNCHANGED <<folders, todo>>
  /\ UNCHANGED <<db, remote, svc, pc, memo, loop, lastrow, edits, mixed>>

FoldersCreated ==
  /\ pc = "create" /\ Missing = {}
  /\ pc' = "walk"
  /\ UNCHANGED <<db, service, svc, seen, memo, todo, loop, lastrow, edits, calm, mixed>>

-----------------------------------------------------------------------------
(* One folder: match it to a collection, or make one.                      *)

MatchesIn(f, S) == IF f \in S THEN {f} ELSE {n \in S : Close(f, n)}
Matches(f)      == MatchesIn(f, seen)

Visit(f, c) == /\ todo' = todo \ {f} /\ cur' = f /\ coll' = c /\ pc' = "fetch"
               /\ UNCHANGED <<there, bound, here, unbound, push>>

Match ==
  /\ pc = "walk"
  /\ \E f \in todo : \E c \in Matches(f) : Visit(f, c)
  /\ UNCHANGED <<db, service, svc, seen, memo, lastrow, edits, calm, mixed>>

\* A name that is taken, by a collection the user made since "seen" was read or by
\* a hidden one: the INSERT fails.  kino.pub reads the list again, and passes the
\* folder over when it still finds none; rezka breaks down.
Taken(f) == f \in colls \cup Hidden

MakeCollection ==
  /\ pc = "walk"
  /\ \E f \in todo :
       /\ Matches(f) = {}
       /\ \/ /\ svc = "rezka" /\ Taken(f)
             /\ Abort /\ UNCHANGED <<colls, seen, todo, loop>>
          \/ /\ svc = "kinopub" \/ ~ Taken(f)
             /\ colls' = colls \cup ({f} \ Hidden) /\ seen' = colls'
             /\ UNCHANGED calm
             /\ \/ \E c \in MatchesIn(f, colls') : Visit(f, c)
                \/ /\ MatchesIn(f, colls') = {}
                   /\ todo' = todo \ {f} /\ UNCHANGED <<pc, loop>>
  /\ UNCHANGED <<local, rows, link, service, svc, memo, lastrow, edits, mixed>>

Stopped ==
  /\ pc = "walk" /\ svc = "kinopub" /\ todo # {} /\ Abort
  /\ UNCHANGED <<db, service, svc, seen, memo, todo, loop, lastrow, edits, mixed>>

Done ==
  /\ pc = "walk" /\ todo = {}
  /\ pc' = "done"
  /\ UNCHANGED <<db, service, svc, seen, memo, todo, loop, lastrow, edits, calm, mixed>>

-----------------------------------------------------------------------------
(* Pull.                                                                   *)

View(S) ==
  /\ there' = S
  /\ bound' = {map[t] : t \in {u \in S : map[u] # NoTitle}}
  /\ unbound' = {t \in S : map[t] = NoTitle}

\* kino.pub gives all pages of a folder or none.
FolderItems(f) == In(remote, f)

Fetch ==
  /\ pc = "fetch" /\ svc = "kinopub"
  /\ View(FolderItems(cur))
  /\ pc' = "members"
  /\ UNCHANGED <<db, service, svc, seen, memo, todo, cur, coll, here, push, lastrow, edits, calm, mixed>>

\* Variant that puts a folder it could not read back into the queue.
FetchFailsRequeue ==
  /\ pc = "fetch" /\ svc = "kinopub" /\ calm' = FALSE
  /\ pc' = "walk" /\ todo' = todo \cup {cur}
  /\ UNCHANGED <<db, service, svc, seen, memo, loop, lastrow, edits, mixed>>

FetchFails ==
  /\ pc = "fetch" /\ svc = "kinopub" /\ calm' = FALSE
  /\ pc' = "walk"
  /\ UNCHANGED <<db, service, svc, seen, memo, todo, loop, lastrow, edits, mixed>>

\* A page that rezka answers with an error is taken for the end of the folder.
FetchPages ==
  /\ pc = "fetch" /\ svc = "rezka"
  /\ \E S \in SUBSET In(remote, cur) : View(S) /\ calm' = (calm /\ S = In(remote, cur))
  /\ pc' = "members"
  /\ UNCHANGED <<db, service, svc, seen, memo, todo, cur, coll, here, push, lastrow, edits, mixed>>

\* rezka: no answer at all is an exception nobody handles, when a page is read or
\* a title is added.  kino.pub: a rate limit on a page is no KinopubAPIError.
Break ==
  /\ pc = "fetch" \/ (pc = "push" /\ svc = "rezka")
  /\ Abort
  /\ UNCHANGED <<db, service, svc, seen, memo, todo, loop, lastrow, edits, mixed>>

ReadMembers ==
  /\ pc = "members"
  /\ here' = In(local, coll)
  /\ pc' = "resolve"
  /\ UNCHANGED <<db, service, svc, seen, memo, todo, cur, coll, there, bound,
                 unbound, push, lastrow, edits, calm, mixed>>

\* Variant that forgets to count the card among the folder's.
AdoptUncounted(t, r) == /\ map' = [map EXCEPT ![t] = r]
                        /\ unbound' = unbound \ {t}
                        /\ UNCHANGED <<cur, coll, there, bound, here, push>>

\* The card r now stands for t in this run.
Adopt(t, r) == /\ map' = [map EXCEPT ![t] = r]
               /\ bound' = bound \cup {r}
               /\ unbound' = unbound \ {t}
               /\ UNCHANGED <<cur, coll, there, here, push>>

\* db.kinopub_bind: nothing happens to a card that is gone.
Bind(cards, r, t) == link' = IF r \in cards THEN [link EXCEPT ![r] = t] ELSE link

\* From now on the card r stands for the film t.
Mixing(r, t) == mixed' = (mixed \/ r # t)

\* kino.pub: a card exists, by IMDb id or by title and year.
BindExisting ==
  /\ pc = "resolve" /\ svc = "kinopub"
  /\ \E t \in unbound : \E r \in rows \cap Lookalikes(t) :
       Bind(rows, r, t) /\ Adopt(t, r) /\ Mixing(r, t)
  /\ UNCHANGED <<colls, local, rows, service, svc, pc, seen, known, ids, todo, lastrow, edits, calm>>

Remember(r, t) == known' = known \cup {r} /\ ids' = [ids EXCEPT ![r] = t]

CreateCard ==
  /\ pc = "resolve" /\ svc = "kinopub"
  /\ \E t \in unbound \ rows :
       /\ rows' = rows \cup {t} /\ lastrow' = t
       /\ Bind(rows \cup {t}, t, t) /\ Adopt(t, t)
  /\ UNCHANGED <<colls, local, service, svc, pc, seen, known, ids, todo, edits, calm, mixed>>

\* rezka knows cards by their rezka_url only: a film may get a second card.
ParseCard ==
  /\ pc = "resolve" /\ svc = "rezka"
  /\ \E t \in unbound :
       /\ rows' = rows \cup {t} /\ lastrow' = t
       /\ link' = [link EXCEPT ![t] = t]
       /\ Remember(t, t) /\ Adopt(t, t)
  /\ UNCHANGED <<colls, local, service, svc, pc, seen, todo, edits, calm, mixed>>

\* A card of that title, year and category exists: the insert is ignored, and
\* lastrowid is that of the insert before, when this connection made one.
InsertIgnored ==
  /\ pc = "resolve"
  /\ \E t \in unbound : \E u \in rows \cap Lookalikes(t) :
       LET r == IF lastrow = NoTitle THEN u ELSE lastrow
       IN  /\ Adopt(t, r) /\ Mixing(r, t)
           /\ IF svc = "kinopub" THEN Bind(rows, r, t) /\ UNCHANGED <<known, ids>>
              ELSE Remember(r, t) /\ UNCHANGED link
  /\ UNCHANGED <<colls, local, rows, service, svc, pc, seen, todo, lastrow, edits, calm>>

\* rezka: a page that cannot be parsed is passed over.
CardFails ==
  /\ pc = "resolve" /\ svc = "rezka"
  /\ \E t \in unbound : unbound' = unbound \ {t}
  /\ calm' = FALSE
  /\ UNCHANGED <<db, service, svc, pc, seen, memo, todo, cur, coll, there, bound,
                 here, push, lastrow, edits, mixed>>

\* Variant that makes the collection equal to the folder.
AddMembersMirroring ==
  /\ pc = "resolve" /\ unbound = {}
  /\ local' = {p \in local : p[1] # coll} \cup {<<coll, r>> : r \in bound}
  /\ push' = here \ bound
  /\ pc' = "push"
  /\ UNCHANGED <<colls, rows, link, service, svc, seen, memo, todo, cur, coll, there,
                 bound, here, unbound, lastrow, edits, calm, mixed>>

\* collection_items has rowids of its own; one may be the id of any card.
AddMembers ==
  /\ pc = "resolve" /\ unbound = {}
  /\ LET new == {<<coll, r>> : r \in bound \ here}
     IN  /\ local' = local \cup new
         /\ IF new \subseteq local THEN UNCHANGED lastrow ELSE \E r \in Title : lastrow' = r
  /\ push' = here \ bound
  /\ pc' = "push"
  /\ UNCHANGED <<colls, rows, link, service, svc, seen, memo, todo, cur, coll, there,
                 bound, here, unbound, edits, calm, mixed>>

-----------------------------------------------------------------------------
(* Push.                                                                   *)

Pushed(r) == push' = push \ {r} /\ UNCHANGED <<cur, coll, there, bound, here, unbound>>

\* A member whose card is not in all_items.
Unknown ==
  /\ pc = "push"
  /\ \E r \in push \ known : Pushed(r)
  /\ UNCHANGED <<db, service, svc, pc, seen, memo, todo, lastrow, edits, calm, mixed>>

NotFound ==
  /\ pc = "push"
  /\ \E r \in push \cap known : ids[r] = NoTitle /\ Pushed(r)
  /\ calm' = FALSE
  /\ UNCHANGED <<db, service, svc, pc, seen, memo, todo, lastrow, edits, mixed>>

Learnt(r, t) == /\ map' = [map EXCEPT ![t] = r] /\ ids' = [ids EXCEPT ![r] = t]
                /\ Mixing(r, t)
                /\ UNCHANGED <<colls, local, rows, service, svc, pc, seen, known, todo, loop,
                               lastrow, edits, calm>>

\* What is found has the name and the year of the card.
Search ==
  /\ pc = "push" /\ svc = "kinopub"
  /\ \E r \in push \cap known : \E t \in Lookalikes(r) :
       ids[r] = NoTitle /\ Bind(rows, r, t) /\ Learnt(r, t)

\* fill_item_metadata writes the url where there is none.
SearchUrl ==
  /\ pc = "push" /\ svc = "rezka"
  /\ \E r \in push \cap known : \E t \in Lookalikes(r) :
       /\ ids[r] = NoTitle /\ Learnt(r, t)
       /\ link' = IF r \in rows /\ link[r] = NoTitle THEN [link EXCEPT ![r] = t] ELSE link

AddToFolder ==
  /\ pc = "push"
  /\ \E r \in push \cap known :
       /\ ids[r] # NoTitle
       /\ remote' = IF cur \in folders THEN remote \cup {<<cur, ids[r]>>} ELSE remote
       /\ Pushed(r)
  /\ UNCHANGED <<db, folders, svc, pc, seen, memo, todo, lastrow, edits, calm, mixed>>

AddRefused ==
  /\ pc = "push" /\ calm' = FALSE
  /\ \E r \in push \cap known : ids[r] # NoTitle /\ Pushed(r)
  /\ UNCHANGED <<db, service, svc, pc, seen, memo, todo, lastrow, edits, mixed>>

\* kino.pub: a second rate limit, a lost sign-in or a stop gives up the folder.
GiveUpFolder ==
  /\ pc = "push" /\ svc = "kinopub" /\ push # {}
  /\ push' = {} /\ calm' = FALSE
  /\ UNCHANGED <<db, service, svc, pc, seen, memo, todo, cur, coll, there, bound, here,
                 unbound, lastrow, edits, mixed>>

FolderDone ==
  /\ pc = "push" /\ push = {}
  /\ pc' = "walk"
  /\ UNCHANGED <<db, service, svc, seen, memo, todo, loop, lastrow, edits, calm, mixed>>

-----------------------------------------------------------------------------
(* Everybody else, at any time of the run.                                 *)

Edited == /\ pc # "done" /\ edits < MaxEdits /\ edits' = edits + 1 /\ calm' = FALSE
          /\ UNCHANGED <<svc, pc, seen, memo, todo, loop, lastrow, mixed>>

ToggleMember ==
  /\ Edited
  /\ \E p \in colls \X rows : local' = IF p \in local THEN local \ {p} ELSE local \cup {p}
  /\ UNCHANGED <<colls, rows, link, service>>

UserMakesCollection ==
  /\ Edited
  /\ \E n \in Name \ (colls \cup Hidden) : colls' = colls \cup {n}
  /\ UNCHANGED <<local, rows, link, service>>

DeleteCard ==
  /\ Edited
  /\ \E t \in rows : /\ rows' = rows \ {t} /\ link' = [link EXCEPT ![t] = NoTitle]
                     /\ local' = {p \in local : p[2] # t}
  /\ UNCHANGED <<colls, service>>

DeleteCollection ==
  /\ Edited
  /\ \E n \in colls : colls' = colls \ {n} /\ local' = {p \in local : p[1] # n}
  /\ UNCHANGED <<rows, link, service>>

ServiceEdit ==
  /\ Edited
  /\ \E p \in folders \X Title : remote' = IF p \in remote THEN remote \ {p} ELSE remote \cup {p}
  /\ UNCHANGED <<db, folders>>

-----------------------------------------------------------------------------
Script ==
  \/ ListFails \/ LoginFails \/ ListFolders \/ ReadSidebar \/ ReadCatalogue
  \/ (\E n \in Name : CreateFolder(n)) \/ FoldersCreated
  \/ Match \/ MakeCollection \/ Stopped \/ Done
  \/ Fetch \/ FetchFails \/ FetchPages \/ Break \/ ReadMembers
  \/ BindExisting \/ CreateCard \/ ParseCard \/ InsertIgnored \/ CardFails \/ AddMembers
  \/ Unknown \/ NotFound \/ Search \/ SearchUrl \/ AddToFolder \/ AddRefused
  \/ GiveUpFolder \/ FolderDone

Others == ToggleMember \/ UserMakesCollection \/ DeleteCollection \/ DeleteCard \/ ServiceEdit

Next == Script \/ Others

Spec == Init /\ [][Next]_vars

\* The runner keeps a live script going; every request has a timeout.
FairSpec == Spec /\ WF_vars(Script)

-----------------------------------------------------------------------------
TypeOK ==
  /\ colls \in SUBSET Name /\ folders \in SUBSET Name
  /\ local \in SUBSET (Name \X Title) /\ remote \in SUBSET (Name \X Title)
  /\ rows \in SUBSET Title /\ link \in [Title -> Title \cup {NoTitle}]
  /\ svc \in Service
  /\ pc \in {"list", "read", "create", "walk", "fetch", "members", "resolve", "push", "done"}
  /\ seen \in SUBSET Name /\ known \in SUBSET Title /\ todo \in SUBSET Name
  /\ map \in [Title -> Title \cup {NoTitle}] /\ ids \in [Title -> Title \cup {NoTitle}]
  /\ cur \in Name \cup {NoTitle} /\ coll \in Name \cup {NoTitle}
  /\ there \in SUBSET Title /\ bound \in SUBSET Title /\ here \in SUBSET Title
  /\ unbound \in SUBSET Title /\ push \in SUBSET Title
  /\ lastrow \in Title \cup {NoTitle}
  /\ edits \in 0..MaxEdits /\ calm \in BOOLEAN /\ mixed \in BOOLEAN

(* Neither side gains a member that the sync has not seen on the other, and *)
(* neither loses one to the sync: the docstring's "bi-directional" copy.   *)
(* A card taken for another film's is copied for that film, and only it.   *)
Union == INSTANCE UnionSync WITH NoPair <- NoTitle, visible <- remote
OnlyCopies == Union!Spec

SidesEqual ==
  /\ \A f \in folders \ (Ignored \cup Hidden) :
       \E c \in colls : Close(f, c) /\ In(remote, f) \subseteq In(local, c)
  /\ \A c \in (colls \cap folders) \ Ignored :
       (\A f \in folders \ {c} : f \in colls \/ ~ Close(f, c)) => In(local, c) \subseteq In(remote, c)

(* After a run in which nothing failed, nobody edited anything and no card *)
(* was taken for another film's, every title of a folder is in a           *)
(* collection of that name or one much like it, unless the name is that of *)
(* a hidden collection; and a folder holds everything its collection       *)
(* holds, unless a folder of a name much like it was filed under the same  *)
(* collection later.                                                       *)
BothSidesEqual == (pc = "done" /\ calm /\ ~ mixed) => SidesEqual

(* What a user who did nothing and saw no error would expect.              *)
QuietRunEqual == (pc = "done" /\ calm) => SidesEqual

(* A run ends whatever fails. *)
RunEnds == <>(pc = "done")
=============================================================================

------------------------------ MODULE ListSync ------------------------------
(***************************************************************************)
(* trakt_collections_sync.py and tmdb_sync.py: the two-way sync of the     *)
(* local collections with the lists of Trakt and of TMDB.  A collection    *)
(* goes with the list of its name, which is made when there is none; TMDB  *)
(* takes a name much like it too, and remembers the list's id in app_state.*)
(* Both clients read through one session that caches answers on disk, for  *)
(* a week and for all runs.  Trakt holds what it pulls in an open          *)
(* transaction while it pushes.                                            *)
(*                                                                         *)
(* A title stands for a film, its card and its identity at the service.    *)
(* Where that is missing both scripts go by name and year, and by the      *)
(* rowid of an insert: a card can be taken for another film's.             *)
(***************************************************************************)
EXTENDS FiniteSets, Naturals

CONSTANTS Name, Coll, \* names of lists and collections; the collections, by name
          ListId, Title,
          Service,  \* which of the two scripts are run: "trakt", "tmdb"
          Similar,  \* for each script the pairs it takes for the same: a collection's
                    \* and a list's name; Trakt's differ in case and punctuation only
          Twins,    \* pairs of films a search by name and year takes for one another
          MaxRuns,  \* bound: runs of the script
          MaxAgain, \* bound: the same, once something went wrong
          MaxEdits, \* bound: edits of users
          None

ASSUME NoneIsNone == None \notin Name \cup ListId \cup Title
ASSUME CollectionsAreNamed == Coll \subseteq Name
ASSUME ListSyncAssumption == Service \subseteq {"trakt", "tmdb"} /\ MaxRuns \in Nat
                             /\ MaxAgain \in Nat /\ MaxEdits \in Nat

VARIABLES
  local, bound,  \* collection_items; app_state: the list id of a collection
  lists, remote, \* the service: pairs <<list, name>>; pairs <<list, title>>
  cLists, cItems, cAlive, \* answers cached: all lists, a list's items, that it exists
  account,    \* app_state: tmdb_account_id is there
  svc, pc, runs,
  known,      \* trakt_lists / existing_tmdb_lists
  todo,       \* collections not yet visited
  coll, cur,  \* the collection and its list
  there, here, \* what was read of them
  left,       \* to_add_to_local
  pend,       \* inserted, not committed: the script holds the write lock
  spam,       \* spam_blocked
  edits,
  faults, stale, \* a request failed or somebody edited; an answer was a cached one
  mixed       \* history: a card was taken for another film's

db      == <<local, bound>>
service == <<lists, remote>>
cache   == <<cLists, cItems, cAlive>>
run     == <<account, svc, runs>>
pair    == <<coll, cur>>
views   == <<there, here>>
fetched == <<left, pend>>
count   == <<spam, edits>>
vars    == <<db, service, cache, run, pc, known, todo, pair, views, fetched, count, faults, stale, mixed>>

In(side, n)  == {t \in Title : <<n, t>> \in side}
Named(ls, n) == {l \in ListId : <<l, n>> \in ls}
Close(c, n)  == c = n \/ <<c, n>> \in Similar[svc]
Suiting(ls, c) == {l \in ListId : \E n \in Name : <<l, n>> \in ls /\ Close(c, n)}
Alive(l)     == \E n \in Name : <<l, n>> \in lists
Cached       == {p \in ListId \X Title : cItems[p[1]] # None /\ p[2] \in cItems[p[1]]}

\* The films whose name and year may pass for those of t.
Lookalikes(t) == {t} \cup {u \in Title : <<t, u>> \in Twins \/ <<u, t>> \in Twins}

\* Each title of the function's domain is taken for the one it gives.
Mixing(card) == mixed' = (mixed \/ \E t \in DOMAIN card : card[t] # t)

\* The user's own lists have different names.
Init ==
  /\ local \in SUBSET (Coll \X Title)
  /\ bound = [c \in Coll |-> None]
  /\ \E L \in SUBSET Name : \E id \in [L -> ListId] :
       /\ \A c, d \in L : id[c] = id[d] => c = d
       /\ lists = {<<id[c], c>> : c \in L}
  /\ remote \in SUBSET ({l \in ListId : Alive(l)} \X Title)
  /\ cLists = None /\ cItems = [l \in ListId |-> None] /\ cAlive = {}
  /\ account \in BOOLEAN /\ svc \in Service /\ pc = "idle" /\ runs = 0
  /\ known = {} /\ todo = {} /\ coll = None /\ cur = None
  /\ there = {} /\ here = {} /\ left = {} /\ pend = {}
  /\ spam = FALSE /\ edits = 0 /\ faults = FALSE /\ stale = FALSE /\ mixed = FALSE

-----------------------------------------------------------------------------
(* The start of a run: all lists and all collections.                      *)

Start ==
  /\ pc = "idle" /\ runs < MaxRuns /\ (faults \/ mixed => runs < MaxAgain)
  /\ runs' = runs + 1 /\ pc' = "lists"
  /\ UNCHANGED <<db, service, cache, account, svc, known, todo, pair, views, fetched, count, faults, stale, mixed>>

Listed(ls) == known' = ls /\ todo' = Coll /\ pc' = "walk"

Answer == IF cLists = None THEN lists ELSE cLists

Asks == svc = "tmdb" => account

\* Without an account there are no lists to find.
NoAccount ==
  /\ pc = "lists" /\ ~ Asks /\ Listed({})
  /\ UNCHANGED <<db, service, cache, run, pair, views, fetched, count, faults, stale, mixed>>

\* Variant that drops a list unless its page is cached.
GetListsDropping ==
  /\ pc = "lists" /\ Asks
  /\ Listed({p \in Answer : p[1] \in cAlive})
  /\ cAlive' = IF svc = "tmdb" THEN cAlive \cup {p[1] : p \in Answer} ELSE cAlive
  /\ cLists' = Answer /\ stale' = (stale \/ cLists # None)
  /\ UNCHANGED <<db, service, cItems, run, pair, views, fetched, count, faults, mixed>>

\* The answer comes from the session's cache, or is kept there.  TMDB drops the
\* lists that are known to be gone.
GetLists ==
  /\ pc = "lists" /\ Asks
  /\ LET gone == {p \in Answer : svc = "tmdb" /\ ~ Alive(p[1]) /\ p[1] \notin cAlive}
     IN  /\ Listed(Answer \ gone)
         /\ cAlive' = IF svc = "tmdb" THEN cAlive \cup {p[1] : p \in Answer \ gone} ELSE cAlive
  /\ cLists' = Answer /\ stale' = (stale \/ cLists # None)
  /\ UNCHANGED <<db, service, cItems, run, pair, views, fetched, count, faults, mixed>>

\* Trakt takes an answer other than 200 for no lists; TMDB may get a part of
\* them, and keeps a list when it cannot find out that it is gone.
GetListsFails ==
  /\ pc = "lists" /\ Asks /\ (svc = "trakt" => cLists = None)
  /\ \E ls \in IF svc = "tmdb" THEN SUBSET Answer ELSE {{}} : Listed(ls)
  /\ faults' = TRUE
  /\ UNCHANGED <<db, service, cache, run, pair, views, fetched, count, stale, mixed>>

\* With the process goes all it knew, and what it has not committed.
Exit == /\ pc' = "idle" /\ spam' = FALSE
        /\ known' = {} /\ todo' = {} /\ coll' = None /\ cur' = None
        /\ there' = {} /\ here' = {} /\ left' = {} /\ pend' = {}

\* Trakt: the third attempt fails too and nobody catches the exception.
Crash ==
  /\ pc \in {"lists", "walk", "items", "push"} /\ svc = "trakt" /\ Exit
  /\ faults' = TRUE
  /\ UNCHANGED <<db, service, cache, run, edits, stale, mixed>>

Finish ==
  /\ pc = "walk" /\ todo = {} /\ Exit
  /\ UNCHANGED <<db, service, cache, run, edits, faults, stale, mixed>>

-----------------------------------------------------------------------------
(* The list of a collection.                                               *)

Use(c, l) == /\ todo' = todo \ {c} /\ coll' = c /\ cur' = l
             /\ pc' = IF svc = "tmdb" THEN "local" ELSE "items"

Skip(c) == todo' = todo \ {c} /\ UNCHANGED <<pc, pair>>

\* Variant that remembers the list's name in place of its id.
MatchListByName ==
  /\ pc = "walk"
  /\ \E c \in todo : /\ bound[c] = None
                     /\ \E l \in Suiting(known, c) : Use(c, l) /\ bound' = [bound EXCEPT ![c] = c]
  /\ UNCHANGED <<local, service, cache, run, known, views, fetched, count, faults, stale, mixed>>

\* The first list that suits; it need not be the one of that very name.
MatchList ==
  /\ pc = "walk"
  /\ \E c \in todo : /\ bound[c] = None
                     /\ \E l \in Suiting(known, c) :
                          /\ Use(c, l)
                          /\ bound' = IF svc = "tmdb" THEN [bound EXCEPT ![c] = l] ELSE bound
  /\ UNCHANGED <<local, service, cache, run, known, views, fetched, count, faults, stale, mixed>>

\* The service gives a list an id nobody has heard of.
New(l) == /\ ~ Alive(l) /\ In(remote, l) = {} /\ l \notin cAlive /\ cItems[l] = None
          /\ \A c \in Coll : bound[c] # l
          /\ \A n \in Name : <<l, n>> \notin known \cup Answer

\* Trakt appends the list to those it knows, TMDB writes its id to app_state.
CreateList ==
  /\ pc = "walk"
  /\ \E c \in todo, l \in ListId :
       /\ bound[c] = None /\ Suiting(known, c) = {} /\ ~ (svc = "tmdb" /\ spam)
       /\ New(l)
       /\ lists' = lists \cup {<<l, c>>}
       /\ Use(c, l)
       /\ IF svc = "tmdb" THEN bound' = [bound EXCEPT ![c] = l] /\ UNCHANGED known
                          ELSE known' = known \cup {<<l, c>>} /\ UNCHANGED bound
  /\ UNCHANGED <<local, remote, cache, run, views, fetched, count, faults, stale, mixed>>

\* No list, no sync; TMDB's spam filter ends all creation of this run.
CreateFails ==
  /\ pc = "walk"
  /\ \E c \in todo : bound[c] = None /\ Suiting(known, c) = {} /\ Skip(c)
  /\ \/ UNCHANGED spam
     \/ svc = "tmdb" /\ spam' = TRUE
  /\ faults' = TRUE
  /\ UNCHANGED <<db, service, cache, run, known, views, fetched, edits, stale, mixed>>

\* TMDB: is_list_alive believes a cached answer and takes no answer for alive.
UseBound ==
  /\ pc = "walk"
  /\ \E c \in todo : LET l == bound[c] IN
       /\ l # None /\ Use(c, l)
       /\ \/ Alive(l) /\ l \notin cAlive /\ cAlive' = cAlive \cup {l} /\ UNCHANGED <<faults, stale>>
          \/ l \in cAlive /\ stale' = TRUE /\ UNCHANGED <<cAlive, faults>>
          \/ faults' = TRUE /\ UNCHANGED <<cAlive, stale>>
  /\ UNCHANGED <<db, service, cLists, cItems, run, known, views, fetched, count, mixed>>

\* Variant that takes a list it cannot reach for deleted.
UnbindUnreachable ==
  /\ pc = "walk"
  /\ \E c \in todo : bound[c] # None /\ bound' = [bound EXCEPT ![c] = None]
  /\ faults' = TRUE
  /\ UNCHANGED <<local, service, cache, run, pc, known, todo, pair, views, fetched, count, stale, mixed>>

Unbind ==
  /\ pc = "walk"
  /\ \E c \in todo : /\ bound[c] # None /\ ~ Alive(bound[c]) /\ bound[c] \notin cAlive
                     /\ bound' = [bound EXCEPT ![c] = None]
  /\ UNCHANGED <<local, service, cache, run, pc, known, todo, pair, views, fetched, count, faults, stale, mixed>>

-----------------------------------------------------------------------------
(* What the two sides hold.  Trakt reads the list first, TMDB the          *)
(* collection, whose members it looks up one by one.                       *)

After == IF svc = "tmdb" THEN "push" ELSE "local"

GetItems ==
  /\ pc = "items"
  /\ IF cItems[cur] = None
     THEN /\ there' = In(remote, cur)
          /\ cItems' = IF Alive(cur) THEN [cItems EXCEPT ![cur] = there'] ELSE cItems
          /\ UNCHANGED stale
     ELSE there' = cItems[cur] /\ stale' = TRUE /\ UNCHANGED cItems
  /\ pc' = After
  /\ UNCHANGED <<db, service, cLists, cAlive, run, known, todo, pair, here, fetched, count, faults, mixed>>

\* A list that could not be read is taken for an empty or a shorter one.
GetItemsFails ==
  /\ pc = "items" /\ cItems[cur] = None
  /\ there' \in IF svc = "tmdb" THEN SUBSET In(remote, cur) ELSE {{}}
  /\ pc' = After /\ faults' = TRUE
  /\ UNCHANGED <<db, service, cache, run, known, todo, pair, here, fetched, count, stale, mixed>>

\* The members and what the service is asked to hold for them: a card without an
\* id is searched for by name and year.
ReadLocal ==
  /\ pc = "local"
  /\ \E id \in [In(local, coll) -> Title] :
       /\ \A r \in In(local, coll) : id[r] \in Lookalikes(r)
       /\ here' = {id[r] : r \in In(local, coll)} /\ Mixing(id)
  /\ pc' = IF svc = "tmdb" THEN "items" ELSE "pull"
  /\ UNCHANGED <<db, service, cache, run, known, todo, pair, there, fetched, count, faults, stale>>

-----------------------------------------------------------------------------
(* Trakt pulls, pushes and commits; TMDB pushes and pulls item by item.    *)

\* Where a card is made for a title while one of its name exists, the insert is
\* ignored, and the rowid given is that of an earlier insert of this run: of any
\* card or of none.
Rowids == IF Cardinality(there) > 1 \/ todo # Coll \ {coll} THEN Title \cup {None} ELSE {}

PullAll ==
  /\ pc = "pull" /\ svc = "trakt"
  /\ \E card \in [there -> Title \cup {None}] :
       /\ \A t \in there : card[t] \in Lookalikes(t) \cup Rowids
       /\ pend' = {card[t] : t \in there} \ (here \cup {None}) /\ Mixing(card)
  /\ pc' = "push"
  /\ UNCHANGED <<db, service, cache, run, known, todo, pair, views, left, count, faults, stale>>

\* Titles nothing is found for are left out; a push that fails is not noticed.
Push ==
  /\ pc = "push"
  /\ \E S \in SUBSET (here \ there) :
       /\ remote' = IF Alive(cur) THEN remote \cup ({cur} \X S) ELSE remote
       /\ faults' = (faults \/ S # here \ there)
  /\ IF svc = "tmdb" THEN pc' = "pull" /\ left' = there \ here
                     ELSE pc' = "commit" /\ UNCHANGED left
  /\ UNCHANGED <<db, lists, cache, run, known, todo, pair, views, pend, count, stale, mixed>>

\* Variant that closes the connection without a commit.
CommitNothing ==
  /\ pc = "commit"
  /\ pend' = {} /\ pc' = "walk"
  /\ UNCHANGED <<db, service, cache, run, known, todo, pair, views, left, count, faults, stale, mixed>>

\* Variant that makes the collection equal to the list.
CommitMirroring ==
  /\ pc = "commit"
  /\ local' = {p \in local : p[1] # coll} \cup ({coll} \X there) /\ pend' = {}
  /\ pc' = "walk"
  /\ UNCHANGED <<bound, service, cache, run, known, todo, pair, views, left, count, faults, stale, mixed>>

Commit ==
  /\ pc = "commit"
  /\ local' = local \cup ({coll} \X pend) /\ pend' = {}
  /\ pc' = "walk"
  /\ UNCHANGED <<bound, service, cache, run, known, todo, pair, views, left, count, faults, stale, mixed>>

PullOne ==
  /\ pc = "pull" /\ svc = "tmdb"
  /\ \E t \in left :
       /\ left' = left \ {t}
       /\ \/ \E r \in Lookalikes(t) : /\ local' = local \cup {<<coll, r>>}
                                      /\ mixed' = (mixed \/ r # t) /\ UNCHANGED faults
          \/ faults' = TRUE /\ UNCHANGED <<local, mixed>>   \* no card could be made
  /\ UNCHANGED <<bound, service, cache, run, pc, known, todo, pair, views, pend, count, stale>>

PulledAll ==
  /\ pc = "pull" /\ svc = "tmdb" /\ left = {}
  /\ pc' = "walk"
  /\ UNCHANGED <<db, service, cache, run, known, todo, pair, views, fetched, count, faults, stale, mixed>>

-----------------------------------------------------------------------------
(* Everybody else.                                                         *)

Edited == /\ edits < MaxEdits /\ edits' = edits + 1 /\ faults' = TRUE
          /\ UNCHANGED <<bound, cache, run, pc, known, todo, pair, views, fetched, spam, stale, mixed>>

\* A request's write waits for the script's transaction.
ToggleMember ==
  /\ Edited /\ pend = {}
  /\ \E p \in Coll \X Title : local' = IF p \in local THEN local \ {p} ELSE local \cup {p}
  /\ UNCHANGED service

ServiceEdit ==
  /\ Edited
  /\ \E l \in ListId, t \in Title :
       /\ Alive(l)
       /\ remote' = IF <<l, t>> \in remote THEN remote \ {<<l, t>>} ELSE remote \cup {<<l, t>>}
  /\ UNCHANGED <<local, lists>>

DeleteList ==
  /\ Edited
  /\ \E p \in lists : lists' = lists \ {p} /\ remote' = {q \in remote : q[1] # p[1]}
  /\ UNCHANGED local

CacheExpires ==
  /\ \/ cLists # None /\ cLists' = None /\ UNCHANGED <<cItems, cAlive>>
     \/ \E l \in ListId : /\ cItems[l] # None /\ cItems' = [cItems EXCEPT ![l] = None]
                          /\ UNCHANGED <<cLists, cAlive>>
     \/ \E l \in cAlive : cAlive' = cAlive \ {l} /\ UNCHANGED <<cLists, cItems>>
  /\ UNCHANGED <<db, service, run, pc, known, todo, pair, views, fetched, count, faults, stale, mixed>>

-----------------------------------------------------------------------------
Script == \/ Start \/ NoAccount \/ GetLists \/ GetListsFails \/ Crash \/ Finish
          \/ MatchList \/ CreateList \/ CreateFails \/ UseBound \/ Unbind
          \/ GetItems \/ GetItemsFails \/ ReadLocal
          \/ PullAll \/ Push \/ Commit \/ PullOne \/ PulledAll

Next == Script \/ ToggleMember \/ ServiceEdit \/ DeleteList \/ CacheExpires

Spec == Init /\ [][Next]_vars

-----------------------------------------------------------------------------
TypeOK ==
  /\ local \in SUBSET (Coll \X Title) /\ remote \in SUBSET (ListId \X Title)
  /\ bound \in [Coll -> ListId \cup {None}] /\ lists \in SUBSET (ListId \X Name)
  /\ cLists \in (SUBSET (ListId \X Name)) \cup {None}
  /\ cItems \in [ListId -> (SUBSET Title) \cup {None}]
  /\ cAlive \in SUBSET ListId
  /\ account \in BOOLEAN /\ svc \in Service /\ runs \in 0..MaxRuns
  /\ pc \in {"idle", "lists", "walk", "items", "local", "pull", "push", "commit"}
  /\ known \in SUBSET (ListId \X Name) /\ todo \in SUBSET Coll
  /\ coll \in Coll \cup {None} /\ cur \in ListId \cup {None}
  /\ there \in SUBSET Title /\ here \in SUBSET Title
  /\ left \in SUBSET Title /\ pend \in SUBSET Title
  /\ spam \in BOOLEAN /\ edits \in 0..MaxEdits
  /\ faults \in BOOLEAN /\ stale \in BOOLEAN /\ mixed \in BOOLEAN

(* Neither side gains a member that the sync was not shown on the other,   *)
(* and neither loses one to the sync.  A card taken for another film's is  *)
(* copied for that film, and only it.                                      *)
Union == INSTANCE UnionSync WITH Name <- Name \cup ListId, NoPair <- None,
                                 visible <- remote \cup Cached
OnlyCopies == Union!Spec

(* No list suits another collection as well. *)
Alone(c) == \A d \in Coll \ {c} : Suiting(lists, c) \cap Suiting(lists, d) = {}

(* After runs in which nothing failed or was edited, no answer was a       *)
(* cached one and no card was taken for another film's, a list that suits  *)
(* a collection holds all its members; and no others, unless it suits      *)
(* another collection, which may have filled it later.                     *)
BothSidesEqual ==
  (pc = "idle" /\ runs > 0 /\ ~ faults /\ ~ stale /\ ~ mixed) =>
    \A c \in Coll : \E l \in Suiting(lists, c) :
      /\ In(local, c) \subseteq In(remote, l)
      /\ Alone(c) => In(remote, l) \subseteq In(local, c)

(* TMDB: a collection keeps its list as long as the list exists, whatever  *)
(* the service answers or fails to answer.                                 *)
BindingKept ==
  [][\A c \in Coll : (bound[c] # None /\ bound'[c] # bound[c]) => ~ Alive(bound[c])]_vars

(* Runs in which no request fails never make a list for a collection when  *)
(* one of its name exists, whatever is cached.                             *)
OneListEach == ~ faults => \A c \in Coll : Cardinality(Named(lists, c)) <= 1

(* It holds for TMDB, which remembers the list it made, where the account  *)
(* is known: without one every run that remembers no list makes it.        *)
OneTmdbListEach == (svc = "tmdb" /\ account) => OneListEach
=============================================================================

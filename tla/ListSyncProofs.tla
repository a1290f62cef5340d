--------------------------- MODULE ListSyncProofs ---------------------------
(***************************************************************************)
(* The syncs with lists keep their types and implement UnionSync; when     *)
(* nothing fails TMDB's makes one list for a collection; and when, besides,*)
(* no answer is cached and no card taken for another film's, both leave    *)
(* the two sides equal: for any collections, lists, titles and numbers of  *)
(* runs and edits.                                                         *)
(***************************************************************************)
EXTENDS ListSync, FiniteSetTheorems, TLAPS

InPair == pc \in {"items", "local", "pull", "push", "commit"}

\* What is pulled are cards taken for titles that were read in the list.
PendRead ==
  \E S \in SUBSET there : \E card \in [S -> Title] :
    /\ mixed \/ \A t \in S : card[t] = t
    /\ pend = {card[t] : t \in S}

\* The script works on a list and a collection; what it pulls it has read.
Working ==
  /\ InPair => coll \in Coll /\ cur \in ListId
  /\ pc = "commit" => svc = "trakt"
  /\ (svc = "trakt" /\ pc \in {"push", "commit"}) => PendRead
  /\ (svc = "tmdb" /\ pc = "pull") => left \subseteq there

\* A collection without a remembered list has all its lists among ls.
Covers(ls) == \A c \in Coll : bound[c] = None => Named(lists, c) \subseteq Named(ls, c)

OneToOne == \A c \in Coll : \A l, m \in Named(lists, c) : l = m

\* The lists are those that were there or that the sync remembers: it finds the
\* list it made, through a cached answer too.
ListsFound ==
  /\ OneToOne
  /\ pc \notin {"idle", "lists"} => Covers(known)
  /\ cLists # None => Covers(cLists)

ListsKnown ==
  ~ faults => /\ \A c \in Coll : bound[c] # None => bound[c] \in Suiting(lists, c)
              /\ known \subseteq lists
              /\ cLists # None => cLists \subseteq lists
              /\ (svc = "tmdb" /\ account) => ListsFound

Holds(c, l) == /\ In(local, c) \subseteq In(remote, l)
               /\ Alone(c) => In(remote, l) \subseteq In(local, c)
Kept(c)     == \E l \in Suiting(lists, c) : Holds(c, l)

LookedThere == IF svc = "tmdb" THEN pc = "push" ELSE pc \in {"local", "pull", "push"}
LookedHere  == IF svc = "tmdb" THEN pc \in {"items", "push"} ELSE pc \in {"pull", "push", "commit"}

\* Nothing failed, every answer came from the service, every card is its title's.
Quiet == ~ faults /\ ~ stale /\ ~ mixed

\* The collections visited agree with their lists, and what the script goes by
\* with the one it is at is so.
SidesKnown ==
  Quiet =>
    /\ (pc = "idle" /\ runs > 0) => todo = {}
    /\ (pc \notin {"idle", "lists"} \/ (pc = "idle" /\ runs > 0)) =>
         \A c \in Coll \ todo : Kept(c) \/ (InPair /\ c = coll)
    /\ InPair => coll \notin todo /\ cur \in Suiting(lists, coll)
    /\ LookedThere => there = In(remote, cur)
    /\ LookedHere => here = In(local, coll)
    /\ (svc = "trakt" /\ pc \in {"push", "commit"}) => pend = there \ here
    /\ pc = "commit" => In(remote, cur) = there \cup here
    /\ (svc = "tmdb" /\ pc = "pull") => /\ In(remote, cur) = there \cup here
                                       /\ In(local, coll) \cup left = there \cup here

IInv == TypeOK /\ Working /\ ListsKnown /\ SidesKnown

-----------------------------------------------------------------------------
(* Types *)

\* Steps that change neither a binding nor what was cached of members.
LEMMA PlainTypes ==
  ASSUME TypeOK, Working,
         Start \/ NoAccount \/ GetLists \/ GetListsFails \/ Crash \/ Finish \/ CreateFails
           \/ GetItemsFails \/ ReadLocal \/ PullAll \/ Push \/ Commit \/ PullOne \/ PulledAll
  PROVE  TypeOK'
<1> USE DEF TypeOK, db, service, cache, run, pair, views, fetched, count
<1>1. CASE Start
  <2>1. runs' \in 0..MaxRuns
    BY <1>1, ListSyncAssumption DEF Start
  <2> QED
    BY <1>1, <2>1 DEF Start
<1>2. CASE GetLists
  <2>1. Answer \in SUBSET (ListId \X Name)
    BY <1>2 DEF Answer
  <2>2. cAlive' \in SUBSET ListId
    BY <1>2, <2>1 DEF GetLists
  <2>3. known' \in SUBSET (ListId \X Name) /\ todo' = Coll /\ pc' = "walk" /\ cLists' = Answer
    BY <1>2, <2>1 DEF GetLists, Listed
  <2> QED
    BY <1>2, <2>1, <2>2, <2>3 DEF GetLists
<1>3. CASE GetListsFails
  <2>1. Answer \in SUBSET (ListId \X Name)
    BY <1>3 DEF Answer
  <2>2. known' \in SUBSET (ListId \X Name) /\ todo' = Coll /\ pc' = "walk"
    BY <1>3, <2>1 DEF GetListsFails, Listed
  <2> QED
    BY <1>3, <2>2 DEF GetListsFails
<1>4. CASE Crash \/ Finish \/ NoAccount
  BY <1>4 DEF Crash, Finish, NoAccount, Listed, Exit
<1>5. CASE CreateFails
  BY <1>5 DEF CreateFails, Skip
<1>6. CASE GetItemsFails
  BY <1>6 DEF GetItemsFails, After, In
<1>7. CASE ReadLocal
  <2>1. PICK id \in [In(local, coll) -> Title] :
          here' = {id[r] : r \in In(local, coll)} /\ Mixing(id)
    BY <1>7 DEF ReadLocal
  <2>2. here' \in SUBSET Title /\ mixed' \in BOOLEAN
    BY <2>1 DEF Mixing
  <2> QED
    BY <1>7, <2>2 DEF ReadLocal
<1>8. CASE PullAll
  <2>1. PICK card \in [there -> Title \cup {None}] :
          pend' = {card[t] : t \in there} \ (here \cup {None}) /\ Mixing(card)
    BY <1>8 DEF PullAll
  <2>2. pend' \in SUBSET Title /\ mixed' \in BOOLEAN
    BY <2>1 DEF Mixing
  <2> QED
    BY <1>8, <2>2 DEF PullAll
<1>9. CASE Push
  <2>1. pc' \in {"pull", "commit"} /\ left' \in SUBSET Title /\ faults' \in BOOLEAN
    BY <1>9 DEF Push
  <2>2. remote' \in SUBSET (ListId \X Title)
    BY <1>9 DEF Push, Working, InPair
  <2> QED
    BY <1>9, <2>1, <2>2 DEF Push
<1>10. CASE Commit
  BY <1>10 DEF Commit, Working, InPair
<1>11. CASE PullOne
  <2>0. PICK t \in left :
          /\ left' = left \ {t}
          /\ \/ \E r \in Lookalikes(t) : /\ local' = local \cup {<<coll, r>>}
                                         /\ mixed' = (mixed \/ r # t) /\ UNCHANGED faults
             \/ faults' = TRUE /\ UNCHANGED <<local, mixed>>
    BY <1>11 DEF PullOne
  <2>1. coll \in Coll /\ Lookalikes(t) \subseteq Title
    BY <1>11 DEF PullOne, Working, InPair, Lookalikes
  <2>2. local' \in SUBSET (Coll \X Title)
    BY <2>0, <2>1
  <2>4. faults' \in BOOLEAN
    BY <2>0
  <2>5. mixed' \in BOOLEAN
    BY <2>0
  <2>3. left' \in SUBSET Title
    BY <2>0
  <2> QED
    BY <1>11, <2>2, <2>3, <2>4, <2>5 DEF PullOne
<1>12. CASE PulledAll
  BY <1>12 DEF PulledAll
<1> QED
  BY <1>1, <1>2, <1>3, <1>4, <1>5, <1>6, <1>7, <1>8, <1>9, <1>10, <1>11, <1>12

LEMMA ListTypes ==
  ASSUME TypeOK, Working, MatchList \/ CreateList \/ UseBound \/ Unbind \/ GetItems
  PROVE  TypeOK'
<1> USE DEF TypeOK, db, service, cache, run, pair, views, fetched, count
<1>1. CASE MatchList
  <2>1. PICK c \in todo, l \in ListId :
          Use(c, l) /\ (bound' = [bound EXCEPT ![c] = l] \/ UNCHANGED bound)
    BY <1>1 DEF MatchList, Suiting
  <2>2. bound' \in [Coll -> ListId \cup {None}]
    BY <2>1
  <2> QED
    BY <1>1, <2>1, <2>2 DEF MatchList, Use
<1>2. CASE CreateList
  <2>1. PICK c \in todo, l \in ListId :
          /\ Use(c, l) /\ lists' = lists \cup {<<l, c>>}
          /\ bound' = [bound EXCEPT ![c] = l] \/ UNCHANGED bound
          /\ known' = known \cup {<<l, c>>} \/ UNCHANGED known
    BY <1>2 DEF CreateList
  <2>2. bound' \in [Coll -> ListId \cup {None}]
    BY <2>1
  <2>3. known' \in SUBSET (ListId \X Name) /\ lists' \in SUBSET (ListId \X Name)
    BY <2>1, CollectionsAreNamed
  <2> QED
    BY <1>2, <2>1, <2>2, <2>3 DEF CreateList, Use
<1>3. CASE UseBound
  <2>1. PICK c \in todo : /\ bound[c] # None /\ Use(c, bound[c])
                          /\ cAlive' \subseteq cAlive \cup {bound[c]}
                          /\ faults' \in BOOLEAN /\ stale' \in BOOLEAN
    BY <1>3 DEF UseBound
  <2>2. bound[c] \in ListId
    BY <2>1
  <2> QED
    BY <1>3, <2>1, <2>2 DEF UseBound, Use
<1>4. CASE Unbind
  <2>1. PICK c \in todo : bound' = [bound EXCEPT ![c] = None]
    BY <1>4 DEF Unbind
  <2>2. bound' \in [Coll -> ListId \cup {None}]
    BY <2>1
  <2> QED
    BY <1>4, <2>2 DEF Unbind
<1>5. CASE GetItems
  <2>1. cur \in ListId
    BY <1>5 DEF GetItems, Working, InPair
  <2>2. there' \in SUBSET Title
    BY <1>5, <2>1 DEF GetItems, In
  <2>3. cItems' \in [ListId -> (SUBSET Title) \cup {None}] /\ stale' \in BOOLEAN
    BY <1>5, <2>1, <2>2 DEF GetItems
  <2> QED
    BY <1>5, <2>2, <2>3 DEF GetItems, After
<1> QED
  BY <1>1, <1>2, <1>3, <1>4, <1>5

Others == ToggleMember \/ ServiceEdit \/ DeleteList \/ CacheExpires

LEMMA OtherTypes == ASSUME TypeOK, Others PROVE TypeOK'
<1> USE DEF TypeOK, db, service, cache, run, pair, views, fetched, count
<1>1. CASE ToggleMember
  <2>1. local' \in SUBSET (Coll \X Title)
    BY <1>1 DEF ToggleMember
  <2> QED
    BY <1>1, <2>1, ListSyncAssumption DEF ToggleMember, Edited
<1>2. CASE ServiceEdit
  <2>1. remote' \in SUBSET (ListId \X Title)
    BY <1>2 DEF ServiceEdit
  <2> QED
    BY <1>2, <2>1, ListSyncAssumption DEF ServiceEdit, Edited
<1>3. CASE DeleteList
  BY <1>3, ListSyncAssumption DEF DeleteList, Edited
<1>4. CASE CacheExpires
  <2>1. /\ cLists' \in (SUBSET (ListId \X Name)) \cup {None}
        /\ cItems' \in [ListId -> (SUBSET Title) \cup {None}]
        /\ cAlive' \in SUBSET ListId
    BY <1>4 DEF CacheExpires
  <2> QED
    BY <1>4, <2>1 DEF CacheExpires
<1> QED
  BY <1>1, <1>2, <1>3, <1>4 DEF Others

-----------------------------------------------------------------------------
(* What the script works on *)

LEMMA Works == ASSUME TypeOK, Working, Next PROVE Working'
<1> USE DEF Working, InPair, db, service, cache, run, pair, views, fetched, count
<1>1. CASE Start \/ NoAccount \/ GetLists \/ GetListsFails \/ Finish \/ Crash
             \/ CreateFails \/ Unbind
  <2>1. pc' \in {"idle", "lists", "walk"}
    BY <1>1 DEF Start, NoAccount, GetLists, GetListsFails, Listed, Finish, Crash, Exit,
       CreateFails, Skip, Unbind
  <2> QED
    BY <2>1
<1>2. CASE MatchList \/ CreateList \/ UseBound
  <2>1. PICK c \in todo, l \in ListId : Use(c, l) /\ UNCHANGED svc
    BY <1>2 DEF MatchList, CreateList, UseBound, Suiting, TypeOK
  <2> QED
    BY <2>1 DEF Use, TypeOK
<1>3. CASE GetItems \/ GetItemsFails
  BY <1>3 DEF GetItems, GetItemsFails, After
<1>4. CASE ReadLocal
  BY <1>4 DEF ReadLocal
<1>5. CASE PullAll
  <2>1. PICK card \in [there -> Title \cup {None}] :
          pend' = {card[t] : t \in there} \ (here \cup {None}) /\ Mixing(card)
    BY <1>5 DEF PullAll
  <2> DEFINE S == {t \in there : card[t] \notin here \cup {None}}
             f == [t \in S |-> card[t]]
  <2>2. S \in SUBSET there' /\ f \in [S -> Title] /\ pend' = {f[t] : t \in S}
    BY <1>5, <2>1 DEF PullAll
  <2>3. mixed' \/ \A t \in S : f[t] = t
    BY <2>1 DEF Mixing
  <2>4. PendRead'
    BY <2>2, <2>3 DEF PendRead
  <2> QED
    BY <1>5, <2>4 DEF PullAll
<1>6. CASE Push
  <2>1. svc \in {"trakt", "tmdb"}
    BY ListSyncAssumption DEF TypeOK
  <2>2. PendRead => PendRead'
    BY <1>6 DEF Push, PendRead
  <2> QED
    BY <1>6, <2>1, <2>2 DEF Push
<1>7. CASE Commit \/ PullOne \/ PulledAll
  BY <1>7 DEF Commit, PullOne, PulledAll
<1>8. CASE Others
  <2>1. PendRead => PendRead'
    BY <1>8 DEF Others, ToggleMember, ServiceEdit, DeleteList, CacheExpires, Edited, PendRead
  <2> QED
    BY <1>8, <2>1 DEF Others, ToggleMember, ServiceEdit, DeleteList, CacheExpires, Edited
<1> QED
  BY <1>1, <1>2, <1>3, <1>4, <1>5, <1>6, <1>7, <1>8 DEF Next, Script, Others

LEMMA Types == ASSUME TypeOK, Working, Next PROVE TypeOK'
BY PlainTypes, ListTypes, OtherTypes DEF Next, Script, Others

-----------------------------------------------------------------------------
(* The lists of a run in which nothing fails *)

LEMMA ListsHold ==
  ASSUME ListsKnown, UNCHANGED <<bound, lists, svc, account>>, faults => faults',
         cLists' \in {cLists, None}, known' \in {known, {}},
         pc' \in {"idle", "lists"} \/ (pc \notin {"idle", "lists"} /\ UNCHANGED known)
  PROVE  ListsKnown'
<1>1. OneToOne => OneToOne'
  BY DEF OneToOne, Named
<1>2. \A ls : Covers(ls) => \A c \in Coll : bound'[c] = None => Named(lists', c) \subseteq Named(ls, c)
  BY DEF Covers
<1>3. ListsFound => ListsFound'
  BY <1>1, <1>2 DEF ListsFound, Covers
<1>4. \A c \in Coll : Suiting(lists, c)' = Suiting(lists, c)
  BY DEF Suiting, Close
<1> QED
  BY <1>3, <1>4 DEF ListsKnown

LEMMA FaultsFree == ASSUME faults' = TRUE PROVE ListsKnown' /\ SidesKnown'
BY DEF ListsKnown, SidesKnown, Quiet

\* More lists suit more.
LEMMA SuitingGrows ==
  ASSUME NEW ls, NEW ms, ls \subseteq ms, NEW c
  PROVE  Suiting(ls, c) \subseteq Suiting(ms, c)
BY DEF Suiting

LEMMA ListsRead == ASSUME TypeOK, ListsKnown, GetLists PROVE ListsKnown'
<1> SUFFICES ASSUME ~ faults' PROVE ListsKnown'
  BY DEF ListsKnown
<1>0. ~ faults /\ UNCHANGED <<lists, bound, svc, account>>
  BY DEF GetLists, db, service, run
<1>1. Answer \subseteq lists /\ (svc = "tmdb" => account)
  BY <1>0 DEF Answer, ListsKnown, GetLists, Asks
<1>2. {p \in Answer : svc = "tmdb" /\ ~ Alive(p[1]) /\ p[1] \notin cAlive} = {}
  <2> SUFFICES ASSUME NEW p \in Answer PROVE Alive(p[1])
    OBVIOUS
  <2>1. p \in lists /\ p \in ListId \X Name
    BY <1>1 DEF TypeOK
  <2>2. p = <<p[1], p[2]>> /\ p[2] \in Name
    BY <2>1
  <2> QED
    BY <2>1, <2>2 DEF Alive
<1>3. known' = Answer /\ cLists' = Answer
  BY <1>2 DEF GetLists, Listed
<1>4. ASSUME svc = "tmdb" PROVE ListsFound'
  <2>1. ListsFound
    BY <1>0, <1>1, <1>4 DEF ListsKnown
  <2>2. Covers(Answer)
    BY <2>1 DEF ListsFound, Answer, Covers
  <2>3. \A c \in Coll : bound'[c] = None => Named(lists', c) \subseteq Named(Answer, c)
    BY <1>0, <2>2 DEF Covers
  <2>4. Covers(known)' /\ Covers(cLists)'
    BY <1>3, <2>3 DEF Covers
  <2> QED
    BY <1>0, <2>1, <2>4 DEF ListsFound, OneToOne, Named
<1>5. \A c \in Coll : bound'[c] # None => bound'[c] \in Suiting(lists, c)'
  BY <1>0 DEF ListsKnown, Suiting, Close
<1> QED
  BY <1>0, <1>1, <1>3, <1>4, <1>5 DEF ListsKnown

LEMMA NoLists == ASSUME TypeOK, ListsKnown, NoAccount PROVE ListsKnown'
<1>1. /\ UNCHANGED <<lists, bound, svc, account, cLists, faults>> /\ known' = {}
      /\ svc = "tmdb" /\ ~ account
  BY DEF NoAccount, Listed, Asks, db, service, cache, run
<1>2. \A c \in Coll : Suiting(lists, c)' = Suiting(lists, c)
  BY <1>1 DEF Suiting, Close
<1> QED
  BY <1>1, <1>2 DEF ListsKnown

LEMMA ListMatched == ASSUME TypeOK, ListsKnown, MatchList PROVE ListsKnown'
<1> SUFFICES ASSUME ~ faults' PROVE ListsKnown'
  BY DEF ListsKnown
<1>0. ~ faults /\ UNCHANGED <<lists, known, svc, account, cLists>> /\ pc = "walk"
  BY DEF MatchList, service, cache, run
<1>1. PICK c \in todo : \E l \in Suiting(known, c) :
        bound' = IF svc = "tmdb" THEN [bound EXCEPT ![c] = l] ELSE bound
  BY DEF MatchList
<1>2. PICK l \in Suiting(known, c) :
        bound' = IF svc = "tmdb" THEN [bound EXCEPT ![c] = l] ELSE bound
  BY <1>1
<1>3. c \in Coll /\ l \in ListId /\ l \in Suiting(lists, c) /\ l # None
  BY <1>0, <1>1, SuitingGrows, NoneIsNone DEF TypeOK, Suiting, ListsKnown
<1>4. \A d \in Coll : bound'[d] = bound[d] \/ (d = c /\ bound'[d] = l)
  BY <1>2, <1>3 DEF TypeOK
<1>5. \A d \in Coll : bound'[d] = None => bound[d] = None
  BY <1>3, <1>4
<1>6. \A d \in Coll : bound'[d] # None => bound'[d] \in Suiting(lists, d)
  BY <1>0, <1>3, <1>4 DEF ListsKnown
<1>7. \A d \in Coll : Suiting(lists, d)' = Suiting(lists, d)
  BY <1>0 DEF Suiting, Close
<1>8. \A ls : Covers(ls) => \A d \in Coll : bound'[d] = None => Named(lists', d) \subseteq Named(ls, d)
  BY <1>0, <1>5 DEF Covers
<1>9. ListsFound => ListsFound'
  BY <1>0, <1>8 DEF ListsFound, OneToOne, Named, Covers
<1> QED
  BY <1>0, <1>6, <1>7, <1>9 DEF ListsKnown

LEMMA ListCreated == ASSUME TypeOK, ListsKnown, CreateList PROVE ListsKnown'
<1> SUFFICES ASSUME ~ faults' PROVE ListsKnown'
  BY DEF ListsKnown
<1>0. /\ ~ faults /\ UNCHANGED <<svc, account, cLists>> /\ pc = "walk"
      /\ known \subseteq lists /\ (cLists # None => cLists \subseteq lists)
      /\ \A c \in Coll : bound[c] # None => bound[c] \in Suiting(lists, c)
  BY DEF CreateList, cache, run, ListsKnown
<1>1. PICK c \in todo, l \in ListId :
        /\ bound[c] = None /\ Suiting(known, c) = {}
        /\ lists' = lists \cup {<<l, c>>}
        /\ IF svc = "tmdb" THEN bound' = [bound EXCEPT ![c] = l] /\ UNCHANGED known
                           ELSE known' = known \cup {<<l, c>>} /\ UNCHANGED bound
  BY DEF CreateList
<1>2. c \in Coll /\ c \in Name /\ l # None
  BY <1>1, CollectionsAreNamed, NoneIsNone DEF TypeOK
<1>3. \A d : Suiting(lists, d) \subseteq Suiting(lists, d)'
  BY <1>0, <1>1 DEF Suiting, Close
<1>4. l \in Suiting(lists, c)'
  BY <1>1, <1>2 DEF Suiting, Close
<1>5. \A d \in Coll : bound'[d] = bound[d] \/ (d = c /\ bound'[d] = l)
  BY <1>1, <1>2 DEF TypeOK
<1>6. \A d \in Coll : bound'[d] # None => bound'[d] \in Suiting(lists, d)'
  BY <1>0, <1>3, <1>4, <1>5
<1>7. known' \subseteq lists' /\ (cLists' # None => cLists' \subseteq lists')
  BY <1>0, <1>1
<1>8. ASSUME svc = "tmdb", account PROVE ListsFound'
  <2>1. ListsFound /\ known' = known /\ bound'[c] = l
    BY <1>0, <1>1, <1>2, <1>8 DEF ListsKnown, TypeOK
  <2>2. Named(lists, c) = {}
    <3>1. Named(known, c) = {}
      BY <1>1, <1>2 DEF Named, Suiting, Close
    <3> QED
      BY <1>0, <1>1, <1>2, <2>1, <3>1 DEF ListsFound, Covers
  <2>3. \A d \in Coll : Named(lists', d) = IF d = c THEN {l} ELSE Named(lists, d)
    BY <1>1, <2>2 DEF Named
  <2>4. OneToOne'
    BY <2>1, <2>3 DEF ListsFound, OneToOne
  <2>5. \A ls : Covers(ls) => \A d \in Coll : bound'[d] = None => Named(lists', d) \subseteq Named(ls, d)
    BY <1>2, <1>5, <2>1, <2>3 DEF Covers
  <2>6. Covers(known)' /\ (cLists' # None => Covers(cLists)')
    BY <1>0, <2>1, <2>5 DEF ListsFound, Covers
  <2> QED
    BY <2>4, <2>6 DEF ListsFound
<1> QED
  BY <1>0, <1>6, <1>7, <1>8 DEF ListsKnown

LEMMA NothingUnbound == ASSUME TypeOK, ListsKnown, ~ faults PROVE ~ Unbind
<1> SUFFICES ASSUME NEW c \in todo, bound[c] # None PROVE Alive(bound[c])
  BY DEF Unbind
<1> QED
  BY DEF ListsKnown, TypeOK, Alive, Suiting

LEMMA Lists == ASSUME TypeOK, ListsKnown, Next PROVE ListsKnown'
<1> USE DEF db, service, cache, run, pair, views, fetched, count
<1>1. CASE GetListsFails \/ Crash \/ CreateFails \/ GetItemsFails \/ ToggleMember
             \/ ServiceEdit \/ DeleteList
  BY <1>1, FaultsFree DEF GetListsFails, Crash, CreateFails, GetItemsFails, ToggleMember,
     ServiceEdit, DeleteList, Edited
<1>2. CASE GetLists \/ NoAccount
  BY <1>2, ListsRead, NoLists
<1>3. CASE MatchList
  BY <1>3, ListMatched
<1>4. CASE CreateList
  BY <1>4, ListCreated
<1>5. CASE UseBound
  <2>1. UNCHANGED <<bound, lists, known, svc, account, cLists>> /\ pc = "walk"
    BY <1>5 DEF UseBound
  <2>2. CASE UNCHANGED faults
    BY <2>1, <2>2, ListsHold
  <2>3. CASE faults' = TRUE
    BY <2>3, FaultsFree
  <2> QED
    BY <1>5, <2>2, <2>3 DEF UseBound
<1>6. CASE Unbind
  <2>1. UNCHANGED faults
    BY <1>6 DEF Unbind
  <2> QED
    BY <1>6, <2>1, NothingUnbound DEF ListsKnown
<1>7. CASE Start \/ Finish \/ GetItems \/ ReadLocal \/ PullAll \/ Push \/ Commit
             \/ PullOne \/ PulledAll \/ CacheExpires
  <2>1. UNCHANGED <<bound, lists, svc, account>> /\ cLists' \in {cLists, None}
    BY <1>7 DEF Start, Finish, GetItems, ReadLocal, PullAll, Push, Commit, PullOne,
       PulledAll, CacheExpires
  <2>2. faults => faults'
    <3>1. CASE Push
      <4>1. PICK S \in SUBSET (here \ there) : faults' = (faults \/ S # here \ there)
        BY <3>1 DEF Push
      <4> QED
        BY <4>1, Zenon
    <3>2. CASE PullOne
      BY <3>2 DEF PullOne
    <3> QED
      BY <1>7, <3>1, <3>2 DEF Start, Finish, GetItems, ReadLocal, PullAll, Commit,
         PulledAll, CacheExpires
  <2>3. /\ known' \in {known, {}}
        /\ pc' \in {"idle", "lists"} \/ (pc \notin {"idle", "lists"} /\ UNCHANGED known)
    BY <1>7 DEF Start, Finish, Exit, GetItems, ReadLocal, PullAll, Push, Commit, PullOne,
       PulledAll, CacheExpires
  <2> QED
    BY <2>1, <2>2, <2>3, ListsHold
<1> QED
  BY <1>1, <1>2, <1>3, <1>4, <1>5, <1>6, <1>7 DEF Next, Script

-----------------------------------------------------------------------------
(* What the two sides hold in a run in which nothing fails *)

\* A new list can only make a collection share one.
LEMMA KeptStays ==
  ASSUME NEW c \in Coll, Kept(c), lists \subseteq lists', UNCHANGED <<local, remote, svc>>
  PROVE  Kept(c)'
<1>1. \A d : Suiting(lists, d) \subseteq Suiting(lists, d)'
  BY DEF Suiting, Close
<1>2. Alone(c)' => Alone(c)
  BY <1>1 DEF Alone
<1>3. PICK l \in Suiting(lists, c) : Holds(c, l)
  BY DEF Kept
<1>4. Holds(c, l)'
  BY <1>2, <1>3 DEF Holds, In
<1> QED
  BY <1>1, <1>3, <1>4 DEF Kept

\* What is written for one collection may add to a list that others share, and
\* leaves alone the lists of those that share none.
LEMMA KeptElsewhere ==
  ASSUME NEW c \in Coll, c # coll, Kept(c), UNCHANGED <<lists, svc>>,
         coll \in Coll, cur \in Suiting(lists, coll),
         \A p \in local' : p \in local \/ p[1] = coll, local \subseteq local',
         \A p \in remote' : p \in remote \/ p[1] = cur, remote \subseteq remote'
  PROVE  Kept(c)'
<1>1. PICK l \in Suiting(lists, c) : Holds(c, l)
  BY DEF Kept
<1>2. In(local', c) = In(local, c) /\ In(remote, l) \subseteq In(remote', l)
  BY DEF In
<1>3. \A d : Suiting(lists, d)' = Suiting(lists, d)
  BY DEF Suiting, Close
<1>4. Alone(c)' => Alone(c)
  BY <1>3 DEF Alone
<1>5. ASSUME Alone(c) PROVE In(remote', l) = In(remote, l)
  <2>1. l # cur
    BY <1>1, <1>5 DEF Alone
  <2> QED
    BY <2>1 DEF In
<1>6. In(local, c) \subseteq In(remote', l) /\ (Alone(c) => In(remote', l) \subseteq In(local, c))
  BY <1>1, <1>2, <1>5 DEF Holds
<1>7. Holds(c, l)'
  BY <1>2, <1>4, <1>6 DEF Holds
<1> QED
  BY <1>1, <1>3, <1>7 DEF Kept

\* Steps that do not touch the members and move no pair.
LEMMA SidesHold ==
  ASSUME SidesKnown, UNCHANGED <<local, remote, coll, cur, svc, there, here, left, pend>>,
         UNCHANGED <<lists, pc, todo, runs>>,
         faults => faults', stale => stale', mixed => mixed'
  PROVE  SidesKnown'
<1> SUFFICES ASSUME Quiet' PROVE SidesKnown'
  BY DEF SidesKnown, Quiet
<1>1. Quiet
  BY DEF Quiet
<1>2. \A c \in Coll : Kept(c) => Kept(c)'
  BY KeptStays
<1>3. \A d : Suiting(lists, d)' = Suiting(lists, d)
  BY DEF Suiting, Close
<1> QED
  BY <1>1, <1>2, <1>3 DEF SidesKnown, Quiet, InPair, LookedThere, LookedHere, In

LEMMA RunSides == ASSUME SidesKnown, Start \/ NoAccount \/ GetLists \/ Finish PROVE SidesKnown'
<1> USE DEF InPair, LookedThere, LookedHere
<1>1. CASE Start
  BY <1>1 DEF Start, SidesKnown
<1>2. CASE GetLists \/ NoAccount
  BY <1>2 DEF GetLists, NoAccount, Listed, SidesKnown
<1>3. CASE Finish
  <2>1. UNCHANGED <<local, remote, lists, svc, runs, faults, stale, mixed>> /\ todo = {}
        /\ todo' = {} /\ pc = "walk" /\ pc' = "idle"
    BY <1>3 DEF Finish, Exit, db, service, run
  <2>2. Quiet => \A c \in Coll : Kept(c)
    BY <2>1 DEF SidesKnown, Quiet
  <2>3. Quiet => \A c \in Coll : Kept(c)'
    BY <2>1, <2>2, KeptStays
  <2> QED
    BY <2>1, <2>3 DEF SidesKnown, Quiet
<1> QED
  BY <1>1, <1>2, <1>3

\* A collection is taken up with a list that suits it.
LEMMA PairTaken ==
  ASSUME TypeOK, SidesKnown, Quiet, pc = "walk", NEW c \in todo, NEW l, Use(c, l),
         lists \subseteq lists', l \in Suiting(lists, c)', UNCHANGED <<local, remote, svc>>
  PROVE  SidesKnown'
<1>1. pc' = IF svc = "tmdb" THEN "local" ELSE "items"
  BY DEF Use
<1>2. todo' = todo \ {c} /\ coll' = c /\ cur' = l
  BY DEF Use
<1>3. \A d \in Coll \ todo : Kept(d)
  BY DEF SidesKnown, Quiet, InPair
<1>4. \A d \in Coll \ todo' : Kept(d)' \/ d = coll'
  BY <1>2, <1>3, KeptStays
<1>5. (cur \in Suiting(lists, coll))'
  BY <1>2
<1> QED
  BY <1>1, <1>2, <1>4, <1>5 DEF SidesKnown, Quiet, InPair, LookedThere, LookedHere

LEMMA ListSides ==
  ASSUME TypeOK, ListsKnown, SidesKnown, MatchList \/ CreateList \/ UseBound
  PROVE  SidesKnown'
<1> SUFFICES ASSUME Quiet' PROVE SidesKnown'
  BY DEF SidesKnown, Quiet
<1>1. Quiet /\ UNCHANGED <<local, remote, svc>> /\ pc = "walk"
  BY DEF Quiet, MatchList, CreateList, UseBound, TypeOK, db, service, run
<1>2. /\ known \subseteq lists
      /\ \A c \in Coll : bound[c] # None => bound[c] \in Suiting(lists, c)
  BY <1>1 DEF Quiet, ListsKnown
<1>3. \A d : lists \subseteq lists' => Suiting(lists, d) \subseteq Suiting(lists, d)'
  BY <1>1 DEF Suiting, Close
<1>4. PICK c \in todo : \E l : Use(c, l) /\ lists \subseteq lists' /\ l \in Suiting(lists, c)'
  <2>1. CASE MatchList
    <3>1. PICK c \in todo : \E l \in Suiting(known, c) : Use(c, l)
      BY <2>1 DEF MatchList
    <3>2. UNCHANGED lists /\ Suiting(known, c) \subseteq Suiting(lists, c)
      BY <1>2, <2>1, SuitingGrows DEF MatchList, service
    <3> QED
      BY <1>3, <3>1, <3>2
  <2>2. CASE CreateList
    <3>1. PICK c \in todo, l \in ListId : Use(c, l) /\ lists' = lists \cup {<<l, c>>}
      BY <2>2 DEF CreateList
    <3>2. c \in Name
      BY CollectionsAreNamed DEF TypeOK
    <3>3. l \in Suiting(lists, c)'
      BY <3>1, <3>2 DEF Suiting, Close
    <3> QED
      BY <3>1, <3>3
  <2>3. CASE UseBound
    <3>1. PICK c \in todo : bound[c] # None /\ Use(c, bound[c])
      BY <2>3 DEF UseBound
    <3>2. c \in Coll /\ UNCHANGED lists
      BY <2>3 DEF UseBound, service, TypeOK
    <3> QED
      BY <1>2, <1>3, <3>1, <3>2
  <2> QED
    BY <2>1, <2>2, <2>3
<1> QED
  BY <1>1, <1>4, PairTaken

\* What holds of the pair the script is at.
LEMMA AtPair ==
  ASSUME TypeOK, Working, SidesKnown, Quiet, InPair
  PROVE  /\ Alive(cur) /\ coll \in Coll /\ cur \in ListId
         /\ cur \in Suiting(lists, coll) /\ coll \notin todo
         /\ \A c \in Coll \ todo : Kept(c) \/ c = coll
         /\ svc \in {"trakt", "tmdb"}
<1>1. coll \in Coll /\ cur \in ListId
  BY DEF Working
<1>2. /\ cur \in Suiting(lists, coll) /\ coll \notin todo
      /\ \A c \in Coll \ todo : Kept(c) \/ c = coll
  BY DEF SidesKnown, Quiet, InPair
<1> QED
  BY <1>1, <1>2, ListSyncAssumption DEF Alive, Suiting, TypeOK

\* Where every title is taken for itself, what is looked up is what was read.
LEMMA NothingMixed ==
  ASSUME NEW S, NEW card, DOMAIN card = S, Mixing(card), ~ mixed'
  PROVE  {card[t] : t \in S} = S /\ ~ mixed
BY DEF Mixing

LEMMA LookSides ==
  ASSUME TypeOK, Working, SidesKnown, GetItems \/ ReadLocal \/ PullAll
  PROVE  SidesKnown'
<1> SUFFICES ASSUME Quiet' PROVE SidesKnown'
  BY DEF SidesKnown, Quiet
<1>1. /\ UNCHANGED <<local, remote, lists, svc, todo, pair>> /\ InPair /\ InPair' /\ pc' # "commit"
  BY DEF GetItems, ReadLocal, PullAll, After, db, service, run, InPair
<1>2. /\ ReadLocal => here' = In(local, coll) /\ ~ mixed
      /\ PullAll => pend' = there \ here /\ ~ mixed
  <2>1. ASSUME ReadLocal PROVE here' = In(local, coll) /\ ~ mixed
    <3>1. PICK id \in [In(local, coll) -> Title] :
            here' = {id[r] : r \in In(local, coll)} /\ Mixing(id)
      BY <2>1 DEF ReadLocal
    <3> QED
      BY <3>1, NothingMixed DEF Quiet
  <2>2. ASSUME PullAll PROVE pend' = there \ here /\ ~ mixed
    <3>1. PICK card \in [there -> Title \cup {None}] :
            pend' = {card[t] : t \in there} \ (here \cup {None}) /\ Mixing(card)
      BY <2>2 DEF PullAll
    <3>2. {card[t] : t \in there} = there /\ ~ mixed
      BY <3>1, NothingMixed DEF Quiet
    <3>3. None \notin there
      BY NoneIsNone DEF TypeOK
    <3> QED
      BY <3>1, <3>2, <3>3
  <2> QED
    BY <2>1, <2>2
<1>3. Quiet
  BY <1>2 DEF Quiet, GetItems, ReadLocal, PullAll, TypeOK
<1>4. /\ coll \in Coll /\ cur \in Suiting(lists, coll) /\ coll \notin todo
      /\ \A c \in Coll \ todo : Kept(c) \/ c = coll
      /\ svc \in {"trakt", "tmdb"}
  BY <1>1, <1>3, AtPair
<1>5. \A c \in Coll \ todo : Kept(c)' \/ c = coll
  BY <1>1, <1>4, KeptStays
<1>6. (pc' = "idle" /\ runs' > 0 => todo' = {}) /\ (svc' = "tmdb" => pc' # "pull")
  BY <1>1 DEF InPair, GetItems, ReadLocal, PullAll, After
<1>7. LookedThere' => there' = In(remote, cur)
  BY <1>3, <1>4 DEF GetItems, ReadLocal, PullAll, LookedThere, After, SidesKnown, Quiet, run, views
<1>8. LookedHere' => here' = In(local, coll)
  BY <1>2, <1>3, <1>4 DEF GetItems, PullAll, LookedHere, After, SidesKnown, Quiet, run, views
<1>9. (svc' = "trakt" /\ pc' \in {"push", "commit"}) => pend' = there' \ here'
  BY <1>2, <1>4 DEF GetItems, ReadLocal, PullAll, After, run, views
<1>10. (cur \in Suiting(lists, coll))'
  BY <1>1, <1>4 DEF Suiting, Close, pair
<1> QED
  BY <1>1, <1>4, <1>5, <1>6, <1>7, <1>8, <1>9, <1>10 DEF SidesKnown, pair, In, InPair

\* With nothing failing the list holds both sides' members after the push.
LEMMA PushSides ==
  ASSUME TypeOK, Working, SidesKnown, Push
  PROVE  SidesKnown'
<1> SUFFICES ASSUME Quiet' PROVE SidesKnown'
  BY DEF SidesKnown, Quiet
<1>1. PICK S \in SUBSET (here \ there) :
        /\ remote' = IF Alive(cur) THEN remote \cup ({cur} \X S) ELSE remote
        /\ faults' = (faults \/ S # here \ there)
  BY DEF Push
<1>2. /\ UNCHANGED <<local, lists, svc, todo, coll, cur, there, here, pend, stale, mixed>>
      /\ pc = "push" /\ InPair
  BY DEF Push, db, run, pair, views, cache, count, InPair
<1>3. Quiet /\ S = here \ there
  <2>1. ~ faults /\ S = here \ there
    BY <1>1, Zenon DEF Quiet
  <2> QED
    BY <1>2, <2>1 DEF Quiet
<1>4. /\ Alive(cur) /\ coll \in Coll /\ cur \in ListId
      /\ cur \in Suiting(lists, coll) /\ coll \notin todo
      /\ \A c \in Coll \ todo : Kept(c) \/ c = coll
      /\ svc \in {"trakt", "tmdb"}
  BY <1>2, <1>3, AtPair
<1>5. there = In(remote, cur) /\ here = In(local, coll) /\ (svc = "trakt" => pend = there \ here)
  BY <1>2, <1>3, <1>4 DEF SidesKnown, Quiet, LookedThere, LookedHere
<1>6. remote' = remote \cup ({cur} \X (here \ there)) /\ here \subseteq Title
  BY <1>1, <1>3, <1>4 DEF TypeOK
<1>7. In(remote', cur) = there \cup here
  BY <1>5, <1>6 DEF In
<1>8. /\ \A p \in remote' : p \in remote \/ p[1] = cur
      /\ remote \subseteq remote'
  BY <1>6
<1>9. \A c \in Coll \ todo : Kept(c)' \/ c = coll
  BY <1>2, <1>4, <1>8, KeptElsewhere
<1>10. (cur \in Suiting(lists, coll))'
  BY <1>2, <1>4 DEF Suiting, Close
<1>11. CASE svc = "tmdb"
  <2>1. pc' = "pull" /\ left' = there \ here
    BY <1>11 DEF Push
  <2> QED
    BY <1>2, <1>4, <1>5, <1>7, <1>9, <1>10, <1>11, <2>1
    DEF SidesKnown, InPair, LookedThere, LookedHere, In
<1>12. CASE svc = "trakt"
  <2>1. pc' = "commit"
    BY <1>12 DEF Push
  <2> QED
    BY <1>2, <1>4, <1>5, <1>7, <1>9, <1>10, <1>12, <2>1
    DEF SidesKnown, InPair, LookedThere, LookedHere, In
<1> QED
  BY <1>4, <1>11, <1>12

\* What is pulled goes into the collection the script is at.
LEMMA Pulled ==
  ASSUME NEW S \in SUBSET Title, local' = local \cup ({coll} \X S)
  PROVE  /\ In(local', coll) = In(local, coll) \cup S
         /\ local \subseteq local' /\ \A p \in local' : p \in local \/ p[1] = coll
<1>1. \A t \in Title : <<coll, t>> \in local' <=> <<coll, t>> \in local \/ t \in S
  OBVIOUS
<1> QED
  BY <1>1 DEF In

\* The collection the script leaves agrees with its list.
LEMMA PairLeft ==
  ASSUME TypeOK, coll \in Coll, cur \in Suiting(lists, coll), UNCHANGED <<lists, svc, coll>>,
         In(local', coll) = In(remote', cur)
  PROVE  Kept(coll)'
<1>1. \A c : Suiting(lists, c)' = Suiting(lists, c)
  BY DEF Suiting, Close
<1>2. \E l \in Suiting(lists, coll) : In(local', coll) = In(remote', l)
  OBVIOUS
<1> QED
  BY <1>1, <1>2 DEF Kept, Holds

LEMMA CommitSides ==
  ASSUME TypeOK, Working, SidesKnown, Commit
  PROVE  SidesKnown'
<1> SUFFICES ASSUME Quiet' PROVE SidesKnown'
  BY DEF SidesKnown, Quiet
<1>1. /\ UNCHANGED <<remote, lists, svc, todo, coll, cur, there, here, faults, stale, mixed>>
      /\ pc = "commit" /\ InPair /\ pc' = "walk" /\ local' = local \cup ({coll} \X pend)
  BY DEF Commit, service, run, pair, views, cache, count, InPair
<1>2. Quiet
  BY <1>1 DEF Quiet
<1>3. /\ coll \in Coll /\ cur \in Suiting(lists, coll)
      /\ \A c \in Coll \ todo : Kept(c) \/ c = coll
  BY <1>1, <1>2, AtPair
<1>4. svc = "trakt"
  BY <1>1 DEF Working
<1>5. here = In(local, coll) /\ pend = there \ here /\ In(remote, cur) = there \cup here
  BY <1>1, <1>2, <1>4 DEF SidesKnown, Quiet, LookedHere
<1>6. /\ In(local', coll) = In(local, coll) \cup pend
      /\ local \subseteq local' /\ \A p \in local' : p \in local \/ p[1] = coll
  BY <1>1, Pulled DEF TypeOK
<1>7. Kept(coll)'
  <2>1. In(local', coll) = In(remote', cur)
    BY <1>1, <1>5, <1>6
  <2> QED
    BY <1>1, <1>3, <2>1, PairLeft
<1>8. \A c \in Coll \ todo : Kept(c)'
  <2> TAKE c \in Coll \ todo
  <2>1. CASE c = coll
    BY <1>1, <1>7, <2>1 DEF Kept, Holds, Alone
  <2>2. CASE c # coll
    BY <1>1, <1>3, <1>6, <2>2, KeptElsewhere
  <2> QED
    BY <2>1, <2>2
<1> QED
  BY <1>1, <1>8 DEF SidesKnown, InPair, LookedThere, LookedHere

LEMMA PullOneSides ==
  ASSUME TypeOK, Working, SidesKnown, PullOne
  PROVE  SidesKnown'
<1> SUFFICES ASSUME Quiet' PROVE SidesKnown'
  BY DEF SidesKnown, Quiet
<1>1. /\ UNCHANGED <<remote, lists, svc, todo, coll, cur, there, here, pend, stale>>
      /\ pc = "pull" /\ pc' = "pull" /\ svc = "tmdb" /\ InPair
  BY DEF PullOne, service, run, pair, views, cache, count, InPair
<1>2. PICK t \in left : \E r \in Lookalikes(t) :
        /\ left' = left \ {t} /\ local' = local \cup {<<coll, r>>}
        /\ mixed' = (mixed \/ r # t) /\ UNCHANGED faults
  BY DEF PullOne, Quiet
<1>3. /\ left' = left \ {t} /\ local' = local \cup {<<coll, t>>}
      /\ ~ mixed /\ UNCHANGED faults
  BY <1>2 DEF Quiet
<1>4. Quiet
  BY <1>1, <1>3 DEF Quiet
<1>5. /\ coll \in Coll /\ cur \in ListId /\ cur \in Suiting(lists, coll)
      /\ coll \notin todo /\ \A c \in Coll \ todo : Kept(c) \/ c = coll
  BY <1>1, <1>4, AtPair
<1>6. In(remote, cur) = there \cup here /\ In(local, coll) \cup left = there \cup here
  BY <1>1, <1>4 DEF SidesKnown, Quiet
<1>7. /\ In(local', coll) = In(local, coll) \cup {t}
      /\ local \subseteq local' /\ \A p \in local' : p \in local \/ p[1] = coll
  <2>1. {t} \in SUBSET Title /\ local' = local \cup ({coll} \X {t})
    BY <1>3 DEF TypeOK
  <2> QED
    BY <2>1, Pulled
<1>8. In(local', coll) \cup left' = there \cup here
  BY <1>3, <1>6, <1>7
<1>9. \A c \in Coll \ todo : Kept(c)' \/ c = coll
  BY <1>1, <1>5, <1>7, KeptElsewhere
<1>10. (cur \in Suiting(lists, coll))'
  BY <1>1, <1>5 DEF Suiting, Close
<1> QED
  BY <1>1, <1>5, <1>6, <1>8, <1>9, <1>10 DEF SidesKnown, InPair, LookedThere, LookedHere, In

LEMMA PulledSides ==
  ASSUME TypeOK, Working, SidesKnown, PulledAll
  PROVE  SidesKnown'
<1> SUFFICES ASSUME Quiet' PROVE SidesKnown'
  BY DEF SidesKnown, Quiet
<1>1. /\ UNCHANGED <<local, remote, lists, svc, todo, coll, cur, faults, stale, mixed>>
      /\ pc = "pull" /\ pc' = "walk" /\ svc = "tmdb" /\ left = {} /\ InPair
  BY DEF PulledAll, db, service, run, pair, cache, count, InPair
<1>2. Quiet
  BY <1>1 DEF Quiet
<1>3. /\ coll \in Coll /\ cur \in Suiting(lists, coll)
      /\ \A c \in Coll \ todo : Kept(c) \/ c = coll
  BY <1>1, <1>2, AtPair
<1>4. In(local, coll) = In(remote, cur)
  BY <1>1, <1>2 DEF SidesKnown, Quiet
<1>5. Kept(coll)
  BY <1>3, <1>4 DEF Kept, Holds
<1>6. \A c \in Coll \ todo : Kept(c)'
  BY <1>1, <1>3, <1>5, KeptStays
<1> QED
  BY <1>1, <1>6 DEF SidesKnown, InPair, LookedThere, LookedHere

LEMMA Sides == ASSUME TypeOK, Working, ListsKnown, SidesKnown, Next PROVE SidesKnown'
<1>1. CASE GetListsFails \/ Crash \/ CreateFails \/ GetItemsFails \/ ToggleMember
             \/ ServiceEdit \/ DeleteList
  BY <1>1, FaultsFree DEF GetListsFails, Crash, CreateFails, GetItemsFails, ToggleMember,
     ServiceEdit, DeleteList, Edited
<1>2. CASE Unbind \/ CacheExpires
  BY <1>2, SidesHold
  DEF Unbind, CacheExpires, db, service, run, pair, views, fetched, count
<1>3. CASE Start \/ NoAccount \/ GetLists \/ Finish
  BY <1>3, RunSides
<1>4. CASE MatchList \/ CreateList \/ UseBound
  BY <1>4, ListSides
<1>5. CASE GetItems \/ ReadLocal \/ PullAll
  BY <1>5, LookSides
<1>6. CASE Push \/ Commit \/ PullOne \/ PulledAll
  BY <1>6, PushSides, CommitSides, PullOneSides, PulledSides
<1> QED
  BY <1>1, <1>2, <1>3, <1>4, <1>5, <1>6 DEF Next, Script

-----------------------------------------------------------------------------
LEMMA Initially == ASSUME Init PROVE IInv
<1> USE DEF Init
<1>1. TypeOK
  <2>1. lists \in SUBSET (ListId \X Name)
    OBVIOUS
  <2>2. runs \in 0..MaxRuns /\ edits \in 0..MaxEdits
    BY ListSyncAssumption
  <2> QED
    BY <2>1, <2>2 DEF TypeOK, Alive
<1>2. Working
  BY DEF Working, InPair
<1>3. OneToOne
  <2>1. PICK L \in SUBSET Name : \E id \in [L -> ListId] : lists = {<<id[n], n>> : n \in L}
    OBVIOUS
  <2>2. PICK id \in [L -> ListId] : lists = {<<id[n], n>> : n \in L}
    BY <2>1
  <2>3. \A l, n : <<l, n>> \in lists => n \in L /\ l = id[n]
    BY <2>2
  <2> QED
    BY <2>3 DEF OneToOne, Named
<1>4. ListsKnown
  BY <1>3 DEF ListsKnown, ListsFound
<1>5. SidesKnown
  BY DEF SidesKnown, InPair, LookedThere, LookedHere
<1> QED
  BY <1>1, <1>2, <1>4, <1>5 DEF IInv

LEMMA Stuttering == ASSUME IInv, UNCHANGED vars PROVE IInv'
<1> USE DEF vars, db, service, cache, run, pair, views, fetched, count
<1>0. TypeOK
  BY DEF IInv
<1>1. TypeOK'
  BY <1>0 DEF TypeOK
<1>2. Working'
  <2>1. PendRead => PendRead'
    BY DEF PendRead
  <2> QED
    BY <2>1 DEF IInv, Working, InPair
<1>3. ListsKnown'
  BY ListsHold DEF IInv
<1>4. SidesKnown'
  BY SidesHold DEF IInv
<1> QED
  BY <1>1, <1>2, <1>3, <1>4 DEF IInv

LEMMA Invariant == Spec => []IInv
<1>1. Init => IInv
  BY Initially
<1>2. IInv /\ [Next]_vars => IInv'
  BY Types, Works, Lists, Sides, Stuttering DEF IInv
<1> QED
  BY <1>1, <1>2, PTL DEF Spec

-----------------------------------------------------------------------------
(* What follows from the invariant *)

\* trakt_collections_sync.py and tmdb_sync.py: every variable keeps its type.
THEOREM ListSyncTypeCorrect == Spec => []TypeOK
<1>1. IInv => TypeOK
  BY DEF IInv
<1> QED
  BY <1>1, Invariant, PTL

\* Both scripts: after runs without a failure, an edit, a cached answer or a card
\* taken for another film's, a list that suits a collection holds all it holds, and
\* nothing else when it suits no other collection.
THEOREM RunsMakeSidesEqual == Spec => []BothSidesEqual
<1>1. IInv => BothSidesEqual
  <2> SUFFICES ASSUME IInv, pc = "idle", runs > 0, ~ faults, ~ stale, ~ mixed, NEW c \in Coll
               PROVE  Kept(c)
    BY DEF BothSidesEqual, Kept, Holds
  <2> QED
    BY DEF IInv, SidesKnown, Quiet, InPair
<1> QED
  BY <1>1, Invariant, PTL

\* tmdb_sync.py: where the account is known and nothing fails a collection has one
\* list of its name, whatever is cached: the script finds the list it made by the id
\* it remembers.
THEOREM TmdbMakesOneList == Spec => []OneTmdbListEach
<1>1. IInv => OneTmdbListEach
  <2> SUFFICES ASSUME IInv, svc = "tmdb", account, ~ faults, NEW c \in Coll
               PROVE  Cardinality(Named(lists, c)) <= 1
    BY DEF OneTmdbListEach, OneListEach
  <2>1. \A l, m \in Named(lists, c) : l = m
    BY DEF IInv, ListsKnown, ListsFound, OneToOne
  <2>2. CASE Named(lists, c) = {}
    BY <2>2, FS_EmptySet
  <2>3. CASE Named(lists, c) # {}
    <3>1. PICK l : Named(lists, c) = {l}
      BY <2>1, <2>3
    <3>2. Cardinality({l}) = 1
      BY FS_Singleton
    <3> QED
      BY <3>1, <3>2
  <2> QED
    BY <2>2, <2>3
<1> QED
  BY <1>1, Invariant, PTL

\* tmdb_sync.py: a step that changes the list a collection is bound to finds that
\* list gone.
LEMMA BindingStep ==
  ASSUME IInv, [Next]_vars, NEW c \in Coll, bound[c] # None, bound'[c] # bound[c]
  PROVE  ~ Alive(bound[c])
<1> USE DEF db, service, cache, run, pair, views, fetched, count
<1>1. CASE MatchList
  <2>1. PICK d \in todo : bound[d] = None /\ \E l : bound' = [bound EXCEPT ![d] = l] \/ UNCHANGED bound
    BY <1>1 DEF MatchList
  <2> QED
    BY <2>1 DEF IInv, TypeOK
<1>2. CASE CreateList
  <2>1. PICK d \in todo : bound[d] = None /\ \E l : bound' = [bound EXCEPT ![d] = l] \/ UNCHANGED bound
    BY <1>2 DEF CreateList
  <2> QED
    BY <2>1 DEF IInv, TypeOK
<1>3. CASE Unbind
  <2>1. PICK d \in todo : ~ Alive(bound[d]) /\ bound' = [bound EXCEPT ![d] = None]
    BY <1>3 DEF Unbind
  <2> QED
    BY <2>1 DEF IInv, TypeOK
<1>4. CASE UNCHANGED bound
  BY <1>4
<1> QED
  BY <1>1, <1>2, <1>3, <1>4
  DEF vars, Next, Script, Start, NoAccount, GetLists, GetListsFails, Crash, Finish, CreateFails, UseBound,
      GetItems, GetItemsFails, ReadLocal, PullAll, Push, Commit, PullOne, PulledAll,
      ToggleMember, ServiceEdit, DeleteList, CacheExpires, Edited

\* The same for every step of a run.
THEOREM BindingsStay == Spec => BindingKept
<1>1. IInv /\ [Next]_vars =>
        \A c \in Coll : (bound[c] # None /\ bound'[c] # bound[c]) => ~ Alive(bound[c])
  BY BindingStep
<1> QED
  BY <1>1, Invariant, PTL DEF Spec, BindingKept

-----------------------------------------------------------------------------
(* The refinement: what each step is for UnionSync *)

Mapped == [Union!Next]_(Union!vars)

LEMMA Stutters ==
  ASSUME UNCHANGED <<local, remote, Cached, cur, coll, there, here, edits, mixed>>
  PROVE  Mapped
BY DEF Mapped, Union!vars, Union!sides, Union!pair, Union!views

\* Steps that touch neither the members nor what was read of them.
Inner == \/ Start \/ NoAccount \/ GetLists \/ GetListsFails \/ CreateFails \/ Unbind \/ PulledAll

LEMMA InnerSteps == ASSUME Inner PROVE Mapped
<1>1. UNCHANGED <<local, remote, cItems, cur, coll, there, here, edits, mixed>>
  BY DEF Inner, Start, NoAccount, GetLists, GetListsFails, CreateFails, Skip, Unbind,
     PulledAll, db, service, cache, pair, views, count
<1> QED
  BY <1>1, Stutters DEF Cached

LEMMA LeavingSteps == ASSUME Crash \/ Finish PROVE Mapped
<1>1. /\ UNCHANGED <<local, remote, cItems, edits, mixed>>
      /\ cur' = None /\ coll' = None /\ there' = {} /\ here' = {}
  BY DEF Crash, Finish, Exit, db, service, cache
<1> QED
  BY <1>1 DEF Mapped, Union!Next, Union!Leave, Union!sides, Cached

LEMMA TakingSteps == ASSUME IInv, MatchList \/ CreateList \/ UseBound PROVE Mapped
<1>1. cur' \in Name \cup ListId /\ coll' \in Name \cup ListId
  BY CollectionsAreNamed
  DEF MatchList, CreateList, UseBound, Use, Suiting, IInv, TypeOK
<1>2. UNCHANGED <<local, remote, cItems, there, here, edits, mixed>>
  BY DEF MatchList, CreateList, UseBound, db, service, cache, views, count
<1> QED
  BY <1>1, <1>2 DEF Mapped, Union!Next, Union!Take, Union!sides, Union!views, Cached

\* An answer is what the list holds or what is cached of it; keeping it shows no
\* more than was shown.
LEMMA LookingSteps == ASSUME IInv, GetItems \/ GetItemsFails \/ ReadLocal PROVE Mapped
<1> USE DEF Union!Members, In
<1>1. CASE GetItems
  <2>1. cur \in ListId /\ UNCHANGED <<local, remote, cur, coll, here, edits, mixed>>
    BY <1>1 DEF GetItems, IInv, Working, InPair, db, service, pair, count
  <2>2. there' \in SUBSET Union!Members(remote \cup Cached, cur)
    BY <1>1, <2>1 DEF GetItems, Cached, IInv, TypeOK
  <2>3. remote \cup Cached' = remote \cup Cached
    <3>1. CASE UNCHANGED cItems
      BY <3>1 DEF Cached
    <3>2. CASE cItems[cur] = None /\ there' = In(remote, cur) /\ cItems' = [cItems EXCEPT ![cur] = there']
      BY <2>1, <3>2 DEF Cached, IInv, TypeOK
    <3> QED
      BY <1>1, <3>1, <3>2 DEF GetItems
  <2> QED
    BY <2>1, <2>2, <2>3 DEF Mapped, Union!Next, Union!LookThere, Union!sides, Union!pair
<1>2. CASE GetItemsFails
  <2>1. UNCHANGED <<local, remote, cItems, cur, coll, here, edits, mixed>>
    BY <1>2 DEF GetItemsFails, db, service, cache, pair, count
  <2>2. there' \in SUBSET Union!Members(remote \cup Cached, cur)
    BY <1>2 DEF GetItemsFails
  <2> QED
    BY <2>1, <2>2 DEF Mapped, Union!Next, Union!LookThere, Union!sides, Union!pair, Cached
<1>3. CASE ReadLocal
  <2>1. PICK id \in [In(local, coll) -> Title] :
          here' = {id[r] : r \in In(local, coll)} /\ Mixing(id)
    BY <1>3 DEF ReadLocal
  <2>2. id \in Union!Cards(Union!Members(local, coll)) /\ (mixed => mixed')
    BY <2>1 DEF Mixing, Union!Cards
  <2>3. UNCHANGED <<local, remote, cItems, cur, coll, there, edits>>
    BY <1>3 DEF ReadLocal, db, service, cache, pair, count
  <2> QED
    BY <2>1, <2>2, <2>3 DEF Mapped, Union!Next, Union!LookHere, Union!sides, Union!pair, Cached
<1> QED
  BY <1>1, <1>2, <1>3

\* What is pulled are cards taken for what was read of the list.
LEMMA PullingSteps == ASSUME IInv, Commit \/ PullOne PROVE Mapped
<1>1. UNCHANGED <<remote, cItems, cur, coll, there, here, edits>>
  BY DEF Commit, PullOne, service, cache, pair, views, count
<1>2. mixed => mixed'
  BY DEF Commit, PullOne
<1>3. PICK S \in SUBSET there : \E card \in Union!Cards(S) :
        local' = local \cup Union!Both(coll, {card[t] : t \in S})
  <2>1. CASE Commit
    <3>1. PICK S \in SUBSET there : \E card \in [S -> Title] :
            (mixed \/ \A t \in S : card[t] = t) /\ pend = {card[t] : t \in S}
      BY <2>1 DEF Commit, IInv, Working, PendRead
    <3> QED
      BY <1>2, <2>1, <3>1 DEF Commit, Union!Both, Union!Cards
  <2>2. CASE PullOne
    <3>1. PICK t \in left :
            \/ \E r \in Lookalikes(t) : local' = local \cup {<<coll, r>>} /\ mixed' = (mixed \/ r # t)
            \/ UNCHANGED local
      BY <2>2 DEF PullOne
    <3>2. {t} \in SUBSET there /\ t \in Title
      BY <2>2, <3>1 DEF PullOne, IInv, Working, TypeOK
    <3>3. CASE UNCHANGED local
      <4> DEFINE none == [u \in {} |-> u]
      <4>1. none \in Union!Cards({}) /\ Union!Both(coll, {none[u] : u \in {}}) = {}
        BY DEF Union!Cards, Union!Both
      <4> QED
        BY <3>3, <4>1
    <3>4. CASE \E r \in Lookalikes(t) : local' = local \cup {<<coll, r>>} /\ mixed' = (mixed \/ r # t)
      <4>1. PICK r \in Lookalikes(t) : local' = local \cup {<<coll, r>>} /\ mixed' = (mixed \/ r # t)
        BY <3>4
      <4> DEFINE card == [u \in {t} |-> r]
      <4>2. card \in Union!Cards({t})
        BY <3>2, <4>1 DEF Union!Cards, Lookalikes
      <4>3. {card[u] : u \in {t}} = {r} /\ Union!Both(coll, {r}) = {<<coll, r>>}
        BY DEF Union!Both
      <4> QED
        BY <3>2, <4>1, <4>2, <4>3
    <3> QED
      BY <3>1, <3>3, <3>4
  <2> QED
    BY <2>1, <2>2
<1> QED
  BY <1>1, <1>2, <1>3 DEF Mapped, Union!Next, Union!Pull, Union!pair, Union!views, Cached

\* Looking up cards may mistake one for another.
LEMMA MistakingSteps == ASSUME IInv, PullAll PROVE Mapped
<1>1. UNCHANGED <<local, remote, cItems, cur, coll, there, here, edits>> /\ mixed \in BOOLEAN
  BY DEF PullAll, db, service, cache, pair, views, count, IInv, TypeOK
<1>2. mixed' = mixed \/ mixed' = TRUE
  BY <1>1 DEF PullAll, Mixing
<1>3. CASE UNCHANGED mixed
  BY <1>1, <1>3, Stutters DEF Cached
<1>4. CASE mixed' = TRUE
  BY <1>1, <1>4 DEF Mapped, Union!Next, Union!Mistake, Union!sides, Union!pair, Union!views, Cached
<1> QED
  BY <1>2, <1>3, <1>4

\* What is pushed was read in the collection.
LEMMA PushingSteps == ASSUME IInv, Push PROVE Mapped
<1>1. PICK S \in SUBSET (here \ there) :
        remote' = IF Alive(cur) THEN remote \cup ({cur} \X S) ELSE remote
  BY DEF Push
<1>2. UNCHANGED <<local, cItems, cur, coll, there, here, edits, mixed>>
  BY DEF Push, db, cache, pair, views, count
<1>3. CASE Alive(cur)
  <2> DEFINE own == [t \in S |-> t]
  <2>1. S \in SUBSET here /\ own \in Union!Cards(S) /\ {own[t] : t \in S} = S
    BY DEF IInv, TypeOK, Union!Cards
  <2>2. remote' = remote \cup Union!Both(cur, S)
    BY <1>1, <1>3 DEF Union!Both
  <2>3. remote' \cup Cached' = (remote \cup Cached) \cup Union!Both(cur, S)
    BY <1>2, <2>2 DEF Cached
  <2> QED
    BY <1>2, <2>1, <2>2, <2>3 DEF Mapped, Union!Next, Union!Push, Union!pair, Union!views
<1>4. CASE ~ Alive(cur)
  BY <1>1, <1>2, <1>4, Stutters DEF Cached
<1> QED
  BY <1>3, <1>4

LEMMA EditingSteps == ASSUME IInv, IInv', ToggleMember \/ ServiceEdit \/ DeleteList PROVE Mapped
<1>1. edits' = edits + 1 /\ UNCHANGED <<cItems, cur, coll, there, here, mixed>>
  BY DEF ToggleMember, ServiceEdit, DeleteList, Edited, cache, pair, views
<1>2. UNCHANGED local \/ UNCHANGED remote
  BY DEF ToggleMember, ServiceEdit, DeleteList, service
<1>3. local' \in SUBSET ((Name \cup ListId) \X Title) /\ remote' \in SUBSET ((Name \cup ListId) \X Title)
  BY CollectionsAreNamed DEF IInv, TypeOK
<1>4. Cached' = Cached
  BY <1>1 DEF Cached
<1> QED
  BY <1>1, <1>2, <1>3, <1>4 DEF Mapped, Union!Next, Union!Edit, Union!pair, Union!views

\* A cached answer that is forgotten no longer shows what it showed.
LEMMA AgingSteps == ASSUME IInv, CacheExpires PROVE Mapped
<1>1. UNCHANGED <<local, remote, cur, coll, there, here, edits, mixed>>
  BY DEF CacheExpires, db, service, pair, views, count
<1>2. Cached' \subseteq Cached
  <2>1. CASE UNCHANGED cItems
    BY <2>1 DEF Cached
  <2>2. CASE \E l \in ListId : cItems[l] # None /\ cItems' = [cItems EXCEPT ![l] = None]
    BY <2>2 DEF Cached, IInv, TypeOK
  <2> QED
    BY <2>1, <2>2 DEF CacheExpires
<1> QED
  BY <1>1, <1>2 DEF Mapped, Union!Next, Union!Age, Union!pair, Union!views

LEMMA StartsMapped == ASSUME Init PROVE Union!Init
<1>1. Cached = {}
  BY DEF Init, Cached
<1>2. local \in SUBSET ((Name \cup ListId) \X Title) /\ remote \in SUBSET ((Name \cup ListId) \X Title)
  BY CollectionsAreNamed DEF Init
<1> QED
  BY <1>1, <1>2 DEF Init, Union!Init

\* The scripts only copy: every step of a run, of the other users and of the cache
\* included, is one that UnionSync allows, or none for it.
THEOREM ListSyncImplementsUnion == Spec => OnlyCopies
<1>1. IInv /\ IInv' /\ [Next]_vars => Mapped
  <2> SUFFICES ASSUME IInv, IInv', [Next]_vars PROVE Mapped
    OBVIOUS
  <2>1. CASE UNCHANGED vars
    BY <2>1, Stutters DEF vars, db, service, cache, pair, views, count, Cached
  <2>2. CASE Next
    BY <2>2, InnerSteps, LeavingSteps, TakingSteps, LookingSteps, PullingSteps, MistakingSteps,
       PushingSteps, EditingSteps, AgingSteps
    DEF Next, Script, Inner
  <2> QED
    BY <2>1, <2>2
<1>2. Init => Union!Init
  BY StartsMapped
<1> QED
  BY <1>1, <1>2, Invariant, PTL DEF Spec, OnlyCopies, Union!Spec, Mapped
=============================================================================

--------------------------- MODULE FolderSyncProofs ---------------------------
(***************************************************************************)
(* The syncs with folders keep their types, implement UnionSync and,       *)
(* undisturbed, make both sides equal, for any titles, names, likeness of  *)
(* names and of titles, and number of edits.                               *)
(***************************************************************************)
EXTENDS FolderSync, TLAPS

\* As long as no card was taken for another film's, ids are those of their cards and
\* what the script remembers of them is true, if old.
BindingsTrue == \A r \in Title : link[r] \in {r, NoTitle}
MemoTrue     == \A t \in Title : map[t] \in {t, NoTitle} /\ ids[t] \in {t, NoTitle}
Unmixed      == ~ mixed => BindingsTrue /\ MemoTrue

\* The cards it found are those known for titles it has read, what it pushes it has
\* read, and it works on a folder and a collection.
InFolder  == pc \in {"fetch", "members", "resolve", "push"}
ViewsTrue ==
    /\ unbound \subseteq there
    /\ pc \in {"members", "resolve"} =>
         /\ \A b \in bound : \E t \in there : map[t] = b
         /\ \A t \in unbound : map[t] = NoTitle
    /\ pc = "push" => push \subseteq here
    /\ InFolder => cur \in Name /\ coll \in Name

IInv == TypeOK /\ Unmixed /\ ViewsTrue

-----------------------------------------------------------------------------
(* Actions that leave what is remembered of ids alone *)

Plain ==
  \/ ListFails
  \/ LoginFails
  \/ ListFolders
  \/ ReadSidebar
  \/ FoldersCreated
  \/ Match
  \/ MakeCollection
  \/ Stopped
  \/ Done
  \/ Fetch
  \/ FetchFails
  \/ FetchPages
  \/ Break
  \/ ReadMembers
  \/ CardFails
  \/ AddMembers
  \/ Unknown
  \/ NotFound
  \/ AddToFolder
  \/ AddRefused
  \/ GiveUpFolder
  \/ FolderDone

LEMMA Looked ==
  ASSUME TypeOK, NEW S \in SUBSET Title, View(S)
  PROVE  /\ there' = S /\ unbound' \subseteq S
         /\ \A b \in bound' : \E t \in S : map[t] = b
         /\ \A t \in unbound' : map[t] = NoTitle
         /\ there' \in SUBSET Title /\ bound' \in SUBSET Title /\ unbound' \in SUBSET Title
BY DEF View, TypeOK

\* The cards found for a folder are those of its own titles.
LEMMA OwnCards ==
  ASSUME IInv, ~ mixed, pc \in {"members", "resolve"}
  PROVE  bound \subseteq there
BY NoTitleIsNone DEF IInv, Unmixed, MemoTrue, ViewsTrue, TypeOK

LEMMA PlainSteps == ASSUME IInv, Plain PROVE IInv'
<1> USE DEF IInv
<1>0. UNCHANGED <<link, map, ids, mixed>> => Unmixed'
  BY DEF Unmixed, BindingsTrue, MemoTrue
<1>1. CASE ListFails
  <2>1. TypeOK'
    BY <1>1 DEF ListFails, Abort, ViewsTrue, InFolder, TypeOK, db, service, loop, memo
  <2>2. ViewsTrue'
    BY <1>1 DEF ListFails, Abort, ViewsTrue, InFolder, TypeOK, loop, memo
  <2> QED
    BY <1>0, <1>1, <2>1, <2>2 DEF ListFails, Abort, db, memo
<1>2. CASE LoginFails
  <2>1. TypeOK'
    BY <1>2 DEF LoginFails, Abort, ViewsTrue, InFolder, TypeOK, db, service, loop, memo
  <2>2. ViewsTrue'
    BY <1>2 DEF LoginFails, Abort, ViewsTrue, InFolder, TypeOK, loop, memo
  <2> QED
    BY <1>0, <1>2, <2>1, <2>2 DEF LoginFails, Abort, db, memo
<1>3. CASE ListFolders
  <2>1. TypeOK'
    BY <1>3 DEF ListFolders, ViewsTrue, InFolder, TypeOK, db, service, loop, memo
  <2>2. ViewsTrue'
    BY <1>3 DEF ListFolders, ViewsTrue, InFolder, TypeOK, loop, memo
  <2> QED
    BY <1>0, <1>3, <2>1, <2>2 DEF ListFolders, db, memo
<1>4. CASE ReadSidebar
  <2>1. TypeOK'
    BY <1>4 DEF ReadSidebar, ViewsTrue, InFolder, TypeOK, db, service, loop, memo
  <2>2. ViewsTrue'
    BY <1>4 DEF ReadSidebar, ViewsTrue, InFolder, TypeOK, loop, memo
  <2> QED
    BY <1>0, <1>4, <2>1, <2>2 DEF ReadSidebar, db, memo
<1>5. CASE FoldersCreated
  <2>1. TypeOK'
    BY <1>5 DEF FoldersCreated, ViewsTrue, InFolder, TypeOK, db, service, loop, memo
  <2>2. ViewsTrue'
    BY <1>5 DEF FoldersCreated, ViewsTrue, InFolder, TypeOK, loop, memo
  <2> QED
    BY <1>0, <1>5, <2>1, <2>2 DEF FoldersCreated, db, memo
<1>6. CASE Match
  <2>1. TypeOK'
    BY <1>6 DEF Match, Matches, MatchesIn, Visit, ViewsTrue, InFolder, TypeOK, db, service, loop, memo
  <2>2. ViewsTrue'
    BY <1>6 DEF Match, Matches, MatchesIn, Visit, ViewsTrue, InFolder, TypeOK, loop, memo
  <2> QED
    BY <1>0, <1>6, <2>1, <2>2 DEF Match, Matches, MatchesIn, Visit, db, memo
<1>7. CASE MakeCollection
  <2>0. /\ colls' \in SUBSET Name /\ seen' \in SUBSET Name /\ todo' \in SUBSET Name
        /\ pc' \in {"walk", "fetch", "done"} /\ calm' \in BOOLEAN
        /\ cur' \in Name \cup {NoTitle} /\ coll' \in Name \cup {NoTitle}
        /\ UNCHANGED <<there, bound, here, unbound, push>>
    BY <1>7 DEF MakeCollection, MatchesIn, Visit, Abort, TypeOK, loop
  <2>1. TypeOK'
    BY <1>7, <2>0 DEF MakeCollection, TypeOK, service, memo
  <2>2. ViewsTrue'
    BY <1>7 DEF MakeCollection, Matches, MatchesIn, Visit, Abort, ViewsTrue, InFolder, TypeOK, loop, memo
  <2> QED
    BY <1>0, <1>7, <2>1, <2>2 DEF MakeCollection, Matches, MatchesIn, Visit, Abort, db, memo
<1>8. CASE Stopped
  <2>1. TypeOK'
    BY <1>8 DEF Stopped, Abort, ViewsTrue, InFolder, TypeOK, db, service, loop, memo
  <2>2. ViewsTrue'
    BY <1>8 DEF Stopped, Abort, ViewsTrue, InFolder, TypeOK, loop, memo
  <2> QED
    BY <1>0, <1>8, <2>1, <2>2 DEF Stopped, Abort, db, memo
<1>9. CASE Done
  <2>1. TypeOK'
    BY <1>9 DEF Done, ViewsTrue, InFolder, TypeOK, db, service, loop, memo
  <2>2. ViewsTrue'
    BY <1>9 DEF Done, ViewsTrue, InFolder, TypeOK, loop, memo
  <2> QED
    BY <1>0, <1>9, <2>1, <2>2 DEF Done, db, memo
<1>10. CASE Fetch
  <2> DEFINE S == FolderItems(cur)
  <2>0. S \in SUBSET Title /\ View(S)
    BY <1>10 DEF Fetch, FolderItems, In
  <2> HIDE DEF S
  <2>1. /\ there' = S /\ unbound' \subseteq S
        /\ \A b \in bound' : \E t \in S : map[t] = b
        /\ \A t \in unbound' : map[t] = NoTitle
        /\ bound' \in SUBSET Title
    BY <2>0, Looked
  <2>2. TypeOK'
    BY <1>10, <2>0, <2>1 DEF Fetch, TypeOK, db, service, memo
  <2>3. ViewsTrue'
    BY <1>10, <2>1 DEF Fetch, ViewsTrue, InFolder, memo
  <2> QED
    BY <1>0, <1>10, <2>2, <2>3 DEF Fetch, db, memo
<1>11. CASE FetchFails
  <2>1. TypeOK'
    BY <1>11 DEF FetchFails, ViewsTrue, InFolder, TypeOK, db, service, loop, memo
  <2>2. ViewsTrue'
    BY <1>11 DEF FetchFails, ViewsTrue, InFolder, TypeOK, loop, memo
  <2> QED
    BY <1>0, <1>11, <2>1, <2>2 DEF FetchFails, db, memo
<1>12. CASE FetchPages
  <2>0. PICK S \in SUBSET In(remote, cur) :
          View(S) /\ calm' = (calm /\ S = In(remote, cur))
    BY <1>12 DEF FetchPages
  <2>1. S \in SUBSET Title
    BY DEF In
  <2>2. /\ there' = S /\ unbound' \subseteq S
        /\ \A b \in bound' : \E t \in S : map[t] = b
        /\ \A t \in unbound' : map[t] = NoTitle
        /\ bound' \in SUBSET Title
    BY <2>0, <2>1, Looked
  <2>3. calm' \in BOOLEAN
    BY <2>0
  <2>4. TypeOK'
    BY <1>12, <2>1, <2>2, <2>3 DEF FetchPages, TypeOK, db, service, memo
  <2>5. ViewsTrue'
    BY <1>12, <2>2 DEF FetchPages, ViewsTrue, InFolder, memo
  <2> QED
    BY <1>0, <1>12, <2>4, <2>5 DEF FetchPages, db, memo
<1>13. CASE Break
  <2>1. TypeOK'
    BY <1>13 DEF Break, Abort, ViewsTrue, InFolder, TypeOK, db, service, loop, memo
  <2>2. ViewsTrue'
    BY <1>13 DEF Break, Abort, ViewsTrue, InFolder, TypeOK, loop, memo
  <2> QED
    BY <1>0, <1>13, <2>1, <2>2 DEF Break, Abort, db, memo
<1>14. CASE ReadMembers
  <2>1. TypeOK'
    BY <1>14 DEF ReadMembers, In, ViewsTrue, InFolder, TypeOK, db, service, loop, memo
  <2>2. ViewsTrue'
    BY <1>14 DEF ReadMembers, In, ViewsTrue, InFolder, TypeOK, loop, memo
  <2> QED
    BY <1>0, <1>14, <2>1, <2>2 DEF ReadMembers, In, db, memo
<1>15. CASE CardFails
  <2>1. TypeOK'
    BY <1>15 DEF CardFails, ViewsTrue, InFolder, TypeOK, db, service, loop, memo
  <2>2. ViewsTrue'
    BY <1>15 DEF CardFails, ViewsTrue, InFolder, TypeOK, loop, memo
  <2> QED
    BY <1>0, <1>15, <2>1, <2>2 DEF CardFails, db, memo
<1>16. CASE AddMembers
  <2>1. TypeOK'
    BY <1>16 DEF AddMembers, ViewsTrue, InFolder, TypeOK, db, service, loop, memo
  <2>2. ViewsTrue'
    BY <1>16 DEF AddMembers, ViewsTrue, InFolder, TypeOK, loop, memo
  <2> QED
    BY <1>0, <1>16, <2>1, <2>2 DEF AddMembers, db, memo
<1>17. CASE Unknown
  <2>1. TypeOK'
    BY <1>17 DEF Unknown, Pushed, ViewsTrue, InFolder, TypeOK, db, service, loop, memo
  <2>2. ViewsTrue'
    BY <1>17 DEF Unknown, Pushed, ViewsTrue, InFolder, TypeOK, loop, memo
  <2> QED
    BY <1>0, <1>17, <2>1, <2>2 DEF Unknown, Pushed, db, memo
<1>18. CASE NotFound
  <2>1. TypeOK'
    BY <1>18 DEF NotFound, Pushed, ViewsTrue, InFolder, TypeOK, db, service, loop, memo
  <2>2. ViewsTrue'
    BY <1>18 DEF NotFound, Pushed, ViewsTrue, InFolder, TypeOK, loop, memo
  <2> QED
    BY <1>0, <1>18, <2>1, <2>2 DEF NotFound, Pushed, db, memo
<1>19. CASE AddToFolder
  <2>1. TypeOK'
    BY <1>19 DEF AddToFolder, Pushed, ViewsTrue, InFolder, TypeOK, db, service, loop, memo
  <2>2. ViewsTrue'
    BY <1>19 DEF AddToFolder, Pushed, ViewsTrue, InFolder, TypeOK, loop, memo
  <2> QED
    BY <1>0, <1>19, <2>1, <2>2 DEF AddToFolder, Pushed, db, memo
<1>20. CASE AddRefused
  <2>1. TypeOK'
    BY <1>20 DEF AddRefused, Pushed, ViewsTrue, InFolder, TypeOK, db, service, loop, memo
  <2>2. ViewsTrue'
    BY <1>20 DEF AddRefused, Pushed, ViewsTrue, InFolder, TypeOK, loop, memo
  <2> QED
    BY <1>0, <1>20, <2>1, <2>2 DEF AddRefused, Pushed, db, memo
<1>21. CASE GiveUpFolder
  <2>1. TypeOK'
    BY <1>21 DEF GiveUpFolder, ViewsTrue, InFolder, TypeOK, db, service, loop, memo
  <2>2. ViewsTrue'
    BY <1>21 DEF GiveUpFolder, ViewsTrue, InFolder, TypeOK, loop, memo
  <2> QED
    BY <1>0, <1>21, <2>1, <2>2 DEF GiveUpFolder, db, memo
<1>22. CASE FolderDone
  <2>1. TypeOK'
    BY <1>22 DEF FolderDone, ViewsTrue, InFolder, TypeOK, db, service, loop, memo
  <2>2. ViewsTrue'
    BY <1>22 DEF FolderDone, ViewsTrue, InFolder, TypeOK, loop, memo
  <2> QED
    BY <1>0, <1>22, <2>1, <2>2 DEF FolderDone, db, memo
<1> QED
  BY <1>1, <1>2, <1>3, <1>4, <1>5, <1>6, <1>7, <1>8, <1>9, <1>10, <1>11, <1>12, <1>13, <1>14, <1>15, <1>16, <1>17, <1>18, <1>19, <1>20, <1>21, <1>22 DEF Plain

-----------------------------------------------------------------------------
(* Actions that read or learn ids *)

LEMMA Catalogued == ASSUME IInv, ReadCatalogue PROVE IInv'
<1> USE DEF IInv
<1>1. \A t \in Title : map'[t] \in Title \cup {NoTitle}
                       /\ (BindingsTrue => map'[t] \in {t, NoTitle})
  <2> TAKE t \in Title
  <2>1. CASE Linked(t)
    <3>1. PICK r \in rows : link[r] = t
      BY <2>1 DEF Linked
    <3>2. link[CHOOSE q \in rows : link[q] = t] = t /\ (CHOOSE q \in rows : link[q] = t) \in rows
      BY <3>1
    <3> QED
      BY <2>1, <3>2, NoTitleIsNone DEF ReadCatalogue, BindingsTrue, TypeOK
  <2>2. CASE ~Linked(t)
    BY <2>2 DEF ReadCatalogue
  <2> QED
    BY <2>1, <2>2
<1>2. map' \in [Title -> Title \cup {NoTitle}]
  BY <1>1 DEF ReadCatalogue
<1>3. TypeOK'
  BY <1>2 DEF ReadCatalogue, TypeOK, db, service, loop
<1>4. Unmixed'
  BY <1>1 DEF ReadCatalogue, Unmixed, MemoTrue, BindingsTrue, db
<1>5. ViewsTrue'
  BY DEF ReadCatalogue, ViewsTrue, InFolder, loop
<1> QED
  BY <1>3, <1>4, <1>5

Learning == BindExisting \/ CreateCard \/ ParseCard \/ InsertIgnored \/ Search \/ SearchUrl

\* A card takes the place of an id it has none for.
LEMMA Adopted ==
  ASSUME IInv, pc = "resolve", UNCHANGED <<pc, push>>, NEW t \in unbound, NEW r \in Title, Adopt(t, r)
  PROVE  /\ ViewsTrue' /\ cur' = cur /\ coll' = coll /\ there' = there /\ here' = here
         /\ map' \in [Title -> Title \cup {NoTitle}]
         /\ bound' \in SUBSET Title /\ unbound' \in SUBSET Title
<1> USE DEF IInv
<1>1. t \in Title /\ map' = [map EXCEPT ![t] = r] /\ bound' = bound \cup {r}
      /\ unbound' = unbound \ {t} /\ UNCHANGED <<cur, coll, there, here>>
  BY DEF Adopt, TypeOK
<1>2. map' \in [Title -> Title \cup {NoTitle}]
      /\ map'[t] = r /\ \A u \in Title : u # t => map'[u] = map[u]
  BY <1>1 DEF TypeOK
<1>3. \A b \in bound' : \E u \in there' : map'[u] = b
  <2> TAKE b \in bound'
  <2>1. CASE b = r
    BY <1>1, <1>2, <2>1 DEF ViewsTrue
  <2>2. CASE b \in bound
    <3>1. PICK u \in there : map[u] = b
      BY <2>2 DEF ViewsTrue
    <3>2. u # t /\ u \in Title
      BY <2>2, <3>1, NoTitleIsNone DEF ViewsTrue, TypeOK
    <3> QED
      BY <1>1, <1>2, <3>1, <3>2
  <2> QED
    BY <1>1, <2>1, <2>2
<1>4. \A u \in unbound' : map'[u] = NoTitle
  BY <1>1, <1>2 DEF ViewsTrue, TypeOK
<1>5. ViewsTrue'
  BY <1>1, <1>3, <1>4 DEF ViewsTrue, InFolder
<1> QED
  BY <1>1, <1>2, <1>5 DEF TypeOK

LEMMA LearningSteps == ASSUME IInv, Learning PROVE IInv'
<1> USE DEF IInv
<1>1. CASE BindExisting
  <2>1. PICK t \in unbound : \E r \in rows \cap Lookalikes(t) :
          Bind(rows, r, t) /\ Adopt(t, r) /\ Mixing(r, t)
    BY <1>1 DEF BindExisting
  <2>2. PICK r \in rows \cap Lookalikes(t) : Bind(rows, r, t) /\ Adopt(t, r) /\ Mixing(r, t)
    BY <2>1
  <2>3. r \in Title /\ t \in Title
    BY <2>2 DEF TypeOK
  <2>4. UNCHANGED <<pc, push>> /\ pc = "resolve"
    BY <1>1, <2>2 DEF BindExisting, Adopt
  <2>5. TypeOK'
    BY <1>1, <2>2, <2>3, <2>4, Adopted DEF BindExisting, Bind, Mixing, TypeOK, service
  <2>6. Unmixed'
    BY <1>1, <2>2, <2>3 DEF BindExisting, Bind, Adopt, Mixing, TypeOK, Unmixed, BindingsTrue, MemoTrue
  <2> QED
    BY <2>2, <2>3, <2>4, <2>5, <2>6, Adopted
<1>2. CASE CreateCard
  <2>1. PICK t \in unbound \ rows :
          rows' = rows \cup {t} /\ lastrow' = t /\ Bind(rows \cup {t}, t, t) /\ Adopt(t, t)
    BY <1>2 DEF CreateCard
  <2>2. t \in Title
    BY DEF TypeOK
  <2>3. UNCHANGED <<pc, push>> /\ pc = "resolve"
    BY <1>2, <2>1 DEF CreateCard, Adopt
  <2>4. TypeOK'
    BY <1>2, <2>1, <2>2, <2>3, Adopted DEF CreateCard, Bind, TypeOK, service
  <2>5. Unmixed'
    BY <1>2, <2>1, <2>2 DEF CreateCard, Bind, Adopt, TypeOK, Unmixed, BindingsTrue, MemoTrue
  <2> QED
    BY <2>1, <2>2, <2>3, <2>4, <2>5, Adopted
<1>3. CASE ParseCard
  <2>1. PICK t \in unbound :
          /\ rows' = rows \cup {t} /\ lastrow' = t /\ link' = [link EXCEPT ![t] = t]
          /\ Remember(t, t) /\ Adopt(t, t)
    BY <1>3 DEF ParseCard
  <2>2. t \in Title
    BY DEF TypeOK
  <2>3. UNCHANGED <<pc, push>> /\ pc = "resolve"
    BY <1>3, <2>1 DEF ParseCard, Adopt
  <2>4. TypeOK'
    BY <1>3, <2>1, <2>2, <2>3, Adopted DEF ParseCard, Remember, TypeOK, service
  <2>5. Unmixed'
    BY <1>3, <2>1, <2>2 DEF ParseCard, Remember, Adopt, TypeOK, Unmixed, BindingsTrue, MemoTrue
  <2> QED
    BY <2>1, <2>2, <2>3, <2>4, <2>5, Adopted
<1>4. CASE InsertIgnored
  <2>1. PICK t \in unbound, r \in Title :
          /\ Adopt(t, r) /\ Mixing(r, t)
          /\ \/ Bind(rows, r, t) /\ UNCHANGED <<known, ids>>
             \/ Remember(r, t) /\ UNCHANGED link
    <3>1. PICK t \in unbound : \E u \in rows \cap Lookalikes(t) :
             LET r == IF lastrow = NoTitle THEN u ELSE lastrow
             IN  /\ Adopt(t, r) /\ Mixing(r, t)
                 /\ IF svc = "kinopub" THEN Bind(rows, r, t) /\ UNCHANGED <<known, ids>>
                    ELSE Remember(r, t) /\ UNCHANGED link
      BY <1>4 DEF InsertIgnored
    <3>2. PICK u \in rows \cap Lookalikes(t) :
             LET r == IF lastrow = NoTitle THEN u ELSE lastrow
             IN  /\ Adopt(t, r) /\ Mixing(r, t)
                 /\ IF svc = "kinopub" THEN Bind(rows, r, t) /\ UNCHANGED <<known, ids>>
                    ELSE Remember(r, t) /\ UNCHANGED link
      BY <3>1
    <3> DEFINE r == IF lastrow = NoTitle THEN u ELSE lastrow
    <3>3. r \in Title
      BY DEF TypeOK
    <3> QED
      BY <3>2, <3>3
  <2>2. t \in Title
    BY DEF TypeOK
  <2>3. UNCHANGED <<pc, push>> /\ pc = "resolve"
    BY <1>4, <2>1 DEF InsertIgnored, Adopt
  <2>4. TypeOK'
    <3>1. /\ link' \in [Title -> Title \cup {NoTitle}] /\ ids' \in [Title -> Title \cup {NoTitle}]
          /\ known' \in SUBSET Title /\ mixed' \in BOOLEAN
      BY <1>4, <2>1, <2>2 DEF InsertIgnored, Bind, Remember, Mixing, TypeOK
    <3>2. /\ map' \in [Title -> Title \cup {NoTitle}]
          /\ cur' = cur /\ coll' = coll /\ there' = there /\ here' = here /\ push' = push
          /\ bound' \in SUBSET Title /\ unbound' \in SUBSET Title
      BY <2>1, <2>3, Adopted
    <3> QED
      BY <1>4, <3>1, <3>2 DEF InsertIgnored, TypeOK, service
  <2>5. Unmixed'
    <3> SUFFICES ASSUME ~ mixed' PROVE BindingsTrue' /\ MemoTrue'
      BY DEF Unmixed
    <3>1. r = t /\ ~ mixed /\ BindingsTrue /\ MemoTrue
      BY <2>1 DEF Mixing, Unmixed
    <3>2. map' = [map EXCEPT ![t] = t]
      BY <2>1, <3>1 DEF Adopt
    <3>3. UNCHANGED link \/ link' = [link EXCEPT ![t] = t]
      BY <2>1, <3>1 DEF Bind
    <3>4. UNCHANGED ids \/ ids' = [ids EXCEPT ![t] = t]
      BY <2>1, <3>1 DEF Remember
    <3> QED
      BY <3>1, <3>2, <3>3, <3>4 DEF TypeOK, BindingsTrue, MemoTrue
  <2> QED
    BY <2>1, <2>2, <2>3, <2>4, <2>5, Adopted
<1>5. CASE Search
  <2>1. PICK r \in push \cap known : \E t \in Lookalikes(r) :
          ids[r] = NoTitle /\ Bind(rows, r, t) /\ Learnt(r, t)
    BY <1>5 DEF Search
  <2>2. PICK t \in Lookalikes(r) : ids[r] = NoTitle /\ Bind(rows, r, t) /\ Learnt(r, t)
    BY <2>1
  <2>3. r \in Title /\ t \in Title
    BY DEF Lookalikes, TypeOK
  <2>4. TypeOK'
    BY <1>5, <2>2, <2>3 DEF Search, Bind, Learnt, Mixing, TypeOK, service, loop
  <2>5. Unmixed'
    BY <2>2, <2>3 DEF Bind, Learnt, Mixing, TypeOK, Unmixed, BindingsTrue, MemoTrue
  <2>6. ViewsTrue'
    BY <1>5, <2>2 DEF Search, Learnt, ViewsTrue, InFolder, loop
  <2> QED
    BY <2>4, <2>5, <2>6
<1>6. CASE SearchUrl
  <2>1. PICK r \in push \cap known : \E t \in Lookalikes(r) :
          /\ ids[r] = NoTitle /\ Learnt(r, t)
          /\ link' = IF r \in rows /\ link[r] = NoTitle THEN [link EXCEPT ![r] = t] ELSE link
    BY <1>6 DEF SearchUrl
  <2>2. PICK t \in Lookalikes(r) :
          /\ ids[r] = NoTitle /\ Learnt(r, t)
          /\ link' = IF r \in rows /\ link[r] = NoTitle THEN [link EXCEPT ![r] = t] ELSE link
    BY <2>1
  <2>3. r \in Title /\ t \in Title
    BY DEF Lookalikes, TypeOK
  <2>4. TypeOK'
    BY <1>6, <2>2, <2>3 DEF SearchUrl, Learnt, Mixing, TypeOK, service, loop
  <2>5. Unmixed'
    BY <2>2, <2>3 DEF Learnt, Mixing, TypeOK, Unmixed, BindingsTrue, MemoTrue
  <2>6. ViewsTrue'
    BY <1>6, <2>2 DEF SearchUrl, Learnt, ViewsTrue, InFolder, loop
  <2> QED
    BY <2>4, <2>5, <2>6
<1> QED
  BY <1>1, <1>2, <1>3, <1>4, <1>5, <1>6 DEF Learning

LEMMA FolderSteps == ASSUME IInv, NEW n \in Name, CreateFolder(n) PROVE IInv'
<1> USE DEF IInv
<1>1. TypeOK'
  BY DEF CreateFolder, TypeOK, db, loop, memo
<1>2. ViewsTrue' /\ Unmixed'
  BY DEF CreateFolder, ViewsTrue, InFolder, Unmixed, BindingsTrue, MemoTrue, db, loop, memo
<1> QED
  BY <1>1, <1>2

LEMMA OthersSteps == ASSUME IInv, Others PROVE IInv'
<1> USE DEF IInv
<1>1. Edited
  BY DEF Others, ToggleMember, UserMakesCollection, DeleteCollection, DeleteCard, ServiceEdit
<1>2. edits' \in 0 .. MaxEdits
  BY <1>1, EditsAreCounted DEF Edited, TypeOK
<1>3. ViewsTrue' /\ UNCHANGED <<map, ids, mixed>>
  BY <1>1 DEF Edited, ViewsTrue, InFolder, loop, memo
<1>4. CASE ToggleMember
  <2>1. TypeOK'
    BY <1>1, <1>2, <1>4 DEF ToggleMember, Edited, TypeOK, db, service, loop, memo
  <2>2. Unmixed'
    BY <1>3, <1>4 DEF ToggleMember, Unmixed, BindingsTrue, MemoTrue, TypeOK, db
  <2> QED
    BY <1>3, <2>1, <2>2
<1>5. CASE UserMakesCollection
  <2>1. TypeOK'
    BY <1>1, <1>2, <1>5 DEF UserMakesCollection, Edited, TypeOK, db, service, loop, memo
  <2>2. Unmixed'
    BY <1>3, <1>5 DEF UserMakesCollection, Unmixed, BindingsTrue, MemoTrue, TypeOK, db
  <2> QED
    BY <1>3, <2>1, <2>2
<1>6. CASE DeleteCollection
  <2>1. TypeOK'
    BY <1>1, <1>2, <1>6 DEF DeleteCollection, Edited, TypeOK, db, service, loop, memo
  <2>2. Unmixed'
    BY <1>3, <1>6 DEF DeleteCollection, Unmixed, BindingsTrue, MemoTrue, TypeOK, db
  <2> QED
    BY <1>3, <2>1, <2>2
<1>7. CASE DeleteCard
  <2>1. TypeOK'
    BY <1>1, <1>2, <1>7 DEF DeleteCard, Edited, TypeOK, db, service, loop, memo
  <2>2. Unmixed'
    BY <1>3, <1>7 DEF DeleteCard, Unmixed, BindingsTrue, MemoTrue, TypeOK, db
  <2> QED
    BY <1>3, <2>1, <2>2
<1>8. CASE ServiceEdit
  <2>1. TypeOK'
    BY <1>1, <1>2, <1>8 DEF ServiceEdit, Edited, TypeOK, db, service, loop, memo
  <2>2. Unmixed'
    BY <1>3, <1>8 DEF ServiceEdit, Unmixed, BindingsTrue, MemoTrue, TypeOK, db
  <2> QED
    BY <1>3, <2>1, <2>2
<1> QED
  BY <1>4, <1>5, <1>6, <1>7, <1>8 DEF Others

LEMMA Started == ASSUME Init PROVE IInv
<1>1. TypeOK
  <2>1. link \in [Title -> Title \cup {NoTitle}] /\ mixed \in BOOLEAN
    BY DEF Init
  <2> QED
    BY <2>1, EditsAreCounted DEF Init, TypeOK
<1>2. Unmixed
  BY DEF Init, Unmixed, BindingsTrue, MemoTrue
<1> QED
  BY <1>1, <1>2 DEF Init, IInv, ViewsTrue, InFolder

LEMMA Invariant == Spec => []IInv
<1>1. IInv /\ [Next]_vars => IInv'
  <2> SUFFICES ASSUME IInv, [Next]_vars PROVE IInv'
    OBVIOUS
  <2>1. CASE UNCHANGED vars
    BY <2>1 DEF vars, db, service, loop, memo, IInv, TypeOK, Unmixed, BindingsTrue, MemoTrue,
                ViewsTrue, InFolder
  <2>2. CASE Next
    BY <2>2, PlainSteps, Catalogued, LearningSteps, FolderSteps, OthersSteps
    DEF Next, Script, Plain, Learning
  <2> QED
    BY <2>1, <2>2
<1> QED
  BY <1>1, Started, PTL DEF Spec

\* The state of both scripts keeps its types, whatever fails and is edited.
THEOREM FolderTypeCorrect == Spec => []TypeOK
<1>1. IInv => TypeOK
  BY DEF IInv
<1> QED
  BY <1>1, Invariant, PTL

-----------------------------------------------------------------------------
(* The refinement: what each step is for UnionSync *)

Mapped == [Union!Next]_(Union!vars)

LEMMA Stutters ==
  ASSUME UNCHANGED <<local, remote, cur, coll, there, here, edits>>,
         mixed' = mixed \/ mixed' = TRUE
  PROVE  Mapped
BY DEF Mapped, Union!Next, Union!Mistake, Union!vars, Union!sides, Union!pair, Union!views

\* Steps that touch neither the members nor what was read of them.  They may take a
\* card for another film's.
Inner ==
  \/ ListFails \/ LoginFails \/ ListFolders \/ ReadSidebar \/ ReadCatalogue
  \/ (\E n \in Name : CreateFolder(n))
  \/ FoldersCreated \/ Stopped \/ Done \/ FetchFails \/ Break
  \/ BindExisting \/ CreateCard \/ ParseCard \/ InsertIgnored \/ CardFails
  \/ Unknown \/ NotFound \/ Search \/ SearchUrl \/ AddRefused \/ GiveUpFolder \/ FolderDone

LEMMA InnerSteps == ASSUME IInv, Inner PROVE Mapped
<1>1. UNCHANGED <<local, remote, cur, coll, there, here, edits>>
  BY DEF Inner, ListFails, LoginFails, ListFolders, ReadSidebar, ReadCatalogue,
         CreateFolder, FoldersCreated, Stopped, Done, FetchFails, Break,
         BindExisting, CreateCard, ParseCard, InsertIgnored, CardFails, Unknown, NotFound,
         Search, SearchUrl, AddRefused, GiveUpFolder, FolderDone, Adopt, Learnt, Pushed,
         db, service, loop
<1>2. mixed' = mixed \/ mixed' = TRUE
  <2>1. mixed \in BOOLEAN
    BY DEF IInv, TypeOK
  <2> QED
    BY <2>1
    DEF Inner, ListFails, LoginFails, ListFolders, ReadSidebar, ReadCatalogue,
        CreateFolder, FoldersCreated, Stopped, Done, FetchFails, Break,
        BindExisting, CreateCard, ParseCard, InsertIgnored, CardFails, Unknown, NotFound,
        Search, SearchUrl, AddRefused, GiveUpFolder, FolderDone, Learnt, Mixing
<1> QED
  BY <1>1, <1>2, Stutters

LEMMA TakingSteps == ASSUME IInv, Match \/ MakeCollection PROVE Mapped
<1>1. UNCHANGED <<local, remote, there, here, edits, mixed>>
  BY DEF Match, MakeCollection, Visit, db, service, loop
<1>2. UNCHANGED <<cur, coll>> \/ (cur' \in Name /\ coll' \in Name)
  BY DEF Match, MakeCollection, Matches, MatchesIn, Visit, loop, IInv, TypeOK
<1> QED
  BY <1>1, <1>2, Stutters DEF Mapped, Union!Next, Union!Take, Union!sides, Union!views

LEMMA LookingSteps == ASSUME IInv, Fetch \/ FetchPages \/ ReadMembers PROVE Mapped
<1> USE DEF Union!Members, In
<1>1. CASE Fetch
  <2>1. there' \in SUBSET Union!Members(remote, cur)
    BY <1>1 DEF Fetch, FolderItems, View
  <2> QED
    BY <1>1, <2>1 DEF Fetch, db, service, Mapped, Union!Next, Union!LookThere,
                      Union!sides, Union!pair
<1>2. CASE FetchPages
  <2>1. there' \in SUBSET Union!Members(remote, cur)
    BY <1>2 DEF FetchPages, View
  <2> QED
    BY <1>2, <2>1 DEF FetchPages, db, service, Mapped, Union!Next, Union!LookThere,
                      Union!sides, Union!pair
<1>3. CASE ReadMembers
  <2> DEFINE M == Union!Members(local, coll)
             own == [r \in M |-> r]
  <2>1. own \in Union!Cards(M) /\ here' = {own[r] : r \in M}
    BY <1>3 DEF ReadMembers, Union!Cards
  <2>2. UNCHANGED <<local, remote, cur, coll, there, edits, mixed>>
    BY <1>3 DEF ReadMembers, db, service
  <2> QED
    BY <2>1, <2>2 DEF Mapped, Union!Next, Union!LookHere, Union!sides, Union!pair
<1> QED
  BY <1>1, <1>2, <1>3

\* What is pulled are the cards of titles found in the folder.
LEMMA PullingSteps == ASSUME IInv, AddMembers PROVE Mapped
<1> DEFINE S == {t \in there : map[t] \in bound \ here}
           f == [t \in S |-> map[t]]
<1>0. pc = "resolve" /\ bound \subseteq Title /\ there \subseteq Title
  BY DEF AddMembers, IInv, TypeOK
<1>1. S \in SUBSET there /\ {f[t] : t \in S} = bound \ here
  BY <1>0 DEF IInv, ViewsTrue
<1>2. f \in Union!Cards(S)
  <2>1. f \in [S -> Title]
    BY <1>0
  <2>2. mixed' = mixed
    BY DEF AddMembers
  <2>3. ~ mixed => \A t \in S : f[t] = t
    BY <1>0, NoTitleIsNone DEF IInv, Unmixed, MemoTrue, TypeOK
  <2>4. mixed \in BOOLEAN
    BY DEF IInv, TypeOK
  <2> HIDE DEF S, f
  <2> QED
    BY <2>1, <2>2, <2>3, <2>4 DEF Union!Cards
<1>3. local' = local \cup Union!Both(coll, {f[t] : t \in S})
  <2>1. local' = local \cup {<<coll, r>> : r \in bound \ here}
    BY DEF AddMembers
  <2> HIDE DEF S, f
  <2> QED
    BY <1>1, <2>1 DEF Union!Both
<1>4. UNCHANGED <<remote, cur, coll, there, here, edits, mixed>>
  BY DEF AddMembers, service
<1> HIDE DEF S, f
<1> QED
  BY <1>1, <1>2, <1>3, <1>4 DEF Mapped, Union!Next, Union!Pull, Union!pair, Union!views

\* What is pushed was read in the collection, and goes by the id its card is given.
LEMMA PushingSteps == ASSUME IInv, AddToFolder PROVE Mapped
<1>1. PICK r \in push \cap known :
        /\ ids[r] # NoTitle
        /\ remote' = IF cur \in folders THEN remote \cup {<<cur, ids[r]>>} ELSE remote
        /\ Pushed(r)
  BY DEF AddToFolder
<1>2. UNCHANGED <<local, cur, coll, there, here, edits, mixed>>
  BY <1>1 DEF AddToFolder, Pushed, db
<1>3. r \in Title /\ r \in here /\ ids[r] \in Title /\ (~ mixed => ids[r] = r)
  BY <1>1 DEF AddToFolder, IInv, TypeOK, Unmixed, MemoTrue, ViewsTrue
<1> DEFINE S == {r}
           f == [t \in S |-> ids[r]]
<1>4. S \in SUBSET here /\ {f[t] : t \in S} = {ids[r]}
  BY <1>3
<1>5. f \in Union!Cards(S)
  <2>1. f \in [S -> Title] /\ (~ mixed => \A t \in S : f[t] = t) /\ mixed \in BOOLEAN
    BY <1>3 DEF IInv, TypeOK
  <2> HIDE DEF S, f
  <2> QED
    BY <1>2, <2>1 DEF Union!Cards
<1>6. CASE cur \in folders
  <2>1. remote' = remote \cup Union!Both(cur, {f[t] : t \in S})
    <3>1. {<<cur, ids[r]>>} = Union!Both(cur, {ids[r]})
      BY DEF Union!Both
    <3> QED
      BY <1>1, <1>4, <1>6, <3>1
  <2> HIDE DEF S, f
  <2> QED
    BY <2>1, <1>2, <1>4, <1>5 DEF Mapped, Union!Next, Union!Push, Union!pair, Union!views
<1>7. CASE cur \notin folders
  BY <1>1, <1>2, <1>7, Stutters
<1> QED
  BY <1>6, <1>7

LEMMA EditingSteps == ASSUME IInv, IInv', Others PROVE Mapped
<1>1. Edited
  BY DEF Others, ToggleMember, UserMakesCollection, DeleteCollection, DeleteCard, ServiceEdit
<1>2. edits' = edits + 1 /\ UNCHANGED <<cur, coll, there, here, mixed>>
  BY <1>1 DEF Edited, loop
<1>3. UNCHANGED local \/ UNCHANGED remote
  BY DEF Others, ToggleMember, UserMakesCollection, DeleteCollection, DeleteCard,
         ServiceEdit, db, service
<1>4. local' \in SUBSET (Name \X Title) /\ remote' \in SUBSET (Name \X Title)
  BY DEF IInv, TypeOK
<1> QED
  BY <1>2, <1>3, <1>4 DEF Mapped, Union!Next, Union!Edit, Union!pair, Union!views

LEMMA StartsMapped == ASSUME Init PROVE Union!Init
<1>1. local \in SUBSET (Name \X Title) /\ remote \in SUBSET (Name \X Title)
  BY DEF Init
<1>2. mixed \in BOOLEAN
  BY DEF Init
<1> QED
  BY <1>1, <1>2 DEF Init, Union!Init

\* The scripts only copy: every step of a run, of the other users included, is one
\* that UnionSync allows, or none for it.
THEOREM FolderSyncImplementsUnion == Spec => OnlyCopies
<1>1. IInv /\ IInv' /\ [Next]_vars => Mapped
  <2> SUFFICES ASSUME IInv, IInv', [Next]_vars PROVE Mapped
    OBVIOUS
  <2>1. CASE UNCHANGED vars
    BY <2>1, Stutters DEF vars, db, service, loop
  <2>2. CASE Next
    BY <2>2, InnerSteps, TakingSteps, LookingSteps, PullingSteps, PushingSteps, EditingSteps
    DEF Next, Script, Inner
  <2> QED
    BY <2>1, <2>2
<1>2. Init => Union!Init
  BY StartsMapped
<1> QED
  BY <1>1, <1>2, Invariant, PTL DEF Spec, OnlyCopies, Union!Spec, Mapped

-----------------------------------------------------------------------------
(* Both sides are equal: what holds throughout a run in which nothing fails, *)
(* that nobody disturbs and that takes no card for another film's            *)

\* No folder but its own is filed under a collection.
Alone(c)  == \A f \in folders \ {c} : f \in colls \/ ~ Close(f, c)

\* The run has still to deal with a folder.
Ahead(f)  == f \in todo \/ (InFolder /\ cur = f)
Pulled(f) == \E c \in colls : Close(f, c) /\ In(remote, f) \subseteq In(local, c)
Shared(f) == f \in colls /\ Alone(f) => In(local, f) \subseteq In(remote, f)

\* What was read of the lists still holds: nobody else writes in a calm run.
ListsFresh ==
  /\ colls \cap Hidden = {}
  /\ local \subseteq colls \X Title
  /\ pc \in {"list", "read"} => local \subseteq colls \X rows
  /\ pc # "list" => todo \subseteq folders
  /\ pc \in {"read", "create"} => folders \ Ignored \subseteq todo
  /\ pc \notin {"list", "read", "done"} => seen = colls
  /\ pc = "done" => todo = {}

\* A folder that is a collection's namesake is filed under that collection.
WellFiled ==
  InFolder => /\ cur \in folders \ todo /\ coll \in colls /\ Close(cur, coll)
              /\ cur \in colls => coll = cur

ViewsFresh ==
  /\ pc \in {"members", "resolve"} => there = In(remote, cur) /\ there \subseteq bound \cup unbound
  /\ pc = "resolve" => here = In(local, coll)

\* The collection has what the folder has; what the folder lacks is in the queue.
Pushing ==
  pc = "push" =>
    /\ In(remote, cur) \subseteq In(local, coll) /\ push \subseteq In(local, coll)
    /\ coll = cur /\ Alone(cur) => /\ In(local, cur) \subseteq In(remote, cur) \cup push
                                   /\ push \subseteq known

\* Until its folder is visited a collection holds only cards the run read at its start.
MembersKnown ==
  pc \notin {"list", "read", "done"} =>
    \A c \in colls :
      /\ Alone(c)
      /\ c \notin folders \/ c \in todo \/ (pc \in {"fetch", "members", "resolve"} /\ cur = c)
      => In(local, c) \subseteq known

\* The folders behind the run are equal to their collections.
Behind ==
  pc # "list" =>
    \A f \in folders \ (Ignored \cup Hidden) : ~ Ahead(f) => Pulled(f) /\ Shared(f)

Settled == ListsFresh /\ WellFiled /\ ViewsFresh /\ Pushing /\ MembersKnown /\ Behind

Calmly == calm /\ ~ mixed => Settled

\* Steps that change neither what the sides hold nor where the run is.
LEMMA QuietSteps ==
  ASSUME Settled,
         UNCHANGED <<colls, local, folders, remote, pc, seen, todo, cur, coll, there, here, push>>,
         rows \subseteq rows', known \subseteq known',
         bound \cup unbound \subseteq bound' \cup unbound'
  PROVE  Settled'
<1> USE DEF Settled
<1>1. ListsFresh'
  BY DEF ListsFresh
<1>2. WellFiled'
  BY DEF WellFiled, InFolder
<1>3. ViewsFresh'
  BY DEF ViewsFresh
<1>4. \A c : Alone(c)' <=> Alone(c)
  BY DEF Alone
<1>5. Pushing'
  BY <1>4 DEF Pushing
<1>6. MembersKnown'
  BY <1>4 DEF MembersKnown
<1>7. \A f : (Ahead(f)' <=> Ahead(f)) /\ (Pulled(f)' <=> Pulled(f))
  BY DEF Ahead, InFolder, Pulled
<1>8. \A f : Shared(f)' <=> Shared(f)
  BY <1>4 DEF Shared
<1>9. Behind'
  BY <1>7, <1>8 DEF Behind
<1> QED
  BY <1>1, <1>2, <1>3, <1>5, <1>6, <1>9

LEMMA LearningCalmly == ASSUME IInv, Settled, Learning, ~ mixed' PROVE Settled'
<1>1. UNCHANGED <<colls, local, folders, remote, pc, seen, todo, cur, coll, there, here, push>>
  BY DEF Learning, BindExisting, CreateCard, ParseCard, InsertIgnored, Search, SearchUrl,
         Adopt, Learnt, service, loop
<1>2. rows \subseteq rows' /\ known \subseteq known'
  BY DEF Learning, BindExisting, CreateCard, ParseCard, InsertIgnored, Search, SearchUrl,
         Remember, Learnt
<1>3. UNCHANGED <<bound, unbound>>
      \/ \E t \in unbound : \E r \in Title : Adopt(t, r) /\ r = t
  BY DEF Learning, BindExisting, CreateCard, ParseCard, InsertIgnored, Search, SearchUrl,
         Learnt, Mixing, loop, IInv, TypeOK
<1>4. bound \cup unbound \subseteq bound' \cup unbound'
  BY <1>3 DEF Adopt
<1> QED
  BY <1>1, <1>2, <1>4, QuietSteps

LEMMA ListingCalmly == ASSUME IInv, Settled, ListFolders \/ ReadSidebar PROVE Settled'
<1> USE DEF Settled
<1>1. /\ pc = "list" /\ pc' \in {"read", "done"} /\ (pc' = "done" => folders = {})
      /\ folders \ Ignored \subseteq todo' /\ todo' \subseteq folders
      /\ UNCHANGED <<colls, local, rows, folders>>
  BY DEF ListFolders, ReadSidebar, db, service
<1>2. ListsFresh'
  BY <1>1 DEF ListsFresh
<1>3. WellFiled' /\ ViewsFresh' /\ Pushing' /\ MembersKnown'
  BY <1>1 DEF WellFiled, InFolder, ViewsFresh, Pushing, MembersKnown
<1>4. Behind'
  BY <1>1 DEF Behind, Ahead
<1> QED
  BY <1>2, <1>3, <1>4

LEMMA ReadingCalmly == ASSUME IInv, Settled, ReadCatalogue PROVE Settled'
<1> USE DEF Settled
<1>1. /\ pc = "read" /\ pc' \in {"create", "walk"} /\ seen' = colls /\ known' = rows
      /\ UNCHANGED <<colls, local, rows, folders, remote, todo>>
  BY DEF ReadCatalogue, db, service
<1>2. ListsFresh'
  BY <1>1 DEF ListsFresh
<1>3. WellFiled' /\ ViewsFresh' /\ Pushing'
  BY <1>1 DEF WellFiled, InFolder, ViewsFresh, Pushing
<1>4. \A c : In(local', c) \subseteq known'
  BY <1>1 DEF In, ListsFresh
<1>5. MembersKnown'
  BY <1>4 DEF MembersKnown
<1>6. folders' \ Ignored \subseteq todo'
  BY <1>1 DEF ListsFresh
<1>7. Behind'
  BY <1>6 DEF Behind, Ahead
<1> QED
  BY <1>2, <1>3, <1>5, <1>7

\* A folder made for a collection is one the run will visit.
LEMMA CreatingCalmly ==
  ASSUME IInv, Settled, calm', NEW n \in Name, CreateFolder(n)
  PROVE  Settled'
<1> USE DEF Settled
<1>1. /\ pc = "create" /\ pc' = "create" /\ n \in Missing
      /\ folders' = folders \cup {n} /\ todo' = todo \cup {n}
      /\ UNCHANGED <<colls, local, rows, remote, seen, known>>
  BY DEF CreateFolder, db, memo
<1>2. n \notin folders
  <2>1. n \notin Ignored /\ n \notin todo
    BY <1>1 DEF Missing, Close
  <2> QED
    BY <1>1, <2>1 DEF ListsFresh
<1>3. ListsFresh'
  BY <1>1 DEF ListsFresh
<1>4. WellFiled' /\ ViewsFresh' /\ Pushing'
  BY <1>1 DEF WellFiled, InFolder, ViewsFresh, Pushing
<1>5. MembersKnown'
  <2> SUFFICES ASSUME NEW c \in colls, Alone(c)', c \notin folders' \/ c \in todo'
               PROVE  In(local', c) \subseteq known'
    BY <1>1 DEF MembersKnown
  <2>1. Alone(c)
    BY <1>1 DEF Alone
  <2>2. c \notin folders \/ c \in todo
    BY <1>1, <1>2
  <2> QED
    BY <1>1, <2>1, <2>2 DEF MembersKnown
<1>6. folders' \ Ignored \subseteq todo'
  BY <1>1 DEF ListsFresh
<1>7. Behind'
  BY <1>6 DEF Behind, Ahead
<1> QED
  BY <1>3, <1>4, <1>5, <1>7

LEMMA CreatedCalmly == ASSUME IInv, Settled, FoldersCreated PROVE Settled'
<1> USE DEF Settled
<1>1. /\ pc = "create" /\ pc' = "walk"
      /\ UNCHANGED <<colls, local, rows, folders, remote, todo, seen, known>>
  BY DEF FoldersCreated, db, service, memo
<1>2. ListsFresh'
  BY <1>1 DEF ListsFresh
<1>3. WellFiled' /\ ViewsFresh' /\ Pushing'
  BY <1>1 DEF WellFiled, InFolder, ViewsFresh, Pushing
<1>4. \A c : Alone(c)' <=> Alone(c)
  BY <1>1 DEF Alone
<1>5. MembersKnown'
  BY <1>1, <1>4 DEF MembersKnown
<1>6. folders' \ Ignored \subseteq todo'
  BY <1>1 DEF ListsFresh
<1>7. Behind'
  BY <1>6 DEF Behind, Ahead
<1> QED
  BY <1>2, <1>3, <1>5, <1>7

\* A folder is filed under the collection of its name, if there is one, and is dealt
\* with from now on.
LEMMA MatchingCalmly == ASSUME IInv, Settled, Match PROVE Settled'
<1> USE DEF Settled
<1>1. PICK f \in todo : \E c \in Matches(f) : Visit(f, c)
  BY DEF Match
<1>2. PICK c \in Matches(f) : Visit(f, c)
  BY <1>1
<1>3. /\ pc = "walk" /\ pc' = "fetch" /\ todo' = todo \ {f} /\ cur' = f /\ coll' = c
      /\ UNCHANGED <<colls, local, rows, folders, remote, seen, known>>
  BY <1>2 DEF Match, Visit, db, service, memo
<1>4. seen = colls /\ todo \subseteq folders
  BY <1>3 DEF ListsFresh
<1>5. c \in colls /\ Close(f, c) /\ (f \in colls => c = f)
  BY <1>2, <1>4 DEF Matches, MatchesIn, Close
<1>6. ListsFresh'
  BY <1>3 DEF ListsFresh
<1>7. WellFiled'
  BY <1>1, <1>3, <1>4, <1>5 DEF WellFiled
<1>8. ViewsFresh' /\ Pushing'
  BY <1>3 DEF ViewsFresh, Pushing
<1>9. \A d : Alone(d)' <=> Alone(d)
  BY <1>3 DEF Alone
<1>10. MembersKnown'
  BY <1>1, <1>3, <1>9 DEF MembersKnown
<1>11. \A g : Ahead(g)' <=> Ahead(g)
  BY <1>1, <1>3 DEF Ahead, InFolder
<1>12. \A g : (Pulled(g)' <=> Pulled(g)) /\ (Shared(g)' <=> Shared(g))
  BY <1>3, <1>9 DEF Pulled, Shared
<1>13. Behind'
  BY <1>3, <1>11, <1>12 DEF Behind
<1> QED
  BY <1>6, <1>7, <1>8, <1>10, <1>13

\* A collection made for a folder has no members, and its name is not much like one
\* there is.
LEMMA MakingCalmly ==
  ASSUME IInv, Settled, MakeCollection, NEW f \in todo, Matches(f) = {},
         colls' = colls \cup {f}, seen' = colls', f \notin Hidden, Visit(f, f)
  PROVE  Settled'
<1> USE DEF Settled
<1>1. /\ Matches(f) = {}
      /\ colls' = colls \cup {f} /\ seen' = colls' /\ f \notin Hidden /\ Visit(f, f)
  OBVIOUS
<1>2. /\ pc = "walk" /\ pc' = "fetch" /\ todo' = todo \ {f} /\ cur' = f /\ coll' = f
      /\ UNCHANGED <<local, rows, folders, remote, known>>
  BY <1>1 DEF MakeCollection, Visit, service, memo
<1>3. seen = colls /\ todo \subseteq folders /\ local \subseteq colls \X Title
  BY <1>2 DEF ListsFresh
<1>4. \A c \in colls : c # f /\ ~ Close(f, c)
  BY <1>1, <1>3 DEF Matches, MatchesIn, Close
<1>5. In(local, f) = {}
  BY <1>3, <1>4 DEF In
<1>6. \A c \in colls : Alone(c)' => Alone(c)
  BY <1>1, <1>2, <1>4 DEF Alone
<1>7. ListsFresh'
  BY <1>1, <1>2, <1>3 DEF ListsFresh
<1>8. WellFiled'
  BY <1>1, <1>2, <1>3 DEF WellFiled, Close
<1>9. ViewsFresh' /\ Pushing'
  BY <1>2 DEF ViewsFresh, Pushing
<1>10. MembersKnown'
  <2> SUFFICES ASSUME NEW c \in colls', Alone(c)',
                      c \notin folders' \/ c \in todo' \/ cur' = c
               PROVE  In(local', c) \subseteq known'
    BY DEF MembersKnown
  <2>1. CASE c = f
    BY <1>2, <1>5, <2>1
  <2>2. CASE c \in colls
    BY <1>2, <1>4, <1>6, <2>2 DEF MembersKnown
  <2> QED
    BY <1>1, <2>1, <2>2
<1>11. \A g : Ahead(g)' <=> Ahead(g)
  BY <1>1, <1>2 DEF Ahead, InFolder
<1>12. \A g : Pulled(g) => Pulled(g)'
  BY <1>1, <1>2 DEF Pulled
<1>13. \A g : g # f /\ Shared(g) => Shared(g)'
  BY <1>1, <1>2, <1>6 DEF Shared
<1>14. Ahead(f)
  BY <1>1 DEF Ahead
<1>15. Behind'
  BY <1>2, <1>11, <1>12, <1>13, <1>14 DEF Behind
<1> QED
  BY <1>7, <1>8, <1>9, <1>10, <1>15

\* A folder with the name of a hidden collection is passed over.
LEMMA PassingCalmly ==
  ASSUME IInv, Settled, MakeCollection, NEW f \in todo, Matches(f) = {}, f \in Hidden,
         colls' = colls, seen' = colls', todo' = todo \ {f}, UNCHANGED <<pc, loop>>
  PROVE  Settled'
<1> USE DEF Settled
<1>1. /\ pc = "walk" /\ pc' = "walk" /\ todo' = todo \ {f} /\ seen = colls
      /\ UNCHANGED <<colls, local, rows, folders, remote, known, seen, cur>>
  BY DEF MakeCollection, service, memo, loop, ListsFresh
<1>2. f \notin colls
  BY DEF ListsFresh
<1>3. ListsFresh' /\ WellFiled' /\ ViewsFresh' /\ Pushing'
  BY <1>1 DEF ListsFresh, WellFiled, InFolder, ViewsFresh, Pushing
<1>4. \A c : Alone(c)' <=> Alone(c)
  BY <1>1 DEF Alone
<1>5. MembersKnown'
  BY <1>1, <1>4 DEF MembersKnown
<1>6. \A g : g # f => (Ahead(g)' <=> Ahead(g))
  BY <1>1 DEF Ahead, InFolder
<1>7. \A g : (Pulled(g)' <=> Pulled(g)) /\ (Shared(g)' <=> Shared(g))
  BY <1>1, <1>4 DEF Pulled, Shared
<1>8. Behind'
  BY <1>1, <1>6, <1>7 DEF Behind
<1> QED
  BY <1>3, <1>5, <1>8

LEMMA MakeCalmly == ASSUME IInv, Settled, calm', MakeCollection PROVE Settled'
<1>1. pc = "walk" /\ seen = colls
  BY DEF MakeCollection, Settled, ListsFresh
<1>2. PICK f \in todo :
        /\ Matches(f) = {} /\ colls' = colls \cup ({f} \ Hidden) /\ seen' = colls'
        /\ \/ \E c \in MatchesIn(f, colls') : Visit(f, c)
           \/ MatchesIn(f, colls') = {} /\ todo' = todo \ {f} /\ UNCHANGED <<pc, loop>>
  BY DEF MakeCollection, Abort
<1>3. CASE f \in Hidden
  <2>1. colls' = colls /\ MatchesIn(f, colls') = {}
    BY <1>1, <1>2, <1>3 DEF Matches
  <2>2. todo' = todo \ {f} /\ UNCHANGED <<pc, loop>>
    BY <1>2, <2>1
  <2> QED
    BY <1>2, <1>3, <2>1, <2>2, PassingCalmly
<1>4. CASE f \notin Hidden
  <2>1. colls' = colls \cup {f} /\ MatchesIn(f, colls') = {f}
    BY <1>2, <1>4 DEF MatchesIn
  <2>2. Visit(f, f)
    BY <1>2, <2>1
  <2> QED
    BY <1>2, <1>4, <2>1, <2>2, MakingCalmly
<1> QED
  BY <1>3, <1>4

LEMMA EndingCalmly == ASSUME IInv, Settled, Done PROVE Settled'
<1> USE DEF Settled
<1>1. /\ pc = "walk" /\ pc' = "done" /\ todo = {}
      /\ UNCHANGED <<colls, local, rows, folders, remote, todo, seen, known, cur>>
  BY DEF Done, db, service, memo, loop
<1>2. ListsFresh'
  BY <1>1 DEF ListsFresh
<1>3. WellFiled' /\ ViewsFresh' /\ Pushing' /\ MembersKnown'
  BY <1>1 DEF WellFiled, InFolder, ViewsFresh, Pushing, MembersKnown
<1>4. \A c : Alone(c)' <=> Alone(c)
  BY <1>1 DEF Alone
<1>5. \A f : Ahead(f)' <=> Ahead(f)
  BY <1>1 DEF Ahead, InFolder
<1>6. \A f : (Pulled(f)' <=> Pulled(f)) /\ (Shared(f)' <=> Shared(f))
  BY <1>1, <1>4 DEF Pulled, Shared
<1>7. Behind'
  BY <1>1, <1>5, <1>6 DEF Behind
<1> QED
  BY <1>2, <1>3, <1>7

-----------------------------------------------------------------------------
(* Within a folder *)

\* Steps from one phase of a folder to the next that leave both sides as they are.
LEMMA PhaseSteps ==
  ASSUME Settled, InFolder, pc' \in {"members", "resolve"}, pc \in {"fetch", "members"},
         UNCHANGED <<colls, local, rows, folders, remote, todo, seen, known, cur, coll>>
  PROVE  ListsFresh' /\ WellFiled' /\ Pushing' /\ MembersKnown' /\ Behind'
<1> USE DEF Settled
<1>1. ListsFresh'
  BY DEF ListsFresh
<1>2. WellFiled' /\ Pushing'
  BY DEF WellFiled, InFolder, Pushing
<1>3. \A c : Alone(c)' <=> Alone(c)
  BY DEF Alone
<1>4. MembersKnown'
  BY <1>3 DEF MembersKnown
<1>5. \A f : Ahead(f)' <=> Ahead(f)
  BY DEF Ahead, InFolder
<1>6. \A f : (Pulled(f)' <=> Pulled(f)) /\ (Shared(f)' <=> Shared(f))
  BY <1>3 DEF Pulled, Shared
<1>7. Behind'
  BY <1>5, <1>6 DEF Behind
<1> QED
  BY <1>1, <1>2, <1>4, <1>7

\* Every title of a folder is found a card or has none yet.
LEMMA LookingCalmly == ASSUME IInv, Settled, calm', ~ mixed, Fetch \/ FetchPages PROVE Settled'
<1>1. /\ View(In(remote, cur)) /\ pc = "fetch" /\ pc' = "members"
      /\ UNCHANGED <<colls, local, rows, folders, remote, todo, seen, known, cur, coll>>
  BY DEF Fetch, FetchPages, FolderItems, db, service, memo
<1>2. ListsFresh' /\ WellFiled' /\ Pushing' /\ MembersKnown' /\ Behind'
  BY <1>1, PhaseSteps DEF InFolder
<1>3. \A t \in there' : t \in bound' \cup unbound'
  <2> TAKE t \in there'
  <2>1. t \in In(remote, cur) /\ t \in Title
    BY <1>1 DEF View, In
  <2>2. CASE map[t] = NoTitle
    BY <1>1, <2>1, <2>2 DEF View
  <2>3. CASE map[t] # NoTitle
    <3>1. map[t] \in bound'
      BY <1>1, <2>1, <2>3 DEF View
    <3> QED
      BY <2>1, <2>3, <3>1 DEF IInv, Unmixed, MemoTrue
  <2> QED
    BY <2>2, <2>3
<1>4. ViewsFresh'
  BY <1>1, <1>3 DEF ViewsFresh, View
<1> QED
  BY <1>2, <1>4 DEF Settled

LEMMA MembersCalmly == ASSUME IInv, Settled, ReadMembers PROVE Settled'
<1>1. /\ pc = "members" /\ pc' = "resolve" /\ here' = In(local, coll)
      /\ UNCHANGED <<there, bound, unbound>>
      /\ UNCHANGED <<colls, local, rows, folders, remote, todo, seen, known, cur, coll>>
  BY DEF ReadMembers, db, service, memo
<1>2. ListsFresh' /\ WellFiled' /\ Pushing' /\ MembersKnown' /\ Behind'
  BY <1>1, PhaseSteps DEF InFolder
<1>3. ViewsFresh'
  BY <1>1 DEF ViewsFresh, Settled
<1> QED
  BY <1>2, <1>3 DEF Settled

\* The pull: the collection gets the cards of the folder it lacks.  It may be the
\* collection of other folders too, but of none that is alone with it.
LEMMA AddingCalmly == ASSUME IInv, Settled, ~ mixed, AddMembers PROVE Settled'
<1> USE DEF Settled
<1>1. /\ pc = "resolve" /\ pc' = "push" /\ unbound = {}
      /\ local' = local \cup {<<coll, r>> : r \in bound \ here} /\ push' = here \ bound
      /\ UNCHANGED <<colls, rows, folders, remote, todo, seen, known, cur, coll, there, bound, here>>
  BY DEF AddMembers, service, memo
<1>2. /\ here = In(local, coll) /\ there = In(remote, cur) /\ there = bound
      /\ bound \subseteq Title
  BY <1>1, OwnCards DEF ViewsFresh, IInv, TypeOK
<1>3. /\ cur \in folders \ todo /\ coll \in colls /\ Close(cur, coll)
      /\ cur \in colls => coll = cur
  BY <1>1 DEF WellFiled, InFolder
<1>4. In(local', coll) = In(local, coll) \cup bound
  BY <1>1, <1>2 DEF In
<1>5. \A c : c # coll => In(local', c) = In(local, c)
  BY <1>1 DEF In
<1>6. \A c : Alone(c)' <=> Alone(c)
  BY <1>1 DEF Alone
<1>7. Alone(coll) => coll = cur
  BY <1>3 DEF Alone
<1>8. ListsFresh'
  <2>1. local' \subseteq colls \X Title
    BY <1>1, <1>2, <1>3 DEF ListsFresh
  <2> QED
    BY <1>1, <2>1 DEF ListsFresh
<1>9. WellFiled' /\ ViewsFresh'
  BY <1>1, <1>3 DEF WellFiled, ViewsFresh
<1>10. Pushing'
  <2>1. In(remote, cur) \subseteq In(local', coll) /\ push' \subseteq In(local', coll)
    BY <1>1, <1>2, <1>4
  <2>2. ASSUME coll = cur, Alone(cur)
        PROVE  In(local', cur) \subseteq In(remote, cur) \cup push' /\ push' \subseteq known
    <3>1. In(local, cur) \subseteq known
      BY <1>1, <1>3, <2>2 DEF MembersKnown
    <3> QED
      BY <1>1, <1>2, <1>4, <2>2, <3>1
  <2> QED
    BY <1>1, <1>6, <2>1, <2>2 DEF Pushing
<1>11. MembersKnown'
  <2> SUFFICES ASSUME NEW c \in colls, Alone(c), c \notin folders \/ c \in todo
               PROVE  In(local', c) \subseteq known
    BY <1>1, <1>6 DEF MembersKnown
  <2>1. c # coll
    BY <1>3, <1>7
  <2> QED
    BY <1>1, <1>5, <2>1 DEF MembersKnown
<1>12. \A f : Ahead(f)' <=> Ahead(f)
  BY <1>1 DEF Ahead, InFolder
<1>13. \A f : Pulled(f) => Pulled(f)'
  BY <1>1, <1>4, <1>5 DEF Pulled
<1>14. \A f : f # cur /\ Shared(f) => Shared(f)'
  BY <1>1, <1>5, <1>6, <1>7 DEF Shared
<1>15. Ahead(cur)
  BY <1>1 DEF Ahead, InFolder
<1>16. Behind'
  BY <1>1, <1>12, <1>13, <1>14, <1>15 DEF Behind
<1> QED
  BY <1>8, <1>9, <1>10, <1>11, <1>16

\* The push: a member taken off the queue has come to the folder, or was of no card
\* the run knows, which no member of a collection alone with its folder is.
LEMMA PushingCalmly ==
  ASSUME IInv, Settled, calm', ~ mixed, AddToFolder \/ Unknown
  PROVE  Settled'
<1> USE DEF Settled
<1>1. PICK r \in push :
        /\ push' = push \ {r}
        /\ \/ remote' = remote /\ r \notin known
           \/ remote' = remote \cup {<<cur, r>>}
  <2>1. CASE Unknown
    BY <2>1 DEF Unknown, Pushed, service
  <2>2. CASE AddToFolder
    <3>1. PICK r \in push \cap known :
            /\ ids[r] # NoTitle
            /\ remote' = IF cur \in folders THEN remote \cup {<<cur, ids[r]>>} ELSE remote
            /\ Pushed(r)
      BY <2>2 DEF AddToFolder
    <3>2. ids[r] = r
      BY <3>1 DEF IInv, TypeOK, Unmixed, MemoTrue
    <3>3. cur \in folders
      BY <2>2 DEF AddToFolder, WellFiled, InFolder
    <3> QED
      BY <3>1, <3>2, <3>3 DEF Pushed
  <2> QED
    BY <2>1, <2>2
<1>2. /\ pc = "push" /\ pc' = "push" /\ r \in Title
      /\ UNCHANGED <<colls, local, rows, folders, todo, seen, known, cur, coll>>
  BY <1>1 DEF AddToFolder, Unknown, Pushed, db, service, memo, IInv, TypeOK
<1>3. \A f : f # cur => In(remote', f) = In(remote, f)
  BY <1>1 DEF In
<1>4. In(remote, cur) \subseteq In(remote', cur) /\ In(remote', cur) \subseteq In(remote, cur) \cup {r}
  BY <1>1 DEF In
<1>5. r \in known => r \in In(remote', cur)
  BY <1>1, <1>2 DEF In
<1>6. \A c : Alone(c)' <=> Alone(c)
  BY <1>2 DEF Alone
<1>7. ListsFresh' /\ WellFiled' /\ ViewsFresh'
  BY <1>2 DEF ListsFresh, WellFiled, InFolder, ViewsFresh
<1>8. Pushing'
  <2>1. In(remote', cur) \subseteq In(local, coll) /\ push' \subseteq In(local, coll)
    BY <1>1, <1>2, <1>4 DEF Pushing
  <2>2. ASSUME coll = cur, Alone(cur)
        PROVE  In(local, cur) \subseteq In(remote', cur) \cup push' /\ push' \subseteq known
    BY <1>1, <1>2, <1>4, <1>5, <2>2 DEF Pushing
  <2> QED
    BY <1>2, <1>6, <2>1, <2>2 DEF Pushing
<1>9. MembersKnown'
  BY <1>2, <1>6 DEF MembersKnown
<1>10. \A f : Ahead(f)' <=> Ahead(f)
  BY <1>2 DEF Ahead, InFolder
<1>11. \A f : f # cur => (Pulled(f)' <=> Pulled(f)) /\ (Shared(f)' <=> Shared(f))
  BY <1>2, <1>3, <1>6 DEF Pulled, Shared
<1>12. Ahead(cur)
  BY <1>2 DEF Ahead, InFolder
<1>13. Behind'
  BY <1>2, <1>10, <1>11, <1>12 DEF Behind
<1> QED
  BY <1>7, <1>8, <1>9, <1>13

\* Nothing is left to push: the folder has what its collection has.
LEMMA LeavingCalmly == ASSUME IInv, Settled, FolderDone PROVE Settled'
<1> USE DEF Settled
<1>1. /\ pc = "push" /\ pc' = "walk" /\ push = {}
      /\ UNCHANGED <<colls, local, rows, folders, remote, todo, seen, known, cur, coll>>
  BY DEF FolderDone, db, service, memo, loop
<1>2. ListsFresh' /\ WellFiled' /\ ViewsFresh' /\ Pushing'
  BY <1>1 DEF ListsFresh, WellFiled, InFolder, ViewsFresh, Pushing
<1>3. \A c : Alone(c)' <=> Alone(c)
  BY <1>1 DEF Alone
<1>4. MembersKnown'
  BY <1>1, <1>3 DEF MembersKnown
<1>5. \A f : f # cur => (Ahead(f)' <=> Ahead(f))
  BY <1>1 DEF Ahead, InFolder
<1>6. \A f : (Pulled(f)' <=> Pulled(f)) /\ (Shared(f)' <=> Shared(f))
  BY <1>1, <1>3 DEF Pulled, Shared
<1>7. Pulled(cur)
  BY <1>1 DEF Pulled, Pushing, WellFiled, InFolder
<1>8. Shared(cur)
  BY <1>1 DEF Shared, Pushing, WellFiled, InFolder
<1>9. Behind'
  BY <1>1, <1>5, <1>6, <1>7, <1>8 DEF Behind
<1> QED
  BY <1>2, <1>4, <1>9

LEMMA Disturbances ==
  ASSUME \/ Others \/ ListFails \/ LoginFails \/ Stopped \/ FetchFails \/ Break \/ CardFails
         \/ NotFound \/ AddRefused \/ GiveUpFolder
  PROVE  ~ calm'
BY DEF Others, ToggleMember, UserMakesCollection, DeleteCollection, DeleteCard, ServiceEdit,
       Edited, ListFails, LoginFails, Stopped, FetchFails, Break, CardFails, NotFound,
       AddRefused, GiveUpFolder, Abort

\* What a failure, an edit or a mistake broke is not mended.
LEMMA CalmBefore == ASSUME IInv, Next, calm', ~ mixed' PROVE calm /\ ~ mixed
<1>1. calm \in BOOLEAN /\ mixed \in BOOLEAN
  BY DEF IInv, TypeOK
<1>2. ~ mixed
  BY DEF Next, Script, ListFails, LoginFails, ListFolders, ReadSidebar, ReadCatalogue,
      CreateFolder, FoldersCreated, Match, MakeCollection, Stopped, Done, Fetch, FetchFails,
      FetchPages, Break, ReadMembers, BindExisting, CreateCard, ParseCard, InsertIgnored,
      CardFails, AddMembers, Unknown, NotFound, Search, SearchUrl, Learnt, AddToFolder,
      AddRefused, GiveUpFolder, FolderDone, Mixing, Others, ToggleMember, UserMakesCollection,
      DeleteCollection, DeleteCard, ServiceEdit, Edited
<1>3. calm
  BY <1>1, Disturbances
  DEF Next, Script, ListFolders, ReadSidebar, ReadCatalogue, CreateFolder, FoldersCreated,
      Match, MakeCollection, Abort, Done, Fetch, FetchPages, ReadMembers, BindExisting,
      CreateCard, ParseCard, InsertIgnored, AddMembers, Unknown, Search, SearchUrl, Learnt,
      AddToFolder, FolderDone
<1> QED
  BY <1>2, <1>3

LEMMA CalmStart == ASSUME Init PROVE Settled
<1>1. ListsFresh
  BY DEF Init, ListsFresh
<1> QED
  BY <1>1 DEF Init, Settled, WellFiled, InFolder, ViewsFresh, Pushing, MembersKnown, Behind

\* After a run in which nothing failed, nobody edited anything and no card was taken for
\* another film's both sides hold the same titles, for every folder and every collection
\* that no other folder shares.
THEOREM FoldersMadeEqual == Spec => []BothSidesEqual
<1>1. Init => Calmly
  BY CalmStart DEF Calmly
<1>2. IInv /\ Calmly /\ [Next]_vars => Calmly'
  <2> SUFFICES ASSUME IInv, Calmly, [Next]_vars, calm', ~ mixed' PROVE Settled'
    BY DEF Calmly
  <2>1. CASE UNCHANGED vars
    BY <2>1, QuietSteps DEF vars, db, service, loop, memo, Calmly
  <2>2. CASE Next
    <3>1. calm /\ ~ mixed /\ Settled
      BY <2>2, CalmBefore DEF Calmly
    <3> QED
      BY <2>2, <3>1, Disturbances, LearningCalmly, ListingCalmly, ReadingCalmly, CreatingCalmly,
         CreatedCalmly, MatchingCalmly, MakeCalmly, EndingCalmly, LookingCalmly,
         MembersCalmly, AddingCalmly, PushingCalmly, LeavingCalmly
      DEF Next, Script, Learning
  <2> QED
    BY <2>1, <2>2
<1>3. Calmly => BothSidesEqual
  <2> SUFFICES ASSUME Settled, pc = "done" PROVE SidesEqual
    BY DEF Calmly, BothSidesEqual
  <2>1. \A f : ~ Ahead(f)
    BY DEF Ahead, InFolder, Settled, ListsFresh
  <2>2. \A f \in folders \ (Ignored \cup Hidden) : Pulled(f) /\ Shared(f)
    BY <2>1 DEF Settled, Behind
  <2>3. colls \cap Hidden = {}
    BY DEF Settled, ListsFresh
  <2> QED
    BY <2>2, <2>3 DEF SidesEqual, Pulled, Shared, Alone
<1> QED
  BY <1>1, <1>2, <1>3, Invariant, PTL DEF Spec

=============================================================================

------------------------------ MODULE Catalogue ------------------------------
(***************************************************************************)
(* The cards of the catalogue, their ids, their rezka page and their       *)
(* releases: the new items of sync_job.py, fix_posters.py,                 *)
(* reprocess_database.py, rezka_sync.py, single_item_update.py,            *)
(* cleanup_duplicates.py, the syncs of collections and the user's edits.   *)
(*                                                                         *)
(* A script reads a card, asks services about it for seconds or minutes    *)
(* and writes what it made of the answers and of what it had read; the     *)
(* user edits cards in between.  The task queue runs one script at a time  *)
(* (Jobs).  Nothing is assumed of the answers: a service may give any id   *)
(* for any title.  Which cards are asked about is in Passes.               *)
(***************************************************************************)
EXTENDS Matching

CONSTANTS
    Cards,              \* ids of cards, given out in ascending order
    Category,           \* the category of each, once it is there
    Releases,
    Ids,                \* ids at Kinopoisk and at IMDb
    Pages,              \* pages of rezka
    PageIds,            \* what a page shows: [Pages -> [kp, imdb : Ids or None]]
    Gone,               \* a deleted card; its id is not given out again
    Scores,             \* scores a page may have for a card
    MaxWork,            \* bound on the items scripts work on
    MaxEdits            \* bound on the user's edits

\* "texts" is the poster and the description.  The rating of IMDb is left out.
Fields == {"texts", "kp_rating"}
Id     == Ids \cup {None, Blank}
Row    == [kp : Id, imdb : Id, url : Pages \cup {None}, has : SUBSET Fields, fixed : BOOLEAN]

ASSUME CatalogueAssumption ==
    /\ Cards \subseteq Nat /\ DOMAIN Category = Cards /\ Scores \subseteq Int
    /\ None \notin Ids /\ Blank \notin Ids /\ None \notin Pages
    /\ PageIds \in [Pages -> [kp : Ids \cup {None}, imdb : Ids \cup {None}]]
    /\ None \notin Cards
    /\ {None, Gone} \cap Row = {}
    /\ MaxWork \in Nat /\ MaxEdits \in Nat

VARIABLES
    card,       \* the table items: a row, None before it is inserted, or Gone
    home,       \* the card of every release that is stored, else None
    job,        \* the script that runs, what it works on and what it has read
    touched,    \* history: cards the user has edited
    byTitle,    \* history: cards given a page whose ids nobody looked at
    stubs,      \* history: cards that were made with the flag and without data
    work, edits

table == <<card, home>>
vars  == <<card, home, job, touched, byTitle, stubs, work, edits>>

Live == {c \in Cards : card[c] \notin {None, Gone}}

Job ==
    {None} \cup
    [script : {"reprocess", "rezka", "rutor", "tmdb", "poiskkino", "page"},
     card : Cards, row : Row] \cup
    [script : {"cleanup"}, rows : [Cards -> Row \cup {None, Gone}], merged : SUBSET Cards]

TypeOK ==
    /\ card \in [Cards -> Row \cup {None, Gone}]
    /\ home \in [Releases -> Cards \cup {None}]
    /\ job \in Job
    /\ touched \subseteq Cards /\ byTitle \subseteq Cards /\ stubs \subseteq Cards
    /\ work \in 0 .. MaxWork /\ edits \in 0 .. MaxEdits

Init ==
    /\ card = [c \in Cards |-> None] /\ home = [r \in Releases |-> None]
    /\ job = None /\ work = 0 /\ edits = 0
    /\ touched = {} /\ byTitle = {} /\ stubs = {}

-----------------------------------------------------------------------------
(* db/items.py *)

Coalesce(old, new) == IF old = None THEN new ELSE old

\* fill_item_metadata: a text or a rating where there is none, an id where there
\* is NULL.
Fill(row, new) ==
    [row EXCEPT !.kp   = Coalesce(@, new.kp),
                !.imdb = Coalesce(@, new.imdb),
                !.url  = Coalesce(@, new.url),
                !.has  = @ \cup new.has]

NewRow(found) ==
    [kp |-> found.kp, imdb |-> found.imdb, url |-> found.url, has |-> found.has, fixed |-> FALSE]

Found(kp, imdb, url, has) == [kp |-> kp, imdb |-> imdb, url |-> url, has |-> has]

\* UPDATE of a card that is there
Update(c, row) == card' = IF c \in Live THEN [card EXCEPT ![c] = row] ELSE card

Missing(id) == ~Known(id)

\* An id the script knows, or one it finds
Learn(id) == IF Known(id) THEN {id} ELSE Ids \cup {id}

\* find_existing_item: by one id and then the other, of the category; then by a
\* title, of any
Existing(kp, imdb, category) ==
    LET same   == {c \in Live : Category[c] = category}
        byKp   == {c \in same : Known(kp) /\ card[c].kp = kp}
        byImdb == {c \in same : Known(imdb) /\ card[c].imdb = imdb}
    IN  IF byKp # {} THEN byKp ELSE IF byImdb # {} THEN byImdb ELSE Live \cup {None}

-----------------------------------------------------------------------------
(* The scripts *)

Works == work < MaxWork /\ work' = work + 1
Idle  == job = None /\ UNCHANGED <<edits, touched>>
Quiet == UNCHANGED <<touched, work, edits>>

\* sync_job.py: the card of a release by its title, or by the release itself
AddToCard(r, c) ==
    /\ Idle /\ Works /\ c \in Live
    /\ home' = IF home[r] \in Live THEN home ELSE [home EXCEPT ![r] = c]
    /\ UNCHANGED <<card, job>>

\* The card a new row becomes
NextCard(c) == card[c] = None /\ \A m \in Cards : m < c => card[m] # None

\* A release of no known card: ids from the tracker and TMDB, then a card by them,
\* or a new one.
AddNew(r, new) ==
    /\ Idle /\ Works /\ home[r] \notin Live
    /\ \E kp \in Ids \cup {None}, imdb \in Ids \cup {None}, has \in {{}, {"texts"}} :
          LET found == Found(kp, imdb, None, has)
          IN  \E c \in Existing(kp, imdb, Category[new]) :
                 \/ /\ c # None /\ card' = [card EXCEPT ![c] = Fill(@, found)]
                    /\ home' = [home EXCEPT ![r] = c]
                 \/ /\ c = None /\ NextCard(new)
                    /\ card' = [card EXCEPT ![new] = NewRow(found)]
                    /\ home' = [home EXCEPT ![r] = new]
    /\ UNCHANGED job

\* fix_posters.py: the answer is written, and the card read back, at once.
Fix(c) ==
    /\ Idle /\ Works /\ c \in Live
    /\ \E imdb \in Id, has \in SUBSET Fields :
          LET row == Fill(card[c], Found(None, imdb, None, has))
          IN  \E fixed \in {row.fixed, row.fixed \/ row.has = Fields} :
                 Update(c, [row EXCEPT !.fixed = fixed])
    /\ UNCHANGED <<home, job>>

Read(s, c) ==
    /\ Idle /\ Works /\ c \in Live
    /\ job' = [script |-> s, card |-> c, row |-> card[c]]
    /\ UNCHANGED table

On(s) == job # None /\ job.script = s

\* reprocess_database.py: what was read and what was found is written together
\* with the verdict on it.
ReprocessRead(c) == Read("reprocess", c)

\* Variant that writes only what it has found.
ReprocessWriteFound ==
    /\ On("reprocess") /\ job' = None
    /\ \E kp \in Learn(job.row.kp), imdb \in Learn(job.row.imdb), has \in {{}, {"texts"}},
         renamed, garbage \in BOOLEAN :
          LET r == job.row
              found   == kp # r.kp \/ imdb # r.imdb \/ ~(has \subseteq r.has) \/ renamed
              all_ok  == r.has \cup has = Fields /\ Known(kp) /\ Known(imdb) /\ ~garbage
              or(id)  == IF Known(id) THEN id ELSE Blank
          IN  Update(job.card, [Fill(card[job.card],
                                     Found(or(kp), or(imdb), None, has \ r.has))
                                EXCEPT !.fixed = all_ok \/ (~found /\ Known(kp) /\ Known(imdb))])
    /\ UNCHANGED home /\ Quiet

ReprocessWrite ==
    /\ On("reprocess") /\ job' = None
    /\ \E kp \in Learn(job.row.kp), imdb \in Learn(job.row.imdb), has \in {{}, {"texts"}},
         renamed, garbage \in BOOLEAN :
          LET r == job.row
              found   == kp # r.kp \/ imdb # r.imdb \/ ~(has \subseteq r.has) \/ renamed
              all_ok  == r.has \cup has = Fields /\ Known(kp) /\ Known(imdb) /\ ~garbage
              or(id)  == IF Known(id) THEN id ELSE Blank
          IN  Update(job.card, [Fill(card[job.card],
                                     Found(or(kp), or(imdb), None, r.has \cup has))
                                EXCEPT !.fixed = all_ok \/ (~found /\ Known(kp) /\ Known(imdb))])
    /\ UNCHANGED home /\ Quiet

\* The write failed.  A card that has the new title takes the releases over.
ReprocessFails ==
    /\ On("reprocess") /\ job' = None
    /\ \/ UNCHANGED table
       \/ \E d \in Live \ {job.card} :
             /\ home' = [r \in Releases |-> IF home[r] = job.card THEN d ELSE home[r]]
             /\ card' = IF job.card \in Live THEN [card EXCEPT ![job.card] = Gone] ELSE card
    /\ Quiet

\* rezka_sync.py and the last step of single_item_update.py: a page the search
\* found and the verdict accepts, for the ids that were read.
WritePage ==
    /\ \E p \in Pages, score \in Scores, has \in SUBSET Fields :
          /\ Verdict(score, PageIds[p], job.row.kp, job.row.imdb) \in Valid
          /\ LET id(shown, read) == IF Known(shown) THEN shown ELSE read
             IN  Update(job.card,
                        Fill(card[job.card],
                             Found(id(PageIds[p].kp, job.row.kp),
                                   id(PageIds[p].imdb, job.row.imdb), p, has)))
    /\ UNCHANGED home

RezkaRead(c) == Read("rezka", c)
RezkaWrite   == On("rezka") /\ WritePage /\ job' = None /\ Quiet

\* single_item_update.py: four services, a transaction after each
SingleRead(c) == Read("rutor", c)

Goes(step, kp, imdb) ==
    job' = [job EXCEPT !.script = step, !.row.kp = kp, !.row.imdb = imdb]

SingleRutor ==
    /\ On("rutor")
    /\ \E kp \in Learn(job.row.kp), imdb \in Learn(job.row.imdb) :
          /\ Goes("tmdb", kp, imdb)
          /\ IF kp = job.row.kp /\ imdb = job.row.imdb THEN UNCHANGED card
             ELSE Update(job.card, Fill(card[job.card], Found(kp, imdb, None, {})))
    /\ UNCHANGED home /\ Quiet

SingleTmdb ==
    /\ On("tmdb")
    /\ \E imdb \in Learn(job.row.imdb), has \in {{}, {"texts"}} :
          LET or(id) == IF Known(id) THEN id ELSE None
              found  == IF imdb = job.row.imdb THEN None ELSE imdb
          IN  /\ Goes("poiskkino", job.row.kp, imdb)
              /\ \/ Update(job.card, Fill(card[job.card],
                                          Found(or(job.row.kp), found, None, has)))
                 \/ found = None /\ UNCHANGED card
    /\ UNCHANGED home /\ Quiet

SinglePoiskKino ==
    /\ On("poiskkino")
    /\ Goes("page", job.row.kp, job.row.imdb)
    /\ \E has \in {{}, {"kp_rating"}} :
          Update(job.card, Fill(card[job.card], Found(None, None, None, has)))
    /\ UNCHANGED home /\ Quiet

SinglePage == On("page") /\ WritePage /\ job' = None /\ Quiet

\* cleanup_duplicates.py: the groups are those of the cards read at the start; all
\* merges are one transaction.
CleanupRead ==
    /\ Idle /\ Works
    /\ job' = [script |-> "cleanup", rows |-> card, merged |-> {}]
    /\ UNCHANGED table

\* Variant that deletes the card with its releases.
MergeDropping(m, d) ==
    /\ On("cleanup") /\ m # d /\ {m, d} \cap job.merged = {}
    /\ {job.rows[m], job.rows[d]} \cap {None, Gone} = {}
    /\ job' = [job EXCEPT !.merged = @ \cup {d}]
    /\ home' = [r \in Releases |-> IF home[r] = d THEN None ELSE home[r]]
    /\ card' = IF d \in Live THEN [card EXCEPT ![d] = Gone] ELSE card
    /\ Quiet

Merge(m, d) ==
    /\ On("cleanup") /\ m # d /\ {m, d} \cap job.merged = {}
    /\ {job.rows[m], job.rows[d]} \cap {None, Gone} = {}
    /\ job' = [job EXCEPT !.merged = @ \cup {d}]
    /\ home' = [r \in Releases |-> IF home[r] = d THEN m ELSE home[r]]
    /\ card' = IF d \in Live THEN [card EXCEPT ![d] = Gone] ELSE card
    /\ Quiet

\* The end of a run, a page that is not found, a request that fails, a kill: what
\* is written before is committed, except of the merges.
Ends ==
    /\ job # None /\ job' = None
    /\ UNCHANGED table /\ Quiet

-----------------------------------------------------------------------------
(* The syncs of collections *)

\* rezka_collections_sync.py: the page of a card without one, by its title and year.
\* It is written where the card still has none.
FindPage(c) ==
    /\ Idle /\ Works /\ c \in Live
    /\ \E p \in Pages : Update(c, Fill(card[c], Found(None, None, p, {})))
    /\ byTitle' = IF card[c].url = None THEN byTitle \cup {c} ELSE byTitle
    /\ UNCHANGED <<home, job, stubs>>

\* A card for a member of a folder or list: of rezka from its page, of kino.pub and
\* Trakt with the id they give or the empty string.
AddMember(new) ==
    /\ Idle /\ Works /\ NextCard(new)
    /\ \E has \in SUBSET Fields :
          \/ \E p \in Pages :
                card' = [card EXCEPT ![new] =
                            NewRow(Found(PageIds[p].kp, PageIds[p].imdb, p, has))]
          \/ \E imdb \in Ids \cup {Blank} :
                card' = [card EXCEPT ![new] = NewRow(Found(None, imdb, None, has \ {"kp_rating"}))]
    /\ UNCHANGED <<home, job, byTitle, stubs>>

\* tmdb_sync.py: a title and the flag
AddStub(new) ==
    /\ Idle /\ Works /\ NextCard(new)
    /\ card' = [card EXCEPT ![new] = [NewRow(Found(None, None, None, {})) EXCEPT !.fixed = TRUE]]
    /\ stubs' = stubs \cup {new}
    /\ UNCHANGED <<home, job, byTitle>>

\* The id for Trakt, asked of TMDB by the title
LearnImdb(c) ==
    /\ Missing(card[c].imdb)
    /\ \E imdb \in Ids \cup {None}, has \in {{}, {"texts"}} :
          Update(c, Fill(card[c], Found(None, imdb, None, has)))
    /\ UNCHANGED home

\* trakt_collections_sync.py
PushCard(c) == Idle /\ Works /\ c \in Live /\ LearnImdb(c) /\ UNCHANGED job

-----------------------------------------------------------------------------
(* The user *)

\* The merges are one transaction, which keeps other writers out.
Writable == On("cleanup") => job.merged = {}

Edit(c) ==
    /\ edits < MaxEdits /\ edits' = edits + 1
    /\ c \in Live /\ Writable
    /\ touched' = touched \cup {c}
    /\ UNCHANGED <<job, work>>

\* set_ids and rebind
SetId(c) ==
    /\ Edit(c)
    /\ \E id \in Ids :
          Update(c, [card[c] EXCEPT !.kp = id, !.fixed = FALSE]) \/
          Update(c, [card[c] EXCEPT !.imdb = id, !.fixed = FALSE])
    /\ UNCHANGED home

\* rebind to another page
Rebind(c) ==
    /\ Edit(c)
    /\ \E p \in Pages : Update(c, [card[c] EXCEPT !.url = p, !.fixed = FALSE])
    /\ UNCHANGED home

ResetItem(c) ==
    /\ Edit(c)
    /\ \/ Update(c, [card[c] EXCEPT !.kp = None, !.fixed = FALSE])
       \/ Update(c, [card[c] EXCEPT !.imdb = None, !.fixed = FALSE])
       \/ Update(c, [card[c] EXCEPT !.url = None, !.fixed = FALSE])
       \/ \E f \in Fields : Update(c, [card[c] EXCEPT !.has = @ \ {f}, !.fixed = FALSE])
    /\ UNCHANGED home

\* toggle_collection_item: the card is put on its list at Trakt
Collect(c) == Edit(c) /\ LearnImdb(c)

\* Variant that marks its releases as those of a deleted card.
DeleteItemMarking(c) ==
    /\ Edit(c)
    /\ card' = [card EXCEPT ![c] = Gone]
    /\ home' = [r \in Releases |-> IF home[r] = c THEN Gone ELSE home[r]]

DeleteItem(c) ==
    /\ Edit(c)
    /\ card' = [card EXCEPT ![c] = Gone]
    /\ home' = [r \in Releases |-> IF home[r] = c THEN None ELSE home[r]]

-----------------------------------------------------------------------------

Sync      == \E r \in Releases, c \in Cards : AddNew(r, c) \/ AddToCard(r, c)
Reprocess == (\E c \in Cards : ReprocessRead(c)) \/ ReprocessWrite \/ ReprocessFails
Rezka     == (\E c \in Cards : RezkaRead(c)) \/ RezkaWrite
Single    == \/ \E c \in Cards : SingleRead(c)
             \/ SingleRutor \/ SingleTmdb \/ SinglePoiskKino \/ SinglePage
Cleanup   == CleanupRead \/ \E m, d \in Cards : Merge(m, d)
Unchecked == \E c \in Cards : FindPage(c) \/ AddMember(c) \/ AddStub(c)
User      ==
    \E c \in Cards : SetId(c) \/ Rebind(c) \/ ResetItem(c) \/ Collect(c) \/ DeleteItem(c)

\* Nobody else takes a page unseen or makes a card with the flag.
Vouched == UNCHANGED <<byTitle, stubs>>

Next ==
    \/ /\ Vouched
       /\ \/ Sync \/ (\E c \in Cards : Fix(c) \/ PushCard(c)) \/ Reprocess \/ Rezka
          \/ Single \/ Cleanup \/ Ends \/ User
    \/ Unchecked

Spec == Init /\ [][Next]_vars

-----------------------------------------------------------------------------
(* Properties *)

\* The rezka page of a card shows no other id than the card has, unless the user
\* had a hand in it or the sync of rezka's folders took the page for its title:
\* whatever wrong ids the services give, a page whose ids conflict is not taken,
\* and no id that comes later replaces what agreed.
PageAgrees ==
    \A c \in Live \ (touched \cup byTitle) :
        card[c].url # None =>
            /\ ~OtherId(card[c].kp, PageIds[card[c].url].kp)
            /\ ~OtherId(card[c].imdb, PageIds[card[c].url].imdb)

\* The flag that takes a card out of the reprocessing is on no card that has
\* neither its texts and rating nor both ids, though reprocess_database.py judges
\* what it had read and the user may have reset the card since. The cards that
\* tmdb_sync.py makes have the flag from the start.
FixedIsComplete ==
    \A c \in Live \ stubs :
        card[c].fixed => card[c].has = Fields \/ (Known(card[c].kp) /\ Known(card[c].imdb))

\* The step leaves a release of a card with a card that is there, unless the user
\* deletes its card now or has deleted the one it is being merged into.
Kept ==
    \A r \in Releases : home[r] \in Live =>
       home'[r] \in Live' \/ edits' # edits \/ home'[r] \in touched \ Live

\* A release of a card stays with a card that is there, however cards are merged
\* and whatever was changed since they were read: it goes only with a card the
\* user deletes, or astray when the user deletes the card it is being merged into.
ReleasesKept == [][Kept]_vars

=============================================================================

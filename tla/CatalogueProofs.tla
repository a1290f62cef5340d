--------------------------- MODULE CatalogueProofs ----------------------------
(***************************************************************************)
(* For any cards, releases, ids and pages, and any verdicts of the         *)
(* services: the types, that a page agrees with its card, that a fixed     *)
(* card is complete, and that releases are not lost.  First the theorems   *)
(* of Matching: what it takes for a result of a search to be taken.        *)
(***************************************************************************)
EXTENDS Catalogue, TLAPS

-----------------------------------------------------------------------------
(* Matching *)

Verdicts == Valid \cup {"conflict", "none"}

\* rezka_sync.py, _evaluate_candidate: a page one of whose ids is another than the
\* card's is never valid, whatever its score and though the other id be the same.
THEOREM ConflictIsRefused ==
  ASSUME NEW score, NEW page, NEW kp, NEW imdb, Verdict(score, page, kp, imdb) \in Valid
  PROVE  ~OtherId(kp, page.kp) /\ ~OtherId(imdb, page.imdb)
BY DEF Verdict, Valid

\* rezka_sync.py, _search_rezka_batch: a page confirmed by its id goes before every
\* page that is trusted for its titles, and one page at most is taken.
THEOREM IdsGoFirst ==
  ASSUME NEW results \in Seq(Verdicts), NEW n, NEW m, Taken(results, n)
  PROVE  /\ m \in DOMAIN results /\ results[m] = "id_match" => results[n] = "id_match"
         /\ Taken(results, m) => m = n
<1> DEFINE ids  == {k \in DOMAIN results : results[k] = "id_match"}
<1>1. DOMAIN results \subseteq Nat
  OBVIOUS
<1>2. n \in DOMAIN results /\ (ids # {} => n \in ids)
  BY DEF Taken
<1>3. Taken(results, m) => m \in DOMAIN results /\ m <= n /\ n <= m
  BY DEF Taken
<1> QED
  BY <1>1, <1>2, <1>3

-----------------------------------------------------------------------------

\* The results of kino.pub: the difference of the years may be None.
Result == [sameId : BOOLEAN, pieces : Seq({"equal", "within", "other"}),
           diff : Nat \cup {None}, type : {"same", "opposite", "none"}]

LEMMA PieceScoreRange ==
  ASSUME NEW pieces PROVE PieceScore(pieces) \in {0, 20, 50}
<1> DEFINE n == CHOOSE k \in DOMAIN pieces :
                    pieces[k] # "other" /\ \A m \in 1 .. k - 1 : pieces[m] = "other"
<1>1. CASE \A k \in DOMAIN pieces : pieces[k] = "other"
  BY <1>1 DEF PieceScore
<1>2. CASE ~\A k \in DOMAIN pieces : pieces[k] = "other"
  <2>1. PieceScore(pieces) = IF pieces[n] = "equal" THEN 50 ELSE 20
    BY <1>2 DEF PieceScore
  <2> QED
    BY <2>1
<1> QED
  BY <1>1, <1>2

\* sync_kinopub.py, best_candidate: a film is bound to a result without its id
\* only if a title matches and the years do not differ by more than one; with no
\* year to compare, the type must match.
THEOREM FilmNeedsItsYear ==
  ASSUME NEW results \in Seq(Result), NEW n, Bound(results, FALSE, n), ~results[n].sameId
  PROVE  /\ PieceScore(results[n].pieces) > 0
         /\ results[n].diff \in {None, 0, 1}
         /\ results[n].diff = None => results[n].type = "same"
<1> DEFINE c     == results[n]
           title == PieceScore(c.pieces)
           year  == KinopubYear(c.diff, FALSE)
           type  == TypeScore(c.type)
<1>1. c \in Result
  BY DEF Bound
<1>2. (IF title = 0 THEN 0 ELSE title + year + type) >= 60
  BY DEF Bound, KinopubScore
<1>3. title \in {0, 20, 50}
  BY PieceScoreRange
<1>4. type \in {-40, 0, 40} /\ (c.type # "same" => type \in {-40, 0})
  BY <1>1 DEF TypeScore, Result
<1>5. /\ year \in {-80, 0, 30, 60}
      /\ c.diff \notin {None, 0, 1} => year = -80
      /\ c.diff = None => year = 0
  BY <1>1, MatchingAssumption DEF KinopubYear, Result
<1> HIDE DEF title, year, type
<1>6. title \in {20, 50} /\ title + year + type >= 60
  BY <1>2, <1>3
<1>7. year # -80 /\ (year = 0 => type = 40)
  BY <1>4, <1>5, <1>6
<1>8. title > 0 /\ c.diff \in {None, 0, 1} /\ (c.diff = None => c.type = "same")
  BY <1>4, <1>5, <1>6, <1>7
<1> QED
  BY <1>8 DEF title

-----------------------------------------------------------------------------

Hit == {"equal", "within", "none"}

LEMMA TmdbScoreOf ==
  ASSUME NEW hit \in Hit, NEW diff \in Nat \cup {None}, TmdbAccepts(hit, diff)
  PROVE  hit = "equal" /\ diff \in {0, 1}
<1> DEFINE title == CASE hit = "equal" -> 120 [] hit = "within" -> 40 [] OTHER -> 0
           year  == CASE diff = None -> 0 [] diff = 0 -> 60 [] diff = 1 -> 40
                      [] diff \in {2, 3} -> -20 [] OTHER -> -80
<1>1. title + year >= 130
  BY DEF TmdbAccepts, TmdbScore
<1>2. title \in {0, 40, 120} /\ (hit # "equal" => title \in {0, 40})
  BY DEF Hit
<1>3. year \in {-80, -20, 0, 40, 60} /\ (diff \notin {0, 1} => year \in {-80, -20, 0})
  BY MatchingAssumption
<1> HIDE DEF title, year
<1> QED
  BY <1>1, <1>2, <1>3

\* tmdb_client.py, search_movie: what it returns has an equal title and a year at
\* most one off; a title within another or a year that is not known never does.
THEOREM TmdbNeedsTitleAndYear ==
  ASSUME NEW answers, NEW r \in [id : Nat, hit : Hit, diff : Nat \cup {None}],
         TmdbFound(answers, r)
  PROVE  r.hit = "equal" /\ r.diff \in {0, 1}
BY TmdbScoreOf DEF TmdbFound

-----------------------------------------------------------------------------
(* The inductive invariant of Catalogue *)

\* An id a page shows is the card's or the card's is the empty string, which
\* nothing fills: no id that is filled in later can contradict the page.
Settled(id, shown) == Known(shown) => id \in {shown, Blank}

Settles(row) ==
  row.url # None =>
    Settled(row.kp, PageIds[row.url].kp) /\ Settled(row.imdb, PageIds[row.url].imdb)

Complete(row) == row.fixed => row.has = Fields \/ (Known(row.kp) /\ Known(row.imdb))

CardsGood ==
  /\ \A c \in Live \ (touched \cup byTitle) : Settles(card[c])
  /\ \A c \in Live \ stubs : Complete(card[c])

\* The card a script works on has the ids the script goes by, if nobody edited it.
ReadHolds ==
  job # None /\ job.script # "cleanup" /\ job.card \in Live \ touched =>
    card[job.card].kp \in {job.row.kp, Blank} /\ card[job.card].imdb \in {job.row.imdb, Blank}

\* An id that the reprocessing has read does not become the empty string.
NotBlanked ==
  On("reprocess") /\ job.card \in Live =>
    /\ Known(job.row.kp) => card[job.card].kp # Blank
    /\ Known(job.row.imdb) => card[job.card].imdb # Blank

\* A card of the snapshot is there unless it was merged or the user had it.
SnapshotHolds ==
  On("cleanup") =>
    \A m \in Cards \ job.merged : job.rows[m] \notin {None, Gone} => m \in Live \cup touched

IInv == TypeOK /\ CardsGood /\ ReadHolds /\ NotBlanked /\ SnapshotHolds

-----------------------------------------------------------------------------
(* Rows and jobs *)

FoundSet == [kp : Id, imdb : Id, url : Pages \cup {None}, has : SUBSET Fields]

LEMMA FoundForms ==
  ASSUME NEW kp \in Id, NEW imdb \in Id, NEW url \in Pages \cup {None}, NEW has \in SUBSET Fields
  PROVE  /\ Found(kp, imdb, url, has) \in FoundSet
         /\ Found(kp, imdb, url, has).kp = kp /\ Found(kp, imdb, url, has).imdb = imdb
         /\ Found(kp, imdb, url, has).url = url /\ Found(kp, imdb, url, has).has = has
BY DEF Found, FoundSet

\* fill_item_metadata: a row stays one, its flag stays, its texts and ratings grow and
\* what is not NULL stays.
LEMMA FillForms ==
  ASSUME NEW row \in Row, NEW new \in FoundSet
  PROVE  /\ Fill(row, new) \in Row
         /\ Fill(row, new).kp = Coalesce(row.kp, new.kp)
         /\ Fill(row, new).imdb = Coalesce(row.imdb, new.imdb)
         /\ Fill(row, new).url = Coalesce(row.url, new.url)
         /\ Fill(row, new).has = row.has \cup new.has
         /\ Fill(row, new).fixed = row.fixed
BY DEF Fill, Row, FoundSet, Coalesce

\* Filling neither makes a page disagree nor a complete card incomplete.
LEMMA FillKeeps ==
  ASSUME NEW row \in Row, NEW new \in FoundSet
  PROVE  /\ Settles(row) /\ new.url = None => Settles(Fill(row, new))
         /\ Complete(row) => Complete(Fill(row, new))
<1> DEFINE f == Fill(row, new)
<1>1. /\ f.kp = Coalesce(row.kp, new.kp) /\ f.imdb = Coalesce(row.imdb, new.imdb)
      /\ f.url = Coalesce(row.url, new.url) /\ f.has = row.has \cup new.has
      /\ f.fixed = row.fixed
  BY FillForms
<1> HIDE DEF f
<1>2. ASSUME Settles(row), new.url = None PROVE Settles(f)
  <2> SUFFICES ASSUME f.url # None
               PROVE Settled(f.kp, PageIds[f.url].kp) /\ Settled(f.imdb, PageIds[f.url].imdb)
    BY DEF Settles
  <2>1. f.url = row.url /\ row.url # None
    BY <1>1, <1>2 DEF Coalesce
  <2>2. \A id, shown, other :
           Settled(id, shown) => Settled(Coalesce(id, other), shown)
    BY MatchingAssumption DEF Settled, Coalesce, Known
  <2> QED
    BY <1>1, <1>2, <2>1, <2>2 DEF Settles
<1>3. ASSUME Complete(row) PROVE Complete(f)
  <2>1. \A id, other : Known(id) => Known(Coalesce(id, other))
    BY DEF Known, Coalesce
  <2>2. row.has = Fields => f.has = Fields
    BY <1>1 DEF Row, FoundSet
  <2> QED
    BY <1>1, <1>3, <2>1, <2>2 DEF Complete
<1> QED
  BY <1>2, <1>3 DEF f

\* Another flag
LEMMA Flagged ==
  ASSUME NEW row \in Row, NEW flag \in BOOLEAN
  PROVE  /\ [row EXCEPT !.fixed = flag] \in Row
         /\ [row EXCEPT !.fixed = flag].kp = row.kp
         /\ [row EXCEPT !.fixed = flag].imdb = row.imdb
         /\ [row EXCEPT !.fixed = flag].url = row.url
         /\ [row EXCEPT !.fixed = flag].has = row.has
         /\ [row EXCEPT !.fixed = flag].fixed = flag
         /\ Settles(row) => Settles([row EXCEPT !.fixed = flag])
<1>1. /\ [row EXCEPT !.fixed = flag] \in Row
      /\ [row EXCEPT !.fixed = flag].kp = row.kp
      /\ [row EXCEPT !.fixed = flag].imdb = row.imdb
      /\ [row EXCEPT !.fixed = flag].url = row.url
      /\ [row EXCEPT !.fixed = flag].has = row.has
      /\ [row EXCEPT !.fixed = flag].fixed = flag
  BY DEF Row
<1> QED
  BY <1>1 DEF Settles

RowScripts == {"reprocess", "rezka", "rutor", "tmdb", "poiskkino", "page"}

LEMMA JobParts ==
  ASSUME TypeOK, job # None
  PROVE  /\ job.script # "cleanup" =>
              /\ job.script \in RowScripts /\ job.card \in Cards /\ job.row \in Row
              /\ job = [script |-> job.script, card |-> job.card, row |-> job.row]
         /\ job.script = "cleanup" =>
              /\ job.rows \in [Cards -> Row \cup {None, Gone}] /\ job.merged \in SUBSET Cards
              /\ job = [script |-> "cleanup", rows |-> job.rows, merged |-> job.merged]
<1>1. job \in [script : RowScripts, card : Cards, row : Row] \/
      job \in [script : {"cleanup"}, rows : [Cards -> Row \cup {None, Gone}],
               merged : SUBSET Cards]
  BY DEF TypeOK, Job, RowScripts
<1>2. CASE job \in [script : RowScripts, card : Cards, row : Row]
  BY <1>2 DEF RowScripts
<1>3. CASE job \in [script : {"cleanup"}, rows : [Cards -> Row \cup {None, Gone}],
                    merged : SUBSET Cards]
  BY <1>3
<1> QED
  BY <1>1, <1>2, <1>3

LEMMA JobForms ==
  /\ None \in Job
  /\ \A s \in RowScripts, c \in Cards, r \in Row : [script |-> s, card |-> c, row |-> r] \in Job
  /\ \A f \in [Cards -> Row \cup {None, Gone}], S \in SUBSET Cards :
        [script |-> "cleanup", rows |-> f, merged |-> S] \in Job
BY DEF Job, RowScripts

LEMMA LiveRows == ASSUME TypeOK, NEW c \in Live PROVE c \in Cards /\ card[c] \in Row
BY DEF TypeOK, Live

\* A row that is written to one card.
LEMMA OneRow ==
  ASSUME TypeOK, NEW c \in Cards, NEW row \in Row, card' = [card EXCEPT ![c] = row]
  PROVE  /\ card' \in [Cards -> Row \cup {None, Gone}]
         /\ Live' = Live \cup {c} /\ card'[c] = row
         /\ \A d \in Cards \ {c} : card'[d] = card[d]
<1>1. row \notin {None, Gone}
  BY CatalogueAssumption
<1> QED
  BY <1>1 DEF TypeOK, Live

LEMMA UpdateForms ==
  ASSUME TypeOK, NEW c \in Cards, NEW row, c \in Live => row \in Row, Update(c, row)
  PROVE  /\ card' \in [Cards -> Row \cup {None, Gone}] /\ Live' = Live
         /\ c \in Live => card'[c] = row
         /\ \A d \in Cards \ {c} : card'[d] = card[d]
<1>1. CASE c \in Live
  <2>1. card' = [card EXCEPT ![c] = row] /\ row \in Row
    BY <1>1 DEF Update
  <2>2. /\ card' \in [Cards -> Row \cup {None, Gone}] /\ Live' = Live \cup {c}
        /\ card'[c] = row /\ \A d \in Cards \ {c} : card'[d] = card[d]
    BY <2>1, OneRow
  <2> QED
    BY <1>1, <2>2
<1>2. CASE c \notin Live
  BY <1>2 DEF Update, TypeOK, Live
<1> QED
  BY <1>1, <1>2

\* The histories only grow.
Grows == touched \subseteq touched' /\ byTitle \subseteq byTitle' /\ stubs \subseteq stubs'

\* What a write to one card has to see to.
LEMMA WriteGood ==
  ASSUME TypeOK, CardsGood, NEW c \in Cards, NEW row,
         c \in Live => row \in Row, Update(c, row), Grows,
         c \in Live \ (touched \cup byTitle)' => Settles(row),
         c \in Live \ stubs' => Complete(row)
  PROVE  CardsGood'
<1>1. /\ Live' = Live /\ (c \in Live => card'[c] = row)
      /\ \A d \in Cards \ {c} : card'[d] = card[d]
  BY UpdateForms
<1>2. ASSUME NEW d \in (Live \ (touched \cup byTitle))' PROVE Settles(card[d])'
  <2>1. CASE d = c
    <3>1. Settles(row) /\ card'[d] = row
      BY <1>1, <1>2, <2>1
    <3> QED
      BY <3>1 DEF Settles
  <2>2. CASE d # c
    <3>1. d \in Live \ (touched \cup byTitle) /\ card'[d] = card[d]
      BY <1>1, <1>2, <2>2 DEF Live, Grows
    <3>2. Settles(card[d])
      BY <3>1 DEF CardsGood
    <3> QED
      BY <3>1, <3>2 DEF Settles
  <2> QED
    BY <2>1, <2>2
<1>3. ASSUME NEW d \in (Live \ stubs)' PROVE Complete(card[d])'
  <2>1. CASE d = c
    <3>1. Complete(row) /\ card'[d] = row
      BY <1>1, <1>3, <2>1
    <3> QED
      BY <3>1 DEF Complete
  <2>2. CASE d # c
    <3>1. d \in Live \ stubs /\ card'[d] = card[d]
      BY <1>1, <1>3, <2>2 DEF Live, Grows
    <3>2. Complete(card[d])
      BY <3>1 DEF CardsGood
    <3> QED
      BY <3>1, <3>2 DEF Complete
  <2> QED
    BY <2>1, <2>2
<1> QED
  BY <1>2, <1>3 DEF CardsGood

\* A card that goes, if any, changes nothing for the others.
LEMMA CardGoes ==
  ASSUME TypeOK, NEW c \in Cards, card' = [card EXCEPT ![c] = Gone] \/ UNCHANGED card
  PROVE  /\ card' \in [Cards -> Row \cup {None, Gone}]
         /\ Live \ {c} \subseteq Live' /\ Live' \subseteq Live
         /\ \A d \in Live' : card'[d] = card[d]
         /\ CardsGood /\ Grows => CardsGood'
<1>1. /\ card' \in [Cards -> Row \cup {None, Gone}]
      /\ Live \ {c} \subseteq Live' /\ Live' \subseteq Live
      /\ \A d \in Live' : card'[d] = card[d]
  BY DEF TypeOK, Live
<1>2. ASSUME CardsGood, Grows PROVE CardsGood'
  <2>1. ASSUME NEW d \in (Live \ (touched \cup byTitle))' PROVE Settles(card[d])'
    <3>1. d \in Live \ (touched \cup byTitle) /\ card'[d] = card[d] /\ Settles(card[d])
      BY <1>1, <1>2, <2>1 DEF CardsGood, Grows
    <3> QED
      BY <3>1 DEF Settles
  <2>2. ASSUME NEW d \in (Live \ stubs)' PROVE Complete(card[d])'
    <3>1. d \in Live \ stubs /\ card'[d] = card[d] /\ Complete(card[d])
      BY <1>1, <1>2, <2>2 DEF CardsGood, Grows
    <3> QED
      BY <3>1 DEF Complete
  <2> QED
    BY <2>1, <2>2 DEF CardsGood
<1> QED
  BY <1>1, <1>2

\* Without a job nothing is to be remembered of one.
LEMMA NoJob == ASSUME job' = None PROVE (ReadHolds /\ NotBlanked /\ SnapshotHolds)'
BY DEF ReadHolds, NotBlanked, SnapshotHolds, On

-----------------------------------------------------------------------------
(* The steps of scripts *)

LEMMA HomeForms ==
  ASSUME TypeOK, NEW r \in Releases, NEW c \in Cards, home' = [home EXCEPT ![r] = c]
  PROVE  home' \in [Releases -> Cards \cup {None}]
BY DEF TypeOK

LEMMA MoveForms ==
  ASSUME TypeOK, NEW d, NEW m \in Cards \cup {None},
         home' = [r \in Releases |-> IF home[r] = d THEN m ELSE home[r]]
  PROVE  home' \in [Releases -> Cards \cup {None}]
BY DEF TypeOK

\* No card is deleted and no release goes elsewhere.
Stays == UNCHANGED home /\ Live' = Live

LEMMA WorkForms == ASSUME TypeOK, Works PROVE work' \in 0 .. MaxWork
BY CatalogueAssumption DEF TypeOK, Works

LEMMA SyncStep ==
  ASSUME IInv, Vouched, NEW r \in Releases, NEW c \in Cards, AddNew(r, c) \/ AddToCard(r, c)
  PROVE  IInv'
<1> USE DEF IInv, Vouched, Grows
<1>1. CASE AddToCard(r, c)
  <2>1. TypeOK'
    BY <1>1, HomeForms, WorkForms DEF AddToCard, Idle, TypeOK
  <2>2. CardsGood'
    BY <1>1 DEF AddToCard, Idle, CardsGood, Live, Settles, Settled, Complete
  <2>3. job' = None
    BY <1>1 DEF AddToCard, Idle
  <2> QED
    BY <2>1, <2>2, <2>3, NoJob
<1>2. CASE AddNew(r, c)
  <2>0. PICK kp \in Ids \cup {None}, imdb \in Ids \cup {None}, has \in {{}, {"texts"}} :
          \E d \in Existing(kp, imdb, Category[c]) :
            \/ /\ d # None /\ card' = [card EXCEPT ![d] = Fill(@, Found(kp, imdb, None, has))]
               /\ home' = [home EXCEPT ![r] = d]
            \/ /\ d = None /\ NextCard(c)
               /\ card' = [card EXCEPT ![c] = NewRow(Found(kp, imdb, None, has))]
               /\ home' = [home EXCEPT ![r] = c]
    BY <1>2 DEF AddNew
  <2>1. PICK d \in Existing(kp, imdb, Category[c]) :
          \/ /\ d # None /\ card' = [card EXCEPT ![d] = Fill(@, Found(kp, imdb, None, has))]
             /\ home' = [home EXCEPT ![r] = d]
          \/ /\ d = None /\ NextCard(c)
             /\ card' = [card EXCEPT ![c] = NewRow(Found(kp, imdb, None, has))]
             /\ home' = [home EXCEPT ![r] = c]
    BY <2>0
  <2> DEFINE found == Found(kp, imdb, None, has)
  <2>2. found \in FoundSet /\ found.url = None
    BY FoundForms DEF Id, Fields
  <2>3. work' \in 0 .. MaxWork /\ job' = None /\ UNCHANGED <<touched, edits>>
    BY <1>2, WorkForms DEF AddNew, Idle
  <2>4. CASE d # None
    <3>1. d \in Live
      BY <2>4 DEF Existing
    <3>2. d \in Cards /\ card[d] \in Row
      BY <3>1, LiveRows
    <3> DEFINE row == Fill(card[d], found)
    <3>3. Update(d, row) /\ home' = [home EXCEPT ![r] = d]
      BY <2>1, <2>4, <3>1, <3>2 DEF Update, TypeOK
    <3>4. /\ row \in Row /\ (Settles(card[d]) => Settles(row))
          /\ (Complete(card[d]) => Complete(row))
      BY <2>2, <3>2, FillForms, FillKeeps
    <3> HIDE DEF row
    <3>5. card' \in [Cards -> Row \cup {None, Gone}]
      BY <3>2, <3>3, <3>4, UpdateForms
    <3>6. CardsGood'
      BY <2>3, <3>1, <3>2, <3>3, <3>4, WriteGood DEF CardsGood
    <3>7. TypeOK'
      BY <2>3, <3>2, <3>3, <3>5, HomeForms DEF TypeOK, Job
    <3> QED
      BY <2>3, <3>6, <3>7, NoJob
  <2>5. CASE d = None
    <3> DEFINE row == NewRow(found)
    <3>1. card' = [card EXCEPT ![c] = row] /\ home' = [home EXCEPT ![r] = c]
      BY <2>1, <2>5
    <3>2. row \in Row /\ Settles(row) /\ Complete(row)
      BY <2>2 DEF NewRow, Row, FoundSet, Settles, Complete
    <3> HIDE DEF row
    <3>3. /\ card' \in [Cards -> Row \cup {None, Gone}] /\ Live' = Live \cup {c}
          /\ card'[c] = row /\ \A e \in Cards \ {c} : card'[e] = card[e]
      BY <3>1, <3>2, OneRow
    <3>4. CardsGood'
      BY <2>3, <3>2, <3>3 DEF CardsGood, Live, Settles, Settled, Complete
    <3>5. TypeOK'
      BY <2>3, <3>1, <3>3, HomeForms DEF TypeOK, Job
    <3> QED
      BY <2>3, <3>4, <3>5, NoJob
  <2> QED
    BY <2>4, <2>5
<1> QED
  BY <1>1, <1>2

LEMMA FixStep == ASSUME IInv, Vouched, NEW c \in Cards, Fix(c) PROVE IInv' /\ Stays
<1> USE DEF IInv, Vouched, Grows
<1>1. PICK imdb \in Id, has \in SUBSET Fields :
        LET row == Fill(card[c], Found(None, imdb, None, has))
        IN  \E fixed \in {row.fixed, row.fixed \/ row.has = Fields} :
               Update(c, [row EXCEPT !.fixed = fixed])
  BY DEF Fix
<1> DEFINE row == Fill(card[c], Found(None, imdb, None, has))
<1>2. PICK fixed \in {row.fixed, row.fixed \/ row.has = Fields} :
        Update(c, [row EXCEPT !.fixed = fixed])
  BY <1>1
<1>3. (c \in Live /\ card[c] \in Row /\ Settles(card[c])) \/ c \in touched \cup byTitle
  BY LiveRows DEF Fix, CardsGood
<1>4. c \in Live /\ card[c] \in Row /\ (c \notin stubs => Complete(card[c]))
  BY LiveRows DEF Fix, CardsGood
<1>5. /\ row \in Row /\ (Settles(card[c]) => Settles(row))
      /\ (c \notin stubs => Complete(row))
  <2>1. Found(None, imdb, None, has) \in FoundSet /\ Found(None, imdb, None, has).url = None
    BY FoundForms DEF Id
  <2> QED
    BY <1>4, <2>1, FillForms, FillKeeps
<1> HIDE DEF row
<1> DEFINE new == [row EXCEPT !.fixed = fixed]
<1>6. fixed \in BOOLEAN
  BY <1>5 DEF Row
<1>7. new \in Row /\ (Settles(row) => Settles(new)) /\ new.fixed = fixed
      /\ new.kp = row.kp /\ new.imdb = row.imdb /\ new.has = row.has
  BY <1>5, <1>6, Flagged
<1>8. c \notin stubs => Complete(new)
  BY <1>2, <1>5, <1>7 DEF Complete
<1>9. Update(c, new)
  BY <1>2
<1> HIDE DEF new
<1>10. UNCHANGED <<touched, edits, home>> /\ job' = None /\ work' \in 0 .. MaxWork
  BY WorkForms DEF Fix, Idle
<1>11. CardsGood'
  BY <1>3, <1>5, <1>7, <1>8, <1>9, <1>10, WriteGood
<1>12. card' \in [Cards -> Row \cup {None, Gone}] /\ Live' = Live
  BY <1>7, <1>9, UpdateForms
<1>13. TypeOK'
  BY <1>10, <1>12 DEF TypeOK, Job
<1> QED
  BY <1>10, <1>11, <1>12, <1>13, NoJob DEF Stays

\* A script that has read a card.
LEMMA ReadStep ==
  ASSUME IInv, Vouched, NEW s \in RowScripts, NEW c \in Cards, Read(s, c)
  PROVE  IInv'
<1> USE DEF IInv, Vouched, Grows
<1>1. c \in Live /\ card[c] \in Row /\ UNCHANGED <<touched, edits, card, home>>
      /\ work' \in 0 .. MaxWork
  BY LiveRows, WorkForms DEF Read, Idle, table
<1>2. job' = [script |-> s, card |-> c, row |-> card[c]] /\ job' \in Job
  BY <1>1, JobForms DEF Read
<1>3. job'.script = s /\ job'.card = c /\ job'.row = card[c] /\ s # "cleanup"
  BY <1>2 DEF RowScripts
<1>4. TypeOK'
  BY <1>1, <1>2 DEF TypeOK
<1>5. CardsGood'
  BY <1>1 DEF CardsGood, Live, Settles, Settled, Complete
<1>6. (ReadHolds /\ NotBlanked /\ SnapshotHolds)'
  BY <1>1, <1>3 DEF ReadHolds, NotBlanked, SnapshotHolds, On, Known
<1> QED
  BY <1>4, <1>5, <1>6

\* What the reprocessing finds is written with a verdict that holds of the card.
LEMMA ReprocessStep == ASSUME IInv, Vouched, ReprocessWrite PROVE IInv' /\ Stays
<1> USE DEF IInv, Vouched, Grows
<1> DEFINE r == job.row
           c == job.card
<1>1. job # None /\ job.script = "reprocess" /\ r \in Row /\ c \in Cards
  BY JobParts DEF ReprocessWrite, On
<1>2. PICK kp \in Learn(r.kp), imdb \in Learn(r.imdb), has \in {{}, {"texts"}},
            renamed \in BOOLEAN, garbage \in BOOLEAN :
        LET found   == kp # r.kp \/ imdb # r.imdb \/ ~(has \subseteq r.has) \/ renamed
            all_ok  == r.has \cup has = Fields /\ Known(kp) /\ Known(imdb) /\ ~garbage
            or(id)  == IF Known(id) THEN id ELSE Blank
        IN  Update(c, [Fill(card[c], Found(or(kp), or(imdb), None, r.has \cup has))
                       EXCEPT !.fixed = all_ok \/ (~found /\ Known(kp) /\ Known(imdb))])
  BY DEF ReprocessWrite
<1> DEFINE or(id)  == IF Known(id) THEN id ELSE Blank
           found   == kp # r.kp \/ imdb # r.imdb \/ ~(has \subseteq r.has) \/ renamed
           all_ok  == r.has \cup has = Fields /\ Known(kp) /\ Known(imdb) /\ ~garbage
           fixed   == all_ok \/ (~found /\ Known(kp) /\ Known(imdb))
           new     == Found(or(kp), or(imdb), None, r.has \cup has)
           filled  == Fill(card[c], new)
           row     == [filled EXCEPT !.fixed = fixed]
<1>3. Update(c, row)
  BY <1>2
<1>4. fixed \in BOOLEAN
  OBVIOUS
<1>5. /\ fixed => Known(kp) /\ Known(imdb)
      /\ fixed => r.has \cup has = Fields \/ (kp = r.kp /\ imdb = r.imdb)
  OBVIOUS
<1> HIDE DEF fixed
<1>6. or(kp) \in Id /\ or(imdb) \in Id /\ r.has \cup has \in SUBSET Fields
  BY <1>1 DEF Learn, Id, Row, Fields
<1>7. /\ new \in FoundSet /\ new.kp = or(kp) /\ new.imdb = or(imdb) /\ new.url = None
      /\ new.has = r.has \cup has
  <2> HIDE DEF or, r
  <2>1. None \in Pages \cup {None}
    OBVIOUS
  <2> QED
    BY <1>6, <2>1, FoundForms
<1> HIDE DEF new
<1>8. ASSUME c \in Live
      PROVE  row \in Row /\ (c \notin touched \cup byTitle => Settles(row)) /\ Complete(row)
  <2>1. card[c] \in Row /\ (c \notin touched \cup byTitle => Settles(card[c]))
    BY <1>8, LiveRows DEF CardsGood
  <2>2. /\ filled \in Row /\ filled.kp = Coalesce(card[c].kp, or(kp))
        /\ filled.imdb = Coalesce(card[c].imdb, or(imdb))
        /\ filled.has = card[c].has \cup (r.has \cup has)
        /\ (Settles(card[c]) => Settles(filled))
    BY <1>7, <2>1, FillForms, FillKeeps
  <2> HIDE DEF filled
  <2>3. /\ row \in Row /\ (Settles(filled) => Settles(row)) /\ row.fixed = fixed
        /\ row.kp = filled.kp /\ row.imdb = filled.imdb /\ row.has = filled.has
    BY <1>4, <2>2, Flagged
  <2> HIDE DEF row
  <2>4. Complete(row)
    <3> SUFFICES ASSUME fixed PROVE row.has = Fields \/ (Known(row.kp) /\ Known(row.imdb))
      BY <2>3 DEF Complete
    <3>1. CASE r.has \cup has = Fields
      BY <2>1, <2>2, <2>3, <3>1 DEF Row
    <3>2. CASE kp = r.kp /\ imdb = r.imdb
      <4>1. Known(r.kp) /\ Known(r.imdb)
        BY <1>5, <3>2
      <4>2. card[c].kp # Blank /\ card[c].imdb # Blank
        BY <1>1, <1>8, <4>1 DEF NotBlanked, On
      <4>3. or(kp) = kp /\ or(imdb) = imdb
        BY <3>2, <4>1
      <4> QED
        BY <2>2, <2>3, <3>2, <4>1, <4>2, <4>3 DEF Known, Coalesce
    <3> QED
      BY <1>5, <3>1, <3>2
  <2> QED
    BY <2>1, <2>2, <2>3, <2>4
<1> HIDE DEF row, c
<1>9. UNCHANGED <<touched, edits, home, work>> /\ job' = None
  BY DEF ReprocessWrite, Quiet
<1>10. CardsGood'
  BY <1>1, <1>3, <1>8, <1>9, WriteGood
<1>11. card' \in [Cards -> Row \cup {None, Gone}] /\ Live' = Live
  BY <1>1, <1>3, <1>8, UpdateForms
<1>12. TypeOK'
  BY <1>9, <1>11 DEF TypeOK, Job
<1> QED
  BY <1>9, <1>10, <1>11, <1>12, NoJob DEF Stays

LEMMA ReprocessFailsStep == ASSUME IInv, Vouched, ReprocessFails PROVE IInv'
<1> USE DEF IInv, Vouched, Grows
<1>1. job # None /\ job.script = "reprocess" /\ job.card \in Cards
  BY JobParts DEF ReprocessFails, On
<1>2. UNCHANGED <<touched, edits, work>> /\ job' = None
  BY DEF ReprocessFails, Quiet
<1>3. card' = [card EXCEPT ![job.card] = Gone] \/ UNCHANGED card
  BY DEF ReprocessFails, table
<1>4. home' \in [Releases -> Cards \cup {None}]
  <2>1. CASE UNCHANGED table
    BY <2>1 DEF TypeOK, table
  <2>2. CASE ~UNCHANGED table
    <3>1. PICK d \in Live \ {job.card} :
            home' = [q \in Releases |-> IF home[q] = job.card THEN d ELSE home[q]]
      BY <2>2 DEF ReprocessFails
    <3> QED
      BY <3>1, MoveForms DEF Live
  <2> QED
    BY <2>1, <2>2
<1>5. CardsGood' /\ TypeOK'
  BY <1>1, <1>2, <1>3, <1>4, CardGoes DEF TypeOK, Job
<1> QED
  BY <1>2, <1>5, NoJob

\* A page whose ids do not conflict with those that were read agrees with the card,
\* which has them or, since it was read, other ones by the user's hand.
LEMMA PageStep ==
  ASSUME IInv, Vouched, job # None, job.script # "cleanup", WritePage, UNCHANGED touched
  PROVE  CardsGood' /\ card' \in [Cards -> Row \cup {None, Gone}] /\ Stays
<1> USE DEF IInv, Vouched, Grows
<1> DEFINE c == job.card
           id(shown, read) == IF Known(shown) THEN shown ELSE read
<1>1. c \in Cards /\ job.row \in Row
  BY JobParts
<1>2. PICK p \in Pages, score \in Scores, has \in SUBSET Fields :
        /\ Verdict(score, PageIds[p], job.row.kp, job.row.imdb) \in Valid
        /\ Update(c, Fill(card[c], Found(id(PageIds[p].kp, job.row.kp),
                                         id(PageIds[p].imdb, job.row.imdb), p, has)))
  BY DEF WritePage
<1> DEFINE new == Found(id(PageIds[p].kp, job.row.kp), id(PageIds[p].imdb, job.row.imdb), p, has)
           row == Fill(card[c], new)
<1>3. ~OtherId(job.row.kp, PageIds[p].kp) /\ ~OtherId(job.row.imdb, PageIds[p].imdb)
  BY <1>2, ConflictIsRefused
<1>4. PageIds[p].kp \in Ids \cup {None} /\ PageIds[p].imdb \in Ids \cup {None} /\ p # None
  BY CatalogueAssumption
<1>5. /\ new \in FoundSet /\ new.kp = id(PageIds[p].kp, job.row.kp)
      /\ new.imdb = id(PageIds[p].imdb, job.row.imdb) /\ new.url = p
  <2>1. /\ id(PageIds[p].kp, job.row.kp) \in Id /\ id(PageIds[p].imdb, job.row.imdb) \in Id
    BY <1>1, <1>4 DEF Id, Row
  <2> QED
    BY <2>1, FoundForms
<1> HIDE DEF new
<1>6. ASSUME c \in Live
      PROVE  /\ card[c] \in Row /\ row \in Row
             /\ row.kp = Coalesce(card[c].kp, new.kp)
             /\ row.imdb = Coalesce(card[c].imdb, new.imdb)
             /\ row.url = Coalesce(card[c].url, p)
             /\ row.fixed = card[c].fixed
  BY <1>5, <1>6, LiveRows, FillForms
<1>7. ASSUME c \in Live \ stubs PROVE Complete(row)
  BY <1>5, <1>6, <1>7, FillKeeps DEF CardsGood
<1>8. ASSUME c \in Live \ (touched \cup byTitle) PROVE Settles(row)
  <2>1. c \in Live
    BY <1>8
  <2>2. CASE card[c].url # None
    <3>1. Settles(card[c]) /\ row.url = card[c].url
      BY <1>6, <1>8, <2>2 DEF CardsGood, Coalesce
    <3>2. \A old, shown, other :
             Settled(old, shown) => Settled(Coalesce(old, other), shown)
      BY MatchingAssumption DEF Settled, Coalesce, Known
    <3> QED
      BY <1>6, <2>1, <2>2, <3>1, <3>2 DEF Settles
  <2>3. CASE card[c].url = None
    <3>1. row.url = p
      BY <1>6, <2>1, <2>3 DEF Coalesce
    <3>2. card[c].kp \in {job.row.kp, Blank} /\ card[c].imdb \in {job.row.imdb, Blank}
      BY <1>8 DEF ReadHolds
    <3>3. \A old, read, shown :
             old \in {read, Blank} /\ ~OtherId(read, shown)
               => Settled(Coalesce(old, id(shown, read)), shown)
      BY MatchingAssumption DEF Settled, Coalesce, Known, OtherId
    <3> QED
      BY <1>3, <1>5, <1>6, <2>1, <3>1, <3>2, <3>3 DEF Settles
  <2> QED
    BY <2>2, <2>3
<1>9. Update(c, row) /\ UNCHANGED home
  BY <1>2 DEF new, WritePage
<1> HIDE DEF row, c
<1>10. CardsGood'
  BY <1>1, <1>6, <1>7, <1>8, <1>9, WriteGood
<1> QED
  BY <1>1, <1>6, <1>9, <1>10, UpdateForms DEF Stays

LEMMA WritePageStep == ASSUME IInv, Vouched, RezkaWrite \/ SinglePage PROVE IInv' /\ Stays
<1> USE DEF IInv, Vouched, Grows
<1>1. /\ job # None /\ job.script # "cleanup" /\ WritePage /\ job' = None
      /\ UNCHANGED <<touched, work, edits>>
  BY DEF RezkaWrite, SinglePage, On, Quiet
<1>2. CardsGood' /\ card' \in [Cards -> Row \cup {None, Gone}] /\ Stays
  BY <1>1, PageStep
<1>3. TypeOK'
  BY <1>1, <1>2 DEF TypeOK, Job, Stays
<1> QED
  BY <1>1, <1>2, <1>3, NoJob

\* A step of single_item_update.py goes on with ids that the card has too, if
\* nobody edited it: those it knew, and those it has just filled in.
LEMMA SingleGoes ==
  ASSUME IInv, Vouched, job # None, job.script # "cleanup",
         NEW s \in RowScripts \ {"reprocess"}, NEW kp \in Id, NEW imdb \in Id,
         Goes(s, kp, imdb), UNCHANGED <<home, touched, work, edits>>,
         NEW new \in FoundSet, new.url = None,
         Update(job.card, Fill(card[job.card], new)) \/ UNCHANGED card,
         \A c \in Live \ touched : c = job.card =>
            /\ card[c] \in Row
            /\ card'[c].kp \in {kp, Blank} /\ card'[c].imdb \in {imdb, Blank}
  PROVE  IInv' /\ Stays
<1> USE DEF IInv, Vouched, Grows
<1> DEFINE c == job.card
           row == Fill(card[c], new)
<1>1. c \in Cards /\ job.row \in Row
      /\ job = [script |-> job.script, card |-> job.card, row |-> job.row]
  BY JobParts
<1>2. /\ job' = [job EXCEPT !.script = s, !.row.kp = kp, !.row.imdb = imdb]
  BY DEF Goes
<1>3. /\ job' = [script |-> s, card |-> c, row |-> [job.row EXCEPT !.kp = kp, !.imdb = imdb]]
  BY <1>1, <1>2
<1>4. /\ [job.row EXCEPT !.kp = kp, !.imdb = imdb] \in Row
      /\ [job.row EXCEPT !.kp = kp, !.imdb = imdb].kp = kp
      /\ [job.row EXCEPT !.kp = kp, !.imdb = imdb].imdb = imdb
  BY <1>1 DEF Row
<1>5. /\ job' \in Job /\ job'.script = s /\ job'.card = c
      /\ job'.row.kp = kp /\ job'.row.imdb = imdb
  BY <1>1, <1>3, <1>4, JobForms
<1>6. CASE Update(c, row)
  <2>1. ASSUME c \in Live
        PROVE  /\ row \in Row /\ (c \notin touched \cup byTitle => Settles(row))
               /\ (c \notin stubs => Complete(row))
    BY <2>1, LiveRows, FillForms, FillKeeps DEF CardsGood
  <2> HIDE DEF row
  <2>2. card' \in [Cards -> Row \cup {None, Gone}] /\ Live' = Live
    BY <1>1, <1>6, <2>1, UpdateForms
  <2>3. CardsGood'
    BY <1>1, <1>6, <2>1, WriteGood
  <2>4. TypeOK'
    BY <1>5, <2>2 DEF TypeOK
  <2>5. (ReadHolds /\ NotBlanked /\ SnapshotHolds)'
    BY <1>5, <2>2 DEF ReadHolds, NotBlanked, SnapshotHolds, On, RowScripts
  <2> QED
    BY <2>2, <2>3, <2>4, <2>5 DEF Stays
<1>7. CASE UNCHANGED card
  <2>1. CardsGood' /\ Live' = Live
    BY <1>7 DEF CardsGood, Live, Settles, Settled, Complete
  <2>2. TypeOK'
    BY <1>5, <1>7 DEF TypeOK
  <2>3. (ReadHolds /\ NotBlanked /\ SnapshotHolds)'
    BY <1>5, <2>1 DEF ReadHolds, NotBlanked, SnapshotHolds, On, RowScripts
  <2> QED
    BY <2>1, <2>2, <2>3 DEF Stays
<1> QED
  BY <1>6, <1>7

\* The card after a fill, as the script that has it in hand needs it.
LEMMA FilledIds ==
  ASSUME IInv, Vouched, job # None, job.script # "cleanup", NEW new \in FoundSet,
         Update(job.card, Fill(card[job.card], new)),
         NEW c \in Live \ touched, c = job.card
  PROVE  /\ card[c] \in Row
         /\ card'[c].kp = Coalesce(card[c].kp, new.kp)
         /\ card'[c].imdb = Coalesce(card[c].imdb, new.imdb)
         /\ card[c].kp \in {job.row.kp, Blank} /\ card[c].imdb \in {job.row.imdb, Blank}
<1>1. c \in Cards /\ card[c] \in Row /\ TypeOK
  BY LiveRows DEF IInv
<1>2. card'[c] = Fill(card[c], new)
  BY <1>1, FillForms, UpdateForms
<1>3. card[c].kp \in {job.row.kp, Blank} /\ card[c].imdb \in {job.row.imdb, Blank}
  BY DEF IInv, ReadHolds
<1> QED
  BY <1>1, <1>2, <1>3, FillForms

LEMMA RutorStep == ASSUME IInv, Vouched, SingleRutor PROVE IInv' /\ Stays
<1>1. job # None /\ job.script # "cleanup" /\ job.row \in Row
  BY JobParts DEF IInv, SingleRutor, On
<1>2. UNCHANGED <<home, touched, work, edits>>
  BY DEF SingleRutor, Quiet
<1>3. PICK kp \in Learn(job.row.kp), imdb \in Learn(job.row.imdb) :
        /\ Goes("tmdb", kp, imdb)
        /\ IF kp = job.row.kp /\ imdb = job.row.imdb THEN UNCHANGED card
           ELSE Update(job.card, Fill(card[job.card], Found(kp, imdb, None, {})))
  BY DEF SingleRutor
<1>4. kp \in Id /\ imdb \in Id
  BY <1>1 DEF Learn, Id, Row
<1> DEFINE new == Found(kp, imdb, None, {})
<1>5. new \in FoundSet /\ new.kp = kp /\ new.imdb = imdb /\ new.url = None
  BY <1>4, FoundForms
<1>6. \A c \in Live \ touched : c = job.card =>
         card[c] \in Row /\ card'[c].kp \in {kp, Blank} /\ card'[c].imdb \in {imdb, Blank}
  <2> SUFFICES ASSUME NEW c \in Live \ touched, c = job.card
               PROVE  card[c] \in Row /\ card'[c].kp \in {kp, Blank}
                                      /\ card'[c].imdb \in {imdb, Blank}
    OBVIOUS
  <2>1. CASE kp = job.row.kp /\ imdb = job.row.imdb
    BY <1>1, <1>3, <2>1, LiveRows DEF IInv, ReadHolds
  <2>2. CASE ~(kp = job.row.kp /\ imdb = job.row.imdb)
    <3>1. /\ card[c] \in Row
          /\ card'[c].kp = Coalesce(card[c].kp, kp)
          /\ card'[c].imdb = Coalesce(card[c].imdb, imdb)
          /\ card[c].kp \in {job.row.kp, Blank} /\ card[c].imdb \in {job.row.imdb, Blank}
      BY <1>1, <1>3, <1>5, <2>2, FilledIds
    <3>2. \A read, old, id :
             id \in Learn(read) /\ old \in {read, Blank} => Coalesce(old, id) \in {id, Blank}
      BY MatchingAssumption DEF Learn, Known, Coalesce
    <3> QED
      BY <3>1, <3>2
  <2> QED
    BY <2>1, <2>2
<1>7. Update(job.card, Fill(card[job.card], new)) \/ UNCHANGED card
  BY <1>3
<1> HIDE DEF new
<1> QED
  BY <1>1, <1>2, <1>3, <1>4, <1>5, <1>6, <1>7, SingleGoes DEF RowScripts

LEMMA TmdbStep == ASSUME IInv, Vouched, SingleTmdb PROVE IInv' /\ Stays
<1>1. job # None /\ job.script # "cleanup" /\ job.row \in Row
  BY JobParts DEF IInv, SingleTmdb, On
<1>2. UNCHANGED <<home, touched, work, edits>>
  BY DEF SingleTmdb, Quiet
<1>3. PICK imdb \in Learn(job.row.imdb), has \in {{}, {"texts"}} :
        LET or(id) == IF Known(id) THEN id ELSE None
            found  == IF imdb = job.row.imdb THEN None ELSE imdb
        IN  /\ Goes("poiskkino", job.row.kp, imdb)
            /\ \/ Update(job.card, Fill(card[job.card],
                                        Found(or(job.row.kp), found, None, has)))
               \/ found = None /\ UNCHANGED card
  BY DEF SingleTmdb
<1> DEFINE kp    == IF Known(job.row.kp) THEN job.row.kp ELSE None
           found == IF imdb = job.row.imdb THEN None ELSE imdb
           new   == Found(kp, found, None, has)
<1>4. job.row.kp \in Id /\ imdb \in Id /\ kp \in Id /\ found \in Id
      /\ has \in SUBSET Fields
  BY <1>1 DEF Learn, Id, Row, Fields
<1>6. Update(job.card, Fill(card[job.card], new)) \/ (found = None /\ UNCHANGED card)
  BY <1>3
<1>7. /\ found = None => imdb = job.row.imdb
      /\ found # None => ~Known(job.row.imdb) /\ found = imdb
      /\ kp \in {job.row.kp, None} /\ (Known(job.row.kp) => kp = job.row.kp)
  BY CatalogueAssumption DEF Learn
<1> HIDE DEF kp, found
<1>5. new \in FoundSet /\ new.kp = kp /\ new.imdb = found /\ new.url = None
  <2>1. None \in Pages \cup {None} /\ has \in SUBSET Fields
    BY <1>4
  <2> QED
    BY <1>4, <2>1, FoundForms
<1> HIDE DEF new
<1>8. \A c \in Live \ touched : c = job.card =>
         card[c] \in Row /\ card'[c].kp \in {job.row.kp, Blank} /\ card'[c].imdb \in {imdb, Blank}
  <2> SUFFICES ASSUME NEW c \in Live \ touched, c = job.card
               PROVE  card[c] \in Row /\ card'[c].kp \in {job.row.kp, Blank}
                                      /\ card'[c].imdb \in {imdb, Blank}
    OBVIOUS
  <2>1. CASE found = None /\ UNCHANGED card
    BY <1>1, <1>7, <2>1, LiveRows DEF IInv, ReadHolds
  <2>2. CASE Update(job.card, Fill(card[job.card], new))
    <3>1. /\ card[c] \in Row
          /\ card'[c].kp = Coalesce(card[c].kp, kp)
          /\ card'[c].imdb = Coalesce(card[c].imdb, found)
          /\ card[c].kp \in {job.row.kp, Blank} /\ card[c].imdb \in {job.row.imdb, Blank}
      BY <1>1, <1>5, <2>2, FilledIds
    <3>2. Coalesce(card[c].kp, kp) \in {job.row.kp, Blank}
      BY <1>7, <3>1, MatchingAssumption DEF Known, Coalesce
    <3>3. Coalesce(card[c].imdb, found) \in {imdb, Blank}
      BY <1>7, <3>1, MatchingAssumption DEF Known, Coalesce
    <3> QED
      BY <3>1, <3>2, <3>3
  <2> QED
    BY <1>6, <2>1, <2>2
<1>9. Goes("poiskkino", job.row.kp, imdb)
  BY <1>3
<1> QED
  BY <1>1, <1>2, <1>4, <1>5, <1>6, <1>8, <1>9, SingleGoes DEF RowScripts

LEMMA PoiskKinoStep == ASSUME IInv, Vouched, SinglePoiskKino PROVE IInv' /\ Stays
<1>1. job # None /\ job.script # "cleanup" /\ job.row.kp \in Id /\ job.row.imdb \in Id
  BY JobParts DEF IInv, SinglePoiskKino, On, Row
<1>2. UNCHANGED <<home, touched, work, edits>> /\ Goes("page", job.row.kp, job.row.imdb)
  BY DEF SinglePoiskKino, Quiet
<1>3. PICK has \in {{}, {"kp_rating"}} :
        Update(job.card, Fill(card[job.card], Found(None, None, None, has)))
  BY DEF SinglePoiskKino
<1> DEFINE new == Found(None, None, None, has)
<1>4. new \in FoundSet /\ new.kp = None /\ new.imdb = None /\ new.url = None
  BY FoundForms DEF Id, Fields
<1>5. Update(job.card, Fill(card[job.card], new))
  BY <1>3
<1> HIDE DEF new
<1>6. \A c \in Live \ touched : c = job.card =>
         /\ card[c] \in Row
         /\ card'[c].kp \in {job.row.kp, Blank} /\ card'[c].imdb \in {job.row.imdb, Blank}
  <2> SUFFICES ASSUME NEW c \in Live \ touched, c = job.card
               PROVE  /\ card[c] \in Row
                      /\ card'[c].kp \in {job.row.kp, Blank}
                      /\ card'[c].imdb \in {job.row.imdb, Blank}
    OBVIOUS
  <2>1. /\ card[c] \in Row
        /\ card'[c].kp = Coalesce(card[c].kp, None)
        /\ card'[c].imdb = Coalesce(card[c].imdb, None)
        /\ card[c].kp \in {job.row.kp, Blank} /\ card[c].imdb \in {job.row.imdb, Blank}
    BY <1>1, <1>4, <1>5, FilledIds
  <2> QED
    BY <2>1 DEF Coalesce
<1> QED
  BY <1>1, <1>2, <1>4, <1>5, <1>6, SingleGoes DEF RowScripts

LEMMA CleanupReadStep == ASSUME IInv, Vouched, CleanupRead PROVE IInv'
<1> USE DEF IInv, Vouched, Grows
<1>1. /\ UNCHANGED <<card, home, touched, edits>> /\ work' \in 0 .. MaxWork
      /\ job' = [script |-> "cleanup", rows |-> card, merged |-> {}]
  BY WorkForms DEF CleanupRead, Idle, table
<1>2. job' \in Job
  BY <1>1, JobForms DEF TypeOK
<1>3. job'.script = "cleanup" /\ job'.rows = card /\ job'.merged = {}
  BY <1>1
<1>4. TypeOK' /\ CardsGood'
  BY <1>1, <1>2 DEF TypeOK, CardsGood, Live, Settles, Settled, Complete
<1>5. (ReadHolds /\ NotBlanked /\ SnapshotHolds)'
  BY <1>1, <1>3 DEF ReadHolds, NotBlanked, SnapshotHolds, On, Live
<1> QED
  BY <1>4, <1>5

LEMMA MergeStep == ASSUME IInv, Vouched, NEW m \in Cards, NEW d \in Cards, Merge(m, d) PROVE IInv'
<1> USE DEF IInv, Vouched, Grows
<1>1. /\ job # None /\ job.script = "cleanup"
      /\ job.rows \in [Cards -> Row \cup {None, Gone}] /\ job.merged \in SUBSET Cards
      /\ job = [script |-> "cleanup", rows |-> job.rows, merged |-> job.merged]
  BY JobParts DEF Merge, On
<1>2. job' = [job EXCEPT !.merged = @ \cup {d}] /\ UNCHANGED <<touched, work, edits>>
  BY DEF Merge, Quiet
<1>3. job' = [script |-> "cleanup", rows |-> job.rows, merged |-> job.merged \cup {d}]
  BY <1>1, <1>2
<1>4. /\ job' \in Job /\ job'.script = "cleanup" /\ job'.rows = job.rows
      /\ job'.merged = job.merged \cup {d}
  BY <1>1, <1>3, JobForms
<1>5. card' = [card EXCEPT ![d] = Gone] \/ UNCHANGED card
  BY DEF Merge
<1>6. home' \in [Releases -> Cards \cup {None}]
  BY MoveForms DEF Merge
<1>7. card' \in [Cards -> Row \cup {None, Gone}] /\ Live \ {d} \subseteq Live' /\ CardsGood'
  BY <1>2, <1>5, CardGoes
<1>8. TypeOK'
  BY <1>2, <1>4, <1>6, <1>7 DEF TypeOK
<1>9. (ReadHolds /\ NotBlanked /\ SnapshotHolds)'
  BY <1>1, <1>2, <1>4, <1>7 DEF ReadHolds, NotBlanked, SnapshotHolds, On
<1> QED
  BY <1>7, <1>8, <1>9

LEMMA EndsStep == ASSUME IInv, Vouched, Ends PROVE IInv'
<1> USE DEF IInv, Vouched, Grows
<1>1. UNCHANGED <<card, home, touched, work, edits>> /\ job' = None
  BY DEF Ends, Quiet, table
<1>2. TypeOK' /\ CardsGood'
  BY <1>1 DEF TypeOK, Job, CardsGood, Live, Settles, Settled, Complete
<1> QED
  BY <1>1, <1>2, NoJob

-----------------------------------------------------------------------------
(* The syncs of collections *)

\* An id that is filled in for Trakt
LEMMA LearntRow ==
  ASSUME TypeOK, NEW c \in Live, LearnImdb(c)
  PROVE  \E row \in Row :
           /\ Update(c, row) /\ UNCHANGED home
           /\ row.kp = card[c].kp /\ row.imdb \in {card[c].imdb, None} \cup Ids
           /\ Complete(card[c]) => Complete(row)
           /\ Settles(card[c]) => Settles(row)
<1>1. PICK imdb \in Ids \cup {None}, has \in {{}, {"texts"}} :
        Update(c, Fill(card[c], Found(None, imdb, None, has)))
  BY DEF LearnImdb
<1> DEFINE new == Found(None, imdb, None, has)
<1>2. new \in FoundSet /\ new.kp = None /\ new.imdb = imdb /\ new.url = None
  <2>1. None \in Id /\ imdb \in Id /\ None \in Pages \cup {None} /\ has \in SUBSET Fields
    BY DEF Id, Fields
  <2> QED
    BY <2>1, FoundForms
<1> HIDE DEF new
<1>3. card[c] \in Row
  BY LiveRows
<1>4. /\ Fill(card[c], new) \in Row
      /\ Fill(card[c], new).kp = card[c].kp
      /\ Fill(card[c], new).imdb \in {card[c].imdb, None} \cup Ids
      /\ Complete(card[c]) => Complete(Fill(card[c], new))
      /\ Settles(card[c]) => Settles(Fill(card[c], new))
  BY <1>2, <1>3, FillForms, FillKeeps DEF Coalesce
<1>5. Update(c, Fill(card[c], new)) /\ UNCHANGED home
  BY <1>1 DEF new, LearnImdb
<1> QED
  BY <1>4, <1>5

LEMMA PushCardStep == ASSUME IInv, Vouched, NEW c \in Cards, PushCard(c) PROVE IInv' /\ Stays
<1> USE DEF IInv, Vouched, Grows
<1>1. /\ c \in Live /\ UNCHANGED <<touched, edits, home>> /\ job' = None
      /\ work' \in 0 .. MaxWork
  BY WorkForms DEF PushCard, Idle, LearnImdb
<1>2. PICK row \in Row :
        /\ Update(c, row)
        /\ Complete(card[c]) => Complete(row)
        /\ Settles(card[c]) => Settles(row)
  BY <1>1, LearntRow DEF PushCard
<1>3. CardsGood'
  BY <1>1, <1>2, WriteGood DEF CardsGood
<1>4. card' \in [Cards -> Row \cup {None, Gone}] /\ Live' = Live
  BY <1>2, UpdateForms
<1>5. TypeOK'
  BY <1>1, <1>4 DEF TypeOK, Job
<1> QED
  BY <1>1, <1>3, <1>4, <1>5, NoJob DEF Stays

\* A page taken by its title takes the card out of those it speaks of.
LEMMA FindPageStep == ASSUME IInv, NEW c \in Cards, FindPage(c) PROVE IInv' /\ Stays
<1> USE DEF IInv, Grows
<1>1. /\ c \in Live /\ UNCHANGED <<touched, edits, home, stubs>> /\ job' = None
      /\ work' \in 0 .. MaxWork
  BY WorkForms DEF FindPage, Idle
<1>2. PICK p \in Pages : Update(c, Fill(card[c], Found(None, None, p, {})))
  BY DEF FindPage
<1> DEFINE new == Found(None, None, p, {})
           row == Fill(card[c], new)
<1>3. card[c] \in Row /\ new \in FoundSet /\ new.kp = None /\ new.imdb = None
  BY <1>1, LiveRows, FoundForms DEF Id
<1> HIDE DEF new
<1>4. /\ row \in Row /\ row.kp = card[c].kp /\ row.imdb = card[c].imdb
      /\ row.url = Coalesce(card[c].url, new.url)
      /\ Complete(card[c]) => Complete(row)
  BY <1>3, FillForms, FillKeeps DEF Coalesce
<1>5. Update(c, row)
  BY <1>2 DEF new
<1> HIDE DEF row
<1>6. byTitle' = IF card[c].url = None THEN byTitle \cup {c} ELSE byTitle
  BY DEF FindPage
<1>7. c \notin (touched \cup byTitle)' => Settles(row)
  BY <1>1, <1>4, <1>6 DEF CardsGood, Settles, Coalesce
<1>8. CardsGood'
  BY <1>1, <1>4, <1>5, <1>6, <1>7, WriteGood DEF CardsGood
<1>9. card' \in [Cards -> Row \cup {None, Gone}] /\ Live' = Live
  BY <1>4, <1>5, UpdateForms
<1>10. TypeOK'
  BY <1>1, <1>6, <1>9 DEF TypeOK, Job
<1> QED
  BY <1>1, <1>8, <1>9, <1>10, NoJob DEF Stays

\* A new row: of a page that shows its ids, without a page, or a stub with the flag.
LEMMA NewCardStep ==
  ASSUME IInv, NEW c \in Cards, AddMember(c) \/ AddStub(c)
  PROVE  IInv' /\ UNCHANGED home /\ Live \subseteq Live'
<1> USE DEF IInv, Grows
<1>1. /\ UNCHANGED <<touched, edits, home, byTitle>> /\ job' = None
      /\ work' \in 0 .. MaxWork /\ stubs \subseteq stubs' /\ stubs' \subseteq Cards
  BY WorkForms DEF AddMember, AddStub, Idle, TypeOK
<1>2. PICK row \in Row :
        card' = [card EXCEPT ![c] = row] /\ Settles(row) /\ (c \notin stubs' => Complete(row))
  <2>1. CASE AddStub(c)
    <3> DEFINE new == NewRow(Found(None, None, None, {}))
    <3>1. /\ new \in Row /\ [new EXCEPT !.fixed = TRUE] \in Row
          /\ [new EXCEPT !.fixed = TRUE].url = None
      BY DEF NewRow, Found, Row, Id
    <3>2. card' = [card EXCEPT ![c] = [new EXCEPT !.fixed = TRUE]] /\ c \in stubs'
      BY <2>1 DEF AddStub
    <3> QED
      BY <3>1, <3>2 DEF Settles
  <2>2. CASE AddMember(c)
    <3>1. PICK has \in SUBSET Fields :
            \/ \E p \in Pages :
                  card' = [card EXCEPT ![c] =
                              NewRow(Found(PageIds[p].kp, PageIds[p].imdb, p, has))]
            \/ \E imdb \in Ids \cup {Blank} :
                  card' = [card EXCEPT ![c] =
                              NewRow(Found(None, imdb, None, has \ {"kp_rating"}))]
      BY <2>2 DEF AddMember
    <3>2. ASSUME NEW p \in Pages
          PROVE  LET row == NewRow(Found(PageIds[p].kp, PageIds[p].imdb, p, has))
                 IN  row \in Row /\ Settles(row) /\ Complete(row)
      <4>1. PageIds[p].kp \in Ids \cup {None} /\ PageIds[p].imdb \in Ids \cup {None}
        BY CatalogueAssumption
      <4> QED
        BY <4>1 DEF NewRow, Found, Row, Id, Settles, Settled, Complete
    <3>3. ASSUME NEW imdb \in Ids \cup {Blank}
          PROVE  LET row == NewRow(Found(None, imdb, None, has \ {"kp_rating"}))
                 IN  row \in Row /\ Settles(row) /\ Complete(row)
      BY DEF NewRow, Found, Row, Id, Settles, Complete
    <3> QED
      BY <3>1, <3>2, <3>3
  <2> QED
    BY <2>1, <2>2
<1>3. /\ card' \in [Cards -> Row \cup {None, Gone}]
      /\ Live' = Live \cup {c} /\ card'[c] = row /\ \A e \in Cards \ {c} : card'[e] = card[e]
  BY <1>2, OneRow
<1>4. CardsGood'
  BY <1>1, <1>2, <1>3 DEF CardsGood, Live, Settles, Settled, Complete
<1>5. TypeOK'
  BY <1>1, <1>3 DEF TypeOK, Job
<1> QED
  BY <1>1, <1>3, <1>4, <1>5, NoJob

-----------------------------------------------------------------------------
(* The user *)

\* An edit of a card in the hands of a script: it is touched from then on.
LEMMA EditForms ==
  ASSUME IInv, Vouched, NEW c \in Cards, Edit(c)
  PROVE  /\ c \in Live /\ card[c] \in Row /\ edits' = edits + 1 /\ edits' \in 0 .. MaxEdits
         /\ touched' = touched \cup {c} /\ touched' \subseteq Cards
         /\ UNCHANGED <<job, work>>
BY LiveRows, CatalogueAssumption DEF IInv, Edit, TypeOK

\* The user writes no empty string and no flag that is not due.
LEMMA RowEdited ==
  ASSUME IInv, Vouched, NEW c \in Cards, Edit(c), UNCHANGED home, NEW row \in Row, Update(c, row),
         c \notin stubs => Complete(row), row.kp \in {card[c].kp, None} \cup Ids,
         row.imdb \in {card[c].imdb, None} \cup Ids
  PROVE  IInv'
<1> USE DEF IInv, Vouched, Grows
<1>1. /\ c \in Live /\ edits' \in 0 .. MaxEdits /\ touched' = touched \cup {c}
      /\ touched' \subseteq Cards /\ UNCHANGED <<job, work>>
  BY EditForms
<1>2. /\ card' \in [Cards -> Row \cup {None, Gone}] /\ Live' = Live /\ card'[c] = row
      /\ \A d \in Cards \ {c} : card'[d] = card[d]
  BY <1>1, UpdateForms
<1>3. CardsGood'
  BY <1>1, WriteGood
<1>4. TypeOK'
  BY <1>1, <1>2 DEF TypeOK
<1>5. ReadHolds'
  BY <1>1, <1>2 DEF ReadHolds, Live
<1>6. NotBlanked'
  <2> SUFFICES ASSUME On("reprocess"), job.card \in Live
               PROVE  /\ Known(job.row.kp) => card'[job.card].kp # Blank
                      /\ Known(job.row.imdb) => card'[job.card].imdb # Blank
    BY <1>1, <1>2 DEF NotBlanked, On, Known
  <2>1. /\ Known(job.row.kp) => card[job.card].kp # Blank
        /\ Known(job.row.imdb) => card[job.card].imdb # Blank
    BY DEF NotBlanked
  <2>2. CASE job.card = c
    BY <1>2, <2>1, <2>2, CatalogueAssumption, MatchingAssumption
  <2>3. CASE job.card # c
    BY <1>2, <2>1, <2>3 DEF Live
  <2> QED
    BY <2>2, <2>3
<1>7. SnapshotHolds'
  BY <1>1, <1>2 DEF SnapshotHolds, On
<1> QED
  BY <1>3, <1>4, <1>5, <1>6, <1>7

\* The rows that the user's edits make.
LEMMA EditedRows ==
  ASSUME NEW row \in Row
  PROVE  /\ \A id \in Ids \cup {None} :
               /\ [row EXCEPT !.kp = id, !.fixed = FALSE] \in Row
               /\ [row EXCEPT !.kp = id, !.fixed = FALSE].kp = id
               /\ [row EXCEPT !.kp = id, !.fixed = FALSE].imdb = row.imdb
               /\ ~[row EXCEPT !.kp = id, !.fixed = FALSE].fixed
               /\ [row EXCEPT !.imdb = id, !.fixed = FALSE] \in Row
               /\ [row EXCEPT !.imdb = id, !.fixed = FALSE].kp = row.kp
               /\ [row EXCEPT !.imdb = id, !.fixed = FALSE].imdb = id
               /\ ~[row EXCEPT !.imdb = id, !.fixed = FALSE].fixed
         /\ \A p \in Pages \cup {None} :
               /\ [row EXCEPT !.url = p, !.fixed = FALSE] \in Row
               /\ [row EXCEPT !.url = p, !.fixed = FALSE].kp = row.kp
               /\ [row EXCEPT !.url = p, !.fixed = FALSE].imdb = row.imdb
               /\ ~[row EXCEPT !.url = p, !.fixed = FALSE].fixed
         /\ \A f \in Fields :
               /\ [row EXCEPT !.has = @ \ {f}, !.fixed = FALSE] \in Row
               /\ [row EXCEPT !.has = @ \ {f}, !.fixed = FALSE].kp = row.kp
               /\ [row EXCEPT !.has = @ \ {f}, !.fixed = FALSE].imdb = row.imdb
               /\ ~[row EXCEPT !.has = @ \ {f}, !.fixed = FALSE].fixed
BY DEF Row, Id

LEMMA UserStep ==
  ASSUME IInv, Vouched, NEW c \in Cards,
         SetId(c) \/ Rebind(c) \/ ResetItem(c) \/ Collect(c) \/ DeleteItem(c)
  PROVE  IInv'
<1>1. Edit(c)
  BY DEF SetId, Rebind, ResetItem, Collect, DeleteItem
<1>2. card[c] \in Row /\ c \in Live
  BY <1>1, EditForms
<1>3. CASE SetId(c)
  <2>1. PICK id \in Ids : Update(c, [card[c] EXCEPT !.kp = id, !.fixed = FALSE]) \/
                          Update(c, [card[c] EXCEPT !.imdb = id, !.fixed = FALSE])
    BY <1>3 DEF SetId
  <2>2. UNCHANGED home
    BY <1>3 DEF SetId
  <2>3. ASSUME NEW row, Update(c, row),
               row \in {[card[c] EXCEPT !.kp = id, !.fixed = FALSE],
                       [card[c] EXCEPT !.imdb = id, !.fixed = FALSE]}
        PROVE  IInv'
    <3>1. /\ row \in Row /\ ~row.fixed
          /\ row.kp \in {card[c].kp, None} \cup Ids /\ row.imdb \in {card[c].imdb, None} \cup Ids
      <4>1. id \in Ids \cup {None}
        OBVIOUS
      <4>2. CASE row = [card[c] EXCEPT !.kp = id, !.fixed = FALSE]
        BY <1>2, <4>1, <4>2, EditedRows
      <4>3. CASE row = [card[c] EXCEPT !.imdb = id, !.fixed = FALSE]
        BY <1>2, <4>1, <4>3, EditedRows
      <4> QED
        BY <2>3, <4>2, <4>3
    <3> QED
      BY <1>1, <2>2, <2>3, <3>1, RowEdited DEF Complete
  <2> QED
    BY <2>1, <2>3
<1>4. CASE Rebind(c)
  <2>1. PICK p \in Pages : Update(c, [card[c] EXCEPT !.url = p, !.fixed = FALSE])
    BY <1>4 DEF Rebind
  <2> QED
    BY <1>1, <1>2, <1>4, <2>1, EditedRows, RowEdited DEF Rebind, Complete
<1>5. CASE ResetItem(c)
  <2> UNCHANGED home
    BY <1>5 DEF ResetItem
  <2>1. CASE \/ Update(c, [card[c] EXCEPT !.kp = None, !.fixed = FALSE])
             \/ Update(c, [card[c] EXCEPT !.imdb = None, !.fixed = FALSE])
    BY <1>1, <1>2, <2>1, EditedRows, RowEdited DEF Complete
  <2>2. CASE Update(c, [card[c] EXCEPT !.url = None, !.fixed = FALSE])
    BY <1>1, <1>2, <2>2, EditedRows, RowEdited DEF Complete
  <2>3. CASE \E f \in Fields : Update(c, [card[c] EXCEPT !.has = @ \ {f}, !.fixed = FALSE])
    <3>1. PICK f \in Fields : Update(c, [card[c] EXCEPT !.has = @ \ {f}, !.fixed = FALSE])
      BY <2>3
    <3> QED
      BY <1>1, <1>2, <3>1, EditedRows, RowEdited DEF Complete
  <2> QED
    BY <1>5, <2>1, <2>2, <2>3 DEF ResetItem
<1>6. CASE DeleteItem(c)
  <2> USE DEF IInv, Vouched, Grows
  <2>1. /\ edits' \in 0 .. MaxEdits /\ touched' = touched \cup {c}
        /\ touched' \subseteq Cards /\ UNCHANGED <<job, work>>
    BY <1>1, EditForms
  <2>2. card' = [card EXCEPT ![c] = Gone] /\ home' \in [Releases -> Cards \cup {None}]
    BY <1>6, MoveForms DEF DeleteItem
  <2>3. /\ card' \in [Cards -> Row \cup {None, Gone}]
        /\ Live \ {c} \subseteq Live' /\ Live' \subseteq Live
        /\ \A d \in Live' : card'[d] = card[d]
        /\ CardsGood'
    BY <2>1, <2>2, CardGoes
  <2>4. TypeOK'
    BY <2>1, <2>2, <2>3 DEF TypeOK
  <2>5. ReadHolds'
    BY <2>1, <2>3 DEF ReadHolds
  <2>6. NotBlanked'
    BY <2>1, <2>3 DEF NotBlanked, On, Known
  <2>7. SnapshotHolds'
    BY <2>1, <2>3 DEF SnapshotHolds, On
  <2> QED
    BY <2>3, <2>4, <2>5, <2>6, <2>7
<1>7. CASE Collect(c)
  <2>1. PICK row \in Row :
          /\ Update(c, row) /\ UNCHANGED home
          /\ row.kp = card[c].kp /\ row.imdb \in {card[c].imdb, None} \cup Ids
          /\ Complete(card[c]) => Complete(row)
          /\ Settles(card[c]) => Settles(row)
    BY <1>2, <1>7, LearntRow DEF Collect, IInv
  <2> QED
    BY <1>1, <1>2, <2>1, RowEdited DEF IInv, CardsGood
<1> QED
  BY <1>3, <1>4, <1>5, <1>6, <1>7

-----------------------------------------------------------------------------
(* The theorems of Catalogue *)

LEMMA Started == ASSUME Init PROVE IInv
<1>1. TypeOK
  BY CatalogueAssumption DEF Init, TypeOK, Job
<1>2. Live = {} /\ job = None
  BY DEF Init, Live
<1> QED
  BY <1>1, <1>2 DEF IInv, CardsGood, ReadHolds, NotBlanked, SnapshotHolds, On

LEMMA Step == ASSUME IInv, [Next]_vars PROVE IInv'
<1>1. CASE UNCHANGED vars
  BY <1>1 DEF vars, IInv, TypeOK, CardsGood, Live, Settles, Settled, Complete, ReadHolds,
              NotBlanked, SnapshotHolds, On, Known
<1>2. CASE Vouched /\ Sync
  BY <1>2, SyncStep DEF Sync
<1>3. CASE Vouched /\ \E c \in Cards : Fix(c) \/ PushCard(c)
  BY <1>3, FixStep, PushCardStep
<1>4. CASE Vouched /\ Reprocess
  BY <1>4, ReadStep, ReprocessStep, ReprocessFailsStep DEF Reprocess, ReprocessRead, RowScripts
<1>5. CASE Vouched /\ (Rezka \/ Single)
  BY <1>5, ReadStep, WritePageStep, RutorStep, TmdbStep, PoiskKinoStep
  DEF Rezka, Single, RezkaRead, SingleRead, RowScripts
<1>6. CASE Vouched /\ Cleanup
  BY <1>6, CleanupReadStep, MergeStep DEF Cleanup
<1>7. CASE Vouched /\ (Ends \/ User)
  BY <1>7, EndsStep, UserStep DEF User
<1>8. CASE Unchecked
  BY <1>8, FindPageStep, NewCardStep DEF Unchecked
<1> QED
  BY <1>1, <1>2, <1>3, <1>4, <1>5, <1>6, <1>7, <1>8 DEF Next

LEMMA Invariant == Spec => []IInv
BY Started, Step, PTL DEF Spec

\* Rows, releases and what scripts hold of them keep their types, whatever ids and
\* pages the services give.
THEOREM CatalogueTypeCorrect == Spec => []TypeOK
<1>1. IInv => TypeOK
  BY DEF IInv
<1> QED
  BY <1>1, Invariant, PTL

\* rezka_sync.py, single_item_update.py and whatever fills in ids later: the page of
\* a card the user left alone shows no other id than the card has, unless the sync of
\* rezka's folders took it for the card's title.
THEOREM PagesAgree == Spec => []PageAgrees
<1>1. IInv => PageAgrees
  BY DEF IInv, CardsGood, Settles, Settled, PageAgrees, OtherId, Known
<1> QED
  BY <1>1, Invariant, PTL

\* fix_posters.py and reprocess_database.py: the flag stands only on a card with its
\* texts and rating or with both ids, though it is set by what was read before; but
\* for the cards tmdb_sync.py makes.
THEOREM FixedCardsComplete == Spec => []FixedIsComplete
<1>1. IInv => FixedIsComplete
  BY DEF IInv, CardsGood, Complete, FixedIsComplete
<1> QED
  BY <1>1, Invariant, PTL

-----------------------------------------------------------------------------
(* Releases *)

\* A new card does not replace another, a release with a card goes to no other.
LEMMA SyncKeeps ==
  ASSUME IInv, Vouched, NEW q \in Releases, NEW c \in Cards, AddNew(q, c) \/ AddToCard(q, c)
  PROVE  Kept
<1>1. \A r \in Releases : home[r] \in Live => home'[r] = home[r]
  <2>1. home \in [Releases -> Cards \cup {None}]
    BY DEF IInv, TypeOK
  <2>2. CASE AddToCard(q, c)
    BY <2>1, <2>2 DEF AddToCard
  <2>3. CASE AddNew(q, c)
    <3>1. home[q] \notin Live /\ \E d : home' = [home EXCEPT ![q] = d]
      BY <2>3 DEF AddNew
    <3> QED
      BY <2>1, <3>1
  <2> QED
    BY <2>2, <2>3
<1>2. Live \subseteq Live'
  <2>1. CASE AddToCard(q, c)
    BY <2>1 DEF AddToCard, Live
  <2>2. CASE AddNew(q, c)
    <3>1. PICK kp \in Ids \cup {None}, imdb \in Ids \cup {None}, has \in {{}, {"texts"}} :
            \E d \in Existing(kp, imdb, Category[c]) :
              \/ d # None /\ card' = [card EXCEPT ![d] = Fill(@, Found(kp, imdb, None, has))]
              \/ /\ d = None /\ NextCard(c)
                 /\ card' = [card EXCEPT ![c] = NewRow(Found(kp, imdb, None, has))]
      BY <2>2 DEF AddNew
    <3> DEFINE found == Found(kp, imdb, None, has)
    <3>2. found \in FoundSet /\ NewRow(found) \in Row
      BY FoundForms DEF Id, Fields, NewRow, Row, FoundSet
    <3>3. PICK d \in Existing(kp, imdb, Category[c]) :
            \/ d # None /\ card' = [card EXCEPT ![d] = Fill(card[d], found)]
            \/ d = None /\ card' = [card EXCEPT ![c] = NewRow(found)]
      BY <3>1
    <3> HIDE DEF found
    <3>4. CASE d # None
      <4>1. d \in Cards /\ Fill(card[d], found) \in Row
        BY <3>2, <3>4, LiveRows, FillForms DEF Existing, IInv
      <4> QED
        BY <3>3, <3>4, <4>1, OneRow DEF IInv
    <3>5. CASE d = None
      BY <3>2, <3>3, <3>5, OneRow DEF IInv
    <3> QED
      BY <3>4, <3>5
  <2> QED
    BY <2>1, <2>2
<1> QED
  BY <1>1, <1>2 DEF Kept

\* Releases go from a card that is deleted to one of the snapshot, which is there
\* or was the user's to delete.
LEMMA MergeKeeps ==
  ASSUME IInv, Vouched, NEW m \in Cards, NEW d \in Cards, Merge(m, d)
  PROVE  Kept
<1>1. card' = [card EXCEPT ![d] = Gone] \/ UNCHANGED card
  BY DEF Merge
<1>2. Live \ {d} \subseteq Live'
  BY <1>1, CardGoes DEF IInv
<1>3. m \in Live \cup touched /\ m # d
  BY DEF Merge, IInv, SnapshotHolds
<1>4. \A r \in Releases : home'[r] = IF home[r] = d THEN m ELSE home[r]
  BY DEF Merge
<1> QED
  BY <1>2, <1>3, <1>4 DEF Kept

LEMMA FailureKeeps == ASSUME IInv, Vouched, ReprocessFails PROVE Kept
<1>1. CASE UNCHANGED table
  BY <1>1 DEF table, Kept, Live
<1>2. CASE ~UNCHANGED table
  <2>1. PICK d \in Live \ {job.card} :
          /\ home' = [r \in Releases |-> IF home[r] = job.card THEN d ELSE home[r]]
          /\ card' = IF job.card \in Live THEN [card EXCEPT ![job.card] = Gone] ELSE card
    BY <1>2 DEF ReprocessFails
  <2>2. Live \ {job.card} \subseteq Live'
    BY <2>1 DEF IInv, TypeOK, Live
  <2>3. \A r \in Releases : home'[r] = IF home[r] = job.card THEN d ELSE home[r]
    BY <2>1
  <2> QED
    BY <2>2, <2>3 DEF Kept
<1> QED
  BY <1>1, <1>2

\* cleanup_duplicates.py, reprocess_database.py and sync_job.py: a release stays with
\* a card that is there, but for the user's deletions.
THEOREM ReleasesStay == Spec => ReleasesKept
<1>1. IInv /\ [Next]_vars => Kept
  <2> SUFFICES ASSUME IInv, [Next]_vars PROVE Kept
    OBVIOUS
  <2>0. Stays => Kept
    BY DEF Stays, Kept
  <2>1. CASE UNCHANGED vars
    BY <2>1 DEF vars, Kept, Live
  <2>2. CASE Vouched /\ Sync
    BY <2>2, SyncKeeps DEF Sync
  <2>3. CASE Vouched /\ \E c \in Cards : Fix(c) \/ PushCard(c)
    BY <2>0, <2>3, FixStep, PushCardStep
  <2>4. CASE \E s \in RowScripts, c \in Cards : Read(s, c)
    BY <2>4 DEF Read, table, Kept, Live
  <2>5. CASE Vouched /\ Reprocess
    BY <2>0, <2>4, <2>5, ReprocessStep, FailureKeeps
    DEF Reprocess, ReprocessRead, RowScripts
  <2>6. CASE Vouched /\ (Rezka \/ Single)
    BY <2>0, <2>4, <2>6, WritePageStep, RutorStep, TmdbStep, PoiskKinoStep
    DEF Rezka, Single, RezkaRead, SingleRead, RowScripts
  <2>7. CASE CleanupRead \/ Ends
    BY <2>7 DEF CleanupRead, Ends, table, Kept, Live
  <2>8. CASE Vouched /\ Cleanup
    BY <2>7, <2>8, MergeKeeps DEF Cleanup
  <2>9. CASE Vouched /\ User
    <3>1. PICK c \in Cards : Edit(c)
      BY <2>9 DEF User, SetId, Rebind, ResetItem, Collect, DeleteItem
    <3>2. edits' # edits
      BY <2>9, <3>1, EditForms DEF IInv, TypeOK
    <3> QED
      BY <3>2 DEF Kept
  <2>10. CASE Unchecked
    BY <2>0, <2>10, FindPageStep, NewCardStep DEF Unchecked, Kept
  <2> QED
    BY <2>1, <2>2, <2>3, <2>5, <2>6, <2>7, <2>8, <2>9, <2>10 DEF Next
<1> QED
  BY <1>1, Invariant, PTL DEF Spec, ReleasesKept
=============================================================================

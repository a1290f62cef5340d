------------------------------ MODULE Matching -------------------------------
(***************************************************************************)
(* How a result of a search is weighed against a card: rezka_sync.py,      *)
(* sync_kinopub.py and tmdb_client.py.  Two titles are compared as strings *)
(* in the code; here a pair of titles is of one of the kinds the code      *)
(* tells apart, and two years are their difference, None if one is         *)
(* unknown.                                                                *)
(***************************************************************************)
EXTENDS Integers, Sequences, FiniteSets, Functions

CONSTANTS
    None,       \* Python's None, NULL in the database
    Blank       \* the empty string

ASSUME MatchingAssumption == None \notin Int /\ None # Blank

Known(id) == id \notin {None, Blank}

-----------------------------------------------------------------------------
(* rezka: _score_candidates, _evaluate_candidate *)

\* What one title of the card and one of the result are to each other.  "alike"
\* stands for a ratio from 0.85, worth int(ratio * 90); it is worth 76 here.
KindScore == [equal |-> 130, within |-> 50, alike |-> 76, other |-> 0]
Kind      == DOMAIN KindScore

\* The titles of the result are gone through up to the first equal one.
Reached(row) ==
    {n \in DOMAIN row : \A m \in 1 .. n - 1 : row[m] # "equal"}

RowScore(row) ==
    SumFunctionOnSet([n \in DOMAIN row |-> KindScore[row[n]]], Reached(row))

Hits(row) == \E n \in DOMAIN row : row[n] # "other"

\* The rows are those of the titles of the card; the first that hits counts.
TitleScore(rows) ==
    IF \A n \in DOMAIN rows : ~Hits(rows[n]) THEN 0
    ELSE RowScore(rows[CHOOSE n \in DOMAIN rows :
                          Hits(rows[n]) /\ \A m \in 1 .. n - 1 : ~Hits(rows[m])])

YearScore(diff) ==
    CASE diff = None -> 0
      [] diff = 0    -> 60
      [] diff = 1    -> 50
      [] diff \in {2, 3} -> -40
      [] OTHER       -> -80

\* Another weight if the search named no year and the page does.
PageYearScore(diff, pageDiff) == IF diff = None THEN YearScore(pageDiff) ELSE 0

SameId(mine, shown)  == Known(mine) /\ Known(shown) /\ mine = shown
OtherId(mine, shown) == Known(mine) /\ Known(shown) /\ mine # shown

\* By the titles and years alone: enough of a score for what the ids leave open.
ByTitle(score, mine, shown) ==
    CASE mine /\ ~shown /\ score >= 90                       -> "trust_by_title"
      [] ~mine /\ shown /\ score >= 110                      -> "page_ids_high_score"
      [] ~mine /\ score >= 90 /\ ~(shown /\ score >= 110)     -> "high_score"
      [] OTHER                                               -> "none"

\* Variant in which an id that matches excuses one that does not.
VerdictMatchFirst(score, page, kp, imdb) ==
    IF SameId(kp, page.kp) \/ SameId(imdb, page.imdb) THEN "id_match"
    ELSE IF OtherId(kp, page.kp) \/ OtherId(imdb, page.imdb) THEN "conflict"
    ELSE ByTitle(score, Known(kp) \/ Known(imdb), Known(page.kp) \/ Known(page.imdb))

\* The verdict on a page that shows the ids page.kp and page.imdb, of a card with
\* the ids kp and imdb.
Verdict(score, page, kp, imdb) ==
    IF OtherId(kp, page.kp) \/ OtherId(imdb, page.imdb) THEN "conflict"
    ELSE IF SameId(kp, page.kp) \/ SameId(imdb, page.imdb) THEN "id_match"
    ELSE ByTitle(score, Known(kp) \/ Known(imdb), Known(page.kp) \/ Known(page.imdb))

Valid == {"id_match", "trust_by_title", "page_ids_high_score", "high_score"}

\* The page that is taken, if any, of the results: pages with their verdicts, in
\* the order of their scores.  An id found on the page goes before any title.
Taken(results, n) ==
    LET ids  == {m \in DOMAIN results : results[m] = "id_match"}
        best == IF ids # {} THEN ids ELSE {m \in DOMAIN results : results[m] \in Valid}
    IN  n \in best /\ \A m \in best : n <= m

-----------------------------------------------------------------------------
(* kino.pub: score_candidate, best_candidate *)

\* The pieces of the title are gone through up to the first that is equal to or
\* within a title of the result.
PieceScore(pieces) ==
    IF \A n \in DOMAIN pieces : pieces[n] = "other" THEN 0
    ELSE LET n == CHOOSE n \in DOMAIN pieces :
                      pieces[n] # "other" /\ \A m \in 1 .. n - 1 : pieces[m] = "other"
         IN  IF pieces[n] = "equal" THEN 50 ELSE 20

KinopubYear(diff, serial) ==
    CASE diff = None -> 0
      [] diff = 0    -> 60
      [] diff = 1    -> 30
      [] OTHER       -> IF serial THEN 0 ELSE -80

TypeScore(type) == CASE type = "same" -> 40 [] type = "opposite" -> -40 [] OTHER -> 0

\* c: a result, by its ids (same as one of the card's or not), titles, year and type.
KinopubScore(c, serial) ==
    IF c.sameId THEN 1000
    ELSE IF PieceScore(c.pieces) = 0 THEN 0
    ELSE PieceScore(c.pieces) + KinopubYear(c.diff, serial) + TypeScore(c.type)

\* The result that is bound, if any: the first of the best, from 60 points.
Bound(results, serial, n) ==
    LET score(m) == KinopubScore(results[m], serial)
    IN  /\ n \in DOMAIN results /\ score(n) >= 60
        /\ \A m \in DOMAIN results : score(m) <= score(n)
        /\ \A m \in 1 .. n - 1 : score(m) < score(n)

-----------------------------------------------------------------------------
(* TMDB: search_movie *)

\* hit: an equal title, one within another of more than four letters, or none
TmdbScore(hit, diff) ==
    (CASE hit = "equal" -> 120 [] hit = "within" -> 40 [] OTHER -> 0) +
    (CASE diff = None -> 0
       [] diff = 0    -> 60
       [] diff = 1    -> 40
       [] diff \in {2, 3} -> -20
       [] OTHER       -> -80)

TmdbAccepts(hit, diff) == TmdbScore(hit, diff) >= 130

\* answers: for each query the set of its results [id, hit, diff], none if the
\* requests failed, or None if TMDB refuses the key.  After a result that cannot
\* be bettered the other query is not made.
TmdbAsked(answers, n) ==
    /\ n \in DOMAIN answers
    /\ \A m \in 1 .. n - 1 :
          answers[m] # None /\ \A r \in answers[m] : TmdbScore(r.hit, r.diff) < 180

TmdbCandidates(answers) ==
    UNION {answers[n] : n \in {m \in DOMAIN answers : TmdbAsked(answers, m)}}

\* r is a result that search_movie may return.
TmdbFound(answers, r) ==
    /\ \A n \in DOMAIN answers : TmdbAsked(answers, n) => answers[n] # None
    /\ r \in TmdbCandidates(answers) /\ TmdbAccepts(r.hit, r.diff)
    /\ \A c \in TmdbCandidates(answers) :
          TmdbScore(c.hit, c.diff) <= TmdbScore(r.hit, r.diff)

=============================================================================

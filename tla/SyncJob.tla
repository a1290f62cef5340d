------------------------------ MODULE SyncJob -------------------------------
(***************************************************************************)
(* The tracker sync script: run_sync of sync_job.py, over many runs, with  *)
(* the checkpoint file between them and the tracker publishing meanwhile.  *)
(*                                                                         *)
(* A run walks the categories in order.  In each it reads pages, newest    *)
(* release first, collects what is not older than the newest release the   *)
(* database holds of that category, stores it item by item in one          *)
(* transaction, and commits.  That date is the only memory of what was     *)
(* seen: a release that is neither stored nor as new as it is lost.        *)
(*                                                                         *)
(* Time is a count of instants, DayLength of them a day.  The tracker      *)
(* shows the time of a release on its day and the day after it (today   *)
(* or yesterday, HH:MM), words that are read against the clock, and later  *)
(* only the day: the same release has a smaller date then.                 *)
(* Titles, metadata and items are left out but for what one item groups.   *)
(***************************************************************************)
EXTENDS Naturals, Sequences, FiniteSets

CONSTANTS
    Cats,           \* CATEGORIES_TO_SYNC of this mode, in order
    Release,        \* torrent ids
    CategoryOf,     \* the category a release is published in
    TitleOf,        \* releases of one title and year make one item
    Seeded,         \* releases the database holds from the start
    Backlog,        \* releases published before the first run, oldest first
    Undated,        \* releases whose date cell does not parse
    Wanted,         \* releases within MIN_YEAR .. MAX_YEAR, or of no video category
    UsesTmdb,       \* categories whose new items ask TMDB
    ManualDates,    \* values of manual_min_date
    PageSize,       \* rows of a tracker page
    Depth,          \* SYNC_PAGE_DEPTH
    DayLength,
    MaxClock,       \* bound on time
    MaxBreaks,      \* bound on the runs that end early
    Faults,         \* environment faults that can happen, a subset of FaultKind
    None            \* Python's None

FaultKind == {"limit", "page", "removal"}
Category == {Cats[i] : i \in DOMAIN Cats}

ASSUME SyncAssumption ==
    /\ Cats \in Seq(Category)
    /\ \A i, j \in DOMAIN Cats : Cats[i] = Cats[j] => i = j
    /\ IsFiniteSet(Release)
    /\ CategoryOf \in [Release -> Category]
    /\ DOMAIN TitleOf = Release
    /\ Seeded \subseteq Release
    /\ \A r, s \in Seeded : CategoryOf[r] = CategoryOf[s] => r = s
    /\ Backlog \in Seq(Release \ Seeded)
    /\ \A i, j \in DOMAIN Backlog : Backlog[i] = Backlog[j] => i = j
    /\ Undated \subseteq Release \ Seeded
    /\ Wanted \subseteq Release
    /\ UsesTmdb \subseteq Category
    /\ ManualDates \subseteq Nat
    /\ PageSize \in Nat \ {0} /\ Depth \in Nat /\ DayLength \in Nat \ {0}
    /\ MaxClock \in Nat /\ Len(Backlog) <= MaxClock /\ MaxBreaks \in Nat
    /\ Faults \subseteq FaultKind
    /\ None \notin Nat \cup Category

VARIABLES
    clock,
    posted,         \* when a release was published
    listed,         \* releases the tracker lists now
    db,             \* date_added of the committed releases
    cp,             \* checkpoint file, or None
    flag,           \* stop flag
    breaks,         \* runs that ended early so far
    pc,             \* where the script is, "off" when it does not run
    manual,         \* manual_min_date, or None
    done,           \* completed_cats
    resume,         \* resume_cat_id and resume_page
    cat,            \* cat_id
    target,         \* current_target
    page_start,
    page,
    empty_pages,    \* empty_pages_in_a_row
    shift,          \* releases published in cat since its last page was read
    batch,          \* all_raw_releases
    read,           \* the day on which the date cell of each of them was read
    left,           \* those of unique_movies still to be processed
    pending,        \* date_added of the releases in the open transaction
    due             \* history: what the scan of cat has to bring

tracker == <<clock, posted, listed>>
run     == <<manual, done, resume>>
scan    == <<cat, target, page_start, page, empty_pages, shift, batch, read, left,
             pending, due>>
vars    == <<tracker, db, cp, flag, breaks, pc, run, scan>>

-----------------------------------------------------------------------------
(* The tracker *)

Instant == 0 .. MaxClock
Moment == 0 .. 2 * MaxClock         \* a date may lie past the clock: see DateNow
DatesTyped(f) == DOMAIN f \subseteq Release /\ f \in [DOMAIN f -> Moment]
NoDates == [r \in {} |-> 0]

Day(t) == t \div DayLength
TimeShown(r, today) == Day(posted[r]) + 1 >= today

\* parse_rutor_date of the cell of r as the tracker shows it now.
Date(r) == IF TimeShown(r, Day(clock)) THEN posted[r] ELSE Day(posted[r]) * DayLength

\* parse_rutor_date of the cell read before: a today or yesterday of that day is
\* taken for one of this day.
DateNow(r) ==
    IF TimeShown(r, read[r]) THEN posted[r] + (Day(clock) - read[r]) * DayLength
    ELSE Day(posted[r]) * DayLength

Listed(c) == {r \in listed : CategoryOf[r] = c}

\* Newest first: what stands before r in its category.
Rank(r) == Cardinality({s \in Listed(CategoryOf[r]) : posted[s] > posted[r]})
OnPage(c, p) == {r \in Listed(c) : Rank(r) \div PageSize = p}

\* get_last_release_date(category_id)
DatesOf(c) == {db[r] : r \in {s \in DOMAIN db : CategoryOf[s] = c}}
LastDate(c) ==
    IF DatesOf(c) = {} THEN None
    ELSE CHOOSE d \in DatesOf(c) : \A e \in DatesOf(c) : e <= d

Checkpoint == [done : SUBSET Category, cat : Category \cup {None}, page : Nat]
NoResume == [cat |-> None, page |-> 0]

TypeOK ==
    /\ clock \in Instant
    /\ DatesTyped(posted) /\ DatesTyped(db) /\ DatesTyped(pending)
    /\ read \in [batch -> Nat]
    /\ listed \subseteq DOMAIN posted
    /\ cp \in Checkpoint \cup {None}
    /\ flag \in BOOLEAN
    /\ breaks \in 0 .. MaxBreaks
    /\ pc \in {"off", "cats", "page", "group", "items", "save"}
    /\ manual \in Nat \cup {None}
    /\ done \subseteq Category
    /\ resume \in [cat : Category \cup {None}, page : Nat]
    /\ cat \in Category \cup {None}
    /\ target \in Nat \cup {None}
    /\ page_start \in Nat /\ page \in Nat
    /\ empty_pages \in 0 .. 2 /\ shift \in Nat
    /\ left \subseteq batch /\ batch \subseteq Release /\ due \subseteq Release

Late == {Backlog[i] : i \in DOMAIN Backlog}

NoScan ==
    /\ cat = None /\ target = None /\ page_start = 0 /\ page = 0
    /\ empty_pages = 0 /\ shift = 0 /\ batch = {} /\ read = NoDates /\ left = {}
    /\ pending = NoDates /\ due = {}

Init ==
    /\ clock = Len(Backlog)
    /\ posted = [r \in Seeded \cup Late |->
                   IF r \in Seeded THEN 0 ELSE CHOOSE i \in DOMAIN Backlog : Backlog[i] = r]
    /\ listed = Seeded \cup Late
    /\ db = [r \in Seeded |-> 0]
    /\ cp = None /\ flag = FALSE /\ breaks = 0
    /\ pc = "off" /\ manual = None /\ done = {} /\ resume = NoResume
    /\ NoScan

ScriptIdle == UNCHANGED <<db, flag, breaks, pc, run, scan>>

\* A page holds a hundred rows and is asked for a moment after the one before
\* it: less than a page is published in between.
Publish(r) ==
    /\ clock < MaxClock /\ r \notin DOMAIN posted
    /\ IF pc = "page" /\ CategoryOf[r] = cat
       THEN shift + 1 < PageSize /\ shift' = shift + 1
       ELSE UNCHANGED shift
    /\ clock' = clock + 1
    /\ posted' = [s \in DOMAIN posted \cup {r} |-> IF s = r THEN clock + 1 ELSE posted[s]]
    /\ listed' = listed \cup {r}
    /\ UNCHANGED <<db, cp, flag, breaks, pc, run, cat, target, page_start, page,
                   empty_pages, batch, read, left, pending, due>>

\* Nothing is published until the next day begins.
NightPasses ==
    /\ (Day(clock) + 1) * DayLength <= MaxClock
    /\ clock' = (Day(clock) + 1) * DayLength
    /\ UNCHANGED <<posted, listed, cp>> /\ ScriptIdle

\* A moderator takes a release off the tracker.
Remove(r) ==
    /\ "removal" \in Faults /\ r \in listed
    /\ listed' = listed \ {r}
    /\ UNCHANGED <<clock, posted, cp>> /\ ScriptIdle

-----------------------------------------------------------------------------
(* A run *)

ScanEnds ==
    /\ cat' = None /\ target' = None /\ page_start' = 0 /\ page' = 0
    /\ empty_pages' = 0 /\ shift' = 0 /\ batch' = {} /\ read' = NoDates
    /\ left' = {} /\ pending' = NoDates /\ due' = {}

RunEnds ==
    /\ pc' = "off" /\ manual' = None /\ done' = {} /\ resume' = NoResume
    /\ ScanEnds

\* The checkpoint is read and the stop flag of an earlier run removed.
BeginRun ==
    /\ pc = "off" /\ pc' = "cats"
    /\ manual' \in ManualDates \cup {None}
    /\ done' = IF cp = None THEN {} ELSE cp.done
    /\ resume' = IF cp = None THEN NoResume ELSE [cat |-> cp.cat, page |-> cp.page]
    /\ flag' = FALSE
    /\ UNCHANGED <<tracker, db, cp, breaks, scan>>

Accepted(r, t) == r \in Wanted /\ (r \in Undated \/ Date(r) >= t)

\* The next category that is not completed; its cut-off is read.
BeginCategory ==
    /\ pc = "cats" /\ pc' = "page"
    /\ \E i \in DOMAIN Cats :
        /\ Cats[i] \notin done /\ \A j \in 1 .. (i - 1) : Cats[j] \in done
        /\ cat' = Cats[i]
        /\ target' = IF manual # None THEN manual ELSE LastDate(Cats[i])
        /\ page_start' = IF resume.cat = Cats[i] THEN resume.page ELSE 0
    /\ page' = page_start'
    /\ empty_pages' = 0 /\ shift' = 0 /\ batch' = {} /\ read' = NoDates
    /\ due' = IF target' = None THEN {}
              ELSE {r \in Listed(cat') : Accepted(r, target') /\ Rank(r) < Depth * PageSize}
    /\ UNCHANGED <<tracker, db, cp, flag, breaks, run, left, pending>>

PageOnly == UNCHANGED <<tracker, db, cp, flag, breaks, run, cat, target, page_start,
                        left, pending, due>>

Collect(new) ==
    /\ batch' = batch \cup new
    /\ read' = [r \in batch \cup new |-> IF r \in batch THEN read[r] ELSE Day(clock)]

\* Variant that stops at the first page without a new release.
ReadPageOnce ==
    /\ pc = "page" /\ ~flag /\ page < Depth
    /\ OnPage(cat, page) # {}
    /\ target # None \/ OnPage(cat, page) \subseteq Undated
    /\ LET new == {r \in OnPage(cat, page) : Accepted(r, target)} IN
        /\ Collect(new) /\ shift' = 0
        /\ empty_pages' = IF new = {} THEN empty_pages + 1 ELSE 0
        /\ IF new = {} THEN pc' = "group" /\ UNCHANGED page
                       ELSE page' = page + 1 /\ UNCHANGED pc
    /\ PageOnly

\* A page with rows; two without a new release in a row end the scan.
ReadPage ==
    /\ pc = "page" /\ ~flag /\ page < Depth
    /\ OnPage(cat, page) # {}
    /\ target # None \/ OnPage(cat, page) \subseteq Undated
    /\ LET new == {r \in OnPage(cat, page) : Accepted(r, target)} IN
        /\ Collect(new) /\ shift' = 0
        /\ empty_pages' = IF new = {} THEN empty_pages + 1 ELSE 0
        /\ IF empty_pages' = 2 THEN pc' = "group" /\ UNCHANGED page
                               ELSE page' = page + 1 /\ UNCHANGED pc
    /\ PageOnly

\* The end of the listing, the last page, or (a fault) a page that could not be
\* fetched: get_category_releases returns [] for that, too.
PagesEnd ==
    /\ pc = "page" /\ pc' = "group"
    /\ \/ page >= Depth
       \/ ~flag /\ (OnPage(cat, page) = {} \/ "page" \in Faults)
    /\ UNCHANGED <<page, empty_pages, shift, batch, read>> /\ PageOnly

\* Nothing collected: the category is completed, in memory only.
NothingNew ==
    /\ pc = "group" /\ batch = {} /\ pc' = "cats"
    /\ done' = done \cup {cat}
    /\ ScanEnds
    /\ UNCHANGED <<tracker, db, cp, flag, breaks, manual, resume>>

GroupReleases ==
    /\ pc = "group" /\ batch # {} /\ pc' = "items"
    /\ left' = batch
    /\ UNCHANGED <<tracker, db, cp, flag, breaks, run, cat, target, page_start, page,
                   empty_pages, shift, batch, read, pending, due>>

\* The releases of the item that comes first, the one with the newest release.
FirstItem ==
    {s \in left : \E r \in left : /\ TitleOf[s] = TitleOf[r]
                                  /\ \A q \in left : posted[q] <= posted[r]}

\* Variant that stores no date for an undated release.
ProcessItemUndated ==
    /\ pc = "items" /\ ~flag /\ left # {}
    /\ left' = left \ FirstItem
    /\ LET new == FirstItem \ (DOMAIN db \cup DOMAIN pending) IN
        pending' = [r \in DOMAIN pending \cup new |->
                      IF r \in DOMAIN pending THEN pending[r]
                      ELSE IF r \in Undated THEN None ELSE DateNow(r)]
    /\ UNCHANGED <<tracker, db, cp, flag, breaks, pc, run, cat, target, page_start,
                   page, empty_pages, shift, batch, read, due>>

\* A known release is left as it is, a new one stored with its date or, when
\* that did not parse, with the current time.
ProcessItem ==
    /\ pc = "items" /\ ~flag /\ left # {}
    /\ left' = left \ FirstItem
    /\ LET new == FirstItem \ (DOMAIN db \cup DOMAIN pending) IN
        pending' = [r \in DOMAIN pending \cup new |->
                      IF r \in DOMAIN pending THEN pending[r]
                      ELSE IF r \in Undated THEN clock ELSE DateNow(r)]
    /\ UNCHANGED <<tracker, db, cp, flag, breaks, pc, run, cat, target, page_start,
                   page, empty_pages, shift, batch, read, due>>

Stored == [r \in DOMAIN db \cup DOMAIN pending |->
             IF r \in DOMAIN db THEN db[r] ELSE pending[r]]

\* Variant without conn.commit().
CommitNothing ==
    /\ pc = "items" /\ left = {} /\ pc' = "save"
    /\ pending' = NoDates
    /\ UNCHANGED <<tracker, db, cp, flag, breaks, run, cat, target, page_start, page,
                   empty_pages, shift, batch, read, left, due>>

Commit ==
    /\ pc = "items" /\ left = {} /\ pc' = "save"
    /\ db' = Stored /\ pending' = NoDates
    /\ UNCHANGED <<tracker, cp, flag, breaks, run, cat, target, page_start, page,
                   empty_pages, shift, batch, read, left, due>>

\* The checkpoint after a category.
SaveProgress ==
    /\ pc = "save" /\ pc' = "cats"
    /\ done' = done \cup {cat}
    /\ cp' = [done |-> done \cup {cat}, cat |-> None, page |-> 0]
    /\ ScanEnds
    /\ UNCHANGED <<tracker, db, flag, breaks, manual, resume>>

\* Variant that leaves the checkpoint.
FinishQuietly ==
    /\ pc = "cats" /\ Category \subseteq done
    /\ RunEnds
    /\ UNCHANGED <<tracker, db, cp, flag, breaks>>

\* All categories are done: clear_checkpoint.
Finish ==
    /\ pc = "cats" /\ Category \subseteq done
    /\ cp' = None
    /\ RunEnds
    /\ UNCHANGED <<tracker, db, flag, breaks>>

-----------------------------------------------------------------------------
(* Runs that end early *)

Breaks == breaks < MaxBreaks /\ breaks' = breaks + 1

StopHere(p) ==
    /\ cp' = [done |-> done, cat |-> cat, page |-> p]
    /\ RunEnds
    /\ UNCHANGED <<tracker, db, flag, breaks>>

StopAtPage == pc = "page" /\ flag /\ page < Depth /\ StopHere(page)

\* Variant that commits what is processed.
StopAtItemCommitting ==
    /\ pc = "items" /\ flag /\ left # {}
    /\ db' = Stored
    /\ cp' = [done |-> done, cat |-> cat, page |-> page_start + Depth]
    /\ RunEnds
    /\ UNCHANGED <<tracker, flag, breaks>>

\* The connection is closed without a commit, and the checkpoint points past
\* the last page.
StopAtItem ==
    /\ pc = "items" /\ flag /\ left # {}
    /\ StopHere(page_start + Depth)

\* TMDB's limit is reached at a new item: what is processed is committed.  An
\* item's title may have been refined since, so one of the same title may be new.
LimitReached ==
    /\ "limit" \in Faults /\ Breaks
    /\ pc = "items" /\ ~flag /\ left # {} /\ cat \in UsesTmdb
    /\ \A r \in FirstItem : r \notin DOMAIN db \cup DOMAIN pending
    /\ db' = Stored
    /\ cp' = [done |-> done, cat |-> cat, page |-> page_start]
    /\ RunEnds
    /\ UNCHANGED <<tracker, flag>>

\* A dated release is compared with a cut-off that is None: TypeError.
CutoffMissing ==
    /\ pc = "page" /\ ~flag /\ page < Depth
    /\ target = None /\ ~(OnPage(cat, page) \subseteq Undated)
    /\ RunEnds
    /\ UNCHANGED <<tracker, db, cp, flag, breaks>>

\* The process is terminated, or an exception ends it.
Dies ==
    /\ pc # "off" /\ Breaks
    /\ RunEnds
    /\ UNCHANGED <<tracker, db, cp, flag>>

RequestStop ==
    /\ pc # "off" /\ ~flag /\ flag' = TRUE /\ Breaks
    /\ UNCHANGED <<tracker, db, cp, pc, run, scan>>

\* The runner after an exit code 0, or the user.
ClearCheckpoint ==
    /\ cp # None /\ cp' = None
    /\ UNCHANGED tracker /\ ScriptIdle

-----------------------------------------------------------------------------

Script ==
    \/ BeginRun \/ BeginCategory \/ ReadPage \/ PagesEnd \/ NothingNew
    \/ GroupReleases \/ ProcessItem \/ Commit \/ SaveProgress \/ Finish
    \/ StopAtPage \/ StopAtItem \/ CutoffMissing

Next ==
    \/ Script \/ LimitReached \/ Dies \/ RequestStop \/ ClearCheckpoint
    \/ NightPasses
    \/ \E r \in Release : Publish(r) \/ Remove(r)

Spec == Init /\ [][Next]_vars

\* The job is started again and again, and a started script runs.
FairSpec == Spec /\ WF_vars(Script)

-----------------------------------------------------------------------------
(* Properties *)

\* The cut-off has passed r: no later run accepts it.
Behind(r) ==
    /\ r \in DOMAIN posted /\ LastDate(CategoryOf[r]) # None
    /\ Date(r) < LastDate(CategoryOf[r])

\* A release of r's category and day is stored, and only the day of r is shown now.
SharesDay(r) ==
    /\ ~TimeShown(r, Day(clock))
    /\ \E s \in DOMAIN db : CategoryOf[s] = CategoryOf[r] /\ Day(posted[s]) = Day(posted[r])

\* A release of r's category was read before a midnight and stored after it.
DatePutForward(r) ==
    \E s \in DOMAIN db \ Undated : CategoryOf[s] = CategoryOf[r] /\ db[s] > posted[s]

\* A wanted release that is not stored falls behind the cut-off of its category for
\* one of two reasons only, both in how dates are read: one of its day is stored with
\* a time and it has lost its own, or one was stored with a date of the day after.
\* Stops, kills and resumes around the commits add no third, as long as no two pages
\* in a row hold only unwanted releases.
NothingSkipped ==
    \A r \in (Wanted \cap listed) \ (DOMAIN db \cup Undated) :
        Behind(r) => SharesDay(r) \/ DatePutForward(r)

\* A category read from its first page brings all that the cut-off let through when
\* the reading began, and still does, though the tracker's pages shift under it.
\* (What of the cut-off's own day shows no time any more is not let through.)
ScanIsComplete ==
    [][page_start = 0 /\ cat # None /\ pc' = "save"
         => {r \in due : Accepted(r, target)} \subseteq DOMAIN db']_vars

\* The checkpoint does not run ahead of the transaction: when it names a category
\* completed, all that this run collected of it is committed.
CheckpointNotAhead ==
    [][\A c \in Category :
         cp' # cp /\ cp' # None /\ c \in cp'.done \ done /\ c = cat
           => batch \subseteq DOMAIN db']_vars

\* Every wanted release reaches the database, or falls behind the cut-off in one of
\* the two ways of NothingSkipped.
EverythingArrives ==
    \A r \in Wanted \ Seeded : r \in DOMAIN posted ~> r \in DOMAIN db \/ Behind(r)

=============================================================================

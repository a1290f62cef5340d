------------------------------- MODULE Passes --------------------------------
(***************************************************************************)
(* The passes over the catalogue that ask a service about every item and   *)
(* mark it as checked: sync_kinopub.py, rezka_sync.py, fix_posters.py (its *)
(* two services are two passes) and reprocess_database.py.                 *)
(*                                                                         *)
(* The marks in the database are the queue: a pass asks about the items    *)
(* its query selects, from the newest id down, and an item it marks is not *)
(* asked about again until the user resets it.  The task queue of the      *)
(* server runs one pass at a time (Jobs); requests of the user interleave  *)
(* with it.  What is written into an item is in Catalogue; here an item is *)
(* bound to kino.pub or not, and has all the other passes look for or not. *)
(***************************************************************************)
EXTENDS Naturals, FiniteSets

CONSTANTS
    Items,              \* ids of the items of the video categories
    Scripts,            \* the passes that are run, a subset of Pass
    BatchSize,          \* items of a batch: 30 of rezka, a LIMIT of the others
    CheckpointEvery,    \* CHECKPOINT_EVERY of sync_kinopub
    MaxBreaks,          \* bound on limits, failed logins, stops and kills
    MaxEdits,           \* bound on the user's requests
    None                \* Python's None

Fixers == {"tech", "poiskkino"}
Pass   == {"kinopub", "rezka", "reprocess"} \cup Fixers

\* The checkpoint of the passes that only log that they resume.
Interrupted == 0

ASSUME PassesAssumption ==
    /\ Items \subseteq Nat \ {0} /\ Scripts \subseteq Pass
    /\ BatchSize \in Nat \ {0} /\ CheckpointEvery \in Nat \ {0}
    /\ MaxBreaks \in Nat /\ MaxEdits \in Nat
    /\ None \notin Nat /\ None \notin Pass

VARIABLES
    checked,    \* checked_kinopub, checked_rezka, ..., is_reprocessed of every pass
    bound,      \* items with a kinopub_id
    complete,   \* items with the ids, ratings, texts and rezka_url
    ignored,    \* is_ignored
    cp,         \* the checkpoint file of every pass: last_id, Interrupted or None
    flag,       \* stop flag of the pass that runs
    pass,       \* the pass that runs, or None
    step,       \* what it does next
    todo,       \* items of its snapshot that are still to be asked about
    batch,      \* items of the rezka batch in work
    limited,    \* client.is_limited
    count,      \* items since the last checkpoint of sync_kinopub
    refused,    \* history: items the limit of the service left without an answer
    breaks, edits

rows    == <<checked, bound, complete, ignored>>
script  == <<pass, step, todo, batch, limited, count>>
bounds  == <<breaks, edits>>
vars    == <<rows, cp, flag, script, refused, bounds>>

Step == {"off", "next", "search", "plain", "fallback", "pages", "write"}

TypeOK ==
    /\ checked \in [Pass -> SUBSET Items]
    /\ bound \subseteq Items /\ complete \subseteq Items /\ ignored \subseteq Items
    /\ cp \in [Pass -> Items \cup {None, Interrupted}]
    /\ flag \in BOOLEAN
    /\ pass \in Scripts \cup {None} /\ step \in Step
    /\ pass = None <=> step = "off"
    /\ todo \subseteq Items /\ batch \subseteq Items /\ refused \subseteq Items
    /\ limited \in BOOLEAN
    /\ count \in 0 .. CheckpointEvery - 1
    /\ breaks \in 0 .. MaxBreaks /\ edits \in 0 .. MaxEdits

-----------------------------------------------------------------------------
(* The queue *)

\* What the query of pass s selects.
Pending(s) ==
    {i \in Items \ checked[s] :
        CASE s = "kinopub"   -> i \notin bound \cup ignored
          [] s = "reprocess" -> i \notin complete
          [] OTHER           -> i \notin complete \cup ignored}

Newest(S) == CHOOSE i \in S : \A j \in S : j <= i

\* ORDER BY id DESC LIMIT n
Top(n, S) == {i \in S : Cardinality({j \in S : j > i}) < n}

Mark(s, S) == checked' = [checked EXCEPT ![s] = @ \cup S]

Init ==
    /\ checked = [s \in Pass |-> {}]
    /\ bound = {} /\ complete = {} /\ ignored = {}
    /\ cp = [s \in Pass |-> None] /\ flag = FALSE
    /\ pass = None /\ step = "off" /\ todo = {} /\ batch = {}
    /\ limited = FALSE /\ count = 0 /\ refused = {}
    /\ breaks = 0 /\ edits = 0

-----------------------------------------------------------------------------
(* The start and the end of a run *)

Ended ==
    /\ pass' = None /\ step' = "off" /\ todo' = {} /\ batch' = {}
    /\ limited' = FALSE /\ count' = 0 /\ flag' = FALSE

\* Variant that keeps the checkpoint of a run that came to its end.
ExitKeeping(s, saved) ==
    /\ Ended
    /\ cp' = [cp EXCEPT ![s] = IF saved = None THEN @ ELSE saved]

\* The runner removes the flag, and the checkpoint after an exit code 0.
Exit(s, saved) ==
    /\ Ended
    /\ cp' = [cp EXCEPT ![s] = IF saved = None THEN None ELSE saved]

Return(s) == Exit(s, None)

Begin(s, S) ==
    /\ pass' = s /\ step' = "next" /\ todo' = S
    /\ UNCHANGED <<rows, cp, flag, batch, limited, count>>

Idle == pass = None /\ refused' = {} /\ UNCHANGED bounds

StartFix(s) ==
    /\ Idle /\ s \in Scripts \cap Fixers
    /\ Begin(s, Top(BatchSize, Pending(s)))

StartRezka   == Idle /\ "rezka" \in Scripts /\ Begin("rezka", Pending("rezka"))
StartReprocess == Idle /\ "reprocess" \in Scripts /\ Begin("reprocess", {})

Resumed == {i \in Pending("kinopub") : cp["kinopub"] = None \/ i < cp["kinopub"]}

StartKinopub ==
    /\ Idle /\ "kinopub" \in Scripts
    /\ IF Resumed = {} THEN Return("kinopub") /\ UNCHANGED rows
                       ELSE Begin("kinopub", Resumed)

Breaks == breaks < MaxBreaks /\ breaks' = breaks + 1 /\ UNCHANGED edits
Calm   == UNCHANGED <<refused, bounds>>

\* Not authenticated: the run ends before the first item, with exit code 0.
LoginFails ==
    /\ pass = None /\ "kinopub" \in Scripts /\ Resumed # {} /\ Breaks
    /\ Return("kinopub")
    /\ refused' = {} /\ UNCHANGED rows

-----------------------------------------------------------------------------
(* sync_kinopub.py: item by item, a checkpoint every so many *)

OnItem(s, i) == pass = s /\ step = "next" /\ todo # {} /\ i = Newest(todo)

\* Variant that never starts to count again.
AdvanceUncounted(i) ==
    /\ todo' = todo \ {i}
    /\ count' = count + 1
    /\ cp' = IF count' >= CheckpointEvery THEN [cp EXCEPT !["kinopub"] = i] ELSE cp
    /\ UNCHANGED <<flag, pass, step, batch, limited>>

\* The next item; the checkpoint names the last one that was dealt with.
Advance(i) ==
    /\ todo' = todo \ {i}
    /\ count' = (count + 1) % CheckpointEvery
    /\ cp' = IF count' = 0 THEN [cp EXCEPT !["kinopub"] = i] ELSE cp
    /\ UNCHANGED <<flag, pass, step, batch, limited>>

\* best_candidate accepts a result.
Match(i) ==
    /\ OnItem("kinopub", i) /\ ~flag
    /\ bound' = bound \cup {i} /\ Mark("kinopub", {i}) /\ Advance(i)
    /\ UNCHANGED <<complete, ignored>> /\ Calm

\* No result is good enough, or the request failed.
NoMatch(i) ==
    /\ OnItem("kinopub", i) /\ ~flag
    /\ Mark("kinopub", {i}) /\ Advance(i)
    /\ UNCHANGED <<bound, complete, ignored>> /\ Calm

\* KinopubRateLimitError: exit code 2.
RateLimited(i) ==
    /\ OnItem("kinopub", i) /\ ~flag /\ Breaks
    /\ Exit("kinopub", i)
    /\ refused' = {i} /\ UNCHANGED rows

\* The login is lost in the middle: the sweep breaks off as if it were done.
LoginLost(i) ==
    /\ OnItem("kinopub", i) /\ ~flag /\ Breaks
    /\ Return("kinopub")
    /\ UNCHANGED <<rows, refused>>

\* The last item, or the stop flag at any: clear_checkpoint.
KinopubEnds ==
    /\ pass = "kinopub" /\ (todo = {} \/ flag)
    /\ Return("kinopub")
    /\ UNCHANGED rows /\ Calm

-----------------------------------------------------------------------------
(* fix_posters.py: a committed answer, then the mark, in two transactions *)

Filled(S) == complete' \in {complete \cup C : C \in SUBSET S}

\* get_by_id, then search_movie.  A limit leaves the item without data; any other
\* failure looks like no data.
FixItem(s, i) ==
    /\ OnItem(s, i) /\ s \in Fixers /\ ~flag
    /\ step' = "write"
    /\ \/ Filled({i}) /\ Calm /\ UNCHANGED limited
       \/ Breaks /\ limited' = TRUE /\ refused' = {i} /\ UNCHANGED complete
    /\ UNCHANGED <<checked, bound, ignored, cp, flag, pass, todo, batch, count>>

\* Variant that marks the item before it looks at is_limited.
FixMarkFirst(s, i) ==
    /\ pass = s /\ s \in Fixers /\ step = "write" /\ i = Newest(todo)
    /\ step' = "next" /\ todo' = todo \ {i} /\ Mark(s, {i})
    /\ UNCHANGED <<bound, complete, ignored, cp, flag, pass, batch, limited, count>> /\ Calm

FixMark(s, i) ==
    /\ pass = s /\ s \in Fixers /\ step = "write" /\ ~limited /\ i = Newest(todo)
    /\ step' = "next" /\ todo' = todo \ {i} /\ Mark(s, {i})
    /\ UNCHANGED <<bound, complete, ignored, cp, flag, pass, batch, limited, count>> /\ Calm

FixLimited(s) ==
    /\ pass = s /\ s \in Fixers /\ step = "write" /\ limited
    /\ Exit(s, Interrupted)
    /\ UNCHANGED rows /\ Calm

FixEnds(s) ==
    /\ pass = s /\ s \in Fixers /\ step = "next" /\ (todo = {} \/ flag)
    /\ Return(s)
    /\ UNCHANGED rows /\ Calm

-----------------------------------------------------------------------------
(* rezka_sync.py: four rounds of requests for a batch, one transaction *)

InBatch(s) == pass = "rezka" /\ step = s

TakeBatch ==
    /\ InBatch("next") /\ ~flag /\ todo # {}
    /\ batch' = Top(BatchSize, todo) /\ todo' = todo \ batch' /\ step' = "search"
    /\ UNCHANGED <<rows, cp, flag, pass, limited, count>> /\ Calm

Round(s, t) ==
    /\ InBatch(s) /\ step' = t
    /\ UNCHANGED <<rows, cp, flag, pass, todo, batch, limited, count>> /\ Calm

\* Phase 1a, 1b and 1c: the queries with the year, those without it that are
\* needed, those of the bare title.
SearchWithYear    == Round("search", "plain")
SearchWithoutYear == ~flag /\ Round("plain", "fallback")
SearchFallback    == ~flag /\ Round("fallback", "pages")

\* Phase 2: the pages of the candidates.
LoadPages == Round("pages", "write")

\* A terminal status or five failed requests in a round: exit code 2.
BatchLimited ==
    /\ pass = "rezka" /\ step \in {"search", "plain", "fallback", "pages"}
    /\ step \in {"plain", "fallback"} => ~flag
    /\ Breaks
    /\ Exit("rezka", Interrupted)
    /\ refused' = batch /\ UNCHANGED rows

\* Phase 3; items without a page are marked too.
Write(S) ==
    /\ Filled(S) /\ Mark("rezka", batch)
    /\ step' = "next" /\ batch' = {}
    /\ UNCHANGED <<bound, ignored, cp, flag, pass, todo, limited, count>> /\ Calm

WriteBatch   == InBatch("write") /\ ~flag /\ Write(batch)
NoCandidates == InBatch("pages") /\ Write({})

\* The flag is looked at before a batch and after the rounds 1a, 1b and 2.
RezkaEnds ==
    /\ \/ InBatch("next") /\ (todo = {} \/ flag)
       \/ (InBatch("plain") \/ InBatch("fallback") \/ InBatch("write")) /\ flag
    /\ Return("rezka")
    /\ UNCHANGED rows /\ Calm

-----------------------------------------------------------------------------
(* reprocess_database.py: batches until the query selects nothing *)

NextBatch ==
    /\ pass = "reprocess" /\ todo = {} /\ Pending("reprocess") # {}
    /\ todo' = Top(BatchSize, Pending("reprocess"))
    /\ UNCHANGED <<rows, cp, flag, pass, step, batch, limited, count>> /\ Calm

\* The item is marked whatever TMDB answered; the limit shows at the next item.
ReprocessItem(i) ==
    /\ OnItem("reprocess", i) /\ ~flag /\ ~limited
    /\ todo' = todo \ {i} /\ Mark("reprocess", {i})
    /\ \/ Filled({i}) /\ Calm /\ UNCHANGED limited
       \/ Breaks /\ limited' = TRUE /\ refused' = {i} /\ UNCHANGED complete
    /\ UNCHANGED <<bound, ignored, cp, flag, pass, step, batch, count>>

ReprocessEnds ==
    /\ pass = "reprocess"
    /\ IF todo = {} THEN Pending("reprocess") = {} ELSE flag \/ limited
    /\ Return("reprocess")
    /\ UNCHANGED rows /\ Calm

-----------------------------------------------------------------------------
(* The user *)

RequestStop ==
    /\ pass # None /\ ~flag /\ flag' = TRUE /\ Breaks
    /\ UNCHANGED <<rows, cp, script, refused>>

\* The runner terminates it, or it dies: what is not committed is lost.
Killed ==
    /\ pass # None /\ Breaks
    /\ Ended
    /\ UNCHANGED <<rows, cp, refused>>

Edit == edits < MaxEdits /\ edits' = edits + 1 /\ UNCHANGED <<flag, script, refused, breaks>>

\* reset_item, set_ids and rebind, of kp_id or ratings and of other fields.
ResetItem(i) ==
    /\ Edit
    /\ complete' = complete \ {i}
    /\ \E S \in {{"rezka", "reprocess"}, Pass \ {"kinopub"}} :
        checked' = [s \in Pass |-> IF s \in S THEN checked[s] \ {i} ELSE checked[s]]
    /\ UNCHANGED <<bound, ignored, cp>>

\* kinopub_bind and kinopub_unbind by hand
BindByHand(i) ==
    /\ Edit
    /\ bound' = bound \cup {i} /\ Mark("kinopub", {i})
    /\ UNCHANGED <<complete, ignored, cp>>

Unbind(i) ==
    /\ Edit
    /\ bound' = bound \ {i} /\ checked' = [checked EXCEPT !["kinopub"] = @ \ {i}]
    /\ UNCHANGED <<complete, ignored, cp>>

ToggleIgnore(i) ==
    /\ Edit
    /\ ignored' = (ignored \ {i}) \cup ({i} \ ignored)
    /\ UNCHANGED <<checked, bound, complete, cp>>

\* The endpoint removes the file and, of two passes, the marks of unfilled items.
ClearCheckpoint(s) ==
    /\ Edit
    /\ cp' = [cp EXCEPT ![s] = None]
    /\ checked' = [checked EXCEPT ![s] =
                     IF s = "kinopub" THEN @ \cap bound
                     ELSE IF s = "rezka" THEN @ \cap complete ELSE @]
    /\ UNCHANGED <<bound, complete, ignored>>

-----------------------------------------------------------------------------

Kinopub ==
    \/ \E i \in Items : Match(i) \/ NoMatch(i) \/ RateLimited(i) \/ LoginLost(i)
    \/ KinopubEnds
Fix ==
    \E s \in Fixers :
        \/ \E i \in Items : FixItem(s, i) \/ FixMark(s, i)
        \/ FixLimited(s) \/ FixEnds(s)
Rezka ==
    \/ TakeBatch \/ SearchWithYear \/ SearchWithoutYear \/ SearchFallback \/ LoadPages
    \/ BatchLimited \/ WriteBatch \/ NoCandidates \/ RezkaEnds
Reprocess == NextBatch \/ (\E i \in Items : ReprocessItem(i)) \/ ReprocessEnds

Script == Kinopub \/ Fix \/ Rezka \/ Reprocess

Start(s) ==
    CASE s = "kinopub"   -> StartKinopub
      [] s = "rezka"     -> StartRezka
      [] s = "reprocess" -> StartReprocess
      [] OTHER           -> StartFix(s)

User ==
    \/ RequestStop
    \/ \E i \in Items : ResetItem(i) \/ BindByHand(i) \/ Unbind(i) \/ ToggleIgnore(i)
    \/ \E s \in Scripts : ClearCheckpoint(s)

Next == (\E s \in Scripts : Start(s)) \/ LoginFails \/ Script \/ Killed \/ User

Spec == Init /\ [][Next]_vars

\* Every pass is started again and again, and a started one runs.
FairSpec == Spec /\ WF_vars(Script) /\ \A s \in Scripts : SF_vars(Start(s))

-----------------------------------------------------------------------------
(* Properties *)

\* An item the service refused to answer for, because of its limit, stays in the
\* queue: no pass but reprocess_database.py, which TLC finds marking it, marks
\* such an item before it is asked about again.
RefusedStaysQueued ==
    [][pass # None /\ pass # "reprocess" => refused \cap (checked'[pass] \ checked[pass]) = {}]_vars

\* Every queue is emptied again and again: each item is asked about in the end,
\* though limits, lost logins, stops and kills break runs off, a checkpoint hides
\* the item it names and the newer ones from the resumed run and the user puts
\* items back.
QueuesEmpty == []<>(\A s \in Scripts : Pending(s) = {})

=============================================================================

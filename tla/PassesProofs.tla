----------------------------- MODULE PassesProofs -----------------------------
(***************************************************************************)
(* Passes keeps its types, and but for the reprocessing no pass marks an   *)
(* item its service refused to answer for, for any items and batches.      *)
(***************************************************************************)
EXTENDS Passes, TLAPS

\* What a limit left unanswered is remembered inside a run only by fix_posters.py,
\* which then knows of the limit and stands before the mark.
HeldBack ==
    pass \notin {None, "reprocess"} /\ refused # {} =>
        limited /\ pass \in Fixers /\ step = "write"

IInv == TypeOK /\ HeldBack

LEMMA TopIsPart == ASSUME NEW n, NEW S PROVE Top(n, S) \subseteq S
BY DEF Top

LEMMA PendingItems == ASSUME NEW s PROVE Pending(s) \subseteq Items
BY DEF Pending

LEMMA FilledItems ==
  ASSUME TypeOK, NEW S \in SUBSET Items, Filled(S) PROVE complete' \subseteq Items
BY DEF TypeOK, Filled

LEMMA Broken ==
  ASSUME TypeOK, Breaks PROVE breaks' \in 0 .. MaxBreaks /\ edits' \in 0 .. MaxEdits
BY PassesAssumption DEF TypeOK, Breaks

LEMMA NoneIsNoPass ==
  None \notin Pass /\ None # "rezka" /\ 0 \in 0 .. CheckpointEvery - 1
BY PassesAssumption DEF Pass

LEMMA Counted == ASSUME TypeOK PROVE (count + 1) % CheckpointEvery \in 0 .. CheckpointEvery - 1
BY PassesAssumption DEF TypeOK

LEMMA Marked ==
  ASSUME TypeOK, NEW s \in Pass, NEW S \in SUBSET Items, Mark(s, S)
  PROVE  /\ checked' \in [Pass -> SUBSET Items]
         /\ \A p \in Pass \ {s} : checked'[p] = checked[p]
BY DEF TypeOK, Mark

LEMMA Exits ==
  ASSUME TypeOK, NEW s \in Pass, NEW saved \in Items \cup {None, Interrupted}, Exit(s, saved)
  PROVE  /\ cp' \in [Pass -> Items \cup {None, Interrupted}]
         /\ pass' = None /\ step' = "off" /\ todo' = {} /\ batch' = {}
         /\ limited' = FALSE /\ count' = 0 /\ flag' = FALSE
BY DEF TypeOK, Exit, Ended

LEMMA Begins ==
  ASSUME TypeOK, HeldBack, NEW s \in Scripts, NEW S \in SUBSET Items, Idle, Begin(s, S)
  PROVE  IInv'
BY PassesAssumption DEF TypeOK, HeldBack, Idle, Begin, IInv, rows, bounds, Step

\* A run that ends leaves the rows as they are, and the history unless it is the
\* limit that ends it.
LEMMA EndKeeps ==
  ASSUME TypeOK, NEW s \in Pass, NEW saved \in Items \cup {None, Interrupted},
         Exit(s, saved), UNCHANGED rows, refused' \subseteq Items,
         breaks' \in 0 .. MaxBreaks, edits' \in 0 .. MaxEdits
  PROVE  IInv'
<1>1. /\ cp' \in [Pass -> Items \cup {None, Interrupted}]
      /\ pass' = None /\ step' = "off" /\ todo' = {} /\ batch' = {}
      /\ limited' = FALSE /\ count' = 0 /\ flag' = FALSE
  BY Exits
<1>2. 0 \in 0 .. CheckpointEvery - 1
  BY PassesAssumption
<1>3. TypeOK'
  BY <1>1, <1>2 DEF TypeOK, rows, Step
<1> QED
  BY <1>1, <1>3 DEF IInv, HeldBack

LEMMA Returns ==
  ASSUME TypeOK, NEW s \in Pass, Return(s), UNCHANGED rows,
         refused' = refused \/ refused' = {}, Breaks \/ UNCHANGED bounds
  PROVE  IInv'
<1>1. refused' \subseteq Items
  BY DEF TypeOK
<1>2. breaks' \in 0 .. MaxBreaks /\ edits' \in 0 .. MaxEdits
  BY PassesAssumption DEF TypeOK, Breaks, bounds
<1> QED
  BY <1>1, <1>2, EndKeeps DEF Return

-----------------------------------------------------------------------------
(* One lemma per part of Next *)

LEMMA Starts == ASSUME IInv, NEW s \in Scripts, Start(s) PROVE IInv'
<1> USE DEF IInv
<1>1. s \in Pass
  BY PassesAssumption
<1>2. CASE s = "kinopub"
  <2>1. StartKinopub
    BY <1>2 DEF Start
  <2>2. CASE Return("kinopub") /\ UNCHANGED rows
    BY <1>1, <1>2, <2>1, <2>2, Returns DEF StartKinopub, Idle
  <2>3. CASE Begin("kinopub", Resumed)
    BY <1>2, <2>1, <2>3, Begins, PendingItems DEF StartKinopub, Resumed
  <2> QED
    BY <2>1, <2>2, <2>3 DEF StartKinopub
<1>3. CASE s = "rezka"
  BY <1>3, Begins, PendingItems DEF Start, StartRezka
<1>4. CASE s = "reprocess"
  BY <1>4, Begins DEF Start, StartReprocess
<1>5. CASE s \in Fixers
  <2>1. StartFix(s)
    BY <1>5 DEF Start, Fixers
  <2>2. Top(BatchSize, Pending(s)) \subseteq Items
    BY TopIsPart, PendingItems
  <2> QED
    BY <2>1, <2>2, Begins DEF StartFix
<1> QED
  BY <1>1, <1>2, <1>3, <1>4, <1>5 DEF Pass

LEMMA Advances ==
  ASSUME TypeOK, NEW i \in Items, Advance(i)
  PROVE  /\ todo' \subseteq Items /\ count' \in 0 .. CheckpointEvery - 1
         /\ cp' \in [Pass -> Items \cup {None, Interrupted}]
         /\ UNCHANGED <<flag, pass, step, batch, limited>>
BY Counted DEF TypeOK, Advance

LEMMA KinopubSteps == ASSUME IInv, Kinopub PROVE IInv'
<1> USE DEF IInv
<1>1. ASSUME NEW i \in Items, Match(i) \/ NoMatch(i) PROVE IInv'
  <2>1. Mark("kinopub", {i}) /\ Advance(i) /\ pass = "kinopub"
    BY <1>1 DEF Match, NoMatch, OnItem
  <2>2. checked' \in [Pass -> SUBSET Items]
    BY <2>1, Marked DEF Pass
  <2>3. TypeOK'
    BY <1>1, <2>1, <2>2, Advances DEF TypeOK, Match, NoMatch, Calm, bounds
  <2>4. HeldBack'
    BY <1>1, <2>1, Advances DEF HeldBack, Match, NoMatch, Calm, Fixers
  <2> QED
    BY <2>3, <2>4
<1>2. ASSUME NEW i \in Items, RateLimited(i) PROVE IInv'
  <2>1. breaks' \in 0 .. MaxBreaks /\ edits' \in 0 .. MaxEdits
    BY <1>2, PassesAssumption DEF RateLimited, Breaks, TypeOK
  <2> QED
    BY <1>2, <2>1, EndKeeps DEF RateLimited, Pass
<1>3. ASSUME NEW i \in Items, LoginLost(i) PROVE IInv'
  BY <1>3, Returns DEF LoginLost, Pass
<1>4. CASE KinopubEnds
  BY <1>4, Returns DEF KinopubEnds, Pass, Calm
<1> QED
  BY <1>1, <1>2, <1>3, <1>4 DEF Kinopub

LEMMA FixSteps == ASSUME IInv, Fix PROVE IInv'
<1> USE DEF IInv
<1>1. ASSUME NEW s \in Fixers, NEW i \in Items, FixItem(s, i) PROVE IInv'
  <2>0. /\ complete' \subseteq Items /\ refused' \subseteq Items /\ limited' \in BOOLEAN
        /\ breaks' \in 0 .. MaxBreaks /\ edits' \in 0 .. MaxEdits
    BY <1>1, FilledItems, Broken DEF FixItem, Calm, bounds, TypeOK
  <2>1. TypeOK'
    BY <1>1, <2>0, NoneIsNoPass DEF FixItem, OnItem, TypeOK, Step
  <2>2. HeldBack'
    BY <1>1, PassesAssumption DEF FixItem, OnItem, Calm, HeldBack
  <2> QED
    BY <2>1, <2>2
<1>2. ASSUME NEW s \in Fixers, NEW i \in Items, FixMark(s, i) PROVE IInv'
  <2>1. checked' \in [Pass -> SUBSET Items]
    BY <1>2, Marked DEF FixMark, Pass
  <2>2. TypeOK'
    BY <1>2, <2>1, PassesAssumption DEF FixMark, Calm, bounds, TypeOK, Step
  <2>3. HeldBack'
    BY <1>2 DEF FixMark, Calm, HeldBack, Fixers
  <2> QED
    BY <2>2, <2>3
<1>3. ASSUME NEW s \in Fixers, FixLimited(s) PROVE IInv'
  BY <1>3, EndKeeps DEF FixLimited, Calm, bounds, Pass, TypeOK
<1>4. ASSUME NEW s \in Fixers, FixEnds(s) PROVE IInv'
  BY <1>4, Returns DEF FixEnds, Calm, Pass
<1> QED
  BY <1>1, <1>2, <1>3, <1>4 DEF Fix

LEMMA RezkaSteps == ASSUME IInv, Rezka PROVE IInv'
<1> USE DEF IInv
<1>1. CASE TakeBatch
  <2>1. batch' \subseteq Items
    BY <1>1, TopIsPart DEF TakeBatch, TypeOK
  <2> QED
    BY <1>1, <2>1, PassesAssumption
    DEF TakeBatch, InBatch, Calm, rows, bounds, TypeOK, Step, HeldBack, Fixers
<1>2. ASSUME NEW s, NEW t \in Step \ {"off"}, Round(s, t) PROVE IInv'
  <2>1. TypeOK'
    BY <1>2, NoneIsNoPass DEF Round, InBatch, Calm, rows, bounds, TypeOK
  <2>2. HeldBack'
    BY <1>2 DEF Round, InBatch, Calm, HeldBack, Fixers
  <2> QED
    BY <2>1, <2>2
<1>3. CASE BatchLimited
  <2>1. breaks' \in 0 .. MaxBreaks /\ edits' \in 0 .. MaxEdits
    BY <1>3, PassesAssumption DEF BatchLimited, Breaks, TypeOK
  <2> QED
    BY <1>3, <2>1, EndKeeps DEF BatchLimited, Pass, TypeOK
<1>4. ASSUME NEW S \in SUBSET Items, Write(S), pass = "rezka" PROVE IInv'
  <2>1. checked' \in [Pass -> SUBSET Items]
    BY <1>4, Marked DEF Write, Pass, TypeOK
  <2>2. TypeOK'
    BY <1>4, <2>1, FilledItems, NoneIsNoPass DEF Write, Calm, bounds, TypeOK, Step
  <2>3. HeldBack'
    BY <1>4 DEF Write, Calm, HeldBack, Fixers
  <2> QED
    BY <2>2, <2>3
<1>5. CASE RezkaEnds
  BY <1>5, Returns DEF RezkaEnds, Calm, Pass
<1> QED
  BY <1>1, <1>2, <1>3, <1>4, <1>5
  DEF Rezka, SearchWithYear, SearchWithoutYear, SearchFallback, LoadPages, WriteBatch,
      NoCandidates, InBatch, Step, TypeOK

LEMMA ReprocessSteps == ASSUME IInv, Reprocess PROVE IInv'
<1> USE DEF IInv
<1>1. CASE NextBatch
  <2>1. todo' \subseteq Items
    BY <1>1, TopIsPart, PendingItems DEF NextBatch
  <2> QED
    BY <1>1, <2>1 DEF NextBatch, Calm, rows, bounds, TypeOK, HeldBack
<1>2. ASSUME NEW i \in Items, ReprocessItem(i) PROVE IInv'
  <2>1. checked' \in [Pass -> SUBSET Items]
    BY <1>2, Marked DEF ReprocessItem, Pass
  <2>2. /\ complete' \subseteq Items /\ refused' \subseteq Items /\ limited' \in BOOLEAN
        /\ breaks' \in 0 .. MaxBreaks /\ edits' \in 0 .. MaxEdits
    BY <1>2, FilledItems, Broken DEF ReprocessItem, Calm, bounds, TypeOK
  <2>3. TypeOK'
    BY <1>2, <2>1, <2>2 DEF ReprocessItem, TypeOK
  <2>4. HeldBack'
    BY <1>2 DEF ReprocessItem, OnItem, HeldBack
  <2> QED
    BY <2>3, <2>4
<1>3. CASE ReprocessEnds
  BY <1>3, Returns DEF ReprocessEnds, Calm, Pass
<1> QED
  BY <1>1, <1>2, <1>3 DEF Reprocess

LEMMA UserSteps == ASSUME IInv, User \/ Killed \/ LoginFails PROVE IInv'
<1> USE DEF IInv
<1>1. CASE RequestStop
  BY <1>1, PassesAssumption DEF RequestStop, Breaks, rows, script, TypeOK, HeldBack
<1>2. CASE Killed
  <2>1. TypeOK'
    BY <1>2, Broken, NoneIsNoPass DEF Killed, Ended, rows, TypeOK, Step
  <2> QED
    BY <1>2, <2>1 DEF Killed, Ended, HeldBack
<1>3. CASE LoginFails
  BY <1>3, Returns DEF LoginFails, Pass
<1>4. CASE Edit /\ /\ checked' \in [Pass -> SUBSET Items] /\ bound' \subseteq Items
                   /\ complete' \subseteq Items /\ ignored' \subseteq Items
                   /\ cp' \in [Pass -> Items \cup {None, Interrupted}]
  BY <1>4, PassesAssumption DEF Edit, script, TypeOK, HeldBack
<1>5. ASSUME NEW i \in Items,
             ResetItem(i) \/ BindByHand(i) \/ Unbind(i) \/ ToggleIgnore(i)
      PROVE  IInv'
  <2>1. checked' \in [Pass -> SUBSET Items]
    <3>1. CASE ResetItem(i)
      BY <3>1 DEF ResetItem, TypeOK
    <3>2. CASE BindByHand(i)
      BY <3>2, Marked DEF BindByHand, Pass
    <3>3. CASE Unbind(i)
      BY <3>3 DEF Unbind, TypeOK
    <3>4. CASE ToggleIgnore(i)
      BY <3>4 DEF ToggleIgnore, TypeOK
    <3> QED
      BY <1>5, <3>1, <3>2, <3>3, <3>4
  <2> QED
    BY <1>4, <1>5, <2>1 DEF ResetItem, BindByHand, Unbind, ToggleIgnore, TypeOK
<1>6. ASSUME NEW s \in Scripts, ClearCheckpoint(s) PROVE IInv'
  <2>1. checked' \in [Pass -> SUBSET Items] /\ cp' \in [Pass -> Items \cup {None, Interrupted}]
    BY <1>6 DEF ClearCheckpoint, TypeOK
  <2> QED
    BY <1>4, <1>6, <2>1 DEF ClearCheckpoint, TypeOK
<1> QED
  BY <1>1, <1>2, <1>3, <1>5, <1>6 DEF User

LEMMA Invariant == Spec => []IInv
<1>1. Init => IInv
  <2> SUFFICES ASSUME Init PROVE IInv
    OBVIOUS
  <2>1. checked \in [Pass -> SUBSET Items] /\ cp \in [Pass -> Items \cup {None, Interrupted}]
    BY DEF Init
  <2>2. breaks \in 0 .. MaxBreaks /\ edits \in 0 .. MaxEdits /\ count \in 0 .. CheckpointEvery - 1
    BY PassesAssumption, NoneIsNoPass DEF Init
  <2>3. TypeOK
    BY <2>1, <2>2 DEF Init, TypeOK, Step
  <2> QED
    BY <2>3 DEF Init, IInv, HeldBack
<1>2. IInv /\ [Next]_vars => IInv'
  <2> SUFFICES ASSUME IInv, [Next]_vars PROVE IInv'
    OBVIOUS
  <2>1. CASE UNCHANGED vars
    BY <2>1 DEF vars, rows, script, bounds, IInv, TypeOK, HeldBack
  <2>2. CASE Next
    BY <2>2, Starts, KinopubSteps, FixSteps, RezkaSteps, ReprocessSteps, UserSteps
    DEF Next, Script
  <2> QED
    BY <2>1, <2>2
<1> QED
  BY <1>1, <1>2, PTL DEF Spec

\* The marks are sets of items and the checkpoints items, whatever is stopped,
\* killed, limited and edited.
THEOREM PassesTypeCorrect == Spec => []TypeOK
<1>1. IInv => TypeOK
  BY DEF IInv
<1> QED
  BY <1>1, Invariant, PTL

\* Of sync_kinopub.py, rezka_sync.py and fix_posters.py: an item the service refused
\* to answer for, because of its limit, is not marked before it is asked about again.
THEOREM RefusedIsAskedAgain == Spec => RefusedStaysQueued
<1> DEFINE Kept == pass # None /\ pass # "reprocess" =>
                     refused \cap (checked'[pass] \ checked[pass]) = {}
<1>1. IInv /\ [Next]_vars => [Kept]_vars
  <2> SUFFICES ASSUME IInv, Next, pass # None, pass # "reprocess"
               PROVE  refused \cap (checked'[pass] \ checked[pass]) = {}
    BY DEF vars
  <2>0. pass \in Pass /\ TypeOK /\ HeldBack
    BY PassesAssumption DEF IInv, TypeOK
  <2>1. CASE refused = {}
    BY <2>1
  <2>2. CASE refused # {}
    <3>1. limited /\ pass \in Fixers /\ step = "write"
      BY <2>0, <2>2 DEF HeldBack
    <3>2. checked'[pass] \subseteq checked[pass]
      <4>1. ~(\E s \in Scripts : Start(s))
        BY DEF Start, StartKinopub, StartRezka, StartReprocess, StartFix, Idle
      <4>2. CASE User
        <5>1. ASSUME NEW i \in Items, BindByHand(i) PROVE checked'[pass] = checked[pass]
          BY <2>0, <3>1, <5>1, Marked DEF BindByHand, Pass, Fixers
        <5>2. ASSUME NEW i \in Items, ResetItem(i) \/ Unbind(i) \/ ToggleIgnore(i)
              PROVE  checked'[pass] \subseteq checked[pass]
          BY <2>0, <5>2 DEF ResetItem, Unbind, ToggleIgnore, TypeOK
        <5>3. ASSUME NEW s \in Scripts, ClearCheckpoint(s)
              PROVE  checked'[pass] \subseteq checked[pass]
          BY <2>0, <5>3 DEF ClearCheckpoint, TypeOK
        <5> QED
          BY <4>2, <5>1, <5>2, <5>3 DEF User, RequestStop, rows
      <4>3. CASE Fix
        BY <3>1, <4>3 DEF Fix, FixItem, OnItem, FixMark, FixLimited, FixEnds, rows
      <4>4. ~Kinopub /\ ~Rezka /\ ~Reprocess
        BY <3>1 DEF Kinopub, Match, NoMatch, RateLimited, LoginLost, KinopubEnds, OnItem,
                    Rezka, TakeBatch, Round, SearchWithYear, SearchWithoutYear,
                    SearchFallback, LoadPages, BatchLimited, WriteBatch, NoCandidates,
                    RezkaEnds, InBatch, Reprocess, NextBatch, ReprocessItem,
                    ReprocessEnds, Fixers
      <4> QED
        BY <4>1, <4>2, <4>3, <4>4 DEF Next, Script, LoginFails, Killed, rows
    <3> QED
      BY <3>2
  <2> QED
    BY <2>1, <2>2
<1> QED
  BY <1>1, Invariant, PTL DEF Spec, RefusedStaysQueued
=============================================================================

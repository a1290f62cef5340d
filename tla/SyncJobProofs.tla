---------------------------- MODULE SyncJobProofs ---------------------------
(***************************************************************************)
(* Theorems about SyncJob, for any categories, releases, page size and     *)
(* depth: of types and checkpoints with every fault of the model, of what  *)
(* a scan brings and of the cut-off dates for the faults and listings that *)
(* each theorem names.                                                     *)
(***************************************************************************)
EXTENDS SyncJob, FiniteSetTheorems, WellFoundedInduction, TLAPS

-----------------------------------------------------------------------------
(* Arithmetic and functions *)

\* A number of days, or of pages, times its length.
LEMMA TimesGrows ==
    ASSUME NEW m \in Nat, NEW n \in Nat, NEW d \in Nat, m < n
    PROVE  m * d + d <= n * d
<1>1. PICK k \in Nat : n = m + 1 + k
  <2>1. n - (m + 1) \in Nat /\ n = m + 1 + (n - (m + 1))  OBVIOUS
  <2>. QED  BY <2>1
<1>2. n * d = m * d + d + k * d  BY <1>1
<1>3. k * d \in Nat /\ m * d \in Nat  OBVIOUS
<1>. QED  BY <1>2, <1>3

LEMMA DivBounds ==
    ASSUME NEW k \in Nat, NEW d \in Nat \ {0}
    PROVE  /\ k \div d \in Nat
           /\ (k \div d) * d <= k /\ k < (k \div d) * d + d
<1>1. k \div d \in Nat  OBVIOUS
<1>2. k % d \in 0 .. (d - 1)  OBVIOUS
<1>3. k = d * (k \div d) + (k % d)  OBVIOUS
<1>4. (k \div d) * d \in Nat /\ (k \div d) * d = d * (k \div d)  BY <1>1
<1>. QED  BY <1>1, <1>2, <1>3, <1>4

\* The day of a later instant is not an earlier one.
LEMMA DayOrder ==
    ASSUME NEW m \in Nat, NEW n \in Nat, NEW d \in Nat \ {0}, m <= n
    PROVE  m \div d <= n \div d /\ (m \div d) * d <= (n \div d) * d
<1>. DEFINE a == m \div d
            b == n \div d
<1>1. a \in Nat /\ a * d <= m /\ m < a * d + d  BY DivBounds
<1>2. b \in Nat /\ b * d <= n /\ n < b * d + d  BY DivBounds
<1>. HIDE DEF a, b
<1>3. a * d \in Nat /\ b * d \in Nat  BY <1>1, <1>2
<1>4. CASE b < a
  <2>1. b * d + d <= a * d  BY <1>1, <1>2, <1>4, TimesGrows
  <2>. QED  BY <1>1, <1>2, <1>3, <2>1
<1>5. CASE a < b
  <2>1. a * d + d <= b * d  BY <1>1, <1>2, <1>5, TimesGrows
  <2>2. a * d <= b * d  BY <1>3, <2>1
  <2>3. a <= b  BY <1>1, <1>2, <1>5
  <2>. QED  BY <2>2, <2>3 DEF a, b
<1>6. CASE a = b
  <2>1. a * d <= b * d /\ a <= b  BY <1>1, <1>3, <1>6
  <2>. QED  BY <2>1 DEF a, b
<1>. QED  BY <1>1, <1>2, <1>4, <1>5, <1>6

\* A set of numbers up to a bound has a largest member.
LEMMA LargestExists ==
    ASSUME NEW S \in SUBSET Moment, S # {}
    PROVE  \E d \in S : \A e \in S : e <= d
<1>. USE SyncAssumption DEF Moment
<1>. DEFINE T == {2 * MaxClock - d : d \in S}
<1>1. T \subseteq Nat /\ T # {}
  <2>1. \A d \in S : 2 * MaxClock - d \in Nat  OBVIOUS
  <2>2. PICK e \in S : TRUE  OBVIOUS
  <2>3. 2 * MaxClock - e \in T  BY <2>2
  <2>4. T \subseteq Nat  BY <2>1
  <2>. QED  BY <2>3, <2>4
<1>2. \E x \in T : \A y \in T : ~(<<y, x>> \in OpToRel(<, Nat))
  <2>. HIDE DEF T
  <2>. QED  BY <1>1, WFMin, NatLessThanWellFounded, Zenon
<1>3. PICK x \in T : \A y \in T : ~(y < x)
  <2>. HIDE DEF T
  <2>. QED  BY <1>1, <1>2, Zenon DEF OpToRel
<1>4. PICK d \in S : x = 2 * MaxClock - d  OBVIOUS
<1>5. ASSUME NEW e \in S  PROVE e <= d
  <2>1. ~(2 * MaxClock - e < x)  BY <1>3
  <2>. QED  BY <1>4, <2>1
<1>. QED  BY <1>5

\* The cut-off of a category is a date, or None.
LEMMA LastDateType ==
    ASSUME NEW c, DatesTyped(db)
    PROVE  LastDate(c) \in Moment \cup {None}
<1>. USE DEF LastDate
<1>1. CASE DatesOf(c) = {}  BY <1>1
<1>2. CASE DatesOf(c) # {}
  <2>1. DatesOf(c) \in SUBSET Moment  BY DEF DatesOf, DatesTyped
  <2>2. \E d \in DatesOf(c) : \A e \in DatesOf(c) : e <= d  BY <1>2, <2>1, LargestExists
  <2>. QED  BY <1>2, <2>1, <2>2
<1>. QED  BY <1>1, <1>2

LEMMA MomentsAreNumbers ==
    Instant \subseteq Moment /\ Moment \subseteq Nat /\ Instant \subseteq Nat
BY SyncAssumption DEF Instant, Moment

LEMMA DayType == ASSUME NEW t \in Nat PROVE Day(t) \in Nat
BY DivBounds, SyncAssumption DEF Day

\* A date is within the day of its release, and not after it.
LEMMA DateBounds ==
    ASSUME DatesTyped(posted), NEW r \in DOMAIN posted
    PROVE  /\ posted[r] \in Nat /\ Date(r) \in Moment /\ Date(r) \in Nat
           /\ Day(posted[r]) * DayLength \in Nat
           /\ Day(posted[r]) * DayLength <= Date(r) /\ Date(r) <= posted[r]
           /\ posted[r] < Day(posted[r]) * DayLength + DayLength
<1>1. posted[r] \in Moment /\ posted[r] \in Nat  BY MomentsAreNumbers DEF DatesTyped
<1>2. /\ Day(posted[r]) \in Nat /\ Day(posted[r]) * DayLength \in Nat
      /\ Day(posted[r]) * DayLength <= posted[r]
      /\ posted[r] < Day(posted[r]) * DayLength + DayLength
  <2>1. Day(posted[r]) \in Nat  BY <1>1, DayType
  <2>2. Day(posted[r]) * DayLength \in Nat  BY <2>1, SyncAssumption
  <2>. QED  BY <1>1, <2>1, <2>2, DivBounds, SyncAssumption DEF Day
<1>3. Date(r) = posted[r] \/ Date(r) = Day(posted[r]) * DayLength  BY DEF Date
<1>4. Date(r) \in Nat /\ Day(posted[r]) * DayLength <= Date(r) /\ Date(r) <= posted[r]
  BY <1>1, <1>2, <1>3
<1>5. Date(r) \in Moment  BY <1>1, <1>4, SyncAssumption DEF Moment
<1>. QED  BY <1>1, <1>2, <1>4, <1>5

\* The date to be stored is a moment too, not before the day of its release.
LEMMA DateNowBounds ==
    ASSUME DatesTyped(posted), NEW r \in DOMAIN posted, clock \in Instant,
           posted[r] <= clock, read[r] \in Nat, read[r] <= Day(clock)
    PROVE  DateNow(r) \in Moment /\ Day(posted[r]) * DayLength <= DateNow(r)
<1>1. /\ posted[r] \in Nat /\ Day(posted[r]) * DayLength \in Nat
      /\ Day(posted[r]) * DayLength <= posted[r]
  BY DateBounds
<1>2. clock \in Nat /\ clock <= MaxClock /\ Day(clock) \in Nat /\ MaxClock \in Nat
  BY DayType, SyncAssumption DEF Instant
<1>. DEFINE k == Day(clock) - read[r]
<1>3. k \in Nat /\ k <= Day(clock)  BY <1>2
<1>4. k * DayLength \in Nat /\ k * DayLength <= clock
  <2>. HIDE DEF k
  <2>1. Day(clock) * DayLength <= clock /\ Day(clock) * DayLength \in Nat
    BY <1>2, DivBounds, SyncAssumption DEF Day
  <2>2. k * DayLength \in Nat  BY <1>3, SyncAssumption
  <2>3. k * DayLength <= Day(clock) * DayLength
    <3>1. CASE k = Day(clock)  BY <2>1, <3>1
    <3>2. CASE k < Day(clock)
      <4>1. k * DayLength + DayLength <= Day(clock) * DayLength
        BY <1>2, <1>3, <3>2, TimesGrows, SyncAssumption
      <4>. QED  BY <2>1, <2>2, <4>1, SyncAssumption
    <3>. QED  BY <1>2, <1>3, <3>1, <3>2
  <2>. QED  BY <1>2, <2>1, <2>2, <2>3
<1>5. DateNow(r) = posted[r] + k * DayLength \/ DateNow(r) = Day(posted[r]) * DayLength
  BY DEF DateNow
<1>. HIDE DEF k
<1>6. DateNow(r) \in Nat /\ DateNow(r) <= 2 * MaxClock
      /\ Day(posted[r]) * DayLength <= DateNow(r)
  BY <1>1, <1>2, <1>4, <1>5
<1>. QED  BY <1>6, <1>2 DEF Moment

\* Time takes from a date, and never adds.
LEMMA DateFalls ==
    ASSUME DatesTyped(posted), NEW r \in DOMAIN posted, posted'[r] = posted[r],
           clock \in Nat, clock' \in Nat, clock <= clock'
    PROVE  Date(r)' \in Nat /\ Date(r)' <= Date(r)
<1>1. /\ posted[r] \in Nat /\ Date(r) \in Nat /\ Day(posted[r]) * DayLength \in Nat
      /\ Day(posted[r]) * DayLength <= Date(r)
  BY DateBounds
<1>2. Day(clock) \in Nat /\ Day(clock') \in Nat /\ Day(clock) <= Day(clock')
  BY DayOrder, DayType, SyncAssumption DEF Day
<1>3. Date(r)' = IF Day(posted[r]) + 1 >= Day(clock') THEN posted[r]
                 ELSE Day(posted[r]) * DayLength
  BY DEF Date, TimeShown, Day
<1>4. Date(r) = IF Day(posted[r]) + 1 >= Day(clock) THEN posted[r]
                ELSE Day(posted[r]) * DayLength
  BY DEF Date, TimeShown
<1>5. Day(posted[r]) \in Nat  BY <1>1, DayType
<1>. QED  BY <1>1, <1>2, <1>3, <1>4, <1>5

\* A function of dates that grows by dated releases.
LEMMA DatesIntro ==
    ASSUME NEW S \in SUBSET Release, NEW f \in [S -> Moment]
    PROVE  DatesTyped(f) /\ DOMAIN f = S
BY DEF DatesTyped

LEMMA NoDatesType == DatesTyped(NoDates) /\ DOMAIN NoDates = {}
BY DEF DatesTyped, NoDates

LEMMA StoredType ==
    ASSUME DatesTyped(db), DatesTyped(pending)
    PROVE  DatesTyped(Stored) /\ DOMAIN Stored = DOMAIN db \cup DOMAIN pending
<1>1. DOMAIN db \cup DOMAIN pending \in SUBSET Release  BY DEF DatesTyped
<1>2. Stored \in [DOMAIN db \cup DOMAIN pending -> Moment]  BY DEF DatesTyped, Stored
<1>. QED  BY <1>1, <1>2, DatesIntro

-----------------------------------------------------------------------------
(* The inductive invariant *)

\* Inside a category cat is one, and what was collected has a date; outside,
\* nothing is collected.  Pages are read while fewer than two in a row were empty.
InCategory ==
    /\ pc \in {"page", "group", "items", "save"} => cat \in Category
    /\ pc \in {"off", "cats"} => batch = {}
    /\ pc = "page" => empty_pages < 2
    /\ batch \subseteq DOMAIN posted

\* What of the category is no longer to be processed is in the transaction, and
\* after the commit in the database.
BatchStored ==
    /\ pc = "items" => batch \ left \subseteq DOMAIN db \cup DOMAIN pending
    /\ pc = "save" => batch \subseteq DOMAIN db

\* Nothing is published, and no page read, after now.
ClockKept ==
    /\ \A r \in DOMAIN posted : posted[r] <= clock
    /\ \A r \in batch : read[r] <= Day(clock)

SyncInv == TypeOK /\ InCategory /\ BatchStored /\ ClockKept

LEMMA SyncInit == Init => SyncInv
<1>. SUFFICES ASSUME Init PROVE SyncInv  OBVIOUS
<1>. USE SyncAssumption DEF Init, NoScan, NoResume, Instant
<1>1. Len(Backlog) \in Instant  OBVIOUS
<1>2. Late \subseteq Release  BY DEF Late
<1>3. DatesTyped(posted) /\ DOMAIN posted = Seeded \cup Late
  <2>1. ASSUME NEW r \in Late
        PROVE  (CHOOSE i \in DOMAIN Backlog : Backlog[i] = r) \in 0 .. MaxClock
    <3>1. \E i \in DOMAIN Backlog : Backlog[i] = r  BY <2>1 DEF Late
    <3>2. DOMAIN Backlog = 1 .. Len(Backlog) /\ Len(Backlog) \in Nat  OBVIOUS
    <3>3. \A i \in DOMAIN Backlog : i \in 0 .. MaxClock  BY <3>2
    <3>. QED  BY <3>1, <3>3
  <2>2. posted \in [Seeded \cup Late -> Moment]  BY <2>1, MomentsAreNumbers
  <2>. QED  BY <1>2, <2>2, DatesIntro
<1>4. DatesTyped(db)
  <2>1. db \in [Seeded -> Moment]  BY MomentsAreNumbers
  <2>. QED  BY <2>1, DatesIntro
<1>5. clock \in Instant /\ listed \subseteq DOMAIN posted  BY <1>1, <1>3
<1>6. DatesTyped(pending)  BY NoDatesType
<1>7. /\ breaks \in 0 .. MaxBreaks /\ empty_pages \in 0 .. 2 /\ shift \in Nat
      /\ page_start \in Nat /\ page \in Nat
      /\ resume \in [cat : Category \cup {None}, page : Nat]
      /\ read \in [batch -> Nat]
  BY DEF NoDates
<1>8. TypeOK
  <2>. HIDE DEF Instant
  <2>. QED  BY <1>3, <1>4, <1>5, <1>6, <1>7 DEF TypeOK
<1>9. ClockKept
  <2>1. DOMAIN Backlog = 1 .. Len(Backlog) /\ Len(Backlog) \in Nat  OBVIOUS
  <2>2. ASSUME NEW r \in Late
        PROVE  (CHOOSE i \in DOMAIN Backlog : Backlog[i] = r) \in DOMAIN Backlog
    BY DEF Late
  <2>3. \A r \in DOMAIN posted : posted[r] <= clock  BY <1>3, <2>1, <2>2
  <2>. QED  BY <2>3 DEF ClockKept
<1>. QED  BY <1>8, <1>9 DEF SyncInv, InCategory, BatchStored

\* Between two categories, and between two runs, nothing is collected.
LEMMA ScanEndsInv ==
    ASSUME SyncInv, ScanEnds, pc' \in {"off", "cats"}, UNCHANGED tracker,
           DatesTyped(db'), cp' \in Checkpoint \cup {None}, flag' \in BOOLEAN,
           breaks' \in 0 .. MaxBreaks, manual' \in Nat \cup {None},
           done' \subseteq Category, resume' \in [cat : Category \cup {None}, page : Nat]
    PROVE  SyncInv'
<1>1. DatesTyped(pending')  BY NoDatesType DEF ScanEnds
<1>2. DatesTyped(posted')  BY DEF SyncInv, TypeOK, tracker
<1>3. read' \in [batch' -> Nat]  BY DEF ScanEnds, NoDates
<1>. QED
  BY <1>1, <1>2, <1>3
  DEF SyncInv, TypeOK, InCategory, BatchStored, ClockKept, ScanEnds, tracker

LEMMA RunEndsInv ==
    ASSUME SyncInv, RunEnds, UNCHANGED tracker,
           DatesTyped(db'), cp' \in Checkpoint \cup {None}, flag' \in BOOLEAN,
           breaks' \in 0 .. MaxBreaks
    PROVE  SyncInv'
BY ScanEndsInv DEF RunEnds, NoResume

-----------------------------------------------------------------------------
(* The steps *)

LEMMA NightTime ==
    ASSUME clock \in Instant, NightPasses
    PROVE  clock' \in Instant /\ clock \in Nat /\ clock' \in Nat /\ clock <= clock'
<1>1. clock \in Nat /\ Day(clock) \in Nat  BY DayType, MomentsAreNumbers
<1>2. clock < Day(clock) * DayLength + DayLength
  BY <1>1, DivBounds, SyncAssumption DEF Day
<1>3. /\ Day(clock) * DayLength \in Nat
      /\ (Day(clock) + 1) * DayLength = Day(clock) * DayLength + DayLength
  BY <1>1, SyncAssumption
<1>4. clock' = Day(clock) * DayLength + DayLength /\ clock' <= MaxClock
  BY <1>3 DEF NightPasses
<1>. QED  BY <1>1, <1>2, <1>3, <1>4, SyncAssumption DEF Instant

\* The clock goes on, and what is known of the past stays so.
LEMMA ClockGoesOn ==
    ASSUME SyncInv, clock' \in Instant, clock <= clock', UNCHANGED <<batch, read>>
    PROVE  \A r \in batch : read[r] <= Day(clock')
<1>1. clock \in Nat /\ clock' \in Nat  BY MomentsAreNumbers DEF SyncInv, TypeOK
<1>2. Day(clock) \in Nat /\ Day(clock') \in Nat /\ Day(clock) <= Day(clock')
  BY <1>1, DayType, DayOrder, SyncAssumption DEF Day
<1>. QED  BY <1>2 DEF SyncInv, TypeOK, ClockKept

LEMMA TrackerStep ==
    ASSUME SyncInv, NEW r \in Release, Publish(r) \/ Remove(r)
    PROVE  SyncInv'
<1>. USE DEF SyncInv, TypeOK, InCategory, BatchStored
<1>1. CASE Publish(r)
  <2>1. clock' \in Instant /\ clock \in Nat /\ clock' = clock + 1
    BY <1>1, SyncAssumption DEF Publish, Instant
  <2>2. posted' \in [DOMAIN posted \cup {r} -> Moment]
    BY <1>1, <2>1, MomentsAreNumbers DEF Publish, DatesTyped
  <2>3. DatesTyped(posted') /\ DOMAIN posted' = DOMAIN posted \cup {r}
    BY <2>2, DatesIntro DEF DatesTyped
  <2>4. shift' \in Nat  BY <1>1 DEF Publish
  <2>5. UNCHANGED <<batch, read>>  BY <1>1 DEF Publish
  <2>6. \A t \in DOMAIN posted' : posted'[t] <= clock'
    <3>1. \A t \in DOMAIN posted : posted[t] \in Nat /\ posted[t] <= clock
      BY MomentsAreNumbers DEF ClockKept, DatesTyped
    <3>2. \A t \in DOMAIN posted' :
            posted'[t] = IF t = r THEN clock + 1 ELSE posted[t]
      BY <1>1 DEF Publish
    <3>. QED  BY <2>1, <2>3, <3>1, <3>2
  <2>7. ClockKept'  BY <2>1, <2>5, <2>6, ClockGoesOn DEF ClockKept, Day
  <2>. QED  BY <1>1, <2>1, <2>3, <2>4, <2>7 DEF Publish, run, scan
<1>2. CASE Remove(r)
  BY <1>2 DEF Remove, ScriptIdle, run, scan, ClockKept, Day
<1>. QED  BY <1>1, <1>2

LEMMA NightStep == ASSUME SyncInv, NightPasses PROVE SyncInv'
<1>. USE DEF SyncInv, TypeOK, InCategory, BatchStored
<1>1. clock' \in Instant /\ clock \in Nat /\ clock' \in Nat /\ clock <= clock'
  BY NightTime
<1>2. UNCHANGED <<posted, listed, cp, db, flag, breaks, pc, run, scan>>
  BY DEF NightPasses, ScriptIdle
<1>3. \A t \in DOMAIN posted : posted[t] \in Nat /\ posted[t] <= clock
  BY MomentsAreNumbers DEF ClockKept, DatesTyped
<1>4. ClockKept'
  BY <1>1, <1>2, <1>3, ClockGoesOn DEF ClockKept, Day, scan
<1>. QED  BY <1>1, <1>2, <1>4 DEF run, scan

LEMMA ScanStep ==
    ASSUME SyncInv, BeginRun \/ BeginCategory \/ ReadPage \/ PagesEnd \/ GroupReleases
    PROVE  SyncInv'
<1>. USE SyncAssumption DEF SyncInv, TypeOK, InCategory, BatchStored, ClockKept, Day, tracker, run
<1>1. CASE BeginRun
  BY <1>1 DEF BeginRun, NoResume, Checkpoint, scan
<1>2. CASE BeginCategory
  <2>1. cat' \in Category /\ page_start' \in Nat  BY <1>2 DEF BeginCategory, Category
  <2>2. target' \in Nat \cup {None}
    <3>1. \A i \in DOMAIN Cats : LastDate(Cats[i]) \in Moment \cup {None}
      BY LastDateType
    <3>2. Moment \subseteq Nat  BY MomentsAreNumbers
    <3>3. PICK i \in DOMAIN Cats :
            target' = IF manual # None THEN manual ELSE LastDate(Cats[i])
      BY <1>2 DEF BeginCategory
    <3>. QED  BY <3>1, <3>2, <3>3
  <2>3. due' \subseteq Release
    <3>1. listed \subseteq Release  BY DEF DatesTyped
    <3>2. due' \subseteq listed  BY <1>2 DEF BeginCategory, Listed
    <3>. QED  BY <3>1, <3>2
  <2>4. /\ pc' = "page" /\ page' = page_start' /\ empty_pages' = 0 /\ shift' = 0
        /\ batch' = {} /\ read' \in [batch' -> Nat]
        /\ UNCHANGED <<tracker, db, cp, flag, breaks, run, left, pending>>
        /\ pc = "cats"
    BY <1>2 DEF BeginCategory, NoDates
  <2>5. left' \subseteq batch'  BY <2>4
  <2>. QED  BY <2>1, <2>2, <2>3, <2>4, <2>5
<1>3. CASE ReadPage
  <2>1. OnPage(cat, page) \subseteq DOMAIN posted  BY DEF OnPage, Listed
  <2>2. batch' \subseteq DOMAIN posted  BY <1>3, <2>1 DEF ReadPage, Collect
  <2>3. batch \subseteq batch'  BY <1>3 DEF ReadPage, Collect
  <2>4. empty_pages' \in 0 .. 2 /\ page' \in Nat /\ pc' \in {"page", "group"}
    <3>1. empty_pages' = empty_pages + 1 \/ empty_pages' = 0  BY <1>3 DEF ReadPage
    <3>2. page' = page \/ page' = page + 1  BY <1>3 DEF ReadPage
    <3>. QED  BY <1>3, <3>1, <3>2 DEF ReadPage
  <2>5. pc' = "page" => empty_pages' < 2
    <3>1. empty_pages' # 2 => empty_pages' < 2  BY <2>4
    <3>. QED  BY <1>3, <3>1 DEF ReadPage
  <2>6. read' \in [batch' -> Nat] /\ \A r \in batch' : read'[r] <= Day(clock)
    <3>1. Day(clock) \in Nat  BY DayType, MomentsAreNumbers
    <3>2. read' = [r \in batch' |-> IF r \in batch THEN read[r] ELSE Day(clock)]
      BY <1>3 DEF ReadPage, Collect
    <3>3. \A r \in batch : read[r] \in Nat /\ read[r] <= Day(clock)  OBVIOUS
    <3>. HIDE DEF Day
    <3>. QED  BY <3>1, <3>2, <3>3
  <2>7. ClockKept'  BY <1>3, <2>6 DEF ReadPage, PageOnly
  <2>. QED
    BY <1>3, <2>2, <2>3, <2>4, <2>5, <2>6, <2>7 DEF ReadPage, PageOnly, DatesTyped
<1>4. CASE PagesEnd  BY <1>4 DEF PagesEnd, PageOnly
<1>5. CASE GroupReleases  BY <1>5 DEF GroupReleases
<1>. QED  BY <1>1, <1>2, <1>3, <1>4, <1>5

LEMMA StoreStep ==
    ASSUME SyncInv, ProcessItem \/ Commit
    PROVE  SyncInv'
<1>. USE DEF SyncInv, TypeOK, InCategory, BatchStored, ClockKept, Day, tracker, run
<1>1. CASE ProcessItem
  <2>. DEFINE grown == DOMAIN pending \cup (FirstItem \ (DOMAIN db \cup DOMAIN pending))
  <2>1. FirstItem \subseteq left  BY DEF FirstItem
  <2>2. \A r \in FirstItem : DateNow(r) \in Moment  BY <2>1, DateNowBounds
  <2>3. pending' \in [grown -> Moment]
    BY <1>1, <2>2, MomentsAreNumbers DEF ProcessItem, DatesTyped
  <2>4. grown \in SUBSET Release  BY <2>1 DEF DatesTyped
  <2>5. DatesTyped(pending') /\ DOMAIN pending' = grown  BY <2>3, <2>4, DatesIntro
  <2>. QED  BY <1>1, <2>1, <2>5 DEF ProcessItem
<1>2. CASE Commit
  <2>1. DatesTyped(db') /\ DOMAIN db' = DOMAIN db \cup DOMAIN pending
    BY <1>2, StoredType DEF Commit
  <2>. QED  BY <1>2, <2>1, NoDatesType DEF Commit
<1>. QED  BY <1>1, <1>2

LEMMA EndStep ==
    ASSUME SyncInv,
           \/ NothingNew \/ SaveProgress \/ Finish \/ StopAtPage \/ StopAtItem
           \/ CutoffMissing \/ LimitReached \/ Dies
    PROVE  SyncInv'
<1>0. DatesTyped(db) /\ cp \in Checkpoint \cup {None} /\ flag \in BOOLEAN
      /\ breaks \in 0 .. MaxBreaks /\ done \subseteq Category /\ page \in Nat
      /\ page_start \in Nat /\ page_start + Depth \in Nat
  BY SyncAssumption DEF SyncInv, TypeOK
<1>1. CASE NothingNew \/ SaveProgress
  <2>1. cat \in Category  BY <1>1 DEF NothingNew, SaveProgress, SyncInv, InCategory
  <2>2. cp' \in Checkpoint \cup {None}
    BY <1>0, <1>1, <2>1 DEF NothingNew, SaveProgress, Checkpoint
  <2>. QED
    BY <1>0, <1>1, <2>1, <2>2, ScanEndsInv
    DEF NothingNew, SaveProgress, tracker, SyncInv, TypeOK
<1>2. CASE Finish \/ CutoffMissing
  BY <1>0, <1>2, RunEndsInv DEF Finish, CutoffMissing
<1>3. CASE StopAtPage \/ StopAtItem
  <2>1. ASSUME NEW p \in Nat, StopHere(p)  PROVE SyncInv'
    <3>1. cat \in Category \cup {None}  BY DEF SyncInv, TypeOK
    <3>2. cp' \in Checkpoint  BY <1>0, <2>1, <3>1 DEF StopHere, Checkpoint
    <3>. QED  BY <1>0, <2>1, <3>2, RunEndsInv DEF StopHere
  <2>. QED  BY <1>0, <1>3, <2>1 DEF StopAtPage, StopAtItem
<1>4. CASE LimitReached
  <2>1. cp' \in Checkpoint
    BY <1>0, <1>4 DEF LimitReached, Checkpoint, SyncInv, TypeOK
  <2>2. DatesTyped(db')  BY <1>4, StoredType DEF LimitReached, SyncInv, TypeOK
  <2>3. breaks' \in 0 .. MaxBreaks  BY <1>0, <1>4, SyncAssumption DEF LimitReached, Breaks
  <2>. QED  BY <1>0, <1>4, <2>1, <2>2, <2>3, RunEndsInv DEF LimitReached
<1>5. CASE Dies
  <2>1. breaks' \in 0 .. MaxBreaks  BY <1>0, <1>5, SyncAssumption DEF Dies, Breaks
  <2>. QED  BY <1>0, <1>5, <2>1, RunEndsInv DEF Dies
<1>. QED  BY <1>1, <1>2, <1>3, <1>4, <1>5

LEMMA SyncNext == ASSUME SyncInv, [Next]_vars PROVE SyncInv'
<1>1. CASE UNCHANGED vars
  BY <1>1 DEF vars, tracker, run, scan, SyncInv, TypeOK, InCategory, BatchStored, ClockKept, Day
<1>2. CASE RequestStop
  <2>1. breaks' \in 0 .. MaxBreaks
    BY <1>2, SyncAssumption DEF RequestStop, Breaks, SyncInv, TypeOK
  <2>. QED
    BY <1>2, <2>1 DEF RequestStop, tracker, run, scan, SyncInv, TypeOK, InCategory,
                      BatchStored, ClockKept, Day
<1>3. CASE ClearCheckpoint
  BY <1>3 DEF ClearCheckpoint, ScriptIdle, tracker, run, scan, SyncInv, TypeOK,
              InCategory, BatchStored, ClockKept, Day
<1>. QED
  BY <1>1, <1>2, <1>3, TrackerStep, NightStep, ScanStep, StoreStep, EndStep
  DEF Next, Script

LEMMA SyncInvHolds == Spec => []SyncInv
BY SyncInit, SyncNext, PTL DEF Spec

-----------------------------------------------------------------------------
(* The theorems *)

\* The state of the tracker sync keeps its types; above all every release is stored
\* with a date, even if not always its own, which the next cut-off can be taken from.
THEOREM SyncTypeCorrect == Spec => []TypeOK
<1>1. SyncInv => TypeOK  BY DEF SyncInv
<1>. QED  BY <1>1, SyncInvHolds, PTL

\* save_checkpoint at the end of a category names it completed only with all that
\* was collected of it committed, under every fault of the model.
THEOREM CheckpointFollowsCommit == Spec => CheckpointNotAhead
<1>1. ASSUME SyncInv, [Next]_vars, NEW c \in Category, cp' # cp, cp' # None,
             c \in cp'.done \ done, c = cat
      PROVE  batch \subseteq DOMAIN db'
  <2>1. Next  BY <1>1 DEF vars
  <2>2. ~(StopAtPage \/ StopAtItem \/ LimitReached)
    BY <1>1 DEF StopAtPage, StopAtItem, StopHere, LimitReached
  <2>3. ~(BeginRun \/ BeginCategory \/ ReadPage \/ PagesEnd \/ NothingNew \/ GroupReleases)
    BY <1>1 DEF BeginRun, BeginCategory, ReadPage, PageOnly, PagesEnd, NothingNew,
                GroupReleases
  <2>4. ~(ProcessItem \/ Commit \/ Finish \/ CutoffMissing \/ Dies \/ RequestStop
          \/ ClearCheckpoint)
    BY <1>1 DEF ProcessItem, Commit, Finish, CutoffMissing, Dies, RequestStop,
                ClearCheckpoint
  <2>5. ~NightPasses /\ \A r \in Release : ~(Publish(r) \/ Remove(r))
    BY <1>1 DEF NightPasses, Publish, Remove
  <2>6. SaveProgress  BY <2>1, <2>2, <2>3, <2>4, <2>5 DEF Next, Script
  <2>. QED  BY <1>1, <2>6 DEF SaveProgress, SyncInv, BatchStored
<1>2. SyncInv /\ [Next]_vars
        => [\A c \in Category :
              cp' # cp /\ cp' # None /\ c \in cp'.done \ done /\ c = cat
                => batch \subseteq DOMAIN db']_vars
  BY <1>1
<1>. QED  BY <1>2, SyncInvHolds, PTL DEF Spec, CheckpointNotAhead

-----------------------------------------------------------------------------
(* Days, pages and ranks *)

LEMMA PageOf ==
    ASSUME NEW k \in Nat, NEW p \in Nat, NEW d \in Nat \ {0}
    PROVE  /\ p * d \in Nat /\ (p + 1) * d = p * d + d
           /\ k \div d = p <=> p * d <= k /\ k < p * d + d
<1>1. p * d \in Nat /\ (p + 1) * d = p * d + d  OBVIOUS
<1>2. k \div d \in Nat /\ (k \div d) * d <= k /\ k < (k \div d) * d + d  BY DivBounds
<1>3. k \div d = p => p * d <= k /\ k < p * d + d  BY <1>2
<1>4. ASSUME p * d <= k, k < p * d + d  PROVE k \div d = p
  <2>. DEFINE q == k \div d
  <2>1. q \in Nat /\ q * d <= k /\ k < q * d + d /\ q * d \in Nat  BY <1>2
  <2>. HIDE DEF q
  <2>2. ~(q < p)
    <3>1. SUFFICES ASSUME q < p PROVE FALSE  OBVIOUS
    <3>2. q * d + d <= p * d  BY <2>1, <3>1, TimesGrows
    <3>. QED  BY <1>1, <1>4, <2>1, <3>2
  <2>3. ~(p < q)
    <3>1. SUFFICES ASSUME p < q PROVE FALSE  OBVIOUS
    <3>2. p * d + d <= q * d  BY <2>1, <3>1, TimesGrows
    <3>. QED  BY <1>1, <1>4, <2>1, <3>2
  <2>4. q = p  BY <2>1, <2>2, <2>3
  <2>. QED  BY <2>4 DEF q
<1>. QED  BY <1>1, <1>3, <1>4

LEMMA DateOrder ==
    ASSUME DatesTyped(posted), clock \in Instant, NEW r \in DOMAIN posted,
           NEW s \in DOMAIN posted, posted[r] <= posted[s]
    PROVE  Date(r) <= Date(s)
<1>1. /\ posted[r] \in Nat /\ posted[s] \in Nat
      /\ Day(posted[r]) \in Nat /\ Day(posted[s]) \in Nat /\ Day(clock) \in Nat
      /\ Day(posted[r]) * DayLength \in Nat /\ Day(posted[s]) * DayLength \in Nat
      /\ Day(posted[r]) * DayLength <= posted[r]
  BY DateBounds, DayType, MomentsAreNumbers
<1>2. /\ Day(posted[r]) <= Day(posted[s])
      /\ Day(posted[r]) * DayLength <= Day(posted[s]) * DayLength
  BY <1>1, DayOrder, SyncAssumption DEF Day
<1>. QED  BY <1>1, <1>2 DEF Date, TimeShown

\* Releases of a category are published one after another.
Published ==
    /\ \A r \in DOMAIN posted : posted[r] <= clock
    /\ \A r, s \in DOMAIN posted :
         CategoryOf[r] = CategoryOf[s] /\ posted[r] = posted[s] => r = s

Newer(r) == {s \in Listed(CategoryOf[r]) : posted[s] > posted[r]}

LEMMA ListedFinite ==
    ASSUME TypeOK, NEW c
    PROVE  /\ Listed(c) \subseteq DOMAIN posted /\ IsFiniteSet(Listed(c))
           /\ \A r \in Listed(c) : posted[r] \in Nat /\ CategoryOf[r] = c
           /\ DOMAIN posted \subseteq Release
<1>1. Listed(c) \subseteq DOMAIN posted /\ DOMAIN posted \subseteq Release
  BY DEF TypeOK, Listed, DatesTyped
<1>2. \A r \in DOMAIN posted : posted[r] \in Nat  BY MomentsAreNumbers DEF TypeOK, DatesTyped
<1>3. IsFiniteSet(Listed(c))  BY <1>1, FS_Subset, SyncAssumption
<1>. QED  BY <1>1, <1>2, <1>3 DEF Listed

LEMMA RankType ==
    ASSUME TypeOK, NEW r
    PROVE  IsFiniteSet(Newer(r)) /\ Rank(r) = Cardinality(Newer(r)) /\ Rank(r) \in Nat
<1>1. Newer(r) \subseteq Listed(CategoryOf[r])  BY DEF Newer
<1>2. IsFiniteSet(Newer(r))  BY <1>1, ListedFinite, FS_Subset
<1>3. Rank(r) = Cardinality(Newer(r))  BY DEF Rank, Newer
<1>. QED  BY <1>2, <1>3, FS_CardinalityType

\* Of two releases of a category the newer one stands first.
LEMMA RankOrder ==
    ASSUME TypeOK, NEW c, NEW r \in Listed(c), NEW s \in Listed(c)
    PROVE  Rank(r) < Rank(s) <=> posted[s] < posted[r]
<1>1. /\ posted[r] \in Nat /\ posted[s] \in Nat /\ CategoryOf[r] = c /\ CategoryOf[s] = c
      /\ \A t \in Listed(c) : posted[t] \in Nat
  BY ListedFinite
<1>2. /\ IsFiniteSet(Newer(r)) /\ Rank(r) = Cardinality(Newer(r)) /\ Rank(r) \in Nat
      /\ IsFiniteSet(Newer(s)) /\ Rank(s) = Cardinality(Newer(s)) /\ Rank(s) \in Nat
  BY RankType
<1>3. ASSUME posted[s] < posted[r]  PROVE Rank(r) < Rank(s)
  <2>1. Newer(r) \cup {r} \subseteq Newer(s)  BY <1>1, <1>3 DEF Newer
  <2>2. r \notin Newer(r)  BY <1>1 DEF Newer
  <2>3. Cardinality(Newer(r) \cup {r}) = Rank(r) + 1
    BY <1>2, <2>2, FS_AddElement
  <2>4. Cardinality(Newer(r) \cup {r}) <= Rank(s)  BY <1>2, <2>1, FS_Subset
  <2>. QED  BY <1>2, <2>3, <2>4
<1>4. ASSUME ~(posted[s] < posted[r])  PROVE ~(Rank(r) < Rank(s))
  <2>1. Newer(s) \subseteq Newer(r)  BY <1>1, <1>4 DEF Newer
  <2>2. Rank(s) <= Rank(r)  BY <1>2, <2>1, FS_Subset
  <2>. QED  BY <1>2, <2>2
<1>. QED  BY <1>3, <1>4

\* No rank is left out: a page that is not the last is full.
LEMMA RankReached ==
    ASSUME TypeOK, Published, NEW c, NEW s \in Listed(c), NEW k \in Nat, k <= Rank(s)
    PROVE  \E r \in Listed(c) : Rank(r) = k
<1>. DEFINE S == {t \in Listed(c) : Rank(t) >= k}
<1>0. /\ \A t \in Listed(c) : t \in DOMAIN posted /\ CategoryOf[t] = c /\ posted[t] \in Moment
      /\ \A t : Rank(t) \in Nat /\ IsFiniteSet(Newer(t)) /\ Rank(t) = Cardinality(Newer(t))
      /\ Moment \subseteq Nat
  BY ListedFinite, RankType, MomentsAreNumbers DEF TypeOK, DatesTyped
<1>1. PICK r \in S : \A t \in S : posted[t] <= posted[r]
  <2>. DEFINE D == {posted[t] : t \in S}
  <2>1. D \in SUBSET Moment  BY <1>0
  <2>2. s \in S  BY <1>0
  <2>3. PICK d \in D : \A e \in D : e <= d
    <3>1. D # {}  BY <2>2
    <3>. HIDE DEF D
    <3>. QED  BY <2>1, <3>1, LargestExists
  <2>. QED  BY <2>3
<1>2. CASE Newer(r) = {}
  <2>1. Rank(r) = 0  BY <1>0, <1>2, FS_EmptySet
  <2>. QED  BY <1>1, <2>1
<1>3. CASE Newer(r) # {}
  <2>1. PICK q \in Newer(r) : \A t \in Newer(r) : posted[q] <= posted[t]
    <3>. DEFINE D == {2 * MaxClock - posted[t] : t \in Newer(r)}
    <3>1. \A t \in Newer(r) : posted[t] \in Moment  BY <1>0, <1>1 DEF Newer
    <3>2. D \in SUBSET Moment  BY <3>1, SyncAssumption DEF Moment
    <3>3. D # {}  BY <1>3
    <3>4. PICK d \in D : \A e \in D : e <= d
      <4>. HIDE DEF D
      <4>. QED  BY <3>2, <3>3, LargestExists
    <3>5. PICK q \in Newer(r) : d = 2 * MaxClock - posted[q]  BY <3>4
    <3>6. ASSUME NEW t \in Newer(r)  PROVE posted[q] <= posted[t]
      <4>1. 2 * MaxClock - posted[t] <= 2 * MaxClock - posted[q]  BY <3>4, <3>5, <3>6
      <4>. QED  BY <3>1, <3>5, <4>1, SyncAssumption DEF Moment
    <3>. QED  BY <3>5, <3>6
  <2>2. /\ q \in Listed(c) /\ r \in Listed(c) /\ posted[q] > posted[r]
        /\ posted[q] \in Nat /\ posted[r] \in Nat
    BY <1>0, <1>1 DEF Newer
  <2>3. Rank(q) < k
    <3>1. q \notin S
      <4>1. ~(posted[q] <= posted[r])  BY <2>2
      <4>. HIDE DEF S
      <4>. QED  BY <1>1, <4>1
    <3>. QED  BY <1>0, <2>2, <3>1
  <2>4. Newer(q) = Newer(r) \ {q}
    <3>1. ASSUME NEW t \in Listed(c)  PROVE t \in Newer(q) <=> t \in Newer(r) \ {q}
      <4>1. posted[t] = posted[q] => t = q  BY <1>0, <2>2 DEF Published
      <4>2. t \in Newer(r) => posted[q] <= posted[t]  BY <2>1
      <4>3. t \in Newer(r) <=> posted[t] > posted[r]  BY <1>0, <1>1 DEF Newer
      <4>4. t \in Newer(q) <=> posted[t] > posted[q]  BY <1>0, <2>2 DEF Newer
      <4>5. posted[t] \in Nat  BY <1>0
      <4>. QED  BY <2>2, <4>1, <4>2, <4>3, <4>4, <4>5
    <3>2. Newer(q) \subseteq Listed(c) /\ Newer(r) \subseteq Listed(c)  BY <1>0, <1>1, <2>2 DEF Newer
    <3>. QED  BY <3>1, <3>2
  <2>5. Rank(q) = Rank(r) - 1  BY <1>0, <2>1, <2>4, FS_RemoveElement
  <2>6. Rank(r) = k  BY <1>0, <1>1, <2>3, <2>5
  <2>. QED  BY <1>1, <2>6
<1>. QED  BY <1>2, <1>3

-----------------------------------------------------------------------------
(* Nothing due is passed over *)

\* The listing of a category is within the pages a run reads, and of a release and
\* the PageSize that follow it one is wanted.
Regular ==
    /\ \A r \in listed : Rank(r) < Depth * PageSize
    /\ \A r, s \in listed :
         CategoryOf[r] = CategoryOf[s] /\ Rank(s) >= Rank(r) + PageSize =>
           \E w \in Wanted \cap Listed(CategoryOf[r]) : Rank(w) \in Rank(r) .. Rank(s)

\* After a page without a new release: from a release on that was at its head, all
\* that are wanted so far are too old.  The head is not on the page read next.
PageWithoutNew ==
    (pc = "page" /\ empty_pages = 1) =>
      /\ page > 0 /\ shift < PageSize /\ target # None
      /\ \E r \in Listed(cat) :
           /\ Rank(r) <= (page - 1) * PageSize + shift
           /\ \A t \in Wanted \cap Listed(cat) :
                posted[t] <= posted[r] /\ Rank(t) < page * PageSize => Date(t) < target

Collected == pc \in {"group", "items", "save"}

\* What is due, and still accepted, is collected or still ahead.
DueAhead ==
    page_start = 0 /\ (pc = "page" \/ Collected) =>
      \A s \in due :
        /\ s \in Listed(cat) /\ target # None
        /\ Accepted(s, target) =>
             s \in batch \/ (pc = "page" /\ Rank(s) >= page * PageSize)

LEMMA ReleaseFacts ==
    ASSUME TypeOK, NEW c, NEW s \in Listed(c)
    PROVE  /\ s \in listed /\ s \in DOMAIN posted /\ CategoryOf[s] = c
           /\ posted[s] \in Nat /\ Date(s) \in Nat /\ Rank(s) \in Nat
<1>1. s \in DOMAIN posted /\ posted[s] \in Nat /\ CategoryOf[s] = c  BY ListedFinite
<1>2. Date(s) \in Nat  BY <1>1, DateBounds DEF TypeOK
<1>. QED  BY <1>1, <1>2, RankType DEF Listed

LEMMA OlderDate ==
    ASSUME TypeOK, NEW c, NEW w \in Listed(c), NEW s \in Listed(c), Rank(w) < Rank(s)
    PROVE  Date(s) <= Date(w)
<1>1. posted[s] < posted[w]  BY RankOrder
<1>2. posted[s] \in Nat /\ posted[w] \in Nat  BY ReleaseFacts
<1>. QED  BY <1>1, <1>2, ReleaseFacts, DateOrder DEF TypeOK

\* An accepted release of the page read is collected, another ahead stays ahead.
LEMMA NextPage ==
    ASSUME TypeOK, ReadPage, NEW s \in Listed(cat), Accepted(s, target),
           Rank(s) >= page * PageSize
    PROVE  s \in batch' \/ Rank(s) >= page * PageSize + PageSize
<1>1. Rank(s) \in Nat /\ page \in Nat /\ PageSize \in Nat \ {0}
  BY ReleaseFacts, SyncAssumption DEF TypeOK
<1>2. CASE Rank(s) < page * PageSize + PageSize
  <2>1. Rank(s) \div PageSize = page  BY <1>1, <1>2, PageOf
  <2>2. s \in OnPage(cat, page)  BY <2>1 DEF OnPage
  <2>. QED  BY <2>2 DEF ReadPage, Collect
<1>. QED
  <2>1. page * PageSize \in Nat  BY <1>1
  <2>. QED  BY <1>1, <1>2, <2>1

\* A second page in a row without a new release is the end of the new ones.
LEMMA SecondPage ==
    ASSUME TypeOK, InCategory, Published, PageWithoutNew, Regular, Undated = {},
           ReadPage, pc' = "group", NEW s \in Listed(cat), target # None,
           Accepted(s, target), Rank(s) >= page * PageSize
    PROVE  s \in batch'
<1>. SUFFICES ASSUME s \notin batch' PROVE FALSE  OBVIOUS
<1>. DEFINE here == page * PageSize
<1>1. /\ page \in Nat /\ PageSize \in Nat \ {0} /\ here \in Nat /\ target \in Nat
      /\ shift \in Nat
  BY SyncAssumption DEF TypeOK
<1>2. Rank(s) >= here + PageSize  BY NextPage
<1>3. /\ empty_pages = 1
      /\ \A t \in OnPage(cat, page) : ~Accepted(t, target)
  <2>1. empty_pages' = 2 /\ pc = "page"  BY DEF ReadPage
  <2>2. {r \in OnPage(cat, page) : Accepted(r, target)} = {} /\ empty_pages' = empty_pages + 1
    BY <2>1 DEF ReadPage
  <2>3. empty_pages = 1  BY <2>1, <2>2 DEF TypeOK
  <2>. QED  BY <2>2, <2>3
<1>4. PICK r \in Listed(cat) :
        /\ Rank(r) <= (page - 1) * PageSize + shift
        /\ \A t \in Wanted \cap Listed(cat) :
             posted[t] <= posted[r] /\ Rank(t) < here => Date(t) < target
  BY <1>3 DEF PageWithoutNew, ReadPage
<1>5. Rank(r) < here /\ Rank(r) \in Nat /\ Rank(s) \in Nat
  <2>1. page > 0 /\ shift < PageSize  BY <1>3 DEF PageWithoutNew, ReadPage
  <2>2. page - 1 \in Nat /\ (page - 1) * PageSize \in Nat
        /\ here = (page - 1) * PageSize + PageSize
    <3>1. page - 1 \in Nat /\ page = (page - 1) + 1  BY <1>1, <2>1
    <3>. HIDE DEF here
    <3>2. (page - 1) * PageSize \in Nat
          /\ ((page - 1) + 1) * PageSize = (page - 1) * PageSize + PageSize
      BY <1>1, <3>1, PageOf
    <3>. QED  BY <3>1, <3>2 DEF here
  <2>3. Rank(r) \in Nat /\ Rank(s) \in Nat  BY ReleaseFacts
  <2>. HIDE DEF here
  <2>. QED  BY <1>1, <1>4, <2>1, <2>2, <2>3
<1>. HIDE DEF here
<1>6. PICK b \in Listed(cat) : Rank(b) = Rank(r) + PageSize
  <2>1. Rank(r) + PageSize \in Nat /\ Rank(r) + PageSize <= Rank(s)
    BY <1>1, <1>2, <1>5
  <2>. QED  BY <2>1, RankReached
<1>7. PICK w \in Wanted \cap Listed(cat) : Rank(w) \in Rank(r) .. Rank(b)
  <2>1. r \in listed /\ b \in listed /\ CategoryOf[r] = cat /\ CategoryOf[b] = cat
    BY ReleaseFacts
  <2>2. Rank(b) >= Rank(r) + PageSize  BY <1>1, <1>5, <1>6
  <2>. QED  BY <2>1, <2>2 DEF Regular
<1>8. Rank(w) \in Nat /\ Rank(w) >= Rank(r) /\ Rank(w) < here + PageSize
  BY <1>1, <1>5, <1>6, <1>7, ReleaseFacts
<1>9. posted[w] <= posted[r]
  <2>1. ~(posted[r] < posted[w])  BY <1>5, <1>8, RankOrder
  <2>2. posted[r] \in Nat /\ posted[w] \in Nat  BY ReleaseFacts
  <2>. QED  BY <2>1, <2>2
<1>10. Date(w) \in Nat /\ Date(s) \in Nat  BY ReleaseFacts
<1>11. Date(w) < target
  <2>1. CASE Rank(w) < here  BY <1>4, <1>9, <2>1
  <2>2. CASE ~(Rank(w) < here)
    <3>1. Rank(w) \div PageSize = page  BY <1>1, <1>8, <2>2, PageOf DEF here
    <3>2. w \in OnPage(cat, page)  BY <3>1 DEF OnPage
    <3>. QED  BY <1>1, <1>3, <1>10, <3>2 DEF Accepted
  <2>. QED  BY <2>1, <2>2
<1>12. Date(s) <= Date(w)  BY <1>1, <1>2, <1>5, <1>8, OlderDate
<1>. QED  BY <1>1, <1>10, <1>11, <1>12 DEF Accepted

\* The reading ends where nothing is left to read.
LEMMA ReadingEnds ==
    ASSUME TypeOK, InCategory, Published, PageWithoutNew, Regular, Undated = {},
           "page" \notin Faults, ReadPage \/ PagesEnd, pc' = "group",
           NEW s \in Listed(cat), target # None, Accepted(s, target),
           Rank(s) >= page * PageSize
    PROVE  s \in batch'
<1>1. CASE ReadPage  BY <1>1, SecondPage
<1>2. CASE PagesEnd
  <2>1. /\ Rank(s) \in Nat /\ s \in listed /\ page \in Nat /\ PageSize \in Nat \ {0}
        /\ Depth \in Nat
    BY ReleaseFacts, SyncAssumption DEF TypeOK
  <2>2. CASE page >= Depth
    <3>1. Rank(s) < Depth * PageSize  BY <2>1 DEF Regular
    <3>2. Depth * PageSize <= page * PageSize
      <4>1. CASE page = Depth
        <5>1. Depth * PageSize \in Nat  BY <2>1
        <5>. QED  BY <4>1, <5>1
      <4>2. CASE Depth < page
        <5>1. Depth * PageSize + PageSize <= page * PageSize  BY <2>1, <4>2, TimesGrows
        <5>2. Depth * PageSize \in Nat /\ page * PageSize \in Nat  BY <2>1
        <5>. QED  BY <2>1, <5>1, <5>2
      <4>. QED  BY <2>1, <2>2, <4>1, <4>2
    <3>3. Depth * PageSize \in Nat /\ page * PageSize \in Nat  BY <2>1
    <3>. QED  BY <2>1, <3>1, <3>2, <3>3
  <2>3. CASE OnPage(cat, page) = {}
    <3>1. page * PageSize \in Nat /\ page * PageSize <= Rank(s)  BY <2>1
    <3>2. PICK r \in Listed(cat) : Rank(r) = page * PageSize  BY <3>1, RankReached
    <3>3. Rank(r) \div PageSize = page  BY <2>1, <3>1, <3>2, PageOf
    <3>. QED  BY <2>3, <3>2, <3>3 DEF OnPage
  <2>. QED  BY <1>2, <2>2, <2>3 DEF PagesEnd
<1>. QED  BY <1>1, <1>2

\* The head of the first page without a new release.
LEMMA FirstPage ==
    ASSUME TypeOK, InCategory, Published, Undated = {}, ReadPage
    PROVE  PageWithoutNew'
<1>. SUFFICES ASSUME pc' = "page", empty_pages' = 1
              PROVE  /\ page' > 0 /\ shift' < PageSize /\ target # None
                     /\ \E r \in Listed(cat) :
                          /\ Rank(r) <= (page' - 1) * PageSize + shift'
                          /\ \A t \in Wanted \cap Listed(cat) :
                               posted[t] <= posted[r] /\ Rank(t) < page' * PageSize
                                 => Date(t) < target
  BY DEF PageWithoutNew, ReadPage, PageOnly, tracker, Listed, Rank, Date, TimeShown, Day
<1>. DEFINE new == {r \in OnPage(cat, page) : Accepted(r, target)}
<1>1. /\ empty_pages' = IF new = {} THEN empty_pages + 1 ELSE 0
      /\ shift' = 0 /\ OnPage(cat, page) # {} /\ page' = page + 1
      /\ target # None \/ OnPage(cat, page) \subseteq Undated
  BY DEF ReadPage
<1>2. new = {} /\ target # None  BY <1>1
<1>3. /\ page \in Nat /\ PageSize \in Nat \ {0} /\ page * PageSize \in Nat /\ target \in Nat
      /\ (page + 1) * PageSize = page * PageSize + PageSize
  BY <1>2, SyncAssumption DEF TypeOK
<1>4. PICK o \in Listed(cat) : Rank(o) \div PageSize = page  BY <1>1 DEF OnPage
<1>5. page * PageSize <= Rank(o)
  <2>1. Rank(o) \in Nat  BY ReleaseFacts
  <2>. QED  BY <1>3, <1>4, <2>1, PageOf
<1>6. PICK r \in Listed(cat) : Rank(r) = page * PageSize  BY <1>3, <1>5, RankReached
<1>7. ASSUME NEW t \in Wanted \cap Listed(cat), posted[t] <= posted[r],
             Rank(t) < page' * PageSize
      PROVE  Date(t) < target
  <2>1. /\ posted[t] \in Nat /\ posted[r] \in Nat /\ Rank(t) \in Nat /\ Date(t) \in Nat
        /\ Rank(r) \in Nat
    BY ReleaseFacts
  <2>2. ~(Rank(t) < Rank(r))
    <3>1. ~(posted[r] < posted[t])  BY <1>7, <2>1
    <3>. QED  BY <3>1, RankOrder
  <2>3. page * PageSize <= Rank(t) /\ Rank(t) < page * PageSize + PageSize
    BY <1>1, <1>3, <1>6, <1>7, <2>1, <2>2
  <2>4. Rank(t) \div PageSize = page  BY <1>3, <2>1, <2>3, PageOf
  <2>5. t \in OnPage(cat, page)  BY <2>4 DEF OnPage
  <2>6. ~Accepted(t, target)  BY <1>2, <2>5
  <2>. QED  BY <1>3, <2>1, <2>6 DEF Accepted
<1>8. page' > 0 /\ shift' < PageSize /\ (page' - 1) * PageSize + shift' = page * PageSize
  <2>1. page' - 1 = page  BY <1>1, <1>3
  <2>. QED  BY <1>1, <1>3, <2>1
<1>. QED  BY <1>2, <1>3, <1>6, <1>7, <1>8

\* A publication moves the releases of its category down by one.
LEMMA PublishRanks ==
    ASSUME TypeOK, Published, NEW q \in Release, Publish(q), NEW c, NEW t \in Listed(c)
    PROVE  /\ t \in Listed(c)' /\ posted'[t] = posted[t] /\ t # q
           /\ Date(t)' \in Nat /\ Date(t)' <= Date(t)
           /\ Rank(t) <= Rank(t)' /\ Rank(t)' <= Rank(t) + 1 /\ Rank(t)' \in Nat
           /\ CategoryOf[q] # c => Rank(t)' = Rank(t)
<1>1. /\ clock \in Nat /\ q \notin DOMAIN posted /\ listed' = listed \cup {q}
      /\ posted' = [s \in DOMAIN posted \cup {q} |-> IF s = q THEN clock + 1 ELSE posted[s]]
  BY MomentsAreNumbers DEF Publish, TypeOK
<1>2. t \in DOMAIN posted /\ t # q /\ posted[t] \in Nat /\ CategoryOf[t] = c /\ t \in listed
  BY <1>1, ReleaseFacts
<1>3. posted'[t] = posted[t]  BY <1>1, <1>2
<1>0. Date(t)' \in Nat /\ Date(t)' <= Date(t)
  <2>1. clock' = clock + 1  BY DEF Publish
  <2>. QED  BY <1>1, <1>2, <1>3, <2>1, DateFalls DEF TypeOK
<1>4. posted'[q] = clock + 1 /\ posted'[q] > posted[t]  BY <1>1, <1>2 DEF Published
<1>5. \A s \in Listed(c) : posted'[s] = posted[s]  BY <1>1, ListedFinite
<1>6. /\ Rank(t) = Cardinality(Newer(t)) /\ IsFiniteSet(Newer(t)) /\ Rank(t) \in Nat
      /\ q \notin Newer(t)
  BY <1>1, RankType, ListedFinite DEF Newer
<1>7. Rank(t)' = Cardinality({s \in Listed(c)' : posted'[s] > posted'[t]})
  BY <1>2 DEF Rank
<1>8. Newer(t) = {s \in Listed(c) : posted[s] > posted[t]}  BY <1>2 DEF Newer
<1>9. CASE CategoryOf[q] = c
  <2>1. Listed(c)' = Listed(c) \cup {q}  BY <1>1, <1>9 DEF Listed
  <2>2. {s \in Listed(c)' : posted'[s] > posted'[t]} = Newer(t) \cup {q}
    BY <1>3, <1>4, <1>5, <1>8, <2>1
  <2>3. Cardinality(Newer(t) \cup {q}) = Rank(t) + 1  BY <1>6, FS_AddElement
  <2>4. Rank(t)' = Rank(t) + 1  BY <1>7, <2>2, <2>3
  <2>. QED  BY <1>0, <1>2, <1>3, <1>6, <1>9, <2>1, <2>4
<1>10. CASE CategoryOf[q] # c
  <2>1. Listed(c)' = Listed(c)  BY <1>1, <1>10 DEF Listed
  <2>2. {s \in Listed(c)' : posted'[s] > posted'[t]} = Newer(t)
    BY <1>3, <1>5, <1>8, <2>1
  <2>3. Rank(t)' = Rank(t)  BY <1>6, <1>7, <2>2
  <2>. QED  BY <1>0, <1>2, <1>3, <1>6, <1>10, <2>1, <2>3
<1>. QED  BY <1>9, <1>10

\* What a publication adds to the listing of a category.
LEMMA PublishLists ==
    ASSUME TypeOK, Published, NEW q \in Release, Publish(q), NEW c
    PROVE  /\ Listed(c)' = Listed(c) \cup (IF CategoryOf[q] = c THEN {q} ELSE {})
           /\ \A t \in Listed(c) : posted'[t] = posted[t] /\ posted'[q] > posted[t]
<1>1. listed' = listed \cup {q} /\ q \notin DOMAIN posted /\ clock \in Nat
      /\ posted' = [s \in DOMAIN posted \cup {q} |-> IF s = q THEN clock + 1 ELSE posted[s]]
  BY MomentsAreNumbers DEF Publish, TypeOK
<1>2. \A t \in Listed(c) : t \in DOMAIN posted /\ posted[t] \in Nat  BY ListedFinite
<1>. QED  BY <1>1, <1>2 DEF Published, Listed

LEMMA PublishedKept == ASSUME TypeOK, Published, [Next]_vars PROVE Published'
<1>1. CASE \E q \in Release : Publish(q)
  <2>1. PICK q \in Release : Publish(q)  BY <1>1
  <2>2. /\ clock \in Nat /\ clock' = clock + 1 /\ q \notin DOMAIN posted
        /\ posted' = [s \in DOMAIN posted \cup {q} |-> IF s = q THEN clock + 1 ELSE posted[s]]
    BY <2>1, MomentsAreNumbers DEF Publish, TypeOK
  <2>3. \A r \in DOMAIN posted : posted[r] \in Nat /\ posted[r] <= clock /\ posted'[r] = posted[r]
    BY <2>2, MomentsAreNumbers DEF Published, TypeOK, DatesTyped
  <2>4. posted'[q] = clock + 1 /\ DOMAIN posted' = DOMAIN posted \cup {q}  BY <2>2
  <2>. QED  BY <2>2, <2>3, <2>4 DEF Published
<1>2. CASE UNCHANGED <<clock, posted>>  BY <1>2 DEF Published
<1>3. CASE NightPasses
  <2>1. clock \in Nat /\ clock' \in Nat /\ clock <= clock' /\ UNCHANGED posted
    BY <1>3, NightTime DEF NightPasses, TypeOK
  <2>2. \A r \in DOMAIN posted : posted[r] \in Nat
    BY MomentsAreNumbers DEF TypeOK, DatesTyped
  <2>. QED  BY <2>1, <2>2 DEF Published
<1>. QED
  BY <1>1, <1>2, <1>3
  DEF vars, tracker, Next, Script, BeginRun, BeginCategory, ReadPage, PageOnly, PagesEnd,
      NothingNew, GroupReleases, ProcessItem, Commit, SaveProgress, Finish, StopAtPage,
      StopAtItem, StopHere, CutoffMissing, LimitReached, Dies, RequestStop, ClearCheckpoint,
      Remove

LEMMA PublishedFirst == ASSUME Init PROVE Published
<1>. USE SyncAssumption DEF Init
<1>1. \A r \in Late : /\ \E i \in DOMAIN Backlog : Backlog[i] = r
                      /\ r \notin Seeded
  BY DEF Late
<1>2. DOMAIN Backlog = 1 .. Len(Backlog) /\ Len(Backlog) \in Nat  OBVIOUS
<1>3. \A r \in Late : posted[r] \in DOMAIN Backlog /\ Backlog[posted[r]] = r  BY <1>1
<1>4. \A r \in Seeded : posted[r] = 0  OBVIOUS
<1>5. DOMAIN posted = Seeded \cup Late  OBVIOUS
<1>6. \A r \in DOMAIN posted : posted[r] <= clock
  BY <1>2, <1>3, <1>4, <1>5
<1>7. ASSUME NEW r \in DOMAIN posted, NEW s \in DOMAIN posted,
             CategoryOf[r] = CategoryOf[s], posted[r] = posted[s]
      PROVE  r = s
  <2>1. CASE r \in Late /\ s \in Late  BY <1>3, <1>7, <2>1
  <2>2. CASE r \in Seeded /\ s \in Seeded  BY <1>7, <2>2
  <2>3. \A t \in Late : posted[t] # 0  BY <1>2, <1>3
  <2>. QED  BY <1>4, <1>5, <1>7, <2>1, <2>2, <2>3
<1>. QED  BY <1>6, <1>7 DEF Published

\* Outside a category nothing is due, and a step that leaves the reading alone
\* changes nothing of it.
Idles == UNCHANGED <<tracker, db, pc, manual, scan>>

LEMMA DueOutside == ASSUME pc' \in {"off", "cats"} PROVE PageWithoutNew' /\ DueAhead'
BY DEF PageWithoutNew, DueAhead, Collected

LEMMA DueIdle ==
    ASSUME PageWithoutNew, DueAhead, Idles PROVE PageWithoutNew' /\ DueAhead'
BY DEF Idles, tracker, scan, PageWithoutNew, DueAhead, Collected, Listed, Rank, Date, TimeShown,
       Day, Accepted

LEMMA DuePublish ==
    ASSUME TypeOK, Published, Undated = {}, PageWithoutNew, DueAhead, NEW q \in Release, Publish(q)
    PROVE  PageWithoutNew' /\ DueAhead'
<1>1. UNCHANGED <<pc, cat, target, page_start, page, empty_pages, batch, due>>
  BY DEF Publish
<1>2. /\ shift \in Nat /\ page \in Nat /\ PageSize \in Nat \ {0}
      /\ page * PageSize \in Nat /\ (page > 0 => (page - 1) * PageSize \in Nat)
  <2>1. page \in Nat /\ PageSize \in Nat \ {0} /\ shift \in Nat
    BY SyncAssumption DEF TypeOK
  <2>2. page > 0 => page - 1 \in Nat  BY <2>1
  <2>. QED  BY <2>1, <2>2
<1>3. PageWithoutNew'
  <2>. SUFFICES ASSUME pc = "page", empty_pages = 1  PROVE PageWithoutNew'
    BY <1>1 DEF PageWithoutNew
  <2>1. PICK r \in Listed(cat) :
          /\ Rank(r) <= (page - 1) * PageSize + shift
          /\ \A t \in Wanted \cap Listed(cat) :
               posted[t] <= posted[r] /\ Rank(t) < page * PageSize => Date(t) < target
    BY DEF PageWithoutNew
  <2>2. page > 0 /\ shift < PageSize /\ target # None  BY DEF PageWithoutNew
  <2>3. IF CategoryOf[q] = cat THEN shift + 1 < PageSize /\ shift' = shift + 1
                               ELSE shift' = shift
    BY DEF Publish
  <2>4. shift' < PageSize /\ Rank(r)' <= (page - 1) * PageSize + shift'
    <3>1. /\ Rank(r)' \in Nat /\ Rank(r) \in Nat /\ Rank(r)' <= Rank(r) + 1
          /\ CategoryOf[q] # cat => Rank(r)' = Rank(r)
      BY PublishRanks, ReleaseFacts
    <3>. QED  BY <1>2, <2>1, <2>2, <2>3, <3>1
  <2>5. r \in Listed(cat)'  BY <1>1, PublishRanks DEF Listed
  <2>6. ASSUME NEW t \in Wanted \cap Listed(cat)', posted'[t] <= posted'[r],
               Rank(t)' < page * PageSize
        PROVE  Date(t)' < target
    <3>1. posted[r] \in Nat /\ posted'[r] = posted[r] /\ posted'[q] > posted[r]
      BY PublishLists, ReleaseFacts
    <3>2. posted'[q] \in Nat  BY MomentsAreNumbers DEF Publish, TypeOK
    <3>3. t # q  BY <2>6, <3>1, <3>2
    <3>4. t \in Listed(cat)  BY <1>1, <2>6, <3>3, PublishLists DEF Listed
    <3>5. /\ Rank(t) <= Rank(t)' /\ Rank(t)' \in Nat /\ Rank(t) \in Nat
          /\ posted'[t] = posted[t] /\ Date(t)' <= Date(t)
          /\ Date(t) \in Nat /\ Date(t)' \in Nat
      BY <3>4, PublishRanks, ReleaseFacts
    <3>6. Date(t) < target  BY <1>2, <2>1, <2>6, <3>1, <3>4, <3>5
    <3>7. target \in Nat
      BY DEF TypeOK, PageWithoutNew
    <3>. QED  BY <3>5, <3>6, <3>7
  <2>. QED  BY <1>1, <2>2, <2>4, <2>5, <2>6 DEF PageWithoutNew
<1>4. DueAhead'
  <2>1. ASSUME page_start = 0, pc = "page" \/ Collected, NEW s \in due
        PROVE  /\ s \in Listed(cat)' /\ target # None
               /\ Accepted(s, target)' =>
                    s \in batch \/ (pc = "page" /\ Rank(s)' >= page * PageSize)
    <3>1. /\ s \in Listed(cat) /\ target # None
          /\ Accepted(s, target) =>
               s \in batch \/ (pc = "page" /\ Rank(s) >= page * PageSize)
      BY <2>1 DEF DueAhead
    <3>2. /\ Date(s)' <= Date(s) /\ Date(s)' \in Nat /\ Date(s) \in Nat /\ target \in Nat
          /\ Rank(s) <= Rank(s)' /\ Rank(s)' \in Nat /\ Rank(s) \in Nat
      BY <3>1, PublishRanks, ReleaseFacts DEF TypeOK
    <3>3. s \in Listed(cat)'  BY <1>1, <3>1, PublishRanks DEF Listed
    <3>4. Accepted(s, target)' => Accepted(s, target)  BY <1>1, <3>2 DEF Accepted
    <3>. QED  BY <1>1, <1>2, <3>1, <3>2, <3>3, <3>4
  <2>. QED  BY <1>1, <2>1 DEF DueAhead, Collected
<1>. QED  BY <1>3, <1>4

LEMMA DueNight ==
    ASSUME TypeOK, Undated = {}, PageWithoutNew, DueAhead, NightPasses
    PROVE  PageWithoutNew' /\ DueAhead'
<1>1. UNCHANGED <<posted, listed, pc, cat, target, page_start, page, empty_pages, shift,
                  batch, due>>
  BY DEF NightPasses, ScriptIdle, scan
<1>2. /\ \A c : Listed(c)' = Listed(c)
      /\ \A r : Rank(r)' = Rank(r)
  BY <1>1 DEF Listed, Rank
<1>3. ASSUME NEW c, NEW t \in Listed(c)
      PROVE  Date(t)' \in Nat /\ Date(t) \in Nat /\ Date(t)' <= Date(t)
  <2>1. t \in DOMAIN posted /\ Date(t) \in Nat  BY <1>3, ReleaseFacts
  <2>2. clock \in Nat /\ clock' \in Nat /\ clock <= clock'  BY NightTime DEF TypeOK
  <2>. QED  BY <1>1, <2>1, <2>2, DateFalls DEF TypeOK
<1>4. PageWithoutNew'
  <2>. SUFFICES ASSUME pc = "page", empty_pages = 1  PROVE PageWithoutNew'
    BY <1>1 DEF PageWithoutNew
  <2>2. PICK r \in Listed(cat) :
          /\ Rank(r) <= (page - 1) * PageSize + shift
          /\ \A t \in Wanted \cap Listed(cat) :
               posted[t] <= posted[r] /\ Rank(t) < page * PageSize => Date(t) < target
    BY DEF PageWithoutNew
  <2>3. target \in Nat  BY DEF TypeOK, PageWithoutNew
  <2>4. \A t \in Wanted \cap Listed(cat) :
          posted[t] <= posted[r] /\ Rank(t) < page * PageSize => Date(t)' < target
    BY <1>3, <2>2, <2>3
  <2>5. page > 0 /\ shift < PageSize /\ target # None  BY DEF PageWithoutNew
  <2>. QED  BY <1>1, <1>2, <2>2, <2>4, <2>5 DEF PageWithoutNew, Listed
<1>5. DueAhead'
  <2>1. ASSUME page_start = 0, pc = "page" \/ Collected, NEW s \in due
        PROVE  /\ s \in Listed(cat) /\ target # None
               /\ Accepted(s, target)' =>
                    s \in batch \/ (pc = "page" /\ Rank(s) >= page * PageSize)
    <3>1. /\ s \in Listed(cat) /\ target # None
          /\ Accepted(s, target) =>
               s \in batch \/ (pc = "page" /\ Rank(s) >= page * PageSize)
      BY <2>1 DEF DueAhead
    <3>2. Date(s)' <= Date(s) /\ Date(s)' \in Nat /\ Date(s) \in Nat /\ target \in Nat
      BY <1>3, <3>1 DEF TypeOK
    <3>3. Accepted(s, target)' => Accepted(s, target)  BY <1>1, <3>2 DEF Accepted
    <3>. QED  BY <3>1, <3>3
  <2>. QED  BY <1>1, <1>2, <2>1 DEF DueAhead, Collected, Listed, Rank
<1>. QED  BY <1>4, <1>5

LEMMA DueBegin ==
    ASSUME TypeOK, BeginCategory PROVE PageWithoutNew' /\ DueAhead'
<1>1. /\ pc' = "page" /\ page' = page_start' /\ empty_pages' = 0 /\ batch' = {}
      /\ UNCHANGED tracker
      /\ due' = IF target' = None THEN {}
                ELSE {r \in Listed(cat') : Accepted(r, target') /\ Rank(r) < Depth * PageSize}
  BY DEF BeginCategory
<1>2. PageWithoutNew'  BY <1>1 DEF PageWithoutNew
<1>3. ASSUME page_start' = 0, NEW s \in due'
      PROVE  /\ s \in Listed(cat') /\ target' # None /\ Accepted(s, target')
             /\ Rank(s) >= page' * PageSize
  <2>1. target' # None  BY <1>1, <1>3
  <2>2. s \in Listed(cat') /\ Accepted(s, target')  BY <1>1, <1>3, <2>1
  <2>3. Rank(s) \in Nat  BY RankType
  <2>4. page' * PageSize = 0  BY <1>1, <1>3, SyncAssumption
  <2>. QED  BY <2>1, <2>2, <2>3, <2>4
<1>4. DueAhead'
  BY <1>1, <1>3 DEF DueAhead, Collected, tracker, Listed, Rank, Accepted, Date, TimeShown, Day
<1>. QED  BY <1>2, <1>4

LEMMA DueReading ==
    ASSUME TypeOK, InCategory, Published, PageWithoutNew, DueAhead, Regular, Undated = {},
           "page" \notin Faults, ReadPage \/ PagesEnd
    PROVE  PageWithoutNew' /\ DueAhead'
<1>1. /\ UNCHANGED <<tracker, cat, target, page_start, due>> /\ pc = "page"
      /\ batch \subseteq batch' /\ pc' \in {"page", "group"}
      /\ pc' = "page" => ReadPage /\ page' = page + 1
  BY DEF ReadPage, Collect, PagesEnd, PageOnly
<1>2. PageWithoutNew'
  BY FirstPage, <1>1 DEF PageWithoutNew
<1>3. ASSUME page_start = 0, NEW s \in due
      PROVE  /\ s \in Listed(cat) /\ target # None
             /\ Accepted(s, target) =>
                  s \in batch' \/ (pc' = "page" /\ Rank(s) >= page' * PageSize)
  <2>1. /\ s \in Listed(cat) /\ target # None
        /\ Accepted(s, target) => s \in batch \/ Rank(s) >= page * PageSize
    BY <1>1, <1>3 DEF DueAhead
  <2>2. CASE pc' = "group"  BY <1>1, <2>1, <2>2, ReadingEnds
  <2>3. CASE pc' = "page"
    <3>1. (page + 1) * PageSize = page * PageSize + PageSize
      BY PageOf, SyncAssumption DEF TypeOK
    <3>. QED  BY <1>1, <2>1, <2>3, <3>1, NextPage
  <2>. QED  BY <1>1, <2>1, <2>2, <2>3
<1>4. DueAhead'
  BY <1>1, <1>3 DEF DueAhead, Collected, tracker, Listed, Rank, Accepted, Date, TimeShown, Day
<1>. QED  BY <1>2, <1>4

LEMMA DueStored ==
    ASSUME DueAhead, GroupReleases \/ ProcessItem \/ Commit
    PROVE  PageWithoutNew' /\ DueAhead'
<1>1. /\ UNCHANGED <<tracker, cat, target, page_start, batch, due>>
      /\ pc # "page" /\ pc' # "page" /\ Collected
  BY DEF GroupReleases, ProcessItem, Commit, Collected
<1>. QED
  BY <1>1 DEF tracker, PageWithoutNew, DueAhead, Listed, Accepted, Date, TimeShown, Day

ScanInv == SyncInv /\ Published /\ PageWithoutNew /\ DueAhead

LEMMA ScanNext ==
    ASSUME Undated = {}, Faults \cap {"page", "removal"} = {}, ScanInv, Regular, [Next]_vars
    PROVE  ScanInv'
<1>1. SyncInv' /\ Published'  BY SyncNext, PublishedKept DEF ScanInv, SyncInv
<1>2. PageWithoutNew' /\ DueAhead'
  <2>. USE DEF ScanInv, SyncInv
  <2>1. CASE BeginCategory  BY <2>1, DueBegin
  <2>2. CASE ReadPage \/ PagesEnd  BY <2>2, DueReading
  <2>3. CASE GroupReleases \/ ProcessItem \/ Commit  BY <2>3, DueStored
  <2>4. CASE BeginRun \/ NothingNew \/ SaveProgress \/ Finish \/ StopAtPage \/ StopAtItem
             \/ CutoffMissing \/ LimitReached \/ Dies
    BY <2>4, DueOutside
    DEF BeginRun, NothingNew, SaveProgress, Finish, StopAtPage, StopAtItem, StopHere,
        CutoffMissing, LimitReached, Dies, RunEnds
  <2>5. CASE RequestStop \/ ClearCheckpoint \/ UNCHANGED vars
    BY <2>5, DueIdle DEF RequestStop, ClearCheckpoint, ScriptIdle, vars, Idles, run
  <2>6. ASSUME NEW q \in Release, Publish(q)  PROVE PageWithoutNew' /\ DueAhead'
    BY <2>6, DuePublish
  <2>7. \A q \in Release : ~Remove(q)  BY DEF Remove
  <2>8. CASE NightPasses  BY <2>8, DueNight
  <2>. QED  BY <2>1, <2>2, <2>3, <2>4, <2>5, <2>6, <2>7, <2>8 DEF Next, Script
<1>. QED  BY <1>1, <1>2 DEF ScanInv

LEMMA ScanInit == ASSUME Init PROVE ScanInv
BY SyncInit, PublishedFirst DEF Init, NoScan, ScanInv, PageWithoutNew, DueAhead, Collected

\* get_category_releases and the loop over the pages: a scan from the first page
\* collects and commits whatever the cut-off lets through from its beginning to its
\* end, though the pages shift under it and the tracker's dates lose their time.
\* Dates must parse, pages must come, and Regular says for which listings.
THEOREM ScanBringsAll ==
    ASSUME Undated = {}, Faults \cap {"page", "removal"} = {}
    PROVE  Spec /\ []Regular => ScanIsComplete
<1>1. ScanInv /\ Regular /\ [Next]_vars => ScanInv'  BY ScanNext
<1>2. ScanInv /\ ScanInv' /\ [Next]_vars =>
        [page_start = 0 /\ cat # None /\ pc' = "save"
           => {r \in due : Accepted(r, target)} \subseteq DOMAIN db']_vars
  <2>. SUFFICES ASSUME ScanInv, ScanInv', [Next]_vars, page_start = 0, pc' = "save",
                       NEW r \in due, Accepted(r, target)
                PROVE  r \in DOMAIN db'
    OBVIOUS
  <2>1. UNCHANGED batch /\ Collected /\ pc # "page"
    BY DEF Collected, vars, scan, Next, Script, BeginRun, BeginCategory, ReadPage, PagesEnd,
           NothingNew, GroupReleases, ProcessItem, Commit, SaveProgress, Finish, StopAtPage,
           StopAtItem, StopHere, CutoffMissing, LimitReached, Dies, RunEnds, RequestStop,
           ClearCheckpoint, ScriptIdle, NightPasses, Publish, Remove
  <2>2. r \in batch'  BY <2>1 DEF ScanInv, DueAhead
  <2>3. batch' \subseteq DOMAIN db'  BY DEF ScanInv, SyncInv, BatchStored
  <2>. QED  BY <2>2, <2>3
<1>. QED  BY <1>1, <1>2, ScanInit, PTL DEF Spec, ScanIsComplete

-----------------------------------------------------------------------------
(* What falls behind the cut-off *)

\* What is stored, or to be stored, is dated on the day of its release or later.
DatesKnown ==
    /\ manual = None
    /\ \A r \in DOMAIN db : r \in DOMAIN posted /\ Day(posted[r]) * DayLength <= db[r]
    /\ \A r \in DOMAIN pending : r \in batch /\ Day(posted[r]) * DayLength <= pending[r]

\* The cut-off is the newest date stored, and with a release all that are older and
\* not stored are collected, behind the cut-off, or still ahead.
OlderCollected ==
    pc \in {"page", "group", "items"} =>
      /\ target = LastDate(cat)
      /\ \A r \in batch : CategoryOf[r] = cat
      /\ batch # {} => target # None
      /\ \A r \in batch, s \in (Wanted \cap Listed(cat)) \ DOMAIN db :
           posted[s] < posted[r] =>
             \/ s \in batch \/ Behind(s)
             \/ pc = "page" /\ Rank(s) >= page * PageSize

StoreInv == ScanInv /\ DatesKnown /\ OlderCollected /\ NothingSkipped

LEMMA ChosenLargest ==
    ASSUME NEW S \in SUBSET Moment, S # {},
           NEW x, x = CHOOSE d \in S : \A e \in S : e <= d
    PROVE  x \in S /\ \A e \in S : e <= x
BY LargestExists

\* The cut-off of a category is the largest date stored in it.
LEMMA LastDateLargest ==
    ASSUME DatesTyped(db), NEW r \in DOMAIN db
    PROVE  /\ LastDate(CategoryOf[r]) # None
           /\ db[r] <= LastDate(CategoryOf[r])
<1>. DEFINE S == DatesOf(CategoryOf[r])
<1>1. S \in SUBSET Moment /\ db[r] \in S  BY DEF DatesOf, DatesTyped
<1>2. LastDate(CategoryOf[r]) = CHOOSE d \in S : \A e \in S : e <= d
  BY <1>1 DEF LastDate
<1>. HIDE DEF S
<1>3. LastDate(CategoryOf[r]) \in S /\ \A e \in S : e <= LastDate(CategoryOf[r])
  BY <1>1, <1>2, ChosenLargest
<1>4. Moment \subseteq Nat /\ None \notin Nat  BY SyncAssumption, MomentsAreNumbers
<1>5. LastDate(CategoryOf[r]) \in Nat  BY <1>1, <1>3, <1>4
<1>. QED  BY <1>1, <1>3, <1>4, <1>5

LEMMA LastDateStored ==
    ASSUME DatesTyped(db), NEW c, LastDate(c) # None
    PROVE  \E r \in DOMAIN db : CategoryOf[r] = c /\ LastDate(c) = db[r]
<1>. DEFINE S == DatesOf(c)
<1>1. S \in SUBSET Moment  BY DEF DatesOf, DatesTyped
<1>2. S # {} /\ LastDate(c) = CHOOSE d \in S : \A e \in S : e <= d  BY DEF LastDate
<1>3. LastDate(c) \in S
  <2>. HIDE DEF S
  <2>. QED  BY <1>1, <1>2, ChosenLargest
<1>. QED  BY <1>3 DEF DatesOf

\* After a commit the cut-off is a date stored before or one of the batch.
LEMMA LastDateCommitted ==
    ASSUME TypeOK, Commit, NEW c, LastDate(c)' # None
    PROVE  \E r \in DOMAIN db' : CategoryOf[r] = c /\ LastDate(c)' = db'[r]
<1>. DEFINE S == {db'[r] : r \in {s \in DOMAIN db' : CategoryOf[s] = c}}
<1>0. DatesTyped(db')  BY StoredType DEF Commit, TypeOK
<1>1. S \in SUBSET Moment  BY <1>0 DEF DatesTyped
<1>2. S # {} /\ LastDate(c)' = CHOOSE d \in S : \A e \in S : e <= d
  BY DEF LastDate, DatesOf
<1>3. LastDate(c)' \in S
  <2>. HIDE DEF S
  <2>. QED  BY <1>1, <1>2, ChosenLargest
<1>. QED  BY <1>3

\* Two days that share a moment are one.
LEMMA SameDay ==
    ASSUME NEW a \in Nat, NEW b \in Nat, NEW n \in Nat, NEW d \in Nat \ {0},
           a * d <= n, n < a * d + d, b * d <= n, n < b * d + d
    PROVE  a = b
<1>1. a * d \in Nat /\ b * d \in Nat  OBVIOUS
<1>2. CASE a < b
  <2>1. a * d + d <= b * d  BY <1>2, TimesGrows
  <2>. QED  BY <1>1, <2>1
<1>3. CASE b < a
  <2>1. b * d + d <= a * d  BY <1>3, TimesGrows
  <2>. QED  BY <1>1, <2>1
<1>. QED  BY <1>2, <1>3

\* A release without its time, before a stored date that its day and the day of the
\* stored release hold.
LEMMA DayShared ==
    ASSUME DatesTyped(posted), NEW r \in DOMAIN posted, NEW x \in DOMAIN posted, NEW n \in Nat,
           Day(posted[r]) * DayLength <= n, n <= posted[r],
           Day(posted[x]) * DayLength <= n, n <= posted[x]
    PROVE  Day(posted[r]) = Day(posted[x])
<1>1. /\ posted[r] \in Nat /\ Day(posted[r]) \in Nat /\ Day(posted[r]) * DayLength \in Nat
      /\ posted[r] < Day(posted[r]) * DayLength + DayLength
  BY DateBounds, DayType
<1>2. /\ posted[x] \in Nat /\ Day(posted[x]) \in Nat /\ Day(posted[x]) * DayLength \in Nat
      /\ posted[x] < Day(posted[x]) * DayLength + DayLength
  BY DateBounds, DayType
<1>3. n < Day(posted[r]) * DayLength + DayLength /\ n < Day(posted[x]) * DayLength + DayLength
  BY <1>1, <1>2, SyncAssumption
<1>. QED  BY <1>1, <1>2, <1>3, SameDay, SyncAssumption

LEMMA LastDateNumber ==
    ASSUME TypeOK, NEW c, LastDate(c) # None PROVE LastDate(c) \in Nat
BY LastDateType, MomentsAreNumbers DEF TypeOK

\* Steps that neither publish nor store, nor let time pass.
LEMMA SkipsNothing == ASSUME NothingSkipped, UNCHANGED <<tracker, db>> PROVE NothingSkipped'
<1>1. UNCHANGED <<clock, posted, listed, db>>  BY DEF tracker
<1>2. ASSUME NEW r
      PROVE  /\ Behind(r)' = Behind(r) /\ SharesDay(r)' = SharesDay(r)
             /\ DatePutForward(r)' = DatePutForward(r)
  <2>1. LastDate(CategoryOf[r])' = LastDate(CategoryOf[r])  BY <1>1 DEF LastDate, DatesOf
  <2>2. Date(r)' = Date(r)  BY <1>1 DEF Date, TimeShown, Day
  <2>3. Behind(r)' = Behind(r)  BY <1>1, <2>1, <2>2 DEF Behind
  <2>4. SharesDay(r)' = SharesDay(r)  BY <1>1 DEF SharesDay, TimeShown, Day
  <2>5. DatePutForward(r)' = DatePutForward(r)  BY <1>1 DEF DatePutForward
  <2>. QED  BY <2>3, <2>4, <2>5
<1>. QED  BY <1>1, <1>2 DEF NothingSkipped

\* What is behind the cut-off stays there while nothing is stored.
LEMMA BehindStays ==
    ASSUME TypeOK, UNCHANGED db, NEW s \in DOMAIN posted, s \in DOMAIN posted',
           posted'[s] = posted[s], clock' \in Nat, clock <= clock', Behind(s)
    PROVE  Behind(s)'
<1>1. LastDate(CategoryOf[s])' = LastDate(CategoryOf[s])  BY DEF LastDate, DatesOf
<1>2. clock \in Nat  BY MomentsAreNumbers DEF TypeOK
<1>3. Date(s) \in Nat /\ Date(s)' \in Nat /\ Date(s)' <= Date(s)
  BY <1>2, DateBounds, DateFalls DEF TypeOK
<1>4. LastDate(CategoryOf[s]) \in Nat  BY LastDateNumber DEF Behind
<1>. QED  BY <1>1, <1>3, <1>4 DEF Behind

\* A release loses its time: behind the cut-off now, it shares its day with the
\* release that the cut-off is the date of.
LEMMA TimeSkipsNothing ==
    ASSUME StoreInv, UNCHANGED db, Undated = {}, clock' \in Nat, clock <= clock',
           \A t \in DOMAIN posted : t \in DOMAIN posted' /\ posted'[t] = posted[t],
           NEW r \in Wanted \cap listed, r \notin DOMAIN db, Behind(r)'
    PROVE  SharesDay(r)' \/ DatePutForward(r)'
<1>. USE DEF StoreInv, ScanInv, SyncInv
<1>1. r \in DOMAIN posted /\ clock \in Nat /\ DatesTyped(posted) /\ DatesTyped(db)
  BY MomentsAreNumbers DEF TypeOK
<1>2. LastDate(CategoryOf[r])' = LastDate(CategoryOf[r])  BY DEF LastDate, DatesOf
<1>3. \A t \in DOMAIN db : t \in DOMAIN posted /\ posted'[t] = posted[t]  BY DEF DatesKnown
<1>4. DatePutForward(r) => DatePutForward(r)'  BY <1>3 DEF DatePutForward
<1>5. /\ Day(clock) \in Nat /\ Day(clock') \in Nat /\ Day(clock) <= Day(clock')
      /\ Day(posted[r]) \in Nat
  BY <1>1, DayOrder, DayType, DateBounds, SyncAssumption DEF Day
<1>6. SharesDay(r)' <=> /\ ~(Day(posted[r]) + 1 >= Day(clock'))
                        /\ \E s \in DOMAIN db : /\ CategoryOf[s] = CategoryOf[r]
                                               /\ Day(posted[s]) = Day(posted[r])
  BY <1>1, <1>3 DEF SharesDay, TimeShown, Day
<1>7. CASE Behind(r)
  <2>1. SharesDay(r) \/ DatePutForward(r)  BY <1>7 DEF NothingSkipped
  <2>2. CASE SharesDay(r)
    <3>1. ~(Day(posted[r]) + 1 >= Day(clock))  BY <2>2 DEF SharesDay, TimeShown
    <3>2. ~(Day(posted[r]) + 1 >= Day(clock'))  BY <1>5, <3>1
    <3>. QED  BY <1>6, <2>2, <3>2 DEF SharesDay
  <2>. QED  BY <1>4, <2>1, <2>2
<1>8. CASE ~Behind(r) /\ ~DatePutForward(r)
  <2>1. LastDate(CategoryOf[r]) # None /\ Date(r)' < LastDate(CategoryOf[r])
    BY <1>2 DEF Behind
  <2>2. PICK x \in DOMAIN db : /\ CategoryOf[x] = CategoryOf[r]
                              /\ LastDate(CategoryOf[r]) = db[x]
    BY <1>1, <2>1, LastDateStored
  <2>3. /\ x \in DOMAIN posted /\ Day(posted[x]) * DayLength <= db[x] /\ db[x] \in Nat
        /\ db[x] <= posted[x]
    <3>1. db[x] \in Nat /\ x \in DOMAIN posted
      BY <1>1, MomentsAreNumbers DEF DatesTyped, DatesKnown
    <3>2. posted[x] \in Nat  BY <1>1, <3>1, DateBounds
    <3>. QED  BY <1>8, <2>2, <3>1, <3>2 DEF DatesKnown, DatePutForward
  <2>4. /\ Date(r) \in Nat /\ Date(r) <= posted[r] /\ posted[r] \in Nat
        /\ Day(posted[r]) * DayLength \in Nat /\ Day(posted[r]) * DayLength <= Date(r)
    BY <1>1, DateBounds
  <2>5. ~(Date(r) < db[x])  BY <1>1, <1>8, <2>1, <2>2 DEF Behind
  <2>6. Date(r)' = IF Day(posted[r]) + 1 >= Day(clock') THEN posted[r]
                   ELSE Day(posted[r]) * DayLength
    BY <1>1 DEF Date, TimeShown, Day
  <2>7. ~(Day(posted[r]) + 1 >= Day(clock')) /\ Day(posted[r]) * DayLength < db[x]
    BY <2>1, <2>2, <2>3, <2>4, <2>5, <2>6
  <2>8. Day(posted[r]) * DayLength <= db[x] /\ db[x] <= posted[r]
    BY <2>3, <2>4, <2>5, <2>7
  <2>9. Day(posted[x]) = Day(posted[r])  BY <1>1, <2>3, <2>8, DayShared
  <2>. QED  BY <1>6, <2>2, <2>7, <2>9
<1>. QED  BY <1>4, <1>7, <1>8

LEMMA NightSkipsNothing ==
    ASSUME StoreInv, Undated = {}, NightPasses PROVE NothingSkipped'
<1>1. UNCHANGED <<posted, listed, db>>  BY DEF NightPasses, ScriptIdle
<1>2. clock' \in Nat /\ clock <= clock'
  BY NightTime DEF StoreInv, ScanInv, SyncInv, TypeOK
<1>3. ASSUME NEW r \in Wanted \cap listed, r \notin DOMAIN db, Behind(r)'
      PROVE  SharesDay(r)' \/ DatePutForward(r)'
  BY <1>1, <1>2, <1>3, TimeSkipsNothing
<1>. QED  BY <1>1, <1>3 DEF NothingSkipped

LEMMA CommitSkipsNothing ==
    ASSUME StoreInv, Undated = {}, Commit PROVE NothingSkipped'
<1>. USE DEF StoreInv, ScanInv, SyncInv
<1>1. /\ UNCHANGED <<clock, posted, listed>> /\ db' = Stored /\ pc = "items" /\ left = {}
      /\ DOMAIN db' = DOMAIN db \cup DOMAIN pending
      /\ \A t \in DOMAIN db : db'[t] = db[t]
      /\ \A t \in DOMAIN db' : t \notin DOMAIN db => db'[t] = pending[t]
  BY StoredType DEF Commit, tracker, TypeOK, Stored
<1>. SUFFICES ASSUME NEW s \in Wanted \cap listed, s \notin DOMAIN db', Behind(s)',
                     ~DatePutForward(s)'
              PROVE  SharesDay(s)'
  BY <1>1 DEF NothingSkipped
<1>2. SharesDay(s) => SharesDay(s)'  BY <1>1 DEF SharesDay, TimeShown, Day
<1>3. ~DatePutForward(s)  BY <1>1 DEF DatePutForward
<1>4. Behind(s) => SharesDay(s)'  BY <1>1, <1>2, <1>3 DEF NothingSkipped
<1>5. LastDate(CategoryOf[s])' # None /\ Date(s)' < LastDate(CategoryOf[s])' /\ Date(s)' = Date(s)
  BY <1>1 DEF Behind, Date, TimeShown, Day
<1>6. PICK x \in DOMAIN db' : /\ CategoryOf[x] = CategoryOf[s]
                              /\ LastDate(CategoryOf[s])' = db'[x]
  BY <1>5, LastDateCommitted
<1>7. /\ s \in DOMAIN posted /\ DatesTyped(posted) /\ posted[s] \in Nat /\ Date(s) \in Nat
      /\ Date(s) <= posted[s]
      /\ Date(s) = IF TimeShown(s, Day(clock)) THEN posted[s] ELSE Day(posted[s]) * DayLength
  BY DateBounds DEF TypeOK, Date
<1>8. DatesTyped(db)'  BY <1>1, StoredType DEF TypeOK
<1>9. db'[x] \in Nat  BY <1>6, <1>8, MomentsAreNumbers DEF DatesTyped
<1>10. CASE x \in DOMAIN db
  <2>1. LastDate(CategoryOf[s]) # None /\ db[x] <= LastDate(CategoryOf[s])
    BY <1>6, <1>10, LastDateLargest DEF TypeOK
  <2>2. LastDate(CategoryOf[s]) \in Nat /\ db[x] = db'[x]  BY <1>1, <1>10, <2>1, LastDateNumber
  <2>3. Date(s) < LastDate(CategoryOf[s])  BY <1>5, <1>6, <1>7, <1>9, <2>1, <2>2
  <2>. QED  BY <1>4, <1>7, <2>1, <2>3 DEF Behind
<1>11. CASE x \notin DOMAIN db
  <2>1. x \in DOMAIN pending /\ db'[x] = pending[x]  BY <1>1, <1>11
  <2>2. x \in batch /\ Day(posted[x]) * DayLength <= db'[x] /\ x \in DOMAIN posted
    BY <2>1 DEF DatesKnown, InCategory
  <2>3. posted[x] \in Nat /\ db'[x] <= posted[x]
    <3>1. posted[x] \in Nat  BY <1>7, <2>2, DateBounds
    <3>. QED  BY <1>1, <1>6, <1>9, <3>1 DEF DatePutForward
  <2>4. CategoryOf[s] = cat /\ s \in Listed(cat)
    BY <1>1, <1>6, <2>2 DEF OlderCollected, Listed
  <2>5. CASE posted[s] < posted[x]
    <3>1. s \notin batch  BY <1>1 DEF BatchStored
    <3>2. Behind(s)  BY <1>1, <2>2, <2>4, <2>5, <3>1 DEF OlderCollected
    <3>. QED  BY <1>4, <3>2
  <2>6. CASE ~(posted[s] < posted[x])
    <3>1. db'[x] <= posted[s] /\ Date(s) < db'[x]
      BY <1>5, <1>6, <1>7, <1>9, <2>3, <2>6
    <3>2. ~TimeShown(s, Day(clock)) /\ Day(posted[s]) * DayLength <= db'[x]
      BY <1>7, <1>9, <3>1
    <3>3. Day(posted[s]) = Day(posted[x])
      BY <1>7, <1>9, <2>2, <2>3, <3>1, <3>2, DayShared
    <3>. QED  BY <1>1, <1>6, <3>2, <3>3 DEF SharesDay, TimeShown, Day
  <2>. QED  BY <2>5, <2>6
<1>. QED  BY <1>10, <1>11

\* A new release is not older than any stored one.
LEMMA PublishSkipsNothing ==
    ASSUME StoreInv, Undated = {}, NEW q \in Release, Publish(q) PROVE NothingSkipped'
<1>. USE DEF StoreInv, ScanInv, SyncInv
<1>1. /\ UNCHANGED db /\ listed' = listed \cup {q} /\ q \notin DOMAIN posted /\ clock \in Nat
      /\ posted' = [t \in DOMAIN posted \cup {q} |-> IF t = q THEN clock + 1 ELSE posted[t]]
      /\ clock' = clock + 1
  BY MomentsAreNumbers DEF Publish, TypeOK
<1>2. ASSUME NEW r \in Wanted \cap listed, r \notin DOMAIN db, Behind(r)'
      PROVE  SharesDay(r)' \/ DatePutForward(r)'
  <2>1. clock' \in Nat /\ clock <= clock'  BY <1>1
  <2>2. \A t \in DOMAIN posted : t \in DOMAIN posted' /\ posted'[t] = posted[t]  BY <1>1
  <2>. QED  BY <1>1, <1>2, <2>1, <2>2, TimeSkipsNothing
<1>3. ASSUME Behind(q)'  PROVE DatePutForward(q)'
  <2>1. LastDate(CategoryOf[q])' = LastDate(CategoryOf[q])  BY <1>1 DEF LastDate, DatesOf
  <2>2. LastDate(CategoryOf[q]) # None /\ Date(q)' < LastDate(CategoryOf[q])
    BY <1>3, <2>1 DEF Behind
  <2>3. PICK x \in DOMAIN db : /\ CategoryOf[x] = CategoryOf[q]
                              /\ LastDate(CategoryOf[q]) = db[x]
    BY <2>2, LastDateStored DEF TypeOK
  <2>4. Date(q)' = clock + 1
    <3>1. Day(clock') \in Nat  BY <1>1, DayType
    <3>2. Day(clock') + 1 >= Day(clock')  BY <3>1
    <3>3. posted'[q] = clock'  BY <1>1
    <3>. QED  BY <1>1, <3>2, <3>3 DEF Date, TimeShown, Day
  <2>5. /\ x \in DOMAIN posted /\ posted'[x] = posted[x] /\ posted[x] \in Nat
        /\ posted[x] <= clock /\ db[x] \in Nat
    BY <1>1, MomentsAreNumbers DEF DatesKnown, Published, TypeOK, DatesTyped
  <2>6. db[x] > posted'[x]  BY <1>1, <2>2, <2>3, <2>4, <2>5
  <2>. QED  BY <1>1, <2>3, <2>6 DEF DatePutForward
<1>. QED  BY <1>1, <1>2, <1>3 DEF NothingSkipped

LEMMA DatesLearnt == ASSUME StoreInv, ProcessItem \/ Commit, Undated = {} PROVE DatesKnown'
<1>. USE DEF StoreInv, ScanInv, SyncInv
<1>1. UNCHANGED <<posted, manual, batch>>  BY DEF ProcessItem, Commit, tracker, run
<1>2. CASE ProcessItem
  <2>. DEFINE new == FirstItem \ (DOMAIN db \cup DOMAIN pending)
  <2>1. /\ pending' = [r \in DOMAIN pending \cup new |->
                         IF r \in DOMAIN pending THEN pending[r] ELSE DateNow(r)]
        /\ UNCHANGED db
    BY <1>2 DEF ProcessItem
  <2>2. FirstItem \subseteq batch  BY DEF FirstItem, TypeOK
  <2>3. \A r \in FirstItem : Day(posted[r]) * DayLength <= DateNow(r)
    BY <2>2, DateNowBounds DEF TypeOK, InCategory, ClockKept
  <2>. QED  BY <1>1, <2>1, <2>2, <2>3 DEF DatesKnown, Day
<1>3. CASE Commit
  <2>1. db' = Stored /\ pending' = NoDates  BY <1>3 DEF Commit
  <2>2. ASSUME NEW r \in DOMAIN db'
        PROVE  r \in DOMAIN posted /\ Day(posted[r]) * DayLength <= db'[r]
    <3>1. r \in DOMAIN db \cup DOMAIN pending  BY <2>1 DEF Stored
    <3>2. db'[r] = IF r \in DOMAIN db THEN db[r] ELSE pending[r]  BY <2>1, <3>1 DEF Stored
    <3>. QED  BY <3>1, <3>2 DEF DatesKnown, InCategory
  <2>. QED  BY <1>1, <2>1, <2>2, NoDatesType DEF DatesKnown, Day
<1>. QED  BY <1>2, <1>3

LEMMA DatesStay ==
    ASSUME StoreInv, UNCHANGED <<posted, db>>, manual' = None,
           UNCHANGED pending \/ pending' = NoDates, batch \subseteq batch' \/ DOMAIN pending' = {}
    PROVE  DatesKnown'
<1>1. \A r \in DOMAIN pending' : r \in DOMAIN pending /\ pending'[r] = pending[r]
  BY NoDatesType
<1>. QED  BY <1>1 DEF StoreInv, DatesKnown, Day

LEMMA DatesPublished ==
    ASSUME StoreInv, NEW q \in Release, Publish(q) PROVE DatesKnown'
<1>1. /\ UNCHANGED <<db, pending, batch, manual>> /\ q \notin DOMAIN posted
      /\ posted' = [t \in DOMAIN posted \cup {q} |-> IF t = q THEN clock + 1 ELSE posted[t]]
  BY DEF Publish, run
<1>2. \A t \in DOMAIN posted : posted'[t] = posted[t] /\ t \in DOMAIN posted'  BY <1>1
<1>3. batch \subseteq DOMAIN posted  BY DEF StoreInv, ScanInv, SyncInv, InCategory
<1>. QED  BY <1>1, <1>2, <1>3 DEF StoreInv, DatesKnown, Day

\* What is neither stored nor behind the cut-off, the scan accepts.
LEMMA OlderAccepted ==
    ASSUME StoreInv, Undated = {}, pc \in {"page", "group", "items"}, target # None,
           NEW s \in (Wanted \cap Listed(cat)) \ DOMAIN db, ~Behind(s)
    PROVE  Accepted(s, target)
<1>1. s \in DOMAIN posted /\ CategoryOf[s] = cat /\ Date(s) \in Nat
  BY ReleaseFacts DEF StoreInv, ScanInv, SyncInv
<1>2. target = LastDate(cat) /\ target \in Nat
  BY DEF StoreInv, ScanInv, SyncInv, TypeOK, OlderCollected
<1>. QED  BY <1>1, <1>2 DEF Behind, Accepted

LEMMA OlderReading ==
    ASSUME StoreInv, Regular, Undated = {}, "page" \notin Faults, ReadPage \/ PagesEnd
    PROVE  OlderCollected'
<1>. USE DEF StoreInv, ScanInv, SyncInv
<1>1. /\ UNCHANGED <<tracker, db, cat, target>> /\ pc = "page"
      /\ batch \subseteq batch' /\ pc' \in {"page", "group"}
      /\ pc' = "page" => ReadPage /\ page' = page + 1
  BY DEF ReadPage, Collect, PagesEnd, PageOnly
<1>2. \A r \in batch' \ batch : r \in OnPage(cat, page) /\ target # None
  BY DEF ReadPage, Collect, PagesEnd
<1>3. /\ \A r \in batch' : CategoryOf[r] = cat
      /\ batch' # {} => target # None
  BY <1>1, <1>2 DEF OlderCollected, OnPage, Listed
<1>4. /\ page \in Nat /\ PageSize \in Nat \ {0} /\ page * PageSize \in Nat
      /\ (page + 1) * PageSize = page * PageSize + PageSize
  BY SyncAssumption DEF TypeOK
<1>5. ASSUME NEW r \in batch', NEW s \in (Wanted \cap Listed(cat)) \ DOMAIN db,
             posted[s] < posted[r]
      PROVE  \/ s \in batch' \/ Behind(s)
             \/ pc' = "page" /\ Rank(s) >= page' * PageSize
  <2>. SUFFICES ASSUME ~Behind(s)
                PROVE  s \in batch' \/ (pc' = "page" /\ Rank(s) >= page' * PageSize)
    OBVIOUS
  <2>1. Accepted(s, target)  BY <1>1, <1>3, OlderAccepted
  <2>2. s \in batch \/ Rank(s) >= page * PageSize
    <3>1. CASE r \in batch  BY <1>1, <1>5, <3>1 DEF OlderCollected
    <3>2. CASE r \notin batch
      <4>1. r \in Listed(cat) /\ Rank(r) \div PageSize = page  BY <1>2, <3>2 DEF OnPage
      <4>2. Rank(r) \in Nat /\ Rank(s) \in Nat  BY <4>1, ReleaseFacts
      <4>3. page * PageSize <= Rank(r)  BY <1>4, <4>1, <4>2, PageOf
      <4>4. Rank(r) < Rank(s)  BY <1>5, <4>1, RankOrder
      <4>. QED  BY <1>4, <4>2, <4>3, <4>4
    <3>. QED  BY <3>1, <3>2
  <2>3. CASE pc' = "group"
    BY <1>1, <1>3, <2>1, <2>2, <2>3, ReadingEnds
  <2>4. CASE pc' = "page"  BY <1>1, <1>4, <2>1, <2>2, <2>4, NextPage
  <2>. QED  BY <1>1, <2>3, <2>4
<1>6. LastDate(cat)' = LastDate(cat) /\ Listed(cat)' = Listed(cat)
  BY <1>1 DEF LastDate, DatesOf, Listed, tracker
<1>7. target = LastDate(cat)  BY <1>1 DEF OlderCollected
<1>8. \A t : Behind(t)' = Behind(t)
  BY <1>1 DEF Behind, LastDate, DatesOf, Date, TimeShown, Day, tracker
<1>. QED  BY <1>1, <1>3, <1>5, <1>6, <1>7, <1>8 DEF OlderCollected, tracker, Rank, Listed

LEMMA OlderPublished ==
    ASSUME StoreInv, NEW q \in Release, Publish(q) PROVE OlderCollected'
<1>. USE DEF StoreInv, ScanInv, SyncInv
<1>. SUFFICES ASSUME pc \in {"page", "group", "items"} PROVE OlderCollected'
  BY DEF Publish, OlderCollected
<1>1. UNCHANGED <<pc, db, cat, target, page, batch>>  BY DEF Publish
<1>2. LastDate(cat)' = LastDate(cat)  BY <1>1 DEF LastDate, DatesOf
<1>3. posted'[q] \in Nat /\ posted'[q] = clock + 1 /\ clock \in Nat
  BY MomentsAreNumbers DEF Publish, TypeOK
<1>4. \A r \in batch : posted'[r] = posted[r] /\ posted[r] \in Nat /\ posted[r] <= clock
  BY MomentsAreNumbers DEF Publish, InCategory, Published, TypeOK, DatesTyped
<1>5. ASSUME NEW r \in batch, NEW s \in (Wanted \cap Listed(cat)') \ DOMAIN db,
             posted'[s] < posted'[r]
      PROVE  \/ s \in batch \/ Behind(s)'
             \/ pc = "page" /\ Rank(s)' >= page * PageSize
  <2>1. s # q  BY <1>3, <1>4, <1>5
  <2>2. s \in Listed(cat)  BY <1>1, <1>5, <2>1 DEF Publish, Listed
  <2>3. /\ posted'[s] = posted[s] /\ Rank(s) <= Rank(s)' /\ Rank(s)' \in Nat
        /\ Rank(s) \in Nat
    BY <2>2, PublishRanks, ReleaseFacts
  <2>4. s \in batch \/ Behind(s) \/ (pc = "page" /\ Rank(s) >= page * PageSize)
    BY <1>4, <1>5, <2>2, <2>3 DEF OlderCollected
  <2>5. page * PageSize \in Nat  BY SyncAssumption DEF TypeOK
  <2>6. Behind(s) => Behind(s)'
    <3>1. s \in DOMAIN posted /\ s \in DOMAIN posted'  BY <2>2, ReleaseFacts DEF Publish
    <3>2. clock' \in Nat /\ clock <= clock'  BY <1>3 DEF Publish
    <3>. QED  BY <1>1, <2>3, <3>1, <3>2, BehindStays
  <2>. QED  BY <2>3, <2>4, <2>5, <2>6
<1>. QED  BY <1>1, <1>2, <1>5 DEF OlderCollected

LEMMA OlderNight == ASSUME StoreInv, NightPasses PROVE OlderCollected'
<1>. USE DEF StoreInv, ScanInv, SyncInv
<1>1. UNCHANGED <<posted, listed, db, pc, cat, target, page, batch>>
  BY DEF NightPasses, ScriptIdle, scan
<1>2. clock' \in Nat /\ clock <= clock'  BY NightTime DEF TypeOK
<1>3. \A s \in Listed(cat) : Behind(s) => Behind(s)'
  BY <1>1, <1>2, BehindStays, ReleaseFacts
<1>4. /\ LastDate(cat)' = LastDate(cat) /\ Listed(cat)' = Listed(cat)
      /\ \A s : Rank(s)' = Rank(s)
  BY <1>1 DEF LastDate, DatesOf, Listed, Rank
<1>. QED  BY <1>1, <1>3, <1>4 DEF OlderCollected

LEMMA OlderStays ==
    ASSUME OlderCollected, UNCHANGED <<tracker, db, cat, target, page, batch>>,
           UNCHANGED pc \/ (pc \in {"group", "items"} /\ pc' \in {"group", "items"})
    PROVE  OlderCollected'
<1>1. /\ LastDate(cat)' = LastDate(cat) /\ Listed(cat)' = Listed(cat)
      /\ \A s : Rank(s)' = Rank(s)
  BY DEF tracker, LastDate, DatesOf, Listed, Rank
<1>2. ASSUME NEW s  PROVE Behind(s)' = Behind(s)
  <2>1. LastDate(CategoryOf[s])' = LastDate(CategoryOf[s])  BY DEF LastDate, DatesOf
  <2>2. Date(s)' = Date(s)  BY DEF Date, TimeShown, Day, tracker
  <2>. QED  BY <2>1, <2>2 DEF Behind, tracker
<1>. QED  BY <1>1, <1>2 DEF OlderCollected, tracker

LEMMA StoreNext ==
    ASSUME Undated = {}, Faults = {}, ManualDates = {}, StoreInv, Regular, [Next]_vars
    PROVE  StoreInv'
<1>. USE DEF StoreInv
<1>1. ScanInv'  BY ScanNext
<1>2. CASE \E q \in Release : Publish(q)
  BY <1>1, <1>2, PublishSkipsNothing, DatesPublished, OlderPublished
<1>10. CASE NightPasses
  <2>1. UNCHANGED <<posted, db, pending, batch, manual>>
    BY <1>10 DEF NightPasses, ScriptIdle, scan, run
  <2>2. manual' = None  BY <2>1 DEF DatesKnown
  <2>. QED  BY <1>1, <1>10, <2>1, <2>2, NightSkipsNothing, DatesStay, OlderNight
<1>3. CASE Commit
  <2>1. pc' = "save"  BY <1>3 DEF Commit
  <2>2. OlderCollected'  BY <2>1 DEF OlderCollected
  <2>. QED  BY <1>1, <1>3, <2>2, CommitSkipsNothing, DatesLearnt
<1>4. CASE ProcessItem
  <2>1. /\ UNCHANGED <<tracker, db, cat, target, page, batch>> /\ pc = "items" /\ pc' = "items"
    BY <1>4 DEF ProcessItem
  <2>. QED  BY <1>1, <1>4, <2>1, SkipsNothing, DatesLearnt, OlderStays
<1>5. CASE GroupReleases \/ RequestStop \/ ClearCheckpoint \/ UNCHANGED vars
  <2>1. /\ UNCHANGED <<tracker, db, cat, target, page, batch, pending, manual>>
        /\ UNCHANGED pc \/ (pc \in {"group", "items"} /\ pc' \in {"group", "items"})
    BY <1>5 DEF GroupReleases, RequestStop, ClearCheckpoint, ScriptIdle, vars, run, scan
  <2>2. DatesKnown'  BY <2>1, DatesStay DEF tracker, DatesKnown
  <2>. QED  BY <1>1, <2>1, <2>2, SkipsNothing, OlderStays
<1>6. CASE ReadPage \/ PagesEnd
  <2>1. UNCHANGED <<tracker, db, pending, manual>> /\ batch \subseteq batch'
    BY <1>6 DEF ReadPage, Collect, PagesEnd, PageOnly, run
  <2>2. DatesKnown'  BY <2>1, DatesStay DEF tracker, DatesKnown
  <2>. QED  BY <1>1, <1>6, <2>1, <2>2, SkipsNothing, OlderReading
<1>7. CASE BeginCategory
  <2>1. /\ UNCHANGED <<tracker, db, pending, manual>> /\ batch = {} /\ batch' = {}
    BY <1>7 DEF BeginCategory, run, ScanInv, SyncInv, InCategory
  <2>2. DatesKnown'  BY <2>1, DatesStay DEF tracker, DatesKnown
  <2>3. target' = LastDate(cat')
    BY <1>7 DEF BeginCategory, DatesKnown
  <2>4. OlderCollected'  BY <2>1, <2>3 DEF OlderCollected, LastDate, DatesOf
  <2>. QED  BY <1>1, <2>1, <2>2, <2>4, SkipsNothing
<1>8. CASE BeginRun \/ NothingNew \/ SaveProgress \/ Finish \/ StopAtPage \/ StopAtItem
             \/ CutoffMissing \/ Dies
  <2>1. UNCHANGED <<tracker, db>> /\ pc' \in {"off", "cats"}
    BY <1>8 DEF BeginRun, NothingNew, SaveProgress, Finish, StopAtPage, StopAtItem, StopHere,
                CutoffMissing, Dies, RunEnds
  <2>2. manual' = None
    BY <1>8 DEF BeginRun, NothingNew, SaveProgress, Finish, StopAtPage, StopAtItem, StopHere,
                CutoffMissing, Dies, RunEnds, DatesKnown
  <2>3. pending' = NoDates \/ (UNCHANGED <<pending, batch>>)
    BY <1>8 DEF BeginRun, NothingNew, SaveProgress, Finish, StopAtPage, StopAtItem, StopHere,
                CutoffMissing, Dies, RunEnds, ScanEnds, scan
  <2>4. DatesKnown'  BY <2>1, <2>2, <2>3, DatesStay, NoDatesType DEF tracker
  <2>5. OlderCollected'  BY <2>1 DEF OlderCollected
  <2>. QED  BY <1>1, <2>1, <2>4, <2>5, SkipsNothing
<1>9. ~LimitReached /\ \A q \in Release : ~Remove(q)  BY DEF LimitReached, Remove
<1>. QED
  BY <1>2, <1>3, <1>4, <1>5, <1>6, <1>7, <1>8, <1>9, <1>10 DEF Next, Script

LEMMA StoreInit == ASSUME Init PROVE StoreInv
<1>1. ScanInv  BY ScanInit
<1>2. DatesTyped(db) /\ DatesTyped(posted) /\ listed \subseteq DOMAIN posted
  BY <1>1 DEF ScanInv, SyncInv, TypeOK
<1>3. \A r \in DOMAIN db : r \in DOMAIN posted /\ db[r] = 0 /\ posted[r] = 0  BY DEF Init
<1>4. DatesKnown
  <2>1. \A r \in DOMAIN posted : Day(posted[r]) * DayLength \in Nat
                             /\ Day(posted[r]) * DayLength <= posted[r] /\ posted[r] \in Nat
    BY <1>2, DateBounds
  <2>2. \A r \in DOMAIN db : Day(posted[r]) * DayLength <= db[r]  BY <1>3, <2>1
  <2>. QED  BY <1>3, <2>2, NoDatesType DEF DatesKnown, Init, NoScan
<1>5. NothingSkipped
  <2>1. SUFFICES ASSUME NEW s \in listed, Behind(s)  PROVE FALSE
    BY DEF NothingSkipped
  <2>2. LastDate(CategoryOf[s]) = 0  BY <1>2, <1>3, <2>1, LastDateStored DEF Behind
  <2>3. Date(s) \in Nat  BY <1>2, DateBounds
  <2>. QED  BY <2>1, <2>2, <2>3 DEF Behind
<1>6. OlderCollected  BY DEF OlderCollected, Init
<1>. QED  BY <1>1, <1>4, <1>5, <1>6 DEF StoreInv

\* get_last_release_date, parse_rutor_date and the commits of sync_job.py: whatever
\* stops, kills and resumes come, a wanted release that is not stored falls behind the
\* cut-off only with its time of day, or past a midnight between reading and storing.
\* It takes that no limit commits a part, no page fails and no date is given by hand.
THEOREM NothingIsSkipped ==
    ASSUME Undated = {}, Faults = {}, ManualDates = {}
    PROVE  Spec /\ []Regular => []NothingSkipped
<1>1. StoreInv /\ Regular /\ [Next]_vars => StoreInv'  BY StoreNext
<1>2. StoreInv => NothingSkipped  BY DEF StoreInv
<1>. QED  BY <1>1, <1>2, StoreInit, PTL DEF Spec
=============================================================================

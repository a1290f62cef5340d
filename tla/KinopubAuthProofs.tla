-------------------------- MODULE KinopubAuthProofs ---------------------------
(***************************************************************************)
(* For any number of requests, codes, pairs and rotations of the secret:   *)
(* the type invariant, and that no spent pair of tokens is stored.         *)
(***************************************************************************)
EXTENDS KinopubAuth, TLAPS

USE AuthAssumption DEF Pair, Row, Idle, server, service

Asking == {"read", "readOld", "mismatch", "refresh", "refused"}

Asks(t)  == req[t].at \in Asking \cup {"refreshed"}
Holds(t) == req[t].at \in {"refreshed", "confirmed"}

\* No pair is stored or asked for that kino.pub has not given out.
Given ==
    /\ row # None => row.pair <= last
    /\ \A t \in Requests : Asks(t) => req[t].of <= last

\* A new pair is with the one request that was given it until that stores it.
HeldIsUnread ==
    \A t \in Requests : Holds(t) =>
       /\ req[t].new \in alive \cup void
       /\ row # None => row.pair # req[t].new
       /\ \A u \in Requests : Asks(u) => req[u].of # req[t].new
       /\ \A u \in Requests \ {t} : Holds(u) => req[u].new # req[t].new

Safe == Given /\ HeldIsUnread /\ StoredIsAlive
IInv == TypeOK /\ Safe

\* What a request carries at each of its steps.
LEMMA RequestParts ==
  ASSUME NEW q \in Request
  PROVE  /\ q.at \in Asking => q.of \in Pair /\ q = [at |-> q.at, of |-> q.of]
         /\ q.at = "refreshed" => q.of \in Pair /\ q.new \in Pair
         /\ q.at = "poll" => q.code \in Codes
         /\ q.at = "confirmed" => q.code \in Codes /\ q.new \in Pair
<1>1. CASE q \in [at : {"idle"}]
  BY <1>1 DEF Asking
<1>2. CASE q \in [at : Asking, of : Pair]
  BY <1>2 DEF Asking
<1>3. CASE q \in [at : {"refreshed"}, of : Pair, new : Pair]
  BY <1>3 DEF Asking
<1>4. CASE q \in [at : {"poll"}, code : Codes]
  BY <1>4 DEF Asking
<1>5. CASE q \in [at : {"confirmed"}, code : Codes, new : Pair]
  BY <1>5 DEF Asking
<1> QED
  BY <1>1, <1>2, <1>3, <1>4, <1>5 DEF Request, Asking

\* The steps that can be taken to.
LEMMA RequestForms ==
  /\ Idle \in Request
  /\ \A step \in Asking, p \in Pair : [at |-> step, of |-> p] \in Request
  /\ \A p, n \in Pair : [at |-> "refreshed", of |-> p, new |-> n] \in Request
  /\ \A c \in Codes : [at |-> "poll", code |-> c] \in Request
  /\ \A c \in Codes, n \in Pair : [at |-> "confirmed", code |-> c, new |-> n] \in Request
BY DEF Request, Asking

\* A request that has read a pair goes on with it.
LEMMA RequestGoesOn ==
  ASSUME NEW q \in Request, q.at \in Asking, NEW step \in Asking
  PROVE  /\ [q EXCEPT !.at = step] = [at |-> step, of |-> q.of]
         /\ [q EXCEPT !.at = step] \in Request
<1>1. q = [at |-> q.at, of |-> q.of] /\ q.of \in Pair
  BY RequestParts
<1>2. [q EXCEPT !.at = step] = [at |-> step, of |-> q.of]
  BY <1>1
<1> QED
  BY <1>1, <1>2, RequestForms

\* A request that goes somewhere leaves the others alone.
LEMMA ReqGoes ==
  ASSUME TypeOK, NEW t \in Requests, NEW new \in Request, Goes(t, new)
  PROVE  /\ req' \in [Requests -> Request]
         /\ req'[t] = new
         /\ \A u \in Requests \ {t} : req'[u] = req[u]
BY DEF TypeOK, Goes

LEMMA PairsBound ==
  ASSUME TypeOK
  PROVE  last \in Nat /\ alive \cup void \subseteq 1 .. last
BY DEF TypeOK

\* What kino.pub gives out is within the bound.
LEMMA GivesTypes ==
  ASSUME TypeOK, Gives
  PROVE  last' = last + 1 /\ last' \in Pair /\ last' \in 0 .. MaxPairs
BY DEF TypeOK, Gives

\* Every step keeps the types, the new pairs of a restart by what HeldIsUnread and
\* Given say of them.
LEMMA TypeStep ==
  ASSUME TypeOK, Safe, [Next]_vars
  PROVE  TypeOK'
<1>1. ASSUME NEW c \in Codes, Device(c) PROVE TypeOK'
  BY <1>1 DEF TypeOK, Device, StartDeviceFlow, Grant, CodeExpires, GcPending
<1>2. ASSUME NEW t \in Requests, Login(t) PROVE TypeOK'
  <2> DEFINE q == req[t]
  <2>0. q \in Request
    BY DEF TypeOK
  <2>1. ASSUME NEW c \in Codes, Poll(t, c) PROVE TypeOK'
    <3>1. Goes(t, [at |-> "poll", code |-> c]) /\ [at |-> "poll", code |-> c] \in Request
      BY <2>1, RequestForms DEF Poll
    <3> HIDE DEF q
    <3>2. req' \in [Requests -> Request]
      BY <3>1, ReqGoes
    <3> QED
      BY <2>1, <3>2 DEF Poll, TypeOK
  <2>2. CASE PollConfirmed(t)
    <3>1. q.at = "poll" /\ q.code \in Codes
      BY <2>0, <2>2, RequestParts DEF PollConfirmed, At
    <3>2. last' = last + 1 /\ last' \in Pair /\ last' \in 0 .. MaxPairs
      BY <2>2, GivesTypes DEF PollConfirmed
    <3>3. \/ Goes(t, [at |-> "confirmed", code |-> q.code, new |-> last'])
          \/ Goes(t, Idle)
      BY <2>2 DEF PollConfirmed, Ends
    <3>4. [at |-> "confirmed", code |-> q.code, new |-> last'] \in Request
      BY <3>1, <3>2, RequestForms
    <3>5. req' \in [Requests -> Request]
      BY <3>3, <3>4, ReqGoes, RequestForms
    <3>6. code' \in [Codes -> {"unused", "open", "granted", "spent"}]
      BY <2>2 DEF PollConfirmed, TypeOK
    <3>7. alive' \subseteq 1 .. last' /\ void' \subseteq 1 .. last'
      <4>1. alive \subseteq 1 .. last' /\ void \subseteq 1 .. last' /\ last' \in 1 .. last'
        BY <3>2 DEF TypeOK
      <4>2. alive' = alive \cup {last'} /\ void' \subseteq void \cup {last'}
        BY <2>2 DEF PollConfirmed
      <4> QED
        BY <4>1, <4>2
    <3>8. UNCHANGED server
      BY <2>2 DEF PollConfirmed
    <3> QED
      BY <3>2, <3>5, <3>6, <3>7, <3>8 DEF TypeOK
  <2>3. CASE PollPending(t) \/ PollExpired(t)
    <3>1. req' \in [Requests -> Request]
      BY <2>3, ReqGoes, RequestForms DEF PollPending, PollExpired, Ends
    <3> QED
      BY <2>3, <3>1 DEF PollPending, PollExpired, TypeOK
  <2>4. CASE StoreLogin(t)
    <3>1. req' \in [Requests -> Request]
      BY <2>4, ReqGoes, RequestForms DEF StoreLogin, Ends
    <3>2. q.new \in Pair
      BY <2>0, <2>4, RequestParts DEF StoreLogin, At
    <3>3. row' \in Row
      BY <2>4, <3>2 DEF StoreLogin, Store, TypeOK
    <3> QED
      BY <2>4, <3>1, <3>3 DEF StoreLogin, Store, TypeOK
  <2> QED
    BY <1>2, <2>1, <2>2, <2>3, <2>4 DEF Login
<1>3. ASSUME NEW t \in Requests, Token(t) PROVE TypeOK'
  <2> DEFINE q == req[t]
  <2>0. q \in Request
    BY DEF TypeOK
  <2>1. CASE ReadRow(t)
    <3>1. row \in Row
      BY <2>1 DEF ReadRow, TypeOK
    <3>2. PICK step \in Asking : Goes(t, [at |-> step, of |-> row.pair])
      BY <2>1 DEF ReadRow, Asking
    <3>3. req' \in [Requests -> Request]
      BY <3>1, <3>2, ReqGoes, RequestForms
    <3> QED
      BY <2>1, <3>3 DEF ReadRow, TypeOK
  <2>2. CASE CheckSecret(t) \/ RefreshRefused(t)
    <3>1. q.at \in Asking
      BY <2>2 DEF CheckSecret, RefreshRefused, At, Asking
    <3>2. Goes(t, Idle) \/ \E step \in Asking : Goes(t, [q EXCEPT !.at = step])
      BY <2>2 DEF CheckSecret, RefreshRefused, Asking, Ends
    <3> HIDE DEF q
    <3>3. req' \in [Requests -> Request]
      BY <2>0, <3>1, <3>2, ReqGoes, RequestForms, RequestGoesOn
    <3> QED
      BY <2>2, <3>3 DEF CheckSecret, RefreshRefused, TypeOK
  <2>3. CASE Clear(t) \/ RefreshFails(t)
    <3>1. req' \in [Requests -> Request]
      BY <2>3, ReqGoes, RequestForms DEF Clear, RefreshFails, Ends
    <3> QED
      BY <2>3, <3>1 DEF Clear, RefreshFails, TypeOK
  <2>4. CASE Refreshed(t)
    <3>1. q.of \in Pair /\ q.of \in alive
      BY <2>0, <2>4, RequestParts DEF Refreshed, At, Asking
    <3>2. last' = last + 1 /\ last' \in Pair /\ last' \in 0 .. MaxPairs
      BY <2>4, GivesTypes DEF Refreshed
    <3>3. \/ Goes(t, [at |-> "refreshed", of |-> q.of, new |-> last'])
          \/ Goes(t, Idle)
      BY <2>4 DEF Refreshed, Ends
    <3>4. [at |-> "refreshed", of |-> q.of, new |-> last'] \in Request
      BY <3>1, <3>2, RequestForms
    <3>5. req' \in [Requests -> Request]
      BY <3>3, <3>4, ReqGoes, RequestForms
    <3>6. alive' \subseteq 1 .. last' /\ void' \subseteq 1 .. last'
      <4>1. /\ alive \subseteq 1 .. last' /\ void \subseteq 1 .. last'
            /\ last' \in 1 .. last' /\ q.of \in 1 .. last'
        BY <3>1, <3>2 DEF TypeOK
      <4>2. alive' \subseteq alive \cup {last'} /\ void' \subseteq void \cup {q.of, last'}
        BY <2>4 DEF Refreshed
      <4> QED
        BY <4>1, <4>2
    <3>7. UNCHANGED <<server, code>>
      BY <2>4 DEF Refreshed
    <3> QED
      BY <3>2, <3>5, <3>6, <3>7 DEF TypeOK
  <2>5. CASE StoreRefreshed(t)
    <3>1. req' \in [Requests -> Request]
      BY <2>5, ReqGoes, RequestForms DEF StoreRefreshed, Ends
    <3>2. q.new \in Pair
      BY <2>0, <2>5, RequestParts DEF StoreRefreshed, At
    <3>3. row' \in Row
      BY <2>5, <3>2 DEF StoreRefreshed, Store, TypeOK
    <3> QED
      BY <2>5, <3>1, <3>3 DEF StoreRefreshed, Store, TypeOK
  <2> QED
    BY <1>3, <2>1, <2>2, <2>3, <2>4, <2>5 DEF Token
<1>4. CASE Logout
  BY <1>4 DEF Logout, TypeOK
<1>5. CASE Environment
  <2>1. CASE TokenAges
    <3>1. row' = [pair |-> row.pair, secret |-> row.secret, fresh |-> FALSE]
      BY <2>1 DEF TokenAges, TypeOK
    <3>2. row' \in Row
      BY <2>1, <3>1 DEF TokenAges, TypeOK
    <3> QED
      BY <2>1, <3>2 DEF TokenAges, TypeOK
  <2>2. CASE RotateSecret
    BY <2>2 DEF RotateSecret, TypeOK
  <2>3. ASSUME NEW p \in Pair, Revoke(p) PROVE TypeOK'
    BY <2>3 DEF Revoke, TypeOK
  <2>4. CASE Restart
    <3>1. \A t \in Requests : Killed(t) \subseteq 1 .. last
      <4> SUFFICES ASSUME NEW t \in Requests PROVE Killed(t) \subseteq 1 .. last
        OBVIOUS
      <4>0. req[t] \in Request
        BY DEF TypeOK
      <4>1. CASE At(t, "refreshed")
        <5>1. req[t].of \in 1 .. last
          BY <4>0, <4>1, RequestParts DEF Safe, Given, Asks, At, TypeOK
        <5>2. req[t].new \in 1 .. last
          BY <4>1 DEF Safe, HeldIsUnread, Holds, At, TypeOK
        <5> QED
          BY <4>1, <5>1, <5>2 DEF Killed
      <4>2. CASE At(t, "confirmed")
        <5>1. req[t].new \in 1 .. last
          BY <4>2 DEF Safe, HeldIsUnread, Holds, At, TypeOK
        <5> QED
          BY <4>2, <5>1 DEF Killed, At
      <4>3. CASE ~At(t, "refreshed") /\ ~At(t, "confirmed")
        BY <4>3 DEF Killed
      <4> QED
        BY <4>1, <4>2, <4>3
    <3>2. PICK dead \in SUBSET Requests :
             /\ req' = [t \in Requests |-> IF t \in dead THEN Idle ELSE req[t]]
             /\ void' = void \cup UNION {Killed(t) : t \in dead}
             /\ pending' = {}
             /\ UNCHANGED <<row, secret, code, last, alive>>
      BY <2>4 DEF Restart
    <3>3. void' \subseteq 1 .. last
      BY <3>1, <3>2 DEF TypeOK
    <3>4. req' \in [Requests -> Request]
      BY <3>2, RequestForms DEF TypeOK
    <3> QED
      BY <3>2, <3>3, <3>4 DEF TypeOK
  <2> QED
    BY <1>5, <2>1, <2>2, <2>3, <2>4 DEF Environment
<1>6. CASE UNCHANGED vars
  BY <1>6 DEF vars, TypeOK
<1> QED
  BY <1>1, <1>2, <1>3, <1>4, <1>5, <1>6 DEF Next

-----------------------------------------------------------------------------

\* A step that moves no request.
LEMMA RequestsStay ==
  ASSUME Safe, UNCHANGED <<req, last>>, alive \cup void \subseteq alive' \cup void',
         row' # None => row # None /\ row'.pair = row.pair
  PROVE  Safe'
<1>1. Given'
  BY DEF Safe, Given, Asks
<1>2. HeldIsUnread'
  BY DEF Safe, HeldIsUnread, Holds, Asks
<1>3. StoredIsAlive'
  BY DEF Safe, StoredIsAlive, At
<1> QED
  BY <1>1, <1>2, <1>3 DEF Safe

\* A step of a request that neither holds a new pair before nor after it.
LEMMA RequestMoves ==
  ASSUME TypeOK, Safe, UNCHANGED <<last, alive, void>>, row' \in {row, None},
         NEW t \in Requests, ~Holds(t),
         NEW new \in Request, Goes(t, new), new.at \notin {"refreshed", "confirmed"},
         new.at \in Asking =>
            /\ new.of <= last
            /\ \A u \in Requests : Holds(u) => new.of # req[u].new
  PROVE  Safe'
<1>0. /\ req'[t] = new
      /\ \A u \in Requests \ {t} : req'[u] = req[u]
  BY ReqGoes
<1>1. Given'
  BY <1>0 DEF Safe, Given, Asks
<1>2. HeldIsUnread'
  BY <1>0 DEF Safe, HeldIsUnread, Holds, Asks
<1>3. StoredIsAlive'
  BY <1>0 DEF Safe, StoredIsAlive, Holds, At
<1> QED
  BY <1>1, <1>2, <1>3 DEF Safe

\* A request stores the new pair it holds.
LEMMA RequestStores ==
  ASSUME TypeOK, Safe, UNCHANGED <<last, alive, void>>,
         NEW t \in Requests, Holds(t), Goes(t, Idle),
         row' # None, row'.pair = req[t].new
  PROVE  Safe'
<1>0. /\ req'[t] = Idle
      /\ \A u \in Requests \ {t} : req'[u] = req[u]
  BY ReqGoes, RequestForms
<1>1. req[t].new \in alive \cup void
  BY DEF Safe, HeldIsUnread
<1>2. req[t].new \in Int /\ req[t].new <= last
  BY <1>1, PairsBound
<1>3. Given'
  BY <1>0, <1>2 DEF Safe, Given, Asks, Asking
<1>4. HeldIsUnread'
  <2> SUFFICES ASSUME NEW u \in Requests, Holds(u)'
               PROVE  /\ req'[u].new \in alive \cup void
                      /\ req[t].new # req'[u].new
                      /\ \A v \in Requests : Asks(v)' => req'[v].of # req'[u].new
                      /\ \A v \in Requests \ {u} : Holds(v)' => req'[v].new # req'[u].new
    BY DEF HeldIsUnread
  <2>1. u # t /\ Holds(u) /\ req'[u] = req[u]
    BY <1>0 DEF Holds
  <2>2. \A v \in Requests : Asks(v)' => v # t /\ Asks(v) /\ req'[v] = req[v]
    BY <1>0 DEF Asks, Asking
  <2>3. \A v \in Requests : Holds(v)' => v # t /\ Holds(v) /\ req'[v] = req[v]
    BY <1>0 DEF Holds
  <2> QED
    BY <2>1, <2>2, <2>3 DEF Safe, HeldIsUnread
<1>5. StoredIsAlive'
  BY <1>1 DEF StoredIsAlive
<1> QED
  BY <1>3, <1>4, <1>5 DEF Safe

\* kino.pub gives a pair out and the answer is lost.
LEMMA PairIsLost ==
  ASSUME TypeOK, Safe, Gives, UNCHANGED row,
         NEW t \in Requests, ~Holds(t), Goes(t, Idle),
         alive \cup void \subseteq alive' \cup void'
  PROVE  Safe'
<1>0. /\ req'[t] = Idle
      /\ \A u \in Requests \ {t} : req'[u] = req[u]
  BY ReqGoes, RequestForms
<1>1. last' = last + 1 /\ last \in Nat /\ row \in Row \cup {None}
  BY DEF Gives, TypeOK
<1>2. \A u \in Requests : Asks(u) => req[u].of \in Int
  <2> SUFFICES ASSUME NEW u \in Requests, Asks(u) PROVE req[u].of \in Int
    OBVIOUS
  <2>1. req[u] \in Request
    BY DEF TypeOK
  <2>2. req[u].of \in Pair
    BY <2>1, RequestParts DEF Asks
  <2> QED
    BY <2>2
<1>3. \A u \in Requests : Asks(u)' => u # t /\ Asks(u) /\ req'[u] = req[u]
  BY <1>0 DEF Asks, Asking
<1>4. \A u \in Requests : Holds(u)' => u # t /\ Holds(u) /\ req'[u] = req[u]
  BY <1>0 DEF Holds
<1>5. Given'
  BY <1>1, <1>2, <1>3 DEF Safe, Given
<1>6. HeldIsUnread'
  BY <1>3, <1>4 DEF Safe, HeldIsUnread
<1>7. StoredIsAlive'
  BY <1>0 DEF Safe, StoredIsAlive, Holds, At
<1> QED
  BY <1>5, <1>6, <1>7 DEF Safe

\* kino.pub gives a pair out to a request, for a pair that was alive or for none.
LEMMA PairIsGiven ==
  ASSUME TypeOK, Safe, Gives, UNCHANGED <<row, void>>,
         NEW t \in Requests, ~Holds(t),
         NEW new \in Request, Goes(t, new), new.at \in {"refreshed", "confirmed"},
         new.new = last',
         new.at = "confirmed" => alive' = alive \cup {last'},
         new.at = "refreshed" =>
            /\ Asks(t) /\ new.of = req[t].of
            /\ alive' = (alive \ {new.of}) \cup {last'}
  PROVE  Safe'
<1>0. /\ req'[t] = new
      /\ \A u \in Requests \ {t} : req'[u] = req[u]
  BY ReqGoes
<1>1. last' = last + 1 /\ last \in Nat /\ row \in Row \cup {None}
  BY DEF Gives, TypeOK
<1>2. \A u \in Requests : Asks(u) => req[u].of \in Int /\ req[u].of <= last
  <2> SUFFICES ASSUME NEW u \in Requests, Asks(u) PROVE req[u].of \in Int
    BY DEF Safe, Given
  <2>1. req[u] \in Request
    BY DEF TypeOK
  <2>2. req[u].of \in Pair
    BY <2>1, RequestParts DEF Asks
  <2> QED
    BY <2>2
<1>3. \A u \in Requests : Holds(u) => req[u].new \in Int /\ req[u].new <= last
  BY PairsBound DEF Safe, HeldIsUnread
<1>4. \A u \in Requests : Asks(u)' => Asks(u) /\ req'[u].of = req[u].of
  BY <1>0 DEF Asks, Asking
<1>5. \A u \in Requests : Holds(u)' => u = t \/ (Holds(u) /\ req'[u] = req[u])
  BY <1>0 DEF Holds
<1>6. row # None => row.pair \in Int /\ row.pair <= last
  BY <1>1 DEF Safe, Given
<1>7. Given'
  BY <1>1, <1>2, <1>4, <1>6 DEF Given
<1>8. HeldIsUnread'
  <2> SUFFICES ASSUME NEW u \in Requests, Holds(u)'
               PROVE  /\ req'[u].new \in alive' \cup void
                      /\ row # None => row.pair # req'[u].new
                      /\ \A v \in Requests : Asks(v)' => req'[v].of # req'[u].new
                      /\ \A v \in Requests \ {u} : Holds(v)' => req'[v].new # req'[u].new
    BY DEF HeldIsUnread
  <2>1. CASE u = t
    <3>1. req'[u].new = last + 1 /\ last + 1 \in alive'
      BY <1>0, <1>1, <2>1
    <3> QED
      BY <1>1, <1>2, <1>3, <1>4, <1>5, <1>6, <2>1, <3>1
  <2>2. CASE u # t
    <3>1. Holds(u) /\ req'[u] = req[u]
      BY <1>5, <2>2
    <3>2. req[u].new # last' /\ req[u].new \in alive \cup void
      BY <1>1, <1>3, <3>1 DEF Safe, HeldIsUnread
    <3>3. new.at = "refreshed" => new.of # req[u].new
      BY <3>1 DEF Safe, HeldIsUnread
    <3>4. req[u].new \in alive' \cup void
      BY <3>2, <3>3
    <3>5. \A v \in Requests \ {u} : Holds(v)' => req'[v].new # req[u].new
      BY <1>0, <1>5, <3>1, <3>2 DEF Safe, HeldIsUnread
    <3> QED
      BY <1>4, <3>1, <3>4, <3>5 DEF Safe, HeldIsUnread
  <2> QED
    BY <2>1, <2>2
<1>9. StoredIsAlive'
  <2> SUFFICES ASSUME row # None, row.pair \notin alive' \cup void
               PROVE  \E u \in Requests : At(u, "refreshed")' /\ req'[u].of = row.pair
    BY DEF StoredIsAlive
  <2>1. CASE row.pair \in alive \cup void
    <3>1. new.at = "refreshed" /\ new.of = row.pair
      BY <2>1
    <3> QED
      BY <1>0, <3>1 DEF At
  <2>2. ASSUME NEW u \in Requests, At(u, "refreshed"), req[u].of = row.pair
        PROVE  At(u, "refreshed")' /\ req'[u].of = row.pair
    BY <1>0, <2>2 DEF At, Holds
  <2> QED
    BY <2>1, <2>2 DEF Safe, StoredIsAlive
<1> QED
  BY <1>7, <1>8, <1>9 DEF Safe

\* The pairs that die with the server are void.
LEMMA RequestsDie ==
  ASSUME Safe, Restart
  PROVE  Safe'
<1>0. PICK dead \in SUBSET Requests :
         /\ req' = [t \in Requests |-> IF t \in dead THEN Idle ELSE req[t]]
         /\ void' = void \cup UNION {Killed(t) : t \in dead}
         /\ UNCHANGED <<row, last, alive>>
  BY DEF Restart
<1>1. /\ \A t \in dead : req'[t] = Idle
      /\ \A t \in Requests \ dead : req'[t] = req[t]
  BY <1>0
<1>2. \A t \in Requests : Asks(t)' => t \notin dead /\ Asks(t) /\ req'[t] = req[t]
  BY <1>1 DEF Asks, Asking
<1>3. \A t \in Requests : Holds(t)' => t \notin dead /\ Holds(t) /\ req'[t] = req[t]
  BY <1>1 DEF Holds
<1>4. Given'
  BY <1>0, <1>2 DEF Safe, Given
<1>5. HeldIsUnread'
  BY <1>0, <1>2, <1>3 DEF Safe, HeldIsUnread
<1>6. StoredIsAlive'
  <2> SUFFICES ASSUME row # None, NEW t \in Requests,
                      At(t, "refreshed"), req[t].of = row.pair
               PROVE  \/ row.pair \in void'
                      \/ At(t, "refreshed")' /\ req'[t].of = row.pair
    BY <1>0 DEF Safe, StoredIsAlive
  <2>1. CASE t \in dead
    <3>1. req[t].of \in Killed(t)
      BY DEF Killed, At
    <3> QED
      BY <1>0, <2>1, <3>1
  <2>2. CASE t \notin dead
    BY <1>1, <2>2 DEF At
  <2> QED
    BY <2>1, <2>2
<1> QED
  BY <1>4, <1>5, <1>6 DEF Safe

-----------------------------------------------------------------------------

LEMMA SafeStep ==
  ASSUME TypeOK, Safe, [Next]_vars
  PROVE  Safe'
<1>1. ASSUME NEW c \in Codes, Device(c) PROVE Safe'
  BY <1>1, RequestsStay DEF Device, StartDeviceFlow, Grant, CodeExpires, GcPending
<1>2. ASSUME NEW t \in Requests, Login(t) PROVE Safe'
  <2>0. req[t] \in Request
    BY DEF TypeOK
  <2>1. ASSUME NEW c \in Codes, Poll(t, c) PROVE Safe'
    <3> DEFINE new == [at |-> "poll", code |-> c]
    <3>1. new \in Request /\ new.at = "poll"
      BY RequestForms
    <3>2. Goes(t, new) /\ ~Holds(t) /\ UNCHANGED <<row, last, alive, void>>
      BY <2>1 DEF Poll, At, Holds
    <3> HIDE DEF new
    <3> QED
      BY <3>1, <3>2, RequestMoves DEF Asking
  <2>2. CASE PollConfirmed(t)
    <3> DEFINE new == [at |-> "confirmed", code |-> req[t].code, new |-> last']
    <3>1. ~Holds(t) /\ Gives /\ UNCHANGED row /\ alive' = alive \cup {last'}
      BY <2>2 DEF PollConfirmed, At, Holds
    <3>2. CASE Goes(t, new) /\ UNCHANGED void
      <4>1. req[t].code \in Codes /\ last' \in Pair
        BY <2>0, <2>2, RequestParts, GivesTypes DEF PollConfirmed, At
      <4>2. new \in Request /\ new.at = "confirmed" /\ new.new = last'
        BY <4>1, RequestForms
      <4> HIDE DEF new
      <4> QED
        BY <3>1, <3>2, <4>2, PairIsGiven
    <3>3. CASE Goes(t, Idle) /\ void' = void \cup {last'}
      BY <3>1, <3>3, PairIsLost
    <3> QED
      BY <2>2, <3>2, <3>3 DEF PollConfirmed, Ends
  <2>3. CASE PollPending(t) \/ PollExpired(t)
    <3>1. Goes(t, Idle) /\ ~Holds(t) /\ UNCHANGED <<row, last, alive, void>>
      BY <2>3 DEF PollPending, PollExpired, At, Holds, Ends
    <3> QED
      BY <3>1, RequestMoves, RequestForms DEF Asking
  <2>4. CASE StoreLogin(t)
    <3>1. /\ Goes(t, Idle) /\ Holds(t) /\ UNCHANGED <<last, alive, void>>
          /\ row'.pair = req[t].new
      BY <2>4 DEF StoreLogin, Store, At, Holds, Ends
    <3>2. req[t].new \in Pair
      BY <2>0, <2>4, RequestParts DEF StoreLogin, At
    <3>3. row' \in Row
      BY <2>4, <3>2 DEF StoreLogin, Store, TypeOK
    <3>4. row' # None
      BY <3>3
    <3> QED
      BY <3>1, <3>4, RequestStores
  <2> QED
    BY <1>2, <2>1, <2>2, <2>3, <2>4 DEF Login
<1>3. ASSUME NEW t \in Requests, Token(t) PROVE Safe'
  <2>0. req[t] \in Request
    BY DEF TypeOK
  <2>1. CASE ReadRow(t)
    <3>1. PICK step \in {"read", "readOld"} : Goes(t, [at |-> step, of |-> row.pair])
      BY <2>1 DEF ReadRow
    <3> DEFINE new == [at |-> step, of |-> row.pair]
    <3>2. row # None /\ row.pair \in Pair
      BY <2>1 DEF ReadRow, TypeOK
    <3>3. new \in Request /\ new.at = step /\ new.of = row.pair
      BY <3>2, RequestForms DEF Asking
    <3>4. Goes(t, new) /\ ~Holds(t) /\ UNCHANGED <<row, last, alive, void>>
      BY <2>1, <3>1 DEF ReadRow, At, Holds
    <3>5. new.of <= last /\ \A u \in Requests : Holds(u) => new.of # req[u].new
      BY <3>2, <3>3 DEF Safe, Given, HeldIsUnread
    <3> HIDE DEF new
    <3> QED
      BY <3>3, <3>4, <3>5, RequestMoves
  <2>2. CASE CheckSecret(t) \/ RefreshRefused(t)
    <3>1. req[t].at \in Asking /\ ~Holds(t) /\ UNCHANGED <<row, last, alive, void>>
      BY <2>2 DEF CheckSecret, RefreshRefused, At, Asking, Holds
    <3>2. CASE Goes(t, Idle)
      BY <3>1, <3>2, RequestMoves, RequestForms DEF Asking
    <3>3. ASSUME NEW step \in Asking, Goes(t, [req[t] EXCEPT !.at = step]) PROVE Safe'
      <4> DEFINE new == [req[t] EXCEPT !.at = step]
      <4>1. new \in Request /\ new = [at |-> step, of |-> req[t].of]
        BY <2>0, <3>1, RequestGoesOn
      <4>2. new.at = step /\ new.of = req[t].of
        BY <4>1
      <4>3. Goes(t, new)
        BY <3>3
      <4>4. new.of <= last /\ \A u \in Requests : Holds(u) => new.of # req[u].new
        BY <3>1, <4>2 DEF Safe, Given, HeldIsUnread, Asks
      <4> HIDE DEF new
      <4> QED
        BY <3>1, <4>1, <4>2, <4>3, <4>4, RequestMoves DEF Asking
    <3> QED
      BY <2>2, <3>2, <3>3 DEF CheckSecret, RefreshRefused, Ends, Asking
  <2>3. CASE Clear(t) \/ RefreshFails(t)
    <3>1. Goes(t, Idle) /\ ~Holds(t) /\ row' \in {row, None} /\ UNCHANGED <<last, alive, void>>
      BY <2>3 DEF Clear, RefreshFails, At, Holds, Ends
    <3> QED
      BY <3>1, RequestMoves, RequestForms DEF Asking
  <2>4. CASE Refreshed(t)
    <3> DEFINE new == [at |-> "refreshed", of |-> req[t].of, new |-> last']
    <3>1. /\ Asks(t) /\ ~Holds(t) /\ Gives /\ UNCHANGED row
          /\ alive' = (alive \ {req[t].of}) \cup {last'}
      BY <2>4 DEF Refreshed, At, Holds, Asks, Asking
    <3>2. CASE Goes(t, new) /\ UNCHANGED void
      <4>1. req[t].of \in Pair /\ last' \in Pair
        BY <2>0, <2>4, RequestParts, GivesTypes DEF Refreshed, At, Asking
      <4>2. /\ new \in Request /\ new.at = "refreshed" /\ new.new = last'
            /\ new.of = req[t].of
        BY <4>1, RequestForms
      <4> HIDE DEF new
      <4> QED
        BY <3>1, <3>2, <4>2, PairIsGiven
    <3>3. CASE Goes(t, Idle) /\ void' = void \cup {req[t].of, last'}
      BY <3>1, <3>3, PairIsLost
    <3> QED
      BY <2>4, <3>2, <3>3 DEF Refreshed, Ends
  <2>5. CASE StoreRefreshed(t)
    <3>1. /\ Goes(t, Idle) /\ Holds(t) /\ UNCHANGED <<last, alive, void>>
          /\ row'.pair = req[t].new
      BY <2>5 DEF StoreRefreshed, Store, At, Holds, Ends
    <3>2. req[t].new \in Pair
      BY <2>0, <2>5, RequestParts DEF StoreRefreshed, At
    <3>3. row' \in Row
      BY <2>5, <3>2 DEF StoreRefreshed, Store, TypeOK
    <3>4. row' # None
      BY <3>3
    <3> QED
      BY <3>1, <3>4, RequestStores
  <2> QED
    BY <1>3, <2>1, <2>2, <2>3, <2>4, <2>5 DEF Token
<1>4. CASE Logout
  BY <1>4, RequestsStay DEF Logout
<1>5. CASE Environment
  <2>1. CASE TokenAges
    BY <2>1, RequestsStay DEF TokenAges, TypeOK
  <2>2. CASE RotateSecret
    BY <2>2, RequestsStay DEF RotateSecret
  <2>3. ASSUME NEW p \in Pair, Revoke(p) PROVE Safe'
    BY <2>3, RequestsStay DEF Revoke
  <2> QED
    BY <1>5, <2>1, <2>2, <2>3, RequestsDie DEF Environment
<1>6. CASE UNCHANGED vars
  BY <1>6, RequestsStay DEF vars
<1> QED
  BY <1>1, <1>2, <1>3, <1>4, <1>5, <1>6 DEF Next

\* The types, and what the new pairs are, hold in every state.
LEMMA AuthInductive == Spec => []IInv
<1>1. Init => IInv
  BY RequestForms DEF Init, IInv, TypeOK, Safe, Given, HeldIsUnread, StoredIsAlive, Asks, Holds, Asking
<1>2. IInv /\ [Next]_vars => IInv'
  BY TypeStep, SafeStep DEF IInv
<1> QED
  BY <1>1, <1>2, PTL DEF Spec

\* The state of the account keeps its types.
THEOREM AuthTypeCorrect == Spec => []TypeOK
BY AuthInductive, PTL DEF IInv

\* No interleaving of requests, scripts, logins and restarts brings a spent pair
\* back: what is stored is refreshed by kino.pub, or its successor is about to be
\* stored, or kino.pub gave it up.
THEOREM NoSpentPair == Spec => []StoredIsAlive
BY AuthInductive, PTL DEF IInv, Safe

=============================================================================

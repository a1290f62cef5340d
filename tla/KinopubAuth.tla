----------------------------- MODULE KinopubAuth ------------------------------
(***************************************************************************)
(* The account of kino.pub: runtime/kinopub.py over kinopub_client.py and  *)
(* the row of db/kinopub_auth.py.                                          *)
(*                                                                         *)
(* Requests run in threads of the server, the scripts that need a token in *)
(* processes of their own.  Nothing but single statements on the row and   *)
(* on the table of device codes is atomic: a request reads the row, asks   *)
(* kino.pub and writes or deletes the row by the answer.  kino.pub gives   *)
(* out pairs of an access and a refresh token, numbered here; refreshing a *)
(* pair makes the next one and spends the old.                             *)
(***************************************************************************)
EXTENDS Integers, FiniteSets

CONSTANTS
    Requests,       \* threads and scripts that may need a token at a time
    Codes,          \* device codes
    None,
    MaxPairs,       \* bound on the pairs kino.pub gives out
    MaxRotations    \* bound on the times the operator changes the secret

Pair == 1 .. MaxPairs
Row  == [pair : Pair, secret : 0 .. MaxRotations, fresh : BOOLEAN]

ASSUME AuthAssumption == MaxPairs \in Nat /\ MaxRotations \in Nat /\ None \notin Pair \cup Row

VARIABLES
    row,        \* the row of kinopub_auth, or None
    secret,     \* settings.kinopub_client_secret
    pending,    \* _pending: device codes that are waited for
    req,        \* what each request is at
    code,       \* kino.pub: the state of each device code
    last,       \* kino.pub: the last pair given out
    alive,      \* kino.pub: the pairs it refreshes
    void        \* history: pairs that died with no successor under way to the server

server  == <<row, secret, pending>>
service == <<code, last, alive, void>>
vars    == <<row, secret, pending, req, code, last, alive, void>>

Request ==
    [at : {"idle"}] \cup
    [at : {"read", "readOld", "mismatch", "refresh", "refused"}, of : Pair] \cup
    [at : {"refreshed"}, of : Pair, new : Pair] \cup
    [at : {"poll"}, code : Codes] \cup
    [at : {"confirmed"}, code : Codes, new : Pair]

TypeOK ==
    /\ row \in Row \cup {None}
    /\ secret \in 0 .. MaxRotations
    /\ pending \subseteq Codes
    /\ req \in [Requests -> Request]
    /\ code \in [Codes -> {"unused", "open", "granted", "spent"}]
    /\ last \in 0 .. MaxPairs
    /\ alive \subseteq 1 .. last /\ void \subseteq 1 .. last

Idle == [at |-> "idle"]

Init ==
    /\ row = None /\ secret = 0 /\ pending = {}
    /\ req = [t \in Requests |-> Idle]
    /\ code = [c \in Codes |-> "unused"] /\ last = 0 /\ alive = {} /\ void = {}

At(t, step)  == req[t].at = step
Goes(t, new) == req' = [req EXCEPT ![t] = new]
Ends(t)      == Goes(t, Idle)

\* kinopub_auth_set: the one row is inserted or replaced.
Store(pair) == row' = [pair |-> pair, secret |-> secret, fresh |-> TRUE]

\* The pair that kino.pub gives out next
Gives == last < MaxPairs /\ last' = last + 1

-----------------------------------------------------------------------------
(* Device flow *)

StartDeviceFlow(c) ==
    /\ code[c] = "unused" /\ code' = [code EXCEPT ![c] = "open"]
    /\ pending' = pending \cup {c}
    /\ UNCHANGED <<row, secret, req, last, alive, void>>

\* The user enters the code at kino.pub.
Grant(c) ==
    /\ code[c] = "open" /\ code' = [code EXCEPT ![c] = "granted"]
    /\ UNCHANGED <<row, secret, pending, req, last, alive, void>>

\* A code is too old for kino.pub.
CodeExpires(c) ==
    /\ code[c] \in {"open", "granted"} /\ code' = [code EXCEPT ![c] = "spent"]
    /\ UNCHANGED <<row, secret, pending, req, last, alive, void>>

\* _gc_pending, before a flow is started or polled
GcPending(c) ==
    /\ c \in pending /\ code[c] = "spent" /\ pending' = pending \ {c}
    /\ UNCHANGED <<row, secret, req, code, last, alive, void>>

Poll(t, c) ==
    /\ At(t, "idle") /\ c \in pending
    /\ Goes(t, [at |-> "poll", code |-> c])
    /\ UNCHANGED <<row, secret, pending, code, last, alive, void>>

PollConfirmed(t) ==
    /\ At(t, "poll") /\ code[req[t].code] = "granted" /\ Gives
    /\ code' = [code EXCEPT ![req[t].code] = "spent"]
    /\ alive' = alive \cup {last'}
    /\ \/ Goes(t, [at |-> "confirmed", code |-> req[t].code, new |-> last']) /\ UNCHANGED void
       \/ Ends(t) /\ void' = void \cup {last'}          \* the answer is lost
    /\ UNCHANGED server

\* Not granted yet, or kino.pub cannot be reached
PollPending(t) ==
    /\ At(t, "poll") /\ Ends(t)
    /\ UNCHANGED <<server, service>>

PollExpired(t) ==
    /\ At(t, "poll") /\ code[req[t].code] = "spent" /\ Ends(t)
    /\ pending' = pending \ {req[t].code}
    /\ UNCHANGED <<row, secret, service>>

StoreLogin(t) ==
    /\ At(t, "confirmed") /\ Ends(t)
    /\ Store(req[t].new)
    /\ pending' = pending \ {req[t].code}
    /\ UNCHANGED <<secret, service>>

Logout ==
    /\ row # None /\ row' = None
    /\ UNCHANGED <<secret, pending, req, service>>

-----------------------------------------------------------------------------
(* current_token and get_status *)

ReadRow(t) ==
    /\ At(t, "idle") /\ row # None
    /\ Goes(t, [at |-> IF row.fresh THEN "read" ELSE "readOld", of |-> row.pair])
    /\ UNCHANGED <<server, service>>

\* kinopub_auth_secret_matches reads the row again.  get_status ends here, and so
\* does current_token if the token is not about to expire.
CheckSecret(t) ==
    /\ At(t, "read") \/ At(t, "readOld")
    /\ \/ row = None /\ Goes(t, [req[t] EXCEPT !.at = "mismatch"])
       \/ row # None /\ row.secret # secret /\ Goes(t, [req[t] EXCEPT !.at = "mismatch"])
       \/ row # None /\ row.secret = secret /\ Ends(t)
       \/ /\ row # None /\ row.secret = secret /\ At(t, "readOld")
          /\ Goes(t, [req[t] EXCEPT !.at = "refresh"])
    /\ UNCHANGED <<server, service>>

Clear(t) ==
    /\ At(t, "mismatch") \/ At(t, "refused")
    /\ row' = None /\ Ends(t)
    /\ UNCHANGED <<secret, pending, service>>

\* kino.pub refreshes a pair once; the answer may be lost.
Refreshed(t) ==
    /\ At(t, "refresh") /\ req[t].of \in alive /\ Gives
    /\ alive' = (alive \ {req[t].of}) \cup {last'}
    /\ \/ /\ Goes(t, [at |-> "refreshed", of |-> req[t].of, new |-> last'])
          /\ UNCHANGED void
       \/ Ends(t) /\ void' = void \cup {req[t].of, last'}
    /\ UNCHANGED <<server, code>>

RefreshRefused(t) ==
    /\ At(t, "refresh") /\ req[t].of \notin alive
    /\ Goes(t, [req[t] EXCEPT !.at = "refused"])
    /\ UNCHANGED <<server, service>>

\* A limit or a network error: the row stays for the next request.
RefreshFails(t) ==
    /\ At(t, "refresh") /\ Ends(t)
    /\ UNCHANGED <<server, service>>

\* Variant that stores the new access token and keeps the refresh token.
StoreAccessOnly(t) ==
    /\ At(t, "refreshed") /\ Ends(t)
    /\ Store(req[t].of)
    /\ UNCHANGED <<secret, pending, service>>

\* Variant that stores an answer without a refresh token.
StoreUnchecked(t) ==
    /\ At(t, "refreshed") /\ Ends(t)
    /\ Store(None)
    /\ UNCHANGED <<secret, pending, service>>

StoreRefreshed(t) ==
    /\ At(t, "refreshed") /\ Ends(t)
    /\ Store(req[t].new)
    /\ UNCHANGED <<secret, pending, service>>

-----------------------------------------------------------------------------
(* Time, the operator, the service and the end of the server *)

\* less than kinopub_refresh_skew_seconds are left
TokenAges ==
    /\ row # None /\ row.fresh /\ row' = [row EXCEPT !.fresh = FALSE]
    /\ UNCHANGED <<secret, pending, req, service>>

RotateSecret ==
    /\ secret < MaxRotations /\ secret' = secret + 1
    /\ UNCHANGED <<row, pending, req, service>>

\* kino.pub drops a pair: it is too old, or the user removes the device there.
Revoke(p) ==
    /\ p \in alive /\ alive' = alive \ {p} /\ void' = void \cup {p}
    /\ UNCHANGED <<server, req, code, last>>

\* The server is restarted or killed, with the scripts it runs or without: its
\* requests, among them all logins, and _pending are gone.
Killed(t) == CASE At(t, "refreshed") -> {req[t].of, req[t].new}
               [] At(t, "confirmed") -> {req[t].new}
               [] OTHER -> {}

Restart ==
    \E dead \in SUBSET Requests :
       /\ \A t \in Requests \ dead : ~At(t, "poll") /\ ~At(t, "confirmed")
       /\ req' = [t \in Requests |-> IF t \in dead THEN Idle ELSE req[t]]
       /\ pending' = {}
       /\ void' = void \cup UNION {Killed(t) : t \in dead}
       /\ UNCHANGED <<row, secret, code, last, alive>>

-----------------------------------------------------------------------------

Device(c)   == StartDeviceFlow(c) \/ Grant(c) \/ CodeExpires(c) \/ GcPending(c)
Login(t)    == \/ \E c \in Codes : Poll(t, c)
               \/ PollConfirmed(t) \/ PollPending(t) \/ PollExpired(t) \/ StoreLogin(t)
Token(t)    == \/ ReadRow(t) \/ CheckSecret(t) \/ Clear(t)
               \/ Refreshed(t) \/ RefreshRefused(t) \/ RefreshFails(t) \/ StoreRefreshed(t)
Environment == TokenAges \/ RotateSecret \/ Restart \/ \E p \in Pair : Revoke(p)

Next ==
    \/ \E c \in Codes : Device(c)
    \/ \E t \in Requests : Login(t) \/ Token(t)
    \/ Logout \/ Environment

Spec == Init /\ [][Next]_vars

-----------------------------------------------------------------------------
(* Properties *)

\* kino.pub refreshes the stored pair, or a request is about to store the pair
\* that came after it, unless kino.pub dropped it or an answer never arrived:
\* however the reads and writes of requests interleave, none brings a spent pair
\* back.
StoredIsAlive ==
    row # None =>
        \/ row.pair \in alive \cup void
        \/ \E t \in Requests : At(t, "refreshed") /\ req[t].of = row.pair

\* "Remove the auth row.  Used by /api/kinopub/logout and by runtime/kinopub.py
\* when the refresh_token is rejected" (db/kinopub_auth.py:79): the tokens that go
\* when a refresh is refused are those that kino.pub refuses.
RefusedIsDropped ==
    [][\A t \in Requests :
          At(t, "refused") /\ req'[t] # req[t] /\ row # None /\ row' = None
             => row.pair \notin alive]_vars

=============================================================================

---------------------------- MODULE AdminSession ----------------------------
(***************************************************************************)
(* The session of an administrator (service/auth_service.go,               *)
(* repository/refresh_token_repo.go, and the client of src/frontend).  The *)
(* tabs of one browser share the stored pair of an access and a refresh    *)
(* token.  A refresh token is good for one new pair; tabs that refresh at  *)
(* the same time race for it, and the one that loses waits a second for    *)
(* the pair of the other.  Pairs are numbered, 0 is no pair.               *)
(***************************************************************************)
EXTENDS Integers, FiniteSets

CONSTANTS
    Tabs,           \* the tabs of the browser
    MaxPairs,       \* bound: pairs issued
    MaxEvents       \* bound: logouts, expiries, changes of the password, losses

SessionAssumption == Tabs # {} /\ MaxPairs \in Nat \ {0} /\ MaxEvents \in Nat

VARIABLES
    rows,           \* refresh_tokens: pair -> fingerprint of the password it was issued under
    password,       \* the configured password
    dead,           \* pairs whose refresh token expired
    stale,          \* pairs whose access token expired
    pair,           \* localStorage: the pair every tab sees
    tab,            \* the refresh each tab has under way
    leaving,        \* tabs whose logout the server answered
    issued,         \* how many pairs were issued
    from,           \* history: pair -> the pair whose refresh token gave it
    out,            \* history: the browser was logged out and nobody logged in since
    excused,        \* history: something happened after which a session may end
    lostAt,         \* history: a stored session was given up without such a cause
    events          \* bound: events so far

vars == <<rows, password, dead, stale, pair, tab, leaving, issued, from, out, excused, lostAt,
          events>>

Pairs == 1 .. MaxPairs
Idle == [at |-> "idle"]
Kinds == {"request", "timer", "start"}      \* what a refresh is begun for

Init ==
    /\ rows = [p \in {1} |-> 0] /\ password = 0
    /\ dead = {} /\ stale = {}
    /\ pair = 1
    /\ tab = [t \in Tabs |-> Idle] /\ leaving = {}
    /\ issued = 1
    /\ from = [p \in Pairs |-> 0]
    /\ out = FALSE /\ excused = FALSE /\ lostAt = FALSE
    /\ events = 0

TypeOK ==
    /\ DOMAIN rows \subseteq 1 .. issued /\ \A p \in DOMAIN rows : rows[p] \in 0 .. password
    /\ dead \subseteq Pairs /\ stale \subseteq Pairs
    /\ pair \in 0 .. MaxPairs /\ issued \in 0 .. MaxPairs
    /\ \A t \in Tabs : tab[t].at \in {"idle", "asks", "found", "answer", "waits"}
    /\ leaving \subseteq Tabs
    /\ from \in [Pairs -> 0 .. MaxPairs]
    /\ {out, excused, lostAt} \subseteq BOOLEAN
    /\ events \in 0 .. MaxEvents

Without(f, p) == [q \in DOMAIN f \ {p} |-> f[q]]
With(f, p, v) == [q \in DOMAIN f \cup {p} |-> IF q = p THEN v ELSE f[q]]
Step(t, next) == tab' = [tab EXCEPT ![t] = next]

server == <<rows, password, dead, stale, issued, from>>
history == <<out, excused, lostAt>>

(***************************************************************************)
(* The client                                                              *)
(***************************************************************************)
\* clearAuthTokens for any other reason than a logout.
GiveUpSession == pair' = 0 /\ lostAt' = (lostAt \/ (pair # 0 /\ ~excused'))

\* A refresh starts: a request was refused with 401 (client.ts), the timer before the access
\* token ends, or the start of a tab (auth.ts).  A tab has one under way at most: a request
\* refused meanwhile joins it.
Begin(t, kind) ==
    /\ pair # 0
    /\ kind = "request" => pair \in stale
    /\ \/ tab[t].at = "idle" /\ Step(t, [at |-> "asks", snap |-> pair, seen |-> pair, for |-> {kind}])
       \/ /\ tab[t].at \in {"asks", "found", "answer", "waits"} /\ kind \notin tab[t].for
          /\ Step(t, [tab[t] EXCEPT !.for = @ \cup {kind},
                                    !.seen = IF kind = "request" THEN pair ELSE @])
    /\ UNCHANGED <<server, pair, leaving, history, events>>

\* readPeerResult: another pair is stored than the one the refresh began with.
Peer(t) == pair # 0 /\ pair # tab[t].snap

\* What a tab does with the pair its refresh came to: a request is sent again, and if that
\* is refused as well the session is given up.
Succeed(t, p) ==
    /\ Step(t, Idle)
    /\ IF "request" \in tab[t].for /\ p \in stale
       THEN GiveUpSession
       ELSE pair' = p /\ UNCHANGED lostAt

\* And if the refresh failed: a request takes a pair stored since it was refused, if there
\* is one, and gives the session up otherwise, as the start of a tab does; the timer waits
\* for the next request.
Fail(t) ==
    /\ Step(t, Idle)
    /\ IF \/ "start" \in tab[t].for
          \/ "request" \in tab[t].for /\ (pair \in {0, tab[t].seen} \/ pair \in stale)
       THEN GiveUpSession
       ELSE UNCHANGED <<pair, lostAt>>

\* Mutant: a pair that arrives is stored whatever happened since.
StoreAlways(t) == TRUE

\* Whether a pair that arrives may be stored: nothing else was since the refresh began.
MayStore(t) == pair = tab[t].snap

\* requestTokenPair: the answer arrives.
Answer(t) ==
    /\ tab[t].at = "answer" /\ UNCHANGED <<server, leaving, out, excused, events>>
    /\ IF tab[t].reply # 0 /\ MayStore(t) THEN Succeed(t, tab[t].reply)
       ELSE IF Peer(t) THEN Succeed(t, pair)
       ELSE Step(t, [tab[t] EXCEPT !.at = "waits"]) /\ UNCHANGED <<pair, lostAt>>

\* waitForPeer: the pair of another tab appears, or does not within a second.
PeerCame(t) ==
    /\ tab[t].at = "waits" /\ Peer(t)
    /\ UNCHANGED <<server, leaving, out, excused, events>>
    /\ Succeed(t, pair)

\* Somebody else's refresh with the same token is still under way.
Racing(t) ==
    \E o \in Tabs \ {t} : tab[o].at \in {"asks", "found", "answer"} /\ tab[o].snap = tab[t].snap

\* The wait ends without one; while the other refresh is still under way that takes a server
\* that is slower than the wait.
GiveUp(t) ==
    /\ tab[t].at = "waits" /\ ~Peer(t)
    /\ Racing(t) => events < MaxEvents
    /\ excused' = (excused \/ Racing(t))
    /\ events' = IF Racing(t) THEN events + 1 ELSE events
    /\ Fail(t)
    /\ UNCHANGED <<server, leaving, out>>

(***************************************************************************)
(* The server                                                              *)
(***************************************************************************)
Reply(t, p) == Step(t, [at |-> "answer", snap |-> tab[t].snap, seen |-> tab[t].seen,
                        for |-> tab[t].for, reply |-> p])

\* An event after which a session may end.
Excuse == events < MaxEvents /\ events' = events + 1 /\ excused' = TRUE

\* AuthService.Refresh: the row, which goes if it expired or the password is another.
Find(t) ==
    /\ tab[t].at = "asks"
    /\ LET s == tab[t].snap IN
       IF s \notin DOMAIN rows THEN Reply(t, 0) /\ UNCHANGED rows
       ELSE IF s \in dead \/ rows[s] # password THEN Reply(t, 0) /\ rows' = Without(rows, s)
       ELSE Step(t, [tab[t] EXCEPT !.at = "found"]) /\ UNCHANGED rows
    /\ UNCHANGED <<password, dead, stale, pair, leaving, issued, from, history, events>>

\* Mutant: the old row is deleted without a look at whether it was there.
AnyRow(t) == TRUE

\* Rotate: nothing is given for a row that is gone.
HasRow(t) == tab[t].snap \in DOMAIN rows

\* issuePair and Rotate: in one transaction the old row goes and the new one comes; its
\* answer may be lost.
Rotate(t, lost) ==
    /\ tab[t].at = "found"
    /\ IF HasRow(t)
       THEN /\ issued < MaxPairs /\ issued' = issued + 1
            /\ rows' = With(Without(rows, tab[t].snap), issued + 1, password)
            /\ from' = [from EXCEPT ![issued + 1] = tab[t].snap]
            /\ Reply(t, IF lost THEN 0 ELSE issued + 1)
       ELSE Reply(t, 0) /\ UNCHANGED <<issued, rows, from>>
    /\ IF lost THEN Excuse ELSE UNCHANGED <<excused, events>>
    /\ UNCHANGED <<password, dead, stale, pair, leaving, out, lostAt>>

\* A statement fails.
Break(t) ==
    /\ tab[t].at \in {"asks", "found"}
    /\ Reply(t, 0) /\ Excuse
    /\ UNCHANGED <<server, pair, leaving, out, lostAt>>

\* Login, where nobody is logged in.
Login(t) ==
    /\ pair = 0 /\ tab[t].at = "idle" /\ issued < MaxPairs
    /\ issued' = issued + 1 /\ pair' = issued + 1
    /\ rows' = With(rows, issued + 1, password)
    /\ out' = FALSE
    /\ excused' = (excused /\ \E o \in Tabs : tab[o].at # "idle" \/ o \in leaving)
    /\ UNCHANGED <<password, dead, stale, tab, leaving, from, lostAt, events>>

\* Logout: the row of the stored pair goes, unless the request fails.
Logout(t, fails) ==
    /\ pair # 0 /\ t \notin leaving
    /\ rows' = IF fails THEN rows ELSE Without(rows, pair)
    /\ leaving' = leaving \cup {t}
    /\ Excuse
    /\ UNCHANGED <<password, dead, stale, pair, tab, issued, from, out, lostAt>>

\* And then, whatever was answered, the stored pair.
Leave(t) ==
    /\ t \in leaving
    /\ leaving' = leaving \ {t}
    /\ pair' = 0 /\ out' = TRUE
    /\ UNCHANGED <<server, tab, excused, lostAt, events>>

(***************************************************************************)
(* What happens around them                                                *)
(***************************************************************************)
\* The access token of the stored pair ends.
AccessEnds ==
    /\ pair \notin stale \cup {0} /\ events < MaxEvents
    /\ stale' = stale \cup {pair}
    /\ events' = events + 1
    /\ excused' = (excused \/ \E t \in Tabs : tab[t].at # "idle")
    /\ UNCHANGED <<rows, password, dead, pair, tab, leaving, issued, from, out, lostAt>>

RefreshEnds ==
    /\ \E p \in DOMAIN rows \ dead : dead' = dead \cup {p}
    /\ Excuse
    /\ UNCHANGED <<rows, password, stale, pair, tab, leaving, issued, from, out, lostAt>>

\* The password is changed: the server starts again, and what it was asked is not answered.
ChangePassword ==
    /\ Excuse
    /\ password' = password + 1
    /\ tab' = [t \in Tabs |->
                  IF tab[t].at \in {"asks", "found"}
                  THEN [at |-> "answer", snap |-> tab[t].snap, seen |-> tab[t].seen,
                        for |-> tab[t].for, reply |-> 0]
                  ELSE tab[t]]
    /\ UNCHANGED <<rows, dead, stale, pair, leaving, issued, from, out, lostAt>>

Next ==
    \/ \E t \in Tabs, k \in Kinds : Begin(t, k)
    \/ \E t \in Tabs, b \in BOOLEAN : Rotate(t, b) \/ Logout(t, b)
    \/ \E t \in Tabs : \/ Answer(t) \/ PeerCame(t) \/ GiveUp(t) \/ Find(t) \/ Break(t)
                       \/ Login(t) \/ Leave(t)
    \/ AccessEnds \/ RefreshEnds \/ ChangePassword

Spec == Init /\ [][Next]_vars
-----------------------------------------------------------------------------
(***************************************************************************)
(* Properties                                                              *)
(***************************************************************************)
\* refresh_token_repo.go: however tabs race, a refresh token gives one pair, and none under
\* a password that is no longer the one it was issued under.
OnePairEach ==
    \A p, q \in 1 .. issued : p # q /\ from[p] = from[q] => from[p] = 0

\* tokenRefresh.ts: no refresh that answers late brings back a session that was logged out.
LogoutStands == out => pair = 0

\* client.ts, tokenRefresh.ts: tabs that refresh together do not log each other out: the
\* session ends by a logout, an expiry, another password, something lost, or a server that is
\* slower than a tab waits, and until then the server knows the stored pair.
SessionLasts ==
    /\ ~lostAt
    /\ ~excused /\ pair # 0 /\ (\A t \in Tabs : tab[t].at = "idle") => pair \in DOMAIN rows

SessionIsTrue == OnePairEach /\ LogoutStands /\ SessionLasts
=============================================================================

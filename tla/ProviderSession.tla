-------------------------- MODULE ProviderSession ---------------------------
(***************************************************************************)
(* The session of one upstream site: service/provider_token.go with        *)
(* password_login_gate.go, the token and cooldown columns of               *)
(* repository/provider_repo.go, and the upstream that issues the tokens.   *)
(*                                                                         *)
(* A collector is one run that needs a session (SyncOne, SyncOneByID, a    *)
(* price or key operation).  It works on its own copy of the provider row. *)
(* A token manager keeps, in memory, one lock per site and the login gate; *)
(* BalanceService and CostSyncService each make one.                       *)
(*                                                                         *)
(* A token pair is named by its upstream session and its generation in     *)
(* that session.  A refresh rotates it: the next generation is issued, and *)
(* presenting an earlier one ends the session.  Auth mode is "password";   *)
(* the static modes have nothing to refresh.                               *)
(***************************************************************************)
EXTENDS Integers, FiniteSets

CONSTANTS
    Collectors,
    Managers,
    ManagerOf,     \* the token manager a collector goes through
    Platforms,     \* "sub2api", "new-api": what the site may be
    ShortLived,    \* may a token expire while a run that saw an older one goes on?
    MaxSessions,   \* bound: upstream sessions, one per password login
    MaxGen,        \* bound: generations of a session
    MaxFails,      \* bound: failures
    None

ASSUME SessionAssumption ==
    /\ ManagerOf \in [Collectors -> Managers]
    /\ Platforms \subseteq {"sub2api", "new-api"}
    /\ ShortLived \in BOOLEAN
    /\ {MaxSessions, MaxGen} \subseteq Nat \ {0}
    /\ MaxFails \in Nat
    /\ None \notin Collectors \cup Managers

VARIABLES
    platform,    \* providers.platform
    stored,      \* providers.access_token, refresh_token
    cool,        \* providers.login_cooldown_until: none, in the future, past
    gen,         \* upstream: the current generation of a session, 0 if it has ended
    issued,      \* upstream: sessions so far
    expired,     \* the pairs whose access token is past its expiry
    lock,        \* refreshing[id] of each manager
    gated        \* managers whose gate saw a login of this site in the last 30 minutes

VARIABLES
    pc,
    copy,        \* the tokens in the collector's copy of the row
    coolCopy,    \* the cooldown in that copy
    manual,      \* is this run a manual refresh?
    again,       \* has the run met a 401 already?
    got,         \* the pair the upstream just issued to it
    lost,        \* history: sessions with a rotation that was not recorded or not seen
    fails        \* failures so far

siteVars == <<stored, cool, gen, issued, expired, lock, gated>>
runVars  == <<pc, copy, coolCopy, manual, again, got>>
moving   == <<siteVars, runVars, lost, fails>>   \* all but the platform
vars     == <<platform, moving>>

NoPair == [s |-> 0, g |-> 0]
Pair   == [s : 1..MaxSessions, g : 1..MaxGen] \cup {NoPair}

Live(x)    == x # NoPair /\ gen[x.s] = x.g
Valid(x)   == x # NoPair /\ x \notin expired
Accepts(x) == Valid(x) /\ gen[x.s] # 0

Init ==
    /\ platform \in Platforms
    /\ stored = NoPair
    /\ cool = "none"
    /\ gen = [s \in 1..MaxSessions |-> 0]
    /\ issued = 0
    /\ expired = {}
    /\ lock = [m \in Managers |-> None]
    /\ gated = {}
    /\ pc = [p \in Collectors |-> "idle"]
    /\ copy = [p \in Collectors |-> NoPair]
    /\ coolCopy = [p \in Collectors |-> "none"]
    /\ manual = [p \in Collectors |-> FALSE]
    /\ again = [p \in Collectors |-> FALSE]
    /\ got = [p \in Collectors |-> NoPair]
    /\ lost = {}
    /\ fails = 0

Goto(p, l) == pc' = [pc EXCEPT ![p] = l]
Unlocked(p) == [m \in Managers |-> IF lock[m] = p THEN None ELSE lock[m]]

\* The run returns, and its copy of the row is gone.
Return(p) ==
    /\ Goto(p, "idle")
    /\ copy' = [copy EXCEPT ![p] = NoPair]
    /\ coolCopy' = [coolCopy EXCEPT ![p] = "none"]
    /\ manual' = [manual EXCEPT ![p] = FALSE]
    /\ again' = [again EXCEPT ![p] = FALSE]

Fail == fails < MaxFails /\ fails' = fails + 1

(***************************************************************************)
(* A run starts, and takes or makes a session                              *)
(***************************************************************************)

\* GetByID.  A manual refresh clears the cooldown; an automatic run in its
\* cooldown that could only log in is skipped (SyncOneByID has no such check, and
\* is refused at the login).
Load(p) ==
    /\ pc[p] = "idle"
    /\ \E byHand \in BOOLEAN :
           /\ ~byHand => ~(cool = "on" /\ stored = NoPair)
           /\ manual' = [manual EXCEPT ![p] = byHand]
           /\ cool' = IF byHand THEN "none" ELSE cool
    /\ coolCopy' = [coolCopy EXCEPT ![p] = cool']
    /\ copy' = [copy EXCEPT ![p] = stored]
    /\ again' = [again EXCEPT ![p] = FALSE]
    /\ Goto(p, "ensure")
    /\ UNCHANGED <<stored, gen, issued, expired, lock, gated, got, lost, fails>>

\* A token that is still good is used, else the refresh token, else a login.
Ensure(p) ==
    /\ pc[p] = "ensure"
    /\ Goto(p, IF Valid(copy[p]) THEN "use"
               ELSE IF copy[p] # NoPair THEN "wait"
               ELSE "login")
    /\ UNCHANGED <<siteVars, copy, coolCopy, manual, again, got, lost, fails>>

\* A request with the session.  The first 401 rebuilds it, the second fails the
\* run; success also takes the cooldown sign down.
UseSession(p) ==
    /\ pc[p] = "use"
    /\ \/ /\ Accepts(copy[p])
          /\ cool' = IF coolCopy[p] # "none" THEN "none" ELSE cool
          /\ Return(p)
       \/ /\ ~Accepts(copy[p])
          /\ IF again[p]
             THEN Return(p)
             ELSE /\ Goto(p, "wait")
                  /\ again' = [again EXCEPT ![p] = TRUE]
                  /\ UNCHANGED <<copy, coolCopy, manual>>
          /\ UNCHANGED cool
    /\ UNCHANGED <<stored, gen, issued, expired, lock, gated, got, lost, fails>>

(***************************************************************************)
(* Refreshing                                                              *)
(***************************************************************************)
TakeLockNoRecheck(p) ==
    /\ pc[p] = "wait"
    /\ lock[ManagerOf[p]] = None
    /\ lock' = [lock EXCEPT ![ManagerOf[p]] = p]
    /\ Goto(p, "refresh")
    /\ UNCHANGED <<stored, cool, gen, issued, expired, gated,
                   copy, coolCopy, manual, again, got, lost, fails>>

TakeLockAnyValid(p) ==
    /\ pc[p] = "wait"
    /\ lock[ManagerOf[p]] = None
    /\ \/ /\ Valid(stored)
          /\ copy' = [copy EXCEPT ![p] = stored]
          /\ Goto(p, "use")
          /\ UNCHANGED lock
       \/ /\ ~Valid(stored)
          /\ lock' = [lock EXCEPT ![ManagerOf[p]] = p]
          /\ Goto(p, "refresh")
          /\ UNCHANGED copy
    /\ UNCHANGED <<stored, cool, gen, issued, expired, gated,
                   coolCopy, manual, again, got, lost, fails>>

\* The lock, then the second look at the row: a pair that is still good and is
\* not the one in hand has been fetched by somebody else meanwhile.
TakeLock(p) ==
    /\ pc[p] = "wait"
    /\ lock[ManagerOf[p]] = None
    /\ \/ /\ Valid(stored) /\ stored # copy[p]
          /\ copy' = [copy EXCEPT ![p] = stored]
          /\ Goto(p, "use")
          /\ UNCHANGED lock
       \/ /\ ~(Valid(stored) /\ stored # copy[p])
          /\ lock' = [lock EXCEPT ![ManagerOf[p]] = p]
          /\ Goto(p, "refresh")
          /\ UNCHANGED copy
    /\ UNCHANGED <<stored, cool, gen, issued, expired, gated,
                   coolCopy, manual, again, got, lost, fails>>

\* The second look fails, and the refresh goes ahead with the pair in hand.
RecheckFails(p) ==
    /\ pc[p] = "wait"
    /\ lock[ManagerOf[p]] = None
    /\ Fail
    /\ lock' = [lock EXCEPT ![ManagerOf[p]] = p]
    /\ lost' = lost \cup {copy[p].s}
    /\ Goto(p, "refresh")
    /\ UNCHANGED <<stored, cool, gen, issued, expired, gated,
                   copy, coolCopy, manual, again, got>>

\* The upstream rotates the pair.
Rotate(x) ==
    /\ Live(x)
    /\ x.g < MaxGen
    /\ gen' = [gen EXCEPT ![x.s] = x.g + 1]

\* The refresh request: a rotation, or the refresh token is not the current
\* one.  Presenting an old one ends the session.  sub2api leaves the lock before
\* it falls back to the password, new-api keeps it.
RefreshCall(p) ==
    /\ pc[p] = "refresh"
    /\ LET x == copy[p] IN
       \/ /\ Rotate(x)
          /\ got' = [got EXCEPT ![p] = [s |-> x.s, g |-> x.g + 1]]
          /\ Goto(p, "store")
          /\ UNCHANGED lock
       \/ /\ ~Live(x)
          /\ gen' = [gen EXCEPT ![x.s] = 0]
          /\ lock' = IF platform = "sub2api" THEN Unlocked(p) ELSE lock
          /\ Goto(p, "wipe")
          /\ UNCHANGED got
    /\ UNCHANGED <<stored, cool, issued, expired, gated,
                   copy, coolCopy, manual, again, lost, fails>>

\* Rate limited, a web page, a 5xx or no connection: the tokens are kept.
RefreshFails(p) ==
    /\ pc[p] = "refresh"
    /\ Fail
    /\ lock' = Unlocked(p)
    /\ Return(p)
    /\ UNCHANGED <<stored, cool, gen, issued, expired, gated,
                   got, lost>>

\* The upstream rotates and the answer is lost.  The sub2api client sends the
\* same request again.
RefreshAnswerLost(p) ==
    /\ pc[p] = "refresh"
    /\ Fail
    /\ Rotate(copy[p])
    /\ lost' = lost \cup {copy[p].s}
    /\ IF platform = "sub2api"
       THEN UNCHANGED <<pc, lock, copy, coolCopy, manual, again>>
       ELSE Return(p) /\ lock' = Unlocked(p)
    /\ UNCHANGED <<stored, cool, issued, expired, gated, got>>

(***************************************************************************)
(* UpdateTokenPair, after a refresh and after a login                      *)
(***************************************************************************)
StoreOldRefresh(p) ==
    /\ pc[p] \in {"store", "storeLogin"}
    /\ stored' = IF copy[p] = NoPair THEN got[p] ELSE copy[p]
    /\ copy' = [copy EXCEPT ![p] = got[p]]
    /\ got' = [got EXCEPT ![p] = NoPair]
    /\ lock' = Unlocked(p)
    /\ Goto(p, "use")
    /\ UNCHANGED <<cool, gen, issued, expired, gated,
                   coolCopy, manual, again, lost, fails>>

\* The pair is written and the lock released.  A sub2api refresh and every login
\* clear the cooldown the copy shows.
StorePair(p) ==
    /\ pc[p] \in {"store", "storeLogin"}
    /\ stored' = got[p]
    /\ copy' = [copy EXCEPT ![p] = got[p]]
    /\ got' = [got EXCEPT ![p] = NoPair]
    /\ IF coolCopy[p] # "none" /\ (pc[p] = "storeLogin" \/ platform = "sub2api")
       THEN cool' = "none" /\ coolCopy' = [coolCopy EXCEPT ![p] = "none"]
       ELSE UNCHANGED <<cool, coolCopy>>
    /\ lock' = Unlocked(p)
    /\ Goto(p, "use")
    /\ UNCHANGED <<gen, issued, expired, gated, manual, again, lost, fails>>

\* The write fails and its error is dropped (the request was cancelled after the
\* upstream answered): the run goes on with a pair nobody else will see.
StorePairFails(p) ==
    /\ pc[p] \in {"store", "storeLogin"}
    /\ Fail
    /\ lost' = lost \cup {got[p].s}
    /\ copy' = [copy EXCEPT ![p] = got[p]]
    /\ got' = [got EXCEPT ![p] = NoPair]
    /\ lock' = Unlocked(p)
    /\ Goto(p, "use")
    /\ UNCHANGED <<stored, cool, gen, issued, expired, gated,
                   coolCopy, manual, again>>

(***************************************************************************)
(* Password login                                                          *)
(***************************************************************************)
WipeHalf(p) ==
    /\ pc[p] = "wipe"
    /\ stored' = [stored EXCEPT !.g = 0]
    /\ copy' = [copy EXCEPT ![p] = NoPair]
    /\ Goto(p, "login")
    /\ UNCHANGED <<cool, gen, issued, expired, lock, gated,
                   coolCopy, manual, again, got, lost, fails>>

\* The refresh token is dead: the tokens in the row are erased, whichever they are.
Wipe(p) ==
    /\ pc[p] = "wipe"
    /\ stored' = NoPair
    /\ copy' = [copy EXCEPT ![p] = NoPair]
    /\ Goto(p, "login")
    /\ UNCHANGED <<cool, gen, issued, expired, lock, gated,
                   coolCopy, manual, again, got, lost, fails>>

\* checkCooldown on the copy, then the gate; a manual run passes the gate.
LoginAllowed(p) ==
    /\ coolCopy[p] # "on"
    /\ manual[p] \/ ManagerOf[p] \notin gated

Login(p) ==
    /\ pc[p] = "login"
    /\ LoginAllowed(p)
    /\ IF manual[p]
       THEN UNCHANGED gated
       ELSE gated' = gated \cup {ManagerOf[p]}
    /\ Goto(p, "loggingIn")
    /\ UNCHANGED <<stored, cool, gen, issued, expired, lock,
                   copy, coolCopy, manual, again, got, lost, fails>>

LoginRefused(p) ==
    /\ pc[p] = "login"
    /\ ~LoginAllowed(p)
    /\ lock' = Unlocked(p)
    /\ Return(p)
    /\ UNCHANGED <<stored, cool, gen, issued, expired, gated,
                   got, lost, fails>>

LoginCall(p) ==
    /\ pc[p] = "loggingIn"
    /\ issued < MaxSessions
    /\ issued' = issued + 1
    /\ gen' = [gen EXCEPT ![issued'] = 1]
    /\ got' = [got EXCEPT ![p] = [s |-> issued', g |-> 1]]
    /\ Goto(p, "storeLogin")
    /\ UNCHANGED <<stored, cool, expired, lock, gated,
                   copy, coolCopy, manual, again, lost, fails>>

\* Rejected credentials start the cooldown; rate limits, captchas and 5xx do not.
\* At the bound on sessions every login fails.
LoginFails(p) ==
    /\ pc[p] = "loggingIn"
    /\ Fail \/ (issued = MaxSessions /\ UNCHANGED fails)
    /\ cool' \in {cool, "on"}
    /\ lock' = Unlocked(p)
    /\ Return(p)
    /\ UNCHANGED <<stored, gen, issued, expired, gated,
                   got, lost>>

(***************************************************************************)
(* Time, the upstream and the process                                      *)
(***************************************************************************)
Busy(p) == pc[p] # "idle"

\* An access token passes its expiry (less the leeway of a minute).
Expire ==
    \E x \in {stored} \cup {copy[p] : p \in Collectors} :
        /\ Valid(x)
        /\ x.g < MaxGen
        /\ ShortLived \/ \A p \in Collectors : Busy(p) => copy[p] \in {x, NoPair}
        /\ expired' = expired \cup {x}
        /\ UNCHANGED <<stored, cool, gen, issued, lock, gated, runVars, lost, fails>>

CooldownEnds ==
    /\ \/ cool = "on"
       \/ \E p \in Collectors : coolCopy[p] = "on"
    /\ cool' = IF cool = "on" THEN "over" ELSE cool
    /\ coolCopy' = [p \in Collectors |-> IF coolCopy[p] = "on" THEN "over" ELSE coolCopy[p]]
    /\ UNCHANGED <<stored, gen, issued, expired, lock, gated,
                   pc, copy, manual, again, got, lost, fails>>

GateOpens ==
    \E m \in gated :
        /\ gated' = gated \ {m}
        /\ UNCHANGED <<stored, cool, gen, issued, expired, lock, runVars, lost, fails>>

\* The upstream ends a session of its own accord.
UpstreamRevokes ==
    \E s \in 1..issued :
        /\ gen[s] # 0
        /\ Fail
        /\ gen' = [gen EXCEPT ![s] = 0]
        /\ UNCHANGED <<stored, cool, issued, expired, lock, gated, runVars, lost>>

\* The backend restarts: runs, locks and gates are gone, the row is not.
Crash ==
    /\ \E p \in Collectors : Busy(p)
    /\ Fail
    /\ lost' = lost \cup ({got[p].s : p \in Collectors} \ {0})
    /\ lock' = [m \in Managers |-> None]
    /\ gated' = {}
    /\ pc' = [p \in Collectors |-> "idle"]
    /\ copy' = [p \in Collectors |-> NoPair]
    /\ coolCopy' = [p \in Collectors |-> "none"]
    /\ manual' = [p \in Collectors |-> FALSE]
    /\ again' = [p \in Collectors |-> FALSE]
    /\ got' = [p \in Collectors |-> NoPair]
    /\ UNCHANGED <<stored, cool, gen, issued, expired>>

Steps(p) ==
    \/ Load(p) \/ Ensure(p) \/ UseSession(p)
    \/ TakeLock(p) \/ RefreshCall(p) \/ StorePair(p)
    \/ Wipe(p) \/ Login(p) \/ LoginRefused(p) \/ LoginCall(p)

Failures(p) ==
    \/ RecheckFails(p) \/ RefreshFails(p) \/ RefreshAnswerLost(p)
    \/ StorePairFails(p) \/ LoginFails(p)

Time == Expire \/ CooldownEnds \/ GateOpens

Next ==
    /\ \/ \E p \in Collectors : Steps(p) \/ Failures(p)
       \/ Time \/ UpstreamRevokes \/ Crash
    /\ UNCHANGED platform

Spec == Init /\ [][Next]_vars

\* The scheduler starts every run again and Go runs it (WF); a mutex is not
\* kept from one waiter for ever (SF); cooldown and gate are deadlines (WF).
FairSpec ==
    /\ Spec
    /\ \A p \in Collectors : WF_moving(Steps(p)) /\ SF_moving(TakeLock(p))
    /\ WF_moving(CooldownEnds) /\ WF_moving(GateOpens)

(***************************************************************************)
(* Properties                                                              *)
(***************************************************************************)
TypeOK ==
    /\ platform \in Platforms
    /\ stored \in Pair
    /\ cool \in {"none", "on", "over"}
    /\ gen \in [1..MaxSessions -> 0..MaxGen]
    /\ issued \in 0..MaxSessions
    /\ expired \subseteq Pair
    /\ lock \in [Managers -> Collectors \cup {None}]
    /\ gated \subseteq Managers
    /\ pc \in [Collectors -> {"idle", "ensure", "use", "wait", "refresh", "store",
                             "wipe", "login", "loggingIn", "storeLogin"}]
    /\ copy \in [Collectors -> Pair]
    /\ coolCopy \in [Collectors -> {"none", "on", "over"}]
    /\ manual \in [Collectors -> BOOLEAN]
    /\ again \in [Collectors -> BOOLEAN]
    /\ got \in [Collectors -> Pair]
    /\ lost \subseteq 0..MaxSessions
    /\ fails \in 0..MaxFails

\* A superseded refresh token of a live session is presented to the upstream only
\* if a rotation of that session was not recorded or not seen, or, after a failure,
\* the row no longer holds that session: overlapping runs alone never end it (the
\* lock and the second look).
ReplayOnlyAfterLoss ==
    [][\A p \in Collectors : RefreshCall(p) =>
           \/ gen[copy[p].s] \in {0, copy[p].g}
           \/ copy[p].s \in lost
           \/ fails > 0 /\ stored.s # copy[p].s]_vars

\* The row holds the latest generation of a session that lives, unless a run is
\* about to write it or the write was lost: no rotation is forgotten.
StoredIsCurrent ==
    stored # NoPair /\ gen[stored.s] # 0 =>
        \/ Live(stored)
        \/ stored.s \in lost
        \/ \E p \in Collectors : got[p].s = stored.s

\* Whatever was lost or revoked, the row comes to hold working tokens again.
SessionRecovers == []<>Live(stored)
=============================================================================

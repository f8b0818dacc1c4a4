------------------------------ MODULE CostSync ------------------------------
(***************************************************************************)
(* What the keys of one provider really cost, by day, and the own account  *)
(* that uses each key (service/cost_sync_service.go on top of              *)
(* repository/upstream_cost_repo.go).  A run comes with a synchronisation  *)
(* of the provider or by hand, and two may overlap: it lists the keys with *)
(* today's usage, matches them to accounts, writes mappings and costs, and *)
(* once in a provider's life fetches the days before.                      *)
(*                                                                         *)
(* An account carries a key of this provider or one of its own.  A key is  *)
(* known by the fingerprint of its plain text, and else by its name, which *)
(* accounts may share.                                                     *)
(***************************************************************************)
EXTENDS Naturals, FiniteSets

CONSTANTS
    Runs, Keys, Accounts,
    Named,       \* the key whose name each account bears
    Platforms,   \* kinds of provider looked at
    Before,      \* the keys that have cost something, the day before and on day 1
    Holdings,    \* the keys the accounts have at first
    LastDay,     \* bound: the last day; the provider is added on day 1
    Retention,   \* cost rows are kept for this many days
    MaxEvents    \* bound: usage, days, rekeyed accounts, failures, runs

NoKey == "no key of this provider"
Days  == 0..LastDay

CostAssumption ==
    /\ LastDay \in Nat \ {0} /\ Retention \in Nat /\ MaxEvents \in Nat
    /\ Named \in [Accounts -> Keys] /\ NoKey \notin Keys
    /\ Platforms \subseteq {"sub2api", "new-api"} /\ Before \subseteq Keys
    /\ Holdings \subseteq [Accounts -> Keys \cup {NoKey}]

VARIABLES
    platform,
    day, used,   \* at the provider: what each key has cost on each day
    holds,       \* accounts.credentials.api_key
    cost,        \* upstream_key_costs: sets of at most one amount
    map,         \* upstream_key_map: whether a fingerprint is stored, and the account
    state,       \* cost_sync_state
    run,         \* the runs
    stale,       \* history: rows whose amount was read before the end of their day and
                 \* written after it, or read on the day before
    passed,      \* history: rows written by others since a run read its amounts
    blind,       \* history: keys matched while the stored fingerprint could not be had
    rekeyed,     \* history: keys matched with accounts that have changed since
    promised,    \* history: the days before this one were fetched
    events

vars    == <<platform, day, used, holds, cost, map, state, run, stale, passed, blind, rekeyed,
             promised, events>>
outside == <<platform, day, used, holds>>
history == <<stale, passed, blind, rekeyed, promised>>

NoRun == [pc |-> "idle"]
NewRun ==
    [pc |-> "fetch", back |-> FALSE, accounts |-> [a \in Accounts |-> NoKey], moved |-> FALSE,
     plain |-> {}, amounts |-> [k \in {} |-> 0], read |-> 0, failed |-> FALSE,
     match |-> [k \in Keys |-> {}], known |-> {}, sure |-> {}, date |-> 0, left |-> {}, page |-> {},
     began |-> 0, errors |-> FALSE]

Init ==
    /\ platform \in Platforms
    /\ day = 1 /\ used = [k \in Keys |-> [d \in Days |-> IF d <= 1 /\ k \in Before THEN 1 ELSE 0]]
    /\ holds \in Holdings
    /\ cost = [k \in Keys |-> [d \in Days |-> {}]]
    /\ map = [k \in Keys |-> [fingerprint |-> FALSE, account |-> {}]]
    /\ state = [synced |-> FALSE, backfilled |-> FALSE]
    /\ run = [r \in Runs |-> NoRun]
    /\ stale = {} /\ passed = [r \in Runs |-> {}] /\ blind = {} /\ rekeyed = {}
    /\ promised = 0
    /\ events = 0

Event == events < MaxEvents /\ events' = events + 1
Set(r, v) == run' = [run EXCEPT ![r] = v]
-----------------------------------------------------------------------------
(***************************************************************************)
(* Matching a key with an account                                          *)
(***************************************************************************)
Unique(S) == IF Cardinality(S) = 1 THEN S ELSE {}

\* Fingerprints that several accounts share tell nothing about any of them.
uniqueAccountFingerprints(accounts) ==
    {a \in Accounts : accounts[a] = NoKey \/ \A b \in Accounts \ {a} : accounts[b] # accounts[a]}

matchByName(k, known, accounts) ==
    Unique({a \in uniqueAccountFingerprints(accounts) : Named[a] = k})

\* A shared fingerprint is no reason to go by the name.
matchCostAccount(k, known, accounts) ==
    IF known /\ \E a \in Accounts : accounts[a] = k
    THEN {a \in uniqueAccountFingerprints(accounts) : accounts[a] = k}
    ELSE matchByName(k, known, accounts)

(***************************************************************************)
(* A run                                                                   *)
(***************************************************************************)
NeedsBackfill == ~state.backfilled

\* The accounts are read first, then whether the days before are missing; when that
\* cannot be read they are not fetched.  By hand it is as asked for.
SyncCost(r) ==
    /\ run[r].pc = "idle" /\ Event
    /\ \E b \in {TRUE, FALSE, NeedsBackfill} :
          Set(r, [NewRun EXCEPT !.accounts = holds, !.back = b,
                              !.began = IF b THEN day ELSE 0])
    /\ UNCHANGED <<outside, cost, map, state, history>>

StoredKeys == {k \in Keys : map[k].fingerprint}
Fetched(k) == used[k][day]

\* From sub2api it is all or nothing.  new-api masks the keys: one whose fingerprint is
\* not stored is asked for, which the limit on requests may forbid, and the usage is
\* fetched key by key, where one failure leaves the others.
fetchKeysAndUsage(r) ==
    /\ run[r].pc = "fetch"
    /\ \E S \in SUBSET Keys, P \in SUBSET (Keys \ StoredKeys) :
          /\ platform = "sub2api" => S = Keys /\ P = Keys \ StoredKeys
          /\ IF S = Keys THEN UNCHANGED events ELSE Event
          /\ Set(r, [run[r] EXCEPT
                !.pc = "match", !.read = day, !.failed = S # Keys,
                !.amounts = [k \in S |-> Fetched(k)],
                !.plain = IF platform = "sub2api" THEN Keys ELSE P])
    /\ passed' = [passed EXCEPT ![r] = {}]
    /\ UNCHANGED <<outside, cost, map, state, stale, blind, rekeyed, promised>>

\* No listing: only the error is recorded.
FetchFails(r) ==
    /\ run[r].pc = "fetch" /\ Event
    /\ Set(r, NoRun)
    /\ state' = [state EXCEPT !.synced = FALSE]
    /\ UNCHANGED <<outside, cost, map, history>>

\* The keys whose fingerprint a run has: of those without plain text the stored one, if
\* that could be read.
PlainOnly(r, stored) == run[r].plain
Fingerprinted(r, stored) == run[r].plain \cup stored

\* The date is taken here, after the answers of the provider.
MatchKeys(r) ==
    /\ run[r].pc = "match"
    /\ \E stored \in {StoredKeys, {}} :
          /\ IF stored = StoredKeys THEN UNCHANGED events ELSE Event
          /\ LET known == Fingerprinted(r, stored) IN
             Set(r, [run[r] EXCEPT
                !.pc = "map", !.known = known, !.sure = run[r].plain \cup stored, !.date = day,
                !.match = [k \in Keys |-> matchCostAccount(k, k \in known, run[r].accounts)]])
    /\ UNCHANGED <<outside, cost, map, state, history>>

\* An empty fingerprint leaves the stored one; the account is overwritten.
UpsertMappings(r) ==
    /\ run[r].pc = "map"
    /\ map' = [k \in Keys |-> [fingerprint |-> map[k].fingerprint \/ k \in run[r].known,
                               account |-> run[r].match[k]]]
    /\ blind' = StoredKeys \ run[r].sure
    /\ rekeyed' = IF run[r].moved THEN Keys ELSE {}
    /\ Set(r, [run[r] EXCEPT !.pc = "costs", !.plain = {}, !.known = {}, !.sure = {}, !.match = NewRun.match,
                  !.accounts = NewRun.accounts, !.moved = FALSE])
    /\ UNCHANGED <<outside, cost, state, stale, passed, promised, events>>

\* A row holds what was read on its day if it was written on that day, and all of the
\* day if it was read later.
Whole(d, readOn) == readOn > d \/ (readOn = d /\ day = d)

\* Rows <<key, day, amount>> read on one day.
UpsertCosts(r, rows, readOn) ==
    /\ cost' = [k \in Keys |-> [d \in Days |->
          LET new == {w[3] : w \in {v \in rows : v[1] = k /\ v[2] = d}} IN
          IF new = {} THEN cost[k][d] ELSE new]]
    /\ LET at == {<<w[1], w[2]>> : w \in rows} IN
       /\ stale' = (stale \ at) \cup {p \in at : ~Whole(p[2], readOn)}
       /\ passed' = [q \in Runs |-> IF q = r THEN passed[q] ELSE passed[q] \cup at]

\* Keys without an answer get no row.
Today(r) == {<<k, run[r].date, run[r].amounts[k]>> : k \in DOMAIN run[r].amounts}
ZeroForMissing(r) ==
    {<<k, run[r].date, IF k \in DOMAIN run[r].amounts THEN run[r].amounts[k] ELSE 0>> : k \in Keys}
CostsOfToday(r) == Today(r)

WriteCosts(r) ==
    /\ run[r].pc = "costs"
    /\ UpsertCosts(r, CostsOfToday(r), run[r].read)
    /\ Set(r, IF run[r].back /\ ~run[r].failed
              THEN [NewRun EXCEPT !.pc = "page", !.began = run[r].began,
                       !.left = IF platform = "sub2api" THEN Keys ELSE 0..day]
              ELSE [NewRun EXCEPT !.pc = "state", !.failed = run[r].failed])
    /\ UNCHANGED <<outside, map, state, blind, rekeyed, promised, events>>

\* Neither writes anything nor saves a state.
WriteFails(r) ==
    /\ run[r].pc \in {"map", "costs"} /\ Event
    /\ Set(r, NoRun)
    /\ UNCHANGED <<outside, cost, map, state, history>>

(***************************************************************************)
(* The days before: from sub2api key by key, days without usage left out;  *)
(* from new-api day by day, oldest first, every key with an amount.        *)
(***************************************************************************)
Page(i) ==
    IF platform = "sub2api" THEN {<<i, d, used[i][d]>> : d \in {e \in 0..day : used[i][e] > 0}}
    ELSE {<<k, i, used[k][i]>> : k \in Keys}
Due(r) ==
    {i \in run[r].left : IF platform = "sub2api" THEN TRUE ELSE \A d \in run[r].left : i <= d}

FetchPage(r) ==
    /\ run[r].pc = "page"
    /\ \E i \in Due(r) :
          /\ Set(r, [run[r] EXCEPT !.pc = "write", !.left = @ \ {i}, !.page = Page(i),
                        !.read = day])
    /\ passed' = [passed EXCEPT ![r] = {}]
    /\ UNCHANGED <<outside, cost, map, state, stale, blind, rekeyed, promised, events>>

PageSkipped(r) ==
    /\ run[r].pc = "page" /\ Event
    /\ \E i \in Due(r) :
          Set(r, [run[r] EXCEPT !.left = @ \ {i}])
    /\ UNCHANGED <<outside, cost, map, state, history>>

\* The next key is tried all the same, the next day is not.
PageFails(r) ==
    /\ run[r].pc = "page" /\ Event
    /\ \E i \in Due(r) :
          Set(r, [run[r] EXCEPT !.errors = TRUE,
                        !.left = IF platform = "sub2api" THEN @ \ {i} ELSE {}])
    /\ UNCHANGED <<outside, cost, map, state, history>>

WritePage(r) ==
    /\ run[r].pc = "write"
    /\ \/ /\ UpsertCosts(r, run[r].page, run[r].read)
          /\ Set(r, [run[r] EXCEPT !.pc = "page", !.page = {}])
          /\ UNCHANGED events
       \/ /\ Event
          /\ Set(r, [run[r] EXCEPT !.pc = "page", !.page = {}, !.left = {}, !.errors = TRUE])
          /\ UNCHANGED <<cost, stale, passed>>
    /\ UNCHANGED <<outside, map, state, blind, rekeyed, promised>>

PagesDone(r) == run[r].pc = "page" /\ run[r].left = {}
BackfillDone(r) == PagesDone(r) /\ ~run[r].errors

\* Once the days before are fetched, that stays recorded.
SaveSyncState(r) ==
    /\ run[r].pc = "state" \/ PagesDone(r)
    /\ state' = [synced |-> ~run[r].failed, backfilled |-> BackfillDone(r) \/ state.backfilled]
    /\ promised' = IF BackfillDone(r) /\ run[r].began > promised THEN run[r].began ELSE promised
    /\ Set(r, NoRun)
    /\ UNCHANGED <<outside, cost, map, stale, passed, blind, rekeyed, events>>

SaveFails(r) ==
    /\ run[r].pc = "state" \/ PagesDone(r)
    /\ Event
    /\ Set(r, NoRun)
    /\ UNCHANGED <<outside, cost, map, state, history>>

(***************************************************************************)
(* The daily cleanup, the provider, people, and the end of the process     *)
(***************************************************************************)
Kept(d) == d + Retention >= day

Cleanup ==
    /\ \E k \in Keys, d \in Days : ~Kept(d) /\ cost[k][d] # {}
    /\ cost' = [k \in Keys |-> [d \in Days |-> IF Kept(d) THEN cost[k][d] ELSE {}]]
    /\ UNCHANGED <<outside, map, state, run, history, events>>

Use(k) ==
    /\ Event
    /\ used' = [used EXCEPT ![k][day] = @ + 1]
    /\ UNCHANGED <<platform, day, holds, cost, map, state, run, history>>

NextDay ==
    /\ day < LastDay /\ Event
    /\ day' = day + 1
    /\ UNCHANGED <<platform, used, holds, cost, map, state, run, history>>

Rekey(a) ==
    /\ Event
    /\ \E k \in Keys \cup {NoKey} : k # holds[a] /\ holds' = [holds EXCEPT ![a] = k]
    /\ rekeyed' = Keys
    /\ run' = [r \in Runs |-> IF run[r].pc \notin {"fetch", "match", "map"} THEN run[r] ELSE [run[r] EXCEPT !.moved = TRUE]]
    /\ UNCHANGED <<platform, day, used, cost, map, state, stale, passed, blind, promised>>

Crash ==
    /\ \E r \in Runs : run[r].pc # "idle"
    /\ Event
    /\ run' = [r \in Runs |-> NoRun]
    /\ UNCHANGED <<outside, cost, map, state, history>>

Step(r) ==
    \/ SyncCost(r) \/ fetchKeysAndUsage(r) \/ FetchFails(r) \/ MatchKeys(r) \/ UpsertMappings(r)
    \/ WriteCosts(r) \/ WriteFails(r) \/ FetchPage(r) \/ PageFails(r) \/ WritePage(r)
    \/ SaveSyncState(r) \/ SaveFails(r)

Next ==
    \/ \E r \in Runs : Step(r)
    \/ Cleanup \/ NextDay \/ Crash
    \/ \E k \in Keys : Use(k)
    \/ \E a \in Accounts : Rekey(a)

Spec == Init /\ [][Next]_vars
-----------------------------------------------------------------------------
TypeOK ==
    /\ day \in Days /\ holds \in [Accounts -> Keys \cup {NoKey}]
    /\ \A k \in Keys : /\ map[k].account \subseteq Accounts /\ map[k].fingerprint \in BOOLEAN
                       /\ \A d \in Days : Cardinality(cost[k][d]) <= 1 /\ used[k][d] \in Nat
    /\ state \in [synced : BOOLEAN, backfilled : BOOLEAN]
    /\ \A r \in Runs :
          /\ run[r].pc \in {"idle", "fetch", "match", "map", "costs", "page", "write", "state"}
          /\ run[r] # NoRun => \A k \in Keys : Cardinality(run[r].match[k]) <= 1
    /\ promised \in Days /\ events \in 0..MaxEvents

\* No day is charged more than it cost.
NeverMore ==
    \A k \in Keys, d \in Days : <<k, d>> \notin stale => \A n \in cost[k][d] : n <= used[k][d]

\* Whose days before are recorded as fetched has them in full, for as long as rows are
\* kept.
PastIsWhole ==
    state.backfilled =>
        \A k \in Keys, d \in Days : d < promised /\ Kept(d) /\ <<k, d>> \notin stale =>
            cost[k][d] = {used[k][d]} \/ (cost[k][d] = {} /\ used[k][d] = 0)

\* A key whose fingerprint is stored belongs to the one account that holds it, and to
\* none when several do, whether or not its plain text is shown again.
MatchIsTrue ==
    \A k \in Keys : map[k].fingerprint /\ k \notin blind \cup rekeyed =>
        map[k].account = matchCostAccount(k, TRUE, holds)

\* Costs and their owners are what the provider and the accounts say.
CostsAgree == NeverMore /\ PastIsWhole /\ MatchIsTrue

\* A written amount never falls back, unless by a run that read it before another wrote.
Falls(k, d) ==
    \E n \in cost[k][d], m \in cost'[k][d] : m < n
NeverFalls ==
    \A k \in Keys, d \in Days : Falls(k, d) =>
        \/ <<k, d>> \in stale \cup stale'
        \/ \E r \in Runs : <<k, d>> \in passed[r] /\ run[r].pc \in {"costs", "write"}

\* Both.
CostIsTrue == []CostsAgree /\ [][NeverFalls]_cost
=============================================================================

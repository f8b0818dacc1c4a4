---------------------------- MODULE ProfitViews ----------------------------
(***************************************************************************)
(* What the operator earned: the requests of the customers, what the       *)
(* providers charged for them, what was paid for sites of one's own, and   *)
(* the four views that add these up, by provider, by group, by user and by *)
(* day.  A provider charges an account, so the other views split what an   *)
(* account cost among the rows that used it.                               *)
(*                                                                         *)
(* A view is computed from one state.  Ids are numbers; 0 is NULL.  The    *)
(* amounts are multiples of a unit that every share divides, in place of   *)
(* floating point numbers: no share is rounded.                            *)
(***************************************************************************)
EXTENDS Integers, FiniteSets, FiniteSetsExt, Functions

CONSTANTS
    Providers, Accounts,   \* sites, and accounts of the operator's own site
    Uses,                  \* requests: account, group, user, day, revenue, weight
    CostRows,              \* rows of the providers: provider, key, account, day, amount
    Spends,                \* entries of operating costs: provider, day, amount
    RateOf,                \* recharge_rate of a provider, as it is stored
    Unit,                  \* of the amounts: it has a whole share for whoever shares it
    MaxEvents              \* bounds what happens

Days == {u.day : u \in Uses} \cup {c.day : c \in CostRows} \cup {s.day : s \in Spends}
NoSpend == [provider |-> 0, day |-> 0, amount |-> 0]

VARIABLES
    exists,     \* rows of providers
    selfRun,    \* self_operated
    links,      \* provider_accounts: the provider of an account, 0 for none
    gone,       \* accounts deleted on the operator's site
    usage,      \* usage_logs
    costs,      \* upstream_key_costs
    spend,      \* provider_operating_costs
    saving,     \* the entry a request has checked and not yet inserted
    switched,   \* history: providers that ceased to be one's own
    events

bookVars == <<exists, selfRun, links, gone, usage, costs, spend, saving, switched, events>>
-----------------------------------------------------------------------------
(***************************************************************************)
(* What happens                                                            *)
(***************************************************************************)
Init ==
    /\ exists = Providers
    /\ selfRun = [p \in Providers |-> p = Min(Providers)]
    /\ links = [a \in Accounts |-> IF a \in Providers THEN a ELSE 0]
    /\ gone = {} /\ usage = {} /\ costs = {} /\ spend = {}
    /\ saving = NoSpend /\ switched = {} /\ events = 0

Event == events < MaxEvents /\ events' = events + 1

\* A customer is served; the request is logged with the account that served it.
Serve(u) ==
    /\ Event /\ u \notin usage /\ u.account \notin gone
    /\ usage' = usage \cup {u}
    /\ UNCHANGED <<exists, selfRun, links, gone, costs, spend, saving, switched>>

\* The synchronisation writes what a key cost on a day, in place of what it wrote before.
UpsertCost(c) ==
    /\ Event /\ c \notin costs /\ c.provider \in exists
    /\ costs' = {d \in costs : <<d.provider, d.key, d.day>> # <<c.provider, c.key, c.day>>}
                    \cup {c}
    /\ UNCHANGED <<exists, selfRun, links, gone, usage, spend, saving, switched>>

\* The accounts of a site after they were replaced: each is taken from whoever had it.
Replaced(p, ticked) ==
    [a \in Accounts |-> IF a \in ticked THEN p ELSE IF links[a] = p THEN 0 ELSE links[a]]

\* An administrator saves the accounts of a site.
SaveLinks(p, ticked) ==
    /\ Event /\ p \in exists
    /\ links' = Replaced(p, ticked)
    /\ UNCHANGED <<exists, selfRun, gone, usage, costs, spend, saving, switched>>

\* An import adds an account to those of a site.
LinkMany(p, a) ==
    /\ Event /\ p \in exists /\ links[a] # p
    /\ links' = [links EXCEPT ![a] = p]
    /\ UNCHANGED <<exists, selfRun, gone, usage, costs, spend, saving, switched>>

\* An edit makes a site one's own or ends that.
SetSelfOperated(p) ==
    /\ Event /\ p \in exists
    /\ selfRun' = [selfRun EXCEPT ![p] = ~@]
    /\ switched' = IF selfRun[p] THEN switched \cup {p} ELSE switched
    /\ UNCHANGED <<exists, links, gone, usage, costs, spend, saving>>

SelfOperatedIDs == {p \in exists : selfRun[p]}
validParams(s) == s.amount > 0

\* The mistake: any site may have operating costs.
RequireExists(s) ==
    /\ Event /\ saving = NoSpend /\ s \notin spend
    /\ s.provider \in exists /\ validParams(s)
    /\ saving' = s
    /\ UNCHANGED <<exists, selfRun, links, gone, usage, costs, spend, switched>>

\* An entry of operating costs: the site is read, and later the entry inserted.
RequireSelfOperated(s) ==
    /\ Event /\ saving = NoSpend /\ s \notin spend
    /\ s.provider \in SelfOperatedIDs /\ validParams(s)
    /\ saving' = s
    /\ UNCHANGED <<exists, selfRun, links, gone, usage, costs, spend, switched>>

InsertSpend ==
    /\ saving # NoSpend
    /\ spend' = IF saving.provider \in exists THEN spend \cup {saving} ELSE spend
    /\ saving' = NoSpend
    /\ UNCHANGED <<exists, selfRun, links, gone, usage, costs, switched, events>>

DeleteSpend(s) ==
    /\ Event /\ s \in spend
    /\ spend' = spend \ {s}
    /\ UNCHANGED <<exists, selfRun, links, gone, usage, costs, saving, switched>>

\* A provider is deleted, and with it everything that refers to it.
DeleteProvider(p) ==
    /\ Event /\ p \in exists
    /\ exists' = exists \ {p}
    /\ links' = Replaced(p, {})
    /\ costs' = {c \in costs : c.provider # p}
    /\ spend' = {s \in spend : s.provider # p}
    /\ UNCHANGED <<selfRun, gone, usage, saving, switched>>

\* An account is deleted on the operator's site; its requests and its link stay.
DeleteAccount(a) ==
    /\ Event /\ a \notin gone
    /\ gone' = gone \cup {a}
    /\ UNCHANGED <<exists, selfRun, links, usage, costs, spend, saving, switched>>

Next ==
    \/ \E u \in Uses : Serve(u)
    \/ \E c \in CostRows : UpsertCost(c)
    \/ \E p \in Providers, ticked \in SUBSET Accounts : SaveLinks(p, ticked)
    \/ \E p \in Providers, a \in Accounts : LinkMany(p, a)
    \/ \E p \in Providers : SetSelfOperated(p) \/ DeleteProvider(p)
    \/ \E s \in Spends : RequireSelfOperated(s) \/ DeleteSpend(s)
    \/ InsertSpend
    \/ \E a \in Accounts : DeleteAccount(a)

Spec == Init /\ [][Next]_bookVars
-----------------------------------------------------------------------------
(***************************************************************************)
(* Sums                                                                    *)
(***************************************************************************)
\* The days between two that are given in either order.
DayRange(a, b) == {d \in Days : (a <= d /\ d <= b) \/ (b <= d /\ d <= a)}

Shown(period) == {u \in usage : u.day \in period}
Daily(day) == Shown({day})
Revenue(uses) == SumFunction([u \in uses |-> u.revenue])
CostWeight(uses) == SumFunction([u \in uses |-> u.weight])

\* The rows of an aggregation: requests of one account that a key does not tell apart.
Rows(period, key) ==
    {{v \in Shown(period) : v.account = u.account /\ key[v] = key[u]} : u \in Shown(period)}
AccountOf(row) == (CHOOSE u \in row : TRUE).account
BucketOf(row, key) == key[CHOOSE u \in row : TRUE][1]

ByGroupAccount == [u \in Uses |-> <<u.group>>]
ByUserGroupAccount == [u \in Uses |-> <<u.user, u.group>>]

Rate(p) == IF RateOf[p] > 0 THEN RateOf[p] ELSE 1
ActualCost(rows) ==
    SumFunction([c \in rows |-> IF selfRun[c.provider] THEN 0 ELSE c.amount * Rate(c.provider)])
CostsOf(a, period) == {c \in costs : c.account = a /\ c.day \in period}
CostsOn(period) == {c \in costs : c.day \in period}
KeyCosts(p, period) ==
    LET mine == {c \in CostsOn(period) : c.provider = p}
        Of(k) == {c \in mine : <<c.key, c.account>> = k}
    IN [k \in {<<c.key, c.account>> : c \in mine} |->
            SumFunction([c \in Of(k) |-> c.amount * Rate(p)])]
KeyTotal(p, period) == SumFunction(KeyCosts(p, period))

\* The entries of a site, their sum in its dialog, and the sums of the views.
ListByProvider(p, period) == {s \in spend : s.provider = p /\ s.day \in period}
Amount(entries) == SumFunction([s \in entries |-> s.amount])
ListTotal(p, period) == Amount(ListByProvider(p, period))
SumByProvider(p, period) == Amount({s \in spend : s.provider = p /\ s.day \in period})
SumByDay(d) == Amount({s \in spend : s.day = d})

\* The mistake: no share for what has no weight.
ShareByWeight(amount, row, rows) ==
    IF CostWeight(UNION rows) > 0
    THEN (amount * CostWeight(row)) \div CostWeight(UNION rows)
    ELSE 0

\* The share of a row in an amount, by weight, or by requests when nothing has a weight.
Share(amount, row, rows) ==
    IF CostWeight(UNION rows) > 0
    THEN (amount * CostWeight(row)) \div CostWeight(UNION rows)
    ELSE (amount * Cardinality(row)) \div Cardinality(UNION rows)

\* What all rows together are shared by, and the numbers that leave no rest.
Divisor(uses) == IF CostWeight(uses) > 0 THEN CostWeight(uses) ELSE Cardinality(uses)
Multiple(amount, of) == \E n \in 0..amount : amount = n * of

BooksAssumption ==
    /\ Providers \subseteq Nat \ {0} /\ Accounts \subseteq Nat \ {0}
    /\ IsFiniteSet(Providers) /\ Providers # {} /\ IsFiniteSet(Accounts)
    /\ Uses \subseteq [account : Accounts, group : Nat, user : Nat, day : Nat,
                       revenue : Nat, weight : Nat, id : Nat]
    /\ CostRows \subseteq [provider : Providers, key : Nat, account : Accounts \cup {0},
                           day : Nat, amount : Nat]
    /\ Spends \subseteq [provider : Providers, day : Nat, amount : Nat]
    /\ IsFiniteSet(Uses) /\ IsFiniteSet(CostRows) /\ IsFiniteSet(Spends)
    /\ RateOf \in [Providers -> Int] /\ MaxEvents \in Nat /\ Unit \in Nat \ {0}
    /\ \A S \in (SUBSET Uses) \ {{}} : Multiple(Unit, Divisor(S))
    /\ \A c \in CostRows : Multiple(c.amount, Unit)
    /\ \A s \in Spends : Multiple(s.amount, Unit * Unit)

-----------------------------------------------------------------------------
(***************************************************************************)
(* The views                                                               *)
(***************************************************************************)
Bucket(uses, cost, op, missing) ==
    [requests |-> Cardinality(uses), revenue |-> Revenue(uses), cost |-> cost, op |-> op,
     profit |-> Revenue(uses) - cost - op, missing |-> missing]

costExempt(a) == links[a] \in SelfOperatedIDs
Missing(accounts, period) ==
    Cardinality({a \in accounts : ~costExempt(a) /\ CostsOf(a, period) = {}})
Busy(period) == {u.account : u \in Shown(period)}
BusyOf(p, period) == {a \in Busy(period) : links[a] = p}

SitesWithCosts(period) == {p \in exists : SumByProvider(p, period) # 0}

\* Bucket 0 holds the accounts of no site; a site with costs and no traffic has a bucket.
ByProvider(period) ==
    [p \in {links[a] : a \in Busy(period)}
               \cup SitesWithCosts(period) |->
        LET accounts == BusyOf(p, period)
        IN Bucket({u \in Shown(period) : u.account \in accounts},
                  SumFunction([a \in accounts |-> ActualCost(CostsOf(a, period))]),
                  SumByProvider(p, period), Missing(accounts, period))]

\* What the rows of an account hold together.
RowOf(a, period) == {u \in Shown(period) : u.account = a}

\* What a site cost is split among its accounts that had traffic.
OpCostOf(a, period) ==
    IF links[a] = 0 THEN 0
    ELSE Share(SumByProvider(links[a], period), RowOf(a, period),
               {RowOf(b, period) : b \in BusyOf(links[a], period)})

\* ... and what a site without traffic cost has a bucket of its own.
Idle == -1
Leftover(period) ==
    SumFunction([p \in {q \in exists : BusyOf(q, period) = {}} |-> SumByProvider(p, period)])

Split(period, key) ==
    LET rows == Rows(period, key)
        Siblings(r) == {s \in rows : AccountOf(s) = AccountOf(r)}
        Of(b) == {r \in rows : BucketOf(r, key) = b}
        Filled(b) ==
            Bucket(UNION Of(b),
                   SumFunction([r \in Of(b) |->
                       Share(ActualCost(CostsOf(AccountOf(r), period)), r, Siblings(r))]),
                   SumFunction([r \in Of(b) |->
                       Share(OpCostOf(AccountOf(r), period), r, Siblings(r))]),
                   Missing({AccountOf(r) : r \in Of(b)}, period))
    IN [b \in {BucketOf(r, key) : r \in rows} |-> Filled(b)]

WithIdle(view, period) ==
    IF Leftover(period) = 0 THEN view
    ELSE [b \in DOMAIN view \cup {Idle} |->
             IF b = Idle THEN Bucket({}, 0, Leftover(period), 0) ELSE view[b]]

ByGroup(period) == WithIdle(Split(period, ByGroupAccount), period)
ByUser(period) == WithIdle(Split(period, ByUserGroupAccount), period)

\* A request without a group cannot be read: the group is scanned into a number.
Unreadable(period) == \E u \in Shown(period) : u.group = 0

\* The days with traffic or operating costs, with whatever any key cost on them.
TrendRange(period) ==
    [d \in {u.day : u \in Shown(period)} \cup {e \in period : SumByDay(e) # 0} |->
        Bucket(Daily(d), ActualCost(CostsOn({d})), SumByDay(d),
               IF CostsOn({d}) = {} THEN 1 ELSE 0)]

\* The sums of a view, as the dashboard adds up the providers.
Total(view) ==
    LET Add(field) == SumFunction([b \in DOMAIN view |-> view[b][field]])
    IN [requests |-> Add("requests"), revenue |-> Add("revenue"), cost |-> Add("cost"),
        op |-> Add("op"), profit |-> Add("profit"), complete |-> Add("missing") = 0]

\* The revenue of the groups on the dashboard, which shows none when the query fails.
GroupTotal(period) == IF Unreadable(period) THEN 0 ELSE Total(ByGroup(period)).revenue

AccountsOf(p) == {a \in Accounts : links[a] = p} \ gone
-----------------------------------------------------------------------------
TypeOK ==
    /\ exists \subseteq Providers /\ selfRun \in [Providers -> BOOLEAN]
    /\ links \in [Accounts -> exists \cup {0}] /\ gone \subseteq Accounts
    /\ usage \subseteq Uses /\ costs \subseteq CostRows /\ spend \subseteq Spends
    /\ saving \in Spends \cup {NoSpend} /\ switched \subseteq Providers
    /\ events \in 0..MaxEvents

Periods == {DayRange(a, b) : a \in Days, b \in Days}

\* What was served, charged to accounts with traffic, and paid for a site is in the total
\* of the providers, whoever the accounts belong to by now.
NothingIsLost(period, all) ==
    /\ all.requests = Cardinality(Shown(period)) /\ all.revenue = Revenue(Shown(period))
    /\ all.cost = ActualCost({c \in CostsOn(period) : c.account \in Busy(period)})
    /\ all.op = Amount({s \in spend : s.day \in period})

\* By group and by user everything adds up to what it is by provider, when they can be read.
ViewsAgree(period, all) ==
    /\ ~Unreadable(period) => Total(ByGroup(period)) = all /\ Total(ByUser(period)) = all
    /\ GroupTotal(period) \in {0, all.revenue}

\* So does the trend, when no key cost anything without traffic of its account.
TrendAgrees(period, all) ==
    LET trend == Total(TrendRange(period))
    IN /\ <<trend.requests, trend.revenue, trend.op>> = <<all.requests, all.revenue, all.op>>
       /\ {c.account : c \in CostsOn(period)} \subseteq Busy(period)
          /\ {c.day : c \in CostsOn(period)} \subseteq DOMAIN TrendRange(period)
          => trend.cost = all.cost /\ trend.profit = all.profit

\* The pages of a site say what its bucket says: its entries, the accounts that had traffic
\* and are not deleted, and its keys, when these belong to its accounts, the accounts to no
\* other site's keys, and had traffic.
DetailAgrees(period) ==
    LET view == ByProvider(period)
    IN \A p \in DOMAIN view \ {0} :
        /\ view[p].op = ListTotal(p, period)
        /\ BusyOf(p, period) \ gone \subseteq AccountsOf(p)
        /\ (/\ ~selfRun[p]
            /\ \A c \in CostsOn(period) : c.provider = p <=> c.account \in BusyOf(p, period))
           => view[p].cost = KeyTotal(p, period)

\* A site that is not one's own has operating costs only if it once was.
SpendIsExplained ==
    \A s \in spend : s.provider \in exists /\ (selfRun[s.provider] \/ s.provider \in switched)

\* The sums of the four views agree over every period, whatever was linked, deleted or
\* switched in between.
BooksAgree ==
    /\ SpendIsExplained
    /\ \A period \in Periods :
        LET all == Total(ByProvider(period))
        IN /\ NothingIsLost(period, all) /\ ViewsAgree(period, all)
           /\ TrendAgrees(period, all) /\ DetailAgrees(period)
=============================================================================

---------------------------- MODULE MCBackground ----------------------------
(***************************************************************************)
(* Small instances of ProviderSync (the constants of the .cfg) and of the  *)
(* modules below in one run.  "part", which never changes, says which of   *)
(* them runs; the others stay as they start.                               *)
(***************************************************************************)
EXTENDS ProviderSync, TLC

CONSTANTS
    v1, low,
    Budget,                                                                  \* AccountHealth
    Hour,                                                                    \* BalanceAlerts
    Keys, Accounts, Named, Platforms, Before, Holdings, LastDay, Retention,  \* CostSync
    MaxCards, PushForms, ChannelForms, Traffics, Groups,                     \* StatusPush
    Logins, Sites, Forms, MaxEdits, MaxShocks, None, Same                    \* ProviderAccess

VARIABLES
    part,
    health, rested, used, heard, probing, answer, was, next, stale, crossed, lost, byHand,
    accidents,
    scarce, warnings, active, latch, watch, saw, lastAlert, after, brought, sending, fired,
    recovered, reached, unheard, changes,
    kindOfSite, day, spent, holds, costs, keyMap, costState, costRun, staleRows, passed, blind,
    rekeyed, promised, happenings,
    inRows, inMemory, clock, built, saving, window, pushing, lastPush, collided, lastGiven, acts,
    siteKind, siteRow, statements, submitted, inSession, entered, sufficed, overwritten,
    modified, shocks

healthVars == <<health, rested, used, heard, probing, answer, was, next, stale, crossed, lost,
                byHand, accidents>>
alertVars == <<scarce, warnings, active, latch, watch, saw, lastAlert, after, brought, sending,
               fired, recovered, reached, unheard, changes>>
costVars == <<kindOfSite, day, spent, holds, costs, keyMap, costState, costRun, staleRows,
              passed, blind, rekeyed, promised, happenings>>
pushVars == <<inRows, inMemory, clock, built, saving, window, pushing, lastPush, collided,
              lastGiven, acts>>
accessVars == <<siteKind, siteRow, statements, submitted, inSession, entered, sufficed,
                overwritten, modified, shocks>>

\* AccountHealth: two probes of one account that may overlap.
Health == INSTANCE AccountHealth
    WITH Probes <- Runs, row <- health, told <- heard,
         pc <- probing, overlapped <- crossed, broken <- lost, events <- accidents

\* BalanceAlerts: one customer, one provider with two synchronisations.
Alerts == INSTANCE BalanceAlerts
    WITH low <- scarce, enabled <- warnings,
         run <- after, got <- brought, rested <- recovered, heard <- reached,
         missed <- unheard, events <- changes

\* CostSync: two runs that may overlap, on either kind of provider, two keys, and two
\* accounts that bear the name of one of them: one holds it, or both hold the other.
BothNamed == [a \in {"a1", "a2"} |-> "k1"]
OneOrBoth == {[a \in {"a1", "a2"} |-> IF a = "a1" THEN "k1" ELSE "no key of this provider"],
              [a \in {"a1", "a2"} |-> "k2"]}
Costs == INSTANCE CostSync
    WITH platform <- kindOfSite, used <- spent, cost <- costs, map <- keyMap,
         state <- costState, run <- costRun, stale <- staleRows, events <- happenings

\* StatusPush: two saves that may cross, one push; a picture that holds two of the three
\* public groups; requests of every kind, the last two blocks among them.
Requested(n, group, at, how, count, ttft) ==
    [id |-> n, group |-> group, at |-> at, kind |-> how, count |-> count, ttft |-> ttft,
     input |-> 5, cache |-> 1]
Form(on, interval, chats, excluded) ==
    [enabled |-> on, interval |-> interval, chats |-> chats, excluded |-> excluded]
Channels(hook, token) == [tg |-> TRUE, hook |-> hook, token |-> token]
AllPushForms == {Form(TRUE, 45, <<"c1", "c2", "c1">>, {1}), Form(TRUE, 30, <<"c1">>, {}),
                 Form(FALSE, 30, <<"c1", "?">>, {}), Form(FALSE, 30, <<"c1", "">>, {})}
AllChannelForms == {Channels(FALSE, "keep"), Channels(TRUE, "t1"), Channels(FALSE, "")}
BusyWindow ==
    {{Requested(1, 1, 7, "ok", 9, 12), Requested(2, 1, 6, "ok", 2, -1),
      Requested(3, 1, 7, "fails", 2, -1), Requested(4, 1, -1, "fails", 3, -1),
      Requested(5, 1, 8, "fails", 3, -1), Requested(6, 2, 7, "fails", 3, -1),
      Requested(7, 1, 5, "limited", 3, -1), Requested(8, 1, 5, "ok", 3, 40),
      Requested(9, 2, 6, "fails", 1, -1), Requested(10, 1, 6, "ok", 1, 30)}}
SiteGroup(n, exclusive) == [id |-> n, active |-> TRUE, exclusive |-> exclusive]
FourGroups == <<SiteGroup(1, FALSE), SiteGroup(3, TRUE), SiteGroup(2, FALSE), SiteGroup(4, FALSE)>>
Push == INSTANCE StatusPush
    WITH Savers <- Runs, Pushers <- {v1},
         stored <- inRows, live <- inMemory, timer <- clock, channels <- built, save <- saving,
         traffic <- window, run <- pushing, last <- lastPush, crossed <- collided,
         given <- lastGiven, events <- acts

\* ProviderAccess: two runs, two accounts at the site, a site of every mode, and edits that
\* give a password, a pair, or a key, which may lack its user.
SiteRow(mode, email, password, access, refresh, user) ==
    [mode |-> mode, email |-> email, password |-> password, access |-> access,
     refresh |-> refresh, expiry |-> "null", cookie |-> "-", user |-> user, cool |-> "none"]
SiteForm(mode, email, user, password, access, refresh) ==
    [mode |-> mode, email |-> email, user |-> user, password |-> password, access |-> access,
     refresh |-> refresh]
SiteRows == {SiteRow("password", "A", "A", "-", "-", "-"),
             SiteRow("token", "-", "-", "A", "A", "-"),
             SiteRow("user_key", "-", "-", "A", "-", "A")}
SiteForms == {SiteForm("password", "B", "-", "B", "same", "same"),
              SiteForm("token", "-", "-", "same", "B", "B"),
              SiteForm("user_key", "-", "B", "same", "B", "same"),
              SiteForm("user_key", "A", "-", "same", "B", "same")}
Access == INSTANCE ProviderAccess
    WITH Rows <- Sites, MaxEvents <- MaxShocks,
         platform <- siteKind, row <- siteRow, todo <- statements, form <- submitted,
         run <- inSession, named <- entered, ready <- sufficed, spoilt <- overwritten,
         edits <- modified, events <- shocks

ASSUME PartsAssumption ==
    /\ Health!HealthAssumption /\ Alerts!AlertAssumption /\ Costs!CostAssumption
    /\ Push!PushAssumption /\ Access!AccessAssumption

PartInit ==
    /\ Init /\ Health!Init /\ Alerts!Init /\ Costs!Init /\ Push!Init /\ Access!Init
    /\ part \in {"sync", "health", "alert", "cost", "push", "access"}
    /\ truth[v1] = low                       \* the two rates are interchangeable
    /\ part # "sync" => ~enabled /\ provider = [p \in Providers |-> "none"]
    /\ part # "cost" => kindOfSite = "sub2api"
    /\ part # "access" => siteKind = "sub2api" /\ siteRow.mode = "password"
    /\ part # "cost" \/ kindOfSite = "new-api" => \E a \in Accounts : holds[a] = Costs!NoKey

PartNext ==
    \/ /\ part = "sync" /\ Next
       /\ UNCHANGED <<part, healthVars, alertVars, costVars, pushVars, accessVars>>
    \/ /\ part = "health" /\ Health!Next
       /\ UNCHANGED <<part, vars, alertVars, costVars, pushVars, accessVars>>
    \/ /\ part = "alert" /\ Alerts!Next
       /\ UNCHANGED <<part, vars, healthVars, costVars, pushVars, accessVars>>
    \/ /\ part = "cost" /\ Costs!Next
       /\ UNCHANGED <<part, vars, healthVars, alertVars, pushVars, accessVars>>
    \/ /\ part = "push" /\ Push!Next
       /\ UNCHANGED <<part, vars, healthVars, alertVars, costVars, accessVars>>
    \/ /\ part = "access" /\ Access!Next
       /\ UNCHANGED <<part, vars, healthVars, alertVars, costVars, pushVars>>

PartSpec ==
    PartInit /\ [][PartNext]_<<part, vars, healthVars, alertVars, costVars, pushVars, accessVars>>

RunsOnly == Permutations(Runs)
-----------------------------------------------------------------------------
\* The type invariants of the parts.
TypesOK ==
    /\ part = "sync"   => TypeOK
    /\ part = "health" => Health!TypeOK
    /\ part = "alert"  => Alerts!TypeOK
    /\ part = "cost"   => Costs!TypeOK
    /\ part = "push"   => Push!TypeOK
    /\ part = "access" => Access!TypeOK

\* AccountHealth: weight, counters and limits fit the state, and people know of it; no probe
\* that saw an account disabled takes it out of that state.
HealthIsTrue == [](part = "health" => Health!HealthIsTrue) /\ Health!DisabledIsKept

\* BalanceAlerts: who is marked as warned was told, and nobody twice within an hour.
AlarmsAreTrue ==
    [](part = "alert" => Alerts!LatchedIsTold) /\ [][Alerts!Spaced]_alertVars

\* CostSync: costs and their owners are what the provider and the accounts say.
CostIsTrue ==
    [](part = "cost" => Costs!CostsAgree) /\ [][Costs!NeverFalls]_costs

\* StatusPush: settings and what was built from them agree, a result tells what was sent,
\* and a board what happened.
PushIsTrue == part = "push" => Push!PushIsTrue

\* ProviderAccess: a run that began after an edit is in as the account that was entered, and
\* lacks nothing; what was enough to collect stays enough.
AccessIsTrue == part = "access" => Access!AccessIsTrue
=============================================================================

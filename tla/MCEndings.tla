----------------------------- MODULE MCEndings ------------------------------
(***************************************************************************)
(* What must happen in the end, on the smallest instances that can fail to:*)
(* CreditLedger with the constants of the .cfg (two requests over two      *)
(* customers) and the modules below, in one run.  "part", which never      *)
(* changes, says which of them runs; the others stay as they start.        *)
(***************************************************************************)
EXTENDS CreditLedger

VARIABLES
    part,
    rates, gone, rule, lastApplied, conflict, audit, site, job, byHand, event, mine, new,
    saw, action, changes, hands, losts, wrote, since, flagged, doubled,
    status, chosen, selected, stopped, step, batch, phase, result, cut, plan, history, runs,
    cancels, everCut,
    submitted, outcome, power, cancelled, canceller, asks, worker, own, tries, calls,
    stranded, mishaps,
    health, rested, used, heard, probing, answer, was, next, stale, crossed, lost, decided,
    accidents

priceVars   == <<rates, gone, rule, lastApplied, conflict, audit, site, job, byHand, event,
                 mine, new, saw, action, changes, hands, losts, wrote, since, flagged, doubled>>
detectVars  == <<status, chosen, selected, stopped, step, batch, phase, result, cut, plan,
                 history, runs, cancels, everCut>>
pelicanVars == <<submitted, outcome, power, cancelled, canceller, asks, worker, own, tries,
                 calls, stranded, mishaps>>
healthVars  == <<health, rested, used, heard, probing, answer, was, next, stale, crossed, lost,
                 decided, accidents>>

(***************************************************************************)
(* The instances                                                           *)
(***************************************************************************)
\* The average of two sources, or the higher of them, at any change, with nobody interfering.
Following(mode) == [auto |-> TRUE, mode |-> mode, primary |-> "s1", sources |-> {"s1", "s2"},
                    fixed |-> FALSE, markup |-> 0, threshold |-> 100000, min |-> 0, max |-> 100]
Price == INSTANCE PriceFollow
    WITH Sources <- {"s1", "s2"}, Rules <- {Following("average"), Following("highest")},
         Rates <- {2, 4, 5}, Edits <- {3}, Jobs <- {1}, MaxChanges <- 3, MaxByHand <- 0,
         MaxFails <- 0, pc <- job, fails <- losts

\* Two targets with a check and one that needs it, one place, a retry and a cancel.
Detect == INSTANCE DetectJob
    WITH Targets <- {"t1", "t2"}, Suites <- [authenticity |-> {"ping", "again"}],
         Defaults <- [authenticity |-> {"ping", "again"}],
         Requires <- [ping |-> {}, again |-> {"ping"}], Informational <- {},
         Concurrency <- 1, Keep <- 1, Callers <- {"r1"}, MaxRuns <- 3, MaxCancels <- 1

\* One batch of two results at one place.
Pelican == INSTANCE PelicanTests
    WITH RequestIds <- {"q1"}, Clients <- {"c1"}, Width <- 2, Places <- 1,
         MaxBatches <- 1, MaxMishaps <- 3, batch <- submitted, row <- outcome, mine <- own

\* One probe of one account.
Health == INSTANCE AccountHealth
    WITH Probes <- {1}, Budget <- 1, MaxEvents <- 3, row <- health, told <- heard,
         pc <- probing, overlapped <- crossed, broken <- lost, byHand <- decided,
         events <- accidents

ASSUME /\ Price!PriceAssumption
       /\ Detect!DetectAssumption /\ Detect!CatalogueAssumption /\ Pelican!PelicanAssumption
       /\ Health!HealthAssumption

(***************************************************************************)
(* The specification                                                       *)
(***************************************************************************)
PartInit ==
    /\ Init /\ Price!Init /\ Detect!Init /\ Pelican!Init /\ Health!Init
    /\ part \in {"crossing", "price", "detect", "pelican", "health"}
    /\ part # "price" => rates = [s \in {"s1", "s2"} |-> 2] /\ rule = Following("average")

Is(p) == part = p /\ UNCHANGED part

PartNext ==
    \/ Is("crossing") /\ Next /\ UNCHANGED <<priceVars, detectVars, pelicanVars, healthVars>>
    \/ Is("price") /\ Price!Next /\ UNCHANGED <<vars, detectVars, pelicanVars, healthVars>>
    \/ Is("detect") /\ Detect!Next /\ UNCHANGED <<vars, priceVars, pelicanVars, healthVars>>
    \/ Is("pelican") /\ Pelican!Next /\ UNCHANGED <<vars, priceVars, detectVars, healthVars>>
    \/ Is("health") /\ Health!Next /\ UNCHANGED <<vars, priceVars, detectVars, pelicanVars>>

\* The fairness of each component, for the part that runs.
PartFair ==
    /\ \A p \in Procs :
           /\ WF_vars(Is("crossing") /\ Steps(p) /\ Remember)
           /\ SF_vars(Is("crossing") /\ (WriteOutstanding(p) \/ SetAlertLevel(p)) /\ Remember)
    /\ WF_priceVars(Is("price") /\ Price!Steps(1))
    /\ WF_detectVars(Is("detect") /\ Detect!EndRound)
    /\ \A t \in {"t1", "t2"} : WF_detectVars(Is("detect") /\ Detect!Work(t))
    /\ WF_pelicanVars(Is("pelican") /\ Pelican!Recover)
    /\ WF_pelicanVars(Is("pelican") /\ Pelican!CloseEnds)
    /\ WF_pelicanVars(Is("pelican") /\ Pelican!CancelRows)
    /\ \A i \in {1} \X {1, 2} : WF_pelicanVars(Is("pelican") /\ Pelican!Work(i))
    /\ WF_healthVars(Is("health") /\ (Health!Schedule(1) \/ Health!Probing(1)))
    /\ WF_healthVars(Is("health") /\ used = 1 /\ Health!NextDay)
    /\ SF_healthVars(Is("health") /\ Health!TimePasses(TRUE, TRUE, TRUE))

PartSpec ==
    /\ PartInit
    /\ [][PartNext]_<<part, vars, priceVars, detectVars, pelicanVars, healthVars>>
    /\ PartFair
-----------------------------------------------------------------------------
\* PriceFollow: the own group comes to follow the last upstream change.
PricesFollow ==
    <>[](part = "price" => (changes > 0 => site = Price!Target(rule, Price!Reference(rule, Price!Current))))

\* DetectJob: every round ends.  PelicanTests: every result ends, unless a write about its
\* batch failed for good.
WorkEnds == Detect!RoundEnds /\ Pelican!ResultsEnd

\* AccountHealth: an account that answers again comes back to full weight.
AccountRecovers == Health!AccountRecovers
=============================================================================

---------------------------- MODULE MCOperations ----------------------------
(***************************************************************************)
(* Small instances of the operations modules in one run: DetectJob and the *)
(* modules below.  "part", which never changes, says which of them runs;   *)
(* the others stay as they start.                                          *)
(***************************************************************************)
EXTENDS DetectJob, TLC

CONSTANTS
    Parts,                                                \* the parts that may run
    RequestIds, Clients, Width, Places, MaxBatches, MaxMishaps,            \* PelicanTests
    Length,                                                                \* ReplyStream
    Channels, Plan,                                                        \* DetectVerdict
    Sources, Rules, Rates, Edits, PriceJobs, MaxChanges, MaxByHand, MaxFails,
                                                                           \* PriceFollow
    Tabs, MaxPairs, MaxIncidents,                                          \* AdminSession
    Owners, Owned, Uses, CostRows, Spends, RateOf, Unit, MaxDealings       \* ProfitViews

VARIABLES
    part,
    submitted, row, power, cancelled, canceller, asks, worker, mine, tries, calls, stranded,
    mishaps,
    protocol, sent, reason, text, natural, sentinel, complete, accepted,
    channel, at, clues, auth, capped, usable, scored, blamed, verdict,
    probe, nature, heard, wrongs,
    rates, gone, rule, lastApplied, conflict, audit, site, stage, byHand, event, current, new,
    saw, action, changes, hands, losts, wrote, since, flagged, doubled,
    tokens, password, dead, stale, pair, tab, leaving, issued, from, out, excused, lostAt,
    incidents,
    exists, selfRun, links, removed, usage, costs, spend, saving, switched, happened

pelicanVars == <<submitted, row, power, cancelled, canceller, asks, worker, mine, tries, calls,
                 stranded, mishaps>>
replyVars == <<protocol, sent, reason, text, natural, sentinel, complete, accepted>>
verdictVars == <<channel, at, clues, auth, capped, usable, scored, blamed, verdict>>
probeVars == <<probe, nature, heard, wrongs>>
priceVars == <<rates, gone, rule, lastApplied, conflict, audit, site, stage, byHand, event, current,
               new, saw, action, changes, hands, losts, wrote, since, flagged, doubled>>
sessionVars == <<tokens, password, dead, stale, pair, tab, leaving, issued, from, out, excused,
                 lostAt, incidents>>
bookVars == <<exists, selfRun, links, removed, usage, costs, spend, saving, switched, happened>>

(***************************************************************************)
(* The instances                                                           *)
(***************************************************************************)
\* DetectJob: two scored checks of which one needs the other, an informational
\* one, and an IQ question; or the scored ones alone.
DetectSuites == [authenticity |-> {"ping", "again", "zero"}, iq |-> {"candy"}]
DetectDefaults == [authenticity |-> {"ping", "zero"}, iq |-> {"candy"}]
DetectRequires == [c \in {"ping", "again", "zero", "candy"} |->
                      IF c = "again" THEN {"ping"} ELSE {}]
TwoChecks == [authenticity |-> {"ping", "again"}]
NoRequires == [c \in {"ping", "again"} |-> {}]

\* PelicanTests: clients that submit one request of several targets.
Pelican == INSTANCE PelicanTests WITH batch <- submitted

\* PriceFollow: aggregates of two sources, marked up, clamped, with the automatic mode on
\* and off; or one source, followed as it is at any change.
Setting(auto, mode, fixed, markup, threshold, min, max) ==
    [auto |-> auto, mode |-> mode, primary |-> "s1", sources |-> {"s1", "s2"},
     fixed |-> fixed, markup |-> markup, threshold |-> threshold, min |-> min, max |-> max]
Aggregates == {Setting(TRUE, "average", FALSE, 50, 100, 0, 5),
               Setting(FALSE, "lowest", TRUE, -4, 100, 0, 5)}
FollowAll == {Setting(TRUE, "primary", FALSE, 0, 100000, 0, 100)}
Price == INSTANCE PriceFollow
    WITH Jobs <- PriceJobs, pc <- stage, mine <- current, fails <- losts

\* ReplyStream: one answer.
Reply == INSTANCE ReplyStream
    WITH stopped <- natural, done <- sentinel, verdict <- accepted

\* DetectVerdict: kinds of channel through the whole catalogue, or a part of it.
Known == INSTANCE DetectChannels
Catalogue == Known!Catalogue
OnlyBaseline == <<"baseline-quality">>
AllFindings == [c \in Channels |-> Known!Outcome(c)]
AllReplies == [c \in Channels |-> Known!Audited(c)]
AllRefusals == [c \in Channels |-> Known!Family(c)]
Verdict == INSTANCE DetectVerdict
    WITH Findings <- AllFindings, Replies <- AllReplies, Refusals <- AllRefusals,
         Profile <- Known!Model

\* DetectProbes: it has no constants.
Probes == INSTANCE DetectProbes

\* AdminSession: the tabs of a browser.
Session == INSTANCE AdminSession
    WITH MaxEvents <- MaxIncidents, rows <- tokens, events <- incidents

\* ProfitViews: one's own site with an account, a provider without; five requests of three
\* users, two groups and none, on two days.
Asked(id, account, group, user, day, revenue, weight) ==
    [id |-> id, account |-> account, group |-> group, user |-> user, day |-> day,
     revenue |-> revenue, weight |-> weight]
Charged(provider, key, account, day, amount) ==
    [provider |-> provider, key |-> key, account |-> account, day |-> day, amount |-> amount]
AllAsked == {Asked(1, 1, 1, 1, 1, 3, 1), Asked(2, 1, 2, 2, 1, 5, 2), Asked(3, 3, 2, 1, 1, 7, 0),
             Asked(4, 3, 1, 0, 2, 2, 0), Asked(5, 1, 0, 1, 2, 2, 1)}
AllCharged == {Charged(2, 1, 0, 1, 36), Charged(2, 1, 3, 1, 36), Charged(1, 2, 1, 1, 36)}
Paid(provider, day, sum) == [provider |-> provider, day |-> day, amount |-> sum]
AllSpent == {Paid(1, 2, 144), Paid(2, 1, 144), Paid(1, 1, 0)}
Recharge == [p \in {1, 2} |-> 4 - 2 * p]
Books == INSTANCE ProfitViews
    WITH Providers <- Owners, Accounts <- Owned, MaxEvents <- MaxDealings,
         gone <- removed, events <- happened

ASSUME PartsAssumption ==
    /\ Pelican!PelicanAssumption /\ Reply!ReplyAssumption
    /\ Verdict!VerdictAssumption /\ Price!PriceAssumption
    /\ Session!SessionAssumption /\ Books!BooksAssumption

\* One target with every retry, or all targets with what two runs allow.
Retrying == Next /\ Cardinality(chosen') <= 1
Sharing  == Next /\ runs' <= 2 /\ plan'["r2"] = NoPlan

(***************************************************************************)
(* The specification                                                       *)
(***************************************************************************)
Is(p) == part = p /\ UNCHANGED part

PartInit ==
    /\ Init /\ Pelican!Init /\ Reply!Init /\ Verdict!Init /\ Probes!Init /\ Price!Init
    /\ Session!Init /\ Books!Init
    /\ part \in Parts
    /\ part # "reply" => protocol = "messages"
    /\ part # "verdict" => channel = CHOOSE c \in Channels : TRUE
    /\ part # "probes" => probe = "replay"
    /\ site = CHOOSE x \in Edits : TRUE
    /\ rates = [s \in Sources |-> CHOOSE x \in Rates : \A y \in Rates : y <= x]
    /\ part # "price" => rule = CHOOSE r \in Rules : TRUE

PartNext ==
    \/ Is("retrying") /\ Retrying
       /\ UNCHANGED <<pelicanVars, replyVars, verdictVars, probeVars, priceVars, sessionVars, bookVars>>
    \/ Is("sharing") /\ Sharing
       /\ UNCHANGED <<pelicanVars, replyVars, verdictVars, probeVars, priceVars, sessionVars, bookVars>>
    \/ Is("pelican") /\ Pelican!Next
       /\ UNCHANGED <<vars, replyVars, verdictVars, probeVars, priceVars, sessionVars, bookVars>>
    \/ Is("reply") /\ Reply!Next
       /\ UNCHANGED <<vars, pelicanVars, verdictVars, probeVars, priceVars, sessionVars, bookVars>>
    \/ Is("verdict") /\ Verdict!Next
       /\ UNCHANGED <<vars, pelicanVars, replyVars, probeVars, priceVars, sessionVars, bookVars>>
    \/ Is("probes") /\ Probes!Next
       /\ UNCHANGED <<vars, pelicanVars, replyVars, verdictVars, priceVars, sessionVars, bookVars>>
    \/ Is("price") /\ Price!Next
       /\ UNCHANGED <<vars, pelicanVars, replyVars, verdictVars, probeVars, sessionVars, bookVars>>
    \/ Is("session") /\ Session!Next
       /\ UNCHANGED <<vars, pelicanVars, replyVars, verdictVars, probeVars, priceVars,
                      bookVars>>
    \/ Is("books") /\ Books!Next
       /\ UNCHANGED <<vars, pelicanVars, replyVars, verdictVars, probeVars, priceVars,
                      sessionVars>>

PartSpec == PartInit /\ [][PartNext]_<<part, vars, pelicanVars, replyVars, verdictVars,
                                       probeVars, priceVars, sessionVars, bookVars>>

JobsOnly == Permutations(PriceJobs)
-----------------------------------------------------------------------------
\* The type invariants of the parts.
TypesOK ==
    /\ part \in {"retrying", "sharing"} => TypeOK
    /\ part = "pelican" => Pelican!TypeOK
    /\ part = "price" => Price!TypeOK
    /\ part = "session" => Session!TypeOK
    /\ part = "books" => Books!TypeOK

\* PelicanTests: a target is generated, and charged, at most once, and an open row that
\* nothing works on is left to somebody.
TargetsAreServed ==
    part = "pelican" => Pelican!ChargedOnce /\ Pelican!OpenIsAttended

\* PelicanTests: a result that has ended never changes its outcome.
FinalIsFinal == Pelican!FinalIsFinal

\* ReplyStream: what is accepted as an answer is the whole text.
AcceptedIsWhole == part = "reply" => Reply!AcceptedIsWhole

\* DetectVerdict: a genuine channel is not called a fake, a backend without the
\* signing key is not graded genuine, and an outage is no offence.
VerdictTellsTruth == part = "verdict" => Verdict!VerdictTellsTruth

\* DetectProbes: cache chain, stream, signature test, audit, meters and wits find what
\* was done to the answers, and nothing else.
EvidenceIsTrue == part = "probes" => Probes!EvidenceIsTrue

\* PriceFollow: what the program wrote has its row in the audit, and what is to be written
\* is within the limits of the rule.
PriceIsTrue == part = "price" => Price!AuditCovers /\ Price!WithinLimits

\* AdminSession: a refresh token gives one pair, a logout stands, and tabs that refresh
\* together do not log each other out.
SessionIsTrue == part = "session" => Session!SessionIsTrue

\* ProfitViews: the views by provider, group, user and day add up to the same.
BooksAgree == part = "books" => Books!BooksAgree

\* PriceFollow: a person's rate is kept, and a conflict means that there is one, while
\* nothing fails and no two jobs apply the rule at once.
HumanRespected == Price!HumanRespected
-----------------------------------------------------------------------------
(***************************************************************************)
(* What the code or its comments say of single parts, and what is not so   *)
(***************************************************************************)
\* DetectVerdict: a limited channel is no proof of a genuine one (catalog.go:130).
LimitIsNoProof == Verdict!LimitIsNoProof

\* DetectVerdict: the answer the baseline was made of matches it (catalog.go:303).
MatchIsRecognised == Verdict!MatchIsRecognised

\* PriceFollow: a conflict stops the automatic mode until it is confirmed
\* (pricing_service.go:21).
ConflictStops == Price!ConflictStops
=============================================================================

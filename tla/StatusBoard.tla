---------------------------- MODULE StatusBoard -----------------------------
(***************************************************************************)
(* The board of the status picture (service/status_board.go), drawn from   *)
(* the groups and from the traffic of a window.  A row of traffic is       *)
(*   [id, group, at, kind, count, ttft, input, cache]                      *)
(* "count" requests of one moment that ended the same way: "ok", "fails",  *)
(* "limited" (a business limit) or "ignored" (a status the service level   *)
(* does not count).  Times are in blocks since the window began, "ttft" is *)
(* the time to the first token in seconds, NoTime when there is none.      *)
(***************************************************************************)
EXTENDS Integers, Sequences, FiniteSets, FiniteSetsExt, Functions, SequencesExt

CONSTANTS MaxCards          \* how many cards fit a picture Telegram accepts

BoardAssumption == MaxCards \in Nat \ {0}

Blocks == 8                 \* statusBlockCount
MinSamples == 3             \* statusMinSamples
NoTime == -1

\* What the window may hold: rows that differ in their ids.
Rows == [id : Nat, group : Nat, at : Int, kind : {"ok", "fails", "limited", "ignored"},
         count : Nat, ttft : Nat \cup {NoTime}, input : Nat, cache : Nat]
IsTraffic(traffic) ==
    traffic \subseteq Rows /\ IsFiniteSet(traffic) /\ \A r, q \in traffic : r.id = q.id => r = q

Sum(field, rows) == SumFunction([r \in rows |-> r[field]])

\* The elements of a sequence at some of its places, in their order.
InOrder(seq, places) ==
    LET nth(k) == CHOOSE i \in places : Cardinality({j \in places : j <= i}) = k
    IN  [k \in 1 .. Cardinality(places) |-> seq[nth(k)]]

\* publicStatusGroups: the groups customers may see, in the order of the site.
PublicGroups(groups, excluded) ==
    InOrder(groups, {i \in DOMAIN groups : /\ groups[i].active /\ ~groups[i].exclusive
                                          /\ groups[i].id \notin excluded})

(***************************************************************************)
(* The query                                                               *)
(***************************************************************************)
\* percentile_cont(0.5) over the requests with a first token, in half seconds.
Median(rows) ==
    LET timed == {r \in rows : r.ttft # NoTime}
        n == Sum("count", timed)
        upTo(t) == Sum("count", {r \in timed : r.ttft <= t})
        nth(k) == Min({r.ttft : r \in {q \in timed : upTo(q.ttft) >= k}})
    IN  IF n = 0 THEN NoTime ELSE nth((n + 1) \div 2) + nth((n + 2) \div 2)

\* Mutant: the failures of a block without a success are lost (LEFT JOIN).
TimelineOfUsage(traffic) ==
    LET good == {r \in traffic : r.at >= 0 /\ r.kind = "ok"}
        bad == {r \in traffic : r.at >= 0 /\ r.kind = "fails"}
        of(S, g, b) == {r \in S : r.group = g /\ r.at = b}
    IN  {[group |-> r.group, at |-> r.at, ttft |-> Median(of(good, r.group, r.at)),
          ok |-> Sum("count", of(good, r.group, r.at)),
          err |-> Sum("count", of(bad, r.group, r.at)),
          input |-> Sum("input", of(good, r.group, r.at)),
          cache |-> Sum("cache", of(good, r.group, r.at))] : r \in good}

\* GroupStatusTimeline: a point for each group and block with successes or failures.
Timeline(traffic) ==
    LET counted == {r \in traffic : r.at >= 0 /\ r.kind \in {"ok", "fails"}}
        point(g, b) ==
            LET rows == {r \in counted : r.group = g /\ r.at = b}
                good == {r \in rows : r.kind = "ok"}
            IN  [group |-> g, at |-> b, ttft |-> Median(good),
                 ok |-> Sum("count", good),
                 err |-> Sum("count", rows \ good),
                 input |-> Sum("input", good),
                 cache |-> Sum("cache", good)]
    IN  {point(r.group, r.at) : r \in counted}

(***************************************************************************)
(* A block                                                                 *)
(***************************************************************************)
\* SLAPercent and displayPercent: tenths of a percent as shown (half up).
Shown(ok, err) == (2000 * ok + ok + err) \div (2 * (ok + err))

\* errorPenalty and ttftPenalty, in 36ths of "total" points.
ErrorPenalty(err, total) ==
    IF 100 * err <= total THEN 0
    ELSE IF 10 * err <= total THEN (100 * err - total) * 160
    ELSE 50 * 36 * total

TtftPenalty(ttft, total) ==
    IF ttft < 20 THEN 0
    ELSE IF ttft <= 60 THEN (ttft - 20) * 27 * total
    ELSE 40 * 36 * total

\* blockHealthScore: rounded half up, never below zero.
Score(ok, err, ttft) ==
    LET total == ok + err
        left == 100 * 36 * total - ErrorPenalty(err, total) - TtftPenalty(ttft, total)
    IN  IF total = 0 \/ left < 0 THEN 0 ELSE (2 * left + 36 * total) \div (72 * total)

\* blockColor: the band of a score, 0 (worst) to 7; grey when there are too few samples.
Grey == -1
Colour(p) ==
    IF p.ok + p.err < MinSamples THEN Grey
    ELSE Cardinality({b \in {30, 50, 60, 70, 80, 90, 98} : Score(p.ok, p.err, p.ttft) >= b})

(***************************************************************************)
(* A card                                                                  *)
(***************************************************************************)
\* What the points of a group say of block b; those outside the window belong to none.
InBlock(points, g, b) ==
    LET here == {p \in points : p.group = g /\ p.at = b}
    IN  IF here = {} THEN [ok |-> 0, err |-> 0, ttft |-> NoTime]
        ELSE LET p == CHOOSE p \in here : TRUE IN [ok |-> p.ok, err |-> p.err, ttft |-> p.ttft]

\* Mutant: the latest block alone.
StatusOfLatest(older, newer) ==
    IF newer.ok + newer.err < MinSamples THEN "none"
    ELSE IF Shown(newer.ok, newer.err) < 900 THEN "bad"
    ELSE IF newer.ttft > 20 THEN "warn" ELSE "ok"

\* currentStatus: the two latest blocks together; the latest reading of the first token.
CurrentStatus(older, newer) ==
    LET ok == older.ok + newer.ok
        err == older.err + newer.err
        ttft == IF newer.ttft # NoTime THEN newer.ttft ELSE older.ttft
    IN  IF ok + err < MinSamples THEN "none"
        ELSE IF Shown(ok, err) < 900 THEN "bad"
        ELSE IF ttft > 20 THEN "warn"
        ELSE "ok"

Card(points, g) ==
    LET window == {p \in points : p.group = g /\ p.at \in 0 .. Blocks - 1}
        block(b) == InBlock(points, g, b)
    IN  [group |-> g,
         colours |-> [b \in 0 .. Blocks - 1 |-> Colour(block(b))],
         status |-> CurrentStatus(block(Blocks - 2), block(Blocks - 1)),
         ok |-> Sum("ok", window), err |-> Sum("err", window),
         input |-> Sum("input", window), cache |-> Sum("cache", window)]

\* buildStatusBoard and buildBoard: a card per public group, up to what fits the picture,
\* and the note that says how many there are when some do not fit.
Board(groups, traffic, excluded) ==
    LET visible == PublicGroups(groups, excluded)
        points == Timeline(traffic)
        shown == SubSeq(visible, 1, Min({MaxCards, Len(visible)}))
    IN  [cards |-> [i \in DOMAIN shown |-> Card(points, shown[i].id)],
         of |-> IF Len(visible) > MaxCards THEN Len(visible) ELSE Len(shown)]
-----------------------------------------------------------------------------
(***************************************************************************)
(* What a board promises                                                   *)
(***************************************************************************)
Rank(status) == CASE status = "bad" -> 0 [] status = "warn" -> 1 [] OTHER -> 2

\* The same row, had its requests failed.
Failed(traffic, r) ==
    (traffic \ {r}) \cup {[r EXCEPT !.kind = "fails", !.ttft = NoTime, !.input = 0, !.cache = 0]}

\* status_board.go: a card shows what happened in the window and nothing else.  Requests
\* that limits refused, or outside the window, change nothing; every other one is counted
\* once, so that a group whose requests all fail is there and is shown as bad; a status is
\* left open only beside grey blocks; and where a request without a first token fails
\* instead of succeeding, no block and no status looks better for it.
TrueToTraffic(groups, traffic, excluded) ==
    LET board == Board(groups, traffic, excluded)
        counted == {r \in traffic : r.kind \in {"ok", "fails"} /\ r.at \in 0 .. Blocks - 1}
        of(g) == {r \in counted : r.group = g}
        samples(S) == Sum("count", S)
        recent(g) == {r \in of(g) : r.at >= Blocks - 2}
        worse(r) == Board(groups, Failed(traffic, r), excluded)
    IN  /\ Board(groups, counted, excluded) = board
        /\ \A i \in DOMAIN board.cards :
              LET c == board.cards[i] IN
              /\ c.ok + c.err = samples(of(c.group))
              /\ c.ok = 0 /\ samples(recent(c.group)) >= MinSamples => c.status = "bad"
              /\ c.status = "none" => c.colours[6] = Grey /\ c.colours[7] = Grey
        /\ \A r \in {q \in counted : q.kind = "ok" /\ q.ttft = NoTime} :
              \A i \in DOMAIN board.cards :
                 LET before == board.cards[i]
                     after == worse(r).cards[i]
                 IN  /\ \A b \in DOMAIN before.colours : after.colours[b] <= before.colours[b]
                     /\ Rank(after.status) <= Rank(before.status)
=============================================================================

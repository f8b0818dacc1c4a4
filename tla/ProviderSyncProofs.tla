------------------------- MODULE ProviderSyncProofs -------------------------
(***************************************************************************)
(* Proofs about ProviderSync for any providers, runs, rates and bounds: no *)
(* provider is forgotten, the rate history tells every change and no       *)
(* other, and the balance cache and the collector state are what the runs  *)
(* left.                                                                   *)
(***************************************************************************)
EXTENDS ProviderSync, SequenceTheorems, TLAPS

Places == {"idle", "gate", "load", "collect", "cache", "rates", "read", "write", "tell",
           "record", "backoff"}
FoundRow == [id : Nat, rate : Rates \cup {Absent}, deleted : BOOLEAN]

(***************************************************************************)
(* The inductive invariant                                                 *)
(***************************************************************************)
\* m is the id of the last row of h that is in the table, 0 without one.
LastOf(h, m) ==
    /\ m \in 0..Len(h)
    /\ m # 0 => h[m].there
    /\ \A i \in DOMAIN h : h[i].there => i <= m

Proper(h) == h \in Seq(SnapshotRow) /\ LastOf(h, Latest(h))
NoRepeats(h) == \A i \in DOMAIN h : ~Repeats(h, i)
LastRate(p) == rows[p][Latest(rows[p])].rate

RunShape ==
    /\ pc \in [Runs -> Places]
    /\ kind \in [Runs -> {"timer", "manual", "all", "byhand"}]
    /\ of \in [Runs -> Providers]
    /\ mine \in [Runs -> BOOLEAN]
    /\ got \in [Runs -> {"balance", "error", "nothing"}]
    /\ seen \in [Runs -> Rates \cup {Absent}]
    /\ found \in [Runs -> FoundRow]

SiteShape ==
    /\ provider \in [Providers -> {"none", "ready", "other", "gone"}]
    /\ truth \in [Providers -> Rates \cup {Absent}]
    /\ DOMAIN rows = Providers /\ rows = [p \in Providers |-> rows[p]]
    /\ \A p \in Providers : Proper(rows[p])
    /\ fresh \in [Providers -> BOOLEAN]
    /\ failures \in [Providers -> 0..2]
    /\ backoff \in [Providers -> {"none", "ahead", "past"}]
    /\ told \in [Providers -> Rates \cup {Absent}]

SchedulerShape ==
    /\ rebuild \in [Rebuilders -> [at : {"idle", "list", "arm"}, listed : SUBSET Providers]]
    /\ deleting \in [Providers -> {"no", "rates", "timer"}]

Shape == RunShape /\ SiteShape /\ SchedulerShape

\* Only a provider that is gone is being cleared away.
Deletes == \A p \in Providers : deleting[p] # "no" => provider[p] = "gone"

\* What a provider owes that no run is under way for, unless runs of it overlapped or
\* one of them was cut short or lost a write.
Resting(p) ==
    /\ p \notin overlapped => NoRepeats(rows[p])
    /\ p \notin overlapped \cup broken =>
           /\ Latest(rows[p]) # 0 => told[p] = LastRate(p)
           /\ fresh[p]
           /\ backoff[p] # "none" => failures[p] > 0

\* The same of a provider and its run, at every place of the run.
Own(r, p) ==
    /\ p \notin overlapped =>
           /\ NoRepeats(rows[p])
           /\ pc[r] = "write" => found[r] = Found(rows[p]) \/ Latest(rows[p]) = 0
    /\ p \notin overlapped \cup broken =>
           /\ pc[r] # "tell" => (Latest(rows[p]) # 0 => told[p] = LastRate(p))
           /\ pc[r] = "tell" => /\ seen[r] # Absent
                                /\ Latest(rows[p]) # 0 => LastRate(p) = seen[r]
           /\ pc[r] = "write" /\ found[r].id # 0 => told[p] = found[r].rate
           /\ pc[r] # "cache" => fresh[p]
           /\ pc[r] = "cache" \/ (pc[r] = "collect" /\ kind[r] # "byhand") => mine[r]
           /\ backoff[p] # "none" \/ pc[r] = "backoff" => failures[p] > 0

OfProvider(p) ==
    /\ p \notin overlapped => \A r, q \in BusyWith(p) : r = q
    /\ \A r \in BusyWith(p) : Own(r, p)
    /\ BusyWith(p) = {} => Resting(p)

\* The row a run is about to mark is one that was inserted.
Pointers == \A r \in Runs : pc[r] = "write" => found[r].id <= Len(rows[of[r]])

IInv == Shape /\ Pointers /\ Deletes /\ NeverForgotten /\ \A p \in Providers : OfProvider(p)

-----------------------------------------------------------------------------
(***************************************************************************)
(* The rate history                                                        *)
(***************************************************************************)
LEMMA LatestIs ==
    ASSUME NEW h \in Seq(SnapshotRow), NEW m, LastOf(h, m)
    PROVE  Latest(h) = m /\ Proper(h)
  <1> DEFINE S == {i \in DOMAIN h : h[i].there} \cup {0}
  <1>1. m \in S /\ \A y \in S : m >= y
    BY DEF LastOf
  <1>2. \A x \in S : (\A y \in S : x >= y) => x = m
    BY <1>1 DEF LastOf
  <1>3. Max(S) = m
    BY <1>1, <1>2 DEF Max
  <1> QED BY <1>3 DEF Latest, Proper

\* What stays true of a row by row change that keeps lengths and rates.
LEMMA ProperFacts ==
    ASSUME NEW h, Proper(h)
    PROVE  /\ h \in Seq(SnapshotRow) /\ Len(h) \in Nat /\ DOMAIN h = 1..Len(h)
           /\ Latest(h) \in 0..Len(h) /\ (Latest(h) # 0 => h[Latest(h)].there)
           /\ \A i \in 1..Len(h) : h[i] \in SnapshotRow /\ (h[i].there => i <= Latest(h))
  BY DEF Proper, LastOf

\* A new row is the last one, and repeats nothing if the last one stated another rate
\* or that the group had vanished.
LEMMA InsertedIs ==
    ASSUME NEW h, Proper(h), NEW x \in Rates
    PROVE  LET new == Inserted(h, x) IN
           /\ Proper(new) /\ Latest(new) = Len(h) + 1 /\ new[Latest(new)].rate = x
           /\ NoRepeats(h) /\ (Latest(h) # 0 => h[Latest(h)].deleted \/ h[Latest(h)].rate # x)
                 => NoRepeats(new)
  <1> DEFINE n == Len(h) + 1
             new == Inserted(h, x)
  <1>1. /\ new \in Seq(SnapshotRow) /\ Len(new) = n /\ DOMAIN new = 1..n
        /\ new[n] = Fresh(x) /\ \A i \in 1..Len(h) : new[i] = h[i]
    <2>1. h \in Seq(SnapshotRow) /\ Len(h) \in Nat /\ DOMAIN h = 1..Len(h)
      BY ProperFacts
    <2>2. Fresh(x) \in SnapshotRow
      BY DEF Fresh, SnapshotRow
    <2> QED BY <2>1, <2>2 DEF Inserted
  <1>2. n \in Nat \ {0} /\ Len(h) \in Nat /\ n = Len(h) + 1 /\ DOMAIN h = 1..Len(h)
    BY ProperFacts
  <1> HIDE DEF new, n
  <1>3. LastOf(new, n)
    BY <1>1, <1>2 DEF LastOf, Fresh
  <1>4. Latest(new) = n /\ Proper(new) /\ new[n].rate = x
    BY <1>1, <1>3, LatestIs DEF Fresh
  <1>5. ASSUME NoRepeats(h), Latest(h) # 0 => h[Latest(h)].deleted \/ h[Latest(h)].rate # x
        PROVE  NoRepeats(new)
    <2> SUFFICES ASSUME NEW i \in 1..n, NEW j \in 1..(i - 1), new[i].there, new[j].there,
                        \A k \in (j + 1)..(i - 1) : ~new[k].there,
                        new[j].rate = new[i].rate, ~new[j].deleted
                 PROVE  FALSE
      BY <1>1 DEF NoRepeats, Repeats
    <2>1. i \in Int /\ j \in 1..Len(h) /\ j < i
      BY <1>2
    <2>2. CASE i = n
      <3>1. new[i].rate = x /\ new[j] = h[j]
        BY <1>1, <2>1, <2>2 DEF Fresh
      <3>2. Latest(h) \in 0..Len(h) /\ j <= Latest(h) /\ h[Latest(h)].there
        BY <2>1, <3>1, ProperFacts
      <3>3. Latest(h) = j
        BY <1>1, <1>2, <2>1, <2>2, <3>2
      <3> QED BY <1>5, <2>1, <3>1, <3>3
    <2>3. CASE i \in 1..Len(h)
      <3>1. new[i] = h[i] /\ new[j] = h[j] /\ \A k \in (j + 1)..(i - 1) : new[k] = h[k]
        BY SMTT(30), <1>1, <2>1, <2>3
      <3> QED BY <1>2, <1>5, <2>1, <2>3, <3>1 DEF NoRepeats, Repeats
    <2> QED BY <1>2, <2>2, <2>3
  <1> QED BY <1>2, <1>4, <1>5 DEF n, new

\* A row that is marked keeps its place and its rate.
LEMMA MarkedIs ==
    ASSUME NEW h, Proper(h), NEW id \in 1..Len(h)
    PROVE  LET new == MarkedDeleted(h, id) IN
           /\ Proper(new) /\ Latest(new) = Latest(h)
           /\ Latest(h) # 0 => new[Latest(h)].rate = h[Latest(h)].rate
           /\ NoRepeats(h) => NoRepeats(new)
  <1> DEFINE new == MarkedDeleted(h, id)
  <1>1. /\ new \in Seq(SnapshotRow) /\ Len(new) = Len(h) /\ DOMAIN new = 1..Len(h)
        /\ \A i \in 1..Len(h) : /\ new[i].there = h[i].there /\ new[i].rate = h[i].rate
                                /\ h[i].deleted => new[i].deleted
    <2>1. Len(h) \in Nat /\ h \in [1..Len(h) -> SnapshotRow] /\ h \in Seq(SnapshotRow)
      BY ProperFacts, LenProperties
    <2> DEFINE marked == [h[id] EXCEPT !.deleted = TRUE]
    <2>2. /\ marked \in SnapshotRow /\ marked.deleted
          /\ marked.there = h[id].there /\ marked.rate = h[id].rate
      BY <2>1 DEF SnapshotRow
    <2>3. new = h \/ new = [h EXCEPT ![id] = marked]
      BY DEF MarkedDeleted
    <2> HIDE DEF marked, new
    <2>4. /\ new \in [1..Len(h) -> SnapshotRow]
          /\ \A i \in 1..Len(h) : new[i] = h[i] \/ (i = id /\ new[i] = marked)
      BY <2>1, <2>2, <2>3
    <2>5. new \in Seq(SnapshotRow) /\ Len(new) = Len(h)
      BY <2>1, <2>4, SeqDef, LenProperties
    <2> QED BY <2>1, <2>2, <2>4, <2>5
  <1> HIDE DEF new
  <1>2. LastOf(new, Latest(h))
    BY <1>1, ProperFacts DEF LastOf
  <1>3. Latest(new) = Latest(h) /\ Proper(new)
    BY <1>1, <1>2, LatestIs
  <1>4. NoRepeats(h) => NoRepeats(new)
    <2> SUFFICES ASSUME NoRepeats(h), NEW i \in 1..Len(h), NEW j \in 1..(i - 1),
                        new[i].there, new[j].there, \A k \in (j + 1)..(i - 1) : ~new[k].there,
                        new[j].rate = new[i].rate, ~new[j].deleted
                 PROVE  FALSE
      BY <1>1 DEF NoRepeats, Repeats
    <2>1. Len(h) \in Nat /\ DOMAIN h = 1..Len(h) /\ j \in 1..Len(h) /\ i \in Int
      BY ProperFacts
    <2>2. h[i].there /\ h[j].there /\ h[j].rate = h[i].rate /\ ~h[j].deleted
      BY <1>1, <2>1
    <2>3. \A k \in (j + 1)..(i - 1) : ~h[k].there
      BY <1>1, <2>1
    <2> QED BY <2>1, <2>2, <2>3 DEF NoRepeats, Repeats
  <1>5. Latest(h) # 0 => new[Latest(h)].rate = h[Latest(h)].rate
    BY <1>1, ProperFacts
  <1> QED BY <1>3, <1>4, <1>5 DEF new

\* The nightly cleanup leaves the last row, and brings no two rows together.
LEMMA PrunedIs ==
    ASSUME NEW h, Proper(h), NEW before \in Nat
    PROVE  LET new == Pruned(h, before) IN
           /\ Proper(new) /\ Latest(new) = Latest(h) /\ Found(new) = Found(h)
           /\ Latest(h) # 0 => new[Latest(h)].rate = h[Latest(h)].rate
           /\ NoRepeats(h) => NoRepeats(new)
  <1> DEFINE new == Pruned(h, before)
             last == Latest(h)
  <1>1. /\ new \in Seq(SnapshotRow) /\ Len(new) = Len(h) /\ DOMAIN new = 1..Len(h)
        /\ \A i \in 1..Len(h) :
               /\ new[i].rate = h[i].rate /\ new[i].deleted = h[i].deleted
               /\ new[i].there <=> h[i].there /\ (i >= before \/ i = last)
    <2>1. Len(h) \in Nat /\ h \in [1..Len(h) -> SnapshotRow] /\ DOMAIN h = 1..Len(h)
      BY ProperFacts, LenProperties
    <2>2. \A i \in 1..Len(h) : [h[i] EXCEPT !.there = FALSE] \in SnapshotRow
      BY <2>1 DEF SnapshotRow
    <2>3. new \in [1..Len(h) -> SnapshotRow]
      BY <2>1, <2>2 DEF Pruned
    <2>4. \A i \in 1..Len(h) : new[i].rate = h[i].rate /\ new[i].deleted = h[i].deleted
                       /\ (new[i].there <=> h[i].there /\ (i >= before \/ i = last))
      BY <2>1 DEF Pruned, SnapshotRow
    <2> HIDE DEF new
    <2>5. new \in Seq(SnapshotRow) /\ Len(new) = Len(h)
      BY <2>1, <2>3, SeqDef, LenProperties
    <2> QED BY <2>1, <2>3, <2>4, <2>5
  <1> HIDE DEF new
  <1>2. /\ last \in 0..Len(h) /\ Len(h) \in Nat /\ DOMAIN h = 1..Len(h)
        /\ \A i \in 1..Len(h) : h[i].there => i <= last
        /\ last # 0 => h[last].there
    BY ProperFacts
  <1> HIDE DEF last
  <1>3. LastOf(new, last)
    BY <1>1, <1>2 DEF LastOf
  <1>4. Latest(new) = last /\ Proper(new)
    BY <1>1, <1>3, LatestIs
  <1>5. Found(new) = Found(h)
    BY <1>1, <1>2, <1>4 DEF Found, last
  <1>6. ASSUME NoRepeats(h) PROVE NoRepeats(new)
    <2> SUFFICES ASSUME NEW i \in 1..Len(h), NEW j \in 1..(i - 1), new[i].there, new[j].there,
                        \A k \in (j + 1)..(i - 1) : ~new[k].there,
                        new[j].rate = new[i].rate, ~new[j].deleted
                 PROVE  FALSE
      BY <1>1 DEF NoRepeats, Repeats
    <2>1. i \in Int /\ j \in 1..Len(h) /\ j < i /\ i <= last
      BY <1>1, <1>2
    <2>2. j >= before
      BY <1>1, <1>2, <2>1
    <2>3. h[i].there /\ h[j].there /\ h[j].rate = h[i].rate /\ ~h[j].deleted
      BY <1>1, <2>1
    <2>4. \A k \in (j + 1)..(i - 1) : ~h[k].there
      BY <1>1, <1>2, <2>1, <2>2
    <2> QED BY <1>2, <1>6, <2>1, <2>3, <2>4 DEF NoRepeats, Repeats
  <1>7. last # 0 => new[last].rate = h[last].rate
    BY <1>1, <1>2
  <1> QED BY <1>4, <1>5, <1>6, <1>7 DEF new, last

\* A deleted provider has no row left.
LEMMA ErasedIs ==
    ASSUME NEW h, Proper(h)
    PROVE  LET new == Erased(h) IN Proper(new) /\ Latest(new) = 0 /\ NoRepeats(new)
  <1> DEFINE new == Erased(h)
  <1>1. /\ new \in Seq(SnapshotRow) /\ Len(new) = Len(h) /\ DOMAIN new = 1..Len(h)
        /\ \A i \in 1..Len(h) : ~new[i].there
    <2>1. Len(h) \in Nat /\ h \in [1..Len(h) -> SnapshotRow] /\ DOMAIN h = 1..Len(h)
      BY ProperFacts, LenProperties
    <2>2. \A i \in 1..Len(h) : [h[i] EXCEPT !.there = FALSE] \in SnapshotRow
      BY <2>1 DEF SnapshotRow
    <2>3. new \in [1..Len(h) -> SnapshotRow]
      BY <2>1, <2>2 DEF Erased
    <2>4. \A i \in 1..Len(h) : ~new[i].there
      BY <2>1 DEF Erased, SnapshotRow
    <2> HIDE DEF new
    <2>5. new \in Seq(SnapshotRow) /\ Len(new) = Len(h)
      BY <2>1, <2>3, SeqDef, LenProperties
    <2> QED BY <2>1, <2>3, <2>4, <2>5
  <1> HIDE DEF new
  <1>2. LastOf(new, 0)
    BY <1>1, ProperFacts DEF LastOf
  <1>3. NoRepeats(new)
    BY <1>1 DEF NoRepeats, Repeats
  <1> QED BY <1>1, <1>2, <1>3, LatestIs DEF new

\* What Reconcile reads of a history.
LEMMA FoundIs ==
    ASSUME NEW h, Proper(h)
    PROVE  /\ Found(h) \in FoundRow /\ Found(h).id = Latest(h) /\ Found(h).id \in 0..Len(h)
           /\ Latest(h) # 0 => /\ Found(h).rate = h[Latest(h)].rate /\ Found(h).rate # Absent
                               /\ Found(h).deleted = h[Latest(h)].deleted
  <1>1. /\ Len(h) \in Nat /\ Latest(h) \in 0..Len(h)
        /\ \A i \in 1..Len(h) : h[i].rate \in Rates /\ h[i].deleted \in BOOLEAN
    BY ProperFacts DEF SnapshotRow
  <1>2. CASE Latest(h) = 0
    BY <1>2 DEF Found, NoRow, FoundRow
  <1>3. CASE Latest(h) # 0
    <2>1. Found(h) = [id |-> Latest(h), rate |-> h[Latest(h)].rate,
                      deleted |-> h[Latest(h)].deleted]
      BY <1>3 DEF Found
    <2>2. Latest(h) \in 1..Len(h) /\ Latest(h) \in Nat
      BY <1>1, <1>3
    <2> QED BY <1>1, <2>1, <2>2, RatesAssumption DEF FoundRow
  <1> QED BY <1>2, <1>3

-----------------------------------------------------------------------------
(***************************************************************************)
(* A run and its provider                                                  *)
(***************************************************************************)
\* What no step of a run does to another run or to another provider.
Apart(r, p) ==
    /\ \A x \in Runs \ {r} :
           /\ pc'[x] = pc[x] /\ kind'[x] = kind[x] /\ of'[x] = of[x]
           /\ seen'[x] = seen[x] /\ found'[x] = found[x] /\ (of[x] # p => mine'[x] = mine[x])
    /\ \A q \in Providers \ {p} :
           /\ rows'[q] = rows[q] /\ told'[q] = told[q] /\ fresh'[q] = fresh[q]
           /\ failures'[q] = failures[q] /\ backoff'[q] = backoff[q]
    /\ pc'[r] = "idle" \/ of'[r] = p
    /\ overlapped' = overlapped /\ broken \subseteq broken'

\* Nothing happened to q and its runs.
Untouched(q) ==
    /\ rows'[q] = rows[q] /\ told'[q] = told[q] /\ fresh'[q] = fresh[q]
    /\ failures'[q] = failures[q] /\ backoff'[q] = backoff[q]
    /\ q \in overlapped => q \in overlapped'
    /\ q \in broken => q \in broken'
    /\ \A x \in Runs : (pc'[x] # "idle" /\ of'[x] = q) <=> (pc[x] # "idle" /\ of[x] = q)
    /\ \A x \in Runs : pc[x] # "idle" /\ of[x] = q =>
           /\ pc'[x] = pc[x] /\ kind'[x] = kind[x] /\ mine'[x] = mine[x]
           /\ seen'[x] = seen[x] /\ found'[x] = found[x]

\* What a provider owes does not change while nothing happens to it and its runs.
LEMMA UntouchedKeeps ==
    ASSUME NEW q \in Providers, OfProvider(q), Untouched(q) PROVE OfProvider(q)'
  <1>1. BusyWith(q)' = BusyWith(q)
    BY DEF Untouched, BusyWith, Busy
  <1>2. q \notin overlapped' => \A r, x \in BusyWith(q)' : r = x
    BY <1>1 DEF OfProvider, Untouched
  <1>3. ASSUME NEW r \in BusyWith(q)' PROVE Own(r, q)'
    <2>1. r \in Runs /\ pc[r] # "idle" /\ of[r] = q /\ Own(r, q)
      BY <1>1, <1>3 DEF BusyWith, Busy, OfProvider
    <2> QED BY <2>1 DEF Untouched, Own, LastRate
  <1>4. BusyWith(q)' = {} => Resting(q)'
    BY <1>1 DEF OfProvider, Resting, Untouched, LastRate
  <1> QED BY <1>2, <1>3, <1>4 DEF OfProvider

\* A step of a run keeps what every provider owes if it keeps what its own owes.
LEMMA ActingRun ==
    ASSUME IInv, NEW r \in Runs, NEW p \in Providers, Busy(r), of[r] = p, Apart(r, p), Own(r, p)'
    PROVE  \A q \in Providers : OfProvider(q)'
  <1>1. ASSUME NEW q \in Providers, q # p PROVE OfProvider(q)'
    <2>1. Untouched(q)
      BY <1>1 DEF Apart, Untouched, Busy
    <2> QED BY <2>1, UntouchedKeeps DEF IInv
  <1>2. OfProvider(p)'
    <2>1. OfProvider(p)
      BY DEF IInv
    <2>2. BusyWith(p)' \subseteq BusyWith(p)
      BY DEF BusyWith, Busy, Apart
    <2>3. p \notin overlapped' => \A x, y \in BusyWith(p)' : x = y
      BY <2>1, <2>2 DEF OfProvider, Apart
    <2>4. ASSUME NEW x \in BusyWith(p)', x # r PROVE Own(x, p)'
      <3>1. x \in BusyWith(p) /\ r \in BusyWith(p)
        BY <2>2, <2>4 DEF BusyWith
      <3>2. p \in overlapped'
        BY <2>1, <2>4, <3>1 DEF OfProvider, Apart
      <3> QED BY <3>2 DEF Own
    <2>5. BusyWith(p)' = {} => Resting(p)'
      <3> SUFFICES ASSUME BusyWith(p)' = {} PROVE Resting(p)'
        OBVIOUS
      <3>1. pc'[r] = "idle"
        BY DEF BusyWith, Busy, Apart
      <3> QED BY <3>1 DEF Own, Resting, LastRate
    <2> QED BY <2>3, <2>4, <2>5 DEF OfProvider
  <1> QED BY <1>1, <1>2

\* A run that starts for a provider that had none owes what the provider owed.
LEMMA StartOwes ==
    ASSUME IInv, NEW r \in Runs, NEW p \in Providers, NEW who, NEW at, NEW n,
           Start(r, p, who, at, n),
           at \in {"gate", "load"} \/ (at = "collect" /\ who = "byhand"),
           UNCHANGED <<rows, told, fresh, failures, backoff, broken>>
    PROVE  \A q \in Providers : OfProvider(q)'
  <1>1. /\ pc[r] = "idle" /\ pc'[r] = at /\ of'[r] = p /\ kind'[r] = who /\ at # "idle"
        /\ \A x \in Runs \ {r} : pc'[x] = pc[x] /\ kind'[x] = kind[x] /\ of'[x] = of[x]
        /\ UNCHANGED <<mine, seen, found>>
        /\ overlapped' = IF BusyWith(p) = {} THEN overlapped ELSE overlapped \cup {p}
    BY DEF Start, Busy, IInv, Shape, RunShape
  <1>2. ASSUME NEW q \in Providers, q # p PROVE OfProvider(q)'
    <2>1. Untouched(q)
      BY <1>1, <1>2 DEF Untouched
    <2> QED BY <2>1, UntouchedKeeps DEF IInv
  <1>3. OfProvider(p)'
    <2>1. r \in BusyWith(p)'
      BY <1>1 DEF BusyWith, Busy
    <2>2. CASE BusyWith(p) = {}
      <3>1. BusyWith(p)' = {r}
        BY <1>1, <2>1, <2>2 DEF BusyWith, Busy
      <3>2. Own(r, p)'
        BY <1>1, <2>2 DEF IInv, OfProvider, Resting, Own, LastRate
      <3> QED BY <3>1, <3>2 DEF OfProvider
    <2>3. CASE BusyWith(p) # {}
      <3>1. p \in overlapped'
        BY <1>1, <2>3
      <3> QED BY <2>1, <3>1 DEF OfProvider, Own
    <2> QED BY <2>2, <2>3
  <1> QED BY <1>2, <1>3

\* A run under way owes what Own says.
LEMMA RunOwes ==
    ASSUME IInv, NEW r \in Runs, NEW p \in Providers, Busy(r), of[r] = p
    PROVE  Own(r, p) /\ Proper(rows[p])
  BY DEF IInv, Shape, SiteShape, OfProvider, BusyWith

-----------------------------------------------------------------------------
(***************************************************************************)
(* What Reconcile writes                                                   *)
(***************************************************************************)
LEMMA WriteObservedOwes ==
    ASSUME SyncAssumption, IInv, NEW r \in Runs, NEW p \in Providers, of[r] = p, WriteObserved(r)
    PROVE  Apart(r, p) /\ Own(r, p)' /\ SiteShape' /\ Len(rows'[p]) >= Len(rows[p])
  <1> DEFINE h == rows[p]
             f == found[r]
             s == seen[r]
             new == CASE Inserts(f, s) -> Inserted(h, s)
                      [] Marks(f, s) -> MarkedDeleted(h, f.id)
                      [] OTHER -> h
  <1>1. /\ Proper(h) /\ Own(r, p) /\ pc[r] = "write"
        /\ f \in FoundRow /\ s \in Rates \cup {Absent} /\ f.id <= Len(h)
        /\ Len(h) \in Nat /\ f.id \in Nat
    BY RunOwes, ProperFacts DEF WriteObserved, Busy, IInv, Shape, RunShape, Pointers, FoundRow
  <1>2. /\ rows' = [rows EXCEPT ![p] = new]
        /\ IF IsEvent(f, s) THEN pc' = [pc EXCEPT ![r] = "tell"] /\ seen' = seen
           ELSE pc' = [pc EXCEPT ![r] = "record"] /\ seen' = [seen EXCEPT ![r] = Absent]
        /\ found' = [found EXCEPT ![r] = NoRow]
        /\ told' = IF f.id = 0 /\ s # Absent THEN [told EXCEPT ![p] = s] ELSE told
        /\ UNCHANGED <<provider, truth, fresh, failures, backoff, kind, of, mine>>
        /\ UNCHANGED <<overlapped, broken>>
    BY DEF WriteObserved, Goto
  <1>3. rows'[p] = new /\ \A q \in Providers \ {p} : rows'[q] = rows[q]
    BY <1>2 DEF IInv, Shape, SiteShape
  <1>4. /\ \A x \in Runs \ {r} : pc'[x] = pc[x] /\ seen'[x] = seen[x] /\ found'[x] = found[x]
        /\ pc'[r] = IF IsEvent(f, s) THEN "tell" ELSE "record"
        /\ IsEvent(f, s) => seen'[r] = s
        /\ \A q \in Providers \ {p} : told'[q] = told[q]
        /\ told'[p] = IF f.id = 0 /\ s # Absent THEN s ELSE told[p]
    BY <1>2 DEF IInv, Shape, RunShape, SiteShape
  <1>5. Apart(r, p)
    BY <1>2, <1>3, <1>4 DEF Apart
  <1> HIDE DEF new
  <1>9. ASSUME Proper(new) PROVE SiteShape'
    <2>1. DOMAIN rows' = Providers /\ rows' = [q \in Providers |-> rows'[q]]
      BY <1>2 DEF IInv, Shape, SiteShape
    <2>2. \A q \in Providers : Proper(rows'[q])
      BY <1>3, <1>9 DEF IInv, Shape, SiteShape
    <2>3. told' \in [Providers -> Rates \cup {Absent}]
      BY <1>1, <1>2 DEF IInv, Shape, SiteShape
    <2> QED BY <1>2, <2>1, <2>2, <2>3 DEF IInv, Shape, SiteShape
  <1>6. CASE Inserts(f, s)
    <2>1. s \in Rates /\ new = Inserted(h, s)
      <3>1. s \in Rates
        BY <1>1, <1>6 DEF Inserts
      <3>2. new = Inserted(h, s)
        BY <1>6 DEF new, Inserts, Marks
      <3> QED BY <3>1, <3>2
    <2>2. /\ Proper(new) /\ Latest(new) = Len(h) + 1 /\ new[Latest(new)].rate = s
          /\ NoRepeats(h) /\ (Latest(h) # 0 => h[Latest(h)].deleted \/ h[Latest(h)].rate # s)
                 => NoRepeats(new)
      BY <1>1, <2>1, InsertedIs
    <2>3. p \notin overlapped => NoRepeats(new)
      BY <1>1, <1>6, <2>2, FoundIs DEF Own, Inserts
    <2>4. p \notin overlapped \cup broken =>
              \/ pc'[r] = "tell" /\ seen'[r] = s /\ s # Absent
              \/ pc'[r] = "record" /\ told'[p] = s
      <3>1. CASE IsEvent(f, s)
        BY <1>4, <3>1 DEF IsEvent
      <3>2. CASE f.id = 0
        BY <1>4, <1>6, <3>2 DEF IsEvent, Inserts
      <3>3. CASE ~IsEvent(f, s) /\ f.id # 0
        <4>1. f.rate = s /\ s # Absent
          BY <1>6, <3>3 DEF IsEvent, Inserts
        <4>2. p \notin overlapped \cup broken => told[p] = f.rate
          BY <1>1, <3>3 DEF Own
        <4> QED BY <1>4, <3>3, <4>1, <4>2
      <3> QED BY <3>1, <3>2, <3>3
    <2>5. Len(new) >= Len(h) /\ Proper(new)
      BY <1>1, <2>2, ProperFacts
    <2>6. Own(r, p)'
      <3>1. rows'[p] = new /\ LastRate(p)' = s /\ pc'[r] \in {"tell", "record"}
        BY <1>3, <1>4, <2>2 DEF LastRate
      <3> QED BY <1>1, <1>2, <2>3, <2>4, <3>1 DEF Own
    <2> QED BY <1>3, <1>5, <1>9, <2>5, <2>6
  <1>7. CASE ~Inserts(f, s) /\ Marks(f, s)
    <2>1. f.id \in 1..Len(h) /\ new = MarkedDeleted(h, f.id) /\ s = Absent
      BY <1>1, <1>7 DEF Marks, new
    <2>2. /\ Proper(new) /\ Latest(new) = Latest(h)
          /\ Latest(h) # 0 => new[Latest(h)].rate = h[Latest(h)].rate
          /\ NoRepeats(h) => NoRepeats(new)
      BY <1>1, <2>1, MarkedIs
    <2>3. Len(new) >= Len(h)
      BY <1>1, <2>1, ProperFacts DEF MarkedDeleted
    <2>4. told'[p] = told[p] /\ pc'[r] = "record"
      BY <1>4, <2>1 DEF IsEvent
    <2>5. Own(r, p)'
      BY <1>1, <1>2, <1>3, <2>2, <2>4 DEF Own, LastRate
    <2> QED BY <1>3, <1>5, <1>9, <2>2, <2>3, <2>5
  <1>8. CASE ~Inserts(f, s) /\ ~Marks(f, s)
    <2>1. new = h
      BY <1>8 DEF new
    <2>2. pc'[r] = "record" /\ told'[p] = told[p]
      BY <1>4, <1>8 DEF IsEvent, Inserts
    <2>3. Own(r, p)'
      BY <1>1, <1>2, <1>3, <2>1, <2>2 DEF Own, LastRate
    <2> QED BY <1>1, <1>3, <1>5, <1>9, <2>1, <2>3
  <1> QED BY <1>6, <1>7, <1>8

-----------------------------------------------------------------------------
(***************************************************************************)
(* What a step of a run leaves                                             *)
(***************************************************************************)
\* How a step of a run leaves the scheduler: the run goes on; it ends and sets the timer
\* of its provider; it was no timer's; or its provider is gone.
Hands(r) ==
    \/ UNCHANGED <<timer, missed>> /\ pc'[r] # "idle" /\ kind'[r] = kind[r] /\ of'[r] = of[r]
    \/ Schedules({of[r]})
    \/ UNCHANGED <<timer, missed>> /\ kind[r] # "timer"
    \/ /\ provider[of[r]] = "gone" /\ missed' = missed
       /\ timer' = IF kind[r] = "timer" THEN timer \ {of[r]} ELSE timer

SameSchedule == UNCHANGED <<provider, enabled, stopped, rebuild, changed, deleting>>

\* A step of a run that hands its provider on, in one of these ways, forgets nobody.
LEMMA HandsKeep ==
    ASSUME IInv, NEW r \in Runs, Hands(r), SameSchedule,
           \A x \in Runs \ {r} : pc'[x] = pc[x] /\ kind'[x] = kind[x] /\ of'[x] = of[x]
    PROVE  NeverForgotten'
  <1> SUFFICES ASSUME NEW q \in Providers, Active(q)', ~(Scheduled(q)' \/ (q \in missed)')
               PROVE  FALSE
    BY DEF NeverForgotten
  <1>1. Active(q) /\ enabled /\ ~stopped
    BY DEF Active, SameSchedule
  <1>2. Scheduled(q) \/ q \in missed
    BY <1>1 DEF IInv, NeverForgotten
  <1>3. /\ q \notin timer' \cup changed /\ q \notin missed'
        /\ \A k \in Rebuilders : rebuild[k].at # "list" /\ q \notin rebuild[k].listed
        /\ \A x \in Runs : pc'[x] # "idle" /\ of'[x] = q => kind'[x] # "timer"
    BY DEF Scheduled, SameSchedule, BusyWith, Busy
  <1>4. \/ q \in timer \/ q \in missed
        \/ pc[r] # "idle" /\ of[r] = q /\ kind[r] = "timer"
    BY <1>2, <1>3 DEF Scheduled, BusyWith, Busy
  <1>5. CASE Schedules({of[r]})
    BY <1>1, <1>3, <1>4, <1>5 DEF Schedules
  <1>6. CASE provider[of[r]] = "gone" /\ missed' = missed
             /\ timer' = IF kind[r] = "timer" THEN timer \ {of[r]} ELSE timer
    BY <1>1, <1>3, <1>4, <1>6 DEF Active
  <1> QED BY <1>3, <1>4, <1>5, <1>6 DEF Hands

\* A run that goes on moves alone.
LEMMA GotoIs ==
    ASSUME IInv, NEW r \in Runs, NEW l \in Places, Goto(r, l)
    PROVE  /\ pc' \in [Runs -> Places] /\ pc'[r] = l
           /\ \A x \in Runs \ {r} : pc'[x] = pc[x]
  BY DEF Goto, IInv, Shape, RunShape

\* A run that ends leaves the shape of the runs, and the other runs, as they were.
LEMMA ForgetIs ==
    ASSUME SyncAssumption, IInv, NEW r \in Runs, Forget(r)
    PROVE  /\ RunShape' /\ pc'[r] = "idle"
           /\ \A x \in Runs \ {r} :
                  /\ pc'[x] = pc[x] /\ kind'[x] = kind[x] /\ of'[x] = of[x]
                  /\ mine'[x] = mine[x] /\ seen'[x] = seen[x] /\ found'[x] = found[x]
  <1>1. SomeProvider \in Providers
    BY DEF SyncAssumption, SomeProvider
  <1>2. NoRow \in FoundRow
    BY DEF NoRow, FoundRow
  <1> QED BY <1>1, <1>2 DEF Forget, Goto, IInv, Shape, RunShape, Places

\* The end of a run hands its provider on.
LEMMA ReturnIs ==
    ASSUME SyncAssumption, IInv, NEW r \in Runs, Return(r)
    PROVE  /\ RunShape' /\ pc'[r] = "idle" /\ Hands(r)
           /\ \A x \in Runs \ {r} :
                  /\ pc'[x] = pc[x] /\ kind'[x] = kind[x] /\ of'[x] = of[x]
                  /\ mine'[x] = mine[x] /\ seen'[x] = seen[x] /\ found'[x] = found[x]
  <1>1. Forget(r)
    BY DEF Return
  <1>2. Hands(r)
    BY DEF Return, Again, Hands
  <1> QED BY <1>1, <1>2, ForgetIs

\* What a step of a run has to show.
LEMMA RunStep ==
    ASSUME IInv, NEW r \in Runs, NEW p \in Providers, of[r] = p, Busy(r), Apart(r, p), Own(r, p)',
           RunShape', SiteShape', SameSchedule, Hands(r), Len(rows'[p]) >= Len(rows[p]),
           pc'[r] = "write" => found'[r].id <= Len(rows'[p])
    PROVE  IInv'
  <1>1. SchedulerShape' /\ Deletes'
    BY DEF SameSchedule, IInv, Shape, SchedulerShape, Deletes
  <1>2. NeverForgotten'
    BY HandsKeep DEF Apart
  <1>3. Pointers'
    <2> SUFFICES ASSUME NEW x \in Runs, pc'[x] = "write" PROVE found'[x].id <= Len(rows'[of'[x]])
      BY DEF Pointers
    <2>1. CASE x = r
      BY <2>1 DEF Apart
    <2>2. CASE x # r
      <3>1. found[x].id <= Len(rows[of[x]]) /\ found'[x] = found[x] /\ of'[x] = of[x]
        BY <2>2 DEF Apart, IInv, Pointers
      <3>2. of[x] \in Providers /\ found[x].id \in Nat
        BY DEF IInv, Shape, RunShape, FoundRow
      <3>3. CASE of[x] = p
        <4>1. Len(rows[p]) \in Nat /\ Len(rows'[p]) \in Nat
          BY ProperFacts DEF IInv, Shape, SiteShape, Proper
        <4> QED BY <3>1, <3>2, <3>3, <4>1
      <3>4. CASE of[x] # p
        BY <3>1, <3>2, <3>4 DEF Apart
      <3> QED BY <3>3, <3>4
    <2> QED BY <2>1, <2>2
  <1>4. \A q \in Providers : OfProvider(q)'
    BY ActingRun
  <1> QED BY <1>1, <1>2, <1>3, <1>4 DEF IInv, Shape

-----------------------------------------------------------------------------
(***************************************************************************)
(* The steps of a run                                                      *)
(***************************************************************************)
\* What stays when a step leaves the database alone.
LEMMA SameDatabase ==
    ASSUME IInv, UNCHANGED <<dbVars, told>>
    PROVE  /\ SiteShape'
           /\ \A p \in Providers : /\ Len(rows'[p]) \in Nat /\ Len(rows'[p]) >= Len(rows[p])
                                   /\ Proper(rows'[p])
  <1>1. SiteShape'
    BY DEF dbVars, IInv, Shape, SiteShape
  <1>2. rows' = rows /\ \A p \in Providers : Proper(rows[p])
    BY DEF dbVars, IInv, Shape, SiteShape
  <1>3. \A p \in Providers : Len(rows[p]) \in Nat
    BY <1>2, ProperFacts
  <1> QED BY <1>1, <1>2, <1>3

\* The counter of failures after one more is never zero.
LEMMA FailureCount ==
    ASSUME NEW n \in 0..2 PROVE Min({n + 1, 2}) \in 1..2
  <1> DEFINE S == {n + 1, 2}
  <1>1. \E m \in S : \A y \in S : m <= y
    <2>1. CASE n + 1 <= 2
      BY <2>1
    <2>2. CASE n + 1 > 2
      BY <2>2
    <2> QED BY <2>1, <2>2
  <1>2. Min(S) \in S
    BY <1>1 DEF Min
  <1>3. Min(S) <= 2
    BY <1>1 DEF Min
  <1> QED BY <1>2, <1>3

\* The backoff is looked up, the provider is loaded.
LEMMA OpeningSteps ==
    ASSUME SyncAssumption, IInv, NEW r \in Runs, NEW p \in Providers, of[r] = p,
           Gate(r) \/ LoadGone(r) \/ LoadSkips(r) \/ Load(r)
    PROVE  IInv'
  <1>1. Busy(r)
    BY DEF Gate, LoadGone, LoadSkips, Load, Busy
  <1>2. Own(r, p)
    BY <1>1, RunOwes
  <1>3. UNCHANGED <<dbVars, told>>
    BY DEF Gate, LoadGone, LoadSkips, Load, history
  <1>4. SiteShape' /\ Len(rows'[p]) >= Len(rows[p])
    BY <1>1, <1>3, SameDatabase
  <1>5. SameSchedule /\ UNCHANGED <<overlapped, broken>>
    BY DEF Gate, LoadGone, LoadSkips, Load, SameSchedule, dbVars, schedVars, history
  <1>6. CASE Forget(r) /\ pc[r] \in {"gate", "load"} /\ Hands(r)
    <2>1. RunShape' /\ pc'[r] = "idle" /\ Apart(r, p)
      BY <1>1, <1>3, <1>5, <1>6, ForgetIs DEF Apart, dbVars
    <2>2. Own(r, p)'
      BY <1>2, <1>3, <1>5, <1>6, <2>1 DEF Own, LastRate, dbVars
    <2> QED BY <1>1, <1>4, <1>5, <1>6, <2>1, <2>2, RunStep
  <1>7. CASE pc[r] = "gate" /\ Goto(r, "load")
             /\ UNCHANGED <<timer, missed, kind, of, mine, got, seen, found>>
    <2>1. RunShape' /\ pc'[r] = "load" /\ Apart(r, p) /\ Hands(r)
      BY <1>1, <1>3, <1>5, <1>7, GotoIs DEF Apart, dbVars, Hands, Places, IInv, Shape, RunShape
    <2>2. Own(r, p)'
      BY <1>2, <1>3, <1>5, <1>7, <2>1 DEF Own, LastRate, dbVars
    <2> QED BY <1>1, <1>4, <1>5, <2>1, <2>2, RunStep
  <1>8. CASE Load(r)
    <2>1. RunShape' /\ pc[r] = "load" /\ pc'[r] = "collect" /\ Apart(r, p) /\ Hands(r)
      <3>1. /\ pc' \in [Runs -> Places] /\ pc'[r] = "collect"
            /\ \A x \in Runs \ {r} : pc'[x] = pc[x]
        BY <1>8, GotoIs DEF Load, Places
      <3> QED BY <1>1, <1>3, <1>5, <1>8, <3>1
              DEF Load, Apart, dbVars, schedVars, history, Hands, IInv, Shape, RunShape, SiteShape
    <2>2. mine'[r] = fresh[p]
      BY <1>8 DEF Load, IInv, Shape, RunShape
    <2>3. Own(r, p)'
      BY <1>2, <1>3, <1>5, <2>1, <2>2 DEF Own, LastRate, dbVars
    <2> QED BY <1>1, <1>4, <1>5, <2>1, <2>3, RunStep
  <1>9. ASSUME LoadGone(r) PROVE Forget(r) /\ pc[r] = "load" /\ Hands(r)
    BY <1>9 DEF LoadGone, Hands, history
  <1>10. ASSUME LoadSkips(r) PROVE Forget(r) /\ pc[r] = "load" /\ Hands(r)
    BY <1>10, ReturnIs DEF LoadSkips, Return
  <1>11. ASSUME Gate(r) PROVE \/ Forget(r) /\ pc[r] = "gate" /\ Hands(r)
                              \/ /\ pc[r] = "gate" /\ Goto(r, "load")
                                 /\ UNCHANGED <<timer, missed, kind, of, mine, got, seen, found>>
    BY <1>11 DEF Gate, Again, Hands
  <1> QED BY <1>6, <1>7, <1>8, <1>9, <1>10, <1>11

\* The balance is fetched, stored as a snapshot, and copied to the cache.
LEMMA BalanceSteps ==
    ASSUME SyncAssumption, IInv, NEW r \in Runs, NEW p \in Providers, of[r] = p,
           CollectBalance(r) \/ CollectFails(r) \/ SnapshotFails(r) \/ UpdateBalanceCache(r)
    PROVE  IInv'
  <1>1. Busy(r) /\ pc[r] \in {"collect", "cache"}
    BY DEF CollectBalance, CollectFails, SnapshotFails, UpdateBalanceCache, Busy
  <1>2. Own(r, p) /\ fresh[p] \in BOOLEAN /\ mine[r] \in BOOLEAN
    BY <1>1, RunOwes DEF IInv, Shape, RunShape, SiteShape
  <1>3. UNCHANGED <<provider, truth, rows, failures, backoff, told>>
    BY DEF CollectBalance, CollectFails, SnapshotFails, UpdateBalanceCache, dbVars, history
  <1>4. /\ Len(rows'[p]) >= Len(rows[p])
        /\ fresh' \in [Providers -> BOOLEAN] => SiteShape'
    <2>1. Len(rows[p]) \in Nat
      BY ProperFacts DEF IInv, Shape, SiteShape
    <2> QED BY <1>3, <2>1 DEF IInv, Shape, SiteShape
  <1>5. SameSchedule /\ UNCHANGED <<overlapped, broken>>
    BY <1>3 DEF CollectBalance, CollectFails, SnapshotFails, UpdateBalanceCache, SameSchedule,
                schedVars, history
  <1>6. CASE CollectBalance(r)
    <2>1. /\ pc' \in [Runs -> Places] /\ pc'[r] = "cache"
          /\ \A x \in Runs \ {r} : pc'[x] = pc[x]
      BY <1>6, GotoIs DEF CollectBalance, Places
    <2>2. /\ mine' \in [Runs -> BOOLEAN] /\ mine'[r] = TRUE
          /\ \A x \in Runs : of[x] # p => mine'[x] = mine[x]
      BY <1>6 DEF CollectBalance, NewSnapshot, IInv, Shape, RunShape
    <2>3. RunShape'
      BY <1>6, <2>1, <2>2 DEF CollectBalance, IInv, Shape, RunShape
    <2>4. /\ fresh' \in [Providers -> BOOLEAN]
          /\ \A q \in Providers \ {p} : fresh'[q] = fresh[q]
      BY <1>6 DEF CollectBalance, NewSnapshot, IInv, Shape, SiteShape
    <2>5. Apart(r, p) /\ Hands(r)
      BY <1>3, <1>5, <1>6, <2>1, <2>2, <2>4 DEF CollectBalance, Apart, Hands, schedVars, history
    <2>6. Own(r, p)'
      BY <1>2, <1>3, <1>5, <1>6, <2>1, <2>2 DEF CollectBalance, Own, LastRate
    <2> QED BY <1>1, <1>4, <1>5, <2>1, <2>3, <2>4, <2>5, <2>6, RunStep
  <1>7. CASE CollectFails(r)
    <2>1. /\ pc' \in [Runs -> Places] /\ pc'[r] = "cache"
          /\ \A x \in Runs \ {r} : pc'[x] = pc[x]
      BY <1>7, GotoIs DEF CollectFails, Places
    <2>2. RunShape' /\ SiteShape'
      BY <1>4, <1>7, <2>1 DEF CollectFails, dbVars, IInv, Shape, RunShape, SiteShape
    <2>3. Apart(r, p) /\ Hands(r)
      BY <1>3, <1>5, <1>7, <2>1 DEF CollectFails, Apart, Hands, dbVars, schedVars, history
    <2>4. Own(r, p)'
      BY <1>2, <1>3, <1>5, <1>7, <2>1 DEF CollectFails, Own, LastRate, dbVars
    <2> QED BY <1>1, <1>4, <1>5, <2>1, <2>2, <2>3, <2>4, RunStep
  <1>8. CASE SnapshotFails(r)
    <2>1. pc[r] = "collect" /\ fresh' = fresh /\ SiteShape'
      BY <1>4, <1>8 DEF SnapshotFails, dbVars, IInv, Shape, SiteShape
    <2>2. CASE Return(r)
      <3>1. RunShape' /\ pc'[r] = "idle" /\ Apart(r, p) /\ Hands(r)
        BY <1>3, <1>5, <2>1, <2>2, ReturnIs DEF Apart
      <3>2. Own(r, p)'
        BY <1>2, <1>3, <1>5, <2>1, <3>1 DEF Own, LastRate
      <3> QED BY <1>1, <1>4, <1>5, <2>1, <3>1, <3>2, RunStep
    <2>3. CASE Goto(r, "record") /\ UNCHANGED <<kind, of, mine, got, seen, found, timer, missed>>
      <3>1. RunShape' /\ pc'[r] = "record" /\ Apart(r, p) /\ Hands(r)
        BY <1>3, <1>5, <2>1, <2>3, GotoIs DEF Apart, Hands, Places, IInv, Shape, RunShape
      <3>2. Own(r, p)'
        BY <1>2, <1>3, <1>5, <2>1, <3>1 DEF Own, LastRate
      <3> QED BY <1>1, <1>4, <1>5, <2>1, <3>1, <3>2, RunStep
    <2> QED BY <1>8, <2>2, <2>3 DEF SnapshotFails
  <1>9. CASE UpdateBalanceCache(r)
    <2>1. pc[r] = "cache" /\ fresh' = [fresh EXCEPT ![p] = mine[r]]
      BY <1>9 DEF UpdateBalanceCache, ToCache
    <2>2. /\ SiteShape' /\ fresh'[p] = mine[r]
          /\ \A q \in Providers \ {p} : fresh'[q] = fresh[q]
      BY <1>2, <1>4, <2>1 DEF IInv, Shape, SiteShape
    <2>3. CASE Return(r)
      <3>1. RunShape' /\ pc'[r] = "idle" /\ Apart(r, p) /\ Hands(r)
        BY <1>3, <1>5, <2>2, <2>3, ReturnIs DEF Apart
      <3>2. Own(r, p)'
        BY <1>2, <1>3, <1>5, <2>1, <2>2, <3>1 DEF Own, LastRate
      <3> QED BY <1>1, <1>4, <1>5, <2>2, <3>1, <3>2, RunStep
    <2>4. CASE /\ Goto(r, IF got[r] = "balance" THEN "rates" ELSE "record")
               /\ mine' = [mine EXCEPT ![r] = FALSE]
               /\ UNCHANGED <<kind, of, got, seen, found, timer, missed>>
      <3>1. /\ pc' \in [Runs -> Places] /\ pc'[r] \in {"rates", "record"}
            /\ \A x \in Runs \ {r} : pc'[x] = pc[x]
        BY <2>4, GotoIs DEF Places
      <3>2. RunShape' /\ Apart(r, p) /\ Hands(r)
        BY <1>3, <1>5, <2>2, <2>4, <3>1 DEF Apart, Hands, IInv, Shape, RunShape
      <3>3. Own(r, p)'
        BY <1>2, <1>3, <1>5, <2>1, <2>2, <3>1 DEF Own, LastRate
      <3> QED BY <1>1, <1>4, <1>5, <2>2, <3>1, <3>2, <3>3, RunStep
    <2> QED BY <1>9, <2>3, <2>4 DEF UpdateBalanceCache
  <1> QED BY <1>6, <1>7, <1>8, <1>9

\* The rates are fetched, compared and written, and a change is told.
LEMMA RateSteps ==
    ASSUME SyncAssumption, IInv, NEW r \in Runs, NEW p \in Providers, of[r] = p,
           FetchRates(r) \/ FetchFails(r) \/ ReadCurrent(r) \/ WriteObserved(r) \/ TellChange(r)
    PROVE  IInv'
  <1>1. Busy(r) /\ pc[r] \in {"rates", "read", "write", "tell"}
    BY DEF FetchRates, FetchFails, ReadCurrent, WriteObserved, TellChange, Busy
  <1>2. Own(r, p) /\ Proper(rows[p])
    BY <1>1, RunOwes
  <1>3. /\ UNCHANGED <<provider, fresh, failures, backoff, kind, of, mine, timer, missed>>
        /\ UNCHANGED <<got, overlapped, broken>> /\ SameSchedule
    BY DEF FetchRates, FetchFails, ReadCurrent, WriteObserved, TellChange, SameSchedule,
           dbVars, schedVars, history
  <1>4. \E l \in {"read", "write", "tell", "record"} : Goto(r, l)
    BY DEF FetchRates, FetchFails, ReadCurrent, WriteObserved, TellChange
  <1>5. /\ pc' \in [Runs -> Places] /\ pc'[r] # "idle"
        /\ \A x \in Runs \ {r} : pc'[x] = pc[x]
    BY <1>4, GotoIs DEF Places
  <1>6. Hands(r)
    BY <1>3, <1>5 DEF Hands
  <1>7. CASE FetchRates(r) \/ FetchFails(r)
    <2>1. UNCHANGED <<dbVars, told, found>> /\ pc'[r] \in {"read", "record"}
      BY <1>7, GotoIs DEF FetchRates, FetchFails, history, Places
    <2>2. /\ seen' \in [Runs -> Rates \cup {Absent}]
          /\ \A x \in Runs \ {r} : seen'[x] = seen[x]
      BY <1>7 DEF FetchRates, FetchFails, IInv, Shape, RunShape, SiteShape
    <2>3. RunShape' /\ Apart(r, p)
      BY <1>3, <1>5, <2>1, <2>2 DEF Apart, dbVars, IInv, Shape, RunShape
    <2>4. Own(r, p)'
      BY <1>1, <1>2, <1>3, <1>7, <2>1 DEF Own, LastRate, dbVars, FetchRates, FetchFails
    <2> QED BY <1>1, <1>3, <1>6, <2>1, <2>3, <2>4, SameDatabase, RunStep
  <1>8. CASE ReadCurrent(r)
    <2>1. UNCHANGED <<dbVars, told, seen>> /\ pc[r] = "read" /\ pc'[r] = "write"
      BY <1>8, GotoIs DEF ReadCurrent, history, Places
    <2>2. found' = [found EXCEPT ![r] = Found(rows[p])]
      BY <1>8 DEF ReadCurrent
    <2>3. /\ Found(rows[p]) \in FoundRow /\ Found(rows[p]).id = Latest(rows[p])
          /\ Found(rows[p]).id \in 0..Len(rows[p])
          /\ Latest(rows[p]) # 0 => Found(rows[p]).rate = LastRate(p)
      BY <1>2, FoundIs DEF LastRate
    <2>4. /\ found' \in [Runs -> FoundRow] /\ found'[r] = Found(rows[p])
          /\ \A x \in Runs \ {r} : found'[x] = found[x]
      BY <2>2, <2>3 DEF IInv, Shape, RunShape
    <2>5. RunShape' /\ Apart(r, p)
      BY <1>3, <1>5, <2>1, <2>4 DEF Apart, dbVars, IInv, Shape, RunShape
    <2>6. rows' = rows /\ LastRate(p)' = LastRate(p) /\ Len(rows[p]) \in Nat
      BY <1>2, <2>1, ProperFacts DEF LastRate, dbVars
    <2>7. Own(r, p)'
      BY <1>2, <1>3, <2>1, <2>3, <2>4, <2>6 DEF Own
    <2>8. found'[r].id <= Len(rows'[p])
      BY <2>3, <2>4, <2>6
    <2> QED BY <1>1, <1>3, <1>6, <2>1, <2>5, <2>7, <2>8, SameDatabase, RunStep
  <1>9. CASE WriteObserved(r)
    <2>1. Apart(r, p) /\ Own(r, p)' /\ SiteShape' /\ Len(rows'[p]) >= Len(rows[p])
      BY <1>9, WriteObservedOwes
    <2>2. RunShape'
      <3>1. NoRow \in FoundRow
        BY DEF NoRow, FoundRow
      <3> QED BY <1>3, <1>5, <1>9, <3>1 DEF WriteObserved, IInv, Shape, RunShape
    <2>3. pc'[r] # "write"
      BY <1>9, GotoIs DEF WriteObserved, Places
    <2> QED BY <1>1, <1>3, <1>6, <2>1, <2>2, <2>3, RunStep
  <1>10. CASE TellChange(r)
    <2>1. /\ UNCHANGED <<dbVars, found>> /\ pc[r] = "tell" /\ pc'[r] = "record"
          /\ told' = [told EXCEPT ![p] = seen[r]] /\ seen' = [seen EXCEPT ![r] = Absent]
      BY <1>10, GotoIs DEF TellChange, Places
    <2>2. /\ seen' \in [Runs -> Rates \cup {Absent}] /\ told' \in [Providers -> Rates \cup {Absent}]
          /\ told'[p] = seen[r]
          /\ \A x \in Runs \ {r} : seen'[x] = seen[x]
          /\ \A q \in Providers \ {p} : told'[q] = told[q]
      BY <2>1 DEF IInv, Shape, RunShape, SiteShape
    <2>3. RunShape' /\ SiteShape' /\ Apart(r, p)
      BY <1>3, <1>5, <2>1, <2>2 DEF Apart, dbVars, IInv, Shape, RunShape, SiteShape
    <2>4. Own(r, p)'
      BY <1>2, <1>3, <2>1, <2>2 DEF Own, LastRate, dbVars
    <2>5. Len(rows'[p]) >= Len(rows[p])
      BY <1>2, <2>1, ProperFacts DEF dbVars
    <2> QED BY <1>1, <1>3, <1>6, <2>1, <2>3, <2>4, <2>5, RunStep
  <1> QED BY <1>7, <1>8, <1>9, <1>10

\* The collector state is written, or a statement on the database fails.
LEMMA ClosingSteps ==
    ASSUME SyncAssumption, IInv, NEW r \in Runs, NEW p \in Providers, of[r] = p,
           RecordSuccess(r) \/ RecordFailure(r) \/ UpdateBackoff(r) \/ WriteFails(r)
    PROVE  IInv'
  <1>1. Busy(r)
    BY DEF RecordSuccess, RecordFailure, UpdateBackoff, WriteFails, Busy
  <1>2. Own(r, p) /\ Proper(rows[p])
    BY <1>1, RunOwes
  <1>3. UNCHANGED <<provider, truth, rows, fresh, told, overlapped>> /\ SameSchedule
    BY DEF RecordSuccess, RecordFailure, UpdateBackoff, WriteFails, SameSchedule, dbVars
  <1>4. Len(rows'[p]) >= Len(rows[p])
    BY <1>2, <1>3, ProperFacts
  <1>5. ASSUME NEW n \in 0..2, NEW until \in {"none", "ahead"}, SetState(p, n, until)
        PROVE  /\ SiteShape' /\ failures'[p] = n /\ backoff'[p] = until
               /\ \A q \in Providers \ {p} : failures'[q] = failures[q] /\ backoff'[q] = backoff[q]
    BY <1>3, <1>5 DEF SetState, IInv, Shape, SiteShape
  <1>6. failures[p] \in 0..2
    BY DEF IInv, Shape, SiteShape
  <1>7. CASE RecordSuccess(r)
    <2>1. SetState(p, 0, "none") /\ Return(r) /\ broken' = broken /\ pc[r] = "record"
      BY <1>7 DEF RecordSuccess
    <2>2. RunShape' /\ pc'[r] = "idle" /\ Hands(r) /\ Apart(r, p)
      BY <1>3, <1>5, <2>1, ReturnIs DEF Apart
    <2>3. Own(r, p)'
      BY <1>2, <1>3, <1>5, <2>1, <2>2 DEF Own, LastRate
    <2> QED BY <1>1, <1>3, <1>4, <1>5, <2>1, <2>2, <2>3, RunStep
  <1>8. CASE RecordFailure(r)
    <2>1. PICK n \in 1..2 : SetState(p, n, "none")
      BY <1>6, <1>8, FailureCount DEF RecordFailure
    <2>2. pc[r] = "record" /\ broken' = broken /\ n \in 0..2 /\ n > 0
      BY <1>8 DEF RecordFailure
    <2>3. SiteShape' /\ failures'[p] = n /\ backoff'[p] = "none"
          /\ \A q \in Providers \ {p} : failures'[q] = failures[q] /\ backoff'[q] = backoff[q]
      BY <1>5, <2>1, <2>2
    <2>4. CASE Return(r)
      <3>1. RunShape' /\ pc'[r] = "idle" /\ Hands(r) /\ Apart(r, p)
        BY <1>3, <2>2, <2>3, <2>4, ReturnIs DEF Apart
      <3>2. Own(r, p)'
        BY <1>2, <1>3, <2>2, <2>3, <3>1 DEF Own, LastRate
      <3> QED BY <1>1, <1>3, <1>4, <2>3, <3>1, <3>2, RunStep
    <2>5. CASE Goto(r, "backoff") /\ UNCHANGED <<kind, of, mine, got, seen, found, timer, missed>>
      <3>1. RunShape' /\ pc'[r] = "backoff" /\ Hands(r) /\ Apart(r, p)
        BY <1>3, <2>2, <2>3, <2>5, GotoIs DEF Apart, Hands, Places, IInv, Shape, RunShape
      <3>2. Own(r, p)'
        BY <1>2, <1>3, <2>2, <2>3, <3>1 DEF Own, LastRate
      <3> QED BY <1>1, <1>3, <1>4, <2>3, <3>1, <3>2, RunStep
    <2> QED BY <1>8, <2>4, <2>5 DEF RecordFailure
  <1>9. CASE UpdateBackoff(r)
    <2>1. SetState(p, failures[p], "ahead") /\ Return(r) /\ broken' = broken /\ pc[r] = "backoff"
      BY <1>9 DEF UpdateBackoff
    <2>2. /\ SiteShape' /\ failures'[p] = failures[p]
          /\ \A q \in Providers \ {p} : failures'[q] = failures[q] /\ backoff'[q] = backoff[q]
      BY <1>5, <1>6, <2>1
    <2>3. RunShape' /\ pc'[r] = "idle" /\ Hands(r) /\ Apart(r, p)
      BY <1>3, <2>1, <2>2, ReturnIs DEF Apart
    <2>4. Own(r, p)'
      BY <1>2, <1>3, <2>1, <2>2, <2>3 DEF Own, LastRate
    <2> QED BY <1>1, <1>3, <1>4, <2>2, <2>3, <2>4, RunStep
  <1>10. CASE WriteFails(r)
    <2>1. SiteShape' /\ broken' = broken \cup {p} /\ UNCHANGED <<failures, backoff>>
      BY <1>10 DEF WriteFails, dbVars, IInv, Shape, SiteShape
    <2>2. CASE Return(r)
      <3>1. RunShape' /\ pc'[r] = "idle" /\ Hands(r) /\ Apart(r, p)
        BY <1>3, <2>1, <2>2, ReturnIs DEF Apart
      <3>2. Own(r, p)'
        BY <1>2, <1>3, <2>1, <3>1 DEF Own
      <3> QED BY <1>1, <1>3, <1>4, <2>1, <3>1, <3>2, RunStep
    <2>3. CASE /\ Goto(r, IF pc[r] = "cache" /\ got[r] = "balance" THEN "rates" ELSE "record")
               /\ mine' = [mine EXCEPT ![r] = FALSE]
               /\ seen' = [seen EXCEPT ![r] = Absent]
               /\ found' = [found EXCEPT ![r] = NoRow]
               /\ UNCHANGED <<kind, of, got, timer, missed>>
      <3>1. /\ pc' \in [Runs -> Places] /\ pc'[r] \in {"rates", "record"}
            /\ \A x \in Runs \ {r} : pc'[x] = pc[x]
        BY <2>3, GotoIs DEF Places
      <3>2. NoRow \in FoundRow
        BY DEF NoRow, FoundRow
      <3>3. RunShape' /\ Hands(r) /\ Apart(r, p)
        BY <1>3, <2>1, <2>3, <3>1, <3>2 DEF Apart, Hands, IInv, Shape, RunShape
      <3>4. Own(r, p)'
        BY <1>2, <1>3, <2>1, <3>1 DEF Own
      <3> QED BY <1>1, <1>3, <1>4, <2>1, <3>1, <3>3, <3>4, RunStep
    <2> QED BY <1>10, <2>2, <2>3 DEF WriteFails
  <1> QED BY <1>7, <1>8, <1>9, <1>10

-----------------------------------------------------------------------------
(***************************************************************************)
(* The other steps                                                         *)
(***************************************************************************)
\* A run that starts touches neither rows nor the run of another provider.
LEMMA StartStep ==
    ASSUME SyncAssumption, IInv, NEW r \in Runs, NEW p \in Providers,
           Fire(r, p) \/ ManualSync(r, p) \/ ManualBalance(r, p) \/ SyncAllStarts(r, p)
    PROVE  IInv'
  <1>1. PICK who \in {"timer", "manual", "all", "byhand"}, at \in {"gate", "load", "collect"},
             n \in {0, 1} : /\ Start(r, p, who, at, n) /\ (at = "collect" => who = "byhand")
                            /\ p \in timer /\ p \notin timer' => who = "timer"
                            /\ \A q \in timer : q # p => q \in timer'
    BY DEF Fire, ManualSync, ManualBalance, SyncAllStarts, schedVars
  <1>2. UNCHANGED <<dbVars, told, missed, broken, enabled, stopped, rebuild, changed, deleting>>
    BY DEF Fire, ManualSync, ManualBalance, SyncAllStarts, schedVars
  <1>3. /\ RunShape' /\ pc[r] = "idle" /\ pc'[r] = at /\ of'[r] = p /\ kind'[r] = who
        /\ \A x \in Runs \ {r} : pc'[x] = pc[x] /\ kind'[x] = kind[x] /\ of'[x] = of[x]
        /\ found' = found
    BY <1>1 DEF Start, Busy, IInv, Shape, RunShape, Places
  <1>4. SiteShape' /\ SchedulerShape' /\ Deletes'
    BY <1>2 DEF dbVars, IInv, Shape, SiteShape, SchedulerShape, Deletes
  <1>5. Pointers'
    BY <1>2, <1>3 DEF Pointers, IInv, dbVars
  <1>6. NeverForgotten'
    <2> SUFFICES ASSUME NEW q \in Providers, Active(q)' PROVE Scheduled(q)' \/ (q \in missed)'
      BY DEF NeverForgotten
    <2>1. Scheduled(q) \/ q \in missed
      BY <1>2 DEF Active, dbVars, IInv, NeverForgotten
    <2>2. CASE q \in timer /\ q \notin timer'
      <3>1. q = p /\ who = "timer"
        BY <1>1, <2>2
      <3> QED BY <1>3, <3>1 DEF Scheduled, BusyWith, Busy
    <2>3. CASE \E x \in BusyWith(q) : kind[x] = "timer"
      <3>1. PICK x \in BusyWith(q) : kind[x] = "timer"
        BY <2>3
      <3>2. x \in BusyWith(q)' /\ kind'[x] = "timer"
        BY <1>3, <3>1 DEF BusyWith, Busy
      <3> QED BY <3>2 DEF Scheduled
    <2> QED BY <1>2, <2>1, <2>2, <2>3 DEF Scheduled
  <1>7. \A q \in Providers : OfProvider(q)'
    BY <1>1, <1>2, StartOwes DEF dbVars
  <1> QED BY <1>3, <1>4, <1>5, <1>6, <1>7 DEF IInv, Shape

\* What no step outside the runs touches.
SameRuns == UNCHANGED <<runVars, told, overlapped, broken>>
SameRecords == UNCHANGED <<rows, fresh, failures, backoff>>

\* A step that touches neither runs nor records leaves what every provider owes.
LEMMA OutsideRuns ==
    ASSUME IInv, SameRuns, SameRecords
    PROVE  /\ RunShape' /\ Pointers'
           /\ \A p \in Providers : OfProvider(p)'
           /\ \A p \in Providers : BusyWith(p)' = BusyWith(p)
  <1>1. RunShape' /\ Pointers' /\ \A p \in Providers : BusyWith(p)' = BusyWith(p)
    BY DEF SameRuns, SameRecords, runVars, IInv, Shape, RunShape, Pointers, BusyWith, Busy
  <1>2. ASSUME NEW p \in Providers PROVE OfProvider(p)'
    <2>1. Untouched(p)
      BY DEF Untouched, SameRuns, SameRecords, runVars
    <2> QED BY <2>1, UntouchedKeeps DEF IInv
  <1> QED BY <1>1, <1>2

\* The scheduler lists, arms, and is told of providers that changed or were deleted.
LEMMA SchedulingStep ==
    ASSUME SyncAssumption, IInv, Scheduling PROVE IInv'
  <1>1. ASSUME NEW k \in Rebuilders, ListCollectable(k) \/ ListFails(k) \/ ArmAll(k) PROVE IInv'
    <2>1. /\ SameRuns /\ SameRecords
          /\ UNCHANGED <<provider, truth, enabled, stopped, changed, deleting>>
      BY <1>1 DEF ListCollectable, ListFails, ArmAll, SameRuns, SameRecords, dbVars, history
    <2>2. SiteShape' /\ SchedulerShape' /\ Deletes'
      <3>1. Collectable \subseteq Providers /\ rebuild' \in
               [Rebuilders -> [at : {"idle", "list", "arm"}, listed : SUBSET Providers]]
        BY <1>1 DEF ListCollectable, ListFails, ArmAll, Collectable, NoRebuild, IInv, Shape,
                    SchedulerShape
      <3> QED BY <2>1, <3>1 DEF SameRuns, SameRecords, IInv, Shape, SiteShape, SchedulerShape,
                                      Deletes
    <2>3. NeverForgotten'
      <3> SUFFICES ASSUME NEW q \in Providers, Active(q)' PROVE Scheduled(q)' \/ (q \in missed)'
        BY DEF NeverForgotten
      <3>1. /\ Active(q) /\ q \in Collectable /\ enabled /\ ~stopped
            /\ BusyWith(q)' = BusyWith(q) /\ kind' = kind
        BY <2>1, OutsideRuns DEF Active, Collectable, SameRuns, runVars
      <3>2. Scheduled(q) \/ q \in missed
        BY <3>1 DEF IInv, NeverForgotten
      <3>3. \A j \in Rebuilders : j # k => rebuild'[j] = rebuild[j]
        BY <1>1 DEF ListCollectable, ListFails, ArmAll, IInv, Shape, SchedulerShape
      <3>4. CASE ListCollectable(k)
        <4>1. q \in rebuild'[k].listed
          BY <3>1, <3>4 DEF ListCollectable, IInv, Shape, SchedulerShape
        <4> QED BY <4>1 DEF Scheduled
      <3>5. CASE ListFails(k)
        BY <3>1, <3>5 DEF ListFails, Scheduled
      <3>6. CASE ArmAll(k)
        <4>1. timer' = timer \cup rebuild[k].listed /\ missed' = missed \ rebuild[k].listed
              /\ rebuild[k].at # "list"
          BY <3>1, <3>6 DEF ArmAll, Schedules
        <4>2. CASE q \in timer'
          BY <4>2 DEF Scheduled
        <4>3. CASE q \notin timer'
          BY <2>1, <3>1, <3>2, <3>3, <4>1, <4>3 DEF Scheduled
        <4> QED BY <4>2, <4>3
      <3> QED BY <1>1, <3>4, <3>5, <3>6
    <2> QED BY <2>1, <2>2, <2>3, OutsideRuns DEF IInv, Shape
  <1>2. ASSUME NEW p \in Providers, OnProviderChanged(p) PROVE IInv'
    <2>1. SameRuns /\ SameRecords /\ UNCHANGED <<dbVars, enabled, stopped, rebuild, deleting>>
      BY <1>2 DEF OnProviderChanged, SameRuns, SameRecords, dbVars
    <2>2. SiteShape' /\ SchedulerShape' /\ Deletes'
      BY <2>1 DEF SameRuns, dbVars, IInv, Shape, SiteShape, SchedulerShape, Deletes
    <2>3. NeverForgotten'
      <3> SUFFICES ASSUME NEW q \in Providers, Active(q)' PROVE Scheduled(q)' \/ (q \in missed)'
        BY DEF NeverForgotten
      <3>1. /\ Scheduled(q) \/ q \in missed
            /\ BusyWith(q)' = BusyWith(q) /\ kind' = kind /\ enabled /\ ~stopped
        BY <2>1, OutsideRuns DEF Active, dbVars, SameRuns, runVars, IInv, NeverForgotten
      <3> QED BY <1>2, <2>1, <3>1 DEF OnProviderChanged, Schedules, Scheduled
    <2> QED BY <2>1, <2>2, <2>3, OutsideRuns DEF IInv, Shape
  <1>3. ASSUME NEW p \in Providers, OnProviderDeleted(p) PROVE IInv'
    <2>1. SameRuns /\ SameRecords
          /\ UNCHANGED <<dbVars, enabled, stopped, rebuild, changed, missed>>
      BY <1>3 DEF OnProviderDeleted, SameRuns, SameRecords, dbVars, history
    <2>2. SiteShape' /\ SchedulerShape' /\ Deletes'
      BY <1>3, <2>1 DEF OnProviderDeleted, SameRuns, dbVars, IInv, Shape, SiteShape,
                        SchedulerShape, Deletes
    <2>3. NeverForgotten'
      <3> SUFFICES ASSUME NEW q \in Providers, Active(q)' PROVE Scheduled(q)' \/ (q \in missed)'
        BY DEF NeverForgotten
      <3>1. /\ Scheduled(q) \/ q \in missed
            /\ BusyWith(q)' = BusyWith(q) /\ kind' = kind /\ provider[q] # "gone"
        BY <2>1, OutsideRuns DEF Active, dbVars, SameRuns, runVars, IInv, NeverForgotten
      <3>2. q # p
        BY <1>3, <3>1 DEF OnProviderDeleted, IInv, Deletes
      <3> QED BY <1>3, <2>1, <3>1, <3>2 DEF OnProviderDeleted, Scheduled
    <2> QED BY <2>1, <2>2, <2>3, OutsideRuns DEF IInv, Shape
  <1>4. CASE OnManualSyncAll
    <2>1. SameRuns /\ SameRecords
          /\ UNCHANGED <<dbVars, enabled, stopped, timer, deleting, changed, missed>>
      BY <1>4 DEF OnManualSyncAll, SameRuns, SameRecords, dbVars, history
    <2>2. rebuild' = rebuild \/ rebuild' = [rebuild EXCEPT !["all"].at = "list"]
      BY <1>4 DEF OnManualSyncAll
    <2>3. SiteShape' /\ SchedulerShape' /\ Deletes'
      BY <2>1, <2>2 DEF SameRuns, dbVars, IInv, Shape, SiteShape, SchedulerShape, Deletes,
                        Rebuilders
    <2>4. NeverForgotten'
      <3> SUFFICES ASSUME NEW q \in Providers, Active(q)' PROVE Scheduled(q)' \/ (q \in missed)'
        BY DEF NeverForgotten
      <3>1. /\ Scheduled(q) \/ q \in missed
            /\ BusyWith(q)' = BusyWith(q) /\ kind' = kind
        BY <2>1, OutsideRuns DEF Active, dbVars, SameRuns, runVars, IInv, NeverForgotten
      <3>2. \A k \in Rebuilders : rebuild[k].at = "list" \/ q \in rebuild[k].listed =>
                                  rebuild'[k].at = "list" \/ q \in rebuild'[k].listed
        BY <2>2 DEF IInv, Shape, SchedulerShape, Rebuilders
      <3> QED BY <2>1, <3>1, <3>2 DEF Scheduled
    <2> QED BY <2>1, <2>3, <2>4, OutsideRuns DEF IInv, Shape
  <1>5. ASSUME NEW p \in Providers, DeleteRates(p) PROVE IInv'
    <2>1. /\ SameRuns /\ deleting[p] = "rates" /\ deleting' = [deleting EXCEPT ![p] = "timer"]
          /\ rows' = [rows EXCEPT ![p] = Erased(rows[p])]
          /\ UNCHANGED <<provider, truth, fresh, failures, backoff>>
          /\ UNCHANGED <<enabled, stopped, timer, rebuild, changed, missed>>
      BY <1>5 DEF DeleteRates, SameRuns, history
    <2>2. rows'[p] = Erased(rows[p]) /\ \A q \in Providers \ {p} : rows'[q] = rows[q]
      BY <2>1 DEF IInv, Shape, SiteShape
    <2>3. /\ Proper(rows[p]) /\ Proper(rows'[p]) /\ Latest(rows'[p]) = 0 /\ NoRepeats(rows'[p])
          /\ Len(rows'[p]) = Len(rows[p])
      <3>1. Proper(rows[p])
        BY DEF IInv, Shape, SiteShape
      <3>2. Len(Erased(rows[p])) = Len(rows[p])
        BY <3>1, ErasedIs, ProperFacts DEF Erased
      <3> QED BY <2>2, <3>1, <3>2, ErasedIs
    <2>4. RunShape' /\ SiteShape' /\ SchedulerShape' /\ Deletes'
      <3>1. DOMAIN rows' = Providers /\ rows' = [q \in Providers |-> rows'[q]]
        BY <2>1 DEF IInv, Shape, SiteShape
      <3>2. \A q \in Providers : Proper(rows'[q])
        BY <2>2, <2>3 DEF IInv, Shape, SiteShape
      <3>3. RunShape' /\ SchedulerShape' /\ Deletes'
        BY <2>1 DEF SameRuns, runVars, IInv, Shape, RunShape, SchedulerShape, Deletes
      <3> QED BY <2>1, <3>1, <3>2, <3>3 DEF SameRuns, IInv, Shape, SiteShape
    <2>5. Pointers'
      BY <2>1, <2>2, <2>3 DEF SameRuns, runVars, Pointers, IInv, Shape, RunShape
    <2>6. NeverForgotten'
      BY <2>1 DEF SameRuns, runVars, NeverForgotten, Active, Scheduled, BusyWith, Busy, IInv
    <2>7. ASSUME NEW q \in Providers PROVE OfProvider(q)'
      <3>1. CASE q # p
        <4>1. Untouched(q)
          BY <2>1, <2>2, <3>1 DEF Untouched, SameRuns, runVars
        <4> QED BY <4>1, UntouchedKeeps DEF IInv
      <3>2. CASE q = p
        <4>1. OfProvider(p) /\ BusyWith(p)' = BusyWith(p)
          BY <2>1 DEF IInv, SameRuns, runVars, BusyWith, Busy
        <4>2. \A r \in BusyWith(p) : Own(r, p)'
          BY <2>1, <2>3, <4>1 DEF OfProvider, Own, SameRuns, runVars
        <4>3. BusyWith(p) = {} => Resting(p)'
          BY <2>1, <2>3, <4>1 DEF OfProvider, Resting, SameRuns, runVars
        <4>4. p \notin overlapped' => \A r, x \in BusyWith(p)' : r = x
          BY <2>1, <4>1 DEF OfProvider, SameRuns
        <4> QED BY <3>2, <4>1, <4>2, <4>3, <4>4 DEF OfProvider
      <3> QED BY <3>1, <3>2
    <2> QED BY <2>4, <2>5, <2>6, <2>7 DEF IInv, Shape
  <1> QED BY <1>1, <1>2, <1>3, <1>4, <1>5 DEF Scheduling

\* Settings and providers are saved, providers are deleted, a refresh of all begins.
LEMMA AdministrationStep ==
    ASSUME SyncAssumption, IInv, Administration PROVE IInv'
  <1>1. SameRuns /\ SameRecords
    BY DEF Administration, Configure, Stop, SyncAll, SaveProvider, FillAddress, DeleteProvider,
           SameRuns, SameRecords, dbVars, history
  <1>2. /\ RunShape' /\ Pointers' /\ \A p \in Providers : OfProvider(p)'
        /\ \A p \in Providers : BusyWith(p)' = BusyWith(p)
    BY <1>1, OutsideRuns
  <1>3. kind' = kind
    BY <1>1 DEF SameRuns, runVars
  <1>4. SiteShape' /\ SchedulerShape' /\ Deletes'
    <2>1. /\ provider' \in [Providers -> {"none", "ready", "other", "gone"}]
          /\ truth' = truth
      BY DEF Administration, Configure, Stop, SyncAll, SaveProvider, FillAddress, DeleteProvider,
             dbVars, IInv, Shape, SiteShape
    <2>2. SchedulerShape'
      BY DEF Administration, Configure, Stop, SyncAll, SaveProvider, FillAddress, DeleteProvider,
             schedVars, IInv, Shape, SchedulerShape, Rebuilders
    <2>3. Deletes'
      BY DEF Administration, Configure, Stop, SyncAll, SaveProvider, FillAddress, DeleteProvider,
             dbVars, schedVars, IInv, Shape, SiteShape, SchedulerShape, Deletes
    <2> QED BY <1>1, <2>1, <2>2, <2>3 DEF SameRuns, SameRecords, IInv, Shape, SiteShape
  <1>5. NeverForgotten'
    <2> SUFFICES ASSUME NEW q \in Providers, Active(q)' PROVE Scheduled(q)' \/ (q \in missed)'
      BY DEF NeverForgotten
    <2>1. CASE Configure
      <3>1. rebuild' = [rebuild EXCEPT !["configure"].at = "list"]
        BY <2>1 DEF Configure, Active
      <3>2. rebuild'["configure"].at = "list" /\ "configure" \in Rebuilders
        BY <3>1 DEF IInv, Shape, SchedulerShape, Rebuilders
      <3> QED BY <3>2 DEF Scheduled
    <2>2. CASE Stop
      BY <2>2 DEF Stop, Active
    <2>3. CASE SyncAll
      BY <1>2, <1>3, <2>3 DEF SyncAll, Active, Scheduled, dbVars, history, IInv, NeverForgotten
    <2>4. ASSUME NEW p \in Providers, SaveProvider(p) PROVE Scheduled(q)' \/ (q \in missed)'
      <3>1. CASE q = p
        BY <2>4, <3>1 DEF SaveProvider, Scheduled
      <3>2. CASE q # p
        <4>1. Active(q)
          BY <2>4, <3>2 DEF SaveProvider, Active, IInv, Shape, SiteShape
        <4> QED BY <1>2, <1>3, <2>4, <4>1 DEF SaveProvider, Scheduled, history, IInv, NeverForgotten
      <3> QED BY <3>1, <3>2
    <2>5. ASSUME NEW p \in Providers, FillAddress(p) PROVE Scheduled(q)' \/ (q \in missed)'
      <3>1. CASE q = p
        BY <2>5, <3>1 DEF FillAddress, Scheduled, schedVars
      <3>2. CASE q # p
        <4>1. Active(q)
          BY <2>5, <3>2 DEF FillAddress, Active, schedVars, IInv, Shape, SiteShape
        <4> QED BY <1>2, <1>3, <2>5, <4>1
                DEF FillAddress, Scheduled, schedVars, IInv, NeverForgotten
      <3> QED BY <3>1, <3>2
    <2>6. ASSUME NEW p \in Providers, DeleteProvider(p) PROVE Scheduled(q)' \/ (q \in missed)'
      <3>1. Active(q)
        BY <2>6 DEF DeleteProvider, Active, IInv, Shape, SiteShape
      <3> QED BY <1>2, <1>3, <2>6, <3>1 DEF DeleteProvider, Scheduled, history, IInv, NeverForgotten
    <2> QED BY <2>1, <2>2, <2>3, <2>4, <2>5, <2>6 DEF Administration
  <1> QED BY <1>2, <1>4, <1>5 DEF IInv, Shape

\* Time passes, the upstream changes its mind, old rows are cleaned up.
LEMMA WorldStep ==
    ASSUME SyncAssumption, IInv, NEW p \in Providers,
           BackoffEnds(p) \/ UpstreamChanges(p) \/ DeleteOldRates(p)
    PROVE  IInv'
  <1>1. SameRuns /\ UNCHANGED <<provider, fresh, failures, schedVars, missed>>
    BY DEF BackoffEnds, UpstreamChanges, DeleteOldRates, SameRuns, history
  <1>2. RunShape' /\ SchedulerShape' /\ Deletes' /\ NeverForgotten'
    BY <1>1 DEF SameRuns, runVars, schedVars, IInv, Shape, RunShape, SchedulerShape, Deletes,
                NeverForgotten, Active, Scheduled, BusyWith, Busy
  <1>3. /\ truth' \in [Providers -> Rates \cup {Absent}]
        /\ backoff' \in [Providers -> {"none", "ahead", "past"}]
        /\ \A q \in Providers : backoff[q] = "none" => backoff'[q] = "none"
    BY DEF BackoffEnds, UpstreamChanges, DeleteOldRates, IInv, Shape, SiteShape
  <1>4. /\ DOMAIN rows' = Providers /\ rows' = [q \in Providers |-> rows'[q]]
        /\ \A q \in Providers :
               /\ Proper(rows[q]) /\ Proper(rows'[q]) /\ Latest(rows'[q]) = Latest(rows[q])
               /\ Found(rows'[q]) = Found(rows[q]) /\ Len(rows'[q]) = Len(rows[q])
               /\ NoRepeats(rows[q]) => NoRepeats(rows'[q])
               /\ Latest(rows[q]) # 0 => LastRate(q)' = LastRate(q)
    <2>1. CASE rows' = rows
      BY <2>1 DEF IInv, Shape, SiteShape, LastRate
    <2>2. CASE DeleteOldRates(p)
      <3>1. Proper(rows[p]) /\ Len(rows[p]) \in Nat
        BY ProperFacts DEF IInv, Shape, SiteShape
      <3>2. PICK before \in Nat : rows' = [rows EXCEPT ![p] = Pruned(rows[p], before)]
        <4>1. \A x \in 2..(Len(rows[p]) + 1) : x \in Nat
          BY <3>1
        <4> QED BY <2>2, <4>1, Zenon DEF DeleteOldRates
      <3>3. /\ rows'[p] = Pruned(rows[p], before)
            /\ \A q \in Providers \ {p} : rows'[q] = rows[q]
            /\ DOMAIN rows' = Providers /\ rows' = [q \in Providers |-> rows'[q]]
        BY <3>2 DEF IInv, Shape, SiteShape
      <3>4. Len(Pruned(rows[p], before)) = Len(rows[p])
        BY <3>1, PrunedIs, ProperFacts DEF Pruned
      <3>5. ASSUME NEW q \in Providers, q # p
            PROVE  Proper(rows[q]) /\ rows'[q] = rows[q] /\ LastRate(q)' = LastRate(q)
        BY <3>3, <3>5 DEF IInv, Shape, SiteShape, LastRate
      <3> QED BY <3>1, <3>3, <3>4, <3>5, PrunedIs DEF LastRate
    <2> QED BY <2>1, <2>2 DEF BackoffEnds, UpstreamChanges
  <1>5. SiteShape'
    BY <1>1, <1>3, <1>4 DEF SameRuns, IInv, Shape, SiteShape
  <1>6. Pointers'
    BY <1>1, <1>4 DEF SameRuns, runVars, Pointers, IInv, Shape, RunShape
  <1>7. ASSUME NEW q \in Providers PROVE OfProvider(q)'
    <2>1. OfProvider(q) /\ BusyWith(q)' = BusyWith(q)
      BY <1>1 DEF IInv, SameRuns, runVars, BusyWith, Busy
    <2>2. ASSUME NEW r \in BusyWith(q), Own(r, q) PROVE Own(r, q)'
      BY <1>1, <1>3, <1>4, <2>2 DEF Own, SameRuns, runVars
    <2>3. Resting(q) => Resting(q)'
      BY <1>1, <1>3, <1>4 DEF Resting, SameRuns, runVars
    <2> QED BY <1>1, <2>1, <2>2, <2>3 DEF OfProvider, SameRuns
  <1> QED BY <1>2, <1>5, <1>6, <1>7 DEF IInv, Shape

\* The process ends and starts again.
LEMMA RestartStep ==
    ASSUME SyncAssumption, IInv, Restart PROVE IInv'
  <1>1. SomeProvider \in Providers /\ NoRow \in FoundRow
    BY DEF SyncAssumption, SomeProvider, NoRow, FoundRow
  <1>2. RunShape' /\ SiteShape' /\ \A r \in Runs : pc'[r] = "idle"
    BY <1>1 DEF Restart, dbVars, IInv, Shape, RunShape, SiteShape, Places
  <1>3. SchedulerShape' /\ Deletes'
    BY DEF Restart, NoRebuild, IInv, Shape, SchedulerShape, Deletes
  <1>4. Pointers' /\ \A p \in Providers : BusyWith(p)' = {}
    BY <1>2 DEF Pointers, BusyWith, Busy
  <1>5. NeverForgotten'
    <2>1. enabled' => rebuild'["configure"].at = "list" /\ "configure" \in Rebuilders
      BY DEF Restart, Rebuilders
    <2> QED BY <2>1 DEF NeverForgotten, Active, Scheduled
  <1>6. ASSUME NEW p \in Providers PROVE OfProvider(p)'
    <2>1. OfProvider(p) /\ UNCHANGED <<dbVars, told, overlapped>>
      BY DEF Restart, IInv
    <2>2. BusyWith(p) = {} => Resting(p)'
      BY <2>1 DEF Restart, OfProvider, Resting, LastRate, dbVars
    <2>3. ASSUME NEW r \in BusyWith(p) PROVE Resting(p)'
      BY <2>1, <2>3 DEF Restart, OfProvider, Own, Resting, dbVars
    <2> QED BY <1>4, <2>2, <2>3 DEF OfProvider
  <1> QED BY <1>2, <1>3, <1>4, <1>5, <1>6 DEF IInv, Shape

-----------------------------------------------------------------------------
(***************************************************************************)
(* The theorems                                                            *)
(***************************************************************************)
\* The invariant holds at the start.
LEMMA InitOwes ==
    ASSUME SyncAssumption, Init PROVE IInv
  <1>1. SomeProvider \in Providers /\ NoRow \in FoundRow
    BY DEF SyncAssumption, SomeProvider, NoRow, FoundRow
  <1>2. Proper(<<>>) /\ Latest(<<>>) = 0 /\ NoRepeats(<<>>)
    <2>1. <<>> \in Seq(SnapshotRow) /\ LastOf(<<>>, 0)
      BY EmptySeq DEF LastOf
    <2>2. Proper(<<>>) /\ Latest(<<>>) = 0
      BY <2>1, LatestIs
    <2>3. NoRepeats(<<>>)
      BY <2>1, EmptySeq DEF NoRepeats
    <2> QED BY <2>2, <2>3
  <1>3. Shape
    <2>1. RunShape
      BY <1>1 DEF Init, RunShape, Places
    <2>2. SiteShape
      BY <1>2 DEF Init, SiteShape
    <2>3. SchedulerShape
      BY DEF Init, SchedulerShape, NoRebuild
    <2> QED BY <2>1, <2>2, <2>3 DEF Shape
  <1>4. Pointers /\ Deletes
    BY DEF Init, Pointers, Deletes
  <1>5. NeverForgotten
    <2>1. enabled => rebuild["configure"].at = "list" /\ "configure" \in Rebuilders
      BY DEF Init, Rebuilders
    <2> QED BY <2>1 DEF NeverForgotten, Active, Scheduled
  <1>6. ASSUME NEW p \in Providers PROVE OfProvider(p)
    <2>1. BusyWith(p) = {} /\ rows[p] = <<>> /\ fresh[p] /\ backoff[p] = "none"
      BY DEF Init, BusyWith, Busy
    <2> QED BY <1>2, <2>1 DEF OfProvider, Resting
  <1> QED BY <1>3, <1>4, <1>5, <1>6 DEF IInv

\* Every step keeps the invariant.
LEMMA StepKeeps ==
    ASSUME SyncAssumption, IInv, [Next]_vars PROVE IInv'
  <1>1. ASSUME NEW r \in Runs, Steps(r) PROVE IInv'
    <2>1. PICK p \in Providers : of[r] = p
      BY DEF IInv, Shape, RunShape
    <2> QED BY <1>1, <2>1, OpeningSteps, BalanceSteps, RateSteps, ClosingSteps DEF Steps
  <1>2. ASSUME NEW r \in Runs, NEW p \in Providers,
               Fire(r, p) \/ ManualSync(r, p) \/ ManualBalance(r, p) \/ SyncAllStarts(r, p)
        PROVE  IInv'
    BY <1>2, StartStep
  <1>3. CASE UNCHANGED vars
    <2>1. /\ SameRuns /\ SameRecords /\ kind' = kind
          /\ UNCHANGED <<provider, truth, enabled, stopped, timer, rebuild, changed>>
          /\ UNCHANGED <<deleting, missed>>
      BY <1>3 DEF vars, dbVars, schedVars, runVars, history, SameRuns, SameRecords
    <2>2. SiteShape' /\ SchedulerShape' /\ Deletes'
      BY <2>1 DEF SameRuns, SameRecords, IInv, Shape, SiteShape, SchedulerShape,
                                      Deletes
    <2>3. NeverForgotten'
      BY <2>1, OutsideRuns DEF IInv, NeverForgotten, Active, Scheduled
    <2> QED BY <2>1, <2>2, <2>3, OutsideRuns DEF IInv, Shape
  <1> QED BY <1>1, <1>2, <1>3, SchedulingStep, AdministrationStep, WorldStep, RestartStep DEF Next

\* The invariant holds in every state of every behaviour.
LEMMA Kept == Spec => []IInv
  <1>1. Init => IInv
    BY InitOwes, SyncAssumption
  <1>2. IInv /\ [Next]_vars => IInv'
    BY StepKeeps, SyncAssumption
  <1> QED BY <1>1, <1>2, PTL DEF Spec

\* While the automatic refresh is on, no interleaving of settings, edits, deletions,
\* manual refreshes, restarts and runs loses a provider (sync_scheduler.go).
THEOREM NoneForgotten == Spec => []NeverForgotten
  <1>1. IInv => NeverForgotten
    BY DEF IInv
  <1> QED BY <1>1, Kept, PTL

\* The rate history tells every change and no other, as long as the runs of a provider
\* did not overlap and none of them lost a write (RateService.Reconcile and its hooks).
THEOREM HistoryTells == Spec => []ChangesAreTold
  <1>1. IInv => ChangesAreTold
    <2> SUFFICES ASSUME IInv PROVE ChangesAreTold
      OBVIOUS
    <2>1. NoFalseChange
      <3> SUFFICES ASSUME NEW p \in Providers, p \notin overlapped PROVE NoRepeats(rows[p])
        BY DEF NoFalseChange, NoRepeats
      <3> QED BY DEF IInv, OfProvider, Resting, Own
    <2>2. LastChangeTold
      BY DEF LastChangeTold, Quiet, IInv, OfProvider, Resting, LastRate
    <2> QED BY <2>1, <2>2 DEF ChangesAreTold
  <1> QED BY <1>1, Kept, PTL

\* The balance cache holds the latest snapshot and a backoff means failures in a row,
\* when the runs of the provider neither overlapped nor lost a write
\* (UpdateBalanceCache, RecordSuccess, recordFailure).
THEOREM StateIsWhatRunsLeft == Spec => []StateIsTrue
  <1>1. IInv => StateIsTrue
    BY DEF StateIsTrue, CacheIsLatest, BackoffMeansFailures, Quiet, IInv, OfProvider, Resting
  <1> QED BY <1>1, Kept, PTL
-----------------------------------------------------------------------------
(***************************************************************************)
(* Types                                                                   *)
(***************************************************************************)
\* What the invariant above leaves out: the scheduler, the history, and that a run holds a row
\* of the history only between its read and its write.
SchedulerTypes ==
    /\ enabled \in BOOLEAN /\ stopped \in BOOLEAN
    /\ timer \subseteq Providers /\ changed \subseteq Providers
    /\ all \in [on : BOOLEAN, todo : SUBSET Providers]
HistoryTypes ==
    /\ missed \subseteq Providers /\ overlapped \subseteq Providers
    /\ broken \subseteq Providers /\ events \in 0..MaxEvents
NoneHeld == \A r \in Runs : pc[r] # "write" => found[r] = NoRow
OtherTypes == SchedulerTypes /\ HistoryTypes /\ NoneHeld

\* What the bound of events allows is within it.
LEMMA SpendCounts ==
    ASSUME SyncAssumption, HistoryTypes, NEW n \in Nat, Spend(n)
    PROVE  events' \in 0..MaxEvents
  BY DEF SyncAssumption, HistoryTypes, Spend

\* So does one event.
LEMMA EventCounts ==
    ASSUME SyncAssumption, HistoryTypes, Event
    PROVE  events' \in 0..MaxEvents
  BY SpendCounts DEF Event

\* What is armed are providers.
LEMMA SchedulesTypes ==
    ASSUME SchedulerTypes, HistoryTypes, NEW S \in SUBSET Providers, Schedules(S)
    PROVE  timer' \subseteq Providers /\ missed' \subseteq Providers
  BY DEF SchedulerTypes, HistoryTypes, Schedules

\* A run that ends holds no row, and what it arms is a provider.
LEMMA ReturnTypes ==
    ASSUME IInv, OtherTypes, NEW r \in Runs, Return(r)
    PROVE  NoneHeld' /\ timer' \subseteq Providers /\ missed' \subseteq Providers
  <1>1. NoneHeld'
    BY DEF Return, Forget, Goto, IInv, Shape, RunShape, OtherTypes, NoneHeld
  <1>2. {of[r]} \in SUBSET Providers
    BY DEF IInv, Shape, RunShape
  <1>3. Schedules({of[r]}) \/ UNCHANGED <<timer, missed>>
    BY DEF Return, Again
  <1>4. timer' \subseteq Providers /\ missed' \subseteq Providers
    BY <1>2, <1>3, SchedulesTypes DEF OtherTypes, SchedulerTypes, HistoryTypes
  <1> QED BY <1>1, <1>4

\* The same of one that only forgets.
LEMMA ForgetTypes ==
    ASSUME IInv, OtherTypes, NEW r \in Runs, Forget(r)
    PROVE  NoneHeld'
  BY DEF Forget, Goto, IInv, Shape, RunShape, OtherTypes, NoneHeld

\* A run that goes on to any place but the write leaves the rows alone.
LEMMA GotoTypes ==
    ASSUME IInv, OtherTypes, NEW r \in Runs, NEW l \in Places, Goto(r, l), pc[r] # "write",
           found' = found
    PROVE  NoneHeld'
  BY DEF Goto, IInv, Shape, RunShape, OtherTypes, NoneHeld

\* The scheduler and the history where a step of a run left them.
LEMMA TypesStay ==
    ASSUME SyncAssumption, OtherTypes,
           UNCHANGED <<enabled, stopped, all, changed, overlapped>>,
           broken' \subseteq Providers, timer' \subseteq Providers, missed' \subseteq Providers,
           events' = events \/ Event, NoneHeld'
    PROVE  OtherTypes'
  <1>1. events' \in 0..MaxEvents
    BY EventCounts DEF OtherTypes, HistoryTypes
  <1> QED BY <1>1 DEF OtherTypes, SchedulerTypes, HistoryTypes

\* A step of a run.
LEMMA StepsTypes ==
    ASSUME SyncAssumption, IInv, OtherTypes, NEW r \in Runs, Steps(r)
    PROVE  OtherTypes'
  <1>0. /\ timer \subseteq Providers /\ missed \subseteq Providers /\ broken \subseteq Providers
        /\ of[r] \in Providers /\ {of[r]} \in SUBSET Providers
        /\ {"load", "collect", "cache", "rates", "read", "write", "tell", "record",
            "backoff"} \subseteq Places
    BY DEF OtherTypes, SchedulerTypes, HistoryTypes, IInv, Shape, RunShape, Places
  <1>1. CASE Gate(r)
    <2>1. UNCHANGED <<enabled, stopped, all, changed, overlapped, broken>>
          /\ (events' = events \/ Event)
      BY <1>1 DEF Gate
    <2>2. CASE Forget(r) /\ Again(r)
      <3>1. timer' \subseteq Providers /\ missed' \subseteq Providers
        BY <1>0, <2>2, SchedulesTypes DEF Again, OtherTypes
      <3> QED BY <1>0, <2>1, <2>2, <3>1, ForgetTypes, TypesStay
    <2>3. CASE Goto(r, "load") /\ UNCHANGED <<timer, missed, found>>
      <3>1. pc[r] # "write"
        BY <1>1 DEF Gate
      <3>2. NoneHeld'
        BY <1>0, <2>3, <3>1, GotoTypes
      <3> QED BY <1>0, <2>1, <2>3, <3>2, TypesStay
    <2> QED BY <1>1, <2>2, <2>3 DEF Gate
  <1>2. CASE LoadGone(r)
    <2>1. NoneHeld'
      BY <1>2, ForgetTypes DEF LoadGone
    <2>2. UNCHANGED <<enabled, stopped, all, changed, overlapped, broken, missed, events>>
          /\ timer' \subseteq timer
      BY <1>2 DEF LoadGone, history
    <2> QED BY <1>0, <2>1, <2>2, TypesStay
  <1>3. CASE LoadSkips(r)
    <2>1. Return(r) /\ UNCHANGED <<enabled, stopped, all, changed, overlapped, broken>>
          /\ (events' = events \/ Event)
      BY <1>3 DEF LoadSkips
    <2> QED BY <1>0, <2>1, ReturnTypes, TypesStay
  <1>4. CASE Load(r) \/ CollectBalance(r) \/ CollectFails(r) \/ FetchRates(r) \/ FetchFails(r)
             \/ TellChange(r)
    <2>1. /\ UNCHANGED <<enabled, stopped, timer, all, changed, missed, overlapped, broken,
                         events, found>>
          /\ pc[r] # "write"
          /\ \E l \in Places : Goto(r, l)
      BY <1>0, <1>4 DEF Load, CollectBalance, CollectFails, FetchRates, FetchFails, TellChange,
                  schedVars, history
    <2>2. NoneHeld'
      BY <2>1, GotoTypes
    <2> QED BY <1>0, <2>1, <2>2, TypesStay
  <1>5. CASE SnapshotFails(r)
    <2>1. UNCHANGED <<enabled, stopped, all, changed, overlapped, broken>>
          /\ (events' = events \/ Event)
      BY <1>5 DEF SnapshotFails
    <2>2. CASE Return(r)
      BY <1>0, <2>1, <2>2, ReturnTypes, TypesStay
    <2>3. CASE Goto(r, "record") /\ UNCHANGED <<found, timer, missed>>
      <3>1. NoneHeld'
        BY <1>0, <1>5, <2>3, GotoTypes DEF SnapshotFails
      <3> QED BY <1>0, <2>1, <2>3, <3>1, TypesStay
    <2> QED BY <1>5, <2>2, <2>3 DEF SnapshotFails
  <1>6. CASE UpdateBalanceCache(r)
    <2>1. UNCHANGED <<enabled, stopped, all, changed, overlapped, broken, events>>
      BY <1>6 DEF UpdateBalanceCache
    <2>2. CASE Return(r)
      BY <1>0, <2>1, <2>2, ReturnTypes, TypesStay
    <2>3. CASE (Goto(r, "rates") \/ Goto(r, "record")) /\ UNCHANGED <<found, timer, missed>>
      <3>1. NoneHeld'
        BY <1>0, <1>6, <2>3, GotoTypes DEF UpdateBalanceCache
      <3> QED BY <1>0, <2>1, <2>3, <3>1, TypesStay
    <2> QED BY <1>6, <2>2, <2>3 DEF UpdateBalanceCache
  <1>7. CASE ReadCurrent(r)
    <2>1. NoneHeld'
      BY <1>7 DEF ReadCurrent, Goto, IInv, Shape, RunShape, OtherTypes, NoneHeld
    <2>2. UNCHANGED <<enabled, stopped, timer, all, changed, missed, overlapped, broken, events>>
      BY <1>7 DEF ReadCurrent, schedVars, history
    <2> QED BY <1>0, <2>1, <2>2, TypesStay
  <1>8. CASE WriteObserved(r)
    <2>1. NoneHeld'
      BY <1>8 DEF WriteObserved, Goto, IInv, Shape, RunShape, OtherTypes, NoneHeld
    <2>2. UNCHANGED <<enabled, stopped, timer, all, changed, missed, overlapped, broken, events>>
      BY <1>8 DEF WriteObserved, schedVars
    <2> QED BY <1>0, <2>1, <2>2, TypesStay
  <1>9. CASE RecordSuccess(r) \/ UpdateBackoff(r)
    <2>1. Return(r) /\ UNCHANGED <<enabled, stopped, all, changed, overlapped, broken, events>>
      BY <1>9 DEF RecordSuccess, UpdateBackoff
    <2> QED BY <1>0, <2>1, ReturnTypes, TypesStay
  <1>10. CASE RecordFailure(r)
    <2>1. UNCHANGED <<enabled, stopped, all, changed, overlapped, broken, events>>
      BY <1>10 DEF RecordFailure
    <2>2. CASE Return(r)
      BY <1>0, <2>1, <2>2, ReturnTypes, TypesStay
    <2>3. CASE Goto(r, "backoff") /\ UNCHANGED <<found, timer, missed>>
      <3>1. NoneHeld'
        BY <1>0, <1>10, <2>3, GotoTypes DEF RecordFailure
      <3> QED BY <1>0, <2>1, <2>3, <3>1, TypesStay
    <2> QED BY <1>10, <2>2, <2>3 DEF RecordFailure
  <1>11. CASE WriteFails(r)
    <2>1. /\ UNCHANGED <<enabled, stopped, all, changed, overlapped>> /\ Event
          /\ broken' \subseteq Providers
      BY <1>0, <1>11 DEF WriteFails
    <2>2. CASE Return(r)
      BY <1>0, <2>1, <2>2, ReturnTypes, TypesStay
    <2>3. CASE /\ Goto(r, "rates") \/ Goto(r, "record")
               /\ found' = [found EXCEPT ![r] = NoRow] /\ UNCHANGED <<timer, missed>>
      <3>1. NoneHeld'
        BY <2>3 DEF Goto, IInv, Shape, RunShape, OtherTypes, NoneHeld
      <3> QED BY <1>0, <2>1, <2>3, <3>1, TypesStay
    <2> QED BY <1>11, <2>2, <2>3 DEF WriteFails
  <1> QED BY <1>1, <1>2, <1>3, <1>4, <1>5, <1>6, <1>7, <1>8, <1>9, <1>10, <1>11 DEF Steps

\* The start of a run.
LEMMA StartTypes ==
    ASSUME SyncAssumption, IInv, OtherTypes, NEW r \in Runs, NEW p \in Providers,
           Fire(r, p) \/ ManualSync(r, p) \/ ManualBalance(r, p) \/ SyncAllStarts(r, p)
    PROVE  OtherTypes'
  <1>1. PICK at \in Places \ {"write"}, who \in {"timer", "manual", "all", "byhand"},
             n \in {0, 1} : Start(r, p, who, at, n)
    BY DEF Fire, ManualSync, ManualBalance, SyncAllStarts, Places
  <1>2. NoneHeld'
    BY <1>1 DEF Start, Busy, IInv, Shape, RunShape, OtherTypes, NoneHeld
  <1>3. events' \in 0..MaxEvents /\ overlapped' \subseteq Providers
    <2>1. PICK m \in Nat : Spend(m)
      BY <1>1 DEF Start
    <2> QED BY <1>1, <2>1, SpendCounts DEF Start, OtherTypes, HistoryTypes
  <1>4. /\ UNCHANGED <<enabled, stopped, changed, missed, broken>> /\ timer' \subseteq timer
        /\ all' = all \/ all' = [all EXCEPT !.todo = @ \ {p}]
    BY DEF Fire, ManualSync, ManualBalance, SyncAllStarts, schedVars
  <1> QED BY <1>2, <1>3, <1>4 DEF OtherTypes, SchedulerTypes, HistoryTypes

\* What nobody's run does.
LEMMA OutsideTypes ==
    ASSUME SyncAssumption, IInv, OtherTypes,
           Scheduling \/ Administration \/ Restart
             \/ \E p \in Providers : BackoffEnds(p) \/ UpstreamChanges(p) \/ DeleteOldRates(p)
    PROVE  OtherTypes'
  <1>0. /\ Collectable \subseteq Providers
        /\ \A k \in Rebuilders : rebuild[k].listed \subseteq Providers
    BY DEF Collectable, IInv, Shape, SchedulerShape
  <1>1. events' \in 0..MaxEvents
    <2>1. events' = events \/ Event
      BY DEF Scheduling, Administration, Restart, BackoffEnds, UpstreamChanges, DeleteOldRates,
             ListCollectable, ListFails, ArmAll, OnProviderChanged, DeleteRates,
             OnProviderDeleted, OnManualSyncAll, Configure, Stop, SyncAll, SaveProvider,
             FillAddress, DeleteProvider
    <2> QED BY <2>1, EventCounts DEF OtherTypes, HistoryTypes
  <1>2. NoneHeld'
    <2>1. CASE UNCHANGED runVars
      BY <2>1 DEF runVars, OtherTypes, NoneHeld
    <2>2. CASE Restart
      BY <2>2 DEF Restart, NoneHeld
    <2> QED BY <2>1, <2>2 DEF Scheduling, Administration, BackoffEnds, UpstreamChanges,
             DeleteOldRates, ListCollectable, ListFails, ArmAll, OnProviderChanged, DeleteRates,
             OnProviderDeleted, OnManualSyncAll, Configure, Stop, SyncAll, SaveProvider,
             FillAddress, DeleteProvider
  <1>3. timer' \subseteq Providers /\ missed' \subseteq Providers
    <2>1. ASSUME NEW k \in Rebuilders, ListCollectable(k) \/ ListFails(k) \/ ArmAll(k)
          PROVE  timer' \subseteq Providers /\ missed' \subseteq Providers
      <3>1. CASE ArmAll(k)
        BY <1>0, <3>1, SchedulesTypes DEF ArmAll, OtherTypes
      <3>2. CASE ListCollectable(k) \/ ListFails(k)
        BY <1>0, <3>2 DEF ListCollectable, ListFails, OtherTypes, SchedulerTypes, HistoryTypes,
                          history
      <3> QED BY <2>1, <3>1, <3>2
    <2>2. ASSUME NEW p \in Providers, OnProviderChanged(p)
          PROVE  timer' \subseteq Providers /\ missed' \subseteq Providers
      <3>1. {p} \in SUBSET Providers
        OBVIOUS
      <3> QED BY <2>2, <3>1, SchedulesTypes DEF OnProviderChanged, OtherTypes
    <2>3. ASSUME NEW p \in Providers,
                 \/ DeleteRates(p) \/ OnProviderDeleted(p) \/ SaveProvider(p) \/ FillAddress(p)
                 \/ DeleteProvider(p) \/ BackoffEnds(p) \/ UpstreamChanges(p)
                 \/ DeleteOldRates(p)
          PROVE  timer' \subseteq Providers /\ missed' \subseteq Providers
      BY <2>3 DEF DeleteRates, OnProviderDeleted, SaveProvider, FillAddress, DeleteProvider,
             BackoffEnds, UpstreamChanges, DeleteOldRates, OtherTypes, SchedulerTypes,
             HistoryTypes, history, schedVars
    <2>4. CASE OnManualSyncAll \/ Configure \/ Stop \/ SyncAll \/ Restart
      BY <2>4 DEF OnManualSyncAll, Configure, Stop, SyncAll, Restart, OtherTypes,
             SchedulerTypes, HistoryTypes, history
    <2> QED BY <2>1, <2>2, <2>3, <2>4 DEF Scheduling, Administration
  <1>4. overlapped' \subseteq Providers /\ broken' \subseteq Providers
    BY DEF Scheduling, Administration, Restart, BackoffEnds, UpstreamChanges,
             DeleteOldRates, ListCollectable, ListFails, ArmAll, OnProviderChanged, DeleteRates,
             OnProviderDeleted, OnManualSyncAll, Configure, Stop, SyncAll, SaveProvider,
             FillAddress, DeleteProvider,
             OtherTypes, HistoryTypes, history
  <1>5. enabled' \in BOOLEAN /\ stopped' \in BOOLEAN /\ changed' \subseteq Providers
    BY DEF Scheduling, Administration, Restart, BackoffEnds, UpstreamChanges,
             DeleteOldRates, ListCollectable, ListFails, ArmAll, OnProviderChanged, DeleteRates,
             OnProviderDeleted, OnManualSyncAll, Configure, Stop, SyncAll, SaveProvider,
             FillAddress, DeleteProvider,
             OtherTypes, SchedulerTypes, schedVars
  <1>6. all' \in [on : BOOLEAN, todo : SUBSET Providers]
    <2>1. CASE UNCHANGED all
      BY <2>1 DEF OtherTypes, SchedulerTypes
    <2>2. CASE SyncAll \/ OnManualSyncAll \/ Restart
      <3>1. \A S \in SUBSET Providers, on \in BOOLEAN :
               [on |-> on, todo |-> S] \in [on : BOOLEAN, todo : SUBSET Providers]
        OBVIOUS
      <3>2. \E S \in SUBSET Providers, on \in BOOLEAN : all' = [on |-> on, todo |-> S]
        <4>1. CASE SyncAll
          <5>1. PICK S \in SUBSET Collectable : all' = [on |-> TRUE, todo |-> S]
            BY <4>1 DEF SyncAll
          <5> QED BY <1>0, <5>1
        <4>2. CASE OnManualSyncAll \/ Restart
          BY <4>2 DEF OnManualSyncAll, Restart
        <4> QED BY <2>2, <4>1, <4>2
      <3> QED BY <3>1, <3>2
    <2>3. ASSUME NEW k \in Rebuilders, ListCollectable(k) \/ ListFails(k) \/ ArmAll(k)
          PROVE  UNCHANGED all
      BY <2>3 DEF ListCollectable, ListFails, ArmAll
    <2>4. ASSUME NEW p \in Providers, SaveProvider(p) \/ FillAddress(p) \/ DeleteProvider(p)
          PROVE  UNCHANGED all
      BY <2>4 DEF SaveProvider, FillAddress, DeleteProvider, schedVars
    <2>5. ASSUME NEW p \in Providers,
                 OnProviderChanged(p) \/ DeleteRates(p) \/ OnProviderDeleted(p)
                   \/ BackoffEnds(p) \/ UpstreamChanges(p) \/ DeleteOldRates(p)
          PROVE  UNCHANGED all
      BY <2>5 DEF OnProviderChanged, DeleteRates, OnProviderDeleted, BackoffEnds,
                  UpstreamChanges, DeleteOldRates, schedVars
    <2>6. CASE Configure \/ Stop
      BY <2>1, <2>6 DEF Configure, Stop
    <2> QED BY <2>1, <2>2, <2>3, <2>4, <2>5, <2>6 DEF Scheduling, Administration
  <1> QED BY <1>1, <1>2, <1>3, <1>4, <1>5, <1>6 DEF OtherTypes, SchedulerTypes, HistoryTypes

\* The types hold with the invariant.
LEMMA TypesStart == ASSUME SyncAssumption, Init PROVE OtherTypes
  <1>1. enabled \in BOOLEAN /\ stopped \in BOOLEAN
    BY Zenon DEF Init
  <1>2. timer = {} /\ changed = {} /\ all = [on |-> FALSE, todo |-> {}]
    BY DEF Init
  <1>3. HistoryTypes
    BY DEF SyncAssumption, Init, HistoryTypes
  <1>4. NoneHeld
    BY DEF Init, NoneHeld
  <1> QED BY <1>1, <1>2, <1>3, <1>4 DEF OtherTypes, SchedulerTypes

\* The types the actions keep: of the tables, the scheduler, the runs and the history; a row a
\* run holds is one of the history it read (sync_scheduler.go, provider_sync_service.go).
THEOREM SyncTypes == Spec => []TypeOK
  <1>1. Init => OtherTypes
    BY TypesStart, SyncAssumption
  <1>2. ASSUME IInv, OtherTypes, [Next]_vars PROVE OtherTypes'
    <2>1. CASE UNCHANGED vars
      BY <1>2, <2>1 DEF vars, schedVars, runVars, history, OtherTypes, SchedulerTypes,
                        HistoryTypes, NoneHeld
    <2>2. CASE Next
      BY <1>2, <2>2, StepsTypes, StartTypes, OutsideTypes, SyncAssumption DEF Next
    <2> QED BY <1>2, <2>1, <2>2
  <1>3. IInv /\ OtherTypes => TypeOK
    <2> SUFFICES ASSUME IInv, OtherTypes PROVE TypeOK
      OBVIOUS
    <2>1. \A p \in Providers : \A i \in DOMAIN rows[p] : rows[p][i] \in SnapshotRow
      BY ProperFacts DEF IInv, Shape, SiteShape
    <2>2. ASSUME NEW r \in Runs PROVE found[r].id \in 0..Len(rows[of[r]])
      <3>1. Len(rows[of[r]]) \in Nat
        BY ProperFacts DEF IInv, Shape, SiteShape, RunShape
      <3>2. CASE pc[r] = "write"
        BY <3>1, <3>2 DEF IInv, Shape, RunShape, Pointers, FoundRow
      <3>3. CASE pc[r] # "write"
        BY <3>1, <3>3 DEF OtherTypes, NoneHeld, NoRow
      <3> QED BY <3>2, <3>3
    <2>3. {enabled, stopped} \subseteq BOOLEAN /\ UNION {missed, overlapped, broken} \subseteq Providers
      BY Zenon DEF OtherTypes, SchedulerTypes, HistoryTypes
    <2> QED BY <2>1, <2>2, <2>3 DEF TypeOK, OtherTypes, SchedulerTypes, HistoryTypes, IInv, Shape,
                     RunShape, SiteShape, SchedulerShape, Places
  <1> QED BY <1>1, <1>2, <1>3, Kept, PTL DEF Spec
=============================================================================

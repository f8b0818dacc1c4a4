----------------------------- MODULE RateHistory -----------------------------
(***************************************************************************)
(* The history of one upstream group's rate (rate_snapshots): what one     *)
(* observation does to it (RateService.Reconcile) and how rows leave it.   *)
(*                                                                         *)
(* A history is the sequence of the rows ever inserted, by id; a row that  *)
(* was deleted from the table is kept with there = FALSE.  first_seen_at   *)
(* grows with the id.  An observation is a rate, or Absent when the        *)
(* upstream's list no longer names the group.                              *)
(***************************************************************************)
EXTENDS Integers, Sequences, FiniteSetsExt

CONSTANTS Rates, Absent

ASSUME RatesAssumption == Absent \notin Rates

SnapshotRow == [rate : Rates, deleted : BOOLEAN, there : BOOLEAN]

\* CurrentRows: the id of the latest row, 0 without one.
Latest(rows) == Max({i \in DOMAIN rows : rows[i].there} \cup {0})

Fresh(rate) == [rate |-> rate, deleted |-> FALSE, there |-> TRUE]

\* Insert.
Inserted(rows, rate) == Append(rows, Fresh(rate))

\* MarkDeleted: the UPDATE finds no row that has gone from the table.
MarkedDeleted(rows, id) == IF rows[id].there THEN [rows EXCEPT ![id].deleted = TRUE] ELSE rows

\* DeleteOlderThan: rows last seen before a time go, the latest one never does.
Pruned(rows, before) ==
    [i \in DOMAIN rows |->
        IF i < before /\ i # Latest(rows) THEN [rows[i] EXCEPT !.there = FALSE] ELSE rows[i]]

\* DeleteByProvider.
Erased(rows) == [i \in DOMAIN rows |-> [rows[i] EXCEPT !.there = FALSE]]

NoRow == [id |-> 0, rate |-> Absent, deleted |-> FALSE]
Found(rows) ==
    LET id == Latest(rows)
    IN  IF id = 0 THEN NoRow
        ELSE [id |-> id, rate |-> rows[id].rate, deleted |-> rows[id].deleted]

InsertsAnyDifference(found, seen) == found.id = 0 \/ found.deleted \/ found.rate # seen
InsertsEverySync(found, seen) == seen # Absent

\* What Reconcile does with an observation, given the row it found.
Inserts(found, seen) == seen # Absent /\ (found.id = 0 \/ found.deleted \/ found.rate # seen)

Marks(found, seen)   == seen = Absent /\ found.id # 0 /\ ~found.deleted

IsEventOfCurrent(found, seen) == seen # Absent /\ found.id # 0 /\ ~found.deleted /\ found.rate # seen

IsEvent(found, seen) == seen # Absent /\ found.id # 0 /\ found.rate # seen

\* A row that states the rate the row before it already stated.
Repeats(rows, i) ==
    \E j \in 1..(i - 1) :
        /\ rows[i].there /\ rows[j].there
        /\ \A k \in (j + 1)..(i - 1) : ~rows[k].there
        /\ rows[j].rate = rows[i].rate
        /\ ~rows[j].deleted
=============================================================================

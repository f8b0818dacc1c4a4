---------------------------- MODULE CreditLedger ----------------------------
(***************************************************************************)
(* The credit ledger: service/credit_service.go on top of                  *)
(* repository/credit_repo.go, against a PostgreSQL database at its default *)
(* isolation level, READ COMMITTED (BeginTx is given no options, and the   *)
(* pool of repository/pgstore.go holds ten connections).                   *)
(*                                                                         *)
(* A process is one request being served.  Its transaction is cut at every *)
(* statement that another transaction can see or can make it see: INSERT,  *)
(* the SUM, the UPDATE that takes the row lock, COMMIT; then the re-read   *)
(* of the customer, the write of the alert latch and the notification,     *)
(* which run outside the transaction.                                      *)
(*                                                                         *)
(* customers.outstanding is a cached SUM.  It is represented by the set of *)
(* ledger rows that SUM ran over; Exposure gives the amount.               *)
(***************************************************************************)
EXTENDS CreditEntries

CONSTANTS
    Procs,        \* requests in flight
    Limits,       \* credit_limit values, 0 meaning no credit granted
    MaxEntries,   \* bound: no request that inserts a row starts after this id
    MaxFails,     \* bound: failed requests and crashes
    None          \* no process, no customer

ASSUME LedgerAssumption ==
    /\ Limits \subseteq Nat
    /\ MaxEntries \in Nat
    /\ MaxFails \in Nat
    /\ None \notin Procs \cup Customers

VARIABLES
    ledger,       \* the committed rows of credit_ledger
    outstanding,  \* customers.outstanding: the rows the cached SUM covers
    limit,        \* customers.credit_limit
    alertLevel,   \* customers.alert_level, the latch
    lock,         \* the process holding the row lock of each customer
    nextId        \* the sequence of credit_ledger.id; a rollback leaves a gap

VARIABLES
    pc,           \* where each request stands
    target,       \* ReverseEntry: the entry GetEntry returned, as a set
    row,          \* the row this transaction inserted, as a set
    todo,         \* the customers the transaction has still to recalculate
    seen,         \* the rows the transaction's SUM ran over, per customer
    evals,        \* the customers whose alert is still to be evaluated
    cur,          \* the customer being worked on
    snap          \* the band and latch the re-read customer showed

VARIABLES
    told,         \* history: highest band notified since the latch last fell
    overlap,      \* history: customers that got a row committed after the SUM
    tainted,      \* history: customers whose last recalculation was overlapped
    unevaluated,  \* history: customers whose last evaluation did not finish
    untold,       \* history: customers with a notification lost in a crash
    fails,        \* failures so far
    shared        \* history: customers two requests have worked on at once

dbVars   == <<ledger, outstanding, limit, alertLevel, lock, nextId>>
procVars == <<pc, target, row, todo, seen, evals, cur, snap>>
histVars == <<told, overlap, tainted, unevaluated, untold, fails>>
vars     == <<dbVars, procVars, histVars, shared>>

NoSnap == [band |-> 0, level |-> 0]

Init ==
    /\ ledger = {}
    /\ outstanding = [c \in Customers |-> {}]
    /\ limit \in [Customers -> Limits]
    /\ alertLevel = [c \in Customers |-> 0]
    /\ lock = [c \in Customers |-> None]
    /\ nextId = 1
    /\ pc = [p \in Procs |-> "idle"]
    /\ target = [p \in Procs |-> {}]
    /\ row = [p \in Procs |-> {}]
    /\ todo = [p \in Procs |-> {}]
    /\ seen = [p \in Procs |-> [c \in Customers |-> {}]]
    /\ evals = [p \in Procs |-> {}]
    /\ cur = [p \in Procs |-> None]
    /\ snap = [p \in Procs |-> NoSnap]
    /\ told = [c \in Customers |-> 0]
    /\ overlap = [p \in Procs |-> {}]
    /\ tainted = {}
    /\ unevaluated = {}
    /\ untold = {}
    /\ fails = 0
    /\ shared = {}

(***************************************************************************)
(* Opening a transaction                                                   *)
(***************************************************************************)

\* BeginTx and everything before the SUM: the row e (if any) is inserted and
\* the customers of C are to be recalculated and, later, evaluated.
OpenTx(p, S, C) ==
    /\ row' = [row EXCEPT ![p] = S]
    /\ todo' = [todo EXCEPT ![p] = C]
    /\ evals' = [evals EXCEPT ![p] = C]
    /\ pc' = [pc EXCEPT ![p] = "open"]

NewRowSigned(c, t, a, r) ==
    [id |-> nextId, cust |-> c, type |-> t, reversedOf |-> r,
     amount |-> IF t = "repayment" THEN -a ELSE a]

NewRow(c, t, a, r) ==
    [id |-> nextId, cust |-> c, type |-> t, amount |-> a, reversedOf |-> r]

\* service AppendEntry down to the INSERT of repository AppendEntry.
AppendEntry(p) ==
    /\ pc[p] = "idle"
    /\ nextId <= MaxEntries
    /\ \E c \in Customers, t \in Types, a \in Amounts :
           OpenTx(p, {NewRow(c, t, a, 0)}, {c})
    /\ nextId' = nextId + 1
    /\ UNCHANGED <<ledger, outstanding, limit, alertLevel, lock,
                   target, seen, cur, snap, histVars>>

\* ReverseEntry, first read: a reversal cannot be reversed.
GetEntryAny(p) ==
    /\ pc[p] = "idle"
    /\ nextId <= MaxEntries
    /\ \E e \in ledger : target' = [target EXCEPT ![p] = {e}]
    /\ pc' = [pc EXCEPT ![p] = "gotEntry"]
    /\ UNCHANGED <<dbVars, row, todo, seen, evals, cur, snap, histVars>>

GetEntry(p) ==
    /\ pc[p] = "idle"
    /\ nextId <= MaxEntries
    /\ \E e \in ledger : /\ ~IsReversal(e)
                         /\ target' = [target EXCEPT ![p] = {e}]
    /\ pc' = [pc EXCEPT ![p] = "gotEntry"]
    /\ UNCHANGED <<dbVars, row, todo, seen, evals, cur, snap, histVars>>

\* ReverseEntry, second read: has the entry been reversed already?  The answer
\* is used after this statement, outside any transaction.
Reversed(e) == \E r \in ledger : r.reversedOf = e.id

SkipReversalCheck(p) ==
    /\ pc[p] = "gotEntry"
    /\ pc' = [pc EXCEPT ![p] = "reversing"]
    /\ UNCHANGED <<dbVars, target, row, todo, seen, evals, cur, snap, histVars>>

HasReversal(p) ==
    /\ pc[p] = "gotEntry"
    /\ \E e \in target[p] :
           IF Reversed(e)
           THEN /\ pc' = [pc EXCEPT ![p] = "idle"]
                /\ target' = [target EXCEPT ![p] = {}]
           ELSE /\ pc' = [pc EXCEPT ![p] = "reversing"]
                /\ UNCHANGED target
    /\ UNCHANGED <<dbVars, row, todo, seen, evals, cur, snap, histVars>>

ReverseSameDirection(p) ==
    /\ pc[p] = "reversing"
    /\ \E e \in target[p] :
           OpenTx(p, {NewRow(e.cust, e.type, e.amount, e.id)}, {e.cust})
    /\ nextId' = nextId + 1
    /\ target' = [target EXCEPT ![p] = {}]
    /\ UNCHANGED <<ledger, outstanding, limit, alertLevel, lock, seen, cur, snap, histVars>>

\* ReverseEntry, the transaction: an equal entry in the other direction.
InsertReversal(p) ==
    /\ pc[p] = "reversing"
    /\ \E e \in target[p] :
           OpenTx(p, {NewRow(e.cust, Opposite(e.type), e.amount, e.id)}, {e.cust})
    /\ nextId' = nextId + 1
    /\ target' = [target EXCEPT ![p] = {}]
    /\ UNCHANGED <<ledger, outstanding, limit, alertLevel, lock, seen, cur, snap, histVars>>

\* RecalcCustomer and RecalcAll open a transaction that inserts nothing.
\* SELECT id FROM customers has no ORDER BY, so RecalcAll takes the customers
\* in any order.
RecalcCustomer(p) ==
    /\ pc[p] = "idle"
    /\ \E c \in Customers : OpenTx(p, {}, {c})
    /\ UNCHANGED <<dbVars, target, seen, cur, snap, histVars>>

RecalcAll(p) ==
    /\ pc[p] = "idle"
    /\ OpenTx(p, {}, Customers)
    /\ UNCHANGED <<dbVars, target, seen, cur, snap, histVars>>

(***************************************************************************)
(* recalcOutstandingTx: the SUM, then the UPDATE                           *)
(***************************************************************************)
SumWithoutOwnRow(p) ==
    /\ pc[p] = "open"
    /\ \E c \in todo[p] :
           /\ cur' = [cur EXCEPT ![p] = c]
           /\ seen' = [seen EXCEPT ![p][c] = RowsOf(ledger, c)]
           /\ overlap' = [overlap EXCEPT ![p] = @ \ {c}]
    /\ pc' = [pc EXCEPT ![p] = "summed"]
    /\ UNCHANGED <<dbVars, target, row, todo, evals, snap,
                   told, tainted, unevaluated, untold, fails>>

DirtySum(p) ==
    /\ pc[p] = "open"
    /\ \E c \in todo[p] :
           /\ cur' = [cur EXCEPT ![p] = c]
           /\ seen' = [seen EXCEPT ![p][c] =
                           RowsOf(ledger \cup UNION {row[q] : q \in Procs}, c)]
           /\ overlap' = [overlap EXCEPT ![p] = @ \ {c}]
    /\ pc' = [pc EXCEPT ![p] = "summed"]
    /\ UNCHANGED <<dbVars, target, row, todo, evals, snap,
                   told, tainted, unevaluated, untold, fails>>

\* The SELECT sees what is committed when it starts, and its own row.
SumLedger(p) ==
    /\ pc[p] = "open"
    /\ \E c \in todo[p] :
           /\ cur' = [cur EXCEPT ![p] = c]
           /\ seen' = [seen EXCEPT ![p][c] = RowsOf(ledger \cup row[p], c)]
           /\ overlap' = [overlap EXCEPT ![p] = @ \ {c}]
    /\ pc' = [pc EXCEPT ![p] = "summed"]
    /\ UNCHANGED <<dbVars, target, row, todo, evals, snap,
                   told, tainted, unevaluated, untold, fails>>

\* The UPDATE waits for the row lock and writes the SUM read before; nobody
\* else sees it until COMMIT.
WriteOutstanding(p) ==
    /\ pc[p] = "summed"
    /\ lock[cur[p]] = None
    /\ lock' = [lock EXCEPT ![cur[p]] = p]
    /\ todo' = [todo EXCEPT ![p] = @ \ {cur[p]}]
    /\ pc' = [pc EXCEPT ![p] = "open"]
    /\ UNCHANGED <<ledger, outstanding, limit, alertLevel, nextId,
                   target, row, seen, evals, cur, snap, histVars>>

Held(p) == {c \in Customers : lock[c] = p}
Touched(S) == {e.cust : e \in S}

\* COMMIT publishes the row and the cached sums and releases the row locks.
CommitTx(p) ==
    /\ pc[p] = "open"
    /\ todo[p] = {}
    /\ ledger' = ledger \cup row[p]
    /\ outstanding' = [c \in Customers |-> IF lock[c] = p THEN seen[p][c] ELSE outstanding[c]]
    /\ lock' = [c \in Customers |-> IF lock[c] = p THEN None ELSE lock[c]]
    /\ row' = [row EXCEPT ![p] = {}]
    /\ pc' = [pc EXCEPT ![p] = "eval"]
    /\ overlap' = [q \in Procs |->
                       IF q = p THEN {} ELSE overlap[q] \cup Touched(row[p])]
    /\ tainted' = (tainted \ Held(p)) \cup (Held(p) \cap overlap[p])
    /\ UNCHANGED <<limit, alertLevel, nextId, target, todo, seen, evals, cur, snap,
                   told, unevaluated, untold, fails>>

(***************************************************************************)
(* UpdateCustomer: a single UPDATE; it changes the denominator of the band *)
(***************************************************************************)
UpdateWithoutEvaluation(p) ==
    /\ pc[p] = "idle"
    /\ \E c \in Customers, l \in Limits :
           /\ lock[c] = None
           /\ limit' = [limit EXCEPT ![c] = l]
    /\ UNCHANGED <<ledger, outstanding, alertLevel, lock, nextId, procVars, histVars>>

UpdateCustomer(p) ==
    /\ pc[p] = "idle"
    /\ \E c \in Customers, l \in Limits :
           /\ lock[c] = None
           /\ limit' = [limit EXCEPT ![c] = l]
           /\ evals' = [evals EXCEPT ![p] = {c}]
    /\ pc' = [pc EXCEPT ![p] = "eval"]
    /\ UNCHANGED <<ledger, outstanding, alertLevel, lock, nextId,
                   target, row, todo, seen, cur, snap, histVars>>

(***************************************************************************)
(* evaluateAlert, after the commit and outside it                          *)
(***************************************************************************)

\* The evaluation of c is over: the next customer of RecalcAll, or the reply.
Finish(p, c) ==
    /\ evals' = [evals EXCEPT ![p] = @ \ {c}]
    /\ pc' = [pc EXCEPT ![p] = IF evals[p] = {c} THEN "idle" ELSE "eval"]
    /\ cur' = [cur EXCEPT ![p] = None]
    /\ snap' = [snap EXCEPT ![p] = NoSnap]

CurrentBand(c) == creditBand(Exposure(outstanding[c]), limit[c])

\* GetCustomer: what evaluateAlert works on from here is this copy.
Reread(p) ==
    /\ pc[p] = "eval"
    /\ \E c \in evals[p] :
           /\ cur' = [cur EXCEPT ![p] = c]
           /\ snap' = [snap EXCEPT ![p] = [band |-> CurrentBand(c), level |-> alertLevel[c]]]
    /\ pc' = [pc EXCEPT ![p] = "band"]
    /\ UNCHANGED <<dbVars, target, row, todo, seen, evals, histVars>>

NotifySameBand(p) ==
    /\ pc[p] = "band"
    /\ snap[p].band = snap[p].level
    /\ \/ /\ snap[p].band > 0
          /\ pc' = [pc EXCEPT ![p] = "notify"]
          /\ UNCHANGED <<evals, cur, snap>>
       \/ /\ snap[p].band = 0
          /\ Finish(p, cur[p])
    /\ unevaluated' = unevaluated \ {cur[p]}
    /\ UNCHANGED <<dbVars, target, row, todo, seen, told, overlap, tainted, untold, fails>>

\* band == c.AlertLevel: nothing to write.
SameBand(p) ==
    /\ pc[p] = "band"
    /\ snap[p].band = snap[p].level
    /\ Finish(p, cur[p])
    /\ unevaluated' = unevaluated \ {cur[p]}
    /\ UNCHANGED <<dbVars, target, row, todo, seen, told, overlap, tainted, untold, fails>>

LatchSilently(p) ==
    /\ pc[p] = "band"
    /\ snap[p].band # snap[p].level
    /\ lock[cur[p]] = None
    /\ alertLevel' = [alertLevel EXCEPT ![cur[p]] = snap[p].band]
    /\ Finish(p, cur[p])
    /\ unevaluated' = unevaluated \ {cur[p]}
    /\ UNCHANGED <<ledger, outstanding, limit, lock, nextId, target, row, todo, seen,
                   told, overlap, tainted, untold, fails>>

\* SetAlertLevel: a rise goes on to the notification, a fall is silent.
SetAlertLevel(p) ==
    /\ pc[p] = "band"
    /\ snap[p].band # snap[p].level
    /\ lock[cur[p]] = None
    /\ alertLevel' = [alertLevel EXCEPT ![cur[p]] = snap[p].band]
    /\ told' = IF snap[p].band < told[cur[p]]
               THEN [told EXCEPT ![cur[p]] = snap[p].band]
               ELSE told
    /\ unevaluated' = unevaluated \ {cur[p]}
    /\ \/ /\ snap[p].band > snap[p].level
          /\ pc' = [pc EXCEPT ![p] = "notify"]
          /\ UNCHANGED <<evals, cur, snap>>
       \/ /\ snap[p].band < snap[p].level
          /\ Finish(p, cur[p])
    /\ UNCHANGED <<ledger, outstanding, limit, lock, nextId, target, row, todo, seen,
                   overlap, tainted, untold, fails>>

\* HandleCreditAlert hands the message over without waiting for delivery.
HandleCreditAlert(p) ==
    /\ pc[p] = "notify"
    /\ told' = IF snap[p].band > told[cur[p]]
               THEN [told EXCEPT ![cur[p]] = snap[p].band]
               ELSE told
    /\ Finish(p, cur[p])
    /\ UNCHANGED <<dbVars, target, row, todo, seen, overlap, tainted, unevaluated, untold, fails>>

(***************************************************************************)
(* Failure                                                                 *)
(***************************************************************************)
ReleaseKeepsLocks(p) ==
    /\ pc' = [pc EXCEPT ![p] = "idle"]
    /\ target' = [target EXCEPT ![p] = {}]
    /\ row' = [row EXCEPT ![p] = {}]
    /\ todo' = [todo EXCEPT ![p] = {}]
    /\ evals' = [evals EXCEPT ![p] = {}]
    /\ cur' = [cur EXCEPT ![p] = None]
    /\ snap' = [snap EXCEPT ![p] = NoSnap]
    /\ UNCHANGED <<lock, ledger, outstanding, limit, alertLevel, nextId, seen,
                   told, overlap, tainted>>

\* The request is over and its transaction, if any, is rolled back: the
\* deferred tx.Rollback, or the server dropping the connection.
Release(p) ==
    /\ pc' = [pc EXCEPT ![p] = "idle"]
    /\ target' = [target EXCEPT ![p] = {}]
    /\ row' = [row EXCEPT ![p] = {}]
    /\ todo' = [todo EXCEPT ![p] = {}]
    /\ evals' = [evals EXCEPT ![p] = {}]
    /\ cur' = [cur EXCEPT ![p] = None]
    /\ snap' = [snap EXCEPT ![p] = NoSnap]
    /\ lock' = [c \in Customers |-> IF lock[c] = p THEN None ELSE lock[c]]
    /\ UNCHANGED <<ledger, outstanding, limit, alertLevel, nextId, seen, told, overlap, tainted>>

\* A statement fails: the client went away and cancelled the request's
\* context, or the connection broke.
RequestFails(p) ==
    /\ pc[p] \in {"gotEntry", "reversing", "open", "summed"}
    /\ fails < MaxFails
    /\ fails' = fails + 1
    /\ Release(p)
    /\ UNCHANGED <<unevaluated, untold>>

\* GetCustomer or SetAlertLevel fails after the commit: the evaluation of that
\* customer is skipped and RecalcAll goes on with the next one.
EvaluationFails(p) ==
    /\ fails < MaxFails
    /\ fails' = fails + 1
    /\ \E c \in evals[p] :
           /\ \/ pc[p] = "eval"
              \/ pc[p] = "band" /\ c = cur[p]
           /\ Finish(p, c)
           /\ unevaluated' = unevaluated \cup {c}
    /\ UNCHANGED <<dbVars, target, row, todo, seen, told, overlap, tainted, untold>>

Blocked(p) == pc[p] = "summed" /\ lock[cur[p]] # None

\* PostgreSQL finds a cycle of waiting transactions and aborts one of them.
DeadlockVictim(p) ==
    /\ \E S \in SUBSET Procs :
           /\ p \in S
           /\ \A q \in S : Blocked(q) /\ lock[cur[q]] \in S
    /\ Release(p)
    /\ UNCHANGED <<unevaluated, untold, fails>>

\* The backend dies: every open transaction is rolled back by the server, and
\* what was left to do after a commit is never done.
Crash ==
    /\ fails < MaxFails
    /\ fails' = fails + 1
    /\ \E p \in Procs : pc[p] # "idle"
    /\ unevaluated' = unevaluated \cup
           UNION {evals[p] : p \in {q \in Procs : pc[q] \in {"eval", "band"}}}
    /\ untold' = untold \cup {cur[p] : p \in {q \in Procs : pc[q] = "notify"}}
    /\ pc' = [p \in Procs |-> "idle"]
    /\ target' = [p \in Procs |-> {}]
    /\ row' = [p \in Procs |-> {}]
    /\ todo' = [p \in Procs |-> {}]
    /\ evals' = [p \in Procs |-> {}]
    /\ cur' = [p \in Procs |-> None]
    /\ snap' = [p \in Procs |-> NoSnap]
    /\ lock' = [c \in Customers |-> None]
    /\ UNCHANGED <<ledger, outstanding, limit, alertLevel, nextId, seen,
                   told, overlap, tainted>>

Steps(p) ==
    \/ HasReversal(p) \/ InsertReversal(p)
    \/ SumLedger(p) \/ WriteOutstanding(p) \/ CommitTx(p)
    \/ Reread(p) \/ SameBand(p) \/ SetAlertLevel(p) \/ HandleCreditAlert(p)
    \/ DeadlockVictim(p)

Openings(p) ==
    \/ AppendEntry(p) \/ GetEntry(p)
    \/ RecalcCustomer(p) \/ RecalcAll(p) \/ UpdateCustomer(p)

Failures(p) == RequestFails(p) \/ EvaluationFails(p)

\* A request works on a customer from the statement that names him to the end of
\* the evaluation of his alert.
WorksOn(p) == Touched(target[p]) \cup evals[p]

Remember ==
    shared' = shared \cup
        {c \in Customers : \E p, q \in Procs : p # q /\ c \in WorksOn(p)' \cap WorksOn(q)'}

Next ==
    /\ Crash \/ \E p \in Procs : Openings(p) \/ Steps(p) \/ Failures(p)
    /\ Remember

Spec == Init /\ [][Next]_vars

\* Go runs every runnable goroutine and the driver every statement (WF); the
\* row lock is granted in the order of the wait queue (SF).
FairSpec ==
    /\ Spec
    /\ \A p \in Procs : /\ WF_vars(Steps(p) /\ Remember)
                        /\ SF_vars((WriteOutstanding(p) \/ SetAlertLevel(p)) /\ Remember)

(***************************************************************************)
(* Properties                                                              *)
(***************************************************************************)
TypeOK ==
    /\ ledger \subseteq Entry
    /\ outstanding \in [Customers -> SUBSET Entry]
    /\ limit \in [Customers -> Limits]
    /\ alertLevel \in [Customers -> Bands]
    /\ lock \in [Customers -> Procs \cup {None}]
    /\ nextId \in Nat \ {0}
    /\ pc \in [Procs -> {"idle", "gotEntry", "reversing", "open", "summed",
                        "eval", "band", "notify"}]
    /\ target \in [Procs -> SUBSET Entry]
    /\ row \in [Procs -> SUBSET Entry]
    /\ todo \in [Procs -> SUBSET Customers]
    /\ seen \in [Procs -> [Customers -> SUBSET Entry]]
    /\ evals \in [Procs -> SUBSET Customers]
    /\ cur \in [Procs -> Customers \cup {None}]
    /\ \A p \in Procs : pc[p] \in {"summed", "band", "notify"} => cur[p] \in Customers
    /\ snap \in [Procs -> [band : Bands, level : Bands]]
    /\ told \in [Customers -> Bands]
    /\ overlap \in [Procs -> SUBSET Customers]
    /\ tainted \subseteq Customers
    /\ unevaluated \subseteq Customers
    /\ untold \subseteq Customers
    /\ fails \in Nat
    /\ shared \subseteq Customers

\* The cached exposure never counts a row that is not committed: a row and the
\* sum that includes it appear together or not at all, whatever is rolled back.
NoPhantomRow == \A c \in Customers : outstanding[c] \subseteq RowsOf(ledger, c)

\* The cached exposure misses a committed row only if a row was committed for
\* that customer between the SUM and the COMMIT of its last recalculation.
StaleOnlyIfOverlapped ==
    \A c \in Customers \ tainted : outstanding[c] = RowsOf(ledger, c)

\* Every reversal undoes one committed entry, itself not a reversal: same
\* customer, same amount, other direction (ReverseEntry reads the entry before
\* the transaction that mirrors it).
ReversalMirrors ==
    \A r \in ledger : IsReversal(r) => \E d \in ledger : ~IsReversal(d) /\ Mirrors(r, d)

\* Whatever overlaps or fails, the ledger keeps the promise CreditBook states:
\* rows only appear, one at a time and well formed, together with a cached sum
\* of committed rows that counts them.
Book == INSTANCE CreditBook WITH journal <- ledger, published <- outstanding
BookSpec == Book!Spec

\* customers.outstanding is a cache of the ledger: the SUM of all its rows.
OutstandingIsLedgerSum ==
    \A c \in Customers : Exposure(outstanding[c]) = Exposure(RowsOf(ledger, c))

\* An entry is reversed at most once.
ReversedOnce ==
    \A r, s \in ledger :
        IsReversal(r) /\ r.cust \notin shared /\ r.reversedOf = s.reversedOf => r = s

\* Once the evaluations after a change are over, the latch is the band of the
\* cached exposure: no write point forgets to evaluate.
LatchFollowsBand ==
    \A c \in Customers \ (shared \cup unevaluated) :
        (\A p \in Procs : c \notin evals[p]) => alertLevel[c] = CurrentBand(c)

\* A latch that stands at a band has been notified at that band, or is about
\* to be, or the process died in between.
RiseIsTold ==
    \A c \in Customers \ (shared \cup untold) :
        \/ alertLevel[c] <= told[c]
        \/ \E p \in Procs : pc[p] = "notify" /\ cur[p] = c /\ snap[p].band >= alertLevel[c]

\* As long as no two requests have worked on a customer at once, his cached exposure is
\* the SUM of his ledger, his entries are reversed once, and latch and alerts follow:
\* whatever failed, died, or happened to other customers.
AloneIsExact ==
    /\ \A c \in Customers \ shared : outstanding[c] = RowsOf(ledger, c)
    /\ ReversedOnce
    /\ LatchFollowsBand
    /\ RiseIsTold

\* As long as no two requests have worked on a customer at once, a band he is in is told
\* once, until the latch has fallen below it.
NoRepeatInBand ==
    [][\A p \in Procs :
           HandleCreditAlert(p) /\ cur[p] \notin shared => snap[p].band > told[cur[p]]]_vars

\* Every request ends: no wait for a row lock lasts for ever.
RequestsEnd == \A p \in Procs : pc[p] # "idle" ~> pc[p] = "idle"
=============================================================================

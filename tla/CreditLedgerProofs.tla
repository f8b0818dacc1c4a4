------------------------- MODULE CreditLedgerProofs -------------------------
(***************************************************************************)
(* Theorems about CreditLedger, for any customers, requests, amounts,      *)
(* limits and bounds.                                                      *)
(***************************************************************************)
EXTENDS CreditLedger, TLAPS
LOCAL INSTANCE FiniteSetsExt

(***************************************************************************)
(* The inductive invariant                                                 *)
(***************************************************************************)
InTx(p) == pc[p] \in {"open", "summed"}

\* Ids come from one sequence, so rows, committed or not, never share one.
IdsUnique ==
    /\ \A e \in ledger : e.id < nextId
    /\ \A d, e \in ledger : d.id = e.id => d = e
    /\ \A p \in Procs : \A e \in row[p] :
           /\ e.id < nextId
           /\ \A d \in ledger : d.id # e.id
           /\ \A d \in row[p] : d = e
           /\ \A q \in Procs \ {p} : \A d \in row[q] : d.id # e.id

\* A row waiting for its commit belongs to an open transaction, undoes a
\* committed entry if it is a reversal, and its customer, and no other, is
\* recalculated before the commit.
RowsWellFormed ==
    \A p \in Procs : \A e \in row[p] :
        /\ InTx(p)
        /\ IsReversal(e) => \E d \in ledger : ~IsReversal(d) /\ Mirrors(e, d)
        /\ e.cust \in todo[p] \/ lock[e.cust] = p
        /\ todo[p] \subseteq {e.cust}
        /\ \A c \in Customers : lock[c] = p => c = e.cust

TargetsCommitted ==
    \A p \in Procs : \A e \in target[p] : e \in ledger /\ ~IsReversal(e)

LocksInTx ==
    /\ \A c \in Customers : lock[c] # None => InTx(lock[c])
    /\ \A p \in Procs : pc[p] = "summed" => cur[p] \in todo[p]

\* The transaction of p has run the SUM of c and not yet committed.
Summed(p, c) == \/ lock[c] = p
                \/ pc[p] = "summed" /\ cur[p] = c

SumsSound ==
    \A p \in Procs, c \in Customers : Summed(p, c) =>
        /\ seen[p][c] \subseteq RowsOf(ledger \cup row[p], c)
        /\ RowsOf(row[p], c) \subseteq seen[p][c]
        /\ c \notin overlap[p] => seen[p][c] = RowsOf(ledger \cup row[p], c)

IInv ==
    /\ TypeOK
    /\ IdsUnique
    /\ RowsWellFormed
    /\ TargetsCommitted
    /\ LocksInTx
    /\ SumsSound
    /\ NoPhantomRow
    /\ StaleOnlyIfOverlapped
    /\ ReversalMirrors
(***************************************************************************)
(* Type correctness                                                        *)
(***************************************************************************)
LEMMA BandsOfCreditBand == \A x, l : creditBand(x, l) \in Bands
  BY DEF creditBand, Bands

\* Every variable starts with a value of its type.
LEMMA TypeInit == Init => TypeOK
  BY LedgerAssumption, AmountsArePositive DEF Init, TypeOK, NoSnap, Bands

\* Every step keeps every variable in its type, action by action.
LEMMA TypeStep == TypeOK /\ [Next]_vars => TypeOK'
  <1> SUFFICES ASSUME TypeOK, [Next]_vars PROVE TypeOK'
    OBVIOUS
  <1>0. shared' \subseteq Customers
    BY DEF Next, Remember, vars, TypeOK
  <1> USE <1>0, LedgerAssumption, AmountsArePositive DEF TypeOK
  <1>1. ASSUME NEW p \in Procs, AppendEntry(p) PROVE TypeOK'
    BY <1>1 DEF AppendEntry, OpenTx, NewRow, Entry, Types, histVars
  <1>2. ASSUME NEW p \in Procs, GetEntry(p) PROVE TypeOK'
    BY <1>2 DEF GetEntry, dbVars, histVars
  <1>3. ASSUME NEW p \in Procs, RecalcCustomer(p) PROVE TypeOK'
    BY <1>3 DEF RecalcCustomer, OpenTx, dbVars, histVars
  <1>4. ASSUME NEW p \in Procs, RecalcAll(p) PROVE TypeOK'
    BY <1>4 DEF RecalcAll, OpenTx, dbVars, histVars
  <1>5. ASSUME NEW p \in Procs, UpdateCustomer(p) PROVE TypeOK'
    BY <1>5 DEF UpdateCustomer, histVars
  <1>6. ASSUME NEW p \in Procs, HasReversal(p) PROVE TypeOK'
    BY ZenonT(60), <1>6 DEF HasReversal, dbVars, histVars
  <1>7. ASSUME NEW p \in Procs, InsertReversal(p) PROVE TypeOK'
    <2>1. PICK e \in target[p] :
             OpenTx(p, {NewRow(e.cust, Opposite(e.type), e.amount, e.id)}, {e.cust})
      BY <1>7 DEF InsertReversal
    <2>2. e \in Entry
      OBVIOUS
    <2>3. NewRow(e.cust, Opposite(e.type), e.amount, e.id) \in Entry /\ e.cust \in Customers
      BY <2>2 DEF NewRow, Opposite, Entry, Types
    <2>4. row' \in [Procs -> SUBSET Entry] /\ todo' \in [Procs -> SUBSET Customers]
          /\ evals' \in [Procs -> SUBSET Customers]
      BY <2>1, <2>3 DEF OpenTx
    <2>5. QED
      BY <1>7, <2>1, <2>4 DEF InsertReversal, OpenTx, histVars
  <1>8. ASSUME NEW p \in Procs, SumLedger(p) PROVE TypeOK'
    BY <1>8 DEF SumLedger, RowsOf, dbVars
  <1>9. ASSUME NEW p \in Procs, WriteOutstanding(p) PROVE TypeOK'
    BY <1>9 DEF WriteOutstanding, histVars
  <1>10. ASSUME NEW p \in Procs, CommitTx(p) PROVE TypeOK'
    BY <1>10 DEF CommitTx, Held, Touched, Entry
  <1>11. ASSUME NEW p \in Procs, Reread(p) PROVE TypeOK'
    BY BandsOfCreditBand, <1>11 DEF Reread, CurrentBand, dbVars, histVars
  <1>12. ASSUME NEW p \in Procs, SameBand(p) PROVE TypeOK'
    BY <1>12 DEF SameBand, Finish, NoSnap, Bands, dbVars
  <1>13. ASSUME NEW p \in Procs, SetAlertLevel(p) PROVE TypeOK'
    <2>1. snap[p].band \in Bands /\ snap[p].level \in Bands /\ cur[p] \in Customers
      BY <1>13 DEF SetAlertLevel
    <2>2. alertLevel' \in [Customers -> Bands] /\ told' \in [Customers -> Bands]
      BY <1>13, <2>1 DEF SetAlertLevel
    <2>3. CASE snap[p].band > snap[p].level
      <3>1. pc' = [pc EXCEPT ![p] = "notify"] /\ UNCHANGED <<evals, cur, snap>>
        BY <1>13, <2>1, <2>3 DEF SetAlertLevel, Bands
      <3>2. QED
        BY <1>13, <2>1, <2>2, <3>1 DEF SetAlertLevel
    <2>4. CASE ~(snap[p].band > snap[p].level)
      <3>1. Finish(p, cur[p])
        BY <1>13, <2>4 DEF SetAlertLevel
      <3>2. /\ evals' \in [Procs -> SUBSET Customers]
            /\ snap' \in [Procs -> [band : Bands, level : Bands]]
        BY <3>1 DEF Finish, NoSnap, Bands
      <3>3. QED
        BY <1>13, <2>2, <3>1, <3>2 DEF SetAlertLevel, Finish
    <2>5. QED
      BY <2>3, <2>4
  <1>14. ASSUME NEW p \in Procs, HandleCreditAlert(p) PROVE TypeOK'
    BY <1>14 DEF HandleCreditAlert, Finish, NoSnap, Bands, dbVars
  <1>15. ASSUME NEW p \in Procs, DeadlockVictim(p) PROVE TypeOK'
    BY <1>15 DEF DeadlockVictim, Release, NoSnap, Bands
  <1>16. ASSUME NEW p \in Procs, RequestFails(p) PROVE TypeOK'
    BY <1>16 DEF RequestFails, Release, NoSnap, Bands
  <1>17. ASSUME NEW p \in Procs, EvaluationFails(p) PROVE TypeOK'
    BY <1>17 DEF EvaluationFails, Finish, NoSnap, Bands, dbVars
  <1>18. CASE Crash
    <2>1. \A p \in Procs : evals[p] \subseteq Customers
      OBVIOUS
    <2>2. unevaluated' \subseteq Customers /\ untold' \subseteq Customers
      BY <1>18, <2>1 DEF Crash
    <2>3. QED
      BY <1>18, <2>2 DEF Crash, NoSnap, Bands
  <1>19. CASE UNCHANGED vars
    BY <1>19 DEF vars, dbVars, procVars, histVars
  <1> QED
    BY <1>1, <1>2, <1>3, <1>4, <1>5, <1>6, <1>7, <1>8, <1>9, <1>10, <1>11, <1>12, <1>13, <1>14,
       <1>15, <1>16, <1>17, <1>18, <1>19 DEF Next, Openings, Steps, Failures

\* TypeOK holds in every reachable state (the columns of models.go and repo/credit.go).
THEOREM TypeCorrect == Spec => []TypeOK
  BY TypeInit, TypeStep, PTL DEF Spec

(***************************************************************************)
(* The inductive invariant is inductive                                    *)
(***************************************************************************)
LEMMA InvInit == Init => IInv
  <1> SUFFICES ASSUME Init PROVE IInv
    OBVIOUS
  <1>1. TypeOK
    BY TypeInit
  <1>2. IdsUnique /\ RowsWellFormed /\ TargetsCommitted /\ LocksInTx
    BY DEF Init, IdsUnique, RowsWellFormed, TargetsCommitted, LocksInTx
  <1>3. SumsSound
    BY LedgerAssumption DEF Init, SumsSound, Summed
  <1>4. NoPhantomRow /\ StaleOnlyIfOverlapped /\ ReversalMirrors
    BY DEF Init, NoPhantomRow, StaleOnlyIfOverlapped, ReversalMirrors, RowsOf
  <1> QED
    BY <1>1, <1>2, <1>3, <1>4 DEF IInv

\* A step of p outside a transaction that leaves the ledger, the rows under
\* way and the sums alone keeps the invariant.
OutsideTx(p) ==
    /\ ~InTx(p) /\ ~InTx(p)'
    /\ \A q \in Procs \ {p} : pc'[q] = pc[q] /\ cur'[q] = cur[q]
    /\ UNCHANGED <<ledger, outstanding, lock, nextId, row, todo, seen, overlap, tainted>>

\* A step that writes no entry and no exposure and moves no transaction keeps the
\* invariant.
LEMMA OutsideTxStep ==
    ASSUME IInv, TypeOK', NEW p \in Procs, OutsideTx(p), TargetsCommitted'
    PROVE  IInv'
  <1> USE DEF IInv, OutsideTx
  <1>1. \A q \in Procs : InTx(q)' <=> InTx(q)
    BY DEF InTx
  <1>2. IdsUnique'
    BY DEF IdsUnique
  <1>3. RowsWellFormed'
    BY <1>1 DEF RowsWellFormed
  <1>4. LocksInTx'
    <2>1. \A c \in Customers : lock'[c] # None => pc'[lock'[c]] \in {"open", "summed"}
      BY <1>1 DEF LocksInTx, TypeOK, InTx
    <2>2. ASSUME NEW q \in Procs, pc'[q] = "summed" PROVE cur'[q] \in todo'[q]
      <3>1. q # p
        BY <2>2 DEF InTx
      <3>2. QED
        BY <2>2, <3>1 DEF LocksInTx
    <2>3. QED
      BY <2>1, <2>2 DEF LocksInTx, InTx
  <1>5. SumsSound'
    <2>1. \A q \in Procs, c \in Customers : Summed(q, c)' => Summed(q, c)
      BY DEF Summed, InTx
    <2>2. QED
      BY <2>1 DEF SumsSound
  <1>6. NoPhantomRow' /\ StaleOnlyIfOverlapped' /\ ReversalMirrors'
    BY DEF NoPhantomRow, StaleOnlyIfOverlapped, ReversalMirrors
  <1> QED
    BY <1>2, <1>3, <1>4, <1>5, <1>6

\* A transaction opens with the row set S: nothing, or one fresh well-formed row.
LEMMA OpenTxStep ==
    ASSUME IInv, TypeOK', NEW p \in Procs, pc[p] \in {"idle", "reversing"},
           NEW S, NEW C, OpenTx(p, S, C),
           \A e \in S : /\ e.id = nextId /\ nextId' = nextId + 1
                        /\ C = {e.cust}
                        /\ IsReversal(e) => \E d \in ledger : ~IsReversal(d) /\ Mirrors(e, d),
           \A d, e \in S : d = e,
           nextId' \in {nextId, nextId + 1},
           UNCHANGED <<ledger, outstanding, lock, seen, cur, overlap, tainted>>,
           TargetsCommitted'
    PROVE  IInv'
  <1> USE DEF IInv, OpenTx
  <1>1. row'[p] = S /\ todo'[p] = C /\ pc'[p] = "open"
    BY DEF TypeOK
  <1>2. \A q \in Procs \ {p} : row'[q] = row[q] /\ todo'[q] = todo[q] /\ pc'[q] = pc[q]
    BY DEF TypeOK
  <1>3. ASSUME NEW c \in Customers, lock[c] = p PROVE FALSE
    <2>1. lock[c] # None
      BY <1>3, LedgerAssumption
    <2>2. InTx(p)
      BY <1>3, <2>1 DEF LocksInTx
    <2>3. QED
      BY <2>2 DEF InTx
  <1>4. row[p] = {}
    BY DEF RowsWellFormed, InTx
  <1>5. nextId \in Nat /\ nextId' >= nextId
    BY DEF TypeOK
  <1>6. IdsUnique'
    <2>1. \A e \in ledger : e.id < nextId /\ e.id \in Nat
      BY DEF IdsUnique, TypeOK, Entry
    <2>2. \A q \in Procs : \A e \in row[q] : e.id < nextId /\ e.id \in Nat
      BY DEF IdsUnique, TypeOK, Entry
    <2>3. \A e \in ledger' : e.id < nextId'
      BY <1>5, <2>1
    <2>4. \A d, e \in ledger' : d.id = e.id => d = e
      BY DEF IdsUnique
    <2>5. ASSUME NEW q \in Procs, NEW e \in row'[q]
          PROVE  /\ e.id < nextId'
                 /\ \A d \in ledger' : d.id # e.id
                 /\ \A d \in row'[q] : d = e
                 /\ \A r \in Procs \ {q} : \A d \in row'[r] : d.id # e.id
      <3>1. CASE q = p
        BY <1>1, <1>2, <1>5, <2>1, <2>2, <2>5, <3>1
      <3>2. CASE q # p
        BY <1>1, <1>2, <1>5, <2>2, <2>5, <3>2 DEF IdsUnique
      <3>3. QED
        BY <3>1, <3>2
    <2>6. QED
      BY <2>3, <2>4, <2>5 DEF IdsUnique
  <1>7. RowsWellFormed'
    BY <1>1, <1>2, <1>3 DEF RowsWellFormed, InTx
  <1>8. LocksInTx'
    <2>1. ASSUME NEW c \in Customers, lock'[c] # None PROVE pc'[lock'[c]] \in {"open", "summed"}
      <3>1. lock[c] \in Procs \ {p} /\ InTx(lock[c])
        BY <1>3, <2>1 DEF LocksInTx, TypeOK
      <3>2. QED
        BY <1>2, <3>1 DEF InTx
    <2>2. ASSUME NEW q \in Procs, pc'[q] = "summed" PROVE cur'[q] \in todo'[q]
      <3>1. q # p
        BY <1>1, <2>2
      <3>2. QED
        BY <1>2, <2>2, <3>1 DEF LocksInTx
    <2>3. QED
      BY <2>1, <2>2 DEF LocksInTx, InTx
  <1>9. SumsSound'
    <2> SUFFICES ASSUME NEW q \in Procs, NEW c \in Customers, Summed(q, c)'
                 PROVE  (/\ seen[q][c] \subseteq RowsOf(ledger \cup row[q], c)
                         /\ RowsOf(row[q], c) \subseteq seen[q][c]
                         /\ c \notin overlap[q] => seen[q][c] = RowsOf(ledger \cup row[q], c))'
      BY DEF SumsSound
    <2>1. q # p
      BY <1>1, <1>3 DEF Summed
    <2>2. Summed(q, c)
      BY <1>2, <2>1 DEF Summed
    <2>3. row'[q] = row[q]
      BY <1>2, <2>1
    <2>4. QED
      BY <2>2, <2>3 DEF SumsSound
  <1>10. NoPhantomRow' /\ StaleOnlyIfOverlapped' /\ ReversalMirrors'
    BY DEF NoPhantomRow, StaleOnlyIfOverlapped, ReversalMirrors
  <1> QED
    BY <1>6, <1>7, <1>8, <1>9, <1>10

\* The SUM: it sees the committed rows of c and its own.
LEMMA SumStep == ASSUME IInv, TypeOK', NEW p \in Procs, SumLedger(p) PROVE IInv'
  <1> USE DEF IInv
  <1>1. PICK c \in todo[p] : /\ cur' = [cur EXCEPT ![p] = c]
                             /\ seen' = [seen EXCEPT ![p][c] = RowsOf(ledger \cup row[p], c)]
                             /\ overlap' = [overlap EXCEPT ![p] = @ \ {c}]
    BY DEF SumLedger
  <1>2. /\ pc[p] = "open" /\ pc' = [pc EXCEPT ![p] = "summed"]
        /\ UNCHANGED <<dbVars, target, row, todo, tainted>>
    BY DEF SumLedger
  <1>3. \A q \in Procs : InTx(q)' <=> InTx(q)
    BY <1>2 DEF InTx, TypeOK
  <1>4. IdsUnique' /\ TargetsCommitted'
    BY <1>2 DEF IdsUnique, TargetsCommitted, dbVars
  <1>5. RowsWellFormed'
    BY <1>2, <1>3 DEF RowsWellFormed, dbVars
  <1>8. LocksInTx'
    <2>1. \A d \in Customers : lock'[d] # None => pc'[lock'[d]] \in {"open", "summed"}
      BY <1>2, <1>3 DEF LocksInTx, TypeOK, InTx, dbVars
    <2>2. ASSUME NEW q \in Procs, pc'[q] = "summed" PROVE cur'[q] \in todo'[q]
      BY <1>1, <1>2, <2>2 DEF LocksInTx, TypeOK
    <2>3. QED
      BY <2>1, <2>2 DEF LocksInTx, InTx
  <1>6. SumsSound'
    <2> SUFFICES ASSUME NEW q \in Procs, NEW d \in Customers, Summed(q, d)'
                 PROVE  (/\ seen[q][d] \subseteq RowsOf(ledger \cup row[q], d)
                         /\ RowsOf(row[q], d) \subseteq seen[q][d]
                         /\ d \notin overlap[q] => seen[q][d] = RowsOf(ledger \cup row[q], d))'
      BY DEF SumsSound
    <2>1. CASE q = p /\ d = c
      <3>1. seen'[p][c] = RowsOf(ledger \cup row[p], c)
        BY <1>1 DEF TypeOK
      <3>2. QED
        BY <1>2, <2>1, <3>1 DEF RowsOf, dbVars
    <2>2. CASE ~(q = p /\ d = c)
      <3>1. seen'[q][d] = seen[q][d] /\ (d \notin overlap'[q] => d \notin overlap[q])
        BY <1>1, <2>2 DEF TypeOK
      <3>2. Summed(q, d)
        BY <1>1, <1>2, <2>2 DEF Summed, TypeOK, dbVars
      <3>3. QED
        BY <1>2, <3>1, <3>2 DEF SumsSound, dbVars
    <2>3. QED
      BY <2>1, <2>2
  <1>7. NoPhantomRow' /\ StaleOnlyIfOverlapped' /\ ReversalMirrors'
    BY <1>2 DEF NoPhantomRow, StaleOnlyIfOverlapped, ReversalMirrors, dbVars
  <1> QED
    BY <1>4, <1>5, <1>6, <1>7, <1>8

\* The UPDATE: it takes the row lock and leaves the sum it writes alone.
LEMMA WriteStep == ASSUME IInv, TypeOK', NEW p \in Procs, WriteOutstanding(p) PROVE IInv'
  <1> USE DEF IInv
  <1>1. /\ pc[p] = "summed" /\ pc' = [pc EXCEPT ![p] = "open"]
        /\ lock[cur[p]] = None
        /\ lock' = [lock EXCEPT ![cur[p]] = p]
        /\ todo' = [todo EXCEPT ![p] = @ \ {cur[p]}]
        /\ UNCHANGED <<ledger, outstanding, nextId, target, row, seen, cur, overlap, tainted>>
    BY DEF WriteOutstanding, histVars
  <1>2. cur[p] \in Customers
    BY <1>1 DEF TypeOK
  <1>3. \A q \in Procs : InTx(q)' <=> InTx(q)
    BY <1>1 DEF InTx, TypeOK
  <1>4. IdsUnique' /\ TargetsCommitted'
    BY <1>1 DEF IdsUnique, TargetsCommitted
  <1>5. RowsWellFormed'
    <2>1. ASSUME NEW q \in Procs, NEW e \in row[q]
          PROVE  /\ e.cust \in todo'[q] \/ lock'[e.cust] = q
                 /\ todo'[q] \subseteq {e.cust}
                 /\ \A c \in Customers : lock'[c] = q => c = e.cust
      <3>1. e.cust \in Customers
        BY DEF TypeOK, Entry
      <3>2. /\ e.cust \in todo[q] \/ lock[e.cust] = q
            /\ todo[q] \subseteq {e.cust}
            /\ \A c \in Customers : lock[c] = q => c = e.cust
        BY DEF RowsWellFormed
      <3>3. cur[p] \in todo[p]
        BY <1>1 DEF LocksInTx
      <3>4. QED
        BY <1>1, <1>2, <3>1, <3>2, <3>3, LedgerAssumption DEF TypeOK
    <2>2. QED
      BY <1>1, <1>3, <2>1 DEF RowsWellFormed
  <1>6. LocksInTx'
    BY <1>1, <1>2, <1>3, LedgerAssumption DEF LocksInTx, TypeOK, InTx
  <1>7. SumsSound'
    <2>1. \A q \in Procs, c \in Customers : Summed(q, c)' => Summed(q, c)
      BY <1>1, <1>2 DEF Summed, TypeOK
    <2>2. QED
      BY <1>1, <2>1 DEF SumsSound
  <1>8. NoPhantomRow' /\ StaleOnlyIfOverlapped' /\ ReversalMirrors'
    BY <1>1 DEF NoPhantomRow, StaleOnlyIfOverlapped, ReversalMirrors
  <1> QED
    BY <1>4, <1>5, <1>6, <1>7, <1>8

\* The COMMIT: the row and the sums that count it appear together.
LEMMA CommitStep == ASSUME IInv, TypeOK', NEW p \in Procs, CommitTx(p) PROVE IInv'
  <1> USE DEF IInv
  <1>1. /\ pc[p] = "open" /\ pc' = [pc EXCEPT ![p] = "eval"]
        /\ todo[p] = {}
        /\ ledger' = ledger \cup row[p]
        /\ outstanding' = [c \in Customers |-> IF lock[c] = p THEN seen[p][c] ELSE outstanding[c]]
        /\ lock' = [c \in Customers |-> IF lock[c] = p THEN None ELSE lock[c]]
        /\ row' = [row EXCEPT ![p] = {}]
        /\ overlap' = [q \in Procs |-> IF q = p THEN {} ELSE overlap[q] \cup Touched(row[p])]
        /\ tainted' = (tainted \ Held(p)) \cup (Held(p) \cap overlap[p])
        /\ UNCHANGED <<nextId, target, todo, seen, cur>>
    BY DEF CommitTx
  <1>2. row'[p] = {} /\ \A q \in Procs \ {p} : row'[q] = row[q]
    BY <1>1 DEF TypeOK
  <1>3. \A e \in row[p] : e.cust \in Customers /\ lock[e.cust] = p
    BY <1>1 DEF RowsWellFormed, TypeOK, Entry
  <1>4. \A q \in Procs \ {p} : InTx(q)' <=> InTx(q)
    BY <1>1 DEF InTx, TypeOK
  <1>5. p # None
    BY LedgerAssumption
  <1>6. IdsUnique'
    BY <1>1, <1>2 DEF IdsUnique
  <1>7. RowsWellFormed'
    <2> SUFFICES ASSUME NEW q \in Procs, NEW e \in row'[q]
                 PROVE  /\ InTx(q)'
                        /\ IsReversal(e) => \E d \in ledger' : ~IsReversal(d) /\ Mirrors(e, d)
                        /\ e.cust \in todo'[q] \/ lock'[e.cust] = q
                        /\ todo'[q] \subseteq {e.cust}
                        /\ \A c \in Customers : lock'[c] = q => c = e.cust
      BY DEF RowsWellFormed
    <2>1. q # p /\ e \in row[q]
      BY <1>2
    <2>2. e.cust \in Customers
      BY <2>1 DEF TypeOK, Entry
    <2>3. /\ InTx(q)
          /\ IsReversal(e) => \E d \in ledger : ~IsReversal(d) /\ Mirrors(e, d)
          /\ e.cust \in todo[q] \/ lock[e.cust] = q
          /\ todo[q] \subseteq {e.cust}
          /\ \A c \in Customers : lock[c] = q => c = e.cust
      BY <2>1 DEF RowsWellFormed
    <2>4. todo'[q] = todo[q] /\ ledger \subseteq ledger'
      BY <1>1, <2>1 DEF TypeOK
    <2>5. \A c \in Customers : lock'[c] = q <=> lock[c] = q
      BY <1>1, <2>1, LedgerAssumption
    <2>6. InTx(q)'
      BY <1>4, <2>1, <2>3
    <2>7. QED
      BY <2>2, <2>3, <2>4, <2>5, <2>6
  <1>8. TargetsCommitted'
    BY <1>1 DEF TargetsCommitted
  <1>9. LocksInTx'
    BY <1>1, <1>4, <1>5, LedgerAssumption DEF LocksInTx, TypeOK
  <1>10. SumsSound'
    <2> SUFFICES ASSUME NEW q \in Procs, NEW c \in Customers, Summed(q, c)'
                 PROVE  (/\ seen[q][c] \subseteq RowsOf(ledger \cup row[q], c)
                         /\ RowsOf(row[q], c) \subseteq seen[q][c]
                         /\ c \notin overlap[q] => seen[q][c] = RowsOf(ledger \cup row[q], c))'
      BY DEF SumsSound
    <2>1. q # p
      BY <1>1, <1>5 DEF Summed, TypeOK
    <2>2. Summed(q, c)
      BY <1>1, <2>1, LedgerAssumption DEF Summed, TypeOK
    <2>3. /\ seen[q][c] \subseteq RowsOf(ledger \cup row[q], c)
          /\ RowsOf(row[q], c) \subseteq seen[q][c]
          /\ c \notin overlap[q] => seen[q][c] = RowsOf(ledger \cup row[q], c)
      BY <2>2 DEF SumsSound
    <2>4. row'[q] = row[q] /\ overlap'[q] = overlap[q] \cup Touched(row[p])
      BY <1>1, <1>2, <2>1
    <2>5. c \notin overlap'[q] => RowsOf(ledger' \cup row'[q], c) = RowsOf(ledger \cup row[q], c)
      BY <1>1, <2>4 DEF RowsOf, Touched
    <2>6. RowsOf(ledger \cup row[q], c) \subseteq RowsOf(ledger' \cup row'[q], c)
      BY <1>1, <2>4 DEF RowsOf
    <2>7. QED
      BY <1>1, <2>3, <2>4, <2>5, <2>6
  <1>11. \A c \in Customers : lock[c] = p => Summed(p, c)
    BY DEF Summed
  <1>12. NoPhantomRow'
    <2> SUFFICES ASSUME NEW c \in Customers PROVE outstanding'[c] \subseteq RowsOf(ledger', c)
      BY DEF NoPhantomRow
    <2>1. CASE lock[c] = p
      BY <1>1, <1>11, <2>1 DEF SumsSound
    <2>2. CASE lock[c] # p
      BY <1>1, <2>2 DEF NoPhantomRow, RowsOf
    <2>3. QED
      BY <2>1, <2>2
  <1>13. StaleOnlyIfOverlapped'
    <2> SUFFICES ASSUME NEW c \in Customers, c \notin tainted'
                 PROVE  outstanding'[c] = RowsOf(ledger', c)
      BY DEF StaleOnlyIfOverlapped
    <2>1. CASE lock[c] = p
      <3>1. c \notin overlap[p]
        BY <1>1, <2>1 DEF Held
      <3>2. QED
        BY <1>1, <1>11, <2>1, <3>1 DEF SumsSound
    <2>2. CASE lock[c] # p
      <3>1. c \notin tainted /\ outstanding'[c] = outstanding[c]
        BY <1>1, <2>2 DEF Held
      <3>2. RowsOf(ledger', c) = RowsOf(ledger, c)
        BY <1>1, <1>3, <2>2 DEF RowsOf
      <3>3. QED
        BY <3>1, <3>2 DEF StaleOnlyIfOverlapped
    <2>3. QED
      BY <2>1, <2>2
  <1>14. ReversalMirrors'
    BY <1>1 DEF ReversalMirrors, RowsWellFormed
  <1> QED
    BY <1>6, <1>7, <1>8, <1>9, <1>10, <1>12, <1>13, <1>14

\* A rollback: the row disappears and no sum of anyone else counted it.
LEMMA ReleaseStep == ASSUME IInv, TypeOK', NEW p \in Procs, Release(p) PROVE IInv'
  <1> USE DEF IInv
  <1>1. /\ pc' = [pc EXCEPT ![p] = "idle"]
        /\ target' = [target EXCEPT ![p] = {}]
        /\ row' = [row EXCEPT ![p] = {}]
        /\ todo' = [todo EXCEPT ![p] = {}]
        /\ cur' = [cur EXCEPT ![p] = None]
        /\ lock' = [c \in Customers |-> IF lock[c] = p THEN None ELSE lock[c]]
        /\ UNCHANGED <<ledger, outstanding, nextId, seen, overlap, tainted>>
    BY DEF Release
  <1>2. row'[p] = {} /\ \A q \in Procs \ {p} : row'[q] = row[q]
    BY <1>1 DEF TypeOK
  <1>3. \A q \in Procs \ {p} : InTx(q)' <=> InTx(q)
    BY <1>1 DEF InTx, TypeOK
  <1>4. IdsUnique'
    BY <1>1, <1>2 DEF IdsUnique
  <1>5. RowsWellFormed'
    <2> SUFFICES ASSUME NEW q \in Procs, NEW e \in row'[q]
                 PROVE  /\ InTx(q)'
                        /\ IsReversal(e) => \E d \in ledger' : ~IsReversal(d) /\ Mirrors(e, d)
                        /\ e.cust \in todo'[q] \/ lock'[e.cust] = q
                        /\ todo'[q] \subseteq {e.cust}
                        /\ \A c \in Customers : lock'[c] = q => c = e.cust
      BY DEF RowsWellFormed
    <2>1. q # p /\ e \in row[q]
      BY <1>2
    <2>2. e.cust \in Customers
      BY <2>1 DEF TypeOK, Entry
    <2>3. /\ InTx(q)
          /\ IsReversal(e) => \E d \in ledger : ~IsReversal(d) /\ Mirrors(e, d)
          /\ e.cust \in todo[q] \/ lock[e.cust] = q
          /\ todo[q] \subseteq {e.cust}
          /\ \A c \in Customers : lock[c] = q => c = e.cust
      BY <2>1 DEF RowsWellFormed
    <2>4. todo'[q] = todo[q] /\ ledger \subseteq ledger'
      BY <1>1, <2>1 DEF TypeOK
    <2>5. \A c \in Customers : lock'[c] = q <=> lock[c] = q
      BY <1>1, <2>1, LedgerAssumption
    <2>6. InTx(q)'
      BY <1>3, <2>1, <2>3
    <2>7. QED
      BY <2>2, <2>3, <2>4, <2>5, <2>6
  <1>6. TargetsCommitted' /\ LocksInTx'
    BY <1>1, <1>3, LedgerAssumption DEF TargetsCommitted, LocksInTx, TypeOK
  <1>7. SumsSound'
    <2> SUFFICES ASSUME NEW q \in Procs, NEW c \in Customers, Summed(q, c)'
                 PROVE  (/\ seen[q][c] \subseteq RowsOf(ledger \cup row[q], c)
                         /\ RowsOf(row[q], c) \subseteq seen[q][c]
                         /\ c \notin overlap[q] => seen[q][c] = RowsOf(ledger \cup row[q], c))'
      BY DEF SumsSound
    <2>1. q # p
      BY <1>1, LedgerAssumption DEF Summed, TypeOK
    <2>2. Summed(q, c)
      BY <1>1, <2>1, LedgerAssumption DEF Summed, TypeOK
    <2>3. row'[q] = row[q] /\ UNCHANGED <<ledger, seen, overlap>>
      BY <1>1, <1>2, <2>1
    <2>4. QED
      BY <2>2, <2>3 DEF SumsSound
  <1>8. NoPhantomRow' /\ StaleOnlyIfOverlapped' /\ ReversalMirrors'
    BY <1>1 DEF NoPhantomRow, StaleOnlyIfOverlapped, ReversalMirrors
  <1> QED
    BY <1>4, <1>5, <1>6, <1>7, <1>8

\* A crash rolls every open transaction back and keeps the invariant.
LEMMA CrashStep == ASSUME IInv, TypeOK', Crash PROVE IInv'
  <1> USE DEF IInv
  <1>1. /\ pc' = [p \in Procs |-> "idle"]
        /\ target' = [p \in Procs |-> {}]
        /\ row' = [p \in Procs |-> {}]
        /\ lock' = [c \in Customers |-> None]
        /\ UNCHANGED <<ledger, outstanding, nextId, tainted>>
    BY DEF Crash
  <1>2. IdsUnique' /\ RowsWellFormed' /\ TargetsCommitted' /\ LocksInTx'
    BY <1>1 DEF IdsUnique, RowsWellFormed, TargetsCommitted, LocksInTx
  <1>3. SumsSound'
    BY <1>1, LedgerAssumption DEF SumsSound, Summed
  <1>4. NoPhantomRow' /\ StaleOnlyIfOverlapped' /\ ReversalMirrors'
    BY <1>1 DEF NoPhantomRow, StaleOnlyIfOverlapped, ReversalMirrors
  <1> QED
    BY <1>2, <1>3, <1>4

\* The induction step of IInv, one lemma or one case per action.
LEMMA InvStep == IInv /\ [Next]_vars => IInv'
  <1> SUFFICES ASSUME IInv, [Next]_vars PROVE IInv'
    OBVIOUS
  <1>0. TypeOK'
    BY TypeStep DEF IInv
  <1> USE <1>0
  <1>1. ASSUME NEW p \in Procs, AppendEntry(p) PROVE IInv'
    <2>1. PICK c \in Customers, t \in Types, a \in Amounts :
              OpenTx(p, {NewRow(c, t, a, 0)}, {c})
      BY <1>1 DEF AppendEntry
    <2>2. TargetsCommitted'
      BY <1>1 DEF AppendEntry, TargetsCommitted, IInv
    <2>3. /\ pc[p] = "idle" /\ nextId' = nextId + 1
          /\ UNCHANGED <<ledger, outstanding, lock, seen, cur, overlap, tainted>>
      BY <1>1 DEF AppendEntry, histVars
    <2>4. \A e \in {NewRow(c, t, a, 0)} : e.id = nextId /\ {c} = {e.cust} /\ ~IsReversal(e)
      BY DEF NewRow, IsReversal
    <2>5. QED
      BY <2>1, <2>2, <2>3, <2>4, OpenTxStep
  <1>2. ASSUME NEW p \in Procs, InsertReversal(p) PROVE IInv'
    <2>1. PICK e \in target[p] :
              OpenTx(p, {NewRow(e.cust, Opposite(e.type), e.amount, e.id)}, {e.cust})
      BY <1>2 DEF InsertReversal
    <2>2. TargetsCommitted'
      BY <1>2 DEF InsertReversal, TargetsCommitted, IInv, TypeOK
    <2>3. /\ pc[p] = "reversing" /\ nextId' = nextId + 1
          /\ UNCHANGED <<ledger, outstanding, lock, seen, cur, overlap, tainted>>
      BY <1>2 DEF InsertReversal, histVars
    <2>4. e \in ledger /\ ~IsReversal(e)
      BY DEF IInv, TargetsCommitted
    <2>5. ASSUME NEW r \in {NewRow(e.cust, Opposite(e.type), e.amount, e.id)}
          PROVE  r.id = nextId /\ {e.cust} = {r.cust} /\ Mirrors(r, e)
      BY DEF NewRow, Mirrors
    <2>6. QED
      BY <2>1, <2>2, <2>3, <2>4, <2>5, OpenTxStep
  <1>3. ASSUME NEW p \in Procs, RecalcCustomer(p) PROVE IInv'
    <2>1. PICK c \in Customers : OpenTx(p, {}, {c})
      BY <1>3 DEF RecalcCustomer
    <2>2. TargetsCommitted'
      BY <1>3 DEF RecalcCustomer, TargetsCommitted, dbVars, IInv
    <2>3. /\ pc[p] = "idle"
          /\ UNCHANGED <<ledger, outstanding, lock, nextId, seen, cur, overlap, tainted>>
      BY <1>3 DEF RecalcCustomer, dbVars, histVars
    <2>4. QED
      BY <2>1, <2>2, <2>3, OpenTxStep
  <1>4. ASSUME NEW p \in Procs, RecalcAll(p) PROVE IInv'
    <2>1. TargetsCommitted'
      BY <1>4 DEF RecalcAll, TargetsCommitted, dbVars, IInv
    <2>2. /\ pc[p] = "idle"
          /\ UNCHANGED <<ledger, outstanding, lock, nextId, seen, cur, overlap, tainted>>
      BY <1>4 DEF RecalcAll, dbVars, histVars
    <2>3. OpenTx(p, {}, Customers)
      BY <1>4 DEF RecalcAll
    <2>4. QED
      BY <2>1, <2>2, <2>3, OpenTxStep
  <1>5. ASSUME NEW p \in Procs, GetEntry(p) \/ HasReversal(p) PROVE IInv'
    <2>1. OutsideTx(p)
      <3>1. CASE GetEntry(p)
        BY <3>1 DEF GetEntry, OutsideTx, InTx, IInv, TypeOK, dbVars, histVars
      <3>2. CASE HasReversal(p)
        BY <3>2 DEF HasReversal, OutsideTx, InTx, IInv, TypeOK, dbVars, histVars
      <3>3. QED
        BY <1>5, <3>1, <3>2
    <2>2. TargetsCommitted'
      <3>1. CASE GetEntry(p)
        BY <3>1 DEF GetEntry, TargetsCommitted, IInv, TypeOK, dbVars
      <3>2. CASE HasReversal(p)
        <4>1. ledger' = ledger /\ target' \in {target, [target EXCEPT ![p] = {}]}
          BY <3>2 DEF HasReversal, dbVars
        <4>2. QED
          BY <4>1 DEF TargetsCommitted, IInv, TypeOK
      <3>3. QED
        BY <1>5, <3>1, <3>2
    <2>3. QED
      BY <2>1, <2>2, OutsideTxStep
  <1>6. ASSUME NEW p \in Procs, UpdateCustomer(p) \/ Reread(p) PROVE IInv'
    <2>1. OutsideTx(p) /\ UNCHANGED target
      BY <1>6 DEF UpdateCustomer, Reread, OutsideTx, InTx, IInv, TypeOK, dbVars, histVars
    <2>2. QED
      BY <2>1, OutsideTxStep DEF TargetsCommitted, IInv, OutsideTx
  <1>7. ASSUME NEW p \in Procs, SameBand(p) \/ HandleCreditAlert(p) \/ EvaluationFails(p)
        PROVE  IInv'
    <2>1. OutsideTx(p) /\ UNCHANGED target
      BY <1>7 DEF SameBand, HandleCreditAlert, EvaluationFails, Finish, OutsideTx, InTx,
                  IInv, TypeOK, dbVars
    <2>2. QED
      BY <2>1, OutsideTxStep DEF TargetsCommitted, IInv, OutsideTx
  <1>8. ASSUME NEW p \in Procs, SetAlertLevel(p) PROVE IInv'
    <2>1. OutsideTx(p) /\ UNCHANGED target
      BY <1>8 DEF SetAlertLevel, Finish, OutsideTx, InTx, IInv, TypeOK
    <2>2. QED
      BY <2>1, OutsideTxStep DEF TargetsCommitted, IInv, OutsideTx
  <1>9. ASSUME NEW p \in Procs, SumLedger(p) \/ WriteOutstanding(p) \/ CommitTx(p) PROVE IInv'
    BY <1>9, SumStep, WriteStep, CommitStep
  <1>10. ASSUME NEW p \in Procs, DeadlockVictim(p) \/ RequestFails(p) PROVE IInv'
    BY <1>10, ReleaseStep DEF DeadlockVictim, RequestFails
  <1>11. CASE Crash
    BY <1>11, CrashStep
  <1>12. CASE UNCHANGED vars
    <2> USE <1>12 DEF vars, dbVars, procVars, histVars, IInv
    <2>1. IdsUnique' /\ RowsWellFormed' /\ TargetsCommitted' /\ LocksInTx'
      BY DEF IdsUnique, RowsWellFormed, InTx, TargetsCommitted, LocksInTx
    <2>2. SumsSound'
      BY DEF SumsSound, Summed
    <2>3. NoPhantomRow' /\ StaleOnlyIfOverlapped' /\ ReversalMirrors'
      BY DEF NoPhantomRow, StaleOnlyIfOverlapped, ReversalMirrors
    <2>4. QED
      BY <2>1, <2>2, <2>3
  <1> QED
    BY <1>1, <1>2, <1>3, <1>4, <1>5, <1>6, <1>7, <1>8, <1>9, <1>10, <1>11, <1>12
    DEF Next, Openings, Steps, Failures

\* IInv holds in every reachable state of the requests on the ledger
\* (repo/credit.go:440, service/credit_service.go:220).
THEOREM Invariance == Spec => []IInv
  BY InvInit, InvStep, PTL DEF Spec

\* Whatever overlaps, fails or crashes, the cached exposure counts only
\* committed rows (recalcOutstandingTx in the transaction of the INSERT).
THEOREM PhantomFree == Spec => []NoPhantomRow
  <1>1. IInv => NoPhantomRow
    BY DEF IInv
  <1> QED
    BY <1>1, Invariance, PTL

\* The cached exposure is the full sum unless a row of that customer was
\* committed inside the window of its last recalculation.
THEOREM StaleOnlyByOverlap == Spec => []StaleOnlyIfOverlapped
  <1>1. IInv => StaleOnlyIfOverlapped
    BY DEF IInv
  <1> QED
    BY <1>1, Invariance, PTL

\* Every reversal mirrors one committed entry that is not a reversal.
THEOREM ReversalsMirror == Spec => []ReversalMirrors
  <1>1. IInv => ReversalMirrors
    BY DEF IInv
  <1> QED
    BY <1>1, Invariance, PTL

(***************************************************************************)
(* CreditLedger implements CreditBook                                      *)
(***************************************************************************)
LEMMA BookCommit ==
    ASSUME IInv, IInv', NEW p \in Procs, CommitTx(p)
    PROVE  Book!Next
  <1>1. /\ pc[p] = "open" /\ todo[p] = {}
        /\ ledger' = ledger \cup row[p]
        /\ outstanding' = [c \in Customers |-> IF lock[c] = p THEN seen[p][c] ELSE outstanding[c]]
    BY DEF CommitTx
  <1>2. \A c \in Customers : outstanding'[c] \subseteq RowsOf(ledger', c)
    BY DEF IInv, NoPhantomRow
  <1>3. CASE row[p] = {}
    <2>1. ledger' = ledger
      BY <1>1, <1>3
    <2>2. outstanding' \in [Customers -> SUBSET ledger]
      BY <1>2, <2>1 DEF IInv, TypeOK, RowsOf
    <2>3. QED
      BY <1>2, <2>1, <2>2 DEF Book!Next, Book!Resum, RowsOf, Book!RowsOf
  <1>4. CASE row[p] # {}
    <2>1. PICK e \in row[p] : TRUE
      BY <1>4
    <2>2. e \in Entry /\ e.cust \in Customers
      BY DEF IInv, TypeOK, Entry
    <2>3. row[p] = {e} /\ e \notin ledger /\ Book!Admissible(e)
      <3>1. row[p] = {e} /\ \A d \in ledger : d.id # e.id
        BY DEF IInv, IdsUnique
      <3>2. IsReversal(e) => \E d \in ledger : ~IsReversal(d) /\ Mirrors(e, d)
        BY DEF IInv, RowsWellFormed
      <3>3. e \in Book!Entry
        BY <2>2 DEF Entry, Book!Entry, Types, Book!Types
      <3>4. Book!IsReversal(e) => \E d \in ledger : ~Book!IsReversal(d) /\ Book!Mirrors(e, d)
        BY <3>2 DEF IsReversal, Book!IsReversal, Mirrors, Book!Mirrors, Opposite, Book!Opposite
      <3>5. QED
        BY <3>1, <3>3, <3>4 DEF Book!Admissible
    <2>4. lock[e.cust] = p /\ \A c \in Customers : lock[c] = p => c = e.cust
      BY <1>1 DEF IInv, RowsWellFormed
    <2>5. e \in seen[p][e.cust]
      BY <2>2, <2>4 DEF IInv, SumsSound, Summed, RowsOf
    <2>6. outstanding' = [outstanding EXCEPT ![e.cust] = seen[p][e.cust]]
      BY <1>1, <2>2, <2>4 DEF IInv, TypeOK
    <2>7. seen[p][e.cust] \in SUBSET RowsOf(ledger', e.cust)
      BY <1>1, <1>2, <2>2, <2>4
    <2>8. Book!Post(e)
      BY <1>1, <2>3, <2>5, <2>6, <2>7 DEF Book!Post, RowsOf, Book!RowsOf
    <2>9. QED
      BY <1>1, <2>3, <2>8 DEF Book!Next
  <1> QED
    BY <1>3, <1>4

\* Every step of a request is an entry of the journal, a new sum of it, or a stutter.
LEMMA BookStep == IInv /\ IInv' /\ [Next]_vars => [Book!Next]_<<ledger, outstanding>>
  <1> SUFFICES ASSUME IInv, IInv', [Next]_vars
               PROVE  Book!Next \/ UNCHANGED <<ledger, outstanding>>
    OBVIOUS
  <1>1. ASSUME NEW p \in Procs, CommitTx(p) PROVE Book!Next
    BY <1>1, BookCommit
  <1>2. ASSUME NEW p \in Procs, Openings(p) PROVE UNCHANGED <<ledger, outstanding>>
    BY <1>2 DEF Openings, AppendEntry, GetEntry, RecalcCustomer, RecalcAll, UpdateCustomer, dbVars
  <1>3. ASSUME NEW p \in Procs, Failures(p) PROVE UNCHANGED <<ledger, outstanding>>
    BY <1>3 DEF Failures, RequestFails, EvaluationFails, Release, dbVars
  <1>4. ASSUME NEW p \in Procs, Steps(p) PROVE CommitTx(p) \/ UNCHANGED <<ledger, outstanding>>
    BY <1>4 DEF Steps, HasReversal, InsertReversal, SumLedger, WriteOutstanding, Reread, SameBand,
                SetAlertLevel, HandleCreditAlert, DeadlockVictim, Release, dbVars
  <1>5. CASE Crash
    BY <1>5 DEF Crash
  <1>6. CASE UNCHANGED vars
    BY <1>6 DEF vars, dbVars
  <1> QED
    BY <1>1, <1>2, <1>3, <1>4, <1>5, <1>6 DEF Next

\* Every step of every request is a step of the journal or none at all.
THEOREM ImplementsBook == Spec => BookSpec
  <1>1. Init => Book!Init
    BY DEF Init, Book!Init
  <1>2. BookSpec <=> Book!Init /\ [][Book!Next]_<<ledger, outstanding>>
    BY DEF BookSpec, Book!Spec, Book!vars
  <1> QED
    BY <1>1, <1>2, Invariance, BookStep, PTL DEF Spec

(***************************************************************************)
(* Customers nobody shares: the invariant                                  *)
(***************************************************************************)
\* A customer two requests work on is shared.
MeetingsShared ==
    \A p, q \in Procs : \A c \in WorksOn(p) \cap WorksOn(q) : p # q => c \in shared

\* What a request touches is a customer it works on, and with a row it works on one only.
NamedBy(p) ==
    /\ InTx(p) => todo[p] \subseteq evals[p]
    /\ \A c \in Customers : lock[c] = p => c \in evals[p]
    /\ \A e \in row[p] : evals[p] = {e.cust}
    /\ pc[p] \in {"summed", "band", "notify"} => cur[p] \in evals[p]
    /\ target[p] # {} => pc[p] \in {"gotEntry", "reversing"}
    /\ \A d, e \in target[p] : d = e
WorkIsNamed == \A p \in Procs : NamedBy(p)

\* No recalculation of a customer nobody shares was overlapped.
OverlapIsShared ==
    /\ tainted \subseteq shared
    /\ \A p \in Procs, c \in Customers \ shared : Summed(p, c) => c \notin overlap[p]

\* What a request is about to reverse has no reversal yet.
ReversalIsNew ==
    \A p \in Procs :
        /\ pc[p] = "reversing" => \A e \in target[p] : e.cust \notin shared => ~Reversed(e)
        /\ \A e \in row[p] : IsReversal(e) /\ e.cust \notin shared =>
               \A r \in ledger : r.reversedOf # e.reversedOf

\* The copy a request evaluates is the customer as he is.
SnapIsCurrent ==
    \A p \in Procs, c \in Customers \ shared : cur[p] = c =>
        /\ pc[p] = "band" => snap[p].band = CurrentBand(c) /\ snap[p].level = alertLevel[c]
        /\ pc[p] = "notify" => snap[p].band = alertLevel[c] /\ told[c] < snap[p].band

\* The latch is the band unless a request that worked on this customer alone has still to
\* compare them.
LatchOrEvaluation ==
    \A c \in Customers \ (shared \cup unevaluated) :
        \/ alertLevel[c] = CurrentBand(c)
        \/ \E p \in Procs : evals[p] = {c} /\ pc[p] \in {"eval", "band"}

ToldIsLatched == \A c \in Customers \ shared : told[c] <= alertLevel[c]

Alerts == SnapIsCurrent /\ LatchOrEvaluation /\ ToldIsLatched /\ RiseIsTold

AloneInv ==
    /\ MeetingsShared
    /\ WorkIsNamed
    /\ OverlapIsShared
    /\ ReversalIsNew /\ ReversedOnce
    /\ Alerts

\* Remember keeps the account: whoever meets now is shared, and who was stays so.
LEMMA MeetingsAreRemembered ==
    ASSUME TypeOK', Remember
    PROVE  MeetingsShared' /\ shared \subseteq shared'
  <1>1. \A p \in Procs : WorksOn(p)' \subseteq Customers
    BY DEF TypeOK, WorksOn, Touched, Entry
  <1> QED
    BY <1>1 DEF Remember, MeetingsShared

(***************************************************************************)
(* Customers nobody shares: what a step leaves alone                       *)
(***************************************************************************)
\* A step of p moves no other request and takes no lock for another.
OnlyMoves(p) ==
    /\ \A q \in Procs \ {p} :
           /\ pc'[q] = pc[q] /\ target'[q] = target[q] /\ row'[q] = row[q]
           /\ todo'[q] = todo[q] /\ evals'[q] = evals[q] /\ cur'[q] = cur[q] /\ snap'[q] = snap[q]
    /\ \A c \in Customers : lock'[c] \in {lock[c], p, None}

\* A step of a request moves no other request and takes no lock from one.
LEMMA StepMovesOne ==
    ASSUME TypeOK, NEW p \in Procs, Openings(p) \/ Steps(p) \/ Failures(p)
    PROVE  OnlyMoves(p)
  <1> USE DEF TypeOK, OnlyMoves
  <1>1. CASE AppendEntry(p)
    BY <1>1 DEF AppendEntry, OpenTx
  <1>2. CASE GetEntry(p)
    BY <1>2 DEF GetEntry, dbVars
  <1>3. CASE RecalcCustomer(p)
    BY <1>3 DEF RecalcCustomer, OpenTx, dbVars
  <1>4. CASE RecalcAll(p)
    BY <1>4 DEF RecalcAll, OpenTx, dbVars
  <1>5. CASE UpdateCustomer(p)
    BY <1>5 DEF UpdateCustomer
  <1>6. CASE HasReversal(p)
    BY <1>6 DEF HasReversal, dbVars
  <1>7. CASE InsertReversal(p)
    BY <1>7 DEF InsertReversal, OpenTx
  <1>8. CASE SumLedger(p)
    BY <1>8 DEF SumLedger, dbVars
  <1>9. CASE WriteOutstanding(p)
    BY <1>9 DEF WriteOutstanding
  <1>10. CASE CommitTx(p)
    BY <1>10 DEF CommitTx
  <1>11. CASE Reread(p)
    BY <1>11 DEF Reread, dbVars
  <1>12. CASE SameBand(p)
    BY <1>12 DEF SameBand, Finish, dbVars
  <1>13. CASE SetAlertLevel(p)
    BY <1>13 DEF SetAlertLevel, Finish
  <1>14. CASE HandleCreditAlert(p)
    BY <1>14 DEF HandleCreditAlert, Finish, dbVars
  <1>15. CASE Release(p)
    BY <1>15 DEF Release
  <1>16. CASE EvaluationFails(p)
    BY <1>16 DEF EvaluationFails, Finish, dbVars
  <1> QED
    BY <1>1, <1>2, <1>3, <1>4, <1>5, <1>6, <1>7, <1>8, <1>9, <1>10, <1>11, <1>12, <1>13, <1>14,
       <1>15, <1>16 DEF Openings, Steps, Failures, DeadlockVictim, RequestFails

(***************************************************************************)
(* Customers nobody shares: what requests work on                          *)
(***************************************************************************)
LEMMA NamedKept ==
    ASSUME TypeOK, TypeOK', WorkIsNamed, NEW p \in Procs, OnlyMoves(p), NamedBy(p)'
    PROVE  WorkIsNamed'
  <1> SUFFICES ASSUME NEW q \in Procs, q # p PROVE NamedBy(q)'
    BY DEF WorkIsNamed
  <1>1. \A c \in Customers : lock'[c] = q => lock[c] = q
    BY LedgerAssumption DEF OnlyMoves
  <1> QED
    BY <1>1 DEF WorkIsNamed, NamedBy, OnlyMoves, InTx

\* A transaction that opens on the customer of its rows names all it works on.
LEMMA NamedOpening ==
    ASSUME IInv, TypeOK', WorkIsNamed, NEW p \in Procs, NEW S, NEW C, OpenTx(p, S, C),
           pc[p] \in {"idle", "reversing"}, target'[p] = {}, lock' = lock,
           \A e \in S : C = {e.cust}
    PROVE  NamedBy(p)'
  <1>1. row'[p] = S /\ todo'[p] = C /\ evals'[p] = C /\ pc'[p] = "open"
    BY DEF OpenTx, IInv, TypeOK
  <1>2. \A c \in Customers : lock'[c] # p
    BY LedgerAssumption DEF IInv, LocksInTx, InTx
  <1> QED
    BY <1>1, <1>2 DEF NamedBy

\* A request that finishes with a customer still names all it works on.
LEMMA NamedFinish ==
    ASSUME IInv, WorkIsNamed, NEW p \in Procs, NEW c, Finish(p, c),
           pc[p] \in {"eval", "band", "notify"}, UNCHANGED <<lock, target, row, todo>>
    PROVE  NamedBy(p)'
  <1>1. pc'[p] \in {"idle", "eval"}
    BY DEF Finish, IInv, TypeOK
  <1>2. row[p] = {} /\ target[p] = {} /\ \A d \in Customers : lock[d] # p
    BY LedgerAssumption DEF WorkIsNamed, NamedBy, IInv, RowsWellFormed, LocksInTx, InTx
  <1> QED
    BY <1>1, <1>2 DEF NamedBy, InTx

\* Every step of a request keeps what it works on named.
LEMMA NamedStep ==
    ASSUME IInv, TypeOK', WorkIsNamed, NEW p \in Procs, Openings(p) \/ Steps(p) \/ Failures(p)
    PROVE  WorkIsNamed'
  <1> SUFFICES NamedBy(p)'
    BY NamedKept, StepMovesOne DEF IInv
  <1>0. /\ NamedBy(p) /\ TypeOK
        /\ ~InTx(p) => row[p] = {} /\ \A c \in Customers : lock[c] # p
    BY LedgerAssumption DEF WorkIsNamed, IInv, RowsWellFormed, LocksInTx
  <1>1. CASE AppendEntry(p)
    <2>1. PICK c \in Customers, t \in Types, a \in Amounts : OpenTx(p, {NewRow(c, t, a, 0)}, {c})
      BY <1>1 DEF AppendEntry
    <2>2. NewRow(c, t, a, 0).cust = c
      BY DEF NewRow
    <2>3. pc[p] = "idle" /\ lock' = lock /\ target'[p] = {}
      BY <1>0, <1>1 DEF TypeOK, AppendEntry, NamedBy
    <2> QED
      BY <2>1, <2>2, <2>3, NamedOpening
  <1>2. CASE RecalcCustomer(p)
    <2>1. pc[p] = "idle" /\ lock' = lock /\ target'[p] = {}
      BY <1>0, <1>2 DEF TypeOK, RecalcCustomer, dbVars, NamedBy
    <2> QED
      BY <1>2, <2>1, NamedOpening DEF RecalcCustomer
  <1>3. CASE RecalcAll(p)
    <2>1. pc[p] = "idle" /\ lock' = lock /\ target'[p] = {}
      BY <1>0, <1>3 DEF TypeOK, RecalcAll, dbVars, NamedBy
    <2> QED
      BY <1>3, <2>1, NamedOpening DEF RecalcAll
  <1>4. CASE InsertReversal(p)
    <2>1. PICK e \in target[p] :
              OpenTx(p, {NewRow(e.cust, Opposite(e.type), e.amount, e.id)}, {e.cust})
      BY <1>4 DEF InsertReversal
    <2>2. NewRow(e.cust, Opposite(e.type), e.amount, e.id).cust = e.cust
      BY DEF NewRow
    <2>3. pc[p] = "reversing" /\ lock' = lock /\ target'[p] = {}
      BY <1>0, <1>4 DEF TypeOK, InsertReversal
    <2> QED
      BY <2>1, <2>2, <2>3, NamedOpening
  <1> USE <1>0 DEF NamedBy, InTx, TypeOK
  <1>5. CASE GetEntry(p)
    BY <1>5 DEF GetEntry, dbVars
  <1>6. CASE UpdateCustomer(p)
    BY <1>6 DEF UpdateCustomer
  <1>7. CASE HasReversal(p)
    BY <1>7 DEF HasReversal, dbVars
  <1>8. CASE SumLedger(p)
    <2>1. PICK c \in todo[p] : cur' = [cur EXCEPT ![p] = c]
      BY <1>8 DEF SumLedger
    <2>2. cur'[p] = c /\ c \in evals[p]
      BY <1>8, <2>1 DEF SumLedger
    <2> QED
      BY <1>8, <2>2 DEF SumLedger, dbVars
  <1>9. CASE WriteOutstanding(p)
    <2>1. /\ \A c \in Customers : lock'[c] = p => c = cur[p] \/ lock[c] = p
          /\ cur[p] \in evals[p] /\ todo'[p] \subseteq todo[p]
      BY <1>9 DEF WriteOutstanding
    <2>2. pc'[p] = "open" /\ evals' = evals /\ row' = row /\ target' = target
      BY <1>9 DEF WriteOutstanding
    <2> QED
      BY <1>9, <2>1, <2>2 DEF WriteOutstanding
  <1>10. CASE CommitTx(p)
    BY <1>10 DEF CommitTx
  <1>11. CASE Reread(p)
    BY <1>11 DEF Reread, dbVars
  <1>12. CASE SameBand(p)
    BY <1>12 DEF SameBand, Finish, dbVars
  <1>13. CASE SetAlertLevel(p)
    BY <1>13 DEF SetAlertLevel, Finish
  <1>14. CASE HandleCreditAlert(p)
    <2>1. Finish(p, cur[p]) /\ pc[p] = "notify" /\ UNCHANGED <<lock, target, row, todo>>
      BY <1>14 DEF HandleCreditAlert, dbVars
    <2> QED
      BY <2>1, NamedFinish
  <1>15. CASE Release(p)
    BY <1>15, LedgerAssumption DEF Release
  <1>16. CASE EvaluationFails(p)
    <2>1. PICK c \in evals[p] : Finish(p, c)
      BY <1>16 DEF EvaluationFails
    <2>2. pc[p] \in {"eval", "band"} /\ UNCHANGED <<lock, target, row, todo>>
      BY <1>16 DEF EvaluationFails, dbVars
    <2> QED
      BY <2>1, <2>2, NamedFinish
  <1> QED
    BY <1>1, <1>2, <1>3, <1>4, <1>5, <1>6, <1>7, <1>8, <1>9, <1>10, <1>11, <1>12, <1>13, <1>14,
       <1>15, <1>16 DEF Openings, Steps, Failures, DeadlockVictim, RequestFails

(***************************************************************************)
(* Customers nobody shares: overlap and reversals                          *)
(***************************************************************************)
\* A transaction that has summed a customer works on him, and so does one with a row.
LEMMA SummedIsWork ==
    ASSUME TypeOK, WorkIsNamed, NEW p \in Procs, NEW c \in Customers
    PROVE  /\ Summed(p, c) => c \in WorksOn(p)
           /\ \A e \in row[p] : e.cust \in WorksOn(p)
           /\ \A e \in target[p] : e.cust \in WorksOn(p)
           /\ evals[p] \subseteq WorksOn(p)
  BY DEF WorkIsNamed, NamedBy, Summed, WorksOn, Touched

\* Outside SUM and COMMIT nothing is overlapped.
LEMMA OverlapKept ==
    ASSUME OverlapIsShared, shared \subseteq shared', UNCHANGED <<overlap, tainted>>,
           \A p \in Procs, c \in Customers : Summed(p, c)' => Summed(p, c)
    PROVE  OverlapIsShared'
  BY DEF OverlapIsShared

\* A sum that begins has no row committed inside its window yet.
LEMMA OverlapSum ==
    ASSUME IInv, TypeOK', AloneInv, shared \subseteq shared', NEW p \in Procs, SumLedger(p)
    PROVE  OverlapIsShared'
  <1> USE DEF IInv, TypeOK, AloneInv
  <1>1. PICK s \in todo[p] : /\ cur' = [cur EXCEPT ![p] = s]
                             /\ overlap' = [overlap EXCEPT ![p] = @ \ {s}]
    BY DEF SumLedger
  <1>2. pc' = [pc EXCEPT ![p] = "summed"] /\ tainted' = tainted /\ lock' = lock
    BY DEF SumLedger, dbVars
  <1>3. ASSUME NEW q \in Procs, NEW c \in Customers, Summed(q, c)', c \notin shared'
        PROVE  c \notin overlap'[q]
    <2>1. CASE q = p /\ c = s
      BY <1>1, <2>1
    <2>2. CASE ~(q = p /\ c = s)
      <3>1. Summed(q, c)
        BY <1>1, <1>2, <1>3, <2>2 DEF Summed
      <3> QED
        BY <1>1, <1>3, <3>1 DEF OverlapIsShared
    <2> QED
      BY <2>1, <2>2
  <1> QED
    BY <1>2, <1>3 DEF OverlapIsShared

\* A commit falls into the window of another's sum only for a customer both work on.
LEMMA OverlapCommit ==
    ASSUME IInv, TypeOK', AloneInv, shared \subseteq shared', NEW p \in Procs, CommitTx(p)
    PROVE  OverlapIsShared'
  <1> USE LedgerAssumption DEF IInv, TypeOK, AloneInv, CommitTx
  <1>1. ASSUME NEW q \in Procs, NEW c \in Customers, Summed(q, c)'
        PROVE  q # p /\ Summed(q, c)
    BY <1>1 DEF Summed
  <1>2. ASSUME NEW q \in Procs, NEW c \in Customers, Summed(q, c)', c \notin shared'
        PROVE  c \notin overlap'[q]
    <2>1. q # p /\ Summed(q, c) /\ c \in WorksOn(q)
      BY <1>1, <1>2, SummedIsWork
    <2>2. c \notin overlap[q]
      BY <1>2, <2>1 DEF OverlapIsShared
    <2>3. \A e \in row[p] : e.cust \in WorksOn(p)
      BY SummedIsWork
    <2>4. c \notin Touched(row[p])
      BY <1>2, <2>1, <2>3 DEF MeetingsShared, Touched
    <2> QED
      BY <2>1, <2>2, <2>4
  <1>3. ASSUME NEW c \in Customers, c \in tainted' PROVE c \in shared'
    <2>1. CASE c \in tainted
      BY <2>1 DEF OverlapIsShared
    <2>2. CASE c \in Held(p) \cap overlap[p]
      BY <2>2 DEF OverlapIsShared, Held, Summed
    <2> QED
      BY <1>3, <2>1, <2>2
  <1> QED
    BY <1>2, <1>3 DEF OverlapIsShared

\* Outside INSERT and COMMIT no reversal comes nearer.
LEMMA ReversalsKept ==
    ASSUME ReversalIsNew, ReversedOnce, shared \subseteq shared', ledger' = ledger,
           \A p \in Procs : /\ row'[p] \subseteq row[p]
                            /\ target'[p] \subseteq target[p]
                            /\ pc'[p] = "reversing" => pc[p] = "reversing"
    PROVE  ReversalIsNew' /\ ReversedOnce'
  <1>1. ReversedOnce'
    BY DEF ReversedOnce
  <1>2. ReversalIsNew'
    BY DEF ReversalIsNew, Reversed
  <1> QED
    BY <1>1, <1>2

\* The read of the entry to reverse writes nothing and looks for no reversal yet.
LEMMA ReversalsGot ==
    ASSUME IInv, TypeOK', AloneInv, shared \subseteq shared', NEW p \in Procs, GetEntry(p)
    PROVE  ReversalIsNew' /\ ReversedOnce'
  <1> USE DEF IInv, TypeOK, AloneInv, GetEntry, dbVars
  <1>1. ReversedOnce'
    BY DEF ReversedOnce
  <1>2. \A q \in Procs : pc'[q] = "reversing" => pc[q] = "reversing" /\ target'[q] = target[q]
    OBVIOUS
  <1>3. ReversalIsNew'
    BY <1>2 DEF ReversalIsNew, Reversed
  <1> QED
    BY <1>1, <1>3

\* HasReversal found none: the entry is not reversed in the ledger, and no other request
\* holds a reversal of it unless they share its customer.
LEMMA ReversalsLooked ==
    ASSUME IInv, TypeOK', AloneInv, shared \subseteq shared', NEW p \in Procs, HasReversal(p)
    PROVE  ReversalIsNew' /\ ReversedOnce'
  <1> USE DEF IInv, TypeOK, AloneInv
  <1>1. ledger' = ledger /\ row' = row
    BY DEF HasReversal, dbVars
  <1>2. ReversedOnce'
    BY <1>1 DEF ReversedOnce
  <1>3. \A q \in Procs \ {p} : pc'[q] = pc[q] /\ target'[q] = target[q]
    BY DEF HasReversal
  <1>4. pc'[p] = "reversing" => target' = target /\ \A e \in target[p] : ~Reversed(e)
    BY DEF HasReversal, WorkIsNamed, NamedBy
  <1>5. ReversalIsNew'
    BY <1>1, <1>3, <1>4 DEF ReversalIsNew, Reversed
  <1> QED
    BY <1>2, <1>5

\* An entry that AppendEntry inserts reverses nothing.
LEMMA ReversalsAppend ==
    ASSUME IInv, TypeOK', AloneInv, shared \subseteq shared', NEW p \in Procs, AppendEntry(p)
    PROVE  ReversalIsNew' /\ ReversedOnce'
  <1> USE DEF IInv, TypeOK, AloneInv
  <1>1. ledger' = ledger /\ target' = target
    BY DEF AppendEntry
  <1>2. ReversedOnce'
    BY <1>1 DEF ReversedOnce
  <1>3. PICK c \in Customers, t \in Types, a \in Amounts : OpenTx(p, {NewRow(c, t, a, 0)}, {c})
    BY DEF AppendEntry
  <1>4. /\ \A q \in Procs \ {p} : pc'[q] = pc[q] /\ row'[q] = row[q]
        /\ pc'[p] = "open" /\ row'[p] = {NewRow(c, t, a, 0)}
    BY <1>3 DEF OpenTx
  <1>5. ~IsReversal(NewRow(c, t, a, 0))
    BY DEF IsReversal, NewRow
  <1>6. ReversalIsNew'
    BY <1>1, <1>4, <1>5 DEF ReversalIsNew, Reversed
  <1> QED
    BY <1>2, <1>6

\* The reversal that is inserted is the only one of its entry, for a customer not shared.
LEMMA ReversalsInsert ==
    ASSUME IInv, TypeOK', AloneInv, shared \subseteq shared', NEW p \in Procs, InsertReversal(p)
    PROVE  ReversalIsNew' /\ ReversedOnce'
  <1> USE DEF IInv, TypeOK, AloneInv
  <1>1. ledger' = ledger /\ target' = [target EXCEPT ![p] = {}] /\ pc[p] = "reversing"
    BY DEF InsertReversal
  <1>2. ReversedOnce'
    BY <1>1 DEF ReversedOnce
  <1>3. PICK e \in target[p] :
            OpenTx(p, {NewRow(e.cust, Opposite(e.type), e.amount, e.id)}, {e.cust})
    BY DEF InsertReversal
  <1> DEFINE N == NewRow(e.cust, Opposite(e.type), e.amount, e.id)
  <1>4. /\ \A q \in Procs \ {p} : pc'[q] = pc[q] /\ row'[q] = row[q]
        /\ pc'[p] = "open" /\ row'[p] = {N}
    BY <1>3 DEF OpenTx
  <1>5. N.cust = e.cust /\ N.reversedOf = e.id
    BY DEF NewRow
  <1>6. e.cust \notin shared => \A r \in ledger : r.reversedOf # e.id
    BY <1>1, <1>3 DEF ReversalIsNew, Reversed
  <1> HIDE DEF N
  <1>7. ReversalIsNew'
    BY <1>1, <1>4, <1>5, <1>6 DEF ReversalIsNew, Reversed
  <1> QED
    BY <1>2, <1>7

\* Two reversals of one entry are about the same customer.
LEMMA SameEntrySameCustomer ==
    ASSUME IInv, NEW p \in Procs, NEW q \in Procs,
           NEW r \in ledger \cup row[p], NEW s \in ledger \cup row[q],
           IsReversal(r), s.reversedOf = r.reversedOf
    PROVE  s.cust = r.cust
  <1>1. PICK d \in ledger : Mirrors(r, d)
    BY DEF IInv, ReversalMirrors, RowsWellFormed
  <1>2. PICK e \in ledger : Mirrors(s, e)
    BY DEF IInv, ReversalMirrors, RowsWellFormed, IsReversal
  <1> QED
    BY <1>1, <1>2 DEF Mirrors, IInv, IdsUnique

\* A commit adds the row of one request: it was new, so the entry is reversed once.
LEMMA ReversalsCommit ==
    ASSUME IInv, TypeOK', AloneInv, shared \subseteq shared', NEW p \in Procs, CommitTx(p)
    PROVE  ReversalIsNew' /\ ReversedOnce'
  <1>1. /\ ledger' = ledger \cup row[p] /\ target' = target
        /\ \A q \in Procs \ {p} : row'[q] = row[q] /\ pc'[q] = pc[q]
        /\ row'[p] = {} /\ pc'[p] = "eval"
    BY DEF CommitTx, IInv, TypeOK
  <1>2. ASSUME NEW r \in ledger', NEW s \in ledger', IsReversal(r), r.cust \notin shared',
               r.reversedOf = s.reversedOf
        PROVE  r = s
    <2>1. s.cust = r.cust /\ IsReversal(s)
      BY <1>1, <1>2, SameEntrySameCustomer DEF IsReversal
    <2>2. CASE r \in ledger /\ s \in ledger
      BY <1>2, <2>2 DEF AloneInv, ReversedOnce
    <2>3. CASE r \in row[p] /\ s \in row[p]
      BY <2>3 DEF IInv, IdsUnique
    <2>4. CASE r \in row[p] /\ s \in ledger
      BY <1>2, <2>4 DEF AloneInv, ReversalIsNew
    <2>5. CASE r \in ledger /\ s \in row[p]
      BY <1>2, <2>1, <2>5 DEF AloneInv, ReversalIsNew
    <2> QED
      BY <1>1, <2>2, <2>3, <2>4, <2>5
  <1>3. ASSUME NEW q \in Procs, pc'[q] = "reversing", NEW e \in target'[q], e.cust \notin shared',
               NEW r \in ledger', r.reversedOf = e.id
        PROVE  FALSE
    <2>1. q # p /\ pc[q] = "reversing" /\ e \in target[q] /\ e \in ledger
      BY <1>1, <1>3 DEF IInv, TargetsCommitted
    <2>2. r \in row[p]
      BY <1>1, <1>3, <2>1 DEF AloneInv, ReversalIsNew, Reversed
    <2>3. IsReversal(r)
      BY <1>3, <2>1 DEF IInv, TypeOK, Entry, IsReversal
    <2>4. PICK d \in ledger : Mirrors(r, d)
      BY <2>2, <2>3 DEF IInv, RowsWellFormed
    <2>5. r.cust = e.cust
      BY <1>3, <2>1, <2>4 DEF Mirrors, IInv, IdsUnique
    <2>6. e.cust \in WorksOn(p) \cap WorksOn(q)
      BY <2>1, <2>2, <2>5 DEF WorksOn, Touched, AloneInv, WorkIsNamed, NamedBy
    <2> QED
      BY <1>3, <2>1, <2>6 DEF AloneInv, MeetingsShared
  <1>4. ASSUME NEW q \in Procs, NEW e \in row'[q], IsReversal(e), e.cust \notin shared',
               NEW r \in ledger', r.reversedOf = e.reversedOf
        PROVE  FALSE
    <2>1. q # p /\ e \in row[q]
      BY <1>1, <1>4
    <2>2. r \in row[p]
      BY <1>1, <1>4, <2>1 DEF AloneInv, ReversalIsNew
    <2>3. r.cust = e.cust
      BY <1>4, <2>1, <2>2, SameEntrySameCustomer
    <2>4. e.cust \in WorksOn(p) \cap WorksOn(q)
      BY <2>1, <2>2, <2>3 DEF WorksOn, Touched, AloneInv, WorkIsNamed, NamedBy
    <2> QED
      BY <1>4, <2>1, <2>4 DEF AloneInv, MeetingsShared
  <1>5. ReversedOnce'
    BY <1>2 DEF ReversedOnce
  <1>6. ReversalIsNew'
    BY <1>3, <1>4 DEF ReversalIsNew, Reversed
  <1> QED
    BY <1>5, <1>6

(***************************************************************************)
(* Customers nobody shares: latch and alerts                               *)
(***************************************************************************)
\* A step before the commit, or one that fails there, changes nothing an evaluation sees.
LEMMA AlertsAside ==
    ASSUME Alerts, shared \subseteq shared', NEW p \in Procs, OnlyMoves(p),
           pc[p] \notin {"eval", "band", "notify"}, pc'[p] \notin {"band", "notify"},
           UNCHANGED <<outstanding, limit, alertLevel, told, unevaluated, untold>>
    PROVE  Alerts'
  <1> USE DEF Alerts, OnlyMoves
  <1>1. SnapIsCurrent'
    BY DEF SnapIsCurrent, CurrentBand
  <1>2. LatchOrEvaluation'
    BY DEF LatchOrEvaluation, CurrentBand
  <1>3. ToldIsLatched'
    BY DEF ToldIsLatched
  <1>4. RiseIsTold'
    BY DEF RiseIsTold
  <1> QED
    BY <1>1, <1>2, <1>3, <1>4

\* A step that changes what the bands of the customers in S are made of: S is what the
\* acting request, and it alone, is to evaluate now.
LEMMA AlertsOpened ==
    ASSUME IInv, AloneInv, MeetingsShared', WorkIsNamed', shared \subseteq shared',
           NEW p \in Procs, OnlyMoves(p), pc[p] \notin {"eval", "band", "notify"}, pc'[p] = "eval",
           UNCHANGED <<alertLevel, told, unevaluated, untold>>,
           \A c \in Customers \ shared' :
               evals'[p] = {c} \/ (outstanding'[c] = outstanding[c] /\ limit'[c] = limit[c])
    PROVE  Alerts'
  <1> USE DEF AloneInv, Alerts, OnlyMoves
  <1>1. SnapIsCurrent'
    <2> SUFFICES ASSUME NEW q \in Procs, NEW c \in Customers \ shared', cur'[q] = c,
                        pc'[q] \in {"band", "notify"}
                 PROVE  q # p /\ CurrentBand(c)' = CurrentBand(c)
      BY DEF SnapIsCurrent
    <2>1. q # p
      OBVIOUS
    <2>2. c \in evals'[q]
      BY <2>1 DEF WorkIsNamed, NamedBy
    <2>3. evals'[p] # {c}
      BY <2>1, <2>2 DEF MeetingsShared, WorksOn
    <2> QED
      BY <2>1, <2>3 DEF CurrentBand
  <1>2. LatchOrEvaluation'
    BY DEF LatchOrEvaluation, CurrentBand
  <1>3. ToldIsLatched'
    BY DEF ToldIsLatched
  <1>4. RiseIsTold'
    BY DEF RiseIsTold
  <1> QED
    BY <1>1, <1>2, <1>3, <1>4

\* A commit moves the exposure of a customer whom the request evaluates next.
LEMMA AlertsCommit ==
    ASSUME IInv, IInv', AloneInv, MeetingsShared', WorkIsNamed', OverlapIsShared',
           shared \subseteq shared', NEW p \in Procs, OnlyMoves(p), CommitTx(p)
    PROVE  Alerts'
  <1>1. /\ ledger' = ledger \cup row[p] /\ evals' = evals /\ limit' = limit
        /\ pc[p] = "open" /\ pc'[p] = "eval"
        /\ UNCHANGED <<alertLevel, told, unevaluated, untold>>
    BY DEF CommitTx, IInv, TypeOK
  <1>2. ASSUME NEW c \in Customers, c \notin shared', evals'[p] # {c}
        PROVE  outstanding'[c] = outstanding[c]
    <2>1. \A e \in row[p] : e.cust # c
      BY <1>1, <1>2 DEF AloneInv, WorkIsNamed, NamedBy
    <2>2. RowsOf(ledger', c) = RowsOf(ledger, c)
      BY <1>1, <2>1 DEF RowsOf
    <2>3. outstanding[c] = RowsOf(ledger, c)
      BY <1>2 DEF IInv, StaleOnlyIfOverlapped, AloneInv, OverlapIsShared
    <2>4. outstanding'[c] = RowsOf(ledger', c)
      BY <1>2 DEF IInv, StaleOnlyIfOverlapped, OverlapIsShared
    <2> QED
      BY <2>2, <2>3, <2>4
  <1> QED
    BY <1>1, <1>2, AlertsOpened

\* A new limit moves the band of a customer whom the request evaluates next.
LEMMA AlertsUpdate ==
    ASSUME IInv, TypeOK', AloneInv, MeetingsShared', WorkIsNamed', shared \subseteq shared',
           NEW p \in Procs, OnlyMoves(p), UpdateCustomer(p)
    PROVE  Alerts'
  <1>1. PICK c \in Customers : /\ \E l \in Limits : limit' = [limit EXCEPT ![c] = l]
                               /\ evals' = [evals EXCEPT ![p] = {c}]
    BY DEF UpdateCustomer
  <1>2. /\ pc[p] = "idle" /\ pc'[p] = "eval" /\ evals'[p] = {c} /\ outstanding' = outstanding
        /\ \A d \in Customers \ {c} : limit'[d] = limit[d]
        /\ UNCHANGED <<alertLevel, told, unevaluated, untold>>
    BY ZenonT(60), <1>1 DEF UpdateCustomer, IInv, TypeOK, histVars
  <1> QED
    BY <1>2, AlertsOpened

\* The copy an evaluation takes is current as it is taken.
LEMMA AlertsReread ==
    ASSUME IInv, TypeOK', AloneInv, shared \subseteq shared',
           NEW p \in Procs, OnlyMoves(p), Reread(p)
    PROVE  Alerts'
  <1>1. PICK c \in evals[p] :
            /\ cur' = [cur EXCEPT ![p] = c]
            /\ snap' = [snap EXCEPT ![p] = [band |-> CurrentBand(c), level |-> alertLevel[c]]]
    BY DEF Reread
  <1>2. /\ cur'[p] = c /\ snap'[p].band = CurrentBand(c) /\ snap'[p].level = alertLevel[c]
        /\ pc[p] = "eval" /\ pc'[p] = "band" /\ evals' = evals
        /\ UNCHANGED <<outstanding, limit, alertLevel, told, unevaluated, untold>>
    BY <1>1 DEF Reread, dbVars, histVars, IInv, TypeOK
  <1>3. \A d : CurrentBand(d)' = CurrentBand(d)
    BY <1>2 DEF CurrentBand
  <1> USE DEF AloneInv, Alerts, OnlyMoves
  <1>4. SnapIsCurrent'
    BY <1>2, <1>3 DEF SnapIsCurrent
  <1>5. LatchOrEvaluation'
    BY <1>2, <1>3 DEF LatchOrEvaluation
  <1>6. ToldIsLatched'
    BY <1>2 DEF ToldIsLatched
  <1>7. RiseIsTold'
    BY <1>2 DEF RiseIsTold
  <1> QED
    BY <1>4, <1>5, <1>6, <1>7

\* The evaluation of c ends without a write: the latch is his band, or it is recorded that
\* he was not evaluated.
LEMMA AlertsFinish ==
    ASSUME IInv, AloneInv, shared \subseteq shared', NEW p \in Procs, OnlyMoves(p),
           NEW c \in evals[p], Finish(p, c), pc[p] \in {"eval", "band"},
           UNCHANGED <<outstanding, limit, alertLevel, told, untold>>,
           unevaluated \ {c} \subseteq unevaluated',
           c \in unevaluated' \/ c \in shared' \/ alertLevel[c] = CurrentBand(c)
    PROVE  Alerts'
  <1>1. pc'[p] \in {"idle", "eval"}
    BY DEF Finish, IInv, TypeOK
  <1>2. \A d : CurrentBand(d)' = CurrentBand(d)
    BY DEF CurrentBand
  <1> USE DEF AloneInv, Alerts, OnlyMoves
  <1>3. SnapIsCurrent'
    BY <1>1, <1>2 DEF SnapIsCurrent
  <1>4. LatchOrEvaluation'
    <2>1. ASSUME NEW d \in Customers \ (shared' \cup unevaluated'), d # c,
                 alertLevel[d] # CurrentBand(d)
          PROVE  \E q \in Procs : evals'[q] = {d} /\ pc'[q] \in {"eval", "band"}
      <3>1. PICK q \in Procs : evals[q] = {d} /\ pc[q] \in {"eval", "band"}
        BY <2>1 DEF LatchOrEvaluation
      <3>2. q # p
        BY <2>1, <3>1
      <3> QED
        BY <3>1, <3>2
    <2>2. ASSUME NEW d \in Customers \ (shared' \cup unevaluated')
          PROVE  \/ alertLevel'[d] = CurrentBand(d)'
                 \/ \E q \in Procs : evals'[q] = {d} /\ pc'[q] \in {"eval", "band"}
      BY <1>2, <2>1, <2>2
    <2> QED
      BY <2>2 DEF LatchOrEvaluation
  <1>5. ToldIsLatched'
    BY DEF ToldIsLatched
  <1>6. RiseIsTold'
    BY <1>1 DEF RiseIsTold
  <1> QED
    BY <1>3, <1>4, <1>5, <1>6

\* A band equal to the latch ends the evaluation: the latch is right.
LEMMA AlertsSame ==
    ASSUME IInv, AloneInv, shared \subseteq shared', NEW p \in Procs, OnlyMoves(p), SameBand(p)
    PROVE  Alerts'
  <1>1. /\ pc[p] = "band" /\ cur[p] \in evals[p] /\ Finish(p, cur[p])
        /\ UNCHANGED <<outstanding, limit, alertLevel, told, untold>>
        /\ unevaluated' = unevaluated \ {cur[p]} /\ snap[p].band = snap[p].level
    BY DEF SameBand, dbVars, AloneInv, WorkIsNamed, NamedBy
  <1>2. cur[p] \in shared' \/ alertLevel[cur[p]] = CurrentBand(cur[p])
    BY <1>1 DEF AloneInv, Alerts, SnapIsCurrent, IInv, TypeOK
  <1> QED
    BY <1>1, <1>2, AlertsFinish

\* An evaluation that fails is recorded as owed.
LEMMA AlertsFail ==
    ASSUME IInv, AloneInv, shared \subseteq shared', NEW p \in Procs, OnlyMoves(p),
           EvaluationFails(p)
    PROVE  Alerts'
  <1>1. PICK c \in evals[p] : Finish(p, c) /\ unevaluated' = unevaluated \cup {c}
    BY DEF EvaluationFails
  <1>2. /\ pc[p] \in {"eval", "band"}
        /\ UNCHANGED <<outstanding, limit, alertLevel, told, untold>>
    BY DEF EvaluationFails, dbVars
  <1> QED
    BY <1>1, <1>2, AlertsFinish

\* The write of the latch: a rise goes on to the notification, a fall takes what was told
\* down with it.
LEMMA AlertsSet ==
    ASSUME IInv, TypeOK', AloneInv, shared \subseteq shared',
           NEW p \in Procs, OnlyMoves(p), SetAlertLevel(p)
    PROVE  Alerts'
  <1> DEFINE b == snap[p].band
  <1>1. PICK c \in Customers : c = cur[p]
    BY DEF SetAlertLevel, IInv, TypeOK
  <1>2. /\ pc[p] = "band" /\ c \in evals[p] /\ c \in WorksOn(p)
        /\ b \in Bands /\ snap[p].level \in Bands /\ b # snap[p].level
    BY <1>1 DEF SetAlertLevel, AloneInv, WorkIsNamed, NamedBy, WorksOn, IInv, TypeOK
  <1>3. /\ alertLevel'[c] = b /\ \A d \in Customers \ {c} : alertLevel'[d] = alertLevel[d]
        /\ told'[c] = IF b < told[c] THEN b ELSE told[c]
        /\ \A d \in Customers \ {c} : told'[d] = told[d]
    BY <1>1 DEF SetAlertLevel, IInv, TypeOK
  <1>4. /\ snap[p].level < b =>
               pc'[p] = "notify" /\ cur'[p] = c /\ snap'[p] = snap[p] /\ evals' = evals
        /\ ~(snap[p].level < b) => Finish(p, c)
    BY <1>1, <1>2 DEF SetAlertLevel, Bands, IInv, TypeOK
  <1>5. ~(snap[p].level < b) => pc'[p] \in {"idle", "eval"}
    BY <1>4 DEF Finish, IInv, TypeOK
  <1>6. c \notin shared =>
            b = CurrentBand(c) /\ snap[p].level = alertLevel[c] /\ told[c] <= alertLevel[c]
    BY <1>1, <1>2 DEF AloneInv, Alerts, SnapIsCurrent, ToldIsLatched
  <1>7. \A q \in Procs \ {p} : cur[q] = c /\ c \notin shared' => pc[q] \notin {"band", "notify"}
    BY <1>2 DEF AloneInv, WorkIsNamed, NamedBy, MeetingsShared, WorksOn
  <1>8. \A d \in Customers : told[d] \in Bands /\ alertLevel[d] \in Bands
    BY DEF IInv, TypeOK
  <1>9. \A d : CurrentBand(d)' = CurrentBand(d)
    BY DEF SetAlertLevel, CurrentBand
  <1>10. unevaluated' = unevaluated \ {c} /\ untold' = untold
    BY <1>1 DEF SetAlertLevel
  <1> HIDE DEF b
  <1>11. SnapIsCurrent'
    <2> SUFFICES ASSUME NEW q \in Procs, NEW d \in Customers \ shared', cur'[q] = d,
                        pc'[q] \in {"band", "notify"}
                 PROVE  /\ pc'[q] = "band" => /\ snap'[q].band = CurrentBand(d)
                                              /\ snap'[q].level = alertLevel'[d]
                        /\ pc'[q] = "notify" => /\ snap'[q].band = alertLevel'[d]
                                                /\ told'[d] < snap'[q].band
      BY <1>9 DEF SnapIsCurrent
    <2>1. CASE q = p
      <3>1. snap[p].level < b /\ pc'[q] = "notify" /\ d = c /\ snap'[q].band = b
        BY <1>4, <1>5, <2>1 DEF b
      <3>2. told[c] < b
        BY <1>2, <1>6, <1>8, <3>1 DEF Bands
      <3> QED
        BY <1>3, <1>8, <1>2, <3>1, <3>2 DEF Bands
    <2>2. CASE q # p
      <3>1. pc'[q] = pc[q] /\ cur[q] = d /\ snap'[q] = snap[q] /\ d # c
        BY <1>7, <2>2 DEF OnlyMoves
      <3> QED
        BY <1>3, <3>1 DEF AloneInv, Alerts, SnapIsCurrent
    <2> QED
      BY <2>1, <2>2
  <1>12. LatchOrEvaluation'
    <2> SUFFICES ASSUME NEW d \in Customers \ (shared' \cup unevaluated')
                 PROVE  \/ alertLevel'[d] = CurrentBand(d)
                        \/ \E q \in Procs : evals'[q] = {d} /\ pc'[q] \in {"eval", "band"}
      BY <1>9 DEF LatchOrEvaluation
    <2>1. CASE d = c
      BY <1>3, <1>6, <2>1
    <2>2. CASE d # c /\ alertLevel[d] # CurrentBand(d)
      <3>1. PICK q \in Procs : evals[q] = {d} /\ pc[q] \in {"eval", "band"}
        BY <1>10, <2>2 DEF AloneInv, Alerts, LatchOrEvaluation
      <3> QED
        BY <1>2, <2>2, <3>1 DEF OnlyMoves
    <2> QED
      BY <1>3, <2>1, <2>2
  <1>13. ToldIsLatched'
    <2> SUFFICES ASSUME NEW d \in Customers \ shared' PROVE told'[d] <= alertLevel'[d]
      BY DEF ToldIsLatched
    <2>1. CASE d = c
      BY <1>2, <1>3, <1>8, <2>1 DEF Bands
    <2>2. CASE d # c
      BY <1>3, <2>2 DEF AloneInv, Alerts, ToldIsLatched
    <2> QED
      BY <2>1, <2>2
  <1>14. RiseIsTold'
    <2> SUFFICES ASSUME NEW d \in Customers \ (shared' \cup untold)
                 PROVE  \/ alertLevel'[d] <= told'[d]
                        \/ \E q \in Procs : /\ pc'[q] = "notify" /\ cur'[q] = d
                                            /\ snap'[q].band >= alertLevel'[d]
      BY <1>10 DEF RiseIsTold
    <2>1. CASE d = c /\ snap[p].level < b
      BY <1>2, <1>3, <1>4, <2>1 DEF b, Bands
    <2>2. CASE d = c /\ ~(snap[p].level < b)
      <3>1. ~\E q \in Procs : pc[q] = "notify" /\ cur[q] = c
        BY <1>2, <1>7, <2>2
      <3>2. alertLevel[c] <= told[c]
        BY <2>2, <3>1 DEF AloneInv, Alerts, RiseIsTold
      <3> QED
        BY <1>2, <1>3, <1>6, <1>8, <2>2, <3>2 DEF Bands
    <2>3. CASE d # c
      <3>1. CASE alertLevel[d] <= told[d]
        BY <1>3, <2>3, <3>1
      <3>2. CASE \E q \in Procs : pc[q] = "notify" /\ cur[q] = d /\ snap[q].band >= alertLevel[d]
        BY <1>2, <1>3, <2>3, <3>2 DEF OnlyMoves
      <3> QED
        BY <3>1, <3>2 DEF AloneInv, Alerts, RiseIsTold
    <2> QED
      BY <2>1, <2>2, <2>3
  <1> QED
    BY <1>11, <1>12, <1>13, <1>14 DEF Alerts

\* A notification ends the evaluation: the latch stands and people were told.
LEMMA AlertsTold ==
    ASSUME IInv, TypeOK', AloneInv, shared \subseteq shared',
           NEW p \in Procs, OnlyMoves(p), HandleCreditAlert(p)
    PROVE  Alerts'
  <1>1. PICK c \in Customers : c = cur[p]
    BY DEF HandleCreditAlert, IInv, TypeOK
  <1> DEFINE b == snap[p].band
  <1>2. pc[p] = "notify" /\ c \in evals[p] /\ c \in WorksOn(p) /\ b \in Bands
    BY <1>1 DEF HandleCreditAlert, AloneInv, WorkIsNamed, NamedBy, WorksOn, IInv, TypeOK
  <1>3. /\ told'[c] = IF b > told[c] THEN b ELSE told[c]
        /\ \A d \in Customers \ {c} : told'[d] = told[d]
    BY <1>1 DEF HandleCreditAlert, IInv, TypeOK
  <1>4. pc'[p] \in {"idle", "eval"}
    BY DEF HandleCreditAlert, Finish, IInv, TypeOK
  <1>5. UNCHANGED <<outstanding, limit, alertLevel, unevaluated, untold>>
    BY DEF HandleCreditAlert, dbVars
  <1>6. c \notin shared => b = alertLevel[c] /\ told[c] < b
    BY <1>1, <1>2 DEF AloneInv, Alerts, SnapIsCurrent
  <1>7. \A q \in Procs \ {p} : cur[q] = c /\ c \notin shared' => pc[q] \notin {"band", "notify"}
    BY <1>2 DEF AloneInv, WorkIsNamed, NamedBy, MeetingsShared, WorksOn
  <1>8. \A d \in Customers : told[d] \in Bands /\ alertLevel[d] \in Bands
    BY DEF IInv, TypeOK
  <1>9. \A d : CurrentBand(d)' = CurrentBand(d)
    BY <1>5 DEF CurrentBand
  <1> HIDE DEF b
  <1> USE DEF AloneInv, Alerts, OnlyMoves
  <1>10. SnapIsCurrent'
    BY <1>3, <1>4, <1>5, <1>7, <1>9 DEF SnapIsCurrent
  <1>11. LatchOrEvaluation'
    BY <1>2, <1>5, <1>9 DEF LatchOrEvaluation
  <1>12. ToldIsLatched'
    BY <1>3, <1>5, <1>6, <1>8 DEF ToldIsLatched, Bands
  <1>13. RiseIsTold'
    <2> SUFFICES ASSUME NEW d \in Customers \ (shared' \cup untold)
                 PROVE  \/ alertLevel[d] <= told'[d]
                        \/ \E q \in Procs : /\ pc'[q] = "notify" /\ cur'[q] = d
                                            /\ snap'[q].band >= alertLevel[d]
      BY <1>5 DEF RiseIsTold
    <2>1. CASE d = c
      BY <1>2, <1>3, <1>6, <1>8, <2>1 DEF Bands
    <2>2. CASE d # c
      BY <1>1, <1>3, <2>2 DEF RiseIsTold
    <2> QED
      BY <2>1, <2>2
  <1> QED
    BY <1>10, <1>11, <1>12, <1>13

\* The death of the process leaves a mark on everyone it left unevaluated or untold.
LEMMA AloneCrash ==
    ASSUME IInv, TypeOK', AloneInv, shared \subseteq shared', Crash
    PROVE  WorkIsNamed' /\ OverlapIsShared' /\ ReversalIsNew' /\ ReversedOnce' /\ Alerts'
  <1>1. /\ \A p \in Procs : /\ pc'[p] = "idle" /\ target'[p] = {} /\ row'[p] = {} /\ evals'[p] = {}
        /\ \A c \in Customers : lock'[c] = None
        /\ UNCHANGED <<ledger, outstanding, limit, alertLevel, overlap, told, tainted>>
    BY DEF Crash
  <1>2. WorkIsNamed'
    BY <1>1, LedgerAssumption DEF WorkIsNamed, NamedBy, InTx
  <1>3. OverlapIsShared'
    BY <1>1, LedgerAssumption, OverlapKept DEF AloneInv, Summed
  <1>4. ReversalIsNew' /\ ReversedOnce'
    BY <1>1, ReversalsKept DEF AloneInv
  <1>5. SnapIsCurrent' /\ ToldIsLatched'
    BY <1>1 DEF AloneInv, Alerts, SnapIsCurrent, ToldIsLatched
  <1>6. LatchOrEvaluation'
    <2>1. \A c, p : p \in Procs /\ evals[p] = {c} /\ pc[p] \in {"eval", "band"}
                    => c \in unevaluated'
      BY DEF Crash
    <2>2. unevaluated \subseteq unevaluated'
      BY DEF Crash
    <2> QED
      BY <1>1, <2>1, <2>2 DEF AloneInv, Alerts, LatchOrEvaluation, CurrentBand
  <1>7. RiseIsTold'
    <2>1. untold \subseteq untold' /\ \A p \in Procs : pc[p] = "notify" => cur[p] \in untold'
      BY DEF Crash
    <2> QED
      BY <1>1, <2>1 DEF AloneInv, Alerts, RiseIsTold
  <1> QED
    BY <1>2, <1>3, <1>4, <1>5, <1>6, <1>7 DEF Alerts

(***************************************************************************)
(* Customers nobody shares: the theorems                                   *)
(***************************************************************************)
\* The SUM of no rows.
LEMMA ExposureOfNothing == Exposure({}) = 0
  <1> DEFINE Sum(f) == [s \in SUBSET {} |->
                            IF s = {} THEN 0
                            ELSE LET x == CHOOSE y \in s : TRUE IN SignedAmount(x) + f[s \ {x}]]
             sum == CHOOSE f : f = Sum(f)
  <1>1. Exposure({}) = sum[{}]
    BY DEF Exposure, MapThenSumSet, MapThenFoldSet
  <1>2. \A f : Sum(f) = [s \in {{}} |-> 0]
    OBVIOUS
  <1>3. \E f : f = Sum(f)
    BY <1>2
  <1>4. sum = Sum(sum)
    BY <1>3
  <1> HIDE DEF sum, Sum
  <1> QED
    BY <1>1, <1>2, <1>4

\* The invariant holds before any request.
LEMMA AloneInit == Init => AloneInv
  <1> SUFFICES ASSUME Init PROVE AloneInv
    OBVIOUS
  <1>1. MeetingsShared /\ WorkIsNamed
    BY LedgerAssumption DEF Init, MeetingsShared, WorkIsNamed, NamedBy, WorksOn, Touched, InTx
  <1>2. OverlapIsShared /\ ReversalIsNew /\ ReversedOnce
    BY DEF Init, OverlapIsShared, ReversalIsNew, ReversedOnce
  <1>3. \A c \in Customers : CurrentBand(c) = 0
    <2>1. \A c \in Customers : outstanding[c] = {} /\ limit[c] \in Nat
      BY LedgerAssumption DEF Init
    <2>2. \A l \in Nat : creditBand(0, l) = 0
      BY DEF creditBand
    <2> QED
      BY ExposureOfNothing, <2>1, <2>2 DEF CurrentBand
  <1>4. Alerts
    BY <1>3 DEF Init, Alerts, SnapIsCurrent, LatchOrEvaluation, ToldIsLatched, RiseIsTold
  <1> QED
    BY <1>1, <1>2, <1>4 DEF AloneInv

\* One step of one request.
LEMMA AloneRequest ==
    ASSUME IInv, IInv', AloneInv, Remember,
           NEW p \in Procs, Openings(p) \/ Steps(p) \/ Failures(p)
    PROVE  AloneInv'
  <1>1. MeetingsShared' /\ shared \subseteq shared'
    BY MeetingsAreRemembered DEF IInv
  <1>2. OnlyMoves(p)
    BY StepMovesOne DEF IInv
  <1>3. WorkIsNamed'
    BY NamedStep DEF IInv, AloneInv
  <1>4. TypeOK /\ TypeOK' /\ Alerts /\ OverlapIsShared /\ ReversalIsNew /\ ReversedOnce
    BY DEF IInv, AloneInv
  <1> SUFFICES OverlapIsShared' /\ ReversalIsNew' /\ ReversedOnce' /\ Alerts'
    BY <1>1, <1>3 DEF AloneInv
  <1> USE <1>1, <1>2, <1>3, <1>4
  <1>5. CASE AppendEntry(p)
    <2>1. OverlapIsShared'
      BY <1>5, OverlapKept DEF AppendEntry, OpenTx, Summed, histVars, TypeOK
    <2>2. Alerts'
      BY <1>5, AlertsAside DEF AppendEntry, OpenTx, histVars, TypeOK
    <2> QED
      BY <1>5, <2>1, <2>2, ReversalsAppend
  <1>6. CASE GetEntry(p)
    <2>1. OverlapIsShared'
      BY <1>6, OverlapKept DEF GetEntry, Summed, dbVars, histVars, TypeOK
    <2>2. Alerts'
      BY <1>6, AlertsAside DEF GetEntry, dbVars, histVars, TypeOK
    <2> QED
      BY <1>6, <2>1, <2>2, ReversalsGot
  <1>7. CASE RecalcCustomer(p) \/ RecalcAll(p)
    <2>1. PICK C : OpenTx(p, {}, C) /\ UNCHANGED <<dbVars, target, cur, histVars>> /\ pc[p] = "idle"
      BY <1>7 DEF RecalcCustomer, RecalcAll
    <2>2. OverlapIsShared'
      BY <2>1, OverlapKept DEF OpenTx, Summed, dbVars, histVars, TypeOK
    <2>3. ReversalIsNew' /\ ReversedOnce'
      BY <2>1, ReversalsKept DEF OpenTx, dbVars, TypeOK
    <2>4. Alerts'
      BY <2>1, AlertsAside DEF OpenTx, dbVars, histVars, TypeOK
    <2> QED
      BY <2>2, <2>3, <2>4
  <1>8. CASE UpdateCustomer(p)
    <2>1. OverlapIsShared'
      BY <1>8, OverlapKept DEF UpdateCustomer, Summed, histVars, TypeOK
    <2>2. ReversalIsNew' /\ ReversedOnce'
      BY <1>8, ReversalsKept DEF UpdateCustomer, TypeOK
    <2> QED
      BY <1>8, <2>1, <2>2, AlertsUpdate
  <1>9. CASE HasReversal(p)
    <2>1. OverlapIsShared'
      BY <1>9, OverlapKept DEF HasReversal, Summed, dbVars, histVars, TypeOK
    <2>2. Alerts'
      BY ZenonT(60), <1>9, AlertsAside DEF HasReversal, dbVars, histVars, TypeOK
    <2> QED
      BY <1>9, <2>1, <2>2, ReversalsLooked
  <1>10. CASE InsertReversal(p)
    <2>1. OverlapIsShared'
      BY <1>10, OverlapKept DEF InsertReversal, OpenTx, Summed, histVars, TypeOK
    <2>2. Alerts'
      BY <1>10, AlertsAside DEF InsertReversal, OpenTx, histVars, TypeOK
    <2> QED
      BY <1>10, <2>1, <2>2, ReversalsInsert
  <1>11. CASE SumLedger(p)
    <2>1. ReversalIsNew' /\ ReversedOnce'
      BY <1>11, ReversalsKept DEF SumLedger, dbVars, TypeOK
    <2>2. Alerts'
      BY <1>11, AlertsAside DEF SumLedger, dbVars, TypeOK
    <2> QED
      BY <1>11, <2>1, <2>2, OverlapSum
  <1>12. CASE WriteOutstanding(p)
    <2>1. OverlapIsShared'
      BY <1>12, OverlapKept DEF WriteOutstanding, Summed, histVars, TypeOK
    <2>2. ReversalIsNew' /\ ReversedOnce'
      BY <1>12, ReversalsKept DEF WriteOutstanding, TypeOK
    <2>3. Alerts'
      BY <1>12, AlertsAside DEF WriteOutstanding, histVars, TypeOK
    <2> QED
      BY <2>1, <2>2, <2>3
  <1>13. CASE CommitTx(p)
    BY <1>13, OverlapCommit, ReversalsCommit, AlertsCommit
  <1>14. CASE Reread(p)
    <2>1. OverlapIsShared'
      BY <1>14, OverlapKept DEF Reread, Summed, dbVars, histVars, TypeOK
    <2>2. ReversalIsNew' /\ ReversedOnce'
      BY <1>14, ReversalsKept DEF Reread, dbVars, TypeOK
    <2> QED
      BY <1>14, <2>1, <2>2, AlertsReread
  <1>15. CASE SameBand(p)
    <2>1. OverlapIsShared'
      BY <1>15, OverlapKept DEF SameBand, Finish, Summed, dbVars, TypeOK
    <2>2. ReversalIsNew' /\ ReversedOnce'
      BY <1>15, ReversalsKept DEF SameBand, Finish, dbVars, TypeOK
    <2> QED
      BY <1>15, <2>1, <2>2, AlertsSame
  <1>16. CASE SetAlertLevel(p)
    <2>1. OverlapIsShared'
      BY <1>16, OverlapKept DEF SetAlertLevel, Finish, Summed, TypeOK
    <2>2. ReversalIsNew' /\ ReversedOnce'
      BY <1>16, ReversalsKept DEF SetAlertLevel, Finish, TypeOK
    <2> QED
      BY <1>16, <2>1, <2>2, AlertsSet
  <1>17. CASE HandleCreditAlert(p)
    <2>1. OverlapIsShared'
      BY <1>17, OverlapKept DEF HandleCreditAlert, Finish, Summed, dbVars, TypeOK
    <2>2. ReversalIsNew' /\ ReversedOnce'
      BY <1>17, ReversalsKept DEF HandleCreditAlert, Finish, dbVars, TypeOK
    <2> QED
      BY <1>17, <2>1, <2>2, AlertsTold
  <1>18. CASE Release(p) /\ UNCHANGED <<unevaluated, untold>>
              /\ pc[p] \in {"gotEntry", "reversing", "open", "summed"}
    <2>1. OverlapIsShared'
      BY <1>18, OverlapKept, LedgerAssumption DEF Release, Summed, TypeOK
    <2>2. ReversalIsNew' /\ ReversedOnce'
      BY <1>18, ReversalsKept DEF Release, TypeOK
    <2>3. Alerts'
      BY <1>18, AlertsAside DEF Release, TypeOK
    <2> QED
      BY <2>1, <2>2, <2>3
  <1>19. CASE EvaluationFails(p)
    <2>1. OverlapIsShared'
      BY <1>19, OverlapKept DEF EvaluationFails, Finish, Summed, dbVars, TypeOK
    <2>2. ReversalIsNew' /\ ReversedOnce'
      BY <1>19, ReversalsKept DEF EvaluationFails, Finish, dbVars, TypeOK
    <2> QED
      BY <1>19, <2>1, <2>2, AlertsFail
  <1>20. DeadlockVictim(p) => pc[p] = "summed"
    BY DEF DeadlockVictim, Blocked
  <1> QED
    BY <1>5, <1>6, <1>7, <1>8, <1>9, <1>10, <1>11, <1>12, <1>13, <1>14, <1>15, <1>16, <1>17,
       <1>18, <1>19, <1>20 DEF Openings, Steps, Failures, DeadlockVictim, RequestFails

\* The induction step of AloneInv, under IInv before and after the step.
LEMMA AloneStep == IInv /\ IInv' /\ AloneInv /\ [Next]_vars => AloneInv'
  <1> SUFFICES ASSUME IInv, IInv', AloneInv, [Next]_vars PROVE AloneInv'
    OBVIOUS
  <1>1. ASSUME NEW p \in Procs, Remember, Openings(p) \/ Steps(p) \/ Failures(p) PROVE AloneInv'
    BY <1>1, AloneRequest
  <1>2. CASE Crash /\ Remember
    BY <1>2, AloneCrash, MeetingsAreRemembered DEF IInv, AloneInv
  <1>3. CASE UNCHANGED vars
    <2>1. UNCHANGED <<dbVars, procVars, histVars, shared>>
      BY <1>3 DEF vars
    <2>2. MeetingsShared' /\ WorkIsNamed'
      BY <2>1 DEF AloneInv, MeetingsShared, WorkIsNamed, NamedBy, WorksOn, Touched, InTx,
                  dbVars, procVars
    <2>3. OverlapIsShared' /\ ReversalIsNew' /\ ReversedOnce'
      BY <2>1 DEF AloneInv, OverlapIsShared, Summed, ReversalIsNew, Reversed, ReversedOnce,
                  dbVars, procVars, histVars
    <2>4. \A c : CurrentBand(c)' = CurrentBand(c)
      BY <2>1 DEF CurrentBand, dbVars
    <2>5. Alerts'
      BY <2>1, <2>4 DEF AloneInv, Alerts, SnapIsCurrent, LatchOrEvaluation, ToldIsLatched,
                  RiseIsTold, dbVars, procVars, histVars
    <2> QED
      BY <2>2, <2>3, <2>5 DEF AloneInv
  <1> QED
    BY <1>1, <1>2, <1>3 DEF Next

\* AloneInv holds in every reachable state, for any number of requests.
LEMMA AloneInvariance == Spec => []AloneInv
  BY AloneInit, AloneStep, Invariance, PTL DEF Spec

\* A customer no two requests have worked on at once has an exact exposure, entries that are
\* reversed once, the right latch, and was told of every rise: across failures and crashes,
\* and whatever overlaps on other customers.
THEOREM ExactWhenAlone == Spec => []AloneIsExact
  <1>1. IInv /\ AloneInv => AloneIsExact
    <2> SUFFICES ASSUME IInv, AloneInv PROVE AloneIsExact
      OBVIOUS
    <2>1. \A c \in Customers \ shared : outstanding[c] = RowsOf(ledger, c)
      BY DEF IInv, StaleOnlyIfOverlapped, AloneInv, OverlapIsShared
    <2>2. LatchFollowsBand
      BY DEF AloneInv, Alerts, LatchOrEvaluation, LatchFollowsBand
    <2> QED
      BY <2>1, <2>2 DEF AloneIsExact, AloneInv, Alerts
  <1> QED
    BY <1>1, Invariance, AloneInvariance, PTL

\* ... and no band is told of him twice before the latch has fallen below it.
THEOREM ToldOnce == Spec => NoRepeatInBand
  <1>1. IInv /\ AloneInv /\ [Next]_vars =>
            [\A p \in Procs : HandleCreditAlert(p) /\ cur[p] \notin shared =>
                                  snap[p].band > told[cur[p]]]_vars
    <2> SUFFICES ASSUME IInv, AloneInv, NEW p \in Procs, HandleCreditAlert(p), cur[p] \notin shared
                 PROVE  snap[p].band > told[cur[p]]
      OBVIOUS
    <2>1. pc[p] = "notify" /\ cur[p] \in Customers
      BY DEF HandleCreditAlert, IInv, TypeOK
    <2>2. told[cur[p]] < snap[p].band
      BY <2>1 DEF AloneInv, Alerts, SnapIsCurrent
    <2>3. told[cur[p]] \in Bands /\ snap[p].band \in Bands
      BY <2>1 DEF IInv, TypeOK
    <2> QED
      BY <2>2, <2>3 DEF Bands
  <1> QED
    BY <1>1, Invariance, AloneInvariance, PTL DEF Spec, NoRepeatInBand

=============================================================================

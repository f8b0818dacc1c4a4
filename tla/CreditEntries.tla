--------------------------- MODULE CreditEntries ----------------------------
(***************************************************************************)
(* The rows of credit_ledger, their sum and the alert bands: the data that *)
(* CreditLedger and its abstract specification CreditBook share.           *)
(***************************************************************************)
EXTENDS Integers, FiniteSets
LOCAL INSTANCE FiniteSetsExt

CONSTANTS
    Customers,    \* customers.id
    Amounts       \* entry amounts, in cents: roundAmount leaves a positive integer

ASSUME AmountsArePositive == Amounts \subseteq Nat \ {0}

Types == {"advance", "repayment"}
Bands == {0, 80, 100}

\* A row of credit_ledger.  reversedOf is 0 for NULL.
Entry == [id : Nat \ {0}, cust : Customers, type : Types, amount : Amounts, reversedOf : Nat]

RowsOf(S, c) == {e \in S : e.cust = c}

SignedAmount(e) == IF e.type = "advance" THEN e.amount ELSE -e.amount
Exposure(S) == MapThenSumSet(SignedAmount, S)

\* l is the credit limit; without one (0) there is no band.
creditBand(x, l) ==
    IF l = 0 THEN 0
    ELSE IF x >= l THEN 100
    ELSE IF 10 * x >= 8 * l THEN 80
    ELSE 0

Opposite(t) == IF t = "repayment" THEN "advance" ELSE "repayment"
IsReversal(e) == e.reversedOf # 0

\* e is the entry that undoes d: same customer and amount, other direction.
Mirrors(e, d) == /\ e.reversedOf = d.id
                 /\ e.cust = d.cust
                 /\ e.amount = d.amount
                 /\ e.type = Opposite(d.type)
=============================================================================

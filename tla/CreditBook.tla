----------------------------- MODULE CreditBook -----------------------------
(***************************************************************************)
(* What the credit ledger promises, without requests or transactions: a    *)
(* journal that only grows, and for every customer a cached sum of some of *)
(* its rows.  It deliberately does not promise that the cached sum covers  *)
(* every row: see OutstandingIsLedgerSum in CreditLedger.                  *)
(***************************************************************************)
EXTENDS CreditEntries

VARIABLES journal, published
vars == <<journal, published>>

Init == /\ journal = {}
        /\ published = [c \in Customers |-> {}]

\* A row may join the journal under a new id, and as a reversal only if it
\* undoes a row of the journal that is not a reversal.
Admissible(e) ==
    /\ e \in Entry
    /\ \A d \in journal : d.id # e.id
    /\ IsReversal(e) => \E d \in journal : ~IsReversal(d) /\ Mirrors(e, d)

\* A row joins the journal; the sum published with it counts it.
Post(e) ==
    /\ Admissible(e)
    /\ journal' = journal \cup {e}
    /\ \E S \in SUBSET RowsOf(journal', e.cust) :
           /\ e \in S
           /\ published' = [published EXCEPT ![e.cust] = S]

\* The sums of some customers are taken anew.
Resum ==
    /\ journal' = journal
    /\ published' \in [Customers -> SUBSET journal]
    /\ \A c \in Customers : published'[c] \subseteq RowsOf(journal, c)

Next == (\E e \in journal' \ journal : Post(e)) \/ Resum

Spec == Init /\ [][Next]_vars
=============================================================================

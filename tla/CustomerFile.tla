---------------------------- MODULE CustomerFile ----------------------------
(***************************************************************************)
(* The file of one customer: the row of customers and the identity papers  *)
(* (KYC) attached to it (service/credit_kyc.go, repository/credit_kyc.go). *)
(* The customer fills in and submits the papers on an embedded page, an    *)
(* administrator may edit them, and a reviewer approves or rejects them.   *)
(***************************************************************************)
EXTENDS Naturals, FiniteSets

CONSTANTS
    Requests,
    Forms,       \* the papers people hand in
    MaxEvents    \* bound: requests begun

FileAssumption ==
    /\ IsFiniteSet(Requests) /\ MaxEvents \in Nat
    /\ Forms # {}
    /\ Forms \subseteq [subject : {"individual", "company"},
                        given : SUBSET {"contact", "person", "company"}]

VARIABLES
    customer,    \* customers.status, "none" without a row
    file,        \* the row of customer_kyc
    pc, form, submit,
    shown,       \* the papers on the reviewer's page
    basis,       \* history: the papers an approval was given on
    crossed,     \* history: the customer's requests an approval overtook
    blurred,     \* history: the papers changed between a reviewer's look and verdict,
                 \* or by a crossed request
    events

vars    == <<customer, file, pc, form, submit, shown, basis, crossed, blurred, events>>
request == <<form, submit, shown>>
history == <<basis, crossed, blurred>>

NoFile   == [status |-> "none", data |-> {}, submitted |-> FALSE, note |-> FALSE]
SomeForm == CHOOSE f \in Forms : TRUE

Init ==
    /\ customer = "none" /\ file = NoFile
    /\ pc = [p \in Requests |-> "idle"]
    /\ form = [p \in Requests |-> SomeForm] /\ submit = [p \in Requests |-> FALSE]
    /\ shown = [p \in Requests |-> {}]
    /\ basis = {} /\ crossed = {} /\ blurred = FALSE
    /\ events = 0

\* Each kind of subject has fields of its own to fill in: a company's do not vouch for
\* a person.
requiredKYCFields(f) ==
    {"contact", IF f.subject = "company" THEN "company" ELSE "person"}
Valid(f, submits) == submits => requiredKYCFields(f) \subseteq f.given

\* What the customer is shown: the papers, their status and the reviewer's note, never
\* the reviewer's name.
Profile ==
    IF file.status = "none" THEN [status |-> "draft", data |-> {}, note |-> FALSE]
    ELSE [status |-> file.status, data |-> file.data, note |-> file.note]

Goto(p, l) == pc' = [pc EXCEPT ![p] = l]
Return(p) ==
    /\ Goto(p, "idle")
    /\ form' = [form EXCEPT ![p] = SomeForm] /\ submit' = [submit EXCEPT ![p] = FALSE]
    /\ shown' = [shown EXCEPT ![p] = {}]
    /\ crossed' = crossed \ {p}
Event == events < MaxEvents /\ events' = events + 1
-----------------------------------------------------------------------------
\* The papers are overwritten as a whole; only a submission changes the status, and
\* neither touches the reviewer's verdict and note.
UpsertResetsDraft(f, submits) ==
    file' = [file EXCEPT !.data = {f}, !.submitted = submits \/ @,
                         !.status = IF submits THEN "pending" ELSE "draft"]

UpsertKYC(f, submits) ==
    file' = [file EXCEPT
        !.data = {f},
        !.submitted = submits \/ @,
        !.status = IF submits THEN "pending" ELSE IF @ = "none" THEN "draft" ELSE @]

(***************************************************************************)
(* The customer saves (embed_kyc_handler.go).                              *)
(***************************************************************************)
SaveProfile(p) ==
    /\ pc[p] = "idle" /\ Event
    /\ \E f \in Forms, s \in BOOLEAN :
          form' = [form EXCEPT ![p] = f] /\ submit' = [submit EXCEPT ![p] = s]
    /\ Goto(p, IF customer = "none" THEN "create" ELSE "check")
    /\ UNCHANGED <<customer, file, shown, history>>

\* The customer's row is made with the first save.  Somebody else may have made it
\* meanwhile: sub2api_user_id is unique.
EnsureCustomer(p) ==
    /\ pc[p] = "create"
    /\ IF customer = "none"
       THEN customer' = "active" /\ Goto(p, "check") /\ UNCHANGED <<request, crossed>>
       ELSE Return(p) /\ UNCHANGED customer
    /\ UNCHANGED <<file, basis, blurred, events>>

CheckNothing(p) ==
    /\ pc[p] = "check"
    /\ Goto(p, "save")
    /\ UNCHANGED <<customer, file, request, history, events>>

\* Approved papers are the customer's no longer.
CheckUnlocked(p) ==
    /\ pc[p] = "check"
    /\ IF file.status = "approved" THEN Return(p)
       ELSE Goto(p, "save") /\ UNCHANGED <<request, crossed>>
    /\ UNCHANGED <<customer, file, basis, blurred, events>>

SaveOwn(p) ==
    /\ pc[p] = "save"
    /\ IF Valid(form[p], submit[p])
       THEN /\ UpsertKYC(form[p], submit[p])
            /\ blurred' = (blurred \/ p \in crossed)
       ELSE UNCHANGED <<file, blurred>>
    /\ Return(p)
    /\ UNCHANGED <<customer, basis, events>>

(***************************************************************************)
(* An administrator.                                                       *)
(***************************************************************************)
CreateCustomer ==
    /\ customer = "none" /\ Event
    /\ customer' = "active"
    /\ UNCHANGED <<file, pc, request, history>>

\* Editing and archiving a customer leave the papers alone, and the customer may go on
\* filing them.
SetStatus ==
    /\ customer # "none" /\ Event
    /\ \E s \in {"active", "archived"} \ {customer} : customer' = s
    /\ UNCHANGED <<file, pc, request, history>>

\* No lock for an administrator: what he saves is what is approved.
SaveKYC ==
    /\ customer # "none" /\ Event
    /\ \E f \in Forms, s \in BOOLEAN :
          /\ Valid(f, s)
          /\ UpsertKYC(f, s)
          /\ basis' = IF file.status = "approved" THEN {f} ELSE basis
    /\ UNCHANGED <<customer, pc, request, crossed, blurred>>

(***************************************************************************)
(* A reviewer.  His page offers a verdict only on what it shows as pending *)
(* (KycDialog.vue); the service takes one on any papers.                   *)
(***************************************************************************)
GetKYC(p) ==
    /\ pc[p] = "idle" /\ Event
    /\ customer # "none"
    /\ shown' = [shown EXCEPT ![p] = file.data]
    /\ Goto(p, "look")
    /\ UNCHANGED <<customer, file, form, submit, history>>

\* Stored whatever the status is, or was when he looked.
Verdict(p, status, note) ==
    /\ file.status # "none"
    /\ file' = [file EXCEPT !.status = status, !.note = note]
    /\ IF status = "approved"
       THEN /\ basis' = shown[p]
            /\ blurred' = (file.data # shown[p])
       ELSE UNCHANGED <<basis, blurred>>

NoPapers == file.status = "none" /\ UNCHANGED <<file, basis, blurred>>

ReviewKYC(p) ==
    /\ pc[p] = "look"
    /\ \/ Verdict(p, "approved", TRUE)
       \/ Verdict(p, "approved", FALSE)
       \/ Verdict(p, "rejected", TRUE)      \* never without a reason
       \/ NoPapers
    /\ Goto(p, "idle") /\ shown' = [shown EXCEPT ![p] = {}]
    /\ crossed' = IF file'.status = "approved" THEN {q \in Requests : pc[q] = "save"} ELSE crossed
    /\ UNCHANGED <<customer, form, submit, events>>

Gone(p) ==            \* a failed statement, or the page is closed
    /\ pc[p] # "idle"
    /\ Return(p)
    /\ UNCHANGED <<customer, file, basis, blurred, events>>

Next ==
    \/ \E p \in Requests :
          \/ SaveProfile(p) \/ EnsureCustomer(p) \/ CheckUnlocked(p) \/ SaveOwn(p)
          \/ GetKYC(p) \/ ReviewKYC(p) \/ Gone(p)
    \/ CreateCustomer \/ SetStatus \/ SaveKYC

Spec == Init /\ [][Next]_vars
-----------------------------------------------------------------------------
TypeOK ==
    /\ customer \in {"none", "active", "archived"}
    /\ file \in [status : {"none", "draft", "pending", "approved", "rejected"},
                 data : SUBSET Forms, submitted : BOOLEAN, note : BOOLEAN]
    /\ pc \in [Requests -> {"idle", "create", "check", "save", "look"}]
    /\ form \in [Requests -> Forms] /\ submit \in [Requests -> BOOLEAN]
    /\ shown \in [Requests -> SUBSET Forms] /\ basis \subseteq Forms
    /\ crossed \subseteq Requests /\ events \in 0..MaxEvents

\* What was submitted is under review until there is a verdict, which stays: saving a
\* draft takes nothing out of the review.  Nothing is under review that was not submitted.
Reviewed ==
    /\ file.submitted => file.status \in {"pending", "approved", "rejected"}
    /\ file.status = "pending" => file.submitted

\* Approved papers are the ones the reviewer saw, or an administrator's, unless they
\* changed while he looked or a save was under way.
ApprovedIsFrozen == file.status = "approved" /\ ~blurred => file.data = basis

\* Who is rejected can see why.
RejectionIsExplained == Profile.status = "rejected" => Profile.note

\* The status says what happened to the papers.
FileIsTrue == Reviewed /\ ApprovedIsFrozen /\ RejectionIsExplained
=============================================================================

----------------------------- MODULE MCRequests ----------------------------
(***************************************************************************)
(* Requests that people make of the service: small instances of            *)
(* CreditLedger (the constants of the .cfg) and of the modules below in    *)
(* one run.  "part", which never changes, says which of them runs; the     *)
(* others stay as they start.  CreditLedger has two parts: one request at  *)
(* a time, with everything that can happen to it, and two that overlap;    *)
(* so has MediaTask: requests that overlap, and one at a time with more    *)
(* archives to take up than one start does.                                *)
(***************************************************************************)
EXTENDS CreditLedger, TLC

CONSTANTS c1, c2, p1, p2

CONSTANTS
    Keys, MaxPending, Slots, ResumeLimit, MaxTasks, MaxMishaps, \* of MediaTask
    Forms, MaxFilings,                               \* of CustomerFile
    Operations, Groups, MaxMischief                  \* of Provision

VARIABLES
    part,
    tasks, artifacts, taskId, work, request, key, medium, id, archive, listing, resume,
    removed, successes, cutShort, behind, untraced, mishaps,
    customer, file, filing, form, submit, shown, basis, crossed, blurred, filings,
    connection, siteKeys, siteAccounts, siteLinks, provisioning, operation, wanted, recordRead,
    withSites, clientGone, keysMade, toldOf, unaccounted, mischief

mediaVars == <<tasks, artifacts, taskId, work, request, key, medium, id, archive, listing,
               resume, removed, successes, cutShort, behind, untraced, mishaps>>
fileVars  == <<customer, file, filing, form, submit, shown, basis, crossed, blurred, filings>>
siteVars  == <<connection, siteKeys, siteAccounts, siteLinks, provisioning, operation, wanted,
               recordRead, withSites, clientGone, keysMade, toldOf, unaccounted, mischief>>

\* MediaTask: requests that may overlap, each with an idempotency key or none.
Media == INSTANCE MediaTaskProofs
    WITH Requests <- Procs, NoKey <- "none", MaxEvents <- MaxMishaps,
         nextId <- taskId, job <- work, pc <- request, kind <- medium, events <- mishaps

\* CustomerFile: requests about one customer's papers.  In the .cfg: a person's papers, a
\* person's with a company's data, a company's.
Papers(subject, data) == [subject |-> subject, given |-> {"contact", data}]
ThreeForms == {Papers("individual", "person"), Papers("individual", "company"),
               Papers("company", "company")}
File == INSTANCE CustomerFile
    WITH Requests <- Procs, MaxEvents <- MaxFilings,
         pc <- filing, events <- filings

\* Provision: operations on groups of the own site.
Site == INSTANCE Provision
    WITH Callers <- Procs, MaxMishaps <- MaxMischief,
         record <- connection, keys <- siteKeys, accounts <- siteAccounts,
         linked <- siteLinks, pc <- provisioning, for <- operation, group <- wanted,
         read <- recordRead, remote <- withSites, gone <- clientGone, made <- keysMade,
         known <- toldOf, excused <- unaccounted, mishaps <- mischief

ASSUME PartsAssumption ==
    Media!MediaAssumption /\ File!FileAssumption /\ Site!ProvisionAssumption

\* One request at a time: three entries of one customer, a failure among the first two, every
\* amount and limit.  The other customer keeps the limit he starts with.
Granted == CHOOSE l \in Limits : l > 0
Concerned ==
    {e.cust : e \in ledger' \cup UNION {row'[p] : p \in Procs}}
        \cup {c \in Customers : limit'[c] # Granted}
OneAtATime ==
    /\ Next
    /\ Cardinality({p \in Procs : pc'[p] # "idle"}) <= 1 /\ Cardinality(Concerned) <= 1
    /\ fails' > fails => nextId' <= 3

\* Overlapping requests: two entries of 4 under a limit of 5; none fails but the
\* victims of a deadlock.
Overlapping ==
    /\ Next
    /\ limit' = limit /\ fails' = fails
    /\ \A p \in Procs : \A e \in row'[p] : e.amount = 4
    /\ \A p \in Procs : pc[p] = "idle" /\ target'[p] \cup row'[p] # {} => nextId <= 2

\* Media, overlapping requests: all of one idempotency key.
SomeKey == CHOOSE k \in Keys : TRUE
Together == Media!Next /\ \A p \in Procs : key'[p] \in {"none", SomeKey}

\* Media, one request at a time, for videos of any key: more archives than one start
\* takes up.
Backlog ==
    /\ Media!Next
    /\ Cardinality({p \in Procs : request'[p] # "idle"}) <= 1
    /\ \A p \in Procs : medium'[p] = "video"

PartInit ==
    /\ Init /\ Media!Init /\ File!Init /\ Site!Init
    /\ part \in {"alone", "overlapping", "media", "backlog", "file", "site"}
    /\ limit = [c \in Customers |-> Granted]

PartNext ==
    \/ part = "alone"       /\ OneAtATime  /\ UNCHANGED <<part, mediaVars, fileVars, siteVars>>
    \/ part = "overlapping" /\ Overlapping /\ UNCHANGED <<part, mediaVars, fileVars, siteVars>>
    \/ part = "media"       /\ Together    /\ UNCHANGED <<part, vars, fileVars, siteVars>>
    \/ part = "backlog"     /\ Backlog     /\ UNCHANGED <<part, vars, fileVars, siteVars>>
    \/ part = "file"        /\ File!Next   /\ UNCHANGED <<part, vars, mediaVars, siteVars>>
    \/ part = "site"        /\ Site!Next   /\ UNCHANGED <<part, vars, mediaVars, fileVars>>
    \/ part \in {"media", "backlog", "file", "site"}         \* nothing more may come in
          /\ UNCHANGED <<part, vars, mediaVars, fileVars, siteVars>>

PartSpec == PartInit /\ [][PartNext]_<<part, vars, mediaVars, fileVars, siteVars>>

\* Requests are interchangeable, and so are customers.
Symmetry == Permutations(Procs) \cup Permutations(Customers)
-----------------------------------------------------------------------------
\* The type invariants of the parts.
TypesOK ==
    /\ part \in {"media", "backlog"} => Media!TypeOK
    /\ part = "file"  => File!TypeOK
    /\ part = "site"  => Site!TypeOK

\* MediaTask: what the upstream charges, it charges once and for a task one can find, or
\* one whose answer was lost; what is finished is stored, on its way there, or waits for
\* the next start.
MediaIsTrue == part \in {"media", "backlog"} => Media!SpendAccounted /\ Media!ArchiveKept

\* CustomerFile: the status of a customer's papers says what happened to them.
FileIsTrue == part = "file" => File!FileIsTrue

\* Provision: what is made and removed at the two sites is accounted for.
ResourcesAccounted == part = "site" => Site!ResourcesAccounted
=============================================================================

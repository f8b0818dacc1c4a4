------------------------------ MODULE Provision -----------------------------
(***************************************************************************)
(* Provisioning (service/provision_service.go): one request makes a key at *)
(* the upstream and an account of the own site that uses it, and keeps a   *)
(* record of both; another binds what exists; a third disconnects.         *)
(*                                                                         *)
(* A record is named by the operation id of the request that makes it, and *)
(* an id is not used again after its record is deleted.  A key, and the    *)
(* account that uses it, is named by the operation and the request that    *)
(* made it.                                                                *)
(***************************************************************************)
EXTENDS Naturals, FiniteSets

CONSTANTS
    Callers, Operations, Groups,
    MaxMishaps   \* bound: failed calls, lost answers, clients gone, crashes

ProvisionAssumption ==
    IsFiniteSet(Callers) /\ Operations # {} /\ Groups # {} /\ MaxMishaps \in Nat

VARIABLES
    record,      \* upstream_connections
    keys,        \* the keys at the upstream
    accounts,    \* the accounts at the own site
    linked,      \* provider_accounts

    pc, for,     \* where each request stands, and its operation
    group,       \* of a request that connects or binds
    read,        \* of one that disconnects: the record it read
    remote,      \* and whether it is to delete what is at the sites
    gone         \* requests whose client went away: their context is cancelled

VARIABLES
    made,        \* history: every key made
    known,       \* history: what people were told of, or decided to keep
    excused,     \* history: operations of which an answer was lost, an account was
                 \* made and the process died, a key could not be removed and nobody
                 \* was told, or that were disconnected while a request was at work
    mishaps

vars == <<record, keys, accounts, linked, pc, for, group, read, remote, gone,
          made, known, excused, mishaps>>
sites   == <<keys, accounts, linked>>
request == <<for, group, read, remote, gone>>
history == <<made, known, excused>>

NoResource == <<>>
SomeGroup     == CHOOSE g \in Groups : TRUE
SomeOperation == CHOOSE o \in Operations : TRUE
Resource == Operations \X Callers
Absent == [status |-> "none", group |-> SomeGroup, mode |-> "managed",
           key |-> NoResource, account |-> NoResource]

Init ==
    /\ record = [o \in Operations |-> Absent]
    /\ keys = {} /\ accounts = {} /\ linked = {}
    /\ pc = [p \in Callers |-> "idle"]
    /\ for = [p \in Callers |-> SomeOperation]
    /\ group = [p \in Callers |-> SomeGroup]
    /\ read = [p \in Callers |-> Absent]
    /\ remote = [p \in Callers |-> FALSE]
    /\ gone = {} /\ made = {} /\ known = {} /\ excused = {} /\ mishaps = 0

Exists(o) == record[o].status \notin {"none", "deleted"}
Mine(p)   == <<for[p], p>>

\* idx_upstream_conn_active: one active record for each group.
Taken(g, o) == \E x \in Operations \ {o} : record[x].status = "active" /\ record[x].group = g

Goto(p, l) == pc' = [pc EXCEPT ![p] = l]
Reset(f, p, v) == f' = [f EXCEPT ![p] = v]
Return(p) ==
    /\ Goto(p, "idle")
    /\ Reset(for, p, SomeOperation) /\ Reset(group, p, SomeGroup)
    /\ Reset(read, p, Absent) /\ Reset(remote, p, FALSE)
    /\ gone' = gone \ {p}

\* A call succeeds while the client waits for it; it fails by itself, or because the
\* client went away.
Succeeds(p) == p \notin gone /\ UNCHANGED mishaps
Fails(p) ==
    \/ p \in gone /\ UNCHANGED mishaps
    \/ p \notin gone /\ mishaps < MaxMishaps /\ mishaps' = mishaps + 1

Write(o, new) == record' = [record EXCEPT ![o] = new]
-----------------------------------------------------------------------------
(***************************************************************************)
(* Connect                                                                 *)
(***************************************************************************)
Pending(g) == [Absent EXCEPT !.status = "pending", !.group = g]

\* A known operation is answered with its record; otherwise the sites are asked for
\* sessions and for the group, which may fail before anything is written.
Start(p, l) ==
    /\ pc[p] = "idle"
    /\ \E o \in Operations, g \in Groups :
          /\ ~Exists(o) /\ record[o].status # "deleted"
          /\ Reset(for, p, o) /\ Reset(group, p, g)
    /\ Goto(p, l)
    /\ UNCHANGED <<record, sites, read, remote, gone, history, mishaps>>
Connect(p) == Start(p, "pending")

LookupFails(p) ==
    /\ pc[p] \in {"pending", "bind"}
    /\ Fails(p)
    /\ Return(p)
    /\ UNCHANGED <<record, sites, history>>

CreatePendingAnyway(p) ==
    /\ pc[p] = "pending"
    /\ Succeeds(p)
    /\ Write(for[p], Pending(group[p]))
    /\ Goto(p, "key")
    /\ UNCHANGED <<sites, request, history>>

\* The record comes first; idx_upstream_conn_operation refuses the second of one id.
CreatePending(p) ==
    /\ pc[p] = "pending"
    /\ Succeeds(p)
    /\ IF record[for[p]].status = "none"
       THEN /\ Write(for[p], Pending(group[p]))
            /\ Goto(p, "key")
            /\ UNCHANGED request
       ELSE Return(p) /\ UNCHANGED record
    /\ UNCHANGED <<sites, history>>

CreateAPIKey(p) ==
    /\ pc[p] = "key"
    /\ \/ Succeeds(p) /\ keys' = keys \cup {Mine(p)} /\ made' = made \cup {Mine(p)}
          /\ Goto(p, "keyed") /\ UNCHANGED excused
       \/ Fails(p) /\ Goto(p, "failed") /\ UNCHANGED <<keys, made, excused>>
       \/ Fails(p) /\ Goto(p, "failed")          \* its answer is lost, or names no key
          /\ keys' = keys \cup {Mine(p)} /\ made' = made \cup {Mine(p)}
          /\ excused' = excused \cup {for[p]}
    /\ UNCHANGED <<record, accounts, linked, request, known>>

\* An UPDATE of a record that is no longer there changes nothing and is no error.
Update(o, new) == IF Exists(o) THEN Write(o, new) ELSE UNCHANGED record

SetKeyCreated(p) ==
    /\ pc[p] = "keyed"
    /\ \/ Succeeds(p) /\ Update(for[p], [record[for[p]] EXCEPT !.key = Mine(p)])
       \/ Fails(p) /\ UNCHANGED record           \* the error is dropped
    /\ Goto(p, "account")
    /\ UNCHANGED <<sites, request, history>>

CreateAdminAccount(p) ==
    /\ pc[p] = "account"
    /\ \/ Succeeds(p) /\ accounts' = accounts \cup {Mine(p)} /\ Goto(p, "made")
          /\ UNCHANGED excused
       \/ Fails(p) /\ Goto(p, "undo") /\ UNCHANGED <<accounts, excused>>
       \/ Fails(p) /\ Goto(p, "undo")
          /\ accounts' = accounts \cup {Mine(p)} /\ excused' = excused \cup {for[p]}
    /\ UNCHANGED <<record, keys, linked, request, made, known>>

\* The compensation; when it fails, record and log name the key to be removed by hand.
DeleteKeyAgain(p) ==
    /\ pc[p] = "undo"
    /\ \/ Succeeds(p) /\ keys' = keys \ {Mine(p)} /\ UNCHANGED known
       \/ Fails(p) /\ known' = known \cup {Mine(p)} /\ UNCHANGED keys
    /\ Goto(p, "failed")
    /\ UNCHANGED <<record, accounts, linked, request, made, excused>>

SetFailed(p) ==
    /\ pc[p] = "failed"
    /\ \/ Succeeds(p) /\ Update(for[p], [record[for[p]] EXCEPT !.status = "failed"])
       \/ Fails(p) /\ UNCHANGED record
    /\ Return(p)
    /\ UNCHANGED <<sites, history>>

\* The index refuses a second active record of the group: the caller is told that all
\* is made and the record is not.
SetActive(p) ==
    /\ pc[p] = "made"
    /\ \/ /\ Succeeds(p) /\ ~(Exists(for[p]) /\ Taken(record[for[p]].group, for[p]))
          /\ Update(for[p], [record[for[p]] EXCEPT !.status = "active", !.account = Mine(p)])
          /\ Goto(p, "link")
          /\ UNCHANGED <<request, known>>
       \/ /\ Fails(p) \/ (Succeeds(p) /\ Exists(for[p]) /\ Taken(record[for[p]].group, for[p]))
          /\ known' = known \cup {Mine(p)}
          /\ Return(p)
          /\ UNCHANGED record
    /\ UNCHANGED <<sites, made, excused>>

LinkMany(p) ==
    /\ pc[p] = "link"
    /\ \/ Succeeds(p) /\ linked' = linked \cup {Mine(p)}
       \/ Fails(p) /\ UNCHANGED linked           \* only logged
    /\ Return(p)
    /\ UNCHANGED <<record, keys, accounts, history>>

(***************************************************************************)
(* Bind                                                                    *)
(***************************************************************************)
Bind(p) == Start(p, "bind") /\ ~Taken(group'[p], for'[p])

BindExisting(p) ==
    /\ pc[p] = "bind"
    /\ Succeeds(p)
    /\ IF record[for[p]].status = "none" /\ ~Taken(group[p], for[p])
       THEN Write(for[p], [Pending(group[p]) EXCEPT !.status = "active",
                                                  !.mode = "existing"])
       ELSE UNCHANGED record
    /\ Return(p)
    /\ UNCHANGED <<sites, history>>

(***************************************************************************)
(* Disconnect                                                              *)
(***************************************************************************)
CanDeleteRemote(r) == r.mode = "managed" /\ r.key # NoResource

Crossed(o) == IF \E q \in Callers : pc[q] # "idle" /\ for[q] = o THEN {o} ELSE {}

Disconnect(p) ==
    /\ pc[p] = "idle"
    /\ \E o \in Operations, delete \in BOOLEAN :
          /\ Exists(o)
          /\ delete => CanDeleteRemote(record[o])
          /\ Reset(for, p, o) /\ Reset(read, p, record[o]) /\ Reset(remote, p, delete)
          /\ excused' = excused \cup Crossed(o)
          /\ Goto(p, IF ~delete THEN "delete"
                     ELSE IF record[o].account = NoResource THEN "unkey" ELSE "unaccount")
    /\ UNCHANGED <<record, sites, group, gone, made, known, mishaps>>

DeleteAccountOrNot(p) ==
    /\ pc[p] = "unaccount"
    /\ \/ Succeeds(p) /\ accounts' = accounts \ {read[p].account}
       \/ Fails(p) /\ UNCHANGED accounts
    /\ Goto(p, "unkey")
    /\ UNCHANGED <<record, keys, linked, request, history>>

\* The account first: it refers to the key.  An error, also that it is gone already,
\* ends the request.
DeleteAdminAccount(p) ==
    /\ pc[p] = "unaccount"
    /\ \/ /\ Succeeds(p) /\ read[p].account \in accounts
          /\ accounts' = accounts \ {read[p].account}
          /\ Goto(p, "unkey")
          /\ UNCHANGED request
       \/ Fails(p) /\ accounts' = accounts \ {read[p].account} /\ Return(p)
       \/ (Fails(p) \/ (Succeeds(p) /\ read[p].account \notin accounts))
          /\ Return(p) /\ UNCHANGED accounts
    /\ UNCHANGED <<record, keys, linked, history>>

\* A refusal is logged.  A provider that is gone or admits nobody is passed over in
\* silence.
DeleteAPIKey(p) ==
    /\ pc[p] = "unkey"
    /\ \/ Succeeds(p) /\ keys' = keys \ {read[p].key} /\ UNCHANGED <<known, excused>>
       \/ Fails(p) /\ known' = known \cup {read[p].key} /\ UNCHANGED <<keys, excused>>
       \/ Fails(p) /\ excused' = excused \cup {for[p]} /\ UNCHANGED <<keys, known>>
    /\ Goto(p, "delete")
    /\ UNCHANGED <<record, accounts, linked, request, made>>

\* Without "remote" people keep what the record stands for.
Delete(p) ==
    /\ pc[p] = "delete"
    /\ \/ /\ Succeeds(p)
          /\ Update(for[p], [record[for[p]] EXCEPT !.status = "deleted", !.key = NoResource,
                                                   !.account = NoResource])
          /\ known' = IF remote[p] THEN known ELSE known \cup {r \in made : r[1] = for[p]}
       \/ Fails(p) /\ UNCHANGED <<record, known>>
    /\ Return(p)
    /\ UNCHANGED <<sites, made, excused>>
-----------------------------------------------------------------------------
ClientGoes(p) ==
    /\ pc[p] # "idle" /\ p \notin gone
    /\ mishaps < MaxMishaps /\ mishaps' = mishaps + 1
    /\ gone' = gone \cup {p}
    /\ UNCHANGED <<record, sites, pc, for, group, read, remote, history>>

Crash ==
    /\ \E p \in Callers : pc[p] # "idle"
    /\ mishaps < MaxMishaps /\ mishaps' = mishaps + 1
    /\ pc' = [p \in Callers |-> "idle"]
    /\ for' = [p \in Callers |-> SomeOperation]
    /\ group' = [p \in Callers |-> SomeGroup] /\ read' = [p \in Callers |-> Absent]
    /\ remote' = [p \in Callers |-> FALSE] /\ gone' = {}
    /\ excused' = excused \cup {for[p] : p \in {q \in Callers : pc[q] = "made"}}
    /\ UNCHANGED <<record, sites, made, known>>

Connecting(p) ==
    \/ Connect(p) \/ LookupFails(p) \/ CreatePending(p) \/ CreateAPIKey(p) \/ SetKeyCreated(p)
    \/ CreateAdminAccount(p) \/ DeleteKeyAgain(p) \/ SetFailed(p) \/ SetActive(p) \/ LinkMany(p)
Binding(p) == Bind(p) \/ BindExisting(p)
Disconnecting(p) ==
    Disconnect(p) \/ DeleteAdminAccount(p) \/ DeleteAPIKey(p) \/ Delete(p)

Next ==
    \/ \E p \in Callers : Connecting(p) \/ Binding(p) \/ Disconnecting(p) \/ ClientGoes(p)
    \/ Crash

Spec == Init /\ [][Next]_vars

(***************************************************************************)
(* Properties                                                              *)
(***************************************************************************)
Record ==
    [status : {"none", "pending", "active", "failed", "deleted"}, group : Groups,
     mode : {"managed", "existing"}, key : Resource \cup {NoResource},
     account : Resource \cup {NoResource}]
Places == {"idle", "pending", "bind", "key", "keyed", "account", "undo", "failed", "made", "link",
           "unaccount", "unkey", "delete"}

TypeOK ==
    /\ record \in [Operations -> Record]
    /\ made \subseteq Resource
    /\ keys \subseteq made /\ accounts \subseteq made /\ linked \subseteq made /\ known \subseteq made
    /\ pc \in [Callers -> Places] /\ for \in [Callers -> Operations]
    /\ group \in [Callers -> Groups] /\ read \in [Callers -> Record]
    /\ remote \in [Callers -> BOOLEAN]
    /\ gone \subseteq Callers /\ excused \subseteq Operations
    /\ mishaps \in 0..MaxMishaps

\* What was made at the sites and is there still has a record to be found by, or
\* people know of it.
NothingForgotten ==
    \A r \in keys \cup accounts : Exists(r[1]) \/ r \in known \/ r[1] \in excused

\* An account of the own site has its key at the upstream.
AccountsHaveKeys == \A a \in accounts : a \in keys \/ a \in known \/ a[1] \in excused

\* However often and by whomever a request is repeated, it makes one key.
OncePerOperation == \A x, y \in made : x[1] = y[1] => x = y

\* What the requests make and remove at the two sites is accounted for.
ResourcesAccounted == NothingForgotten /\ AccountsHaveKeys /\ OncePerOperation

\* While no call fails, a request that has ended has left an active record: more than
\* one account for one group is allowed (provision_service.go:88).
PendingIsRunning ==
    \A o \in Operations :
        record[o].status = "pending" => \E p \in Callers : pc[p] # "idle" /\ for[p] = o
=============================================================================

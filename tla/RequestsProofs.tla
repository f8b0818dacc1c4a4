--------------------------- MODULE RequestsProofs ---------------------------
(***************************************************************************)
(* Proofs about the parts of MCRequests, for any number of requests and    *)
(* any values of its constants: media tasks (from MediaTaskProofs), a      *)
(* customer's papers, and provisioning.                                    *)
(***************************************************************************)
EXTENDS MCRequests, TLAPS

(***************************************************************************)
(* Provisioning: the inductive invariant                                   *)
(***************************************************************************)
\* A request is on an operation from its begin to its end; it makes things from the
\* pending record on; or it takes them away.
On(p, o)   == provisioning[p] # "idle" /\ operation[p] = o
Making(p)  == provisioning[p] \in {"key", "keyed", "account", "undo", "failed", "made", "link"}
Leaving(p) == provisioning[p] \in {"unaccount", "unkey", "delete"}
Own(p)     == <<operation[p], p>>
Aside(o)   == o \in unaccounted

\* What is named by an operation was made after its record, by the one request that made
\* the record.
Begun ==
    /\ \A r \in keysMade : connection[r[1]].status # "none"
    /\ \A p \in Procs : Making(p) \/ Leaving(p) => connection[operation[p]].status # "none"
OneMaker ==
    /\ \A p, q \in Procs : Making(p) /\ Making(q) /\ operation[p] = operation[q] => p = q
    /\ \A p \in Procs : \A r \in keysMade :
           Making(p) /\ r[1] = operation[p] => r[2] = p /\ provisioning[p] # "key"

\* A record names only what its operation made.
Named ==
    \A o \in Operations :
        /\ connection[o].key # <<>> =>
               connection[o].key \in keysMade /\ connection[o].key[1] = o
        /\ connection[o].account # <<>> =>
               connection[o].account \in keysMade /\ connection[o].account[1] = o

\* Unless its operation is set aside, what is at a site has a record that is there, and an
\* account nobody was told of is in that record, or will be.
Recorded ==
    /\ \A r \in siteKeys \cup siteAccounts :
           ~Aside(r[1]) /\ r \notin toldOf => connection[r[1]].status \notin {"none", "deleted"}
    /\ \A a \in siteAccounts :
           ~Aside(a[1]) /\ a \notin toldOf =>
               \/ connection[a[1]].account = a
               \/ \E p \in Procs : provisioning[p] = "made" /\ Own(p) = a
    /\ \A p \in Procs :
           Making(p) /\ ~Aside(operation[p]) =>
               connection[operation[p]].status \notin {"none", "deleted"}

\* A request that makes an account has its key, and undoes it before there is an account.
Keyed ==
    \A p \in Procs :
        ~Aside(operation[p]) =>
            /\ provisioning[p] \in {"keyed", "account", "made"} => Own(p) \in siteKeys
            /\ provisioning[p] \in {"keyed", "account", "undo"} => Own(p) \notin siteAccounts

\* A request that disconnects is alone on the operation and has its record in hand, unless
\* the operation is set aside; the account goes before the key, and both before the record.
Alone ==
    \A p \in Procs :
        Leaving(p) /\ ~Aside(operation[p]) =>
            /\ \A q \in Procs \ {p} : ~On(q, operation[p])
            /\ connection[operation[p]] = recordRead[p]
Emptied ==
    \A p \in Procs :
        Leaving(p) /\ ~Aside(operation[p]) /\ withSites[p] =>
            /\ provisioning[p] # "unaccount" =>
                   \A a \in siteAccounts : a[1] = operation[p] => a \in toldOf
            /\ provisioning[p] = "delete" =>
                   \A k \in siteKeys : k[1] = operation[p] => k \in toldOf
\* What a request has made so far, or is to remove, was made for its operation.
InHand ==
    \A p \in Procs :
        /\ provisioning[p] \in {"keyed", "account", "undo", "made", "link"} => Own(p) \in keysMade
        /\ Leaving(p) /\ withSites[p] =>
               recordRead[p].key \in keysMade /\ recordRead[p].key[1] = operation[p]
LeavingBySites == \A p \in Procs : provisioning[p] \in {"unaccount", "unkey"} => withSites[p]

SiteInv ==
    /\ Site!TypeOK /\ Begun /\ OneMaker /\ Named /\ Recorded /\ Keyed /\ Alone /\ Emptied
    /\ InHand /\ LeavingBySites /\ Site!ResourcesAccounted

(***************************************************************************)
(* Provisioning: types                                                     *)
(***************************************************************************)
\* What a step of p leaves alone: the other requests, and what was made and told.
OnlySite(p) ==
    /\ \A q \in Procs \ {p} :
           /\ provisioning'[q] = provisioning[q] /\ operation'[q] = operation[q]
           /\ recordRead'[q] = recordRead[q] /\ withSites'[q] = withSites[q]
    /\ keysMade \subseteq keysMade' /\ toldOf \subseteq toldOf'
    /\ unaccounted \subseteq unaccounted'

SiteStep(p) == Site!Connecting(p) \/ Site!Binding(p) \/ Site!Disconnecting(p) \/ Site!ClientGoes(p)

\* Every step of a request moves no other one, and forgets nothing that was told.
LEMMA SiteMovesOne ==
    ASSUME Site!TypeOK, NEW p \in Procs, SiteStep(p)
    PROVE  OnlySite(p)
  <1> USE DEF Site!TypeOK, Site!TypeOK, OnlySite, Site!Reset, Site!Goto, Site!Return, Site!sites,
              Site!request, Site!history
  <1>1. CASE Site!Connect(p)
    BY <1>1 DEF Site!Connect, Site!Start
  <1>2. CASE Site!LookupFails(p)
    BY <1>2 DEF Site!LookupFails
  <1>3. CASE Site!CreatePending(p)
    BY <1>3 DEF Site!CreatePending
  <1>4. CASE Site!CreateAPIKey(p)
    BY <1>4 DEF Site!CreateAPIKey
  <1>5. CASE Site!SetKeyCreated(p)
    BY <1>5 DEF Site!SetKeyCreated
  <1>6. CASE Site!CreateAdminAccount(p)
    BY <1>6 DEF Site!CreateAdminAccount
  <1>7. CASE Site!DeleteKeyAgain(p)
    BY <1>7 DEF Site!DeleteKeyAgain
  <1>8. CASE Site!SetFailed(p)
    BY <1>8 DEF Site!SetFailed
  <1>9. CASE Site!SetActive(p)
    BY <1>9 DEF Site!SetActive
  <1>10. CASE Site!LinkMany(p)
    BY <1>10 DEF Site!LinkMany
  <1>11. CASE Site!Bind(p)
    BY <1>11 DEF Site!Bind, Site!Start
  <1>12. CASE Site!BindExisting(p)
    BY <1>12 DEF Site!BindExisting
  <1>13. CASE Site!Disconnect(p)
    BY <1>13 DEF Site!Disconnect
  <1>14. CASE Site!DeleteAdminAccount(p)
    BY <1>14 DEF Site!DeleteAdminAccount
  <1>15. CASE Site!DeleteAPIKey(p)
    BY <1>15 DEF Site!DeleteAPIKey
  <1>16. CASE Site!Delete(p)
    BY <1>16 DEF Site!Delete
  <1>17. CASE Site!ClientGoes(p)
    BY <1>17 DEF Site!ClientGoes
  <1> QED
    BY <1>1, <1>2, <1>3, <1>4, <1>5, <1>6, <1>7, <1>8, <1>9, <1>10, <1>11, <1>12, <1>13, <1>14,
       <1>15, <1>16, <1>17 DEF SiteStep, Site!Connecting, Site!Binding, Site!Disconnecting

\* What requests begin with, and the values their steps give, have their types.
LEMMA SiteValues ==
    ASSUME Site!ProvisionAssumption
    PROVE  /\ Site!SomeOperation \in Operations /\ Site!SomeGroup \in Groups
           /\ Site!Absent \in Site!Record
           /\ \A g \in Groups : Site!Pending(g) \in Site!Record
                                /\ [Site!Pending(g) EXCEPT !.status = "active", !.mode = "existing"]
                                       \in Site!Record
  <1>1. Site!SomeOperation \in Operations /\ Site!SomeGroup \in Groups
    BY DEF Site!ProvisionAssumption, Site!SomeOperation, Site!SomeGroup
  <1> QED
    BY <1>1 DEF Site!Absent, Site!Pending, Site!Record, Site!NoResource

\* The types of requests, of the records, and of what is at the sites.
SiteControl ==
    /\ provisioning \in [Procs -> Site!Places] /\ operation \in [Procs -> Operations]
    /\ wanted \in [Procs -> Groups] /\ recordRead \in [Procs -> Site!Record]
    /\ withSites \in [Procs -> BOOLEAN] /\ clientGone \subseteq Procs
SiteThings ==
    /\ keysMade \subseteq Site!Resource /\ unaccounted \subseteq Operations
    /\ siteKeys \subseteq keysMade /\ siteAccounts \subseteq keysMade
    /\ siteLinks \subseteq keysMade /\ toldOf \subseteq keysMade

\* The type invariant, by these groups.
LEMMA SiteTypeGroups ==
    Site!TypeOK <=> /\ SiteControl /\ SiteThings /\ mischief \in 0..MaxMischief
                    /\ connection \in [Operations -> Site!Record]
  BY DEF Site!TypeOK, SiteControl, SiteThings

\* A request that goes on or returns keeps the types of the requests.
LEMMA SiteGoes ==
    ASSUME SiteControl, NEW p \in Procs, NEW l \in Site!Places, Site!Goto(p, l),
           UNCHANGED Site!request
    PROVE  SiteControl'
  BY DEF SiteControl, Site!Goto, Site!request

\* A request that returns has nothing in hand.
LEMMA SiteReturns ==
    ASSUME Site!ProvisionAssumption, SiteControl, NEW p \in Procs, Site!Return(p)
    PROVE  SiteControl'
  BY SiteValues DEF SiteControl, Site!Goto, Site!Reset, Site!Return, Site!Places

\* Every step keeps the types of the requests.
LEMMA SiteControlKept ==
    ASSUME Site!ProvisionAssumption, SiteControl, connection \in [Operations -> Site!Record],
           NEW p \in Procs, SiteStep(p)
    PROVE  SiteControl'
  <1>0. /\ Site!SomeOperation \in Operations /\ Site!SomeGroup \in Groups
        /\ Site!Absent \in Site!Record /\ \A o \in Operations : connection[o] \in Site!Record
    BY SiteValues
  <1>01. /\ Site!SetActive(p) =>
               Site!Return(p) \/ (Site!Goto(p, "link") /\ UNCHANGED Site!request)
         /\ Site!DeleteAdminAccount(p) =>
               Site!Return(p) \/ (Site!Goto(p, "unkey") /\ UNCHANGED Site!request)
    BY DEF Site!SetActive, Site!DeleteAdminAccount, Site!request
  <1>02. Site!SetActive(p) \/ Site!DeleteAdminAccount(p) => SiteControl'
    BY <1>01, SiteGoes, SiteReturns DEF Site!Places
  <1> USE <1>0 DEF SiteControl, Site!Reset, Site!Goto, Site!Return, Site!request, Site!Places
  <1>1. ASSUME NEW l \in {"pending", "bind"}, Site!Start(p, l) PROVE SiteControl'
    BY <1>1 DEF Site!Start
  <1>2. CASE Site!LookupFails(p)
    BY <1>2 DEF Site!LookupFails
  <1>3. CASE Site!CreatePending(p)
    BY ZenonT(60), <1>3 DEF Site!CreatePending
  <1>4. CASE Site!CreateAPIKey(p)
    BY <1>4 DEF Site!CreateAPIKey
  <1>5. CASE Site!SetKeyCreated(p)
    BY <1>5 DEF Site!SetKeyCreated
  <1>6. CASE Site!CreateAdminAccount(p)
    BY <1>6 DEF Site!CreateAdminAccount
  <1>7. CASE Site!DeleteKeyAgain(p)
    BY <1>7 DEF Site!DeleteKeyAgain
  <1>8. CASE Site!SetFailed(p)
    BY <1>8 DEF Site!SetFailed
  <1>9. CASE Site!SetActive(p)
    BY <1>9, <1>02
  <1>10. CASE Site!LinkMany(p)
    BY <1>10 DEF Site!LinkMany
  <1>11. CASE Site!BindExisting(p)
    BY <1>11 DEF Site!BindExisting
  <1>12. CASE Site!Disconnect(p)
    BY <1>12 DEF Site!Disconnect
  <1>13. CASE Site!DeleteAdminAccount(p)
    BY <1>13, <1>02
  <1>14. CASE Site!DeleteAPIKey(p)
    BY <1>14 DEF Site!DeleteAPIKey
  <1>15. CASE Site!Delete(p)
    BY <1>15 DEF Site!Delete
  <1>16. CASE Site!ClientGoes(p)
    BY <1>16 DEF Site!ClientGoes
  <1> QED
    BY <1>1, <1>2, <1>3, <1>4, <1>5, <1>6, <1>7, <1>8, <1>9, <1>10, <1>11, <1>12, <1>13, <1>14,
       <1>15, <1>16
    DEF SiteStep, Site!Connecting, Site!Binding, Site!Disconnecting, Site!Connect, Site!Bind

\* Every step keeps the types of the records.
LEMMA SiteRecordsKept ==
    ASSUME Site!ProvisionAssumption, SiteControl, connection \in [Operations -> Site!Record],
           NEW p \in Procs, SiteStep(p)
    PROVE  connection' \in [Operations -> Site!Record]
  <1>0. ASSUME NEW o \in Operations, NEW new \in Site!Record,
               Site!Write(o, new) \/ Site!Update(o, new)
        PROVE  connection' \in [Operations -> Site!Record]
    BY <1>0 DEF Site!Write, Site!Update
  <1>02. \A c \in Site!Record, r \in Site!Resource :
            /\ [c EXCEPT !.key = r] \in Site!Record
            /\ [c EXCEPT !.status = "failed"] \in Site!Record
            /\ [c EXCEPT !.status = "active", !.account = r] \in Site!Record
            /\ [c EXCEPT !.status = "deleted", !.key = Site!NoResource,
                         !.account = Site!NoResource] \in Site!Record
    BY DEF Site!Record
  <1>01. /\ \A o \in Operations : connection[o] \in Site!Record
         /\ operation[p] \in Operations /\ wanted[p] \in Groups /\ Site!Mine(p) \in Site!Resource
         /\ Site!Pending(wanted[p]) \in Site!Record
         /\ [Site!Pending(wanted[p]) EXCEPT !.status = "active", !.mode = "existing"]
                \in Site!Record
    BY SiteValues DEF SiteControl, Site!Mine, Site!Resource
  <1>1. ASSUME NEW l \in {"pending", "bind"}, Site!Start(p, l)
        PROVE  connection' \in [Operations -> Site!Record]
    BY <1>1 DEF Site!Start
  <1>2. CASE Site!LookupFails(p)
    BY <1>2 DEF Site!LookupFails
  <1>3. CASE Site!CreatePending(p)
    BY <1>3, <1>0, <1>01, <1>02 DEF Site!CreatePending
  <1>4. CASE Site!CreateAPIKey(p)
    BY <1>4 DEF Site!CreateAPIKey
  <1>5. CASE Site!SetKeyCreated(p)
    BY <1>5, <1>0, <1>01, <1>02 DEF Site!SetKeyCreated
  <1>6. CASE Site!CreateAdminAccount(p)
    BY <1>6 DEF Site!CreateAdminAccount
  <1>7. CASE Site!DeleteKeyAgain(p)
    BY <1>7 DEF Site!DeleteKeyAgain
  <1>8. CASE Site!SetFailed(p)
    BY <1>8, <1>0, <1>01, <1>02 DEF Site!SetFailed
  <1>9. CASE Site!SetActive(p)
    BY <1>9, <1>0, <1>01, <1>02 DEF Site!SetActive
  <1>10. CASE Site!LinkMany(p)
    BY <1>10 DEF Site!LinkMany
  <1>11. CASE Site!BindExisting(p)
    BY <1>11, <1>0, <1>01, <1>02 DEF Site!BindExisting
  <1>12. CASE Site!Disconnect(p)
    BY <1>12 DEF Site!Disconnect
  <1>13. CASE Site!DeleteAdminAccount(p)
    BY <1>13 DEF Site!DeleteAdminAccount
  <1>14. CASE Site!DeleteAPIKey(p)
    BY <1>14 DEF Site!DeleteAPIKey
  <1>15. CASE Site!Delete(p)
    BY <1>15, <1>0, <1>01, <1>02 DEF Site!Delete
  <1>16. CASE Site!ClientGoes(p)
    BY <1>16 DEF Site!ClientGoes
  <1> QED
    BY <1>1, <1>2, <1>3, <1>4, <1>5, <1>6, <1>7, <1>8, <1>9, <1>10, <1>11, <1>12, <1>13, <1>14,
       <1>15, <1>16
    DEF SiteStep, Site!Connecting, Site!Binding, Site!Disconnecting, Site!Connect, Site!Bind

\* Every step keeps the types of what is made, and of what people know of it.
LEMMA SiteThingsKept ==
    ASSUME SiteControl, SiteThings, InHand, LeavingBySites, NEW p \in Procs, SiteStep(p)
    PROVE  SiteThings'
  <1>0. /\ operation[p] \in Operations /\ Site!Mine(p) \in Site!Resource
        /\ provisioning[p] \in {"keyed", "account", "undo", "made", "link"}
               => Site!Mine(p) \in keysMade
        /\ provisioning[p] = "unkey" => recordRead[p].key \in keysMade
    BY DEF SiteControl, Site!Mine, Site!Resource, InHand, Own, LeavingBySites, Leaving
  <1> USE <1>0 DEF SiteThings, Site!sites, Site!history
  <1>1. ASSUME NEW l \in {"pending", "bind"}, Site!Start(p, l) PROVE SiteThings'
    BY <1>1 DEF Site!Start
  <1>2. CASE Site!LookupFails(p)
    BY <1>2 DEF Site!LookupFails
  <1>3. CASE Site!CreatePending(p)
    BY <1>3 DEF Site!CreatePending
  <1>4. CASE Site!CreateAPIKey(p)
    BY <1>4 DEF Site!CreateAPIKey
  <1>5. CASE Site!SetKeyCreated(p)
    BY <1>5 DEF Site!SetKeyCreated
  <1>6. CASE Site!CreateAdminAccount(p)
    BY <1>6 DEF Site!CreateAdminAccount
  <1>7. CASE Site!DeleteKeyAgain(p)
    BY <1>7 DEF Site!DeleteKeyAgain
  <1>8. CASE Site!SetFailed(p)
    BY <1>8 DEF Site!SetFailed
  <1>9. CASE Site!SetActive(p)
    BY <1>9 DEF Site!SetActive
  <1>10. CASE Site!LinkMany(p)
    BY <1>10 DEF Site!LinkMany
  <1>11. CASE Site!BindExisting(p)
    BY <1>11 DEF Site!BindExisting
  <1>12. CASE Site!Disconnect(p)
    BY <1>12 DEF Site!Disconnect, Site!Crossed, SiteControl
  <1>13. CASE Site!DeleteAdminAccount(p)
    BY <1>13 DEF Site!DeleteAdminAccount
  <1>14. CASE Site!DeleteAPIKey(p)
    BY <1>14 DEF Site!DeleteAPIKey
  <1>15. CASE Site!Delete(p)
    BY <1>15 DEF Site!Delete
  <1>16. CASE Site!ClientGoes(p)
    BY <1>16 DEF Site!ClientGoes
  <1> QED
    BY <1>1, <1>2, <1>3, <1>4, <1>5, <1>6, <1>7, <1>8, <1>9, <1>10, <1>11, <1>12, <1>13, <1>14,
       <1>15, <1>16
    DEF SiteStep, Site!Connecting, Site!Binding, Site!Disconnecting, Site!Connect, Site!Bind

\* Every step keeps the types.
LEMMA SiteTypes ==
    ASSUME Site!ProvisionAssumption, Site!TypeOK, InHand, LeavingBySites,
           NEW p \in Procs, SiteStep(p)
    PROVE  Site!TypeOK'
  <1>0. mischief' \in 0..MaxMischief
    <2>0. mischief \in 0..MaxMischief /\ MaxMischief \in Nat
      BY SiteTypeGroups DEF Site!ProvisionAssumption
    <2> USE <2>0 DEF Site!Succeeds, Site!Fails
    <2>1. ASSUME NEW l \in {"pending", "bind"}, Site!Start(p, l) PROVE mischief' \in 0..MaxMischief
      BY <2>1 DEF Site!Start
    <2>2. CASE Site!LookupFails(p)
      BY <2>2 DEF Site!LookupFails
    <2>3. CASE Site!CreatePending(p)
      BY <2>3 DEF Site!CreatePending
    <2>4. CASE Site!CreateAPIKey(p)
      BY <2>4 DEF Site!CreateAPIKey
    <2>5. CASE Site!SetKeyCreated(p)
      BY <2>5 DEF Site!SetKeyCreated
    <2>6. CASE Site!CreateAdminAccount(p)
      BY <2>6 DEF Site!CreateAdminAccount
    <2>7. CASE Site!DeleteKeyAgain(p)
      BY <2>7 DEF Site!DeleteKeyAgain
    <2>8. CASE Site!SetFailed(p)
      BY <2>8 DEF Site!SetFailed
    <2>9. CASE Site!SetActive(p)
      BY <2>9 DEF Site!SetActive
    <2>10. CASE Site!LinkMany(p)
      BY <2>10 DEF Site!LinkMany
    <2>11. CASE Site!BindExisting(p)
      BY <2>11 DEF Site!BindExisting
    <2>12. CASE Site!Disconnect(p)
      BY <2>12 DEF Site!Disconnect
    <2>13. CASE Site!DeleteAdminAccount(p)
      BY <2>13 DEF Site!DeleteAdminAccount
    <2>14. CASE Site!DeleteAPIKey(p)
      BY <2>14 DEF Site!DeleteAPIKey
    <2>15. CASE Site!Delete(p)
      BY <2>15 DEF Site!Delete
    <2>16. CASE Site!ClientGoes(p)
      BY <2>16 DEF Site!ClientGoes
    <2> QED
      BY <2>1, <2>2, <2>3, <2>4, <2>5, <2>6, <2>7, <2>8, <2>9, <2>10, <2>11, <2>12, <2>13, <2>14,
         <2>15, <2>16
      DEF SiteStep, Site!Connecting, Site!Binding, Site!Disconnecting, Site!Connect, Site!Bind
  <1>1. SiteControl' /\ SiteThings' /\ connection' \in [Operations -> Site!Record]
    BY SiteTypeGroups, SiteControlKept, SiteRecordsKept, SiteThingsKept
  <1> QED
    BY <1>0, <1>1 DEF Site!TypeOK, SiteControl, SiteThings

(***************************************************************************)
(* Provisioning: the steps                                                 *)
(***************************************************************************)
\* What a step changes: the record of its operation, what the request itself made, and
\* nothing that has begun is as if it had not.
SiteFrame(p) ==
    /\ \A o \in Operations : o # operation[p] => connection'[o] = connection[o]
    /\ \A o \in Operations : connection[o].status # "none" => connection'[o].status # "none"
    /\ keysMade' \subseteq keysMade \cup {Own(p)}
    /\ siteKeys' \subseteq siteKeys \cup {Own(p)}
    /\ siteAccounts' \subseteq siteAccounts \cup {Own(p)}

\* Every step of a request does no more than that.
LEMMA SiteFramed ==
    ASSUME Site!TypeOK, NEW p \in Procs, SiteStep(p)
    PROVE  SiteFrame(p)
  <1>0. /\ DOMAIN connection = Operations /\ operation[p] \in Operations
        /\ \A o \in Operations : connection[o] \in Site!Record
    BY DEF Site!TypeOK
  <1>01. ASSUME NEW new, Site!Write(operation[p], new) \/ Site!Update(operation[p], new),
                new.status # "none" \/ new.status = connection[operation[p]].status
         PROVE  \A o \in Operations :
                    /\ o # operation[p] => connection'[o] = connection[o]
                    /\ connection[o].status # "none" => connection'[o].status # "none"
    BY <1>0, <1>01 DEF Site!Write, Site!Update
  <1>02. \A c \in Site!Record : \A r :
             /\ [c EXCEPT !.key = r].status = c.status
             /\ [c EXCEPT !.status = "failed"].status = "failed"
             /\ [c EXCEPT !.status = "active", !.account = r].status = "active"
             /\ [c EXCEPT !.status = "deleted", !.key = r, !.account = r].status = "deleted"
    BY DEF Site!Record
  <1>04. /\ [connection[operation[p]] EXCEPT !.key = Site!Mine(p)].status
                = connection[operation[p]].status
         /\ [connection[operation[p]] EXCEPT !.status = "active", !.account = Site!Mine(p)].status
                = "active"
    BY <1>0, <1>02
  <1>05. Site!SetKeyCreated(p) \/ Site!SetActive(p) =>
             /\ \A o \in Operations : o # operation[p] => connection'[o] = connection[o]
             /\ \A o \in Operations :
                    connection[o].status # "none" => connection'[o].status # "none"
    BY <1>0, <1>01, <1>04 DEF Site!SetKeyCreated, Site!SetActive
  <1>03. \A g : /\ Site!Pending(g).status = "pending"
                /\ [Site!Pending(g) EXCEPT !.status = "active", !.mode = "existing"].status
                       = "active"
    BY DEF Site!Pending, Site!Absent
  <1> USE <1>0 DEF SiteFrame, Own, Site!Mine, Site!sites, Site!history, Site!request
  <1>1. ASSUME NEW l \in {"pending", "bind"}, Site!Start(p, l) PROVE SiteFrame(p)
    BY <1>1 DEF Site!Start
  <1>2. CASE Site!LookupFails(p)
    BY <1>2 DEF Site!LookupFails
  <1>3. CASE Site!CreatePending(p)
    BY <1>3, <1>01, <1>02, <1>03 DEF Site!CreatePending
  <1>4. CASE Site!CreateAPIKey(p)
    BY <1>4 DEF Site!CreateAPIKey
  <1>5. CASE Site!SetKeyCreated(p)
    BY <1>5, <1>05 DEF Site!SetKeyCreated
  <1>6. CASE Site!CreateAdminAccount(p)
    BY <1>6 DEF Site!CreateAdminAccount
  <1>7. CASE Site!DeleteKeyAgain(p)
    BY <1>7 DEF Site!DeleteKeyAgain
  <1>8. CASE Site!SetFailed(p)
    BY ZenonT(60), <1>8, <1>01, <1>02, <1>03 DEF Site!SetFailed
  <1>9. CASE Site!SetActive(p)
    BY <1>9, <1>05 DEF Site!SetActive
  <1>10. CASE Site!LinkMany(p)
    BY <1>10 DEF Site!LinkMany
  <1>11. CASE Site!BindExisting(p)
    BY <1>11, <1>01, <1>02, <1>03 DEF Site!BindExisting
  <1>12. CASE Site!Disconnect(p)
    BY <1>12 DEF Site!Disconnect
  <1>13. CASE Site!DeleteAdminAccount(p)
    BY <1>13 DEF Site!DeleteAdminAccount
  <1>14. CASE Site!DeleteAPIKey(p)
    BY <1>14 DEF Site!DeleteAPIKey
  <1>15. CASE Site!Delete(p)
    BY ZenonT(60), <1>15, <1>01, <1>02, <1>03 DEF Site!Delete
  <1>16. CASE Site!ClientGoes(p)
    BY <1>16 DEF Site!ClientGoes
  <1> QED
    BY <1>1, <1>2, <1>3, <1>4, <1>5, <1>6, <1>7, <1>8, <1>9, <1>10, <1>11, <1>12, <1>13, <1>14,
       <1>15, <1>16
    DEF SiteStep, Site!Connecting, Site!Binding, Site!Disconnecting, Site!Connect, Site!Bind

\* Where a request goes: it begins to make things with a new record, which nobody had, and
\* to take things away with a record that is there.
SitePlace(p) ==
    /\ Making(p)' =>
           /\ operation'[p] = operation[p]
           /\ \/ Making(p)
              \/ /\ provisioning[p] = "pending" /\ provisioning'[p] = "key"
                 /\ connection[operation[p]].status = "none"
                 /\ connection'[operation[p]].status = "pending"
    /\ provisioning'[p] = "key" => ~Making(p) \/ provisioning[p] = "key"
    /\ Leaving(p)' =>
           \/ /\ Leaving(p) /\ operation'[p] = operation[p] /\ recordRead'[p] = recordRead[p]
              /\ withSites'[p] = withSites[p] /\ connection' = connection
           \/ Site!Disconnect(p)
    /\ keysMade' # keysMade => provisioning[p] = "key" /\ provisioning'[p] \in {"keyed", "failed"}

\* Every step of a request takes one of those ways.
LEMMA SitePlaced ==
    ASSUME Site!TypeOK, NEW p \in Procs, SiteStep(p)
    PROVE  SitePlace(p)
  <1>0. /\ DOMAIN connection = Operations /\ operation[p] \in Operations
        /\ DOMAIN provisioning = Procs /\ DOMAIN operation = Procs
        /\ DOMAIN recordRead = Procs /\ DOMAIN withSites = Procs
        /\ provisioning[p] \in Site!Places
    BY DEF Site!TypeOK
  <1>01. Site!CreatePending(p) =>
             \/ provisioning'[p] = "idle"
             \/ /\ provisioning[p] = "pending" /\ provisioning'[p] = "key"
                /\ connection[operation[p]].status = "none"
                /\ connection'[operation[p]].status = "pending"
                /\ operation'[p] = operation[p] /\ keysMade' = keysMade
    BY ZenonT(60), <1>0 DEF Site!CreatePending, Site!Write, Site!Pending, Site!Absent, Site!Goto, Site!Return,
       Site!request, Site!history
  <1> USE <1>0 DEF SitePlace, Making, Leaving, Own, Site!Mine, Site!sites, Site!history,
                   Site!request, Site!Goto, Site!Return, Site!Reset, Site!Places
  <1>1. ASSUME NEW l \in {"pending", "bind"}, Site!Start(p, l) PROVE SitePlace(p)
    BY <1>1 DEF Site!Start
  <1>2. CASE Site!LookupFails(p)
    BY <1>2 DEF Site!LookupFails
  <1>3. CASE Site!CreatePending(p)
    BY <1>3, <1>01 DEF Site!CreatePending
  <1>4. CASE Site!CreateAPIKey(p)
    BY <1>4 DEF Site!CreateAPIKey
  <1>5. CASE Site!SetKeyCreated(p)
    BY <1>5 DEF Site!SetKeyCreated
  <1>6. CASE Site!CreateAdminAccount(p)
    BY <1>6 DEF Site!CreateAdminAccount
  <1>7. CASE Site!DeleteKeyAgain(p)
    BY <1>7 DEF Site!DeleteKeyAgain
  <1>8. CASE Site!SetFailed(p)
    BY <1>8 DEF Site!SetFailed
  <1>9. CASE Site!SetActive(p)
    BY <1>9 DEF Site!SetActive
  <1>10. CASE Site!LinkMany(p)
    BY <1>10 DEF Site!LinkMany
  <1>11. CASE Site!BindExisting(p)
    BY <1>11 DEF Site!BindExisting
  <1>12. CASE Site!Disconnect(p)
    BY <1>12 DEF Site!Disconnect
  <1>13. CASE Site!DeleteAdminAccount(p)
    BY <1>13 DEF Site!DeleteAdminAccount
  <1>14. CASE Site!DeleteAPIKey(p)
    BY <1>14 DEF Site!DeleteAPIKey
  <1>15. CASE Site!Delete(p)
    BY <1>15 DEF Site!Delete
  <1>16. CASE Site!ClientGoes(p)
    BY <1>16 DEF Site!ClientGoes
  <1> QED
    BY <1>1, <1>2, <1>3, <1>4, <1>5, <1>6, <1>7, <1>8, <1>9, <1>10, <1>11, <1>12, <1>13, <1>14,
       <1>15, <1>16
    DEF SiteStep, Site!Connecting, Site!Binding, Site!Disconnecting, Site!Connect, Site!Bind

\* What a record comes to name: only what its operation made.
SiteFields(p) ==
    LET o == operation[p] IN
    /\ \/ connection'[o].key \in {connection[o].key, <<>>}
       \/ provisioning[p] = "keyed" /\ connection'[o].key = Own(p)
    /\ \/ connection'[o].account \in {connection[o].account, <<>>}
       \/ provisioning[p] = "made" /\ connection'[o].account = Own(p)

\* Every step of a request writes only those names.
LEMMA SiteFieldsNamed ==
    ASSUME Site!TypeOK, NEW p \in Procs, SiteStep(p)
    PROVE  SiteFields(p)
  <1>0. /\ DOMAIN connection = Operations /\ operation[p] \in Operations
        /\ connection[operation[p]] \in Site!Record
    BY DEF Site!TypeOK
  <1>01. \A c \in Site!Record : \A r :
             LET k == [c EXCEPT !.key = r]
                 f == [c EXCEPT !.status = "failed"]
                 a == [c EXCEPT !.status = "active", !.account = r]
                 d == [c EXCEPT !.status = "deleted", !.key = r, !.account = r]
             IN /\ k.key = r /\ k.account = c.account /\ f.key = c.key /\ f.account = c.account
                /\ a.key = c.key /\ a.account = r /\ d.key = r /\ d.account = r
    BY DEF Site!Record
  <1>02. \A g : LET b == [Site!Pending(g) EXCEPT !.status = "active", !.mode = "existing"]
                IN /\ Site!Pending(g).key = <<>> /\ Site!Pending(g).account = <<>>
                   /\ b.key = <<>> /\ b.account = <<>>
    BY DEF Site!Pending, Site!Absent, Site!NoResource
  <1>03. ASSUME NEW new, Site!Write(operation[p], new) \/ Site!Update(operation[p], new)
         PROVE  connection'[operation[p]] \in {connection[operation[p]], new}
    BY <1>0, <1>03 DEF Site!Write, Site!Update
  <1>1. CASE UNCHANGED connection
    BY <1>1 DEF SiteFields
  <1>2. CASE Site!CreatePending(p)
    BY <1>2, <1>02, <1>03 DEF Site!CreatePending, SiteFields
  <1>3. CASE Site!BindExisting(p)
    BY <1>3, <1>02, <1>03 DEF Site!BindExisting, SiteFields
  <1>4. CASE Site!SetKeyCreated(p)
    <2>1. connection'[operation[p]] \in
              {connection[operation[p]], [connection[operation[p]] EXCEPT !.key = Site!Mine(p)]}
      BY <1>4, <1>03 DEF Site!SetKeyCreated
    <2>2. LET k == [connection[operation[p]] EXCEPT !.key = Site!Mine(p)]
          IN  k.key = Site!Mine(p) /\ k.account = connection[operation[p]].account
      BY <1>0, <1>01
    <2>3. provisioning[p] = "keyed" /\ Site!Mine(p) = Own(p)
      BY <1>4 DEF Site!SetKeyCreated, Own, Site!Mine
    <2> QED
      BY <2>1, <2>2, <2>3 DEF SiteFields
  <1>5. CASE Site!SetFailed(p)
    <2>1. connection'[operation[p]] \in
              {connection[operation[p]], [connection[operation[p]] EXCEPT !.status = "failed"]}
      BY <1>5, <1>03 DEF Site!SetFailed
    <2> QED
      BY ZenonT(60), <1>0, <1>01, <2>1 DEF SiteFields
  <1>6. CASE Site!SetActive(p)
    <2>1. connection'[operation[p]] \in
              {connection[operation[p]],
               [connection[operation[p]] EXCEPT !.status = "active", !.account = Site!Mine(p)]}
      BY <1>6, <1>03 DEF Site!SetActive
    <2>2. LET a == [connection[operation[p]] EXCEPT !.status = "active", !.account = Site!Mine(p)]
          IN  a.account = Site!Mine(p) /\ a.key = connection[operation[p]].key
      BY <1>0, <1>01
    <2>3. provisioning[p] = "made" /\ Site!Mine(p) = Own(p)
      BY <1>6 DEF Site!SetActive, Own, Site!Mine
    <2> QED
      BY <2>1, <2>2, <2>3 DEF SiteFields
  <1>7. CASE Site!Delete(p)
    <2>1. connection'[operation[p]] \in
              {connection[operation[p]],
               [connection[operation[p]] EXCEPT !.status = "deleted", !.key = Site!NoResource,
                                                !.account = Site!NoResource]}
      BY <1>7, <1>03 DEF Site!Delete
    <2>2. LET d == [connection[operation[p]] EXCEPT !.status = "deleted", !.key = Site!NoResource,
                                                     !.account = Site!NoResource]
          IN  d.key = Site!NoResource /\ d.account = Site!NoResource
      BY <1>0, <1>01
    <2> QED
      BY <2>1, <2>2 DEF SiteFields, Site!NoResource
  <1> QED
    BY <1>1, <1>2, <1>3, <1>4, <1>5, <1>6, <1>7
    DEF SiteStep, Site!Connecting, Site!Binding, Site!Disconnecting, Site!Connect, Site!Bind,
        Site!Start, Site!LookupFails, Site!CreateAPIKey, Site!CreateAdminAccount,
        Site!DeleteKeyAgain, Site!LinkMany, Site!Disconnect, Site!DeleteAdminAccount,
        Site!DeleteAPIKey, Site!ClientGoes

\* A request begins with an operation that has no record, or sets aside one that others are
\* on; and stays with it to its end.
SiteBegin(p) ==
    /\ provisioning[p] = "idle" =>
           /\ connection' = connection /\ siteAccounts' = siteAccounts
           /\ \/ connection[operation'[p]].status = "none"
              \/ \A q \in Procs : On(q, operation'[p]) => operation'[p] \in unaccounted'
    /\ provisioning[p] # "idle" => provisioning'[p] = "idle" \/ operation'[p] = operation[p]

\* Every step that begins an operation, or goes on with it, is of that kind.
LEMMA SiteBegins ==
    ASSUME Site!TypeOK, NEW p \in Procs, SiteStep(p)
    PROVE  SiteBegin(p)
  <1>0. /\ DOMAIN provisioning = Procs /\ DOMAIN operation = Procs
    BY DEF Site!TypeOK
  <1> USE <1>0 DEF SiteBegin, On, Site!sites, Site!history, Site!request, Site!Goto, Site!Return,
                   Site!Reset, Site!Exists, Site!Crossed
  <1>1. ASSUME NEW l \in {"pending", "bind"}, Site!Start(p, l) PROVE SiteBegin(p)
    BY <1>1 DEF Site!Start
  <1>2. CASE Site!LookupFails(p)
    BY <1>2 DEF Site!LookupFails
  <1>3. CASE Site!CreatePending(p)
    BY <1>3 DEF Site!CreatePending
  <1>4. CASE Site!CreateAPIKey(p)
    BY <1>4 DEF Site!CreateAPIKey
  <1>5. CASE Site!SetKeyCreated(p)
    BY <1>5 DEF Site!SetKeyCreated
  <1>6. CASE Site!CreateAdminAccount(p)
    BY <1>6 DEF Site!CreateAdminAccount
  <1>7. CASE Site!DeleteKeyAgain(p)
    BY <1>7 DEF Site!DeleteKeyAgain
  <1>8. CASE Site!SetFailed(p)
    BY <1>8 DEF Site!SetFailed
  <1>9. CASE Site!SetActive(p)
    BY <1>9 DEF Site!SetActive
  <1>10. CASE Site!LinkMany(p)
    BY <1>10 DEF Site!LinkMany
  <1>11. CASE Site!BindExisting(p)
    BY <1>11 DEF Site!BindExisting
  <1>12. CASE Site!Disconnect(p)
    BY <1>12 DEF Site!Disconnect
  <1>13. CASE Site!DeleteAdminAccount(p)
    BY <1>13 DEF Site!DeleteAdminAccount
  <1>14. CASE Site!DeleteAPIKey(p)
    BY <1>14 DEF Site!DeleteAPIKey
  <1>15. CASE Site!Delete(p)
    BY <1>15 DEF Site!Delete
  <1>16. CASE Site!ClientGoes(p)
    BY <1>16 DEF Site!ClientGoes
  <1> QED
    BY <1>1, <1>2, <1>3, <1>4, <1>5, <1>6, <1>7, <1>8, <1>9, <1>10, <1>11, <1>12, <1>13, <1>14,
       <1>15, <1>16
    DEF SiteStep, Site!Connecting, Site!Binding, Site!Disconnecting, Site!Connect, Site!Bind

\* What is removed at the sites, and what comes new.
SiteChange(p) ==
    /\ \A k \in siteKeys \ siteKeys' :
           \/ provisioning[p] = "undo" /\ k = Own(p) /\ siteAccounts' = siteAccounts
           \/ provisioning[p] = "unkey" /\ k = recordRead[p].key /\ siteAccounts' = siteAccounts
    /\ \A k \in siteKeys' \ siteKeys : provisioning[p] = "key" /\ k = Own(p)
    /\ \A a \in siteAccounts' \ siteAccounts :
           /\ provisioning[p] = "account" /\ a = Own(p) /\ siteKeys' = siteKeys
           /\ provisioning'[p] = "made" \/ operation[p] \in unaccounted'
           /\ operation'[p] = operation[p] /\ connection' = connection
    /\ siteKeys' # siteKeys => connection' = connection

\* Every step that changes what is at a site is one of those.
LEMMA SiteChanges ==
    ASSUME Site!TypeOK, NEW p \in Procs, SiteStep(p)
    PROVE  SiteChange(p)
  <1>0. /\ DOMAIN provisioning = Procs /\ DOMAIN operation = Procs
    BY DEF Site!TypeOK
  <1> USE <1>0 DEF SiteChange, Own, Site!Mine, Site!sites, Site!history, Site!request, Site!Goto,
                   Site!Return, Site!Reset
  <1>1. ASSUME NEW l \in {"pending", "bind"}, Site!Start(p, l) PROVE SiteChange(p)
    BY <1>1 DEF Site!Start
  <1>2. CASE Site!LookupFails(p)
    BY <1>2 DEF Site!LookupFails
  <1>3. CASE Site!CreatePending(p)
    BY <1>3 DEF Site!CreatePending
  <1>4. CASE Site!CreateAPIKey(p)
    BY <1>4 DEF Site!CreateAPIKey
  <1>5. CASE Site!SetKeyCreated(p)
    BY <1>5 DEF Site!SetKeyCreated
  <1>6. CASE Site!CreateAdminAccount(p)
    BY <1>6 DEF Site!CreateAdminAccount
  <1>7. CASE Site!DeleteKeyAgain(p)
    BY <1>7 DEF Site!DeleteKeyAgain
  <1>8. CASE Site!SetFailed(p)
    BY <1>8 DEF Site!SetFailed
  <1>9. CASE Site!SetActive(p)
    BY <1>9 DEF Site!SetActive
  <1>10. CASE Site!LinkMany(p)
    BY <1>10 DEF Site!LinkMany
  <1>11. CASE Site!BindExisting(p)
    BY <1>11 DEF Site!BindExisting
  <1>12. CASE Site!Disconnect(p)
    BY <1>12 DEF Site!Disconnect
  <1>13. CASE Site!DeleteAdminAccount(p)
    BY <1>13 DEF Site!DeleteAdminAccount
  <1>14. CASE Site!DeleteAPIKey(p)
    BY <1>14 DEF Site!DeleteAPIKey
  <1>15. CASE Site!Delete(p)
    BY <1>15 DEF Site!Delete
  <1>16. CASE Site!ClientGoes(p)
    BY <1>16 DEF Site!ClientGoes
  <1> QED
    BY <1>1, <1>2, <1>3, <1>4, <1>5, <1>6, <1>7, <1>8, <1>9, <1>10, <1>11, <1>12, <1>13, <1>14,
       <1>15, <1>16
    DEF SiteStep, Site!Connecting, Site!Binding, Site!Disconnecting, Site!Connect, Site!Bind

\* A record ends with the request that disconnects: what it stands for was removed, or is
\* known.
SiteEnd(p) ==
    \A o \in Operations :
        connection[o].status \notin {"none", "deleted"} =>
            \/ /\ connection'[o].status \notin {"none", "deleted"}
               /\ \/ connection'[o].account = connection[o].account
                  \/ provisioning[p] = "made" /\ o = operation[p] /\ connection'[o].account = Own(p)
            \/ /\ o = operation[p] /\ provisioning[p] = "delete"
               /\ siteKeys' = siteKeys /\ siteAccounts' = siteAccounts
               /\ withSites[p] \/ {r \in keysMade : r[1] = o} \subseteq toldOf'

\* Every step that leaves a maker's place or takes a record away is one of those.
LEMMA SiteEnds ==
    ASSUME Site!TypeOK, NEW p \in Procs, SiteStep(p)
    PROVE  SiteEnd(p)
  <1>0. /\ DOMAIN connection = Operations /\ operation[p] \in Operations
        /\ connection[operation[p]] \in Site!Record
    BY DEF Site!TypeOK
  <1>1. CASE UNCHANGED connection
    BY <1>1 DEF SiteEnd
  <1>2. CASE Site!CreatePending(p)
    BY <1>0, <1>2 DEF Site!CreatePending, Site!Write, SiteEnd
  <1>3. CASE Site!BindExisting(p)
    BY <1>0, <1>3 DEF Site!BindExisting, Site!Write, SiteEnd
  <1>4. CASE Site!SetKeyCreated(p)
    <2>1. LET k == [connection[operation[p]] EXCEPT !.key = Site!Mine(p)]
          IN  /\ k.status = connection[operation[p]].status
              /\ k.account = connection[operation[p]].account
      BY <1>0 DEF Site!Record
    <2> QED
      BY <1>0, <1>4, <2>1 DEF Site!SetKeyCreated, Site!Update, Site!Write, SiteEnd
  <1>5. CASE Site!SetFailed(p)
    <2>1. LET f == [connection[operation[p]] EXCEPT !.status = "failed"]
          IN  f.status = "failed" /\ f.account = connection[operation[p]].account
      BY <1>0 DEF Site!Record
    <2> QED
      BY <1>0, <1>5, <2>1 DEF Site!SetFailed, Site!Update, Site!Write, SiteEnd
  <1>6. CASE Site!SetActive(p)
    <2>1. LET a == [connection[operation[p]] EXCEPT !.status = "active", !.account = Site!Mine(p)]
          IN  a.status = "active" /\ a.account = Site!Mine(p)
      BY <1>0 DEF Site!Record
    <2> QED
      BY <1>0, <1>6, <2>1 DEF Site!SetActive, Site!Update, Site!Write, SiteEnd, Own, Site!Mine
  <1>7. CASE Site!Delete(p)
    BY <1>0, <1>7 DEF Site!Delete, Site!Update, Site!Write, SiteEnd, Site!sites
  <1> QED
    BY <1>1, <1>2, <1>3, <1>4, <1>5, <1>6, <1>7
    DEF SiteStep, Site!Connecting, Site!Binding, Site!Disconnecting, Site!Connect, Site!Bind,
        Site!Start, Site!LookupFails, Site!CreateAPIKey, Site!CreateAdminAccount,
        Site!DeleteKeyAgain, Site!LinkMany, Site!Disconnect, Site!DeleteAdminAccount,
        Site!DeleteAPIKey, Site!ClientGoes

\* Everything a step of a request is known for.
SiteKnown(p) ==
    /\ OnlySite(p) /\ SiteFrame(p) /\ SitePlace(p) /\ SiteFields(p)
    /\ SiteBegin(p) /\ SiteChange(p) /\ SiteEnd(p)

\* Every step of a request is all of that.
LEMMA SiteStepIs ==
    ASSUME Site!TypeOK, NEW p \in Procs, SiteStep(p)
    PROVE  SiteKnown(p)
  BY SiteMovesOne, SiteFramed, SitePlaced, SiteFieldsNamed, SiteBegins, SiteChanges, SiteEnds
  DEF SiteKnown

(***************************************************************************)
(* Provisioning: what a step keeps                                         *)
(***************************************************************************)
\* What has begun has a record.
LEMMA BegunKept ==
    ASSUME Site!TypeOK, Begun, NEW p \in Procs, SiteStep(p), SiteKnown(p)
    PROVE  Begun'
  <1>0. operation[p] \in Operations /\ \A r \in keysMade : r[1] \in Operations
    BY DEF Site!TypeOK, Site!Resource
  <1> USE <1>0 DEF Begun, SiteKnown, OnlySite, SiteFrame, SitePlace
  <1>1. ASSUME NEW r \in keysMade' PROVE connection'[r[1]].status # "none"
    <2>1. CASE r \in keysMade
      BY <2>1
    <2>2. CASE r \notin keysMade
      <3>1. r = Own(p) /\ provisioning[p] = "key"
        BY <2>2
      <3>2. Making(p) /\ r[1] = operation[p]
        BY <3>1 DEF Making, Own
      <3> QED BY <3>2
    <2> QED BY <2>1, <2>2
  <1>2. ASSUME NEW q \in Procs, Making(q)' \/ Leaving(q)'
        PROVE  connection'[operation'[q]].status # "none"
    <2>1. CASE q # p
      <3>1. Making(q) \/ Leaving(q)
        BY <1>2, <2>1 DEF Making, Leaving
      <3>2. operation'[q] = operation[q] /\ operation[q] \in Operations
        BY <2>1 DEF Site!TypeOK
      <3> QED BY <3>1, <3>2
    <2>2. CASE q = p /\ Site!Disconnect(p)
      <3>1. connection' = connection /\ connection[operation'[p]].status # "none"
        BY <2>2 DEF Site!Disconnect, Site!Reset, Site!Exists, Site!TypeOK
      <3> QED BY <2>2, <3>1
    <2>3. CASE q = p /\ ~Site!Disconnect(p)
      BY <1>2, <2>3
    <2> QED BY <2>1, <2>2, <2>3
  <1> QED BY <1>1, <1>2

\* One request makes what an operation makes.
LEMMA OneMakerKept ==
    ASSUME Site!TypeOK, Begun, OneMaker, NEW p \in Procs, SiteKnown(p)
    PROVE  OneMaker'
  <1>0. operation[p] \in Operations /\ \A r \in keysMade : r[1] \in Operations
    BY DEF Site!TypeOK, Site!Resource
  <1> USE <1>0 DEF SiteKnown, OnlySite, SiteFrame, SitePlace
  <1>1. \A q \in Procs \ {p} : Making(q)' = Making(q) /\ operation'[q] = operation[q]
    BY DEF Making
  <1>2. ASSUME NEW q \in Procs \ {p}, Making(p)', Making(q), operation[q] = operation[p]
        PROVE  FALSE
    BY <1>2 DEF OneMaker, Begun
  <1>3. ASSUME NEW q \in Procs, NEW r \in keysMade', Making(q)', r[1] = operation'[q]
        PROVE  r[2] = q /\ provisioning'[q] # "key"
    <2>1. CASE r \in keysMade /\ q # p
      BY <1>1, <1>3, <2>1 DEF OneMaker
    <2>2. CASE r \in keysMade /\ q = p
      <3>1. Making(p) /\ r[1] = operation[p]
        BY <1>3, <2>2 DEF Begun
      <3> QED BY <2>2, <3>1 DEF OneMaker, Making
    <2>3. CASE r \notin keysMade
      <3>1. r = Own(p) /\ provisioning[p] = "key" /\ provisioning'[p] # "key"
        BY <2>3
      <3>2. Making(p) /\ r[1] = operation[p] /\ r[2] = p
        BY <3>1 DEF Making, Own
      <3> QED BY <1>1, <1>3, <3>1, <3>2 DEF OneMaker
    <2> QED BY <2>1, <2>2, <2>3
  <1> QED BY <1>1, <1>2, <1>3 DEF OneMaker

\* A record names what its operation made.
LEMMA NamedKept ==
    ASSUME Site!TypeOK, Named, InHand, NEW p \in Procs, SiteKnown(p)
    PROVE  Named'
  <1> USE DEF SiteKnown, OnlySite, SiteFrame, SiteFields
  <1>1. operation[p] \in Operations
    BY DEF Site!TypeOK
  <1>2. provisioning[p] \in {"keyed", "made"} => Own(p) \in keysMade' /\ Own(p)[1] = operation[p]
    BY DEF InHand, Own
  <1>3. ASSUME NEW o \in Operations \ {operation[p]}
        PROVE  connection'[o] = connection[o]
    BY <1>3
  <1> QED BY <1>1, <1>2, <1>3 DEF Named


\* What a request has in hand was made for its operation.
LEMMA InHandKept ==
    ASSUME Site!TypeOK, InHand, Named, NEW p \in Procs, SiteStep(p), SiteKnown(p)
    PROVE  InHand'
  <1>0. /\ DOMAIN provisioning = Procs /\ DOMAIN operation = Procs
        /\ DOMAIN recordRead = Procs /\ DOMAIN withSites = Procs
        /\ operation[p] \in Operations
    BY DEF Site!TypeOK
  <1>1. ASSUME NEW q \in Procs \ {p}
        PROVE  /\ provisioning'[q] \in {"keyed", "account", "undo", "made", "link"}
                      => Own(q)' \in keysMade'
               /\ Leaving(q)' /\ withSites'[q] =>
                      recordRead'[q].key \in keysMade' /\ recordRead'[q].key[1] = operation'[q]
    BY <1>1 DEF InHand, Own, Leaving, SiteKnown, OnlySite
  <1>2. provisioning'[p] \in {"keyed", "account", "undo", "made", "link"} => Own(p)' \in keysMade'
    <2>1. ASSUME provisioning'[p] \in {"keyed", "account", "undo", "made", "link"}
          PROVE  /\ operation'[p] = operation[p]
                 /\ \/ provisioning[p] \in {"keyed", "account", "undo", "made", "link"}
                    \/ Site!CreateAPIKey(p)
      <3> USE <1>0 DEF Site!Goto, Site!Return, Site!Reset, Site!request, Site!history
      <3>1. CASE Making(p) /\ ~Site!CreateAPIKey(p)
        <4>1. provisioning[p] = "key" => provisioning'[p] = "idle" \/ provisioning'[p] = "key"
          BY <3>1 DEF SiteStep, Site!Connecting, Site!Binding, Site!Disconnecting, Site!Connect,
             Site!Bind, Site!Start, Site!LookupFails, Site!CreatePending, Site!SetKeyCreated,
             Site!CreateAdminAccount, Site!DeleteKeyAgain, Site!SetFailed, Site!SetActive,
             Site!LinkMany, Site!BindExisting, Site!Disconnect, Site!DeleteAdminAccount,
             Site!DeleteAPIKey, Site!Delete, Site!ClientGoes
        <4>2. provisioning[p] = "failed" => provisioning'[p] \in {"idle", "failed"}
          BY <3>1 DEF SiteStep, Site!Connecting, Site!Binding, Site!Disconnecting, Site!Connect,
             Site!Bind, Site!Start, Site!LookupFails, Site!CreatePending, Site!SetKeyCreated,
             Site!CreateAdminAccount, Site!DeleteKeyAgain, Site!SetFailed, Site!SetActive,
             Site!LinkMany, Site!BindExisting, Site!Disconnect, Site!DeleteAdminAccount,
             Site!DeleteAPIKey, Site!Delete, Site!ClientGoes
        <4> QED
          BY <2>1, <3>1, <4>1, <4>2 DEF SiteKnown, SitePlace, Making
      <3>2. CASE ~Making(p)
        BY <2>1, <3>2 DEF SiteKnown, SitePlace, Making
      <3>3. CASE Site!CreateAPIKey(p)
        BY <3>3 DEF Site!CreateAPIKey
      <3> QED BY <3>1, <3>2, <3>3
    <2>2. Site!CreateAPIKey(p) /\ provisioning'[p] = "keyed" => Own(p) \in keysMade'
      BY <1>0 DEF Site!CreateAPIKey, Site!Goto, Own, Site!Mine
    <2>3. Site!CreateAPIKey(p) => provisioning'[p] \in {"keyed", "failed"}
      BY <1>0 DEF Site!CreateAPIKey, Site!Goto
    <2> QED
      BY <2>1, <2>2, <2>3 DEF InHand, Own, SiteKnown, OnlySite
  <1>3. Leaving(p)' /\ withSites'[p] =>
            recordRead'[p].key \in keysMade' /\ recordRead'[p].key[1] = operation'[p]
    <2>1. CASE Site!Disconnect(p)
      <3>1. PICK o \in Operations :
                /\ operation'[p] = o /\ recordRead'[p] = connection[o]
                /\ withSites'[p] => connection[o].key # <<>>
        BY <1>0, <2>1 DEF Site!Disconnect, Site!Reset, Site!CanDeleteRemote, Site!NoResource
      <3> QED
        BY <3>1 DEF Named, SiteKnown, OnlySite
    <2>2. CASE ~Site!Disconnect(p)
      BY <2>2 DEF InHand, SiteKnown, SitePlace, OnlySite
    <2> QED BY <2>1, <2>2
  <1> QED BY <1>1, <1>2, <1>3 DEF InHand

\* A request is at an account or a key only to remove it.
LEMMA LeavingBySitesKept ==
    ASSUME Site!TypeOK, LeavingBySites, NEW p \in Procs, SiteStep(p), SiteKnown(p)
    PROVE  LeavingBySites'
  <1>0. DOMAIN provisioning = Procs /\ DOMAIN withSites = Procs
    BY DEF Site!TypeOK
  <1>1. CASE Site!Disconnect(p)
    BY <1>0, <1>1 DEF Site!Disconnect, Site!Goto, Site!Reset, LeavingBySites, SiteKnown, OnlySite
  <1>2. CASE ~Site!Disconnect(p) /\ Leaving(p)' /\ provisioning'[p] # "delete"
    <2>1. provisioning[p] \in {"unaccount", "unkey"} /\ withSites'[p] = withSites[p]
      <3>1. Leaving(p) /\ withSites'[p] = withSites[p]
        BY <1>2 DEF SiteKnown, SitePlace
      <3>2. provisioning[p] = "delete" => provisioning'[p] \in {"idle", "delete"}
        BY <1>0 DEF SiteStep, Site!Connecting, Site!Binding, Site!Disconnecting, Site!Connect,
           Site!Bind, Site!Start, Site!LookupFails, Site!CreatePending, Site!CreateAPIKey,
           Site!SetKeyCreated, Site!CreateAdminAccount, Site!DeleteKeyAgain, Site!SetFailed,
           Site!SetActive, Site!LinkMany, Site!BindExisting, Site!Disconnect,
           Site!DeleteAdminAccount, Site!DeleteAPIKey, Site!Delete, Site!ClientGoes, Site!Goto,
           Site!Return
      <3> QED BY <1>2, <3>1, <3>2 DEF Leaving
    <2> QED BY <2>1 DEF LeavingBySites, SiteKnown, OnlySite
  <1>3. CASE ~(Leaving(p)' /\ provisioning'[p] # "delete")
    BY <1>3 DEF Leaving, LeavingBySites, SiteKnown, OnlySite
  <1> QED BY <1>1, <1>2, <1>3

\* Who disconnects is alone on the operation, or the operation is set aside.
LEMMA AloneKept ==
    ASSUME Site!TypeOK, Begun, Alone, NEW p \in Procs, SiteStep(p), SiteKnown(p)
    PROVE  Alone'
  <1> USE DEF SiteKnown, OnlySite
  <1>0. operation[p] \in Operations
    BY DEF Site!TypeOK
  <1>1. ASSUME NEW q \in Procs \ {p}, Leaving(q)', ~Aside(operation[q])'
        PROVE  /\ \A r \in Procs \ {q} : ~On(r, operation[q])'
               /\ connection'[operation'[q]] = recordRead'[q]
    <2>1. /\ operation'[q] = operation[q] /\ recordRead'[q] = recordRead[q]
          /\ Leaving(q) /\ ~Aside(operation[q]) /\ operation[q] \in Operations
      BY <1>1 DEF Leaving, Aside, Site!TypeOK
    <2>2. \A r \in Procs \ {q} : ~On(r, operation[q])
      BY <2>1 DEF Alone
    <2>3. ~On(p, operation[q])' /\ connection'[operation[q]] = connection[operation[q]]
      <3>1. CASE provisioning[p] = "idle"
        <4>1. connection' = connection /\ On(q, operation[q])
          BY <2>1, <3>1 DEF SiteBegin, On, Leaving
        <4>2. connection[operation[q]].status # "none"
          BY <2>1 DEF Begun
        <4>3. operation[q] \notin unaccounted'
          BY <1>1, <2>1 DEF Aside
        <4> QED BY <3>1, <4>1, <4>2, <4>3 DEF SiteBegin, On
      <3>2. CASE provisioning[p] # "idle"
        BY <2>1, <2>2, <3>2 DEF SiteBegin, SiteFrame, On
      <3> QED BY <3>1, <3>2
    <2>4. ASSUME NEW r \in Procs \ {p, q} PROVE ~On(r, operation[q])'
      BY <2>2, <2>4 DEF On
    <2> QED
      BY <2>1, <2>3, <2>4 DEF Alone, On
  <1>2. ASSUME Leaving(p)', ~Aside(operation[p])'
        PROVE  /\ \A q \in Procs \ {p} : ~On(q, operation[p])'
               /\ connection'[operation'[p]] = recordRead'[p]
    <2>1. CASE Site!Disconnect(p)
      <3>1. PICK o \in Operations :
                /\ operation'[p] = o /\ recordRead'[p] = connection[o] /\ connection' = connection
                /\ unaccounted' = unaccounted \cup Site!Crossed(o)
        BY <2>1 DEF Site!Disconnect, Site!Reset, Site!TypeOK
      <3>2. \A q \in Procs : ~On(q, o)
        BY <1>2, <3>1 DEF Aside, Site!Crossed, On
      <3> QED
        BY <3>1, <3>2 DEF On
    <2>2. CASE ~Site!Disconnect(p)
      BY <1>2, <2>2 DEF SitePlace, Alone, Aside, On
    <2> QED BY <2>1, <2>2
  <1> QED BY <1>1, <1>2 DEF Alone

\* Two requests that are on one operation, of which one disconnects: it is set aside.
LEMMA CrossingIsAside ==
    ASSUME Site!TypeOK, Alone, NEW p \in Procs, NEW q \in Procs \ {p}, Leaving(p),
           provisioning[q] # "idle", operation[q] = operation[p]
    PROVE  Aside(operation[p])
  BY DEF Alone, On

\* Who makes an account has a key, and who undoes it no account.
LEMMA KeyedKept ==
    ASSUME Site!TypeOK, OneMaker, InHand, Keyed, Alone, LeavingBySites,
           NEW p \in Procs, SiteStep(p), SiteKnown(p)
    PROVE  Keyed'
  <1> USE DEF SiteKnown, OnlySite
  <1>0. /\ DOMAIN provisioning = Procs /\ DOMAIN operation = Procs
        /\ siteAccounts \subseteq keysMade /\ operation[p] \in Operations
    BY DEF Site!TypeOK
  <1>1. ASSUME NEW q \in Procs \ {p}, ~Aside(operation[q])'
        PROVE  /\ provisioning'[q] \in {"keyed", "account", "made"} => Own(q)' \in siteKeys'
               /\ provisioning'[q] \in {"keyed", "account", "undo"} => Own(q)' \notin siteAccounts'
    <2>1. /\ operation'[q] = operation[q] /\ provisioning'[q] = provisioning[q]
          /\ Own(q)' = Own(q) /\ ~Aside(operation[q])
      BY <1>1 DEF Own, Aside
    <2>2. Own(q) # Own(p)
      BY DEF Own
    <2>3. ASSUME provisioning[q] \in {"keyed", "account", "made"} PROVE Own(q) \in siteKeys'
      <3>1. Own(q) \in siteKeys
        BY <2>1, <2>3 DEF Keyed
      <3>2. CASE provisioning[p] = "unkey" /\ Own(q) = recordRead[p].key
        <4>1. Leaving(p) /\ operation[q] = operation[p]
          <5>1. Leaving(p) /\ withSites[p]
            BY <3>2 DEF Leaving, LeavingBySites
          <5>2. recordRead[p].key[1] = operation[p]
            BY <5>1 DEF InHand
          <5>3. Own(q)[1] = operation[q]
            BY DEF Own
          <5> QED BY <3>2, <5>1, <5>2, <5>3
        <4> QED BY <2>1, <2>3, <4>1, CrossingIsAside
      <3> QED BY <2>2, <3>1, <3>2 DEF SiteChange
    <2>4. ASSUME provisioning[q] \in {"keyed", "account", "undo"} PROVE Own(q) \notin siteAccounts'
      BY <2>1, <2>2, <2>4 DEF Keyed, SiteChange
    <2> QED BY <2>1, <2>3, <2>4
  <1>2. ASSUME ~Aside(operation[p])', provisioning'[p] \in {"keyed", "account", "undo", "made"}
        PROVE  /\ provisioning'[p] \in {"keyed", "account", "made"} => Own(p)' \in siteKeys'
               /\ provisioning'[p] \in {"keyed", "account", "undo"} => Own(p)' \notin siteAccounts'
    <2>1. operation'[p] = operation[p] /\ Own(p)' = Own(p) /\ ~Aside(operation[p]) /\ Making(p)
      BY <1>2 DEF SitePlace, Making, Own, Aside
    <2>2. CASE Site!CreateAPIKey(p)
      <3>1. provisioning[p] = "key" /\ provisioning'[p] = "keyed" /\ siteAccounts' = siteAccounts
            /\ Own(p) \in siteKeys'
        BY <1>0, <1>2, <2>2 DEF Site!CreateAPIKey, Site!Goto, Own, Site!Mine
      <3>2. Own(p) \notin keysMade
        BY <2>1, <3>1 DEF OneMaker, Own
      <3> QED BY <1>0, <2>1, <3>1, <3>2
    <2>3. CASE Site!SetKeyCreated(p)
      BY <1>0, <2>1, <2>3 DEF Site!SetKeyCreated, Site!Goto, Keyed, Site!sites
    <2>4. CASE Site!CreateAdminAccount(p)
      <3>1. /\ provisioning[p] = "account" /\ provisioning'[p] \in {"made", "undo"}
            /\ siteKeys' = siteKeys
            /\ provisioning'[p] = "undo" => siteAccounts' = siteAccounts
        BY <1>0, <1>2, <2>1, <2>4 DEF Site!CreateAdminAccount, Site!Goto, Aside
      <3> QED BY <2>1, <3>1 DEF Keyed
    <2>5. CASE Site!ClientGoes(p)
      BY <2>1, <2>5 DEF Site!ClientGoes, Keyed, Site!sites
    <2>6. \/ Site!CreateAPIKey(p) \/ Site!SetKeyCreated(p) \/ Site!CreateAdminAccount(p)
          \/ Site!ClientGoes(p)
      BY <1>0, <1>2, <2>1 DEF SiteStep, Site!Connecting, Site!Binding, Site!Disconnecting,
         Site!Connect, Site!Bind, Site!Start, Site!LookupFails, Site!CreatePending,
         Site!DeleteKeyAgain, Site!SetFailed, Site!SetActive, Site!LinkMany, Site!BindExisting,
         Site!Disconnect, Site!DeleteAdminAccount, Site!DeleteAPIKey, Site!Delete, Site!Goto,
         Site!Return, Making
    <2> QED BY <2>2, <2>3, <2>4, <2>5, <2>6
  <1> QED BY <1>1, <1>2 DEF Keyed

\* What is at a site has its record, and an account is in it.
LEMMA RecordedKept ==
    ASSUME Site!TypeOK, Site!TypeOK', SiteInv, NEW p \in Procs, SiteStep(p), SiteKnown(p)
    PROVE  Recorded'
  <1> USE DEF SiteKnown, OnlySite
  <1>0. /\ operation[p] \in Operations /\ siteKeys \cup siteAccounts \subseteq keysMade
        /\ \A r \in keysMade : r[1] \in Operations
    BY DEF Site!TypeOK, Site!Resource
  <1>1. ASSUME NEW r \in siteKeys \cup siteAccounts, ~Aside(r[1])', r \notin toldOf'
        PROVE  /\ connection'[r[1]].status \notin {"none", "deleted"}
               /\ \/ connection'[r[1]].account = connection[r[1]].account
                  \/ /\ provisioning[p] = "made" /\ r[1] = operation[p]
                     /\ connection'[r[1]].account = Own(p)
               \/ r \notin siteKeys' \cup siteAccounts'
    <2>1. ~Aside(r[1]) /\ r \notin toldOf /\ r[1] \in Operations
      BY <1>0, <1>1 DEF Aside
    <2>2. connection[r[1]].status \notin {"none", "deleted"}
      BY <2>1 DEF SiteInv, Recorded
    <2>3. ASSUME /\ r[1] = operation[p] /\ provisioning[p] = "delete"
                 /\ withSites[p] \/ {k \in keysMade : k[1] = r[1]} \subseteq toldOf'
          PROVE  FALSE
      <3>1. withSites[p]
        BY <1>0, <1>1, <2>3
      <3> QED BY <2>1, <2>3, <3>1 DEF SiteInv, Emptied, Leaving
    <2> QED BY <2>1, <2>2, <2>3 DEF SiteEnd
  <1>2. ASSUME NEW r \in (siteKeys' \cup siteAccounts') \ (siteKeys \cup siteAccounts),
               ~Aside(r[1])'
        PROVE  /\ Making(p) /\ r = Own(p) /\ r[1] = operation[p] /\ connection' = connection
               /\ connection[r[1]].status \notin {"none", "deleted"}
    BY <1>2 DEF SiteChange, Making, Own, Aside, SiteInv, Recorded
  <1>3. ASSUME NEW r \in siteKeys' \cup siteAccounts', ~Aside(r[1])', r \notin toldOf'
        PROVE  connection'[r[1]].status \notin {"none", "deleted"}
    BY <1>1, <1>2, <1>3
  <1>4. ASSUME NEW a \in siteAccounts', ~Aside(a[1])', a \notin toldOf'
        PROVE  \/ connection'[a[1]].account = a
               \/ \E q \in Procs : provisioning'[q] = "made" /\ Own(q)' = a
    <2>1. CASE a \notin siteAccounts
      <3>1. a = Own(p) /\ operation'[p] = operation[p] /\ provisioning'[p] = "made"
        BY <1>4, <2>1 DEF SiteChange, Own, Aside
      <3> QED BY <3>1 DEF Own
    <2>2. CASE a \in siteAccounts /\ connection[a[1]].account = a
      <3>1. CASE provisioning[p] = "made" /\ a[1] = operation[p]
        <4>1. a = Own(p)
          <5>1. a \in keysMade /\ Own(p) \in keysMade /\ Own(p)[1] = operation[p]
            BY <1>0, <2>2, <3>1 DEF SiteInv, InHand, Own
          <5> QED
            BY <3>1, <5>1 DEF SiteInv, Site!ResourcesAccounted, Site!OncePerOperation
        <4> QED
          BY <1>1, <1>4, <2>2, <4>1
      <3> QED
        BY <1>1, <1>4, <2>2, <3>1
    <2>3. CASE a \in siteAccounts /\ connection[a[1]].account # a
      <3>1. PICK q \in Procs : provisioning[q] = "made" /\ Own(q) = a
        BY <1>4, <2>3 DEF SiteInv, Recorded, Aside
      <3>2. CASE q # p
        BY <3>1, <3>2 DEF Own
      <3>3. CASE q = p /\ Site!SetActive(p)
        <4>1. connection[operation[p]].status \notin {"none", "deleted"}
          BY <1>4, <3>1, <3>3 DEF SiteInv, Recorded, Making, Aside, Own
        <4>2. CASE connection' = [connection EXCEPT ![operation[p]] =
                       [connection[operation[p]] EXCEPT !.status = "active",
                                                       !.account = Site!Mine(p)]]
          <5>1. connection[operation[p]] \in Site!Record
            BY <1>0 DEF Site!TypeOK
          <5>2. [connection[operation[p]] EXCEPT !.status = "active",
                                               !.account = Site!Mine(p)].account = Own(p)
            BY <5>1 DEF Site!Record, Own, Site!Mine
          <5> QED
            BY <1>0, <3>1, <3>3, <4>2, <5>2 DEF Own, Site!TypeOK
        <4> QED
          BY <1>4, <3>1, <3>3, <4>1, <4>2
          DEF Site!SetActive, Site!Update, Site!Write, Site!Exists, Own, Site!Mine
      <3>4. CASE q = p /\ ~Site!SetActive(p)
        <4>1. provisioning'[p] = "made" /\ operation'[p] = operation[p]
          BY <3>1, <3>4 DEF SiteStep, Site!Connecting, Site!Binding, Site!Disconnecting,
             Site!Connect, Site!Bind, Site!Start, Site!LookupFails, Site!CreatePending,
             Site!CreateAPIKey, Site!SetKeyCreated, Site!CreateAdminAccount,
             Site!DeleteKeyAgain, Site!SetFailed, Site!LinkMany, Site!BindExisting,
             Site!Disconnect, Site!DeleteAdminAccount, Site!DeleteAPIKey, Site!Delete,
             Site!ClientGoes
        <4> QED BY <3>1, <3>4, <4>1 DEF Own
      <3> QED BY <3>2, <3>3, <3>4
    <2> QED BY <2>1, <2>2, <2>3
  <1>5. ASSUME NEW q \in Procs, Making(q)', ~Aside(operation[q])'
        PROVE  connection'[operation'[q]].status \notin {"none", "deleted"}
    <2>1. CASE q = p
      <3>1. operation'[p] = operation[p] /\ ~Aside(operation[p])
        BY <1>5, <2>1 DEF SitePlace, Aside
      <3>2. CASE Making(p)
        <4>1. connection[operation[p]].status \notin {"none", "deleted"}
          BY <3>1, <3>2 DEF SiteInv, Recorded
        <4> QED BY <1>0, <2>1, <3>1, <3>2, <4>1 DEF SiteEnd, Making
      <3> QED BY <1>5, <2>1, <3>1, <3>2 DEF SitePlace
    <2>2. CASE q # p
      <3>1. /\ Making(q) /\ operation'[q] = operation[q] /\ ~Aside(operation[q])
            /\ operation[q] \in Operations
        BY <1>5, <2>2 DEF Making, Aside, Site!TypeOK
      <3>2. connection[operation[q]].status \notin {"none", "deleted"}
        BY <3>1 DEF SiteInv, Recorded
      <3>3. ~(operation[q] = operation[p] /\ provisioning[p] = "delete")
        BY <2>2, <3>1, CrossingIsAside DEF SiteInv, Making, Leaving
      <3> QED BY <3>1, <3>2, <3>3 DEF SiteEnd
    <2> QED BY <2>1, <2>2
  <1> QED BY <1>3, <1>4, <1>5 DEF Recorded

\* Who disconnects has removed the account before the key, and both before the record.
LEMMA EmptiedKept ==
    ASSUME Site!TypeOK, SiteInv, NEW p \in Procs, SiteStep(p), SiteKnown(p)
    PROVE  Emptied'
  <1> USE DEF SiteKnown, OnlySite
  <1>0. /\ DOMAIN provisioning = Procs /\ DOMAIN operation = Procs
        /\ DOMAIN recordRead = Procs /\ DOMAIN withSites = Procs
        /\ siteKeys \cup siteAccounts \subseteq keysMade /\ operation[p] \in Operations
    BY DEF Site!TypeOK
  <1>1. ASSUME NEW q \in Procs \ {p}, Leaving(q)', ~Aside(operation[q])', withSites'[q]
        PROVE  /\ provisioning'[q] # "unaccount" =>
                      \A a \in siteAccounts' : a[1] = operation'[q] => a \in toldOf'
               /\ provisioning'[q] = "delete" =>
                      \A k \in siteKeys' : k[1] = operation'[q] => k \in toldOf'
    <2>1. /\ operation'[q] = operation[q] /\ provisioning'[q] = provisioning[q]
          /\ Leaving(q) /\ ~Aside(operation[q]) /\ withSites[q]
      BY <1>1 DEF Leaving, Aside
    <2>2. ~On(p, operation[q])
      BY <2>1 DEF SiteInv, Alone
    <2>4. /\ \A k \in siteKeys' \ siteKeys : k[1] # operation[q]
          /\ \A a \in siteAccounts' \ siteAccounts : a[1] # operation[q]
      BY <2>2 DEF SiteChange, On, Own
    <2> QED BY <2>1, <2>4 DEF SiteInv, Emptied
  <1>2. ASSUME Leaving(p)', ~Aside(operation[p])', withSites'[p]
        PROVE  /\ provisioning'[p] # "unaccount" =>
                      \A a \in siteAccounts' : a[1] = operation'[p] => a \in toldOf'
               /\ provisioning'[p] = "delete" =>
                      \A k \in siteKeys' : k[1] = operation'[p] => k \in toldOf'
    <2>1. CASE Site!Disconnect(p)
      <3>1. PICK o \in Operations :
                /\ operation'[p] = o
                /\ unaccounted' = unaccounted \cup Site!Crossed(o)
                /\ provisioning'[p] # "unaccount" => (withSites'[p] => connection[o].account = <<>>)
                /\ provisioning'[p] = "delete" => ~withSites'[p]
                /\ UNCHANGED <<siteKeys, siteAccounts, toldOf>>
        BY <1>0, <2>1 DEF Site!Disconnect, Site!Reset, Site!Goto, Site!NoResource, Site!sites
      <3>2. \A q \in Procs : ~On(q, o)
        BY <1>2, <3>1 DEF Aside, Site!Crossed, On
      <3>3. ASSUME NEW a \in siteAccounts, a[1] = o, provisioning'[p] # "unaccount"
            PROVE  a \in toldOf
        <4>1. a # <<>> /\ ~Aside(a[1])
          BY <1>0, <1>2, <3>1, <3>3 DEF Site!TypeOK, Site!Resource, Aside
        <4>2. \A q \in Procs : ~(provisioning[q] = "made" /\ Own(q) = a)
          BY <3>2, <3>3 DEF On, Own
        <4> QED BY <1>2, <3>1, <3>3, <4>1, <4>2 DEF SiteInv, Recorded
      <3> QED BY <1>2, <3>1, <3>3
    <2>2. CASE ~Site!Disconnect(p)
      <3>1. /\ Leaving(p) /\ operation'[p] = operation[p] /\ withSites[p]
            /\ ~Aside(operation[p]) /\ operation[p] \notin unaccounted'
        BY <1>2, <2>2 DEF SitePlace, Aside
      <3>2. CASE Site!DeleteAdminAccount(p)
        <4>1. /\ provisioning[p] = "unaccount" /\ provisioning'[p] = "unkey"
              /\ siteAccounts' = siteAccounts \ {recordRead[p].account}
          BY <1>0, <1>2, <3>2 DEF Site!DeleteAdminAccount, Site!Goto, Site!Return, Leaving
        <4>2. ASSUME NEW a \in siteAccounts, a[1] = operation[p], a \notin toldOf
              PROVE  a = recordRead[p].account
          <5>1. \A q \in Procs : ~(provisioning[q] = "made" /\ Own(q) = a)
            BY <3>1, <4>1, <4>2 DEF SiteInv, Alone, On, Own
          <5>2. connection[operation[p]] = recordRead[p]
            BY <3>1 DEF SiteInv, Alone
          <5> QED BY <3>1, <4>2, <5>1, <5>2 DEF SiteInv, Recorded
        <4> QED BY <3>1, <4>1, <4>2
      <3>3. CASE Site!DeleteAPIKey(p)
        <4>1. /\ provisioning[p] = "unkey" /\ provisioning'[p] = "delete"
              /\ siteAccounts' = siteAccounts
              /\ \/ siteKeys' = siteKeys \ {recordRead[p].key}
                 \/ siteKeys' = siteKeys /\ recordRead[p].key \in toldOf'
          BY <1>0, <3>1, <3>3 DEF Site!DeleteAPIKey, Site!Goto, Site!request
        <4>2. ASSUME NEW k \in siteKeys, k[1] = operation[p]
              PROVE  k = recordRead[p].key
          <5>1. recordRead[p].key \in keysMade /\ recordRead[p].key[1] = operation[p]
            BY <3>1 DEF SiteInv, InHand
          <5> QED
            BY <1>0, <4>2, <5>1 DEF SiteInv, Site!ResourcesAccounted, Site!OncePerOperation
        <4> QED BY <3>1, <4>1, <4>2 DEF SiteInv, Emptied
      <3>4. CASE Site!ClientGoes(p)
        BY <3>1, <3>4 DEF Site!ClientGoes, Site!sites, Site!history, SiteInv, Emptied
      <3>5. Site!DeleteAdminAccount(p) \/ Site!DeleteAPIKey(p) \/ Site!ClientGoes(p)
        BY <1>0, <1>2, <2>2, <3>1 DEF SiteStep, Site!Connecting, Site!Binding,
           Site!Disconnecting, Site!Connect, Site!Bind, Site!Start, Site!LookupFails,
           Site!CreatePending, Site!CreateAPIKey, Site!SetKeyCreated, Site!CreateAdminAccount,
           Site!DeleteKeyAgain, Site!SetFailed, Site!SetActive, Site!LinkMany,
           Site!BindExisting, Site!Delete, Site!Goto, Site!Return, Leaving
      <3> QED BY <3>2, <3>3, <3>4, <3>5
    <2> QED BY <2>1, <2>2
  <1> QED BY <1>1, <1>2 DEF Emptied

\* What is made and removed stays accounted for.
LEMMA AccountedKept ==
    ASSUME Site!TypeOK, SiteInv, Recorded', NEW p \in Procs, SiteStep(p), SiteKnown(p)
    PROVE  Site!ResourcesAccounted'
  <1> USE DEF SiteKnown, OnlySite
  <1>0. siteAccounts \subseteq keysMade /\ operation[p] \in Operations
    BY DEF Site!TypeOK
  <1>1. Site!NothingForgotten'
    BY DEF Recorded, Site!NothingForgotten, Site!Exists, Aside
  <1>2. ASSUME NEW a \in siteAccounts', ~Aside(a[1])', a \notin toldOf'
        PROVE  a \in siteKeys'
    <2>1. CASE a \notin siteAccounts
      <3>1. a = Own(p) /\ provisioning[p] = "account" /\ siteKeys' = siteKeys
        BY <2>1 DEF SiteChange
      <3>2. ~Aside(operation[p])
        BY <1>2, <3>1 DEF Aside, Own
      <3> QED BY <3>1, <3>2 DEF SiteInv, Keyed
    <2>2. CASE a \in siteAccounts
      <3>1. a \in siteKeys /\ ~Aside(a[1]) /\ a \notin toldOf
        BY <1>2, <2>2 DEF SiteInv, Site!ResourcesAccounted, Site!AccountsHaveKeys, Aside
      <3>2. CASE provisioning[p] = "undo" /\ a = Own(p)
        BY <2>2, <3>1, <3>2 DEF SiteInv, Keyed, Own
      <3>3. CASE provisioning[p] = "unkey" /\ a = recordRead[p].key
        <4>1. Leaving(p) /\ withSites[p]
          BY <3>3 DEF Leaving, SiteInv, LeavingBySites
        <4>2. a[1] = operation[p]
          BY <3>3, <4>1 DEF SiteInv, InHand
        <4> QED BY <2>2, <3>1, <3>3, <4>1, <4>2 DEF SiteInv, Emptied
      <3> QED BY <3>1, <3>2, <3>3 DEF SiteChange
    <2> QED BY <2>1, <2>2
  <1>3. Site!AccountsHaveKeys'
    BY <1>2 DEF Site!AccountsHaveKeys, Aside
  <1>4. Site!OncePerOperation'
    <2>1. ASSUME NEW x \in keysMade', NEW y \in keysMade', x[1] = y[1], x \notin keysMade
          PROVE  x = y
      <3>1. x = Own(p) /\ provisioning[p] = "key" /\ y \in keysMade \cup {Own(p)}
        BY <2>1 DEF SitePlace, SiteFrame
      <3>2. ASSUME y \in keysMade PROVE FALSE
        <4>1. Making(p) /\ y[1] = operation[p]
          BY <2>1, <3>1 DEF Making, Own
        <4> QED BY <3>1, <3>2, <4>1 DEF SiteInv, OneMaker
      <3> QED BY <3>1, <3>2
    <2> QED BY <2>1 DEF SiteInv, Site!ResourcesAccounted, Site!OncePerOperation
  <1> QED BY <1>1, <1>3, <1>4 DEF Site!ResourcesAccounted

\* Nothing is made yet.
LEMMA SiteInit == ASSUME Site!ProvisionAssumption, Site!Init PROVE SiteInv
  <1> USE DEF Site!Init
  <1>1. Site!TypeOK
    <2>1. SiteControl
      BY SiteValues DEF SiteControl, Site!Places
    <2>2. SiteThings /\ mischief \in 0..MaxMischief
      BY DEF SiteThings, Site!ProvisionAssumption
    <2>3. connection \in [Operations -> Site!Record]
      BY SiteValues
    <2> QED BY <2>1, <2>2, <2>3 DEF Site!TypeOK, SiteControl, SiteThings
  <1>2. Begun /\ OneMaker /\ InHand /\ LeavingBySites
    BY DEF Begun, OneMaker, InHand, LeavingBySites, Making, Leaving
  <1>3. Named
    BY DEF Named, Site!Absent, Site!NoResource
  <1>4. Recorded /\ Keyed /\ Alone /\ Emptied
    BY DEF Recorded, Keyed, Alone, Emptied, Making, Leaving
  <1>5. Site!ResourcesAccounted
    BY DEF Site!ResourcesAccounted, Site!NothingForgotten, Site!AccountsHaveKeys,
       Site!OncePerOperation
  <1> QED BY <1>1, <1>2, <1>3, <1>4, <1>5 DEF SiteInv

\* The process dies: every request is gone, and an account that is not in its record yet is
\* set aside.
LEMMA SiteCrash ==
    ASSUME Site!ProvisionAssumption, SiteInv, Site!Crash
    PROVE  SiteInv'
  <1>0. /\ provisioning' = [p \in Procs |-> "idle"] /\ connection' = connection
        /\ siteKeys' = siteKeys /\ siteAccounts' = siteAccounts /\ keysMade' = keysMade
        /\ toldOf' = toldOf /\ unaccounted \subseteq unaccounted'
        /\ \A p \in Procs : provisioning[p] = "made" => operation[p] \in unaccounted'
    BY DEF Site!Crash, Site!sites
  <1>1. Site!TypeOK'
    <2>1. SiteControl'
      BY SiteValues DEF Site!Crash, SiteControl, Site!Places
    <2>2. SiteThings'
      BY DEF SiteInv, Site!TypeOK, Site!Crash, Site!sites, SiteThings
    <2>3. mischief' \in 0..MaxMischief
      BY DEF SiteInv, Site!TypeOK, Site!Crash, Site!ProvisionAssumption
    <2>4. connection' \in [Operations -> Site!Record]
      BY <1>0 DEF SiteInv, Site!TypeOK
    <2> QED
      BY <2>1, <2>2, <2>3, <2>4 DEF Site!TypeOK, SiteControl, SiteThings
  <1>2. \A p \in Procs : ~Making(p)' /\ ~Leaving(p)' /\ provisioning'[p] = "idle"
    BY <1>0 DEF Making, Leaving
  <1>3. Begun' /\ OneMaker' /\ InHand' /\ LeavingBySites' /\ Keyed' /\ Alone' /\ Emptied'
    BY <1>0, <1>2 DEF SiteInv, Begun, OneMaker, InHand, LeavingBySites, Keyed, Alone, Emptied
  <1>4. Named'
    BY <1>0 DEF SiteInv, Named
  <1>5. Recorded'
    BY <1>0, <1>2 DEF SiteInv, Recorded, Aside, Own
  <1>6. Site!ResourcesAccounted'
    BY <1>0 DEF SiteInv, Site!ResourcesAccounted, Site!NothingForgotten, Site!AccountsHaveKeys,
       Site!OncePerOperation, Site!Exists
  <1> QED BY <1>1, <1>3, <1>4, <1>5, <1>6 DEF SiteInv

\* The induction step.
LEMMA SiteStepInv ==
    ASSUME Site!ProvisionAssumption, SiteInv, [Site!Next]_(Site!vars)
    PROVE  SiteInv'
  <1>1. ASSUME NEW p \in Procs, SiteStep(p) PROVE SiteInv'
    <2>1. Site!TypeOK' /\ SiteKnown(p)
      BY <1>1, SiteTypes, SiteStepIs DEF SiteInv
    <2>2. Begun' /\ OneMaker' /\ Named' /\ InHand' /\ LeavingBySites' /\ Alone' /\ Keyed'
      BY <1>1, <2>1, BegunKept, OneMakerKept, NamedKept, InHandKept, LeavingBySitesKept,
         AloneKept, KeyedKept DEF SiteInv
    <2>3. Recorded'
      BY <1>1, <2>1, RecordedKept DEF SiteInv
    <2>4. Emptied' /\ Site!ResourcesAccounted'
      BY <1>1, <2>1, <2>3, EmptiedKept, AccountedKept DEF SiteInv
    <2> QED BY <2>1, <2>2, <2>3, <2>4 DEF SiteInv
  <1>2. CASE UNCHANGED Site!vars
    <2> USE <1>2 DEF Site!vars, SiteInv
    <2>1. Site!TypeOK'
      BY DEF Site!TypeOK
    <2>2. Begun' /\ OneMaker' /\ Named' /\ InHand' /\ LeavingBySites'
      BY DEF Begun, OneMaker, Named, InHand, LeavingBySites, Making, Leaving, Own
    <2>3. Recorded' /\ Keyed' /\ Alone' /\ Emptied'
      BY DEF Recorded, Keyed, Alone, Emptied, Making, Leaving, Own, On, Aside
    <2>4. Site!ResourcesAccounted'
      BY DEF Site!ResourcesAccounted, Site!NothingForgotten, Site!AccountsHaveKeys,
         Site!OncePerOperation, Site!Exists
    <2> QED BY <2>1, <2>2, <2>3, <2>4
  <1> QED BY <1>1, <1>2, SiteCrash DEF Site!Next, SiteStep

(***************************************************************************)
(* A customer's papers                                                     *)
(***************************************************************************)
\* A save an approval overtook is crossed, and a rejection has its note.
FileInv ==
    /\ File!TypeOK /\ File!FileIsTrue
    /\ \A p \in Procs : filing[p] = "save" /\ file.status = "approved" => p \in crossed
    /\ file.status = "rejected" => file.note

\* Papers that are saved, by the customer or an administrator.
LEMMA FileSaved ==
    ASSUME File!TypeOK, NEW f \in Forms, NEW s \in BOOLEAN, File!UpsertKYC(f, s)
    PROVE  /\ file' \in [status : {"none", "draft", "pending", "approved", "rejected"},
                         data : SUBSET Forms, submitted : BOOLEAN, note : BOOLEAN]
           /\ file'.data = {f} /\ file'.note = file.note
           /\ file'.submitted = (s \/ file.submitted)
           /\ file'.status = IF s THEN "pending"
                             ELSE IF file.status = "none" THEN "draft" ELSE file.status
  BY DEF File!TypeOK, File!UpsertKYC

\* A verdict.
LEMMA FileJudged ==
    ASSUME File!TypeOK, NEW p \in Procs, NEW n \in BOOLEAN, NEW v \in {"approved", "rejected"},
           File!Verdict(p, v, n)
    PROVE  /\ file' \in [status : {"none", "draft", "pending", "approved", "rejected"},
                         data : SUBSET Forms, submitted : BOOLEAN, note : BOOLEAN]
           /\ file'.data = file.data /\ file'.note = n
           /\ file'.submitted = file.submitted /\ file'.status = v
  BY DEF File!TypeOK, File!Verdict

\* A call that ends leaves nothing of itself behind.
LEMMA FileReturned ==
    ASSUME File!FileAssumption, File!TypeOK, NEW p \in Procs, File!Return(p)
    PROVE  /\ filing' \in [Procs -> {"idle", "create", "check", "save", "look"}]
           /\ form' \in [Procs -> Forms] /\ submit' \in [Procs -> BOOLEAN]
           /\ shown' \in [Procs -> SUBSET Forms]
           /\ crossed' \subseteq Procs
  <1>0. File!SomeForm \in Forms
    BY DEF File!FileAssumption, File!SomeForm
  <1> QED BY <1>0 DEF File!Return, File!Goto, File!TypeOK

\* Every step keeps the types.
LEMMA FileTypes ==
    ASSUME File!FileAssumption, File!TypeOK, [File!Next]_(File!vars)
    PROVE  File!TypeOK'
  <1>0. File!SomeForm \in Forms
    BY DEF File!FileAssumption, File!SomeForm
  <1> USE <1>0 DEF File!Goto, File!Return, File!Event, File!request, File!history,
                   File!FileAssumption
  <1>1. ASSUME NEW p \in Procs, File!SaveProfile(p) PROVE File!TypeOK'
    BY <1>1 DEF File!SaveProfile, File!TypeOK
  <1>2. ASSUME NEW p \in Procs, File!EnsureCustomer(p) PROVE File!TypeOK'
    <2>1. CASE customer = "none"
      BY <1>2, <2>1 DEF File!EnsureCustomer, File!TypeOK
    <2>2. CASE customer # "none"
      <3> HIDE DEF File!Return
      <3>1. File!Return(p)
        BY <1>2, <2>2 DEF File!EnsureCustomer
      <3> QED BY <1>2, <2>2, <3>1, FileReturned DEF File!EnsureCustomer, File!TypeOK
    <2> QED BY <2>1, <2>2
  <1>3. ASSUME NEW p \in Procs, File!CheckUnlocked(p) PROVE File!TypeOK'
    <2>1. CASE file.status = "approved"
      <3> HIDE DEF File!Return
      <3>1. File!Return(p)
        BY <1>3, <2>1 DEF File!CheckUnlocked
      <3> QED BY <1>3, <2>1, <3>1, FileReturned DEF File!CheckUnlocked, File!TypeOK
    <2>2. CASE file.status # "approved"
      BY <1>3, <2>2 DEF File!CheckUnlocked, File!TypeOK
    <2> QED BY <2>1, <2>2
  <1>4. ASSUME NEW p \in Procs, File!SaveOwn(p) PROVE File!TypeOK'
    <2>1. form[p] \in Forms /\ submit[p] \in BOOLEAN
      BY DEF File!TypeOK
    <2>2. file' \in [status : {"none", "draft", "pending", "approved", "rejected"},
                     data : SUBSET Forms, submitted : BOOLEAN, note : BOOLEAN]
      BY <1>4, <2>1, FileSaved DEF File!SaveOwn, File!TypeOK
    <2> QED BY <1>4, <2>2 DEF File!SaveOwn, File!TypeOK
  <1>5. ASSUME NEW p \in Procs, File!GetKYC(p) PROVE File!TypeOK'
    BY <1>5 DEF File!GetKYC, File!TypeOK
  <1>6. ASSUME NEW p \in Procs, File!ReviewKYC(p) PROVE File!TypeOK'
    <2>1. file' \in [status : {"none", "draft", "pending", "approved", "rejected"},
                     data : SUBSET Forms, submitted : BOOLEAN, note : BOOLEAN]
      <3>1. CASE File!NoPapers
        BY <3>1 DEF File!NoPapers, File!TypeOK
      <3>2. CASE ~File!NoPapers
        BY <1>6, <3>2, FileJudged DEF File!ReviewKYC
      <3> QED BY <3>1, <3>2
    <2>2. basis' \subseteq Forms
      BY <1>6 DEF File!ReviewKYC, File!Verdict, File!NoPapers, File!TypeOK
    <2>3. crossed' \subseteq Procs /\ shown' \in [Procs -> SUBSET Forms]
          /\ filing' \in [Procs -> {"idle", "create", "check", "save", "look"}]
      BY <1>6 DEF File!ReviewKYC, File!TypeOK
    <2> QED BY <1>6, <2>1, <2>2, <2>3 DEF File!ReviewKYC, File!TypeOK
  <1>7. ASSUME NEW p \in Procs, File!Gone(p) PROVE File!TypeOK'
    BY <1>7 DEF File!Gone, File!TypeOK
  <1>8. CASE File!CreateCustomer
    BY <1>8 DEF File!CreateCustomer, File!TypeOK
  <1>9. CASE File!SetStatus
    BY <1>9 DEF File!SetStatus, File!TypeOK
  <1>10. CASE File!SaveKYC
    <2>1. PICK f \in Forms, s \in BOOLEAN :
              /\ File!UpsertKYC(f, s)
              /\ basis' = IF file.status = "approved" THEN {f} ELSE basis
      BY <1>10 DEF File!SaveKYC
    <2>2. file' \in [status : {"none", "draft", "pending", "approved", "rejected"},
                     data : SUBSET Forms, submitted : BOOLEAN, note : BOOLEAN]
      BY <2>1, FileSaved
    <2> QED BY <1>10, <2>1, <2>2 DEF File!SaveKYC, File!TypeOK
  <1>11. CASE UNCHANGED File!vars
    BY <1>11 DEF File!vars, File!TypeOK
  <1> QED
    BY <1>1, <1>2, <1>3, <1>4, <1>5, <1>6, <1>7, <1>8, <1>9, <1>10, <1>11 DEF File!Next

\* A step that touches neither the papers nor their history keeps the invariant.
LEMMA FileAside ==
    ASSUME FileInv, File!TypeOK', UNCHANGED <<file, basis, blurred>>,
           \A p \in Procs :
               filing'[p] = "save" /\ file.status = "approved" =>
                       filing[p] = "save" /\ (p \in crossed => p \in crossed')
    PROVE  FileInv'
  BY DEF FileInv, File!FileIsTrue, File!Reviewed, File!ApprovedIsFrozen,
     File!RejectionIsExplained, File!Profile

\* The induction step, one case per handler.
LEMMA FileStep ==
    ASSUME File!FileAssumption, FileInv, [File!Next]_(File!vars)
    PROVE  FileInv'
  <1>0. /\ File!TypeOK /\ File!TypeOK' /\ DOMAIN filing = Procs
        /\ file.status \in {"none", "draft", "pending", "approved", "rejected"}
    BY FileTypes DEF FileInv, File!TypeOK
  <1>1. ASSUME NEW p \in Procs,
               \/ File!SaveProfile(p) \/ File!EnsureCustomer(p) \/ File!CheckUnlocked(p)
               \/ File!GetKYC(p) \/ File!Gone(p)
        PROVE  FileInv'
    <2>1. UNCHANGED <<file, basis, blurred>>
      BY <1>1 DEF File!SaveProfile, File!EnsureCustomer, File!CheckUnlocked, File!GetKYC,
         File!Gone, File!history
    <2>2. /\ \A q \in Procs \ {p} : filing'[q] = filing[q] /\ (q \in crossed => q \in crossed')
          /\ filing'[p] = "save" => file.status # "approved"
      BY <1>0, <1>1 DEF File!SaveProfile, File!EnsureCustomer, File!CheckUnlocked, File!GetKYC,
         File!Gone, File!history, File!Goto, File!Return
    <2> QED BY <1>0, <2>1, <2>2, FileAside
  <1>2. ASSUME NEW p \in Procs, File!SaveOwn(p) PROVE FileInv'
    <2>1. /\ filing[p] = "save" /\ crossed' = crossed \ {p} /\ basis' = basis
          /\ filing' = [filing EXCEPT ![p] = "idle"]
      BY <1>2 DEF File!SaveOwn, File!Goto, File!Return
    <2>2. CASE UNCHANGED <<file, blurred>>
      BY <1>0, <2>1, <2>2, FileAside
    <2>3. CASE File!UpsertKYC(form[p], submit[p]) /\ blurred' = (blurred \/ p \in crossed)
      <3>1. form[p] \in Forms /\ submit[p] \in BOOLEAN
        BY DEF FileInv, File!TypeOK
      <3>2. /\ file'.data = {form[p]} /\ file'.note = file.note
            /\ file'.submitted = (submit[p] \/ file.submitted)
            /\ file'.status = IF submit[p] THEN "pending"
                              ELSE IF file.status = "none" THEN "draft" ELSE file.status
        BY <1>0, <2>3, <3>1, FileSaved
      <3>3. file'.status = "approved" => blurred'
        BY <2>1, <2>3, <3>2 DEF FileInv
      <3>4. File!Reviewed'
        BY <1>0, <3>1, <3>2 DEF FileInv, File!FileIsTrue, File!Reviewed, File!TypeOK
      <3>5. file'.status = "rejected" => file'.note
        BY <1>0, <3>2 DEF FileInv
      <3> QED
        BY <1>0, <2>1, <3>1, <3>2, <3>3, <3>4, <3>5
        DEF FileInv, File!FileIsTrue, File!ApprovedIsFrozen, File!RejectionIsExplained,
            File!Profile
    <2> QED BY <1>2, <2>2, <2>3 DEF File!SaveOwn
  <1>3. ASSUME NEW p \in Procs, File!ReviewKYC(p) PROVE FileInv'
    <2>1. /\ filing[p] = "look" /\ filing' = [filing EXCEPT ![p] = "idle"]
          /\ crossed' = IF file'.status = "approved" THEN {q \in Procs : filing[q] = "save"}
                        ELSE crossed
      BY <1>3 DEF File!ReviewKYC, File!Goto
    <2>2. CASE File!NoPapers
      <3>1. UNCHANGED <<file, basis, blurred>> /\ file.status = "none"
        BY <2>2 DEF File!NoPapers
      <3> QED BY <1>0, <2>1, <3>1, FileAside
    <2>3. CASE ~File!NoPapers
      <3>1. PICK v \in {"approved", "rejected"}, n \in BOOLEAN :
                File!Verdict(p, v, n) /\ (v = "rejected" => n)
        BY <1>3, <2>3 DEF File!ReviewKYC
      <3>2. /\ file'.data = file.data /\ file'.note = n /\ file'.submitted = file.submitted
            /\ file'.status = v
        BY <1>0, <3>1, FileJudged
      <3>3. v = "approved" => basis' = shown[p] /\ (~blurred' => file.data = shown[p])
        BY <3>1 DEF File!Verdict
      <3>4. File!FileIsTrue'
        BY <3>1, <3>2, <3>3 DEF File!FileIsTrue, File!Reviewed, File!ApprovedIsFrozen,
           File!RejectionIsExplained, File!Profile
      <3> QED BY <1>0, <2>1, <3>1, <3>2, <3>4 DEF FileInv
    <2> QED BY <2>2, <2>3
  <1>4. CASE File!CreateCustomer \/ File!SetStatus \/ UNCHANGED File!vars
    <2>1. UNCHANGED <<file, filing, basis, blurred, crossed>>
      BY <1>4 DEF File!CreateCustomer, File!SetStatus, File!vars, File!history
    <2> QED BY <1>0, <2>1, FileAside
  <1>5. CASE File!SaveKYC
    <2>1. PICK f \in Forms, s \in BOOLEAN :
              /\ File!UpsertKYC(f, s)
              /\ basis' = IF file.status = "approved" THEN {f} ELSE basis
      BY <1>5 DEF File!SaveKYC
    <2>2. /\ file'.data = {f} /\ file'.note = file.note
          /\ file'.submitted = (s \/ file.submitted)
          /\ file'.status = IF s THEN "pending"
                            ELSE IF file.status = "none" THEN "draft" ELSE file.status
      BY <1>0, <2>1, FileSaved
    <2>3. UNCHANGED <<filing, crossed, blurred>>
      BY <1>5 DEF File!SaveKYC
    <2>4. File!Reviewed'
      BY <1>0, <2>2 DEF FileInv, File!FileIsTrue, File!Reviewed, File!TypeOK
    <2>5. File!ApprovedIsFrozen'
      BY <1>0, <2>1, <2>2 DEF File!ApprovedIsFrozen
    <2>6. file'.status = "rejected" => file'.note
      BY <1>0, <2>2 DEF FileInv
    <2>7. \A q \in Procs : filing'[q] = "save" /\ file'.status = "approved" => q \in crossed'
      BY <1>0, <2>2, <2>3 DEF FileInv
    <2> QED
      BY <1>0, <2>2, <2>3, <2>4, <2>5, <2>6, <2>7
      DEF FileInv, File!FileIsTrue, File!RejectionIsExplained, File!Profile
  <1> QED BY <1>1, <1>2, <1>3, <1>4, <1>5 DEF File!Next

\* No papers yet.
LEMMA FileInit == ASSUME File!FileAssumption, File!Init PROVE FileInv
  <1>1. File!TypeOK
    BY DEF File!FileAssumption, File!SomeForm, File!Init, File!TypeOK, File!NoFile
  <1>2. file.status = "none" /\ ~file.submitted /\ \A p \in Procs : filing[p] = "idle"
    BY DEF File!Init, File!NoFile
  <1> QED
    BY <1>1, <1>2 DEF FileInv, File!FileIsTrue, File!Reviewed, File!ApprovedIsFrozen,
       File!RejectionIsExplained, File!Profile

(***************************************************************************)
(* The parts side by side                                                  *)
(***************************************************************************)
\* The part that runs keeps its invariant.
PartsInv ==
    /\ part \in {"media", "backlog"} => Media!IInv
    /\ part = "file"  => FileInv
    /\ part = "site"  => SiteInv

\* It holds at the start.
LEMMA PartsInit == PartInit => PartsInv
  BY PartsAssumption, Media!InitIInv, FileInit, SiteInit DEF PartInit, PartsInv

\* Every step of every part keeps it.
LEMMA PartsStep ==
    PartsInv /\ [PartNext]_<<part, vars, mediaVars, fileVars, siteVars>> => PartsInv'
  <1> SUFFICES ASSUME PartsInv, [PartNext]_<<part, vars, mediaVars, fileVars, siteVars>>
               PROVE  PartsInv'
    OBVIOUS
  <1>1. part' = part
    BY DEF PartNext
  <1>2. ASSUME part \in {"media", "backlog"} PROVE Media!IInv'
    <2>1. [Media!Next]_(Media!vars)
      BY <1>2 DEF PartNext, Together, Backlog, mediaVars, Media!vars, Media!rows, Media!requests, Media!archiver,
         Media!history
    <2> QED BY <1>2, <2>1, PartsAssumption, Media!StepIInv DEF PartsInv
  <1>3. ASSUME part = "file" PROVE FileInv'
    <2>1. [File!Next]_(File!vars)
      BY <1>3 DEF PartNext, fileVars, File!vars
    <2> QED BY <1>3, <2>1, PartsAssumption, FileStep DEF PartsInv
  <1>4. ASSUME part = "site" PROVE SiteInv'
    <2>1. [Site!Next]_(Site!vars)
      BY <1>4 DEF PartNext, siteVars, Site!vars
    <2> QED BY <1>4, <2>1, PartsAssumption, SiteStepInv DEF PartsInv
  <1> QED BY <1>1, <1>2, <1>3, <1>4 DEF PartsInv

\* Each part keeps its invariant in every reachable state.
LEMMA PartsInvariance == PartSpec => []PartsInv
  BY PartsInit, PartsStep, PTL DEF PartSpec

\* However many requests submit the same key, fail, are refused or lose their answer: the
\* upstream is charged once for a key; what it charged for has its task, which can be asked
\* after there unless an answer or the id in it was lost; and a finished video is archived,
\* on its way, or beyond what the last start could take up (service/media_service.go,
\* media_archiver.go).
THEOREM MediaHolds == PartSpec => []MediaIsTrue
  <1>1. PartsInv => MediaIsTrue
    BY DEF PartsInv, MediaIsTrue, Media!IInv, Media!Paid, Media!Archived, Media!SpendAccounted,
       Media!ArchiveKept, Media!OneTaskPerKey, Media!PaidOnce
  <1> QED BY <1>1, PartsInvariance, PTL

\* However saves, edits and reviews of a customer's papers overlap: papers that were
\* submitted stay under review until there is a verdict, and no others are; approved papers
\* are the ones the reviewer saw, unless they changed while he looked; and who is rejected
\* sees why (service/credit_kyc.go).
THEOREM FileHolds == PartSpec => []FileIsTrue
  <1>1. PartsInv => FileIsTrue
    BY DEF PartsInv, FileInv, FileIsTrue
  <1> QED BY <1>1, PartsInvariance, PTL

\* However many requests connect, bind and disconnect the groups, fail half way, lose an
\* answer or die: a key or an account that is there has its record or somebody was told, an
\* account has its key, and one operation makes one key (service/provision_service.go).
THEOREM SiteHolds == PartSpec => []ResourcesAccounted
  <1>1. PartsInv => ResourcesAccounted
    BY DEF PartsInv, SiteInv, ResourcesAccounted
  <1> QED BY <1>1, PartsInvariance, PTL

\* The type invariants of the parts (models.go, and the places of each handler).
THEOREM PartTypes == PartSpec => []TypesOK
  <1>1. PartsInv => TypesOK
    BY DEF PartsInv, SiteInv, FileInv, Media!IInv, TypesOK
  <1> QED BY <1>1, PartsInvariance, PTL
=============================================================================

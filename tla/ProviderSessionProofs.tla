------------------------ MODULE ProviderSessionProofs ------------------------
(***************************************************************************)
(* Proofs about ProviderSession for any collectors, token managers and     *)
(* bounds: no rotation of a token pair is forgotten, and, with one token   *)
(* manager, overlapping runs never present a superseded token.             *)
(***************************************************************************)
EXTENDS ProviderSession, TLAPS

(***************************************************************************)
(* The inductive invariant: where the pairs are                            *)
(***************************************************************************)
\* A pair the upstream has issued, of a generation it has reached.
Known(x) == x # NoPair => x.s <= issued /\ (gen[x.s] = 0 \/ x.g <= gen[x.s])

Issued ==
    /\ \A s \in 1..MaxSessions : s > issued => gen[s] = 0
    /\ Known(stored)
    /\ \A x \in expired : Known(x)
    /\ \A p \in Collectors : Known(copy[p]) /\ Known(got[p])

\* What the upstream just issued to a run is current, and nobody else has it.
Unshared(p) ==
    got[p] # NoPair =>
        /\ gen[got[p].s] \in {0, got[p].g}
        /\ got[p] \notin expired /\ stored # got[p]
        /\ \A q \in Collectors : copy[q] # got[p] /\ (q # p => got[q] # got[p])

\* What a run holds at each place.
InHand(p) ==
    /\ got[p] # NoPair <=> pc[p] \in {"store", "storeLogin"}
    /\ pc[p] = "storeLogin" => got[p].g = 1
    /\ pc[p] \in {"idle", "login", "loggingIn", "storeLogin"} => copy[p] = NoPair
    /\ pc[p] \in {"use", "wait", "refresh", "store", "wipe"} => copy[p] # NoPair

PairsInv ==
    /\ TypeOK /\ Issued /\ StoredIsCurrent
    /\ \A p \in Collectors : Unshared(p) /\ InHand(p)

(***************************************************************************)
(* The inductive invariant: who may present a token                        *)
(***************************************************************************)
\* Each run has the lock of its manager while it refreshes and stores.
Locked(p) == pc[p] \in {"refresh", "store"} => lock[ManagerOf[p]] = p

\* A run gives up only a pair that is past its expiry or whose session has ended.
GivenUp(p) ==
    /\ pc[p] \in {"wait", "refresh", "store"} => copy[p] \in expired \/ gen[copy[p].s] = 0
    /\ pc[p] = "wipe" => gen[copy[p].s] = 0

Superseded(x) == x # NoPair /\ gen[x.s] \notin {0, x.g} /\ x.s \notin lost

\* A run that waits with a superseded pair will find a better one, unless the row
\* was wiped.
Replaced(p) ==
    Superseded(copy[p]) =>
        /\ copy[p] \in expired
        /\ \/ Valid(stored)
           \/ stored = NoPair /\ fails > 0
           \/ \E q \in Collectors : pc[q] = "store" /\ got[q].s = copy[p].s

\* A run presents a superseded pair only if the row had nothing of its session.
Presents(p) ==
    pc[p] = "refresh" /\ Superseded(copy[p]) => fails > 0 /\ stored.s # copy[p].s

\* Sessions end, and rotations are lost, by failures.
Faults ==
    /\ lost # {} => fails > 0
    /\ \A s \in 1..issued : gen[s] = 0 => fails > 0

ReplayInv ==
    /\ PairsInv /\ Faults
    /\ Superseded(stored) => stored \in expired
    /\ \A p \in Collectors : Locked(p) /\ GivenUp(p) /\ Replaced(p) /\ Presents(p)

OneManager == \A p, q \in Collectors : ManagerOf[p] = ManagerOf[q]

-----------------------------------------------------------------------------
(***************************************************************************)
(* Types                                                                   *)
(***************************************************************************)
\* A run that returns, a failure, a session that is lost.
LEMMA ReturnTypes ==
    ASSUME TypeOK, NEW p \in Collectors, Return(p)
    PROVE  /\ pc' \in [Collectors -> {"idle", "ensure", "use", "wait", "refresh", "store",
                                     "wipe", "login", "loggingIn", "storeLogin"}]
           /\ copy' \in [Collectors -> Pair]
           /\ coolCopy' \in [Collectors -> {"none", "on", "over"}]
           /\ manual' \in [Collectors -> BOOLEAN] /\ again' \in [Collectors -> BOOLEAN]
  <1>1. NoPair \in Pair
    BY DEF Pair
  <1> QED BY <1>1 DEF TypeOK, Return, Goto

\* The count of failures keeps its bound.
LEMMA FailTypes == ASSUME SessionAssumption, TypeOK, Fail PROVE fails' \in 0..MaxFails
  BY DEF Fail, TypeOK, SessionAssumption

\* Sessions are lost by their number.
LEMMA LostTypes ==
    ASSUME SessionAssumption, TypeOK, NEW x \in Pair PROVE lost \cup {x.s} \subseteq 0..MaxSessions
  <1>1. x.s \in 0..MaxSessions
    BY DEF Pair, NoPair, SessionAssumption
  <1> QED BY <1>1 DEF TypeOK

\* What a run holds is typed, at each of its steps.
LEMMA TypesOfSteps ==
    ASSUME SessionAssumption, TypeOK, NEW p \in Collectors, Steps(p), UNCHANGED platform
    PROVE  TypeOK'
  <1> USE DEF TypeOK
  <1>0. NoPair \in Pair
    BY DEF Pair
  <1>1. CASE Load(p)
    BY <1>1 DEF Load, Goto
  <1>2. CASE Ensure(p)
    BY <1>2 DEF Ensure, Goto, siteVars
  <1>3. CASE UseSession(p)
    <2>1. CASE Return(p)
      BY <1>3, <2>1, ReturnTypes DEF UseSession
    <2>2. CASE Goto(p, "wait") /\ again' = [again EXCEPT ![p] = TRUE]
               /\ UNCHANGED <<copy, coolCopy, manual, cool>>
      BY <1>3, <2>2 DEF UseSession, Goto
    <2> QED BY <1>3, <2>1, <2>2 DEF UseSession
  <1>4. CASE TakeLock(p)
    BY <1>4, SessionAssumption DEF TakeLock, Goto, SessionAssumption
  <1>5. CASE RefreshCall(p)
    <2>1. ASSUME Rotate(copy[p]) PROVE /\ [s |-> copy[p].s, g |-> copy[p].g + 1] \in Pair
                                       /\ copy[p].g + 1 \in 0..MaxGen
      BY <2>1 DEF Rotate, Live, Pair, SessionAssumption
    <2>2. gen' \in [1..MaxSessions -> 0..MaxGen]
      <3>1. 0 \in 0..MaxGen
        BY DEF SessionAssumption
      <3> QED BY SMTT(30), <1>5, <2>1, <3>1 DEF RefreshCall, Rotate
    <2>3. got' \in [Collectors -> Pair]
      BY <1>5, <2>1 DEF RefreshCall
    <2>4. lock' \in [Managers -> Collectors \cup {None}]
      BY <1>5 DEF RefreshCall, Unlocked
    <2> QED BY <1>5, <2>2, <2>3, <2>4 DEF RefreshCall, Goto
  <1>6. CASE StorePair(p)
    BY <1>0, <1>6 DEF StorePair, Goto, Unlocked
  <1>7. CASE Wipe(p)
    BY <1>0, <1>7 DEF Wipe, Goto
  <1>8. CASE Login(p)
    BY <1>8, SessionAssumption DEF Login, Goto, SessionAssumption
  <1>9. CASE LoginRefused(p)
    BY <1>0, <1>9 DEF LoginRefused, Goto, Return, Unlocked
  <1>10. CASE LoginCall(p)
    <2>1. issued' \in 1..MaxSessions /\ issued' \in 0..MaxSessions /\ 1 \in 0..MaxGen
          /\ [s |-> issued', g |-> 1] \in Pair
      BY <1>10 DEF LoginCall, Pair, SessionAssumption
    <2> QED BY <1>10, <2>1 DEF LoginCall, Goto
  <1> QED BY <1>1, <1>2, <1>3, <1>4, <1>5, <1>6, <1>7, <1>8, <1>9, <1>10 DEF Steps

\* The failing steps of a run keep every variable in its type.
LEMMA TypesOfFailures ==
    ASSUME SessionAssumption, TypeOK, NEW p \in Collectors, Failures(p), UNCHANGED platform
    PROVE  TypeOK'
  <1> USE DEF TypeOK
  <1>0. NoPair \in Pair /\ \A x \in Pair : x.s \in 0..MaxSessions
    BY DEF Pair, NoPair, SessionAssumption
  <1>1. CASE RecheckFails(p)
    BY <1>1, FailTypes, LostTypes, SessionAssumption DEF RecheckFails, Goto, SessionAssumption
  <1>2. CASE RefreshFails(p)
    BY <1>0, <1>2, SessionAssumption
    DEF RefreshFails, Fail, Goto, Return, Unlocked, SessionAssumption
  <1>3. CASE RefreshAnswerLost(p)
    <2>1. gen' \in [1..MaxSessions -> 0..MaxGen]
      BY <1>3 DEF RefreshAnswerLost, Rotate, Live, Pair, SessionAssumption
    <2>2. lock' \in [Managers -> Collectors \cup {None}]
      BY <1>3 DEF RefreshAnswerLost, Unlocked
    <2>3. fails' \in 0..MaxFails /\ lost' \subseteq 0..MaxSessions
      BY <1>3, FailTypes, LostTypes DEF RefreshAnswerLost
    <2> QED BY <1>3, <2>1, <2>2, <2>3, ReturnTypes DEF RefreshAnswerLost
  <1>4. CASE StorePairFails(p)
    BY <1>0, <1>4, FailTypes, LostTypes DEF StorePairFails, Goto, Unlocked
  <1>5. CASE LoginFails(p)
    BY <1>0, <1>5, SessionAssumption DEF LoginFails, Fail, Goto, Return, Unlocked, SessionAssumption
  <1> QED BY <1>1, <1>2, <1>3, <1>4, <1>5 DEF Failures

\* Time, the upstream and a death of the process keep every variable in its type.
LEMMA TypesOfWorld ==
    ASSUME SessionAssumption, TypeOK, Time \/ UpstreamRevokes \/ Crash, UNCHANGED platform
    PROVE  TypeOK'
  <1> USE DEF TypeOK
  <1>0. NoPair \in Pair /\ \A x \in Pair : x.s \in 0..MaxSessions
    BY DEF Pair, NoPair, SessionAssumption
  <1>1. CASE Expire
    BY <1>1 DEF Expire, Valid, runVars
  <1>2. CASE CooldownEnds
    BY <1>2 DEF CooldownEnds
  <1>3. CASE GateOpens
    BY <1>3 DEF GateOpens, runVars
  <1>4. CASE UpstreamRevokes
    <2>1. gen' \in [1..MaxSessions -> 0..MaxGen]
      BY <1>4 DEF UpstreamRevokes, SessionAssumption
    <2> QED BY <1>4, <2>1 DEF UpstreamRevokes, Fail, runVars, SessionAssumption
  <1>5. CASE Crash
    <2>1. lost' \subseteq 0..MaxSessions
      <3>1. lost' = lost \cup ({got[p].s : p \in Collectors} \ {0})
        BY <1>5 DEF Crash
      <3>2. \A p \in Collectors : got[p].s \in 0..MaxSessions
        BY <1>0
      <3>3. {got[p].s : p \in Collectors} \subseteq 0..MaxSessions
        BY <3>2
      <3> QED BY <3>1, <3>3
    <2> QED BY <1>0, <1>5, <2>1, FailTypes DEF Crash
  <1> QED BY <1>1, <1>2, <1>3, <1>4, <1>5 DEF Time

-----------------------------------------------------------------------------
(***************************************************************************)
(* Where the pairs are                                                     *)
(***************************************************************************)
\* The fields of a pair.
LEMMA PairFields ==
    ASSUME SessionAssumption, NEW x \in Pair, x # NoPair
    PROVE  x.s \in 1..MaxSessions /\ x.g \in 1..MaxGen /\ x = [s |-> x.s, g |-> x.g]
  BY DEF Pair

\* A step of a run that neither issues nor stores a pair.
LEMMA PairsSteady ==
    ASSUME PairsInv, NEW p \in Collectors, TypeOK', InHand(p)',
           UNCHANGED <<gen, issued, expired, got>>,
           stored' \in {stored, NoPair}, lost \subseteq lost',
           \A q \in Collectors \ {p} : pc'[q] = pc[q] /\ copy'[q] = copy[q],
           copy'[p] \in {copy[p], NoPair, stored}
    PROVE  PairsInv'
  <1>1. Issued'
    <2>1. /\ Known(stored)' /\ \A x \in expired' : Known(x)'
          /\ \A q \in Collectors : Known(copy[q])' /\ Known(got[q])'
      BY DEF PairsInv, Issued, Known
    <2> QED BY <2>1 DEF PairsInv, Issued
  <1>2. StoredIsCurrent'
    BY DEF PairsInv, StoredIsCurrent, Live
  <1>3. ASSUME NEW q \in Collectors PROVE Unshared(q)'
    BY DEF PairsInv, Unshared
  <1>4. ASSUME NEW q \in Collectors PROVE InHand(q)'
    BY DEF PairsInv, InHand
  <1> QED BY <1>1, <1>2, <1>3, <1>4 DEF PairsInv

\* The steps of PairsSteady: every step of a run but the refresh, the login and the stores.
LEMMA PairsOfSteady ==
    ASSUME PairsInv, TypeOK', NEW p \in Collectors,
           \/ Load(p) \/ Ensure(p) \/ UseSession(p) \/ TakeLock(p) \/ Wipe(p)
           \/ Login(p) \/ LoginRefused(p) \/ RecheckFails(p) \/ RefreshFails(p) \/ LoginFails(p)
    PROVE  PairsInv'
  <1>1. InHand(p) /\ TypeOK
    BY DEF PairsInv
  <1>2. /\ UNCHANGED <<gen, issued, expired, got>>
        /\ lost \subseteq lost' /\ stored' \in {stored, NoPair}
    BY DEF Load, Ensure, UseSession, TakeLock, Wipe, Login, LoginRefused, RecheckFails,
           RefreshFails, LoginFails, siteVars
  <1>3. /\ \A q \in Collectors \ {p} : pc'[q] = pc[q] /\ copy'[q] = copy[q]
        /\ copy'[p] \in {copy[p], NoPair, stored}
    BY <1>1 DEF TypeOK, Goto, Return, Load, Ensure, UseSession, TakeLock, Wipe, Login,
                LoginRefused, RecheckFails, RefreshFails, LoginFails, siteVars
  <1>4. InHand(p)'
    <2>1. CASE pc'[p] = "idle" /\ copy'[p] = NoPair /\ pc[p] \notin {"store", "storeLogin"}
      BY <1>1, <1>2, <2>1 DEF InHand
    <2>2. ASSUME Return(p) PROVE pc'[p] = "idle" /\ copy'[p] = NoPair
      BY <1>1, <2>2 DEF Return, Goto, TypeOK
    <2>3. CASE LoginRefused(p) \/ RefreshFails(p) \/ LoginFails(p)
      BY <2>1, <2>2, <2>3 DEF LoginRefused, RefreshFails, LoginFails
    <2>4. CASE Load(p) \/ Ensure(p)
      BY <1>1, <1>2, <2>4 DEF Load, Ensure, Goto, TypeOK, InHand, Valid
    <2>5. CASE UseSession(p)
      <3>1. CASE Return(p)
        BY <2>1, <2>2, <2>5, <3>1 DEF UseSession
      <3>2. CASE Goto(p, "wait") /\ UNCHANGED copy
        BY <1>1, <1>2, <2>5, <3>2 DEF UseSession, Goto, TypeOK, InHand
      <3> QED BY <2>5, <3>1, <3>2 DEF UseSession
    <2>6. CASE TakeLock(p) \/ RecheckFails(p)
      BY <1>1, <1>2, <2>6 DEF TakeLock, RecheckFails, Goto, TypeOK, InHand, Valid
    <2>7. CASE Wipe(p) \/ Login(p)
      BY <1>1, <1>2, <2>7 DEF Wipe, Login, Goto, TypeOK, InHand
    <2> QED BY <2>3, <2>4, <2>5, <2>6, <2>7
  <1> QED BY <1>2, <1>3, <1>4, PairsSteady

\* What a session's generation does when the upstream rotates a pair.
LEMMA RotateIs ==
    ASSUME SessionAssumption, PairsInv, NEW x \in Pair, Known(x), Rotate(x)
    PROVE  /\ x # NoPair /\ x.s \in 1..MaxSessions /\ x.g \in 1..MaxGen /\ x.s <= issued
           /\ gen[x.s] = x.g /\ gen'[x.s] = x.g + 1
           /\ \A s \in 1..MaxSessions : s # x.s => gen'[s] = gen[s]
  <1>1. x # NoPair /\ gen[x.s] = x.g /\ gen' = [gen EXCEPT ![x.s] = x.g + 1]
    BY DEF Rotate, Live
  <1> QED BY <1>1, PairFields DEF PairsInv, TypeOK, Known

\* Every pair known stays known when generations advance or sessions end.
LEMMA KnownStays ==
    ASSUME SessionAssumption, NEW x \in Pair, Known(x), issued' \in Nat, issued \in Nat,
           issued' >= issued, gen \in [1..MaxSessions -> Nat], gen' \in [1..MaxSessions -> Nat],
           \A s \in 1..MaxSessions : s <= issued => gen'[s] = 0 \/ (gen[s] # 0 /\ gen'[s] >= gen[s])
    PROVE  Known(x)'
  <1> SUFFICES ASSUME x # NoPair PROVE x.s <= issued' /\ (gen'[x.s] = 0 \/ x.g <= gen'[x.s])
    BY DEF Known
  <1>1. x.s \in 1..MaxSessions /\ x.g \in 1..MaxGen /\ x.s <= issued
    BY PairFields DEF Known
  <1>2. x.g \in Nat /\ gen[x.s] \in Nat /\ gen'[x.s] \in Nat /\ x.s \in Nat
    BY <1>1 DEF SessionAssumption
  <1> QED BY <1>1, <1>2 DEF Known

\* Sessions may end: nothing becomes known, shared or forgotten by that.
LEMMA SessionsEnd ==
    ASSUME SessionAssumption, PairsInv, TypeOK', NEW p \in Collectors,
           UNCHANGED <<stored, issued, expired, copy, got, lost>>,
           \A s \in 1..MaxSessions : gen'[s] = 0 \/ gen'[s] = gen[s],
           \A q \in Collectors \ {p} : pc'[q] = pc[q],
           pc'[p] = pc[p] \/ (pc[p] = "refresh" /\ pc'[p] = "wipe")
    PROVE  PairsInv'
  <1>1. /\ stored \in Pair /\ Known(stored) /\ expired \subseteq Pair /\ \A z \in expired : Known(z)
        /\ \A q \in Collectors : /\ copy[q] \in Pair /\ Known(copy[q])
                                 /\ got[q] \in Pair /\ Known(got[q])
    BY DEF PairsInv, TypeOK, Issued
  <1>2. ASSUME NEW z \in Pair, z # NoPair PROVE gen'[z.s] = 0 \/ gen'[z.s] = gen[z.s]
    BY <1>2, PairFields
  <1>3. ASSUME NEW z \in Pair, Known(z) PROVE Known(z)'
    BY <1>2, <1>3 DEF Known
  <1>4. Issued'
    <2>1. \A s \in 1..MaxSessions : s > issued' => gen'[s] = 0
      BY DEF PairsInv, Issued
    <2>2. \A z \in expired : Known(z)'
      BY <1>1, <1>3
    <2>3. \A q \in Collectors : Known(copy[q])' /\ Known(got[q])'
      BY <1>1, <1>3 DEF Known
    <2>4. Known(stored)'
      BY <1>1, <1>3 DEF Known
    <2> QED BY <2>1, <2>2, <2>3, <2>4 DEF Issued
  <1>5. StoredIsCurrent'
    BY <1>1, <1>2 DEF PairsInv, StoredIsCurrent, Live
  <1>6. ASSUME NEW q \in Collectors PROVE Unshared(q)' /\ InHand(q)'
    BY <1>1, <1>2 DEF PairsInv, Unshared, InHand
  <1> QED BY <1>4, <1>5, <1>6 DEF PairsInv

\* A refresh: the site rotates the pair and the run holds the new one alone, or the
\* token is refused or replayed and the session ends.
LEMMA PairsOfRefresh ==
    ASSUME SessionAssumption, PairsInv, TypeOK', NEW p \in Collectors, RefreshCall(p)
    PROVE  PairsInv'
  <1>1. /\ TypeOK /\ InHand(p) /\ pc[p] = "refresh" /\ copy[p] \in Pair /\ copy[p] # NoPair
        /\ got[p] = NoPair /\ Known(copy[p])
    BY DEF PairsInv, RefreshCall, InHand, TypeOK, Issued
  <1>2. UNCHANGED <<stored, issued, expired, copy, lost>>
    BY DEF RefreshCall
  <1>3. CASE Rotate(copy[p])
    <2>0. PICK x \in Pair : x = copy[p]
      BY <1>1
    <2>1. /\ x.s \in 1..MaxSessions /\ x.g \in 1..MaxGen /\ x.s <= issued
          /\ gen[x.s] = x.g /\ gen'[x.s] = x.g + 1
          /\ \A s \in 1..MaxSessions : s # x.s => gen'[s] = gen[s]
      BY <1>1, <1>3, <2>0, RotateIs
    <2>2. PICK y \in Pair : y = [s |-> x.s, g |-> x.g + 1] /\ got' = [got EXCEPT ![p] = y]
      <3>1. got' = [got EXCEPT ![p] = [s |-> x.s, g |-> x.g + 1]]
        BY <1>3, <2>0 DEF RefreshCall, Rotate
      <3>2. [s |-> x.s, g |-> x.g + 1] \in Pair
        BY <1>3, <2>0, <2>1 DEF Rotate, Pair, SessionAssumption
      <3> QED BY <3>1, <3>2
    <2>10. Goto(p, "store")
      BY <1>3 DEF RefreshCall, Rotate
    <2>3. /\ got'[p] = y /\ pc'[p] = "store" /\ y # NoPair /\ y.s = x.s /\ y.g = x.g + 1
          /\ \A q \in Collectors \ {p} : got'[q] = got[q] /\ pc'[q] = pc[q]
      BY <1>1, <2>1, <2>2, <2>10 DEF TypeOK, Goto, NoPair
    <2>11. x.g \in Nat \ {0}
      BY <2>1 DEF SessionAssumption
    <2>4. ASSUME NEW z \in Pair, Known(z) PROVE z # y /\ Known(z)'
      <3>1. z # y
        BY <2>1, <2>3, <2>4 DEF Known
      <3>2. /\ gen \in [1..MaxSessions -> Nat] /\ gen' \in [1..MaxSessions -> Nat]
            /\ issued \in Nat /\ issued' = issued
        BY <1>1, <1>2 DEF TypeOK, SessionAssumption
      <3>3. \A s \in 1..MaxSessions : gen'[s] = 0 \/ (gen[s] # 0 /\ gen'[s] >= gen[s])
        BY <2>1, <3>2, <2>11
      <3>4. Known(z)'
        BY <2>4, <3>2, <3>3, KnownStays
      <3> QED BY <3>1, <3>4
    <2>5. /\ stored \in Pair /\ Known(stored)
          /\ expired \subseteq Pair /\ \A z \in expired : Known(z)
          /\ \A q \in Collectors : /\ copy[q] \in Pair /\ Known(copy[q])
                                   /\ got[q] \in Pair /\ Known(got[q])
      BY DEF PairsInv, TypeOK, Issued
    <2>6. Issued'
      <3>1. \A s \in 1..MaxSessions : s > issued' => gen'[s] = 0
        BY <1>2, <2>1 DEF PairsInv, Issued, TypeOK
      <3>2. Known(y)'
        BY <1>2, <2>1, <2>3 DEF Known
      <3>3. \A q \in Collectors : Known(got[q])'
        BY <2>3, <2>4, <2>5, <3>2 DEF Known
      <3> QED BY <1>2, <2>4, <2>5, <3>1, <3>3 DEF Issued, Known
    <2>7. StoredIsCurrent'
      <3>1. CASE stored.s = x.s
        BY <1>2, <2>0, <2>3, <3>1 DEF StoredIsCurrent
      <3>2. CASE stored # NoPair /\ stored.s # x.s
        <4>1. stored.s \in 1..MaxSessions /\ gen'[stored.s] = gen[stored.s]
          BY <2>1, <2>5, <3>2, PairFields
        <4>2. \A q \in Collectors : got[q].s = stored.s => got'[q].s = stored.s
          BY <1>1, <2>3, <4>1 DEF NoPair
        <4> QED BY <1>2, <4>1, <4>2 DEF PairsInv, StoredIsCurrent, Live
      <3> QED BY <1>2, <3>1, <3>2 DEF StoredIsCurrent
    <2>8. ASSUME NEW q \in Collectors PROVE Unshared(q)'
      <3>1. CASE q = p
        BY <1>2, <2>1, <2>3, <2>4, <2>5, <3>1 DEF Unshared
      <3>2. CASE q # p
        <4>1. got'[q] = got[q] /\ Unshared(q) /\ got[q] # y
          BY <2>3, <2>4, <2>5, <3>2 DEF PairsInv
        <4>2. got[q] # NoPair => gen'[got[q].s] \in {0, got[q].g}
          <5> SUFFICES ASSUME got[q] # NoPair PROVE gen'[got[q].s] \in {0, got[q].g}
            OBVIOUS
          <5>1. got[q].s \in 1..MaxSessions /\ got[q] # x
            BY <2>0, <2>5, <4>1, PairFields DEF Unshared
          <5>2. got[q] = [s |-> got[q].s, g |-> got[q].g] /\ x = [s |-> x.s, g |-> x.g]
            BY <1>1, <2>0, <2>5, PairFields
          <5>3. got[q].s # x.s
            BY <2>1, <4>1, <5>1, <5>2 DEF Unshared, SessionAssumption
          <5> QED BY <2>1, <4>1, <5>1, <5>3 DEF Unshared
        <4> QED BY <1>2, <2>3, <4>1, <4>2, <3>2 DEF Unshared
      <3> QED BY <3>1, <3>2
    <2>9. ASSUME NEW q \in Collectors PROVE InHand(q)'
      BY <1>1, <1>2, <2>3 DEF PairsInv, InHand
    <2> QED BY <2>6, <2>7, <2>8, <2>9 DEF PairsInv
  <1>4. CASE ~Live(copy[p]) /\ gen' = [gen EXCEPT ![copy[p].s] = 0] /\ got' = got /\ Goto(p, "wipe")
    <2>1. copy[p].s \in 1..MaxSessions
      BY <1>1, PairFields
    <2>2. \A s \in 1..MaxSessions : gen'[s] = 0 \/ gen'[s] = gen[s]
      BY <1>1, <1>4, <2>1 DEF TypeOK
    <2>3. pc'[p] = "wipe" /\ \A q \in Collectors \ {p} : pc'[q] = pc[q]
      BY <1>1, <1>4 DEF TypeOK, Goto
    <2> QED BY <1>1, <1>2, <1>4, <2>2, <2>3, SessionsEnd
  <1> QED BY <1>3, <1>4 DEF RefreshCall

\* A refresh whose answer was lost: the session is one of the lost.
LEMMA PairsOfLostAnswer ==
    ASSUME SessionAssumption, PairsInv, TypeOK', NEW p \in Collectors, RefreshAnswerLost(p)
    PROVE  PairsInv'
  <1>1. /\ TypeOK /\ InHand(p) /\ pc[p] = "refresh" /\ copy[p] \in Pair /\ copy[p] # NoPair
        /\ got[p] = NoPair /\ Known(copy[p])
    BY DEF PairsInv, RefreshAnswerLost, InHand, TypeOK, Issued
  <1>2. PICK x \in Pair : x = copy[p]
    BY <1>1
  <1>3. UNCHANGED <<stored, issued, expired, got>> /\ lost' = lost \cup {x.s} /\ Rotate(x)
    BY <1>2 DEF RefreshAnswerLost
  <1>4. /\ x.s \in 1..MaxSessions /\ x.g \in 1..MaxGen /\ x.s <= issued /\ x.g \in Nat \ {0}
        /\ gen[x.s] = x.g /\ gen'[x.s] = x.g + 1
        /\ \A s \in 1..MaxSessions : s # x.s => gen'[s] = gen[s]
    BY <1>1, <1>2, <1>3, RotateIs DEF SessionAssumption
  <1>5. /\ \A q \in Collectors \ {p} : pc'[q] = pc[q] /\ copy'[q] = copy[q]
        /\ \/ pc'[p] = pc[p] /\ copy'[p] = copy[p]
           \/ pc'[p] = "idle" /\ copy'[p] = NoPair
    <2>1. CASE UNCHANGED <<pc, lock, copy, coolCopy, manual, again>>
      BY <2>1
    <2>2. CASE Return(p)
      BY <1>1, <2>2 DEF Return, Goto, TypeOK
    <2> QED BY <2>1, <2>2 DEF RefreshAnswerLost
  <1>6. /\ stored \in Pair /\ Known(stored) /\ expired \subseteq Pair /\ \A z \in expired : Known(z)
        /\ \A q \in Collectors : /\ copy[q] \in Pair /\ Known(copy[q])
                                 /\ got[q] \in Pair /\ Known(got[q])
    BY DEF PairsInv, TypeOK, Issued
  <1>7. ASSUME NEW z \in Pair, Known(z) PROVE Known(z)'
    <2>1. /\ gen \in [1..MaxSessions -> Nat] /\ gen' \in [1..MaxSessions -> Nat]
          /\ issued \in Nat /\ issued' = issued
      BY <1>1, <1>3 DEF TypeOK, SessionAssumption
    <2>2. \A s \in 1..MaxSessions : gen'[s] = 0 \/ (gen[s] # 0 /\ gen'[s] >= gen[s])
      BY SMTT(30), <1>4, <2>1
    <2> QED BY <1>7, <2>1, <2>2, KnownStays
  <1>8. Issued'
    <2>1. \A s \in 1..MaxSessions : s > issued' => gen'[s] = 0
      BY <1>3, <1>4 DEF PairsInv, Issued, TypeOK
    <2>2. \A q \in Collectors : Known(copy[q])' /\ Known(got[q])'
      BY <1>3, <1>5, <1>6, <1>7 DEF Known
    <2> QED BY <1>3, <1>6, <1>7, <2>1, <2>2 DEF Issued, Known
  <1>9. StoredIsCurrent'
    <2>1. CASE stored # NoPair /\ stored.s # x.s
      <3>1. gen'[stored.s] = gen[stored.s]
        BY <1>4, <1>6, <2>1, PairFields
      <3> QED BY <1>3, <2>1, <3>1 DEF PairsInv, StoredIsCurrent, Live
    <2> QED BY <1>3, <2>1 DEF StoredIsCurrent
  <1>10. ASSUME NEW q \in Collectors PROVE Unshared(q)'
    <2>1. Unshared(q) /\ got'[q] = got[q]
      BY <1>3 DEF PairsInv
    <2>2. got[q] # NoPair => gen'[got[q].s] \in {0, got[q].g}
      <3> SUFFICES ASSUME got[q] # NoPair PROVE gen'[got[q].s] \in {0, got[q].g}
        OBVIOUS
      <3>1. got[q].s \in 1..MaxSessions /\ got[q] # x
        BY <1>2, <1>6, <2>1, PairFields DEF Unshared
      <3>2. got[q] = [s |-> got[q].s, g |-> got[q].g] /\ x = [s |-> x.s, g |-> x.g]
        BY <1>1, <1>2, <1>6, PairFields
      <3>3. got[q].s # x.s
        BY <1>4, <2>1, <3>1, <3>2 DEF Unshared
      <3> QED BY <1>4, <2>1, <3>1, <3>3 DEF Unshared
    <2> QED BY <1>3, <1>5, <2>1, <2>2 DEF Unshared
  <1>11. ASSUME NEW q \in Collectors PROVE InHand(q)'
    BY <1>1, <1>3, <1>5 DEF PairsInv, InHand
  <1> QED BY <1>8, <1>9, <1>10, <1>11 DEF PairsInv

\* The pair issued to a run reaches the row, or only the run.
LEMMA PairsOfStore ==
    ASSUME SessionAssumption, PairsInv, TypeOK', NEW p \in Collectors,
           StorePair(p) \/ StorePairFails(p)
    PROVE  PairsInv'
  <1>1. /\ TypeOK /\ InHand(p) /\ Unshared(p) /\ got[p] \in Pair /\ got[p] # NoPair
        /\ Known(got[p])
    BY DEF PairsInv, StorePair, StorePairFails, InHand, TypeOK, Issued
  <1>2. /\ UNCHANGED <<gen, issued, expired>>
        /\ copy'[p] = got[p] /\ got'[p] = NoPair /\ pc'[p] = "use"
        /\ \A q \in Collectors \ {p} : pc'[q] = pc[q] /\ copy'[q] = copy[q] /\ got'[q] = got[q]
    BY <1>1 DEF StorePair, StorePairFails, Goto, TypeOK
  <1>3. \/ stored' = got[p] /\ lost' = lost
        \/ stored' = stored /\ lost' = lost \cup {got[p].s}
    BY DEF StorePair, StorePairFails
  <1>4. Issued'
    BY <1>1, <1>2, <1>3 DEF PairsInv, Issued, Known
  <1>5. StoredIsCurrent'
    <2>1. CASE stored' = got[p] /\ lost' = lost
      BY <1>1, <1>2, <2>1 DEF Unshared, StoredIsCurrent, Live
    <2>2. CASE stored' = stored /\ lost' = lost \cup {got[p].s}
      BY <1>2, <2>2 DEF PairsInv, StoredIsCurrent, Live
    <2> QED BY <1>3, <2>1, <2>2
  <1>6. ASSUME NEW q \in Collectors PROVE Unshared(q)'
    BY <1>1, <1>2, <1>3 DEF PairsInv, Unshared
  <1>7. ASSUME NEW q \in Collectors PROVE InHand(q)'
    BY <1>1, <1>2 DEF PairsInv, InHand
  <1> QED BY <1>4, <1>5, <1>6, <1>7 DEF PairsInv

\* A login opens a session whose pair only this run holds.
LEMMA PairsOfLogin ==
    ASSUME SessionAssumption, PairsInv, TypeOK', NEW p \in Collectors, LoginCall(p)
    PROVE  PairsInv'
  <1>1. TypeOK /\ InHand(p) /\ pc[p] = "loggingIn" /\ copy[p] = NoPair /\ got[p] = NoPair
    BY DEF PairsInv, LoginCall, InHand
  <1>2. /\ UNCHANGED <<stored, expired, copy, lost>> /\ issued' = issued + 1
        /\ issued \in Nat /\ issued' \in 1..MaxSessions /\ gen' = [gen EXCEPT ![issued'] = 1]
    BY <1>1 DEF LoginCall, TypeOK, SessionAssumption
  <1>3. PICK y \in Pair : y = [s |-> issued', g |-> 1] /\ got' = [got EXCEPT ![p] = y]
    <2>1. [s |-> issued', g |-> 1] \in Pair
      BY <1>2 DEF Pair, SessionAssumption
    <2> QED BY <2>1 DEF LoginCall
  <1>4. /\ got'[p] = y /\ pc'[p] = "storeLogin" /\ y.s = issued' /\ y.g = 1 /\ y # NoPair
        /\ gen'[y.s] = 1 /\ \A s \in 1..MaxSessions : s # y.s => gen'[s] = gen[s]
        /\ \A q \in Collectors \ {p} : got'[q] = got[q] /\ pc'[q] = pc[q]
    BY <1>1, <1>2, <1>3 DEF LoginCall, Goto, TypeOK, NoPair
  <1>5. /\ stored \in Pair /\ Known(stored) /\ expired \subseteq Pair /\ \A z \in expired : Known(z)
        /\ \A q \in Collectors : /\ copy[q] \in Pair /\ Known(copy[q])
                                 /\ got[q] \in Pair /\ Known(got[q])
    BY DEF PairsInv, TypeOK, Issued
  <1>6. ASSUME NEW z \in Pair, Known(z)
        PROVE  /\ z # y /\ Known(z)'
               /\ z # NoPair => z.s \in 1..MaxSessions /\ gen'[z.s] = gen[z.s]
    <2>1. z # NoPair => z.s \in 1..MaxSessions /\ z.s <= issued
      BY <1>6, PairFields DEF Known
    <2>2. z # y /\ (z # NoPair => gen'[z.s] = gen[z.s])
      BY <1>2, <1>4, <2>1
    <2>3. Known(z)'
      BY <1>2, <1>6, <2>1, <2>2 DEF Known
    <2> QED BY <2>1, <2>2, <2>3
  <1>7. Issued'
    <2>1. \A s \in 1..MaxSessions : s > issued' => gen'[s] = 0
      BY <1>2, <1>4 DEF PairsInv, Issued
    <2>2. Known(y)'
      BY <1>2, <1>4 DEF Known
    <2>3. \A q \in Collectors : Known(got[q])'
      BY <1>4, <1>5, <1>6, <2>2 DEF Known
    <2> QED BY <1>2, <1>5, <1>6, <2>1, <2>3 DEF Issued, Known
  <1>8. StoredIsCurrent'
    <2>1. stored # NoPair => gen'[stored.s] = gen[stored.s] /\ stored.s \in 1..MaxSessions
      BY <1>5, <1>6
    <2>2. \A q \in Collectors : stored # NoPair /\ got[q].s = stored.s => got'[q].s = stored.s
      BY <1>1, <1>4, <2>1 DEF NoPair
    <2> QED BY <1>2, <2>1, <2>2 DEF PairsInv, StoredIsCurrent, Live
  <1>9. ASSUME NEW q \in Collectors PROVE Unshared(q)'
    <2>1. CASE q = p
      BY <1>2, <1>4, <1>5, <1>6, <2>1 DEF Unshared
    <2>2. CASE q # p
      BY <1>2, <1>4, <1>5, <1>6, <2>2 DEF PairsInv, Unshared
    <2> QED BY <2>1, <2>2
  <1>10. ASSUME NEW q \in Collectors PROVE InHand(q)'
    BY <1>1, <1>2, <1>4 DEF PairsInv, InHand
  <1> QED BY <1>7, <1>8, <1>9, <1>10 DEF PairsInv

\* A token expires, a deadline passes, the upstream ends a session, the process dies.
LEMMA PairsOfWorld ==
    ASSUME SessionAssumption, PairsInv, TypeOK', Time \/ UpstreamRevokes \/ Crash
    PROVE  PairsInv'
  <1>1. CASE Expire
    <2>1. PICK x \in {stored} \cup {copy[p] : p \in Collectors} : expired' = expired \cup {x}
      BY <1>1 DEF Expire
    <2>2. /\ UNCHANGED <<stored, gen, issued, pc, copy, got, lost>>
          /\ Known(x) /\ \A q \in Collectors : got[q] # NoPair => got[q] # x
      BY <1>1, <2>1 DEF Expire, runVars, PairsInv, Issued, Unshared
    <2>3. Issued' /\ StoredIsCurrent'
      BY <2>1, <2>2 DEF PairsInv, Issued, Known, StoredIsCurrent, Live
    <2> QED BY <2>1, <2>2, <2>3 DEF PairsInv, Unshared, InHand
  <1>2. CASE CooldownEnds \/ GateOpens
    <2>1. UNCHANGED <<stored, gen, issued, expired, pc, copy, got, lost>>
      BY <1>2 DEF CooldownEnds, GateOpens, runVars
    <2> QED BY <2>1 DEF PairsInv, Issued, Known, StoredIsCurrent, Live, Unshared, InHand
  <1>3. CASE UpstreamRevokes
    <2>1. UNCHANGED <<stored, issued, expired, pc, copy, got, lost>>
      BY <1>3 DEF UpstreamRevokes, runVars
    <2>2. \A s \in 1..MaxSessions : gen'[s] = 0 \/ gen'[s] = gen[s]
      BY <1>3 DEF UpstreamRevokes, PairsInv, TypeOK
    <2>3. CASE Collectors = {}
      <3>1. Issued' /\ StoredIsCurrent'
        <4>1. stored # NoPair => gen'[stored.s] = 0 \/ gen'[stored.s] = gen[stored.s]
          BY <2>2, PairFields DEF PairsInv, TypeOK
        <4>2. \A z \in expired : z # NoPair => gen'[z.s] = 0 \/ gen'[z.s] = gen[z.s]
          BY <2>2, PairFields DEF PairsInv, TypeOK
        <4> QED BY <2>1, <2>2, <2>3, <4>1, <4>2
                DEF PairsInv, Issued, Known, StoredIsCurrent, Live
      <3> QED BY <2>3, <3>1 DEF PairsInv
    <2>4. CASE Collectors # {}
      <3>1. PICK p \in Collectors : TRUE
        BY <2>4
      <3> QED BY <2>1, <2>2, <3>1, SessionsEnd
    <2> QED BY <2>3, <2>4
  <1>4. CASE Crash
    <2>1. /\ UNCHANGED <<stored, gen, issued, expired>>
          /\ \A q \in Collectors : pc'[q] = "idle" /\ copy'[q] = NoPair /\ got'[q] = NoPair
          /\ lost' = lost \cup ({got[q].s : q \in Collectors} \ {0})
      BY <1>4 DEF Crash
    <2>2. Issued'
      BY <2>1 DEF PairsInv, Issued, Known
    <2>3. StoredIsCurrent'
      <3>1. stored # NoPair => stored.s # 0
        BY PairFields DEF PairsInv, TypeOK
      <3> QED BY <2>1, <3>1 DEF PairsInv, StoredIsCurrent, Live
    <2> QED BY <2>1, <2>2, <2>3 DEF PairsInv, Unshared, InHand
  <1> QED BY <1>1, <1>2, <1>3, <1>4 DEF Time

\* No session has been issued at the start.
LEMMA PairsAtStart == ASSUME SessionAssumption, Init PROVE PairsInv
  <1>1. NoPair \in Pair
    BY DEF Pair
  <1>2. TypeOK
    BY <1>1 DEF Init, TypeOK, SessionAssumption
  <1> QED BY <1>2 DEF Init, PairsInv, Issued, Known, StoredIsCurrent, Unshared, InHand

\* Every step keeps the pairs where they belong.
LEMMA PairsStep == ASSUME SessionAssumption, PairsInv, [Next]_vars PROVE PairsInv'
  <1>1. ASSUME Next PROVE TypeOK'
    <2>1. TypeOK
      BY DEF PairsInv
    <2> QED BY <1>1, <2>1, TypesOfSteps, TypesOfFailures, TypesOfWorld DEF Next
  <1>2. ASSUME Next PROVE PairsInv'
    BY <1>1, <1>2, PairsOfSteady, PairsOfRefresh, PairsOfLostAnswer, PairsOfStore, PairsOfLogin,
       PairsOfWorld DEF Next, Steps, Failures
  <1>3. CASE UNCHANGED vars
    BY <1>3 DEF vars, moving, siteVars, runVars, PairsInv, TypeOK, Issued, Known,
                StoredIsCurrent, Live, Unshared, InHand
  <1> QED BY <1>2, <1>3

\* The row holds the latest generation of a session that lives, unless a run is about to
\* write it or the write was lost (UpdateTokenPair after every refresh and login), however
\* many runs and token managers there are.
THEOREM NoRotationForgotten == Spec => []StoredIsCurrent
  <1>1. Init => PairsInv
    BY PairsAtStart, SessionAssumption
  <1>2. PairsInv /\ [Next]_vars => PairsInv'
    BY PairsStep, SessionAssumption
  <1>3. PairsInv => StoredIsCurrent
    BY DEF PairsInv
  <1> QED BY <1>1, <1>2, <1>3, PTL DEF Spec

-----------------------------------------------------------------------------
(***************************************************************************)
(* Who may present a token, when every run goes through one manager and no *)
(* token expires under a run that saw an older one                         *)
(***************************************************************************)
\* At most one run refreshes or stores.
LEMMA OneAtATime ==
    ASSUME OneManager, ReplayInv, NEW p \in Collectors, NEW q \in Collectors,
           pc[p] \in {"refresh", "store"}, pc[q] \in {"refresh", "store"}
    PROVE  p = q
  BY DEF OneManager, ReplayInv, Locked

\* A superseded pair in the row is about to be replaced by its successor.
LEMMA SuccessorComes ==
    ASSUME SessionAssumption, ReplayInv, Superseded(stored)
    PROVE  \E q \in Collectors : pc[q] = "store" /\ got[q].s = stored.s
  <1>1. /\ stored \in Pair /\ stored.s \in 1..MaxSessions /\ stored.g \in 1..MaxGen
        /\ stored.g <= gen[stored.s] /\ gen[stored.s] # stored.g
    BY PairFields DEF ReplayInv, PairsInv, TypeOK, Issued, Known, Superseded
  <1>2. PICK q \in Collectors : got[q].s = stored.s
    BY DEF ReplayInv, PairsInv, StoredIsCurrent, Superseded, Live
  <1>3. got[q] # NoPair /\ Unshared(q) /\ InHand(q)
    BY <1>1, <1>2 DEF NoPair, ReplayInv, PairsInv
  <1>4. pc[q] # "storeLogin"
    <2> SUFFICES ASSUME pc[q] = "storeLogin" PROVE FALSE
      OBVIOUS
    <2>1. gen[stored.s] \in {0, 1}
      BY <1>2, <1>3 DEF Unshared, InHand
    <2> QED BY <1>1, <2>1 DEF SessionAssumption
  <1> QED BY <1>2, <1>3, <1>4 DEF InHand

\* What a run that does not move keeps of its own.
LEMMA Bystander ==
    ASSUME ReplayInv, NEW q \in Collectors,
           pc'[q] = pc[q], copy'[q] = copy[q], expired \subseteq expired',
           \A m \in Managers : lock[m] = q => lock'[m] = q,
           gen[copy[q].s] = 0 => gen'[copy[q].s] = 0
    PROVE  SessionAssumption => Locked(q)' /\ GivenUp(q)'
  BY DEF ReplayInv, Locked, GivenUp, SessionAssumption

\* The steps of a run that issue and store nothing; the lock with its second look is one.
LEMMA ReplaySteady ==
    ASSUME SessionAssumption, OneManager, ReplayInv, PairsInv', NEW p \in Collectors,
           \/ Load(p) \/ Ensure(p) \/ UseSession(p) \/ TakeLock(p)
           \/ Login(p) \/ LoginRefused(p) \/ RecheckFails(p) \/ RefreshFails(p) \/ LoginFails(p)
    PROVE  ReplayInv'
  <1>1. /\ TypeOK /\ InHand(p) /\ Locked(p) /\ GivenUp(p) /\ Presents(p) /\ Replaced(p) /\ Faults
        /\ Superseded(stored) => stored \in expired
    BY DEF ReplayInv, PairsInv
  <1>2. /\ UNCHANGED <<gen, issued, expired, got, stored>> /\ lost \subseteq lost'
        /\ fails > 0 => fails' > 0
        /\ lost' = lost \/ fails' > 0
    BY <1>1 DEF Load, Ensure, UseSession, TakeLock, Login, LoginRefused, RecheckFails, RefreshFails,
                LoginFails, siteVars, Fail, TypeOK
  <1>3. /\ \A q \in Collectors \ {p} : pc'[q] = pc[q] /\ copy'[q] = copy[q]
        /\ \A q \in Collectors \ {p} : \A m \in Managers : lock[m] = q => lock'[m] = q
        /\ pc[p] # "store"
    BY <1>1 DEF TypeOK, Goto, Return, Unlocked, Load, Ensure, UseSession, TakeLock, Login,
                LoginRefused, RecheckFails, RefreshFails, LoginFails, siteVars, SessionAssumption
  <1>4. Faults' /\ (Superseded(stored)' => stored' \in expired')
    BY <1>1, <1>2 DEF Faults, Superseded
  <1>5. ASSUME NEW q \in Collectors, q # p
        PROVE  Locked(q)' /\ GivenUp(q)' /\ Replaced(q)' /\ Presents(q)'
    <2>1. Locked(q)' /\ GivenUp(q)'
      BY <1>2, <1>3, <1>5, Bystander
    <2>2. Replaced(q) /\ Presents(q)
      BY DEF ReplayInv
    <2>3. Replaced(q)'
      BY <1>2, <1>3, <1>5, <2>2 DEF Replaced, Superseded, Valid
    <2>4. Presents(q)'
      BY <1>2, <1>3, <1>5, <2>2 DEF Presents, Superseded
    <2> QED BY <2>1, <2>3, <2>4
  <1>6. Replaced(p)'
    <2>1. ASSUME copy'[p] = stored PROVE Replaced(p)'
      <3> SUFFICES ASSUME Superseded(stored)
                   PROVE  /\ stored \in expired
                          /\ \E q \in Collectors : pc'[q] = "store" /\ got'[q].s = stored.s
        BY <1>2, <2>1 DEF Replaced, Superseded
      <3> QED BY <1>1, <1>2, <1>3, SuccessorComes
    <2>2. ASSUME copy'[p] = copy[p] PROVE Replaced(p)'
      BY <1>1, <1>2, <1>3, <2>2 DEF Replaced, Superseded, Valid
    <2>3. ASSUME copy'[p] = NoPair PROVE Replaced(p)'
      BY <2>3 DEF Replaced, Superseded
    <2>4. copy'[p] \in {copy[p], NoPair, stored}
      BY <1>1 DEF TypeOK, Goto, Return, Load, Ensure, UseSession, TakeLock, Login,
                  LoginRefused, RecheckFails, RefreshFails, LoginFails, siteVars
    <2> QED BY <2>1, <2>2, <2>3, <2>4
  <1>7. Locked(p)' /\ GivenUp(p)' /\ Presents(p)'
    <2>1. ASSUME pc'[p] \in {"idle", "ensure", "use", "login", "loggingIn"}
          PROVE  Locked(p)' /\ GivenUp(p)' /\ Presents(p)'
      BY <2>1 DEF Locked, GivenUp, Presents
    <2>2. ASSUME Return(p) \/ (\E l \in {"ensure", "use", "login", "loggingIn"} : Goto(p, l))
          PROVE  pc'[p] \in {"idle", "ensure", "use", "login", "loggingIn"}
      BY <1>1, <2>2 DEF Return, Goto, TypeOK
    <2>3. CASE Load(p) \/ Login(p) \/ LoginRefused(p) \/ RefreshFails(p) \/ LoginFails(p)
      BY <2>1, <2>2, <2>3 DEF Load, Login, LoginRefused, RefreshFails, LoginFails
    <2>4. CASE Ensure(p)
      <3>1. /\ pc[p] = "ensure" /\ copy' = copy /\ pc'[p] \in {"use", "wait", "login"}
            /\ pc'[p] = "wait" => copy[p] \in expired
        BY <1>1, <2>4 DEF Ensure, Goto, TypeOK, Valid
      <3>2. CASE pc'[p] = "wait"
        <4>1. copy'[p] \in expired'
          BY <1>2, <3>1, <3>2
        <4> QED BY <3>2, <4>1 DEF Locked, GivenUp, Presents
      <3> QED BY <2>1, <3>1, <3>2
    <2>5. CASE UseSession(p)
      <3>1. CASE Return(p)
        BY <2>1, <2>2, <3>1
      <3>2. CASE Goto(p, "wait") /\ copy' = copy /\ ~Accepts(copy[p]) /\ pc[p] = "use"
        <4>1. pc'[p] = "wait" /\ (copy[p] \in expired \/ gen[copy[p].s] = 0)
          BY <1>1, <3>2 DEF Goto, TypeOK, Accepts, Valid, InHand
        <4> QED BY <1>2, <3>2, <4>1 DEF Locked, GivenUp, Presents
      <3> QED BY <2>5, <3>1, <3>2 DEF UseSession
    <2>6. ASSUME pc[p] = "wait", Goto(p, "refresh"), lock' = [lock EXCEPT ![ManagerOf[p]] = p],
                 copy' = copy
          PROVE  Locked(p)' /\ GivenUp(p)' /\ pc'[p] = "refresh" /\ copy'[p] = copy[p]
      BY <1>1, <1>2, <2>6 DEF Goto, TypeOK, Locked, GivenUp, SessionAssumption
    <2>7. CASE TakeLock(p)
      <3>1. CASE Goto(p, "use")
        BY <2>1, <2>2, <3>1
      <3>2. CASE ~(Valid(stored) /\ stored # copy[p]) /\ pc[p] = "wait" /\ Goto(p, "refresh")
                 /\ lock' = [lock EXCEPT ![ManagerOf[p]] = p] /\ copy' = copy
                 /\ lock[ManagerOf[p]] = None
        <4>1. Locked(p)' /\ GivenUp(p)' /\ pc'[p] = "refresh" /\ copy'[p] = copy[p]
          BY <2>6, <3>2
        <4>2. ASSUME Superseded(copy[p]) PROVE fails > 0 /\ stored.s # copy[p].s
          <5>1. copy[p] \in expired /\ copy[p] # NoPair /\ copy[p] \in Pair
            BY <1>1, <4>2 DEF Replaced, Superseded, TypeOK
          <5>2. ~Valid(stored)
            BY <3>2, <5>1 DEF Valid
          <5>3. \A q \in Collectors : pc[q] # "store"
            BY <3>2 DEF OneManager, ReplayInv, Locked, SessionAssumption
          <5>4. stored = NoPair /\ fails > 0
            BY <1>1, <4>2, <5>2, <5>3 DEF Replaced
          <5>5. copy[p].s # 0
            BY <5>1, PairFields
          <5> QED BY <5>4, <5>5 DEF NoPair
        <4> QED BY <1>2, <4>1, <4>2 DEF Presents, Superseded
      <3> QED BY <2>7, <3>1, <3>2 DEF TakeLock
    <2>8. CASE RecheckFails(p)
      <3>1. Locked(p)' /\ GivenUp(p)' /\ copy'[p] = copy[p]
        BY <2>6, <2>8 DEF RecheckFails
      <3>2. copy[p].s \in lost'
        BY <2>8 DEF RecheckFails
      <3> QED BY <3>1, <3>2 DEF Presents, Superseded
    <2> QED BY <2>3, <2>4, <2>5, <2>7, <2>8
  <1> QED BY <1>4, <1>5, <1>6, <1>7 DEF ReplayInv

\* Sessions end for a reason.
LEMMA EndedByFault ==
    ASSUME SessionAssumption, ReplayInv, NEW x \in Pair, x # NoPair, Known(x), gen[x.s] = 0
    PROVE  fails > 0
  <1>1. x.s \in 1..issued
    <2>1. x.s \in 1..MaxSessions /\ x.s <= issued /\ issued \in 0..MaxSessions
      BY PairFields DEF Known, ReplayInv, PairsInv, TypeOK
    <2> QED BY <2>1 DEF SessionAssumption
  <1> QED BY <1>1 DEF ReplayInv, Faults

\* The refresh request, answered with a new pair or with a refusal.
LEMMA ReplayOfRefresh ==
    ASSUME SessionAssumption, OneManager, ReplayInv, PairsInv', NEW p \in Collectors, RefreshCall(p)
    PROVE  ReplayInv'
  <1>1. /\ TypeOK /\ InHand(p) /\ Locked(p) /\ GivenUp(p) /\ Presents(p) /\ Faults
        /\ pc[p] = "refresh" /\ copy[p] # NoPair /\ copy[p] \in Pair /\ Known(copy[p])
        /\ Superseded(stored) => stored \in expired
    BY DEF ReplayInv, PairsInv, RefreshCall, InHand, TypeOK, Issued
  <1>2. PICK x \in Pair : x = copy[p]
    BY <1>1
  <1>3. /\ UNCHANGED <<stored, issued, expired, copy, lost, fails>>
        /\ x.s \in 1..MaxSessions /\ lock[ManagerOf[p]] = p
    BY <1>1, <1>2, PairFields DEF RefreshCall, Locked
  <1>4. \A q \in Collectors \ {p} : pc[q] \notin {"refresh", "store"}
    BY <1>1, OneAtATime
  <1>5. \A q \in Collectors : copy[q] \in Pair /\ (copy[q] # NoPair => copy[q].s \in 1..MaxSessions)
    BY <1>1, PairFields DEF TypeOK
  <1>6. CASE Rotate(x)
    <2>1. /\ gen[x.s] = x.g /\ gen'[x.s] = x.g + 1 /\ x.g \in Nat \ {0} /\ x.s <= issued
          /\ \A s \in 1..MaxSessions : s # x.s => gen'[s] = gen[s]
      BY <1>1, <1>2, <1>6, RotateIs DEF ReplayInv, SessionAssumption
    <2>2. x \in expired
      BY <1>1, <1>2, <2>1 DEF GivenUp
    <2>3. /\ got' = [got EXCEPT ![p] = [s |-> x.s, g |-> x.g + 1]]
          /\ Goto(p, "store") /\ lock' = lock
      BY <1>2, <1>6 DEF RefreshCall, Rotate
    <2>4. /\ pc'[p] = "store" /\ got'[p].s = x.s
          /\ \A q \in Collectors \ {p} : pc'[q] = pc[q]
      BY <1>1, <2>3 DEF TypeOK, Goto
    \* A pair that is superseded now was superseded before, or is the rotated one.
    <2>5. ASSUME NEW z \in Pair, Superseded(z)' PROVE Superseded(z) \/ z = x
      <3>1. z # NoPair /\ gen'[z.s] \notin {0, z.g} /\ z.s \notin lost /\ z.s \in 1..MaxSessions
        BY <1>3, <2>5, PairFields DEF Superseded
      <3>2. CASE z.s # x.s
        BY <2>1, <3>1, <3>2 DEF Superseded
      <3>3. CASE z.s = x.s /\ z.g = x.g
        <4>1. z = [s |-> z.s, g |-> z.g] /\ x = [s |-> x.s, g |-> x.g]
          BY <1>1, <1>2, <3>1, PairFields
        <4> QED BY <3>3, <4>1
      <3>4. CASE z.s = x.s /\ z.g # x.g
        BY <2>1, <3>1, <3>4 DEF Superseded
      <3> QED BY <3>2, <3>3, <3>4
    <2>6. Faults'
      BY <1>1, <1>3, <2>1 DEF Faults, TypeOK
    <2>7. Superseded(stored)' => stored' \in expired'
      <3>1. stored \in Pair /\ stored' = stored
        BY <1>1, <1>3 DEF TypeOK
      <3>2. PICK z \in Pair : z = stored
        BY <3>1
      <3> QED BY <1>1, <1>3, <2>2, <2>5, <3>2 DEF Superseded
    <2>8. ASSUME NEW q \in Collectors
          PROVE  Locked(q)' /\ GivenUp(q)' /\ Replaced(q)' /\ Presents(q)'
      <3>1. PICK z \in Pair : z = copy[q]
        BY <1>1 DEF TypeOK
      <3>2. /\ copy'[q] = z /\ Replaced(q) /\ GivenUp(q) /\ Locked(q) /\ InHand(q)
            /\ z # NoPair => z.s \in 1..MaxSessions
        BY <1>3, <3>1, PairFields DEF ReplayInv, PairsInv
      <3>3. Locked(q)'
        BY <1>3, <2>3, <2>4, <3>2 DEF Locked
      <3>4. GivenUp(q)'
        <4>1. CASE q = p
          BY <1>2, <1>3, <2>2, <2>4, <3>1, <3>2, <4>1 DEF GivenUp
        <4>2. CASE q # p /\ pc[q] \in {"wait", "wipe"}
          <5>1. z.s \in 1..MaxSessions /\ (gen[z.s] = 0 => gen'[z.s] = 0)
            BY <2>1, <3>1, <3>2, <4>2 DEF InHand
          <5> QED BY <1>3, <2>4, <3>1, <3>2, <4>2, <5>1 DEF GivenUp
        <4>3. CASE q # p /\ pc[q] \notin {"wait", "wipe"}
          BY <1>4, <2>4, <4>3 DEF GivenUp
        <4> QED BY <4>1, <4>2, <4>3
      <3>5. Replaced(q)'
        <4> SUFFICES ASSUME Superseded(z)'
                     PROVE  /\ z \in expired
                            /\ \/ Valid(stored)
                               \/ stored = NoPair /\ fails > 0
                               \/ \E c \in Collectors : pc'[c] = "store" /\ got'[c].s = z.s
          BY <1>3, <3>2 DEF Replaced, Superseded, Valid
        <4>1. CASE z = x
          BY <2>2, <2>4, <4>1
        <4>2. CASE Superseded(z)
          <5>1. \A c \in Collectors : pc[c] # "store"
            BY <1>1, <1>4
          <5> QED BY <3>1, <3>2, <4>2, <5>1 DEF Replaced
        <4> QED BY <2>5, <4>1, <4>2
      <3>6. Presents(q)'
        BY <1>4, <2>4 DEF Presents
      <3> QED BY <3>3, <3>4, <3>5, <3>6
    <2> QED BY <2>6, <2>7, <2>8 DEF ReplayInv
  <1>7. CASE /\ ~Live(x) /\ gen' = [gen EXCEPT ![x.s] = 0] /\ got' = got /\ Goto(p, "wipe")
             /\ lock' = IF platform = "sub2api" THEN Unlocked(p) ELSE lock
    <2>1. /\ gen'[x.s] = 0 /\ \A s \in 1..MaxSessions : gen'[s] = 0 \/ gen'[s] = gen[s]
          /\ pc'[p] = "wipe" /\ \A q \in Collectors \ {p} : pc'[q] = pc[q]
      BY <1>1, <1>3, <1>7 DEF TypeOK, Goto
    <2>2. fails > 0
      <3>1. gen[x.s] # x.g
        BY <1>1, <1>2, <1>7 DEF Live
      <3>2. CASE gen[x.s] = 0
        BY <1>1, <1>2, <3>2, EndedByFault
      <3>3. CASE gen[x.s] # 0 /\ x.s \in lost
        BY <1>1, <3>3 DEF Faults
      <3>4. CASE gen[x.s] # 0 /\ x.s \notin lost
        BY <1>1, <1>2, <3>1, <3>4 DEF Presents, Superseded
      <3> QED BY <3>2, <3>3, <3>4
    <2>3. ASSUME NEW z \in Pair, Superseded(z)' PROVE Superseded(z)
      <3>1. z # NoPair /\ z.s \in 1..MaxSessions
        BY <2>3, PairFields DEF Superseded
      <3> QED BY <1>3, <2>1, <2>3, <3>1 DEF Superseded
    <2>4. Faults'
      BY <1>3, <2>2 DEF Faults
    <2>5. Superseded(stored)' => stored' \in expired'
      <3>1. PICK z \in Pair : z = stored
        BY <1>1 DEF TypeOK
      <3> QED BY <1>1, <1>3, <2>3, <3>1 DEF Superseded
    <2>6. ASSUME NEW q \in Collectors
          PROVE  Locked(q)' /\ GivenUp(q)' /\ Replaced(q)' /\ Presents(q)'
      <3>1. PICK z \in Pair : z = copy[q]
        BY <1>1 DEF TypeOK
      <3>2. /\ copy'[q] = z /\ Replaced(q) /\ GivenUp(q) /\ Locked(q) /\ InHand(q)
            /\ z # NoPair => z.s \in 1..MaxSessions
        BY <1>3, <3>1, PairFields DEF ReplayInv, PairsInv
      <3>3. Locked(q)' /\ Presents(q)'
        BY <1>4, <2>1 DEF Locked, Presents
      <3>4. GivenUp(q)'
        <4>1. CASE q = p
          BY <1>2, <2>1, <3>1, <3>2, <4>1 DEF GivenUp
        <4>2. CASE q # p /\ pc[q] \in {"wait", "wipe"}
          <5>1. z.s \in 1..MaxSessions /\ (gen[z.s] = 0 => gen'[z.s] = 0)
            BY <2>1, <3>1, <3>2, <4>2 DEF InHand
          <5> QED BY <1>3, <2>1, <3>1, <3>2, <4>2, <5>1 DEF GivenUp
        <4>3. CASE q # p /\ pc[q] \notin {"wait", "wipe"}
          BY <1>4, <2>1, <4>3 DEF GivenUp
        <4> QED BY <4>1, <4>2, <4>3
      <3>5. Replaced(q)'
        <4> SUFFICES ASSUME Superseded(z)'
                     PROVE  /\ z \in expired
                            /\ \/ Valid(stored)
                               \/ stored = NoPair /\ fails > 0
                               \/ \E c \in Collectors : pc'[c] = "store" /\ got'[c].s = z.s
          BY <1>3, <3>2 DEF Replaced, Superseded, Valid
        <4>1. \A c \in Collectors : pc[c] # "store"
          BY <1>1, <1>4
        <4> QED BY <2>3, <3>1, <3>2, <4>1 DEF Replaced
      <3> QED BY <3>3, <3>4, <3>5
    <2> QED BY <2>4, <2>5, <2>6 DEF ReplayInv
  <1> QED BY <1>2, <1>6, <1>7 DEF RefreshCall

\* The answer is lost, and the session with it.
LEMMA ReplayOfLostAnswer ==
    ASSUME SessionAssumption, OneManager, ReplayInv, PairsInv', NEW p \in Collectors,
           RefreshAnswerLost(p)
    PROVE  ReplayInv'
  <1>1. /\ TypeOK /\ InHand(p) /\ Locked(p) /\ GivenUp(p) /\ Faults
        /\ pc[p] = "refresh" /\ copy[p] # NoPair /\ copy[p] \in Pair /\ Known(copy[p])
        /\ Superseded(stored) => stored \in expired
    BY DEF ReplayInv, PairsInv, RefreshAnswerLost, InHand, TypeOK, Issued
  <1>2. PICK x \in Pair : x = copy[p]
    BY <1>1
  <1>3. /\ UNCHANGED <<stored, issued, expired, got>> /\ lost' = lost \cup {x.s} /\ fails' > 0
        /\ Rotate(x)
    BY <1>1, <1>2 DEF RefreshAnswerLost, Fail, TypeOK
  <1>4. /\ gen[x.s] = x.g /\ gen'[x.s] = x.g + 1 /\ x.g \in Nat \ {0}
        /\ \A s \in 1..MaxSessions : s # x.s => gen'[s] = gen[s]
    BY <1>1, <1>2, <1>3, RotateIs DEF ReplayInv, SessionAssumption
  <1>5. /\ \A q \in Collectors \ {p} : pc'[q] = pc[q] /\ copy'[q] = copy[q]
        /\ \A q \in Collectors \ {p} : \A m \in Managers : lock[m] = q => lock'[m] = q
        /\ \/ pc'[p] = pc[p] /\ copy'[p] = copy[p] /\ lock' = lock
           \/ pc'[p] = "idle" /\ copy'[p] = NoPair
    <2>1. CASE UNCHANGED <<pc, lock, copy, coolCopy, manual, again>>
      BY <2>1
    <2>2. CASE Return(p) /\ lock' = Unlocked(p)
      BY <1>1, <2>2 DEF Return, Goto, TypeOK, Unlocked
    <2> QED BY <2>1, <2>2 DEF RefreshAnswerLost
  <1>6. ASSUME NEW z \in Pair, Superseded(z)' PROVE Superseded(z) /\ z.s # x.s
    <2>1. z # NoPair /\ z.s \in 1..MaxSessions
      BY <1>6, PairFields DEF Superseded
    <2> QED BY <1>3, <1>4, <1>6, <2>1 DEF Superseded
  <1>7. Faults'
    BY <1>3 DEF Faults
  <1>8. Superseded(stored)' => stored' \in expired'
    <2>1. PICK z \in Pair : z = stored
      BY <1>1 DEF TypeOK
    <2> QED BY <1>1, <1>3, <1>6, <2>1 DEF Superseded
  <1>9. ASSUME NEW q \in Collectors
        PROVE  Locked(q)' /\ GivenUp(q)' /\ Replaced(q)' /\ Presents(q)'
    <2>1. CASE pc'[q] = "idle" /\ copy'[q] = NoPair
      BY <2>1 DEF Locked, GivenUp, Replaced, Presents, Superseded
    <2>2. CASE pc'[q] = pc[q] /\ copy'[q] = copy[q] /\ (q = p => lock' = lock)
      <3>1. PICK z \in Pair : z = copy[q]
        BY <1>1 DEF TypeOK
      <3>2. /\ copy'[q] = z /\ Replaced(q) /\ Presents(q) /\ GivenUp(q) /\ Locked(q) /\ InHand(q)
            /\ z # NoPair => z.s \in 1..MaxSessions
        BY <2>2, <3>1, PairFields DEF ReplayInv, PairsInv
      <3>3. Locked(q)'
        BY <1>5, <2>2, <3>2 DEF Locked, SessionAssumption
      <3>4. GivenUp(q)'
        <4>1. CASE pc[q] \in {"wait", "refresh", "store", "wipe"}
          <5>1. gen[z.s] = 0 => gen'[z.s] = 0
            BY <1>4, <3>1, <3>2, <4>1 DEF InHand
          <5> QED BY <1>3, <2>2, <3>1, <3>2, <5>1 DEF GivenUp
        <4> QED BY <2>2, <4>1 DEF GivenUp
      <3>5. Replaced(q)'
        <4> SUFFICES ASSUME Superseded(z)'
                     PROVE  /\ z \in expired
                            /\ \/ Valid(stored)
                               \/ stored = NoPair /\ fails' > 0
                               \/ \E c \in Collectors : pc'[c] = "store" /\ got'[c].s = z.s
          BY <1>3, <3>2 DEF Replaced, Superseded, Valid
        <4> QED BY <1>1, <1>3, <1>5, <1>6, <3>1, <3>2 DEF Replaced
      <3>6. Presents(q)'
        BY <1>3, <1>6, <2>2, <3>1, <3>2 DEF Presents, Superseded
      <3> QED BY <3>3, <3>4, <3>5, <3>6
    <2> QED BY <1>5, <2>1, <2>2
  <1> QED BY <1>7, <1>8, <1>9 DEF ReplayInv

\* A pair fresh from the upstream reaches the row, or only the run that asked for it.
LEMMA ReplayOfStore ==
    ASSUME SessionAssumption, OneManager, ReplayInv, PairsInv', NEW p \in Collectors,
           StorePair(p) \/ StorePairFails(p)
    PROVE  ReplayInv'
  <1>1. /\ TypeOK /\ InHand(p) /\ Unshared(p) /\ Locked(p) /\ Faults /\ Known(got[p])
        /\ pc[p] \in {"store", "storeLogin"}
        /\ Superseded(stored) => stored \in expired
    BY DEF ReplayInv, PairsInv, Issued, StorePair, StorePairFails
  <1>2. PICK y \in Pair : y = got[p] /\ y # NoPair /\ y.s \in 1..MaxSessions /\ y.g \in 1..MaxGen
    BY <1>1, PairFields DEF TypeOK, InHand
  <1>3. /\ UNCHANGED <<gen, issued, expired>> /\ lock' = Unlocked(p)
        /\ copy'[p] = y /\ pc'[p] = "use"
        /\ \A q \in Collectors \ {p} : pc'[q] = pc[q] /\ copy'[q] = copy[q] /\ got'[q] = got[q]
    BY <1>1, <1>2 DEF StorePair, StorePairFails, Goto, TypeOK
  <1>4. \/ stored' = y /\ lost' = lost /\ fails' = fails
        \/ stored' = stored /\ lost' = lost \cup {y.s} /\ fails' > 0
    BY <1>1, <1>2 DEF StorePair, StorePairFails, Fail, TypeOK
  <1>5. y \notin expired /\ gen[y.s] \in {0, y.g}
    BY <1>1, <1>2 DEF Unshared
  <1>6. /\ fails > 0 => fails' > 0
        /\ \A m \in Managers : \A q \in Collectors \ {p} : lock[m] = q => lock'[m] = q
    BY <1>3, <1>4 DEF Unlocked
  <1>7. ~Superseded(y)'
    BY <1>3, <1>4, <1>5 DEF Superseded
  <1>8. Faults'
    BY <1>1, <1>3, <1>4, <1>6 DEF Faults
  <1>9. Superseded(stored)' => stored' \in expired'
    BY <1>1, <1>3, <1>4, <1>7 DEF Superseded
  <1>10. Locked(p)' /\ GivenUp(p)' /\ Replaced(p)' /\ Presents(p)'
    BY <1>3, <1>7 DEF Locked, GivenUp, Replaced, Presents, Superseded
  <1>11. ASSUME NEW q \in Collectors, q # p
         PROVE  Locked(q)' /\ GivenUp(q)' /\ Replaced(q)' /\ Presents(q)'
    <2>1. Replaced(q) /\ Presents(q)
      BY DEF ReplayInv
    <2>2. Locked(q)' /\ GivenUp(q)'
      BY <1>3, <1>6, <1>11, Bystander
    <2>3. Replaced(q)'
      <3> SUFFICES ASSUME Superseded(copy[q])'
                   PROVE  /\ copy[q] \in expired
                          /\ \/ Valid(stored)'
                             \/ stored' = NoPair /\ fails' > 0
                             \/ \E c \in Collectors : pc'[c] = "store" /\ got'[c].s = copy[q].s
        BY <1>3, <1>11 DEF Replaced
      <3>1. Superseded(copy[q]) /\ copy[q] \in expired
        BY <1>3, <1>4, <1>11, <2>1 DEF Superseded, Replaced
      <3>2. CASE stored' = y
        BY <1>2, <1>3, <1>5, <3>1, <3>2 DEF Valid
      <3>3. CASE stored' = stored /\ lost' = lost \cup {y.s} /\ fails' > 0
        <4>1. copy[q].s # y.s
          BY <1>3, <1>11, <3>3 DEF Superseded
        <4> QED BY <1>2, <1>3, <2>1, <3>1, <3>3, <4>1 DEF Replaced, Valid
      <3> QED BY <1>4, <3>2, <3>3
    <2>4. Presents(q)'
      <3> SUFFICES ASSUME pc[q] = "refresh", Superseded(copy[q])'
                   PROVE  fails' > 0 /\ stored'.s # copy[q].s
        BY <1>3, <1>11 DEF Presents
      <3>1. Superseded(copy[q]) /\ fails > 0 /\ stored.s # copy[q].s
        BY <1>3, <1>4, <1>11, <2>1 DEF Superseded, Presents
      <3>2. pc[p] = "storeLogin" /\ y.g = 1
        BY <1>1, <1>2, <1>11, OneAtATime DEF InHand
      <3>3. copy[q].s # y.s
        <4> SUFFICES ASSUME copy[q].s = y.s PROVE FALSE
          OBVIOUS
        <4>1. gen[copy[q].s] = 1
          BY <1>5, <3>1, <3>2 DEF Superseded
        <4>2. /\ copy[q] \in Pair /\ copy[q] # NoPair /\ copy[q].g \in 1..MaxGen
              /\ copy[q].g <= gen[copy[q].s]
          BY <3>1, <4>1, PairFields DEF ReplayInv, PairsInv, TypeOK, Issued, Known, Superseded
        <4>3. copy[q].g = 1
          BY <4>1, <4>2 DEF SessionAssumption
        <4> QED BY <3>1, <4>1, <4>3 DEF Superseded
      <3> QED BY <1>4, <1>6, <3>1, <3>3
    <2> QED BY <2>2, <2>3, <2>4
  <1> QED BY <1>8, <1>9, <1>10, <1>11 DEF ReplayInv

\* The row is wiped after a refusal, which a failure must have preceded.
LEMMA ReplayOfWipe ==
    ASSUME SessionAssumption, OneManager, ReplayInv, PairsInv', NEW p \in Collectors, Wipe(p)
    PROVE  ReplayInv'
  <1>1. /\ TypeOK /\ InHand(p) /\ GivenUp(p) /\ Faults /\ Known(copy[p]) /\ copy[p] \in Pair
        /\ pc[p] = "wipe" /\ copy[p] # NoPair
    BY DEF ReplayInv, PairsInv, Issued, Wipe, InHand, TypeOK
  <1>2. fails > 0
    BY <1>1, EndedByFault DEF GivenUp
  <1>3. /\ UNCHANGED <<gen, issued, expired, lock, got, lost, fails>> /\ stored' = NoPair
        /\ copy'[p] = NoPair /\ pc'[p] = "login"
        /\ \A q \in Collectors \ {p} : pc'[q] = pc[q] /\ copy'[q] = copy[q]
    BY <1>1 DEF Wipe, Goto, TypeOK
  <1>4. Faults' /\ ~Superseded(stored)'
    BY <1>1, <1>3 DEF Faults, Superseded
  <1>5. Locked(p)' /\ GivenUp(p)' /\ Replaced(p)' /\ Presents(p)'
    BY <1>3 DEF Locked, GivenUp, Replaced, Presents, Superseded
  <1>6. ASSUME NEW q \in Collectors, q # p
        PROVE  Locked(q)' /\ GivenUp(q)' /\ Replaced(q)' /\ Presents(q)'
    <2>1. Locked(q)' /\ GivenUp(q)'
      BY <1>3, <1>6, Bystander
    <2>2. Replaced(q)'
      BY <1>2, <1>3, <1>6 DEF ReplayInv, Replaced, Superseded
    <2>3. Presents(q)'
      <3>1. Superseded(copy[q]) => copy[q].s # 0
        BY PairFields DEF Superseded, ReplayInv, PairsInv, TypeOK
      <3> QED BY <1>2, <1>3, <1>6, <3>1 DEF Presents, Superseded, NoPair
    <2> QED BY <2>1, <2>2, <2>3
  <1> QED BY <1>4, <1>5, <1>6 DEF ReplayInv

\* A new session supersedes no pair.
LEMMA ReplayOfLogin ==
    ASSUME SessionAssumption, OneManager, ReplayInv, PairsInv', NEW p \in Collectors, LoginCall(p)
    PROVE  ReplayInv'
  <1>1. /\ TypeOK /\ InHand(p) /\ pc[p] = "loggingIn" /\ copy[p] = NoPair /\ got[p] = NoPair
        /\ Faults
        /\ Superseded(stored) => stored \in expired
    BY DEF ReplayInv, PairsInv, LoginCall, InHand
  <1>2. /\ UNCHANGED <<stored, expired, copy, lost, lock, fails>> /\ issued' = issued + 1
        /\ issued \in Nat /\ issued' \in 1..MaxSessions
        /\ gen'[issued'] = 1 /\ \A s \in 1..MaxSessions : s # issued' => gen'[s] = gen[s]
        /\ pc'[p] = "storeLogin"
        /\ \A q \in Collectors \ {p} : pc'[q] = pc[q] /\ got'[q] = got[q]
    BY <1>1 DEF LoginCall, Goto, TypeOK, SessionAssumption
  <1>3. ASSUME NEW z \in Pair, Known(z), z # NoPair PROVE gen'[z.s] = gen[z.s]
    BY <1>2, <1>3, PairFields DEF Known
  <1>4. Faults'
    <2>1. ASSUME NEW s \in 1..issued', gen'[s] = 0 PROVE fails' > 0
      <3>1. s \in 1..MaxSessions /\ s # issued' /\ s \in 1..issued
        BY <1>2, <2>1, SessionAssumption
      <3>2. gen[s] = 0
        BY <1>2, <2>1, <3>1
      <3> QED BY <1>1, <1>2, <3>1, <3>2 DEF Faults
    <2> QED BY <1>1, <1>2, <2>1 DEF Faults
  <1>5. Superseded(stored)' => stored' \in expired'
    BY <1>1, <1>2, <1>3 DEF Superseded, ReplayInv, PairsInv, Issued, TypeOK
  <1>6. ASSUME NEW q \in Collectors
        PROVE  Locked(q)' /\ GivenUp(q)' /\ Replaced(q)' /\ Presents(q)'
    <2>1. /\ copy[q] \in Pair /\ Known(copy[q]) /\ copy' = copy /\ InHand(q)
          /\ Locked(q) /\ GivenUp(q) /\ Replaced(q) /\ Presents(q)
      BY <1>2 DEF ReplayInv, PairsInv, Issued, TypeOK
    <2>2. copy[q] # NoPair => gen'[copy[q].s] = gen[copy[q].s]
      BY <1>3, <2>1
    <2>3. pc'[q] = pc[q] \/ (pc'[q] = "storeLogin" /\ q = p)
      BY <1>2
    <2>4. Superseded(copy[q])' => Superseded(copy[q])
      BY <1>2, <2>1, <2>2 DEF Superseded
    <2>5. Locked(q)' /\ Presents(q)'
      BY <1>2, <2>1, <2>3, <2>4 DEF Locked, Presents
    <2>6. GivenUp(q)'
      BY <1>2, <2>1, <2>2, <2>3 DEF GivenUp, InHand
    <2>7. Replaced(q)'
      <3>1. \A c \in Collectors : pc[c] = "store" => pc'[c] = "store" /\ got'[c] = got[c]
        BY <1>1, <1>2
      <3> QED BY <1>2, <2>1, <2>4, <3>1 DEF Replaced, Valid
    <2> QED BY <2>5, <2>6, <2>7
  <1> QED BY <1>4, <1>5, <1>6 DEF ReplayInv

\* A token that outlives a run expires in no hand but that of a run with the same pair; a
\* session the upstream ends, and a death of the process, count as failures.
LEMMA ReplayOfWorld ==
    ASSUME SessionAssumption, OneManager, ~ShortLived, ReplayInv, PairsInv',
           Time \/ UpstreamRevokes \/ Crash
    PROVE  ReplayInv'
  <1>1. CASE Expire
    <2>1. PICK x : /\ Valid(x) /\ expired' = expired \cup {x}
                   /\ \A p \in Collectors : Busy(p) => copy[p] \in {x, NoPair}
      BY <1>1 DEF Expire
    <2>2. UNCHANGED <<stored, gen, issued, lock, pc, copy, got, lost, fails>>
      BY <1>1 DEF Expire, runVars
    <2>3. Faults' /\ (Superseded(stored)' => stored' \in expired')
      BY <2>1, <2>2 DEF ReplayInv, Faults, Superseded
    <2>4. ASSUME NEW q \in Collectors
          PROVE  Locked(q)' /\ GivenUp(q)' /\ Replaced(q)' /\ Presents(q)'
      <3>1. Locked(q) /\ GivenUp(q) /\ Replaced(q) /\ Presents(q) /\ InHand(q)
        BY DEF ReplayInv, PairsInv
      <3>2. ~Superseded(copy[q])
        BY <2>1, <3>1 DEF Replaced, Superseded, InHand, Busy, Valid
      <3> QED BY <2>1, <2>2, <3>1, <3>2 DEF Locked, GivenUp, Replaced, Presents, Superseded
    <2> QED BY <2>3, <2>4 DEF ReplayInv
  <1>2. CASE CooldownEnds \/ GateOpens
    <2>1. UNCHANGED <<stored, gen, issued, expired, lock, pc, copy, got, lost, fails>>
      BY <1>2 DEF CooldownEnds, GateOpens, runVars
    <2> QED BY <2>1 DEF ReplayInv, Faults, Locked, GivenUp, Replaced, Presents, Superseded, Valid
  <1>3. CASE UpstreamRevokes
    <2>1. /\ UNCHANGED <<stored, issued, expired, lock, pc, copy, got, lost>> /\ fails' > 0
          /\ \A s \in 1..MaxSessions : gen'[s] = 0 \/ gen'[s] = gen[s]
      BY <1>3 DEF UpstreamRevokes, runVars, Fail, ReplayInv, PairsInv, TypeOK
    <2>2. ASSUME NEW z \in Pair, z # NoPair
          PROVE  gen'[z.s] = 0 \/ gen'[z.s] = gen[z.s]
      BY <2>1, <2>2, PairFields
    <2>3. Faults'
      BY <2>1 DEF Faults
    <2>4. Superseded(stored)' => stored' \in expired'
      BY <2>1, <2>2 DEF ReplayInv, PairsInv, TypeOK, Superseded
    <2>5. ASSUME NEW q \in Collectors
          PROVE  Locked(q)' /\ GivenUp(q)' /\ Replaced(q)' /\ Presents(q)'
      <3>1. /\ Locked(q) /\ GivenUp(q) /\ Replaced(q) /\ Presents(q) /\ InHand(q)
            /\ copy[q] # NoPair => gen'[copy[q].s] = 0 \/ gen'[copy[q].s] = gen[copy[q].s]
        BY <2>2 DEF ReplayInv, PairsInv, TypeOK
      <3>2. Superseded(copy[q])' => Superseded(copy[q])
        BY <2>1, <3>1 DEF Superseded
      <3>3. Locked(q)' /\ Replaced(q)' /\ Presents(q)'
        BY <2>1, <3>1, <3>2 DEF Locked, Replaced, Presents, Valid
      <3>4. GivenUp(q)'
        BY <2>1, <3>1 DEF GivenUp, InHand
      <3> QED BY <3>3, <3>4
    <2> QED BY <2>3, <2>4, <2>5 DEF ReplayInv
  <1>4. CASE Crash
    <2>1. /\ UNCHANGED <<stored, gen, issued, expired>> /\ lost \subseteq lost' /\ fails' > 0
          /\ \A q \in Collectors : pc'[q] = "idle" /\ copy'[q] = NoPair
      BY <1>4 DEF Crash, Fail, ReplayInv, PairsInv, TypeOK
    <2>2. Faults' /\ (Superseded(stored)' => stored' \in expired')
      BY <2>1 DEF Faults, ReplayInv, Superseded
    <2> QED BY <2>1, <2>2 DEF ReplayInv, Locked, GivenUp, Replaced, Presents, Superseded
  <1> QED BY <1>1, <1>2, <1>3, <1>4 DEF Time

\* Overlapping runs never end a session: a superseded token of a live session is
\* presented only when the session's rotation was lost, or after a failure when the row
\* no longer holds the session (the refresh lock and the second look of
\* provider_token.go).  One manager, and tokens that outlive the runs that hold them.
THEOREM NoReplay ==
    ASSUME OneManager, ~ShortLived PROVE Spec => ReplayOnlyAfterLoss
  <1>1. Init => ReplayInv
    <2> SUFFICES ASSUME Init PROVE ReplayInv
      OBVIOUS
    <2>1. PairsInv
      BY PairsAtStart, SessionAssumption
    <2> QED BY <2>1 DEF Init, ReplayInv, Faults, Locked, GivenUp, Replaced, Presents, Superseded
  <1>2. ReplayInv /\ [Next]_vars => ReplayInv'
    <2> SUFFICES ASSUME ReplayInv, [Next]_vars PROVE ReplayInv'
      OBVIOUS
    <2>1. PairsInv'
      BY PairsStep, SessionAssumption DEF ReplayInv
    <2>2. CASE Next
      BY <2>1, <2>2, SessionAssumption, ReplaySteady, ReplayOfRefresh, ReplayOfLostAnswer,
         ReplayOfStore, ReplayOfWipe, ReplayOfLogin, ReplayOfWorld DEF Next, Steps, Failures
    <2>3. CASE UNCHANGED vars
      BY <2>1, <2>3 DEF vars, moving, siteVars, runVars, ReplayInv, Faults, Locked, GivenUp,
                        Replaced, Presents, Superseded, Valid
    <2> QED BY <2>2, <2>3
  <1>3. ReplayInv => \A p \in Collectors : RefreshCall(p) =>
                         \/ gen[copy[p].s] \in {0, copy[p].g}
                         \/ copy[p].s \in lost
                         \/ fails > 0 /\ stored.s # copy[p].s
    BY DEF ReplayInv, PairsInv, InHand, RefreshCall, Presents, Superseded
  <1> QED BY <1>1, <1>2, <1>3, PTL DEF Spec, ReplayOnlyAfterLoss
=============================================================================

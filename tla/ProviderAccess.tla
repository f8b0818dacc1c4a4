--------------------------- MODULE ProviderAccess ---------------------------
(***************************************************************************)
(* What a site is entered with, and edits of it while runs use it: the     *)
(* credential columns of repository/provider_repo.go, written by an edit   *)
(* in several statements and by every run of service/provider_token.go     *)
(* from the copy of the row it started with, in every mode of              *)
(* authentication.                                                         *)
(*                                                                         *)
(* A token is named by the account of the site it belongs to; which        *)
(* sessions of one account are alive is ProviderSession.  The lock of a    *)
(* refresh is left out: two services have one each, so it excludes less    *)
(* than it seems.  base_url is present throughout, an expiry that is past  *)
(* is as none, and a login that gives tokens gives no other cookie.  A run *)
(* uses one session; what it does with it is in ProviderSync and CostSync. *)
(***************************************************************************)
EXTENDS Integers, Sequences, FiniteSets

CONSTANTS
    Runs,
    Logins,        \* accounts of the operator at the site
    Platforms,     \* "sub2api", "new-api": what the site may be
    Rows,          \* how the site may have been created
    Forms,         \* what an edit may submit; Same is a nil pointer
    MaxEdits,      \* bounds edits
    MaxEvents,     \* bounds failures and expiries
    None, Same

Names == Logins \cup {None}
Modes == {"password", "token", "user_key"}
RowType == [mode : Modes, email : Names, password : Names, access : Names, refresh : Names,
            expiry : {"null", "later"}, cookie : Names, user : Names,
            cool : {"none", "on", "over"}]
FormType == [mode : Modes, email : Names, user : Names, password : Names \cup {Same},
             access : Names \cup {Same}, refresh : Names \cup {Same}]
NoSession == [kind |-> "none", who |-> None, user |-> None]
Blank == [mode |-> "password", email |-> None, password |-> None, access |-> None,
          refresh |-> None, expiry |-> "null", cookie |-> None, user |-> None, cool |-> "none"]
NoForm == [mode |-> "password", email |-> None, user |-> None, password |-> Same, access |-> Same,
           refresh |-> Same]
Idle == [pc |-> "idle", copy |-> Blank, session |-> NoSession, again |-> FALSE, want |-> None,
         fresh |-> FALSE]

AccessAssumption ==
    /\ None \notin Logins /\ Same \notin Names
    /\ Platforms \subseteq {"sub2api", "new-api"}
    /\ Rows \subseteq RowType /\ Forms \subseteq FormType
    /\ \A p \in Rows : p.expiry = "null" /\ p.cookie = None     \* no session yet
    /\ MaxEdits \in Nat /\ MaxEvents \in Nat

VARIABLES
    platform,
    row,          \* the row of providers
    todo,         \* the statements the edit under way has yet to do
    form,         \* ... and what it submits; NoForm when there is none
    run,          \* of a run: where it is, its copy of the row, the session it uses, whether it
                  \* has met a 401, the account it should use (None: open), and whether it
                  \* began with the row as the last edit left it
    named,        \* history: the account the last edit entered, None when that is open
    ready,        \* history: was the row enough to collect when it was last saved?
    spoilt,       \* history: has a run from before the last edit written since it began?
    edits, events

accessVars == <<platform, row, todo, form, run, named, ready, spoilt, edits, events>>
-----------------------------------------------------------------------------
(***************************************************************************)
(* The row                                                                 *)
(***************************************************************************)
\* The mistake: a key needs no user.
ReadyWithoutUser(p) ==
    \/ p.mode = "password" /\ p.email # None /\ p.password # None
    \/ p.mode = "token" /\ (p.refresh # None \/ p.access # None)
    \/ p.mode = "user_key" /\ p.access # None

\* Are the credentials complete?
CredentialsReady(p) ==
    \/ p.mode = "password" /\ p.email # None /\ p.password # None
    \/ p.mode = "token" /\ (p.refresh # None \/ p.access # None)
    \/ p.mode = "user_key" /\ p.access # None /\ p.user # None

tokenValid(p) == p.access # None /\ p.expiry = "later"

\* Is a login with the password the only way to a session?
needsPasswordLogin(p) ==
    /\ p.mode = "password" /\ ~tokenValid(p) /\ p.refresh = None
    /\ platform = "new-api" => p.cookie = None \/ p.user = None

UpdateTokenPair(p, access, refresh, expiry) ==
    [p EXCEPT !.access = access, !.refresh = refresh, !.expiry = expiry]
UpdateSession(p, cookie, user) == [p EXCEPT !.cookie = cookie, !.user = user]
ClearToken(p) == [p EXCEPT !.access = None, !.expiry = "null", !.cookie = None]
ClearLoginCooldown(p) == [p EXCEPT !.cool = "none"]

\* The row once a run whose copy knows of rejections has succeeded.
clearRejected(p, c) == IF c.cool = "none" THEN p ELSE ClearLoginCooldown(p)

\* The account that what is entered names; None when it names none or more than one.
Entered(p) ==
    CASE p.mode = "password" -> IF p.email = p.password THEN p.email ELSE None
      [] p.mode = "token"    -> IF p.access = p.refresh \/ p.access = None THEN p.refresh
                                ELSE IF p.refresh = None THEN p.access ELSE None
      [] p.mode = "user_key" -> IF p.access = p.user THEN p.access ELSE None

\* A refresh token of another account outlived the edit that replaced it.
LeftOver(p) == p.mode = "password" /\ p.refresh \notin {None, p.email}
-----------------------------------------------------------------------------
Init ==
    /\ platform \in Platforms
    /\ row \in {p \in Rows : p.mode \in IF platform = "sub2api" THEN {"password", "token"}
                                        ELSE {"password", "user_key"}}
    /\ todo = <<>> /\ form = NoForm
    /\ run = [r \in Runs |-> Idle] /\ named = Entered(row)
    /\ ready = CredentialsReady(row) /\ spoilt = LeftOver(row) /\ edits = 0 /\ events = 0

Event == events < MaxEvents /\ events' = events + 1

(***************************************************************************)
(* Edits: one statement after the other, each committed on its own         *)
(***************************************************************************)
Given(f) ==
    (IF f.password # Same THEN <<"password">> ELSE <<>>)
    \o (IF f.access # Same THEN <<"access">> ELSE <<>>)
    \o (IF f.refresh # Same THEN <<"refresh">> ELSE <<>>)

\* The mistake: sessions outlive the credentials they came from.
StatementsWithoutReset(f) == <<"base">> \o Given(f)

Statements(f) ==
    <<"base">> \o Given(f)
    \o (IF Given(f) # <<>> THEN <<"reset">> ELSE <<>>)
    \o (IF Given(f) # <<>> /\ f.access = Same /\ f.mode = "password" THEN <<"clear">> ELSE <<>>)

\* The administrator submits; a combination the platform does not have is refused.
Submit(f) ==
    /\ todo = <<>> /\ edits < MaxEdits /\ edits' = edits + 1
    /\ f.mode \in IF platform = "sub2api" THEN {"password", "token"} ELSE {"password", "user_key"}
    /\ form' = f /\ todo' = Statements(f)
    /\ run' = [r \in Runs |-> [run[r] EXCEPT !.fresh = FALSE, !.want = None]]
    /\ ready' = FALSE /\ spoilt' = FALSE
    /\ UNCHANGED <<platform, row, named, events>>

Done(statement, p, f) ==
    CASE statement = "base"     -> [p EXCEPT !.mode = f.mode, !.email = f.email, !.user = f.user]
      [] statement = "password" -> [p EXCEPT !.password = f.password]
      [] statement = "access"   -> [p EXCEPT !.access = f.access]
      [] statement = "refresh"  -> [p EXCEPT !.refresh = f.refresh]
      [] statement = "reset"    -> [p EXCEPT !.expiry = "null", !.cookie = None, !.cool = "none"]
      [] statement = "clear"    -> [p EXCEPT !.access = None]

\* After the last statement the row is what the administrator entered.
Update ==
    /\ todo # <<>>
    /\ row' = Done(Head(todo), row, form)
    /\ todo' = Tail(todo)
    /\ form' = IF Tail(todo) = <<>> THEN NoForm ELSE form
    /\ IF Tail(todo) = <<>>
       THEN /\ named' = IF Given(form) = <<>> THEN None ELSE Entered(row')
            /\ ready' = CredentialsReady(row')
            /\ spoilt' = (spoilt \/ LeftOver(row'))
       ELSE UNCHANGED <<named, ready, spoilt>>
    /\ UNCHANGED <<platform, run, edits, events>>

\* A statement fails, and the rest is not done.
UpdateFails ==
    /\ Event /\ todo # <<>>
    /\ todo' = <<>> /\ form' = NoForm /\ named' = None
    /\ UNCHANGED <<platform, row, run, ready, spoilt, edits>>

Expire ==
    /\ Event
    /\ \/ row.expiry = "later" /\ row' = [row EXCEPT !.expiry = "null"]
       \/ row.cool = "on" /\ row' = [row EXCEPT !.cool = "over"]
    /\ UNCHANGED <<platform, todo, form, run, named, ready, spoilt, edits>>

(***************************************************************************)
(* Runs                                                                    *)
(***************************************************************************)
\* A run goes on with a copy c of its row, to a step, with a session.
Goes(r, step, c, s) ==
    /\ run' = [run EXCEPT ![r].pc = step, ![r].copy = c, ![r].session = s]
    /\ UNCHANGED <<platform, todo, form, edits>>

Ends(r) == run' = [run EXCEPT ![r] = Idle] /\ UNCHANGED <<platform, todo, form, edits>>

\* What a run writes; a run that began before an edit may undo what the edit saved.
Writes(r, p) ==
    /\ row' = p
    /\ spoilt' = (spoilt \/ (~run[r].fresh /\ p # row))
    /\ UNCHANGED <<named, ready>>

Reads == UNCHANGED <<row, named, ready, spoilt>>
Calm == UNCHANGED events

Access(p)  == [kind |-> "access", who |-> p.access, user |-> None]
Key(p)     == [kind |-> "key", who |-> p.access, user |-> p.user]
Cookie(p)  == [kind |-> "cookie", who |-> p.cookie, user |-> p.user]
At(step, s) == [pc |-> step, session |-> s]

\* Where a run gets its session from, in the order of the code.
ensure(p) ==
    IF p.mode = "user_key" THEN
       IF p.access # None /\ p.user # None THEN At("use", Key(p)) ELSE At("lacks", NoSession)
    ELSE IF tokenValid(p) THEN At("use", Access(p))
    ELSE IF p.refresh # None THEN At("refresh", NoSession)
    ELSE IF platform = "new-api" /\ p.cookie # None /\ p.user # None THEN At("use", Cookie(p))
    ELSE IF p.mode = "token" THEN
       IF p.access # None THEN At("use", Access(p)) ELSE At("lacks", NoSession)
    ELSE IF p.email # None /\ p.password # None THEN At("login", NoSession)
    ELSE At("lacks", NoSession)

\* A run loads the row, if it is complete and no cooldown stands in its way; a run started
\* by hand ignores the cooldown and clears it.
Load(r, manual) ==
    /\ run[r].pc = "idle" /\ CredentialsReady(row)
    /\ manual \/ ~(row.cool = "on" /\ needsPasswordLogin(row))
    /\ row' = IF manual THEN ClearLoginCooldown(row) ELSE row
    /\ run' = [run EXCEPT ![r] =
         [pc |-> ensure(row').pc, session |-> ensure(row').session, copy |-> row', again |-> FALSE,
          fresh |-> todo = <<>>, want |-> IF todo = <<>> THEN named ELSE None]]
    /\ UNCHANGED <<platform, todo, form, named, ready, spoilt, edits, events>>

\* A run that lacks a credential ends.
GiveUp(r) == run[r].pc = "lacks" /\ Ends(r) /\ Reads /\ Calm

\* Before a refresh the row is read again: a valid token other than one's own is taken.
\* Tokens of one account may be the same or not.
Adopt(r) ==
    /\ run[r].pc = "refresh" /\ tokenValid(row)
    /\ LET p == UpdateTokenPair(run[r].copy, row.access, row.refresh, row.expiry)
       IN Goes(r, "use", p, Access(p)) /\ Reads /\ Calm

AskRefresh(r) ==
    /\ run[r].pc = "refresh"
    /\ ~tokenValid(row) \/ row.access = run[r].copy.access
    /\ LET p == run[r].copy
       IN \/ \* a new pair, to be stored
             /\ Goes(r, "store", UpdateTokenPair(p, p.refresh, p.refresh, "later"), NoSession)
             /\ UNCHANGED events
          \/ \* the refresh token is invalid: wipe and log in, where there is a password
             /\ Event
             /\ IF p.mode = "password"
                THEN Goes(r, "wipe", UpdateTokenPair(p, None, None, "null"), NoSession)
                ELSE Ends(r)
          \/ \* anything else leaves everything as it is
             Event /\ Ends(r)
    /\ Reads

\* On a sub2api site what was refreshed also ends the cooldown.
Store(r) ==
    LET p == run[r].copy
        cleared == IF platform = "sub2api" THEN clearRejected(row, p) ELSE row
    IN /\ run[r].pc = "store"
       /\ Writes(r, UpdateTokenPair(cleared, p.access, p.refresh, p.expiry))
       /\ Goes(r, "use", p, Access(p))
       /\ Calm

Wipe(r) ==
    /\ run[r].pc = "wipe"
    /\ Writes(r, UpdateTokenPair(row, None, None, "null"))
    /\ Goes(r, "login", run[r].copy, NoSession)
    /\ Calm

\* A login that is refused by the cooldown the run knows of or by the gate, or not answered.
LoginFails(r) ==
    /\ run[r].pc = "login"
    /\ run[r].copy.cool = "on" \/ events < MaxEvents
    /\ events' = IF run[r].copy.cool = "on" THEN events ELSE events + 1
    /\ Ends(r) /\ Reads

RecordRejected(r) ==
    LET p == run[r].copy
    IN /\ run[r].pc = "login" /\ p.cool # "on" /\ p.email # p.password
       /\ row' = [row EXCEPT !.cool = "on"]
       /\ Ends(r) /\ UNCHANGED <<named, ready, spoilt>> /\ Calm

\* What a login gave is stored: the pair, or on a new-api site the cookie and the user, and
\* then the pair if there is one.
StoreLogin(r) ==
    LET who == run[r].copy.email
        p == ClearLoginCooldown(run[r].copy)
        cleared == clearRejected(row, run[r].copy)
    IN /\ run[r].pc = "login" /\ run[r].copy.cool # "on" /\ who = run[r].copy.password
       /\ \E refresh \in {None, who} :
            \/ /\ platform = "sub2api"
               /\ LET c == UpdateTokenPair(p, who, refresh, "later")
                  IN Goes(r, "use", c, Access(c))
               /\ Writes(r, UpdateTokenPair(cleared, who, refresh, "later"))
            \/ LET c == UpdateSession(p, None, who)
               IN /\ platform = "new-api"
                  /\ Goes(r, "store", UpdateTokenPair(c, who, refresh, "later"), NoSession)
                  /\ Writes(r, UpdateSession(cleared, None, who))
            \/ LET c == UpdateSession(p, who, who)
               IN /\ platform = "new-api" /\ refresh = None
                  /\ Goes(r, "use", c, Cookie(c))
                  /\ Writes(r, UpdateSession(cleared, who, who))
       /\ Calm

\* A cookie and a key are accepted only with the user they belong to.
Fits(s) == s.kind \in {"cookie", "key"} => s.user = s.who

\* A run that got in clears the cooldown.  (The unit of a new-api site is never unknown: its
\* column has a default, so the session is not stored again with it.)
Accepted(r) ==
    /\ run[r].pc = "use" /\ Fits(run[r].session)
    /\ Writes(r, clearRejected(row, run[r].copy))
    /\ Ends(r) /\ Calm

\* The session is refused: once a run gets another one, by the way of its mode.
Refused(r) ==
    LET p == run[r].copy
        Retry(step, c, s) ==
          /\ run' = [run EXCEPT ![r].pc = step, ![r].copy = c, ![r].session = s, ![r].again = TRUE]
          /\ UNCHANGED <<platform, todo, form, edits>>
        Anew(c) == Retry(ensure(c).pc, c, ensure(c).session)
    IN /\ run[r].pc = "use" /\ (Fits(run[r].session) => events < MaxEvents)
       /\ events' = IF Fits(run[r].session) THEN events + 1 ELSE events
       /\ \/ run[r].again /\ Ends(r) /\ Reads
          \/ /\ ~run[r].again /\ p.mode = "user_key"
             /\ IF row.mode = "user_key" /\ row.access # None
                   /\ <<row.access, row.user>> # <<p.access, p.user>>
                THEN LET c == [p EXCEPT !.access = row.access, !.user = row.user]
                     IN Retry("use", c, Key(c))
                ELSE Ends(r)
             /\ Reads
          \/ /\ ~run[r].again /\ p.mode # "user_key" /\ p.refresh # None
             /\ Retry("refresh", IF platform = "sub2api" THEN [p EXCEPT !.expiry = "null"] ELSE p,
                      NoSession)
             /\ Reads
          \/ /\ ~run[r].again /\ p.mode = "token" /\ p.refresh = None
             /\ Anew([p EXCEPT !.expiry = "null"])
             /\ Reads
          \/ /\ ~run[r].again /\ p.mode = "password" /\ p.refresh = None
             /\ IF platform = "sub2api"
                THEN /\ Anew([p EXCEPT !.access = None, !.expiry = "null"])
                     /\ Writes(r, ClearToken(row))
                ELSE /\ Anew([p EXCEPT !.cookie = None])
                     /\ Writes(r, UpdateSession(row, None, p.user))

Next ==
    \/ \E f \in Forms : Submit(f)
    \/ Update \/ UpdateFails \/ Expire
    \/ \E r \in Runs :
        \/ \E manual \in BOOLEAN : Load(r, manual)
        \/ GiveUp(r) \/ Adopt(r) \/ AskRefresh(r) \/ Store(r) \/ Wipe(r)
        \/ LoginFails(r) \/ RecordRejected(r) \/ StoreLogin(r) \/ Accepted(r) \/ Refused(r)

Spec == Init /\ [][Next]_accessVars
-----------------------------------------------------------------------------
TypeOK ==
    /\ platform \in Platforms /\ row \in RowType /\ form \in FormType
    /\ run \in [Runs -> [pc : {"idle", "lacks", "refresh", "store", "wipe", "login", "use"},
                        copy : RowType, again : BOOLEAN, fresh : BOOLEAN, want : Names,
                        session : [kind : {"none", "access", "key", "cookie"},
                                   who : Names, user : Names]]]
    /\ named \in Names /\ ready \in BOOLEAN /\ spoilt \in BOOLEAN
    /\ edits \in 0..MaxEdits /\ events \in 0..MaxEvents

\* A run that began after an edit uses a session of the account that was entered, unless a
\* refresh token of another account outlived the edit or an older run wrote after it.
OwnSession == \A r \in Runs :
    run[r].pc = "use" /\ run[r].fresh /\ run[r].want # None /\ ~spoilt =>
        run[r].session.who = run[r].want

\* What was enough to collect stays enough, unless a run from before the edit wrote over it.
StaysReady == ready /\ ~spoilt => CredentialsReady(row)

\* A run is not begun without what it needs.
CredentialsSuffice == \A r \in Runs : run[r].pc # "lacks"

AccessIsTrue == OwnSession /\ StaysReady /\ CredentialsSuffice
=============================================================================

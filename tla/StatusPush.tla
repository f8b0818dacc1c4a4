----------------------------- MODULE StatusPush -----------------------------
(***************************************************************************)
(* Settings and their hot reload, and the status picture that is pushed to *)
(* groups of a chat (service/settings_service.go, service/status_push.go,  *)
(* notify, handler/settings_handler.go).  A setting lives in four places:  *)
(* the row of the database, the copy in memory, and what was built from    *)
(* it: the timer of the push, the channels of the notifier.  A save walks  *)
(* through them in that order and nothing makes two saves wait for each    *)
(* other.                                                                  *)
(***************************************************************************)
EXTENDS StatusBoard

CONSTANTS
    Savers,         \* requests that save settings
    Pushers,        \* pushes, by timer or by hand
    PushForms,      \* what the form of the push may say
    ChannelForms,   \* what the form of the channels may say
    Traffics,       \* the traffic of the window
    Groups,         \* the groups of the site, in their order
    MaxEvents       \* bound: saves, pushes and restarts

Intervals == {30, 60, 120, 180, 240, 360, 720}      \* StatusPushIntervalOptions
Keep == "keep"              \* a secret the form does not give (nil)
NoPush == [at |-> "idle"]

PushAssumption ==
    /\ BoardAssumption
    /\ PushForms \subseteq [enabled : BOOLEAN, interval : Nat, chats : Seq(STRING),
                            excluded : SUBSET Nat]
    /\ ChannelForms \subseteq [tg : BOOLEAN, hook : BOOLEAN, token : STRING]
    /\ \A t \in Traffics : IsTraffic(t)
    /\ Groups \in Seq([id : Nat, active : BOOLEAN, exclusive : BOOLEAN])
    /\ MaxEvents \in Nat

VARIABLES
    stored,         \* the settings in the database, by domain
    live,           \* SettingsService: the settings in memory
    timer,          \* the entries of the push's cron, by their interval
    channels,       \* notify.Manager: the channels that are built
    save,           \* the save of each request
    traffic,        \* the requests of the window
    run,            \* the push each pusher runs
    last,           \* the result the page shows
    crossed,        \* history: domains of which two saves overlapped since the last start
    given,          \* history: the last token a request gave and saved
    events          \* bound: saves, pushes and restarts so far

vars == <<stored, live, timer, channels, save, traffic, run, last, crossed, given, events>>

Domains == {"push", "channels"}

(***************************************************************************)
(* Values                                                                  *)
(***************************************************************************)
\* normalize and cleanChatIDs: an unknown interval becomes an hour; each chat once, in order.
Clean(chats) ==
    InOrder(chats, {i \in DOMAIN chats : /\ chats[i] # ""
                                        /\ \A j \in 1 .. i - 1 : chats[j] # chats[i]})

Normalized(form) ==
    [form EXCEPT !.interval = IF form.interval \in Intervals THEN form.interval ELSE 60,
                 !.chats = Clean(form.chats)]

\* ValidateStatusPushChatIDs: "?" stands for what is no chat.
Valid(form) == "?" \notin ToSet(Clean(form.chats))

\* Mutant: a secret the form does not give is cleared.
Overwritten(form, current) == [form EXCEPT !.token = IF form.token = Keep THEN "" ELSE form.token]

\* merge: the secret the form does not give stays.
Merged(form, current) ==
    [form EXCEPT !.token = IF form.token = Keep THEN current.token ELSE form.token]

\* Build: the channels that are switched on and complete.
Built(config) ==
    (IF config.hook THEN {"hook"} ELSE {})
      \cup (IF config.tg /\ config.token # "" THEN {"telegram"} ELSE {})

\* Mutant: the old entry stays.
Added(entries, settings) ==
    entries \o (IF settings.enabled THEN <<settings.interval>> ELSE <<>>)

\* rescheduleLocked: its own entry, the last one, goes; a new one comes if it is enabled.
Rescheduled(entries, settings) ==
    SubSeq(entries, 1, Len(entries) - 1)
      \o (IF settings.enabled THEN <<settings.interval>> ELSE <<>>)

\* checkTelegramResp and checkResponse: delivered is what Telegram confirms with a 200.
Delivered(answer) == answer = "ok"
Answers == {"ok", "refused", "unreadable", "no answer"}

(***************************************************************************)
(* Initial states                                                          *)
(***************************************************************************)
Defaults ==
    [push |-> [enabled |-> FALSE, interval |-> 60, chats |-> <<>>, excluded |-> {}],
     channels |-> [tg |-> FALSE, hook |-> FALSE, token |-> ""]]

Init ==
    /\ stored = Defaults /\ live = Defaults
    /\ timer = <<>>
    /\ channels = {}
    /\ save = [s \in Savers |-> NoPush]
    /\ traffic \in Traffics
    /\ run = [p \in Pushers |-> NoPush]
    /\ last = NoPush
    /\ crossed = {}
    /\ given = ""
    /\ events = 0

TypeOK ==
    /\ DOMAIN stored = Domains /\ DOMAIN live = Domains
    /\ ToSet(timer) \subseteq Intervals
    /\ channels \subseteq {"hook", "telegram"}
    /\ \A s \in Savers : save[s].at \in {"idle", "set", "live", "call"}
    /\ \A p \in Pushers : run[p].at \in {"idle", "token", "board", "send"}
    /\ crossed \subseteq Domains
    /\ events \in 0 .. MaxEvents

(***************************************************************************)
(* Saving (SaveStatusPush, SaveChannels)                                   *)
(***************************************************************************)
Saving(d) == {s \in Savers : save[s].at # "idle" /\ save[s].domain = d}

Save(s, d, value, gives) ==
    /\ save[s].at = "idle" /\ events < MaxEvents
    /\ events' = events + 1
    /\ save' = [save EXCEPT ![s] = [at |-> "set", domain |-> d, value |-> value, gives |-> gives]]
    /\ crossed' = IF Saving(d) # {} THEN crossed \cup {d} ELSE crossed
    /\ UNCHANGED <<stored, live, timer, channels, traffic, run, last, given>>

SavePush(s) ==
    \E form \in PushForms :
        /\ Valid(form)
        /\ Save(s, "push", Normalized(form), FALSE)

\* The secrets of the form are merged with those in memory when the request comes.
SaveChannels(s) ==
    \E form \in ChannelForms :
        Save(s, "channels", Merged(form, live.channels), form.token # Keep)

\* repo.Set: the row, or an error and nothing else happens.
Set(s, fails) ==
    /\ save[s].at = "set"
    /\ stored' = IF fails THEN stored ELSE [stored EXCEPT ![save[s].domain] = save[s].value]
    /\ save' = [save EXCEPT ![s] = IF fails THEN NoPush ELSE [@ EXCEPT !.at = "live"]]
    /\ given' = IF ~fails /\ save[s].gives THEN save[s].value.token ELSE given
    /\ UNCHANGED <<live, timer, channels, traffic, run, last, crossed, events>>

SetLive(s) ==
    /\ save[s].at = "live"
    /\ live' = [live EXCEPT ![save[s].domain] = save[s].value]
    /\ save' = [save EXCEPT ![s].at = "call"]
    /\ UNCHANGED <<stored, timer, channels, traffic, run, last, crossed, given, events>>

\* The callback: Reload of the push, or of the notifier.
Call(s) ==
    /\ save[s].at = "call"
    /\ save' = [save EXCEPT ![s] = NoPush]
    /\ IF save[s].domain = "push"
       THEN timer' = Rescheduled(timer, save[s].value) /\ UNCHANGED channels
       ELSE channels' = Built(save[s].value) /\ UNCHANGED timer
    /\ UNCHANGED <<stored, live, traffic, run, last, crossed, given, events>>

\* The process ends and starts again: load, NewManager and Start build all from the rows.
Restart ==
    /\ events < MaxEvents
    /\ events' = events + 1
    /\ live' = stored
    /\ timer' = Rescheduled(<<>>, stored.push)
    /\ channels' = Built(stored.channels)
    /\ save' = [s \in Savers |-> NoPush]
    /\ run' = [p \in Pushers |-> NoPush]
    /\ last' = NoPush
    /\ crossed' = {}
    /\ given' = stored.channels.token
    /\ UNCHANGED <<stored, traffic>>

(***************************************************************************)
(* Pushing (runScheduled, PushNow, push)                                   *)
(***************************************************************************)
Goes(p, next) == run' = [run EXCEPT ![p] = next]

\* By timer when an entry is due and the push is still enabled; by hand whenever asked.
\* Neither goes on while the database of the site is away.
Start(p, byTimer) ==
    /\ run[p].at = "idle" /\ events < MaxEvents
    /\ byTimer => timer # <<>> /\ live.push.enabled
    /\ events' = events + 1
    /\ Goes(p, [at |-> "token", settings |-> live.push, byTimer |-> byTimer])
    /\ UNCHANGED <<stored, live, timer, channels, save, traffic, last, crossed, given>>

Record(p, result) == last' = result /\ Goes(p, NoPush)

Result(p) == [at |-> "done", to |-> run[p].settings, ok |-> FALSE, error |-> TRUE,
              reached |-> <<>>, failed |-> <<>>, board |-> [cards |-> <<>>, of |-> 0]]

\* The bot's token, now; then the chats of the settings.
CheckToken(p) ==
    /\ run[p].at = "token"
    /\ IF live.channels.token = "" \/ run[p].settings.chats = <<>>
       THEN Record(p, Result(p))
       ELSE /\ Goes(p, [at |-> "board", settings |-> run[p].settings, byTimer |-> run[p].byTimer])
            /\ UNCHANGED last
    /\ UNCHANGED <<stored, live, timer, channels, save, traffic, crossed, given, events>>

\* buildBoard: the groups and the traffic of now, or an error of the database.
Build(p, fails) ==
    /\ run[p].at = "board"
    /\ IF fails
       THEN Record(p, Result(p))
       ELSE /\ Goes(p, [at |-> "send", settings |-> run[p].settings, byTimer |-> run[p].byTimer,
                        board |-> Board(Groups, traffic, run[p].settings.excluded),
                        reached |-> <<>>, failed |-> <<>>])
            /\ UNCHANGED last
    /\ UNCHANGED <<stored, live, timer, channels, save, traffic, crossed, given, events>>

\* TelegramSendPhoto to the next chat; after the last one the result is recorded.
Send(p, answer) ==
    /\ run[p].at = "send"
    /\ LET r == run[p]
           done == Len(r.reached) + Len(r.failed)
           chat == r.settings.chats[done + 1]
           now == IF Delivered(answer) THEN [r EXCEPT !.reached = Append(@, chat)]
                                       ELSE [r EXCEPT !.failed = Append(@, chat)]
       IN  IF done + 1 < Len(r.settings.chats)
           THEN Goes(p, now) /\ UNCHANGED last
           ELSE Record(p, [Result(p) EXCEPT !.ok = now.failed = <<>>, !.error = FALSE,
                                            !.reached = now.reached, !.failed = now.failed,
                                            !.board = now.board])
    /\ UNCHANGED <<stored, live, timer, channels, save, traffic, crossed, given, events>>

Next ==
    \/ \E s \in Savers : SavePush(s) \/ SaveChannels(s) \/ SetLive(s) \/ Call(s)
    \/ \E s \in Savers, b \in BOOLEAN : Set(s, b)
    \/ Restart
    \/ \E p \in Pushers, b \in BOOLEAN : Start(p, b) \/ Build(p, b)
    \/ \E p \in Pushers : CheckToken(p) \/ \E a \in Answers : Send(p, a)

Spec == Init /\ [][Next]_vars
-----------------------------------------------------------------------------
(***************************************************************************)
(* Properties                                                              *)
(***************************************************************************)
\* SettingsService: where no two saves of a domain crossed and none is under way, the row,
\* the copy in memory and what was built from it say the same.
PlacesAgree ==
    \A d \in Domains \ crossed :
        Saving(d) = {} =>
            /\ live[d] = stored[d]
            /\ d = "push" => timer = (IF stored.push.enabled THEN <<stored.push.interval>> ELSE <<>>)
            /\ d = "channels" => channels = Built(stored.channels)

\* However saves cross there is one timer at most; where those of the channels did not, the
\* token is the last one a request gave, and what the others did not mention stayed.
NothingLost ==
    /\ Len(timer) <= 1
    /\ "channels" \notin crossed => stored.channels.token = given

\* push: a result that says "ok" reached every chat of its settings once, each result
\* accounts for all of them, and the board it sent is that of the settings it read.
ResultIsTrue ==
    last # NoPush /\ ~last.error =>
        LET told == last.reached \o last.failed IN
        /\ last.ok <=> last.failed = <<>>
        /\ ToSet(told) = ToSet(last.to.chats) /\ Len(told) = Cardinality(ToSet(told))
        /\ "?" \notin ToSet(told)
        /\ \A i \in DOMAIN last.board.cards : last.board.cards[i].group \notin last.to.excluded
        /\ Len(last.board.cards) < last.board.of <=> Len(PublicGroups(Groups, last.to.excluded)) > MaxCards

\* All of these, and the boards of every part of the window's traffic.
PushIsTrue ==
    /\ PlacesAgree /\ NothingLost /\ ResultIsTrue
    /\ events = 0 => \A seen \in SUBSET traffic, x \in {{}, {Groups[1].id}} :
                        TrueToTraffic(Groups, seen, x)
=============================================================================

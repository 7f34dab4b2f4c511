--------------------------- MODULE PlatformIngress ---------------------------
(***************************************************************************)
(* Platform ingress: the workers of packages/platforms/sessions.py, with   *)
(* the adapters they read YouTube and Twitch through, and the              *)
(* /dev/platform-event endpoint of the orchestrator bring messages to      *)
(* PlatformEventHub and its PlatformIngressGuard                           *)
(* (packages/platforms/contracts.py).                                      *)
(*                                                                         *)
(* The hub has no lock.  A thread can lose the processor between reading   *)
(* one of its lists and assigning the list back, and inside the copy of    *)
(* the recent texts; the code between two such points is one step.         *)
(*                                                                         *)
(* An item is what a platform shows: a "message", something the adapter    *)
(* skips ("blank"), something PlatformEvent refuses with ValueError        *)
(* ("invalid"), or something of a shape the adapter does not expect, which *)
(* raises what no runner catches ("odd").  All messages on one platform    *)
(* have one author; time is a clock of a few ticks.                        *)
(***************************************************************************)
EXTENDS Naturals, Sequences, FiniteSets, Functions

CONSTANTS Chats,            \* what a YouTube chat may come to show: sequences of items
          Notices,          \* items Twitch may send
          Posts,            \* messages the endpoint may receive
          Handlers,         \* HTTP handler threads
          MaxSeen, MaxEvents,                     \* max_seen_ids, max_events
          MaxRate, RateWindow, DuplicateWindow,   \* limits of the guard
          MaxTime,          \* bound: ticks of the clock
          MaxArrivals,      \* bound: items Twitch sends and requests to the endpoint
          MaxFaults         \* bound: failures of a platform

ASSUME IngressConstants ==
  /\ {MaxSeen, MaxEvents, MaxRate, RateWindow, DuplicateWindow} \subseteq Nat \ {0}
  /\ {MaxTime, MaxArrivals, MaxFaults} \subseteq Nat
  /\ {"youtube", "twitch"} \cap Handlers = {}
  /\ \A c \in Chats : c \in Seq({c[i] : i \in DOMAIN c})

VARIABLES
  seen, events,     \* _seen and _events
  times, recent,    \* _author_times and _recent_text
  clock,
  pc, job,          \* what each thread does in ingest(), and its locals
  chat, posted,     \* the YouTube chat, and how many of its items are there yet
  found,            \* whether live_chat_id is known
  token,            \* next_page_token: the number of items before the next page
  page,             \* the items of the current page: from page.next to page.last
  link,             \* the EventSub connection
  reconnecting,     \* whether reconnect_url is set
  dead,             \* workers ended by an exception their runner does not catch
  arrivals, faults,
  counted,          \* history: the number of messages the guard ever counted
  log,              \* history: the messages ingest() accepted
  brought,          \* history: the items of the chat whose turn came
  skipped,          \* history: those left of a page at which ingest() raised
  overlapped        \* history: whether two threads were in ingest() at once

hubVars     == <<seen, events, times, recent, counted, log>>
youtubeVars == <<chat, posted, found, token, page, brought, skipped>>
twitchVars  == <<link, reconnecting>>
vars == <<hubVars, youtubeVars, twitchVars, clock, pc, job, dead, arrivals, faults,
          overlapped>>

Threads   == {"youtube", "twitch"} \cup Handlers
Platforms == {"youtube", "twitch"}
Items     == Notices \cup Posts \cup UNION {{c[i] : i \in DOMAIN c} : c \in Chats}
Ids       == {m.id : m \in Items}
Texts     == {m.text : m \in Items}
Clock     == 0..MaxTime
Accept    == [id : Ids, platform : Platforms, at : Clock]
\* A time the guard keeps; the number tells two of the same tick apart.
Time      == [nth : Nat \ {0}, at : Clock]
Text      == [platform : Platforms, text : Texts, at : Clock]

\* A thread's locals: the message, the time it came, and the copies it writes back.
Job == [id : Ids, text : Texts, platform : Platforms, at : Clock, allowed : BOOLEAN,
        times : SUBSET Time, recent : SUBSET Text, seen : Seq(Ids),
        events : Seq(Ids)]
NoJob == [id |-> "none"]

TypeOK ==
  /\ seen \in Seq(Ids) /\ events \in Seq(Ids)
  /\ times \in [Platforms -> SUBSET Time]
  /\ recent \subseteq Text
  /\ counted \in Nat
  /\ clock \in Clock
  /\ pc \in [Threads -> {"idle", "judge", "purge", "seen", "events"}]
  /\ job \in [Threads -> Job \cup {NoJob}]
  /\ \A t \in Threads : pc[t] # "idle" => job[t] \in Job
  /\ chat \in Chats /\ posted \in 0..Len(chat) /\ found \in BOOLEAN
  /\ token \in 0..posted
  /\ page \in [next : 1..posted + 1, last : 0..posted]
  /\ link \in {"down", "open", "subscribed"} /\ reconnecting \in BOOLEAN
  /\ dead \subseteq Platforms
  /\ arrivals \in 0..MaxArrivals /\ faults \in 0..MaxFaults
  /\ log \in Seq(Accept) /\ overlapped \in BOOLEAN
  /\ brought \subseteq Nat /\ skipped \subseteq Nat

NoPage == [next |-> 1, last |-> 0]

Init ==
  /\ seen = <<>> /\ events = <<>>
  /\ times = [p \in Platforms |-> {}] /\ recent = {} /\ counted = 0
  /\ clock = 0
  /\ pc = [t \in Threads |-> "idle"] /\ job = [t \in Threads |-> NoJob]
  /\ chat \in Chats /\ posted = 0 /\ found = FALSE
  /\ token = 0 /\ page = NoPage
  /\ link = "down" /\ reconnecting = FALSE
  /\ dead = {}
  /\ arrivals = 0 /\ faults = 0
  /\ log = <<>> /\ overlapped = FALSE
  /\ brought = {} /\ skipped = {}

\* One short of the last n entries.
LastButOne(s, n) == IF Len(s) < n THEN s ELSE SubSeq(s, Len(s) - n + 2, Len(s))

\* The slice s[-n:].
Last(s, n) == IF Len(s) <= n THEN s ELSE SubSeq(s, Len(s) - n + 1, Len(s))

Fault == faults < MaxFaults /\ faults' = faults + 1

-----------------------------------------------------------------------------
(* PlatformEventHub.ingest and PlatformIngressGuard.accept.                *)

GoTo(t, stage) == pc' = [pc EXCEPT ![t] = stage]
Leave(t) == GoTo(t, "idle") /\ job' = [job EXCEPT ![t] = NoJob]

\* A limit that is noticed one message late.
FullLate(ts) == Cardinality(ts) > MaxRate

Full(ts) == Cardinality(ts) >= MaxRate

\* The same text came a moment ago.
Repeated(p, text) ==
  \E r \in recent : /\ r.platform = p /\ r.text = text
                    /\ clock - r.at < DuplicateWindow

\* Thread t brings message m of platform p: an id that was seen is refused at
\* once; otherwise the guard reads the author's times and the recent texts.
Enter(t, m, p) ==
  LET current == {a \in times[p] : clock - a.at < RateWindow} IN
  /\ pc[t] = "idle"
  /\ IF m.id \in Range(seen)
     THEN UNCHANGED <<pc, job>>
     ELSE /\ GoTo(t, "judge")
          /\ job' = [job EXCEPT ![t] =
               [id |-> m.id, text |-> m.text, platform |-> p, at |-> clock,
                allowed |-> ~Repeated(p, m.text) /\ ~Full(current),
                times |-> current, recent |-> {}, seen |-> <<>>, events |-> <<>>]]
  /\ overlapped' = (overlapped \/ \E u \in Threads : pc[u] # "idle")

\* The guard refuses the message ...
Refuse(t) ==
  LET j == job[t] IN
  /\ pc[t] = "judge" /\ ~j.allowed
  /\ times' = [times EXCEPT ![j.platform] = j.times]
  /\ Leave(t)
  /\ UNCHANGED <<seen, events, recent, counted, log, youtubeVars, twitchVars, clock,
                 dead, arrivals, faults, overlapped>>

\* ... or counts it, and copies the recent texts without the old ones.
Allow(t) ==
  LET j == job[t]
      told == {r \in recent : r.platform # j.platform \/ r.text # j.text}
                \cup {[platform |-> j.platform, text |-> j.text, at |-> j.at]} IN
  /\ pc[t] = "judge" /\ j.allowed
  /\ times' = [times EXCEPT ![j.platform] =
                 j.times \cup {[nth |-> counted + 1, at |-> j.at]}]
  /\ counted' = counted + 1
  /\ recent' = told
  /\ job' = [job EXCEPT ![t].recent = {r \in told : j.at - r.at < DuplicateWindow}]
  /\ GoTo(t, "purge")
  /\ UNCHANGED <<seen, events, log, youtubeVars, twitchVars, clock, dead, arrivals,
                 faults, overlapped>>

\* An ingest() that forgets the id.
RememberNot(t) ==
  LET j == job[t] IN
  /\ pc[t] = "purge"
  /\ recent' = j.recent
  /\ job' = [job EXCEPT ![t].seen = Last(seen, MaxSeen)]
  /\ GoTo(t, "seen")
  /\ UNCHANGED <<seen, events, times, counted, log, youtubeVars, twitchVars, clock,
                 dead, arrivals, faults, overlapped>>

\* The texts are assigned back, the id is appended and the list sliced ...
Remember(t) ==
  LET j == job[t] IN
  /\ pc[t] = "purge"
  /\ recent' = j.recent
  /\ seen' = Append(seen, j.id)
  /\ job' = [job EXCEPT ![t].seen = Last(Append(seen, j.id), MaxSeen)]
  /\ GoTo(t, "seen")
  /\ UNCHANGED <<events, times, counted, log, youtubeVars, twitchVars, clock, dead,
                 arrivals, faults, overlapped>>

\* ... the slice is assigned, the event appended and that list sliced ...
Keep(t) ==
  LET j == job[t] IN
  /\ pc[t] = "seen"
  /\ seen' = j.seen
  /\ events' = Append(events, j.id)
  /\ job' = [job EXCEPT ![t].events = Last(Append(events, j.id), MaxEvents)]
  /\ GoTo(t, "events")
  /\ UNCHANGED <<times, recent, counted, log, youtubeVars, twitchVars, clock, dead,
                 arrivals, faults, overlapped>>

\* ... and assigned.
Accepted(t) ==
  LET j == job[t] IN
  /\ pc[t] = "events"
  /\ events' = j.events
  /\ log' = Append(log, [id |-> j.id, platform |-> j.platform, at |-> j.at])
  /\ Leave(t)
  /\ UNCHANGED <<seen, times, recent, counted, youtubeVars, twitchVars, clock, dead,
                 arrivals, faults, overlapped>>

\* Another thread changes the dictionary that is being copied: RuntimeError.  What
\* is left of a page is skipped, for its token was replaced when it came; the
\* EventSub connection is closed.
PurgeRaises(t) ==
  /\ pc[t] = "purge"
  /\ \E u \in Threads \ {t} : pc[u] # "idle"
  /\ Leave(t)
  /\ page' = IF t = "youtube" THEN NoPage ELSE page
  /\ skipped' = IF t = "youtube" THEN skipped \cup (page.next..page.last) ELSE skipped
  /\ link' = IF t = "twitch" THEN "down" ELSE link
  /\ UNCHANGED <<hubVars, chat, posted, found, token, brought, reconnecting, clock,
                 dead, arrivals, faults, overlapped>>

\* POST /dev/platform-event.
Post(t, m, p) ==
  /\ arrivals < MaxArrivals /\ arrivals' = arrivals + 1
  /\ Enter(t, m, p)
  /\ UNCHANGED <<hubVars, youtubeVars, twitchVars, clock, dead, faults>>

Tick ==
  /\ clock < MaxTime
  /\ clock' = clock + 1
  /\ UNCHANGED <<hubVars, youtubeVars, twitchVars, pc, job, dead, arrivals, faults,
                 overlapped>>

-----------------------------------------------------------------------------
(* YouTubeLiveChatRunner and YouTubeLiveChatPoller.                        *)

\* Another item appears in the chat.
Show ==
  /\ posted < Len(chat)
  /\ posted' = posted + 1
  /\ UNCHANGED <<hubVars, chat, found, token, page, brought, skipped, twitchVars, clock,
                 pc, job, dead, arrivals, faults, overlapped>>

\* find_active_live_chat() finds a broadcast; its chat is kept for good.
FindChat ==
  /\ ~found /\ found' = TRUE
  /\ UNCHANGED <<hubVars, chat, posted, token, page, brought, skipped, twitchVars, clock,
                 pc, job, dead, arrivals, faults, overlapped>>

Unread == token + 1..posted
Raising == {i \in Unread : chat[i].kind \in {"invalid", "odd"}}

\* The item on which list_messages() raises before it returns anything.
FirstRaising(kind) ==
  \E i \in Raising : chat[i].kind = kind /\ \A j \in Raising : i <= j

\* The same page is asked for, and raises ValueError, forever.
Poisoned == FirstRaising("invalid")

BetweenPages ==
  /\ found /\ "youtube" \notin dead
  /\ pc["youtube"] = "idle" /\ page = NoPage
  /\ Unread # {}

\* poll_once() gets a page, and keeps the token of the next one ...
Poll ==
  /\ BetweenPages /\ Raising = {}
  /\ page' = [next |-> token + 1, last |-> posted]
  /\ token' = posted
  /\ UNCHANGED <<hubVars, chat, posted, found, brought, skipped, twitchVars, clock, pc,
                 job, dead, arrivals, faults, overlapped>>

\* ... which the answer may lack: the next poll begins anew ...
PollAnew ==
  /\ BetweenPages /\ Raising = {} /\ Fault
  /\ page' = [next |-> token + 1, last |-> posted]
  /\ token' = 0
  /\ UNCHANGED <<hubVars, chat, posted, found, brought, skipped, twitchVars, clock, pc,
                 job, dead, arrivals, overlapped>>

\* ... or an item ends the worker.
PollDies ==
  /\ BetweenPages /\ FirstRaising("odd")
  /\ dead' = dead \cup {"youtube"}
  /\ UNCHANGED <<hubVars, youtubeVars, twitchVars, clock, pc, job, arrivals, faults,
                 overlapped>>

\* The next item of the page goes to the hub.
NextItem ==
  /\ page # NoPage /\ pc["youtube"] = "idle"
  /\ page' = IF page.next = page.last THEN NoPage ELSE [page EXCEPT !.next = @ + 1]
  /\ brought' = brought \cup {page.next}
  /\ IF chat[page.next].kind = "message"
     THEN Enter("youtube", chat[page.next], "youtube")
     ELSE UNCHANGED <<pc, job, overlapped>>
  /\ UNCHANGED <<hubVars, chat, posted, found, token, skipped, twitchVars, clock, dead,
                 arrivals, faults>>

-----------------------------------------------------------------------------
(* TwitchEventSubRunner and TwitchEventSubSession.                         *)

AtSocket == "twitch" \notin dead /\ pc["twitch"] = "idle"

\* After every message run_once() returns if a reconnect address is set.
AfterMessage == IF reconnecting THEN "down" ELSE "subscribed"

Connect ==
  /\ AtSocket /\ link = "down"
  /\ link' = "open"
  /\ UNCHANGED <<hubVars, youtubeVars, reconnecting, clock, pc, job, dead,
                 arrivals, faults, overlapped>>

\* session_welcome: the chat is subscribed to ...
Welcome ==
  /\ AtSocket /\ link = "open"
  /\ link' = AfterMessage
  /\ UNCHANGED <<hubVars, youtubeVars, reconnecting, clock, pc, job, dead,
                 arrivals, faults, overlapped>>

\* ... or Twitch refuses.
SubscribeFails ==
  /\ AtSocket /\ link = "open" /\ Fault
  /\ link' = "down"
  /\ UNCHANGED <<hubVars, youtubeVars, reconnecting, clock, pc, job, dead,
                 arrivals, overlapped>>

\* session_reconnect: the address is kept, and nothing ever clears it.
Reconnect ==
  /\ AtSocket /\ link = "subscribed" /\ Fault
  /\ reconnecting' = TRUE
  /\ link' = "down"
  /\ UNCHANGED <<hubVars, youtubeVars, clock, pc, job, dead, arrivals,
                 overlapped>>

\* A notification.
Notice(item) ==
  /\ AtSocket /\ link = "subscribed"
  /\ arrivals < MaxArrivals /\ arrivals' = arrivals + 1
  /\ IF item.kind = "message"
     THEN Enter("twitch", item, "twitch")
     ELSE UNCHANGED <<pc, job, overlapped>>
  /\ link' = IF item.kind \in {"invalid", "odd"} THEN "down" ELSE AfterMessage
  /\ dead' = IF item.kind = "odd" THEN dead \cup {"twitch"} ELSE dead
  /\ UNCHANGED <<hubVars, youtubeVars, reconnecting, clock, faults>>

\* A runner that gives up when the connection is lost.
DropForGood ==
  /\ AtSocket /\ link # "down" /\ Fault
  /\ link' = "closed"
  /\ UNCHANGED <<hubVars, youtubeVars, reconnecting, clock, pc, job, dead,
                 arrivals, overlapped>>

\* The connection is lost: OSError, or one of the WebSocket library's own
\* exceptions, which the runner does not catch.
Drop ==
  /\ AtSocket /\ link # "down" /\ Fault
  /\ link' = "down"
  /\ dead' \in {dead, dead \cup {"twitch"}}
  /\ UNCHANGED <<hubVars, youtubeVars, reconnecting, clock, pc, job, arrivals,
                 overlapped>>

Ingest(t) ==
  Refuse(t) \/ Allow(t) \/ Remember(t) \/ Keep(t) \/ Accepted(t) \/ PurgeRaises(t)

Next ==
  \/ \E t \in Threads : Ingest(t)
  \/ \E h \in Handlers, m \in Posts, p \in Platforms : Post(h, m, p)
  \/ Tick
  \/ Show \/ FindChat \/ Poll \/ PollAnew \/ PollDies \/ NextItem
  \/ Connect \/ Welcome \/ SubscribeFails \/ Reconnect \/ Drop
  \/ \E item \in Notices : Notice(item)

\* A thread is never kept from running; a broadcast is on, and requests to the
\* platforms succeed again after a failure.
Fairness ==
  /\ \A t \in Threads : WF_vars(Ingest(t))
  /\ WF_vars(FindChat) /\ WF_vars(Poll \/ PollDies) /\ WF_vars(NextItem)
  /\ WF_vars(Connect) /\ WF_vars(Welcome)

Spec == Init /\ [][Next]_vars /\ Fairness

-----------------------------------------------------------------------------
(* Properties.                                                             *)

\* As long as no two threads were in ingest() at once, a message is not accepted
\* again before MaxSeen others were, although polls begin anew, Twitch repeats
\* itself and the endpoint takes the same ids (docs/integrations/PLATFORM_EVENT_CONTRACT.md).
AcceptedOnce ==
  ~overlapped =>
    \A i, j \in DOMAIN log : i < j /\ log[i].id = log[j].id => j - i > MaxSeen

\* As long as no two threads were in ingest() at once, no author is accepted more
\* than MaxRate times in any RateWindow ticks, refused messages included in what
\* is written back (docs/integrations/PLATFORM_RATE_LIMITS.md).
RateIsKept ==
  ~overlapped =>
    \A p \in Platforms, from \in Clock :
      Cardinality({i \in DOMAIN log : /\ log[i].platform = p
                                      /\ log[i].at \in from..from + RateWindow - 1})
        <= MaxRate

\* As long as no two threads were in ingest() at once, the history shows the last
\* MaxEvents accepted messages, in their order: every message a handler answered
\* 202 for can be replied to (platform_reply_suggestion looks it up there).
HistoryIsComplete ==
  ~overlapped /\ (\A t \in Threads : pc[t] \notin {"events"}) =>
    /\ Len(events) = IF Len(log) < MaxEvents THEN Len(log) ELSE MaxEvents
    /\ \A i \in DOMAIN events : events[i] = log[Len(log) - Len(events) + i].id

\* Every item of the chat has its turn in the end, whatever fails, unless an item
\* before it poisons its page or ends the worker, or it is skipped: poll_once() keeps
\* the token of the next page before it brings the items of this one to the hub, so
\* that a RuntimeError there costs the rest of the page.  And the EventSub session
\* is subscribed again after every loss of the connection, unless Twitch once asked
\* for a reconnection (docs/integrations/TWITCH.md: "owns reconnect URL handling",
\* but the address is never cleared) or the worker ended.
ChatIsFollowed ==
  \A i \in UNION {DOMAIN c : c \in Chats} :
    posted >= i ~> \/ i \in brought \cup skipped /\ pc["youtube"] = "idle"
                   \/ Poisoned
                   \/ "youtube" \in dead
SessionReturns == []<>(link = "subscribed" \/ reconnecting \/ "twitch" \in dead)
WorkersGoOn == ChatIsFollowed /\ SessionReturns
=============================================================================

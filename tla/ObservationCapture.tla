-------------------------- MODULE ObservationCapture --------------------------
(***************************************************************************)
(* From OBS to a prompt: ObsWebSocketTransport and ObsCaptureBoundary      *)
(* (packages/obs/capture.py), ObservationService (observation/service.py), *)
(* ObservationPipeline (observation/pipeline.py) and current_observations  *)
(* (observation/grounding.py), as the handler threads of the orchestrator  *)
(* call them.                                                              *)
(*                                                                         *)
(* All threads share one socket, one request counter and the two lists of  *)
(* the pipeline, and nothing is locked.  A message of OBS is read in two   *)
(* parts, header and payload; lists are read and assigned in two steps.    *)
(* OBS answers requests in the order it gets them, at any time.  Frames,   *)
(* readings and the handshake's contents are abstract; the life of an      *)
(* observation is the ticks left until expires_at.                         *)
(*                                                                         *)
(* Observations are numbered as they are made.  Every list of them is in   *)
(* that order, so the set of the numbers stands for the list.              *)
(***************************************************************************)
EXTENDS Naturals, Sequences, FiniteSets, Functions

CONSTANTS Threads,        \* handler threads
          Frames,         \* what OBS may show
          Fixture,        \* the frame of /dev/mock-observation
          Enabled,        \* SIDURI_OBS_CAPTURE_ENABLED
          MaxFrames,      \* max_frames
          TTL,            \* ttl_seconds, in ticks
          MaxArrivals,    \* bound: HTTP requests
          MaxAsked,       \* bound: requests sent to OBS before another health or observe
          MaxFaults       \* bound: slow answers and broken connections

ASSUME CaptureConstants ==
  /\ Fixture \in Frames /\ Enabled \in BOOLEAN
  /\ {MaxFrames, TTL} \subseteq Nat \ {0}
  /\ {MaxArrivals, MaxAsked, MaxFaults} \subseteq Nat
  /\ IsFiniteSet(Threads)

VARIABLES
  number,       \* _request_id
  socket,       \* _socket, with what is under way on it
  seen,         \* _seen
  kept,         \* _observations
  life,         \* of each observation ever made, the ticks until it expires
  pc, job,      \* what each thread does, and its locals
  arrivals, faults,
  asked,        \* history: the number of requests sent to OBS
  clashed,      \* history: a thread met another's number where it numbered its request
  foreign,      \* history: a thread took the answer to another request for its own
  overlapped    \* history: two threads were changing _observations at once

obsVars  == <<number, socket, asked, clashed, foreign>>
listVars == <<seen, kept, life, overlapped>>
vars == <<obsVars, listVars, pc, job, arrivals, faults>>

NoSocket == [session |-> "none", sent |-> <<>>, inbox |-> <<>>,
             broken |-> FALSE, torn |-> FALSE]
NoJob == [want |-> "none"]
NewJob(want) ==
  [want |-> want, ask |-> "stream", number |-> 0, serial |-> 0, reading |-> FALSE,
   frame |-> Fixture, left |-> 0, hashes |-> <<>>, copy |-> {}, view |-> {},
   expired |-> {}, due |-> {}]

Wants   == {"health", "observe", "mock", "current"}
Asks    == {"stream", "record", "screenshot"}
Stages  == {"idle", "connect", "dial", "hello", "identify", "number", "count",
            "format", "send", "answer", "look", "remember", "seen", "observe", "keep", "kept",
            "expire", "expired", "view", "use"}
Made    == 1..Len(life)
\* A request to OBS; serial is its place among all requests, for the properties.
Request == [what : Asks \cup {"identify"}, re : Nat, serial : Nat]
Message == [op : {"hello", "identified", "answer"}, what : Asks \cup {"none"},
            re : Nat, serial : Nat, frame : Frames]
Socket  == [session : {"none", "hello", "identified"}, sent : Seq(Request),
            inbox : Seq(Message), broken : BOOLEAN, torn : BOOLEAN]

\* A thread's locals: the request it waits for, the frame, the lists it writes back,
\* and what the reader got, what had expired then and what it should have got.
Job == [want : Wants, ask : Asks, number : Nat, serial : Nat, reading : BOOLEAN,
        frame : Frames, left : 0..TTL, hashes : Seq(Frames), copy : SUBSET Made,
        view : SUBSET Made, expired : SUBSET Made, due : SUBSET Made]

In(stage) == {t \in Threads : pc[t] = stage}

\* The lists are no longer than max_frames and what threads are about to cut off.
TypeOK ==
  /\ number \in Nat /\ asked \in Nat
  /\ socket \in Socket
  /\ seen \in Seq(Frames) /\ Len(seen) <= MaxFrames + Cardinality(In("seen"))
  /\ kept \subseteq Made
  /\ overlapped \/ Cardinality(kept)
                     <= MaxFrames + Cardinality(In("kept") \cup In("expired"))
  /\ life \in Seq(0..TTL)
  /\ pc \in [Threads -> Stages]
  /\ job \in [Threads -> Job \cup {NoJob}]
  /\ \A t \in Threads : pc[t] # "idle" => job[t] \in Job
  /\ arrivals \in 0..MaxArrivals /\ faults \in 0..MaxFaults
  /\ {clashed, foreign, overlapped} \subseteq BOOLEAN

Init ==
  /\ number = 0 /\ socket = NoSocket
  /\ seen = <<>> /\ kept = {} /\ life = <<>>
  /\ pc = [t \in Threads |-> "idle"] /\ job = [t \in Threads |-> NoJob]
  /\ arrivals = 0 /\ faults = 0
  /\ asked = 0 /\ clashed = FALSE /\ foreign = FALSE /\ overlapped = FALSE

GoTo(t, stage) == pc' = [pc EXCEPT ![t] = stage]
Fault == faults < MaxFaults /\ faults' = faults + 1

\* The request of t ends: it is answered, refused or an exception ends it.
Leave(t) == GoTo(t, "idle") /\ job' = [job EXCEPT ![t] = NoJob]

-----------------------------------------------------------------------------
(* The endpoints: /obs/health, /dev/observe-now and /dev/observe-and-respond, *)
(* the fixtures, and every reader of current_observations().                  *)

Begin(t, want) ==
  /\ pc[t] = "idle" /\ arrivals < MaxArrivals
  /\ want \in {"health", "observe"} => asked < MaxAsked
  /\ arrivals' = arrivals + 1
  /\ job' = [job EXCEPT ![t] = NewJob(want)]
  /\ GoTo(t, CASE want = "mock" -> "look"
               [] want = "current" -> "expire"
               [] OTHER -> "connect")
  /\ UNCHANGED <<obsVars, listVars, faults>>

-----------------------------------------------------------------------------
(* connect().                                                              *)

CheckSocket(t) ==
  /\ pc[t] = "connect"
  /\ GoTo(t, IF socket.session = "none" THEN "dial" ELSE "number")
  /\ UNCHANGED <<obsVars, listVars, job, arrivals, faults>>

HelloMessage == [op |-> "hello", what |-> "none", re |-> 0, serial |-> 0, frame |-> Fixture]

\* The new socket takes the place of one that another thread made meanwhile; a
\* thread in the middle of a message goes on reading in the new stream.
Dial(t) ==
  /\ pc[t] = "dial"
  /\ socket' = [NoSocket EXCEPT !.session = "hello", !.inbox = <<HelloMessage>>,
                                !.torn = \E u \in Threads : pc[u] # "idle" /\ job[u].reading]
  /\ GoTo(t, "hello")
  /\ UNCHANGED <<number, asked, clashed, foreign, listVars, job, arrivals, faults>>

DialFails(t) ==
  /\ pc[t] = "dial"
  /\ Leave(t)
  /\ UNCHANGED <<obsVars, listVars, arrivals, faults>>

-----------------------------------------------------------------------------
(* _receive_json().                                                        *)

Usable == socket.session # "none" /\ ~socket.broken /\ ~socket.torn
Receiving(t) == pc[t] \in {"hello", "identify", "answer"}

\* Nothing on a torn stream makes sense any more.
Torn == [socket EXCEPT !.torn = TRUE, !.inbox = <<>>, !.sent = <<>>]

\* Two threads that read at once tear it: each gets parts of what the other reads.
ReadHeader(t) ==
  /\ Receiving(t) /\ ~job[t].reading /\ Usable /\ socket.inbox # <<>>
  /\ job' = [job EXCEPT ![t].reading = TRUE]
  /\ socket' = IF \E u \in Threads : pc[u] # "idle" /\ job[u].reading THEN Torn ELSE socket
  /\ UNCHANGED <<number, asked, clashed, foreign, listVars, pc, arrivals, faults>>

Whole(t) == Receiving(t) /\ job[t].reading /\ Usable
Rest == [socket EXCEPT !.inbox = Tail(@)]

\* No socket, the connection has ended or what is read makes no sense.  Nothing
\* closes the socket, and connect() keeps it.
ReceiveRaises(t) ==
  /\ Receiving(t) /\ ~Usable
  /\ Leave(t)
  /\ UNCHANGED <<obsVars, listVars, arrivals, faults>>

\* Nothing, or not the rest of a message, comes for timeout_seconds.
TimeOut(t) ==
  /\ Receiving(t) /\ Usable
  /\ job[t].reading \/ socket.inbox = <<>>
  /\ IF job[t].reading \/ socket.sent # <<>> THEN Fault ELSE UNCHANGED faults
  /\ socket' = IF job[t].reading THEN Torn ELSE socket
  /\ Leave(t)
  /\ UNCHANGED <<number, asked, clashed, foreign, listVars, arrivals>>

\* Hello is answered by Identify; any other message ends the request.
TakeHello(t) ==
  /\ pc[t] = "hello" /\ Whole(t)
  /\ IF Head(socket.inbox).op = "hello"
     THEN /\ socket' = [Rest EXCEPT !.sent =
                          Append(@, [what |-> "identify", re |-> 0, serial |-> 0])]
          /\ job' = [job EXCEPT ![t].reading = FALSE]
          /\ GoTo(t, "identify")
     ELSE socket' = Rest /\ Leave(t)
  /\ UNCHANGED <<number, asked, clashed, foreign, listVars, arrivals, faults>>

\* Anything but Identified closes the socket.
TakeIdentified(t) ==
  /\ pc[t] = "identify" /\ Whole(t)
  /\ IF Head(socket.inbox).op = "identified"
     THEN /\ socket' = Rest
          /\ job' = [job EXCEPT ![t].reading = FALSE]
          /\ GoTo(t, "number")
     ELSE socket' = NoSocket /\ Leave(t)
  /\ UNCHANGED <<number, asked, clashed, foreign, listVars, arrivals, faults>>

-----------------------------------------------------------------------------
(* _request(), and status() and screenshot() around it.                    *)

\* The counter is read ...
Number(t) ==
  /\ pc[t] = "number"
  /\ job' = [job EXCEPT ![t].number = number]
  /\ GoTo(t, "count")
  /\ UNCHANGED <<obsVars, listVars, arrivals, faults>>

\* ... and written ...
Count(t) ==
  /\ pc[t] = "count"
  /\ number' = job[t].number + 1
  /\ clashed' = (clashed \/ number # job[t].number)
  /\ job' = [job EXCEPT ![t].number = @ + 1]
  /\ GoTo(t, "format")
  /\ UNCHANGED <<socket, asked, foreign, listVars, arrivals, faults>>

\* ... and read once more for the id of the request ...
Format(t) ==
  /\ pc[t] = "format"
  /\ clashed' = (clashed \/ number # job[t].number)
  /\ job' = [job EXCEPT ![t].number = number]
  /\ GoTo(t, "send")
  /\ UNCHANGED <<number, socket, asked, foreign, listVars, arrivals, faults>>

\* ... which is sent.
Send(t) ==
  /\ pc[t] = "send" /\ socket.session # "none" /\ ~socket.broken
  /\ asked' = asked + 1
  /\ job' = [job EXCEPT ![t].serial = asked + 1]
  /\ socket' = [socket EXCEPT !.sent = Append(@, [what |-> job[t].ask,
                                re |-> job[t].number, serial |-> asked + 1])]
  /\ GoTo(t, "answer")
  /\ UNCHANGED <<number, clashed, foreign, listVars, arrivals, faults>>

SendRaises(t) ==
  /\ pc[t] = "send" /\ (socket.session = "none" \/ socket.broken)
  /\ Leave(t)
  /\ UNCHANGED <<obsVars, listVars, arrivals, faults>>

\* Whatever answer comes first.
AnyAnswer(t, m) == m.op = "answer"

Mine(t, m) == m.op = "answer" /\ m.re = job[t].number

\* A message that is not the awaited answer is dropped.
DropMessage(t) ==
  /\ pc[t] = "answer" /\ Whole(t)
  /\ ~Mine(t, Head(socket.inbox))
  /\ socket' = Rest
  /\ job' = [job EXCEPT ![t].reading = FALSE]
  /\ UNCHANGED <<number, asked, clashed, foreign, listVars, pc, arrivals, faults>>

\* status() asks for the stream and the record status, and capture_once() goes on
\* to the screenshot when capture is enabled.
TakeAnswer(t) ==
  LET m == Head(socket.inbox)
      Proceed(stage, ask, frame) ==
        /\ job' = [job EXCEPT ![t].reading = FALSE, ![t].ask = ask, ![t].frame = frame,
                              ![t].number = 0, ![t].serial = 0]
        /\ GoTo(t, stage)
  IN
  /\ pc[t] = "answer" /\ Whole(t)
  /\ Mine(t, m)
  /\ socket' = Rest
  /\ foreign' = (foreign \/ m.serial # job[t].serial)
  /\ \/ job[t].ask = "stream" /\ Proceed("number", "record", Fixture)
     \/ /\ job[t].ask = "record" /\ job[t].want = "observe" /\ Enabled
        /\ Proceed("connect", "screenshot", Fixture)
     \/ job[t].ask = "record" /\ ~(job[t].want = "observe" /\ Enabled) /\ Leave(t)
     \/ job[t].ask = "screenshot" /\ m.what = "screenshot" /\ Proceed("look", "screenshot", m.frame)
     \/ Leave(t)     \* OBS refuses the request, or there is no image in the answer
  /\ UNCHANGED <<number, asked, clashed, listVars, arrivals, faults>>

-----------------------------------------------------------------------------
(* OBS.                                                                    *)

\* OBS answers the oldest request; it ends the connection when a request comes
\* before Identify.
Reply ==
  LET r == Head(socket.sent)
      Put(op, what, frame) ==
        Append(socket.inbox, [op |-> op, what |-> what, re |-> r.re,
                              serial |-> r.serial, frame |-> frame])
      Later == [socket EXCEPT !.sent = Tail(@)]
  IN
  /\ socket.sent # <<>> /\ ~socket.broken /\ ~socket.torn
  /\ \/ /\ r.what = "identify"
        /\ socket' = [Later EXCEPT !.session = "identified",
                                   !.inbox = Put("identified", "none", Fixture)]
     \/ /\ r.what # "identify" /\ socket.session = "identified"
        /\ \E f \in IF r.what = "screenshot" THEN Frames ELSE {Fixture} :
             socket' = [Later EXCEPT !.inbox = Put("answer", r.what, f)]
     \/ /\ r.what # "identify" /\ socket.session = "hello"
        /\ socket' = [socket EXCEPT !.broken = TRUE, !.sent = <<>>, !.inbox = <<>>]
  /\ UNCHANGED <<number, asked, clashed, foreign, listVars, pc, job, arrivals, faults>>

\* OBS is closed or restarted.
Break ==
  /\ socket.session # "none" /\ ~socket.broken
  /\ Fault
  /\ socket' = [socket EXCEPT !.broken = TRUE, !.sent = <<>>, !.inbox = <<>>]
  /\ UNCHANGED <<number, asked, clashed, foreign, listVars, pc, job, arrivals>>

-----------------------------------------------------------------------------
(* ObservationPipeline.ingest().                                           *)

\* A list that is never cut.
Uncut(s) == s

\* The slice s[-max_frames:] of the hashes ...
Last(s) == IF Len(s) <= MaxFrames THEN s ELSE SubSeq(s, Len(s) - MaxFrames + 1, Len(s))

\* ... and of the observations.
Newest(s) == {o \in s : Cardinality({x \in s : x > o}) < MaxFrames}

\* The observation's time starts now; a frame that was seen is a duplicate.
Look(t) ==
  /\ pc[t] = "look"
  /\ IF job[t].frame \in Range(seen)
     THEN Leave(t)
     ELSE job' = [job EXCEPT ![t].left = TTL] /\ GoTo(t, "remember")
  /\ UNCHANGED <<obsVars, listVars, arrivals, faults>>

\* The hash is appended and the list sliced ...
Remember(t) ==
  /\ pc[t] = "remember"
  /\ seen' = Append(seen, job[t].frame)
  /\ job' = [job EXCEPT ![t].hashes = Last(Append(seen, job[t].frame))]
  /\ GoTo(t, "seen")
  /\ UNCHANGED <<obsVars, kept, life, overlapped, arrivals, faults>>

\* ... and the slice assigned.
StoreSeen(t) ==
  /\ pc[t] = "seen"
  /\ seen' = job[t].hashes
  /\ job' = [job EXCEPT ![t].hashes = <<>>]
  /\ GoTo(t, "observe")
  /\ UNCHANGED <<obsVars, kept, life, overlapped, arrivals, faults>>

Observe(t) ==
  /\ pc[t] = "observe"
  /\ GoTo(t, "keep")
  /\ UNCHANGED <<obsVars, listVars, job, arrivals, faults>>

\* The vision provider raises (the fixture's does not); the frame stays seen.
VisionFails(t) ==
  /\ pc[t] = "observe" /\ job[t].want = "observe"
  /\ Leave(t)
  /\ UNCHANGED <<obsVars, listVars, arrivals, faults>>

\* Another thread has read _observations and not assigned it yet.
Changing(t) == \E u \in Threads \ {t} : pc[u] \in {"kept", "expired"}

\* The observation is appended and the list sliced ...
Keep(t) ==
  LET o == Len(life) + 1 IN
  /\ pc[t] = "keep"
  /\ life' = Append(life, job[t].left)
  /\ kept' = kept \cup {o}
  /\ job' = [job EXCEPT ![t].copy = Newest(kept \cup {o}), ![t].left = 0]
  /\ overlapped' = (overlapped \/ Changing(t))
  /\ GoTo(t, "kept")
  /\ UNCHANGED <<obsVars, seen, arrivals, faults>>

\* ... and the slice assigned; the observation is answered and broadcast.
StoreKept(t) ==
  /\ pc[t] = "kept"
  /\ kept' = job[t].copy
  /\ overlapped' = (overlapped \/ Changing(t))
  /\ Leave(t)
  /\ UNCHANGED <<obsVars, seen, life, arrivals, faults>>

-----------------------------------------------------------------------------
(* current_observations(): expire(), then the list.                        *)

\* An observation that has just expired counts as alive.
AliveYet(o) == life[o] >= 0

Alive(o) == life[o] > 0

Expire(t) ==
  /\ pc[t] = "expire"
  /\ job' = [job EXCEPT ![t].copy = {o \in kept : Alive(o)},
                        ![t].expired = {o \in Made : life[o] = 0}]
  /\ overlapped' = (overlapped \/ Changing(t))
  /\ GoTo(t, "expired")
  /\ UNCHANGED <<obsVars, seen, kept, life, arrivals, faults>>

StoreAlive(t) ==
  /\ pc[t] = "expired"
  /\ kept' = job[t].copy
  /\ overlapped' = (overlapped \/ Changing(t))
  /\ job' = [job EXCEPT ![t].copy = {}]
  /\ GoTo(t, "view")
  /\ UNCHANGED <<obsVars, seen, life, arrivals, faults>>

View(t) ==
  /\ pc[t] = "view"
  /\ job' = [job EXCEPT ![t].view = kept,
                        ![t].due = {o \in Made : Alive(o) /\ o + MaxFrames > Len(life)}]
  /\ GoTo(t, "use")
  /\ UNCHANGED <<obsVars, listVars, arrivals, faults>>

\* The prompt or the answer is made from what was read.
Use(t) ==
  /\ pc[t] = "use"
  /\ Leave(t)
  /\ UNCHANGED <<obsVars, listVars, arrivals, faults>>

\* Time passes, also for observations that are still being made.
Tick ==
  /\ (\E o \in Made : life[o] > 0) \/ \E t \in Threads : pc[t] # "idle" /\ job[t].left > 0
  /\ life' = [o \in Made |-> IF life[o] > 0 THEN life[o] - 1 ELSE 0]
  /\ job' = [t \in Threads |-> IF pc[t] # "idle" /\ job[t].left > 0
                               THEN [job[t] EXCEPT !.left = @ - 1] ELSE job[t]]
  /\ UNCHANGED <<obsVars, seen, kept, overlapped, pc, arrivals, faults>>

-----------------------------------------------------------------------------
Receive(t) == \/ ReadHeader(t) \/ ReceiveRaises(t) \/ TimeOut(t)
              \/ TakeHello(t) \/ TakeIdentified(t) \/ DropMessage(t) \/ TakeAnswer(t)
Ingest(t) == Look(t) \/ Remember(t) \/ StoreSeen(t) \/ Observe(t) \/ VisionFails(t)
             \/ Keep(t) \/ StoreKept(t)
Current(t) == Expire(t) \/ StoreAlive(t) \/ View(t) \/ Use(t)

Next ==
  \/ \E t \in Threads :
       \/ \E want \in Wants : Begin(t, want)
       \/ CheckSocket(t) \/ Dial(t) \/ DialFails(t)
       \/ Number(t) \/ Count(t) \/ Format(t) \/ Send(t) \/ SendRaises(t)
       \/ Receive(t) \/ Ingest(t) \/ Current(t)
  \/ Reply \/ Break \/ Tick

Spec == Init /\ [][Next]_vars

-----------------------------------------------------------------------------
(* Properties.                                                             *)

\* An answer is taken for the request it answers, however late earlier answers
\* come and whichever thread reads them (capture.py:185-196), unless at some time
\* two threads were numbering their requests at once (capture.py:182-183): one
\* wrote over the other's number, or took the other's for its id.
AnswerIsOwn == foreign => clashed

\* What a prompt or a reader gets from current_observations() holds nothing that
\* had expired when it was called, and all that is still alive among the newest
\* max_frames observations (pipeline.py:206-213, grounding.py:24-29), unless two
\* threads were changing the list at once: the later assignment then undoes the
\* earlier one.
EvidenceIsCurrent ==
  ~overlapped =>
    \A t \in Threads : pc[t] = "use" =>
      /\ job[t].view \cap job[t].expired = {}
      /\ job[t].due \subseteq job[t].view
=============================================================================

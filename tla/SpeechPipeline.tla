--------------------------- MODULE SpeechPipeline ---------------------------
(***************************************************************************)
(* From an approved response to the voice: PENDING_RESPONSES, queue_voice  *)
(* and broadcast of apps/orchestrator server.py, SpeechQueue of            *)
(* packages/voice/queue.py, SpeechService of packages/voice/voicevox.py    *)
(* and the overlay's state (apps/web overlay-client.tsx).                  *)
(*                                                                         *)
(* Each handler thread that publishes a response puts one job in the       *)
(* priority queue and starts one worker thread, which runs run_next()      *)
(* once.  A worker need not get the job it was started for.  Jobs, and     *)
(* with them workers, are numbered in the order of the queue's sequence;   *)
(* 0 is no job.                                                            *)
(*                                                                         *)
(* The queue and the service can be told to cancel, which the orchestrator *)
(* does not do yet: with MaxCancels = 0 the model is the orchestrator's.   *)
(***************************************************************************)
EXTENDS Naturals, FiniteSets

CONSTANTS Plans,      \* responses, by correlation id
          Handlers,   \* HTTP handler threads
          None,       \* no response
          Priority,   \* speech_priority of each response
          Calm,       \* responses whose emotion is "idle"
          MaxJobs,    \* bound: jobs ever put in the queue
          MaxRaises,  \* bound: jobs that die of an unexpected exception
          MaxCancels  \* bound: calls of cancel()

ASSUME SpeechConstants ==
  /\ None \notin Plans
  /\ Priority \in [Plans -> 0..100]
  /\ Calm \subseteq Plans
  /\ MaxJobs \in Nat
  /\ MaxRaises \in Nat
  /\ MaxCancels \in Nat

VARIABLES
  unused,    \* correlation ids not drawn yet
  pending,   \* PENDING_RESPONSES
  pc, plan,  \* what each handler thread does, and with which response
  number,    \* and with which job
  planOf,    \* the response of each job
  drawn,     \* the number of jobs put in the queue so far
  queue,     \* SpeechQueue._items
  cancelled, \* SpeechQueue._cancelled
  silence,   \* SpeechService._cancelled
  worker,    \* what each worker thread does
  doing,     \* and the job it took
  ended,     \* history: jobs that were spoken, failed, or were dropped
  dropped,   \* history: and those among them that were dropped as cancelled
  died,      \* history: or whose worker died of an exception
  unwanted,  \* history: jobs cancelled before a worker tested them
  released,  \* history: responses approved, or published without approval
  overlay,   \* the state the overlay shows
  shown,     \* and the response whose event put it there, if it is not idle
  cancels

cancellation == <<cancelled, silence, unwanted, cancels>>
losses == <<dropped, died>>
screen == <<overlay, shown>>

vars == <<unused, pending, pc, plan, number, planOf, drawn, queue, worker, doing,
          ended, released, screen, losses, cancellation>>

Jobs == 1..MaxJobs

TypeOK ==
  /\ unused \subseteq Plans
  /\ pending \subseteq Plans
  /\ pc \in [Handlers -> {"idle", "publish", "enqueue", "spawn"}]
  /\ plan \in [Handlers -> Plans \cup {None}]
  /\ number \in [Handlers -> 0..MaxJobs]
  /\ planOf \in [Jobs -> Plans \cup {None}]
  /\ drawn \in 0..MaxJobs
  /\ queue \subseteq Jobs
  /\ worker \in [Jobs -> {"none", "check", "get", "taken", "start",
                          "synthesize", "play", "complete", "done"}]
  /\ doing \in [Jobs -> 0..MaxJobs]
  /\ ended \subseteq Jobs
  /\ released \subseteq Plans
  /\ overlay \in {"idle", "thinking", "speaking"}
  /\ shown \in Plans \cup {None}
  /\ dropped \subseteq Jobs
  /\ died \subseteq Jobs
  /\ cancelled \subseteq Jobs
  /\ unwanted \subseteq Jobs
  /\ silence \in BOOLEAN
  /\ cancels \in 0..MaxCancels

Init ==
  /\ unused   = Plans
  /\ pending  = {}
  /\ pc       = [h \in Handlers |-> "idle"]
  /\ plan     = [h \in Handlers |-> None]
  /\ number   = [h \in Handlers |-> 0]
  /\ planOf   = [j \in Jobs |-> None]
  /\ drawn    = 0
  /\ queue    = {}
  /\ worker   = [j \in Jobs |-> "none"]
  /\ doing    = [j \in Jobs |-> 0]
  /\ ended    = {}
  /\ released = {}
  /\ overlay  = "idle"
  /\ shown    = None
  /\ dropped  = {}
  /\ died     = {}
  /\ cancelled = {}
  /\ unwanted  = {}
  /\ silence   = FALSE
  /\ cancels   = 0

-----------------------------------------------------------------------------
(* Handler threads.                                                        *)

\* stage_response, at the end of /dev/observe-and-respond.
StageResponse(p) ==
  /\ p \in unused
  /\ unused' = unused \ {p}
  /\ pending' = pending \cup {p}
  /\ UNCHANGED <<pc, plan, number, planOf, drawn, queue, worker, doing, ended,
                 released, screen, losses, cancellation>>

\* Thread h holds response p, which it will publish.
Release(h, p) ==
  /\ pc[h] = "idle"
  /\ pc' = [pc EXCEPT ![h] = "publish"]
  /\ plan' = [plan EXCEPT ![h] = p]
  /\ released' = released \cup {p}
  /\ UNCHANGED <<number, planOf, drawn, queue, worker, doing, ended, screen, losses,
                 cancellation>>

\* An approval that looks the response up and leaves it there.
ApproveResponseKept(h, p) ==
  /\ p \in pending
  /\ Release(h, p)
  /\ UNCHANGED <<unused, pending>>

\* approve_response: the response is popped, so one approval only finds it.
ApproveResponse(h, p) ==
  /\ p \in pending
  /\ pending' = pending \ {p}
  /\ Release(h, p)
  /\ UNCHANGED unused

\* /dev/mock-response publishes what it generated, without a review.
MockResponse(h, p) ==
  /\ p \in unused
  /\ unused' = unused \ {p}
  /\ Release(h, p)
  /\ UNCHANGED pending

\* The response_plan event: the overlay shows the captions and waits for the voice,
\* "thinking" unless the response's emotion is "idle".
Publish(h) ==
  /\ pc[h] = "publish"
  /\ pc' = [pc EXCEPT ![h] = "enqueue"]
  /\ overlay' = IF plan[h] \in Calm THEN "idle" ELSE "thinking"
  /\ shown' = IF plan[h] \in Calm THEN None ELSE plan[h]
  /\ UNCHANGED <<unused, pending, plan, number, planOf, drawn, queue, worker, doing,
                 ended, released, losses, cancellation>>

\* SpeechQueue.enqueue.
Enqueue(h) ==
  /\ pc[h] = "enqueue"
  /\ drawn < MaxJobs
  /\ drawn' = drawn + 1
  /\ number' = [number EXCEPT ![h] = drawn + 1]
  /\ planOf' = [planOf EXCEPT ![drawn + 1] = plan[h]]
  /\ queue' = queue \cup {drawn + 1}
  /\ pc' = [pc EXCEPT ![h] = "spawn"]
  /\ UNCHANGED <<unused, pending, plan, worker, doing, ended, released, screen,
                 losses, cancellation>>

\* A worker is started only when none is running.
SpawnIfNone(h) ==
  /\ pc[h] = "spawn"
  /\ worker' = IF \E w \in Jobs : worker[w] \notin {"none", "done"}
               THEN worker ELSE [worker EXCEPT ![number[h]] = "check"]
  /\ pc' = [pc EXCEPT ![h] = "idle"]
  /\ plan' = [plan EXCEPT ![h] = None]
  /\ number' = [number EXCEPT ![h] = 0]
  /\ UNCHANGED <<unused, pending, planOf, drawn, queue, doing, ended, released,
                 screen, losses, cancellation>>

\* threading.Thread(target=SPEECH_QUEUE.run_next).start()
Spawn(h) ==
  /\ pc[h] = "spawn"
  /\ worker' = [worker EXCEPT ![number[h]] = "check"]
  /\ pc' = [pc EXCEPT ![h] = "idle"]
  /\ plan' = [plan EXCEPT ![h] = None]
  /\ number' = [number EXCEPT ![h] = 0]
  /\ UNCHANGED <<unused, pending, planOf, drawn, queue, doing, ended, released,
                 screen, losses, cancellation>>

-----------------------------------------------------------------------------
(* run_next: `while not empty(): get()`.                                   *)

Move(w, stage) == worker' = [worker EXCEPT ![w] = stage]

\* The queue looks empty: another worker took the job.
SeeEmpty(w) ==
  /\ worker[w] = "check"
  /\ queue = {}
  /\ Move(w, "done")
  /\ UNCHANGED <<unused, pending, pc, plan, number, planOf, drawn, queue, doing,
                 ended, released, screen, losses, cancellation>>

\* It does not; by the time of get() it may be, and then get() waits.
SeeJobs(w) ==
  /\ worker[w] = "check"
  /\ queue # {}
  /\ Move(w, "get")
  /\ UNCHANGED <<unused, pending, pc, plan, number, planOf, drawn, queue, doing,
                 ended, released, screen, losses, cancellation>>

\* The order of the queue: priority first, then age.
Before(i, j) ==
  \/ Priority[planOf[i]] > Priority[planOf[j]]
  \/ Priority[planOf[i]] = Priority[planOf[j]] /\ i < j

\* The job that get() returns.
First(j) ==
  /\ j \in queue
  /\ \A i \in queue \ {j} : Before(j, i)

\* get() takes the first job out of the queue.
Get(w, j) ==
  /\ worker[w] = "get"
  /\ First(j)
  /\ queue' = queue \ {j}
  /\ doing' = [doing EXCEPT ![w] = j]
  /\ Move(w, "taken")
  /\ UNCHANGED <<unused, pending, pc, plan, number, planOf, drawn, ended, released,
                 screen, losses, cancellation>>

\* A worker that does not ask whether its job was cancelled.
AcceptAny(w) ==
  /\ worker[w] = "taken"
  /\ Move(w, "start")
  /\ UNCHANGED <<unused, pending, pc, plan, number, planOf, drawn, queue, doing,
                 ended, released, screen, losses, cancellation>>

\* The job was not cancelled so far: speak() is called.
Accept(w) ==
  /\ worker[w] = "taken"
  /\ doing[w] \notin cancelled
  /\ Move(w, "start")
  /\ UNCHANGED <<unused, pending, pc, plan, number, planOf, drawn, queue, doing,
                 ended, released, screen, losses, cancellation>>

\* The job was cancelled: it is dropped, of which no event tells, and the loop
\* goes on.
Discard(w) ==
  /\ worker[w] = "taken"
  /\ doing[w] \in cancelled
  /\ cancelled' = cancelled \ {doing[w]}
  /\ dropped' = dropped \cup {doing[w]}
  /\ ended' = ended \cup {doing[w]}
  /\ doing' = [doing EXCEPT ![w] = 0]
  /\ Move(w, "check")
  /\ UNCHANGED <<unused, pending, pc, plan, number, planOf, drawn, queue, released,
                 screen, died, silence, unwanted, cancels>>

-----------------------------------------------------------------------------
(* speak(), as queue_voice() defines it.                                   *)

\* The SpeechStarted event; a cancellation from before is forgotten.
StartSpeech(w) ==
  /\ worker[w] = "start"
  /\ overlay' = "speaking"
  /\ shown' = planOf[doing[w]]
  /\ silence' = FALSE
  /\ Move(w, "synthesize")
  /\ UNCHANGED <<unused, pending, pc, plan, number, planOf, drawn, queue, doing,
                 ended, released, losses, cancelled, unwanted, cancels>>

\* VOICEVOX returned audio, which is now played ...
Play(w) ==
  /\ worker[w] = "synthesize"
  /\ ~silence
  /\ Move(w, "play")
  /\ UNCHANGED <<unused, pending, pc, plan, number, planOf, drawn, queue, doing,
                 ended, released, screen, losses, cancellation>>

\* ... unless cancel() was called meanwhile.
PlayCancelled(w) ==
  /\ worker[w] = "synthesize"
  /\ silence
  /\ Move(w, "complete")
  /\ UNCHANGED <<unused, pending, pc, plan, number, planOf, drawn, queue, doing,
                 ended, released, screen, losses, cancellation>>

Played(w) ==
  /\ worker[w] = "play"
  /\ Move(w, "complete")
  /\ UNCHANGED <<unused, pending, pc, plan, number, planOf, drawn, queue, doing,
                 ended, released, screen, losses, cancellation>>

\* A fallback that shows a state the overlay does not have.
FallbackShown(w) ==
  /\ worker[w] \in {"synthesize", "play"}
  /\ overlay' = "subtitle-only"
  /\ shown' = planOf[doing[w]]
  /\ Move(w, "complete")
  /\ UNCHANGED <<unused, pending, pc, plan, number, planOf, drawn, queue, doing,
                 ended, released, losses, cancellation>>

\* A VoicevoxError: the SubtitleFallback event, and subtitles only.
Fallback(w) ==
  /\ worker[w] \in {"synthesize", "play"}
  /\ overlay' = "idle"
  /\ shown' = None
  /\ Move(w, "complete")
  /\ UNCHANGED <<unused, pending, pc, plan, number, planOf, drawn, queue, doing,
                 ended, released, losses, cancellation>>

\* A completion that is not announced.
CompleteSilently(w) ==
  /\ worker[w] = "complete"
  /\ ended' = ended \cup {doing[w]}
  /\ doing' = [doing EXCEPT ![w] = 0]
  /\ Move(w, "done")
  /\ UNCHANGED <<unused, pending, pc, plan, number, planOf, drawn, queue, released,
                 screen, losses, cancellation>>

\* A worker that takes the next job.
CompleteAndLoop(w) ==
  /\ worker[w] = "complete"
  /\ overlay' = "idle"
  /\ shown' = None
  /\ ended' = ended \cup {doing[w]}
  /\ doing' = [doing EXCEPT ![w] = 0]
  /\ Move(w, "check")
  /\ UNCHANGED <<unused, pending, pc, plan, number, planOf, drawn, queue, released,
                 losses, cancellation>>

\* The SpeechCompleted event; the thread ends.
Complete(w) ==
  /\ worker[w] = "complete"
  /\ overlay' = "idle"
  /\ shown' = None
  /\ ended' = ended \cup {doing[w]}
  /\ doing' = [doing EXCEPT ![w] = 0]
  /\ Move(w, "done")
  /\ UNCHANGED <<unused, pending, pc, plan, number, planOf, drawn, queue, released,
                 losses, cancellation>>

\* Any other exception (the engine's answer breaks off while it is read): the
\* thread dies and no event tells.
Raise(w) ==
  /\ worker[w] \in {"synthesize", "play"}
  /\ Cardinality(died) < MaxRaises
  /\ died' = died \cup {doing[w]}
  /\ ended' = ended \cup {doing[w]}
  /\ doing' = [doing EXCEPT ![w] = 0]
  /\ Move(w, "done")
  /\ UNCHANGED <<unused, pending, pc, plan, number, planOf, drawn, queue, released,
                 screen, dropped, cancellation>>

-----------------------------------------------------------------------------
(* Cancellation.                                                           *)

\* The stages of a worker whose job passed the test.
Speaking == {"start", "synthesize", "play", "complete"}

\* A worker has tested the job already.
Passed(j) ==
  \/ j \in ended
  \/ \E w \in Jobs : worker[w] \in Speaking /\ doing[w] = j

\* SpeechQueue.cancel of any id at any time: before its job is put in the queue (ids
\* are addresses, and one that was cancelled too late may return), while the job
\* waits or is taken, or when it is over.
CancelJob(j) ==
  /\ cancels < MaxCancels
  /\ cancels' = cancels + 1
  /\ cancelled' = cancelled \cup {j}
  /\ unwanted' = IF Passed(j) THEN unwanted ELSE unwanted \cup {j}
  /\ UNCHANGED <<unused, pending, pc, plan, number, planOf, drawn, queue, worker,
                 doing, ended, released, screen, losses, silence>>

\* SpeechService.cancel.
CancelSpeech ==
  /\ cancels < MaxCancels
  /\ cancels' = cancels + 1
  /\ silence' = TRUE
  /\ UNCHANGED <<unused, pending, pc, plan, number, planOf, drawn, queue, worker,
                 doing, ended, released, screen, losses, cancelled, unwanted>>

-----------------------------------------------------------------------------

HandlerStep(h) == Publish(h) \/ Enqueue(h) \/ Spawn(h)

WorkerStep(w) ==
  \/ SeeEmpty(w) \/ SeeJobs(w)
  \/ \E j \in Jobs : Get(w, j)
  \/ Accept(w) \/ Discard(w)
  \/ StartSpeech(w) \/ Play(w) \/ PlayCancelled(w) \/ Played(w)
  \/ Fallback(w) \/ Complete(w) \/ Raise(w)

Next ==
  \/ \E p \in Plans : StageResponse(p)
  \/ \E h \in Handlers, p \in Plans : ApproveResponse(h, p)
  \/ \E h \in Handlers, p \in Plans : MockResponse(h, p)
  \/ \E h \in Handlers : HandlerStep(h)
  \/ \E w \in Jobs : WorkerStep(w)
  \/ \E j \in Jobs : CancelJob(j)
  \/ CancelSpeech

\* A thread that can run is run: the interpreter switches between threads, and the
\* calls to VOICEVOX and to the player have time limits (5 s, 120 s).
Fairness ==
  /\ \A h \in Handlers : WF_vars(HandlerStep(h))
  /\ \A w \in Jobs : WF_vars(WorkerStep(w))

Spec == Init /\ [][Next]_vars /\ Fairness

-----------------------------------------------------------------------------
(* Properties.                                                             *)

\* Threads that will still take a job, once they are started.
Takers ==
  {w \in Jobs : worker[w] \in {"check", "get"}
                  \/ \E h \in Handlers : number[h] = w}

\* There is a thread for every job in the queue, although a worker may get a job
\* that was not its own, drop a cancelled one and take another, or leave on seeing
\* the queue empty (run_next ends with the first job it speaks).
EnoughWorkers == Cardinality(queue) <= Cardinality(Takers)

\* No worker waits in get() for a job that is not there, although its look at the
\* queue is a step before, but for one worker per dropped job: the job it came for
\* was taken by the worker that dropped its own (queue_voice puts the job in the
\* queue before it starts the worker, and run_next speaks one job).
NobodyWaitsInVain ==
  Cardinality({w \in Jobs : worker[w] = "get"})
    <= Cardinality(queue) + Cardinality(dropped)

\* A job that was cancelled before a worker tested it is not spoken, whether it was
\* not yet in the queue, waited there, or had just been taken (cancel, run_next).
CancelIsHonoured ==
  \A w \in Jobs : worker[w] \in Speaking => doing[w] \notin unwanted

\* A response is voiced once, however many approvals of it arrive together
\* (approve_response pops it).
VoicedOnce ==
  \A i, j \in 1..drawn : planOf[i] = planOf[j] => i = j

\* Every response that was approved is voiced, or its voice fails or is cancelled:
\* again and again there is a moment at which no released response is left without,
\* so no job is forgotten in the queue (queue_voice, run_next).
ReleasedIsVoiced ==
  []<>(\A p \in released : \E j \in ended : planOf[j] = p)

\* When all is said the overlay is idle, but for a response whose own job ended with
\* no event: it still says "thinking" of one whose job was dropped as cancelled, and
\* "speaking" of one whose worker died of an exception.  The events of other jobs,
\* which overlap, never leave it so (queue_voice, overlay-client.tsx;
\* docs/product/AVATAR_STATE_MACHINE.md).
QuietIsIdle ==
  /\ \A h \in Handlers : pc[h] = "idle"
  /\ \A w \in Jobs : worker[w] \in {"none", "get", "done"}
  /\ queue = {}
  => /\ overlay = "thinking" => \E j \in dropped : planOf[j] = shown
     /\ overlay = "speaking" => \E j \in died : planOf[j] = shown

\* docs/voice/VOICE_SPEC.md: "Voice is queued by priority": two jobs are never
\* played at the same time.
OneVoice ==
  \A v, w \in Jobs : worker[v] = "play" /\ worker[w] = "play" => v = w
=============================================================================

------------------------ MODULE SpeechPipelineProofs ------------------------
(***************************************************************************)
(* Proofs about SpeechPipeline, for any responses and priorities, any      *)
(* number of handler threads and jobs, of exceptions and cancellations.    *)
(***************************************************************************)
EXTENDS SpeechPipeline, FiniteSetTheorems, TLAPS

-----------------------------------------------------------------------------
(* The inductive invariant.                                                *)

\* The stages of a worker that has a job, and of a thread that holds a response.
Working == Speaking \cup {"taken"}
Holding == {"publish", "enqueue"}

\* A thread that has put its job in the queue has not started its worker.
Spawning ==
  \A h \in Handlers :
    /\ pc[h] # "spawn" => number[h] = 0
    /\ pc[h] = "spawn" => number[h] \in 1..drawn /\ worker[number[h]] = "none"

\* Two threads never start the same worker.
OwnWorker ==
  \A g, h \in Handlers : number[g] = number[h] /\ number[g] # 0 => g = h

\* A job that was not drawn is nowhere.
Undrawn ==
  /\ queue \cup ended \subseteq 1..drawn
  /\ \A w \in Jobs : w > drawn => worker[w] = "none"

\* A job is in one place: in the queue, with one worker, or over.
Taken ==
  /\ queue \cap ended = {}
  /\ dropped \cup died \subseteq ended
  /\ \A w \in Jobs :
       worker[w] \in Working => doing[w] \in (1..drawn) \ (queue \cup ended)
  /\ \A v, w \in Jobs :
       worker[v] \in Working /\ worker[w] \in Working /\ doing[v] = doing[w] => v = w

\* A job that was cancelled in time is still to be dropped, or was dropped; so no
\* worker speaks it.
Unwanted ==
  /\ unwanted \subseteq cancelled \cup dropped
  /\ CancelIsHonoured

\* A response is in one place: not drawn, under review, held by one thread, or
\* in one job.
Placed ==
  /\ unused \cap pending = {}
  /\ \A h \in Handlers :
       pc[h] \in Holding =>
         /\ plan[h] \in Plans \ (unused \cup pending)
         /\ \A j \in 1..drawn : planOf[j] # plan[h]
  /\ \A g, h \in Handlers :
       pc[g] \in Holding /\ pc[h] \in Holding /\ plan[g] = plan[h] => g = h
  /\ \A j \in 1..drawn : planOf[j] \in Plans \ (unused \cup pending)

\* There are no more workers for the queue than jobs, but for those that dropped one.
JustEnoughWorkers ==
  Cardinality(Takers) <= Cardinality(queue) + Cardinality(dropped)

\* A job whose worker has not told of it yet: it waits, is taken, or was dropped.
Untold(j) ==
  \/ j \in queue \cup dropped
  \/ \E w \in Jobs : worker[w] \in {"taken", "start"} /\ doing[w] = j

\* A job whose start was told and not its end: it is spoken, or its worker died.
Open(j) ==
  \/ j \in died
  \/ \E w \in Jobs : worker[w] \in {"synthesize", "play", "complete"} /\ doing[w] = j

\* Whoever is to take the overlay out of its state is on the way, unless it got lost.
WillBeIdle ==
  /\ overlay = "thinking" =>
       \/ \E h \in Handlers : pc[h] = "enqueue" /\ plan[h] = shown
       \/ \E j \in 1..drawn : planOf[j] = shown /\ Untold(j)
  /\ overlay = "speaking" =>
       \E j \in 1..drawn : planOf[j] = shown /\ Open(j)

IInv ==
  /\ TypeOK
  /\ Spawning
  /\ OwnWorker
  /\ Undrawn
  /\ Taken
  /\ Unwanted
  /\ Placed
  /\ VoicedOnce
  /\ EnoughWorkers
  /\ JustEnoughWorkers
  /\ WillBeIdle

-----------------------------------------------------------------------------
(* Each step keeps the invariant.                                          *)

\* The jobs in the queue and the workers that will take one can be counted.
LEMMA Countable ==
  ASSUME TypeOK
  PROVE  /\ IsFiniteSet(queue) /\ Cardinality(queue) \in Nat
         /\ IsFiniteSet(Takers) /\ Cardinality(Takers) \in Nat
         /\ IsFiniteSet(dropped) /\ Cardinality(dropped) \in Nat
<1>1. IsFiniteSet(Jobs)
  BY FS_Interval, SpeechConstants DEF Jobs
<1>2. queue \subseteq Jobs /\ Takers \subseteq Jobs /\ dropped \subseteq Jobs
  BY DEF TypeOK, Takers
<1>3. QED
  BY <1>1, <1>2, FS_Subset, FS_CardinalityType

\* A step that shows nothing leaves the overlay to the jobs that have it.
LEMMA StaysTold ==
  ASSUME IInv, UNCHANGED <<planOf, drawn, overlay, shown>>,
         \A h \in Handlers : pc[h] = "enqueue" => pc'[h] = "enqueue" /\ plan'[h] = plan[h],
         \A j \in Jobs : Untold(j) => Untold(j)',
         \A j \in Jobs : Open(j) => Open(j)'
  PROVE  WillBeIdle'
<1>1. \A j \in 1..drawn : j \in Jobs
  BY SpeechConstants DEF IInv, TypeOK, Jobs
<1>2. QED
  BY <1>1 DEF IInv, WillBeIdle

\* A step of a handler thread that draws a response, takes it or shows it.
LEMMA ResponseKeeps ==
  ASSUME IInv,
         \/ \E p \in Plans : StageResponse(p)
         \/ \E h \in Handlers, p \in Plans : ApproveResponse(h, p)
         \/ \E h \in Handlers, p \in Plans : MockResponse(h, p)
         \/ \E h \in Handlers : Publish(h)
  PROVE  IInv'
<1> USE DEF StageResponse, ApproveResponse, MockResponse, Release, Publish,
            cancellation, losses, screen
<1>1. /\ UNCHANGED <<number, planOf, drawn, queue, worker, doing, ended, dropped,
                     died, cancelled, silence, unwanted, cancels>>
      /\ \A h \in Handlers : pc'[h] = "spawn" <=> pc[h] = "spawn"
      /\ \A h \in Handlers : pc[h] = "enqueue" => pc'[h] = "enqueue"
  BY DEF IInv, TypeOK
<1>2. TypeOK'
  BY DEF IInv, TypeOK
<1>3. (Spawning /\ OwnWorker /\ Undrawn /\ Taken /\ Unwanted /\ VoicedOnce)'
  BY <1>1 DEF IInv, Spawning, OwnWorker, Undrawn, Taken, Unwanted, CancelIsHonoured,
         VoicedOnce
<1>4. Placed'
  BY SpeechConstants DEF IInv, TypeOK, Placed, Holding
<1>5. (EnoughWorkers /\ JustEnoughWorkers)'
  BY <1>1 DEF IInv, EnoughWorkers, JustEnoughWorkers, Takers
<1>6. WillBeIdle'
  <2>1. CASE UNCHANGED <<overlay, shown>>
    <3>1. \A h \in Handlers : pc[h] = "enqueue" => plan'[h] = plan[h]
      BY <2>1 DEF IInv, TypeOK
    <3>2. \A j \in Jobs : (Untold(j) => Untold(j)') /\ (Open(j) => Open(j)')
      BY <1>1 DEF Untold, Open
    <3>3. QED BY <1>1, <2>1, <3>1, <3>2, StaysTold
  <2>2. CASE \E h \in Handlers : Publish(h)
    BY <2>2 DEF IInv, TypeOK, WillBeIdle
  <2>3. QED BY <2>1, <2>2
<1>7. QED
  BY <1>2, <1>3, <1>4, <1>5, <1>6 DEF IInv

\* The job is in the queue (enqueue) and the thread is about to start its worker.
LEMMA EnqueueKeeps ==
  ASSUME IInv, NEW h \in Handlers, Enqueue(h)
  PROVE  IInv'
<1> DEFINE n == drawn + 1
<1>1. /\ n \in Jobs /\ n \notin queue /\ n \notin ended
      /\ 1..drawn' = (1..drawn) \cup {n} /\ n \notin 1..drawn
      /\ worker[n] = "none" /\ n # 0
      /\ number' = [number EXCEPT ![h] = n] /\ number[h] = 0
      /\ pc' = [pc EXCEPT ![h] = "spawn"] /\ pc[h] = "enqueue"
      /\ drawn' = n /\ queue' = queue \cup {n}
      /\ planOf' = [planOf EXCEPT ![n] = plan[h]]
      /\ drawn \in Nat
      /\ UNCHANGED <<worker, doing, ended, dropped, died, overlay, shown, cancelled,
                     unwanted, cancels, plan>>
  BY SpeechConstants
  DEF IInv, TypeOK, Undrawn, Spawning, Enqueue, Jobs, cancellation, losses, screen
<1>2. TypeOK'
  BY <1>1, SpeechConstants DEF IInv, TypeOK, Enqueue, Jobs, cancellation, losses, screen
<1>3. \A g \in Handlers : number[g] # 0 => number[g] \in 1..drawn
  BY DEF IInv, Spawning
<1>4. (Spawning /\ OwnWorker)'
  BY <1>1, <1>3 DEF IInv, TypeOK, Spawning, OwnWorker
<1>5. (Undrawn /\ Taken)'
  BY <1>1, SpeechConstants DEF IInv, TypeOK, Undrawn, Taken, Working, Jobs
<1>6. Unwanted'
  BY <1>1 DEF IInv, TypeOK, Unwanted, CancelIsHonoured
<1>7. Placed'
  BY <1>1 DEF IInv, TypeOK, Placed, Holding, Enqueue, Jobs
<1>8. VoicedOnce'
  BY <1>1 DEF IInv, TypeOK, Placed, Holding, VoicedOnce, Jobs
<1>9. Takers' = Takers \cup {n} /\ n \notin Takers
  <2>1. ASSUME NEW w \in Jobs
        PROVE  (\E g \in Handlers : number'[g] = w)
                 <=> w = n \/ \E g \in Handlers : number[g] = w
    <3>1. CASE w = n
      BY <1>1, <3>1 DEF IInv, TypeOK
    <3>2. CASE w # n
      <4>1. \A g \in Handlers : number'[g] = w <=> number[g] = w
        BY <1>1, <3>2 DEF IInv, TypeOK, Jobs
      <4>2. QED BY <3>2, <4>1
    <3>3. QED BY <3>1, <3>2
  <2>2. n \notin Takers
    BY <1>1, <1>3 DEF Takers
  <2>3. QED BY <1>1, <2>1, <2>2 DEF Takers, Jobs
<1>10. (EnoughWorkers /\ JustEnoughWorkers)'
  <2>1. /\ Cardinality(queue') = Cardinality(queue) + 1
        /\ Cardinality(Takers') = Cardinality(Takers) + 1
    BY <1>1, <1>9, Countable, FS_AddElement DEF IInv
  <2>2. /\ Cardinality(queue) \in Nat /\ Cardinality(Takers) \in Nat
        /\ Cardinality(dropped) \in Nat
    BY Countable DEF IInv
  <2>3. QED
    BY <1>1, <2>1, <2>2 DEF IInv, EnoughWorkers, JustEnoughWorkers
<1>11. WillBeIdle'
  <2>1. /\ \A j \in Jobs : Untold(j) => Untold(j)'
        /\ \A j \in Jobs : Open(j) => Open(j)'
        /\ \A j \in Jobs : j = n => Untold(j)'
    BY <1>1 DEF Untold, Open
  <2>2. \A j \in 1..drawn : planOf'[j] = planOf[j] /\ j \in Jobs /\ j \in 1..drawn'
    BY <1>1, SpeechConstants DEF IInv, TypeOK, Jobs
  <2>3. planOf'[n] = plan[h] /\ n \in 1..drawn'
    BY <1>1 DEF IInv, TypeOK
  <2>4. \A g \in Handlers : pc[g] = "enqueue" => g = h \/ pc'[g] = "enqueue"
    BY <1>1 DEF IInv, TypeOK
  <2>5. ASSUME overlay' = "thinking"
        PROVE  \/ \E g \in Handlers : pc'[g] = "enqueue" /\ plan'[g] = shown'
               \/ \E j \in 1..drawn' : planOf'[j] = shown' /\ Untold(j)'
    <3>1. CASE \E g \in Handlers : pc[g] = "enqueue" /\ plan[g] = shown
      BY <1>1, <2>1, <2>3, <2>4, <3>1
    <3>2. CASE \E j \in 1..drawn : planOf[j] = shown /\ Untold(j)
      BY <1>1, <2>1, <2>2, <3>2
    <3>3. QED BY <1>1, <2>5, <3>1, <3>2 DEF IInv, WillBeIdle
  <2>6. ASSUME overlay' = "speaking"
        PROVE  \E j \in 1..drawn' : planOf'[j] = shown' /\ Open(j)'
    BY <1>1, <2>1, <2>2, <2>6 DEF IInv, WillBeIdle
  <2>7. QED BY <2>5, <2>6 DEF WillBeIdle
<1>12. QED
  BY <1>2, <1>4, <1>5, <1>6, <1>7, <1>8, <1>10, <1>11 DEF IInv

\* The worker is started (queue_voice): it takes over from its thread.
LEMMA SpawnKeeps ==
  ASSUME IInv, NEW h \in Handlers, Spawn(h)
  PROVE  IInv'
<1> DEFINE n == number[h]
<1>1. /\ n \in 1..drawn /\ n \in Jobs /\ n # 0 /\ worker[n] = "none"
      /\ pc[h] = "spawn"
      /\ pc' = [pc EXCEPT ![h] = "idle"]
      /\ number' = [number EXCEPT ![h] = 0]
      /\ worker' = [worker EXCEPT ![n] = "check"]
      /\ plan' = [plan EXCEPT ![h] = None]
      /\ UNCHANGED <<unused, pending, planOf, drawn, queue, doing, ended, released,
                     overlay, shown, dropped, died, cancelled, silence, unwanted, cancels>>
  BY SpeechConstants
  DEF IInv, TypeOK, Spawning, Spawn, Jobs, cancellation, losses, screen
<1>2. TypeOK'
  BY <1>1, SpeechConstants DEF IInv, TypeOK
<1>3. (Spawning /\ OwnWorker)'
  BY <1>1 DEF IInv, TypeOK, Spawning, OwnWorker
<1>4. (Undrawn /\ Taken /\ Unwanted)'
  BY <1>1 DEF IInv, TypeOK, Undrawn, Taken, Unwanted, CancelIsHonoured, Working,
         Speaking, Jobs
<1>5. (Placed /\ VoicedOnce)'
  BY <1>1 DEF IInv, TypeOK, Placed, VoicedOnce, Holding
<1>6. Takers' = Takers
  <2>1. ASSUME NEW w \in Jobs PROVE w \in Takers' <=> w \in Takers
    <3>1. CASE w = n
      BY <1>1, <3>1 DEF IInv, TypeOK, Takers, Jobs
    <3>2. CASE w # n
      <4>1. worker'[w] = worker[w]
        BY <1>1, <3>2 DEF IInv, TypeOK
      <4>2. \A g \in Handlers : number'[g] = w <=> number[g] = w
        BY <1>1, <3>2 DEF IInv, TypeOK, Jobs
      <4>3. QED BY <4>1, <4>2 DEF Takers, Jobs
    <3>3. QED BY <3>1, <3>2
  <2>2. QED BY <2>1 DEF Takers, Jobs
<1>7. (EnoughWorkers /\ JustEnoughWorkers)'
  BY <1>1, <1>6 DEF IInv, EnoughWorkers, JustEnoughWorkers
<1>8. WillBeIdle'
  <2>1. \A j \in Jobs : (Untold(j) => Untold(j)') /\ (Open(j) => Open(j)')
    BY <1>1 DEF IInv, TypeOK, Untold, Open
  <2>2. QED BY <1>1, <2>1, StaysTold DEF IInv, TypeOK
<1>9. QED
  BY <1>2, <1>3, <1>4, <1>5, <1>7, <1>8 DEF IInv

\* A worker that leaves on seeing the queue empty leaves no job behind.
LEMMA SeeEmptyKeeps ==
  ASSUME IInv, NEW w \in Jobs, SeeEmpty(w)
  PROVE  IInv'
<1>1. /\ worker[w] = "check" /\ queue = {}
      /\ worker' = [worker EXCEPT ![w] = "done"]
      /\ UNCHANGED <<unused, pending, pc, plan, number, planOf, drawn, queue, doing,
                     ended, released, overlay, shown, dropped, died, cancelled,
                     silence, unwanted, cancels>>
  BY DEF SeeEmpty, Move, cancellation, losses, screen
<1>2. TypeOK'
  BY <1>1 DEF IInv, TypeOK
<1>3. (Spawning /\ OwnWorker)'
  BY <1>1 DEF IInv, TypeOK, Spawning, OwnWorker, Jobs
<1>4. (Undrawn /\ Taken /\ Unwanted)'
  BY <1>1 DEF IInv, TypeOK, Undrawn, Taken, Unwanted, CancelIsHonoured, Working,
         Speaking, Jobs
<1>5. (Placed /\ VoicedOnce)'
  BY <1>1 DEF IInv, TypeOK, Placed, VoicedOnce, Holding
<1>6. (EnoughWorkers /\ JustEnoughWorkers)'
  <2>1. /\ Cardinality(queue) = 0
        /\ IsFiniteSet(Takers) /\ Cardinality(Takers) \in Nat
        /\ Cardinality(dropped) \in Nat
    BY <1>1, Countable, FS_EmptySet DEF IInv
  <2>2. Takers' \subseteq Takers
    BY <1>1 DEF IInv, TypeOK, Takers, Jobs
  <2>3. Cardinality(Takers') \in Nat /\ Cardinality(Takers') <= Cardinality(Takers)
    BY <2>1, <2>2, FS_Subset, FS_CardinalityType
  <2>4. QED
    BY <1>1, <2>1, <2>3 DEF IInv, EnoughWorkers, JustEnoughWorkers
<1>7. WillBeIdle'
  <2>1. \A j \in Jobs : (Untold(j) => Untold(j)') /\ (Open(j) => Open(j)')
    BY <1>1 DEF IInv, TypeOK, Untold, Open
  <2>2. QED BY <1>1, <2>1, StaysTold DEF IInv, TypeOK
<1>8. QED
  BY <1>2, <1>3, <1>4, <1>5, <1>6, <1>7 DEF IInv

\* A worker that has seen jobs still takes one.
LEMMA SeeJobsKeeps ==
  ASSUME IInv, NEW w \in Jobs, SeeJobs(w)
  PROVE  IInv'
<1>1. /\ worker[w] = "check"
      /\ worker' = [worker EXCEPT ![w] = "get"]
      /\ UNCHANGED <<unused, pending, pc, plan, number, planOf, drawn, queue, doing,
                     ended, released, overlay, shown, dropped, died, cancelled,
                     silence, unwanted, cancels>>
  BY DEF SeeJobs, Move, cancellation, losses, screen
<1>2. TypeOK'
  BY <1>1 DEF IInv, TypeOK
<1>3. (Spawning /\ OwnWorker)'
  BY <1>1 DEF IInv, TypeOK, Spawning, OwnWorker, Jobs
<1>4. (Undrawn /\ Taken /\ Unwanted)'
  BY <1>1 DEF IInv, TypeOK, Undrawn, Taken, Unwanted, CancelIsHonoured, Working,
         Speaking, Jobs
<1>5. (Placed /\ VoicedOnce)'
  BY <1>1 DEF IInv, TypeOK, Placed, VoicedOnce, Holding
<1>6. Takers' = Takers
  BY <1>1 DEF IInv, TypeOK, Takers, Jobs
<1>7. (EnoughWorkers /\ JustEnoughWorkers)'
  BY <1>1, <1>6 DEF IInv, EnoughWorkers, JustEnoughWorkers
<1>8. WillBeIdle'
  <2>1. \A j \in Jobs : (Untold(j) => Untold(j)') /\ (Open(j) => Open(j)')
    BY <1>1 DEF IInv, TypeOK, Untold, Open
  <2>2. QED BY <1>1, <2>1, StaysTold DEF IInv, TypeOK
<1>9. QED
  BY <1>2, <1>3, <1>4, <1>5, <1>7, <1>8 DEF IInv

\* A job and a worker for it leave together.
LEMMA GetKeeps ==
  ASSUME IInv, NEW w \in Jobs, NEW j \in Jobs, Get(w, j)
  PROVE  IInv'
<1>1. /\ worker[w] = "get" /\ j \in queue /\ j \in 1..drawn
      /\ worker' = [worker EXCEPT ![w] = "taken"]
      /\ queue' = queue \ {j}
      /\ doing' = [doing EXCEPT ![w] = j]
      /\ UNCHANGED <<unused, pending, pc, plan, number, planOf, drawn, ended,
                     released, overlay, shown, dropped, died, cancelled, silence,
                     unwanted, cancels>>
  BY DEF IInv, Undrawn, Get, First, Move, cancellation, losses, screen
<1>2. TypeOK'
  BY <1>1, SpeechConstants DEF IInv, TypeOK, Jobs
<1>3. (Spawning /\ OwnWorker)'
  BY <1>1 DEF IInv, TypeOK, Spawning, OwnWorker, Jobs
<1>4. (Undrawn /\ Unwanted)'
  BY <1>1 DEF IInv, TypeOK, Undrawn, Unwanted, CancelIsHonoured, Speaking, Jobs
<1>5. Taken'
  BY <1>1 DEF IInv, TypeOK, Taken, Working, Speaking
<1>6. (Placed /\ VoicedOnce)'
  BY <1>1 DEF IInv, TypeOK, Placed, VoicedOnce, Holding
<1>7. Takers' = Takers \ {w} /\ w \in Takers
  <2>1. \A g \in Handlers : number[g] # w
    BY <1>1 DEF IInv, Spawning, Jobs
  <2>2. \A v \in Jobs : worker'[v] = IF v = w THEN "taken" ELSE worker[v]
    BY <1>1 DEF IInv, TypeOK
  <2>3. QED BY <1>1, <2>1, <2>2 DEF Takers, Jobs
<1>8. (EnoughWorkers /\ JustEnoughWorkers)'
  <2>1. /\ Cardinality(queue') = Cardinality(queue) - 1
        /\ Cardinality(Takers') = Cardinality(Takers) - 1
    BY <1>1, <1>7, Countable, FS_RemoveElement DEF IInv
  <2>2. /\ Cardinality(queue) \in Nat /\ Cardinality(Takers) \in Nat
        /\ Cardinality(dropped) \in Nat
    BY Countable DEF IInv
  <2>3. QED
    BY <1>1, <2>1, <2>2 DEF IInv, EnoughWorkers, JustEnoughWorkers
<1>9. WillBeIdle'
  <2>1. \A i \in Jobs : (Untold(i) => Untold(i)') /\ (Open(i) => Open(i)')
    BY <1>1 DEF IInv, TypeOK, Untold, Open
  <2>2. QED BY <1>1, <2>1, StaysTold
<1>10. QED
  BY <1>2, <1>3, <1>4, <1>5, <1>6, <1>8, <1>9 DEF IInv

\* A job that passes the test was not cancelled in time.
LEMMA AcceptKeeps ==
  ASSUME IInv, NEW w \in Jobs, Accept(w)
  PROVE  IInv'
<1>1. /\ worker[w] = "taken" /\ doing[w] \notin cancelled
      /\ worker' = [worker EXCEPT ![w] = "start"]
      /\ UNCHANGED <<unused, pending, pc, plan, number, planOf, drawn, queue, doing,
                     ended, released, overlay, shown, dropped, died, cancelled,
                     silence, unwanted, cancels>>
  BY DEF Accept, Move, cancellation, losses, screen
<1>2. TypeOK'
  BY <1>1 DEF IInv, TypeOK
<1>3. (Spawning /\ OwnWorker)'
  BY <1>1 DEF IInv, TypeOK, Spawning, OwnWorker, Jobs
<1>4. (Undrawn /\ Taken)'
  BY <1>1 DEF IInv, TypeOK, Undrawn, Taken, Working, Speaking, Jobs
<1>5. Unwanted'
  <2>1. doing[w] \notin unwanted
    BY <1>1 DEF IInv, Unwanted, Taken, Working
  <2>2. QED BY <1>1, <2>1 DEF IInv, TypeOK, Unwanted, CancelIsHonoured
<1>6. (Placed /\ VoicedOnce)'
  BY <1>1 DEF IInv, Placed, VoicedOnce
<1>7. Takers' = Takers
  BY <1>1 DEF IInv, TypeOK, Takers, Jobs
<1>8. (EnoughWorkers /\ JustEnoughWorkers)'
  BY <1>1, <1>7 DEF IInv, EnoughWorkers, JustEnoughWorkers
<1>9. WillBeIdle'
  <2>1. \A j \in Jobs : (Untold(j) => Untold(j)') /\ (Open(j) => Open(j)')
    BY <1>1 DEF IInv, TypeOK, Untold, Open
  <2>2. QED BY <1>1, <2>1, StaysTold
<1>10. QED
  BY <1>2, <1>3, <1>4, <1>5, <1>6, <1>8, <1>9 DEF IInv

\* A cancelled job is dropped, and the worker stays for another.
LEMMA DiscardKeeps ==
  ASSUME IInv, NEW w \in Jobs, Discard(w)
  PROVE  IInv'
<1> DEFINE d == doing[w]
<1>1. /\ worker[w] = "taken" /\ d \in 1..drawn /\ d \in Jobs
      /\ d \notin queue \cup ended \cup dropped
      /\ worker' = [worker EXCEPT ![w] = "check"]
      /\ doing' = [doing EXCEPT ![w] = 0]
      /\ cancelled' = cancelled \ {d}
      /\ dropped' = dropped \cup {d}
      /\ ended' = ended \cup {d}
      /\ UNCHANGED <<unused, pending, pc, plan, number, planOf, drawn, queue,
                     released, overlay, shown, died, silence, unwanted, cancels>>
  BY SpeechConstants
  DEF IInv, TypeOK, Taken, Working, Discard, Move, screen, Jobs
<1>2. TypeOK'
  BY <1>1, SpeechConstants DEF IInv, TypeOK
<1>3. (Spawning /\ OwnWorker)'
  BY <1>1 DEF IInv, TypeOK, Spawning, OwnWorker, Jobs
<1>4. Undrawn'
  BY <1>1 DEF IInv, TypeOK, Undrawn, Jobs
<1>5. Taken'
  BY <1>1 DEF IInv, TypeOK, Taken, Working, Speaking
<1>6. Unwanted'
  BY <1>1 DEF IInv, TypeOK, Unwanted, CancelIsHonoured, Speaking
<1>7. (Placed /\ VoicedOnce)'
  BY <1>1 DEF IInv, Placed, VoicedOnce
<1>8. Takers' = Takers \cup {w} /\ w \notin Takers
  <2>1. \A g \in Handlers : number[g] # w
    BY <1>1 DEF IInv, Spawning, Jobs
  <2>2. \A v \in Jobs : worker'[v] = IF v = w THEN "check" ELSE worker[v]
    BY <1>1 DEF IInv, TypeOK
  <2>3. QED BY <1>1, <2>1, <2>2 DEF Takers, Jobs
<1>9. (EnoughWorkers /\ JustEnoughWorkers)'
  <2>1. /\ Cardinality(dropped') = Cardinality(dropped) + 1
        /\ Cardinality(Takers') = Cardinality(Takers) + 1
    BY <1>1, <1>8, Countable, FS_AddElement DEF IInv
  <2>2. /\ Cardinality(queue) \in Nat /\ Cardinality(Takers) \in Nat
        /\ Cardinality(dropped) \in Nat
    BY Countable DEF IInv
  <2>3. QED
    BY <1>1, <2>1, <2>2 DEF IInv, EnoughWorkers, JustEnoughWorkers
<1>10. WillBeIdle'
  <2>1. \A j \in Jobs : (Untold(j) => Untold(j)') /\ (Open(j) => Open(j)')
    BY <1>1 DEF IInv, TypeOK, Untold, Open
  <2>2. QED BY <1>1, <2>1, StaysTold
<1>11. QED
  BY <1>2, <1>3, <1>4, <1>5, <1>6, <1>7, <1>9, <1>10 DEF IInv

\* A worker that speaks a job goes on with it, or ends: told, or of an exception.
LEMMA SpeechKeeps ==
  ASSUME IInv, NEW w \in Jobs, worker[w] \in Speaking,
         \/ StartSpeech(w) \/ Play(w) \/ PlayCancelled(w) \/ Played(w)
         \/ Fallback(w) \/ Complete(w) \/ Raise(w)
  PROVE  IInv'
<1> DEFINE d == doing[w]
<1>1. PICK stage \in {"synthesize", "play", "complete", "done"} :
        worker' = [worker EXCEPT ![w] = stage]
  BY DEF StartSpeech, Play, PlayCancelled, Played, Fallback, Complete, Raise, Move
<1>2. /\ d \in 1..drawn /\ d \in Jobs /\ d \notin queue \cup ended
      /\ planOf[d] \in Plans
  BY SpeechConstants DEF IInv, TypeOK, Taken, Working, Placed, Jobs
<1>3. /\ UNCHANGED <<unused, pending, pc, plan, number, planOf, drawn, queue,
                     released, dropped, cancelled, unwanted, cancels>>
      /\ silence' \in BOOLEAN
      /\ \/ stage # "done" /\ UNCHANGED <<doing, ended, died>>
         \/ /\ stage = "done"
            /\ doing' = [doing EXCEPT ![w] = 0]
            /\ ended' = ended \cup {d}
            /\ died' \in {died, died \cup {d}}
      /\ \/ overlay' = "idle" /\ shown' = None
         \/ StartSpeech(w) /\ overlay' = "speaking" /\ shown' = planOf[d]
         \/ Play(w) /\ UNCHANGED <<overlay, shown>>
         \/ PlayCancelled(w) /\ UNCHANGED <<overlay, shown>>
         \/ Played(w) /\ UNCHANGED <<overlay, shown>>
         \/ Raise(w) /\ UNCHANGED <<overlay, shown>>
  <2>1. CASE StartSpeech(w)
    BY <1>1, <2>1 DEF StartSpeech, Move, IInv, TypeOK, losses
  <2>2. CASE Play(w) \/ PlayCancelled(w) \/ Played(w)
    BY <1>1, <2>2
    DEF Play, PlayCancelled, Played, Move, IInv, TypeOK, cancellation, losses, screen
  <2>3. CASE Fallback(w)
    BY <1>1, <2>3 DEF Fallback, Move, IInv, TypeOK, cancellation, losses
  <2>4. CASE Complete(w)
    BY <1>1, <2>4 DEF Complete, Move, IInv, TypeOK, cancellation, losses
  <2>5. CASE Raise(w)
    BY <1>1, <2>5 DEF Raise, Move, IInv, TypeOK, cancellation, screen
  <2>6. QED BY <2>1, <2>2, <2>3, <2>4, <2>5
<1>4. TypeOK'
  BY <1>1, <1>2, <1>3, SpeechConstants DEF IInv, TypeOK
<1>5. (Spawning /\ OwnWorker)'
  BY <1>1, <1>3 DEF IInv, TypeOK, Spawning, OwnWorker, Speaking, Jobs
<1>6. \A v \in Jobs : worker'[v] = IF v = w THEN stage ELSE worker[v]
  BY <1>1 DEF IInv, TypeOK
<1>7. Undrawn'
  BY <1>2, <1>3, <1>6 DEF IInv, Undrawn, Speaking
<1>8. \A v \in Jobs : worker'[v] \in Working => worker[v] \in Working /\ doing'[v] = doing[v]
  BY <1>3, <1>6 DEF IInv, TypeOK, Working, Speaking
<1>9. Taken'
  <2>1. ASSUME NEW v \in Jobs, worker'[v] \in Working
        PROVE  doing'[v] \in (1..drawn') \ (queue' \cup ended')
    <3>1. v # w => doing[v] # d
      BY <1>8, <2>1 DEF IInv, Taken, Working
    <3>2. v = w => stage # "done"
      BY <1>6, <2>1 DEF Working, Speaking
    <3>3. QED BY <1>3, <1>8, <2>1, <3>1, <3>2 DEF IInv, Taken
  <2>2. QED BY <1>2, <1>3, <1>8, <2>1 DEF IInv, Taken
<1>10. Unwanted'
  <2>1. \A v \in Jobs : worker'[v] \in Speaking => worker[v] \in Speaking /\ doing'[v] = doing[v]
    BY <1>3, <1>6 DEF IInv, TypeOK, Speaking
  <2>2. QED BY <1>3, <2>1 DEF IInv, Unwanted, CancelIsHonoured
<1>11. (Placed /\ VoicedOnce)'
  BY <1>3 DEF IInv, Placed, VoicedOnce
<1>12. (EnoughWorkers /\ JustEnoughWorkers)'
  <2>1. \A v \in Jobs :
          worker'[v] \in {"check", "get"} <=> worker[v] \in {"check", "get"}
    BY <1>6 DEF Speaking
  <2>2. Takers' = Takers
    BY <1>3, <2>1 DEF Takers, Jobs
  <2>3. QED BY <1>3, <2>2 DEF IInv, EnoughWorkers, JustEnoughWorkers
<1>13. WillBeIdle'
  <2>1. CASE overlay' = "idle"
    BY <2>1 DEF WillBeIdle
  <2>2. CASE StartSpeech(w) /\ overlay' = "speaking" /\ shown' = planOf[d]
    <3>1. stage = "synthesize"
      BY <1>6, <2>2 DEF StartSpeech, Move, IInv, TypeOK
    <3>2. \A j \in Jobs : j = d => Open(j)'
      BY <1>3, <1>6, <3>1 DEF Open
    <3>3. QED BY <1>2, <1>3, <2>2, <3>2 DEF WillBeIdle
  <2>3. CASE /\ Play(w) \/ PlayCancelled(w) \/ Played(w) \/ Raise(w)
             /\ UNCHANGED <<overlay, shown>>
    <3>1. worker[w] \in {"synthesize", "play"}
      BY <2>3 DEF Play, PlayCancelled, Played, Raise
    <3>2. \A j \in Jobs : Untold(j) => Untold(j)'
      BY <1>3, <1>6, <3>1 DEF IInv, TypeOK, Untold
    <3>3. stage = "done" => d \in died'
      BY <1>6, <2>3 DEF Play, PlayCancelled, Played, Raise, Move, IInv, TypeOK
    <3>4. \A j \in Jobs : Open(j) => Open(j)'
      BY <1>3, <1>6, <3>3 DEF IInv, TypeOK, Open
    <3>5. QED BY <1>3, <2>3, <3>2, <3>4, StaysTold
  <2>4. QED BY <1>3, <2>1, <2>2, <2>3
<1>14. QED
  BY <1>4, <1>5, <1>7, <1>9, <1>10, <1>11, <1>12, <1>13 DEF IInv

\* A cancellation marks a job, in time or too late, or silences the voice.
LEMMA CancelKeeps ==
  ASSUME IInv, CancelSpeech \/ \E j \in Jobs : CancelJob(j)
  PROVE  IInv'
<1>1. /\ cancels' \in 0..MaxCancels
      /\ silence' \in BOOLEAN
      /\ UNCHANGED <<unused, pending, pc, plan, number, planOf, drawn, queue, worker,
                     doing, ended, released, overlay, shown, dropped, died>>
      /\ \/ UNCHANGED <<cancelled, unwanted>>
         \/ \E j \in Jobs :
              /\ cancelled' = cancelled \cup {j}
              /\ unwanted' = IF Passed(j) THEN unwanted ELSE unwanted \cup {j}
  <2>1. silence' \in BOOLEAN
    BY DEF IInv, TypeOK, CancelSpeech, CancelJob
  <2>2. cancels' \in 0..MaxCancels
    BY SpeechConstants DEF IInv, TypeOK, CancelSpeech, CancelJob
  <2>3. QED BY <2>1, <2>2 DEF CancelSpeech, CancelJob, losses, screen
<1>2. TypeOK'
  BY <1>1 DEF IInv, TypeOK
<1>3. (Spawning /\ OwnWorker)'
  BY <1>1 DEF IInv, Spawning, OwnWorker
<1>4. (Undrawn /\ Taken)'
  BY <1>1 DEF IInv, Undrawn, Taken
<1>5. Unwanted'
  BY <1>1 DEF IInv, Unwanted, CancelIsHonoured, Passed
<1>6. (Placed /\ VoicedOnce)'
  BY <1>1 DEF IInv, Placed, VoicedOnce
<1>7. (EnoughWorkers /\ JustEnoughWorkers)'
  BY <1>1 DEF IInv, EnoughWorkers, JustEnoughWorkers, Takers
<1>8. WillBeIdle'
  <2>1. \A j \in Jobs : (Untold(j) => Untold(j)') /\ (Open(j) => Open(j)')
    BY <1>1 DEF Untold, Open
  <2>2. QED BY <1>1, <2>1, StaysTold
<1>9. QED
  BY <1>2, <1>3, <1>4, <1>5, <1>6, <1>7, <1>8 DEF IInv

\* The invariant holds initially.
LEMMA InitIInv == Init => IInv
<1> SUFFICES ASSUME Init PROVE IInv
  OBVIOUS
<1>1. TypeOK
  <2>1. silence \in BOOLEAN
    BY DEF Init
  <2>2. 0 \in 0..MaxJobs /\ 0 \in 0..MaxCancels
    BY SpeechConstants
  <2>3. QED BY <2>1, <2>2 DEF Init, TypeOK
<1>2. Spawning /\ OwnWorker /\ Undrawn /\ Taken /\ Unwanted
  BY DEF Init, Spawning, OwnWorker, Undrawn, Taken, Unwanted, CancelIsHonoured,
         Working, Speaking, Jobs
<1>3. Placed /\ VoicedOnce /\ WillBeIdle
  BY DEF Init, Placed, VoicedOnce, WillBeIdle, Holding
<1>4. EnoughWorkers /\ JustEnoughWorkers
  <2>1. queue = {} /\ Takers = {} /\ dropped = {}
    BY DEF Init, Takers, Jobs
  <2>2. QED BY <2>1, FS_EmptySet DEF EnoughWorkers, JustEnoughWorkers
<1>5. QED
  BY <1>1, <1>2, <1>3, <1>4 DEF IInv

\* Every step keeps it.
LEMMA NextIInv == IInv /\ [Next]_vars => IInv'
<1> SUFFICES ASSUME IInv, [Next]_vars PROVE IInv'
  OBVIOUS
<1>1. CASE \/ \E p \in Plans : StageResponse(p)
           \/ \E h \in Handlers, p \in Plans : ApproveResponse(h, p)
           \/ \E h \in Handlers, p \in Plans : MockResponse(h, p)
           \/ \E h \in Handlers : Publish(h)
  BY <1>1, ResponseKeeps
<1>2. ASSUME NEW h \in Handlers, Enqueue(h) \/ Spawn(h)
      PROVE  IInv'
  BY <1>2, EnqueueKeeps, SpawnKeeps
<1>3. ASSUME NEW w \in Jobs, WorkerStep(w)
      PROVE  IInv'
  <2>1. CASE SeeEmpty(w) \/ SeeJobs(w)
    BY <2>1, SeeEmptyKeeps, SeeJobsKeeps
  <2>2. CASE Accept(w) \/ Discard(w) \/ \E j \in Jobs : Get(w, j)
    BY <2>2, GetKeeps, AcceptKeeps, DiscardKeeps
  <2>3. CASE \/ StartSpeech(w) \/ Play(w) \/ PlayCancelled(w) \/ Played(w)
             \/ Fallback(w) \/ Complete(w) \/ Raise(w)
    <3>1. worker[w] \in Speaking
      BY <2>3 DEF StartSpeech, Play, PlayCancelled, Played, Fallback, Complete,
             Raise, Speaking
    <3>2. QED BY <2>3, <3>1, SpeechKeeps
  <2>4. QED BY <1>3, <2>1, <2>2, <2>3 DEF WorkerStep
<1>4. CASE CancelSpeech \/ \E j \in Jobs : CancelJob(j)
  BY <1>4, CancelKeeps
<1>5. CASE UNCHANGED vars
  <2>1. (TypeOK /\ Spawning /\ OwnWorker /\ Undrawn /\ Taken /\ Unwanted)'
    BY <1>5 DEF vars, cancellation, losses, screen, IInv, TypeOK, Spawning, OwnWorker,
           Undrawn, Taken, Unwanted, CancelIsHonoured
  <2>2. (Placed /\ VoicedOnce)'
    BY <1>5 DEF vars, IInv, Placed, VoicedOnce
  <2>3. (EnoughWorkers /\ JustEnoughWorkers /\ WillBeIdle)'
    BY <1>5 DEF vars, losses, screen, IInv, EnoughWorkers, JustEnoughWorkers, Takers,
           WillBeIdle, Untold, Open
  <2>4. QED BY <2>1, <2>2, <2>3 DEF IInv
<1>6. QED
  BY <1>1, <1>2, <1>3, <1>4, <1>5 DEF Next, HandlerStep

\* The invariant holds in every reachable state.
THEOREM Invariance == Spec => []IInv
<1>1. Init => IInv
  BY InitIInv
<1>2. IInv /\ [Next]_vars => IInv'
  BY NextIInv
<1>3. QED
  BY <1>1, <1>2, PTL DEF Spec

-----------------------------------------------------------------------------
(* What the pipeline promises.                                             *)

\* Every variable keeps to its values.
THEOREM TypeCorrect == Spec => []TypeOK
<1>1. IInv => TypeOK
  BY DEF IInv
<1>2. QED
  BY <1>1, Invariance, PTL

\* approve_response pops what it approves: no response is voiced twice.
THEOREM OneVoicing == Spec => []VoicedOnce
<1>1. IInv => VoicedOnce
  BY DEF IInv
<1>2. QED
  BY <1>1, Invariance, PTL

\* run_next ends with the first job it speaks, and yet there is a worker for every
\* job in the queue.
THEOREM WorkersSuffice == Spec => []EnoughWorkers
<1>1. IInv => EnoughWorkers
  BY DEF IInv
<1>2. QED
  BY <1>1, Invariance, PTL

\* queue_voice puts the job in the queue before it starts the worker: no worker waits
\* in get() for a job that is not there, but for one per job that was dropped.
THEOREM NoVainWait == Spec => []NobodyWaitsInVain
<1>1. IInv => NobodyWaitsInVain
  <2> SUFFICES ASSUME IInv PROVE NobodyWaitsInVain
    OBVIOUS
  <2> DEFINE waiting == {w \in Jobs : worker[w] = "get"}
  <2>1. waiting \subseteq Takers
    BY DEF Takers
  <2>2. Cardinality(waiting) \in Nat /\ Cardinality(waiting) <= Cardinality(Takers)
    BY <2>1, Countable, FS_Subset, FS_CardinalityType DEF IInv
  <2>3. QED
    BY <2>2, Countable DEF IInv, JustEnoughWorkers, NobodyWaitsInVain
<1>2. QED
  BY <1>1, Invariance, PTL

\* cancel() and run_next: a job cancelled before it was tested is spoken by no worker.
THEOREM CancellationIsHonoured == Spec => []CancelIsHonoured
<1>1. IInv => CancelIsHonoured
  BY DEF IInv, Unwanted
<1>2. QED
  BY <1>1, Invariance, PTL

\* queue_voice and overlay-client.tsx: however the events of jobs overlap, when all is
\* said the overlay is idle, or still thinking of a response whose job was dropped,
\* or still speaking one whose worker died.
THEOREM IdleAtTheEnd == Spec => []QuietIsIdle
<1>1. IInv => QuietIsIdle
  BY DEF IInv, QuietIsIdle, WillBeIdle, Untold, Open
<1>2. QED
  BY <1>1, Invariance, PTL

=============================================================================

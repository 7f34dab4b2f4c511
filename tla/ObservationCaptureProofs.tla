------------------------ MODULE ObservationCaptureProofs ------------------------
(***************************************************************************)
(* Proofs about ObservationCapture, for any handler threads, frames and    *)
(* limits.                                                                 *)
(***************************************************************************)
EXTENDS ObservationCapture, FiniteSetTheorems, SequenceTheorems, WellFoundedInduction,
        TLAPS

-----------------------------------------------------------------------------
(* The inductive invariant.                                                *)

\* Thread t has read the header of a message and not yet the rest.
Reads(t) == pc[t] # "idle" /\ job[t].reading

\* On a connection that is in order there is a message for the one thread that reads.
Sound == ~socket.broken /\ ~socket.torn
OneReader ==
  Sound => \A t \in Threads : Reads(t) =>
    socket.inbox # <<>> /\ \A u \in Threads : Reads(u) => u = t

\* The requests on their way to OBS over s, and the answers on their way back.
On(s) == {x \in Range(s.sent) : x.what # "identify"}
           \cup {x \in Range(s.inbox) : x.op = "answer"}
UnderWay == On(socket)

\* The stages in which a thread has written the number of its request.
Holding == {"format", "send", "answer"}

\* Message x has a number that was given out, and who waits for it sent request x.
Fits(x) ==
  /\ x.re <= number
  /\ \A t \in Threads : pc[t] = "answer" /\ job[t].number = x.re => job[t].serial = x.serial

\* Nobody else has the number of thread t, and nothing under way has it.
Own(t) ==
  /\ \A u \in Threads \ {t} : pc[u] \in Holding => job[u].number # job[t].number
  /\ \A x \in UnderWay : x.re # job[t].number

\* Unless two threads met in numbering their requests, numbers tell requests apart.
NumbersAreOwn ==
  ~clashed =>
    /\ \A x \in UnderWay : Fits(x)
    /\ \A t \in Threads : pc[t] \in Holding => job[t].number <= number
    /\ \A t \in Threads : pc[t] \in {"format", "send"} => Own(t)

\* One thread at a time changes _observations.
Change == {"kept", "expired"}
AloneChanging ==
  ~overlapped => \A t, u \in Threads : pc[t] \in Change /\ pc[u] \in Change => t = u

\* A slice is no longer than max_frames.
SlicesAreCut ==
  \A t \in Threads :
    /\ pc[t] = "seen" => Len(job[t].hashes) <= MaxFrames
    /\ ~overlapped /\ pc[t] \in Change => Cardinality(job[t].copy) <= MaxFrames

\* The observations that a reader should get: alive and among the newest.
Fresh == {o \in Made : Alive(o) /\ o + MaxFrames > Len(life)}

\* The list has them all, and so has what takes its place.
NothingIsLost ==
  ~overlapped =>
    /\ Fresh \subseteq kept
    /\ \A t \in Threads : pc[t] \in Change => Fresh \subseteq job[t].copy

\* What had expired when a reader called stays out.
ExpiredStayOut ==
  ~overlapped =>
    \A t \in Threads :
      /\ pc[t] \in {"expired", "view"} =>
           \A u \in Threads : pc[u] \in Change => job[u].copy \cap job[t].expired = {}
      /\ pc[t] = "view" => kept \cap job[t].expired = {}

\* What the types say of the connection, of the lists, of the threads and the rest.
ObsTypeOK ==
  /\ number \in Nat /\ asked \in Nat
  /\ socket \in Socket
  /\ clashed \in BOOLEAN /\ foreign \in BOOLEAN

ListTypeOK ==
  /\ seen \in Seq(Frames) /\ Len(seen) <= MaxFrames + Cardinality(In("seen"))
  /\ kept \subseteq Made
  /\ overlapped \/ Cardinality(kept)
                     <= MaxFrames + Cardinality(In("kept") \cup In("expired"))
  /\ life \in Seq(0..TTL)
  /\ overlapped \in BOOLEAN

JobTypeOK ==
  /\ pc \in [Threads -> Stages]
  /\ job \in [Threads -> Job \cup {NoJob}]
  /\ \A t \in Threads : pc[t] # "idle" => job[t] \in Job

BoundsOK == arrivals \in 0..MaxArrivals /\ faults \in 0..MaxFaults

ObsInv == ObsTypeOK /\ OneReader /\ NumbersAreOwn /\ AnswerIsOwn

ListInv ==
  /\ ListTypeOK
  /\ AloneChanging
  /\ SlicesAreCut
  /\ NothingIsLost
  /\ ExpiredStayOut
  /\ EvidenceIsCurrent

IInv == JobTypeOK /\ ObsInv /\ ListInv /\ BoundsOK

-----------------------------------------------------------------------------
(* The limits, and lists as sets of their entries.                         *)

\* The numbers and sets that the assumptions are about.
LEMMA Limits ==
  /\ MaxFrames \in Nat \ {0} /\ TTL \in Nat \ {0}
  /\ MaxArrivals \in Nat /\ MaxFaults \in Nat
  /\ IsFiniteSet(Threads) /\ Fixture \in Frames /\ Enabled \in BOOLEAN
BY CaptureConstants

\* Append adds one element.
LEMMA RangeAppend ==
  ASSUME NEW S, NEW s \in Seq(S), NEW x \in S
  PROVE  Append(s, x) \in Seq(S) /\ Range(Append(s, x)) = Range(s) \cup {x}
<1>1. /\ Append(s, x) \in Seq(S) /\ DOMAIN Append(s, x) = 1..Len(s) + 1
      /\ DOMAIN s = 1..Len(s) /\ Len(s) \in Nat
      /\ \A i \in 1..Len(s) : Append(s, x)[i] = s[i]
      /\ Append(s, x)[Len(s) + 1] = x
  OBVIOUS
<1>2. \A i : i \in 1..Len(s) + 1 <=> i \in 1..Len(s) \/ i = Len(s) + 1
  BY <1>1, SMT
<1>. QED  BY <1>1, <1>2, Zenon DEF Range

\* Head is an element, and Tail drops elements only.
LEMMA RangeTail ==
  ASSUME NEW S, NEW s \in Seq(S), s # <<>>
  PROVE  /\ Head(s) \in S /\ Head(s) \in Range(s)
         /\ Tail(s) \in Seq(S) /\ Range(Tail(s)) \subseteq Range(s)
<1>1. /\ Len(s) \in Nat \ {0} /\ DOMAIN s = 1..Len(s) /\ Head(s) = s[1]
      /\ Tail(s) \in Seq(S) /\ DOMAIN Tail(s) = 1..Len(s) - 1
      /\ \A i \in 1..Len(s) - 1 : Tail(s)[i] = s[i + 1]
  BY EmptySeq
<1>2. 1 \in DOMAIN s /\ \A i \in 1..Len(s) - 1 : i + 1 \in DOMAIN s
  BY <1>1, SMT
<1>. QED  BY <1>1, <1>2 DEF Range

\* The empty sequence has no element.
LEMMA RangeEmpty == Range(<<>>) = {}
BY DEF Range

-----------------------------------------------------------------------------
(* Threads.                                                                *)

Others(t) == \A u \in Threads \ {t} : pc'[u] = pc[u] /\ job'[u] = job[u]

\* Thread t moves on, with locals k.
LEMMA Moves ==
  ASSUME JobTypeOK, NEW t \in Threads, NEW stage \in Stages, NEW k,
         pc' = [pc EXCEPT ![t] = stage], job' = [job EXCEPT ![t] = k],
         k \in Job \cup {NoJob}, stage # "idle" => k \in Job, UNCHANGED life
  PROVE  JobTypeOK' /\ pc'[t] = stage /\ job'[t] = k /\ Others(t)
<1>1. pc'[t] = stage /\ job'[t] = k /\ Others(t)
  BY DEF JobTypeOK, Others
<1>2. Job' = Job
  BY DEF Job, Made
<1>. QED  BY <1>1, <1>2 DEF JobTypeOK, Others

\* A thread that ends its request keeps nothing of it.
LEMMA Leaves ==
  ASSUME JobTypeOK, NEW t \in Threads, Leave(t), UNCHANGED life
  PROVE  JobTypeOK' /\ pc'[t] = "idle" /\ Others(t)
BY Moves DEF Leave, GoTo, Stages

\* What a thread keeps.
LEMMA JobType ==
  ASSUME JobTypeOK, NEW t \in Threads, pc[t] # "idle"
  PROVE  /\ job[t] \in Job
         /\ job[t].want \in Wants /\ job[t].ask \in Asks /\ job[t].number \in Nat
         /\ job[t].serial \in Nat /\ job[t].reading \in BOOLEAN /\ job[t].frame \in Frames
         /\ job[t].left \in 0..TTL /\ job[t].hashes \in Seq(Frames)
         /\ job[t].copy \subseteq Made /\ job[t].view \subseteq Made
         /\ job[t].expired \subseteq Made /\ job[t].due \subseteq Made
BY DEF JobTypeOK, Job

\* The parts of the socket, one by one.
LEMMA SocketType ==
  ASSUME ObsTypeOK
  PROVE  /\ socket.session \in {"none", "hello", "identified"}
         /\ socket.sent \in Seq(Request) /\ socket.inbox \in Seq(Message)
         /\ socket.broken \in BOOLEAN /\ socket.torn \in BOOLEAN
         /\ number \in Nat /\ asked \in Nat
BY DEF ObsTypeOK, Socket

-----------------------------------------------------------------------------
(* Steps that leave the lists alone.                                       *)

AtLists == {"seen", "kept", "expired", "view", "use"}

\* Threads at a stage.
LEMMA Staged ==
  ASSUME NEW t \in Threads, Others(t)
  PROVE  /\ \A stage : IsFiniteSet(In(stage)) /\ Cardinality(In(stage)) \in Nat
         /\ \A stage : pc[t] # stage /\ pc'[t] # stage => In(stage)' = In(stage)
         /\ \A stage : pc[t] # stage /\ pc'[t] = stage =>
              IsFiniteSet(In(stage)') /\ Cardinality(In(stage)') = Cardinality(In(stage)) + 1
<1>1. \A stage : IsFiniteSet(In(stage)) /\ Cardinality(In(stage)) \in Nat
  BY Limits, FS_Subset, FS_CardinalityType DEF In
<1>2. \A stage : pc[t] # stage /\ pc'[t] # stage => In(stage)' = In(stage)
  BY DEF In, Others
<1>3. ASSUME NEW stage, pc[t] # stage, pc'[t] = stage
      PROVE  IsFiniteSet(In(stage)') /\ Cardinality(In(stage)') = Cardinality(In(stage)) + 1
  <2>1. In(stage)' = In(stage) \cup {t} /\ t \notin In(stage)
    BY <1>3 DEF In, Others
  <2>. QED  BY <1>1, <2>1, FS_AddElement
<1>. QED  BY <1>1, <1>2, <1>3

\* The parts of the invariant about _observations.
KeptInv ==
  /\ kept \subseteq Made
  /\ overlapped \/ Cardinality(kept)
                     <= MaxFrames + Cardinality(In("kept") \cup In("expired"))
  /\ life \in Seq(0..TTL)
  /\ overlapped \in BOOLEAN
  /\ AloneChanging
  /\ \A t \in Threads :
       ~overlapped /\ pc[t] \in Change => Cardinality(job[t].copy) <= MaxFrames
  /\ NothingIsLost
  /\ ExpiredStayOut
  /\ EvidenceIsCurrent

\* A thread away from the list of observations leaves what is said of it.
LEMMA KeptStays ==
  ASSUME ListInv, NEW t \in Threads, Others(t), UNCHANGED <<kept, life, overlapped>>,
         pc[t] \notin AtLists \ {"seen"}, pc'[t] \notin AtLists \ {"seen"}
  PROVE  KeptInv'
<1>. USE DEF Others
<1>0. AtLists \ {"seen"} = {"kept", "expired", "view", "use"}
  BY DEF AtLists
<1>1. \A u \in Threads, stage \in AtLists \ {"seen"} : pc'[u] = stage <=> pc[u] = stage
  OBVIOUS
<1>2. \A u \in Threads : pc[u] \in AtLists \ {"seen"} => job'[u] = job[u]
  OBVIOUS
<1>3. In("kept")' = In("kept") /\ In("expired")' = In("expired")
  BY <1>0, <1>1 DEF In
<1>4. Made' = Made
  BY DEF Made
<1>5. Fresh' = Fresh
  BY <1>4 DEF Fresh, Alive
<1>6. AloneChanging' /\ NothingIsLost' /\ ExpiredStayOut' /\ EvidenceIsCurrent'
  BY <1>0, <1>1, <1>2, <1>5 DEF ListInv, AloneChanging, NothingIsLost, ExpiredStayOut,
     EvidenceIsCurrent, Change
<1>7. \A u \in Threads :
        ~overlapped' /\ pc'[u] \in Change => Cardinality(job'[u].copy) <= MaxFrames
  BY <1>0, <1>1, <1>2 DEF ListInv, SlicesAreCut, Change
<1>. QED  BY <1>3, <1>4, <1>6, <1>7 DEF KeptInv, ListInv, ListTypeOK

\* The parts about the hashes.
SeenInv ==
  /\ seen \in Seq(Frames) /\ Len(seen) <= MaxFrames + Cardinality(In("seen"))
  /\ \A t \in Threads : pc[t] = "seen" => Len(job[t].hashes) <= MaxFrames

\* So does a thread away from the list of hashes.
LEMMA SeenStays ==
  ASSUME ListInv, NEW t \in Threads, Others(t), UNCHANGED seen,
         pc[t] # "seen", pc'[t] # "seen"
  PROVE  SeenInv'
BY Staged DEF ListInv, ListTypeOK, SlicesAreCut, SeenInv, Others

\* ListInv is what is said of the two lists.
LEMMA ListParts == (SeenInv /\ KeptInv <=> ListInv) /\ (SeenInv' /\ KeptInv' <=> ListInv')
BY DEF SeenInv, KeptInv, ListInv, ListTypeOK, SlicesAreCut

\* A thread away from both leaves ListInv as it was.
LEMMA ListStays ==
  ASSUME ListInv, NEW t \in Threads, Others(t), UNCHANGED listVars,
         pc[t] \notin AtLists, pc'[t] \notin AtLists
  PROVE  ListInv'
BY KeptStays, SeenStays, ListParts DEF listVars, AtLists

-----------------------------------------------------------------------------
(* Steps in which no number is given out.                                  *)

\* Nothing new is under way, and whoever has a number had it and is where it was.
Calm ==
  /\ \A x \in UnderWay' : \E y \in UnderWay : x.re = y.re /\ x.serial = y.serial
  /\ \A u \in Threads : pc'[u] \in Holding =>
       pc[u] = pc'[u] /\ job'[u].number = job[u].number /\ job'[u].serial = job[u].serial
  /\ UNCHANGED <<number, clashed>>
  /\ foreign' => foreign \/ clashed

\* An answer stays with the one who asked when no request is sent and none is read.
LEMMA CalmInv ==
  ASSUME ObsInv, Calm
  PROVE  NumbersAreOwn' /\ AnswerIsOwn'
<1>1. AnswerIsOwn'
  BY DEF ObsInv, Calm, AnswerIsOwn
<1>2. NumbersAreOwn'
  <2>. SUFFICES ASSUME ~clashed
                PROVE  /\ \A x \in UnderWay' : Fits(x)'
                       /\ \A t \in Threads : pc'[t] \in Holding => job'[t].number <= number
                       /\ \A t \in Threads : pc'[t] \in {"format", "send"} => Own(t)'
    BY DEF NumbersAreOwn, Calm
  <2>1. \A t \in Threads : pc'[t] \in Holding => job'[t].number <= number
    BY DEF ObsInv, NumbersAreOwn, Calm
  <2>2. ASSUME NEW x \in UnderWay'  PROVE Fits(x)'
    <3>1. PICK y \in UnderWay : x.re = y.re /\ x.serial = y.serial
      BY DEF Calm
    <3>2. Fits(y)
      BY DEF ObsInv, NumbersAreOwn
    <3>. QED  BY <3>1, <3>2 DEF Fits, Calm, Holding
  <2>3. ASSUME NEW t \in Threads, pc'[t] \in {"format", "send"}  PROVE Own(t)'
    <3>1. Own(t) /\ job'[t].number = job[t].number
      BY <2>3 DEF ObsInv, NumbersAreOwn, Calm, Holding
    <3>2. \A u \in Threads \ {t} : pc'[u] \in Holding => job'[u].number # job'[t].number
      BY <3>1 DEF Own, Calm
    <3>3. \A x \in UnderWay' : x.re # job'[t].number
      BY <3>1 DEF Own, Calm
    <3>. QED  BY <3>2, <3>3 DEF Own
  <2>. QED  BY <2>1, <2>2, <2>3
<1>. QED  BY <1>1, <1>2

\* The connection is left alone.
LEMMA ObsStays ==
  ASSUME ObsInv, NEW t \in Threads, Others(t), UNCHANGED obsVars, pc'[t] \notin Holding,
         Reads(t)' => Reads(t)
  PROVE  ObsInv'
<1>1. ObsTypeOK'
  BY DEF ObsInv, ObsTypeOK, obsVars
<1>2. Calm
  BY DEF Calm, Others, obsVars, UnderWay, On
<1>3. OneReader'
  <2>1. \A u \in Threads : Reads(u)' => Reads(u)
    BY DEF Others, Reads
  <2>2. Sound' = Sound
    BY DEF Sound, obsVars
  <2>. QED  BY <2>1, <2>2 DEF ObsInv, OneReader, obsVars
<1>. QED  BY <1>1, <1>2, <1>3, CalmInv DEF ObsInv

\* A step of thread t that leaves the connection and the lists alone.
LEMMA QuietInv ==
  ASSUME JobTypeOK, ObsInv, ListInv,
         NEW t \in Threads, NEW stage \in Stages \ (AtLists \cup Holding), NEW k,
         pc' = [pc EXCEPT ![t] = stage], job' = [job EXCEPT ![t] = k],
         k \in Job \cup {NoJob}, stage # "idle" => k \in Job /\ (k.reading => Reads(t)),
         pc[t] \notin AtLists, UNCHANGED <<obsVars, listVars>>
  PROVE  JobTypeOK' /\ ObsInv' /\ ListInv'
<1>1. JobTypeOK' /\ pc'[t] = stage /\ job'[t] = k /\ Others(t)
  BY Moves DEF listVars
<1>2. Reads(t)' => Reads(t)
  BY <1>1 DEF Reads
<1>. QED  BY <1>1, <1>2, ObsStays, ListStays

\* The locals at the start and after the changes the steps make.
LEMMA NewJobType ==
  ASSUME NEW want \in Wants
  PROVE  NewJob(want) \in Job /\ NewJob(want).reading = FALSE
<1>1. 0 \in 0..TTL /\ Fixture \in Frames /\ <<>> \in Seq(Frames)
  BY Limits, SMT
<1>. QED  BY <1>1 DEF NewJob, Job, Asks

\* The beginning of a request keeps the invariant.
LEMMA BeginInv ==
  ASSUME JobTypeOK, ObsInv, ListInv, NEW t \in Threads, NEW want \in Wants, Begin(t, want)
  PROVE  JobTypeOK' /\ ObsInv' /\ ListInv'
<1>1. PICK stage \in {"look", "expire", "connect"} : pc' = [pc EXCEPT ![t] = stage]
  BY DEF Begin, GoTo
<1>2. /\ job' = [job EXCEPT ![t] = NewJob(want)] /\ pc[t] = "idle"
      /\ UNCHANGED <<obsVars, listVars>>
  BY DEF Begin
<1>. QED  BY <1>1, <1>2, NewJobType, QuietInv DEF Stages, AtLists, Holding

\* So does its end before it came to the lists.
LEMMA LeaveInv ==
  ASSUME JobTypeOK, ObsInv, ListInv, NEW t \in Threads, Leave(t),
         pc[t] \notin AtLists, UNCHANGED <<obsVars, listVars>>
  PROVE  JobTypeOK' /\ ObsInv' /\ ListInv'
BY QuietInv DEF Leave, GoTo, Stages, AtLists, Holding

\* So do the steps of a thread by itself: the look at the socket, the number of its
\* request, the hash of its frame, its reading.
LEMMA NumberInv ==
  ASSUME JobTypeOK, ObsInv, ListInv, NEW t \in Threads,
         CheckSocket(t) \/ Number(t) \/ Look(t) \/ Observe(t)
  PROVE  JobTypeOK' /\ ObsInv' /\ ListInv'
<1>. DEFINE j == job[t]
<1>1. pc[t] # "idle" /\ pc[t] \notin AtLists /\ j \in Job /\ job \in [Threads -> Job \cup {NoJob}]
  BY DEF CheckSocket, Number, Look, Observe, AtLists, JobTypeOK
<1>2. CASE CheckSocket(t) \/ Observe(t)
  <2>1. /\ pc' \in {[pc EXCEPT ![t] = "dial"], [pc EXCEPT ![t] = "number"],
                    [pc EXCEPT ![t] = "keep"]}
        /\ job' = job /\ UNCHANGED <<obsVars, listVars>>
    BY <1>2 DEF CheckSocket, Observe, GoTo
  <2>2. job' = [job EXCEPT ![t] = j]
    BY <1>1, <2>1
  <2>3. PICK stage \in {"dial", "number", "keep"} : pc' = [pc EXCEPT ![t] = stage]
    BY <2>1
  <2>. QED  BY <1>1, <2>1, <2>2, <2>3, QuietInv DEF Stages, AtLists, Holding, Reads
<1>3. CASE Number(t)
  <2>. DEFINE k == [j EXCEPT !.number = number]
  <2>1. number \in Nat
    BY DEF ObsInv, ObsTypeOK
  <2>2. k \in Job /\ k.reading = j.reading
    BY <1>1, <2>1 DEF Job
  <2>3. /\ job' = [job EXCEPT ![t] = k] /\ pc' = [pc EXCEPT ![t] = "count"]
        /\ UNCHANGED <<obsVars, listVars>>
    BY <1>3 DEF Number, GoTo
  <2>. HIDE DEF k
  <2>. QED  BY <1>1, <2>2, <2>3, QuietInv DEF Stages, AtLists, Holding, Reads
<1>4. CASE Look(t) /\ j.frame \in Range(seen)
  BY <1>1, <1>4, LeaveInv DEF Look
<1>5. CASE Look(t) /\ j.frame \notin Range(seen)
  <2>. DEFINE k == [j EXCEPT !.left = TTL]
  <2>1. TTL \in 0..TTL
    BY Limits, SMT
  <2>2. k \in Job /\ k.reading = j.reading
    BY <1>1, <2>1 DEF Job
  <2>3. /\ job' = [job EXCEPT ![t] = k] /\ pc' = [pc EXCEPT ![t] = "remember"]
        /\ UNCHANGED <<obsVars, listVars>>
    BY <1>5 DEF Look, GoTo
  <2>. HIDE DEF k
  <2>. QED  BY <1>1, <2>2, <2>3, QuietInv DEF Stages, AtLists, Holding, Reads
<1>. QED  BY <1>2, <1>3, <1>4, <1>5

-----------------------------------------------------------------------------
(* Steps that read or replace the connection.                              *)

\* A step of thread t after which the connection is s.
LEMMA TalkInv ==
  ASSUME JobTypeOK, ObsInv, ListInv,
         NEW t \in Threads, NEW stage \in Stages \ AtLists, NEW k, NEW s \in Socket,
         pc' = [pc EXCEPT ![t] = stage], job' = [job EXCEPT ![t] = k],
         k \in Job \cup {NoJob}, stage # "idle" => k \in Job, pc[t] \notin AtLists,
         stage \in Holding =>
           pc[t] = stage /\ k.number = job[t].number /\ k.serial = job[t].serial,
         socket' = s, UNCHANGED <<number, asked, clashed, listVars>>,
         \A x \in On(s) : \E y \in UnderWay : x.re = y.re /\ x.serial = y.serial,
         foreign' \in BOOLEAN, foreign' => foreign \/ clashed,
         OneReader'
  PROVE  JobTypeOK' /\ ObsInv' /\ ListInv'
<1>1. JobTypeOK' /\ pc'[t] = stage /\ job'[t] = k /\ Others(t)
  BY Moves DEF listVars
<1>2. ListInv'
  BY <1>1, ListStays
<1>3. ObsTypeOK'
  BY DEF ObsInv, ObsTypeOK
<1>4. Calm
  <2>1. UnderWay' = On(s)
    BY DEF UnderWay, On
  <2>. QED  BY <1>1, <2>1 DEF Calm, Others
<1>. QED  BY <1>1, <1>2, <1>3, <1>4, CalmInv DEF ObsInv

\* The connections that the steps make.
LEMMA Sockets ==
  ASSUME ObsTypeOK
  PROVE  /\ NoSocket \in Socket /\ On(NoSocket) = {} /\ NoSocket.session = "none"
         /\ Torn \in Socket /\ On(Torn) = {} /\ Torn.torn = TRUE
         /\ socket.inbox # <<>> =>
              /\ Rest \in Socket /\ On(Rest) \subseteq UnderWay
              /\ Rest.sent = socket.sent /\ Rest.inbox = Tail(socket.inbox)
              /\ Head(socket.inbox) \in Message
              /\ Head(socket.inbox) \in Range(socket.inbox)
<1>1. <<>> \in Seq(Request) /\ <<>> \in Seq(Message)
  OBVIOUS
<1>2. NoSocket \in Socket /\ On(NoSocket) = {} /\ NoSocket.session = "none"
  BY <1>1, RangeEmpty DEF NoSocket, Socket, On
<1>3. Torn \in Socket /\ Torn.sent = <<>> /\ Torn.inbox = <<>> /\ Torn.torn = TRUE
  BY <1>1 DEF ObsTypeOK, Torn, Socket
<1>4. On(Torn) = {}
  BY <1>3, RangeEmpty DEF On
<1>5. ASSUME socket.inbox # <<>>
      PROVE  /\ Rest \in Socket /\ On(Rest) \subseteq UnderWay
             /\ Rest.sent = socket.sent /\ Rest.inbox = Tail(socket.inbox)
             /\ Head(socket.inbox) \in Message
             /\ Head(socket.inbox) \in Range(socket.inbox)
  <2>1. socket.inbox \in Seq(Message)
    BY SocketType
  <2>2. /\ Head(socket.inbox) \in Message /\ Head(socket.inbox) \in Range(socket.inbox)
        /\ Tail(socket.inbox) \in Seq(Message)
        /\ Range(Tail(socket.inbox)) \subseteq Range(socket.inbox)
    BY <1>5, <2>1, RangeTail
  <2>3. Rest \in Socket /\ Rest.sent = socket.sent /\ Rest.inbox = Tail(socket.inbox)
    BY <2>2 DEF ObsTypeOK, Rest, Socket
  <2>4. On(Rest) \subseteq UnderWay
    BY <2>2, <2>3 DEF On, UnderWay
  <2>. QED  BY <2>2, <2>3, <2>4
<1>. QED  BY <1>2, <1>3, <1>4, <1>5

\* Where nobody reads, or the connection is not in order, no thread reads alone.
LEMMA NobodyReads ==
  ASSUME Sound' => \A u \in Threads : ~Reads(u)'
  PROVE  OneReader'
BY DEF OneReader

\* The thread that takes a message is the only one that reads.
LEMMA Taking ==
  ASSUME ObsInv, JobTypeOK, NEW t \in Threads, Whole(t), Others(t)
  PROVE  /\ socket.inbox # <<>>
         /\ \A u \in Threads \ {t} : ~Reads(u)'
         /\ pc[t] \notin AtLists /\ pc[t] # "idle" /\ job[t] \in Job
<1>1. Sound /\ Reads(t) /\ pc[t] \in {"hello", "identify", "answer"}
  BY DEF Whole, Receiving, Reads, Usable, Sound
<1>2. socket.inbox # <<>> /\ \A u \in Threads \ {t} : ~Reads(u)
  BY <1>1 DEF ObsInv, OneReader
<1>3. \A u \in Threads \ {t} : ~Reads(u)'
  BY <1>2 DEF Others, Reads
<1>. QED  BY <1>1, <1>2, <1>3 DEF AtLists, JobTypeOK

\* A new connection has the greeting of OBS to read, and nothing else.
LEMMA DialInv ==
  ASSUME JobTypeOK, ObsInv, ListInv, NEW t \in Threads, Dial(t)
  PROVE  JobTypeOK' /\ ObsInv' /\ ListInv'
<1>. DEFINE j == job[t]
            torn == \E u \in Threads : pc[u] # "idle" /\ job[u].reading
            s == [NoSocket EXCEPT !.session = "hello", !.inbox = <<HelloMessage>>,
                                  !.torn = torn]
<1>1. /\ pc[t] = "dial" /\ j \in Job /\ job \in [Threads -> Job \cup {NoJob}]
      /\ socket' = s /\ pc' = [pc EXCEPT ![t] = "hello"] /\ job' = job
      /\ UNCHANGED <<number, asked, clashed, foreign, listVars>>
  BY DEF Dial, GoTo, JobTypeOK
<1>2. job' = [job EXCEPT ![t] = j]
  BY <1>1
<1>3. HelloMessage \in Message /\ HelloMessage.op = "hello"
  BY Limits DEF HelloMessage, Message
<1>4. <<HelloMessage>> \in Seq(Message) /\ Range(<<HelloMessage>>) = {HelloMessage}
  BY <1>3 DEF Range
<1>5. torn \in BOOLEAN /\ <<>> \in Seq(Request)
  OBVIOUS
<1>. HIDE DEF torn
<1>6. /\ s \in Socket /\ s.sent = <<>> /\ s.inbox = <<HelloMessage>> /\ s.torn = torn
  BY <1>4, <1>5 DEF NoSocket, Socket
<1>7. On(s) = {}
  <2>. HIDE DEF s
  <2>. QED  BY <1>3, <1>4, <1>6, RangeEmpty DEF On
<1>8. OneReader'
  <2>1. Sound' => ~torn
    BY <1>1, <1>6 DEF Sound
  <2>2. ~torn => \A u \in Threads : ~Reads(u)'
    BY <1>1 DEF torn, Reads, JobTypeOK
  <2>. QED  BY <2>1, <2>2, NobodyReads
<1>9. foreign' \in BOOLEAN
  BY <1>1 DEF ObsInv, ObsTypeOK
<1>. HIDE DEF s
<1>. QED  BY <1>1, <1>2, <1>6, <1>7, <1>8, <1>9, TalkInv DEF Stages, AtLists, Holding

\* The first part of a message is read.
LEMMA ReadHeaderInv ==
  ASSUME JobTypeOK, ObsInv, ListInv, NEW t \in Threads, ReadHeader(t)
  PROVE  JobTypeOK' /\ ObsInv' /\ ListInv'
<1>. DEFINE j == job[t]
            k == [j EXCEPT !.reading = TRUE]
<1>1. /\ pc[t] \in {"hello", "identify", "answer"} /\ j \in Job
      /\ pc \in [Threads -> Stages] /\ job \in [Threads -> Job \cup {NoJob}]
      /\ pc' = pc /\ job' = [job EXCEPT ![t] = k]
      /\ socket' \in {Torn, socket} /\ socket.inbox # <<>>
      /\ socket' = socket => \/ socket = Torn
                             \/ \A u \in Threads : ~Reads(u)
      /\ UNCHANGED <<number, asked, clashed, foreign, listVars>>
  BY DEF ReadHeader, Receiving, JobTypeOK, Reads
<1>2. k \in Job /\ k.number = j.number /\ k.serial = j.serial
  BY <1>1 DEF Job
<1>3. pc' = [pc EXCEPT ![t] = pc[t]]
  BY <1>1
<1>. HIDE DEF k
<1>4. ObsTypeOK /\ socket \in Socket /\ foreign' \in BOOLEAN
  BY <1>1 DEF ObsInv, ObsTypeOK
<1>5. socket' \in Socket /\ On(socket') \subseteq UnderWay
  BY <1>1, <1>4, Sockets DEF UnderWay
<1>6. OneReader'
  <2>1. CASE socket' = Torn
    <3>1. ~Sound'
      BY <1>4, <2>1, Sockets DEF Sound
    <3>. QED  BY <3>1, NobodyReads
  <2>2. CASE socket' # Torn
    <3>1. \A u \in Threads : Reads(u)' => u = t
      BY <1>1, <2>2 DEF Reads
    <3>. QED  BY <1>1, <2>2, <3>1 DEF OneReader
  <2>. QED  BY <2>1, <2>2
<1>. QED  BY <1>1, <1>2, <1>3, <1>4, <1>5, <1>6, TalkInv DEF Stages, AtLists, Holding

\* A reader gives up, and leaves what comes, or its second half, to the next one.
LEMMA TimeOutInv ==
  ASSUME JobTypeOK, ObsInv, ListInv, NEW t \in Threads, TimeOut(t)
  PROVE  JobTypeOK' /\ ObsInv' /\ ListInv'
<1>1. /\ pc[t] \in {"hello", "identify", "answer"}
      /\ pc' = [pc EXCEPT ![t] = "idle"] /\ job' = [job EXCEPT ![t] = NoJob]
      /\ socket' = IF job[t].reading THEN Torn ELSE socket
      /\ UNCHANGED <<number, asked, clashed, foreign, listVars>>
  BY DEF TimeOut, Receiving, Leave, GoTo
<1>2. ObsTypeOK /\ socket \in Socket /\ foreign' \in BOOLEAN
  BY <1>1 DEF ObsInv, ObsTypeOK
<1>3. socket' \in Socket /\ On(socket') \subseteq UnderWay
  BY <1>1, <1>2, Sockets DEF UnderWay
<1>4. OneReader'
  <2>1. CASE job[t].reading
    <3>1. ~Sound'
      BY <1>1, <1>2, <2>1, Sockets DEF Sound
    <3>. QED  BY <3>1, NobodyReads
  <2>2. CASE ~job[t].reading
    <3>1. \A u \in Threads : Reads(u)' => Reads(u)
      BY <1>1 DEF Reads, JobTypeOK
    <3>2. socket' = socket /\ Sound' = Sound
      BY <1>1, <2>2 DEF Sound
    <3>. QED  BY <3>1, <3>2 DEF ObsInv, OneReader
  <2>. QED  BY <2>1, <2>2
<1>. QED  BY <1>1, <1>2, <1>3, <1>4, TalkInv DEF Stages, AtLists, Holding

\* The reader takes the greeting of OBS and answers it.
LEMMA TakeHelloInv ==
  ASSUME JobTypeOK, ObsInv, ListInv, NEW t \in Threads, TakeHello(t)
  PROVE  JobTypeOK' /\ ObsInv' /\ ListInv'
<1>. DEFINE j == job[t]
            k == [j EXCEPT !.reading = FALSE]
            i == [what |-> "identify", re |-> 0, serial |-> 0]
            s == [Rest EXCEPT !.sent = Append(@, i)]
<1>1. /\ pc[t] = "hello" /\ Whole(t) /\ foreign' \in BOOLEAN /\ ObsTypeOK
      /\ UNCHANGED <<number, asked, clashed, foreign, listVars>>
  BY DEF TakeHello, ObsInv, ObsTypeOK
<1>2. \/ /\ socket' = s /\ job' = [job EXCEPT ![t] = k] /\ pc' = [pc EXCEPT ![t] = "identify"]
      \/ /\ socket' = Rest /\ job' = [job EXCEPT ![t] = NoJob]
         /\ pc' = [pc EXCEPT ![t] = "idle"]
  BY DEF TakeHello, Leave, GoTo
<1>3. Others(t)
  BY <1>2 DEF Others, JobTypeOK
<1>4. socket.inbox # <<>> /\ (\A u \in Threads \ {t} : ~Reads(u)') /\ j \in Job
  BY <1>1, <1>3, Taking
<1>5. /\ Rest \in Socket /\ On(Rest) \subseteq UnderWay
      /\ Rest.sent = socket.sent /\ Rest.inbox = Tail(socket.inbox)
  BY <1>1, <1>4, Sockets
<1>6. k \in Job /\ k.reading = FALSE
  BY <1>4 DEF Job
<1>. HIDE DEF k
<1>7. OneReader'
  <2>1. ~Reads(t)'
    BY <1>2, <1>6 DEF Reads, JobTypeOK
  <2>. QED  BY <1>4, <2>1, NobodyReads
<1>8. CASE socket' = Rest /\ job' = [job EXCEPT ![t] = NoJob] /\ pc' = [pc EXCEPT ![t] = "idle"]
  BY <1>1, <1>5, <1>7, <1>8, TalkInv DEF Stages, AtLists, Holding
<1>9. CASE socket' = s /\ job' = [job EXCEPT ![t] = k] /\ pc' = [pc EXCEPT ![t] = "identify"]
  <2>1. i \in Request /\ i.what = "identify" /\ socket.sent \in Seq(Request)
    BY <1>1, SocketType DEF Request
  <2>. HIDE DEF i
  <2>2. /\ Append(socket.sent, i) \in Seq(Request)
        /\ Range(Append(socket.sent, i)) = Range(socket.sent) \cup {i}
    BY <2>1, RangeAppend
  <2>3. /\ s \in Socket /\ s.sent = Append(socket.sent, i) /\ s.inbox = Rest.inbox
    BY <1>5, <2>2 DEF Socket
  <2>. HIDE DEF s
  <2>4. On(s) \subseteq UnderWay
    BY <1>5, <2>1, <2>2, <2>3 DEF On
  <2>. QED  BY <1>1, <1>6, <1>7, <1>9, <2>3, <2>4, TalkInv DEF Stages, AtLists, Holding
<1>. QED  BY <1>2, <1>8, <1>9

\* The reader takes the end of the greeting.
LEMMA TakeIdentifiedInv ==
  ASSUME JobTypeOK, ObsInv, ListInv, NEW t \in Threads, TakeIdentified(t)
  PROVE  JobTypeOK' /\ ObsInv' /\ ListInv'
<1>. DEFINE j == job[t]
            k == [j EXCEPT !.reading = FALSE]
<1>1. /\ pc[t] = "identify" /\ Whole(t) /\ foreign' \in BOOLEAN /\ ObsTypeOK
      /\ UNCHANGED <<number, asked, clashed, foreign, listVars>>
  BY DEF TakeIdentified, ObsInv, ObsTypeOK
<1>2. \/ /\ socket' = Rest /\ job' = [job EXCEPT ![t] = k] /\ pc' = [pc EXCEPT ![t] = "number"]
      \/ /\ socket' = NoSocket /\ job' = [job EXCEPT ![t] = NoJob]
         /\ pc' = [pc EXCEPT ![t] = "idle"]
  BY DEF TakeIdentified, Leave, GoTo
<1>3. Others(t)
  BY <1>2 DEF Others, JobTypeOK
<1>4. socket.inbox # <<>> /\ (\A u \in Threads \ {t} : ~Reads(u)') /\ j \in Job
  BY <1>1, <1>3, Taking
<1>5. /\ Rest \in Socket /\ On(Rest) \subseteq UnderWay
      /\ NoSocket \in Socket /\ On(NoSocket) = {}
  BY <1>1, <1>4, Sockets
<1>6. k \in Job /\ k.reading = FALSE
  BY <1>4 DEF Job
<1>. HIDE DEF k
<1>7. OneReader'
  <2>1. ~Reads(t)'
    BY <1>2, <1>6 DEF Reads, JobTypeOK
  <2>. QED  BY <1>4, <2>1, NobodyReads
<1>8. CASE socket' = NoSocket /\ job' = [job EXCEPT ![t] = NoJob] /\ pc' = [pc EXCEPT ![t] = "idle"]
  BY <1>1, <1>5, <1>7, <1>8, TalkInv DEF Stages, AtLists, Holding
<1>9. CASE socket' = Rest /\ job' = [job EXCEPT ![t] = k] /\ pc' = [pc EXCEPT ![t] = "number"]
  BY <1>1, <1>5, <1>6, <1>7, <1>9, TalkInv DEF Stages, AtLists, Holding
<1>. QED  BY <1>2, <1>8, <1>9

\* The reader drops a message that is not for it.
LEMMA DropMessageInv ==
  ASSUME JobTypeOK, ObsInv, ListInv, NEW t \in Threads, DropMessage(t)
  PROVE  JobTypeOK' /\ ObsInv' /\ ListInv'
<1>. DEFINE j == job[t]
            k == [j EXCEPT !.reading = FALSE]
<1>1. /\ pc[t] = "answer" /\ Whole(t) /\ foreign' \in BOOLEAN /\ ObsTypeOK
      /\ UNCHANGED <<number, asked, clashed, foreign, listVars>>
  BY DEF DropMessage, ObsInv, ObsTypeOK
<1>2. socket' = Rest /\ job' = [job EXCEPT ![t] = k] /\ pc' = pc
  BY DEF DropMessage
<1>3. Others(t) /\ pc' = [pc EXCEPT ![t] = "answer"]
  BY <1>1, <1>2 DEF Others, JobTypeOK
<1>4. socket.inbox # <<>> /\ (\A u \in Threads \ {t} : ~Reads(u)') /\ j \in Job
  BY <1>1, <1>3, Taking
<1>5. Rest \in Socket /\ On(Rest) \subseteq UnderWay
  BY <1>1, <1>4, Sockets
<1>6. k \in Job /\ k.reading = FALSE /\ k.number = j.number /\ k.serial = j.serial
  BY <1>4 DEF Job
<1>. HIDE DEF k
<1>7. OneReader'
  <2>1. ~Reads(t)'
    BY <1>2, <1>6 DEF Reads, JobTypeOK
  <2>. QED  BY <1>4, <2>1, NobodyReads
<1>. QED  BY <1>1, <1>2, <1>3, <1>5, <1>6, <1>7, TalkInv DEF Stages, AtLists, Holding

\* The answer is the awaited one: its number says so, unless two threads numbered
\* their requests at once.
LEMMA TakeAnswerInv ==
  ASSUME JobTypeOK, ObsInv, ListInv, NEW t \in Threads, TakeAnswer(t)
  PROVE  JobTypeOK' /\ ObsInv' /\ ListInv'
<1>. DEFINE j == job[t]
            m == Head(socket.inbox)
            Ends(stage, k) ==
              /\ pc' = [pc EXCEPT ![t] = stage] /\ job' = [job EXCEPT ![t] = k]
              /\ \/ stage = "idle" /\ k = NoJob
                 \/ \E ask \in Asks, frame \in {Fixture, m.frame} :
                      k = [j EXCEPT !.reading = FALSE, !.ask = ask, !.frame = frame,
                                    !.number = 0, !.serial = 0]
<1>1. /\ pc[t] = "answer" /\ Whole(t) /\ ObsTypeOK /\ Mine(t, m)
      /\ socket' = Rest /\ foreign' = (foreign \/ m.serial # j.serial)
      /\ UNCHANGED <<number, asked, clashed, listVars>>
  BY DEF TakeAnswer, ObsInv
<1>a. PICK stage \in {"idle", "number", "connect", "look"} : \E k : Ends(stage, k)
  <2>1. CASE Leave(t)
    BY <2>1 DEF Leave, GoTo
  <2>2. CASE ~Leave(t)
    <3>1. PICK after \in {"number", "connect", "look"}, ask \in Asks,
               frame \in {Fixture, m.frame} :
            /\ job' = [job EXCEPT ![t].reading = FALSE, ![t].ask = ask, ![t].frame = frame,
                                  ![t].number = 0, ![t].serial = 0]
            /\ pc' = [pc EXCEPT ![t] = after]
      BY <2>2 DEF TakeAnswer, GoTo, Asks
    <3>2. job' = [job EXCEPT ![t] = [j EXCEPT !.reading = FALSE, !.ask = ask,
                                       !.frame = frame, !.number = 0, !.serial = 0]]
      BY <3>1 DEF JobTypeOK
    <3>. QED  BY <3>1, <3>2
  <2>. QED  BY <2>1, <2>2
<1>2. PICK k : Ends(stage, k)
  BY <1>a
<1>3. Others(t)
  BY <1>2 DEF Others, JobTypeOK
<1>4. socket.inbox # <<>> /\ (\A u \in Threads \ {t} : ~Reads(u)') /\ j \in Job
  BY <1>1, <1>3, Taking
<1>5. /\ Rest \in Socket /\ On(Rest) \subseteq UnderWay
      /\ m \in Message /\ m \in Range(socket.inbox)
  BY <1>1, <1>4, Sockets
<1>6. k \in Job \cup {NoJob} /\ (stage # "idle" => k \in Job /\ k.reading = FALSE)
  <2>1. CASE stage = "idle" /\ k = NoJob
    BY <2>1
  <2>2. CASE ~(stage = "idle" /\ k = NoJob)
    <3>1. PICK ask \in Asks, frame \in {Fixture, m.frame} :
            k = [j EXCEPT !.reading = FALSE, !.ask = ask, !.frame = frame,
                          !.number = 0, !.serial = 0]
      BY <1>2, <2>2
    <3>2. frame \in Frames
      BY <1>5, Limits DEF Message
    <3>. QED  BY <1>4, <3>1, <3>2 DEF Job
  <2>. QED  BY <2>1, <2>2
<1>7. OneReader'
  <2>1. ~Reads(t)'
    BY <1>2, <1>6 DEF Reads, JobTypeOK
  <2>. QED  BY <1>4, <2>1, NobodyReads
<1>8. foreign' \in BOOLEAN /\ (foreign' => foreign \/ clashed)
  <2>1. m \in UnderWay /\ m.re = j.number
    BY <1>1, <1>5 DEF Mine, UnderWay, On
  <2>2. ~clashed => m.serial = j.serial
    BY <1>1, <2>1 DEF ObsInv, NumbersAreOwn, Fits
  <2>. QED  BY <1>1, <2>2 DEF ObsTypeOK
<1>. HIDE DEF m
<1>. QED  BY <1>1, <1>2, <1>5, <1>6, <1>7, <1>8, TalkInv DEF Stages, AtLists, Holding

-----------------------------------------------------------------------------
(* Numbers are given out.                                                  *)

\* What is under way has numbers.
LEMMA UnderWayType ==
  ASSUME ObsTypeOK
  PROVE  \A x \in UnderWay : x.re \in Nat /\ x.serial \in Nat
<1>1. socket.sent \in Seq(Request) /\ socket.inbox \in Seq(Message)
  BY SocketType
<1>2. \A x \in Range(socket.sent) : x \in Request
  BY <1>1 DEF Range
<1>3. \A x \in Range(socket.inbox) : x \in Message
  BY <1>1 DEF Range
<1>. QED  BY <1>2, <1>3 DEF UnderWay, On, Request, Message

\* The number is written: it is greater than any that was given out.
LEMMA CountInv ==
  ASSUME JobTypeOK, ObsInv, ListInv, NEW t \in Threads, Count(t)
  PROVE  JobTypeOK' /\ ObsInv' /\ ListInv'
<1>. DEFINE j == job[t]
<1>0. pc[t] = "count" /\ ObsTypeOK /\ j \in Job /\ j.number \in Nat /\ number \in Nat
  BY JobType DEF Count, ObsInv, ObsTypeOK
<1>a. PICK n \in Nat : n = j.number + 1
  BY <1>0
<1>b. PICK k : k = [j EXCEPT !.number = n]
  OBVIOUS
<1>1. /\ number' = n /\ clashed' = (clashed \/ number # j.number)
      /\ pc' = [pc EXCEPT ![t] = "format"]
      /\ UNCHANGED <<socket, asked, foreign, listVars>>
  BY <1>a DEF Count, GoTo
<1>2. job' = [job EXCEPT ![t] = k]
  BY <1>a, <1>b DEF Count, JobTypeOK
<1>3. k \in Job /\ k.number = n /\ k.reading = j.reading
  BY <1>0, <1>b DEF Job
<1>4. JobTypeOK' /\ pc'[t] = "format" /\ job'[t] = k /\ Others(t)
  BY <1>0, <1>1, <1>2, <1>3, Moves DEF Stages, listVars
<1>5. ListInv'
  BY <1>0, <1>1, <1>4, ListStays DEF AtLists
<1>6. ObsTypeOK'
  BY <1>0, <1>1 DEF ObsTypeOK
<1>7. OneReader'
  <2>1. \A u \in Threads : Reads(u)' <=> Reads(u)
    BY <1>0, <1>3, <1>4 DEF Reads, Others
  <2>2. (Sound' <=> Sound) /\ socket' = socket
    BY <1>1 DEF Sound
  <2>. QED  BY <2>1, <2>2 DEF ObsInv, OneReader
<1>8. NumbersAreOwn'
  <2>. SUFFICES ASSUME ~clashed'
                PROVE  /\ \A x \in UnderWay : Fits(x)'
                       /\ \A u \in Threads : pc'[u] \in Holding => job'[u].number <= n
                       /\ \A u \in Threads : pc'[u] \in {"format", "send"} => Own(u)'
    BY <1>1 DEF NumbersAreOwn, UnderWay, On
  <2>1. ~clashed /\ n = number + 1 /\ UnderWay' = UnderWay
    BY <1>a, <1>1 DEF UnderWay, On
  <2>2. \A u \in Threads \ {t} : pc'[u] \in Holding =>
          /\ pc[u] = pc'[u] /\ job'[u] = job[u]
          /\ job[u].number <= number /\ job[u].number \in Nat
    BY <1>4, <2>1, JobType DEF Others, ObsInv, NumbersAreOwn, Holding
  <2>3. \A u \in Threads \ {t} : pc'[u] \in Holding => job'[u].number < n
    BY <1>0, <2>1, <2>2, SMT
  <2>4. \A u \in Threads : pc'[u] \in Holding => job'[u].number <= n
    BY <1>0, <1>3, <1>4, <2>1, <2>2, SMT
  <2>5. \A x \in UnderWay : x.re \in Nat /\ x.re <= number
    BY <1>0, <2>1, UnderWayType DEF ObsInv, NumbersAreOwn, Fits
  <2>6. \A x \in UnderWay : x.re <= n /\ x.re # n
    BY <1>0, <2>1, <2>5, SMT
  <2>7. ASSUME NEW x \in UnderWay  PROVE Fits(x)'
    <3>1. \A u \in Threads : pc[u] = "answer" /\ job[u].number = x.re
                               => job[u].serial = x.serial
      BY <2>1 DEF ObsInv, NumbersAreOwn, Fits
    <3>. QED  BY <1>1, <1>4, <2>2, <2>6, <3>1 DEF Fits, Holding
  <2>8. ASSUME NEW u \in Threads \ {t}, pc'[u] \in {"format", "send"}  PROVE Own(u)'
    <3>1. Own(u) /\ job'[u] = job[u] /\ job'[u].number # n
      BY <1>a, <2>1, <2>2, <2>3, <2>8 DEF ObsInv, NumbersAreOwn, Holding
    <3>. QED  BY <1>3, <1>4, <2>1, <2>2, <3>1 DEF Own
  <2>9. Own(t)'
    BY <1>3, <1>4, <2>1, <2>3, <2>6 DEF Own
  <2>. QED  BY <2>4, <2>7, <2>8, <2>9
<1>9. AnswerIsOwn'
  BY <1>1 DEF ObsInv, AnswerIsOwn
<1>. QED  BY <1>4, <1>5, <1>6, <1>7, <1>8, <1>9 DEF ObsInv

\* It is read again for the id, and is the same unless the thread notices a clash.
LEMMA FormatInv ==
  ASSUME JobTypeOK, ObsInv, ListInv, NEW t \in Threads, Format(t)
  PROVE  JobTypeOK' /\ ObsInv' /\ ListInv'
<1>. DEFINE j == job[t]
<1>0. pc[t] = "format" /\ ObsTypeOK /\ j \in Job /\ number \in Nat
  BY JobType DEF Format, ObsInv, ObsTypeOK
<1>a. PICK k : k = [j EXCEPT !.number = number]
  OBVIOUS
<1>1. /\ clashed' = (clashed \/ number # j.number)
      /\ pc' = [pc EXCEPT ![t] = "send"]
      /\ UNCHANGED <<number, socket, asked, foreign, listVars>>
  BY DEF Format, GoTo
<1>2. job' = [job EXCEPT ![t] = k]
  BY <1>a DEF Format, JobTypeOK
<1>3. k \in Job /\ k.number = number /\ k.reading = j.reading
  BY <1>0, <1>a DEF Job
<1>4. JobTypeOK' /\ pc'[t] = "send" /\ job'[t] = k /\ Others(t)
  BY <1>0, <1>1, <1>2, <1>3, Moves DEF Stages, listVars
<1>5. ListInv'
  BY <1>0, <1>1, <1>4, ListStays DEF AtLists
<1>6. ObsTypeOK'
  BY <1>0, <1>1 DEF ObsTypeOK
<1>7. OneReader'
  <2>1. \A u \in Threads : Reads(u)' <=> Reads(u)
    BY <1>0, <1>3, <1>4 DEF Reads, Others
  <2>2. (Sound' <=> Sound) /\ socket' = socket
    BY <1>1 DEF Sound
  <2>. QED  BY <2>1, <2>2 DEF ObsInv, OneReader
<1>8. NumbersAreOwn'
  <2>. SUFFICES ASSUME ~clashed'  PROVE NumbersAreOwn'
    BY DEF NumbersAreOwn
  <2>1. ~clashed /\ j.number = number /\ UnderWay' = UnderWay
    BY <1>1 DEF UnderWay, On
  <2>2. \A u \in Threads : pc'[u] \in Holding =>
          pc[u] \in Holding /\ job'[u].number = job[u].number
    BY <1>0, <1>3, <1>4, <2>1 DEF Others, Holding
  <2>3. \A u \in Threads : pc'[u] = "answer" => pc[u] = "answer" /\ job'[u] = job[u]
    BY <1>4 DEF Others
  <2>4. \A x \in UnderWay : Fits(x)'
    BY <1>1, <2>1, <2>3 DEF ObsInv, NumbersAreOwn, Fits
  <2>5. ASSUME NEW u \in Threads, pc'[u] \in {"format", "send"}  PROVE Own(u)'
    <3>1. pc[u] \in {"format", "send"} /\ job'[u].number = job[u].number
      BY <1>0, <1>4, <2>2, <2>5 DEF Others, Holding
    <3>2. Own(u)
      BY <2>1, <3>1 DEF ObsInv, NumbersAreOwn
    <3>. QED  BY <2>1, <2>2, <3>1, <3>2 DEF Own
  <2>6. \A u \in Threads : pc'[u] \in Holding => job'[u].number <= number'
    BY <1>1, <2>1, <2>2 DEF ObsInv, NumbersAreOwn
  <2>. QED  BY <2>1, <2>4, <2>5, <2>6 DEF NumbersAreOwn
<1>9. AnswerIsOwn'
  BY <1>1 DEF ObsInv, AnswerIsOwn
<1>. QED  BY <1>4, <1>5, <1>6, <1>7, <1>8, <1>9 DEF ObsInv

\* A request is sent with a number that nobody else has.
LEMMA SendInv ==
  ASSUME JobTypeOK, ObsInv, ListInv, NEW t \in Threads, Send(t)
  PROVE  JobTypeOK' /\ ObsInv' /\ ListInv'
<1>. DEFINE j == job[t]
<1>0. /\ pc[t] = "send" /\ ObsTypeOK /\ j \in Job /\ j.number \in Nat /\ j.ask \in Asks
      /\ asked \in Nat /\ number \in Nat
  BY JobType DEF Send, ObsInv, ObsTypeOK
<1>a. PICK n \in Nat, c \in Nat : n = j.number /\ c = asked + 1
  BY <1>0
<1>b. PICK r \in Request : r = [what |-> j.ask, re |-> n, serial |-> c]
  BY <1>0 DEF Request
<1>c. PICK k : k = [j EXCEPT !.serial = c]
  OBVIOUS
<1>d. PICK s : s = [socket EXCEPT !.sent = Append(@, r)]
  OBVIOUS
<1>1. /\ asked' = asked + 1 /\ UNCHANGED <<number, clashed, foreign, listVars>>
      /\ pc' = [pc EXCEPT ![t] = "answer"] /\ socket' = s
  BY <1>a, <1>b, <1>d DEF Send, GoTo
<1>2. job' = [job EXCEPT ![t] = k]
  BY <1>a, <1>c DEF Send, JobTypeOK
<1>3. k \in Job /\ k.number = n /\ k.serial = c /\ k.reading = j.reading
  BY <1>0, <1>a, <1>c DEF Job
<1>4. r.re = n /\ r.serial = c
  BY <1>b
<1>5. /\ s \in Socket /\ s.sent = Append(socket.sent, r) /\ s.inbox = socket.inbox
      /\ s.session = socket.session /\ s.broken = socket.broken /\ s.torn = socket.torn
  <2>1. Append(socket.sent, r) \in Seq(Request)
    BY <1>0, SocketType, RangeAppend
  <2>. QED  BY <1>0, <1>d, <2>1 DEF ObsTypeOK, Socket
<1>6. UnderWay' \subseteq UnderWay \cup {r}
  <2>1. Range(Append(socket.sent, r)) = Range(socket.sent) \cup {r}
    BY <1>0, SocketType, RangeAppend
  <2>. QED  BY <1>1, <1>5, <2>1 DEF UnderWay, On
<1>7. JobTypeOK' /\ pc'[t] = "answer" /\ job'[t] = k /\ Others(t)
  BY <1>0, <1>1, <1>2, <1>3, Moves DEF Stages, listVars
<1>8. ListInv'
  BY <1>0, <1>1, <1>7, ListStays DEF AtLists
<1>9. ObsTypeOK'
  BY <1>0, <1>1, <1>5 DEF ObsInv, ObsTypeOK
<1>10. OneReader'
  <2>1. \A u \in Threads : Reads(u)' <=> Reads(u)
    BY <1>0, <1>3, <1>7 DEF Reads, Others
  <2>2. (Sound' <=> Sound) /\ socket'.inbox = socket.inbox
    BY <1>1, <1>5 DEF Sound
  <2>. QED  BY <2>1, <2>2 DEF ObsInv, OneReader
<1>11. NumbersAreOwn'
  <2>. SUFFICES ASSUME ~clashed
                PROVE  /\ \A x \in UnderWay' : Fits(x)'
                       /\ \A u \in Threads : pc'[u] \in Holding => job'[u].number <= number
                       /\ \A u \in Threads : pc'[u] \in {"format", "send"} => Own(u)'
    BY <1>1 DEF NumbersAreOwn
  <2>1. Own(t) /\ n <= number
    BY <1>0, <1>a DEF ObsInv, NumbersAreOwn, Holding
  <2>2. \A u \in Threads \ {t} : pc'[u] = pc[u] /\ job'[u] = job[u]
    BY <1>7 DEF Others
  <2>3. \A u \in Threads : pc'[u] \in Holding => job'[u].number <= number
    BY <1>3, <1>7, <2>1, <2>2 DEF ObsInv, NumbersAreOwn
  <2>4. Fits(r)'
    <3>1. \A u \in Threads \ {t} : pc'[u] = "answer" => job'[u].number # n
      BY <1>a, <2>1, <2>2 DEF Own, Holding
    <3>. QED  BY <1>1, <1>3, <1>4, <1>7, <2>1, <3>1 DEF Fits
  <2>5. ASSUME NEW x \in UnderWay  PROVE Fits(x)'
    <3>1. Fits(x) /\ x.re # n
      BY <1>a, <2>1 DEF ObsInv, NumbersAreOwn, Own
    <3>. QED  BY <1>1, <1>3, <1>7, <2>2, <3>1 DEF Fits
  <2>6. ASSUME NEW u \in Threads, pc'[u] \in {"format", "send"}  PROVE Own(u)'
    <3>1. u # t /\ pc[u] \in {"format", "send"} /\ job'[u] = job[u]
      BY <1>7, <2>2, <2>6
    <3>2. Own(u) /\ job[u].number # n
      BY <1>0, <1>a, <2>1, <3>1 DEF ObsInv, NumbersAreOwn, Own, Holding
    <3>3. \A v \in Threads \ {u} : pc'[v] \in Holding => job'[v].number # job'[u].number
      BY <1>3, <1>7, <2>2, <3>1, <3>2 DEF Own
    <3>4. \A x \in UnderWay' : x.re # job'[u].number
      BY <1>4, <1>6, <3>1, <3>2 DEF Own
    <3>. QED  BY <3>3, <3>4 DEF Own
  <2>. QED  BY <1>6, <2>3, <2>4, <2>5, <2>6
<1>12. AnswerIsOwn'
  BY <1>1 DEF ObsInv, AnswerIsOwn
<1>. QED  BY <1>7, <1>8, <1>9, <1>10, <1>11, <1>12 DEF ObsInv

\* A request cannot be sent.
LEMMA SendRaisesInv ==
  ASSUME JobTypeOK, ObsInv, ListInv, NEW t \in Threads, SendRaises(t)
  PROVE  JobTypeOK' /\ ObsInv' /\ ListInv'
BY LeaveInv DEF SendRaises, AtLists

-----------------------------------------------------------------------------
(* OBS.                                                                    *)

\* Of a step that leaves every thread and the lists alone.
LEMMA AwayInv ==
  ASSUME JobTypeOK, ObsInv, ListInv, NEW s \in Socket, socket' = s,
         \A x \in On(s) : \E y \in UnderWay : x.re = y.re /\ x.serial = y.serial,
         s.broken \/ (socket.inbox # <<>> => s.inbox # <<>>),
         s.broken \/ (s.torn = socket.torn /\ ~socket.broken),
         UNCHANGED <<number, asked, clashed, foreign, listVars, pc, job>>
  PROVE  JobTypeOK' /\ ObsInv' /\ ListInv'
<1>1. JobTypeOK'
  BY DEF JobTypeOK, Job, Made, listVars
<1>2. ListInv'
  <2>1. \A stage : In(stage)' = In(stage)
    BY DEF In
  <2>2. Made' = Made /\ Fresh' = Fresh
    BY DEF Made, Fresh, Alive, listVars
  <2>3. ListTypeOK'
    BY <2>1, <2>2 DEF ListInv, ListTypeOK, listVars
  <2>. QED  BY <2>2, <2>3 DEF ListInv, AloneChanging, SlicesAreCut, NothingIsLost,
            ExpiredStayOut, EvidenceIsCurrent, listVars
<1>3. ObsTypeOK'
  BY DEF ObsInv, ObsTypeOK
<1>4. Calm
  <2>1. UnderWay' = On(s)
    BY DEF UnderWay, On
  <2>. QED  BY <2>1 DEF Calm
<1>5. OneReader'
  <2>1. \A u \in Threads : Reads(u)' <=> Reads(u)
    BY DEF Reads
  <2>2. Sound' => Sound /\ (socket.inbox # <<>> => socket'.inbox # <<>>)
    BY DEF Sound
  <2>. QED  BY <2>1, <2>2 DEF ObsInv, OneReader
<1>. QED  BY <1>1, <1>2, <1>3, <1>4, <1>5, CalmInv DEF ObsInv

\* A connection that has ended.
LEMMA BrokenType ==
  ASSUME ObsTypeOK
  PROVE  LET s == [socket EXCEPT !.broken = TRUE, !.sent = <<>>, !.inbox = <<>>]
         IN  s \in Socket /\ s.broken = TRUE /\ On(s) = {}
<1>. DEFINE s == [socket EXCEPT !.broken = TRUE, !.sent = <<>>, !.inbox = <<>>]
<1>1. <<>> \in Seq(Request) /\ <<>> \in Seq(Message)
  OBVIOUS
<1>2. s \in Socket /\ s.broken = TRUE /\ s.sent = <<>> /\ s.inbox = <<>>
  BY <1>1 DEF ObsTypeOK, Socket
<1>. HIDE DEF s
<1>3. On(s) = {}
  BY <1>2, RangeEmpty DEF On
<1>4. s \in Socket /\ s.broken = TRUE /\ On(s) = {}
  BY <1>2, <1>3
<1>. QED  BY <1>4 DEF s

\* The connection breaks.
LEMMA BreakInv ==
  ASSUME JobTypeOK, ObsInv, ListInv, Break
  PROVE  JobTypeOK' /\ ObsInv' /\ ListInv'
<1>. DEFINE s == [socket EXCEPT !.broken = TRUE, !.sent = <<>>, !.inbox = <<>>]
<1>1. s \in Socket /\ s.broken = TRUE /\ On(s) = {}
  BY BrokenType DEF ObsInv
<1>2. socket' = s /\ UNCHANGED <<number, asked, clashed, foreign, listVars, pc, job>>
  BY DEF Break
<1>. HIDE DEF s
<1>. QED  BY <1>1, <1>2, AwayInv

\* OBS answers the oldest request under way.
LEMMA ReplyInv ==
  ASSUME JobTypeOK, ObsInv, ListInv, Reply
  PROVE  JobTypeOK' /\ ObsInv' /\ ListInv'
<1>0. PICK r : r = Head(socket.sent)
  OBVIOUS
<1>1. /\ socket.sent # <<>> /\ ~socket.broken /\ ~socket.torn /\ ObsTypeOK
      /\ UNCHANGED <<number, asked, clashed, foreign, listVars, pc, job>>
  BY DEF Reply, ObsInv
<1>2. /\ r \in Request /\ r \in Range(socket.sent)
      /\ Tail(socket.sent) \in Seq(Request)
      /\ Range(Tail(socket.sent)) \subseteq Range(socket.sent)
      /\ socket.inbox \in Seq(Message)
  BY <1>0, <1>1, SocketType, RangeTail
<1>3. CASE socket' = [socket EXCEPT !.broken = TRUE, !.sent = <<>>, !.inbox = <<>>]
  <2>. DEFINE s == [socket EXCEPT !.broken = TRUE, !.sent = <<>>, !.inbox = <<>>]
  <2>1. s \in Socket /\ s.broken = TRUE /\ On(s) = {}
    BY <1>1, BrokenType
  <2>2. socket' = s
    BY <1>3
  <2>. HIDE DEF s
  <2>. QED  BY <1>1, <2>1, <2>2, AwayInv
<1>4. CASE socket' # [socket EXCEPT !.broken = TRUE, !.sent = <<>>, !.inbox = <<>>]
  <2>1. PICK op \in {"identified", "answer"}, what \in Asks \cup {"none"}, f \in Frames,
             session \in {socket.session, "identified"} :
          /\ socket' = [socket EXCEPT !.sent = Tail(@), !.session = session, !.inbox =
                Append(socket.inbox, [op |-> op, what |-> what, re |-> r.re,
                                      serial |-> r.serial, frame |-> f])]
          /\ op = "answer" => r.what # "identify"
    <3>1. CASE r.what = "identify"
      BY <1>0, <1>4, <3>1, Limits DEF Reply
    <3>2. CASE r.what # "identify"
      <4>1. PICK f \in Frames :
              socket' = [[socket EXCEPT !.sent = Tail(@)] EXCEPT !.inbox =
                 Append(socket.inbox, [op |-> "answer", what |-> r.what, re |-> r.re,
                                       serial |-> r.serial, frame |-> f])]
        BY <1>0, <1>4, <3>2, Limits DEF Reply
      <4>2. r.what \in Asks
        BY <1>2, <3>2 DEF Request
      <4>3. socket \in Socket
        BY <1>1 DEF ObsTypeOK
      <4>. QED  BY <3>2, <4>1, <4>2, <4>3 DEF Socket
    <3>. QED  BY <3>1, <3>2
  <2>2. PICK m : m = [op |-> op, what |-> what, re |-> r.re, serial |-> r.serial, frame |-> f]
    OBVIOUS
  <2>3. m \in Message /\ m.op = op /\ m.re = r.re /\ m.serial = r.serial
    BY <1>2, <2>2 DEF Message, Request
  <2>4. /\ Append(socket.inbox, m) \in Seq(Message)
        /\ Range(Append(socket.inbox, m)) = Range(socket.inbox) \cup {m}
        /\ Append(socket.inbox, m) # <<>>
    BY <1>2, <2>3, RangeAppend
  <2>5. PICK s : s = socket'
    OBVIOUS
  <2>6. /\ s \in Socket /\ s.sent = Tail(socket.sent)
        /\ s.inbox = Append(socket.inbox, m) /\ s.torn = socket.torn
    BY <1>1, <1>2, <2>1, <2>2, <2>4, <2>5 DEF ObsTypeOK, Socket
  <2>7. \A x \in On(s) : \E y \in UnderWay : x.re = y.re /\ x.serial = y.serial
    <3>1. r.what # "identify" => r \in UnderWay
      BY <1>2 DEF UnderWay, On
    <3>2. \A x \in On(s) : x \in UnderWay \/ (x = m /\ r.what # "identify")
      BY <1>2, <2>1, <2>3, <2>4, <2>6 DEF UnderWay, On
    <3>. QED  BY <2>3, <3>1, <3>2
  <2>. QED  BY <1>1, <2>4, <2>5, <2>6, <2>7, AwayInv
<1>. QED  BY <1>3, <1>4

-----------------------------------------------------------------------------
(* The slices.                                                             *)

\* No more than MaxFrames hashes are remembered.
LEMMA LastIsShort ==
  ASSUME NEW s \in Seq(Frames)
  PROVE  Last(s) \in Seq(Frames) /\ Len(Last(s)) <= MaxFrames
<1>1. MaxFrames \in Nat \ {0} /\ Len(s) \in Nat
  BY Limits
<1>2. CASE Len(s) <= MaxFrames
  BY <1>2 DEF Last
<1>3. CASE ~(Len(s) <= MaxFrames)
  <2>1. Last(s) = SubSeq(s, Len(s) - MaxFrames + 1, Len(s))
    BY <1>3 DEF Last
  <2>2. /\ Len(s) - MaxFrames + 1 \in 1..Len(s) + 1 /\ Len(s) \in Len(s) - MaxFrames..Len(s)
        /\ Len(s) - (Len(s) - MaxFrames + 1) + 1 = MaxFrames
    BY <1>1, <1>3, SMT
  <2>. QED  BY <1>1, <1>3, <2>1, <2>2
<1>. QED  BY <1>2, <1>3

\* A finite set of numbers has a least one.
LEMMA Least ==
  ASSUME NEW S, S \subseteq Nat, IsFiniteSet(S), S # {}
  PROVE  \E m \in S : \A x \in S : m <= x
<1>. DEFINE Below(x) == {y \in S : y < x}
            R == {ss \in (SUBSET S) \X (SUBSET S) : ss[1] \subseteq ss[2] /\ ss[1] # ss[2]}
            B == {Below(x) : x \in S}
<1>1. IsWellFoundedOn(R, SUBSET S)
  <2>1. IsWellFoundedOn(StrictSubsetOrdering(S), SUBSET S)
    BY FS_StrictSubsetOrderingWellFounded, FS_FiniteSubsetsOfFinite
  <2>. QED  BY <2>1, Zenon DEF StrictSubsetOrdering
<1>2. B \subseteq SUBSET S /\ B # {}
  OBVIOUS
<1>3. PICK b \in B : \A c \in B : <<c, b>> \notin R
  <2>. HIDE DEF R, B
  <2>. QED  BY <1>1, <1>2, WFMin
<1>4. PICK m \in S : b = Below(m)
  OBVIOUS
<1>5. ASSUME NEW y \in S, y < m  PROVE FALSE
  <2>1. Below(y) \subseteq Below(m) /\ Below(y) # Below(m)
    <3>1. \A x \in S : x < y => x < m
      BY <1>5, SMT
    <3>2. y \in Below(m) /\ y \notin Below(y)
      BY <1>5
    <3>. QED  BY <3>1, <3>2
  <2>2. Below(y) \in B /\ Below(y) \in SUBSET S /\ Below(m) \in SUBSET S
    OBVIOUS
  <2>. QED  BY <1>3, <1>4, <2>1, <2>2
<1>. QED  BY <1>5

\* No more than MaxFrames observations are kept.
LEMMA NewestIsShort ==
  ASSUME NEW n \in Nat, NEW S, S \subseteq 1..n
  PROVE  Newest(S) \subseteq S /\ Cardinality(Newest(S)) <= MaxFrames
<1>. DEFINE Above(x) == {y \in S : y > x}
<1>1. MaxFrames \in Nat \ {0} /\ S \subseteq Nat /\ IsFiniteSet(S)
  <2>1. IsFiniteSet(1..n)
    BY FS_Interval
  <2>2. IsFiniteSet(S)
    BY <2>1, FS_Subset
  <2>. QED  BY <2>2, Limits
<1>2. Newest(S) \subseteq S /\ IsFiniteSet(Newest(S))
  BY <1>1, FS_Subset DEF Newest
<1>3. CASE Newest(S) = {}
  BY <1>1, <1>3, FS_EmptySet
<1>4. CASE Newest(S) # {}
  <2>1. PICK m \in Newest(S) : \A x \in Newest(S) : m <= x
    BY <1>1, <1>2, <1>4, Least
  <2>2. Cardinality(Above(m)) < MaxFrames
    BY <2>1 DEF Newest
  <2>3. Newest(S) \ {m} \subseteq Above(m)
    <3>1. \A x \in Newest(S) \ {m} : m <= x /\ x # m /\ x \in Nat /\ m \in Nat /\ x \in S
      BY <1>1, <1>2, <2>1
    <3>. HIDE DEF Newest
    <3>. QED  BY <3>1
  <2>4. IsFiniteSet(Above(m)) /\ Cardinality(Above(m)) \in Nat
    BY <1>1, FS_Subset, FS_CardinalityType
  <2>. HIDE DEF Above
  <2>5. Cardinality(Newest(S) \ {m}) <= Cardinality(Above(m))
    BY <2>3, <2>4, FS_Subset
  <2>6. /\ Cardinality(Newest(S) \ {m}) = Cardinality(Newest(S)) - 1
        /\ Cardinality(Newest(S)) \in Nat
    BY <1>2, <2>1, FS_RemoveElement, FS_CardinalityType
  <2>. QED  BY <1>1, <1>2, <2>2, <2>4, <2>5, <2>6
<1>. QED  BY <1>2, <1>3, <1>4

\* It holds what is among the last numbers.
LEMMA NewestIsEnough ==
  ASSUME NEW n \in Nat, NEW S, S \subseteq 1..n, NEW x \in S, x + MaxFrames > n
  PROVE  x \in Newest(S)
<1>. DEFINE Above == {y \in S : y > x}
<1>1. MaxFrames \in Nat \ {0} /\ x \in 1..n
  BY Limits
<1>2. Above \subseteq (x + 1)..n
  <2>1. \A y \in Above : y \in Nat /\ y > x /\ y <= n
    OBVIOUS
  <2>2. \A y : y \in Nat /\ y > x /\ y <= n => y \in (x + 1)..n
    BY <1>1, SMT
  <2>. QED  BY <2>1, <2>2
<1>3. /\ IsFiniteSet((x + 1)..n)
      /\ Cardinality((x + 1)..n) = IF x + 1 > n THEN 0 ELSE n - (x + 1) + 1
  BY <1>1, FS_Interval
<1>4. Cardinality((x + 1)..n) < MaxFrames
  BY <1>1, <1>3
<1>5. Cardinality(Above) <= Cardinality((x + 1)..n) /\ Cardinality(Above) \in Nat
  BY <1>2, <1>3, FS_Subset, FS_CardinalityType
<1>6. Cardinality((x + 1)..n) \in Nat
  BY <1>3, FS_CardinalityType
<1>. HIDE DEF Above
<1>7. Cardinality(Above) < MaxFrames
  BY <1>1, <1>4, <1>5, <1>6
<1>. QED  BY <1>7 DEF Newest, Above

-----------------------------------------------------------------------------
(* Steps that change a list.                                               *)

\* The list of hashes is copied with a new one ...
LEMMA RememberInv ==
  ASSUME JobTypeOK, ObsInv, ListInv, NEW t \in Threads, Remember(t)
  PROVE  JobTypeOK' /\ ObsInv' /\ ListInv'
<1>. DEFINE j == job[t]
            more == Append(seen, j.frame)
            k == [j EXCEPT !.hashes = Last(more)]
<1>1. /\ pc[t] = "remember" /\ seen' = more /\ job' = [job EXCEPT ![t] = k]
      /\ pc' = [pc EXCEPT ![t] = "seen"] /\ UNCHANGED <<obsVars, kept, life, overlapped>>
  BY DEF Remember, GoTo
<1>2. j \in Job /\ j.frame \in Frames /\ seen \in Seq(Frames)
  BY <1>1, JobType DEF ListInv, ListTypeOK
<1>3. more \in Seq(Frames) /\ Len(more) = Len(seen) + 1
  BY <1>2
<1>4. Last(more) \in Seq(Frames) /\ Len(Last(more)) <= MaxFrames
  BY <1>3, LastIsShort
<1>. HIDE DEF more
<1>5. k \in Job /\ k.reading = j.reading /\ k.hashes = Last(more)
  BY <1>2, <1>4 DEF Job
<1>. HIDE DEF k
<1>6. JobTypeOK' /\ pc'[t] = "seen" /\ job'[t] = k /\ Others(t)
  BY <1>1, <1>5, Moves DEF Stages
<1>7. ObsInv'
  BY <1>1, <1>5, <1>6, ObsStays DEF Holding, Reads
<1>8. KeptInv'
  BY <1>1, <1>6, KeptStays DEF AtLists
<1>9. Len(seen') <= MaxFrames + Cardinality(In("seen")')
  <2>1. /\ Cardinality(In("seen")') = Cardinality(In("seen")) + 1
        /\ Cardinality(In("seen")) \in Nat
    BY <1>1, <1>6, Staged
  <2>2. Len(seen) <= MaxFrames + Cardinality(In("seen")) /\ Len(seen) \in Nat
    BY <1>2 DEF ListInv, ListTypeOK
  <2>. QED  BY <1>1, <1>3, <2>1, <2>2, Limits
<1>10. \A u \in Threads : pc'[u] = "seen" => Len(job'[u].hashes) <= MaxFrames
  BY <1>4, <1>5, <1>6 DEF Others, ListInv, SlicesAreCut
<1>. QED  BY <1>1, <1>3, <1>6, <1>7, <1>8, <1>9, <1>10, ListParts DEF SeenInv

\* ... and assigned, cut to its newest.
LEMMA StoreSeenInv ==
  ASSUME JobTypeOK, ObsInv, ListInv, NEW t \in Threads, StoreSeen(t)
  PROVE  JobTypeOK' /\ ObsInv' /\ ListInv'
<1>. DEFINE j == job[t]
            k == [j EXCEPT !.hashes = <<>>]
<1>1. /\ pc[t] = "seen" /\ seen' = j.hashes /\ job' = [job EXCEPT ![t] = k]
      /\ pc' = [pc EXCEPT ![t] = "observe"] /\ UNCHANGED <<obsVars, kept, life, overlapped>>
  BY DEF StoreSeen, GoTo
<1>2. j \in Job /\ j.hashes \in Seq(Frames) /\ Len(j.hashes) <= MaxFrames
  BY <1>1, JobType DEF ListInv, SlicesAreCut
<1>3. k \in Job /\ k.reading = j.reading
  <2>1. <<>> \in Seq(Frames)
    OBVIOUS
  <2>. QED  BY <1>2, <2>1 DEF Job
<1>. HIDE DEF k
<1>4. JobTypeOK' /\ pc'[t] = "observe" /\ job'[t] = k /\ Others(t)
  BY <1>1, <1>3, Moves DEF Stages
<1>5. ObsInv'
  BY <1>1, <1>3, <1>4, ObsStays DEF Holding, Reads
<1>6. KeptInv'
  BY <1>1, <1>4, KeptStays DEF AtLists
<1>7. Len(seen') <= MaxFrames + Cardinality(In("seen")')
  <2>1. IsFiniteSet(In("seen")')
    BY Limits, FS_Subset DEF In
  <2>2. Cardinality(In("seen")') \in Nat
    BY <2>1, FS_CardinalityType
  <2>. QED  BY <1>1, <1>2, <2>2, Limits
<1>8. \A u \in Threads : pc'[u] = "seen" => Len(job'[u].hashes) <= MaxFrames
  BY <1>4 DEF Others, ListInv, SlicesAreCut
<1>. QED  BY <1>1, <1>2, <1>4, <1>5, <1>6, <1>7, <1>8, ListParts DEF SeenInv

-----------------------------------------------------------------------------
(* Steps that change _observations.                                        *)

\* Such a step marks that two threads are at it; otherwise the others keep off.
LEMMA KeepsOff ==
  ASSUME NEW t \in Threads, Others(t), overlapped' = (overlapped \/ Changing(t)), ~overlapped'
  PROVE  /\ ~overlapped
         /\ \A u \in Threads \ {t} : pc[u] \notin Change /\ pc'[u] \notin Change
BY DEF Changing, Change, Others

\* A thread that read the list assigns what it made of it.
LEMMA StoreInv ==
  ASSUME JobTypeOK, ObsInv, ListInv, NEW t \in Threads, pc[t] \in Change,
         NEW stage \in {"idle", "view"}, NEW k,
         pc' = [pc EXCEPT ![t] = stage], job' = [job EXCEPT ![t] = k],
         k \in Job \cup {NoJob},
         stage = "view" => k \in Job /\ k.expired = job[t].expired
                           /\ k.reading = job[t].reading /\ pc[t] = "expired",
         kept' = job[t].copy, overlapped' = (overlapped \/ Changing(t)),
         UNCHANGED <<obsVars, seen, life>>
  PROVE  JobTypeOK' /\ ObsInv' /\ ListInv'
<1>1. JobTypeOK' /\ pc'[t] = stage /\ job'[t] = k /\ Others(t)
  BY Moves DEF Stages
<1>2. ObsInv'
  BY <1>1, ObsStays DEF Holding, Reads, Change
<1>3. SeenInv'
  BY <1>1, SeenStays DEF Change
<1>4. pc[t] # "idle" /\ job[t].copy \subseteq Made /\ Made' = Made /\ Fresh' = Fresh
  BY JobType DEF Change, Made, Fresh, Alive
<1>5. overlapped' \in BOOLEAN
  BY DEF ListInv, ListTypeOK, Changing
<1>6. ASSUME ~overlapped'
      PROVE  /\ Cardinality(kept') <= MaxFrames + Cardinality((In("kept") \cup In("expired"))')
             /\ \A u \in Threads : pc'[u] \notin Change
             /\ Fresh' \subseteq kept'
             /\ \A u \in Threads : pc'[u] = "view" => kept' \cap job'[u].expired = {}
             /\ EvidenceIsCurrent'
  <2>1. ~overlapped /\ \A u \in Threads : pc'[u] \notin Change
    BY <1>1, <1>6, KeepsOff DEF Change
  <2>2. /\ Cardinality(job[t].copy) <= MaxFrames /\ Fresh \subseteq job[t].copy
        /\ \A u \in Threads : pc[u] \in {"expired", "view"} =>
             job[t].copy \cap job[u].expired = {}
    BY <2>1 DEF ListInv, SlicesAreCut, NothingIsLost, ExpiredStayOut
  <2>3. (In("kept") \cup In("expired"))' = {}
    BY <2>1 DEF In, Change
  <2>4. Cardinality(kept') <= MaxFrames + Cardinality((In("kept") \cup In("expired"))')
    <3>1. Cardinality(kept') <= MaxFrames
      BY <2>2
    <3>2. Cardinality((In("kept") \cup In("expired"))') = 0
      BY <2>3, FS_EmptySet
    <3>. QED  BY <3>1, <3>2, Limits
  <2>5. \A u \in Threads : pc'[u] = "view" => kept' \cap job'[u].expired = {}
    BY <1>1, <2>2 DEF Others
  <2>6. EvidenceIsCurrent'
    BY <1>1, <2>1 DEF ListInv, EvidenceIsCurrent, Others
  <2>. QED  BY <1>4, <2>1, <2>2, <2>4, <2>5, <2>6
<1>7. AloneChanging' /\ NothingIsLost' /\ ExpiredStayOut' /\ EvidenceIsCurrent'
  BY <1>6 DEF AloneChanging, NothingIsLost, ExpiredStayOut, EvidenceIsCurrent
<1>8. KeptInv'
  BY <1>4, <1>5, <1>6, <1>7 DEF KeptInv, ListInv, ListTypeOK
<1>. QED  BY <1>1, <1>2, <1>3, <1>8, ListParts

\* The list of observations is assigned, cut to its newest ...
LEMMA StoreKeptInv ==
  ASSUME JobTypeOK, ObsInv, ListInv, NEW t \in Threads, StoreKept(t)
  PROVE  JobTypeOK' /\ ObsInv' /\ ListInv'
BY StoreInv DEF StoreKept, Leave, GoTo, Change

\* ... or without those that have expired.
LEMMA StoreAliveInv ==
  ASSUME JobTypeOK, ObsInv, ListInv, NEW t \in Threads, StoreAlive(t)
  PROVE  JobTypeOK' /\ ObsInv' /\ ListInv'
<1>. DEFINE j == job[t]
            k == [j EXCEPT !.copy = {}]
<1>1. /\ pc[t] = "expired" /\ kept' = j.copy /\ overlapped' = (overlapped \/ Changing(t))
      /\ job' = [job EXCEPT ![t] = k] /\ pc' = [pc EXCEPT ![t] = "view"]
      /\ UNCHANGED <<obsVars, seen, life>> /\ j \in Job
  BY DEF StoreAlive, GoTo, JobTypeOK
<1>2. k \in Job /\ k.expired = j.expired /\ k.reading = j.reading
  BY <1>1 DEF Job
<1>. HIDE DEF k
<1>. QED  BY <1>1, <1>2, StoreInv DEF Change

\* The observations that have not expired are looked for.
LEMMA ExpireInv ==
  ASSUME JobTypeOK, ObsInv, ListInv, NEW t \in Threads, Expire(t)
  PROVE  JobTypeOK' /\ ObsInv' /\ ListInv'
<1>. DEFINE j == job[t]
<1>a. PICK alive : alive = {o \in kept : Alive(o)}
  OBVIOUS
<1>b. PICK over : over = {o \in Made : life[o] = 0}
  OBVIOUS
<1>c. PICK k : k = [j EXCEPT !.copy = alive, !.expired = over]
  OBVIOUS
<1>1. /\ pc[t] = "expire" /\ overlapped' = (overlapped \/ Changing(t)) /\ j \in Job
      /\ job' = [job EXCEPT ![t] = k] /\ pc' = [pc EXCEPT ![t] = "expired"]
      /\ UNCHANGED <<obsVars, seen, kept, life>>
  BY <1>a, <1>b, <1>c DEF Expire, GoTo, JobTypeOK
<1>2. /\ alive \subseteq kept /\ kept \subseteq Made /\ over \subseteq Made
      /\ alive \cap over = {}
  BY <1>a, <1>b DEF ListInv, ListTypeOK, Alive
<1>3. k \in Job /\ k.reading = j.reading /\ k.copy = alive /\ k.expired = over
  BY <1>c, <1>1, <1>2 DEF Job
<1>4. JobTypeOK' /\ pc'[t] = "expired" /\ job'[t] = k /\ Others(t)
  BY <1>1, <1>3, Moves DEF Stages
<1>5. ObsInv'
  BY <1>1, <1>3, <1>4, ObsStays DEF Holding, Reads
<1>6. SeenInv'
  BY <1>1, <1>4, SeenStays
<1>7. Made' = Made /\ Fresh' = Fresh /\ overlapped' \in BOOLEAN
  BY <1>1 DEF Made, Fresh, Alive, ListInv, ListTypeOK, Changing
<1>8. ASSUME ~overlapped'
      PROVE  /\ Cardinality(kept') <= MaxFrames + Cardinality((In("kept") \cup In("expired"))')
             /\ \A u \in Threads : pc'[u] \in Change => u = t
             /\ Cardinality(alive) <= MaxFrames
             /\ Fresh \subseteq kept /\ Fresh \subseteq alive
             /\ \A u \in Threads : pc'[u] \in {"expired", "view"} =>
                  alive \cap job'[u].expired = {}
             /\ \A u \in Threads : pc'[u] = "view" => kept' \cap job'[u].expired = {}
             /\ EvidenceIsCurrent'
  <2>1. ~overlapped /\ \A u \in Threads : pc[u] \notin Change /\ (pc'[u] \in Change => u = t)
    BY <1>1, <1>4, <1>8, KeepsOff DEF Change
  <2>2. Cardinality(kept) <= MaxFrames
    <3>1. In("kept") \cup In("expired") = {}
      BY <2>1 DEF In, Change
    <3>2. Cardinality(In("kept") \cup In("expired")) = 0
      BY <3>1, FS_EmptySet
    <3>3. Cardinality(kept) <= MaxFrames + Cardinality(In("kept") \cup In("expired"))
      BY <2>1 DEF ListInv, ListTypeOK
    <3>. QED  BY <3>2, <3>3, Limits
  <2>3. /\ IsFiniteSet(kept) /\ Cardinality(kept) \in Nat
        /\ Cardinality(alive) \in Nat /\ Cardinality(alive) <= Cardinality(kept)
    <3>1. Len(life) \in Nat
      BY DEF ListInv, ListTypeOK
    <3>2. IsFiniteSet(Made)
      BY <3>1, FS_Interval DEF Made
    <3>3. IsFiniteSet(kept)
      BY <1>2, <3>2, FS_Subset
    <3>4. IsFiniteSet(alive) /\ Cardinality(alive) <= Cardinality(kept)
      BY <1>2, <3>3, FS_Subset
    <3>. QED  BY <3>3, <3>4, FS_CardinalityType
  <2>4. Cardinality(alive) <= MaxFrames
    BY <2>2, <2>3, Limits
  <2>5. Cardinality(kept') <= MaxFrames + Cardinality((In("kept") \cup In("expired"))')
    <3>1. IsFiniteSet((In("kept") \cup In("expired"))')
      BY Limits, FS_Subset DEF In
    <3>2. Cardinality((In("kept") \cup In("expired"))') \in Nat
      BY <3>1, FS_CardinalityType
    <3>. QED  BY <1>1, <2>2, <2>3, <3>2, Limits
  <2>6. Fresh \subseteq kept /\ Fresh \subseteq alive
    BY <1>a, <2>1 DEF ListInv, NothingIsLost, Fresh
  <2>7. \A u \in Threads : pc'[u] = "view" => kept' \cap job'[u].expired = {}
    BY <1>1, <1>4, <2>1 DEF Others, ListInv, ExpiredStayOut
  <2>8. \A u \in Threads : pc'[u] \in {"expired", "view"} => alive \cap job'[u].expired = {}
    BY <1>1, <1>2, <1>3, <1>4, <2>1, <2>7 DEF Change
  <2>9. EvidenceIsCurrent'
    BY <1>4, <2>1 DEF Others, ListInv, EvidenceIsCurrent
  <2>. QED  BY <2>1, <2>4, <2>5, <2>6, <2>7, <2>8, <2>9
<1>9. AloneChanging' /\ NothingIsLost' /\ ExpiredStayOut' /\ EvidenceIsCurrent'
  <2>1. AloneChanging' /\ EvidenceIsCurrent'
    BY <1>8 DEF AloneChanging, EvidenceIsCurrent
  <2>2. NothingIsLost'
    BY <1>1, <1>3, <1>4, <1>7, <1>8 DEF NothingIsLost
  <2>3. ExpiredStayOut'
    BY <1>3, <1>4, <1>8 DEF ExpiredStayOut
  <2>. QED  BY <2>1, <2>2, <2>3
<1>10. KeptInv'
  BY <1>1, <1>3, <1>4, <1>7, <1>8, <1>9 DEF KeptInv, ListInv, ListTypeOK
<1>. QED  BY <1>4, <1>5, <1>6, <1>10, ListParts

\* What a reader is given, and should be given.
LEMMA ViewInv ==
  ASSUME JobTypeOK, ObsInv, ListInv, NEW t \in Threads, View(t)
  PROVE  JobTypeOK' /\ ObsInv' /\ ListInv'
<1>. DEFINE j == job[t]
<1>a. PICK k : k = [j EXCEPT !.view = kept, !.due = Fresh]
  OBVIOUS
<1>1. /\ pc[t] = "view" /\ j \in Job /\ job' = [job EXCEPT ![t] = k]
      /\ pc' = [pc EXCEPT ![t] = "use"] /\ UNCHANGED <<obsVars, seen, kept, life, overlapped>>
  BY <1>a DEF View, GoTo, JobTypeOK, Fresh, listVars
<1>2. kept \subseteq Made /\ Fresh \subseteq Made
  BY DEF ListInv, ListTypeOK, Fresh
<1>3. /\ k \in Job /\ k.reading = j.reading /\ k.view = kept /\ k.due = Fresh
      /\ k.expired = j.expired
  BY <1>a, <1>1, <1>2 DEF Job
<1>4. JobTypeOK' /\ pc'[t] = "use" /\ job'[t] = k /\ Others(t)
  BY <1>1, <1>3, Moves DEF Stages
<1>5. ObsInv'
  BY <1>1, <1>3, <1>4, ObsStays DEF Holding, Reads
<1>6. SeenInv'
  BY <1>1, <1>4, SeenStays
<1>7. Made' = Made /\ Fresh' = Fresh
  BY <1>1 DEF Made, Fresh, Alive
<1>8. In("kept")' = In("kept") /\ In("expired")' = In("expired")
  BY <1>1, <1>4, Staged
<1>9. \A u \in Threads : pc'[u] \in {"kept", "expired", "view"} =>
        pc'[u] = pc[u] /\ job'[u] = job[u]
  BY <1>4 DEF Others
<1>10. AloneChanging' /\ NothingIsLost' /\ ExpiredStayOut'
  BY <1>1, <1>7, <1>9 DEF ListInv, AloneChanging, NothingIsLost, ExpiredStayOut, Change
<1>11. EvidenceIsCurrent'
  <2>1. ~overlapped => k.view \cap k.expired = {} /\ k.due \subseteq k.view
    BY <1>1, <1>3 DEF ListInv, NothingIsLost, ExpiredStayOut
  <2>. QED  BY <1>1, <1>4, <2>1 DEF ListInv, EvidenceIsCurrent, Others
<1>12. KeptInv'
  BY <1>1, <1>7, <1>8, <1>9, <1>10, <1>11
     DEF KeptInv, ListInv, ListTypeOK, SlicesAreCut, Change
<1>. QED  BY <1>4, <1>5, <1>6, <1>12, ListParts

\* A prompt is given the observations, and what it gets is current.
LEMMA UseInv ==
  ASSUME JobTypeOK, ObsInv, ListInv, NEW t \in Threads, Use(t)
  PROVE  JobTypeOK' /\ ObsInv' /\ ListInv'
<1>1. /\ pc[t] = "use" /\ UNCHANGED <<obsVars, seen, kept, life, overlapped>>
      /\ JobTypeOK' /\ pc'[t] = "idle" /\ Others(t)
  BY Leaves DEF Use, listVars
<1>2. ObsInv'
  BY <1>1, ObsStays DEF Holding, Reads
<1>3. SeenInv'
  BY <1>1, SeenStays
<1>4. Made' = Made /\ Fresh' = Fresh
  BY <1>1 DEF Made, Fresh, Alive
<1>5. In("kept")' = In("kept") /\ In("expired")' = In("expired")
  BY <1>1, Staged
<1>6. \A u \in Threads : pc'[u] \in {"kept", "expired", "view", "use"} =>
        pc'[u] = pc[u] /\ job'[u] = job[u]
  BY <1>1 DEF Others
<1>7. AloneChanging' /\ NothingIsLost' /\ ExpiredStayOut' /\ EvidenceIsCurrent'
  BY <1>1, <1>4, <1>6 DEF ListInv, AloneChanging, NothingIsLost, ExpiredStayOut,
     EvidenceIsCurrent, Change
<1>8. KeptInv'
  BY <1>1, <1>4, <1>5, <1>6, <1>7 DEF KeptInv, ListInv, ListTypeOK, SlicesAreCut, Change
<1>. QED  BY <1>1, <1>2, <1>3, <1>8, ListParts

\* A new observation: the ones that now fall off the end are no longer among the newest.
LEMMA KeepInv ==
  ASSUME JobTypeOK, ObsInv, ListInv, NEW t \in Threads, Keep(t)
  PROVE  JobTypeOK' /\ ObsInv' /\ ListInv'
<1>. DEFINE j == job[t]
<1>0. /\ pc[t] = "keep" /\ j \in Job /\ j.left \in 0..TTL
      /\ life \in Seq(0..TTL) /\ kept \subseteq Made /\ Len(life) \in Nat
  BY JobType DEF Keep, ListInv, ListTypeOK
<1>a. PICK o \in Nat : o = Len(life) + 1
  BY <1>0
<1>b. PICK more : more = kept \cup {o}
  OBVIOUS
<1>c. PICK k : k = [j EXCEPT !.copy = Newest(more), !.left = 0]
  OBVIOUS
<1>1. /\ life' = Append(life, j.left) /\ kept' = more
      /\ job' = [job EXCEPT ![t] = k] /\ pc' = [pc EXCEPT ![t] = "kept"]
      /\ overlapped' = (overlapped \/ Changing(t)) /\ UNCHANGED <<obsVars, seen>>
  BY <1>0, <1>a, <1>b, <1>c DEF Keep, GoTo, JobTypeOK
<1>2. /\ life' \in Seq(0..TTL) /\ Len(life') = o
      /\ \A i \in 1..Len(life) : life'[i] = life[i]
  BY <1>0, <1>1, <1>a
<1>3. Made' = 1..o /\ Made \subseteq Made' /\ o \in Made' /\ o \notin Made
  BY <1>0, <1>2, <1>a DEF Made
<1>4. /\ more \subseteq 1..o /\ Newest(more) \subseteq more
      /\ Cardinality(Newest(more)) <= MaxFrames
  BY <1>0, <1>3, <1>b, NewestIsShort
<1>5. Job \subseteq Job'
  BY <1>3 DEF Job
<1>6. k \in Job' /\ k.copy = Newest(more) /\ k.reading = j.reading
  <2>1. 0 \in 0..TTL
    BY Limits, SMT
  <2>2. Newest(more) \subseteq Made' /\ j \in Job'
    BY <1>0, <1>3, <1>4, <1>5
  <2>. HIDE DEF j
  <2>. QED  BY <1>c, <2>1, <2>2 DEF Job
<1>7. pc'[t] = "kept" /\ job'[t] = k /\ Others(t)
  BY <1>1 DEF JobTypeOK, Others
<1>8. JobTypeOK'
  <2>1. pc' \in [Threads -> Stages]
    BY <1>1 DEF JobTypeOK, Stages
  <2>2. job' \in [Threads -> Job' \cup {NoJob}]
    BY <1>1, <1>5, <1>6 DEF JobTypeOK
  <2>3. \A u \in Threads : pc'[u] # "idle" => job'[u] \in Job'
    BY <1>5, <1>6, <1>7 DEF JobTypeOK, Others
  <2>. QED  BY <2>1, <2>2, <2>3 DEF JobTypeOK
<1>9. ObsInv'
  BY <1>0, <1>1, <1>6, <1>7, ObsStays DEF Holding, Reads
<1>10. SeenInv'
  BY <1>0, <1>1, <1>7, SeenStays
<1>11. overlapped' \in BOOLEAN
  BY <1>1 DEF ListInv, ListTypeOK, Changing
<1>12. ~overlapped =>
         Cardinality(kept') <= MaxFrames + Cardinality((In("kept") \cup In("expired"))')
  <2>. SUFFICES ASSUME ~overlapped
                PROVE  Cardinality(kept')
                         <= MaxFrames + Cardinality((In("kept") \cup In("expired"))')
    OBVIOUS
  <2>. DEFINE C == In("kept") \cup In("expired")
  <2>1. IsFiniteSet(C) /\ Cardinality(C) \in Nat
    <3>1. C \subseteq Threads
      BY DEF In
    <3>. HIDE DEF C
    <3>. QED  BY <3>1, Limits, FS_Subset, FS_CardinalityType
  <2>2. C' = C \cup {t} /\ t \notin C
    BY <1>0, <1>7 DEF In, Others
  <2>3. Cardinality(C') = Cardinality(C) + 1
    BY <2>1, <2>2, FS_AddElement
  <2>4. IsFiniteSet(kept) /\ Cardinality(kept) \in Nat
    <3>1. IsFiniteSet(Made)
      BY <1>0, FS_Interval DEF Made
    <3>. QED  BY <1>0, <3>1, FS_Subset, FS_CardinalityType
  <2>5. Cardinality(kept') = Cardinality(kept) + 1
    BY <1>0, <1>1, <1>b, <1>3, <2>4, FS_AddElement
  <2>6. Cardinality(kept) <= MaxFrames + Cardinality(C)
    BY DEF ListInv, ListTypeOK
  <2>. HIDE DEF C
  <2>7. Cardinality(kept') <= MaxFrames + Cardinality(C')
    BY <2>1, <2>3, <2>4, <2>5, <2>6, Limits
  <2>. QED  BY <2>7 DEF C
<1>13. ASSUME ~overlapped'
       PROVE  /\ \A u \in Threads : pc'[u] \in Change => u = t
              /\ Fresh' \subseteq more /\ Fresh' \subseteq Newest(more)
              /\ \A u \in Threads : pc'[u] = "view" => more \cap job'[u].expired = {}
              /\ EvidenceIsCurrent'
  <2>1. ~overlapped /\ \A u \in Threads : pc[u] \notin Change /\ (pc'[u] \in Change => u = t)
    BY <1>0, <1>1, <1>7, <1>13, KeepsOff DEF Change
  <2>2. \A x \in Fresh' : x \in more /\ x + MaxFrames > o
    <3>1. ASSUME NEW x \in Fresh'
          PROVE  x \in more /\ x + MaxFrames > o
      <4>1. x \in 1..o /\ life'[x] > 0 /\ x + MaxFrames > o
        BY <1>2, <1>3 DEF Fresh, Alive
      <4>2. CASE x = o
        BY <4>1, <4>2, <1>b
      <4>3. CASE x # o
        <5>1. x \in Made /\ x \in Nat /\ life'[x] = life[x] /\ x + MaxFrames > Len(life)
          BY <1>0, <1>2, <1>a, <4>1, <4>3, Limits DEF Made
        <5>2. x \in Fresh
          BY <4>1, <5>1 DEF Fresh, Alive
        <5>. QED  BY <1>b, <2>1, <4>1, <5>2 DEF ListInv, NothingIsLost
      <4>. QED  BY <4>2, <4>3
    <3>. QED  BY <3>1
  <2>3. Fresh' \subseteq Newest(more)
    BY <1>4, <2>2, NewestIsEnough
  <2>4. \A u \in Threads : pc'[u] = "view" => more \cap job'[u].expired = {}
    <3>1. ASSUME NEW u \in Threads, pc'[u] = "view"
          PROVE  more \cap job'[u].expired = {}
      <4>1. u # t /\ pc[u] = "view" /\ job'[u] = job[u] /\ job[u].expired \subseteq Made
        BY <1>7, <3>1, JobType DEF Others
      <4>2. kept \cap job[u].expired = {}
        BY <2>1, <4>1 DEF ListInv, ExpiredStayOut
      <4>. QED  BY <1>3, <1>b, <4>1, <4>2
    <3>. QED  BY <3>1
  <2>5. EvidenceIsCurrent'
    BY <1>7, <2>1 DEF Others, ListInv, EvidenceIsCurrent
  <2>. QED  BY <2>1, <2>2, <2>3, <2>4, <2>5
<1>14. AloneChanging' /\ NothingIsLost' /\ ExpiredStayOut' /\ EvidenceIsCurrent'
  <2>1. AloneChanging' /\ EvidenceIsCurrent'
    BY <1>13 DEF AloneChanging, EvidenceIsCurrent
  <2>2. NothingIsLost'
    BY <1>1, <1>6, <1>7, <1>13 DEF NothingIsLost
  <2>3. ExpiredStayOut'
    <3>1. ASSUME NEW u \in Threads, ~overlapped', pc'[u] \in {"expired", "view"}
          PROVE  pc'[u] = "view"
      BY <1>7, <1>13, <3>1 DEF Change
    <3>. QED  BY <1>1, <1>4, <1>6, <1>7, <1>13, <3>1 DEF ExpiredStayOut
  <2>. QED  BY <2>1, <2>2, <2>3
<1>15. KeptInv'
  <2>1. kept' \subseteq Made'
    BY <1>1, <1>3, <1>4
  <2>2. \A u \in Threads :
          ~overlapped' /\ pc'[u] \in Change => Cardinality(job'[u].copy) <= MaxFrames
    BY <1>4, <1>6, <1>7, <1>13
  <2>. QED  BY <1>1, <1>2, <1>11, <1>12, <1>14, <2>1, <2>2 DEF KeptInv
<1>. QED  BY <1>8, <1>9, <1>10, <1>15, ListParts

\* Time takes observations away from what a reader should get, never adds one.
LEMMA TickInv ==
  ASSUME JobTypeOK, ObsInv, ListInv, Tick
  PROVE  JobTypeOK' /\ ObsInv' /\ ListInv'
<1>1. /\ life' = [o \in Made |-> IF life[o] > 0 THEN life[o] - 1 ELSE 0]
      /\ job' = [t \in Threads |-> IF pc[t] # "idle" /\ job[t].left > 0
                                   THEN [job[t] EXCEPT !.left = @ - 1] ELSE job[t]]
      /\ UNCHANGED <<obsVars, seen, kept, overlapped, pc>>
      /\ life \in Seq(0..TTL) /\ Len(life) \in Nat /\ TTL \in Nat
  BY Limits DEF Tick, ListInv, ListTypeOK
<1>2. \A o \in Made : life[o] \in 0..TTL
  BY <1>1 DEF Made
<1>3. /\ life' \in Seq(0..TTL) /\ Len(life') = Len(life) /\ Made' = Made
      /\ \A o \in Made : life'[o] = IF life[o] > 0 THEN life[o] - 1 ELSE 0
  <2>1. \A o \in Made : (IF life[o] > 0 THEN life[o] - 1 ELSE 0) \in 0..TTL
    BY <1>1, <1>2, SMT
  <2>2. life' \in [1..Len(life) -> 0..TTL]
    BY <1>1, <2>1 DEF Made
  <2>3. life' \in Seq(0..TTL)
    BY <1>1, <2>2
  <2>4. Len(life') = Len(life)
    BY <1>1, <2>2, <2>3
  <2>. QED  BY <1>1, <2>3, <2>4 DEF Made
<1>4. Fresh' \subseteq Fresh
  BY <1>2, <1>3 DEF Fresh, Alive
<1>5. ASSUME NEW t \in Threads, pc[t] # "idle"
      PROVE  /\ job'[t] \in Job /\ job'[t].reading = job[t].reading
             /\ job'[t].number = job[t].number /\ job'[t].serial = job[t].serial
             /\ job'[t].hashes = job[t].hashes /\ job'[t].copy = job[t].copy
             /\ job'[t].view = job[t].view /\ job'[t].expired = job[t].expired
             /\ job'[t].due = job[t].due
  <2>1. job[t] \in Job /\ job[t].left \in 0..TTL
    BY <1>5, JobType
  <2>2. PICK left \in 0..TTL : job'[t] = [job[t] EXCEPT !.left = left]
    <3>1. CASE job[t].left > 0
      <4>1. PICK left \in 0..TTL : left = job[t].left - 1
        BY <1>1, <2>1, <3>1
      <4>2. job'[t] = [job[t] EXCEPT !.left = job[t].left - 1]
        BY <1>1, <1>5, <3>1
      <4>. QED  BY <4>1, <4>2
    <3>2. CASE ~(job[t].left > 0)
      <4>1. job[t] = [job[t] EXCEPT !.left = job[t].left]
        BY <2>1 DEF Job
      <4>2. job'[t] = job[t]
        BY <1>1, <3>2
      <4>. QED  BY <2>1, <4>1, <4>2
    <3>. QED  BY <3>1, <3>2
  <2>. QED  BY <2>1, <2>2 DEF Job
<1>6. JobTypeOK'
  <2>1. Job' = Job
    BY <1>3 DEF Job
  <2>2. job' \in [Threads -> Job \cup {NoJob}]
    BY <1>1, <1>5 DEF JobTypeOK
  <2>. QED  BY <1>1, <1>5, <2>1, <2>2 DEF JobTypeOK
<1>7. ObsInv'
  <2>1. ObsTypeOK'
    BY <1>1 DEF ObsInv, ObsTypeOK, obsVars
  <2>2. Calm
    BY <1>1, <1>5 DEF Calm, obsVars, UnderWay, On
  <2>3. OneReader'
    BY <1>1, <1>5 DEF ObsInv, OneReader, Reads, Sound, obsVars
  <2>. QED  BY <2>1, <2>2, <2>3, CalmInv DEF ObsInv
<1>8. \A stage : In(stage)' = In(stage)
  BY <1>1 DEF In
<1>9. SeenInv'
  BY <1>1, <1>5, <1>8 DEF SeenInv, ListInv, ListTypeOK, SlicesAreCut
<1>10. AloneChanging' /\ NothingIsLost' /\ ExpiredStayOut' /\ EvidenceIsCurrent'
  <2>1. AloneChanging'
    BY <1>1 DEF ListInv, AloneChanging
  <2>2. NothingIsLost'
    BY <1>1, <1>4, <1>5 DEF ListInv, NothingIsLost, Change
  <2>3. ExpiredStayOut'
    BY <1>1, <1>5 DEF ListInv, ExpiredStayOut, Change
  <2>4. EvidenceIsCurrent'
    BY <1>1, <1>5 DEF ListInv, EvidenceIsCurrent
  <2>. QED  BY <2>1, <2>2, <2>3, <2>4
<1>11. KeptInv'
  <2>1. \A t \in Threads :
          ~overlapped' /\ pc'[t] \in Change => Cardinality(job'[t].copy) <= MaxFrames
    BY <1>1, <1>5 DEF ListInv, SlicesAreCut, Change
  <2>. QED  BY <1>1, <1>3, <1>8, <1>10, <2>1 DEF KeptInv, ListInv, ListTypeOK
<1>. QED  BY <1>6, <1>7, <1>9, <1>11, ListParts

-----------------------------------------------------------------------------
(* The specification.                                                      *)

\* No step passes the bounds on arrivals and faults.
LEMMA BoundsInv ==
  ASSUME BoundsOK, Next
  PROVE  BoundsOK'
<1>. USE Limits DEF BoundsOK
<1>1. CASE \E t \in Threads : \E want \in Wants : Begin(t, want)
  BY <1>1 DEF Begin
<1>2. CASE \E t \in Threads : TimeOut(t)
  BY <1>2 DEF TimeOut, Fault
<1>3. CASE Break
  BY <1>3 DEF Break, Fault
<1>4. CASE \E t \in Threads : CheckSocket(t) \/ Dial(t) \/ DialFails(t) \/ Number(t)
                               \/ Count(t) \/ Format(t) \/ Send(t) \/ SendRaises(t)
  BY <1>4 DEF CheckSocket, Dial, DialFails, Number, Count, Format, Send, SendRaises
<1>5. CASE \E t \in Threads : ReadHeader(t) \/ ReceiveRaises(t) \/ TakeHello(t)
                               \/ TakeIdentified(t) \/ DropMessage(t) \/ TakeAnswer(t)
  BY <1>5 DEF ReadHeader, ReceiveRaises, TakeHello, TakeIdentified, DropMessage, TakeAnswer
<1>6. CASE \E t \in Threads : Ingest(t) \/ Current(t)
  BY <1>6 DEF Ingest, Look, Remember, StoreSeen, Observe, VisionFails, Keep, StoreKept,
     Current, Expire, StoreAlive, View, Use
<1>7. CASE Reply \/ Tick
  BY <1>7 DEF Reply, Tick
<1>. QED  BY <1>1, <1>2, <1>3, <1>4, <1>5, <1>6, <1>7, Zenon DEF Next, Receive

\* The invariant holds in the beginning ...
LEMMA InitIInv == Init => IInv
<1>. SUFFICES ASSUME Init PROVE IInv
  OBVIOUS
<1>1. /\ number = 0 /\ socket = NoSocket /\ seen = <<>> /\ kept = {} /\ life = <<>>
      /\ pc = [t \in Threads |-> "idle"] /\ job = [t \in Threads |-> NoJob]
      /\ arrivals = 0 /\ faults = 0
      /\ asked = 0 /\ clashed = FALSE /\ foreign = FALSE /\ overlapped = FALSE
  BY DEF Init
<1>2. JobTypeOK
  BY <1>1 DEF JobTypeOK, Stages
<1>3. ObsInv
  <2>1. <<>> \in Seq(Request) /\ <<>> \in Seq(Message)
    OBVIOUS
  <2>2. NoSocket \in Socket /\ NoSocket.sent = <<>> /\ NoSocket.inbox = <<>>
    BY <2>1 DEF NoSocket, Socket
  <2>3. UnderWay = {}
    BY <1>1, <2>2, RangeEmpty DEF UnderWay, On
  <2>. QED  BY <1>1, <2>2, <2>3 DEF ObsInv, ObsTypeOK, OneReader, Reads, NumbersAreOwn,
            AnswerIsOwn, Holding
<1>4. ListInv
  <2>1. In("seen") = {} /\ In("kept") \cup In("expired") = {}
    BY <1>1 DEF In
  <2>2. <<>> \in Seq(Frames) /\ <<>> \in Seq(0..TTL) /\ Len(<<>>) = 0
    OBVIOUS
  <2>3. Fresh = {}
    BY <1>1, <2>2, SMT DEF Fresh, Made
  <2>4. /\ Len(seen) <= MaxFrames + Cardinality(In("seen"))
        /\ Cardinality(kept) <= MaxFrames + Cardinality(In("kept") \cup In("expired"))
    <3>1. Cardinality(In("seen")) = 0 /\ Cardinality(In("kept") \cup In("expired")) = 0
      BY <2>1, FS_EmptySet
    <3>2. Len(seen) = 0 /\ Cardinality(kept) = 0
      BY <1>1, <2>2, FS_EmptySet
    <3>. QED  BY <3>1, <3>2, Limits
  <2>5. ListTypeOK
    BY <1>1, <2>2, <2>4 DEF ListTypeOK
  <2>. QED  BY <1>1, <2>3, <2>5 DEF ListInv, AloneChanging, SlicesAreCut, NothingIsLost,
            ExpiredStayOut, EvidenceIsCurrent, Change
<1>5. BoundsOK
  BY <1>1, Limits DEF BoundsOK
<1>. QED  BY <1>2, <1>3, <1>4, <1>5 DEF IInv

\* ... and every step keeps it.
LEMMA NextIInv == IInv /\ [Next]_vars => IInv'
<1>. SUFFICES ASSUME IInv, [Next]_vars PROVE IInv'
  OBVIOUS
<1>. USE DEF IInv
<1>1. CASE Next
  <2>1. JobTypeOK' /\ ObsInv' /\ ListInv'
    <3>1. ASSUME NEW t \in Threads, NEW want \in Wants, Begin(t, want)
          PROVE  JobTypeOK' /\ ObsInv' /\ ListInv'
      BY <3>1, BeginInv
    <3>2. ASSUME NEW t \in Threads, DialFails(t) \/ ReceiveRaises(t) \/ VisionFails(t)
          PROVE  JobTypeOK' /\ ObsInv' /\ ListInv'
      BY <3>2, LeaveInv DEF DialFails, ReceiveRaises, Receiving, VisionFails, AtLists
    <3>3. ASSUME NEW t \in Threads,
                 \/ CheckSocket(t) \/ Dial(t) \/ Number(t) \/ Count(t) \/ Format(t)
                 \/ Send(t) \/ SendRaises(t)
          PROVE  JobTypeOK' /\ ObsInv' /\ ListInv'
      BY <3>3, NumberInv, DialInv, CountInv, FormatInv, SendInv, SendRaisesInv
    <3>4. ASSUME NEW t \in Threads, Receive(t)
          PROVE  JobTypeOK' /\ ObsInv' /\ ListInv'
      BY <3>2, <3>4, ReadHeaderInv, TimeOutInv, TakeHelloInv, TakeIdentifiedInv,
         DropMessageInv, TakeAnswerInv DEF Receive
    <3>5. ASSUME NEW t \in Threads, Ingest(t)
          PROVE  JobTypeOK' /\ ObsInv' /\ ListInv'
      BY <3>2, <3>5, NumberInv, RememberInv, StoreSeenInv, KeepInv, StoreKeptInv DEF Ingest
    <3>6. ASSUME NEW t \in Threads, Current(t)
          PROVE  JobTypeOK' /\ ObsInv' /\ ListInv'
      BY <3>6, ExpireInv, StoreAliveInv, ViewInv, UseInv DEF Current
    <3>7. CASE Reply \/ Break \/ Tick
      BY <3>7, ReplyInv, BreakInv, TickInv
    <3>. QED  BY <1>1, <3>1, <3>2, <3>3, <3>4, <3>5, <3>6, <3>7 DEF Next
  <2>. QED  BY <1>1, <2>1, BoundsInv
<1>2. CASE UNCHANGED vars
  <2>1. /\ UNCHANGED <<number, socket, asked, clashed, foreign, seen, kept, life, overlapped>>
        /\ UNCHANGED <<pc, job, arrivals, faults>>
    BY <1>2 DEF vars, obsVars, listVars
  <2>2. JobTypeOK' /\ BoundsOK'
    BY <2>1 DEF JobTypeOK, Job, Made, BoundsOK
  <2>3. ObsInv'
    BY <2>1 DEF ObsInv, ObsTypeOK, OneReader, Sound, Reads, NumbersAreOwn, UnderWay, On,
       Fits, Own, AnswerIsOwn
  <2>4. ListInv'
    <3>1. Made' = Made /\ Fresh' = Fresh /\ \A stage : In(stage)' = In(stage)
      BY <2>1 DEF Made, Fresh, Alive, In
    <3>2. ListTypeOK'
      BY <2>1, <3>1 DEF ListInv, ListTypeOK
    <3>. QED  BY <2>1, <3>1, <3>2 DEF ListInv, AloneChanging, SlicesAreCut, NothingIsLost,
              ExpiredStayOut, EvidenceIsCurrent
  <2>. QED  BY <2>2, <2>3, <2>4
<1>. QED  BY <1>1, <1>2

\* The inductive invariant holds in every state.
THEOREM Invariance == Spec => []IInv
BY InitIInv, NextIInv, PTL DEF Spec

\* Every variable keeps its type, the locals of a thread are there while it handles a
\* request, and neither list outgrows max_frames by more than the threads about to cut it
\* (pipeline.py:187-188, 206-207, 212-213).
THEOREM TypeCorrect == Spec => []TypeOK
<1>1. IInv => TypeOK
  BY DEF IInv, TypeOK, JobTypeOK, ObsInv, ObsTypeOK, ListInv, ListTypeOK, BoundsOK
<1>. QED  BY <1>1, Invariance, PTL

\* _request() returns the answer to the request it sent (capture.py:182-196), as long as
\* no two threads have met in numbering theirs (one writes over the other's number, or
\* reads it for its own id), whatever is late, dropped or reconnected.
THEOREM AnswersAreOwn == Spec => []AnswerIsOwn
<1>1. IInv => AnswerIsOwn
  BY DEF IInv, ObsInv
<1>. QED  BY <1>1, Invariance, PTL

\* current_observations() gives no expired observation and misses none of the newest
\* max_frames that are alive (pipeline.py:206-213, grounding.py:24-29), as long as no two
\* threads change the list at once.
THEOREM EvidenceStaysCurrent == Spec => []EvidenceIsCurrent
<1>1. IInv => EvidenceIsCurrent
  BY DEF IInv, ListInv
<1>. QED  BY <1>1, Invariance, PTL

=============================================================================

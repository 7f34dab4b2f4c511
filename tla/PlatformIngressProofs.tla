------------------------ MODULE PlatformIngressProofs ------------------------
(***************************************************************************)
(* Proofs about PlatformIngress, for any chats, notices, posts and         *)
(* handlers, and any limits of the hub and of the guard.                   *)
(***************************************************************************)
EXTENDS PlatformIngress, FiniteSetTheorems, SequenceTheorems, TLAPS

-----------------------------------------------------------------------------
(* The inductive invariant.                                                *)

\* There is an item where the page is read.
PageOpen == page # NoPage => page.next <= page.last

\* No message comes from the future, and the guard's lists are finite.
Timely ==
  /\ \A i \in DOMAIN log : log[i].at <= clock
  /\ \A t \in Threads : pc[t] # "idle" => job[t].at <= clock /\ IsFiniteSet(job[t].times)
  /\ \A p \in Platforms : IsFiniteSet(times[p])

\* One thread at a time in ingest().
AloneInside ==
  ~overlapped => \A t, u \in Threads : pc[t] # "idle" /\ pc[u] # "idle" => t = u

\* The ids of the accepted messages.
Past == [i \in 1..Len(log) |-> log[i].id]
PastWith(t) == Append(Past, job[t].id)

\* List s shows the last n entries of l.
Shows(s, n, l) ==
  /\ Len(s) = IF Len(l) < n THEN Len(l) ELSE n
  /\ \A i \in 1..Len(s) : s[i] = l[Len(l) - Len(s) + i]

\* The id list shows the accepted ids, and from the append on the new one.
SeenIsPast ==
  ~overlapped =>
    /\ (\A t \in Threads : pc[t] \notin {"seen", "events"}) => Shows(seen, MaxSeen, Past)
    /\ \A t \in Threads :
         /\ pc[t] = "seen" => Shows(job[t].seen, MaxSeen, PastWith(t))
         /\ pc[t] = "events" => Shows(seen, MaxSeen, PastWith(t))

\* So does the history.
EventsArePast ==
  ~overlapped =>
    /\ (\A t \in Threads : pc[t] # "events") => Shows(events, MaxEvents, Past)
    /\ \A t \in Threads : pc[t] = "events" => Shows(job[t].events, MaxEvents, PastWith(t))

\* The message of a thread in ingest() is none of the last MaxSeen.
NewId ==
  ~overlapped =>
    \A t \in Threads : pc[t] # "idle" =>
      \A i \in DOMAIN log : log[i].id = job[t].id => Len(log) + 1 - i > MaxSeen

\* List ts has the time of every message accepted on p that counts at the time now.
Covers(ts, p, now) ==
  \A i \in DOMAIN log :
    log[i].platform = p /\ now - log[i].at < RateWindow
      => [nth |-> i, at |-> log[i].at] \in ts

\* The guard's lists miss no accepted message, nor does the one a thread works with;
\* a message that the guard let pass was below the limit.
Counted == {"purge", "seen", "events"}
Guarded ==
  ~overlapped =>
    /\ \A p \in Platforms : Covers(times[p], p, clock)
    /\ (\A t \in Threads : pc[t] \notin Counted) => counted = Len(log)
    /\ \A t \in Threads : pc[t] # "idle" =>
         /\ \A i \in DOMAIN log : log[i].at <= job[t].at
         /\ Covers(job[t].times, job[t].platform, job[t].at)
         /\ (pc[t] = "judge" /\ job[t].allowed) \/ pc[t] \in Counted =>
              Cardinality(job[t].times) < MaxRate
         /\ pc[t] \in Counted =>
              /\ counted = Len(log) + 1
              /\ [nth |-> counted, at |-> job[t].at] \in times[job[t].platform]

\* What the types say of the hub and of the threads in it, and of the rest.
HubTypeOK ==
  /\ seen \in Seq(Ids) /\ events \in Seq(Ids)
  /\ times \in [Platforms -> SUBSET Time]
  /\ recent \subseteq Text
  /\ counted \in Nat
  /\ clock \in Clock
  /\ pc \in [Threads -> {"idle", "judge", "purge", "seen", "events"}]
  /\ job \in [Threads -> Job \cup {NoJob}]
  /\ \A t \in Threads : pc[t] # "idle" => job[t] \in Job
  /\ log \in Seq(Accept) /\ overlapped \in BOOLEAN

RestTypeOK ==
  /\ chat \in Chats /\ posted \in 0..Len(chat) /\ found \in BOOLEAN
  /\ token \in 0..posted
  /\ page \in [next : 1..posted + 1, last : 0..posted]
  /\ brought \subseteq Nat /\ skipped \subseteq Nat
  /\ link \in {"down", "open", "subscribed"} /\ reconnecting \in BOOLEAN
  /\ dead \subseteq Platforms
  /\ arrivals \in 0..MaxArrivals /\ faults \in 0..MaxFaults

HubInv ==
  /\ HubTypeOK
  /\ Timely
  /\ AloneInside
  /\ SeenIsPast
  /\ EventsArePast
  /\ NewId
  /\ AcceptedOnce
  /\ Guarded
  /\ RateIsKept

RestInv == RestTypeOK /\ PageOpen

IInv == HubInv /\ RestInv

-----------------------------------------------------------------------------
(* Slices.                                                                 *)

\* A slice s[-n:] is a list of the same things, and shows the last n of s.
LEMMA LastType ==
  ASSUME NEW S, NEW s \in Seq(S), NEW n \in Nat \ {0}
  PROVE  Last(s, n) \in Seq(S) /\ Shows(Last(s, n), n, s)
<1>1. CASE Len(s) <= n
  BY <1>1, SMT DEF Last, Shows
<1>2. CASE ~(Len(s) <= n)
  <2>. DEFINE m == Len(s) - n + 1
  <2>1. Last(s, n) = SubSeq(s, m, Len(s)) /\ m \in 1..Len(s)
    BY <1>2, SMT DEF Last
  <2>2. /\ SubSeq(s, m, Len(s)) \in Seq(S)
        /\ Len(SubSeq(s, m, Len(s))) = n
        /\ \A i \in 1..n : SubSeq(s, m, Len(s))[i] = s[m + i - 1]
    BY <2>1, <1>2, SubSeqProperties, SMT
  <2>3. \A i \in 1..n : m + i - 1 = Len(s) - n + i
    BY SMT
  <2>. HIDE DEF m
  <2>. QED  BY <2>1, <2>2, <2>3, <1>2, SMT DEF Shows
<1>. QED  BY <1>1, <1>2

\* A list that shows the last n entries shows them after an append and a slice.
LEMMA ShowsNext ==
  ASSUME NEW S, NEW s \in Seq(S), NEW l \in Seq(S), NEW x \in S,
         NEW n \in Nat \ {0}, Shows(s, n, l)
  PROVE  Shows(Last(Append(s, x), n), n, Append(l, x))
<1>. DEFINE a == Append(s, x)
            b == Append(l, x)
            r == Last(a, n)
<1>1. /\ a \in Seq(S) /\ Len(a) = Len(s) + 1
      /\ \A i \in 1..Len(s) : a[i] = s[i]
      /\ a[Len(s) + 1] = x
  BY SMT
<1>2. /\ b \in Seq(S) /\ Len(b) = Len(l) + 1
      /\ \A i \in 1..Len(l) : b[i] = l[i]
      /\ b[Len(l) + 1] = x
  BY SMT
<1>. HIDE DEF a, b
<1>3. /\ r \in Seq(S)
      /\ Len(r) = IF Len(a) < n THEN Len(a) ELSE n
      /\ \A i \in 1..Len(r) : r[i] = a[Len(a) - Len(r) + i]
  <2>1. r \in Seq(S) /\ Shows(r, n, a)
    BY <1>1, LastType
  <2>. QED  BY <2>1 DEF Shows
<1>. HIDE DEF r
<1>4. /\ Len(s) \in Nat /\ Len(l) \in Nat /\ Len(r) \in Nat
      /\ Len(a) \in Nat /\ Len(b) \in Nat
  BY <1>1, <1>2, <1>3
<1>5. /\ Len(s) = IF Len(l) < n THEN Len(l) ELSE n
      /\ \A i \in 1..Len(s) : s[i] = l[Len(l) - Len(s) + i]
  BY DEF Shows
<1>6. Len(r) = IF Len(b) < n THEN Len(b) ELSE n
  BY <1>1, <1>2, <1>3, <1>4, <1>5, SMT
<1>7. ASSUME NEW i \in 1..Len(r)
      PROVE  r[i] = b[Len(b) - Len(r) + i]
  <2>. DEFINE k == Len(a) - Len(r) + i
  <2>1. k \in 1..Len(a)
    <3>1. Len(r) <= Len(a)
      BY <1>3, <1>4, SMT
    <3>. QED  BY <3>1, <1>4, SMT
  <2>. HIDE DEF k
  <2>2. r[i] = a[k]
    BY <1>3 DEF k
  <2>3. CASE k = Len(a)
    BY <1>1, <1>2, <1>4, <2>2, <2>3, SMT DEF k
  <2>4. CASE k # Len(a)
    <3>1. k \in 1..Len(s)
      BY <1>1, <1>4, <2>1, <2>4, SMT
    <3>2. r[i] = l[Len(l) - Len(s) + k]
      BY <3>1, <1>1, <1>5, <2>2
    <3>3. Len(l) - Len(s) + k \in 1..Len(l)
      BY <3>1, <1>4, <1>5, SMT
    <3>4. Len(l) - Len(s) + k = Len(b) - Len(r) + i
      BY <1>1, <1>2, <1>4, SMT DEF k
    <3>. QED  BY <3>2, <3>3, <3>4, <1>2
  <2>. QED  BY <2>3, <2>4
<1>8. Shows(r, n, b)
  BY <1>6, <1>7 DEF Shows
<1>. QED  BY <1>8 DEF r, a, b

\* The ids of the accepted messages are a list of ids.
LEMMA PastType ==
  ASSUME HubTypeOK
  PROVE  /\ Past \in Seq(Ids) /\ Len(Past) = Len(log)
         /\ \A i \in 1..Len(log) : Past[i] = log[i].id
<1>1. log \in Seq(Accept) /\ Len(log) \in Nat
  BY DEF HubTypeOK
<1>2. \A i \in 1..Len(log) : log[i] \in Accept
  BY <1>1
<1>3. \A i \in 1..Len(log) : log[i].id \in Ids
  BY <1>2 DEF Accept
<1>. QED  BY <1>1, <1>3 DEF Past

-----------------------------------------------------------------------------
(* The limits, the clock and the time.                                     *)

\* The bounds are numbers, and the limits of the lists are positive.
LEMMA Limits ==
  /\ MaxSeen \in Nat \ {0} /\ MaxEvents \in Nat \ {0} /\ MaxRate \in Nat \ {0}
  /\ RateWindow \in Nat \ {0} /\ DuplicateWindow \in Nat \ {0}
  /\ MaxTime \in Nat /\ MaxArrivals \in Nat /\ MaxFaults \in Nat
BY IngressConstants

\* What the log says of a message.
LEMMA LogType ==
  ASSUME HubTypeOK, NEW i \in DOMAIN log
  PROVE  /\ i \in 1..Len(log) /\ Len(log) \in Nat /\ i \in Nat \ {0}
         /\ log[i] \in Accept /\ log[i].id \in Ids /\ log[i].platform \in Platforms
         /\ log[i].at \in Clock /\ log[i].at \in Nat
<1>1. log \in Seq(Accept) /\ Len(log) \in Nat
  BY DEF HubTypeOK
<1>2. i \in 1..Len(log) /\ log[i] \in Accept
  BY <1>1
<1>3. log[i].id \in Ids /\ log[i].platform \in Platforms /\ log[i].at \in Clock
  BY <1>2 DEF Accept
<1>. QED  BY <1>1, <1>2, <1>3, Limits, SMT DEF Clock

\* What a thread in ingest() has.
LEMMA JobType ==
  ASSUME HubTypeOK, NEW t \in Threads, pc[t] # "idle"
  PROVE  /\ job[t].id \in Ids /\ job[t].text \in Texts
         /\ job[t].platform \in Platforms /\ job[t].at \in Clock /\ job[t].at \in Nat
         /\ job[t].allowed \in BOOLEAN /\ job[t].times \subseteq Time
         /\ job[t].recent \subseteq Text /\ job[t].seen \in Seq(Ids)
         /\ job[t].events \in Seq(Ids)
<1>1. job[t] \in Job
  BY DEF HubTypeOK
<1>2. job[t].at \in Clock
  BY <1>1 DEF Job
<1>3. job[t].at \in Nat
  BY <1>2, Limits, SMT DEF Clock
<1>. QED  BY <1>1, <1>2, <1>3 DEF Job

\* As time passes fewer messages count.
LEMMA CoversLater ==
  ASSUME HubTypeOK, NEW ts, NEW p, NEW now \in Nat, NEW later \in Nat,
         now <= later, Covers(ts, p, now)
  PROVE  Covers(ts, p, later)
<1>. SUFFICES ASSUME NEW i \in DOMAIN log, log[i].platform = p,
                     later - log[i].at < RateWindow
              PROVE  [nth |-> i, at |-> log[i].at] \in ts
  BY DEF Covers
<1>1. now - log[i].at < RateWindow
  BY LogType, Limits, SMT
<1>. QED  BY <1>1 DEF Covers

-----------------------------------------------------------------------------
(* Steps that leave the hub alone.                                         *)

\* Time may pass, and two threads be noticed together.
HubStays ==
  /\ UNCHANGED <<hubVars, pc, job>>
  /\ clock' \in Clock /\ clock <= clock'
  /\ overlapped' \in BOOLEAN /\ (overlapped => overlapped')

\* What is said of the hub stays as it was when the hub is left alone.
LEMMA HubStaysInv ==
  ASSUME HubInv, HubStays
  PROVE  HubInv'
<1>. USE DEF HubStays, hubVars
<1>1. HubTypeOK /\ clock \in Nat /\ clock' \in Nat
  <2>1. HubTypeOK /\ clock \in Clock /\ clock' \in Clock
    BY DEF HubInv, HubTypeOK
  <2>. QED  BY <2>1, Limits, SMT DEF Clock
<1>2. HubTypeOK'
  BY <1>1 DEF HubTypeOK
<1>3. Timely'
  <2>1. \A i \in DOMAIN log : log[i].at <= clock'
    BY <1>1, LogType, SMT DEF HubInv, Timely
  <2>2. \A t \in Threads : pc[t] # "idle" => job[t].at <= clock'
    BY <1>1, JobType, SMT DEF HubInv, Timely
  <2>. QED  BY <2>1, <2>2 DEF HubInv, Timely
<1>4. AloneInside' /\ NewId' /\ AcceptedOnce'
  BY DEF HubInv, AloneInside, NewId, AcceptedOnce
<1>5. SeenIsPast' /\ EventsArePast'
  <2>1. Past' = Past
    BY DEF Past
  <2>2. SeenIsPast'
    BY <2>1 DEF HubInv, SeenIsPast, PastWith
  <2>3. EventsArePast'
    BY <2>1 DEF HubInv, EventsArePast, PastWith
  <2>. QED  BY <2>2, <2>3
<1>6. Guarded'
  <2>. SUFFICES ASSUME ~overlapped'  PROVE Guarded'
    BY DEF Guarded
  <2>1. \A p \in Platforms : Covers(times[p], p, clock')
    BY <1>1, CoversLater DEF HubInv, Guarded
  <2>. QED  BY <2>1 DEF HubInv, Guarded, Covers
<1>7. RateIsKept'
  BY DEF HubInv, RateIsKept
<1>. QED  BY <1>2, <1>3, <1>4, <1>5, <1>6, <1>7 DEF HubInv

-----------------------------------------------------------------------------
(* A message reaches the hub.                                              *)

\* A message enters ingest().
LEMMA EnterInv ==
  ASSUME HubInv, NEW t \in Threads, NEW m \in Items, NEW p \in Platforms,
         Enter(t, m, p), UNCHANGED <<hubVars, clock>>
  PROVE  HubInv'
<1>1. HubTypeOK
  BY DEF HubInv
<1>2. clock \in Clock /\ clock \in Nat
  BY <1>1, Limits, SMT DEF HubTypeOK, Clock
<1>3. overlapped' \in BOOLEAN /\ (overlapped => overlapped')
  BY <1>1 DEF Enter, HubTypeOK
<1>4. CASE m.id \in Range(seen)
  <2>1. HubStays
    BY <1>2, <1>3, <1>4, SMT DEF Enter, HubStays
  <2>. QED  BY <2>1, HubStaysInv
<1>5. CASE m.id \notin Range(seen)
  <2>. DEFINE current == {a \in times[p] : clock - a.at < RateWindow}
  <2>0. PICK j \in Job : /\ job' = [job EXCEPT ![t] = j]
                         /\ j.id = m.id /\ j.platform = p /\ j.at = clock
                         /\ j.times = current
                         /\ j.allowed => ~Full(current)
    <3>1. current \subseteq Time
      BY <1>1 DEF HubTypeOK
    <3>2. m.id \in Ids /\ m.text \in Texts
      BY DEF Ids, Texts
    <3>3. [id |-> m.id, text |-> m.text, platform |-> p, at |-> clock,
           allowed |-> ~Repeated(p, m.text) /\ ~Full(current),
           times |-> current, recent |-> {}, seen |-> <<>>, events |-> <<>>] \in Job
      <4>1. <<>> \in Seq(Ids) /\ {} \subseteq Text
        OBVIOUS
      <4>2. (~Repeated(p, m.text) /\ ~Full(current)) \in BOOLEAN
        OBVIOUS
      <4>. HIDE DEF current
      <4>. QED  BY <3>1, <3>2, <4>1, <4>2, <1>2 DEF Job
    <3>. QED  BY <3>3, <1>5 DEF Enter
  <2>. HIDE DEF current
  <2>1. /\ pc[t] = "idle"
        /\ pc' = [pc EXCEPT ![t] = "judge"]
        /\ UNCHANGED <<seen, events, times, recent, counted, log, clock>>
        /\ overlapped' = (overlapped \/ \E u \in Threads : pc[u] # "idle")
    BY <1>5 DEF Enter, GoTo, hubVars
  <2>2. /\ pc'[t] = "judge" /\ job'[t] = j
        /\ \A u \in Threads \ {t} : pc'[u] = pc[u] /\ job'[u] = job[u]
    BY <1>1, <2>0, <2>1 DEF HubTypeOK
  <2>3. HubTypeOK'
    BY <1>1, <1>3, <2>0, <2>1, <2>2 DEF HubTypeOK
  <2>4. IsFiniteSet(current) /\ Cardinality(current) \in Nat
    <3>1. IsFiniteSet(times[p]) /\ current \subseteq times[p]
      BY DEF HubInv, Timely, current
    <3>. QED  BY <3>1, FS_Subset, FS_CardinalityType
  <2>5. Timely'
    BY <1>2, <2>0, <2>1, <2>2, <2>4, SMT DEF HubInv, Timely
  <2>6. SUFFICES ASSUME ~overlapped'
                 PROVE  HubInv'
    BY <1>1, <2>3, <2>5, <1>3 DEF HubInv, AloneInside, SeenIsPast, EventsArePast, NewId,
       AcceptedOnce, Guarded, RateIsKept, HubTypeOK
  <2>7. ~overlapped /\ \A u \in Threads : pc[u] = "idle"
    BY <2>1, <2>6
  <2>8. /\ AloneInside' /\ AcceptedOnce' /\ RateIsKept'
    BY <2>1, <2>2, <2>7 DEF HubInv, AloneInside, AcceptedOnce, RateIsKept
  <2>9. Past' = Past /\ Shows(seen, MaxSeen, Past) /\ Shows(events, MaxEvents, Past)
    BY <2>1, <2>7 DEF HubInv, SeenIsPast, EventsArePast, Past
  <2>10. SeenIsPast' /\ EventsArePast'
    BY <2>1, <2>2, <2>7, <2>9 DEF SeenIsPast, EventsArePast
  <2>11. NewId'
    <3>. SUFFICES ASSUME NEW i \in DOMAIN log, log[i].id = m.id,
                         ~(Len(log) + 1 - i > MaxSeen)
                  PROVE  FALSE
      BY <2>0, <2>1, <2>2, <2>7, LogType, <1>1 DEF NewId
    <3>. DEFINE k == Len(seen) - Len(log) + i
    <3>1. /\ i \in 1..Len(log) /\ Len(log) \in Nat /\ Len(seen) \in Nat
          /\ Len(Past) = Len(log) /\ Past[i] = m.id
      BY <1>1, LogType, PastType DEF HubTypeOK
    <3>2. k \in 1..Len(seen) /\ Len(Past) - Len(seen) + k = i
      <4>1. Len(seen) = IF Len(log) < MaxSeen THEN Len(log) ELSE MaxSeen
        BY <2>9, <3>1 DEF Shows
      <4>. QED  BY <3>1, <4>1, Limits, SMT
    <3>3. seen[k] = m.id
      <4>. HIDE DEF k
      <4>. QED  BY <2>9, <3>1, <3>2 DEF Shows
    <3>4. k \in DOMAIN seen
      <4>. HIDE DEF k
      <4>. QED  BY <3>2, <1>1 DEF HubTypeOK
    <3>. HIDE DEF k
    <3>. QED  BY <3>3, <3>4, <1>5 DEF Range
  <2>12. Guarded'
    <3>1. \A i \in DOMAIN log : log[i].at <= clock
      BY DEF HubInv, Timely
    <3>2. Covers(times[p], p, clock)
      BY <2>7 DEF HubInv, Guarded
    <3>3. Covers(current, p, clock)
      BY <3>2 DEF Covers, current
    <3>4. j.allowed => Cardinality(current) < MaxRate
      BY <2>0, <2>4, Limits, SMT DEF Full
    <3>5. counted = Len(log) /\ \A q \in Platforms : Covers(times[q], q, clock)
      BY <2>7 DEF HubInv, Guarded, Counted
    <3>6. \A q \in Platforms : Covers(times[q], q, clock)'
      BY <2>1, <3>5 DEF Covers
    <3>7. Covers(j.times, p, clock)'
      BY <2>0, <2>1, <3>3 DEF Covers
    <3>8. ASSUME NEW u \in Threads  PROVE pc'[u] \notin Counted /\ (pc'[u] # "idle" => u = t)
      BY <2>2, <2>7 DEF Counted
    <3>. QED  BY <2>0, <2>1, <2>2, <3>1, <3>4, <3>5, <3>6, <3>7, <3>8 DEF Guarded
  <2>. QED  BY <2>3, <2>5, <2>8, <2>10, <2>11, <2>12 DEF HubInv
<1>. QED  BY <1>4, <1>5

-----------------------------------------------------------------------------
(* The steps inside the hub.                                               *)

\* A thread in the hub alone: what the invariant says of its message.
LEMMA Inside ==
  ASSUME HubInv, NEW t \in Threads, pc[t] # "idle", ~overlapped
  PROVE  /\ \A u \in Threads \ {t} : pc[u] = "idle"
         /\ pc[t] = "judge" => counted = Len(log)
         /\ pc[t] \in {"judge", "purge"} => Shows(seen, MaxSeen, Past)
         /\ pc[t] # "events" => Shows(events, MaxEvents, Past)
BY DEF HubInv, AloneInside, Guarded, SeenIsPast, EventsArePast, Counted

\* It is refused.
LEMMA RefuseInv ==
  ASSUME HubInv, NEW t \in Threads, Refuse(t)
  PROVE  HubInv'
<1>. DEFINE j == job[t]
            q == j.platform
<1>1. HubTypeOK /\ pc[t] = "judge"
  BY DEF HubInv, Refuse
<1>2. /\ UNCHANGED <<seen, events, recent, counted, log, clock, overlapped>>
      /\ times' = [times EXCEPT ![q] = j.times]
      /\ pc' = [pc EXCEPT ![t] = "idle"] /\ job' = [job EXCEPT ![t] = NoJob]
  BY DEF Refuse, Leave, GoTo
<1>3. /\ q \in Platforms /\ j.times \subseteq Time /\ j.at \in Nat
      /\ clock \in Nat
  <2>1. clock \in Clock
    BY <1>1 DEF HubTypeOK
  <2>. QED  BY <1>1, <2>1, JobType, Limits, SMT DEF Clock
<1>4. /\ pc'[t] = "idle"
      /\ \A u \in Threads \ {t} : pc'[u] = pc[u] /\ job'[u] = job[u]
      /\ times'[q] = j.times /\ \A p \in Platforms \ {q} : times'[p] = times[p]
  BY <1>1, <1>2, <1>3 DEF HubTypeOK
<1>5. HubTypeOK'
  BY <1>1, <1>2, <1>3, <1>4 DEF HubTypeOK
<1>6. Timely'
  BY <1>1, <1>2, <1>4 DEF HubInv, Timely
<1>7. SUFFICES ASSUME ~overlapped'
               PROVE  HubInv'
  BY <1>1, <1>5, <1>6 DEF HubInv, AloneInside, SeenIsPast, EventsArePast, NewId,
     AcceptedOnce, Guarded, RateIsKept, HubTypeOK
<1>8. ~overlapped /\ \A u \in Threads : pc'[u] = "idle"
  BY <1>1, <1>2, <1>4, <1>7, Inside
<1>9. AloneInside' /\ NewId' /\ AcceptedOnce' /\ RateIsKept'
  BY <1>2, <1>8 DEF HubInv, AloneInside, NewId, AcceptedOnce, RateIsKept
<1>10. SeenIsPast' /\ EventsArePast'
  <2>1. Past' = Past
    BY <1>2 DEF Past
  <2>. QED  BY <1>1, <1>2, <1>8, <2>1, Inside DEF SeenIsPast, EventsArePast
<1>11. Guarded'
  <2>1. Covers(j.times, q, j.at) /\ j.at <= clock
    BY <1>1, <1>8 DEF HubInv, Guarded, Timely
  <2>2. Covers(j.times, q, clock)
    BY <1>1, <1>3, <2>1, CoversLater
  <2>3. \A p \in Platforms : Covers(times'[p], p, clock)
    BY <1>4, <1>8, <2>2 DEF HubInv, Guarded
  <2>4. counted = Len(log)
    BY <1>1, <1>8, Inside
  <2>5. \A p \in Platforms : Covers(times[p], p, clock)'
    BY <1>2, <2>3 DEF Covers
  <2>. QED  BY <1>2, <1>8, <2>4, <2>5 DEF Guarded
<1>. QED  BY <1>5, <1>6, <1>9, <1>10, <1>11 DEF HubInv

\* Record k has the message of record j, and what the guard made of it.
SameMessage(k, j) ==
  /\ k.id = j.id /\ k.platform = j.platform /\ k.at = j.at
  /\ k.times = j.times /\ k.allowed = j.allowed

\* An assignment to one of the locals keeps the message they are about.
LEMMA JobUpdates ==
  ASSUME NEW j \in Job
  PROVE  /\ \A x \in SUBSET Text : /\ [j EXCEPT !.recent = x] \in Job
                                   /\ SameMessage([j EXCEPT !.recent = x], j)
         /\ \A x \in Seq(Ids) : /\ [j EXCEPT !.seen = x] \in Job
                                /\ [j EXCEPT !.seen = x].seen = x
                                /\ SameMessage([j EXCEPT !.seen = x], j)
         /\ \A x \in Seq(Ids) : /\ [j EXCEPT !.events = x] \in Job
                                /\ [j EXCEPT !.events = x].events = x
                                /\ SameMessage([j EXCEPT !.events = x], j)
<1>1. ASSUME NEW x \in SUBSET Text
      PROVE  [j EXCEPT !.recent = x] \in Job /\ SameMessage([j EXCEPT !.recent = x], j)
  BY DEF Job, SameMessage
<1>2. ASSUME NEW x \in Seq(Ids)
      PROVE  /\ [j EXCEPT !.seen = x] \in Job /\ [j EXCEPT !.seen = x].seen = x
             /\ SameMessage([j EXCEPT !.seen = x], j)
  BY DEF Job, SameMessage
<1>3. ASSUME NEW x \in Seq(Ids)
      PROVE  /\ [j EXCEPT !.events = x] \in Job /\ [j EXCEPT !.events = x].events = x
             /\ SameMessage([j EXCEPT !.events = x], j)
  BY DEF Job, SameMessage
<1>. QED  BY <1>1, <1>2, <1>3

\* Thread t goes on to the next stage with the same message.
GoesOn(t, stage, k) ==
  /\ pc[t] # "idle"
  /\ pc' = [pc EXCEPT ![t] = stage]
  /\ job' = [job EXCEPT ![t] = k]
  /\ SameMessage(k, job[t])
  /\ UNCHANGED <<log, clock, overlapped>>
  /\ seen' \in Seq(Ids) /\ events' \in Seq(Ids)
  /\ times' \in [Platforms -> SUBSET Time]
  /\ \A p \in Platforms : IsFiniteSet(times'[p])
  /\ recent' \subseteq Text /\ counted' \in Nat

\* What stays as it was when a thread goes on to its next stage.
LEMMA GoesOnInv ==
  ASSUME HubInv, NEW t \in Threads, NEW stage \in {"purge", "seen", "events"},
         NEW k \in Job, GoesOn(t, stage, k)
  PROVE  /\ HubTypeOK' /\ Timely' /\ AloneInside' /\ NewId' /\ AcceptedOnce' /\ RateIsKept'
         /\ pc'[t] = stage /\ job'[t] = k
         /\ \A u \in Threads \ {t} : pc'[u] = pc[u] /\ job'[u] = job[u]
<1>1. HubTypeOK
  BY DEF HubInv
<1>2. /\ pc'[t] = stage /\ job'[t] = k
      /\ \A u \in Threads \ {t} : pc'[u] = pc[u] /\ job'[u] = job[u]
  BY <1>1 DEF GoesOn, HubTypeOK
<1>3. HubTypeOK'
  BY <1>1, <1>2 DEF GoesOn, HubTypeOK
<1>4. Timely'
  BY <1>2 DEF GoesOn, SameMessage, HubInv, Timely
<1>5. AloneInside'
  BY <1>2 DEF GoesOn, HubInv, AloneInside
<1>6. NewId'
  BY <1>2 DEF GoesOn, SameMessage, HubInv, NewId
<1>7. AcceptedOnce' /\ RateIsKept'
  BY DEF GoesOn, HubInv, AcceptedOnce, RateIsKept
<1>. QED  BY <1>2, <1>3, <1>4, <1>5, <1>6, <1>7

\* The guard is through with a message: the next stages leave its lists alone.
LEMMA GuardedGoesOn ==
  ASSUME HubInv, NEW t \in Threads, NEW k, ~overlapped,
         pc[t] \in Counted, pc'[t] \in Counted, job'[t] = k, SameMessage(k, job[t]),
         \A u \in Threads \ {t} : pc'[u] = "idle",
         UNCHANGED <<times, counted, log, clock>>
  PROVE  Guarded'
<1>1. /\ \A p \in Platforms : Covers(times[p], p, clock)
      /\ pc[t] # "idle"
      /\ \A i \in DOMAIN log : log[i].at <= job[t].at
      /\ Covers(job[t].times, job[t].platform, job[t].at)
      /\ Cardinality(job[t].times) < MaxRate
      /\ counted = Len(log) + 1
      /\ [nth |-> counted, at |-> job[t].at] \in times[job[t].platform]
  BY DEF HubInv, Guarded, Counted
<1>2. \A p \in Platforms : Covers(times[p], p, clock)'
  BY <1>1 DEF Covers
<1>3. Covers(k.times, k.platform, k.at)'
  BY <1>1 DEF Covers, SameMessage
<1>4. /\ \A i \in DOMAIN log' : log'[i].at <= k.at
      /\ Cardinality(k.times) < MaxRate
      /\ counted' = Len(log') + 1
      /\ [nth |-> counted', at |-> k.at] \in times'[k.platform]
  BY <1>1 DEF SameMessage
<1>. QED  BY <1>2, <1>3, <1>4 DEF Guarded

\* The guard lets it through.
LEMMA AllowInv ==
  ASSUME HubInv, NEW t \in Threads, Allow(t)
  PROVE  HubInv'
<1>. DEFINE j == job[t]
            q == j.platform
            now == [nth |-> counted + 1, at |-> j.at]
<1>1. HubTypeOK /\ pc[t] = "judge" /\ j \in Job /\ j.allowed /\ q \in Platforms
  BY JobType DEF HubInv, Allow, HubTypeOK
<1>2. /\ UNCHANGED <<seen, events, log, clock, overlapped>>
      /\ times' = [times EXCEPT ![q] = j.times \cup {now}]
      /\ counted' = counted + 1
      /\ pc' = [pc EXCEPT ![t] = "purge"]
  BY DEF Allow, GoTo
<1>3. PICK k \in Job : job' = [job EXCEPT ![t] = k] /\ SameMessage(k, j)
  <2>. DEFINE told == {r \in recent : r.platform # j.platform \/ r.text # j.text}
                        \cup {[platform |-> j.platform, text |-> j.text, at |-> j.at]}
              x == {r \in told : j.at - r.at < DuplicateWindow}
  <2>1. job' = [job EXCEPT ![t].recent = x] /\ told \subseteq Text /\ recent' = told
    BY <1>1, JobType DEF Allow, HubTypeOK, Text
  <2>2. x \in SUBSET Text
    BY <2>1
  <2>. HIDE DEF x
  <2>3. job' = [job EXCEPT ![t] = [j EXCEPT !.recent = x]]
    BY <2>1
  <2>. QED  BY <1>1, <2>2, <2>3, JobUpdates
<1>4. recent' \subseteq Text
  BY <1>1, JobType DEF Allow, HubTypeOK, Text
<1>5. /\ times'[q] = j.times \cup {now} /\ \A p \in Platforms \ {q} : times'[p] = times[p]
      /\ now \in Time /\ j.times \subseteq Time
  <2>1. now \in Time
    BY <1>1, JobType DEF HubTypeOK, Time
  <2>. HIDE DEF now
  <2>. QED  BY <1>1, <1>2, <2>1, JobType DEF HubTypeOK
<1>. HIDE DEF now
<1>6. /\ times' \in [Platforms -> SUBSET Time]
      /\ \A p \in Platforms : IsFiniteSet(times'[p])
  <2>1. times' \in [Platforms -> SUBSET Time]
    BY <1>1, <1>2, <1>5 DEF HubTypeOK
  <2>2. IsFiniteSet(j.times) /\ IsFiniteSet(j.times \cup {now})
    BY <1>1, FS_AddElement DEF HubInv, Timely
  <2>. QED  BY <1>5, <2>1, <2>2 DEF HubInv, Timely
<1>7. GoesOn(t, "purge", k)
  <2>1. seen \in Seq(Ids) /\ events \in Seq(Ids) /\ counted \in Nat
    BY <1>1 DEF HubTypeOK
  <2>2. counted' \in Nat /\ pc[t] # "idle"
    BY <1>1, <1>2, <2>1
  <2>. QED  BY <1>2, <1>3, <1>4, <1>6, <2>1, <2>2, Zenon DEF GoesOn
<1>8. /\ HubTypeOK' /\ Timely' /\ AloneInside' /\ NewId' /\ AcceptedOnce' /\ RateIsKept'
      /\ pc'[t] = "purge" /\ job'[t] = k
      /\ \A u \in Threads \ {t} : pc'[u] = pc[u] /\ job'[u] = job[u]
  BY <1>7, GoesOnInv
<1>9. SUFFICES ASSUME ~overlapped'
               PROVE  SeenIsPast' /\ EventsArePast' /\ Guarded'
  BY <1>8 DEF HubInv, SeenIsPast, EventsArePast, Guarded
<1>10. /\ ~overlapped /\ counted = Len(log)
       /\ Shows(seen, MaxSeen, Past) /\ Shows(events, MaxEvents, Past)
       /\ \A u \in Threads \ {t} : pc'[u] = "idle"
  BY <1>1, <1>2, <1>8, <1>9, Inside
<1>11. SeenIsPast' /\ EventsArePast'
  <2>1. Past' = Past
    BY <1>2 DEF Past
  <2>. QED  BY <1>2, <1>8, <1>10, <2>1 DEF SeenIsPast, EventsArePast
<1>12. Guarded'
  <2>1. /\ Covers(j.times, q, j.at) /\ j.at <= clock
        /\ \A i \in DOMAIN log : log[i].at <= j.at
        /\ Cardinality(j.times) < MaxRate
    BY <1>1, <1>10 DEF HubInv, Guarded, Timely
  <2>2. \A p \in Platforms : Covers(times'[p], p, clock)
    <3>1. clock \in Clock /\ clock \in Nat /\ j.at \in Nat
      BY <1>1, JobType, Limits, SMT DEF HubTypeOK, Clock
    <3>2. Covers(j.times, q, clock)
      BY <1>1, <2>1, <3>1, CoversLater
    <3>3. Covers(times'[q], q, clock)
      BY <1>5, <3>2 DEF Covers
    <3>. QED  BY <1>5, <1>10, <3>3 DEF HubInv, Guarded
  <2>3. \A p \in Platforms : Covers(times[p], p, clock)'
    BY <1>2, <2>2 DEF Covers
  <2>4. Covers(k.times, k.platform, k.at)'
    BY <1>2, <1>3, <2>1 DEF Covers, SameMessage
  <2>5. counted' = Len(log') + 1 /\ [nth |-> counted', at |-> k.at] \in times'[k.platform]
    BY <1>2, <1>3, <1>5, <1>10 DEF SameMessage, now
  <2>6. Cardinality(k.times) < MaxRate /\ \A i \in DOMAIN log' : log'[i].at <= k.at
    BY <1>2, <1>3, <2>1 DEF SameMessage
  <2>. QED  BY <1>8, <1>10, <2>3, <2>4, <2>5, <2>6 DEF Guarded, Counted
<1>. QED  BY <1>11, <1>12

\* Its text is remembered, and its id appended.
LEMMA RememberInv ==
  ASSUME HubInv, NEW t \in Threads, Remember(t)
  PROVE  HubInv'
<1>. DEFINE j == job[t]
            s == Last(Append(seen, j.id), MaxSeen)
<1>1. /\ HubTypeOK /\ pc[t] = "purge" /\ j \in Job /\ j.id \in Ids
      /\ seen \in Seq(Ids) /\ events \in Seq(Ids) /\ counted \in Nat
      /\ times \in [Platforms -> SUBSET Time]
  BY JobType DEF HubInv, Remember, HubTypeOK
<1>2. /\ UNCHANGED <<events, times, counted, log, clock, overlapped>>
      /\ recent' = j.recent /\ seen' = Append(seen, j.id)
      /\ pc' = [pc EXCEPT ![t] = "seen"]
      /\ job' = [job EXCEPT ![t].seen = s]
  BY DEF Remember, GoTo
<1>3. s \in Seq(Ids)
  <2>1. Append(seen, j.id) \in Seq(Ids)
    BY <1>1
  <2>. QED  BY <2>1, LastType, Limits
<1>. HIDE DEF s
<1>4. PICK k \in Job : job' = [job EXCEPT ![t] = k] /\ SameMessage(k, j) /\ k.seen = s
  <2>1. job' = [job EXCEPT ![t] = [j EXCEPT !.seen = s]]
    BY <1>2
  <2>. QED  BY <1>1, <1>3, <2>1, JobUpdates
<1>5. GoesOn(t, "seen", k)
  <2>1. seen' \in Seq(Ids) /\ recent' \subseteq Text /\ pc[t] # "idle"
    BY <1>1, <1>2, JobType
  <2>2. \A p \in Platforms : IsFiniteSet(times'[p])
    BY <1>2 DEF HubInv, Timely
  <2>. QED  BY <1>1, <1>2, <1>4, <2>1, <2>2, Zenon DEF GoesOn
<1>6. /\ HubTypeOK' /\ Timely' /\ AloneInside' /\ NewId' /\ AcceptedOnce' /\ RateIsKept'
      /\ pc'[t] = "seen" /\ job'[t] = k
      /\ \A u \in Threads \ {t} : pc'[u] = pc[u] /\ job'[u] = job[u]
  BY <1>5, GoesOnInv
<1>7. SUFFICES ASSUME ~overlapped'
               PROVE  SeenIsPast' /\ EventsArePast' /\ Guarded'
  BY <1>6 DEF HubInv, SeenIsPast, EventsArePast, Guarded
<1>8. /\ ~overlapped
      /\ Shows(seen, MaxSeen, Past) /\ Shows(events, MaxEvents, Past)
      /\ \A u \in Threads \ {t} : pc'[u] = "idle"
  BY <1>1, <1>2, <1>6, <1>7, Inside
<1>9. Past' = Past
  BY <1>2 DEF Past
<1>10. SeenIsPast'
  <2>1. Shows(s, MaxSeen, Append(Past, j.id))
    BY <1>1, <1>8, PastType, ShowsNext, Limits DEF s
  <2>2. Shows(k.seen, MaxSeen, PastWith(t)')
    BY <1>4, <1>6, <1>9, <2>1 DEF PastWith, SameMessage
  <2>. QED  BY <1>6, <1>8, <2>2 DEF SeenIsPast
<1>11. EventsArePast'
  BY <1>2, <1>6, <1>8, <1>9 DEF EventsArePast
<1>12. Guarded'
  BY <1>1, <1>2, <1>4, <1>6, <1>8, GuardedGoesOn DEF Counted
<1>. QED  BY <1>10, <1>11, <1>12

\* The ids are assigned, and it is appended to the events ...
LEMMA KeepInv ==
  ASSUME HubInv, NEW t \in Threads, Keep(t)
  PROVE  HubInv'
<1>. DEFINE j == job[t]
            s == Last(Append(events, j.id), MaxEvents)
<1>1. /\ HubTypeOK /\ pc[t] = "seen" /\ j \in Job /\ j.id \in Ids /\ j.seen \in Seq(Ids)
      /\ events \in Seq(Ids) /\ counted \in Nat /\ recent \subseteq Text
      /\ times \in [Platforms -> SUBSET Time]
  BY JobType DEF HubInv, Keep, HubTypeOK
<1>2. /\ UNCHANGED <<times, recent, counted, log, clock, overlapped>>
      /\ seen' = j.seen /\ events' = Append(events, j.id)
      /\ pc' = [pc EXCEPT ![t] = "events"]
      /\ job' = [job EXCEPT ![t].events = s]
  BY DEF Keep, GoTo
<1>3. s \in Seq(Ids)
  <2>1. Append(events, j.id) \in Seq(Ids)
    BY <1>1
  <2>. QED  BY <2>1, LastType, Limits
<1>. HIDE DEF s
<1>4. PICK k \in Job : job' = [job EXCEPT ![t] = k] /\ SameMessage(k, j) /\ k.events = s
  <2>1. job' = [job EXCEPT ![t] = [j EXCEPT !.events = s]]
    BY <1>2
  <2>. QED  BY <1>1, <1>3, <2>1, JobUpdates
<1>5. GoesOn(t, "events", k)
  <2>1. events' \in Seq(Ids) /\ seen' \in Seq(Ids) /\ pc[t] # "idle"
    BY <1>1, <1>2
  <2>2. \A p \in Platforms : IsFiniteSet(times'[p])
    BY <1>2 DEF HubInv, Timely
  <2>. QED  BY <1>1, <1>2, <1>4, <2>1, <2>2, Zenon DEF GoesOn
<1>6. /\ HubTypeOK' /\ Timely' /\ AloneInside' /\ NewId' /\ AcceptedOnce' /\ RateIsKept'
      /\ pc'[t] = "events" /\ job'[t] = k
      /\ \A u \in Threads \ {t} : pc'[u] = pc[u] /\ job'[u] = job[u]
  BY <1>5, GoesOnInv
<1>7. SUFFICES ASSUME ~overlapped'
               PROVE  SeenIsPast' /\ EventsArePast' /\ Guarded'
  BY <1>6 DEF HubInv, SeenIsPast, EventsArePast, Guarded
<1>8. /\ ~overlapped
      /\ Shows(events, MaxEvents, Past)
      /\ \A u \in Threads \ {t} : pc'[u] = "idle"
  BY <1>1, <1>2, <1>6, <1>7, Inside
<1>9. Past' = Past /\ PastWith(t)' = Append(Past, j.id) /\ PastWith(t) = Append(Past, j.id)
  BY <1>2, <1>4, <1>6 DEF Past, PastWith, SameMessage
<1>10. SeenIsPast'
  <2>1. Shows(j.seen, MaxSeen, PastWith(t))
    BY <1>1, <1>8 DEF HubInv, SeenIsPast
  <2>2. Shows(seen', MaxSeen, PastWith(t)')
    BY <1>2, <1>9, <2>1
  <2>. QED  BY <1>6, <1>8, <2>2 DEF SeenIsPast
<1>11. EventsArePast'
  <2>1. Shows(s, MaxEvents, Append(Past, j.id))
    BY <1>1, <1>8, PastType, ShowsNext, Limits DEF s
  <2>2. Shows(k.events, MaxEvents, PastWith(t)')
    BY <1>4, <1>9, <2>1
  <2>. QED  BY <1>6, <1>8, <2>2 DEF EventsArePast
<1>12. Guarded'
  BY <1>1, <1>2, <1>4, <1>6, <1>8, GuardedGoesOn DEF Counted
<1>. QED  BY <1>10, <1>11, <1>12

\* The messages of platform p that were accepted in a window.
Within(p, from) ==
  {i \in DOMAIN log : /\ log[i].platform = p
                      /\ log[i].at \in from..from + RateWindow - 1}

\* Where the new message falls in a window, the guard knew the times of the others.
LEMMA WindowIsKnown ==
  ASSUME HubInv, ~overlapped, NEW t \in Threads, pc[t] = "events", NEW from \in Clock,
         job[t].at \in from..from + RateWindow - 1
  PROVE  Cardinality(Within(job[t].platform, from)) + 1 <= MaxRate
<1>. DEFINE j == job[t]
            w == Within(j.platform, from)
            f == [i \in w |-> [nth |-> i, at |-> log[i].at]]
<1>1. HubTypeOK /\ j.at \in Nat /\ from \in Nat
  <2>1. HubTypeOK
    BY DEF HubInv
  <2>. QED  BY <2>1, JobType, Limits, SMT DEF Clock
<1>2. /\ Covers(j.times, j.platform, j.at)
      /\ Cardinality(j.times) < MaxRate
      /\ IsFiniteSet(j.times)
  BY DEF HubInv, Guarded, Timely, Counted
<1>3. ASSUME NEW i \in w  PROVE f[i] \in j.times
  <2>1. /\ i \in DOMAIN log /\ log[i].platform = j.platform
        /\ log[i].at \in from..from + RateWindow - 1
    BY DEF Within
  <2>2. j.at - log[i].at < RateWindow
    BY <1>1, <2>1, LogType, Limits, SMT
  <2>. QED  BY <1>2, <2>1, <2>2 DEF Covers
<1>4. f \in Injection(w, j.times)
  <2>1. f \in [w -> j.times]
    BY <1>3
  <2>2. ASSUME NEW i \in w, NEW k \in w, f[i] = f[k]  PROVE i = k
    BY <2>2
  <2>. HIDE DEF f
  <2>. QED  BY <2>1, <2>2 DEF Injection, IsInjective
<1>5. IsFiniteSet(w) /\ Cardinality(w) <= Cardinality(j.times)
  BY <1>2, <1>4, FS_Injection
<1>6. Cardinality(w) \in Nat /\ Cardinality(j.times) \in Nat
  BY <1>2, <1>5, FS_CardinalityType
<1>. HIDE DEF w
<1>. QED  BY <1>2, <1>5, <1>6, Limits, SMT DEF w

\* ... which are assigned: it is accepted.
LEMMA AcceptedInv ==
  ASSUME HubInv, NEW t \in Threads, Accepted(t)
  PROVE  HubInv'
<1>. DEFINE j == job[t]
            e == [id |-> j.id, platform |-> j.platform, at |-> j.at]
            n == Len(log) + 1
<1>1. /\ HubTypeOK /\ pc[t] = "events" /\ log \in Seq(Accept) /\ Len(log) \in Nat
      /\ j.id \in Ids /\ j.platform \in Platforms /\ j.at \in Clock /\ j.at \in Nat
      /\ j.events \in Seq(Ids) /\ e \in Accept /\ clock \in Clock /\ clock \in Nat
  <2>1. HubTypeOK /\ pc[t] = "events"
    BY DEF HubInv, Accepted
  <2>2. log \in Seq(Accept) /\ clock \in Clock
    BY <2>1 DEF HubTypeOK
  <2>3. clock \in Nat
    BY <2>2, Limits, SMT DEF Clock
  <2>4. /\ j.id \in Ids /\ j.platform \in Platforms /\ j.at \in Clock /\ j.at \in Nat
        /\ j.events \in Seq(Ids)
    BY <2>1, JobType
  <2>. QED  BY <2>1, <2>2, <2>3, <2>4 DEF Accept
<1>2. /\ UNCHANGED <<seen, times, recent, counted, clock, overlapped>>
      /\ events' = j.events /\ log' = Append(log, e)
      /\ pc' = [pc EXCEPT ![t] = "idle"] /\ job' = [job EXCEPT ![t] = NoJob]
  BY DEF Accepted, Leave, GoTo
<1>3. /\ pc'[t] = "idle"
      /\ \A u \in Threads \ {t} : pc'[u] = pc[u] /\ job'[u] = job[u]
  BY <1>1, <1>2 DEF HubTypeOK
<1>. HIDE DEF e
<1>4. /\ log' \in Seq(Accept) /\ Len(log') = n /\ DOMAIN log' = 1..n
      /\ DOMAIN log = 1..Len(log)
      /\ \A i \in DOMAIN log : i \in DOMAIN log' /\ log'[i] = log[i]
      /\ log'[n] = e
      /\ e.id = j.id /\ e.platform = j.platform /\ e.at = j.at
  <2>1. e.id = j.id /\ e.platform = j.platform /\ e.at = j.at
    BY DEF e
  <2>. QED  BY <1>1, <1>2, <2>1
<1>5. HubTypeOK'
  BY <1>1, <1>2, <1>3, <1>4 DEF HubTypeOK
<1>6. Timely'
  <2>1. j.at <= clock
    BY <1>1 DEF HubInv, Timely
  <2>. QED  BY <1>1, <1>2, <1>3, <1>4, <2>1 DEF HubInv, Timely
<1>7. SUFFICES ASSUME ~overlapped'
               PROVE  HubInv'
  BY <1>5, <1>6 DEF HubInv, AloneInside, SeenIsPast, EventsArePast, NewId,
     AcceptedOnce, Guarded, RateIsKept, HubTypeOK
<1>8. ~overlapped /\ \A u \in Threads : pc'[u] = "idle"
  BY <1>1, <1>2, <1>3, <1>7, Inside
<1>9. AloneInside' /\ NewId'
  BY <1>8 DEF AloneInside, NewId
<1>10. Past' = PastWith(t)
  <2>1. /\ Past \in Seq(Ids) /\ Len(Past) = Len(log)
        /\ \A i \in 1..Len(log) : Past[i] = log[i].id
    BY <1>1, PastType
  <2>2. /\ Past' \in Seq(Ids) /\ Len(Past') = n
        /\ \A i \in 1..n : Past'[i] = log'[i].id
    <3>1. \A i \in 1..n : log'[i] \in Accept
      BY <1>4
    <3>2. \A i \in 1..n : log'[i].id \in Ids
      BY <3>1 DEF Accept
    <3>. QED  BY <1>1, <1>4, <3>2 DEF Past
  <2>3. /\ PastWith(t) \in Seq(Ids) /\ Len(PastWith(t)) = n
        /\ \A i \in 1..Len(log) : PastWith(t)[i] = Past[i]
        /\ PastWith(t)[n] = j.id
    BY <1>1, <2>1 DEF PastWith
  <2>4. \A i \in 1..n : Past'[i] = PastWith(t)[i]
    <3>1. ASSUME NEW i \in 1..Len(log)  PROVE Past'[i] = PastWith(t)[i]
      BY <1>1, <1>4, <2>1, <2>2, <2>3
    <3>2. Past'[n] = PastWith(t)[n]
      BY <1>1, <1>4, <2>2, <2>3
    <3>. QED  BY <1>1, <3>1, <3>2
  <2>. HIDE DEF n
  <2>. QED  BY <2>2, <2>3, <2>4, SeqEqual
<1>11. SeenIsPast' /\ EventsArePast'
  <2>1. Shows(seen, MaxSeen, PastWith(t)) /\ Shows(j.events, MaxEvents, PastWith(t))
    BY <1>1, <1>8 DEF HubInv, SeenIsPast, EventsArePast
  <2>2. Shows(seen', MaxSeen, Past') /\ Shows(events', MaxEvents, Past')
    BY <1>2, <1>10, <2>1
  <2>. QED  BY <1>8, <2>2 DEF SeenIsPast, EventsArePast
<1>12. AcceptedOnce'
  <2>. SUFFICES ASSUME NEW i \in DOMAIN log', NEW k \in DOMAIN log', i < k,
                       log'[i].id = log'[k].id
                PROVE  k - i > MaxSeen
    BY DEF AcceptedOnce
  <2>1. CASE k = n
    <3>1. i \in DOMAIN log /\ log[i].id = j.id
      BY <1>1, <1>4, <2>1, SMT
    <3>2. Len(log) + 1 - i > MaxSeen
      BY <1>1, <1>8, <3>1 DEF HubInv, NewId
    <3>. QED  BY <2>1, <3>2
  <2>2. CASE k # n
    <3>1. i \in DOMAIN log /\ k \in DOMAIN log
      BY <1>1, <1>4, <2>2, SMT
    <3>. QED  BY <1>4, <1>8, <3>1 DEF HubInv, AcceptedOnce
  <2>. QED  BY <2>1, <2>2
<1>13. counted = n /\ [nth |-> n, at |-> j.at] \in times[j.platform]
  BY <1>1, <1>8 DEF HubInv, Guarded, Counted
<1>14. Guarded'
  <2>1. ASSUME NEW p \in Platforms, NEW i \in DOMAIN log', log'[i].platform = p,
               clock - log'[i].at < RateWindow
        PROVE  [nth |-> i, at |-> log'[i].at] \in times[p]
    <3>1. CASE i = n
      BY <1>4, <1>13, <2>1, <3>1
    <3>2. CASE i # n
      <4>1. i \in DOMAIN log
        BY <1>1, <1>4, <3>2, SMT
      <4>2. Covers(times[p], p, clock)
        BY <1>8 DEF HubInv, Guarded
      <4>. QED  BY <1>4, <2>1, <4>1, <4>2 DEF Covers
    <3>. QED  BY <3>1, <3>2
  <2>2. \A p \in Platforms : Covers(times[p], p, clock)'
    BY <1>2, <2>1 DEF Covers
  <2>3. counted' = Len(log')
    BY <1>2, <1>4, <1>13
  <2>. QED  BY <1>8, <2>2, <2>3 DEF Guarded
<1>15. RateIsKept'
  <2>. SUFFICES ASSUME NEW p \in Platforms, NEW from \in Clock
                PROVE  Cardinality(Within(p, from)') <= MaxRate
    BY DEF RateIsKept, Within
  <2>1. Cardinality(Within(p, from)) <= MaxRate
    BY <1>8 DEF HubInv, RateIsKept, Within
  <2>2. CASE p = j.platform /\ j.at \in from..from + RateWindow - 1
    <3>1. Within(p, from)' = Within(p, from) \cup {n}
      BY <1>1, <1>4, <2>2, SMT DEF Within
    <3>2. Cardinality(Within(p, from)) + 1 <= MaxRate
      BY <1>1, <1>8, <2>2, WindowIsKnown
    <3>3. IsFiniteSet(Within(p, from)) /\ n \notin Within(p, from)
      <4>1. IsFiniteSet(1..Len(log)) /\ Within(p, from) \subseteq 1..Len(log)
        BY <1>1, <1>4, FS_Interval DEF Within
      <4>2. n \notin 1..Len(log)
        BY <1>1, SMT
      <4>. QED  BY <4>1, <4>2, FS_Subset
    <3>. HIDE DEF n
    <3>4. Cardinality(Within(p, from) \cup {n}) = Cardinality(Within(p, from)) + 1
      BY <3>3, FS_AddElement
    <3>. QED  BY <3>1, <3>2, <3>4
  <2>3. CASE ~(p = j.platform /\ j.at \in from..from + RateWindow - 1)
    <3>1. Within(p, from)' = Within(p, from)
      BY <1>1, <1>4, <2>3, SMT DEF Within
    <3>. QED  BY <2>1, <3>1
  <2>. QED  BY <2>2, <2>3
<1>. QED  BY <1>5, <1>6, <1>9, <1>11, <1>12, <1>14, <1>15 DEF HubInv

\* Only another thread in the hub makes the copy raise.
LEMMA PurgeRaisesInv ==
  ASSUME HubInv, NEW t \in Threads, PurgeRaises(t)
  PROVE  HubInv'
<1>1. HubTypeOK /\ overlapped
  BY DEF HubInv, AloneInside, PurgeRaises
<1>2. /\ UNCHANGED <<hubVars, clock, overlapped>>
      /\ pc' = [pc EXCEPT ![t] = "idle"] /\ job' = [job EXCEPT ![t] = NoJob]
  BY DEF PurgeRaises, Leave, GoTo
<1>3. /\ pc'[t] = "idle"
      /\ \A u \in Threads \ {t} : pc'[u] = pc[u] /\ job'[u] = job[u]
  BY <1>1, <1>2 DEF HubTypeOK
<1>4. HubTypeOK'
  BY <1>1, <1>2, <1>3 DEF HubTypeOK, hubVars
<1>5. Timely'
  BY <1>2, <1>3 DEF HubInv, Timely, hubVars
<1>. QED  BY <1>1, <1>2, <1>4, <1>5 DEF HubInv, AloneInside, SeenIsPast, EventsArePast,
          NewId, AcceptedOnce, Guarded, RateIsKept

-----------------------------------------------------------------------------
(* The platforms and their workers.                                        *)

\* A chat is a sequence of items.
LEMMA ChatType ==
  ASSUME NEW c \in Chats
  PROVE  c \in Seq(Items) /\ Len(c) \in Nat /\ DOMAIN c = 1..Len(c)
<1>1. c \in Seq({c[i] : i \in DOMAIN c}) /\ {c[i] : i \in DOMAIN c} \subseteq Items
  BY IngressConstants DEF Items
<1>2. /\ Len(c) \in Nat /\ DOMAIN c = 1..Len(c)
      /\ \A i \in 1..Len(c) : c[i] \in Items
  BY <1>1
<1>. QED  BY <1>1, <1>2

\* What the invariant says of the page that is read.
LEMMA PageType ==
  ASSUME RestInv
  PROVE  /\ chat \in Chats /\ Len(chat) \in Nat /\ posted \in 0..Len(chat)
         /\ posted \in Nat /\ token \in 0..posted /\ token \in Nat
         /\ page.next \in 1..posted + 1 /\ page.last \in 0..posted
         /\ page = [next |-> page.next, last |-> page.last]
         /\ page # NoPage => page.next <= page.last /\ chat[page.next] \in Items
<1>1. /\ chat \in Chats /\ Len(chat) \in Nat /\ chat \in Seq(Items)
      /\ DOMAIN chat = 1..Len(chat)
      /\ posted \in 0..Len(chat) /\ token \in 0..posted
      /\ page \in [next : 1..posted + 1, last : 0..posted]
  BY ChatType DEF RestInv, RestTypeOK
<1>2. posted \in Nat /\ token \in Nat
  BY <1>1, SMT
<1>3. /\ page.next \in 1..posted + 1 /\ page.last \in 0..posted
      /\ page = [next |-> page.next, last |-> page.last]
  BY <1>1
<1>4. ASSUME page # NoPage
      PROVE  page.next <= page.last /\ chat[page.next] \in Items
  <2>1. page.next <= page.last
    BY <1>4 DEF RestInv, PageOpen
  <2>2. page.next \in 1..Len(chat)
    BY <1>1, <1>2, <1>3, <2>1, SMT
  <2>. QED  BY <1>1, <2>1, <2>2
<1>. QED  BY <1>1, <1>2, <1>3, <1>4

\* Steps of the hub, and time, leave the platforms alone, or close what is open.
LEMMA RestOfIngest ==
  ASSUME RestInv, NEW t \in Threads, Ingest(t)
  PROVE  RestInv'
<1>1. CASE PurgeRaises(t)
  <2>1. NoPage \in [next : 1..posted + 1, last : 0..posted]
    BY PageType, SMT DEF NoPage
  <2>2. /\ UNCHANGED <<chat, posted, found, token, reconnecting, dead, arrivals, faults>>
        /\ page' \in {NoPage, page} /\ link' \in {"down", link}
        /\ brought' = brought
        /\ skipped' \in {skipped, skipped \cup (page.next..page.last)}
    BY <1>1 DEF PurgeRaises
  <2>3. page.next..page.last \subseteq Nat
    BY PageType, SMT
  <2>4. brought' \subseteq Nat /\ skipped' \subseteq Nat
    BY <2>2, <2>3 DEF RestInv, RestTypeOK
  <2>. QED  BY <2>1, <2>2, <2>4 DEF RestInv, RestTypeOK, PageOpen
<1>2. CASE UNCHANGED <<youtubeVars, twitchVars, dead, arrivals, faults>>
  BY <1>2 DEF youtubeVars, twitchVars, RestInv, RestTypeOK, PageOpen
<1>. QED  BY <1>1, <1>2 DEF Ingest, Refuse, Allow, Remember, Keep, Accepted

\* Steps of YouTube and its worker; what they leave alone is named first.
LEMMA RestOfYouTube ==
  ASSUME RestInv, Show \/ FindChat \/ Poll \/ PollAnew \/ PollDies \/ NextItem
  PROVE  RestInv'
<1>. USE PageType
<1>1. CASE Show
  <2>1. /\ posted < Len(chat) /\ posted' = posted + 1
        /\ UNCHANGED <<chat, found, token, page, brought, skipped, link, reconnecting,
                       dead, arrivals, faults>>
    BY <1>1 DEF Show, twitchVars
  <2>2. posted' \in 0..Len(chat) /\ token \in 0..posted'
    BY <2>1, SMT
  <2>3. page \in [next : 1..posted' + 1, last : 0..posted']
    <3>1. page.next \in 1..posted' + 1 /\ page.last \in 0..posted'
      BY <2>1, SMT
    <3>. QED  BY <3>1
  <2>. QED  BY <2>1, <2>2, <2>3 DEF RestInv, RestTypeOK, PageOpen
<1>2. CASE FindChat
  BY <1>2 DEF FindChat, twitchVars, RestInv, RestTypeOK, PageOpen
<1>3. CASE Poll \/ PollAnew
  <2>1. /\ Unread # {} /\ page' = [next |-> token + 1, last |-> posted]
        /\ token' \in {posted, 0} /\ faults' \in {faults, faults + 1}
        /\ faults' # faults => faults < MaxFaults
        /\ UNCHANGED <<chat, posted, found, brought, skipped, link, reconnecting, dead,
                       arrivals>>
    BY <1>3 DEF Poll, PollAnew, BetweenPages, Fault, twitchVars
  <2>2. token < posted
    BY <2>1, SMT DEF Unread
  <2>3. token' \in 0..posted /\ page' \in [next : 1..posted + 1, last : 0..posted]
    BY <2>1, <2>2, SMT
  <2>4. page'.next <= page'.last
    BY <2>1, <2>2, SMT
  <2>5. faults' \in 0..MaxFaults
    BY <2>1, Limits, SMT DEF RestInv, RestTypeOK
  <2>. QED  BY <2>1, <2>3, <2>4, <2>5 DEF RestInv, RestTypeOK, PageOpen
<1>4. CASE PollDies
  BY <1>4 DEF PollDies, youtubeVars, twitchVars, Platforms, RestInv, RestTypeOK, PageOpen
<1>5. CASE NextItem
  <2>1. /\ page # NoPage
        /\ page' = IF page.next = page.last THEN NoPage ELSE [page EXCEPT !.next = @ + 1]
        /\ brought' = brought \cup {page.next}
        /\ UNCHANGED <<chat, posted, found, token, skipped, link, reconnecting, dead,
                       arrivals, faults>>
    BY <1>5 DEF NextItem, twitchVars
  <2>4. brought' \subseteq Nat
    <3>1. page.next \in Nat
      BY SMT
    <3>. QED  BY <2>1, <3>1 DEF RestInv, RestTypeOK
  <2>2. CASE page.next = page.last
    <3>1. NoPage \in [next : 1..posted + 1, last : 0..posted]
      BY SMT DEF NoPage
    <3>. QED  BY <2>1, <2>2, <2>4, <3>1 DEF RestInv, RestTypeOK, PageOpen
  <2>3. CASE page.next # page.last
    <3>1. page' = [next |-> page.next + 1, last |-> page.last]
      BY <2>1, <2>3
    <3>2. page.next + 1 \in 1..posted + 1 /\ page.next + 1 <= page.last
      BY <2>1, <2>3, SMT
    <3>3. /\ page' \in [next : 1..posted + 1, last : 0..posted]
          /\ page'.next <= page'.last
      BY <3>1, <3>2
    <3>. QED  BY <2>1, <2>4, <3>3 DEF RestInv, RestTypeOK, PageOpen
  <2>. QED  BY <2>2, <2>3
<1>. QED  BY <1>1, <1>2, <1>3, <1>4, <1>5

\* Steps of Twitch and its worker, and requests.
LEMMA RestOfTwitch ==
  ASSUME RestInv,
         \/ Connect \/ Welcome \/ SubscribeFails \/ Reconnect \/ Drop
         \/ \E item \in Notices : Notice(item)
         \/ \E h \in Handlers, m \in Posts, p \in Platforms : Post(h, m, p)
  PROVE  RestInv'
<1>1. /\ UNCHANGED youtubeVars
      /\ link' \in {"down", "open", "subscribed", link}
      /\ reconnecting' \in {TRUE, reconnecting}
      /\ dead' \in {dead, dead \cup {"twitch"}}
      /\ arrivals' = arrivals \/ (arrivals < MaxArrivals /\ arrivals' = arrivals + 1)
      /\ faults' = faults \/ (faults < MaxFaults /\ faults' = faults + 1)
  <2>1. CASE Connect \/ Welcome
    BY <2>1 DEF Connect, Welcome, AfterMessage
  <2>2. CASE SubscribeFails \/ Reconnect \/ Drop
    BY <2>2 DEF SubscribeFails, Reconnect, Drop, Fault
  <2>3. CASE \E item \in Notices : Notice(item)
    BY <2>3 DEF Notice, AfterMessage
  <2>4. CASE \E h \in Handlers, m \in Posts, p \in Platforms : Post(h, m, p)
    BY <2>4 DEF Post, twitchVars
  <2>. QED  BY <2>1, <2>2, <2>3, <2>4
<1>2. arrivals' \in 0..MaxArrivals /\ faults' \in 0..MaxFaults
  <2>1. arrivals \in 0..MaxArrivals /\ faults \in 0..MaxFaults
    BY DEF RestInv, RestTypeOK
  <2>. QED  BY <1>1, <2>1, Limits, SMT
<1>. QED  BY <1>1, <1>2 DEF youtubeVars, Platforms, RestInv, RestTypeOK, PageOpen

-----------------------------------------------------------------------------
(* Every step.                                                             *)

\* The inductive invariant holds in the beginning ...
LEMMA InitIInv ==
  ASSUME Init
  PROVE  IInv
<1>1. log = <<>> /\ DOMAIN log = {} /\ Len(log) = 0 /\ Past = <<>>
  BY DEF Init, Past
<1>2. clock \in Clock /\ 0 \in 0..MaxArrivals /\ 0 \in 0..MaxFaults
  BY Limits, SMT DEF Init, Clock
<1>3. HubTypeOK
  <2>1. <<>> \in Seq(Ids) /\ <<>> \in Seq(Accept)
    OBVIOUS
  <2>2. times \in [Platforms -> SUBSET Time] /\ recent \subseteq Text
    BY DEF Init
  <2>3. /\ pc \in [Threads -> {"idle", "judge", "purge", "seen", "events"}]
        /\ \A t \in Threads : pc[t] = "idle"
    BY DEF Init
  <2>4. job \in [Threads -> Job \cup {NoJob}]
    BY DEF Init
  <2>5. /\ seen = <<>> /\ events = <<>> /\ log = <<>> /\ counted = 0
        /\ overlapped = FALSE
    BY DEF Init
  <2>. QED  BY <1>2, <2>1, <2>2, <2>3, <2>4, <2>5 DEF HubTypeOK
<1>4. Timely /\ AloneInside /\ NewId /\ AcceptedOnce
  BY <1>1, FS_EmptySet DEF Init, Timely, AloneInside, NewId, AcceptedOnce
<1>5. SeenIsPast /\ EventsArePast
  <2>1. Shows(<<>>, MaxSeen, <<>>) /\ Shows(<<>>, MaxEvents, <<>>)
    BY Limits, SMT DEF Shows
  <2>. QED  BY <1>1, <2>1 DEF Init, SeenIsPast, EventsArePast
<1>6. Guarded
  BY <1>1 DEF Init, Guarded, Covers
<1>7. RateIsKept
  <2>1. \A p \in Platforms, from \in Clock : Within(p, from) = {}
    BY <1>1 DEF Within
  <2>2. Cardinality({}) <= MaxRate
    BY FS_EmptySet, Limits, SMT
  <2>. QED  BY <2>1, <2>2 DEF RateIsKept, Within
<1>8. RestInv
  <2>1. Len(chat) \in Nat /\ 0 \in 0..Len(chat)
    BY ChatType, SMT DEF Init
  <2>2. page \in [next : 1..posted + 1, last : 0..posted] /\ token \in 0..posted
    BY SMT DEF Init, NoPage
  <2>. QED  BY <1>2, <2>1, <2>2 DEF Init, RestInv, RestTypeOK, PageOpen
<1>. QED  BY <1>3, <1>4, <1>5, <1>6, <1>7, <1>8 DEF IInv, HubInv

\* ... and every step keeps it.
LEMMA NextIInv ==
  ASSUME IInv, [Next]_vars
  PROVE  IInv'
<1>1. HubInv /\ RestInv /\ HubTypeOK /\ clock \in Nat /\ clock \in Clock
      /\ overlapped \in BOOLEAN
  <2>1. HubInv /\ RestInv /\ HubTypeOK /\ clock \in Clock /\ overlapped \in BOOLEAN
    BY DEF IInv, HubInv, HubTypeOK
  <2>. QED  BY <2>1, Limits, SMT DEF Clock
<1>2. ASSUME UNCHANGED <<hubVars, pc, job, clock, overlapped>>  PROVE HubStays
  BY <1>1, <1>2, SMT DEF HubStays
<1>3. ASSUME NEW t \in Threads, Ingest(t)  PROVE IInv'
  <2>1. HubInv'
    BY <1>1, <1>3, RefuseInv, AllowInv, RememberInv, KeepInv, AcceptedInv, PurgeRaisesInv
       DEF Ingest
  <2>. QED  BY <1>1, <1>3, <2>1, RestOfIngest DEF IInv
<1>4. ASSUME NEW h \in Handlers, NEW m \in Posts, NEW p \in Platforms, Post(h, m, p)
      PROVE  IInv'
  <2>1. h \in Threads /\ m \in Items
    BY DEF Threads, Items
  <2>2. HubInv'
    BY <1>1, <1>4, <2>1, EnterInv DEF Post
  <2>. QED  BY <1>1, <1>4, <2>2, RestOfTwitch DEF IInv
<1>5. CASE Tick
  <2>1. clock' \in Clock /\ clock <= clock'
    BY <1>1, <1>5, Limits, SMT DEF Tick, Clock
  <2>2. HubStays
    BY <1>1, <1>5, <2>1 DEF Tick, HubStays
  <2>3. RestInv'
    BY <1>1, <1>5 DEF Tick, youtubeVars, twitchVars, RestInv, RestTypeOK, PageOpen
  <2>. QED  BY <1>1, <2>2, <2>3, HubStaysInv DEF IInv
<1>6. CASE Show \/ FindChat \/ Poll \/ PollAnew \/ PollDies
  <2>1. UNCHANGED <<hubVars, pc, job, clock, overlapped>>
    BY <1>6 DEF Show, FindChat, Poll, PollAnew, PollDies
  <2>. QED  BY <1>1, <1>2, <1>6, <2>1, HubStaysInv, RestOfYouTube DEF IInv
<1>7. CASE NextItem
  <2>1. HubInv'
    <3>1. CASE chat[page.next].kind = "message"
      <4>1. "youtube" \in Threads /\ "youtube" \in Platforms /\ chat[page.next] \in Items
        BY <1>1, <1>7, PageType DEF NextItem, Threads, Platforms
      <4>. QED  BY <1>1, <1>7, <3>1, <4>1, EnterInv DEF NextItem
    <3>2. CASE chat[page.next].kind # "message"
      <4>1. UNCHANGED <<hubVars, pc, job, clock, overlapped>>
        BY <1>7, <3>2 DEF NextItem
      <4>. QED  BY <1>1, <1>2, <4>1, HubStaysInv
    <3>. QED  BY <3>1, <3>2
  <2>. QED  BY <1>1, <1>7, <2>1, RestOfYouTube DEF IInv
<1>8. CASE Connect \/ Welcome \/ SubscribeFails \/ Reconnect \/ Drop
  <2>1. UNCHANGED <<hubVars, pc, job, clock, overlapped>>
    BY <1>8 DEF Connect, Welcome, SubscribeFails, Reconnect, Drop
  <2>. QED  BY <1>1, <1>2, <1>8, <2>1, HubStaysInv, RestOfTwitch DEF IInv
<1>9. ASSUME NEW item \in Notices, Notice(item)  PROVE IInv'
  <2>1. HubInv'
    <3>1. CASE item.kind = "message"
      <4>1. "twitch" \in Threads /\ "twitch" \in Platforms /\ item \in Items
        BY DEF Threads, Platforms, Items
      <4>. QED  BY <1>1, <1>9, <3>1, <4>1, EnterInv DEF Notice
    <3>2. CASE item.kind # "message"
      <4>1. UNCHANGED <<hubVars, pc, job, clock, overlapped>>
        BY <1>9, <3>2 DEF Notice
      <4>. QED  BY <1>1, <1>2, <4>1, HubStaysInv
    <3>. QED  BY <3>1, <3>2
  <2>. QED  BY <1>1, <1>9, <2>1, RestOfTwitch DEF IInv
<1>10. CASE UNCHANGED vars
  <2>1. UNCHANGED <<hubVars, pc, job, clock, overlapped>>
    BY <1>10 DEF vars
  <2>2. RestInv'
    BY <1>1, <1>10 DEF vars, youtubeVars, twitchVars, RestInv, RestTypeOK, PageOpen
  <2>. QED  BY <1>1, <1>2, <2>1, <2>2, HubStaysInv DEF IInv
<1>. QED  BY <1>3, <1>4, <1>5, <1>6, <1>7, <1>8, <1>9, <1>10 DEF Next

-----------------------------------------------------------------------------
(* The theorems.                                                           *)

\* The inductive invariant holds in every state.
THEOREM Invariance == Spec => []IInv
<1>1. Init => IInv
  BY InitIInv
<1>2. IInv /\ [Next]_vars => IInv'
  BY NextIInv
<1>. QED  BY <1>1, <1>2, PTL DEF Spec

\* Every variable keeps its type: the page that is read lies in what the chat shows,
\* and the link is one of the three the session knows.
THEOREM TypeCorrect == Spec => []TypeOK
<1>1. IInv => TypeOK
  BY DEF IInv, HubInv, RestInv, HubTypeOK, RestTypeOK, TypeOK
<1>. QED  BY <1>1, Invariance, PTL

\* ingest(): with one thread at a time in the hub, a message is not accepted again
\* before MaxSeen others were, for any chats, notices and requests.
THEOREM RepeatsAreRefused == Spec => []AcceptedOnce
<1>1. IInv => AcceptedOnce
  BY DEF IInv, HubInv
<1>. QED  BY <1>1, Invariance, PTL

\* PlatformIngressGuard.accept(): with one thread at a time in the hub, an author is
\* accepted at most MaxRate times in any RateWindow ticks.
THEOREM RateIsLimited == Spec => []RateIsKept
<1>1. IInv => RateIsKept
  BY DEF IInv, HubInv
<1>. QED  BY <1>1, Invariance, PTL

\* ingest(): with one thread at a time in the hub, the history shows the last
\* MaxEvents accepted messages, whenever no list is between its two assignments.
THEOREM HistoryShowsTheLast == Spec => []HistoryIsComplete
<1>1. ASSUME IInv  PROVE HistoryIsComplete
  <2>. SUFFICES ASSUME ~overlapped, \A t \in Threads : pc[t] \notin {"events"}
                PROVE  /\ Len(events) = IF Len(log) < MaxEvents THEN Len(log) ELSE MaxEvents
                       /\ \A i \in DOMAIN events :
                            events[i] = log[Len(log) - Len(events) + i].id
    BY DEF HistoryIsComplete
  <2>1. /\ HubTypeOK /\ Shows(events, MaxEvents, Past)
        /\ events \in Seq(Ids) /\ Len(events) \in Nat /\ Len(log) \in Nat
    BY <1>1 DEF IInv, HubInv, EventsArePast, HubTypeOK
  <2>2. Len(Past) = Len(log) /\ \A i \in 1..Len(log) : Past[i] = log[i].id
    BY <2>1, PastType
  <2>3. Len(events) = IF Len(log) < MaxEvents THEN Len(log) ELSE MaxEvents
    BY <2>1, <2>2 DEF Shows
  <2>4. ASSUME NEW i \in DOMAIN events
        PROVE  events[i] = log[Len(log) - Len(events) + i].id
    <3>1. i \in 1..Len(events) /\ Len(log) - Len(events) + i \in 1..Len(log)
      BY <2>1, <2>3, Limits, SMT
    <3>. QED  BY <2>1, <2>2, <3>1 DEF Shows
  <2>. QED  BY <2>3, <2>4
<1>. QED  BY <1>1, Invariance, PTL

=============================================================================

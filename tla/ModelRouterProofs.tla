-------------------------- MODULE ModelRouterProofs --------------------------
(***************************************************************************)
(* Proofs about ModelRouter, for any number of threads, any order of       *)
(* providers, any number of retries, threshold and cooldown.               *)
(***************************************************************************)
EXTENDS ModelRouter, FiniteSetTheorems, TLAPS

-----------------------------------------------------------------------------
(* The inductive invariant.                                                *)

\* The calls of provider p that the requests at it may still make, each as the
\* thread and the retry: those of an open circuit are late.
Tickets(p) ==
  {x \in Threads \X (0..MaxRetries) :
     /\ pc[x[1]] \in {"call", "wait"} /\ Order[at[x[1]]] = p
     /\ x[2] >= attempt[x[1]]
     /\ pc[x[1]] = "wait" => x[2] # attempt[x[1]]}

\* The late calls that were made and those to come are no more than Calls.
Shielded ==
  \A p \in Providers : cooling[p] > 0 => late[p] + Cardinality(Tickets(p)) <= Calls

\* The requests at provider p that the count of failures does not show yet, or
\* that are about to open the circuit.
InHand(p) ==
  {t \in Threads :
     /\ pc[t] \in {"call", "wait", "read", "write", "test"} /\ Order[at[t]] = p
     /\ pc[t] = "test" => failures[p] = Threshold}

\* Every request brought to p since it answered or its circuit opened is in hand
\* or was counted; the one that reached the threshold is both.
Counted ==
  \A p \in Providers \ raced :
    spent[p] <= Least(failures[p], Threshold - 1) + Cardinality(InHand(p))

\* One thread at a time changes the count of p, and what it read is still there.
Alone ==
  \A p \in Providers \ raced :
    \A t \in Changing(p) :
      /\ Changing(p) \subseteq {t}
      /\ pc[t] = "write" => got[t] = failures[p]

IInv == TypeOK /\ Shielded /\ Counted /\ Alone

-----------------------------------------------------------------------------
(* Counting.                                                               *)

\* The numbers that the assumptions bound, as arithmetic needs them.
LEMMA Constants ==
  /\ Cardinality(Threads) \in Nat /\ Cardinality(Threads) >= 1
  /\ MaxRetries \in Nat /\ Threshold \in Nat /\ Threshold >= 1
  /\ Cooldown \in Nat /\ Cooldown >= 1
  /\ Calls \in Nat /\ Needed \in Nat
  /\ Needed = Threshold + Cardinality(Threads) - 1
<1>1. Cardinality(Threads) \in Nat /\ Cardinality(Threads) # 0
  BY RouterConstants, FS_CardinalityType, FS_EmptySet
<1>2. /\ MaxRetries \in Nat /\ Threshold \in Nat /\ Threshold >= 1
      /\ Cooldown \in Nat /\ Cooldown >= 1
  BY RouterConstants
<1>3. \A m, n \in Nat : m * n \in Nat
  OBVIOUS
<1>4. Cardinality(Threads) - 1 \in Nat /\ MaxRetries + 1 \in Nat
  BY <1>1, <1>2
<1>5. Calls \in Nat
  BY <1>3, <1>4 DEF Calls
<1>6. QED
  BY <1>1, <1>2, <1>5 DEF Needed

\* An attempt is one of MaxRetries + 1.
LEMMA RetryNumbers ==
  IsFiniteSet(0..MaxRetries) /\ Cardinality(0..MaxRetries) = MaxRetries + 1
<1>1. 0 \in Int /\ MaxRetries \in Int /\ ~(0 > MaxRetries)
  BY Constants
<1>2. /\ IsFiniteSet(0..MaxRetries)
      /\ Cardinality(0..MaxRetries) = IF 0 > MaxRetries THEN 0 ELSE MaxRetries - 0 + 1
  BY <1>1, FS_Interval
<1>3. QED
  BY <1>1, <1>2

\* A count that is capped at n.
LEMMA Capped ==
  ASSUME NEW n \in Nat, NEW m \in 0..n
  PROVE  Least(m + 1, n) \in 0..n /\ Least(m + 1, n) <= m + 1
BY DEF Least

\* Each place in the order of the providers has one.
LEMMA Places ==
  /\ Len(Order) \in Nat /\ DOMAIN Order = 1..Len(Order)
  /\ \A i \in DOMAIN Order : Order[i] \in Providers
BY RouterConstants

\* What is counted of a provider is a number, and how large it may be.
LEMMA CountTypes ==
  ASSUME TypeOK, NEW p \in Providers
  PROVE  /\ failures[p] \in Nat /\ failures[p] <= Threshold
         /\ cooling[p] \in Nat /\ cooling[p] <= Cooldown
         /\ late[p] \in 0..Calls + 1
         /\ spent[p] \in 0..Needed + 1 /\ spent[p] \in Nat
<1>1. failures[p] \in 0..Threshold /\ cooling[p] \in 0..Cooldown
  BY DEF TypeOK
<1>2. late[p] \in 0..Calls + 1
  BY DEF TypeOK
<1>3. spent[p] \in 0..Needed + 1
  BY DEF TypeOK
<1>4. QED
  BY <1>1, <1>2, <1>3

\* What a step takes away from a set of tickets, or of threads, lowers its number.
LEMMA FewerTickets ==
  ASSUME NEW S \in SUBSET (Threads \X (0..MaxRetries)), NEW T \in SUBSET S
  PROVE  /\ IsFiniteSet(S) /\ Cardinality(S) \in Nat
         /\ IsFiniteSet(T) /\ Cardinality(T) \in Nat
         /\ Cardinality(T) <= Cardinality(S)
<1>1. IsFiniteSet(Threads \X (0..MaxRetries))
  BY RetryNumbers, FS_Product, RouterConstants
<1>2. QED
  BY <1>1, FS_Subset, FS_CardinalityType

\* Threads can be counted, and a part of some threads has no more of them.
LEMMA FewerThreads ==
  ASSUME NEW S \in SUBSET Threads, NEW T \in SUBSET S
  PROVE  /\ IsFiniteSet(S) /\ Cardinality(S) \in Nat
         /\ Cardinality(S) <= Cardinality(Threads)
         /\ IsFiniteSet(T) /\ Cardinality(T) \in Nat
         /\ Cardinality(T) <= Cardinality(S)
BY FS_Subset, FS_CardinalityType, RouterConstants

\* The circuit of p opens by thread t: the tickets are those of the others.
LEMMA OthersTickets ==
  ASSUME NEW t \in Threads,
         NEW S \in SUBSET (Threads \X (0..MaxRetries)),
         \A x \in S : x[1] # t
  PROVE  Cardinality(S) <= Calls
<1> DEFINE others == Threads \ {t}
<1>1. IsFiniteSet(others) /\ Cardinality(others) = Cardinality(Threads) - 1
  BY FS_RemoveElement, RouterConstants
<1>3. /\ IsFiniteSet(others \X (0..MaxRetries))
      /\ Cardinality(others \X (0..MaxRetries)) = Calls
  <2>1. /\ IsFiniteSet(others \X (0..MaxRetries))
        /\ Cardinality(others \X (0..MaxRetries))
             = Cardinality(others) * Cardinality(0..MaxRetries)
    BY <1>1, RetryNumbers, FS_Product
  <2>2. QED BY <1>1, <2>1, RetryNumbers DEF Calls
<1>4. S \subseteq others \X (0..MaxRetries)
  OBVIOUS
<1>5. QED
  BY <1>3, <1>4, FS_Subset

\* A step gives no tickets at q if each thread stays as it was or is not at q after it.
LEMMA TicketsStay ==
  ASSUME NEW q \in Providers,
         \A u \in Threads :
           \/ pc'[u] \notin {"call", "wait"}
           \/ Order[at'[u]] # q
           \/ pc'[u] = pc[u] /\ at'[u] = at[u] /\ attempt'[u] = attempt[u]
  PROVE  Tickets(q)' \subseteq Tickets(q)
<1> SUFFICES ASSUME NEW u \in Threads, NEW k \in 0..MaxRetries, <<u, k>> \in Tickets(q)'
             PROVE  <<u, k>> \in Tickets(q)
  BY DEF Tickets
<1>1. /\ pc'[u] \in {"call", "wait"} /\ Order[at'[u]] = q
      /\ k >= attempt'[u] /\ (pc'[u] = "wait" => k # attempt'[u])
  BY DEF Tickets
<1>2. pc'[u] = pc[u] /\ at'[u] = at[u] /\ attempt'[u] = attempt[u]
  BY <1>1
<1>3. QED BY <1>1, <1>2 DEF Tickets

\* A provider that a step does not touch.
LEMMA SameShield ==
  ASSUME TypeOK, Shielded, NEW p \in Providers,
         cooling'[p] = cooling[p], late'[p] = late[p],
         Tickets(p)' \subseteq Tickets(p), cooling'[p] > 0
  PROVE  late'[p] + Cardinality(Tickets(p)') <= Calls
<1>1. Tickets(p) \in SUBSET (Threads \X (0..MaxRetries))
  BY DEF Tickets
<1>2. /\ Cardinality(Tickets(p)') \in Nat /\ Cardinality(Tickets(p)) \in Nat
      /\ Cardinality(Tickets(p)') <= Cardinality(Tickets(p))
  BY <1>1, FewerTickets
<1>3. late[p] + Cardinality(Tickets(p)) <= Calls /\ late[p] \in Nat
  BY DEF TypeOK, Shielded
<1>4. QED
  BY <1>2, <1>3, Constants

\* A step that changes nothing of a provider leaves its count as it was.
LEMMA SameCount ==
  ASSUME TypeOK, Counted, NEW p \in Providers \ raced,
         failures'[p] = failures[p], spent'[p] = spent[p],
         InHand(p)' = InHand(p)
  PROVE  spent'[p] <= Least(failures'[p], Threshold - 1) + Cardinality(InHand(p)')
BY DEF Counted

-----------------------------------------------------------------------------
(* Each step keeps the invariant.                                          *)

\* A request begins, or goes on to the next provider, or ends.
LEMMA ChooseKeeps ==
  ASSUME IInv, NEW t \in Threads, Start(t) \/ Skip(t) \/ GiveUp(t)
  PROVE  IInv'
<1>0. attempted' \in [Threads -> BOOLEAN]
  BY DEF IInv, TypeOK, Start, Skip, GiveUp
<1>1. TypeOK'
  <2>1. CASE Start(t)
    BY <1>0, <2>1, Places DEF IInv, TypeOK, Start, GoTo, circuitVars
  <2>2. CASE Skip(t)
    <3>1. at[t] \in 1..Len(Order)
      BY <2>2, Places DEF Skip
    <3>2. at' \in [Threads -> 1..Len(Order) + 1]
      BY <2>2, <3>1, Places DEF IInv, TypeOK, Skip
    <3>3. QED
      BY <1>0, <2>2, <3>2 DEF IInv, TypeOK, Skip, circuitVars
  <2>3. CASE GiveUp(t)
    BY <1>0, <2>3, Places DEF IInv, TypeOK, GiveUp, GoTo, circuitVars
  <2>4. QED BY <2>1, <2>2, <2>3
<1>2. /\ UNCHANGED <<failures, cooling, attempt, got, late, spent, raced>>
      /\ \A u \in Threads : pc[u] \notin {"idle", "choose"} \/ pc'[u] \notin {"idle", "choose"}
           => pc'[u] = pc[u] /\ at'[u] = at[u]
  BY DEF IInv, TypeOK, Start, Skip, GiveUp, GoTo, circuitVars
<1>3. \A p \in Providers : /\ Tickets(p)' = Tickets(p)
                           /\ InHand(p)' = InHand(p)
                           /\ Changing(p)' = Changing(p)
  BY <1>2 DEF Tickets, InHand, Changing
<1>4. Shielded'
  BY <1>2, <1>3 DEF IInv, Shielded
<1>5. Counted'
  BY <1>2, <1>3 DEF IInv, Counted
<1>6. Alone'
  BY <1>2, <1>3 DEF IInv, Alone, Changing
<1>7. QED
  BY <1>1, <1>4, <1>5, <1>6 DEF IInv

\* A request is brought to a provider whose circuit is closed.
LEMMA AskKeeps ==
  ASSUME IInv, NEW t \in Threads, Ask(t)
  PROVE  IInv'
<1>1. PICK p \in Providers :
      /\ cooling[p] = 0 /\ pc[t] = "choose"
      /\ Order[at[t]] = p /\ at[t] \in DOMAIN Order
      /\ pc' = [pc EXCEPT ![t] = "call"]
      /\ attempt' = [attempt EXCEPT ![t] = 0]
      /\ spent' = [spent EXCEPT ![p] = Least(@ + 1, Needed + 1)]
      /\ UNCHANGED <<failures, cooling, at, got, late, raced>>
  BY Places DEF IInv, TypeOK, Ask, Askable, GoTo, circuitVars
<1>0. attempted' \in [Threads -> BOOLEAN]
  BY DEF IInv, TypeOK, Ask
<1> DEFINE capped == Least(spent[p] + 1, Needed + 1)
<1>c. capped \in 0..Needed + 1 /\ capped <= spent[p] + 1
  <2>1. Needed + 1 \in Nat /\ spent[p] \in 0..Needed + 1
    BY Constants, CountTypes DEF IInv
  <2>2. QED BY <2>1, Capped
<1>s. spent' = [spent EXCEPT ![p] = capped]
  BY <1>1
<1> HIDE DEF capped
<1>2. TypeOK'
  <2>1. spent' \in [Providers -> 0..Needed + 1]
    BY <1>c, <1>s DEF IInv, TypeOK
  <2>2. attempt' \in [Threads -> 0..MaxRetries]
    BY <1>1, Constants DEF IInv, TypeOK
  <2>3. QED
    BY <1>0, <1>1, <2>1, <2>2 DEF IInv, TypeOK, Ask
<1>3. Shielded'
  <2> SUFFICES ASSUME NEW q \in Providers, cooling'[q] > 0
               PROVE  late'[q] + Cardinality(Tickets(q)') <= Calls
    BY DEF Shielded
  <2>1. q # p
    BY <1>1
  <2>2. Tickets(q)' \subseteq Tickets(q)
    <3>1. Order[at'[t]] # q
      BY <1>1, <2>1
    <3>2. \A u \in Threads \ {t} :
            pc'[u] = pc[u] /\ at'[u] = at[u] /\ attempt'[u] = attempt[u]
      BY <1>1 DEF IInv, TypeOK
    <3>3. QED BY <3>1, <3>2, TicketsStay
  <2>3. QED
    BY <1>1, <2>2, SameShield DEF IInv
<1>4. Counted'
  <2> SUFFICES ASSUME NEW q \in Providers \ raced'
               PROVE  spent'[q] <= Least(failures'[q], Threshold - 1)
                                     + Cardinality(InHand(q)')
    BY DEF Counted
  <2>1. CASE q # p
    <3>1. InHand(q)' = InHand(q)
      BY <1>1, <2>1 DEF IInv, TypeOK, InHand
    <3>2. spent'[q] = spent[q] /\ failures'[q] = failures[q]
      BY <1>1, <2>1 DEF IInv, TypeOK
    <3>3. QED BY <1>1, <3>1, <3>2, SameCount DEF IInv
  <2>2. CASE q = p
    <3>1. InHand(p)' = InHand(p) \cup {t} /\ t \notin InHand(p)
      BY <1>1 DEF IInv, TypeOK, InHand
    <3>2. InHand(p) \in SUBSET Threads
      BY DEF InHand
    <3>3. /\ Cardinality(InHand(p)') = Cardinality(InHand(p)) + 1
          /\ Cardinality(InHand(p)) \in Nat
      BY <3>1, <3>2, FewerThreads, FS_AddElement
    <3>4. spent'[p] <= spent[p] + 1 /\ spent[p] \in Nat
      BY <1>c, <1>s, Constants DEF IInv, TypeOK
    <3>5. /\ spent[p] <= Least(failures[p], Threshold - 1) + Cardinality(InHand(p))
          /\ failures[p] \in Nat
      BY <1>1, <2>2 DEF IInv, TypeOK, Counted
    <3>6. spent'[p] \in Nat
      BY <1>1, <1>2 DEF TypeOK
    <3>7. QED BY <1>1, <2>2, <3>3, <3>4, <3>5, <3>6, Constants DEF Least
  <2>3. QED BY <2>1, <2>2
<1>5. Alone'
  <2>1. \A q \in Providers : Changing(q)' = Changing(q)
    BY <1>1 DEF IInv, TypeOK, Changing
  <2>2. \A q \in Providers : \A u \in Changing(q) : u # t
    BY <1>1 DEF Changing
  <2>3. QED
    BY <1>1, <2>1, <2>2 DEF IInv, TypeOK, Alone, Changing
<1>6. QED
  BY <1>2, <1>3, <1>4, <1>5 DEF IInv

\* A thread in the middle of a request is at a provider.
LEMMA AtProvider ==
  ASSUME TypeOK, NEW t \in Threads, pc[t] \notin {"idle", "choose"}
  PROVE  at[t] \in DOMAIN Order /\ \E p \in Providers : Order[at[t]] = p
BY Places DEF TypeOK

\* _invoke: a call that comes late was one of those to come.
LEMMA CallKeeps ==
  ASSUME IInv, NEW t \in Threads, Call(t)
  PROVE  IInv'
<1>1. PICK p \in Providers : Order[at[t]] = p
  BY AtProvider DEF IInv, Call
<1>2. /\ pc[t] = "call" /\ pc' = [pc EXCEPT ![t] = "wait"]
      /\ UNCHANGED <<failures, cooling, at, attempt, attempted, got, outcome, spent,
                     raced>>
      /\ late' = [late EXCEPT ![p] = IF cooling[p] > 0 THEN Least(@ + 1, Calls + 1)
                                     ELSE 0]
  BY <1>1 DEF Call, GoTo, circuitVars
<1>3. late[p] \in 0..Calls + 1 /\ late'[p] \in 0..Calls + 1
      /\ (cooling[p] > 0 => late'[p] <= late[p] + 1)
  <2>1. Calls + 1 \in Nat /\ late[p] \in 0..Calls + 1
    BY Constants, CountTypes DEF IInv
  <2>2. late'[p] = IF cooling[p] > 0 THEN Least(late[p] + 1, Calls + 1) ELSE 0
    BY <1>2 DEF IInv, TypeOK
  <2>3. QED BY <2>1, <2>2, Capped
<1>4. TypeOK'
  <2>1. late' \in [Providers -> 0..Calls + 1]
    BY <1>2, <1>3 DEF IInv, TypeOK
  <2>2. QED BY <1>2, <2>1 DEF IInv, TypeOK
<1>5. Shielded'
  <2> SUFFICES ASSUME NEW q \in Providers, cooling'[q] > 0
               PROVE  late'[q] + Cardinality(Tickets(q)') <= Calls
    BY DEF Shielded
  <2>1. CASE q # p
    <3>1. Tickets(q)' \subseteq Tickets(q)
      <4>1. Order[at'[t]] # q
        BY <1>1, <1>2, <2>1
      <4>2. \A u \in Threads \ {t} :
              pc'[u] = pc[u] /\ at'[u] = at[u] /\ attempt'[u] = attempt[u]
        BY <1>2 DEF IInv, TypeOK
      <4>3. QED BY <4>1, <4>2, TicketsStay
    <3>2. late'[q] = late[q] /\ cooling'[q] = cooling[q]
      BY <1>2, <2>1 DEF IInv, TypeOK
    <3>3. QED BY <3>1, <3>2, SameShield DEF IInv
  <2>2. CASE q = p
    <3> DEFINE ticket == <<t, attempt[t]>>
    <3>1. ticket \in Tickets(p)
      <4>1. attempt[t] \in 0..MaxRetries /\ attempt[t] >= attempt[t]
        BY Constants DEF IInv, TypeOK
      <4>2. QED BY <1>1, <1>2, <4>1 DEF Tickets
    <3>2. Tickets(p)' \subseteq Tickets(p) \ {ticket}
      <4> SUFFICES ASSUME NEW u \in Threads, NEW k \in 0..MaxRetries,
                          <<u, k>> \in Tickets(p)'
                   PROVE  <<u, k>> \in Tickets(p) /\ <<u, k>> # ticket
        BY DEF Tickets
      <4>1. /\ pc'[u] \in {"call", "wait"} /\ Order[at[u]] = p
            /\ k >= attempt[u] /\ (pc'[u] = "wait" => k # attempt[u])
        BY <1>2 DEF Tickets
      <4>2. CASE u = t
        <5>1. pc[u] = "call" /\ pc'[u] = "wait"
          BY <1>2, <4>2 DEF IInv, TypeOK
        <5>2. k # attempt[t]
          BY <4>1, <4>2, <5>1
        <5>3. QED BY <4>1, <4>2, <5>1, <5>2 DEF Tickets
      <4>3. CASE u # t
        <5>1. pc'[u] = pc[u]
          BY <1>2, <4>3 DEF IInv, TypeOK
        <5>2. QED BY <4>1, <4>3, <5>1 DEF Tickets
      <4>4. QED BY <4>2, <4>3
    <3>3. Tickets(p) \in SUBSET (Threads \X (0..MaxRetries))
      BY DEF Tickets
    <3> HIDE DEF ticket
    <3>4. /\ IsFiniteSet(Tickets(p)) /\ Cardinality(Tickets(p)) \in Nat
          /\ Cardinality(Tickets(p) \ {ticket}) = Cardinality(Tickets(p)) - 1
      BY <3>1, <3>3, FewerTickets, FS_RemoveElement
    <3>5. /\ Cardinality(Tickets(p)') \in Nat
          /\ Cardinality(Tickets(p)') <= Cardinality(Tickets(p) \ {ticket})
      BY <3>2, <3>3, FewerTickets
    <3>6. late[p] + Cardinality(Tickets(p)) <= Calls /\ cooling[p] > 0
      BY <1>2, <2>2 DEF IInv, Shielded
    <3>7. QED BY <1>3, <2>2, <3>4, <3>5, <3>6, Constants
  <2>3. QED BY <2>1, <2>2
<1>6. \A q \in Providers : InHand(q)' = InHand(q) /\ Changing(q)' = Changing(q)
  BY <1>2 DEF IInv, TypeOK, InHand, Changing
<1>7. Counted'
  BY <1>2, <1>6 DEF IInv, Counted
<1>8. Alone'
  BY <1>2, <1>6 DEF IInv, TypeOK, Alone, Changing
<1>9. QED
  BY <1>4, <1>5, <1>7, <1>8 DEF IInv

\* A retry: the call to come stays one of those to come.
LEMMA FailTransientlyKeeps ==
  ASSUME IInv, NEW t \in Threads, FailTransiently(t)
  PROVE  IInv'
<1>1. /\ pc[t] = "wait"
      /\ UNCHANGED <<failures, cooling, at, attempted, got, outcome, late, spent,
                     raced>>
  BY DEF FailTransiently, circuitVars
<1>2. attempt[t] \in 0..MaxRetries /\ MaxRetries \in Nat
  BY Constants DEF IInv, TypeOK
<1>3. \/ /\ attempt[t] < MaxRetries /\ pc' = [pc EXCEPT ![t] = "call"]
         /\ attempt' = [attempt EXCEPT ![t] = @ + 1]
      \/ /\ pc' = [pc EXCEPT ![t] = "read"] /\ attempt' = attempt
  BY DEF FailTransiently, Retry, GoTo
<1>4. TypeOK'
  <2>1. attempt' \in [Threads -> 0..MaxRetries]
    <3>1. attempt[t] < MaxRetries => attempt[t] + 1 \in 0..MaxRetries
      BY <1>2
    <3>2. QED BY <1>3, <3>1 DEF IInv, TypeOK
  <2>2. QED BY <1>1, <1>3, <2>1 DEF IInv, TypeOK
<1>5. ASSUME NEW q \in Providers
      PROVE  Tickets(q)' \subseteq Tickets(q)
  <2> SUFFICES ASSUME NEW u \in Threads, NEW k \in 0..MaxRetries,
                      <<u, k>> \in Tickets(q)'
               PROVE  <<u, k>> \in Tickets(q)
    BY DEF Tickets
  <2>1. /\ pc'[u] \in {"call", "wait"} /\ Order[at[u]] = q
        /\ k >= attempt'[u] /\ (pc'[u] = "wait" => k # attempt'[u])
    BY <1>1 DEF Tickets
  <2>2. k \in Nat
    BY <1>2
  <2>3. CASE u = t
    BY <1>1, <1>2, <1>3, <2>1, <2>2, <2>3 DEF IInv, TypeOK, Tickets
  <2>4. CASE u # t
    BY <1>1, <1>3, <2>1, <2>4 DEF IInv, TypeOK, Tickets
  <2>5. QED BY <2>3, <2>4
<1>6. Shielded'
  BY <1>1, <1>5, SameShield DEF IInv, Shielded
<1>7. \A q \in Providers : InHand(q)' = InHand(q) /\ Changing(q)' = Changing(q)
  BY <1>1, <1>3 DEF IInv, TypeOK, InHand, Changing
<1>8. Counted'
  BY <1>1, <1>7 DEF IInv, Counted
<1>9. Alone'
  <2>1. \A q \in Providers : \A u \in Changing(q) : pc'[u] = pc[u]
    BY <1>1, <1>3 DEF IInv, TypeOK, Changing
  <2>2. QED BY <1>1, <1>7, <2>1 DEF IInv, Alone
<1>10. QED
  BY <1>4, <1>6, <1>8, <1>9 DEF IInv

\* A failure for good: nothing more is called.
LEMMA FailForGoodKeeps ==
  ASSUME IInv, NEW t \in Threads, FailForGood(t)
  PROVE  IInv'
<1>1. /\ pc[t] = "wait" /\ pc' = [pc EXCEPT ![t] = "read"]
      /\ UNCHANGED <<failures, cooling, at, attempt, attempted, got, outcome, late,
                     spent, raced>>
  BY DEF FailForGood, circuitVars, GoTo
<1>2. TypeOK'
  BY <1>1 DEF IInv, TypeOK
<1>3. \A q \in Providers : Tickets(q)' \subseteq Tickets(q)
  <2>1. \A u \in Threads :
          \/ pc'[u] \notin {"call", "wait"}
          \/ pc'[u] = pc[u] /\ at'[u] = at[u] /\ attempt'[u] = attempt[u]
    BY <1>1 DEF IInv, TypeOK
  <2>2. QED BY <2>1, TicketsStay
<1>4. Shielded'
  BY <1>1, <1>3, SameShield DEF IInv, Shielded
<1>5. \A q \in Providers : InHand(q)' = InHand(q) /\ Changing(q)' = Changing(q)
  BY <1>1 DEF IInv, TypeOK, InHand, Changing
<1>6. Counted'
  BY <1>1, <1>5 DEF IInv, Counted
<1>7. Alone'
  BY <1>1, <1>5 DEF IInv, TypeOK, Alone, Changing
<1>8. QED
  BY <1>2, <1>4, <1>6, <1>7 DEF IInv

\* A plan: the counts of the provider start again.
LEMMA AnswerKeeps ==
  ASSUME IInv, NEW t \in Threads, Answer(t)
  PROVE  IInv'
<1>1. PICK p \in Providers : Order[at[t]] = p
  BY AtProvider DEF IInv, Answer
<1>2. /\ pc[t] = "wait" /\ pc' = [pc EXCEPT ![t] = "idle"]
      /\ failures' = [failures EXCEPT ![p] = 0]
      /\ spent' = [spent EXCEPT ![p] = 0]
      /\ outcome' = [outcome EXCEPT ![t] = "plan"]
      /\ UNCHANGED <<cooling, at, attempt, attempted, got, late>>
      /\ raced' = IF Changing(p) = {} THEN raced \ {p} ELSE raced \cup {p}
  BY <1>1 DEF Answer, GoTo
<1>3. raced' \subseteq Providers /\ (\A q \in raced \ {p} : q \in raced')
      /\ (p \notin raced' => Changing(p) = {})
  BY <1>2 DEF IInv, TypeOK
<1>4. TypeOK'
  <2>1. 0 \in 0..Threshold /\ 0 \in 0..Needed + 1
    BY Constants
  <2>2. failures' \in [Providers -> 0..Threshold] /\ spent' \in [Providers -> 0..Needed + 1]
    BY <1>2, <2>1 DEF IInv, TypeOK
  <2>3. QED BY <1>2, <1>3, <2>2 DEF IInv, TypeOK
<1>5. \A q \in Providers : Tickets(q)' \subseteq Tickets(q)
  <2>1. \A u \in Threads :
          \/ pc'[u] \notin {"call", "wait"}
          \/ pc'[u] = pc[u] /\ at'[u] = at[u] /\ attempt'[u] = attempt[u]
    BY <1>2 DEF IInv, TypeOK
  <2>2. QED BY <2>1, TicketsStay
<1>6. Shielded'
  BY <1>2, <1>5, SameShield DEF IInv, Shielded
<1>7. Counted'
  <2> SUFFICES ASSUME NEW q \in Providers \ raced'
               PROVE  spent'[q] <= Least(failures'[q], Threshold - 1)
                                     + Cardinality(InHand(q)')
    BY DEF Counted
  <2>1. CASE q # p
    <3>1. failures'[q] = failures[q] /\ spent'[q] = spent[q]
      BY <1>2, <2>1 DEF IInv, TypeOK
    <3>2. InHand(q)' = InHand(q)
      BY <1>1, <1>2, <2>1, <3>1 DEF IInv, TypeOK, InHand
    <3>3. q \notin raced
      BY <1>3, <2>1
    <3>4. QED BY <3>1, <3>2, <3>3, SameCount DEF IInv
  <2>2. CASE q = p
    <3>1. failures'[q] = 0 /\ spent'[q] = 0
      BY <1>2, <2>2 DEF IInv, TypeOK
    <3>2. Cardinality(InHand(q)') \in Nat
      <4>1. InHand(q)' \in SUBSET Threads
        BY DEF InHand
      <4>2. QED BY <4>1, FewerThreads
    <3>3. QED BY <3>1, <3>2, Constants DEF Least
  <2>3. QED BY <2>1, <2>2
<1>8. Alone'
  <2>1. \A q \in Providers : Changing(q)' = Changing(q)
    BY <1>2 DEF IInv, TypeOK, Changing
  <2>2. \A q \in Providers : \A u \in Changing(q) : pc'[u] = pc[u]
    BY <1>2 DEF IInv, TypeOK, Changing
  <2>3. \A q \in Providers \ {p} : failures'[q] = failures[q]
    BY <1>2 DEF IInv, TypeOK
  <2>4. QED BY <1>2, <1>3, <2>1, <2>2, <2>3 DEF IInv, Alone
<1>9. QED
  BY <1>4, <1>6, <1>7, <1>8 DEF IInv

\* failures is read: by one thread at a time, or the provider is in raced.
LEMMA ReadKeeps ==
  ASSUME IInv, NEW t \in Threads, Read(t)
  PROVE  IInv'
<1>1. PICK p \in Providers : Order[at[t]] = p
  BY AtProvider DEF IInv, Read
<1>2. /\ pc[t] = "read" /\ pc' = [pc EXCEPT ![t] = "write"]
      /\ got' = [got EXCEPT ![t] = failures[p]]
      /\ UNCHANGED <<failures, cooling, at, attempt, attempted, outcome, late, spent>>
      /\ raced' = IF Changing(p) = {} THEN raced ELSE raced \cup {p}
  BY <1>1 DEF Read, GoTo, circuitVars
<1>3. raced' \subseteq Providers /\ raced \subseteq raced'
      /\ (p \notin raced' => Changing(p) = {})
  BY <1>2 DEF IInv, TypeOK
<1>4. TypeOK'
  BY <1>2, <1>3 DEF IInv, TypeOK
<1>5. \A q \in Providers : Tickets(q)' \subseteq Tickets(q) /\ InHand(q)' = InHand(q)
  <2>1. \A u \in Threads :
          \/ pc'[u] \notin {"call", "wait"}
          \/ pc'[u] = pc[u] /\ at'[u] = at[u] /\ attempt'[u] = attempt[u]
    BY <1>2 DEF IInv, TypeOK
  <2>2. \A q \in Providers : InHand(q)' = InHand(q)
    BY <1>2 DEF IInv, TypeOK, InHand
  <2>3. QED BY <2>1, <2>2, TicketsStay
<1>6. Shielded'
  BY <1>2, <1>5, SameShield DEF IInv, Shielded
<1>7. Counted'
  BY <1>2, <1>3, <1>5, SameCount DEF IInv, Counted
<1>8. Alone'
  <2> SUFFICES ASSUME NEW q \in Providers \ raced', NEW u \in Changing(q)'
               PROVE  /\ Changing(q)' \subseteq {u}
                      /\ pc'[u] = "write" => got'[u] = failures'[q]
    BY DEF Alone
  <2>1. CASE q # p
    <3>1. Changing(q)' = Changing(q) /\ u # t
      BY <1>1, <1>2, <2>1 DEF IInv, TypeOK, Changing
    <3>2. pc'[u] = pc[u] /\ got'[u] = got[u]
      BY <1>2, <3>1 DEF IInv, TypeOK, Changing
    <3>3. QED BY <1>2, <1>3, <3>1, <3>2 DEF IInv, Alone
  <2>2. CASE q = p
    <3>1. Changing(q)' \subseteq {t}
      BY <1>1, <1>2, <1>3, <2>2 DEF IInv, TypeOK, Changing
    <3>2. QED BY <1>2, <2>2, <3>1 DEF IInv, TypeOK
  <2>3. QED BY <2>1, <2>2
<1>9. QED
  BY <1>4, <1>6, <1>7, <1>8 DEF IInv

\* failures is written: a thread that was alone adds one, up to the threshold.
LEMMA WriteKeeps ==
  ASSUME IInv, NEW t \in Threads, Write(t)
  PROVE  IInv'
<1>1. PICK p \in Providers : Order[at[t]] = p
  BY AtProvider DEF IInv, Write
<1> DEFINE f == Least(got[t] + 1, Threshold)
<1>2. /\ pc[t] = "write" /\ pc' = [pc EXCEPT ![t] = "test"]
      /\ failures' = [failures EXCEPT ![p] = f]
      /\ UNCHANGED <<cooling, at, attempt, attempted, got, outcome, late, spent, raced>>
  BY <1>1 DEF Write, GoTo
<1>3. f \in 0..Threshold
  <2>1. Threshold \in Nat /\ got[t] \in 0..Threshold
    BY Constants DEF IInv, TypeOK
  <2>2. QED BY <2>1, Capped
<1>4. TypeOK'
  <2>1. failures' \in [Providers -> 0..Threshold]
    BY <1>2, <1>3 DEF IInv, TypeOK
  <2>2. QED BY <1>2, <2>1 DEF IInv, TypeOK
<1>5. \A q \in Providers : Tickets(q)' \subseteq Tickets(q) /\ Changing(q)' = Changing(q)
  <2>1. \A u \in Threads :
          \/ pc'[u] \notin {"call", "wait"}
          \/ pc'[u] = pc[u] /\ at'[u] = at[u] /\ attempt'[u] = attempt[u]
    BY <1>2 DEF IInv, TypeOK
  <2>2. \A q \in Providers : Changing(q)' = Changing(q)
    BY <1>2 DEF IInv, TypeOK, Changing
  <2>3. QED BY <2>1, <2>2, TicketsStay
<1>6. Shielded'
  BY <1>2, <1>5, SameShield DEF IInv, Shielded
<1>7. \A q \in Providers \ {p} : failures'[q] = failures[q]
  BY <1>2 DEF IInv, TypeOK
<1>8. t \in Changing(p)
  BY <1>1, <1>2 DEF Changing
<1>9. Counted'
  <2> SUFFICES ASSUME NEW q \in Providers \ raced'
               PROVE  spent'[q] <= Least(failures'[q], Threshold - 1)
                                     + Cardinality(InHand(q)')
    BY DEF Counted
  <2>1. CASE q # p
    <3>1. InHand(q)' = InHand(q)
      BY <1>1, <1>2, <1>7, <2>1 DEF IInv, TypeOK, InHand
    <3>2. QED BY <1>2, <1>7, <2>1, <3>1, SameCount DEF IInv
  <2>2. CASE q = p
    <3>1. Changing(p) \subseteq {t} /\ got[t] = failures[p]
      BY <1>2, <1>8, <2>2 DEF IInv, Alone
    <3>2. failures'[p] = Least(failures[p] + 1, Threshold)
      BY <1>2, <3>1 DEF IInv, TypeOK
    <3>3. /\ spent[p] <= Least(failures[p], Threshold - 1) + Cardinality(InHand(p))
          /\ failures[p] \in Nat /\ failures[p] <= Threshold /\ spent[p] \in Nat
      BY <1>2, <2>2, CountTypes DEF IInv, Counted
    <3>4. \A u \in Threads \ {t} : Order[at[u]] = p => pc[u] # "test"
      BY <3>1 DEF Changing
    <3>5. InHand(p) \in SUBSET Threads /\ t \in InHand(p)
      BY <1>1, <1>2 DEF InHand
    <3>6. CASE failures'[p] = Threshold
      <4>1. InHand(p)' = InHand(p)
        BY <1>1, <1>2, <3>4, <3>6 DEF IInv, TypeOK, InHand
      <4>2. Cardinality(InHand(p)) \in Nat
        BY <3>5, FewerThreads
      <4>3. QED BY <1>2, <2>2, <3>2, <3>3, <3>6, <4>1, <4>2, Constants DEF Least
    <3>7. CASE failures'[p] # Threshold
      <4>1. InHand(p)' = InHand(p) \ {t}
        BY <1>1, <1>2, <3>4, <3>7 DEF IInv, TypeOK, InHand
      <4>2. /\ Cardinality(InHand(p)) \in Nat
            /\ Cardinality(InHand(p)') = Cardinality(InHand(p)) - 1
        BY <3>5, <4>1, FewerThreads, FS_RemoveElement
      <4>3. QED BY <1>2, <2>2, <3>2, <3>3, <3>7, <4>2, Constants DEF Least
    <3>8. QED BY <3>6, <3>7
  <2>3. QED BY <2>1, <2>2
<1>10. Alone'
  <2> SUFFICES ASSUME NEW q \in Providers \ raced, NEW u \in Changing(q)
               PROVE  /\ Changing(q) \subseteq {u}
                      /\ pc'[u] = "write" => got[u] = failures'[q]
    BY <1>2, <1>5 DEF Alone
  <2>1. Changing(q) \subseteq {u} /\ (pc[u] = "write" => got[u] = failures[q])
    BY DEF IInv, Alone
  <2>2. CASE q # p
    <3>1. u # t
      BY <1>1, <2>2 DEF Changing
    <3>2. QED BY <1>2, <1>7, <2>1, <2>2, <3>1 DEF IInv, TypeOK, Changing
  <2>3. CASE q = p
    <3>1. u = t
      BY <1>8, <2>1, <2>3
    <3>2. QED BY <1>2, <2>1, <3>1 DEF IInv, TypeOK
  <2>4. QED BY <2>2, <2>3
<1>11. QED
  BY <1>4, <1>6, <1>9, <1>10 DEF IInv

\* The circuit opens: the late calls to come are those of the other threads.
LEMMA TestKeeps ==
  ASSUME IInv, NEW t \in Threads, Test(t)
  PROVE  IInv'
<1>1. PICK p \in Providers : Order[at[t]] = p
  BY AtProvider DEF IInv, Test
<1>2. /\ pc[t] = "test" /\ pc' = [pc EXCEPT ![t] = "choose"]
      /\ at' = [at EXCEPT ![t] = @ + 1]
      /\ got' = [got EXCEPT ![t] = 0]
      /\ UNCHANGED <<failures, attempt, attempted, outcome>>
      /\ IF failures[p] >= Threshold
         THEN /\ cooling' = [cooling EXCEPT ![p] = Cooldown]
              /\ late' = [late EXCEPT ![p] = 0]
              /\ spent' = [spent EXCEPT ![p] = 0]
              /\ raced' = IF Changing(p) = {t} THEN raced \ {p} ELSE raced
         ELSE UNCHANGED <<cooling, late, spent, raced>>
  BY <1>1 DEF Test, Due, GoTo
<1>a. /\ raced' \subseteq Providers
      /\ \A q \in Providers \ raced' :
           q \in raced => q = p /\ failures[p] >= Threshold /\ Changing(p) = {t}
  BY <1>2 DEF IInv, TypeOK
<1>3. TypeOK'
  <2>1. at' \in [Threads -> 1..Len(Order) + 1]
    <3>1. at[t] \in 1..Len(Order)
      BY <1>2, Places, AtProvider DEF IInv
    <3>2. QED BY <1>2, <3>1, Places DEF IInv, TypeOK
  <2>2. /\ cooling' \in [Providers -> 0..Cooldown]
        /\ late' \in [Providers -> 0..Calls + 1]
        /\ spent' \in [Providers -> 0..Needed + 1]
    <3>1. Cooldown \in 0..Cooldown /\ 0 \in 0..Calls + 1 /\ 0 \in 0..Needed + 1
      BY Constants
    <3>2. QED BY <1>2, <3>1 DEF IInv, TypeOK
  <2>3. got' \in [Threads -> 0..Threshold]
    BY <1>2, Constants DEF IInv, TypeOK
  <2>4. QED BY <1>2, <1>a, <2>1, <2>2, <2>3 DEF IInv, TypeOK
<1>4. \A q \in Providers \ {p} :
        failures'[q] = failures[q] /\ cooling'[q] = cooling[q]
          /\ late'[q] = late[q] /\ spent'[q] = spent[q]
  BY <1>2 DEF IInv, TypeOK
<1>5. \A q \in Providers : Tickets(q)' \subseteq Tickets(q)
  <2>1. \A u \in Threads :
          \/ pc'[u] \notin {"call", "wait"}
          \/ pc'[u] = pc[u] /\ at'[u] = at[u] /\ attempt'[u] = attempt[u]
    BY <1>2 DEF IInv, TypeOK
  <2>2. QED BY <2>1, TicketsStay
<1>6. Shielded'
  <2> SUFFICES ASSUME NEW q \in Providers, cooling'[q] > 0
               PROVE  late'[q] + Cardinality(Tickets(q)') <= Calls
    BY DEF Shielded
  <2>1. CASE q # p \/ ~(failures[p] >= Threshold)
    <3>1. cooling'[q] = cooling[q] /\ late'[q] = late[q]
      BY <1>2, <1>4, <2>1
    <3>2. QED BY <1>5, <3>1, SameShield DEF IInv
  <2>2. CASE q = p /\ failures[p] >= Threshold
    <3>1. late'[p] = 0
      BY <1>2, <2>2 DEF IInv, TypeOK
    <3>2. Tickets(p)' \in SUBSET (Threads \X (0..MaxRetries))
      BY DEF Tickets
    <3>3. \A x \in Tickets(p)' : x[1] # t
      BY <1>2 DEF IInv, TypeOK, Tickets
    <3>4. Cardinality(Tickets(p)') <= Calls /\ Cardinality(Tickets(p)') \in Nat
      BY <3>2, <3>3, OthersTickets, FewerTickets
    <3>5. QED BY <2>2, <3>1, <3>4
  <2>3. QED BY <2>1, <2>2
<1>7. Counted'
  <2> SUFFICES ASSUME NEW q \in Providers \ raced'
               PROVE  spent'[q] <= Least(failures'[q], Threshold - 1)
                                     + Cardinality(InHand(q)')
    BY DEF Counted
  <2>1. CASE q # p
    <3>1. InHand(q)' = InHand(q)
      BY <1>1, <1>2, <2>1 DEF IInv, TypeOK, InHand
    <3>2. QED BY <1>4, <1>a, <2>1, <3>1, SameCount DEF IInv
  <2>2. CASE q = p /\ ~(failures[p] >= Threshold)
    <3>1. failures[p] # Threshold
      BY <2>2, CountTypes, Constants DEF IInv
    <3>2. InHand(p)' = InHand(p)
      BY <1>1, <1>2, <3>1 DEF IInv, TypeOK, InHand
    <3>3. QED BY <1>2, <1>a, <2>2, <3>2, SameCount DEF IInv
  <2>3. CASE q = p /\ failures[p] >= Threshold
    <3>1. spent'[p] = 0
      BY <1>2, <2>3 DEF IInv, TypeOK
    <3>2. InHand(p)' \in SUBSET Threads
      BY DEF InHand
    <3>3. Cardinality(InHand(p)') \in Nat
      BY <3>2, FewerThreads
    <3>4. failures'[p] \in Nat
      BY <1>2, CountTypes DEF IInv
    <3>5. QED BY <2>3, <3>1, <3>3, <3>4, Constants DEF Least
  <2>4. QED BY <2>1, <2>2, <2>3
<1>8. Alone'
  <2>1. \A q \in Providers : Changing(q)' \subseteq Changing(q) \ {t}
    BY <1>2 DEF IInv, TypeOK, Changing
  <2>2. \A q \in Providers : \A u \in Changing(q) \ {t} :
          pc'[u] = pc[u] /\ got'[u] = got[u]
    BY <1>2 DEF IInv, TypeOK, Changing
  <2>3. ASSUME NEW q \in Providers \ raced', NEW u \in Changing(q)'
        PROVE  /\ Changing(q)' \subseteq {u}
               /\ pc'[u] = "write" => got'[u] = failures'[q]
    <3>1. CASE q \in raced
      BY <1>a, <2>1, <3>1
    <3>2. CASE q \notin raced
      BY <1>2, <2>1, <2>2, <3>2 DEF IInv, Alone
    <3>3. QED BY <3>1, <3>2
  <2>4. QED BY <2>3 DEF Alone
<1>9. QED
  BY <1>3, <1>6, <1>7, <1>8 DEF IInv

\* Time passes.
LEMMA TickKeeps ==
  ASSUME IInv, Tick
  PROVE  IInv'
<1>1. /\ cooling' = [p \in Providers |-> OneTickLess(p)]
      /\ late' = [p \in Providers |-> IF OneTickLess(p) = 0 THEN 0 ELSE late[p]]
      /\ UNCHANGED <<failures, pc, at, attempt, attempted, got, outcome, spent, raced>>
  BY DEF Tick, requestVars
<1>2. \A p \in Providers : OneTickLess(p) \in 0..Cooldown
                             /\ (OneTickLess(p) # 0 => cooling[p] > 0)
  BY CountTypes, Constants DEF IInv, OneTickLess
<1>3. \A p \in Providers : late'[p] \in 0..Calls + 1
                             /\ (cooling'[p] > 0 => late'[p] = late[p] /\ cooling[p] > 0)
  BY <1>1, <1>2, CountTypes, Constants DEF IInv
<1>4. TypeOK'
  BY <1>1, <1>2, <1>3 DEF IInv, TypeOK
<1>5. \A p \in Providers : /\ Tickets(p)' = Tickets(p)
                           /\ InHand(p)' = InHand(p)
                           /\ Changing(p)' = Changing(p)
  BY <1>1 DEF Tickets, InHand, Changing
<1>6. Shielded'
  BY <1>3, <1>5 DEF IInv, Shielded
<1>7. Counted'
  BY <1>1, <1>5 DEF IInv, Counted
<1>8. Alone'
  BY <1>1, <1>5 DEF IInv, Alone
<1>9. QED
  BY <1>4, <1>6, <1>7, <1>8 DEF IInv

\* The invariant holds in the beginning ...
LEMMA InitIInv == Init => IInv
<1> SUFFICES ASSUME Init PROVE IInv
  OBVIOUS
<1>1. attempted \in [Threads -> BOOLEAN]
  BY DEF Init
<1>2. TypeOK
  BY <1>1, Constants, Places DEF Init, TypeOK
<1>3. Shielded
  BY DEF Init, Shielded
<1>4. Counted
  <2>1. \A p \in Providers : InHand(p) \in SUBSET Threads
    BY DEF InHand
  <2>2. \A p \in Providers : Cardinality(InHand(p)) \in Nat
    BY <2>1, FewerThreads
  <2>3. QED BY <2>2, Constants DEF Init, Counted, Least
<1>5. Alone
  BY DEF Init, Alone, Changing
<1>6. QED
  BY <1>2, <1>3, <1>4, <1>5 DEF IInv

\* ... and every step keeps it.
LEMMA NextIInv == IInv /\ [Next]_vars => IInv'
<1> SUFFICES ASSUME IInv, [Next]_vars PROVE IInv'
  OBVIOUS
<1>1. ASSUME NEW t \in Threads, Start(t) \/ Go(t)
      PROVE  IInv'
  BY <1>1, ChooseKeeps, AskKeeps, CallKeeps, AnswerKeeps, FailTransientlyKeeps,
     FailForGoodKeeps, ReadKeeps, WriteKeeps, TestKeeps
  DEF Go, Fail
<1>2. CASE Tick
  BY <1>2, TickKeeps
<1>3. CASE UNCHANGED vars
  BY <1>3 DEF vars, circuitVars, requestVars, IInv, TypeOK, Shielded, Counted, Alone,
              Tickets, InHand, Changing
<1>4. QED
  BY <1>1, <1>2, <1>3 DEF Next

\* The invariant holds in every reachable state.
THEOREM Invariance == Spec => []IInv
<1>1. Init => IInv
  BY InitIInv
<1>2. IInv /\ [Next]_vars => IInv'
  BY NextIInv
<1>3. QED
  BY <1>1, <1>2, PTL DEF Spec

-----------------------------------------------------------------------------
(* What the router promises.                                               *)

\* Every variable keeps to its values.
THEOREM TypeCorrect == Spec => []TypeOK
<1>1. IInv => TypeOK
  BY DEF IInv
<1>2. QED
  BY <1>1, Invariance, PTL

\* generate() looks at opened_until before the calls and never again: while the
\* circuit of a provider is open it is called at most once, with the retries, for
\* each other thread.
THEOREM CircuitShields == Spec => []OpenShields
<1>1. IInv => OpenShields
  <2> SUFFICES ASSUME IInv, NEW p \in Providers, cooling[p] > 0
               PROVE  late[p] <= Calls
    BY DEF OpenShields
  <2>1. Tickets(p) \in SUBSET (Threads \X (0..MaxRetries))
    BY DEF Tickets
  <2>2. Cardinality(Tickets(p)) \in Nat
    BY <2>1, FewerTickets
  <2>3. late[p] + Cardinality(Tickets(p)) <= Calls /\ late[p] \in Nat
    BY CountTypes DEF IInv, Shielded
  <2>4. QED BY <2>2, <2>3, Constants
<1>2. QED
  BY <1>1, Invariance, PTL

\* failures is counted and compared without a lock (router.py:123, 138-140): a provider
\* that keeps failing is brought no more requests between two openings of its circuit
\* than the threshold and one for each other thread.  Nothing is said of a provider
\* from when two threads changed its count at once until it answers, or its circuit
\* opens, with no other thread in the middle of a change.
THEOREM FailuresAreContained == Spec => []FailingIsContained
<1>1. IInv => FailingIsContained
  <2> SUFFICES ASSUME IInv, NEW p \in Providers \ raced
               PROVE  spent[p] <= Needed
    BY DEF FailingIsContained
  <2>1. InHand(p) \in SUBSET Threads
    BY DEF InHand
  <2>2. /\ Cardinality(InHand(p)) \in Nat
        /\ Cardinality(InHand(p)) <= Cardinality(Threads)
    BY <2>1, FewerThreads
  <2>3. /\ spent[p] <= Least(failures[p], Threshold - 1) + Cardinality(InHand(p))
        /\ failures[p] \in Nat /\ spent[p] \in Nat
    BY CountTypes DEF IInv, Counted
  <2>4. QED BY <2>2, <2>3, Constants DEF Least
<1>2. QED
  BY <1>1, Invariance, PTL

=============================================================================

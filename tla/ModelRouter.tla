----------------------------- MODULE ModelRouter -----------------------------
(***************************************************************************)
(* ModelRouter.generate (packages/model_router/router.py): the handler     *)
(* threads of the orchestrator ask the configured providers, in order, for *)
(* a response plan.  A provider is retried after a transient failure; when *)
(* its requests keep failing its circuit opens for a cooldown.             *)
(*                                                                         *)
(* The circuits are shared by all threads and have no lock.  What a        *)
(* provider returns is a plan, a transient failure (a timeout, a rate      *)
(* limit, a server error) or a failure for good, as an answer that is no   *)
(* valid plan.  An expiry time is what is left of it, so the clock needs   *)
(* no bound.  No run bounds the number of requests or of failures.         *)
(***************************************************************************)
EXTENDS Naturals, Sequences, FiniteSets

CONSTANTS Threads,      \* handler threads
          Providers,
          Order,        \* providers of the router, in the order it tries them
          Capable,      \* providers with the capabilities the requests need
          MaxRetries,   \* max_retries of a request
          Threshold,    \* failure_threshold
          Cooldown      \* cooldown_seconds, in ticks

ASSUME RouterConstants ==
  /\ Order \in Seq(Providers)
  /\ \A i, j \in DOMAIN Order : Order[i] = Order[j] => i = j
  /\ Capable \subseteq Providers
  /\ MaxRetries \in Nat
  /\ {Threshold, Cooldown} \subseteq Nat \ {0}
  /\ IsFiniteSet(Threads) /\ Threads # {}

VARIABLES
  failures,     \* _Circuit.failures, up to Threshold
  cooling,      \* what is left until _Circuit.opened_until
  pc, at,       \* what each thread does, and with which place of Order
  attempt,      \* attempt, the retries so far
  attempted,    \* attempted: some provider was called for the request
  got,          \* the failures a thread has read and is about to write back
  outcome,      \* how the last request of a thread ended
  late,         \* history: calls of a provider since its circuit opened
  spent,        \* history: requests brought to a provider since it last answered
                \* or its circuit last opened
  raced         \* history: providers with a lost or overtaken update of failures,
                \* until an answer or an opening that no other update overtakes

circuitVars == <<failures, cooling>>
requestVars == <<pc, at, attempt, attempted, got, outcome>>
vars == <<circuitVars, requestVars, late, spent, raced>>

Calls == (Cardinality(Threads) - 1) * (MaxRetries + 1)
Needed == Threshold + Cardinality(Threads) - 1

TypeOK ==
  /\ failures \in [Providers -> 0..Threshold]
  /\ cooling \in [Providers -> 0..Cooldown]
  /\ pc \in [Threads -> {"idle", "choose", "call", "wait", "read", "write", "test"}]
  /\ at \in [Threads -> 1..Len(Order) + 1]
  /\ attempt \in [Threads -> 0..MaxRetries]
  /\ attempted \in [Threads -> BOOLEAN]
  /\ got \in [Threads -> 0..Threshold]
  /\ outcome \in [Threads -> {"none", "plan", "no_provider", "unavailable"}]
  /\ late \in [Providers -> 0..Calls + 1]
  /\ spent \in [Providers -> 0..Needed + 1]
  /\ raced \subseteq Providers
  \* Only a thread in the middle of a request is at a provider of the order.
  /\ \A t \in Threads : pc[t] \notin {"idle", "choose"} => at[t] \in DOMAIN Order

Init ==
  /\ failures = [p \in Providers |-> 0] /\ cooling = [p \in Providers |-> 0]
  /\ pc = [t \in Threads |-> "idle"] /\ at = [t \in Threads |-> 1]
  /\ attempt = [t \in Threads |-> 0]
  /\ attempted = [t \in Threads |-> FALSE]
  /\ got = [t \in Threads |-> 0]
  /\ outcome = [t \in Threads |-> "none"]
  /\ late = [p \in Providers |-> 0] /\ spent = [p \in Providers |-> 0]
  /\ raced = {}

Least(m, n) == IF m < n THEN m ELSE n
GoTo(t, stage) == pc' = [pc EXCEPT ![t] = stage]

\* The threads that are changing the failures of provider p.
Changing(p) == {t \in Threads : pc[t] \in {"write", "test"} /\ Order[at[t]] = p}

-----------------------------------------------------------------------------
(* generate(): the loop over the providers.                                *)

\* An endpoint or a platform reply asks for a plan.
Start(t) ==
  /\ pc[t] = "idle"
  /\ GoTo(t, "choose")
  /\ at' = [at EXCEPT ![t] = 1]
  /\ attempted' = [attempted EXCEPT ![t] = FALSE]
  /\ outcome' = [outcome EXCEPT ![t] = "none"]
  /\ UNCHANGED <<circuitVars, attempt, got, late, spent, raced>>

\* The circuit is not looked at.
Unchecked(p) == p \in Capable

\* A provider that is asked: it has the capabilities and its circuit is closed.
Askable(p) == p \in Capable /\ cooling[p] = 0

Skip(t) ==
  /\ pc[t] = "choose" /\ at[t] \in DOMAIN Order
  /\ ~Askable(Order[at[t]])
  /\ at' = [at EXCEPT ![t] = @ + 1]
  /\ UNCHANGED <<circuitVars, pc, attempt, attempted, got, outcome, late, spent, raced>>

Ask(t) ==
  LET p == Order[at[t]] IN
  /\ pc[t] = "choose" /\ at[t] \in DOMAIN Order
  /\ Askable(p)
  /\ attempted' = [attempted EXCEPT ![t] = TRUE]
  /\ attempt' = [attempt EXCEPT ![t] = 0]
  /\ spent' = [spent EXCEPT ![p] = Least(@ + 1, Needed + 1)]
  /\ GoTo(t, "call")
  /\ UNCHANGED <<circuitVars, at, got, outcome, late, raced>>

\* _invoke() hands the call to a thread of its own and waits for it.
Call(t) ==
  LET p == Order[at[t]] IN
  /\ pc[t] = "call"
  /\ late' = [late EXCEPT ![p] = IF cooling[p] > 0 THEN Least(@ + 1, Calls + 1) ELSE 0]
  /\ GoTo(t, "wait")
  /\ UNCHANGED <<circuitVars, at, attempt, attempted, got, outcome, spent, raced>>

\* A plan that passes every check: the count starts again, an open circuit stays open.
Answer(t) ==
  LET p == Order[at[t]] IN
  /\ pc[t] = "wait"
  /\ failures' = [failures EXCEPT ![p] = 0]
  /\ outcome' = [outcome EXCEPT ![t] = "plan"]
  /\ spent' = [spent EXCEPT ![p] = 0]
  /\ raced' = IF Changing(p) = {} THEN raced \ {p} ELSE raced \cup {p}
  /\ GoTo(t, "idle")
  /\ UNCHANGED <<cooling, at, attempt, attempted, got, late>>

\* One retry too many.
RetryOnceMore(t) == attempt[t] <= MaxRetries

Retry(t) == attempt[t] < MaxRetries

\* A timeout, a rate limit or a server error.  A provider that timed out runs on,
\* in a thread nobody waits for.
FailTransiently(t) ==
  /\ pc[t] = "wait"
  /\ IF Retry(t)
     THEN GoTo(t, "call") /\ attempt' = [attempt EXCEPT ![t] = @ + 1]
     ELSE GoTo(t, "read") /\ UNCHANGED attempt
  /\ UNCHANGED <<circuitVars, at, attempted, got, outcome, late, spent, raced>>

\* Anything else, such as a refused key or an answer that is no valid plan: the
\* provider is not tried again.
FailForGood(t) ==
  /\ pc[t] = "wait"
  /\ GoTo(t, "read")
  /\ UNCHANGED <<circuitVars, at, attempt, attempted, got, outcome, late, spent, raced>>

\* failures += 1 is a read ...
Read(t) ==
  LET p == Order[at[t]] IN
  /\ pc[t] = "read"
  /\ got' = [got EXCEPT ![t] = failures[p]]
  /\ raced' = IF Changing(p) = {} THEN raced ELSE raced \cup {p}
  /\ GoTo(t, "write")
  /\ UNCHANGED <<circuitVars, at, attempt, attempted, outcome, late, spent>>

\* ... and a write.
Write(t) ==
  /\ pc[t] = "write"
  /\ failures' = [failures EXCEPT ![Order[at[t]]] = Least(got[t] + 1, Threshold)]
  /\ GoTo(t, "test")
  /\ UNCHANGED <<cooling, at, attempt, attempted, got, outcome, late, spent, raced>>

\* One failed request more than the threshold is needed.
DueLate(p, t) == failures[p] >= Threshold /\ got[t] >= Threshold

Due(p, t) == failures[p] >= Threshold

\* The circuit opens when the count has reached the threshold; it is not reset.
Test(t) ==
  LET p == Order[at[t]] IN
  /\ pc[t] = "test"
  /\ IF Due(p, t)
     THEN /\ cooling' = [cooling EXCEPT ![p] = Cooldown]
          /\ late' = [late EXCEPT ![p] = 0]
          /\ spent' = [spent EXCEPT ![p] = 0]
          /\ raced' = IF Changing(p) = {t} THEN raced \ {p} ELSE raced
     ELSE UNCHANGED <<cooling, late, spent, raced>>
  /\ at' = [at EXCEPT ![t] = @ + 1]
  /\ got' = [got EXCEPT ![t] = 0]
  /\ GoTo(t, "choose")
  /\ UNCHANGED <<failures, attempt, attempted, outcome>>

\* Every provider failed or was skipped.  When none was called the request ends
\* in NoProviderError (HTTP 500), otherwise in ProviderUnavailableError (503).
GiveUp(t) ==
  /\ pc[t] = "choose" /\ at[t] \notin DOMAIN Order
  /\ outcome' = [outcome EXCEPT ![t] = IF attempted[t] THEN "unavailable" ELSE "no_provider"]
  /\ GoTo(t, "idle")
  /\ UNCHANGED <<circuitVars, at, attempt, attempted, got, late, spent, raced>>

\* An open circuit that stays open.
TickNever(p) == cooling[p]

\* One tick less until the circuit of p closes.
OneTickLess(p) == IF cooling[p] = 0 THEN 0 ELSE cooling[p] - 1

Tick ==
  /\ \E p \in Providers : cooling[p] > 0
  /\ cooling' = [p \in Providers |-> OneTickLess(p)]
  /\ late' = [p \in Providers |-> IF OneTickLess(p) = 0 THEN 0 ELSE late[p]]
  /\ UNCHANGED <<failures, requestVars, spent, raced>>

-----------------------------------------------------------------------------
Fail(t) == FailTransiently(t) \/ FailForGood(t)

\* What a thread does in a request: it goes on by itself, and the timeout of a
\* call sees to it that a provider that says nothing has failed.
Go(t) == \/ Skip(t) \/ Ask(t) \/ Call(t) \/ Answer(t) \/ Fail(t)
         \/ Read(t) \/ Write(t) \/ Test(t) \/ GiveUp(t)

Next == (\E t \in Threads : Start(t) \/ Go(t)) \/ Tick

Fairness == (\A t \in Threads : WF_vars(Go(t))) /\ WF_vars(Tick)

Spec == Init /\ [][Next]_vars /\ Fairness

-----------------------------------------------------------------------------
(* Properties.                                                             *)

\* While its circuit is open a provider is called only by requests that had chosen
\* it before: each other thread can have one, with its retries.  Nothing locks
\* the circuit between the test of opened_until (router.py:117) and the calls
\* (router.py:124), so calls may come late, but not more than these.
OpenShields == \A p \in Providers : cooling[p] > 0 => late[p] <= Calls

\* A provider that does not answer is taken out of use: between two openings of
\* its circuit it is brought no more requests than the threshold and one for each
\* other thread.  Excepted is a provider whose count two threads changed at the
\* same time (router.py:138: a lost update forgets a failure), from then until it
\* answers, or its circuit opens, with no other thread in the middle of a change.
FailingIsContained == \A p \in Providers \ raced : spent[p] <= Needed

\* The first capable provider comes back: once it has stopped failing its circuit
\* closes for good, although neither the end of a cooldown nor an answer resets
\* all of it, and from then on every plan is its own.
FirstAt(i) == Order[i] \in Capable /\ \A j \in 1..i - 1 : Order[j] \notin Capable
FirstComesBack ==
  \A i \in DOMAIN Order :
    FirstAt(i) /\ <>[][\A t \in Threads : at[t] = i => ~Fail(t)]_vars
      => <>[][\A t \in Threads : Answer(t) => at[t] = i]_vars
=============================================================================

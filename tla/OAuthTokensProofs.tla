-------------------------- MODULE OAuthTokensProofs --------------------------
(***************************************************************************)
(* Proofs about OAuthTokens, for any providers, states and threads, any    *)
(* number of tokens and restarts, with and without the token file.         *)
(***************************************************************************)
EXTENDS OAuthTokens, TLAPS

-----------------------------------------------------------------------------
(* The inductive invariant.                                                *)

\* The stages of a thread that has a state of a flow.
WithState == {"issue", "consume", "exchange"}

\* A thread works for a provider, and in a flow with a state.
Engaged ==
  \A h \in Handlers :
    /\ pc[h] = "idle" => job[h] = NoJob
    /\ pc[h] # "idle" => job[h].of \in Providers
    /\ pc[h] \in WithState => job[h].state \in States

\* The state that a thread hands out is nobody else's, and no flow has it yet.
Fresh ==
  \A h \in Handlers : pc[h] = "issue" =>
    /\ begun[job[h].state] = None
    /\ \A g \in Handlers \ {h} : job[g].state # job[h].state

\* A flow that was not begun has no entry, no thread and no token.
NotBegun ==
  /\ \A s \in States : begun[s] = None => pending[s] = None /\ exchanges[s] = <<>>
  /\ \A h \in Handlers : pc[h] \in {"consume", "exchange"} => begun[job[h].state] # None

\* The right to exchange a code is in one place: in _pending ...
EntryIsUnused ==
  \A s \in States : pending[s] # None =>
    /\ pending[s] = begun[s]
    /\ exchanges[s] = <<>>
    /\ \A h \in Handlers : pc[h] = "exchange" => job[h].state # s

\* ... or in the one thread that took the entry.
TakenOnce ==
  \A h \in Handlers : pc[h] = "exchange" =>
    /\ job[h].of = begun[job[h].state]
    /\ exchanges[job[h].state] = <<>>
    /\ \A g \in Handlers : pc[g] = "exchange" /\ job[g].state = job[h].state => g = h

\* One thread at a time in the token file: what it will rename is what it read
\* with its own token put in, and the file is whole.
OneInFile ==
  ~overlapped =>
    \A h \in Handlers : pc[h] \in InFile =>
      /\ \A g \in Handlers : pc[g] \in InFile => g = h
      /\ encrypted
      /\ job[h].table = [store EXCEPT ![job[h].of] = job[h].token]
      /\ pc[h] # "open" => job[h].into = "tmp"
      /\ pc[h] = "rename" => ~tmp.torn /\ tmp.tokens = job[h].table

\* One request at a time on a provider that is not in raced.
Alone ==
  \A p \in Providers \ raced : \A g, h \in Handlers :
    /\ job[g].of = p /\ pc[g] \notin Unbound
    /\ job[h].of = p /\ pc[h] \notin Unbound
    => g = h

\* What is in the store is what was answered last, or is about to be answered.
Settled ==
  ~overlapped =>
    \A p \in Providers \ raced :
      /\ \/ store[p] = told[p]
         \/ \E h \in Handlers : job[h].of = p /\ pc[h] = "install"
      /\ \A h \in Handlers : job[h].of = p /\ pc[h] = "install" => store[p] = job[h].token
      /\ senders[p] \in {told[p], 0}

IInv ==
  /\ TypeOK
  /\ Engaged
  /\ Fresh
  /\ NotBegun
  /\ EntryIsUnused
  /\ TakenOnce
  /\ ExchangedOnceAsBegun
  /\ OneInFile
  /\ FileStaysReadable
  /\ Alone
  /\ Settled

-----------------------------------------------------------------------------
(* The locals of a thread.                                                 *)

\* The locals of a thread that has no request, and of one that begins a request.
LEMMA Locals ==
  /\ NoJob \in Job /\ NoJob.of = None /\ NoJob.state = None
  /\ Empty \in Table /\ 0 \in Tokens
  /\ \A p \in Providers, s \in States \cup {None}, kept \in SUBSET States :
       /\ JobOn(p, s, kept) \in Job
       /\ JobOn(p, s, kept).of = p
       /\ JobOn(p, s, kept).state = s
<1>1. 0 \in Tokens
  BY TokenConstants DEF Tokens
<1>2. Empty \in Table
  BY <1>1 DEF Empty, Table
<1>3. QED
  BY <1>1, <1>2 DEF NoJob, JobOn, Job

\* What an assignment to one of the locals leaves as it was.
LEMMA LocalsChange ==
  ASSUME NEW j \in Job, NEW t \in Tokens, NEW table \in Table,
         NEW into \in {"nothing", "tmp", "file"}
  PROVE  /\ [j EXCEPT !.token = t] \in Job
         /\ [j EXCEPT !.token = t].of = j.of /\ [j EXCEPT !.token = t].state = j.state
         /\ [j EXCEPT !.table = table] \in Job
         /\ [j EXCEPT !.table = table].of = j.of
         /\ [j EXCEPT !.table = table].state = j.state
         /\ [j EXCEPT !.table = table].token = j.token
         /\ [j EXCEPT !.table = table].table = table
         /\ [j EXCEPT !.into = into] \in Job
         /\ [j EXCEPT !.into = into].of = j.of
         /\ [j EXCEPT !.into = into].state = j.state
         /\ [j EXCEPT !.into = into].token = j.token
         /\ [j EXCEPT !.into = into].table = j.table
         /\ [j EXCEPT !.into = into].into = into
<1>1. /\ [j EXCEPT !.token = t] \in Job
      /\ [j EXCEPT !.token = t].of = j.of /\ [j EXCEPT !.token = t].state = j.state
  BY DEF Job
<1>2. /\ [j EXCEPT !.table = table] \in Job
      /\ [j EXCEPT !.table = table].of = j.of
      /\ [j EXCEPT !.table = table].state = j.state
      /\ [j EXCEPT !.table = table].token = j.token
      /\ [j EXCEPT !.table = table].table = table
  BY DEF Job
<1>3. /\ [j EXCEPT !.into = into] \in Job
      /\ [j EXCEPT !.into = into].of = j.of
      /\ [j EXCEPT !.into = into].state = j.state
      /\ [j EXCEPT !.into = into].token = j.token
      /\ [j EXCEPT !.into = into].table = j.table
      /\ [j EXCEPT !.into = into].into = into
  BY DEF Job
<1>4. QED
  BY <1>1, <1>2, <1>3

\* The locals of a thread, one by one.
LEMMA JobTypes ==
  ASSUME TypeOK, NEW h \in Handlers
  PROVE  /\ job[h] \in Job /\ pc[h] \in Stages
         /\ job[h].of \in Providers \cup {None} /\ job[h].state \in States \cup {None}
         /\ job[h].kept \subseteq States /\ job[h].token \in Tokens
         /\ job[h].table \in Table /\ job[h].into \in {"nothing", "tmp", "file"}
BY DEF TypeOK, Job

-----------------------------------------------------------------------------
(* What most steps leave alone.                                            *)

\* A step outside the flows.
LEMMA FlowsStay ==
  ASSUME IInv, UNCHANGED <<pending, begun, exchanges>>,
         \A g \in Handlers :
           /\ job'[g].state \in {job[g].state, None}
           /\ pc'[g] \in WithState =>
                /\ pc'[g] = pc[g]
                /\ job'[g].of = job[g].of /\ job'[g].state = job[g].state
  PROVE  (Fresh /\ NotBegun /\ EntryIsUnused /\ TakenOnce /\ ExchangedOnceAsBegun)'
<1>1. Fresh'
  BY TokenConstants DEF IInv, Engaged, Fresh, WithState
<1>2. (NotBegun /\ EntryIsUnused /\ TakenOnce)'
  BY DEF IInv, NotBegun, EntryIsUnused, TakenOnce, WithState
<1>3. ExchangedOnceAsBegun'
  BY DEF IInv, ExchangedOnceAsBegun
<1>4. QED
  BY <1>1, <1>2, <1>3

\* A step outside the token store.
LEMMA StoreStays ==
  ASSUME IInv,
         UNCHANGED <<encrypted, store, torn, tmp, overlapped, senders, told, crashes>>,
         raced \subseteq raced',
         \A g \in Handlers :
           /\ pc'[g] \in InFile \cup {"install"} =>
                /\ pc'[g] = pc[g]
                /\ job'[g].of = job[g].of /\ job'[g].token = job[g].token
                /\ job'[g].table = job[g].table /\ job'[g].into = job[g].into
           /\ pc[g] = "install" => pc'[g] = "install"
  PROVE  (OneInFile /\ FileStaysReadable /\ Settled)'
<1>1. OneInFile'
  <2> SUFFICES ASSUME ~overlapped', NEW h \in Handlers, pc'[h] \in InFile
               PROVE  /\ \A g \in Handlers : pc'[g] \in InFile => g = h
                      /\ encrypted'
                      /\ job'[h].table = [store' EXCEPT ![job'[h].of] = job'[h].token]
                      /\ pc'[h] # "open" => job'[h].into = "tmp"
                      /\ pc'[h] = "rename" => ~tmp'.torn /\ tmp'.tokens = job'[h].table
    BY DEF OneInFile, InFile
  <2>1. ~overlapped /\ pc[h] \in InFile
    OBVIOUS
  <2>2. encrypted'
    BY <2>1 DEF IInv, OneInFile
  <2>3. QED BY <2>1, <2>2 DEF IInv, OneInFile
<1>2. FileStaysReadable'
  BY DEF IInv, FileStaysReadable
<1>3. Settled'
  BY DEF IInv, Settled
<1>4. QED
  BY <1>1, <1>2, <1>3

\* No thread begins to change a token.
LEMMA NobodyJoins ==
  ASSUME IInv, raced \subseteq raced',
         \A g \in Handlers :
           pc'[g] \notin Unbound => pc[g] \notin Unbound /\ job'[g].of = job[g].of
  PROVE  Alone'
BY DEF IInv, Alone

\* Thread h does: two requests on one provider put it in raced.
LEMMA JoiningRaces ==
  ASSUME IInv, NEW h \in Handlers, Race(h, job'[h].of),
         \A g \in Handlers \ {h} : pc'[g] = pc[g] /\ job'[g].of = job[g].of
  PROVE  Alone'
<1>1. raced \subseteq raced'
  BY DEF Race
<1>2. job'[h].of \notin raced' =>
        \A g \in Handlers \ {h} : job[g].of = job'[h].of => pc[g] \in Unbound
  BY DEF Race, Racing
<1>3. QED
  BY <1>1, <1>2 DEF IInv, Alone

-----------------------------------------------------------------------------
(* The steps of a flow.                                                    *)

\* issue() draws a state and copies the dictionary.
LEMMA BeginKeeps ==
  ASSUME IInv, NEW h \in Handlers, NEW p \in Providers, NEW s \in States, Begin(h, p, s)
  PROVE  IInv'
<1> DEFINE j == JobOn(p, s, (states \cup {s}) \ old)
<1>1. /\ pc[h] = "idle" /\ pc' = [pc EXCEPT ![h] = "issue"]
      /\ job' = [job EXCEPT ![h] = j]
      /\ begun[s] = None /\ \A g \in Handlers : job[g].state # s
      /\ states' = states \cup {s}
      /\ UNCHANGED <<old, pending, begun, exchanges, fileVars, senders, issued, told,
                     raced, fixed>>
  BY DEF Begin, GoTo
<1>2. j \in Job /\ j.of = p /\ j.state = s
  <2>1. (states \cup {s}) \ old \in SUBSET States
    BY DEF IInv, TypeOK
  <2>2. QED BY <2>1, Locals
<1> HIDE DEF j
<1>3. /\ job'[h] = j /\ pc'[h] = "issue"
      /\ \A g \in Handlers \ {h} : pc'[g] = pc[g] /\ job'[g] = job[g]
  BY <1>1 DEF IInv, TypeOK
<1>4. (TypeOK /\ Engaged)'
  <2>1. pc' \in [Handlers -> Stages] /\ job' \in [Handlers -> Job] /\ states' \subseteq States
    BY <1>1, <1>2 DEF IInv, TypeOK, Stages
  <2>2. TypeOK'
    BY <1>1, <2>1 DEF IInv, TypeOK, fileVars, fixed
  <2>3. Engaged'
    BY <1>2, <1>3 DEF IInv, Engaged, WithState
  <2>4. QED BY <2>2, <2>3
<1>5. Fresh'
  BY <1>1, <1>2, <1>3 DEF IInv, Fresh
<1>6. (NotBegun /\ EntryIsUnused /\ TakenOnce /\ ExchangedOnceAsBegun)'
  BY <1>1, <1>3 DEF IInv, NotBegun, EntryIsUnused, TakenOnce, ExchangedOnceAsBegun
<1>7. (OneInFile /\ FileStaysReadable /\ Settled)'
  BY <1>1, <1>3, StoreStays DEF InFile, fileVars, fixed
<1>8. Alone'
  BY <1>1, <1>3, NobodyJoins DEF Unbound
<1>9. QED
  BY <1>4, <1>5, <1>6, <1>7, <1>8 DEF IInv

\* begin() keeps the flow in _pending, and the state is handed out.
LEMMA BegunKeeps ==
  ASSUME IInv, NEW h \in Handlers, Begun(h)
  PROVE  IInv'
<1>1. PICK p \in Providers, s \in States : job[h].of = p /\ job[h].state = s
  BY DEF IInv, Engaged, WithState, Begun
<1>2. /\ pc[h] = "issue" /\ pc' = [pc EXCEPT ![h] = "idle"]
      /\ job' = [job EXCEPT ![h] = NoJob]
      /\ states' = job[h].kept
      /\ pending' = [pending EXCEPT ![s] = p]
      /\ begun' = [begun EXCEPT ![s] = p]
      /\ UNCHANGED <<old, exchanges, fileVars, senders, issued, told, raced, fixed>>
  BY <1>1 DEF Begun, Finish, GoTo
<1>3. /\ job'[h] = NoJob /\ pc'[h] = "idle"
      /\ \A g \in Handlers \ {h} : pc'[g] = pc[g] /\ job'[g] = job[g]
      /\ pending'[s] = p /\ begun'[s] = p /\ p # None
      /\ \A r \in States \ {s} : pending'[r] = pending[r] /\ begun'[r] = begun[r]
  BY <1>2, TokenConstants DEF IInv, TypeOK
<1>4. /\ begun[s] = None /\ exchanges[s] = <<>>
      /\ \A g \in Handlers \ {h} : job[g].state # s
  BY <1>1, <1>2 DEF IInv, Fresh, NotBegun
<1>5. (TypeOK /\ Engaged)'
  <2>1. pc' \in [Handlers -> Stages] /\ job' \in [Handlers -> Job]
    BY <1>2, Locals DEF IInv, TypeOK, Stages
  <2>2. states' \subseteq States
    BY <1>2, JobTypes DEF IInv
  <2>3. /\ pending' \in [States -> Providers \cup {None}]
        /\ begun' \in [States -> Providers \cup {None}]
    BY <1>2 DEF IInv, TypeOK
  <2>4. TypeOK'
    BY <1>2, <2>1, <2>2, <2>3 DEF IInv, TypeOK, fileVars, fixed
  <2>5. Engaged'
    BY <1>3 DEF IInv, Engaged, WithState
  <2>6. QED BY <2>4, <2>5
<1>6. Fresh'
  <2> SUFFICES ASSUME NEW g \in Handlers, pc'[g] = "issue"
               PROVE  /\ begun'[job'[g].state] = None
                      /\ \A k \in Handlers \ {g} : job'[k].state # job'[g].state
    BY DEF Fresh
  <2>1. g # h /\ job'[g] = job[g] /\ pc[g] = "issue"
    BY <1>3
  <2>2. job[g].state \in States \ {s}
    BY <1>4, <2>1 DEF IInv, Engaged, WithState
  <2>3. NoJob.state # job[g].state
    BY <2>2, Locals, TokenConstants
  <2>4. QED BY <1>3, <2>1, <2>2, <2>3 DEF IInv, Fresh
<1>7. NotBegun'
  <2>1. ASSUME NEW g \in Handlers, pc'[g] \in {"consume", "exchange"}
        PROVE  begun'[job'[g].state] # None
    <3>1. g # h /\ job'[g] = job[g] /\ pc[g] = pc'[g]
      BY <1>3, <2>1
    <3>2. job[g].state \in States \ {s}
      BY <1>4, <2>1, <3>1 DEF IInv, Engaged, WithState
    <3>3. QED BY <1>3, <2>1, <3>1, <3>2 DEF IInv, NotBegun
  <2>2. QED BY <1>2, <1>3, <2>1 DEF IInv, NotBegun
<1>8. EntryIsUnused'
  BY <1>2, <1>3, <1>4 DEF IInv, EntryIsUnused
<1>9. TakenOnce'
  <2> SUFFICES ASSUME NEW g \in Handlers, pc'[g] = "exchange"
               PROVE  /\ job'[g].of = begun'[job'[g].state]
                      /\ exchanges'[job'[g].state] = <<>>
                      /\ \A k \in Handlers :
                           pc'[k] = "exchange" /\ job'[k].state = job'[g].state => k = g
    BY DEF TakenOnce
  <2>1. g # h /\ job'[g] = job[g] /\ pc[g] = "exchange"
    BY <1>3
  <2>2. job[g].state \in States \ {s}
    BY <1>4, <2>1 DEF IInv, Engaged, WithState
  <2>3. QED BY <1>2, <1>3, <2>1, <2>2 DEF IInv, TakenOnce
<1>10. (OneInFile /\ FileStaysReadable /\ Settled)'
  BY <1>2, <1>3, StoreStays DEF InFile, fileVars, fixed
<1>11. Alone'
  BY <1>2, <1>3, NobodyJoins DEF Unbound
<1>12. ExchangedOnceAsBegun'
  BY <1>2, <1>3, <1>4 DEF IInv, ExchangedOnceAsBegun
<1>13. QED
  BY <1>5, <1>6, <1>7, <1>8, <1>9, <1>10, <1>11, <1>12 DEF IInv

\* A state that passes its time keeps the invariant.
LEMMA AgeKeeps ==
  ASSUME IInv, NEW s \in States, Age(s)
  PROVE  IInv'
<1>1. /\ old' = old \cup {s}
      /\ UNCHANGED <<states, pending, begun, exchanges, fileVars, senders, issued, pc,
                     job, told, raced, fixed>>
  BY DEF Age
<1>2. (TypeOK /\ Engaged)'
  BY <1>1 DEF IInv, TypeOK, Engaged, fileVars, fixed
<1>3. (Fresh /\ NotBegun /\ EntryIsUnused /\ TakenOnce /\ ExchangedOnceAsBegun)'
  BY <1>1, FlowsStay
<1>4. (OneInFile /\ FileStaysReadable /\ Settled)'
  BY <1>1, StoreStays DEF fileVars, fixed
<1>5. Alone'
  BY <1>1, NobodyJoins
<1>6. QED
  BY <1>2, <1>3, <1>4, <1>5 DEF IInv

\* A callback with a state that was handed out.
LEMMA CallbackKeeps ==
  ASSUME IInv, NEW h \in Handlers, NEW p \in Providers, NEW s \in States,
         Callback(h, p, s)
  PROVE  IInv'
<1> DEFINE j == JobOn(p, s, states \ old)
<1>1. /\ pc[h] = "idle" /\ pc' = [pc EXCEPT ![h] = "consume"]
      /\ job' = [job EXCEPT ![h] = j] /\ begun[s] # None
      /\ UNCHANGED <<states, old, pending, begun, exchanges, fileVars, senders, issued,
                     told, raced, fixed>>
  BY DEF Callback, GoTo, flowVars
<1>2. j \in Job /\ j.of = p /\ j.state = s
  <2>1. states \ old \in SUBSET States
    BY DEF IInv, TypeOK
  <2>2. QED BY <2>1, Locals
<1> HIDE DEF j
<1>3. /\ job'[h] = j /\ pc'[h] = "consume"
      /\ \A g \in Handlers \ {h} : pc'[g] = pc[g] /\ job'[g] = job[g]
  BY <1>1 DEF IInv, TypeOK
<1>4. (TypeOK /\ Engaged)'
  <2>1. pc' \in [Handlers -> Stages] /\ job' \in [Handlers -> Job]
    BY <1>1, <1>2 DEF IInv, TypeOK, Stages
  <2>2. TypeOK'
    BY <1>1, <2>1 DEF IInv, TypeOK, fileVars, fixed
  <2>3. Engaged'
    BY <1>2, <1>3 DEF IInv, Engaged, WithState
  <2>4. QED BY <2>2, <2>3
<1>5. Fresh'
  BY <1>1, <1>2, <1>3 DEF IInv, Fresh
<1>6. (NotBegun /\ EntryIsUnused /\ TakenOnce /\ ExchangedOnceAsBegun)'
  BY <1>1, <1>2, <1>3 DEF IInv, NotBegun, EntryIsUnused, TakenOnce, ExchangedOnceAsBegun
<1>7. (OneInFile /\ FileStaysReadable /\ Settled)'
  BY <1>1, <1>3, StoreStays DEF InFile, fileVars, fixed
<1>8. Alone'
  BY <1>1, <1>3, NobodyJoins DEF Unbound
<1>9. QED
  BY <1>4, <1>5, <1>6, <1>7, <1>8 DEF IInv

\* consume(): the entry in _pending is taken once.
LEMMA ConsumeKeeps ==
  ASSUME IInv, NEW h \in Handlers, Consume(h)
  PROVE  IInv'
<1>1. PICK p \in Providers, s \in States : job[h].of = p /\ job[h].state = s
  BY DEF IInv, Engaged, WithState, Consume
<1>2. /\ pc[h] = "consume" /\ pc' = [pc EXCEPT ![h] = "exchange"]
      /\ states' = job[h].kept \ {s}
      /\ pending[s] = p /\ pending' = [pending EXCEPT ![s] = None]
      /\ Race(h, p)
      /\ UNCHANGED <<old, begun, exchanges, fileVars, senders, issued, job, told, fixed>>
  BY <1>1 DEF Consume, GoTo
<1>3. /\ pc'[h] = "exchange" /\ p # None
      /\ \A g \in Handlers \ {h} : pc'[g] = pc[g]
      /\ pending'[s] = None /\ \A r \in States \ {s} : pending'[r] = pending[r]
      /\ raced \subseteq raced' /\ raced' \subseteq raced \cup {p}
  BY <1>2, TokenConstants DEF IInv, TypeOK, Race
<1>4. (TypeOK /\ Engaged)'
  <2>1. pc' \in [Handlers -> Stages]
    BY <1>2 DEF IInv, TypeOK, Stages
  <2>2. states' \subseteq States
    BY <1>2, JobTypes DEF IInv
  <2>3. pending' \in [States -> Providers \cup {None}]
    BY <1>2 DEF IInv, TypeOK
  <2>4. TypeOK'
    BY <1>2, <1>3, <2>1, <2>2, <2>3 DEF IInv, TypeOK, fileVars, fixed
  <2>5. Engaged'
    BY <1>1, <1>2, <1>3 DEF IInv, Engaged, WithState
  <2>6. QED BY <2>4, <2>5
<1>5. begun[s] = p /\ exchanges[s] = <<>>
      /\ \A g \in Handlers : pc[g] = "exchange" => job[g].state # s
  BY <1>2, <1>3 DEF IInv, EntryIsUnused
<1>6. Fresh'
  BY <1>2, <1>3 DEF IInv, Fresh
<1>7. NotBegun'
  BY <1>1, <1>2, <1>3, <1>5 DEF IInv, NotBegun
<1>8. EntryIsUnused'
  BY <1>1, <1>2, <1>3 DEF IInv, EntryIsUnused
<1>9. TakenOnce'
  BY <1>1, <1>2, <1>3, <1>5 DEF IInv, TakenOnce
<1>10. (OneInFile /\ FileStaysReadable /\ Settled)'
  BY <1>2, <1>3, StoreStays DEF InFile, fileVars, fixed
<1>11. Alone'
  BY <1>1, <1>2, <1>3, JoiningRaces
<1>12. ExchangedOnceAsBegun'
  BY <1>2 DEF IInv, ExchangedOnceAsBegun
<1>13. QED
  BY <1>4, <1>6, <1>7, <1>8, <1>9, <1>10, <1>11, <1>12 DEF IInv

\* consume() refuses.
LEMMA ConsumeRefusedKeeps ==
  ASSUME IInv, NEW h \in Handlers, ConsumeRefused(h)
  PROVE  IInv'
<1>1. PICK s \in States : job[h].state = s
  BY DEF IInv, Engaged, WithState, ConsumeRefused
<1>2. /\ pc[h] = "consume" /\ pc' = [pc EXCEPT ![h] = "idle"]
      /\ job' = [job EXCEPT ![h] = NoJob]
      /\ states' = job[h].kept \ {s}
      /\ pending' = pending \/ pending' = [pending EXCEPT ![s] = None]
      /\ UNCHANGED <<old, begun, exchanges, fileVars, senders, issued, told, raced, fixed>>
  BY <1>1 DEF ConsumeRefused, Finish, GoTo
<1>3. /\ job'[h] = NoJob /\ pc'[h] = "idle"
      /\ \A g \in Handlers \ {h} : pc'[g] = pc[g] /\ job'[g] = job[g]
      /\ \A r \in States : pending'[r] \in {pending[r], None}
  BY <1>2 DEF IInv, TypeOK
<1>4. (TypeOK /\ Engaged)'
  <2>1. pc' \in [Handlers -> Stages] /\ job' \in [Handlers -> Job]
    BY <1>2, Locals DEF IInv, TypeOK, Stages
  <2>2. states' \subseteq States
    BY <1>2, JobTypes DEF IInv
  <2>3. pending' \in [States -> Providers \cup {None}]
    BY <1>2 DEF IInv, TypeOK
  <2>4. TypeOK'
    BY <1>2, <2>1, <2>2, <2>3 DEF IInv, TypeOK, fileVars, fixed
  <2>5. Engaged'
    BY <1>3 DEF IInv, Engaged, WithState
  <2>6. QED BY <2>4, <2>5
<1>5. Fresh'
  BY <1>2, <1>3, Locals, TokenConstants DEF IInv, Engaged, Fresh, WithState
<1>6. (NotBegun /\ EntryIsUnused /\ TakenOnce /\ ExchangedOnceAsBegun)'
  <2>1. NotBegun'
    BY <1>2, <1>3 DEF IInv, NotBegun
  <2>2. EntryIsUnused'
    BY <1>2, <1>3 DEF IInv, EntryIsUnused
  <2>3. TakenOnce' /\ ExchangedOnceAsBegun'
    BY <1>2, <1>3 DEF IInv, TakenOnce, ExchangedOnceAsBegun
  <2>4. QED BY <2>1, <2>2, <2>3
<1>7. (OneInFile /\ FileStaysReadable /\ Settled)'
  BY <1>2, <1>3, StoreStays DEF InFile, fileVars, fixed
<1>8. Alone'
  BY <1>2, <1>3, NobodyJoins DEF Unbound
<1>9. QED
  BY <1>4, <1>5, <1>6, <1>7, <1>8 DEF IInv

\* A request that ends without an answer, before it is in the store.
LEMMA EndKeeps ==
  ASSUME IInv, NEW h \in Handlers, Finish(h), pc[h] # "install",
         raced \subseteq raced', raced' \subseteq Providers,
         UNCHANGED <<flowVars, fileVars, senders, issued, told, fixed>>
  PROVE  IInv'
<1>1. /\ pc' = [pc EXCEPT ![h] = "idle"] /\ job' = [job EXCEPT ![h] = NoJob]
      /\ UNCHANGED <<states, old, pending, begun, exchanges, fileVars, senders, issued,
                     told, fixed>>
  BY DEF Finish, GoTo, flowVars
<1>2. /\ job'[h] = NoJob /\ pc'[h] = "idle"
      /\ \A g \in Handlers \ {h} : pc'[g] = pc[g] /\ job'[g] = job[g]
  BY <1>1 DEF IInv, TypeOK
<1>3. (TypeOK /\ Engaged)'
  <2>1. pc' \in [Handlers -> Stages] /\ job' \in [Handlers -> Job]
    BY <1>1, Locals DEF IInv, TypeOK, Stages
  <2>2. TypeOK'
    BY <1>1, <2>1 DEF IInv, TypeOK, fileVars, fixed
  <2>3. Engaged'
    BY <1>2 DEF IInv, Engaged, WithState
  <2>4. QED BY <2>2, <2>3
<1>4. (Fresh /\ NotBegun /\ EntryIsUnused /\ TakenOnce /\ ExchangedOnceAsBegun)'
  BY <1>1, <1>2, Locals, FlowsStay DEF WithState
<1>5. (OneInFile /\ FileStaysReadable /\ Settled)'
  BY <1>1, <1>2, StoreStays DEF InFile, fileVars, fixed
<1>6. Alone'
  BY <1>2, NobodyJoins DEF Unbound
<1>7. QED
  BY <1>3, <1>4, <1>5, <1>6 DEF IInv

\* The dictionary changes while it is copied; the provider refuses.
LEMMA AnsweredWithErrorKeeps ==
  ASSUME IInv, NEW h \in Handlers, CopyRaises(h) \/ ProviderFails(h)
  PROVE  IInv'
<1>1. /\ Finish(h) /\ pc[h] # "install" /\ raced' = raced
      /\ UNCHANGED <<flowVars, fileVars, senders, issued, told, fixed>>
  BY DEF CopyRaises, ProviderFails
<1>2. QED
  BY <1>1, EndKeeps DEF IInv, TypeOK

\* A write of the token file fails.
LEMMA AbandonedKeeps ==
  ASSUME IInv, NEW h \in Handlers, ReadRaises(h) \/ FillRaises(h) \/ RenameRaises(h)
  PROVE  IInv'
<1>1. /\ Finish(h) /\ pc[h] \in {"save", "fill", "rename"}
      /\ raced' = raced \cup {job[h].of}
      /\ UNCHANGED <<flowVars, fileVars, senders, issued, told, fixed>>
  BY DEF ReadRaises, FillRaises, RenameRaises, Abandon
<1>2. raced' \subseteq Providers
  BY <1>1 DEF IInv, Engaged, TypeOK
<1>3. QED
  BY <1>1, <1>2, EndKeeps

-----------------------------------------------------------------------------
(* The provider and the token.                                             *)

\* A thread gets its token, and will save it.
LEMMA Received ==
  ASSUME IInv, NEW h \in Handlers, NEW stage, stage \in {"exchange", "refresh"},
         Receive(h, stage)
  PROVE  /\ pc[h] = stage /\ pc'[h] = "save"
         /\ \A g \in Handlers \ {h} : pc'[g] = pc[g] /\ job'[g] = job[g]
         /\ job'[h].of = job[h].of /\ job'[h].state = job[h].state
         /\ issued' \in Tokens
         /\ pc' \in [Handlers -> Stages] /\ job' \in [Handlers -> Job]
<1>1. /\ pc[h] = stage /\ pc' = [pc EXCEPT ![h] = "save"]
      /\ issued < MaxTokens /\ issued' = issued + 1
      /\ job' = [job EXCEPT ![h].token = issued + 1]
  BY DEF Receive, GoTo
<1>2. issued + 1 \in Tokens
  BY <1>1, TokenConstants DEF IInv, TypeOK, Tokens
<1>3. job' = [job EXCEPT ![h] = [job[h] EXCEPT !.token = issued + 1]]
  BY <1>1 DEF IInv, TypeOK
<1>4. job[h] \in Job /\ Empty \in Table
  BY JobTypes, Locals DEF IInv
<1>5. /\ [job[h] EXCEPT !.token = issued + 1] \in Job
      /\ [job[h] EXCEPT !.token = issued + 1].of = job[h].of
      /\ [job[h] EXCEPT !.token = issued + 1].state = job[h].state
  BY <1>2, <1>4, LocalsChange
<1>6. QED
  BY <1>1, <1>2, <1>3, <1>5 DEF IInv, TypeOK, Stages

\* exchange_code(): the one exchange of this state.
LEMMA ExchangeKeeps ==
  ASSUME IInv, NEW h \in Handlers, Exchange(h)
  PROVE  IInv'
<1>1. PICK p \in Providers, s \in States : job[h].of = p /\ job[h].state = s
  BY DEF IInv, Engaged, WithState, Exchange, Receive
<1>2. /\ Receive(h, "exchange")
      /\ exchanges' = [exchanges EXCEPT ![s] = Append(@, p)]
      /\ UNCHANGED <<states, old, pending, begun, fileVars, senders, told, raced, fixed>>
  BY <1>1 DEF Exchange
<1>3. /\ pc[h] = "exchange" /\ pc'[h] = "save"
      /\ \A g \in Handlers \ {h} : pc'[g] = pc[g] /\ job'[g] = job[g]
      /\ job'[h].of = p /\ job'[h].state = s
      /\ issued' \in Tokens
      /\ pc' \in [Handlers -> Stages] /\ job' \in [Handlers -> Job]
  BY <1>1, <1>2, Received
<1>4. /\ exchanges[s] = <<>> /\ begun[s] = p /\ begun[s] # None
      /\ \A g \in Handlers : pc[g] = "exchange" /\ job[g].state = s => g = h
      /\ pending[s] = None
  <2>1. /\ exchanges[s] = <<>> /\ begun[s] = p
        /\ \A g \in Handlers : pc[g] = "exchange" /\ job[g].state = s => g = h
    BY <1>1, <1>3 DEF IInv, TakenOnce
  <2>2. begun[s] # None
    BY <2>1, TokenConstants
  <2>3. pending[s] = None
    BY <1>1, <1>3 DEF IInv, EntryIsUnused
  <2>4. QED BY <2>1, <2>2, <2>3
<1>5. /\ exchanges'[s] = <<p>>
      /\ \A r \in States \ {s} : exchanges'[r] = exchanges[r]
      /\ exchanges' \in [States -> Seq(Providers)]
  <2>1. Append(exchanges[s], p) = <<p>>
    BY <1>4
  <2>2. <<p>> \in Seq(Providers)
    OBVIOUS
  <2>3. exchanges' = [exchanges EXCEPT ![s] = <<p>>]
    BY <1>2, <2>1 DEF IInv, TypeOK
  <2>4. QED BY <2>2, <2>3 DEF IInv, TypeOK
<1>6. TypeOK'
  BY <1>2, <1>3, <1>5 DEF IInv, TypeOK, fileVars, fixed
<1>7. Engaged'
  BY <1>1, <1>3 DEF IInv, Engaged, WithState
<1>8. Fresh'
  BY <1>1, <1>2, <1>3 DEF IInv, Fresh
<1>9. NotBegun'
  BY <1>2, <1>3, <1>4, <1>5 DEF IInv, NotBegun
<1>10. EntryIsUnused'
  BY <1>1, <1>2, <1>3, <1>4, <1>5 DEF IInv, EntryIsUnused
<1>11. TakenOnce'
  <2> SUFFICES ASSUME NEW g \in Handlers, pc'[g] = "exchange"
               PROVE  /\ job'[g].of = begun'[job'[g].state]
                      /\ exchanges'[job'[g].state] = <<>>
                      /\ \A k \in Handlers :
                           pc'[k] = "exchange" /\ job'[k].state = job'[g].state => k = g
    BY DEF TakenOnce
  <2>1. g # h /\ job'[g] = job[g] /\ pc[g] = "exchange"
    BY <1>3
  <2>2. job[g].state \in States \ {s}
    BY <1>4, <2>1 DEF IInv, Engaged, WithState
  <2>3. /\ job[g].of = begun[job[g].state] /\ exchanges[job[g].state] = <<>>
        /\ \A k \in Handlers : pc[k] = "exchange" /\ job[k].state = job[g].state => k = g
    BY <2>1 DEF IInv, TakenOnce
  <2>4. exchanges'[job[g].state] = <<>> /\ begun' = begun
    BY <1>2, <1>5, <2>2, <2>3
  <2>5. ASSUME NEW k \in Handlers, pc'[k] = "exchange"
        PROVE  pc[k] = "exchange" /\ job'[k] = job[k]
    BY <1>3, <2>5
  <2>6. QED BY <2>1, <2>3, <2>4, <2>5
<1>12. ExchangedOnceAsBegun'
  BY <1>2, <1>4, <1>5 DEF IInv, ExchangedOnceAsBegun
<1>13. (OneInFile /\ FileStaysReadable /\ Settled)'
  BY <1>2, <1>3, StoreStays DEF InFile, fileVars, fixed
<1>14. Alone'
  BY <1>1, <1>2, <1>3, NobodyJoins DEF Unbound
<1>15. QED
  BY <1>6, <1>7, <1>8, <1>9, <1>10, <1>11, <1>12, <1>13, <1>14 DEF IInv

\* So does the answer to a refresh ...
LEMMA RefreshedKeeps ==
  ASSUME IInv, NEW h \in Handlers, Refreshed(h)
  PROVE  IInv'
<1>1. /\ Receive(h, "refresh")
      /\ UNCHANGED <<states, old, pending, begun, exchanges, fileVars, senders, told,
                     raced, fixed>>
  BY DEF Refreshed, flowVars
<1>2. /\ pc[h] = "refresh" /\ pc'[h] = "save"
      /\ \A g \in Handlers \ {h} : pc'[g] = pc[g] /\ job'[g] = job[g]
      /\ job'[h].of = job[h].of /\ job'[h].state = job[h].state
      /\ issued' \in Tokens
      /\ pc' \in [Handlers -> Stages] /\ job' \in [Handlers -> Job]
  BY <1>1, Received
<1>3. TypeOK' /\ Engaged'
  <2>1. TypeOK'
    BY <1>1, <1>2 DEF IInv, TypeOK, fileVars, fixed
  <2>2. Engaged'
    BY <1>2 DEF IInv, Engaged, WithState
  <2>3. QED BY <2>1, <2>2
<1>4. (Fresh /\ NotBegun /\ EntryIsUnused /\ TakenOnce /\ ExchangedOnceAsBegun)'
  BY <1>1, <1>2, FlowsStay DEF WithState
<1>5. (OneInFile /\ FileStaysReadable /\ Settled)'
  BY <1>1, <1>2, StoreStays DEF InFile, fileVars, fixed
<1>6. Alone'
  BY <1>1, <1>2, NobodyJoins DEF Unbound
<1>7. QED
  BY <1>3, <1>4, <1>5, <1>6 DEF IInv

\* refresh() and revoke() begin.
LEMMA LoadKeeps ==
  ASSUME IInv, NEW h \in Handlers, NEW p \in Providers,
         Refresh(h, p) \/ Revoke(h, p)
  PROVE  IInv'
<1> DEFINE j == JobOn(p, None, {})
<1>1. PICK stage \in {"refresh", "revoke"} : Load(h, p, stage)
  BY DEF Refresh, Revoke
<1>2. /\ pc[h] = "idle" /\ pc' = [pc EXCEPT ![h] = stage]
      /\ job' = [job EXCEPT ![h] = j] /\ Race(h, p)
      /\ UNCHANGED <<states, old, pending, begun, exchanges, fileVars, senders, issued,
                     told, fixed>>
  BY <1>1 DEF Load, GoTo, flowVars
<1>3. j \in Job /\ j.of = p /\ j.state = None
  <2>1. {} \in SUBSET States
    OBVIOUS
  <2>2. QED BY <2>1, Locals
<1> HIDE DEF j
<1>4. /\ job'[h] = j /\ pc'[h] = stage
      /\ \A g \in Handlers \ {h} : pc'[g] = pc[g] /\ job'[g] = job[g]
      /\ raced \subseteq raced' /\ raced' \subseteq raced \cup {p}
  BY <1>2 DEF IInv, TypeOK, Race
<1>5. TypeOK' /\ Engaged'
  <2>1. pc' \in [Handlers -> Stages] /\ job' \in [Handlers -> Job]
    BY <1>2, <1>3 DEF IInv, TypeOK, Stages
  <2>2. TypeOK'
    BY <1>2, <1>4, <2>1 DEF IInv, TypeOK, fileVars, fixed
  <2>3. Engaged'
    BY <1>3, <1>4 DEF IInv, Engaged, WithState
  <2>4. QED BY <2>2, <2>3
<1>6. (Fresh /\ NotBegun /\ EntryIsUnused /\ TakenOnce /\ ExchangedOnceAsBegun)'
  BY <1>2, <1>3, <1>4, FlowsStay DEF WithState
<1>7. (OneInFile /\ FileStaysReadable /\ Settled)'
  BY <1>2, <1>4, StoreStays DEF InFile, fileVars, fixed
<1>8. Alone'
  BY <1>2, <1>3, <1>4, JoiningRaces
<1>9. QED
  BY <1>5, <1>6, <1>7, <1>8 DEF IInv

\* ... and a revocation.
LEMMA RevokedKeeps ==
  ASSUME IInv, NEW h \in Handlers, Revoked(h)
  PROVE  IInv'
<1>1. /\ pc[h] = "revoke" /\ pc' = [pc EXCEPT ![h] = "save"]
      /\ UNCHANGED <<states, old, pending, begun, exchanges, fileVars, senders, issued,
                     job, told, raced, fixed>>
  BY DEF Revoked, GoTo, flowVars
<1>2. pc'[h] = "save" /\ \A g \in Handlers \ {h} : pc'[g] = pc[g]
  BY <1>1 DEF IInv, TypeOK
<1>3. TypeOK' /\ Engaged'
  <2>1. pc' \in [Handlers -> Stages]
    BY <1>1 DEF IInv, TypeOK, Stages
  <2>2. TypeOK'
    BY <1>1, <2>1 DEF IInv, TypeOK, fileVars, fixed
  <2>3. Engaged'
    BY <1>1, <1>2 DEF IInv, Engaged, WithState
  <2>4. QED BY <2>2, <2>3
<1>4. (Fresh /\ NotBegun /\ EntryIsUnused /\ TakenOnce /\ ExchangedOnceAsBegun)'
  BY <1>1, <1>2, FlowsStay DEF WithState
<1>5. (OneInFile /\ FileStaysReadable /\ Settled)'
  BY <1>1, <1>2, StoreStays DEF InFile, fileVars, fixed
<1>6. Alone'
  BY <1>1, <1>2, NobodyJoins DEF Unbound
<1>7. QED
  BY <1>3, <1>4, <1>5, <1>6 DEF IInv

-----------------------------------------------------------------------------
(* The token store.                                                        *)

\* A step of a write of thread h.
LEMMA Writing ==
  ASSUME IInv, NEW h \in Handlers, NEW stage \in InFile \cup {"install"},
         pc[h] \in InFile \cup {"save"}, pc' = [pc EXCEPT ![h] = stage],
         \A g \in Handlers :
           /\ job'[g].of = job[g].of /\ job'[g].state = job[g].state
           /\ pc[g] = "idle" => job'[g] = job[g],
         UNCHANGED <<pending, begun, exchanges, raced>>
  PROVE  /\ pc' \in [Handlers -> Stages] /\ pc'[h] = stage
         /\ \A g \in Handlers \ {h} : pc'[g] = pc[g]
         /\ Engaged' /\ Fresh' /\ NotBegun' /\ EntryIsUnused' /\ TakenOnce'
         /\ ExchangedOnceAsBegun' /\ Alone'
<1>1. /\ pc' \in [Handlers -> Stages] /\ pc'[h] = stage
      /\ \A g \in Handlers \ {h} : pc'[g] = pc[g]
  BY DEF IInv, TypeOK, Stages
<1>2. stage \notin WithState \cup {"idle"} /\ pc[h] \notin Unbound
  BY DEF InFile, WithState, Unbound
<1>3. Engaged'
  BY <1>1, <1>2 DEF IInv, Engaged, InFile
<1>4. Fresh' /\ NotBegun' /\ EntryIsUnused' /\ TakenOnce' /\ ExchangedOnceAsBegun'
  BY <1>1, <1>2, FlowsStay
<1>5. Alone'
  BY <1>1, <1>2, NobodyJoins
<1>6. QED
  BY <1>1, <1>3, <1>4, <1>5

\* The token of thread h is in the store, and nothing else changed there.
LEMMA StoredSettles ==
  ASSUME IInv, NEW h \in Handlers, pc[h] \in {"save", "rename"},
         pc'[h] = "install", \A g \in Handlers \ {h} : pc'[g] = pc[g],
         \A g \in Handlers : job'[g].of = job[g].of /\ job'[g].token = job[g].token,
         ~overlapped => store' = [store EXCEPT ![job[h].of] = job[h].token],
         UNCHANGED <<senders, told, raced, overlapped, crashes>>
  PROVE  Settled'
<1> SUFFICES ASSUME ~overlapped, NEW p \in Providers, p \notin raced
             PROVE  /\ \/ store'[p] = told[p]
                       \/ \E g \in Handlers : job'[g].of = p /\ pc'[g] = "install"
                    /\ \A g \in Handlers : job'[g].of = p /\ pc'[g] = "install"
                         => store'[p] = job'[g].token
                    /\ senders[p] \in {told[p], 0}
  BY DEF Settled
<1>1. senders[p] \in {told[p], 0}
  BY DEF IInv, Settled
<1>2. CASE job[h].of = p
  <2>1. store'[p] = job[h].token
    BY <1>2 DEF IInv, TypeOK, Table
  <2>2. ASSUME NEW g \in Handlers, job'[g].of = p, pc'[g] = "install" PROVE g = h
    BY <1>2, <2>2 DEF IInv, Alone, Unbound
  <2>3. QED BY <1>1, <1>2, <2>1, <2>2
<1>3. CASE job[h].of # p
  <2>1. store'[p] = store[p]
    BY <1>3 DEF IInv, TypeOK, Table
  <2>2. \A g \in Handlers : job'[g].of = p => g # h /\ pc'[g] = pc[g]
    BY <1>3
  <2>3. /\ \/ store[p] = told[p]
           \/ \E g \in Handlers : job[g].of = p /\ pc[g] = "install"
        /\ \A g \in Handlers : job[g].of = p /\ pc[g] = "install"
             => store[p] = job[g].token
    BY DEF IInv, Settled
  <2>4. QED BY <1>1, <2>1, <2>2, <2>3
<1>4. QED BY <1>2, <1>3

\* One entry of a table.
LEMMA TableChanges ==
  ASSUME IInv, NEW h \in Handlers, NEW t \in Table
  PROVE  [t EXCEPT ![job[h].of] = job[h].token] \in Table
BY JobTypes DEF IInv, Table

\* The token store in memory.
LEMMA SaveInMemoryKeeps ==
  ASSUME IInv, NEW h \in Handlers, SaveInMemory(h)
  PROVE  IInv'
<1>1. /\ pc[h] = "save" /\ ~encrypted /\ pc' = [pc EXCEPT ![h] = "install"]
      /\ store' = [store EXCEPT ![job[h].of] = job[h].token]
      /\ UNCHANGED <<states, old, pending, begun, exchanges, torn, tmp, overlapped,
                     senders, issued, job, told, raced, fixed>>
  BY DEF SaveInMemory, GoTo, flowVars
<1>2. /\ pc' \in [Handlers -> Stages] /\ pc'[h] = "install"
      /\ \A g \in Handlers \ {h} : pc'[g] = pc[g]
      /\ Engaged' /\ Fresh' /\ NotBegun' /\ EntryIsUnused' /\ TakenOnce'
      /\ ExchangedOnceAsBegun' /\ Alone'
  BY <1>1, Writing
<1>3. TypeOK'
  <2>1. store' \in Table
    BY <1>1, TableChanges DEF IInv, TypeOK
  <2>2. QED BY <1>1, <1>2, <2>1 DEF IInv, TypeOK, fixed
<1>4. OneInFile'
  BY <1>1, <1>2 DEF IInv, OneInFile, InFile
<1>5. FileStaysReadable'
  BY <1>1 DEF IInv, FileStaysReadable
<1>6. Settled'
  BY <1>1, <1>2, StoredSettles DEF fixed
<1>7. QED
  BY <1>2, <1>3, <1>4, <1>5, <1>6 DEF IInv

\* _read(): the tokens of every provider, with the new one put in.
LEMMA ReadFileKeeps ==
  ASSUME IInv, NEW h \in Handlers, ReadFile(h)
  PROVE  IInv'
<1> DEFINE table == [store EXCEPT ![job[h].of] = job[h].token]
<1>1. /\ pc[h] = "save" /\ encrypted /\ pc' = [pc EXCEPT ![h] = "open"]
      /\ job' = [job EXCEPT ![h].table = table]
      /\ overlapped' = (overlapped \/ \E g \in Handlers : pc[g] \in InFile)
      /\ UNCHANGED <<states, old, pending, begun, exchanges, store, torn, tmp, senders,
                     issued, told, raced, fixed>>
  BY DEF ReadFile, GoTo, flowVars
<1>2. table \in Table
  BY TableChanges DEF IInv, TypeOK
<1>3. table = [store EXCEPT ![job[h].of] = job[h].token]
  OBVIOUS
<1> HIDE DEF table
<1>4. /\ job' \in [Handlers -> Job]
      /\ job'[h].of = job[h].of /\ job'[h].state = job[h].state
      /\ job'[h].token = job[h].token /\ job'[h].table = table
      /\ \A g \in Handlers \ {h} : job'[g] = job[g]
  <2>1. job' = [job EXCEPT ![h] = [job[h] EXCEPT !.table = table]]
    BY <1>1 DEF IInv, TypeOK
  <2>2. /\ [job[h] EXCEPT !.table = table] \in Job
        /\ [job[h] EXCEPT !.table = table].of = job[h].of
        /\ [job[h] EXCEPT !.table = table].state = job[h].state
        /\ [job[h] EXCEPT !.table = table].token = job[h].token
        /\ [job[h] EXCEPT !.table = table].table = table
    BY <1>2, JobTypes DEF IInv, Job
  <2>3. QED BY <2>1, <2>2 DEF IInv, TypeOK
<1>5. /\ pc' \in [Handlers -> Stages] /\ pc'[h] = "open"
      /\ \A g \in Handlers \ {h} : pc'[g] = pc[g]
      /\ Engaged' /\ Fresh' /\ NotBegun' /\ EntryIsUnused' /\ TakenOnce'
      /\ ExchangedOnceAsBegun' /\ Alone'
  <2>1. "open" \in InFile
    BY DEF InFile
  <2>2. QED BY <1>1, <1>4, <2>1, Writing
<1>6. TypeOK'
  <2>1. overlapped' \in BOOLEAN
    BY <1>1
  <2>2. QED BY <1>1, <1>4, <1>5, <2>1 DEF IInv, TypeOK, fixed
<1>7. OneInFile'
  BY <1>1, <1>3, <1>4, <1>5 DEF IInv, OneInFile, fixed
<1>8. FileStaysReadable'
  BY <1>1 DEF IInv, FileStaysReadable
<1>9. Settled'
  <2>1. ~overlapped' => ~overlapped
    BY <1>1
  <2>2. \A g \in Handlers :
          /\ job'[g].of = job[g].of /\ job'[g].token = job[g].token
          /\ pc'[g] = "install" <=> pc[g] = "install"
    BY <1>1, <1>4, <1>5
  <2>3. UNCHANGED <<store, told, senders, raced, crashes>>
    BY <1>1 DEF fixed
  <2>4. QED BY <2>1, <2>2, <2>3 DEF IInv, Settled
<1>10. QED
  BY <1>5, <1>6, <1>7, <1>8, <1>9 DEF IInv

\* _write() opens the temporary file.
LEMMA OpenKeeps ==
  ASSUME IInv, NEW h \in Handlers, Open(h)
  PROVE  IInv'
<1>1. /\ pc[h] = "open" /\ pc' = [pc EXCEPT ![h] = "fill"]
      /\ job' = [job EXCEPT ![h].into = "tmp"]
      /\ tmp' = [exists |-> TRUE, torn |-> TRUE, tokens |-> Empty]
      /\ UNCHANGED <<states, old, pending, begun, exchanges, store, torn, overlapped,
                     senders, issued, told, raced, fixed>>
  BY DEF Open, GoTo, flowVars
<1>2. /\ job' \in [Handlers -> Job]
      /\ job'[h].of = job[h].of /\ job'[h].state = job[h].state
      /\ job'[h].token = job[h].token /\ job'[h].table = job[h].table
      /\ job'[h].into = "tmp"
      /\ \A g \in Handlers \ {h} : job'[g] = job[g]
  <2>1. job' = [job EXCEPT ![h] = [job[h] EXCEPT !.into = "tmp"]]
    BY <1>1 DEF IInv, TypeOK
  <2>2. /\ [job[h] EXCEPT !.into = "tmp"] \in Job
        /\ [job[h] EXCEPT !.into = "tmp"].of = job[h].of
        /\ [job[h] EXCEPT !.into = "tmp"].state = job[h].state
        /\ [job[h] EXCEPT !.into = "tmp"].token = job[h].token
        /\ [job[h] EXCEPT !.into = "tmp"].table = job[h].table
        /\ [job[h] EXCEPT !.into = "tmp"].into = "tmp"
    BY JobTypes, Locals, LocalsChange DEF IInv
  <2>3. QED BY <2>1, <2>2 DEF IInv, TypeOK
<1>3. /\ pc' \in [Handlers -> Stages] /\ pc'[h] = "fill"
      /\ \A g \in Handlers \ {h} : pc'[g] = pc[g]
      /\ Engaged' /\ Fresh' /\ NotBegun' /\ EntryIsUnused' /\ TakenOnce'
      /\ ExchangedOnceAsBegun' /\ Alone'
  <2>1. "fill" \in InFile /\ "open" \in InFile
    BY DEF InFile
  <2>2. QED BY <1>1, <1>2, <2>1, Writing
<1>4. TypeOK'
  <2>1. tmp' \in Temporary
    BY <1>1, Locals DEF Temporary
  <2>2. QED BY <1>1, <1>2, <1>3, <2>1 DEF IInv, TypeOK, fixed
<1>5. OneInFile'
  <2>1. ASSUME ~overlapped PROVE \A g \in Handlers : pc[g] \in InFile => g = h
    BY <1>1, <2>1 DEF IInv, OneInFile, InFile
  <2>2. ~overlapped => encrypted /\ job[h].table = [store EXCEPT ![job[h].of] = job[h].token]
    BY <1>1 DEF IInv, OneInFile, InFile
  <2>3. \A g \in Handlers : pc'[g] \in InFile => g = h \/ pc[g] \in InFile
    BY <1>3
  <2>4. QED BY <1>1, <1>2, <1>3, <2>1, <2>2, <2>3 DEF OneInFile, fixed
<1>6. FileStaysReadable'
  BY <1>1 DEF IInv, FileStaysReadable
<1>7. Settled'
  BY <1>1, <1>2, <1>3 DEF IInv, Settled, fixed
<1>8. QED
  BY <1>3, <1>4, <1>5, <1>6, <1>7 DEF IInv

\* The temporary file is filled.
LEMMA FillKeeps ==
  ASSUME IInv, NEW h \in Handlers, Fill(h)
  PROVE  IInv'
<1>1. PICK mixed \in {FALSE, Shared(h)} :
        /\ tmp' = IF job[h].into = "tmp"
                  THEN [exists |-> TRUE, torn |-> mixed,
                        tokens |-> IF mixed THEN Empty ELSE job[h].table]
                  ELSE tmp
        /\ store' = IF job[h].into = "file" THEN IF mixed THEN Empty ELSE job[h].table
                    ELSE store
        /\ torn' = IF job[h].into = "file" THEN mixed ELSE torn
  BY DEF Fill
<1>2. /\ pc[h] = "fill" /\ pc' = [pc EXCEPT ![h] = "rename"]
      /\ UNCHANGED <<states, old, pending, begun, exchanges, overlapped, senders, issued,
                     job, told, raced, fixed>>
  BY DEF Fill, GoTo, flowVars
<1>3. /\ pc' \in [Handlers -> Stages] /\ pc'[h] = "rename"
      /\ \A g \in Handlers \ {h} : pc'[g] = pc[g]
      /\ Engaged' /\ Fresh' /\ NotBegun' /\ EntryIsUnused' /\ TakenOnce'
      /\ ExchangedOnceAsBegun' /\ Alone'
  <2>1. "fill" \in InFile /\ "rename" \in InFile
    BY DEF InFile
  <2>2. QED BY <1>2, <2>1, Writing
<1>4. mixed \in BOOLEAN
  BY DEF Shared
<1>5. TypeOK'
  <2> DEFINE tokens == IF mixed THEN Empty ELSE job[h].table
  <2>1. tokens \in Table
    BY <1>4, JobTypes, Locals DEF IInv
  <2>2. store' \in {tokens, store} /\ torn' \in {mixed, torn}
    BY <1>1
  <2>3. tmp' \in Temporary
    <3> HIDE DEF tokens
    <3>1. [exists |-> TRUE, torn |-> mixed, tokens |-> tokens] \in Temporary
      BY <1>4, <2>1 DEF Temporary
    <3>2. tmp' \in {[exists |-> TRUE, torn |-> mixed, tokens |-> tokens], tmp}
      BY <1>1 DEF tokens
    <3>3. QED BY <3>1, <3>2 DEF IInv, TypeOK
  <2> HIDE DEF tokens
  <2>4. store' \in Table
    BY <2>1, <2>2 DEF IInv, TypeOK
  <2>5. torn' \in BOOLEAN
    <3>1. CASE torn' = mixed BY <1>4, <3>1
    <3>2. CASE torn' = torn BY <3>2 DEF IInv, TypeOK
    <3>3. QED BY <2>2, <3>1, <3>2
  <2>6. QED BY <1>2, <1>3, <2>3, <2>4, <2>5 DEF IInv, TypeOK, fixed
<1>6. ASSUME ~overlapped
      PROVE  /\ tmp' = [exists |-> TRUE, torn |-> FALSE, tokens |-> job[h].table]
             /\ store' = store /\ torn' = torn /\ job[h].into = "tmp" /\ encrypted
             /\ job[h].table = [store EXCEPT ![job[h].of] = job[h].token]
             /\ \A g \in Handlers : pc[g] \in InFile => g = h
  <2>1. /\ job[h].into = "tmp" /\ encrypted
        /\ job[h].table = [store EXCEPT ![job[h].of] = job[h].token]
        /\ \A g \in Handlers : pc[g] \in InFile => g = h
    BY <1>2, <1>6 DEF IInv, OneInFile, InFile
  <2>2. ~mixed
    <3>1. \A g \in Handlers \ {h} : pc[g] \notin {"fill", "rename"}
      BY <2>1 DEF InFile
    <3>2. ~Shared(h)
      BY <3>1 DEF Shared
    <3>3. QED BY <3>2
  <2>3. mixed = FALSE
    BY <1>4, <2>2
  <2>4. QED BY <1>1, <2>1, <2>3
<1>7. OneInFile'
  <2> SUFFICES ASSUME ~overlapped, NEW g \in Handlers, pc'[g] \in InFile
               PROVE  /\ \A k \in Handlers : pc'[k] \in InFile => k = g
                      /\ encrypted
                      /\ job[g].table = [store' EXCEPT ![job[g].of] = job[g].token]
                      /\ job[g].into = "tmp"
                      /\ ~tmp'.torn /\ tmp'.tokens = job[g].table
    BY <1>2 DEF OneInFile, fixed
  <2>1. \A k \in Handlers : pc'[k] \in InFile => k = h
    BY <1>3, <1>6
  <2>2. g = h
    BY <2>1
  <2>3. QED BY <1>6, <2>1, <2>2
<1>8. FileStaysReadable'
  BY <1>2, <1>6 DEF IInv, FileStaysReadable
<1>9. Settled'
  <2>1. \A g \in Handlers : pc'[g] = "install" <=> pc[g] = "install"
    BY <1>2, <1>3
  <2>2. ~overlapped => store' = store
    BY <1>6
  <2>3. QED BY <1>2, <2>1, <2>2 DEF IInv, Settled, fixed
<1>10. QED
  BY <1>3, <1>5, <1>7, <1>8, <1>9 DEF IInv

\* The temporary file becomes the token file.
LEMMA RenameKeeps ==
  ASSUME IInv, NEW h \in Handlers, Rename(h)
  PROVE  IInv'
<1> DEFINE into(g) == IF job[g].into = "tmp" /\ g # h THEN "file" ELSE "nothing"
<1>1. /\ pc[h] = "rename" /\ pc' = [pc EXCEPT ![h] = "install"]
      /\ store' = tmp.tokens /\ torn' = tmp.torn /\ tmp' = NoTemporary
      /\ job' = [g \in Handlers |-> [job[g] EXCEPT !.into = into(g)]]
      /\ UNCHANGED <<states, old, pending, begun, exchanges, overlapped, senders, issued,
                     told, raced, fixed>>
  BY DEF Rename, GoTo, flowVars
<1>2. ASSUME NEW g \in Handlers
      PROVE  /\ job'[g] \in Job
             /\ job'[g].of = job[g].of /\ job'[g].state = job[g].state
             /\ job'[g].token = job[g].token /\ job'[g].table = job[g].table
             /\ pc[g] = "idle" => job'[g] = job[g]
  <2>1. into(g) \in {"nothing", "tmp", "file"}
    OBVIOUS
  <2>2. job[g] \in Job
    BY JobTypes DEF IInv
  <2>3. pc[g] = "idle" => job[g] = NoJob /\ into(g) = "nothing"
    <3>1. pc[g] = "idle" => job[g] = NoJob
      BY DEF IInv, Engaged
    <3>2. NoJob.into # "tmp"
      BY DEF NoJob, JobOn
    <3>3. QED BY <3>1, <3>2
  <2>4. job'[g] = [job[g] EXCEPT !.into = into(g)]
    BY <1>1
  <2> HIDE DEF into
  <2>5. /\ [job[g] EXCEPT !.into = into(g)] \in Job
        /\ [job[g] EXCEPT !.into = into(g)].of = job[g].of
        /\ [job[g] EXCEPT !.into = into(g)].state = job[g].state
        /\ [job[g] EXCEPT !.into = into(g)].token = job[g].token
        /\ [job[g] EXCEPT !.into = into(g)].table = job[g].table
    BY <2>1, <2>2 DEF Job
  <2>6. [NoJob EXCEPT !.into = "nothing"] = NoJob
    BY DEF NoJob, JobOn
  <2>7. pc[g] = "idle" => job'[g] = job[g]
    BY <2>3, <2>4, <2>6
  <2>8. QED BY <2>4, <2>5, <2>7
<1>3. /\ pc' \in [Handlers -> Stages] /\ pc'[h] = "install"
      /\ \A g \in Handlers \ {h} : pc'[g] = pc[g]
      /\ Engaged' /\ Fresh' /\ NotBegun' /\ EntryIsUnused' /\ TakenOnce'
      /\ ExchangedOnceAsBegun' /\ Alone'
  <2>1. "rename" \in InFile
    BY DEF InFile
  <2>2. QED BY <1>1, <1>2, <2>1, Writing
<1>4. TypeOK'
  <2>1. store' \in Table /\ torn' \in BOOLEAN /\ tmp' \in Temporary
    <3>1. store' \in Table /\ torn' \in BOOLEAN
      BY <1>1 DEF IInv, TypeOK, Temporary
    <3>2. tmp' \in Temporary
      BY <1>1, Locals DEF Temporary, NoTemporary
    <3>3. QED BY <3>1, <3>2
  <2>2. job' \in [Handlers -> Job]
    <3> HIDE DEF into
    <3>1. DOMAIN job' = Handlers /\ job' = [g \in Handlers |-> job'[g]]
      BY <1>1
    <3>2. QED BY <1>2, <3>1
  <2>3. QED BY <1>1, <1>3, <2>1, <2>2 DEF IInv, TypeOK, fixed
<1>5. ASSUME ~overlapped
      PROVE  /\ store' = [store EXCEPT ![job[h].of] = job[h].token] /\ ~torn'
             /\ \A g \in Handlers : pc[g] \in InFile => g = h
  <2>1. /\ \A g \in Handlers : pc[g] \in InFile => g = h
        /\ job[h].table = [store EXCEPT ![job[h].of] = job[h].token]
        /\ ~tmp.torn /\ tmp.tokens = job[h].table
    BY <1>1, <1>5 DEF IInv, OneInFile, InFile
  <2>2. QED BY <1>1, <2>1
<1>6. OneInFile'
  <2>1. ASSUME ~overlapped', NEW g \in Handlers PROVE pc'[g] \notin InFile
    BY <1>1, <1>3, <1>5, <2>1 DEF InFile
  <2>2. QED BY <2>1 DEF OneInFile
<1>7. FileStaysReadable'
  BY <1>1, <1>5 DEF FileStaysReadable
<1>8. Settled'
  BY <1>1, <1>2, <1>3, <1>5, StoredSettles DEF fixed
<1>9. QED
  BY <1>3, <1>4, <1>6, <1>7, <1>8 DEF IInv

\* The request is answered, the sender made of its token.
LEMMA InstallKeeps ==
  ASSUME IInv, NEW h \in Handlers, Install(h)
  PROVE  IInv'
<1>1. PICK p \in Providers : job[h].of = p
  BY DEF IInv, Engaged, Install
<1>2. /\ pc[h] = "install" /\ pc' = [pc EXCEPT ![h] = "idle"]
      /\ job' = [job EXCEPT ![h] = NoJob]
      /\ senders' = [senders EXCEPT ![p] = job[h].token]
      /\ told' = [told EXCEPT ![p] = job[h].token]
      /\ UNCHANGED <<states, old, pending, begun, exchanges, fileVars, issued, raced,
                     fixed>>
  BY <1>1 DEF Install, Finish, GoTo, flowVars
<1>3. /\ job'[h] = NoJob /\ pc'[h] = "idle"
      /\ \A g \in Handlers \ {h} : pc'[g] = pc[g] /\ job'[g] = job[g]
  BY <1>2 DEF IInv, TypeOK
<1>4. (TypeOK /\ Engaged)'
  <2>1. pc' \in [Handlers -> Stages] /\ job' \in [Handlers -> Job]
    BY <1>2, Locals DEF IInv, TypeOK, Stages
  <2>2. senders' \in Table /\ told' \in Table
    BY <1>2, JobTypes DEF IInv, TypeOK, Table
  <2>3. TypeOK'
    BY <1>2, <2>1, <2>2 DEF IInv, TypeOK, fileVars, fixed
  <2>4. Engaged'
    BY <1>3 DEF IInv, Engaged, WithState
  <2>5. QED BY <2>3, <2>4
<1>5. (Fresh /\ NotBegun /\ EntryIsUnused /\ TakenOnce /\ ExchangedOnceAsBegun)'
  BY <1>2, <1>3, Locals, FlowsStay DEF WithState
<1>6. OneInFile'
  <2>1. \A g \in Handlers : pc'[g] \in InFile => g # h
    BY <1>3 DEF InFile
  <2>2. UNCHANGED <<encrypted, store, tmp, overlapped>>
    BY <1>2 DEF fileVars, fixed
  <2>3. QED BY <1>3, <2>1, <2>2 DEF IInv, OneInFile
<1>7. FileStaysReadable'
  BY <1>2 DEF IInv, FileStaysReadable, fileVars
<1>8. Settled'
  <2> SUFFICES ASSUME ~overlapped, NEW q \in Providers, q \notin raced
               PROVE  /\ \/ store[q] = told'[q]
                         \/ \E g \in Handlers : job'[g].of = q /\ pc'[g] = "install"
                      /\ \A g \in Handlers : job'[g].of = q /\ pc'[g] = "install"
                           => store[q] = job'[g].token
                      /\ senders'[q] \in {told'[q], 0}
    BY <1>2 DEF Settled, fileVars, fixed
  <2>1. CASE q = p
    <3>1. told'[q] = job[h].token /\ senders'[q] = job[h].token
      BY <1>2, <2>1 DEF IInv, TypeOK, Table
    <3>2. store[q] = job[h].token
      BY <1>1, <1>2, <2>1 DEF IInv, Settled
    <3>3. ASSUME NEW g \in Handlers, job'[g].of = q, pc'[g] = "install" PROVE FALSE
      <4>1. g # h /\ job[g].of = q /\ pc[g] = "install"
        BY <1>3, <3>3
      <4>2. QED BY <1>1, <1>2, <2>1, <4>1 DEF IInv, Alone, Unbound
    <3>4. QED BY <3>1, <3>2, <3>3
  <2>2. CASE q # p
    <3>1. told'[q] = told[q] /\ senders'[q] = senders[q]
      BY <1>2, <2>2 DEF IInv, TypeOK, Table
    <3>2. \A g \in Handlers :
            (job'[g].of = q /\ pc'[g] = "install") <=> (job[g].of = q /\ pc[g] = "install")
      BY <1>1, <1>3, <2>2
    <3>3. \A g \in Handlers : job'[g].of = q /\ pc'[g] = "install" => job'[g] = job[g]
      BY <1>3
    <3>4. QED BY <3>1, <3>2, <3>3 DEF IInv, Settled
  <2>3. QED BY <2>1, <2>2
<1>9. Alone'
  BY <1>2, <1>3, NobodyJoins DEF Unbound
<1>10. QED
  BY <1>4, <1>5, <1>6, <1>7, <1>8, <1>9 DEF IInv

\* The process dies and starts again.
LEMMA CrashKeeps ==
  ASSUME IInv, Crash
  PROVE  IInv'
<1>1. PICK live \in SUBSET Providers :
        senders' = [p \in Providers |-> IF p \in live THEN store'[p] ELSE 0]
  BY DEF Crash
<1>2. /\ crashes < MaxCrashes /\ crashes' = crashes + 1
      /\ up' = ~torn /\ states' = {} /\ old' = {}
      /\ pending' = [s \in States |-> None]
      /\ store' = IF encrypted THEN store ELSE Empty
      /\ told' = IF encrypted THEN told ELSE Empty
      /\ pc' = [h \in Handlers |-> "idle"] /\ job' = [h \in Handlers |-> NoJob]
      /\ raced' = raced \cup {job[h].of : h \in {g \in Handlers : pc[g] \notin Unbound}}
      /\ UNCHANGED <<encrypted, begun, exchanges, torn, tmp, overlapped, issued>>
  BY DEF Crash
<1>3. crashes' \in 0..MaxCrashes /\ crashes' > 0
  BY <1>2, TokenConstants DEF IInv, TypeOK
<1>4. TypeOK'
  <2>1. store' \in Table /\ told' \in Table
    BY <1>2, Locals DEF IInv, TypeOK
  <2>2. senders' \in Table
    BY <1>1, <2>1, Locals DEF Table
  <2>3. raced' \subseteq Providers
    BY <1>2 DEF IInv, TypeOK, Engaged, Unbound
  <2>4. pc' \in [Handlers -> Stages] /\ job' \in [Handlers -> Job]
    BY <1>2, Locals DEF Stages
  <2>5. up' \in BOOLEAN
    BY <1>2
  <2>6. pending' \in [States -> Providers \cup {None}]
    BY <1>2
  <2>7. QED BY <1>2, <1>3, <2>1, <2>2, <2>3, <2>4, <2>5, <2>6 DEF IInv, TypeOK
<1>5. Engaged' /\ Fresh' /\ Alone'
  BY <1>2 DEF Engaged, Fresh, Alone, WithState, Unbound
<1>6. NotBegun' /\ EntryIsUnused' /\ TakenOnce' /\ ExchangedOnceAsBegun'
  BY <1>2 DEF IInv, NotBegun, EntryIsUnused, TakenOnce, ExchangedOnceAsBegun
<1>7. OneInFile' /\ FileStaysReadable'
  BY <1>2 DEF IInv, OneInFile, FileStaysReadable, InFile
<1>8. Settled'
  <2> SUFFICES ASSUME ~overlapped, NEW p \in Providers, p \notin raced'
               PROVE  store'[p] = told'[p] /\ senders'[p] \in {told'[p], 0}
    BY <1>2, <1>3 DEF Settled
  <2>1. \A h \in Handlers : ~(job[h].of = p /\ pc[h] = "install")
    BY <1>2 DEF Unbound
  <2>2. store[p] = told[p]
    BY <1>2, <2>1 DEF IInv, Settled
  <2>3. store'[p] = told'[p]
    BY <1>2, <2>2
  <2>4. QED BY <1>1, <2>3
<1>9. QED
  BY <1>4, <1>5, <1>6, <1>7, <1>8 DEF IInv

-----------------------------------------------------------------------------
(* The invariant holds in every state.                                     *)

\* The invariant holds in the beginning ...
LEMMA InitIInv == Init => IInv
<1> SUFFICES ASSUME Init PROVE IInv
  OBVIOUS
<1>1. TypeOK
  <2>1. 0 \in 0..MaxCrashes
    BY TokenConstants
  <2>2. tmp \in Temporary
    BY Locals DEF Init, NoTemporary, Temporary
  <2>3. /\ pc \in [Handlers -> Stages] /\ job \in [Handlers -> Job]
        /\ exchanges \in [States -> Seq(Providers)]
    <3>1. <<>> \in Seq(Providers)
      OBVIOUS
    <3>2. QED BY <3>1, Locals DEF Init, Stages
  <2>4. QED BY <2>1, <2>2, <2>3, Locals DEF Init, TypeOK
<1>2. Engaged /\ Fresh /\ Alone
  BY DEF Init, Engaged, Fresh, Alone, WithState, Unbound
<1>3. NotBegun /\ EntryIsUnused /\ TakenOnce /\ ExchangedOnceAsBegun
  BY DEF Init, NotBegun, EntryIsUnused, TakenOnce, ExchangedOnceAsBegun
<1>4. OneInFile /\ FileStaysReadable
  BY DEF Init, OneInFile, FileStaysReadable, InFile
<1>5. Settled
  <2>1. \A h \in Handlers : pc[h] # "install"
    BY DEF Init
  <2>2. store = Empty /\ told = Empty /\ senders = Empty
    BY DEF Init
  <2>3. QED BY <2>1, <2>2 DEF Settled
<1>6. QED
  BY <1>1, <1>2, <1>3, <1>4, <1>5 DEF IInv

\* ... and every step keeps it.
LEMMA NextIInv == IInv /\ [Next]_vars => IInv'
<1> SUFFICES ASSUME IInv, [Next]_vars PROVE IInv'
  OBVIOUS
<1>1. CASE UNCHANGED vars
  <2>1. UNCHANGED <<states, old, pending, begun, exchanges, fileVars, senders, issued,
                    pc, job, told, raced, fixed>>
    BY <1>1 DEF vars, fileVars, fixed
  <2>2. (TypeOK /\ Engaged)'
    BY <2>1 DEF IInv, TypeOK, Engaged, fileVars, fixed
  <2>3. (Fresh /\ NotBegun /\ EntryIsUnused /\ TakenOnce /\ ExchangedOnceAsBegun)'
    BY <2>1, FlowsStay
  <2>4. (OneInFile /\ FileStaysReadable /\ Settled)'
    BY <2>1, StoreStays DEF fileVars, fixed
  <2>5. Alone'
    BY <2>1, NobodyJoins
  <2>6. QED BY <2>2, <2>3, <2>4, <2>5 DEF IInv
<1>2. ASSUME NEW h \in Handlers, NEW p \in Providers, NEW s \in States,
             Begin(h, p, s) \/ Callback(h, p, s)
      PROVE  IInv'
  BY <1>2, BeginKeeps, CallbackKeeps
<1>3. ASSUME NEW h \in Handlers, NEW p \in Providers, Refresh(h, p) \/ Revoke(h, p)
      PROVE  IInv'
  BY <1>3, LoadKeeps
<1>4. ASSUME NEW h \in Handlers,
             Begun(h) \/ Consume(h) \/ ConsumeRefused(h) \/ CopyRaises(h)
      PROVE  IInv'
  BY <1>4, BegunKeeps, ConsumeKeeps, ConsumeRefusedKeeps, AnsweredWithErrorKeeps
<1>5. ASSUME NEW h \in Handlers,
             Exchange(h) \/ Refreshed(h) \/ Revoked(h) \/ ProviderFails(h)
      PROVE  IInv'
  BY <1>5, ExchangeKeeps, RefreshedKeeps, RevokedKeeps, AnsweredWithErrorKeeps
<1>6. ASSUME NEW h \in Handlers,
             \/ SaveInMemory(h) \/ ReadFile(h) \/ ReadRaises(h) \/ Open(h) \/ Fill(h)
             \/ FillRaises(h) \/ Rename(h) \/ RenameRaises(h) \/ Install(h)
      PROVE  IInv'
  BY <1>6, SaveInMemoryKeeps, ReadFileKeeps, AbandonedKeeps, OpenKeeps, FillKeeps,
     RenameKeeps, InstallKeeps
<1>7. ASSUME NEW s \in States, Age(s) PROVE IInv'
  BY <1>7, AgeKeeps
<1>8. CASE Crash
  BY <1>8, CrashKeeps
<1>9. QED
  BY <1>1, <1>2, <1>3, <1>4, <1>5, <1>6, <1>7, <1>8 DEF Next

\* Every reachable state satisfies the invariant.
THEOREM Invariance == Spec => []IInv
BY InitIInv, NextIInv, PTL DEF Spec

\* The state of the flows, of the token store and of the requests has its types.
THEOREM TypeCorrect == Spec => []TypeOK
<1>1. IInv => TypeOK
  BY DEF IInv
<1>2. QED
  BY Invariance, <1>1, PTL

\* A state buys one token at most, from the provider its flow was begun for, though
\* copies of the state dictionary bring taken states back.
THEOREM CodesAreExchangedOnce == Spec => []ExchangedOnceAsBegun
<1>1. IInv => ExchangedOnceAsBegun
  BY DEF IInv
<1>2. QED
  BY Invariance, <1>1, PTL

\* As long as no two threads were in the token file at once, the file can be read.
THEOREM FileIsReadable == Spec => []FileStaysReadable
<1>1. IInv => FileStaysReadable
  BY DEF IInv
<1>2. QED
  BY Invariance, <1>1, PTL

\* ... and it holds what the last answered request on a provider left, as long as
\* no two requests on that provider ran at once and none ended half-way; the sender
\* uses that token, or there is none.
THEOREM AnswersLast == Spec => []TokensAreAsAnswered
<1>1. IInv => TokensAreAsAnswered
  BY DEF IInv, Settled, TokensAreAsAnswered
<1>2. QED
  BY Invariance, <1>1, PTL
=============================================================================

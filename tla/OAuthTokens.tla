----------------------------- MODULE OAuthTokens -----------------------------
(***************************************************************************)
(* OAuth flows and tokens: packages/platforms/auth.py, OAuthFlowManager    *)
(* over OAuthStateStore and a token store, and the endpoints of the        *)
(* orchestrator's server.py that begin a flow, receive its callback,       *)
(* refresh and revoke, and build the platform's sender from the token.     *)
(*                                                                         *)
(* Every request runs on a handler thread of its own and nothing is        *)
(* locked.  A thread can lose the processor while it copies the states,    *)
(* while the provider answers, and at each step of a write of the token    *)
(* file: copy the whole file, open the temporary file (which empties it),  *)
(* fill it, rename it.  All writers use the same temporary file.           *)
(*                                                                         *)
(* Tokens are numbered in the order providers issue them; 0 is no token.   *)
(* A flow's redirect address is compared together with its provider and    *)
(* is left out.  No access token is preset in the environment.             *)
(***************************************************************************)
EXTENDS Naturals, Sequences

CONSTANTS Providers,   \* youtube and twitch
          States,      \* random state values, never drawn twice
          Handlers,    \* HTTP handler threads
          None,        \* no provider, no state
          MaxTokens,   \* bound: tokens ever issued
          MaxCrashes   \* bound: process deaths

ASSUME TokenConstants ==
  /\ None \notin Providers
  /\ None \notin States
  /\ MaxTokens \in Nat
  /\ MaxCrashes \in Nat

VARIABLES
  encrypted,   \* whether a key, and with it the token file, is configured
  up,          \* whether the process could start
  states,      \* OAuthStateStore._states
  old,         \* states issued more than ttl_seconds ago
  pending,     \* OAuthFlowManager._pending
  begun,       \* history: the provider a state was handed out for
  store,       \* the tokens in the file, or in InMemoryTokenStore
  torn,        \* whether the file is cut short or a mixture
  tmp,         \* the temporary file
  senders,     \* the token in each entry of PLATFORM_SENDERS
  issued,      \* the number of tokens issued so far
  pc, job,     \* what each handler thread does, and its locals
  exchanges,   \* history: the providers a state's code was exchanged with
  told,        \* history: the token after the last answered request on a provider
  raced,       \* history: providers two requests worked on at once, or one of
               \* whose requests failed or died half-way
  overlapped,  \* history: whether two threads were in the token file at once
  crashes

vars == <<encrypted, up, states, old, pending, begun, store, torn, tmp, senders,
          issued, pc, job, exchanges, told, raced, overlapped, crashes>>
flowVars == <<states, old, pending, begun, exchanges>>
fileVars == <<store, torn, tmp, overlapped>>
fixed    == <<encrypted, up, crashes>>

Tokens == 0..MaxTokens
Table  == [Providers -> Tokens]
Empty  == [p \in Providers |-> 0]

Temporary == [exists : BOOLEAN, torn : BOOLEAN, tokens : Table]
NoTemporary == [exists |-> FALSE, torn |-> FALSE, tokens |-> Empty]

\* A request's locals: its provider, its state, the states it copied, the token it
\* brings (0 when it removes one), the table it writes, and the file its
\* descriptor leads to: the temporary one, or the one that was renamed from it.
Job == [of : Providers \cup {None}, state : States \cup {None}, kept : SUBSET States,
        token : Tokens, table : Table, into : {"nothing", "tmp", "file"}]
JobOn(p, s, kept) == [of |-> p, state |-> s, kept |-> kept, token |-> 0,
                      table |-> Empty, into |-> "nothing"]
NoJob == JobOn(None, None, {})

InFile == {"open", "fill", "rename"}
Stages == {"idle", "issue", "consume", "exchange", "refresh", "revoke", "save",
           "install"} \cup InFile

TypeOK ==
  /\ encrypted \in BOOLEAN /\ up \in BOOLEAN
  /\ states \subseteq States /\ old \subseteq States
  /\ pending \in [States -> Providers \cup {None}]
  /\ begun \in [States -> Providers \cup {None}]
  /\ store \in Table /\ torn \in BOOLEAN /\ tmp \in Temporary
  /\ senders \in Table
  /\ issued \in Tokens
  /\ pc \in [Handlers -> Stages] /\ job \in [Handlers -> Job]
  /\ exchanges \in [States -> Seq(Providers)]
  /\ told \in Table
  /\ raced \subseteq Providers /\ overlapped \in BOOLEAN
  /\ crashes \in 0..MaxCrashes

Init ==
  /\ encrypted \in BOOLEAN /\ up = TRUE
  /\ states = {} /\ old = {}
  /\ pending = [s \in States |-> None]
  /\ begun = [s \in States |-> None]
  /\ store = Empty /\ torn = FALSE /\ tmp = NoTemporary
  /\ senders = Empty
  /\ issued = 0
  /\ pc = [h \in Handlers |-> "idle"] /\ job = [h \in Handlers |-> NoJob]
  /\ exchanges = [s \in States |-> <<>>]
  /\ told = Empty
  /\ raced = {} /\ overlapped = FALSE
  /\ crashes = 0

GoTo(h, stage) == pc' = [pc EXCEPT ![h] = stage]

\* Thread h has answered, or raised.
Finish(h) == GoTo(h, "idle") /\ job' = [job EXCEPT ![h] = NoJob]

\* Two requests change the token of p at once.
Unbound == {"idle", "issue", "consume"}
Racing(h, p) == \E g \in Handlers \ {h} : job[g].of = p /\ pc[g] \notin Unbound
Race(h, p) == raced' = IF Racing(h, p) THEN raced \cup {p} ELSE raced

\* The request of thread h ends half-way.
Abandon(h) == Finish(h) /\ raced' = raced \cup {job[h].of}

-----------------------------------------------------------------------------
(* OAuthStateStore and the flow.                                           *)

\* GET /platforms/oauth/<provider>/start: issue() adds a state and copies the
\* dictionary without those that are too old ...
Begin(h, p, s) ==
  /\ up /\ pc[h] = "idle"
  /\ begun[s] = None /\ s \notin states
  /\ \A g \in Handlers : job[g].state # s
  /\ states' = states \cup {s}
  /\ job' = [job EXCEPT ![h] = JobOn(p, s, (states \cup {s}) \ old)]
  /\ GoTo(h, "issue")
  /\ UNCHANGED <<old, pending, begun, exchanges, fileVars, senders, issued, told,
                 raced, fixed>>

\* A flow that keeps its entry in _pending in the wrong order.
BegunSwapped(h) ==
  LET j == job[h] IN
  /\ pc[h] = "issue"
  /\ states' = j.kept
  /\ pending' = [pending EXCEPT ![j.state] = j.state]
  /\ begun' = [begun EXCEPT ![j.state] = j.of]
  /\ Finish(h)
  /\ UNCHANGED <<old, exchanges, fileVars, senders, issued, told, raced, fixed>>

\* ... replaces it by the copy, and the browser is sent to the provider.
Begun(h) ==
  LET j == job[h] IN
  /\ pc[h] = "issue"
  /\ states' = j.kept
  /\ pending' = [pending EXCEPT ![j.state] = j.of]
  /\ begun' = [begun EXCEPT ![j.state] = j.of]
  /\ Finish(h)
  /\ UNCHANGED <<old, exchanges, fileVars, senders, issued, told, raced, fixed>>

\* Ten minutes pass.
Age(s) ==
  /\ up /\ s \in states \ old
  /\ old' = old \cup {s}
  /\ UNCHANGED <<states, pending, begun, exchanges, fileVars, senders, issued, pc,
                 job, told, raced, fixed>>

\* The callback of provider p with a state that was handed out: consume() copies
\* the states ...
Callback(h, p, s) ==
  /\ up /\ pc[h] = "idle"
  /\ begun[s] # None
  /\ job' = [job EXCEPT ![h] = JobOn(p, s, states \ old)]
  /\ GoTo(h, "consume")
  /\ UNCHANGED <<flowVars, fileVars, senders, issued, told, raced, fixed>>

\* A callback that leaves its entry in _pending.
ConsumeOnly(h) ==
  LET j == job[h] IN
  /\ pc[h] = "consume"
  /\ j.state \in j.kept /\ pending[j.state] = j.of
  /\ states' = j.kept \ {j.state}
  /\ GoTo(h, "exchange")
  /\ Race(h, j.of)
  /\ UNCHANGED <<old, pending, begun, exchanges, fileVars, senders, issued, job,
                 told, fixed>>

\* ... and takes this one with its entry in _pending ...
Consume(h) ==
  LET j == job[h] IN
  /\ pc[h] = "consume"
  /\ j.state \in j.kept /\ pending[j.state] = j.of
  /\ states' = j.kept \ {j.state}
  /\ pending' = [pending EXCEPT ![j.state] = None]
  /\ GoTo(h, "exchange")
  /\ Race(h, j.of)
  /\ UNCHANGED <<old, begun, exchanges, fileVars, senders, issued, job, told, fixed>>

\* ... unless it is too old, or was taken, or belongs to another provider.
ConsumeRefused(h) ==
  LET j == job[h] IN
  /\ pc[h] = "consume"
  /\ j.state \notin j.kept \/ pending[j.state] # j.of
  /\ states' = j.kept \ {j.state}
  /\ pending' = IF j.state \in j.kept THEN [pending EXCEPT ![j.state] = None]
                ELSE pending
  /\ Finish(h)
  /\ UNCHANGED <<old, begun, exchanges, fileVars, senders, issued, told, raced,
                 fixed>>

\* Another thread changes the dictionary that is being copied: RuntimeError.
CopyRaises(h) ==
  /\ pc[h] \in {"issue", "consume"}
  /\ \E g \in Handlers \ {h} : pc[g] # "idle"
  /\ Finish(h)
  /\ UNCHANGED <<flowVars, fileVars, senders, issued, told, raced, fixed>>

-----------------------------------------------------------------------------
(* The provider answers.                                                   *)

\* A token that the provider issues to thread h.
Receive(h, stage) ==
  /\ pc[h] = stage
  /\ issued < MaxTokens
  /\ issued' = issued + 1
  /\ job' = [job EXCEPT ![h].token = issued + 1]
  /\ GoTo(h, "save")

\* exchange_code() of OAuthClient.
Exchange(h) ==
  LET j == job[h] IN
  /\ Receive(h, "exchange")
  /\ exchanges' = [exchanges EXCEPT ![j.state] = Append(@, j.of)]
  /\ UNCHANGED <<states, old, pending, begun, fileVars, senders, told, raced, fixed>>

\* refresh() and revoke() first load the token of the provider.
Load(h, p, stage) ==
  /\ up /\ pc[h] = "idle"
  /\ ~torn /\ store[p] # 0
  /\ job' = [job EXCEPT ![h] = JobOn(p, None, {})]
  /\ GoTo(h, stage)
  /\ Race(h, p)
  /\ UNCHANGED <<flowVars, fileVars, senders, issued, told, fixed>>

\* POST /platforms/oauth/<provider>/refresh.
Refresh(h, p) == Load(h, p, "refresh")

Refreshed(h) ==
  /\ Receive(h, "refresh")
  /\ UNCHANGED <<flowVars, fileVars, senders, told, raced, fixed>>

\* POST /platforms/oauth/<provider>/revoke.
Revoke(h, p) == Load(h, p, "revoke")

Revoked(h) ==
  /\ pc[h] = "revoke"
  /\ GoTo(h, "save")
  /\ UNCHANGED <<flowVars, fileVars, senders, issued, job, told, raced, fixed>>

\* The provider refuses, or cannot be reached, or answers something else: the
\* request ends, what was stored stays, and the sender as well.
ProviderFails(h) ==
  /\ pc[h] \in {"exchange", "refresh", "revoke"}
  /\ Finish(h)
  /\ UNCHANGED <<flowVars, fileVars, senders, issued, told, raced, fixed>>

-----------------------------------------------------------------------------
(* save() and delete() of the token store.                                 *)

\* InMemoryTokenStore: one dictionary operation.
SaveInMemory(h) ==
  LET j == job[h] IN
  /\ pc[h] = "save" /\ ~encrypted
  /\ store' = [store EXCEPT ![j.of] = j.token]
  /\ GoTo(h, "install")
  /\ UNCHANGED <<flowVars, torn, tmp, overlapped, senders, issued, job, told, raced,
                 fixed>>

\* EncryptedFileTokenStore: _read() copies the tokens of every provider ...
ReadFile(h) ==
  LET j == job[h] IN
  /\ pc[h] = "save" /\ encrypted /\ ~torn
  /\ job' = [job EXCEPT ![h].table = [store EXCEPT ![j.of] = j.token]]
  /\ overlapped' = (overlapped \/ \E g \in Handlers : pc[g] \in InFile)
  /\ GoTo(h, "open")
  /\ UNCHANGED <<flowVars, store, torn, tmp, senders, issued, told, raced, fixed>>

\* ... or cannot decrypt the file.
ReadRaises(h) ==
  /\ pc[h] = "save" /\ encrypted /\ torn
  /\ Abandon(h)
  /\ UNCHANGED <<flowVars, fileVars, senders, issued, told, fixed>>

\* A _write() that opens the token file itself.
OpenInPlace(h) ==
  /\ pc[h] = "open"
  /\ store' = Empty /\ torn' = TRUE
  /\ tmp' = [exists |-> TRUE, torn |-> TRUE, tokens |-> Empty]
  /\ job' = [job EXCEPT ![h].into = "file"]
  /\ GoTo(h, "fill")
  /\ UNCHANGED <<flowVars, overlapped, senders, issued, told, raced, fixed>>

\* _write() opens the temporary file, which empties it ...
Open(h) ==
  /\ pc[h] = "open"
  /\ tmp' = [exists |-> TRUE, torn |-> TRUE, tokens |-> Empty]
  /\ job' = [job EXCEPT ![h].into = "tmp"]
  /\ GoTo(h, "fill")
  /\ UNCHANGED <<flowVars, store, torn, overlapped, senders, issued, told, raced,
                 fixed>>

\* Another thread has the same file open: its bytes may end up among ours.
Shared(h) ==
  \E g \in Handlers \ {h} : pc[g] \in {"fill", "rename"} /\ job[g].into = job[h].into

\* ... fills it, wherever it is by now ...
Fill(h) ==
  LET j == job[h] IN
  /\ pc[h] = "fill"
  /\ \E mixed \in {FALSE, Shared(h)} :
       LET tokens == IF mixed THEN Empty ELSE j.table IN
       /\ tmp' = IF j.into = "tmp"
                 THEN [exists |-> TRUE, torn |-> mixed, tokens |-> tokens] ELSE tmp
       /\ store' = IF j.into = "file" THEN tokens ELSE store
       /\ torn' = IF j.into = "file" THEN mixed ELSE torn
  /\ GoTo(h, "rename")
  /\ UNCHANGED <<flowVars, overlapped, senders, issued, job, told, raced, fixed>>

\* ... or runs out of space ...
FillRaises(h) ==
  /\ pc[h] = "fill"
  /\ Abandon(h)
  /\ UNCHANGED <<flowVars, fileVars, senders, issued, told, fixed>>

\* ... and renames it; descriptors follow the file.
Rename(h) ==
  /\ pc[h] = "rename" /\ tmp.exists
  /\ store' = tmp.tokens
  /\ torn' = tmp.torn
  /\ tmp' = NoTemporary
  /\ job' = [g \in Handlers |->
              [job[g] EXCEPT !.into = IF @ = "tmp" /\ g # h THEN "file" ELSE "nothing"]]
  /\ GoTo(h, "install")
  /\ UNCHANGED <<flowVars, overlapped, senders, issued, told, raced, fixed>>

\* Another thread has renamed the temporary file already.
RenameRaises(h) ==
  /\ pc[h] = "rename" /\ ~tmp.exists
  /\ Abandon(h)
  /\ UNCHANGED <<flowVars, fileVars, senders, issued, told, fixed>>

\* A revocation that leaves the sender in place.
InstallOnly(h) ==
  LET j == job[h] IN
  /\ pc[h] = "install"
  /\ senders' = IF j.token = 0 THEN senders ELSE [senders EXCEPT ![j.of] = j.token]
  /\ told' = [told EXCEPT ![j.of] = j.token]
  /\ Finish(h)
  /\ UNCHANGED <<flowVars, fileVars, issued, raced, fixed>>

\* refresh_platform_sender(), or the two pop() of a revocation; the request is
\* answered.
Install(h) ==
  LET j == job[h] IN
  /\ pc[h] = "install"
  /\ senders' = [senders EXCEPT ![j.of] = j.token]
  /\ told' = [told EXCEPT ![j.of] = j.token]
  /\ Finish(h)
  /\ UNCHANGED <<flowVars, fileVars, issued, raced, fixed>>

\* The process dies and starts again: senders are made of the stored tokens that
\* have not expired; a file that cannot be read stops the start.
Crash ==
  /\ up /\ crashes < MaxCrashes
  /\ crashes' = crashes + 1
  /\ up' = ~torn
  /\ states' = {} /\ old' = {}
  /\ pending' = [s \in States |-> None]
  /\ store' = IF encrypted THEN store ELSE Empty
  /\ told' = IF encrypted THEN told ELSE Empty
  /\ \E live \in SUBSET Providers :
       senders' = [p \in Providers |-> IF p \in live THEN store'[p] ELSE 0]
  /\ pc' = [h \in Handlers |-> "idle"]
  /\ job' = [h \in Handlers |-> NoJob]
  /\ raced' = raced \cup {job[h].of : h \in {g \in Handlers : pc[g] \notin Unbound}}
  /\ UNCHANGED <<encrypted, begun, exchanges, torn, tmp, overlapped, issued>>

Next ==
  \/ \E h \in Handlers :
       \/ \E p \in Providers, s \in States : Begin(h, p, s)
       \/ Begun(h)
       \/ \E p \in Providers, s \in States : Callback(h, p, s)
       \/ Consume(h)
       \/ ConsumeRefused(h)
       \/ CopyRaises(h)
       \/ Exchange(h)
       \/ \E p \in Providers : Refresh(h, p)
       \/ Refreshed(h)
       \/ \E p \in Providers : Revoke(h, p)
       \/ Revoked(h)
       \/ ProviderFails(h)
       \/ SaveInMemory(h)
       \/ ReadFile(h)
       \/ ReadRaises(h)
       \/ Open(h)
       \/ Fill(h)
       \/ FillRaises(h)
       \/ Rename(h)
       \/ RenameRaises(h)
       \/ Install(h)
  \/ \E s \in States : Age(s)
  \/ Crash

Spec == Init /\ [][Next]_vars

-----------------------------------------------------------------------------
(* Properties.                                                             *)

\* A state buys one token at most, and from the provider its flow was begun for:
\* two callbacks may both find it in the state store, when a copy of the
\* dictionary brings it back, but only one takes its entry in _pending
\* (docs/security/OAUTH_AND_SECRETS.md: "one-time, short-lived").
ExchangedOnceAsBegun ==
  \A s \in States : exchanges[s] \in {<<>>, <<begun[s]>>}

\* As long as no two threads were in the token file at once it can be read,
\* wherever a write failed or the process died: _write() fills another file and
\* renames it.
FileStaysReadable == ~overlapped => ~torn

\* As long as no two threads were in the token file at once, the last answered
\* request on a provider is what the store holds: a revoked token does not come
\* back with another provider's write, nor with a restart, and no token is lost.
\* The sender uses that token or there is none: it is not demanded that a sender
\* outlives a failed refresh, after which docs/security/OAUTH_AND_SECRETS.md would
\* have "that platform" disabled, while the code leaves it.  Providers in raced are
\* excepted: of two requests at once on one, a refresh may store its token after the
\* revocation was answered, or the older of two tokens may be stored last.
TokensAreAsAnswered ==
  \A p \in Providers \ raced :
    ~overlapped =>
      /\ \/ store[p] = told[p]
         \/ \E h \in Handlers : job[h].of = p /\ pc[h] = "install"
      /\ senders[p] \in {told[p], 0}
=============================================================================

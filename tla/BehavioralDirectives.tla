------------------------ MODULE BehavioralDirectives ------------------------
(***************************************************************************)
(* Behavioral directives and the Active Self: private_chat_response of     *)
(* apps/orchestrator server.py proposes them, packages/memory/service.py   *)
(* keeps them over the rows of packages/memory/postgres.py, and            *)
(* ActiveSelfCompiler of packages/persona/behavior.py selects the ones     *)
(* that enter a prompt.                                                    *)
(*                                                                         *)
(* As in MemoryReview there is no lock, each row is a transaction of its   *)
(* own, written after the dictionary, and a stretch of code between two    *)
(* commits is one step, but for the look through _claims, which another    *)
(* thread may disturb.  What a chat proposes shares its source event, the  *)
(* claims proposed for the memory (MemoryReview) too.                      *)
(*                                                                         *)
(* The directives of the model share one canonical address (domain,        *)
(* subject, predicate): others never meet.  They are numbered in the order *)
(* of created_at; 0 is no directive.  An event has the number of the first *)
(* directive of its chat.                                                  *)
(***************************************************************************)
EXTENDS Naturals, FiniteSets

CONSTANTS Values,         \* values, with their instructions
          Unsafe,         \* those whose instruction the compiler refuses
          Audiences,      \* recipients of a prompt
          Candidates,     \* what chats may propose: values with their audiences
          Handlers,       \* HTTP handler threads
          None,           \* no value
          MaxDirectives,  \* bound: directives ever proposed
          MaxDisabled,    \* bound: directives disabled at once
          MaxTrouble      \* bound: transactions that raise, process deaths, and
                          \* claims approved for the memory

ASSUME DirectiveConstants ==
  /\ Unsafe \subseteq Values
  /\ Candidates \subseteq [value : Values, audiences : SUBSET Audiences]
  /\ None \notin Values
  /\ MaxDirectives \in Nat
  /\ MaxDisabled \in Nat
  /\ MaxTrouble \in Nat

VARIABLES
  directives, rows,   \* _behavioral_directives and behavioral_directives
  claims, claimRows,  \* the confirmed claims in _claims, and those in its table
  drawn,              \* the number of directives proposed so far
  pc, job,            \* what each handler thread does, and its locals
  chat,               \* the source event of the chat it answers, or 0
  seen,               \* the threads that found their claim in _claims on beginning to
                      \* look through it
  torn,               \* the threads since whose beginning _claims has grown
  approved,           \* history: directives an operator approved
  answered,           \* history: those whose approval was answered
  lost,               \* history: claims whose commit failed, or was cut off
  withdrawn,          \* history: directives of which a request that rejected,
                      \* disabled, revoked or superseded them was answered
  raced,              \* history: directives two requests worked on at once
  memories, faults, crashes

look == <<seen, torn>>

vars == <<directives, rows, claims, claimRows, drawn, pc, job, chat, look, approved,
          answered, lost, withdrawn, raced, memories, faults, crashes>>

Ids == 1..MaxDirectives

Directive == [status     : {"absent", "pending", "confirmed", "superseded",
                            "rejected", "revoked"},
              enabled    : BOOLEAN,
              value      : Values \cup {None},
              audiences  : SUBSET Audiences,
              event      : 0..MaxDirectives,
              supersedes : 0..MaxDirectives]
NoDirective == [status |-> "absent", enabled |-> TRUE, value |-> None,
                audiences |-> {}, event |-> 0, supersedes |-> 0]

\* A claim, as the search for a duplicate compares it: its event and its value.
Claims == (0..MaxDirectives) \X (Values \cup {None})
Claim(r) == <<r.event, r.value>>

\* A request's locals: its directive, the one whose row it writes, and how, and the
\* claim it writes.
Job == [of : 0..MaxDirectives, row : 0..MaxDirectives, copy : Directive, claim : Claims]
NoJob == [of |-> 0, row |-> 0, copy |-> NoDirective, claim |-> Claim(NoDirective)]

Stages == {"idle", "row", "chat", "confirm", "link", "previous", "scan", "claim"}

TypeOK ==
  /\ directives \in [Ids -> Directive]
  /\ rows \in [Ids -> Directive]
  /\ claims \subseteq Claims
  /\ claimRows \subseteq Claims
  /\ drawn \in 0..MaxDirectives
  /\ pc \in [Handlers -> Stages]
  /\ job \in [Handlers -> Job]
  /\ chat \in [Handlers -> 0..MaxDirectives]
  /\ seen \subseteq Handlers
  /\ torn \subseteq Handlers
  /\ approved \subseteq Ids
  /\ answered \subseteq Ids
  /\ lost \subseteq Claims
  /\ withdrawn \subseteq Ids
  /\ raced \subseteq Ids
  /\ {memories, faults, crashes} \subseteq Nat /\ memories + faults + crashes <= MaxTrouble

Init ==
  /\ directives = [d \in Ids |-> NoDirective]
  /\ rows       = [d \in Ids |-> NoDirective]
  /\ claims     = {}
  /\ claimRows  = {}
  /\ drawn      = 0
  /\ pc         = [h \in Handlers |-> "idle"]
  /\ job        = [h \in Handlers |-> NoJob]
  /\ chat       = [h \in Handlers |-> 0]
  /\ seen       = {}
  /\ torn       = {}
  /\ approved   = {}
  /\ answered   = {}
  /\ lost       = {}
  /\ withdrawn  = {}
  /\ raced      = {}
  /\ memories   = 0
  /\ faults     = 0
  /\ crashes    = 0

-----------------------------------------------------------------------------

\* Thread h changes directive d to r in the dictionary, and has yet to commit it.
Put(h, stage, d, r) ==
  /\ directives' = [directives EXCEPT ![d] = r]
  /\ pc' = [pc EXCEPT ![h] = stage]
  /\ job' = [job EXCEPT ![h] = [of |-> IF @.of = 0 THEN d ELSE @.of,
                                row |-> d, copy |-> r, claim |-> @.claim]]
  /\ raced' = IF \E g \in Handlers \ {h} : d \in {job[g].of, job[g].row}
              THEN raced \cup {d} ELSE raced

\* Thread h has answered, or raised.
Finish(h) ==
  /\ pc' = [pc EXCEPT ![h] = "idle"]
  /\ job' = [job EXCEPT ![h] = NoJob]
  /\ chat' = [chat EXCEPT ![h] = 0]

\* Scopes overlap when they share an audience or one of them is for all.
Overlap(a, b) == a = {} \/ b = {} \/ a \cap b # {}

\* The same candidate is waiting for review or in force already.
Known(v, a) ==
  \E e \in Ids :
    /\ directives[e].status \in {"pending", "confirmed"}
    /\ directives[e].value = v
    /\ directives[e].audiences = a

\* The confirmed directives that one for the audiences a would replace.
Replaceable(a) ==
  {e \in Ids : /\ directives[e].status = "confirmed"
               /\ Overlap(directives[e].audiences, a)}

\* The newest of them, or 0.
Newest(ids) == IF ids = {} THEN 0
               ELSE CHOOSE e \in ids : \A f \in ids : f <= e

\* The source event of what thread h proposes: one for all candidates of a chat.
Event(h) == IF chat[h] = 0 THEN drawn + 1 ELSE chat[h]

\* A proposal that skips the review.
ProposeConfirmed(h, v, a) ==
  /\ pc[h] \in {"idle", "chat"}
  /\ drawn < MaxDirectives
  /\ drawn' = drawn + 1
  /\ ~Known(v, a)
  /\ chat' = [chat EXCEPT ![h] = Event(h)]
  /\ Put(h, "row", drawn + 1,
         [status |-> "confirmed", enabled |-> TRUE, value |-> v, audiences |-> a,
          event |-> Event(h), supersedes |-> Newest(Replaceable(a))])
  /\ UNCHANGED <<rows, claims, claimRows, look, approved, answered, lost, withdrawn,
                 memories, faults, crashes>>

\* A candidate found while answering a private chat, the first or a further one.
Propose(h, v, a) ==
  /\ pc[h] \in {"idle", "chat"}
  /\ drawn < MaxDirectives
  /\ drawn' = drawn + 1
  /\ ~Known(v, a)
  /\ chat' = [chat EXCEPT ![h] = Event(h)]
  /\ Put(h, "row", drawn + 1,
         [status |-> "pending", enabled |-> TRUE, value |-> v, audiences |-> a,
          event |-> Event(h), supersedes |-> Newest(Replaceable(a))])
  /\ UNCHANGED <<rows, claims, claimRows, look, approved, answered, lost, withdrawn,
                 memories, faults, crashes>>

\* A rejection under a status the type does not have.
RejectDeclined(h, d) ==
  /\ pc[h] = "idle"
  /\ directives[d].status = "pending"
  /\ Put(h, "row", d, [directives[d] EXCEPT !.status = "declined"])
  /\ UNCHANGED <<rows, claims, claimRows, drawn, chat, look, approved, answered,
                 lost, withdrawn, memories, faults, crashes>>

\* POST /memory/behavioral/reject.
Reject(h, d) ==
  /\ pc[h] = "idle"
  /\ directives[d].status = "pending"
  /\ Put(h, "row", d, [directives[d] EXCEPT !.status = "rejected"])
  /\ UNCHANGED <<rows, claims, claimRows, drawn, chat, look, approved, answered,
                 lost, withdrawn, memories, faults, crashes>>

\* POST /memory/behavioral/disable, in any status.
Disable(h, d) ==
  /\ pc[h] = "idle"
  /\ directives[d].status # "absent"
  /\ Cardinality({e \in Ids \ {d} : ~directives[e].enabled}) < MaxDisabled
  /\ Put(h, "row", d, [directives[d] EXCEPT !.enabled = FALSE])
  /\ UNCHANGED <<rows, claims, claimRows, drawn, chat, look, approved, answered,
                 lost, withdrawn, memories, faults, crashes>>

\* POST /memory/behavioral/revoke, in any status.
Revoke(h, d) ==
  /\ pc[h] = "idle"
  /\ directives[d].status # "absent"
  /\ Put(h, "row", d, [directives[d] EXCEPT !.status = "revoked"])
  /\ UNCHANGED <<rows, claims, claimRows, drawn, chat, look, approved, answered,
                 lost, withdrawn, memories, faults, crashes>>

\* The commit that ends these requests; a chat goes on to its next candidate.
CommitRow(h) ==
  LET j == job[h] IN
  /\ pc[h] = "row"
  /\ rows' = [rows EXCEPT ![j.row] = j.copy]
  /\ withdrawn' = IF j.copy.status = "pending" /\ j.copy.enabled
                  THEN withdrawn ELSE withdrawn \cup {j.row}
  /\ pc' = [pc EXCEPT ![h] = IF chat[h] = 0 THEN "idle" ELSE "chat"]
  /\ job' = [job EXCEPT ![h] = NoJob]
  /\ UNCHANGED <<directives, claims, claimRows, drawn, chat, look, approved,
                 answered, lost, raced, memories, faults, crashes>>

\* The chat is answered when there is no further candidate.
AnswerChat(h) ==
  /\ pc[h] = "chat"
  /\ Finish(h)
  /\ UNCHANGED <<directives, rows, claims, claimRows, drawn, look, approved,
                 answered, lost, withdrawn, raced, memories, faults, crashes>>

-----------------------------------------------------------------------------
(* POST /memory/behavioral/approve.                                        *)

\* An approval of anything that is not approved yet.
ApproveAny(h, d) ==
  /\ pc[h] = "idle"
  /\ directives[d].status \notin {"absent", "confirmed"}
  /\ Put(h, "confirm", d, [directives[d] EXCEPT !.status = "confirmed"])
  /\ approved' = approved \cup {d}
  /\ UNCHANGED <<rows, claims, claimRows, drawn, chat, look, answered, lost,
                 withdrawn, memories, faults, crashes>>

Approve(h, d) ==
  /\ pc[h] = "idle"
  /\ directives[d].status = "pending"
  /\ Put(h, "confirm", d, [directives[d] EXCEPT !.status = "confirmed"])
  /\ approved' = approved \cup {d}
  /\ UNCHANGED <<rows, claims, claimRows, drawn, chat, look, answered, lost,
                 withdrawn, memories, faults, crashes>>

CommitConfirmed(h) ==
  LET j == job[h] IN
  /\ pc[h] = "confirm"
  /\ rows' = [rows EXCEPT ![j.row] = j.copy]
  /\ pc' = [pc EXCEPT ![h] = "link"]
  /\ UNCHANGED <<directives, claims, claimRows, drawn, job, chat, look, approved,
                 answered, lost, withdrawn, raced, memories, faults, crashes>>

\* The directive named when the proposal was made is superseded if it is still
\* confirmed ...
Supersede(h) ==
  LET e == job[h].copy.supersedes IN
  /\ pc[h] = "link"
  /\ e # 0
  /\ directives[e].status = "confirmed"
  /\ Put(h, "previous", e, [directives[e] EXCEPT !.status = "superseded"])
  /\ UNCHANGED <<rows, claims, claimRows, drawn, chat, look, approved, answered,
                 lost, withdrawn, memories, faults, crashes>>

\* The claim an approval of directive d asserts.
ClaimOf(d) == Claim(directives[d])

\* A look that takes any claim of the event for a duplicate.
DuplicateOfEvent(c) == \E b \in claims : b[1] = c[1]

\* A claim of the same event and value is there.
Duplicate(c) == c \in claims

\* Thread h begins to look through _claims for its claim.
BeginLook(h) ==
  /\ pc' = [pc EXCEPT ![h] = "scan"]
  /\ seen' = IF Duplicate(ClaimOf(job[h].of)) THEN seen \cup {h} ELSE seen
  /\ UNCHANGED torn

\* It is through, or has raised.
EndLook(h) ==
  /\ seen' = seen \ {h}
  /\ torn' = torn \ {h}

\* A commit that is forgotten.
CommitPreviousNot(h) ==
  /\ pc[h] = "previous"
  /\ BeginLook(h)
  /\ UNCHANGED <<directives, rows, claims, claimRows, drawn, job, chat, approved,
                 answered, lost, withdrawn, raced, memories, faults, crashes>>

\* ... which is committed ...
CommitPrevious(h) ==
  LET j == job[h] IN
  /\ pc[h] = "previous"
  /\ rows' = [rows EXCEPT ![j.row] = j.copy]
  /\ BeginLook(h)
  /\ UNCHANGED <<directives, claims, claimRows, drawn, job, chat, approved,
                 answered, lost, withdrawn, raced, memories, faults, crashes>>

\* ... or there is nothing to supersede.
NoPrevious(h) ==
  LET e == job[h].copy.supersedes IN
  /\ pc[h] = "link"
  /\ e # 0 => directives[e].status # "confirmed"
  /\ BeginLook(h)
  /\ UNCHANGED <<directives, rows, claims, claimRows, drawn, job, chat, approved,
                 answered, lost, withdrawn, raced, memories, faults, crashes>>

\* Claim c enters _claims, which disturbs the threads that look through it.
Insert(h, c) ==
  /\ claims' = claims \cup {c}
  /\ torn' = (torn \cup {g \in Handlers : pc[g] = "scan"}) \ {h}
  /\ pc' = [pc EXCEPT ![h] = "claim"]
  /\ UNCHANGED seen

\* A duplicate was found: the approval is answered without a claim of its own.
FindDuplicate(h) ==
  LET j == job[h] IN
  /\ pc[h] = "scan"
  /\ Duplicate(ClaimOf(j.of))
  /\ EndLook(h)
  /\ answered' = answered \cup {j.of}
  /\ withdrawn' = withdrawn \cup ({j.row} \ {j.of})
  /\ Finish(h)
  /\ UNCHANGED <<directives, rows, claims, claimRows, drawn, approved, lost, raced,
                 memories, faults, crashes>>

\* None was there: the claim enters _claims.
AssertClaim(h) ==
  LET c == ClaimOf(job[h].of) IN
  /\ pc[h] = "scan"
  /\ h \notin seen
  /\ Insert(h, c)
  /\ job' = [job EXCEPT ![h].claim = c]
  /\ UNCHANGED <<directives, rows, claimRows, drawn, chat, approved, answered, lost,
                 withdrawn, raced, memories, faults, crashes>>

\* "dictionary changed size during iteration": a RuntimeError ends the request, and
\* the directive stays confirmed.
LookRaises(h) ==
  /\ pc[h] = "scan"
  /\ h \in torn
  /\ EndLook(h)
  /\ Finish(h)
  /\ UNCHANGED <<directives, rows, claims, claimRows, drawn, approved, answered,
                 lost, withdrawn, raced, memories, faults, crashes>>

\* MemoryService.approve of a claim that the chat of directive d proposed for the
\* memory as well (the steps of it that concern the claims; see MemoryReview).
ApproveMemory(h, d) ==
  /\ pc[h] = "idle"
  /\ memories + faults + crashes < MaxTrouble
  /\ memories' = memories + 1
  /\ directives[d].status # "absent"
  /\ Insert(h, ClaimOf(d))
  /\ job' = [job EXCEPT ![h].claim = ClaimOf(d)]
  /\ UNCHANGED <<directives, rows, claimRows, drawn, chat, approved, answered, lost,
                 withdrawn, raced, faults, crashes>>

\* The claim's row; the request is answered.
CommitClaim(h) ==
  LET j == job[h] IN
  /\ pc[h] = "claim"
  /\ claimRows' = claimRows \cup {j.claim}
  /\ answered' = answered \cup ({j.of} \ {0})
  /\ withdrawn' = withdrawn \cup ({j.row} \ {j.of})
  /\ Finish(h)
  /\ UNCHANGED <<directives, rows, claims, drawn, look, approved, lost, raced,
                 memories, faults, crashes>>

-----------------------------------------------------------------------------
(* Failures.                                                               *)

\* A transaction raises: a timeout, a lost connection, perhaps after the commit.
CommitFails(h) ==
  LET j == job[h] IN
  /\ memories + faults + crashes < MaxTrouble
  /\ faults' = faults + 1
  /\ \/ /\ pc[h] \in {"row", "confirm", "previous"}
        /\ rows' \in {rows, [rows EXCEPT ![j.row] = j.copy]}
        /\ UNCHANGED <<claimRows, lost>>
     \/ /\ pc[h] = "claim"
        /\ claimRows' \in {claimRows, claimRows \cup {j.claim}}
        /\ lost' = lost \cup {j.claim}
        /\ UNCHANGED rows
  /\ Finish(h)
  /\ UNCHANGED <<directives, claims, drawn, look, approved, answered, withdrawn,
                 raced, memories, crashes>>

\* The process dies and starts again: _load_postgres reads the rows.
Crash ==
  /\ memories + faults + crashes < MaxTrouble
  /\ crashes' = crashes + 1
  /\ directives' = rows
  /\ claims' = claimRows
  /\ lost' = lost \cup (claims \ claimRows)
  /\ pc' = [h \in Handlers |-> "idle"]
  /\ job' = [h \in Handlers |-> NoJob]
  /\ chat' = [h \in Handlers |-> 0]
  /\ seen' = {}
  /\ torn' = {}
  /\ UNCHANGED <<rows, claimRows, drawn, approved, answered, withdrawn, raced,
                 memories, faults>>

Next ==
  \/ \E h \in Handlers :
       \/ \E c \in Candidates : Propose(h, c.value, c.audiences)
       \/ \E d \in Ids : Reject(h, d)
       \/ \E d \in Ids : Disable(h, d)
       \/ \E d \in Ids : Revoke(h, d)
       \/ \E d \in Ids : Approve(h, d)
       \/ \E d \in Ids : ApproveMemory(h, d)
       \/ CommitRow(h)
       \/ AnswerChat(h)
       \/ CommitConfirmed(h)
       \/ Supersede(h)
       \/ CommitPrevious(h)
       \/ NoPrevious(h)
       \/ FindDuplicate(h)
       \/ AssertClaim(h)
       \/ LookRaises(h)
       \/ CommitClaim(h)
       \/ CommitFails(h)
  \/ Crash

Spec == Init /\ [][Next]_vars

-----------------------------------------------------------------------------
(* The Active Self.                                                        *)

\* list_active_behavioral_directives.
Listed == {d \in Ids : directives[d].status # "absent" /\ directives[d].enabled}

\* The directives compile() leaves for a prompt to audience r.
Active(r) ==
  LET confirmed == {d \in Listed : directives[d].status = "confirmed"}
      replaced == {directives[d].supersedes : d \in confirmed}
  IN {d \in confirmed \ replaced :
        /\ directives[d].value \notin Unsafe
        /\ directives[d].audiences = {} \/ r \in directives[d].audiences}

\* The one in force at the address: the newest wins.
InForce(r) == Newest(Active(r))

-----------------------------------------------------------------------------
(* Properties.                                                             *)

\* A directive is in force only when an operator approved it: no failure, restart
\* or race of requests lets a candidate into a prompt (docs/adr/007: "approval-
\* gated").
InForceWasApproved == \A r \in Audiences : InForce(r) \in approved \cup {0}

\* A directive that was rejected, disabled, revoked or superseded by a request that
\* was answered never shapes a prompt again, whatever fails and however often the
\* process restarts; unless another request worked on it at the same time, whose
\* later commit may write the row back as it was.
WithdrawnStaysOut ==
  \A r \in Audiences : InForce(r) \notin withdrawn \ raced

AtRest == \A h \in Handlers : pc[h] = "idle"

\* At rest, if no commit failed, a restart changes nothing: every directive no two
\* requests worked on at once is in its row as it is in memory (add_behavioral_
\* directive after every change, the superseded directive's too).
RowsMatchAtRest ==
  AtRest /\ faults = 0 =>
    \A d \in Ids \ raced : rows[d] = directives[d]

\* docs/memory/MEMORY_MODEL.md: "Approval writes a versioned claim": at rest every
\* directive in force whose approval was answered has its claim in the table, its
\* own or a duplicate another request asserted, unless the commit of just that claim
\* failed or was cut off by a restart.  An approval that raised (a failed commit,
\* or LookRaises) may leave a directive in force without a claim.
InForceHasClaim ==
  AtRest => \A r \in Audiences :
    InForce(r) \in answered => ClaimOf(InForce(r)) \in claimRows \cup lost
=============================================================================

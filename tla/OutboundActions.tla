--------------------------- MODULE OutboundActions ---------------------------
(***************************************************************************)
(* The outbound action queue: packages/platforms/contracts.py,             *)
(* OutboundActionService, and the /platforms/actions endpoints of          *)
(* apps/orchestrator server.py that drive it.                              *)
(*                                                                         *)
(* ThreadingHTTPServer serves each request in a thread of its own; the     *)
(* threads meet at the service's RLock.  A request holds the lock from its *)
(* status check to its last write, the call to the platform included, so   *)
(* its steps are seen by the others only when it is over.  They are steps  *)
(* nevertheless, because each of them can fail and the process can die     *)
(* between any two: the memory copy is updated first, then the row is      *)
(* committed, then the audit entry is committed.                           *)
(*                                                                         *)
(* A request that is refused (unknown action, wrong status, malformed      *)
(* text, no sender) changes nothing and is not a step, except where the    *)
(* request had already done something (SendRefused).                       *)
(***************************************************************************)
EXTENDS Naturals, Sequences

CONSTANTS Actions,     \* action ids: uuid4, never used twice
          Texts,       \* texts that pass OutboundAction.__post_init__
          Overlong,    \* those the platform's adapter refuses (Twitch: > 500)
          Handlers,    \* HTTP handler threads
          None,        \* no action, no text
          MaxPosts,    \* bound: messages the platform receives of one action
          MaxFaults,   \* bound: failing SQLite statements
          MaxCrashes   \* bound: process deaths

ASSUME ConstantsOK ==
  /\ Overlong \subseteq Texts
  /\ None \notin Actions
  /\ None \notin Texts
  /\ MaxPosts \in Nat
  /\ MaxFaults \in Nat
  /\ MaxCrashes \in Nat

VARIABLES
  mem,        \* _actions: the service's copy of every action
  db,         \* platform_actions, the committed rows
  audit,      \* _audit, by action
  auditDb,    \* platform_action_audit, the committed rows, by action
  sender,     \* is a sender configured (PLATFORM_SENDERS)
  pc, op, act,\* what each handler thread is doing, and to which action
  posted,     \* what the platform received of each action
  unused,     \* ids no request has drawn yet
  approvals,  \* history: the texts an operator approved for each action
  faults, crashes

vars == <<mem, db, audit, auditDb, sender, pc, op, act, posted, unused,
          approvals, faults, crashes>>

Statuses == {"absent", "proposed", "approved", "rejected", "sent"}
Events   == {"proposed", "approved", "rejected", "sent"}
Stages   == {"idle", "ready", "post", "persist", "audit"}

Record == [status : Statuses, text : Texts \cup {None}]
Absent == [status |-> "absent", text |-> None]

TypeOK ==
  /\ mem \in [Actions -> Record]
  /\ db \in [Actions -> Record]
  /\ audit \in [Actions -> Seq(Events)]
  /\ auditDb \in [Actions -> Seq(Events)]
  /\ sender \in BOOLEAN
  /\ pc \in [Handlers -> Stages]
  /\ op \in [Handlers -> Events \cup {"none"}]
  /\ act \in [Handlers -> Actions \cup {None}]
  /\ posted \in [Actions -> Seq(Texts)]
  /\ unused \subseteq Actions
  /\ approvals \in [Actions -> SUBSET Texts]
  /\ faults \in Nat
  /\ crashes \in Nat

Init ==
  /\ mem       = [a \in Actions |-> Absent]
  /\ db        = [a \in Actions |-> Absent]
  /\ audit     = [a \in Actions |-> <<>>]
  /\ auditDb   = [a \in Actions |-> <<>>]
  /\ sender    = TRUE
  /\ pc        = [h \in Handlers |-> "idle"]
  /\ op        = [h \in Handlers |-> "none"]
  /\ act       = [h \in Handlers |-> None]
  /\ posted    = [a \in Actions |-> <<>>]
  /\ unused    = Actions
  /\ approvals = [a \in Actions |-> {}]
  /\ faults    = 0
  /\ crashes   = 0

-----------------------------------------------------------------------------
(* The lock.                                                               *)

Holds(h) == pc[h] \in {"post", "persist", "audit"}

\* No thread is inside `with self._lock`.
UnlockedNoLock == TRUE
Unlocked == \A h \in Handlers : ~Holds(h)

\* Thread h now serves a request for event e on action a.
Enter(h, stage, e, a) ==
  /\ pc'  = [pc EXCEPT ![h] = stage]
  /\ op'  = [op EXCEPT ![h] = e]
  /\ act' = [act EXCEPT ![h] = a]

\* Thread h leaves the service, having answered or raised.
Leave(h) == Enter(h, "idle", "none", None)

-----------------------------------------------------------------------------
(* Proposal and review.                                                    *)

\* POST /platforms/actions and /platforms/actions/suggest: the action gets a
\* fresh id and enters the queue as proposed.
Propose(h, a, t) ==
  /\ pc[h] = "idle"
  /\ Unlocked
  /\ a \in unused
  /\ mem[a] = Absent
  /\ mem' = [mem EXCEPT ![a] = [status |-> "proposed", text |-> t]]
  /\ unused' = unused \ {a}
  /\ Enter(h, "persist", "proposed", a)
  /\ UNCHANGED <<db, audit, auditDb, sender, posted, approvals, faults, crashes>>

\* An approval that does not check that the action is still proposed.
ApproveUnchecked(h, a, t) ==
  /\ pc[h] = "idle"
  /\ Unlocked
  /\ mem[a] # Absent
  /\ mem' = [mem EXCEPT ![a] = [status |-> "approved", text |-> t]]
  /\ approvals' = [approvals EXCEPT ![a] = @ \cup {t}]
  /\ Enter(h, "persist", "approved", a)
  /\ UNCHANGED <<db, audit, auditDb, sender, posted, unused, faults, crashes>>

\* POST /platforms/actions/approve, as it is or with an edited text t.
Approve(h, a, t) ==
  /\ pc[h] = "idle"
  /\ Unlocked
  /\ mem[a].status = "proposed"
  /\ mem' = [mem EXCEPT ![a] = [status |-> "approved", text |-> t]]
  /\ approvals' = [approvals EXCEPT ![a] = @ \cup {t}]
  /\ Enter(h, "persist", "approved", a)
  /\ UNCHANGED <<db, audit, auditDb, sender, posted, unused, faults, crashes>>

\* A rejection that forgets the status check.
RejectUnchecked(h, a) ==
  /\ pc[h] = "idle"
  /\ Unlocked
  /\ mem[a] # Absent
  /\ mem' = [mem EXCEPT ![a].status = "rejected"]
  /\ Enter(h, "persist", "rejected", a)
  /\ UNCHANGED <<db, audit, auditDb, sender, posted, unused, approvals, faults,
                 crashes>>

\* A rejection that writes something the status enumeration does not know.
RejectUnknownStatus(h, a) ==
  /\ pc[h] = "idle"
  /\ Unlocked
  /\ mem[a].status = "proposed"
  /\ mem' = [mem EXCEPT ![a].status = None]
  /\ Enter(h, "persist", "rejected", a)
  /\ UNCHANGED <<db, audit, auditDb, sender, posted, unused, approvals, faults,
                 crashes>>

\* POST /platforms/actions/reject.
Reject(h, a) ==
  /\ pc[h] = "idle"
  /\ Unlocked
  /\ mem[a].status = "proposed"
  /\ mem' = [mem EXCEPT ![a].status = "rejected"]
  /\ Enter(h, "persist", "rejected", a)
  /\ UNCHANGED <<db, audit, auditDb, sender, posted, unused, approvals, faults,
                 crashes>>

-----------------------------------------------------------------------------
(* POST /platforms/actions/send.                                           *)

\* The endpoint finds the action and its platform's sender; without a sender it
\* answers 503.  The lock is released again before send() is called.
SendLookup(h, a) ==
  /\ pc[h] = "idle"
  /\ Unlocked
  /\ mem[a] # Absent
  /\ sender
  /\ Enter(h, "ready", "sent", a)
  /\ UNCHANGED <<mem, db, audit, auditDb, sender, posted, unused, approvals,
                 faults, crashes>>

\* A send that only refuses what was rejected or already sent.
MaySendAnyOpen(r) == r.status \in {"proposed", "approved"}
\* A send that does not look at the status again under the lock.
MaySendAny(r) == TRUE
MaySend(r) == r.status = "approved"

\* send() takes the lock and checks the status again.
SendStart(h) ==
  /\ pc[h] = "ready"
  /\ Unlocked
  /\ MaySend(mem[act[h]])
  /\ pc' = [pc EXCEPT ![h] = "post"]
  /\ UNCHANGED <<mem, db, audit, auditDb, sender, op, act, posted, unused,
                 approvals, faults, crashes>>

\* It was sent meanwhile, or was never approved: ValueError.
SendRefused(h) ==
  /\ pc[h] = "ready"
  /\ Unlocked
  /\ ~MaySend(mem[act[h]])
  /\ Leave(h)
  /\ UNCHANGED <<mem, db, audit, auditDb, sender, posted, unused, approvals,
                 faults, crashes>>

\* sender.send_message returned a usable receipt.
SendPosted(h) ==
  LET a == act[h] IN
  /\ pc[h] = "post"
  /\ mem[a].text \notin Overlong
  /\ Len(posted[a]) < MaxPosts
  /\ posted' = [posted EXCEPT ![a] = Append(@, mem[a].text)]
  /\ mem' = [mem EXCEPT ![a].status = "sent"]
  /\ pc' = [pc EXCEPT ![h] = "persist"]
  /\ UNCHANGED <<db, audit, auditDb, sender, op, act, unused, approvals, faults,
                 crashes>>

\* The platform took the message but the answer was lost, or held no message id
\* or an invalid one: an exception, and the action stays approved.
SendUnknown(h) ==
  LET a == act[h] IN
  /\ pc[h] = "post"
  /\ mem[a].text \notin Overlong
  /\ Len(posted[a]) < MaxPosts
  /\ posted' = [posted EXCEPT ![a] = Append(@, mem[a].text)]
  /\ Leave(h)
  /\ UNCHANGED <<mem, db, audit, auditDb, sender, unused, approvals, faults,
                 crashes>>

\* A send that takes an exception for a success.
SendFailedRecorded(h) ==
  LET a == act[h] IN
  /\ pc[h] = "post"
  /\ mem' = [mem EXCEPT ![a].status = "sent"]
  /\ pc' = [pc EXCEPT ![h] = "persist"]
  /\ UNCHANGED <<db, audit, auditDb, sender, op, act, posted, unused, approvals,
                 faults, crashes>>

\* The adapter refused the text or the platform was not reached.
SendFailed(h) ==
  /\ pc[h] = "post"
  /\ Leave(h)
  /\ UNCHANGED <<mem, db, audit, auditDb, sender, posted, unused, approvals,
                 faults, crashes>>

-----------------------------------------------------------------------------
(* The two commits that end every operation.                               *)

\* _persist: INSERT OR REPLACE of the whole row, and commit.
Persist(h) ==
  LET a == act[h] IN
  /\ pc[h] = "persist"
  /\ db' = [db EXCEPT ![a] = mem[a]]
  /\ pc' = [pc EXCEPT ![h] = "audit"]
  /\ UNCHANGED <<mem, audit, auditDb, sender, op, act, posted, unused, approvals,
                 faults, crashes>>

\* SQLite raises: the request fails with the memory copy already changed.
PersistFails(h) ==
  /\ pc[h] = "persist"
  /\ faults < MaxFaults
  /\ faults' = faults + 1
  /\ Leave(h)
  /\ UNCHANGED <<mem, db, audit, auditDb, sender, posted, unused, approvals,
                 crashes>>

\* _record_audit: the list in memory, then the table, and commit.
RecordAudit(h) ==
  LET a == act[h] IN
  /\ pc[h] = "audit"
  /\ audit' = [audit EXCEPT ![a] = Append(@, op[h])]
  /\ auditDb' = [auditDb EXCEPT ![a] = Append(@, op[h])]
  /\ Leave(h)
  /\ UNCHANGED <<mem, db, sender, posted, unused, approvals, faults, crashes>>

\* SQLite raises: the entry is only in memory.
RecordAuditFails(h) ==
  LET a == act[h] IN
  /\ pc[h] = "audit"
  /\ faults < MaxFaults
  /\ faults' = faults + 1
  /\ audit' = [audit EXCEPT ![a] = Append(@, op[h])]
  /\ Leave(h)
  /\ UNCHANGED <<mem, db, auditDb, sender, posted, unused, approvals, crashes>>

-----------------------------------------------------------------------------
(* The surroundings.                                                       *)

\* An OAuth callback or refresh installs a sender, a revocation removes it.
ChangeSender ==
  /\ sender' = ~sender
  /\ UNCHANGED <<mem, db, audit, auditDb, pc, op, act, posted, unused, approvals,
                 faults, crashes>>

\* The process dies and starts again: __init__ and _load read what was committed.
Crash ==
  /\ crashes < MaxCrashes
  /\ crashes' = crashes + 1
  /\ mem' = db
  /\ audit' = auditDb
  /\ sender' \in BOOLEAN
  /\ pc'  = [h \in Handlers |-> "idle"]
  /\ op'  = [h \in Handlers |-> "none"]
  /\ act' = [h \in Handlers |-> None]
  /\ UNCHANGED <<db, auditDb, posted, unused, approvals, faults>>

Next ==
  \/ \E h \in Handlers :
       \/ \E a \in Actions, t \in Texts : Propose(h, a, t)
       \/ \E a \in Actions, t \in Texts : Approve(h, a, t)
       \/ \E a \in Actions : Reject(h, a)
       \/ \E a \in Actions : SendLookup(h, a)
       \/ SendStart(h)
       \/ SendRefused(h)
       \/ SendPosted(h)
       \/ SendUnknown(h)
       \/ SendFailed(h)
       \/ Persist(h)
       \/ PersistFails(h)
       \/ RecordAudit(h)
       \/ RecordAuditFails(h)
  \/ ChangeSender
  \/ Crash

Spec == Init /\ [][Next]_vars

-----------------------------------------------------------------------------
(* Properties.                                                             *)

\* Every text the platform received of an action is a text an operator approved
\* for that action: no edit, race, failure or restart gets another one out
\* (approve and send, contracts.py).
PostedTextWasApproved ==
  \A a \in Actions : \A i \in 1..Len(posted[a]) : posted[a][i] \in approvals[a]

\* The lifecycle: an action at stage t has left stage s behind.
Earlier(s, t) ==
  \/ s = "absent"   /\ t # "absent"
  \/ s = "proposed" /\ t \in {"approved", "rejected", "sent"}
  \/ s = "approved" /\ t = "sent"

\* A row d may lag behind the copy m, but not with another approved text.
Lags(d, m) ==
  \/ d = m
  \/ Earlier(d.status, m.status) /\ (d.status = "approved" => d.text = m.text)

\* A row on disk is the action's copy in memory or an earlier stage of the same
\* action, whichever writes failed: a restart can set an action back, never
\* forward, and never swaps an approved text (_persist after every change).
RowNeverAhead == \A a \in Actions : Lags(db[a], mem[a])

\* A row that says sent is backed by a message the platform received with the
\* row's text (send: the receipt comes before the status).
SentRowWasPosted ==
  \A a \in Actions :
    db[a].status = "sent" =>
      \E i \in 1..Len(posted[a]) : posted[a][i] = db[a].text

\* The durable audit trail of an action tells, in the order of the lifecycle and
\* without repetition, only of stages its row has reached.  It may have gaps (a
\* crash between the two commits), never a claim the row contradicts
\* (_persist before _record_audit).
AuditMatchesRow ==
  \A a \in Actions :
    /\ \A i \in 1..Len(auditDb[a]) :
         auditDb[a][i] = db[a].status \/ Earlier(auditDb[a][i], db[a].status)
    /\ \A i, j \in 1..Len(auditDb[a]) :
         i < j => Earlier(auditDb[a][i], auditDb[a][j])

\* A step that leaves what is closed alone.
KeepsClosed(a) ==
  /\ mem[a].status \in {"sent", "rejected"} => posted'[a] = posted[a]
  /\ db[a].status \in {"sent", "rejected"} => db'[a] = db[a] /\ posted'[a] = posted[a]

\* Once an action is sent or rejected, in memory or on disk, no further message
\* of it reaches the platform while the process lives; once it is so on disk, none
\* ever does and the row stays as it is, restarts included.  Two send requests for
\* the same action that both passed the lookup do not post twice (send re-checks
\* under the lock; ADR 005).
ClosedStaysClosed == [][\A a \in Actions : KeepsClosed(a)]_vars

\* What the queue promises, with an action's outcome read from its row.
OutcomeBar ==
  [a \in Actions |-> IF db[a].status \in {"sent", "rejected"}
                     THEN db[a].status ELSE "open"]

Approval == INSTANCE OutboundApproval WITH outcome <- OutcomeBar

\* The queue implements OutboundApproval through crashes, failing commits and
\* lost answers.
ImplementsApproval == Approval!Spec

\* docs/adr/005: every outbound platform action is "durably audited,
\* operator-reviewed, and explicitly sent only after approval": what was posted has
\* its approval in the audit table.
PostedIsDurablyAudited ==
  \A a \in Actions :
    posted[a] # <<>> => \E i \in 1..Len(auditDb[a]) : auditDb[a][i] = "approved"
=============================================================================

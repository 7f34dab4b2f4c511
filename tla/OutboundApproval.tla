-------------------------- MODULE OutboundApproval --------------------------
(***************************************************************************)
(* What the outbound approval queue promises to an operator, whatever      *)
(* fails inside it (docs/adr/005, docs/security/OUTBOUND_ACTION_APPROVAL): *)
(* a public platform receives only texts an operator approved, and once an *)
(* action is closed on disk, as sent or as rejected, it stays closed and   *)
(* nothing more of it is posted.                                           *)
(*                                                                         *)
(* Until then an approved text may be posted more than once: a failed or   *)
(* interrupted send leaves the action approved.                            *)
(***************************************************************************)
EXTENDS Sequences

CONSTANTS Actions,   \* outbound actions
          Texts      \* message texts

VARIABLES approvals, \* the texts an operator approved for each action
          posted,    \* what the platform received of each action, in order
          outcome    \* each action's durable outcome: "open", "sent", "rejected"

vars == <<approvals, posted, outcome>>

Init ==
  /\ approvals = [a \in Actions |-> {}]
  /\ posted    = [a \in Actions |-> <<>>]
  /\ outcome   = [a \in Actions |-> "open"]

Approve(a, t) ==
  /\ outcome[a] = "open"
  /\ approvals' = [approvals EXCEPT ![a] = @ \cup {t}]
  /\ UNCHANGED <<posted, outcome>>

Post(a, t) ==
  /\ outcome[a] = "open"
  /\ t \in approvals[a]
  /\ posted' = [posted EXCEPT ![a] = Append(@, t)]
  /\ UNCHANGED <<approvals, outcome>>

\* An action is recorded as sent only when the platform received it.
RecordSent(a) ==
  /\ outcome[a] = "open"
  /\ posted[a] # <<>>
  /\ outcome' = [outcome EXCEPT ![a] = "sent"]
  /\ UNCHANGED <<approvals, posted>>

RecordRejected(a) ==
  /\ outcome[a] = "open"
  /\ outcome' = [outcome EXCEPT ![a] = "rejected"]
  /\ UNCHANGED <<approvals, posted>>

Next ==
  \E a \in Actions :
    \/ \E t \in Texts : Approve(a, t) \/ Post(a, t)
    \/ RecordSent(a)
    \/ RecordRejected(a)

Spec == Init /\ [][Next]_vars
=============================================================================

---------------------------- MODULE MemoryReview ----------------------------
(***************************************************************************)
(* The review of memory proposals: packages/memory/service.py,             *)
(* MemoryService, over the Supabase rows of packages/memory/postgres.py.   *)
(*                                                                         *)
(* The service has no lock.  Handler threads meet in its dictionaries, and *)
(* every row is written in a transaction of its own, after the dictionary: *)
(* while a thread waits for a commit the others run, and what it writes is *)
(* what it read before.  A stretch of code between two commits is one      *)
(* step, except where approve() picks the claim to supersede and           *)
(* add_claim() looks at that claim again.                                  *)
(*                                                                         *)
(* Proposals are made about one subject and one predicate, "field", of     *)
(* SINGLE_VALUE_PREDICATES: claims with different addresses never meet.  A *)
(* proposal has two rows: its text and status are in memory_proposals, its *)
(* predicate and value in memory_proposal_claims.  Without the second row  *)
(* it is loaded as a "note" without a value.                               *)
(* Claims are numbered in the order of asserted_at; 0 is no claim.         *)
(***************************************************************************)
EXTENDS Naturals, FiniteSets

CONSTANTS Proposals,   \* proposal ids: uuid4, never used twice
          Contents,    \* texts that pass validation, as contents and as values
          Requests,    \* what the operator proposes, with a value or without
          Candidates,  \* what chats propose, always with a value
          Edits,       \* what the operator changes a content to
          Handlers,    \* HTTP handler threads
          None,        \* no proposal, no content, no value
          MaxClaims,   \* bound: claims ever asserted
          MaxTrouble   \* bound: transactions that raise and process deaths

ASSUME ReviewConstants ==
  /\ None \notin Proposals
  /\ None \notin Contents
  /\ Requests \subseteq [content : Contents, value : Contents \cup {None}]
  /\ Candidates \subseteq [content : Contents, value : Contents]
  /\ Edits \subseteq Contents
  /\ MaxClaims \in Nat
  /\ MaxTrouble \in Nat

VARIABLES
  proposals, proposalRows,  \* _proposals, and the two rows of each as loaded
  items, itemRows,          \* contents of the MemoryItems made of each proposal
  claims, claimRows,        \* _claims and versioned_claims
  fresh,                    \* proposal ids no request has drawn yet
  drawn,                    \* the number of claims asserted so far
  pc, job,                  \* what each handler thread does, and its locals
  approvals,                \* history: what the operator approved of each proposal
  raced,                    \* history: proposals two requests worked on at once
  refused,                  \* history: claims whose approval the database refused
  faults, crashes

vars == <<proposals, proposalRows, items, itemRows, claims, claimRows, fresh,
          drawn, pc, job, approvals, raced, refused, faults, crashes>>

Ids == 1..MaxClaims

Proposal == [status    : {"absent", "pending", "approved", "rejected"},
             content   : Contents \cup {None},
             predicate : {"field", "note"},
             value     : Contents \cup {None}]
NoProposal ==
  [status |-> "absent", content |-> None, predicate |-> "note", value |-> None]

Claim == [of         : Proposals \cup {None},
          predicate  : {"field", "note"},
          value      : Contents \cup {None},
          status     : {"absent", "confirmed", "superseded"},
          supersedes : 0..MaxClaims]
NoClaim == [of |-> None, predicate |-> "note", value |-> None,
            status |-> "absent", supersedes |-> 0]

\* A request's locals: the proposal it read, as it will write it, the claim it
\* asserts and the one it picked to supersede.
Job == [of : Proposals \cup {None}, copy : Proposal, claim : 0..MaxClaims,
        previous : 0..MaxClaims]
NoJob == [of |-> None, copy |-> NoProposal, claim |-> 0, previous |-> 0]

Stages == {"idle", "item", "select", "link", "previous", "claim", "proposal",
           "details"}

TypeOK ==
  /\ proposals \in [Proposals -> Proposal]
  /\ proposalRows \in [Proposals -> Proposal]
  /\ items \in [Proposals -> SUBSET Contents]
  /\ itemRows \in [Proposals -> SUBSET Contents]
  /\ claims \in [Ids -> Claim]
  /\ claimRows \in [Ids -> Claim]
  /\ fresh \subseteq Proposals
  /\ drawn \in 0..MaxClaims
  /\ pc \in [Handlers -> Stages]
  /\ job \in [Handlers -> Job]
  /\ approvals \in [Proposals -> SUBSET Proposal]
  /\ raced \subseteq Proposals
  /\ refused \subseteq Ids
  /\ faults \in Nat
  /\ crashes \in Nat

Init ==
  /\ proposals    = [p \in Proposals |-> NoProposal]
  /\ proposalRows = [p \in Proposals |-> NoProposal]
  /\ items        = [p \in Proposals |-> {}]
  /\ itemRows     = [p \in Proposals |-> {}]
  /\ claims       = [c \in Ids |-> NoClaim]
  /\ claimRows    = [c \in Ids |-> NoClaim]
  /\ fresh        = Proposals
  /\ drawn        = 0
  /\ pc           = [h \in Handlers |-> "idle"]
  /\ job          = [h \in Handlers |-> NoJob]
  /\ approvals    = [p \in Proposals |-> {}]
  /\ raced        = {}
  /\ refused      = {}
  /\ faults       = 0
  /\ crashes      = 0

\* A request on proposal p begins: thread h keeps the copy r of it.
Begin(h, stage, p, r) ==
  /\ pc[h] = "idle"
  /\ pc' = [pc EXCEPT ![h] = stage]
  /\ job' = [job EXCEPT ![h] = [of |-> p, copy |-> r, claim |-> 0, previous |-> 0]]
  /\ raced' = IF \E g \in Handlers : job[g].of = p THEN raced \cup {p} ELSE raced

\* Thread h has answered, or raised.
Finish(h) ==
  /\ pc' = [pc EXCEPT ![h] = "idle"]
  /\ job' = [job EXCEPT ![h] = NoJob]

GoTo(h, stage) == pc' = [pc EXCEPT ![h] = stage]

-----------------------------------------------------------------------------
(* Proposal, edit and rejection: the dictionary now, the row at the end.   *)

\* POST /memory/proposals.
Propose(h, p, c, v) ==
  LET r == [status |-> "pending", content |-> c, predicate |-> "field", value |-> v]
  IN
  /\ p \in fresh
  /\ fresh' = fresh \ {p}
  /\ Begin(h, "proposal", p, r)
  /\ proposals' = [proposals EXCEPT ![p] = r]
  /\ UNCHANGED <<proposalRows, items, itemRows, claims, claimRows, drawn,
                 approvals, refused, faults, crashes>>

\* What a candidate of a chat asserts is confirmed already.
Known(v) ==
  \E c \in Ids : /\ claims[c].status = "confirmed"
                 /\ claims[c].predicate = "field"
                 /\ claims[c].value = v

\* A candidate found while answering a private chat: one without a value gets its
\* content for it.
ProposeInChat(h, p, k) == ~Known(k.value) /\ Propose(h, p, k.content, k.value)

\* An edit that does not look whether the proposal was reviewed meanwhile.
UpdateReviewed(h, p, c) ==
  LET r == [proposals[p] EXCEPT !.content = c, !.status = "pending"] IN
  /\ proposals[p].status # "absent"
  /\ Begin(h, "proposal", p, r)
  /\ proposals' = [proposals EXCEPT ![p] = r]
  /\ UNCHANGED <<proposalRows, items, itemRows, claims, claimRows, fresh, drawn,
                 approvals, refused, faults, crashes>>

\* POST /memory/proposals/update: another content, the same value.
Update(h, p, c) ==
  LET r == [proposals[p] EXCEPT !.content = c] IN
  /\ proposals[p].status = "pending"
  /\ Begin(h, "proposal", p, r)
  /\ proposals' = [proposals EXCEPT ![p] = r]
  /\ UNCHANGED <<proposalRows, items, itemRows, claims, claimRows, fresh, drawn,
                 approvals, refused, faults, crashes>>

\* A rejection with a status the table does not know.
RejectDeclined(h, p) ==
  LET r == [proposals[p] EXCEPT !.status = "declined"] IN
  /\ proposals[p].status = "pending"
  /\ Begin(h, "proposal", p, r)
  /\ proposals' = [proposals EXCEPT ![p] = r]
  /\ UNCHANGED <<proposalRows, items, itemRows, claims, claimRows, fresh, drawn,
                 approvals, refused, faults, crashes>>

\* POST /memory/proposals/reject.
Reject(h, p) ==
  LET r == [proposals[p] EXCEPT !.status = "rejected"] IN
  /\ proposals[p].status = "pending"
  /\ Begin(h, "proposal", p, r)
  /\ proposals' = [proposals EXCEPT ![p] = r]
  /\ UNCHANGED <<proposalRows, items, itemRows, claims, claimRows, fresh, drawn,
                 approvals, refused, faults, crashes>>

-----------------------------------------------------------------------------
(* POST /memory/proposals/approve.                                         *)

\* An approval that can be repeated.
ApproveAgain(h, p) ==
  LET r == proposals[p] IN
  /\ r.status # "absent"
  /\ Begin(h, "item", p, r)
  /\ items' = [items EXCEPT ![p] = @ \cup {r.content}]
  /\ approvals' = [approvals EXCEPT ![p] = @ \cup {r}]
  /\ UNCHANGED <<proposals, proposalRows, itemRows, claims, claimRows, fresh,
                 drawn, refused, faults, crashes>>

\* The proposal is read; create() puts the item in the dictionary.
Approve(h, p) ==
  LET r == proposals[p] IN
  /\ r.status = "pending"
  /\ Begin(h, "item", p, r)
  /\ items' = [items EXCEPT ![p] = @ \cup {r.content}]
  /\ approvals' = [approvals EXCEPT ![p] = @ \cup {r}]
  /\ UNCHANGED <<proposals, proposalRows, itemRows, claims, claimRows, fresh,
                 drawn, refused, faults, crashes>>

\* The item's row, its revision and the source event are committed.
CommitItem(h) ==
  LET j == job[h] IN
  /\ pc[h] = "item"
  /\ itemRows' = [itemRows EXCEPT ![j.of] = @ \cup {j.copy.content}]
  /\ GoTo(h, "select")
  /\ UNCHANGED <<proposals, proposalRows, items, claims, claimRows, fresh, drawn,
                 job, approvals, raced, refused, faults, crashes>>

\* The value the approval asserts: the proposal's content if it has no value.
Asserted(r) == IF r.value = None THEN r.content ELSE r.value

\* The confirmed claims an approval of r may supersede: notes never are.
Outdated(r) ==
  {c \in Ids : /\ r.predicate = "field"
              /\ claims[c].status = "confirmed"
              /\ claims[c].predicate = "field"
              /\ claims[c].value # Asserted(r)}

\* The newest of them is picked, and the new claim gets its id and its time.
Select(h) ==
  LET old == Outdated(job[h].copy) IN
  /\ pc[h] = "select"
  /\ drawn < MaxClaims
  /\ drawn' = drawn + 1
  /\ \E c \in old \cup {0} :
       /\ old # {} => c \in old /\ \A d \in old : d <= c
       /\ job' = [job EXCEPT ![h] = [of |-> @.of, copy |-> @.copy,
                                     claim |-> drawn + 1, previous |-> c]]
  /\ GoTo(h, "link")
  /\ UNCHANGED <<proposals, proposalRows, items, itemRows, claims, claimRows,
                 fresh, approvals, raced, refused, faults, crashes>>

\* The claim that thread h asserts, read from the proposal once more.
NewClaimReread(h) ==
  [of |-> job[h].of, predicate |-> job[h].copy.predicate,
   value |-> Asserted(proposals[job[h].of]), status |-> "confirmed",
   supersedes |-> job[h].previous]

\* The claim that thread h asserts.
NewClaim(h) ==
  [of |-> job[h].of, predicate |-> job[h].copy.predicate,
   value |-> Asserted(job[h].copy), status |-> "confirmed",
   supersedes |-> job[h].previous]

\* add_claim() marks the previous claim, if it is still confirmed ...
Supersede(h) ==
  LET c == job[h].previous IN
  /\ pc[h] = "link"
  /\ c # 0
  /\ claims[c].status = "confirmed"
  /\ claims' = [claims EXCEPT ![c].status = "superseded"]
  /\ GoTo(h, "previous")
  /\ UNCHANGED <<proposals, proposalRows, items, itemRows, claimRows, fresh,
                 drawn, job, approvals, raced, refused, faults, crashes>>

\* versioned_claims.supersedes REFERENCES versioned_claims: what the claim that
\* thread h writes next supersedes, if anything, has a row.
ReferenceHolds(h) ==
  LET c == job[h].previous
      s == IF pc[h] = "previous" THEN claims[c].supersedes ELSE c
  IN  s # 0 => claimRows[s].status # "absent"

\* A commit of the previous claim after which the new claim is not inserted.
CommitPreviousAlone(h) ==
  LET j == job[h] IN
  /\ pc[h] = "previous"
  /\ ReferenceHolds(h)
  /\ claimRows' = [claimRows EXCEPT
                     ![j.previous] = [claims[j.previous] EXCEPT !.status = "superseded"]]
  /\ GoTo(h, "claim")
  /\ UNCHANGED <<proposals, proposalRows, items, itemRows, claims, fresh, drawn,
                 job, approvals, raced, refused, faults, crashes>>

\* ... commits that row, and puts the new claim in the dictionary ...
CommitPrevious(h) ==
  LET j == job[h] IN
  /\ pc[h] = "previous"
  /\ ReferenceHolds(h)
  /\ claimRows' = [claimRows EXCEPT
                     ![j.previous] = [claims[j.previous] EXCEPT !.status = "superseded"]]
  /\ claims' = [claims EXCEPT ![j.claim] = NewClaim(h)]
  /\ GoTo(h, "claim")
  /\ UNCHANGED <<proposals, proposalRows, items, itemRows, fresh, drawn, job,
                 approvals, raced, refused, faults, crashes>>

\* ... or does so at once, with nothing to mark.
Insert(h) ==
  LET j == job[h] IN
  /\ pc[h] = "link"
  /\ j.previous # 0 => claims[j.previous].status # "confirmed"
  /\ claims' = [claims EXCEPT ![j.claim] = NewClaim(h)]
  /\ GoTo(h, "claim")
  /\ UNCHANGED <<proposals, proposalRows, items, itemRows, claimRows, fresh,
                 drawn, job, approvals, raced, refused, faults, crashes>>

\* An approval that leaves the claim in memory only.
CommitClaimNot(h) ==
  LET j == job[h] IN
  /\ pc[h] = "claim"
  /\ ReferenceHolds(h)
  /\ proposals' = [proposals EXCEPT ![j.of] = [j.copy EXCEPT !.status = "approved"]]
  /\ job' = [job EXCEPT ![h].copy.status = "approved"]
  /\ GoTo(h, "proposal")
  /\ UNCHANGED <<proposalRows, items, itemRows, claims, claimRows, fresh, drawn,
                 approvals, raced, refused, faults, crashes>>

\* The new claim's row is committed as it was asserted; the dictionary gets the
\* proposal as it was read, approved.
CommitClaim(h) ==
  LET j == job[h] IN
  /\ pc[h] = "claim"
  /\ ReferenceHolds(h)
  /\ claimRows' = [claimRows EXCEPT ![j.claim] = NewClaim(h)]
  /\ proposals' = [proposals EXCEPT ![j.of] = [j.copy EXCEPT !.status = "approved"]]
  /\ job' = [job EXCEPT ![h].copy.status = "approved"]
  /\ GoTo(h, "proposal")
  /\ UNCHANGED <<proposalRows, items, itemRows, claims, fresh, drawn, approvals,
                 raced, refused, faults, crashes>>

\* The row it refers to is missing: the database refuses the claim.
CommitRefused(h) ==
  /\ pc[h] \in {"previous", "claim"}
  /\ ~ReferenceHolds(h)
  /\ refused' = refused \cup {job[h].claim}
  /\ Finish(h)
  /\ UNCHANGED <<proposals, proposalRows, items, itemRows, claims, claimRows,
                 fresh, drawn, approvals, raced, faults, crashes>>

\* The last two commits of every request: the proposal's row in memory_proposals,
\* as the thread has it ...
ProposalRowLands(h) ==
  proposalRows' = [proposalRows EXCEPT ![job[h].of].status = job[h].copy.status,
                                       ![job[h].of].content = job[h].copy.content]

\* ... and its row in memory_proposal_claims.
DetailsRowLands(h) ==
  proposalRows' = [proposalRows EXCEPT ![job[h].of].predicate = job[h].copy.predicate,
                                       ![job[h].of].value = job[h].copy.value]

CommitProposal(h) ==
  /\ pc[h] = "proposal"
  /\ ProposalRowLands(h)
  /\ GoTo(h, "details")
  /\ UNCHANGED <<proposals, items, itemRows, claims, claimRows, fresh, drawn, job,
                 approvals, raced, refused, faults, crashes>>

CommitDetails(h) ==
  /\ pc[h] = "details"
  /\ DetailsRowLands(h)
  /\ Finish(h)
  /\ UNCHANGED <<proposals, items, itemRows, claims, claimRows, fresh, drawn,
                 approvals, raced, refused, faults, crashes>>

-----------------------------------------------------------------------------
(* Failures.                                                               *)

\* What thread h was about to commit, landed or not.
Landing(h) ==
  LET j == job[h] IN
  CASE pc[h] = "item" ->
         /\ itemRows' = [itemRows EXCEPT ![j.of] = @ \cup {j.copy.content}]
         /\ UNCHANGED <<proposalRows, claimRows>>
    [] pc[h] = "previous" ->
         /\ claimRows' = [claimRows EXCEPT
              ![j.previous] = [claims[j.previous] EXCEPT !.status = "superseded"]]
         /\ UNCHANGED <<proposalRows, itemRows>>
    [] pc[h] = "claim" ->
         /\ claimRows' = [claimRows EXCEPT ![j.claim] = NewClaim(h)]
         /\ UNCHANGED <<proposalRows, itemRows>>
    [] pc[h] = "proposal" ->
         /\ ProposalRowLands(h)
         /\ UNCHANGED <<itemRows, claimRows>>
    [] pc[h] = "details" ->
         /\ DetailsRowLands(h)
         /\ UNCHANGED <<itemRows, claimRows>>

\* A transaction raises: a timeout, a lost connection, perhaps after the commit.
\* The request ends in HTTP 500; the dictionaries stay as they are.
CommitFails(h) ==
  /\ pc[h] \in {"item", "previous", "claim", "proposal", "details"}
  /\ pc[h] \in {"previous", "claim"} => ReferenceHolds(h)
  /\ faults + crashes < MaxTrouble
  /\ faults' = faults + 1
  /\ Landing(h) \/ UNCHANGED <<proposalRows, itemRows, claimRows>>
  /\ Finish(h)
  /\ UNCHANGED <<proposals, items, claims, fresh, drawn, approvals, raced, refused,
                 crashes>>

\* The process dies and starts again: _load_postgres reads the rows.
Crash ==
  /\ faults + crashes < MaxTrouble
  /\ crashes' = crashes + 1
  /\ proposals' = proposalRows
  /\ items' = itemRows
  /\ claims' = claimRows
  /\ pc' = [h \in Handlers |-> "idle"]
  /\ job' = [h \in Handlers |-> NoJob]
  /\ UNCHANGED <<proposalRows, itemRows, claimRows, fresh, drawn, approvals,
                 raced, refused, faults>>

Next ==
  \/ \E h \in Handlers :
       \/ \E p \in Proposals, k \in Requests : Propose(h, p, k.content, k.value)
       \/ \E p \in Proposals, k \in Candidates : ProposeInChat(h, p, k)
       \/ \E p \in Proposals, c \in Edits : Update(h, p, c)
       \/ \E p \in Proposals : Reject(h, p)
       \/ \E p \in Proposals : Approve(h, p)
       \/ CommitItem(h)
       \/ Select(h)
       \/ Supersede(h)
       \/ CommitPrevious(h)
       \/ Insert(h)
       \/ CommitClaim(h)
       \/ CommitRefused(h)
       \/ CommitProposal(h)
       \/ CommitDetails(h)
       \/ CommitFails(h)
  \/ Crash

Spec == Init /\ [][Next]_vars

-----------------------------------------------------------------------------
(* Properties.                                                             *)

ClaimsOf(table, p) == {c \in Ids : table[c].of = p}

\* A proposal whose row says approved has its item and its claim on disk, whatever
\* failed, raced or died meanwhile: the proposal's row is the last to be written,
\* so a restart never shows an approval whose memory is lost (approve).
ApprovedIsDurable ==
  \A p \in Proposals :
    proposalRows[p].status = "approved" =>
      itemRows[p] # {} /\ ClaimsOf(claimRows, p) # {}

\* Every item and every claim, in memory and on disk, is one the operator approved:
\* an edit that arrives while the approval waits for a commit changes neither
\* (approve works on the proposal it read at the start).
OnlyApprovedIsRemembered ==
  /\ \A p \in Proposals : \A c \in items[p] \cup itemRows[p] :
       \E r \in approvals[p] : r.content = c
  /\ \A c \in Ids : \A m \in {claims[c], claimRows[c]} :
       m # NoClaim => \E r \in approvals[m.of] : m.value = Asserted(r)

\* A review is final.  In memory an approval is never undone as long as the process
\* lives, whoever races.  Unless two requests worked on it at once, a proposal that
\* was approved or rejected does not change at all there; its row keeps its status
\* and its text for ever, across failed commits and restarts, and what else the row
\* says changes only when the second of the two commits that write it arrives and
\* completes it as memory has it (the status checks of approve, reject and
\* update_proposal; the two transactions of _persist_proposal).
StaysReviewed(p) ==
  LET old == proposals[p]
      new == proposals'[p]
      row == proposalRows[p]
  IN
  /\ crashes' = crashes =>
       /\ old.status = "approved" => new.status = "approved"
       /\ old.status \in {"approved", "rejected"} /\ p \notin raced' => new = old
  /\ row.status \in {"approved", "rejected"} /\ p \notin raced' =>
       \/ proposalRows'[p] = row
       \/ /\ row.predicate = "note"
          /\ proposalRows'[p] = [row EXCEPT !.predicate = old.predicate,
                                            !.value = old.value]
ReviewIsFinal == [][\A p \in Proposals : StaysReviewed(p)]_vars

\* Unless two requests worked on it at once, a proposal leaves one claim on disk,
\* and one more at most for each failed commit and each restart an approval of it
\* may have met (approve can be repeated as long as the status is pending).  A
\* claim the database refused stays in memory, where a later approval finds it and
\* writes its row after all: such claims are not counted.
OneClaimPerApproval ==
  \A p \in Proposals \ raced :
    Cardinality(ClaimsOf(claimRows, p) \ refused) <= 1 + faults + crashes

\* As long as no commit failed or was refused and the process did not restart, a
\* claim is superseded in memory only by a newer claim that is there, or is being
\* added at this moment: a correction never just loses the value it corrects
\* (add_claim).
SupersededHasSuccessor ==
  \A c \in Ids :
    claims[c].status = "superseded" /\ faults + crashes = 0 /\ refused = {} =>
      \/ \E d \in Ids : d > c /\ claims[d].supersedes = c
      \/ \E h \in Handlers : pc[h] = "previous" /\ job[h].previous = c

\* docs/memory/MEMORY_MODEL.md: "rejection or an unreviewed candidate never changes
\* canonical memory": a proposal that is rejected, or was never even approved, has
\* no item and no claim on disk.
RejectedLeavesNothing ==
  \A p \in Proposals :
    proposalRows[p].status = "rejected" =>
      itemRows[p] = {} /\ ClaimsOf(claimRows, p) = {}

\* What query_claims returns as current.
Current ==
  {c \in Ids :
     /\ claims[c].status = "confirmed"
     /\ claims[c].predicate = "field"
     /\ \A d \in Ids : claims[d].status = "confirmed" => claims[d].supersedes # c}

\* docs/memory/IMPLEMENTED_MEMORY_AND_BEHAVIOR.md: "Single-valued fields
\* automatically supersede an older confirmed value": when every request is done,
\* the field has one current value at most.
SingleValue ==
  (\A h \in Handlers : pc[h] = "idle") =>
    Cardinality({claims[c].value : c \in Current}) <= 1
=============================================================================

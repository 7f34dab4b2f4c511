------------------------- MODULE MemoryReviewProofs -------------------------
(***************************************************************************)
(* Proofs about MemoryReview, for any sets of proposals, texts, requests   *)
(* and handler threads, any number of claims, failing commits and restarts.*)
(***************************************************************************)
EXTENDS MemoryReview, FiniteSetTheorems, TLAPS

-----------------------------------------------------------------------------
(* The inductive invariant.                                                *)

\* The stages of an approval, and those in which its claim has an id.
Approving == {"item", "select", "link", "previous", "claim"}
Asserting == {"link", "previous", "claim"}

\* A thread that works on a proposal has a copy of one that was proposed.
Engaged ==
  \A h \in Handlers :
    /\ pc[h] = "idle" => job[h] = NoJob
    /\ pc[h] # "idle" =>
         /\ job[h].of \in Proposals \ fresh
         /\ job[h].copy.status # "absent"
         /\ job[h].copy.content \in Contents

\* Nothing is known of a proposal that was not made; any other has a content.
Proposed ==
  \A p \in Proposals : \A r \in {proposals[p], proposalRows[p]} :
    /\ p \in fresh => r = NoProposal
    /\ r.status # "absent" => r.content \in Contents

\* A claim, in memory or on disk, was asserted of a proposal the operator approved.
ClaimsWereApproved ==
  \A c \in Ids : \A m \in {claims[c], claimRows[c]} :
    m # NoClaim =>
      /\ m.of \in Proposals
      /\ m.status # "absent"
      /\ \E r \in approvals[m.of] : m.value = Asserted(r)

\* So was every item.
ItemsWereApproved ==
  \A p \in Proposals : \A c \in items[p] \cup itemRows[p] :
    \E r \in approvals[p] : r.content = c

\* A claim on disk is in memory too, asserted of the same proposal.
RowsHaveCopies ==
  \A c \in Ids :
    claimRows[c] # NoClaim => claims[c] # NoClaim /\ claims[c].of = claimRows[c].of

\* An id that was not drawn belongs to no claim.
Undrawn ==
  \A c \in Ids :
    c > drawn => claims[c] = NoClaim /\ claimRows[c] = NoClaim /\ c \notin refused

\* Two approvals never assert the same claim.
Reserved ==
  \A g, h \in Handlers :
    pc[g] \in Asserting /\ pc[h] \in Asserting /\ job[g].claim = job[h].claim =>
      g = h

\* What the approval of thread h has established so far.
Mid(h) ==
  LET j == job[h] IN
  /\ pc[h] \in Approving => j.copy.status = "pending" /\ j.copy \in approvals[j.of]
  /\ pc[h] \in Asserting \cup {"select"} => itemRows[j.of] # {}
  /\ pc[h] \in Asserting =>
       /\ j.claim \in 1..drawn
       /\ j.claim \notin refused
       /\ j.previous < j.claim
       /\ j.previous # 0 => claims[j.previous] # NoClaim
  /\ pc[h] \in {"link", "previous"} =>
       claims[j.claim] = NoClaim /\ claimRows[j.claim] = NoClaim
  /\ pc[h] = "previous" => j.previous # 0
  /\ pc[h] = "claim" => claims[j.claim].of = j.of
  /\ pc[h] \in {"proposal", "details"} /\ j.copy.status = "approved" =>
       itemRows[j.of] # {} /\ ClaimsOf(claimRows, j.of) # {}

Working == \A h \in Handlers : Mid(h)

IInv ==
  /\ TypeOK
  /\ Engaged
  /\ Proposed
  /\ ItemsWereApproved
  /\ ClaimsWereApproved
  /\ RowsHaveCopies
  /\ Undrawn
  /\ Reserved
  /\ Working
  /\ ApprovedIsDurable
  /\ SupersededHasSuccessor

-----------------------------------------------------------------------------
(* What holds of a proposal that no two requests worked on at once.        *)

Reviewed == {"approved", "rejected"}

\* Two threads never work on it together.
Alone ==
  \A g, h \in Handlers :
    pc[g] # "idle" /\ job[g].of = job[h].of /\ job[g].of \notin raced => g = h

\* Two versions of a proposal have the same status and text, or the same details.
SameText(r, s) == r.status = s.status /\ r.content = s.content
SameDetails(r, s) == r.predicate = s.predicate /\ r.value = s.value

\* A thread that works on it has the proposal as it is in memory.  Its row was not
\* reviewed before the thread commits it, and then has the same text.
Mirrored ==
  \A h \in Handlers :
    pc[h] # "idle" /\ job[h].of \notin raced =>
      /\ proposals[job[h].of] = job[h].copy
      /\ pc[h] # "details" => proposalRows[job[h].of].status \notin Reviewed
      /\ pc[h] = "details" => SameText(proposalRows[job[h].of], job[h].copy)

\* A row that was reviewed has the status and the text memory has.
RowSettles ==
  \A p \in Proposals \ raced :
    proposalRows[p].status \in Reviewed => SameText(proposalRows[p], proposals[p])

\* Raced or not, the details of a proposal are the same wherever they are: a row
\* has them or, without its second half, none.
DetailsAgree ==
  /\ \A p \in Proposals :
       \/ SameDetails(proposalRows[p], proposals[p])
       \/ SameDetails(proposalRows[p], NoProposal)
  /\ \A h \in Handlers :
       pc[h] # "idle" => SameDetails(job[h].copy, proposals[job[h].of])

\* An approval of p has put its claim in memory, and has not failed.
Spent(p) ==
  \/ proposals[p].status = "approved"
  \/ \E h \in Handlers : pc[h] = "claim" /\ job[h].of = p

\* Its claims in memory that were not refused: one for the approval that did not
\* fail, and one for each commit that failed and each restart.
Budget ==
  \A p \in Proposals \ raced :
    LET n == Cardinality(ClaimsOf(claims, p) \ refused) IN
    /\ n <= 1 + faults + crashes
    /\ ~Spent(p) => n <= faults + crashes

JInv == Alone /\ Mirrored /\ RowSettles /\ Budget

-----------------------------------------------------------------------------
(* Each step keeps the inductive invariant.                                *)

\* What an approval has established stays, whatever other threads do, as long as
\* rows and approvals only grow and claims keep their proposals.
LEMMA MidStays ==
  ASSUME IInv, NEW g \in Handlers,
         UNCHANGED <<pc[g], job[g]>>,
         \A p \in Proposals :
           approvals[p] \subseteq approvals'[p] /\ itemRows[p] \subseteq itemRows'[p],
         drawn' \in {drawn, drawn + 1},
         \A c \in Ids :
           /\ claims[c] # NoClaim =>
                claims'[c] # NoClaim /\ claims'[c].of = claims[c].of
           /\ claimRows[c] # NoClaim => claimRows'[c].of = claimRows[c].of,
         pc[g] \in Asserting => job[g].claim \notin refused',
         pc[g] \in {"link", "previous"} =>
           UNCHANGED <<claims[job[g].claim], claimRows[job[g].claim]>>
  PROVE  Mid(g)'
<1> DEFINE j == job[g]
<1>1. Mid(g) /\ (pc[g] # "idle" => j.of \in Proposals)
  BY DEF IInv, Engaged, Working
<1>2. pc[g] \in Asserting =>
        /\ j.claim \in Ids
        /\ j.claim \in 1..drawn'
        /\ j.previous # 0 => j.previous \in Ids
  BY <1>1, ReviewConstants DEF IInv, TypeOK, Mid, Ids, Job
<1>3. pc[g] = "claim" => claims'[j.claim].of = j.of
  <2> SUFFICES ASSUME pc[g] = "claim" PROVE claims'[j.claim].of = j.of
    OBVIOUS
  <2>1. claims[j.claim].of = j.of /\ j.of # None
    BY <1>1, ReviewConstants DEF Mid
  <2>2. claims[j.claim] # NoClaim
    BY <2>1 DEF NoClaim
  <2>3. QED BY <1>2, <2>1, <2>2 DEF Asserting
<1>4. ASSUME ClaimsOf(claimRows, j.of) # {}, j.of \in Proposals
      PROVE  ClaimsOf(claimRows, j.of)' # {}
  <2>1. PICK c \in Ids : claimRows[c].of = j.of
    BY <1>4 DEF ClaimsOf
  <2>2. claimRows[c] # NoClaim
    BY <1>4, <2>1, ReviewConstants DEF NoClaim
  <2>3. QED BY <2>1, <2>2 DEF ClaimsOf, Ids
<1>5. QED
  BY <1>1, <1>2, <1>3, <1>4 DEF Mid, Approving, Asserting

\* A request that begins with a change of the dictionary alone: a proposal, an
\* edit or a rejection.
LEMMA WriteKeeps ==
  ASSUME IInv, NEW h \in Handlers, NEW p \in Proposals, NEW r \in Proposal,
         r.status \in {"pending", "rejected"}, r.content \in Contents,
         Begin(h, "proposal", p, r),
         proposals' = [proposals EXCEPT ![p] = r],
         fresh' = fresh \ {p},
         UNCHANGED <<proposalRows, items, itemRows, claims, claimRows, drawn,
                     approvals, refused, faults, crashes>>
  PROVE  IInv'
<1>1. TypeOK'
  BY ReviewConstants DEF IInv, TypeOK, Begin, NoJob, NoProposal, Job, Proposal,
         Stages
<1>2. Engaged'
  BY DEF IInv, TypeOK, Begin, Engaged, NoJob, Job, Proposal
<1>3. Proposed'
  BY DEF IInv, TypeOK, Proposed
<1>4. (ItemsWereApproved /\ ClaimsWereApproved /\ RowsHaveCopies /\ Undrawn)'
  BY DEF IInv, TypeOK, ItemsWereApproved, ClaimsWereApproved, RowsHaveCopies,
         Undrawn
<1>5. Reserved'
  BY DEF IInv, TypeOK, Begin, Reserved, Asserting
<1>6. Working'
  <2> SUFFICES ASSUME NEW g \in Handlers PROVE Mid(g)'
    BY DEF Working
  <2>1. CASE g = h
    BY <2>1 DEF IInv, TypeOK, Begin, Mid, Asserting, Approving
  <2>2. CASE g # h
    BY <2>2, MidStays DEF IInv, TypeOK, Begin, Working, Mid
  <2>3. QED BY <2>1, <2>2
<1>7. (ApprovedIsDurable /\ SupersededHasSuccessor)'
  BY DEF IInv, TypeOK, Begin, ApprovedIsDurable, SupersededHasSuccessor, ClaimsOf
<1>8. QED
  BY <1>1, <1>2, <1>3, <1>4, <1>5, <1>6, <1>7 DEF IInv

\* A proposal (propose) is written under an id that no request has drawn.
LEMMA ProposeKeeps ==
  ASSUME IInv, NEW h \in Handlers, NEW p \in Proposals, NEW c \in Contents,
         NEW v \in Contents \cup {None}, Propose(h, p, c, v)
  PROVE  IInv'
<1> DEFINE r == [status |-> "pending", content |-> c, predicate |-> "field",
                 value |-> v]
<1>1. r \in Proposal /\ r.status = "pending" /\ r.content \in Contents
  BY DEF Proposal
<1>2. QED
  BY <1>1, WriteKeeps DEF Propose

\* An edit (update_proposal) is made to a pending proposal.
LEMMA UpdateKeeps ==
  ASSUME IInv, NEW h \in Handlers, NEW p \in Proposals, NEW c \in Contents,
         Update(h, p, c)
  PROVE  IInv'
<1> DEFINE r == [proposals[p] EXCEPT !.content = c]
<1>1. r \in Proposal /\ r.status = "pending" /\ r.content \in Contents
  BY DEF IInv, TypeOK, Update, Proposal
<1>2. p \notin fresh
  BY DEF IInv, Proposed, Update, NoProposal
<1>3. fresh' = fresh \ {p}
  BY <1>2 DEF Update
<1>4. QED
  BY <1>1, <1>3, WriteKeeps DEF Update

\* So is a rejection (reject).
LEMMA RejectKeeps ==
  ASSUME IInv, NEW h \in Handlers, NEW p \in Proposals, Reject(h, p)
  PROVE  IInv'
<1> DEFINE r == [proposals[p] EXCEPT !.status = "rejected"]
<1>1. r \in Proposal /\ r.status = "rejected" /\ r.content \in Contents
  BY DEF IInv, TypeOK, Proposed, Reject, Proposal
<1>2. p \notin fresh
  BY DEF IInv, Proposed, Reject, NoProposal
<1>3. fresh' = fresh \ {p}
  BY <1>2 DEF Reject
<1>4. QED
  BY <1>1, <1>3, WriteKeeps DEF Reject

\* An approval begins with a pending proposal and puts its item in memory.
LEMMA ApproveKeeps ==
  ASSUME IInv, NEW h \in Handlers, NEW p \in Proposals, Approve(h, p)
  PROVE  IInv'
<1>1. /\ proposals[p] \in Proposal
      /\ proposals[p].content \in Contents
      /\ p \notin fresh
  BY DEF IInv, TypeOK, Proposed, Approve, NoProposal
<1>2. TypeOK'
  BY <1>1, ReviewConstants DEF IInv, TypeOK, Approve, Begin, Job, Stages
<1>3. Engaged'
  BY <1>1 DEF IInv, TypeOK, Approve, Begin, Engaged, NoJob, Job
<1>4. Proposed'
  BY DEF IInv, TypeOK, Approve, Proposed
<1>5. (ItemsWereApproved /\ ClaimsWereApproved /\ RowsHaveCopies /\ Undrawn)'
  BY DEF IInv, TypeOK, Approve, ItemsWereApproved, ClaimsWereApproved,
         RowsHaveCopies, Undrawn
<1>6. Reserved'
  BY DEF IInv, TypeOK, Approve, Begin, Reserved, Asserting
<1>7. Working'
  <2> SUFFICES ASSUME NEW g \in Handlers PROVE Mid(g)'
    BY DEF Working
  <2>1. CASE g = h
    BY <1>1, <2>1 DEF IInv, TypeOK, Approve, Begin, Mid, Asserting, Approving
  <2>2. CASE g # h
    BY <2>2, MidStays DEF IInv, TypeOK, Approve, Begin, Working, Mid
  <2>3. QED BY <2>1, <2>2
<1>8. (ApprovedIsDurable /\ SupersededHasSuccessor)'
  BY DEF IInv, TypeOK, Approve, Begin, ApprovedIsDurable, SupersededHasSuccessor,
         ClaimsOf
<1>9. QED
  BY <1>2, <1>3, <1>4, <1>5, <1>6, <1>7, <1>8 DEF IInv

\* The item's row (_persist_item) is there from now on.
LEMMA CommitItemKeeps ==
  ASSUME IInv, NEW h \in Handlers, CommitItem(h)
  PROVE  IInv'
<1>1. /\ job[h].of \in Proposals
      /\ job[h].copy.content \in Contents
      /\ job[h].copy \in approvals[job[h].of]
  BY DEF IInv, CommitItem, Engaged, Working, Mid, Approving
<1>2. TypeOK'
  BY <1>1 DEF IInv, TypeOK, CommitItem, GoTo, Stages
<1>3. (Engaged /\ Proposed /\ Reserved)'
  BY DEF IInv, TypeOK, CommitItem, GoTo, Engaged, Proposed, Reserved, Asserting
<1>4. (ItemsWereApproved /\ ClaimsWereApproved /\ RowsHaveCopies /\ Undrawn)'
  BY <1>1 DEF IInv, TypeOK, CommitItem, ItemsWereApproved, ClaimsWereApproved,
         RowsHaveCopies, Undrawn
<1>5. Working'
  <2> SUFFICES ASSUME NEW g \in Handlers PROVE Mid(g)'
    BY DEF Working
  <2>1. CASE g = h
    BY <1>1, <2>1
    DEF IInv, TypeOK, CommitItem, GoTo, Working, Mid, Asserting, Approving
  <2>2. CASE g # h
    BY <2>2, MidStays DEF IInv, TypeOK, CommitItem, GoTo, Working, Mid
  <2>3. QED BY <2>1, <2>2
<1>6. (ApprovedIsDurable /\ SupersededHasSuccessor)'
  BY DEF IInv, TypeOK, CommitItem, GoTo, ApprovedIsDurable,
         SupersededHasSuccessor, ClaimsOf
<1>7. QED
  BY <1>2, <1>3, <1>4, <1>5, <1>6 DEF IInv

\* A claim that is picked is in memory, and older than the id that is drawn.
LEMMA SelectKeeps ==
  ASSUME IInv, NEW h \in Handlers, Select(h)
  PROVE  IInv'
<1>1. PICK c \in Outdated(job[h].copy) \cup {0} :
        job' = [job EXCEPT ![h] = [of |-> job[h].of, copy |-> job[h].copy,
                                   claim |-> drawn + 1, previous |-> c]]
  BY DEF IInv, TypeOK, Select
<1>2. /\ c \in 0..MaxClaims
      /\ c # 0 => c \in Ids /\ claims[c] # NoClaim
  BY <1>1, ReviewConstants DEF Outdated, Ids, NoClaim
<1>3. /\ drawn + 1 \in Ids
      /\ c < drawn + 1
      /\ claims[drawn + 1] = NoClaim
      /\ claimRows[drawn + 1] = NoClaim
      /\ drawn + 1 \notin refused
  BY <1>2, ReviewConstants DEF IInv, TypeOK, Undrawn, Select, Ids
<1>4. TypeOK'
  BY <1>1, <1>2, <1>3, ReviewConstants DEF IInv, TypeOK, Select, GoTo, Job,
         Stages, Ids
<1>5. (Engaged /\ Proposed)'
  BY <1>1 DEF IInv, TypeOK, Select, GoTo, Engaged, Proposed, NoJob, Job
<1>6. (ItemsWereApproved /\ ClaimsWereApproved /\ RowsHaveCopies /\ Undrawn)'
  BY DEF IInv, TypeOK, Select, ItemsWereApproved, ClaimsWereApproved,
         RowsHaveCopies, Undrawn, Ids
<1>7. Reserved'
  BY <1>1 DEF IInv, TypeOK, Select, GoTo, Reserved, Working, Mid, Asserting
<1>8. Working'
  <2> SUFFICES ASSUME NEW g \in Handlers PROVE Mid(g)'
    BY DEF Working
  <2>1. CASE g = h
    BY <1>1, <1>2, <1>3, <2>1
    DEF IInv, TypeOK, Select, GoTo, Working, Mid, Asserting, Approving, Ids
  <2>2. CASE g # h
    BY <1>1, <2>2, MidStays DEF IInv, TypeOK, Select, GoTo, Working, Mid
  <2>3. QED BY <2>1, <2>2
<1>9. (ApprovedIsDurable /\ SupersededHasSuccessor)'
  BY <1>1 DEF IInv, TypeOK, Select, GoTo, ApprovedIsDurable,
         SupersededHasSuccessor, ClaimsOf
<1>10. QED
  BY <1>4, <1>5, <1>6, <1>7, <1>8, <1>9 DEF IInv

\* The claim that is marked is the one the thread stands by to replace.
LEMMA SupersedeKeeps ==
  ASSUME IInv, NEW h \in Handlers, Supersede(h)
  PROVE  IInv'
<1> DEFINE c == job[h].previous
<1>1. c \in Ids /\ claims[c] # NoClaim /\ c \in 1..drawn
  BY ReviewConstants DEF IInv, TypeOK, Supersede, Working, Mid, Asserting,
         Undrawn, Ids, NoClaim, Job
<1>2. /\ claims' = [claims EXCEPT ![c].status = "superseded"]
      /\ claims'[c] # NoClaim
      /\ [claims[c] EXCEPT !.status = "superseded"] \in Claim
  BY <1>1 DEF IInv, TypeOK, Supersede, Claim, NoClaim
<1>3. TypeOK'
  BY <1>1, <1>2 DEF IInv, TypeOK, Supersede, GoTo, Stages
<1>4. (Engaged /\ Proposed)'
  BY DEF IInv, TypeOK, Supersede, GoTo, Engaged, Proposed
<1>5. (ItemsWereApproved /\ ClaimsWereApproved)'
  BY <1>1, <1>2 DEF IInv, TypeOK, Supersede, ItemsWereApproved,
         ClaimsWereApproved, Claim
<1>6. (RowsHaveCopies /\ Undrawn)'
  BY <1>1, <1>2 DEF IInv, TypeOK, Supersede, RowsHaveCopies, Undrawn, Claim, Ids
<1>7. Reserved'
  BY DEF IInv, TypeOK, Supersede, GoTo, Reserved, Asserting
<1>8. Working'
  <2> SUFFICES ASSUME NEW g \in Handlers PROVE Mid(g)'
    BY DEF Working
  <2>1. \A d \in Ids : claims[d] # NoClaim =>
          claims'[d] # NoClaim /\ claims'[d].of = claims[d].of
    BY <1>1, <1>2 DEF IInv, TypeOK, Claim
  <2>2. pc[g] \in {"link", "previous"} => UNCHANGED claims[job[g].claim]
    <3>1. pc[g] \in {"link", "previous"} =>
            job[g].claim \in Ids /\ claims[job[g].claim] = NoClaim
      BY ReviewConstants DEF IInv, TypeOK, Working, Mid, Asserting, Ids
    <3>2. QED BY <1>1, <1>2, <3>1 DEF IInv, TypeOK, Supersede
  <2>3. CASE g = h
    BY <1>1, <2>1, <2>2, <2>3
    DEF IInv, TypeOK, Supersede, GoTo, Working, Mid, Asserting, Approving
  <2>4. CASE g # h
    BY <2>1, <2>2, <2>4, MidStays
    DEF IInv, TypeOK, Supersede, GoTo, Working, Mid
  <2>5. QED BY <2>3, <2>4
<1>9. ApprovedIsDurable'
  BY DEF IInv, TypeOK, Supersede, ApprovedIsDurable, ClaimsOf
<1>10. SupersededHasSuccessor'
  <2> SUFFICES ASSUME NEW d \in Ids, claims'[d].status = "superseded",
                      faults + crashes = 0, refused = {}
               PROVE  \/ \E e \in Ids : e > d /\ claims'[e].supersedes = d
                      \/ \E g \in Handlers : pc'[g] = "previous" /\ job'[g].previous = d
    BY DEF SupersededHasSuccessor, Supersede
  <2>1. CASE d = c
    BY <2>1 DEF IInv, TypeOK, Supersede, GoTo
  <2>2. CASE d # c
    <3>1. claims[d].status = "superseded"
      BY <1>2, <2>2 DEF IInv, TypeOK
    <3>2. \A e \in Ids : claims'[e].supersedes = claims[e].supersedes
      BY <1>1, <1>2 DEF IInv, TypeOK, Claim
    <3>3. QED
      BY <3>1, <3>2 DEF IInv, TypeOK, Supersede, GoTo, SupersededHasSuccessor
  <2>3. QED BY <2>1, <2>2
<1>11. QED
  BY <1>3, <1>4, <1>5, <1>6, <1>7, <1>8, <1>9, <1>10 DEF IInv

\* What an approval asserts is a claim of an approved proposal.
LEMMA NewClaimWasApproved ==
  ASSUME IInv, NEW h \in Handlers, pc[h] \in Asserting
  PROVE  /\ NewClaim(h) \in Claim
         /\ NewClaim(h) # NoClaim
         /\ NewClaim(h).of = job[h].of
         /\ NewClaim(h).status = "confirmed"
         /\ NewClaim(h).supersedes = job[h].previous
         /\ job[h].of \in Proposals
         /\ job[h].claim \in Ids
         /\ job[h].copy \in approvals[job[h].of]
         /\ NewClaim(h).value = Asserted(job[h].copy)
<1>1. /\ job[h].of \in Proposals
      /\ job[h].copy \in approvals[job[h].of]
      /\ job[h].copy.content \in Contents
      /\ job[h].claim \in Ids
  BY ReviewConstants
  DEF IInv, TypeOK, Engaged, Working, Mid, Asserting, Approving, Ids, Job
<1>2. QED
  BY <1>1 DEF IInv, TypeOK, NewClaim, Asserted, NoClaim, Claim, Job, Proposal

\* A claim marked as superseded is otherwise the same.
LEMMA Marking ==
  ASSUME NEW m \in Claim
  PROVE  LET o == [m EXCEPT !.status = "superseded"] IN
         /\ o \in Claim
         /\ o.of = m.of
         /\ o.value = m.value
         /\ o.supersedes = m.supersedes
         /\ o.status = "superseded"
BY DEF Claim

\* A new claim takes the place of no other, and has the age to replace the one it
\* supersedes (add_claim).
LEMMA InsertionKeeps ==
  ASSUME IInv, NEW h \in Handlers,
         pc[h] \in {"link", "previous"},
         claims' = [claims EXCEPT ![job[h].claim] = NewClaim(h)],
         GoTo(h, "claim"),
         \/ UNCHANGED claimRows
         \/ /\ pc[h] = "previous"
            /\ claimRows' = [claimRows EXCEPT ![job[h].previous] =
                             [claims[job[h].previous] EXCEPT !.status = "superseded"]],
         UNCHANGED <<proposals, proposalRows, items, itemRows, fresh, drawn, job,
                     approvals, raced, refused, faults, crashes>>
  PROVE  IInv'
<1> DEFINE j == job[h]
           c == j.claim
           b == j.previous
           m == NewClaim(h)
           o == [claims[b] EXCEPT !.status = "superseded"]
<1>1. /\ m \in Claim /\ m # NoClaim /\ m.of = j.of /\ m.supersedes = b
      /\ m.status = "confirmed" /\ m.value = Asserted(j.copy)
      /\ j.of \in Proposals /\ c \in Ids /\ j.copy \in approvals[j.of]
  BY NewClaimWasApproved DEF Asserting
<1>2. /\ claims[c] = NoClaim /\ claimRows[c] = NoClaim /\ c \in 1..drawn
      /\ b < c /\ b \in Nat
      /\ c \notin refused
      /\ itemRows[j.of] # {}
  BY DEF IInv, TypeOK, Working, Mid, Asserting, Job
<1>3. b # 0 => b \in Ids /\ claims[b] # NoClaim /\ b # c /\ b \in 1..drawn
  BY <1>2, ReviewConstants DEF IInv, TypeOK, Working, Mid, Asserting, Ids, Job
<1>4. b # 0 => /\ o \in Claim
               /\ o # NoClaim
               /\ o.of = claims[b].of
               /\ o.value = claims[b].value
               /\ o.supersedes = claims[b].supersedes
               /\ o.status = "superseded"
  <2>1. b # 0 => claims[b] \in Claim
    BY <1>3 DEF IInv, TypeOK
  <2>2. NoClaim.status = "absent"
    BY DEF NoClaim
  <2>3. QED BY <2>1, <2>2, Marking
<1>5. \/ claimRows' = claimRows
      \/ b # 0 /\ claimRows' = [claimRows EXCEPT ![b] = o]
  BY DEF IInv, Working, Mid
<1>6. \A d \in Ids :
        /\ d # c => claims'[d] = claims[d]
        /\ claims'[c] = m
        /\ \/ claimRows'[d] = claimRows[d]
           \/ d = b /\ b # 0 /\ claimRows'[b] = o
  BY <1>1, <1>3, <1>5 DEF IInv, TypeOK
<1>7. TypeOK'
  BY <1>1, <1>3, <1>4, <1>5 DEF IInv, TypeOK, GoTo, Stages
<1>8. (Engaged /\ Proposed /\ ItemsWereApproved /\ Reserved)'
  BY DEF IInv, TypeOK, GoTo, Engaged, Proposed, ItemsWereApproved, Reserved,
         Asserting
<1>9. ClaimsWereApproved'
  <2> SUFFICES ASSUME NEW d \in Ids, NEW n \in {claims'[d], claimRows'[d]},
                      n # NoClaim
               PROVE  /\ n.of \in Proposals
                      /\ n.status # "absent"
                      /\ \E r \in approvals[n.of] : n.value = Asserted(r)
    BY DEF ClaimsWereApproved
  <2>1. CASE n \in {claims[d], claimRows[d]}
    BY <2>1 DEF IInv, ClaimsWereApproved
  <2>2. CASE n = m
    BY <1>1, <2>2
  <2>3. CASE b # 0 /\ n = o
    <3>1. /\ claims[b].of \in Proposals
          /\ \E r \in approvals[claims[b].of] : claims[b].value = Asserted(r)
      BY <1>3, <2>3 DEF IInv, ClaimsWereApproved
    <3>2. QED BY <1>4, <2>3, <3>1
  <2>4. QED BY <1>6, <2>1, <2>2, <2>3
<1>10. RowsHaveCopies'
  <2> SUFFICES ASSUME NEW d \in Ids, claimRows'[d] # NoClaim
               PROVE  claims'[d] # NoClaim /\ claims'[d].of = claimRows'[d].of
    BY DEF RowsHaveCopies
  <2>1. CASE claimRows'[d] = claimRows[d]
    <3>1. d # c /\ claims'[d] = claims[d]
      BY <1>2, <1>6, <2>1
    <3>2. QED BY <2>1, <3>1 DEF IInv, RowsHaveCopies
  <2>2. CASE d = b /\ b # 0 /\ claimRows'[b] = o
    <3>1. claims'[b] = claims[b] /\ claims[b] # NoClaim
      BY <1>3, <1>6, <2>2
    <3>2. QED BY <1>4, <2>2, <3>1
  <2>3. QED BY <1>6, <2>1, <2>2
<1>11. Undrawn'
  BY <1>2, <1>3, <1>6 DEF IInv, TypeOK, Undrawn, Ids
<1>12. Working'
  <2> SUFFICES ASSUME NEW g \in Handlers PROVE Mid(g)'
    BY DEF Working
  <2>1. CASE g = h
    BY <1>1, <1>2, <1>3, <1>6, <2>1
    DEF IInv, TypeOK, GoTo, Working, Mid, Asserting, Approving
  <2>2. CASE g # h
    <3>1. \A d \in Ids :
            /\ claims[d] # NoClaim =>
                 claims'[d] # NoClaim /\ claims'[d].of = claims[d].of
            /\ claimRows[d] # NoClaim => claimRows'[d].of = claimRows[d].of
      BY <1>2, <1>4, <1>6 DEF IInv, RowsHaveCopies
    <3>2. pc[g] \in {"link", "previous"} =>
            /\ job[g].claim \in Ids
            /\ job[g].claim # c
            /\ b # 0 => job[g].claim # b
      BY <1>3, <2>2, ReviewConstants
      DEF IInv, TypeOK, Reserved, Working, Mid, Asserting, Ids
    <3>3. pc[g] \in {"link", "previous"} =>
            UNCHANGED <<claims[job[g].claim], claimRows[job[g].claim]>>
      BY <1>6, <3>2
    <3>4. QED
      BY <2>2, <3>1, <3>3, MidStays DEF IInv, TypeOK, GoTo, Working, Mid
  <2>3. QED BY <2>1, <2>2
<1>13. ApprovedIsDurable'
  <2>1. ASSUME NEW d \in Ids, NEW p \in Proposals, claimRows[d].of = p
        PROVE  claimRows'[d].of = p
    <3>1. claimRows[d] # NoClaim
      BY <2>1, ReviewConstants DEF NoClaim
    <3>2. claims[d].of = p
      BY <2>1, <3>1 DEF IInv, RowsHaveCopies
    <3>3. QED BY <1>4, <1>6, <2>1, <3>2
  <2>2. QED BY <2>1 DEF IInv, ApprovedIsDurable, ClaimsOf
<1>14. SupersededHasSuccessor'
  <2> SUFFICES ASSUME NEW d \in Ids, claims'[d].status = "superseded",
                      faults + crashes = 0, refused = {}
               PROVE  \/ \E e \in Ids : e > d /\ claims'[e].supersedes = d
                      \/ \E g \in Handlers : pc'[g] = "previous" /\ job'[g].previous = d
    BY DEF SupersededHasSuccessor
  <2>1. claims[d].status = "superseded"
    BY <1>1, <1>6
  <2>2. CASE \E e \in Ids : e > d /\ claims[e].supersedes = d
    <3>1. PICK e \in Ids : e > d /\ claims[e].supersedes = d
      BY <2>2
    <3>2. e # c
      BY <1>2, <3>1 DEF NoClaim, Ids
    <3>3. QED BY <1>6, <3>1, <3>2
  <2>3. CASE \E g \in Handlers : pc[g] = "previous" /\ job[g].previous = d
    <3>1. PICK g \in Handlers : pc[g] = "previous" /\ job[g].previous = d
      BY <2>3
    <3>2. CASE g = h
      BY <1>1, <1>2, <1>6, <3>1, <3>2 DEF Ids
    <3>3. CASE g # h
      BY <3>1, <3>3 DEF IInv, TypeOK, GoTo
    <3>4. QED BY <3>2, <3>3
  <2>4. QED BY <2>1, <2>2, <2>3 DEF IInv, SupersededHasSuccessor
<1>15. QED
  BY <1>7, <1>8, <1>9, <1>10, <1>11, <1>12, <1>13, <1>14 DEF IInv

\* The claim goes into memory after the previous one is on disk, superseded ...
LEMMA CommitPreviousKeeps ==
  ASSUME IInv, NEW h \in Handlers, CommitPrevious(h)
  PROVE  IInv'
BY InsertionKeeps DEF CommitPrevious

\* ... or at once.
LEMMA InsertKeeps ==
  ASSUME IInv, NEW h \in Handlers, Insert(h)
  PROVE  IInv'
BY InsertionKeeps DEF Insert

\* An approved copy of a proposal is otherwise the same.
LEMMA MarkingApproved ==
  ASSUME NEW q \in Proposal
  PROVE  LET r == [q EXCEPT !.status = "approved"] IN
         /\ r \in Proposal
         /\ r.status = "approved"
         /\ r.content = q.content
BY DEF Proposal

\* A row of a claim that lands says of a claim in memory what memory says of whom
\* it is, and is of no claim another thread is about to add.
LEMMA ClaimRowLands ==
  ASSUME IInv, NEW h \in Handlers,
         \/ /\ pc[h] = "claim"
            /\ claimRows' = [claimRows EXCEPT ![job[h].claim] = NewClaim(h)]
         \/ /\ pc[h] = "previous"
            /\ claimRows' = [claimRows EXCEPT ![job[h].previous] =
                             [claims[job[h].previous] EXCEPT !.status = "superseded"]]
  PROVE  /\ claimRows' \in [Ids -> Claim]
         /\ \A d \in Ids :
              /\ d > drawn => claimRows'[d] = NoClaim
              /\ claimRows[d] # NoClaim => claimRows'[d].of = claimRows[d].of
              /\ claimRows'[d] # NoClaim =>
                   /\ claims[d] # NoClaim
                   /\ claims[d].of = claimRows'[d].of
                   /\ claimRows'[d].of \in Proposals
                   /\ claimRows'[d].status # "absent"
                   /\ \E r \in approvals[claimRows'[d].of] :
                        claimRows'[d].value = Asserted(r)
         /\ \A g \in Handlers :
              pc[g] \in {"link", "previous"} =>
                claimRows'[job[g].claim] = claimRows[job[g].claim]
<1> DEFINE b == job[h].previous
           o == [claims[b] EXCEPT !.status = "superseded"]
           k == IF pc[h] = "claim" THEN job[h].claim ELSE b
           m == IF pc[h] = "claim" THEN NewClaim(h) ELSE o
<1>1. /\ k \in Ids /\ k \in 1..drawn /\ claims[k] # NoClaim
      /\ m \in Claim /\ m.of = claims[k].of /\ m.of \in Proposals
      /\ m.status # "absent"
      /\ \E r \in approvals[m.of] : m.value = Asserted(r)
  <2>1. CASE pc[h] = "claim"
    <3>1. /\ NewClaim(h) \in Claim /\ NewClaim(h).of = job[h].of
          /\ NewClaim(h).status = "confirmed"
          /\ NewClaim(h).value = Asserted(job[h].copy)
          /\ job[h].of \in Proposals /\ job[h].claim \in Ids
          /\ job[h].copy \in approvals[job[h].of]
      BY <2>1, NewClaimWasApproved DEF Asserting
    <3>2. /\ job[h].claim \in 1..drawn
          /\ claims[job[h].claim].of = job[h].of
      BY <2>1 DEF IInv, Working, Mid, Asserting
    <3>3. claims[job[h].claim] # NoClaim
      BY <3>1, <3>2, ReviewConstants DEF NoClaim
    <3>4. QED BY <2>1, <3>1, <3>2, <3>3
  <2>2. CASE pc[h] = "previous"
    <3>1. /\ b \in Ids /\ claims[b] # NoClaim /\ b \in 1..drawn
      BY <2>2, ReviewConstants DEF IInv, TypeOK, Working, Mid, Asserting, Ids, Job
    <3>2. /\ o \in Claim /\ o.of = claims[b].of /\ o.value = claims[b].value
          /\ o.status = "superseded"
      BY <3>1, Marking DEF IInv, TypeOK
    <3>3. /\ claims[b].of \in Proposals
          /\ \E r \in approvals[claims[b].of] : claims[b].value = Asserted(r)
      BY <3>1 DEF IInv, ClaimsWereApproved
    <3>4. QED BY <2>2, <3>1, <3>2, <3>3
  <2>3. QED BY <2>1, <2>2
<1>2. claimRows' = [claimRows EXCEPT ![k] = m]
  OBVIOUS
<1> HIDE DEF k, m
<1>3. \A d \in Ids : claimRows'[d] = IF d = k THEN m ELSE claimRows[d]
  BY <1>1, <1>2 DEF IInv, TypeOK
<1>4. claimRows' \in [Ids -> Claim]
  BY <1>1, <1>2 DEF IInv, TypeOK
<1>5. ASSUME NEW d \in Ids
      PROVE  /\ d > drawn => claimRows'[d] = NoClaim
             /\ claimRows[d] # NoClaim => claimRows'[d].of = claimRows[d].of
             /\ claimRows'[d] # NoClaim =>
                  /\ claims[d] # NoClaim
                  /\ claims[d].of = claimRows'[d].of
                  /\ claimRows'[d].of \in Proposals
                  /\ claimRows'[d].status # "absent"
                  /\ \E r \in approvals[claimRows'[d].of] :
                       claimRows'[d].value = Asserted(r)
  <2>1. CASE d = k
    BY <1>1, <1>3, <2>1 DEF IInv, TypeOK, RowsHaveCopies
  <2>2. CASE d # k
    BY <1>3, <2>2 DEF IInv, RowsHaveCopies, Undrawn, ClaimsWereApproved
  <2>3. QED BY <2>1, <2>2
<1>6. ASSUME NEW g \in Handlers, pc[g] \in {"link", "previous"}
      PROVE  claimRows'[job[g].claim] = claimRows[job[g].claim]
  <2>1. job[g].claim \in Ids /\ claims[job[g].claim] = NoClaim
    BY <1>6, ReviewConstants DEF IInv, TypeOK, Working, Mid, Asserting, Ids
  <2>2. QED BY <1>1, <1>3, <2>1
<1>7. QED BY <1>4, <1>5, <1>6

\* The row of the claim is there before the proposal is approved in memory.
LEMMA CommitClaimKeeps ==
  ASSUME IInv, NEW h \in Handlers, CommitClaim(h)
  PROVE  IInv'
<1> DEFINE j == job[h]
           r == [j.copy EXCEPT !.status = "approved"]
<1>1. /\ NewClaim(h).of = j.of /\ j.of \in Proposals /\ j.claim \in Ids
      /\ j.of \notin fresh
      /\ r \in Proposal /\ r.status = "approved" /\ r.content \in Contents
      /\ itemRows[j.of] # {}
  <2>1. /\ j.copy \in Proposal /\ j.of \notin fresh
        /\ j.copy.content \in Contents /\ itemRows[j.of] # {}
    BY DEF IInv, TypeOK, CommitClaim, Engaged, Working, Mid, Asserting, Job
  <2>2. QED
    BY <2>1, NewClaimWasApproved, MarkingApproved DEF CommitClaim, Asserting
<1>2. /\ claimRows' \in [Ids -> Claim]
      /\ \A d \in Ids :
           /\ d > drawn => claimRows'[d] = NoClaim
           /\ claimRows[d] # NoClaim => claimRows'[d].of = claimRows[d].of
           /\ claimRows'[d] # NoClaim =>
                /\ claims[d] # NoClaim
                /\ claims[d].of = claimRows'[d].of
                /\ claimRows'[d].of \in Proposals
                /\ claimRows'[d].status # "absent"
                /\ \E q \in approvals[claimRows'[d].of] :
                     claimRows'[d].value = Asserted(q)
      /\ \A g \in Handlers :
           pc[g] \in {"link", "previous"} =>
             claimRows'[job[g].claim] = claimRows[job[g].claim]
  BY ClaimRowLands DEF CommitClaim
<1>3. /\ job' = [job EXCEPT ![h].copy.status = "approved"]
      /\ job'[h].copy = r /\ job'[h].of = j.of
      /\ \A g \in Handlers : g # h => job'[g] = job[g]
      /\ \A g \in Handlers :
           job'[g].claim = job[g].claim /\ job'[g].previous = job[g].previous
      /\ job' \in [Handlers -> Job]
  BY <1>1 DEF IInv, TypeOK, CommitClaim, Job
<1>4. TypeOK'
  BY <1>1, <1>2, <1>3 DEF IInv, TypeOK, CommitClaim, GoTo, Stages
<1>5. (Engaged /\ Proposed)'
  BY <1>1, <1>3 DEF IInv, TypeOK, CommitClaim, GoTo, Engaged, Proposed
<1>6. (ItemsWereApproved /\ ClaimsWereApproved /\ RowsHaveCopies /\ Undrawn)'
  <2>1. ItemsWereApproved' /\ RowsHaveCopies' /\ Undrawn'
    BY <1>2 DEF IInv, CommitClaim, ItemsWereApproved, RowsHaveCopies, Undrawn
  <2>2. ClaimsWereApproved'
    BY <1>2 DEF IInv, CommitClaim, ClaimsWereApproved
  <2>3. QED BY <2>1, <2>2
<1>7. Reserved'
  BY <1>3 DEF IInv, TypeOK, CommitClaim, GoTo, Reserved, Asserting
<1>8. claimRows'[j.claim].of = j.of
  BY <1>1 DEF IInv, TypeOK, CommitClaim
<1>9. Working'
  <2> SUFFICES ASSUME NEW g \in Handlers PROVE Mid(g)'
    BY DEF Working
  <2>1. CASE g = h
    <3>1. pc'[h] = "proposal" /\ itemRows'[job'[h].of] # {}
      BY <1>1, <1>3 DEF IInv, TypeOK, CommitClaim, GoTo
    <3>2. ClaimsOf(claimRows, job[h].of)' # {}
      BY <1>1, <1>3, <1>8 DEF ClaimsOf, Ids
    <3>3. QED BY <2>1, <3>1, <3>2 DEF Mid, Asserting, Approving
  <2>2. CASE g # h
    <3>1. UNCHANGED <<approvals, itemRows, drawn, claims, refused, pc[g]>>
      BY <2>2 DEF IInv, TypeOK, CommitClaim, GoTo
    <3>2. Mid(g) /\ job'[g] = job[g]
      BY <1>3, <2>2 DEF IInv, Working
    <3>3. pc[g] \in Asserting => job[g].claim \notin refused'
      BY <3>1, <3>2 DEF Mid
    <3>4. pc[g] \in {"link", "previous"} =>
            UNCHANGED <<claims[job[g].claim], claimRows[job[g].claim]>>
      BY <1>2, <3>1, <3>2
    <3>5. QED BY <1>2, <3>1, <3>2, <3>3, <3>4, MidStays
  <2>3. QED BY <2>1, <2>2
<1>10. ApprovedIsDurable'
  <2>1. ASSUME NEW d \in Ids, NEW p \in Proposals, claimRows[d].of = p
        PROVE  claimRows'[d].of = p
    BY <1>2, <2>1, ReviewConstants DEF NoClaim
  <2>2. QED BY <2>1 DEF IInv, CommitClaim, ApprovedIsDurable, ClaimsOf
<1>11. SupersededHasSuccessor'
  BY <1>3 DEF IInv, TypeOK, CommitClaim, GoTo, SupersededHasSuccessor
<1>12. QED
  BY <1>4, <1>5, <1>6, <1>7, <1>9, <1>10, <1>11 DEF IInv

\* A row of a proposal that lands changes its text, as the thread has it, or its
\* details, and keeps the other.
LEMMA ProposalRowLanding ==
  ASSUME IInv, NEW h \in Handlers,
         \/ UNCHANGED proposalRows
         \/ pc[h] = "proposal" /\ ProposalRowLands(h)
         \/ pc[h] = "details" /\ DetailsRowLands(h)
  PROVE  /\ proposalRows' \in [Proposals -> Proposal]
         /\ \A p \in Proposals :
              \/ proposalRows'[p] = proposalRows[p]
              \/ /\ p = job[h].of /\ pc[h] = "proposal"
                 /\ SameText(proposalRows'[p], job[h].copy)
                 /\ SameDetails(proposalRows'[p], proposalRows[p])
              \/ /\ p = job[h].of /\ pc[h] = "details"
                 /\ SameText(proposalRows'[p], proposalRows[p])
                 /\ SameDetails(proposalRows'[p], job[h].copy)
<1> DEFINE j == job[h]
<1>1. CASE UNCHANGED proposalRows
  BY <1>1 DEF IInv, TypeOK
<1>2. CASE pc[h] = "proposal" /\ ProposalRowLands(h)
  <2> DEFINE m == [proposalRows[j.of] EXCEPT !.status = j.copy.status,
                                             !.content = j.copy.content]
  <2>1. j.of \in Proposals /\ j.copy \in Proposal /\ proposalRows[j.of] \in Proposal
    BY <1>2 DEF IInv, TypeOK, Engaged, Job
  <2>2. /\ m \in Proposal
        /\ SameText(m, j.copy)
        /\ SameDetails(m, proposalRows[j.of])
    BY <2>1 DEF Proposal, SameText, SameDetails
  <2>3. proposalRows' = [proposalRows EXCEPT ![j.of] = m]
    BY <1>2, <2>1 DEF IInv, TypeOK, ProposalRowLands, Proposal
  <2> HIDE DEF m
  <2>4. QED BY <1>2, <2>1, <2>2, <2>3 DEF IInv, TypeOK
<1>3. CASE pc[h] = "details" /\ DetailsRowLands(h)
  <2> DEFINE m == [proposalRows[j.of] EXCEPT !.predicate = j.copy.predicate,
                                             !.value = j.copy.value]
  <2>1. j.of \in Proposals /\ j.copy \in Proposal /\ proposalRows[j.of] \in Proposal
    BY <1>3 DEF IInv, TypeOK, Engaged, Job
  <2>2. /\ m \in Proposal
        /\ SameText(m, proposalRows[j.of])
        /\ SameDetails(m, j.copy)
    BY <2>1 DEF Proposal, SameText, SameDetails
  <2>3. proposalRows' = [proposalRows EXCEPT ![j.of] = m]
    BY <1>3, <2>1 DEF IInv, TypeOK, DetailsRowLands, Proposal
  <2> HIDE DEF m
  <2>4. QED BY <1>3, <2>1, <2>2, <2>3 DEF IInv, TypeOK
<1>4. QED BY <1>1, <1>2, <1>3

\* A request ends, answered or not, and at most the row it was about to write has
\* landed.  A request that ends between marking a claim and adding the new one has
\* met a failed or a refused commit.
LEMMA EndKeeps ==
  ASSUME IInv, NEW h \in Handlers, pc[h] # "idle", Finish(h),
         \/ UNCHANGED proposalRows
         \/ pc[h] = "proposal" /\ ProposalRowLands(h)
         \/ pc[h] = "details" /\ DetailsRowLands(h),
         \/ UNCHANGED itemRows
         \/ /\ pc[h] = "item"
            /\ itemRows' = [itemRows EXCEPT ![job[h].of] =
                                            @ \cup {job[h].copy.content}],
         \/ UNCHANGED claimRows
         \/ /\ pc[h] = "claim"
            /\ claimRows' = [claimRows EXCEPT ![job[h].claim] = NewClaim(h)]
         \/ /\ pc[h] = "previous"
            /\ claimRows' = [claimRows EXCEPT ![job[h].previous] =
                             [claims[job[h].previous] EXCEPT !.status = "superseded"]],
         \/ UNCHANGED refused
         \/ /\ pc[h] \in {"previous", "claim"}
            /\ refused' = refused \cup {job[h].claim},
         faults' \in {faults, faults + 1},
         pc[h] = "previous" => faults' = faults + 1 \/ refused' # {},
         UNCHANGED <<proposals, items, claims, fresh, drawn, approvals, raced,
                     crashes>>
  PROVE  IInv'
<1> DEFINE j == job[h]
<1>1. /\ j.of \in Proposals \ fresh /\ j.copy \in Proposal
      /\ j.copy.content \in Contents
      /\ pc[h] = "item" => j.copy \in approvals[j.of]
      /\ pc[h] \in {"previous", "claim"} => j.claim \in Ids /\ j.claim \in 1..drawn
  BY ReviewConstants
  DEF IInv, TypeOK, Engaged, Working, Mid, Approving, Asserting, Job, Ids
<1>2. /\ claimRows' \in [Ids -> Claim]
      /\ \A d \in Ids :
           /\ d > drawn => claimRows'[d] = NoClaim
           /\ claimRows[d] # NoClaim => claimRows'[d].of = claimRows[d].of
           /\ claimRows'[d] # NoClaim =>
                /\ claims[d] # NoClaim
                /\ claims[d].of = claimRows'[d].of
                /\ claimRows'[d].of \in Proposals
                /\ claimRows'[d].status # "absent"
                /\ \E q \in approvals[claimRows'[d].of] :
                     claimRows'[d].value = Asserted(q)
      /\ \A g \in Handlers :
           pc[g] \in {"link", "previous"} =>
             claimRows'[job[g].claim] = claimRows[job[g].claim]
  <2>1. CASE UNCHANGED claimRows
    BY <2>1 DEF IInv, TypeOK, Undrawn, RowsHaveCopies, ClaimsWereApproved
  <2>2. CASE ~UNCHANGED claimRows
    BY <2>2, ClaimRowLands
  <2>3. QED BY <2>1, <2>2
<1>3. \A p \in Proposals :
        /\ itemRows[p] \subseteq itemRows'[p]
        /\ p # j.of \/ pc[h] # "item" => itemRows'[p] = itemRows[p]
        /\ itemRows'[p] \subseteq itemRows[p] \cup {j.copy.content}
  BY <1>1 DEF IInv, TypeOK
<1>4. /\ pc' \in [Handlers -> Stages] /\ job' \in [Handlers -> Job]
      /\ pc'[h] = "idle" /\ job'[h] = NoJob
      /\ \A g \in Handlers : g # h => pc'[g] = pc[g] /\ job'[g] = job[g]
  BY ReviewConstants
  DEF IInv, TypeOK, Finish, Stages, Job, NoJob, Proposal, NoProposal
<1>5. TypeOK'
  <2>1. proposalRows' \in [Proposals -> Proposal]
    BY ProposalRowLanding
  <2>2. itemRows' \in [Proposals -> SUBSET Contents]
    BY <1>1 DEF IInv, TypeOK
  <2>3. refused' \subseteq Ids /\ faults' \in Nat
    BY <1>1 DEF IInv, TypeOK
  <2>4. QED BY <1>2, <1>4, <2>1, <2>2, <2>3 DEF IInv, TypeOK
<1>6. (Engaged /\ Reserved)'
  BY <1>4 DEF IInv, Engaged, Reserved, Asserting
<1>7. Proposed'
  <2> SUFFICES ASSUME NEW p \in Proposals, NEW r \in {proposals[p], proposalRows'[p]}
               PROVE  /\ p \in fresh => r = NoProposal
                      /\ r.status # "absent" => r.content \in Contents
    BY DEF Proposed
  <2>1. CASE r \in {proposals[p], proposalRows[p]}
    BY <2>1 DEF IInv, Proposed
  <2>2. CASE p = j.of /\ SameText(r, j.copy)
    BY <1>1, <2>2 DEF SameText
  <2>3. CASE p = j.of /\ SameText(r, proposalRows[p])
    BY <1>1, <2>3 DEF IInv, Proposed, SameText
  <2>4. QED BY <2>1, <2>2, <2>3, ProposalRowLanding
<1>8. ItemsWereApproved'
  <2> SUFFICES ASSUME NEW p \in Proposals, NEW c \in items[p] \cup itemRows'[p]
               PROVE  \E r \in approvals[p] : r.content = c
    BY DEF ItemsWereApproved
  <2>1. CASE c \in items[p] \cup itemRows[p]
    BY <2>1 DEF IInv, ItemsWereApproved
  <2>2. CASE p = j.of /\ pc[h] = "item" /\ c = j.copy.content
    BY <1>1, <2>2
  <2>3. QED BY <1>3, <2>1, <2>2
<1>9. ClaimsWereApproved'
  BY <1>2 DEF IInv, ClaimsWereApproved
<1>10. (RowsHaveCopies /\ Undrawn)'
  BY <1>1, <1>2 DEF IInv, TypeOK, RowsHaveCopies, Undrawn
<1>11. Working'
  <2> SUFFICES ASSUME NEW g \in Handlers PROVE Mid(g)'
    BY DEF Working
  <2>1. CASE g = h
    BY <1>4, <2>1 DEF Mid, Approving, Asserting
  <2>2. CASE g # h
    <3>1. pc'[g] = pc[g] /\ job'[g] = job[g] /\ Mid(g)
      BY <1>4, <2>2 DEF IInv, Working
    <3>2. pc[g] \in Asserting => job[g].claim \notin refused'
      BY <2>2, <3>1 DEF IInv, Mid, Reserved, Asserting
    <3>3. pc[g] \in {"link", "previous"} =>
            UNCHANGED <<claims[job[g].claim], claimRows[job[g].claim]>>
      BY <1>2, <3>1
    <3>4. QED BY <1>2, <1>3, <3>1, <3>2, <3>3, MidStays
  <2>3. QED BY <2>1, <2>2
<1>12. ApprovedIsDurable'
  <2>1. ASSUME NEW p \in Proposals, ClaimsOf(claimRows, p) # {}
        PROVE  ClaimsOf(claimRows, p)' # {}
    <3>1. PICK d \in Ids : claimRows[d].of = p
      BY <2>1 DEF ClaimsOf
    <3>2. claimRows[d] # NoClaim
      BY <3>1, ReviewConstants DEF NoClaim
    <3>3. QED BY <1>2, <3>1, <3>2 DEF ClaimsOf, Ids
  <2> SUFFICES ASSUME NEW p \in Proposals, proposalRows'[p].status = "approved"
               PROVE  itemRows'[p] # {} /\ ClaimsOf(claimRows, p)' # {}
    BY DEF ApprovedIsDurable
  <2>2. itemRows[p] # {} /\ ClaimsOf(claimRows, p) # {}
    <3>1. CASE proposalRows'[p].status = proposalRows[p].status
      BY <3>1 DEF IInv, ApprovedIsDurable
    <3>2. CASE p = j.of /\ pc[h] = "proposal" /\ SameText(proposalRows'[p], j.copy)
      BY <3>2 DEF IInv, Working, Mid, SameText
    <3>3. QED BY <3>1, <3>2, ProposalRowLanding DEF SameText
  <2>3. QED BY <1>3, <2>1, <2>2
<1>13. SupersededHasSuccessor'
  <2>1. crashes \in Nat /\ faults \in Nat
    BY DEF IInv, TypeOK
  <2> SUFFICES ASSUME NEW c \in Ids, claims[c].status = "superseded",
                      faults' + crashes = 0, refused' = {}
               PROVE  \/ \E d \in Ids : d > c /\ claims[d].supersedes = c
                      \/ \E g \in Handlers : pc'[g] = "previous" /\ job'[g].previous = c
    BY DEF SupersededHasSuccessor
  <2>2. faults + crashes = 0 /\ refused = {} /\ pc[h] # "previous"
    BY <2>1
  <2>3. \/ \E d \in Ids : d > c /\ claims[d].supersedes = c
        \/ \E g \in Handlers : pc[g] = "previous" /\ job[g].previous = c
    BY <2>2 DEF IInv, SupersededHasSuccessor
  <2>4. QED BY <1>4, <2>2, <2>3
<1>14. QED
  BY <1>5, <1>6, <1>7, <1>8, <1>9, <1>10, <1>11, <1>12, <1>13 DEF IInv

\* The proposal's row in memory_proposals is written when item and claim are there ...
LEMMA CommitProposalKeeps ==
  ASSUME IInv, NEW h \in Handlers, CommitProposal(h)
  PROVE  IInv'
<1> DEFINE j == job[h]
<1>1. /\ pc[h] = "proposal"
      /\ j.of \in Proposals \ fresh
      /\ j.copy.content \in Contents
      /\ pc' = [pc EXCEPT ![h] = "details"]
      /\ UNCHANGED <<proposals, items, itemRows, claims, claimRows, fresh, drawn,
                     job, approvals, raced, refused, faults, crashes>>
  BY DEF IInv, Engaged, CommitProposal, GoTo
<1>2. /\ proposalRows' \in [Proposals -> Proposal]
      /\ \A p \in Proposals :
           \/ proposalRows'[p] = proposalRows[p]
           \/ p = j.of /\ SameText(proposalRows'[p], j.copy)
  BY <1>1, ProposalRowLanding DEF CommitProposal
<1>3. TypeOK'
  BY <1>1, <1>2 DEF IInv, TypeOK, Stages
<1>4. Proposed'
  <2> SUFFICES ASSUME NEW p \in Proposals, NEW r \in {proposals[p], proposalRows'[p]}
               PROVE  /\ p \in fresh => r = NoProposal
                      /\ r.status # "absent" => r.content \in Contents
    BY <1>1 DEF Proposed
  <2>1. CASE r \in {proposals[p], proposalRows[p]}
    BY <2>1 DEF IInv, Proposed
  <2>2. CASE p = j.of /\ SameText(r, j.copy)
    BY <1>1, <2>2 DEF SameText
  <2>3. QED BY <1>2, <2>1, <2>2
<1>5. (Engaged /\ Reserved)'
  BY <1>1 DEF IInv, TypeOK, Engaged, Reserved, Asserting
<1>6. (ItemsWereApproved /\ ClaimsWereApproved /\ RowsHaveCopies /\ Undrawn)'
  BY <1>1 DEF IInv, ItemsWereApproved, ClaimsWereApproved, RowsHaveCopies, Undrawn
<1>7. Working'
  <2> SUFFICES ASSUME NEW g \in Handlers PROVE Mid(g)'
    BY DEF Working
  <2>1. CASE g = h
    BY <1>1, <2>1 DEF IInv, TypeOK, Working, Mid, Asserting, Approving, ClaimsOf
  <2>2. CASE g # h
    BY <1>1, <2>2 DEF IInv, TypeOK, Working, Mid, ClaimsOf
  <2>3. QED BY <2>1, <2>2
<1>8. ApprovedIsDurable'
  <2> SUFFICES ASSUME NEW p \in Proposals, proposalRows'[p].status = "approved"
               PROVE  itemRows[p] # {} /\ ClaimsOf(claimRows, p) # {}
    BY <1>1 DEF ApprovedIsDurable, ClaimsOf
  <2>1. CASE proposalRows'[p] = proposalRows[p]
    BY <2>1 DEF IInv, ApprovedIsDurable
  <2>2. CASE p = j.of /\ SameText(proposalRows'[p], j.copy)
    BY <1>1, <2>2 DEF IInv, Working, Mid, SameText
  <2>3. QED BY <1>2, <2>1, <2>2
<1>9. SupersededHasSuccessor'
  BY <1>1 DEF IInv, TypeOK, SupersededHasSuccessor
<1>10. QED
  BY <1>3, <1>4, <1>5, <1>6, <1>7, <1>8, <1>9 DEF IInv

\* ... and its row in memory_proposal_claims is the last of all.
LEMMA CommitDetailsKeeps ==
  ASSUME IInv, NEW h \in Handlers, CommitDetails(h)
  PROVE  IInv'
BY EndKeeps DEF CommitDetails

\* A claim the database refuses is never written by the thread that asserted it.
LEMMA CommitRefusedKeeps ==
  ASSUME IInv, NEW h \in Handlers, CommitRefused(h)
  PROVE  IInv'
BY EndKeeps DEF CommitRefused

\* A transaction that raises writes the row it was to write, or none.
LEMMA CommitFailsKeeps ==
  ASSUME IInv, NEW h \in Handlers, CommitFails(h)
  PROVE  IInv'
<1>1. CASE UNCHANGED <<proposalRows, itemRows, claimRows>>
  BY <1>1, EndKeeps DEF CommitFails
<1>2. CASE Landing(h) /\ pc[h] = "item"
  BY <1>2, EndKeeps DEF CommitFails, Landing
<1>3. CASE Landing(h) /\ pc[h] = "previous"
  BY <1>3, EndKeeps DEF CommitFails, Landing
<1>4. CASE Landing(h) /\ pc[h] = "claim"
  BY <1>4, EndKeeps DEF CommitFails, Landing
<1>5. CASE Landing(h) /\ pc[h] = "proposal"
  BY <1>5, EndKeeps DEF CommitFails, Landing
<1>6. CASE Landing(h) /\ pc[h] = "details"
  BY <1>6, EndKeeps DEF CommitFails, Landing
<1>7. QED
  BY <1>1, <1>2, <1>3, <1>4, <1>5, <1>6 DEF CommitFails

\* A restart reads the rows, and every row holds what the invariant asks of memory.
LEMMA CrashKeeps ==
  ASSUME IInv, Crash
  PROVE  IInv'
<1>1. TypeOK'
  BY ReviewConstants DEF IInv, TypeOK, Crash, Stages, Job, NoJob, Proposal,
         NoProposal
<1>2. (Engaged /\ Reserved /\ Working)'
  BY DEF Crash, Engaged, Reserved, Working, Mid, Asserting, Approving
<1>3. (Proposed /\ ItemsWereApproved /\ ClaimsWereApproved)'
  BY DEF IInv, Crash, Proposed, ItemsWereApproved, ClaimsWereApproved
<1>4. (RowsHaveCopies /\ Undrawn /\ ApprovedIsDurable)'
  BY DEF IInv, Crash, RowsHaveCopies, Undrawn, ApprovedIsDurable, ClaimsOf
<1>5. SupersededHasSuccessor'
  BY DEF IInv, TypeOK, Crash, SupersededHasSuccessor
<1>6. QED
  BY <1>1, <1>2, <1>3, <1>4, <1>5 DEF IInv

\* The invariant holds initially.
LEMMA InitIInv == Init => IInv
<1> SUFFICES ASSUME Init PROVE IInv
  OBVIOUS
<1>1. TypeOK
  BY ReviewConstants DEF Init, TypeOK, NoProposal, Proposal, NoClaim, Claim, NoJob,
         Job, Stages
<1>2. (Engaged /\ Reserved /\ Working)
  BY DEF Init, Engaged, Reserved, Working, Mid, Asserting, Approving
<1>3. (Proposed /\ ItemsWereApproved /\ ClaimsWereApproved)
  BY DEF Init, Proposed, ItemsWereApproved, ClaimsWereApproved, NoProposal
<1>4. (RowsHaveCopies /\ Undrawn /\ ApprovedIsDurable)
  BY DEF Init, RowsHaveCopies, Undrawn, ApprovedIsDurable, NoProposal
<1>5. SupersededHasSuccessor
  BY DEF Init, SupersededHasSuccessor, NoClaim
<1>6. QED
  BY <1>1, <1>2, <1>3, <1>4, <1>5 DEF IInv

\* Every step keeps it.
LEMMA NextIInv == IInv /\ [Next]_vars => IInv'
<1> SUFFICES ASSUME IInv, [Next]_vars PROVE IInv'
  OBVIOUS
<1>1. ASSUME NEW h \in Handlers, NEW p \in Proposals, NEW k \in Requests,
             Propose(h, p, k.content, k.value)
      PROVE  IInv'
  <2>1. k.content \in Contents /\ k.value \in Contents \cup {None}
    BY ReviewConstants
  <2>2. QED BY <1>1, <2>1, ProposeKeeps
<1>2. ASSUME NEW h \in Handlers, NEW p \in Proposals, NEW k \in Candidates,
             ProposeInChat(h, p, k)
      PROVE  IInv'
  <2>1. k.content \in Contents /\ k.value \in Contents \cup {None}
    BY ReviewConstants
  <2>2. QED BY <1>2, <2>1, ProposeKeeps DEF ProposeInChat
<1>3. ASSUME NEW h \in Handlers, NEW p \in Proposals, NEW c \in Edits,
             Update(h, p, c)
      PROVE  IInv'
  BY <1>3, UpdateKeeps, ReviewConstants
<1>4. ASSUME NEW h \in Handlers, NEW p \in Proposals, Reject(h, p)
      PROVE  IInv'
  BY <1>4, RejectKeeps
<1>5. ASSUME NEW h \in Handlers, NEW p \in Proposals, Approve(h, p)
      PROVE  IInv'
  BY <1>5, ApproveKeeps
<1>6. ASSUME NEW h \in Handlers,
             \/ CommitItem(h) \/ Select(h) \/ Supersede(h) \/ CommitPrevious(h)
             \/ Insert(h) \/ CommitClaim(h) \/ CommitRefused(h)
             \/ CommitProposal(h) \/ CommitDetails(h) \/ CommitFails(h)
      PROVE  IInv'
  BY <1>6, CommitItemKeeps, SelectKeeps, SupersedeKeeps, CommitPreviousKeeps,
     InsertKeeps, CommitClaimKeeps, CommitRefusedKeeps, CommitProposalKeeps,
     CommitDetailsKeeps, CommitFailsKeeps
<1>7. CASE Crash
  BY <1>7, CrashKeeps
<1>8. CASE UNCHANGED vars
  <2>1. TypeOK' /\ Engaged' /\ Proposed' /\ Reserved'
    BY <1>8 DEF vars, IInv, TypeOK, Engaged, Proposed, Reserved
  <2>2. ItemsWereApproved' /\ ClaimsWereApproved' /\ RowsHaveCopies' /\ Undrawn'
    BY <1>8
    DEF vars, IInv, ItemsWereApproved, ClaimsWereApproved, RowsHaveCopies, Undrawn
  <2>3. Working'
    BY <1>8 DEF vars, IInv, Working, Mid, ClaimsOf
  <2>4. ApprovedIsDurable' /\ SupersededHasSuccessor'
    BY <1>8 DEF vars, IInv, ApprovedIsDurable, SupersededHasSuccessor, ClaimsOf
  <2>5. QED BY <2>1, <2>2, <2>3, <2>4 DEF IInv
<1>9. QED
  BY <1>1, <1>2, <1>3, <1>4, <1>5, <1>6, <1>7, <1>8 DEF Next

\* The invariant holds in every reachable state.
THEOREM Invariance == Spec => []IInv
<1>1. Init => IInv
  BY InitIInv
<1>2. IInv /\ [Next]_vars => IInv'
  BY NextIInv
<1>3. QED
  BY <1>1, <1>2, PTL DEF Spec

-----------------------------------------------------------------------------
(* What the review of memory promises.                                     *)

\* Every variable keeps to its values.
THEOREM TypeCorrect == Spec => []TypeOK
<1>1. IInv => TypeOK
  BY DEF IInv
<1>2. QED
  BY <1>1, Invariance, PTL

\* approve() writes the proposal's row last: whatever fails, races or dies, a row
\* that says approved has its item and its claim on disk.
THEOREM Durability == Spec => []ApprovedIsDurable
<1>1. IInv => ApprovedIsDurable
  BY DEF IInv
<1>2. QED
  BY <1>1, Invariance, PTL

\* approve() works on the proposal it read: nothing is remembered, in memory or on
\* disk, that the operator did not approve.
THEOREM OnlyApproved == Spec => []OnlyApprovedIsRemembered
<1>1. IInv => OnlyApprovedIsRemembered
  BY DEF IInv, ItemsWereApproved, ClaimsWereApproved, OnlyApprovedIsRemembered
<1>2. QED
  BY <1>1, Invariance, PTL

\* add_claim() adds the new claim after it marked the old one: as long as nothing
\* failed, no correction loses the value it corrects.
THEOREM Succession == Spec => []SupersededHasSuccessor
<1>1. IInv => SupersededHasSuccessor
  BY DEF IInv
<1>2. QED
  BY <1>1, Invariance, PTL

-----------------------------------------------------------------------------
(* Proposals that no two requests worked on at once.                       *)

\* The claims a proposal is charged for are finitely many.
LEMMA ChargedIsFinite ==
  ASSUME IInv, NEW p \in Proposals
  PROVE  /\ IsFiniteSet(ClaimsOf(claims, p) \ refused)
         /\ Cardinality(ClaimsOf(claims, p) \ refused) \in Nat
<1>1. IsFiniteSet(Ids)
  BY FS_Interval, ReviewConstants DEF Ids
<1>2. ClaimsOf(claims, p) \ refused \subseteq Ids
  BY DEF ClaimsOf
<1>3. QED
  BY <1>1, <1>2, FS_Subset, FS_CardinalityType

\* A request begins on a fresh or a pending proposal: its row was not reviewed, and
\* no approval of it has put a claim in memory, unless another one is at work.
LEMMA BeginKeepsJ ==
  ASSUME IInv, JInv, NEW h \in Handlers, NEW p \in Proposals, NEW r \in Proposal,
         NEW stage \in {"item", "proposal"},
         Begin(h, stage, p, r),
         p \in fresh \/ proposals[p].status = "pending",
         r.status # "approved",
         proposals' = [proposals EXCEPT ![p] = r],
         UNCHANGED <<proposalRows, claims, refused, faults, crashes>>
  PROVE  JInv'
<1>1. /\ pc[h] = "idle"
      /\ pc'[h] = stage /\ job'[h].of = p /\ job'[h].copy = r
      /\ \A g \in Handlers : g # h => pc'[g] = pc[g] /\ job'[g] = job[g]
      /\ raced \subseteq raced'
      /\ \A g \in Handlers : job[g].of = p => p \in raced'
  BY DEF IInv, TypeOK, Begin
<1>2. Alone'
  BY <1>1 DEF JInv, Alone
<1>3. p \notin raced => proposalRows[p].status \notin Reviewed
  BY DEF IInv, TypeOK, JInv, Proposed, RowSettles, Reviewed, NoProposal, SameText
<1>4. Mirrored'
  <2> SUFFICES ASSUME NEW g \in Handlers, pc'[g] # "idle", job'[g].of \notin raced'
               PROVE  /\ proposals'[job'[g].of] = job'[g].copy
                      /\ pc'[g] # "details" =>
                           proposalRows[job'[g].of].status \notin Reviewed
                      /\ pc'[g] = "details" =>
                           SameText(proposalRows[job'[g].of], job'[g].copy)
    BY DEF Mirrored
  <2>1. CASE g = h
    BY <1>1, <1>3, <2>1 DEF IInv, TypeOK
  <2>2. CASE g # h
    BY <1>1, <2>2 DEF IInv, TypeOK, JInv, Mirrored
  <2>3. QED BY <2>1, <2>2
<1>5. RowSettles'
  BY <1>1, <1>3 DEF IInv, TypeOK, JInv, RowSettles
<1>6. ASSUME NEW q \in Proposals, Spent(q), q \notin raced' PROVE Spent(q)'
  <2>1. CASE proposals[q].status = "approved"
    <3>1. q # p
      BY <2>1 DEF IInv, Proposed, NoProposal
    <3>2. QED BY <2>1, <3>1 DEF IInv, TypeOK, Spent
  <2>2. CASE \E g \in Handlers : pc[g] = "claim" /\ job[g].of = q
    BY <1>1, <2>2 DEF Spent
  <2>3. QED BY <1>6, <2>1, <2>2 DEF Spent
<1>7. Budget'
  BY <1>1, <1>6 DEF JInv, Budget, ClaimsOf
<1>8. QED
  BY <1>2, <1>4, <1>5, <1>7 DEF JInv

\* A step of an approval that adds no claim and changes no proposal.
LEMMA MoveKeepsJ ==
  ASSUME IInv, JInv, NEW h \in Handlers,
         pc[h] \in Approving \ {"claim"},
         NEW stage \in Approving \ {"claim"},
         GoTo(h, stage),
         \A g \in Handlers : job'[g].of = job[g].of /\ job'[g].copy = job[g].copy,
         \A c \in Ids : claims'[c].of = claims[c].of,
         UNCHANGED <<proposals, proposalRows, raced, refused, faults, crashes>>
  PROVE  JInv'
<1>1. \A g \in Handlers :
        /\ pc'[g] # "idle" <=> pc[g] # "idle"
        /\ pc'[g] = "claim" <=> pc[g] = "claim"
        /\ pc'[g] = "details" <=> pc[g] = "details"
  BY DEF IInv, TypeOK, GoTo, Approving
<1>2. (Alone /\ Mirrored /\ RowSettles)'
  BY <1>1 DEF JInv, Alone, Mirrored, RowSettles
<1>3. \A p \in Proposals : Spent(p)' = Spent(p)
  BY <1>1 DEF Spent
<1>4. \A p \in Proposals : ClaimsOf(claims, p)' = ClaimsOf(claims, p)
  BY DEF ClaimsOf, Ids
<1>5. Budget'
  BY <1>3, <1>4 DEF JInv, Budget
<1>6. QED
  BY <1>2, <1>5 DEF JInv

\* An approval spends what a pending proposal has left: one claim.
LEMMA InsertionKeepsJ ==
  ASSUME IInv, JInv, NEW h \in Handlers,
         pc[h] \in {"link", "previous"},
         claims' = [claims EXCEPT ![job[h].claim] = NewClaim(h)],
         GoTo(h, "claim"),
         UNCHANGED <<proposals, proposalRows, job, raced, refused, faults, crashes>>
  PROVE  JInv'
<1> DEFINE j == job[h]
<1>1. /\ NewClaim(h).of = j.of /\ j.of \in Proposals /\ j.claim \in Ids
      /\ claims[j.claim] = NoClaim
      /\ j.claim \notin refused
      /\ j.copy.status = "pending"
  BY NewClaimWasApproved DEF IInv, Working, Mid, Asserting, Approving
<1>2. \A g \in Handlers :
        /\ pc'[g] # "idle" <=> pc[g] # "idle"
        /\ pc'[g] = "claim" <=> pc[g] = "claim" \/ g = h
        /\ pc'[g] = "details" <=> pc[g] = "details"
  BY DEF IInv, TypeOK, GoTo
<1>3. (Alone /\ Mirrored /\ RowSettles)'
  BY <1>2 DEF JInv, Alone, Mirrored, RowSettles
<1>4. Budget'
  <2> SUFFICES ASSUME NEW p \in Proposals \ raced
               PROVE  LET n == Cardinality(ClaimsOf(claims, p)' \ refused) IN
                      /\ n <= 1 + faults + crashes
                      /\ ~Spent(p)' => n <= faults + crashes
    BY DEF Budget
  <2> DEFINE old == ClaimsOf(claims, p) \ refused
             new == ClaimsOf(claims, p)' \ refused
  <2>1. CASE p = j.of
    <3>1. Spent(p)'
      BY <1>2, <2>1 DEF Spent
    <3>2. ~Spent(p)
      <4>1. proposals[p].status = "pending"
        BY <1>1, <2>1 DEF JInv, Mirrored
      <4>2. ASSUME NEW g \in Handlers, pc[g] = "claim", job[g].of = p PROVE FALSE
        BY <2>1, <4>2 DEF JInv, Alone
      <4>3. QED BY <4>1, <4>2 DEF Spent
    <3>3. new = old \cup {j.claim} /\ j.claim \notin old
      BY <1>1, <2>1, ReviewConstants DEF IInv, TypeOK, ClaimsOf, NoClaim, Ids
    <3>4. Cardinality(new) = Cardinality(old) + 1
      BY <3>3, ChargedIsFinite, FS_AddElement
    <3>5. Cardinality(old) <= faults + crashes
      BY <3>2 DEF JInv, Budget
    <3>6. Cardinality(old) \in Nat /\ faults \in Nat /\ crashes \in Nat
      BY ChargedIsFinite DEF IInv, TypeOK
    <3> HIDE DEF old
    <3>7. Cardinality(old) + 1 <= 1 + faults + crashes
      BY <3>5, <3>6
    <3>8. QED
      BY <3>1, <3>4, <3>7
  <2>2. CASE p # j.of
    <3>1. new = old
      BY <1>1, <2>2, ReviewConstants DEF IInv, TypeOK, ClaimsOf, NoClaim, Ids
    <3>2. Spent(p)' = Spent(p)
      BY <1>2, <2>2 DEF Spent
    <3>3. QED BY <3>1, <3>2 DEF JInv, Budget
  <2>3. QED BY <2>1, <2>2
<1>5. QED
  BY <1>3, <1>4 DEF JInv

\* An approval enters the dictionary: what it spent, the proposal's status says now.
LEMMA CommitClaimKeepsJ ==
  ASSUME IInv, JInv, NEW h \in Handlers, CommitClaim(h)
  PROVE  JInv'
<1> DEFINE j == job[h]
           r == [j.copy EXCEPT !.status = "approved"]
<1>1. /\ j.of \in Proposals /\ j.copy \in Proposal
      /\ r.status = "approved"
      /\ \A g \in Handlers :
           /\ job'[g].of = job[g].of
           /\ job'[g].copy = IF g = h THEN r ELSE job[g].copy
           /\ pc'[g] = IF g = h THEN "proposal" ELSE pc[g]
      /\ pc[h] = "claim"
      /\ \A p \in Proposals :
           proposals'[p] = IF p = j.of THEN r ELSE proposals[p]
      /\ UNCHANGED <<proposalRows, claims, raced, refused, faults, crashes>>
  <2>1. j.copy \in Proposal /\ j.of \in Proposals
    BY DEF IInv, TypeOK, CommitClaim, Engaged, Job
  <2>2. QED BY <2>1, MarkingApproved DEF IInv, TypeOK, CommitClaim, GoTo, Job
<1>2. Alone'
  BY <1>1 DEF JInv, Alone
<1>3. Mirrored'
  <2> SUFFICES ASSUME NEW g \in Handlers, pc'[g] # "idle", job'[g].of \notin raced'
               PROVE  /\ proposals'[job'[g].of] = job'[g].copy
                      /\ pc'[g] # "details" =>
                           proposalRows'[job'[g].of].status \notin Reviewed
                      /\ pc'[g] = "details" =>
                           SameText(proposalRows'[job'[g].of], job'[g].copy)
    BY DEF Mirrored
  <2>1. CASE g = h
    BY <1>1, <2>1 DEF JInv, Mirrored
  <2>2. CASE g # h
    <3>1. job[g].of # j.of
      BY <1>1, <2>2 DEF JInv, Alone
    <3>2. job[g].of \in Proposals
      BY <1>1, <2>2 DEF IInv, Engaged
    <3>3. QED BY <1>1, <2>2, <3>1, <3>2 DEF JInv, Mirrored
  <2>3. QED BY <2>1, <2>2
<1>4. RowSettles'
  <2> SUFFICES ASSUME NEW p \in Proposals \ raced,
                      proposalRows[p].status \in Reviewed
               PROVE  SameText(proposalRows[p], proposals'[p])
    BY <1>1 DEF RowSettles
  <2>1. p # j.of
    BY <1>1 DEF JInv, Mirrored
  <2>2. QED BY <1>1, <2>1 DEF JInv, RowSettles
<1>5. ASSUME NEW p \in Proposals, Spent(p) PROVE Spent(p)'
  <2>1. CASE proposals[p].status = "approved"
    BY <1>1, <2>1 DEF Spent
  <2>2. CASE \E g \in Handlers : pc[g] = "claim" /\ job[g].of = p
    <3>1. PICK g \in Handlers : pc[g] = "claim" /\ job[g].of = p
      BY <2>2
    <3>2. CASE g = h
      BY <1>1, <3>1, <3>2 DEF Spent
    <3>3. CASE g # h
      BY <1>1, <3>1, <3>3 DEF Spent
    <3>4. QED BY <3>2, <3>3
  <2>3. QED BY <1>5, <2>1, <2>2 DEF Spent
<1>6. Budget'
  BY <1>1, <1>5 DEF JInv, Budget, ClaimsOf
<1>7. QED
  BY <1>2, <1>3, <1>4, <1>6 DEF JInv

\* A request that ends without writing a row of its own kind leaves its proposal as
\* it is in memory; if it dies while its claim is in memory, a failure or a refusal
\* pays for it.
LEMMA EndKeepsJ ==
  ASSUME IInv, JInv, NEW h \in Handlers, pc[h] # "idle", Finish(h),
         \/ UNCHANGED proposalRows
         \/ pc[h] = "proposal" /\ ProposalRowLands(h)
         \/ pc[h] = "details" /\ DetailsRowLands(h),
         \/ pc[h] = "details" /\ faults' = faults /\ refused' = refused
         \/ faults' = faults + 1 /\ refused' = refused
         \/ /\ pc[h] \in {"previous", "claim"}
            /\ faults' = faults
            /\ refused' = refused \cup {job[h].claim},
         UNCHANGED <<proposals, claims, raced, crashes>>
  PROVE  JInv'
<1> DEFINE j == job[h]
<1>1. /\ j.of \in Proposals
      /\ \A p \in Proposals :
           \/ proposalRows'[p] = proposalRows[p]
           \/ /\ p = j.of
              /\ \/ pc[h] = "proposal" /\ SameText(proposalRows'[p], j.copy)
                 \/ pc[h] = "details" /\ SameText(proposalRows'[p], proposalRows[p])
      /\ pc'[h] = "idle"
      /\ \A g \in Handlers : g # h => pc'[g] = pc[g] /\ job'[g] = job[g]
      /\ faults \in Nat /\ crashes \in Nat
  <2>1. j.of \in Proposals
    BY DEF IInv, Engaged
  <2>2. \A p \in Proposals :
          \/ proposalRows'[p] = proposalRows[p]
          \/ /\ p = j.of
             /\ \/ pc[h] = "proposal" /\ SameText(proposalRows'[p], j.copy)
                \/ pc[h] = "details" /\ SameText(proposalRows'[p], proposalRows[p])
    BY ProposalRowLanding
  <2>3. QED BY <2>1, <2>2 DEF IInv, TypeOK, Finish
<1>2. Alone'
  <2> SUFFICES ASSUME NEW f \in Handlers, NEW g \in Handlers, pc'[f] # "idle",
                      job'[f].of = job'[g].of, job'[f].of \notin raced
               PROVE  f = g
    BY DEF Alone
  <2>1. f # h /\ job'[f].of \in Proposals
    BY <1>1 DEF IInv, Engaged
  <2>2. g # h
    BY <2>1, ReviewConstants DEF IInv, TypeOK, Finish, NoJob
  <2>3. QED BY <1>1, <2>1, <2>2 DEF JInv, Alone
<1>3. Mirrored'
  <2> SUFFICES ASSUME NEW g \in Handlers, pc'[g] # "idle", job'[g].of \notin raced
               PROVE  /\ proposals[job'[g].of] = job'[g].copy
                      /\ pc'[g] # "details" =>
                           proposalRows'[job'[g].of].status \notin Reviewed
                      /\ pc'[g] = "details" =>
                           SameText(proposalRows'[job'[g].of], job'[g].copy)
    BY DEF Mirrored
  <2>1. g # h /\ pc[g] # "idle" /\ job'[g] = job[g] /\ job[g].of \in Proposals
    BY <1>1 DEF IInv, Engaged
  <2>2. job[g].of # j.of
    BY <2>1 DEF JInv, Alone
  <2>3. QED BY <1>1, <2>1, <2>2 DEF JInv, Mirrored
<1>4. RowSettles'
  <2> SUFFICES ASSUME NEW p \in Proposals \ raced,
                      proposalRows'[p].status \in Reviewed
               PROVE  SameText(proposalRows'[p], proposals[p])
    BY DEF RowSettles
  <2>1. CASE proposalRows'[p] = proposalRows[p]
    BY <2>1 DEF JInv, RowSettles
  <2>2. CASE p = j.of /\ pc[h] = "proposal" /\ SameText(proposalRows'[p], j.copy)
    BY <2>2 DEF JInv, Mirrored
  <2>3. CASE /\ p = j.of /\ pc[h] = "details"
             /\ SameText(proposalRows'[p], proposalRows[p])
    BY <2>3 DEF JInv, RowSettles, SameText
  <2>4. QED BY <1>1, <2>1, <2>2, <2>3
<1>5. Budget'
  <2> SUFFICES ASSUME NEW p \in Proposals \ raced
               PROVE  LET n == Cardinality(ClaimsOf(claims, p) \ refused') IN
                      /\ n <= 1 + faults' + crashes
                      /\ ~Spent(p)' => n <= faults' + crashes
    BY DEF Budget, ClaimsOf
  <2> DEFINE old == ClaimsOf(claims, p) \ refused
             new == ClaimsOf(claims, p) \ refused'
  <2>1. /\ IsFiniteSet(old) /\ Cardinality(old) \in Nat
        /\ Cardinality(old) <= 1 + faults + crashes
        /\ ~Spent(p) => Cardinality(old) <= faults + crashes
    BY ChargedIsFinite DEF JInv, Budget
  <2>2. Spent(p) => Spent(p)' \/ (pc[h] = "claim" /\ j.of = p)
    BY <1>1 DEF Spent
  <2>3. /\ refused' = refused => new = old
        /\ refused' = refused \cup {j.claim} => new = old \ {j.claim}
    OBVIOUS
  <2>4. pc[h] = "claim" /\ j.of = p => j.claim \in old
    <3>1. pc[h] = "claim" => /\ j.claim \in Ids /\ j.claim \notin refused
                             /\ claims[j.claim].of = j.of
      BY ReviewConstants DEF IInv, TypeOK, Working, Mid, Asserting, Ids
    <3>2. QED BY <3>1 DEF ClaimsOf
  <2>5. ClaimsOf(claims, p) \ refused' = new
    OBVIOUS
  <2> HIDE DEF old, new
  <2>6. /\ Cardinality(new) <= 1 + faults' + crashes
        /\ ~Spent(p)' => Cardinality(new) <= faults' + crashes
    <3>1. CASE pc[h] = "details" /\ faults' = faults /\ refused' = refused
      <4>1. new = old /\ (Spent(p) => Spent(p)')
        BY <2>2, <2>3, <3>1
      <4>2. QED BY <1>1, <2>1, <3>1, <4>1
    <3>2. CASE refused' = refused /\ faults' = faults + 1
      <4>1. new = old
        BY <2>3, <3>2
      <4>2. QED BY <1>1, <2>1, <3>2, <4>1
    <3>3. CASE /\ pc[h] \in {"previous", "claim"}
               /\ faults' = faults
               /\ refused' = refused \cup {j.claim}
      <4>1. new = old \ {j.claim}
        BY <2>3, <3>3
      <4>2. Cardinality(new) = IF j.claim \in old THEN Cardinality(old) - 1
                                                  ELSE Cardinality(old)
        BY <2>1, <4>1, FS_RemoveElement
      <4>3. CASE pc[h] = "claim" /\ j.of = p
        BY <1>1, <2>1, <2>4, <3>3, <4>2, <4>3
      <4>4. CASE ~(pc[h] = "claim" /\ j.of = p)
        BY <1>1, <2>1, <2>2, <3>3, <4>2, <4>4
      <4>5. QED BY <4>3, <4>4
    <3>4. QED BY <3>1, <3>2, <3>3
  <2>7. QED BY <2>5, <2>6
<1>6. QED
  BY <1>2, <1>3, <1>4, <1>5 DEF JInv

\* When the first half of its row is committed, the row has the text of memory.
LEMMA CommitProposalKeepsJ ==
  ASSUME IInv, JInv, NEW h \in Handlers, CommitProposal(h)
  PROVE  JInv'
<1> DEFINE j == job[h]
<1>1. /\ pc[h] = "proposal"
      /\ j.of \in Proposals
      /\ \A g \in Handlers : pc'[g] = IF g = h THEN "details" ELSE pc[g]
      /\ UNCHANGED <<proposals, claims, job, raced, refused, faults, crashes>>
  BY DEF IInv, TypeOK, Engaged, CommitProposal, GoTo
<1>2. /\ SameText(proposalRows'[j.of], j.copy)
      /\ \A p \in Proposals : p # j.of => proposalRows'[p] = proposalRows[p]
  <2>1. \A p \in Proposals : p # j.of => proposalRows'[p] = proposalRows[p]
    BY <1>1, ProposalRowLanding DEF CommitProposal
  <2>2. /\ proposalRows'[j.of].status = j.copy.status
        /\ proposalRows'[j.of].content = j.copy.content
    BY <1>1 DEF IInv, TypeOK, CommitProposal, ProposalRowLands, Proposal
  <2>3. QED BY <2>1, <2>2 DEF SameText
<1>3. Alone'
  BY <1>1 DEF JInv, Alone
<1>4. Mirrored'
  <2> SUFFICES ASSUME NEW g \in Handlers, pc'[g] # "idle", job[g].of \notin raced
               PROVE  /\ proposals[job[g].of] = job[g].copy
                      /\ pc'[g] # "details" =>
                           proposalRows'[job[g].of].status \notin Reviewed
                      /\ pc'[g] = "details" =>
                           SameText(proposalRows'[job[g].of], job[g].copy)
    BY <1>1 DEF Mirrored
  <2>1. CASE g = h
    BY <1>1, <1>2, <2>1 DEF JInv, Mirrored
  <2>2. CASE g # h
    <3>1. job[g].of # j.of
      BY <1>1, <2>2 DEF JInv, Alone
    <3>2. job[g].of \in Proposals /\ pc'[g] = pc[g]
      BY <1>1, <2>2 DEF IInv, Engaged
    <3>3. QED BY <1>1, <1>2, <2>2, <3>1, <3>2 DEF JInv, Mirrored
  <2>3. QED BY <2>1, <2>2
<1>5. RowSettles'
  <2> SUFFICES ASSUME NEW p \in Proposals \ raced,
                      proposalRows'[p].status \in Reviewed
               PROVE  SameText(proposalRows'[p], proposals[p])
    BY <1>1 DEF RowSettles
  <2>1. CASE p = j.of
    BY <1>1, <1>2, <2>1 DEF JInv, Mirrored
  <2>2. CASE p # j.of
    BY <1>2, <2>2 DEF JInv, RowSettles
  <2>3. QED BY <2>1, <2>2
<1>6. \A p \in Proposals : Spent(p)' = Spent(p)
  BY <1>1 DEF Spent
<1>7. Budget'
  BY <1>1, <1>6 DEF JInv, Budget, ClaimsOf
<1>8. QED
  BY <1>3, <1>4, <1>5, <1>7 DEF JInv

\* After a restart memory says what the rows say, and the restart pays for a claim
\* whose approval was lost.
LEMMA CrashKeepsJ ==
  ASSUME IInv, JInv, Crash
  PROVE  JInv'
<1>1. (Alone /\ Mirrored /\ RowSettles)'
  BY DEF Crash, Alone, Mirrored, RowSettles, SameText
<1>2. Budget'
  <2> SUFFICES ASSUME NEW p \in Proposals \ raced
               PROVE  LET n == Cardinality(ClaimsOf(claimRows, p) \ refused) IN
                      /\ n <= 1 + faults + crashes'
                      /\ n <= faults + crashes'
    BY DEF Crash, Budget, ClaimsOf
  <2> DEFINE old == ClaimsOf(claims, p) \ refused
             new == ClaimsOf(claimRows, p) \ refused
  <2>1. /\ IsFiniteSet(old) /\ Cardinality(old) \in Nat
        /\ Cardinality(old) <= 1 + faults + crashes
    BY ChargedIsFinite DEF JInv, Budget
  <2>2. new \subseteq old
    BY ReviewConstants DEF IInv, RowsHaveCopies, ClaimsOf, NoClaim
  <2>3. Cardinality(new) \in Nat /\ Cardinality(new) <= Cardinality(old)
    BY <2>1, <2>2, FS_Subset, FS_CardinalityType
  <2>4. faults \in Nat /\ crashes \in Nat /\ crashes' = crashes + 1
    BY DEF IInv, TypeOK, Crash
  <2> HIDE DEF old, new
  <2>5. Cardinality(new) <= 1 + faults + crashes' /\ Cardinality(new) <= faults + crashes'
    BY <2>1, <2>3, <2>4
  <2>6. QED BY <2>5 DEF new
<1>3. QED
  BY <1>1, <1>2 DEF JInv

\* These facts hold initially.
LEMMA InitJInv == Init => JInv
<1> SUFFICES ASSUME Init PROVE JInv
  OBVIOUS
<1>1. Alone /\ Mirrored /\ RowSettles
  BY DEF Init, Alone, Mirrored, RowSettles, SameText
<1>2. Budget
  <2>1. ASSUME NEW p \in Proposals PROVE ClaimsOf(claims, p) \ refused = {}
    BY ReviewConstants DEF Init, ClaimsOf, NoClaim
  <2>2. faults = 0 /\ crashes = 0
    BY DEF Init
  <2>3. QED BY <2>1, <2>2, FS_EmptySet DEF Budget
<1>3. QED
  BY <1>1, <1>2 DEF JInv

\* Every step keeps them.
LEMMA NextJInv == IInv /\ JInv /\ [Next]_vars => JInv'
<1> SUFFICES ASSUME IInv, JInv, [Next]_vars PROVE JInv'
  OBVIOUS
<1>1. ASSUME NEW h \in Handlers, NEW p \in Proposals, NEW c \in Contents,
             NEW v \in Contents \cup {None}, Propose(h, p, c, v)
      PROVE  JInv'
  <2> DEFINE r == [status |-> "pending", content |-> c, predicate |-> "field",
                   value |-> v]
  <2>1. r \in Proposal /\ r.status # "approved"
    BY DEF Proposal
  <2>2. QED BY <1>1, <2>1, BeginKeepsJ DEF Propose
<1>2. ASSUME NEW h \in Handlers, NEW p \in Proposals, NEW k \in Candidates,
             ProposeInChat(h, p, k)
      PROVE  JInv'
  <2>1. k.content \in Contents /\ k.value \in Contents \cup {None}
    BY ReviewConstants
  <2>2. QED BY <1>1, <1>2, <2>1 DEF ProposeInChat
<1>3. ASSUME NEW h \in Handlers, NEW p \in Proposals, NEW c \in Contents,
             Update(h, p, c)
      PROVE  JInv'
  <2> DEFINE r == [proposals[p] EXCEPT !.content = c]
  <2>1. r \in Proposal /\ r.status # "approved"
    BY <1>3 DEF IInv, TypeOK, Update, Proposal
  <2>2. QED BY <1>3, <2>1, BeginKeepsJ DEF Update
<1>4. ASSUME NEW h \in Handlers, NEW p \in Proposals, Reject(h, p)
      PROVE  JInv'
  <2> DEFINE r == [proposals[p] EXCEPT !.status = "rejected"]
  <2>1. r \in Proposal /\ r.status # "approved"
    BY <1>4 DEF IInv, TypeOK, Reject, Proposal
  <2>2. QED BY <1>4, <2>1, BeginKeepsJ DEF Reject
<1>5. ASSUME NEW h \in Handlers, NEW p \in Proposals, Approve(h, p)
      PROVE  JInv'
  <2>1. /\ proposals[p] \in Proposal /\ proposals[p].status # "approved"
        /\ proposals' = [proposals EXCEPT ![p] = proposals[p]]
    BY <1>5 DEF IInv, TypeOK, Approve
  <2>2. QED BY <1>5, <2>1, BeginKeepsJ DEF Approve
<1>6. ASSUME NEW h \in Handlers, CommitItem(h)
      PROVE  JInv'
  BY <1>6, MoveKeepsJ DEF CommitItem, Approving
<1>7. ASSUME NEW h \in Handlers, Select(h)
      PROVE  JInv'
  <2>1. \A g \in Handlers : job'[g].of = job[g].of /\ job'[g].copy = job[g].copy
    BY <1>7 DEF IInv, TypeOK, Select
  <2>2. QED BY <1>7, <2>1, MoveKeepsJ DEF Select, Approving
<1>8. ASSUME NEW h \in Handlers, Supersede(h)
      PROVE  JInv'
  <2>1. \A c \in Ids : claims'[c].of = claims[c].of
    BY <1>8 DEF IInv, TypeOK, Supersede, Claim
  <2>2. QED BY <1>8, <2>1, MoveKeepsJ DEF Supersede, Approving
<1>9. ASSUME NEW h \in Handlers, CommitPrevious(h) \/ Insert(h)
      PROVE  JInv'
  BY <1>9, InsertionKeepsJ DEF CommitPrevious, Insert
<1>10. ASSUME NEW h \in Handlers, CommitClaim(h)
       PROVE  JInv'
  BY <1>10, CommitClaimKeepsJ
<1>11. ASSUME NEW h \in Handlers, CommitDetails(h) \/ CommitRefused(h)
       PROVE  JInv'
  BY <1>11, EndKeepsJ DEF CommitDetails, CommitRefused
<1>12. ASSUME NEW h \in Handlers, CommitFails(h)
       PROVE  JInv'
  <2>1. \/ UNCHANGED proposalRows
        \/ pc[h] = "proposal" /\ ProposalRowLands(h)
        \/ pc[h] = "details" /\ DetailsRowLands(h)
    BY <1>12 DEF CommitFails, Landing
  <2>2. QED BY <1>12, <2>1, EndKeepsJ DEF CommitFails
<1>13. CASE Crash
  BY <1>13, CrashKeepsJ
<1>14. CASE UNCHANGED vars
  <2>1. (Alone /\ Mirrored /\ RowSettles)'
    BY <1>14 DEF vars, JInv, Alone, Mirrored, RowSettles
  <2>2. Budget'
    BY <1>14 DEF vars, JInv, Budget, Spent, ClaimsOf
  <2>3. QED BY <2>1, <2>2 DEF JInv
<1>15. ASSUME NEW h \in Handlers, CommitProposal(h)
       PROVE  JInv'
  BY <1>15, CommitProposalKeepsJ
<1>16. ASSUME NEW h \in Handlers, NEW p \in Proposals, NEW k \in Requests,
              Propose(h, p, k.content, k.value)
       PROVE  JInv'
  <2>1. k.content \in Contents /\ k.value \in Contents \cup {None}
    BY ReviewConstants
  <2>2. QED BY <1>1, <1>16, <2>1
<1>17. QED
  BY <1>2, <1>3, <1>4, <1>5, <1>6, <1>7, <1>8, <1>9, <1>10, <1>11, <1>12, <1>13,
     <1>14, <1>15, <1>16, ReviewConstants
  DEF Next

\* Every step keeps the details of a proposal as they are: nothing changes them but
\* the commit that completes a row, and a restart that reads it.
LEMMA NextDetails == IInv /\ DetailsAgree /\ [Next]_vars => DetailsAgree'
<1> SUFFICES ASSUME IInv, DetailsAgree, [Next]_vars PROVE DetailsAgree'
  OBVIOUS
<1>1. ASSUME NEW h \in Handlers, NEW p \in Proposals, NEW c \in Contents,
             NEW v \in Contents \cup {None}, Propose(h, p, c, v)
      PROVE  DetailsAgree'
  <2>1. SameDetails(proposalRows[p], NoProposal)
    BY <1>1 DEF IInv, Proposed, Propose, SameDetails
  <2>2. \A g \in Handlers : pc[g] # "idle" => job[g].of \in Proposals /\ job[g].of # p
    BY <1>1 DEF IInv, Engaged, Propose
  <2>3. QED
    BY <1>1, <2>1, <2>2 DEF IInv, TypeOK, Propose, Begin, DetailsAgree, SameDetails
<1>2. ASSUME NEW h \in Handlers, NEW p \in Proposals, NEW stage \in Stages,
             NEW r \in Proposal, Begin(h, stage, p, r),
             SameDetails(r, proposals[p]),
             proposals' = [proposals EXCEPT ![p] = r],
             UNCHANGED proposalRows
      PROVE  DetailsAgree'
  <2>1. \A q \in Proposals : SameDetails(proposals'[q], proposals[q])
    BY <1>2 DEF IInv, TypeOK, SameDetails
  <2>2. ASSUME NEW g \in Handlers, pc'[g] # "idle"
        PROVE  SameDetails(job'[g].copy, proposals'[job'[g].of])
    <3>1. CASE g = h
      BY <1>2, <3>1 DEF IInv, TypeOK, Begin, SameDetails
    <3>2. CASE g # h
      <4>1. pc[g] # "idle" /\ job'[g] = job[g] /\ job[g].of \in Proposals
        BY <1>2, <2>2, <3>2 DEF IInv, TypeOK, Begin, Engaged
      <4>2. QED BY <2>1, <4>1 DEF DetailsAgree, SameDetails
    <3>3. QED BY <3>1, <3>2
  <2>3. QED BY <1>2, <2>1, <2>2 DEF DetailsAgree, SameDetails
<1>3. ASSUME NEW h \in Handlers, NEW p \in Proposals, NEW c \in Edits,
             Update(h, p, c)
      PROVE  DetailsAgree'
  <2> DEFINE r == [proposals[p] EXCEPT !.content = c]
  <2>1. r \in Proposal /\ SameDetails(r, proposals[p])
    BY <1>3, ReviewConstants DEF IInv, TypeOK, Update, Proposal, SameDetails
  <2>2. QED BY <1>2, <1>3, <2>1 DEF Update, Stages
<1>4. ASSUME NEW h \in Handlers, NEW p \in Proposals, Reject(h, p)
      PROVE  DetailsAgree'
  <2> DEFINE r == [proposals[p] EXCEPT !.status = "rejected"]
  <2>1. r \in Proposal /\ SameDetails(r, proposals[p])
    BY <1>4 DEF IInv, TypeOK, Reject, Proposal, SameDetails
  <2>2. QED BY <1>2, <1>4, <2>1 DEF Reject, Stages
<1>5. ASSUME NEW h \in Handlers, NEW p \in Proposals, Approve(h, p)
      PROVE  DetailsAgree'
  <2>1. /\ proposals[p] \in Proposal
        /\ proposals' = [proposals EXCEPT ![p] = proposals[p]]
    BY <1>5 DEF IInv, TypeOK, Approve
  <2>2. QED BY <1>2, <1>5, <2>1 DEF Approve, Stages, SameDetails
<1>6. ASSUME NEW h \in Handlers, pc[h] # "idle",
             \A g \in Handlers :
               \/ pc'[g] = "idle"
               \/ /\ pc[g] # "idle" /\ job'[g].of = job[g].of
                  /\ SameDetails(job'[g].copy, job[g].copy),
             \A p \in Proposals : SameDetails(proposals'[p], proposals[p]),
             \/ UNCHANGED proposalRows
             \/ pc[h] = "proposal" /\ ProposalRowLands(h)
             \/ pc[h] = "details" /\ DetailsRowLands(h)
      PROVE  DetailsAgree'
  <2>1. ASSUME NEW p \in Proposals
        PROVE  \/ SameDetails(proposalRows'[p], proposals'[p])
               \/ SameDetails(proposalRows'[p], NoProposal)
    <3>1. CASE SameDetails(proposalRows'[p], proposalRows[p])
      BY <1>6, <3>1 DEF DetailsAgree, SameDetails
    <3>2. CASE p = job[h].of /\ SameDetails(proposalRows'[p], job[h].copy)
      BY <1>6, <3>2 DEF DetailsAgree, SameDetails
    <3>3. QED BY <1>6, <3>1, <3>2, ProposalRowLanding DEF SameDetails
  <2>2. ASSUME NEW g \in Handlers, pc'[g] # "idle"
        PROVE  SameDetails(job'[g].copy, proposals'[job'[g].of])
    <3>1. pc[g] # "idle" /\ job'[g].of = job[g].of /\ job[g].of \in Proposals
      BY <1>6, <2>2 DEF IInv, Engaged
    <3>2. QED BY <1>6, <2>2, <3>1 DEF DetailsAgree, SameDetails
  <2>3. QED BY <2>1, <2>2 DEF DetailsAgree
<1>7. ASSUME NEW h \in Handlers,
             \/ CommitItem(h) \/ Supersede(h) \/ CommitPrevious(h) \/ Insert(h)
             \/ CommitProposal(h)
      PROVE  DetailsAgree'
  <2>1. /\ pc[h] # "idle" /\ UNCHANGED <<proposals, job>>
        /\ \A g \in Handlers : g # h => pc'[g] = pc[g]
        /\ UNCHANGED proposalRows \/ (pc[h] = "proposal" /\ ProposalRowLands(h))
    BY <1>7 DEF IInv, TypeOK, CommitItem, Supersede, CommitPrevious, Insert,
                CommitProposal, GoTo
  <2>2. QED BY <1>6, <2>1 DEF SameDetails
<1>8. ASSUME NEW h \in Handlers, Select(h)
      PROVE  DetailsAgree'
  <2>1. /\ pc[h] # "idle" /\ UNCHANGED <<proposals, proposalRows>>
        /\ \A g \in Handlers : g # h => pc'[g] = pc[g]
        /\ \A g \in Handlers : job'[g].of = job[g].of /\ job'[g].copy = job[g].copy
    BY <1>8 DEF IInv, TypeOK, Select, GoTo
  <2>2. QED BY <1>6, <2>1 DEF SameDetails
<1>9. ASSUME NEW h \in Handlers, CommitClaim(h)
      PROVE  DetailsAgree'
  <2> DEFINE j == job[h]
             r == [j.copy EXCEPT !.status = "approved"]
  <2>1. /\ pc[h] = "claim" /\ j.of \in Proposals /\ j.copy \in Proposal
        /\ UNCHANGED proposalRows
        /\ \A g \in Handlers : g # h => pc'[g] = pc[g]
    BY <1>9 DEF IInv, TypeOK, CommitClaim, GoTo, Engaged, Job
  <2>2. SameDetails(r, j.copy)
    BY <2>1 DEF Proposal, SameDetails
  <2>3. \A g \in Handlers :
          job'[g].of = job[g].of /\ SameDetails(job'[g].copy, job[g].copy)
    BY <1>9, <2>1, <2>2 DEF IInv, TypeOK, CommitClaim, Job, Proposal, SameDetails
  <2>4. \A p \in Proposals : SameDetails(proposals'[p], proposals[p])
    <3>1. SameDetails(r, proposals[j.of])
      BY <2>1, <2>2 DEF DetailsAgree, SameDetails
    <3>2. proposals' = [proposals EXCEPT ![j.of] = r]
      BY <1>9 DEF CommitClaim
    <3> HIDE DEF r
    <3>3. QED BY <2>1, <3>1, <3>2 DEF IInv, TypeOK, SameDetails
  <2>5. QED BY <1>6, <2>1, <2>3, <2>4
<1>10. ASSUME NEW h \in Handlers, CommitRefused(h) \/ CommitDetails(h) \/ CommitFails(h)
       PROVE  DetailsAgree'
  <2>1. /\ pc[h] # "idle" /\ UNCHANGED proposals
        /\ pc'[h] = "idle"
        /\ \A g \in Handlers : g # h => pc'[g] = pc[g] /\ job'[g] = job[g]
    BY <1>10 DEF IInv, TypeOK, CommitRefused, CommitDetails, CommitFails, Finish
  <2>2. \/ UNCHANGED proposalRows
        \/ pc[h] = "proposal" /\ ProposalRowLands(h)
        \/ pc[h] = "details" /\ DetailsRowLands(h)
    BY <1>10 DEF CommitRefused, CommitDetails, CommitFails, Landing
  <2>3. QED BY <1>6, <2>1, <2>2 DEF SameDetails
<1>11. CASE Crash
  BY <1>11 DEF Crash, DetailsAgree, SameDetails
<1>12. CASE UNCHANGED vars
  BY <1>12 DEF vars, DetailsAgree
<1>13. QED
  BY <1>1, <1>3, <1>4, <1>5, <1>7, <1>8, <1>9, <1>10, <1>11, <1>12, ReviewConstants
  DEF Next, ProposeInChat

\* All of them hold in every reachable state.
THEOREM UnracedInvariance == Spec => [](IInv /\ JInv /\ DetailsAgree)
<1>1. Init => IInv /\ JInv
  BY InitIInv, InitJInv
<1>2. Init => DetailsAgree
  BY DEF Init, DetailsAgree, SameDetails
<1>3. IInv /\ JInv /\ DetailsAgree /\ [Next]_vars => IInv' /\ JInv' /\ DetailsAgree'
  BY NextIInv, NextJInv, NextDetails
<1>4. QED
  BY <1>1, <1>2, <1>3, PTL DEF Spec

\* approve() can be repeated as long as the status is pending, and yet a proposal
\* leaves no more than one claim on disk for each failed commit, for each restart,
\* and one.
THEOREM OneClaim == Spec => []OneClaimPerApproval
<1>1. IInv /\ JInv => OneClaimPerApproval
  <2> SUFFICES ASSUME IInv, JInv, NEW p \in Proposals \ raced
               PROVE  Cardinality(ClaimsOf(claimRows, p) \ refused)
                        <= 1 + faults + crashes
    BY DEF OneClaimPerApproval
  <2> DEFINE old == ClaimsOf(claims, p) \ refused
             new == ClaimsOf(claimRows, p) \ refused
  <2>1. /\ IsFiniteSet(old) /\ Cardinality(old) \in Nat
        /\ Cardinality(old) <= 1 + faults + crashes
        /\ faults \in Nat /\ crashes \in Nat
    BY ChargedIsFinite DEF IInv, TypeOK, JInv, Budget
  <2>2. new \subseteq old
    BY ReviewConstants DEF IInv, RowsHaveCopies, ClaimsOf, NoClaim
  <2>3. Cardinality(new) \in Nat /\ Cardinality(new) <= Cardinality(old)
    BY <2>1, <2>2, FS_Subset, FS_CardinalityType
  <2> HIDE DEF old, new
  <2>4. Cardinality(new) <= 1 + faults + crashes
    BY <2>1, <2>3
  <2>5. QED BY <2>4 DEF new
<1>2. QED
  BY <1>1, UnracedInvariance, PTL

\* The status checks of approve, reject and update_proposal, and the two commits of
\* _persist_proposal: a review is final, up to the completion of its row.
THEOREM ReviewsAreFinal == Spec => ReviewIsFinal
<1>1. /\ IInv /\ JInv /\ DetailsAgree
      /\ [Next]_vars
      => [\A p \in Proposals : StaysReviewed(p)]_vars
  <2> SUFFICES ASSUME IInv, JInv, DetailsAgree, Next, NEW p \in Proposals
               PROVE  StaysReviewed(p)
    OBVIOUS
  <2> DEFINE old == proposals[p]
             new == proposals'[p]
             row == proposalRows[p]
  <2>1. ASSUME NEW h \in Handlers, NEW q \in Proposals,
               \/ \E c \in Contents, v \in Contents \cup {None} :
                    Propose(h, q, c, v)
               \/ \E c \in Contents : Update(h, q, c)
               \/ Reject(h, q)
               \/ Approve(h, q)
        PROVE  StaysReviewed(p)
    <3>1. UNCHANGED proposalRows
      BY <2>1 DEF Propose, Update, Reject, Approve
    <3>2. proposals[q].status \notin Reviewed
      <4>1. q \in fresh \/ proposals[q].status = "pending"
        BY <2>1 DEF Propose, Update, Reject, Approve
      <4>2. q \in fresh => proposals[q].status = "absent"
        BY DEF IInv, Proposed, NoProposal
      <4>3. QED BY <4>1, <4>2 DEF Reviewed
    <3>3. p # q => proposals'[p] = proposals[p]
      BY <2>1 DEF IInv, TypeOK, Propose, Update, Reject, Approve
    <3>4. QED BY <3>1, <3>2, <3>3 DEF StaysReviewed, Reviewed
  <2>2. ASSUME NEW h \in Handlers, NEW q \in Proposals,
               NEW k \in Candidates \cup Requests,
               Propose(h, q, k.content, k.value)
        PROVE  StaysReviewed(p)
    <3>1. k.content \in Contents /\ k.value \in Contents \cup {None}
      BY ReviewConstants
    <3>2. QED BY <2>1, <2>2, <3>1
  <2>3. ASSUME NEW h \in Handlers,
               \/ CommitItem(h) \/ Select(h) \/ Supersede(h) \/ CommitPrevious(h)
               \/ Insert(h) \/ CommitRefused(h)
        PROVE  StaysReviewed(p)
    <3>1. UNCHANGED <<proposals, proposalRows>>
      BY <2>3 DEF CommitItem, Select, Supersede, CommitPrevious, Insert, CommitRefused
    <3>2. QED BY <3>1 DEF StaysReviewed
  <2>4. ASSUME NEW h \in Handlers, CommitClaim(h)
        PROVE  StaysReviewed(p)
    <3>1. raced' = raced /\ UNCHANGED proposalRows
      BY <2>4 DEF CommitClaim
    <3>2. CASE p = job[h].of
      <4>1. /\ job[h].copy.status = "pending"
            /\ p \notin raced => proposals[p] = job[h].copy
        BY <2>4, <3>2 DEF IInv, JInv, CommitClaim, Working, Mid, Mirrored, Approving
      <4>2. new.status = "approved"
        <5>1. job[h].copy \in Proposal
          BY DEF IInv, TypeOK, Job
        <5>2. new = [job[h].copy EXCEPT !.status = "approved"]
          BY <2>4, <3>2 DEF IInv, TypeOK, CommitClaim
        <5>3. QED BY <5>1, <5>2, MarkingApproved
      <4>3. QED BY <3>1, <4>1, <4>2 DEF StaysReviewed
    <3>3. CASE p # job[h].of
      <4>1. new = old
        BY <2>4, <3>3 DEF IInv, TypeOK, CommitClaim
      <4>2. QED BY <3>1, <4>1 DEF StaysReviewed
    <3>4. QED BY <3>2, <3>3
  <2>5. ASSUME NEW h \in Handlers,
               CommitProposal(h) \/ CommitDetails(h) \/ CommitFails(h)
        PROVE  StaysReviewed(p)
    <3>1. /\ pc[h] # "idle" /\ raced' = raced /\ UNCHANGED proposals
          /\ \/ UNCHANGED proposalRows
             \/ pc[h] = "proposal" /\ ProposalRowLands(h)
             \/ pc[h] = "details" /\ DetailsRowLands(h)
      BY <2>5 DEF CommitProposal, CommitDetails, CommitFails, Landing
    <3>2. CASE proposalRows'[p] = row
      BY <3>1, <3>2 DEF StaysReviewed
    <3>3. CASE p = job[h].of /\ pc[h] = "proposal"
      <4>1. p \notin raced => row.status \notin Reviewed
        BY <3>3 DEF JInv, Mirrored
      <4>2. QED BY <3>1, <4>1 DEF StaysReviewed, Reviewed
    <3>4. CASE /\ p = job[h].of
               /\ SameText(proposalRows'[p], row)
               /\ SameDetails(proposalRows'[p], job[h].copy)
      <4>1. SameDetails(proposalRows'[p], old)
        BY <3>1, <3>4 DEF DetailsAgree, SameDetails
      <4>2. row \in Proposal /\ proposalRows'[p] \in Proposal
        BY <3>1, ProposalRowLanding DEF IInv, TypeOK
      <4>3. proposalRows'[p] = [row EXCEPT !.predicate = old.predicate,
                                           !.value = old.value]
        BY <3>4, <4>1, <4>2 DEF SameText, SameDetails, Proposal
      <4>4. CASE SameDetails(row, old)
        <5>1. proposalRows'[p] = row
          BY <4>2, <4>3, <4>4 DEF SameDetails, Proposal
        <5>2. QED BY <3>1, <5>1 DEF StaysReviewed
      <4>5. CASE SameDetails(row, NoProposal)
        <5>1. row.predicate = "note"
          BY <4>5 DEF SameDetails, NoProposal
        <5>2. QED BY <3>1, <4>3, <5>1 DEF StaysReviewed
      <4>6. QED BY <4>4, <4>5 DEF DetailsAgree
    <3>5. QED BY <3>1, <3>2, <3>3, <3>4, ProposalRowLanding
  <2>6. CASE Crash
    <3>1. UNCHANGED proposalRows /\ crashes' # crashes
      BY <2>6 DEF IInv, TypeOK, Crash
    <3>2. QED BY <3>1 DEF StaysReviewed
  <2>7. QED
    BY <2>1, <2>2, <2>3, <2>4, <2>5, <2>6, ReviewConstants DEF Next, ProposeInChat
<1>2. QED
  BY <1>1, UnracedInvariance, PTL DEF Spec, ReviewIsFinal

=============================================================================

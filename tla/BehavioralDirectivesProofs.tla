--------------------- MODULE BehavioralDirectivesProofs ---------------------
(***************************************************************************)
(* Proofs about BehavioralDirectives, for any values, audiences and        *)
(* candidates, any number of threads, directives, failures and restarts.   *)
(***************************************************************************)
EXTENDS BehavioralDirectives, WellFoundedInduction, TLAPS

-----------------------------------------------------------------------------
(* The inductive invariant.                                                *)

\* The stages before a row is written, and those with no directive in hand.
Writing == {"row", "confirm", "previous"}
Free == {"idle", "chat"}

\* The variables that the reviews of directives do not depend on.
SideOK ==
  /\ claims \subseteq Claims
  /\ claimRows \subseteq Claims
  /\ chat \in [Handlers -> 0..MaxDirectives]
  /\ seen \subseteq Handlers
  /\ torn \subseteq Handlers
  /\ answered \subseteq Ids
  /\ lost \subseteq Claims
  /\ {memories, faults, crashes} \subseteq Nat /\ memories + faults + crashes <= MaxTrouble

\* A directive that no review can bring back.
Gone(r) == r.status \in {"superseded", "rejected", "revoked"} \/ ~r.enabled

\* A thread works on directives that were proposed, and until it supersedes
\* another one on its own.
Engaged ==
  \A h \in Handlers :
    /\ pc[h] \in Free => job[h] = NoJob
    /\ pc[h] \notin Free =>
         \/ {job[h].of, job[h].row} \subseteq 1..drawn
         \/ pc[h] = "claim" /\ job[h].of = 0 /\ job[h].row = 0
    /\ pc[h] \in {"row", "confirm", "link"} => job[h].row = job[h].of
    /\ pc[h] = "previous" => job[h].copy.status = "superseded"
    /\ pc[h] = "row" => Gone(job[h].copy) \/ job[h].copy.status = "pending"

\* What was not proposed is nowhere.
Undrawn ==
  /\ \A d \in Ids : d > drawn => directives[d] = NoDirective /\ rows[d] = NoDirective
  /\ approved \cup withdrawn \subseteq 1..drawn

\* Only approved directives are confirmed: in memory, in the rows, and in what a
\* thread is about to write to a row.
OnlyApproved ==
  /\ \A d \in Ids : "confirmed" \in {directives[d].status, rows[d].status}
       => d \in approved
  /\ \A h \in Handlers :
       pc[h] \in Writing /\ job[h].copy.status = "confirmed" => job[h].row \in approved

\* A directive that is not in raced has one thread at most ...
Alone ==
  \A d \in Ids \ raced : \A g, h \in Handlers :
    /\ d \in {job[g].of, job[g].row}
    /\ d \in {job[h].of, job[h].row}
    => g = h

\* ... which writes it as it is in memory ...
Mirrored ==
  \A h \in Handlers :
    pc[h] \in Writing /\ job[h].row \notin raced => job[h].copy = directives[job[h].row]

\* ... and which has yet to do so when the row differs, unless a commit failed.
Settling ==
  faults = 0 =>
    \A d \in Ids \ raced :
      \/ rows[d] = directives[d]
      \/ \E h \in Handlers : pc[h] \in Writing /\ job[h].row = d

\* What was withdrawn is gone, in memory and in its row.
GoneForGood ==
  /\ \A d \in withdrawn \ raced : Gone(directives[d]) /\ Gone(rows[d])
  /\ \A h \in Handlers :
       pc[h] \in {"scan", "claim"} /\ job[h].row \notin raced \cup {job[h].of} =>
         Gone(directives[job[h].row]) /\ Gone(rows[job[h].row])

IInv ==
  /\ TypeOK
  /\ Engaged
  /\ Undrawn
  /\ OnlyApproved
  /\ Alone
  /\ Mirrored
  /\ Settling
  /\ GoneForGood

-----------------------------------------------------------------------------
(* The newest of some directives.                                          *)

\* A set of directives that is not empty has a newest one.
LEMMA NewestIsOneOf ==
  ASSUME NEW ids \in SUBSET Ids
  PROVE  Newest(ids) \in ids \cup {0}
<1>1. CASE ids = {}
  BY <1>1 DEF Newest
<1>2. CASE ids # {}
  <2> DEFINE left == {MaxDirectives - e : e \in ids}
  <2>1. left \subseteq Nat /\ left # {}
    <3>1. \A e \in Ids : MaxDirectives - e \in Nat
      BY DirectiveConstants DEF Ids
    <3>2. QED BY <1>2, <3>1
  <2>2. \E x \in left : \A y \in left : ~(<<y, x>> \in {ss \in Nat \X Nat : ss[1] < ss[2]})
    BY <2>1, NatLessThanWellFounded, WFMin DEF OpToRel
  <2>3. PICK e \in ids : \A y \in left :
          ~(<<y, MaxDirectives - e>> \in {ss \in Nat \X Nat : ss[1] < ss[2]})
    BY <2>2
  <2>4. ASSUME NEW f \in ids PROVE f <= e
    <3>1. /\ MaxDirectives - f \in left /\ MaxDirectives - f \in Nat
          /\ MaxDirectives - e \in Nat
      BY <2>1
    <3>2. ~(MaxDirectives - f < MaxDirectives - e)
      BY <2>3, <3>1
    <3>3. QED BY <3>2, DirectiveConstants DEF Ids
  <2>5. QED BY <1>2, <2>4 DEF Newest
<1>3. QED BY <1>1, <1>2

\* What is in force in a prompt is a confirmed and enabled directive.
LEMMA InForceIsActive ==
  ASSUME NEW r \in Audiences
  PROVE  InForce(r) = 0 \/
           /\ InForce(r) \in Ids
           /\ directives[InForce(r)].status = "confirmed"
           /\ directives[InForce(r)].enabled
<1>1. Active(r) \in SUBSET Ids
  BY DEF Active, Listed
<1>2. InForce(r) \in Active(r) \cup {0}
  BY <1>1, NewestIsOneOf DEF InForce
<1>3. \A d \in Active(r) : d \in Ids /\ directives[d].status = "confirmed"
                             /\ directives[d].enabled
  BY DEF Active, Listed
<1>4. QED
  BY <1>2, <1>3

-----------------------------------------------------------------------------
(* Each step keeps the invariant.                                          *)

\* A request changes a directive in the dictionary (Put): what it puts there is
\* not in force unless the directive is approved, and a directive that is gone
\* stays gone.
LEMMA PutKeeps ==
  ASSUME IInv,
         NEW h \in Handlers, NEW stage \in Writing, NEW d \in Ids, NEW r \in Directive,
         Put(h, stage, d, r),
         UNCHANGED <<rows, withdrawn, faults>>, SideOK',
         drawn' \in 0..MaxDirectives, drawn <= drawn', d <= drawn',
         approved \subseteq approved', approved' \subseteq 1..drawn',
         \/ pc[h] \in Free /\ stage \in {"row", "confirm"}
         \/ pc[h] = "link" /\ stage = "previous" /\ r.status = "superseded",
         stage = "row" => Gone(r) \/ r.status = "pending",
         Gone(directives[d]) => Gone(r),
         r.status = "confirmed" => d \in approved'
  PROVE  IInv'
<1> DEFINE of == IF job[h].of = 0 THEN d ELSE job[h].of
           own == [of |-> of, row |-> d, copy |-> r, claim |-> job[h].claim]
<1>1. /\ directives' = [directives EXCEPT ![d] = r]
      /\ pc' = [pc EXCEPT ![h] = stage]
      /\ job' = [job EXCEPT ![h] = own]
  BY DEF Put
<1>2. /\ raced \subseteq raced' /\ raced' \subseteq raced \cup {d}
      /\ d \notin raced' =>
           \A g \in Handlers \ {h} : d # job[g].of /\ d # job[g].row
  BY DEF Put
<1>3. /\ pc[h] \in Free => job[h].of = 0 /\ job[h].row = 0 /\ of = d
      /\ pc[h] = "link" => job[h].of \in 1..drawn /\ of = job[h].of
      /\ of \in 1..drawn' /\ d \in 1..drawn' /\ drawn \in Nat /\ drawn' \in Nat
  <2>1. pc[h] \in Free => job[h] = NoJob
    BY DEF IInv, Engaged
  <2>2. pc[h] = "link" => job[h].of \in 1..drawn
    BY DEF IInv, Engaged, Free
  <2>3. drawn \in Nat /\ drawn' \in Nat
    BY DirectiveConstants DEF IInv, TypeOK
  <2>4. QED BY <2>1, <2>2, <2>3 DEF NoJob, Ids
<1> HIDE DEF of
<1>4. /\ job'[h].of = of /\ job'[h].row = d /\ job'[h].copy = r /\ pc'[h] = stage
      /\ directives'[d] = r
  BY <1>1 DEF IInv, TypeOK
<1>5. /\ \A g \in Handlers \ {h} : job'[g] = job[g] /\ pc'[g] = pc[g]
      /\ \A e \in Ids \ {d} : directives'[e] = directives[e]
  BY <1>1 DEF IInv, TypeOK
<1>6. 1..drawn \subseteq 1..drawn' /\ 1..drawn' \subseteq Ids
  BY <1>3, DirectiveConstants DEF Ids
<1>7. TypeOK'
  <2>1. job[h].claim \in Claims
    BY DEF IInv, TypeOK, Job
  <2>2. own \in Job
    BY <1>3, <1>6, <2>1, DirectiveConstants DEF Job, Ids
  <2> HIDE DEF own
  <2>3. pc' \in [Handlers -> Stages]
    BY <1>1 DEF IInv, TypeOK, Stages, Writing
  <2>4. job' \in [Handlers -> Job]
    BY <1>1, <2>2 DEF IInv, TypeOK
  <2>5. /\ directives' \in [Ids -> Directive] /\ rows' \in [Ids -> Directive]
        /\ approved' \subseteq Ids /\ withdrawn' \subseteq Ids /\ raced' \subseteq Ids
    BY <1>1, <1>2, <1>6 DEF IInv, TypeOK
  <2>6. QED BY <2>3, <2>4, <2>5 DEF SideOK, TypeOK
<1>8. Engaged'
  <2>1. ASSUME NEW g \in Handlers \ {h}
        PROVE  /\ pc'[g] \in Free => job'[g] = NoJob
               /\ pc'[g] \notin Free =>
                    \/ {job'[g].of, job'[g].row} \subseteq 1..drawn'
                    \/ pc'[g] = "claim" /\ job'[g].of = 0 /\ job'[g].row = 0
               /\ pc'[g] \in {"row", "confirm", "link"} => job'[g].row = job'[g].of
               /\ pc'[g] = "previous" => job'[g].copy.status = "superseded"
               /\ pc'[g] = "row" => Gone(job'[g].copy) \/ job'[g].copy.status = "pending"
    BY <1>5, <1>6 DEF IInv, Engaged
  <2>2. /\ pc'[h] \notin Free /\ {job'[h].of, job'[h].row} \subseteq 1..drawn'
        /\ pc'[h] \in {"row", "confirm", "link"} => job'[h].row = job'[h].of
        /\ pc'[h] = "previous" => job'[h].copy.status = "superseded"
        /\ pc'[h] = "row" => Gone(job'[h].copy) \/ job'[h].copy.status = "pending"
    BY <1>3, <1>4 DEF Writing, Free
  <2>3. QED BY <2>1, <2>2 DEF Engaged, Gone
<1>9. Undrawn'
  <2>1. ASSUME NEW e \in Ids, e > drawn'
        PROVE  directives'[e] = NoDirective /\ rows'[e] = NoDirective
    <3>1. e > drawn /\ e # d
      BY <1>3, <2>1 DEF Ids
    <3>2. QED BY <1>5, <3>1 DEF IInv, Undrawn
  <2>2. QED BY <1>6, <2>1 DEF IInv, Undrawn
<1>10. OnlyApproved'
  BY <1>4, <1>5 DEF IInv, OnlyApproved
<1>11. Alone'
  <2> SUFFICES ASSUME NEW e \in Ids \ raced', NEW g \in Handlers, NEW k \in Handlers,
                      e \in {job'[g].of, job'[g].row}, e \in {job'[k].of, job'[k].row}
               PROVE  g = k
    BY DEF Alone
  <2>1. CASE e = d
    BY <1>2, <1>5, <2>1
  <2>2. CASE e # d
    <3>1. e # 0
      BY DEF Ids
    <3>2. e \in {job'[h].of, job'[h].row} => e \in {job[h].of, job[h].row}
      BY <1>3, <1>4, <2>2
    <3>3. e \in {job[g].of, job[g].row} /\ e \in {job[k].of, job[k].row}
      BY <1>5, <3>2
    <3>4. QED BY <1>2, <3>3 DEF IInv, Alone
  <2>3. QED BY <2>1, <2>2
<1>12. Mirrored'
  <2> SUFFICES ASSUME NEW g \in Handlers, pc'[g] \in Writing, job'[g].row \notin raced'
               PROVE  job'[g].copy = directives'[job'[g].row]
    BY DEF Mirrored
  <2>1. CASE g = h
    BY <1>4, <2>1
  <2>2. CASE g # h
    <3>1. job'[g] = job[g] /\ pc[g] \in Writing /\ job[g].row \notin raced
      BY <1>2, <1>5, <2>2
    <3>2. job[g].row \in Ids \ {d}
      BY <1>2, <1>6, <2>2, <3>1 DEF IInv, Engaged, Writing, Free
    <3>3. QED BY <1>5, <3>1, <3>2 DEF IInv, Mirrored
  <2>3. QED BY <2>1, <2>2
<1>13. Settling'
  <2> SUFFICES ASSUME faults = 0, NEW e \in Ids \ raced'
               PROVE  \/ rows[e] = directives'[e]
                      \/ \E g \in Handlers : pc'[g] \in Writing /\ job'[g].row = e
    BY DEF Settling
  <2>1. CASE e = d
    BY <1>4, <2>1
  <2>2. CASE e # d
    <3>1. pc[h] \notin Writing
      BY DEF Writing, Free
    <3>2. QED BY <1>2, <1>5, <2>2, <3>1 DEF IInv, Settling
  <2>3. QED BY <2>1, <2>2
<1>14. GoneForGood'
  <2>1. ASSUME NEW e \in withdrawn \ raced'
        PROVE  Gone(directives'[e]) /\ Gone(rows[e])
    <3>1. e \in Ids /\ Gone(directives[e]) /\ Gone(rows[e])
      BY <1>2 DEF IInv, TypeOK, GoneForGood
    <3>2. QED BY <1>4, <1>5, <3>1
  <2>2. ASSUME NEW g \in Handlers, pc'[g] \in {"scan", "claim"},
               job'[g].row \notin raced' \cup {job'[g].of}
        PROVE  Gone(directives'[job'[g].row]) /\ Gone(rows[job'[g].row])
    <3>1. g # h
      BY <1>4, <2>2 DEF Writing
    <3>2. /\ job'[g] = job[g] /\ pc[g] \in {"scan", "claim"}
          /\ job[g].row \in Ids \ {d} /\ job[g].row \notin raced \cup {job[g].of}
      BY <1>2, <1>5, <1>6, <2>2, <3>1 DEF IInv, Engaged, Free
    <3>3. QED BY <1>5, <3>2 DEF IInv, GoneForGood
  <2>3. QED BY <2>1, <2>2 DEF GoneForGood, Gone
<1>15. QED
  BY <1>7, <1>8, <1>9, <1>10, <1>11, <1>12, <1>13, <1>14 DEF IInv

\* A proposal keeps the invariant.
LEMMA ProposeKeeps ==
  ASSUME IInv, SideOK', NEW h \in Handlers, NEW c \in Candidates, Propose(h, c.value, c.audiences)
  PROVE  IInv'
<1> DEFINE d == drawn + 1
           r == [status |-> "pending", enabled |-> TRUE, value |-> c.value,
                 audiences |-> c.audiences, event |-> Event(h),
                 supersedes |-> Newest(Replaceable(c.audiences))]
<1>1. /\ pc[h] \in Free /\ drawn' = d
      /\ UNCHANGED <<rows, approved, withdrawn, faults>>
      /\ Put(h, "row", d, r)
  BY DEF Propose, Free
<1>2. /\ d \in Ids /\ d \in 0..MaxDirectives /\ drawn <= d /\ d <= d /\ d > drawn
      /\ 1..drawn \subseteq 1..d
  BY DirectiveConstants DEF IInv, TypeOK, Propose, Ids
<1>3. r \in Directive
  <2>1. Replaceable(c.audiences) \in SUBSET Ids
    BY DEF Replaceable
  <2>2. Newest(Replaceable(c.audiences)) \in 0..MaxDirectives
    BY <2>1, NewestIsOneOf, DirectiveConstants DEF Ids
  <2>3. c.value \in Values /\ c.audiences \in SUBSET Audiences
    BY DirectiveConstants
  <2>4. Event(h) \in 0..MaxDirectives
    BY <1>2 DEF Event, IInv, TypeOK
  <2>5. QED BY <2>2, <2>3, <2>4 DEF Directive
<1>4. directives[d] = NoDirective
  BY <1>2 DEF IInv, Undrawn
<1>5. ~Gone(directives[d])
  BY <1>4 DEF Gone, NoDirective
<1>6. r.status = "pending"
  OBVIOUS
<1>7. approved \subseteq approved' /\ approved' \subseteq 1..drawn'
  BY <1>1, <1>2 DEF IInv, Undrawn
<1> HIDE DEF d, r
<1>8. "row" \in Writing
  BY DEF Writing
<1>9. QED
  BY <1>1, <1>2, <1>3, <1>5, <1>6, <1>7, <1>8, PutKeeps

\* What the reviewing requests do to a directive.
LEMMA Reviewed ==
  ASSUME IInv, NEW d \in Ids, directives[d].status # "absent"
  PROVE  /\ directives[d] \in Directive /\ d <= drawn
         /\ \A s \in {"superseded", "rejected", "revoked", "confirmed"} :
              /\ [directives[d] EXCEPT !.status = s] \in Directive
              /\ [directives[d] EXCEPT !.status = s].status = s
              /\ [directives[d] EXCEPT !.status = s].enabled = directives[d].enabled
         /\ [directives[d] EXCEPT !.enabled = FALSE] \in Directive
         /\ [directives[d] EXCEPT !.enabled = FALSE].status = directives[d].status
         /\ [directives[d] EXCEPT !.enabled = FALSE].enabled = FALSE
<1>1. directives[d] \in Directive
  BY DEF IInv, TypeOK
<1>2. d <= drawn
  <2>1. d > drawn => directives[d] = NoDirective
    BY DEF IInv, Undrawn
  <2>2. QED BY <2>1 DEF IInv, TypeOK, Ids, NoDirective
<1>3. \A s \in {"superseded", "rejected", "revoked", "confirmed"} :
        /\ [directives[d] EXCEPT !.status = s] \in Directive
        /\ [directives[d] EXCEPT !.status = s].status = s
        /\ [directives[d] EXCEPT !.status = s].enabled = directives[d].enabled
  BY <1>1 DEF Directive
<1>4. /\ [directives[d] EXCEPT !.enabled = FALSE] \in Directive
      /\ [directives[d] EXCEPT !.enabled = FALSE].status = directives[d].status
      /\ [directives[d] EXCEPT !.enabled = FALSE].enabled = FALSE
  BY <1>1 DEF Directive
<1>5. QED
  BY <1>1, <1>2, <1>3, <1>4

\* Requests that take a directive out, and write its row.
LEMMA WithdrawKeeps ==
  ASSUME IInv, SideOK', NEW h \in Handlers, NEW d \in Ids,
         Reject(h, d) \/ Disable(h, d) \/ Revoke(h, d)
  PROVE  IInv'
<1>1. /\ pc[h] \in Free /\ directives[d].status # "absent"
      /\ UNCHANGED <<rows, drawn, approved, withdrawn, faults>>
  BY DEF Reject, Disable, Revoke, Free
<1>2. PICK r \in Directive :
        /\ Put(h, "row", d, r) /\ Gone(r)
        /\ r.status = "confirmed" => directives[d].status = "confirmed"
  BY <1>1, Reviewed DEF Reject, Disable, Revoke, Gone
<1>3. r.status = "confirmed" => d \in approved
  BY <1>2 DEF IInv, OnlyApproved
<1>4. approved \subseteq approved' /\ approved' \subseteq 1..drawn'
  BY <1>1 DEF IInv, Undrawn
<1>5. "row" \in Writing /\ drawn' \in 0..MaxDirectives /\ drawn <= drawn' /\ d <= drawn'
  <2>1. d <= drawn
    BY <1>1, Reviewed
  <2>2. QED BY <1>1, <2>1, DirectiveConstants DEF Writing, IInv, TypeOK
<1>6. QED
  BY <1>1, <1>2, <1>3, <1>4, <1>5, PutKeeps

\* So does the request that approves it ...
LEMMA ApproveKeeps ==
  ASSUME IInv, SideOK', NEW h \in Handlers, NEW d \in Ids, Approve(h, d)
  PROVE  IInv'
<1> DEFINE r == [directives[d] EXCEPT !.status = "confirmed"]
<1>1. /\ pc[h] \in Free /\ directives[d].status = "pending"
      /\ Put(h, "confirm", d, r) /\ approved' = approved \cup {d}
      /\ UNCHANGED <<rows, drawn, withdrawn, faults>>
  BY DEF Approve, Free
<1>2. /\ r \in Directive /\ r.status = "confirmed" /\ r.enabled = directives[d].enabled
      /\ d <= drawn
  BY <1>1, Reviewed
<1>3. Gone(directives[d]) => Gone(r)
  BY <1>1, <1>2 DEF Gone
<1> HIDE DEF r
<1>4. /\ "confirm" \in Writing /\ "confirm" # "row" /\ drawn' \in 0..MaxDirectives
      /\ drawn <= drawn' /\ d <= drawn' /\ d \in 1..drawn'
  BY <1>1, <1>2, DirectiveConstants DEF Writing, IInv, TypeOK, Ids
<1>5. approved \subseteq approved' /\ approved' \subseteq 1..drawn' /\ d \in approved'
  BY <1>1, <1>4 DEF IInv, Undrawn
<1>6. QED
  BY <1>1, <1>2, <1>3, <1>4, <1>5, PutKeeps

\* ... which goes on to the directive that it replaces.
LEMMA SupersedeKeeps ==
  ASSUME IInv, SideOK', NEW h \in Handlers, Supersede(h)
  PROVE  IInv'
<1> DEFINE e == job[h].copy.supersedes
           r == [directives[e] EXCEPT !.status = "superseded"]
<1>1. /\ pc[h] = "link" /\ e # 0 /\ directives[e].status = "confirmed"
      /\ Put(h, "previous", e, r)
      /\ UNCHANGED <<rows, drawn, approved, withdrawn, faults>>
  BY DEF Supersede
<1>2. e \in Ids
  <2>1. job[h] \in Job
    BY DEF IInv, TypeOK
  <2>2. job[h].copy \in Directive
    BY <2>1 DEF Job
  <2>3. e \in 0..MaxDirectives
    BY <2>2 DEF Directive
  <2>4. QED BY <1>1, <2>3, DirectiveConstants DEF Ids
<1>3. r \in Directive /\ r.status = "superseded" /\ e <= drawn
  BY <1>1, <1>2, Reviewed
<1>4. Gone(r)
  BY <1>3 DEF Gone
<1> HIDE DEF e, r
<1>5. /\ "previous" \in Writing /\ "previous" # "row" /\ drawn' \in 0..MaxDirectives
      /\ drawn <= drawn' /\ e <= drawn'
  BY <1>1, <1>3, DirectiveConstants DEF Writing, IInv, TypeOK
<1>6. approved \subseteq approved' /\ approved' \subseteq 1..drawn'
  BY <1>1 DEF IInv, Undrawn
<1>7. QED
  BY <1>1, <1>2, <1>3, <1>4, <1>5, <1>6, PutKeeps

\* A thread writes a row, whatever it does then: the row becomes as the directive is
\* in memory, when no other request worked on it.
LEMMA RowWritten ==
  ASSUME IInv, NEW h \in Handlers, pc[h] \in Writing,
         rows' \in {rows, [rows EXCEPT ![job[h].row] = job[h].copy]},
         UNCHANGED <<directives, approved>>
  PROVE  /\ job[h].row \in Ids /\ job[h].row \in 1..drawn
         /\ rows' \in [Ids -> Directive]
         /\ \A d \in Ids : d # job[h].row => rows'[d] = rows[d]
         /\ \A d \in Ids \ raced : rows'[d] \in {rows[d], directives[d]}
         /\ \A d \in Ids : d > drawn => rows'[d] = NoDirective
         /\ \A d \in Ids : rows'[d].status = "confirmed" => d \in approved
<1>1. job[h] \in Job /\ drawn \in 0..MaxDirectives
  BY DEF IInv, TypeOK
<1>2. job[h].row \in 1..drawn
  BY DEF IInv, Engaged, Writing, Free
<1>3. job[h].row \in Ids
  BY <1>1, <1>2, DirectiveConstants DEF Ids
<1>4. job[h].copy \in Directive
  BY <1>1 DEF Job
<1>5. rows \in [Ids -> Directive]
  BY DEF IInv, TypeOK
<1>6. /\ rows' \in [Ids -> Directive]
      /\ \A d \in Ids : rows'[d] = rows[d] \/ (d = job[h].row /\ rows'[d] = job[h].copy)
  BY <1>3, <1>4, <1>5
<1>7. \A d \in Ids \ raced : rows'[d] \in {rows[d], directives[d]}
  BY <1>6 DEF IInv, Mirrored
<1>8. ASSUME NEW d \in Ids, d > drawn
      PROVE  rows'[d] = NoDirective
  <2>1. d # job[h].row
    BY <1>1, <1>2, <1>8, DirectiveConstants DEF Ids
  <2>2. QED BY <1>6, <1>8, <2>1 DEF IInv, Undrawn
<1>9. \A d \in Ids : rows'[d].status = "confirmed" => d \in approved
  BY <1>6 DEF IInv, OnlyApproved
<1>10. QED
  BY <1>2, <1>3, <1>6, <1>7, <1>8, <1>9

\* A thread that has written its row, or failed to, or whose approval goes on, while
\* the dictionary and the other threads stay as they are.
LEMMA CommitKeeps ==
  ASSUME IInv, SideOK', NEW h \in Handlers, NEW s \in Stages, NEW k \in Job,
         UNCHANGED <<directives, drawn, approved, raced>>,
         pc' = [pc EXCEPT ![h] = s], job' = [job EXCEPT ![h] = k],
         \/ s \in Free /\ k = NoJob
         \/ s = "link" /\ pc[h] = "confirm" /\ k = job[h]
         \/ s = "scan" /\ pc[h] \in {"previous", "link"} /\ k = job[h]
         \/ s = "claim" /\ pc[h] \in {"scan", "idle"} /\ k.of = job[h].of /\ k.row = job[h].row,
         \/ UNCHANGED rows
         \/ pc[h] \in Writing /\ rows' \in {rows, [rows EXCEPT ![job[h].row] = job[h].copy]},
         faults <= faults',
         (faults' > faults /\ s \in Free)
           \/ pc[h] \notin Writing \/ rows'[job[h].row] = job[h].copy,
         withdrawn \subseteq withdrawn', withdrawn' \subseteq 1..drawn,
         \A d \in withdrawn' \ withdrawn :
           d \notin raced => Gone(directives[d]) /\ Gone(rows'[d])
  PROVE  IInv'
<1>1. /\ rows' \in [Ids -> Directive]
      /\ \A d \in Ids : rows'[d] = rows[d] \/ (pc[h] \in Writing /\ d = job[h].row)
      /\ \A d \in Ids \ raced : rows'[d] \in {rows[d], directives[d]}
      /\ \A d \in Ids : d > drawn => rows'[d] = NoDirective
      /\ \A d \in Ids : rows'[d].status = "confirmed" => d \in approved
  <2>1. CASE UNCHANGED rows
    BY <2>1 DEF IInv, TypeOK, Undrawn, OnlyApproved
  <2>2. CASE /\ pc[h] \in Writing
             /\ rows' \in {rows, [rows EXCEPT ![job[h].row] = job[h].copy]}
    BY <2>2, RowWritten
  <2>3. QED BY <2>1, <2>2
<1>2. /\ \A g \in Handlers \ {h} : job'[g] = job[g] /\ pc'[g] = pc[g]
      /\ pc'[h] = s /\ job'[h] = k /\ s \notin Writing
  BY DEF IInv, TypeOK, Writing, Free
<1>3. drawn \in 0..MaxDirectives /\ 1..drawn \subseteq Ids
  BY DirectiveConstants DEF IInv, TypeOK, Ids
<1>4. TypeOK'
  <2>1. /\ directives' \in [Ids -> Directive] /\ drawn' \in 0..MaxDirectives
        /\ pc' \in [Handlers -> Stages] /\ job' \in [Handlers -> Job]
        /\ approved' \subseteq Ids /\ raced' \subseteq Ids
    BY DEF IInv, TypeOK
  <2>2. QED BY <1>1, <1>3, <2>1 DEF SideOK, TypeOK
<1>5. Engaged'
  <2>1. ASSUME NEW g \in Handlers
        PROVE  /\ pc'[g] \in Free => job'[g] = NoJob
               /\ pc'[g] \notin Free =>
                    \/ {job'[g].of, job'[g].row} \subseteq 1..drawn
                    \/ pc'[g] = "claim" /\ job'[g].of = 0 /\ job'[g].row = 0
               /\ pc'[g] \in {"row", "confirm", "link"} => job'[g].row = job'[g].of
               /\ pc'[g] = "previous" => job'[g].copy.status = "superseded"
               /\ pc'[g] = "row" => Gone(job'[g].copy) \/ job'[g].copy.status = "pending"
    <3>1. CASE g # h
      BY <1>2, <3>1 DEF IInv, Engaged
    <3>2. CASE g = h /\ s \in Free
      BY <1>2, <3>2 DEF Free
    <3>3. CASE g = h /\ s = "link"
      BY <1>2, <3>3 DEF IInv, Engaged, Free
    <3>4. CASE g = h /\ s = "scan"
      BY <1>2, <3>4 DEF IInv, Engaged, Free
    <3>5. CASE g = h /\ s = "claim"
      <4>1. CASE pc[h] = "scan"
        BY <1>2, <3>5, <4>1 DEF IInv, Engaged, Free
      <4>2. CASE pc[h] = "idle"
        BY <1>2, <3>5, <4>2 DEF IInv, Engaged, Free, NoJob
      <4>3. QED BY <3>5, <4>1, <4>2 DEF Free
    <3>6. QED BY <3>1, <3>2, <3>3, <3>4, <3>5
  <2>2. QED BY <2>1 DEF Engaged, Gone
<1>6. Undrawn'
  BY <1>1 DEF IInv, Undrawn
<1>7. OnlyApproved'
  BY <1>1, <1>2 DEF IInv, OnlyApproved
<1>8. Alone'
  <2> SUFFICES ASSUME NEW e \in Ids \ raced, NEW g \in Handlers, NEW l \in Handlers,
                      e \in {job'[g].of, job'[g].row}, e \in {job'[l].of, job'[l].row}
               PROVE  g = l
    BY DEF Alone
  <2>1. e # 0
    BY DEF Ids
  <2>2. k = NoJob \/ (k.of = job[h].of /\ k.row = job[h].row)
    OBVIOUS
  <2>3. NoJob.of = 0 /\ NoJob.row = 0
    BY DEF NoJob
  <2>4. /\ job'[g].of = job[g].of /\ job'[g].row = job[g].row
        /\ job'[l].of = job[l].of /\ job'[l].row = job[l].row
    BY <1>2, <2>1, <2>2, <2>3
  <2>5. QED BY <2>4 DEF IInv, Alone
<1>9. Mirrored'
  BY <1>2 DEF IInv, Mirrored
<1>10. Settling'
  <2> SUFFICES ASSUME faults' = 0, NEW d \in Ids \ raced
               PROVE  \/ rows'[d] = directives[d]
                      \/ \E g \in Handlers : pc'[g] \in Writing /\ job'[g].row = d
    BY DEF Settling
  <2>1. faults = 0
    BY DEF IInv, TypeOK
  <2>2. CASE rows[d] = directives[d]
    BY <1>1, <2>2
  <2>3. ASSUME NEW g \in Handlers \ {h}, pc[g] \in Writing, job[g].row = d
        PROVE  \E l \in Handlers : pc'[l] \in Writing /\ job'[l].row = d
    BY <1>2, <2>3
  <2>4. CASE pc[h] \in Writing /\ job[h].row = d
    <3>1. rows'[d] = job[h].copy
      BY <2>1, <2>4
    <3>2. QED BY <2>4, <3>1 DEF IInv, Mirrored
  <2>5. QED BY <2>1, <2>2, <2>3, <2>4 DEF IInv, Settling
<1>11. GoneForGood'
  <2>1. ASSUME NEW d \in withdrawn' \ raced
        PROVE  Gone(directives[d]) /\ Gone(rows'[d])
    <3>1. CASE d \in withdrawn
      BY <1>1, <1>3, <3>1 DEF IInv, TypeOK, GoneForGood
    <3>2. CASE d \notin withdrawn
      BY <3>2
    <3>3. QED BY <3>1, <3>2
  <2>2. ASSUME NEW g \in Handlers, pc'[g] \in {"scan", "claim"},
               job'[g].row \notin raced \cup {job'[g].of}
        PROVE  Gone(directives[job'[g].row]) /\ Gone(rows'[job'[g].row])
    <3>1. CASE pc[g] \in {"scan", "claim"}
      <4>1. job'[g].row = job[g].row /\ job'[g].of = job[g].of
        <5>1. CASE g # h
          BY <1>2, <5>1
        <5>2. CASE g = h
          <6>1. s \in {"scan", "claim"}
            BY <1>2, <2>2, <5>2
          <6>2. k.of = job[h].of /\ k.row = job[h].row
            BY <6>1 DEF Free
          <6>3. QED BY <1>2, <5>2, <6>2
        <5>3. QED BY <5>1, <5>2
      <4>2. job[g].row \in Ids
        BY <1>3, <2>2, <3>1, <4>1 DEF IInv, Engaged, Free
      <4>3. Gone(directives[job[g].row]) /\ Gone(rows[job[g].row])
        BY <2>2, <3>1, <4>1 DEF IInv, GoneForGood
      <4>4. QED BY <1>1, <2>2, <4>1, <4>2, <4>3
    <3>2. CASE pc[g] \notin {"scan", "claim"}
      <4>1. g = h /\ pc'[h] = s /\ job'[h] = k
        BY <1>2, <2>2, <3>2
      <4>2. s \in {"scan", "claim"}
        BY <2>2, <4>1
      <4>3. pc[h] \in {"previous", "link", "idle"} /\ k.of = job[h].of /\ k.row = job[h].row
        BY <3>2, <4>1, <4>2 DEF Free
      <4>4. pc[h] = "previous"
        <5>1. pc[h] \in {"link", "idle"} => job[h].row = job[h].of
          BY DEF IInv, Engaged, NoJob, Free
        <5>2. QED BY <2>2, <4>1, <4>3, <5>1
      <4>5. job[h].copy = directives[job[h].row] /\ job[h].copy.status = "superseded"
        BY <2>2, <4>1, <4>3, <4>4 DEF IInv, Engaged, Mirrored, Writing
      <4>6. rows'[job[h].row] = directives[job[h].row]
        BY <4>2, <4>4, <4>5 DEF Writing, Free
      <4>7. Gone(directives[job[h].row])
        BY <4>5 DEF Gone
      <4>8. QED BY <4>1, <4>3, <4>6, <4>7
    <3>3. QED BY <3>1, <3>2
  <2>3. QED BY <2>1, <2>2 DEF GoneForGood, Gone
<1>12. QED
  BY <1>4, <1>5, <1>6, <1>7, <1>8, <1>9, <1>10, <1>11 DEF IInv

\* The steps of a request are among those of CommitKeeps.
LEMMA JobsAreJobs == NoJob \in Job /\ \A h \in Handlers : IInv => job[h] \in Job
<1>1. NoJob \in Job
  BY DirectiveConstants DEF NoJob, NoDirective, Job, Directive, Claims, Claim
<1>2. QED
  BY <1>1 DEF IInv, TypeOK

\* The commit that ends a rejection, a disabling, a revocation or a proposal.
LEMMA CommitRowKeeps ==
  ASSUME IInv, SideOK', NEW h \in Handlers, CommitRow(h)
  PROVE  IInv'
<1> DEFINE j == job[h]
           s == IF chat[h] = 0 THEN "idle" ELSE "chat"
<1>1. /\ pc[h] = "row" /\ rows' = [rows EXCEPT ![j.row] = j.copy]
      /\ withdrawn' = IF j.copy.status = "pending" /\ j.copy.enabled
                      THEN withdrawn ELSE withdrawn \cup {j.row}
      /\ pc' = [pc EXCEPT ![h] = s] /\ job' = [job EXCEPT ![h] = NoJob]
      /\ UNCHANGED <<directives, drawn, approved, raced, faults>>
  BY DEF CommitRow
<1>2. pc[h] \in Writing
  BY <1>1 DEF Writing
<1>3. j.row \in Ids /\ j.row \in 1..drawn
  BY <1>1, <1>2, RowWritten
<1>4. rows'[j.row] = j.copy
  BY <1>1, <1>3 DEF IInv, TypeOK
<1>5. ASSUME NEW d \in withdrawn' \ withdrawn, d \notin raced
      PROVE  Gone(directives[d]) /\ Gone(rows'[d])
  <2>1. d = j.row /\ ~(j.copy.status = "pending" /\ j.copy.enabled)
    BY <1>1, <1>5
  <2>2. Gone(j.copy)
    BY <1>1, <2>1 DEF IInv, Engaged, Gone
  <2>3. j.copy = directives[j.row]
    BY <1>2, <1>5, <2>1 DEF IInv, Mirrored
  <2>4. QED BY <1>4, <2>1, <2>2, <2>3
<1>6. withdrawn \subseteq withdrawn' /\ withdrawn' \subseteq 1..drawn
  BY <1>1, <1>3 DEF IInv, Undrawn
<1>7. faults <= faults' /\ s \in Stages /\ s \in Free
  BY <1>1 DEF IInv, TypeOK, Stages, Free
<1> HIDE DEF j, s
<1>8. QED
  BY <1>1, <1>2, <1>4, <1>5, <1>6, <1>7, JobsAreJobs, CommitKeeps DEF j

\* The commits of an approval, and what it does when there is nothing to supersede.
LEMMA ApprovalKeeps ==
  ASSUME IInv, SideOK', NEW h \in Handlers,
         CommitConfirmed(h) \/ CommitPrevious(h) \/ NoPrevious(h)
  PROVE  IInv'
<1>1. PICK s \in Stages :
        /\ pc' = [pc EXCEPT ![h] = s]
        /\ \/ s = "link" /\ pc[h] = "confirm"
           \/ s = "scan" /\ pc[h] \in {"previous", "link"}
  BY DEF CommitConfirmed, CommitPrevious, NoPrevious, BeginLook, Stages
<1>2. /\ UNCHANGED <<directives, drawn, job, approved, withdrawn, raced, faults>>
      /\ \/ /\ pc[h] \in Writing
            /\ rows' = [rows EXCEPT ![job[h].row] = job[h].copy]
         \/ pc[h] \notin Writing /\ UNCHANGED rows
  BY DEF CommitConfirmed, CommitPrevious, NoPrevious, BeginLook, Writing
<1>3. job' = [job EXCEPT ![h] = job[h]]
  BY <1>2 DEF IInv, TypeOK
<1>4. pc[h] \in Writing => rows'[job[h].row] = job[h].copy
  <2>1. pc[h] \in Writing => job[h].row \in Ids
    BY <1>2, RowWritten
  <2>2. QED BY <1>2, <2>1 DEF IInv, TypeOK
<1>5. faults <= faults' /\ withdrawn \subseteq withdrawn' /\ withdrawn' \subseteq 1..drawn
  BY <1>2 DEF IInv, TypeOK, Undrawn
<1>6. QED
  BY <1>1, <1>2, <1>3, <1>4, <1>5, JobsAreJobs, CommitKeeps

\* What follows the look through the claims, and a memory approval's claim.
LEMMA ClaimKeeps ==
  ASSUME IInv, SideOK', NEW h \in Handlers,
         \/ AssertClaim(h) \/ \E d \in Ids : ApproveMemory(h, d)
  PROVE  IInv'
<1>1. PICK c \in Claims : job' = [job EXCEPT ![h].claim = c]
  <2>1. \A d \in Ids : ClaimOf(d) \in Claims
    BY DEF IInv, TypeOK, ClaimOf, Claim, Claims, Directive
  <2>2. AssertClaim(h) => job[h].of \in Ids
    <3>1. AssertClaim(h) => job[h].of \in 1..drawn
      BY DEF AssertClaim, IInv, Engaged, Free
    <3>2. QED BY <3>1, DirectiveConstants DEF IInv, TypeOK, Ids
  <2>3. QED BY <2>1, <2>2 DEF AssertClaim, ApproveMemory
<1> DEFINE k == [job[h] EXCEPT !.claim = c]
<1>2. job' = [job EXCEPT ![h] = k]
  BY <1>1 DEF IInv, TypeOK
<1>3. k \in Job /\ k.of = job[h].of /\ k.row = job[h].row
  BY JobsAreJobs DEF Job
<1>4. /\ pc[h] \in {"scan", "idle"} /\ pc' = [pc EXCEPT ![h] = "claim"]
      /\ UNCHANGED <<directives, rows, drawn, approved, withdrawn, raced, faults>>
  BY DEF AssertClaim, ApproveMemory, Insert
<1>5. /\ pc[h] \notin Writing /\ "claim" \in Stages
      /\ faults <= faults' /\ withdrawn \subseteq withdrawn' /\ withdrawn' \subseteq 1..drawn
  BY <1>4 DEF IInv, TypeOK, Undrawn, Writing, Stages
<1> HIDE DEF k
<1>6. QED
  BY <1>2, <1>3, <1>4, <1>5, CommitKeeps

\* A request that answers or raises after it wrote its rows keeps the invariant.
LEMMA AnswerKeeps ==
  ASSUME IInv, SideOK', NEW h \in Handlers,
         AnswerChat(h) \/ FindDuplicate(h) \/ LookRaises(h) \/ CommitClaim(h)
  PROVE  IInv'
<1>1. /\ pc[h] \in {"chat", "scan", "claim"} /\ Finish(h)
      /\ UNCHANGED <<directives, rows, drawn, approved, raced, faults>>
      /\ \/ pc[h] \in {"scan", "claim"} /\ withdrawn' = withdrawn \cup ({job[h].row} \ {job[h].of})
         \/ UNCHANGED withdrawn
  BY DEF AnswerChat, FindDuplicate, LookRaises, CommitClaim
<1>2. /\ withdrawn \subseteq withdrawn' /\ withdrawn' \subseteq 1..drawn
      /\ \A d \in withdrawn' \ withdrawn :
           d \notin raced => Gone(directives[d]) /\ Gone(rows'[d])
  <2>1. CASE UNCHANGED withdrawn
    BY <2>1 DEF IInv, Undrawn
  <2>2. CASE /\ pc[h] \in {"scan", "claim"}
             /\ withdrawn' = withdrawn \cup ({job[h].row} \ {job[h].of})
    <3>1. {job[h].row} \ {job[h].of} \subseteq 1..drawn
      BY <2>2 DEF IInv, Engaged, Free
    <3>2. QED BY <1>1, <2>2, <3>1 DEF IInv, Undrawn, GoneForGood
  <2>3. QED BY <1>1, <2>1, <2>2
<1>3. /\ pc' = [pc EXCEPT ![h] = "idle"] /\ job' = [job EXCEPT ![h] = NoJob]
      /\ pc[h] \notin Writing /\ "idle" \in Stages /\ "idle" \in Free /\ faults <= faults'
  BY <1>1 DEF Finish, Writing, Stages, Free, IInv, TypeOK
<1>4. QED
  BY <1>1, <1>2, <1>3, JobsAreJobs, CommitKeeps

\* A transaction raises; it may have been committed.
LEMMA CommitFailsKeeps ==
  ASSUME IInv, SideOK', NEW h \in Handlers, CommitFails(h)
  PROVE  IInv'
<1>1. /\ faults' = faults + 1
      /\ \/ /\ pc[h] \in Writing
            /\ rows' \in {rows, [rows EXCEPT ![job[h].row] = job[h].copy]}
         \/ UNCHANGED rows
      /\ pc' = [pc EXCEPT ![h] = "idle"] /\ job' = [job EXCEPT ![h] = NoJob]
      /\ UNCHANGED <<directives, drawn, approved, withdrawn, raced>>
  BY DEF CommitFails, Finish, Writing
<1>2. faults <= faults' /\ faults' > faults
  <2>1. faults \in Nat
    BY DEF IInv, TypeOK
  <2>2. QED BY <1>1, <2>1
<1>3. /\ "idle" \in Stages /\ "idle" \in Free
      /\ withdrawn \subseteq withdrawn' /\ withdrawn' \subseteq 1..drawn
  BY <1>1 DEF IInv, Undrawn, Stages, Free
<1>4. QED
  BY <1>1, <1>2, <1>3, JobsAreJobs, CommitKeeps

\* The process starts again with the rows.
LEMMA CrashKeeps ==
  ASSUME IInv, SideOK', Crash
  PROVE  IInv'
<1>1. /\ directives' = rows
      /\ pc' = [h \in Handlers |-> "idle"] /\ job' = [h \in Handlers |-> NoJob]
      /\ UNCHANGED <<rows, drawn, approved, withdrawn, raced, faults>>
  BY DEF Crash
<1>2. \A h \in Handlers : pc'[h] = "idle" /\ job'[h] = NoJob
  BY <1>1
<1>3. TypeOK'
  BY <1>1, JobsAreJobs DEF IInv, TypeOK, SideOK, Stages
<1>4. (Engaged /\ Mirrored /\ Undrawn /\ OnlyApproved)'
  BY <1>1, <1>2 DEF IInv, Engaged, Mirrored, Undrawn, OnlyApproved, Writing, Free
<1>5. Alone'
  BY <1>2 DEF Alone, NoJob, Ids
<1>6. Settling'
  BY <1>1 DEF Settling
<1>7. GoneForGood'
  BY <1>1, <1>2 DEF IInv, GoneForGood, Gone
<1>8. QED
  BY <1>3, <1>4, <1>5, <1>6, <1>7 DEF IInv

\* Each step leaves the other variables in their types.
LEMMA SideKeeps ==
  ASSUME IInv, Next
  PROVE  SideOK'
<1>1. SideOK
  BY DEF IInv, TypeOK, SideOK
<1>2. \A d \in Ids : ClaimOf(d) \in Claims
  BY DEF IInv, TypeOK, ClaimOf, Claim, Claims, Directive
<1>3. \A h \in Handlers : pc[h] = "scan" => job[h].of \in Ids
  BY DirectiveConstants DEF IInv, TypeOK, Engaged, Free, Ids
<1>4. \A h \in Handlers : job[h].claim \in Claims /\ job[h].of \in Ids \cup {0}
  <2>1. \A h \in Handlers : job[h].claim \in Claims /\ job[h].of \in 0..MaxDirectives
    BY DEF IInv, TypeOK, Job
  <2>2. QED BY <2>1, DirectiveConstants DEF Ids
<1>5. ASSUME NEW h \in Handlers, NEW c \in Candidates, Propose(h, c.value, c.audiences)
      PROVE  SideOK'
  <2>1. Event(h) \in 0..MaxDirectives
    BY <1>1, <1>5, DirectiveConstants DEF Propose, Event, SideOK, IInv, TypeOK
  <2>2. QED BY <1>1, <1>5, <2>1 DEF Propose, SideOK, look
<1>6. ASSUME NEW h \in Handlers, NEW d \in Ids,
             Reject(h, d) \/ Disable(h, d) \/ Revoke(h, d) \/ Approve(h, d)
      PROVE  SideOK'
  BY <1>1, <1>6 DEF Reject, Disable, Revoke, Approve, SideOK, look
<1>7. ASSUME NEW h \in Handlers,
             CommitRow(h) \/ AnswerChat(h) \/ CommitConfirmed(h) \/ Supersede(h)
      PROVE  SideOK'
  BY <1>1, <1>7, DirectiveConstants
     DEF CommitRow, AnswerChat, CommitConfirmed, Supersede, Finish, SideOK, look
<1>8. ASSUME NEW h \in Handlers, CommitPrevious(h) \/ NoPrevious(h)
      PROVE  SideOK'
  BY <1>1, <1>8 DEF CommitPrevious, NoPrevious, BeginLook, SideOK
<1>9. ASSUME NEW h \in Handlers, FindDuplicate(h) \/ LookRaises(h)
      PROVE  SideOK'
  BY <1>1, <1>3, <1>9, DirectiveConstants
     DEF FindDuplicate, LookRaises, EndLook, Finish, SideOK
<1>10. ASSUME NEW h \in Handlers, AssertClaim(h)
       PROVE  SideOK'
  BY <1>1, <1>2, <1>3, <1>10 DEF AssertClaim, Insert, SideOK
<1>11. ASSUME NEW h \in Handlers, NEW d \in Ids, ApproveMemory(h, d)
       PROVE  SideOK'
  <2>1. /\ {memories', faults', crashes'} \subseteq Nat
        /\ memories' + faults' + crashes' <= MaxTrouble
    BY <1>1, <1>11, DirectiveConstants DEF ApproveMemory, SideOK
  <2>2. QED BY <1>1, <1>2, <1>11, <2>1 DEF ApproveMemory, Insert, SideOK
<1>12. ASSUME NEW h \in Handlers, CommitClaim(h)
       PROVE  SideOK'
  BY <1>1, <1>4, <1>12, DirectiveConstants DEF CommitClaim, Finish, SideOK, look
<1>13. ASSUME NEW h \in Handlers, CommitFails(h)
       PROVE  SideOK'
  <2>1. /\ {memories', faults', crashes'} \subseteq Nat
        /\ memories' + faults' + crashes' <= MaxTrouble
    BY <1>1, <1>13, DirectiveConstants DEF CommitFails, SideOK
  <2>2. QED BY <1>1, <1>4, <1>13, <2>1, DirectiveConstants
            DEF CommitFails, Finish, SideOK, look
<1>14. CASE Crash
  <2>1. /\ {memories', faults', crashes'} \subseteq Nat
        /\ memories' + faults' + crashes' <= MaxTrouble
    BY <1>1, <1>14, DirectiveConstants DEF Crash, SideOK
  <2>2. QED BY <1>1, <1>14, <2>1, DirectiveConstants DEF Crash, SideOK
<1>15. QED
  BY <1>5, <1>6, <1>7, <1>8, <1>9, <1>10, <1>11, <1>12, <1>13, <1>14 DEF Next

\* The invariant holds in the beginning ...
LEMMA InitIInv == Init => IInv
<1> SUFFICES ASSUME Init PROVE IInv
  OBVIOUS
<1>1. NoDirective \in Directive /\ NoJob \in Job
  BY JobsAreJobs DEF NoJob, Job
<1>2. TypeOK
  BY <1>1, DirectiveConstants DEF Init, TypeOK, Stages
<1>3. Engaged /\ Undrawn /\ OnlyApproved /\ Mirrored /\ GoneForGood
  BY DEF Init, Engaged, Undrawn, OnlyApproved, Mirrored, GoneForGood, Writing, Free,
         NoDirective
<1>4. Alone
  BY DEF Init, Alone, NoJob, Ids
<1>5. Settling
  BY DEF Init, Settling
<1>6. QED
  BY <1>2, <1>3, <1>4, <1>5 DEF IInv

\* ... and every step keeps it.
LEMMA NextIInv == IInv /\ [Next]_vars => IInv'
<1> SUFFICES ASSUME IInv, [Next]_vars PROVE IInv'
  OBVIOUS
<1>1. CASE UNCHANGED vars
  BY <1>1 DEF vars, look, IInv, TypeOK, Engaged, Undrawn, OnlyApproved, Alone, Mirrored,
              Settling, GoneForGood, Gone
<1>2. CASE Next
  <2>1. SideOK'
    BY <1>2, SideKeeps
  <2>2. ASSUME NEW h \in Handlers,
               \/ \E c \in Candidates : Propose(h, c.value, c.audiences)
               \/ \E d \in Ids : Reject(h, d) \/ Disable(h, d) \/ Revoke(h, d) \/ Approve(h, d)
               \/ Supersede(h)
        PROVE  IInv'
    BY <2>1, <2>2, ProposeKeeps, WithdrawKeeps, ApproveKeeps, SupersedeKeeps
  <2>3. ASSUME NEW h \in Handlers,
               \/ CommitRow(h) \/ CommitConfirmed(h) \/ CommitPrevious(h) \/ NoPrevious(h)
               \/ AssertClaim(h) \/ \E d \in Ids : ApproveMemory(h, d)
        PROVE  IInv'
    BY <2>1, <2>3, CommitRowKeeps, ApprovalKeeps, ClaimKeeps
  <2>4. ASSUME NEW h \in Handlers,
               \/ AnswerChat(h) \/ FindDuplicate(h) \/ LookRaises(h) \/ CommitClaim(h)
               \/ CommitFails(h)
        PROVE  IInv'
    BY <2>1, <2>4, AnswerKeeps, CommitFailsKeeps
  <2>5. CASE Crash
    BY <2>1, <2>5, CrashKeeps
  <2>6. QED BY <1>2, <2>2, <2>3, <2>4, <2>5 DEF Next
<1>3. QED
  BY <1>1, <1>2

\* The invariant holds in every reachable state.
THEOREM Invariance == Spec => []IInv
<1>1. Init => IInv
  BY InitIInv
<1>2. IInv /\ [Next]_vars => IInv'
  BY NextIInv
<1>3. QED
  BY <1>1, <1>2, PTL DEF Spec

-----------------------------------------------------------------------------
(* What the Active Self is made of.                                        *)

\* Every variable keeps to its values.
THEOREM TypeCorrect == Spec => []TypeOK
<1>1. IInv => TypeOK
  BY DEF IInv
<1>2. QED
  BY <1>1, Invariance, PTL

\* Only approve_behavioral_directive confirms: whatever fails, restarts or races,
\* the directive in force for an audience was approved by an operator.
THEOREM OnlyApprovedIsInForce == Spec => []InForceWasApproved
<1>1. IInv => InForceWasApproved
  BY InForceIsActive DEF IInv, OnlyApproved, InForceWasApproved
<1>2. QED
  BY <1>1, Invariance, PTL

\* A directive whose rejection, disabling, revocation or supersession was answered
\* is never in force again, unless two requests worked on it at once.
THEOREM WithdrawalLasts == Spec => []WithdrawnStaysOut
<1>1. IInv => WithdrawnStaysOut
  <2> SUFFICES ASSUME IInv, NEW r \in Audiences
               PROVE  InForce(r) \notin withdrawn \ raced
    BY DEF WithdrawnStaysOut
  <2>1. CASE InForce(r) = 0
    BY <2>1 DEF IInv, TypeOK, Ids
  <2>2. CASE /\ directives[InForce(r)].status = "confirmed"
             /\ directives[InForce(r)].enabled
    BY <2>2 DEF IInv, GoneForGood, Gone
  <2>3. QED BY <2>1, <2>2, InForceIsActive
<1>2. QED
  BY <1>1, Invariance, PTL

\* Every change of a directive is followed by its row, that of the superseded one
\* too: at rest the rows are what memory holds, if no commit failed, but for
\* directives two requests worked on at once.
THEOREM RowsSettle == Spec => []RowsMatchAtRest
<1>1. IInv => RowsMatchAtRest
  BY DEF IInv, RowsMatchAtRest, AtRest, Settling, Writing
<1>2. QED
  BY <1>1, Invariance, PTL

-----------------------------------------------------------------------------
(* The claims of answered approvals.  A second invariant, over the first.  *)

\* Record r is of directive d, which is in memory.
IsOf(r, d) == directives[d].status # "absent" /\ Claim(r) = ClaimOf(d)

\* A row, and what a thread is about to write to one, is of the directive it is for.
Kept ==
  /\ \A d \in Ids : rows[d].status # "absent" => IsOf(rows[d], d)
  /\ \A h \in Handlers : pc[h] \in Writing => IsOf(job[h].copy, job[h].row)

\* An approval writes the claim of its directive.
Asserting ==
  \A h \in Handlers : pc[h] = "claim" /\ job[h].of # 0 => job[h].claim = ClaimOf(job[h].of)

\* A claim has its row, or a thread that will write it, unless that commit failed.
Pending ==
  claims \subseteq claimRows \cup lost
                     \cup {job[h].claim : h \in {g \in Handlers : pc[g] = "claim"}}

\* The claim of an answered approval is somewhere.
Claimed ==
  \A d \in answered :
    /\ d <= drawn
    /\ directives[d].status # "absent" => ClaimOf(d) \in claims \cup claimRows \cup lost

JInv == Kept /\ Asserting /\ Pending /\ Claimed

\* A step that is not a restart leaves the claims of what was proposed as they are.
Steady ==
  \A d \in Ids : d <= drawn =>
    /\ ClaimOf(d)' = ClaimOf(d)
    /\ directives'[d].status = "absent" <=> directives[d].status = "absent"

\* A thread's directive was proposed.
LEMMA InHand ==
  ASSUME IInv, NEW h \in Handlers, pc[h] \notin Free
  PROVE  \/ pc[h] = "claim" /\ job[h].of = 0 /\ job[h].row = 0
         \/ {job[h].of, job[h].row} \subseteq {d \in Ids : d <= drawn}
BY DirectiveConstants DEF IInv, TypeOK, Engaged, Ids

\* A request puts a directive with the same claim into the dictionary.
LEMMA PutIsSteady ==
  ASSUME IInv, JInv, NEW h \in Handlers, NEW stage \in Writing, NEW d \in Ids,
         NEW r \in Directive, Put(h, stage, d, r),
         UNCHANGED <<rows, claims, claimRows, answered, lost>>,
         drawn <= drawn', drawn' \in 0..MaxDirectives,
         pc[h] # "claim", r.status # "absent",
         \/ d = drawn + 1 /\ drawn' = d
         \/ d <= drawn /\ directives[d].status # "absent" /\ Claim(r) = ClaimOf(d)
  PROVE  JInv'
<1>1. /\ directives' = [directives EXCEPT ![d] = r] /\ directives'[d] = r
      /\ pc'[h] = stage /\ job'[h].row = d /\ job'[h].copy = r
      /\ \A g \in Handlers \ {h} : job'[g] = job[g] /\ pc'[g] = pc[g]
  BY DEF Put, IInv, TypeOK
<1>2. /\ drawn \in Nat /\ drawn' \in Nat /\ \A e \in Ids : e \in Nat
      /\ \A e \in Ids \ {d} : directives'[e] = directives[e]
  BY <1>1, DirectiveConstants DEF IInv, TypeOK, Ids
<1>3. Steady
  BY <1>1, <1>2 DEF Steady, ClaimOf
<1>4. Kept'
  <2>1. ASSUME NEW e \in Ids, rows[e].status # "absent"
        PROVE  directives'[e].status # "absent" /\ Claim(rows[e]) = Claim(directives'[e])
    <3>1. e <= drawn
      <4>1. e > drawn => rows[e] = NoDirective
        BY DEF IInv, Undrawn
      <4>2. QED BY <1>2, <2>1, <4>1 DEF NoDirective
    <3>2. QED BY <1>3, <2>1, <3>1 DEF JInv, Kept, IsOf, Steady, ClaimOf
  <2>2. ASSUME NEW g \in Handlers, pc'[g] \in Writing
        PROVE  /\ directives'[job'[g].row].status # "absent"
               /\ Claim(job'[g].copy) = Claim(directives'[job'[g].row])
    <3>1. CASE g = h
      BY <1>1, <3>1
    <3>2. CASE g # h
      <4>1. pc[g] \in Writing /\ job'[g] = job[g] /\ pc[g] \notin Free /\ pc[g] # "claim"
        BY <1>1, <2>2, <3>2 DEF Writing, Free
      <4>2. job[g].row \in Ids /\ job[g].row <= drawn
        BY <4>1, InHand
      <4>3. QED BY <1>3, <4>1, <4>2 DEF JInv, Kept, IsOf, Steady, ClaimOf
    <3>3. QED BY <3>1, <3>2
  <2>3. QED BY <2>1, <2>2 DEF Kept, IsOf, ClaimOf, Claim
<1>5. Asserting'
  <2> SUFFICES ASSUME NEW g \in Handlers, pc'[g] = "claim", job'[g].of # 0
               PROVE  job'[g].claim = Claim(directives'[job'[g].of])
    BY DEF Asserting, ClaimOf
  <2>1. g # h /\ pc[g] = "claim" /\ job'[g] = job[g]
    BY <1>1 DEF Writing
  <2>2. job[g].of \in Ids /\ job[g].of <= drawn
    BY <2>1, InHand DEF Free
  <2>3. QED BY <1>3, <2>1, <2>2 DEF JInv, Asserting, Steady, ClaimOf
<1>6. Pending'
  BY <1>1 DEF JInv, Pending
<1>7. Claimed'
  <2> SUFFICES ASSUME NEW e \in answered
               PROVE  /\ e <= drawn'
                      /\ directives'[e].status # "absent" =>
                           Claim(directives'[e]) \in claims \cup claimRows \cup lost
    BY DEF Claimed, ClaimOf
  <2>1. e \in Ids /\ e <= drawn
    BY DEF IInv, TypeOK, JInv, Claimed
  <2>2. e <= drawn'
    BY <1>2, <2>1
  <2>3. QED BY <1>3, <2>1, <2>2 DEF JInv, Claimed, Steady, ClaimOf
<1>8. QED
  BY <1>4, <1>5, <1>6, <1>7 DEF JInv

\* So do the requests that begin.
LEMMA BeginKeepsClaims ==
  ASSUME IInv, JInv, NEW h \in Handlers,
         \/ \E c \in Candidates : Propose(h, c.value, c.audiences)
         \/ \E d \in Ids : Reject(h, d) \/ Disable(h, d) \/ Revoke(h, d) \/ Approve(h, d)
         \/ Supersede(h)
  PROVE  JInv'
<1>1. UNCHANGED <<rows, claims, claimRows, answered, lost>> /\ pc[h] # "claim"
  BY DEF Propose, Reject, Disable, Revoke, Approve, Supersede
<1>2. ASSUME NEW c \in Candidates, Propose(h, c.value, c.audiences)
      PROVE  JInv'
  <2> DEFINE r == [status |-> "pending", enabled |-> TRUE, value |-> c.value,
                   audiences |-> c.audiences, event |-> Event(h),
                   supersedes |-> Newest(Replaceable(c.audiences))]
  <2>1. drawn + 1 \in Ids /\ drawn + 1 \in 0..MaxDirectives /\ drawn <= drawn + 1
    BY <1>2, DirectiveConstants DEF Propose, IInv, TypeOK, Ids
  <2>2. r \in Directive
    <3>1. Replaceable(c.audiences) \in SUBSET Ids
      BY DEF Replaceable
    <3>2. Newest(Replaceable(c.audiences)) \in 0..MaxDirectives
      BY <3>1, NewestIsOneOf, DirectiveConstants DEF Ids
    <3>3. c.value \in Values /\ c.audiences \in SUBSET Audiences
      BY DirectiveConstants
    <3>4. Event(h) \in 0..MaxDirectives
      BY <2>1 DEF Event, IInv, TypeOK
    <3>5. QED BY <3>2, <3>3, <3>4 DEF Directive
  <2>3. Put(h, "row", drawn + 1, r) /\ drawn' = drawn + 1 /\ r.status # "absent"
    BY <1>2 DEF Propose
  <2> HIDE DEF r
  <2>4. "row" \in Writing
    BY DEF Writing
  <2>5. QED BY <1>1, <2>1, <2>2, <2>3, <2>4, PutIsSteady
<1>3. ASSUME NEW d \in Ids, Reject(h, d) \/ Disable(h, d) \/ Revoke(h, d) \/ Approve(h, d)
      PROVE  JInv'
  <2>1. directives[d].status # "absent" /\ UNCHANGED drawn
    BY <1>3 DEF Reject, Disable, Revoke, Approve
  <2>2. d <= drawn
    BY <2>1, Reviewed
  <2>3. drawn <= drawn' /\ drawn' \in 0..MaxDirectives
    BY <2>1, DirectiveConstants DEF IInv, TypeOK
  <2>4. PICK r \in Directive, stage \in Writing :
          Put(h, stage, d, r) /\ Claim(r) = ClaimOf(d) /\ r.status # "absent"
    <3>1. \A s \in {"rejected", "revoked", "confirmed"} :
            Claim([directives[d] EXCEPT !.status = s]) = ClaimOf(d)
      BY DEF Claim, ClaimOf, IInv, TypeOK, Directive
    <3>2. Claim([directives[d] EXCEPT !.enabled = FALSE]) = ClaimOf(d)
      BY DEF Claim, ClaimOf, IInv, TypeOK, Directive
    <3>3. QED
      BY <1>3, <2>1, <3>1, <3>2, Reviewed DEF Reject, Disable, Revoke, Approve, Writing
  <2>5. QED BY <1>1, <2>1, <2>2, <2>3, <2>4, PutIsSteady
<1>4. CASE Supersede(h)
  <2> DEFINE e == job[h].copy.supersedes
             r == [directives[e] EXCEPT !.status = "superseded"]
  <2>1. /\ e # 0 /\ directives[e].status = "confirmed" /\ Put(h, "previous", e, r)
        /\ UNCHANGED drawn
    BY <1>4 DEF Supersede
  <2>2. e \in Ids
    <3>1. job[h].copy \in Directive
      BY JobsAreJobs DEF Job
    <3>2. e \in 0..MaxDirectives
      BY <3>1 DEF Directive
    <3>3. QED BY <2>1, <3>2, DirectiveConstants DEF Ids
  <2>3. r \in Directive /\ r.status # "absent" /\ e <= drawn
    BY <2>1, <2>2, Reviewed
  <2>4. Claim(r) = ClaimOf(e)
    BY <2>2 DEF Claim, ClaimOf, IInv, TypeOK, Directive
  <2>5. drawn <= drawn' /\ drawn' \in 0..MaxDirectives /\ "previous" \in Writing
    BY <2>1, DirectiveConstants DEF IInv, TypeOK, Writing
  <2> HIDE DEF e, r
  <2>6. QED BY <1>1, <2>1, <2>2, <2>3, <2>4, <2>5, PutIsSteady
<1>5. QED
  BY <1>2, <1>3, <1>4

\* A thread goes on, while the dictionary stays as it is.
LEMMA GoesOnKeepsClaims ==
  ASSUME IInv, JInv, NEW h \in Handlers,
         UNCHANGED <<directives, drawn>>,
         \A g \in Handlers \ {h} : job'[g] = job[g] /\ pc'[g] = pc[g],
         pc'[h] \notin Writing,
         \/ UNCHANGED rows
         \/ pc[h] \in Writing /\ rows' \in {rows, [rows EXCEPT ![job[h].row] = job[h].copy]},
         pc'[h] = "claim" /\ job'[h].of # 0 => job'[h].claim = ClaimOf(job'[h].of),
         claimRows \subseteq claimRows', lost \subseteq lost', claims \subseteq claims',
         claims' \subseteq claims \cup (IF pc'[h] = "claim" THEN {job'[h].claim} ELSE {}),
         pc[h] = "claim" => pc'[h] # "claim" /\ job[h].claim \in claimRows' \cup lost',
         answered' \subseteq answered \cup {job[h].of}, 0 \notin answered',
         \/ answered' = answered
         \/ pc[h] \notin Free /\ ClaimOf(job[h].of) \in claims' \cup claimRows' \cup lost'
  PROVE  JInv'
<1>1. Kept'
  <2>1. ASSUME NEW d \in Ids, rows'[d].status # "absent"
        PROVE  directives[d].status # "absent" /\ Claim(rows'[d]) = Claim(directives[d])
    <3>1. CASE rows'[d] = rows[d]
      BY <2>1, <3>1 DEF JInv, Kept, IsOf, ClaimOf
    <3>2. CASE rows'[d] # rows[d]
      <4>1. pc[h] \in Writing /\ d = job[h].row /\ rows'[d] = job[h].copy
        BY <3>2 DEF IInv, TypeOK
      <4>2. QED BY <4>1 DEF JInv, Kept, IsOf, ClaimOf
    <3>3. QED BY <3>1, <3>2
  <2>2. ASSUME NEW g \in Handlers, pc'[g] \in Writing
        PROVE  /\ directives[job'[g].row].status # "absent"
               /\ Claim(job'[g].copy) = Claim(directives[job'[g].row])
    BY <2>2 DEF JInv, Kept, IsOf, ClaimOf
  <2>3. QED BY <2>1, <2>2 DEF Kept, IsOf, ClaimOf, Claim
<1>2. Asserting'
  <2> SUFFICES ASSUME NEW g \in Handlers, pc'[g] = "claim", job'[g].of # 0
               PROVE  job'[g].claim = Claim(directives[job'[g].of])
    BY DEF Asserting, ClaimOf
  <2>1. QED BY DEF JInv, Asserting, ClaimOf
<1>3. Pending'
  <2> SUFFICES ASSUME NEW c \in claims', c \notin claimRows' \cup lost'
               PROVE  \E g \in Handlers : pc'[g] = "claim" /\ job'[g].claim = c
    BY DEF Pending
  <2>1. CASE c \in claims
    <3>1. PICK g \in Handlers : pc[g] = "claim" /\ job[g].claim = c
      BY <2>1 DEF JInv, Pending
    <3>2. g # h
      BY <3>1
    <3>3. QED BY <3>1, <3>2
  <2>2. CASE c \notin claims
    BY <2>2
  <2>3. QED BY <2>1, <2>2
<1>4. Claimed'
  <2> SUFFICES ASSUME NEW d \in answered'
               PROVE  /\ d <= drawn
                      /\ directives[d].status # "absent" =>
                           Claim(directives[d]) \in claims' \cup claimRows' \cup lost'
    BY DEF Claimed, ClaimOf
  <2>1. CASE d \in answered
    BY <2>1 DEF JInv, Claimed, ClaimOf
  <2>2. CASE d \notin answered
    <3>1. d = job[h].of /\ pc[h] \notin Free /\ job[h].of # 0
      BY <2>2
    <3>2. d <= drawn
      BY <3>1, InHand
    <3>3. QED BY <2>2, <3>1, <3>2 DEF ClaimOf
  <2>3. QED BY <2>1, <2>2
<1>5. QED
  BY <1>1, <1>2, <1>3, <1>4 DEF JInv

\* The steps of the requests under way.
LEMMA StepKeepsClaims ==
  ASSUME IInv, JInv, NEW h \in Handlers,
         \/ CommitRow(h) \/ AnswerChat(h) \/ CommitConfirmed(h) \/ CommitPrevious(h)
         \/ NoPrevious(h) \/ FindDuplicate(h) \/ LookRaises(h) \/ CommitClaim(h)
         \/ CommitFails(h)
  PROVE  JInv'
<1> USE DEF IInv, TypeOK
<1>1. /\ \A g \in Handlers \ {h} : job'[g] = job[g] /\ pc'[g] = pc[g]
      /\ pc'[h] \notin Writing /\ pc'[h] # "claim"
      /\ UNCHANGED <<directives, drawn, claims>>
  BY DEF CommitRow, AnswerChat, CommitConfirmed, CommitPrevious, NoPrevious, BeginLook,
         FindDuplicate, LookRaises, CommitClaim, CommitFails, Finish, Writing
<1>2. \/ UNCHANGED rows
      \/ pc[h] \in Writing /\ rows' \in {rows, [rows EXCEPT ![job[h].row] = job[h].copy]}
  BY DEF CommitRow, AnswerChat, CommitConfirmed, CommitPrevious, NoPrevious,
         FindDuplicate, LookRaises, CommitClaim, CommitFails, Writing
<1>3. 0 \notin answered
  BY DEF Ids
<1>4. CASE CommitRow(h) \/ AnswerChat(h) \/ CommitConfirmed(h) \/ CommitPrevious(h)
             \/ NoPrevious(h) \/ LookRaises(h)
  <2>1. UNCHANGED <<claimRows, lost, answered>> /\ pc[h] # "claim"
    BY <1>4 DEF CommitRow, AnswerChat, CommitConfirmed, CommitPrevious, NoPrevious,
                LookRaises
  <2>2. QED BY <1>1, <1>2, <1>3, <2>1, GoesOnKeepsClaims
<1>5. CASE FindDuplicate(h)
  <2>1. /\ UNCHANGED <<claimRows, lost>> /\ pc[h] = "scan"
        /\ answered' = answered \cup {job[h].of} /\ ClaimOf(job[h].of) \in claims
    BY <1>5 DEF FindDuplicate, Duplicate
  <2>2. pc[h] \notin Free /\ job[h].of \in Ids
    BY <2>1, InHand DEF Free
  <2>3. 0 \notin answered'
    BY <1>3, <2>1, <2>2 DEF Ids
  <2>4. QED BY <1>1, <1>2, <2>1, <2>2, <2>3, GoesOnKeepsClaims
<1>6. CASE CommitClaim(h)
  <2>1. /\ UNCHANGED lost /\ pc[h] = "claim" /\ claimRows' = claimRows \cup {job[h].claim}
        /\ answered' = answered \cup ({job[h].of} \ {0})
    BY <1>6 DEF CommitClaim
  <2>2. pc[h] \notin Free
    BY <2>1 DEF Free
  <2>3. answered' = answered \/ ClaimOf(job[h].of) \in claimRows'
    BY <2>1 DEF JInv, Asserting
  <2>4. QED BY <1>1, <1>2, <1>3, <2>1, <2>2, <2>3, GoesOnKeepsClaims
<1>7. CASE CommitFails(h)
  <2>1. /\ UNCHANGED answered /\ claimRows \subseteq claimRows' /\ lost \subseteq lost'
        /\ pc[h] = "claim" => job[h].claim \in lost'
    BY <1>7 DEF CommitFails
  <2>2. QED BY <1>1, <1>2, <1>3, <2>1, GoesOnKeepsClaims
<1>8. QED
  BY <1>4, <1>5, <1>6, <1>7

\* A claim enters _claims, an approval's or one for the memory.
LEMMA InsertKeepsClaims ==
  ASSUME IInv, JInv, NEW h \in Handlers,
         AssertClaim(h) \/ \E d \in Ids : ApproveMemory(h, d)
  PROVE  JInv'
<1>1. PICK c : /\ Insert(h, c) /\ job' = [job EXCEPT ![h].claim = c]
               /\ job[h].of # 0 => c = ClaimOf(job[h].of)
  <2>1. CASE AssertClaim(h)
    BY <2>1 DEF AssertClaim
  <2>2. CASE \E d \in Ids : ApproveMemory(h, d)
    <3>1. job[h].of = 0
      BY <2>2 DEF ApproveMemory, IInv, Engaged, Free, NoJob
    <3>2. QED BY <2>2, <3>1 DEF ApproveMemory
  <2>3. QED BY <2>1, <2>2
<1>2. /\ UNCHANGED <<directives, rows, drawn, claimRows, answered, lost>> /\ pc[h] # "claim"
      /\ 0 \notin answered
  BY DEF AssertClaim, ApproveMemory, IInv, TypeOK, Ids
<1>3. /\ \A g \in Handlers \ {h} : job'[g] = job[g] /\ pc'[g] = pc[g]
      /\ pc'[h] = "claim" /\ job'[h].claim = c /\ job'[h].of = job[h].of
      /\ claims' = claims \cup {c}
  <2>1. job[h] \in Job
    BY JobsAreJobs
  <2>2. QED BY <1>1, <2>1 DEF Insert, IInv, TypeOK, Job
<1>4. pc'[h] \notin Writing
  BY <1>3 DEF Writing
<1>5. QED
  BY <1>1, <1>2, <1>3, <1>4, GoesOnKeepsClaims

\* A restart: what is not in the claims' table is lost.
LEMMA CrashKeepsClaims ==
  ASSUME IInv, JInv, Crash
  PROVE  JInv'
<1>1. /\ directives' = rows /\ claims' = claimRows /\ lost' = lost \cup (claims \ claimRows)
      /\ \A h \in Handlers : pc'[h] = "idle"
      /\ UNCHANGED <<rows, claimRows, drawn, answered>>
  BY DEF Crash
<1>2. (Kept /\ Asserting)'
  BY <1>1 DEF Kept, IsOf, Asserting, ClaimOf, Writing
<1>3. Pending'
  BY <1>1 DEF Pending
<1>4. Claimed'
  <2> SUFFICES ASSUME NEW d \in answered
               PROVE  /\ d <= drawn
                      /\ rows[d].status # "absent" => Claim(rows[d]) \in claimRows \cup lost'
    BY <1>1 DEF Claimed, ClaimOf
  <2>1. d \in Ids /\ d <= drawn
    BY DEF IInv, TypeOK, JInv, Claimed
  <2>2. ASSUME rows[d].status # "absent"
        PROVE  directives[d].status # "absent" /\ Claim(rows[d]) = ClaimOf(d)
    BY <2>1, <2>2 DEF JInv, Kept, IsOf
  <2>3. QED BY <1>1, <2>1, <2>2 DEF JInv, Claimed
<1>5. QED
  BY <1>2, <1>3, <1>4 DEF JInv

\* The invariant of the claims holds in every reachable state.
LEMMA ClaimsInvariance == Spec => []JInv
<1>1. Init => JInv
  BY DEF Init, JInv, Kept, IsOf, Asserting, Pending, Claimed, Writing, NoDirective
<1>2. IInv /\ JInv /\ [Next]_vars => JInv'
  <2> SUFFICES ASSUME IInv, JInv, [Next]_vars PROVE JInv'
    OBVIOUS
  <2>1. CASE UNCHANGED vars
    BY <2>1 DEF vars, JInv, Kept, IsOf, Asserting, Pending, Claimed, ClaimOf
  <2>2. CASE Next
    BY <2>2, BeginKeepsClaims, StepKeepsClaims, InsertKeepsClaims, CrashKeepsClaims DEF Next
  <2>3. QED BY <2>1, <2>2
<1>3. QED
  BY <1>1, <1>2, Invariance, PTL DEF Spec

\* An approval is answered once its claim is in _claims: at rest a directive in
\* force whose approval was answered has the claim in the table, unless the commit
\* of that claim failed, its own or that of the duplicate it found, or was cut off.
\* Approvals that raised are excepted: the look through _claims may end one.
THEOREM ClaimsSettle == Spec => []InForceHasClaim
<1>1. IInv /\ JInv => InForceHasClaim
  <2> SUFFICES ASSUME IInv, JInv, AtRest, NEW r \in Audiences, InForce(r) \in answered
               PROVE  ClaimOf(InForce(r)) \in claimRows \cup lost
    BY DEF InForceHasClaim
  <2>1. InForce(r) # 0
    BY DEF IInv, TypeOK, Ids
  <2>2. directives[InForce(r)].status # "absent"
    BY <2>1, InForceIsActive
  <2>3. ClaimOf(InForce(r)) \in claims \cup claimRows \cup lost
    BY <2>2 DEF JInv, Claimed
  <2>4. claims \subseteq claimRows \cup lost
    BY DEF JInv, Pending, AtRest
  <2>5. QED BY <2>3, <2>4
<1>2. QED
  BY <1>1, Invariance, ClaimsInvariance, PTL

=============================================================================

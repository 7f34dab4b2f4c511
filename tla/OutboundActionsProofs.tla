------------------------ MODULE OutboundActionsProofs ------------------------
(***************************************************************************)
(* Proofs about OutboundActions, for any sets of actions, texts and        *)
(* handler threads and any number of failing commits and restarts.         *)
(***************************************************************************)
EXTENDS OutboundActions, TLAPS

-----------------------------------------------------------------------------
(* The inductive invariant.                                                *)

\* At most one thread is inside the lock.
Serial == \A g, h \in Handlers : Holds(g) /\ Holds(h) => g = h

\* A thread that has entered the service works on an action.
Engaged == \A h \in Handlers : pc[h] # "idle" => act[h] \in Actions

\* What the thread inside the lock has established and not yet written down.
Mid(h) ==
  /\ pc[h] = "post" => mem[act[h]].status = "approved" /\ op[h] = "sent"
  /\ pc[h] = "persist" =>
       /\ op[h] = mem[act[h]].status
       /\ Earlier(db[act[h]].status, mem[act[h]].status)
  /\ pc[h] = "audit" =>
       /\ op[h] = db[act[h]].status
       /\ \A i \in 1..Len(auditDb[act[h]]) :
            Earlier(auditDb[act[h]][i], db[act[h]].status)

Working == \A h \in Handlers : Mid(h)

\* A request waiting to send carries the event it will record.
Ready == \A h \in Handlers : pc[h] = "ready" => op[h] = "sent"

\* An approved action, in memory or on disk, carries a text that was approved.
ApprovedText ==
  \A a \in Actions :
    /\ mem[a].status = "approved" => mem[a].text \in approvals[a]
    /\ db[a].status = "approved" => db[a].text \in approvals[a]

\* An action sent according to memory was received with the text it has there.
SentCopyWasPosted ==
  \A a \in Actions :
    mem[a].status = "sent" =>
      \E i \in 1..Len(posted[a]) : posted[a][i] = mem[a].text

IInv ==
  /\ TypeOK
  /\ Serial
  /\ Engaged
  /\ Ready
  /\ Working
  /\ ApprovedText
  /\ SentCopyWasPosted
  /\ PostedTextWasApproved
  /\ RowNeverAhead
  /\ SentRowWasPosted
  /\ AuditMatchesRow

-----------------------------------------------------------------------------
(* Each step keeps the invariant.                                          *)

\* Appending to a sequence adds one last element and moves no other.
LEMMA Appending ==
  ASSUME NEW S, NEW s \in Seq(S), NEW e \in S
  PROVE  /\ Append(s, e) \in Seq(S)
         /\ Len(Append(s, e)) = Len(s) + 1
         /\ \A i \in 1..Len(s) : Append(s, e)[i] = s[i]
         /\ Append(s, e)[Len(s) + 1] = e
         /\ Len(s) \in Nat
OBVIOUS

\* A thread that enters the service, goes on to a stage or leaves keeps its types.
LEMMA EnterTypes ==
  ASSUME TypeOK, NEW h \in Handlers, NEW stage \in Stages, NEW e \in Events \cup {"none"},
         NEW a \in Actions \cup {None}, Enter(h, stage, e, a)
  PROVE  /\ pc' \in [Handlers -> Stages]
         /\ op' \in [Handlers -> Events \cup {"none"}]
         /\ act' \in [Handlers -> Actions \cup {None}]
  BY DEF TypeOK, Enter

\* A proposal (propose) touches a fresh action only.
LEMMA ProposeKeeps ==
  ASSUME IInv, NEW h \in Handlers, NEW a \in Actions, NEW t \in Texts,
         Propose(h, a, t)
  PROVE  IInv'
<1>1. TypeOK'
  <2>1. mem' \in [Actions -> Record]
    <3>1. [status |-> "proposed", text |-> t] \in Record
      BY DEF Record, Statuses
    <3>2. QED BY <3>1 DEF Propose, IInv, TypeOK
  <2>2. /\ pc' \in [Handlers -> Stages]
        /\ op' \in [Handlers -> Events \cup {"none"}]
        /\ act' \in [Handlers -> Actions \cup {None}]
    <3>1. "persist" \in Stages /\ "proposed" \in Events
      BY DEF Stages, Events
    <3>2. QED BY <3>1, EnterTypes DEF Propose, IInv
  <2>3. QED BY <2>1, <2>2 DEF Propose, IInv, TypeOK
<1>2. (Serial /\ Engaged /\ Ready)'
  BY DEF Propose, Enter, Unlocked, Holds, IInv, TypeOK, Serial, Engaged, Ready
<1>3. Working'
  <2> SUFFICES ASSUME NEW g \in Handlers PROVE Mid(g)'
    BY DEF Working
  <2>1. CASE g = h
    <3>1. /\ pc'[h] = "persist" /\ act'[h] = a
          /\ op'[h] = "proposed" /\ mem'[a].status = "proposed"
      BY DEF Propose, Enter, IInv, TypeOK, Record
    <3>2. db'[a] = db[a] /\ Earlier(db[a].status, "proposed")
      BY DEF Propose, IInv, RowNeverAhead, Lags, Earlier, Absent
    <3>3. QED BY <2>1, <3>1, <3>2 DEF Mid
  <2>2. CASE g # h
    BY <2>2
    DEF Propose, Enter, Unlocked, Holds, IInv, TypeOK, Working, Mid, Serial,
        Engaged, Ready
  <2>3. QED BY <2>1, <2>2
<1>4. (ApprovedText /\ PostedTextWasApproved)'
  BY DEF Propose, Enter, Unlocked, Holds, IInv, TypeOK, ApprovedText, Absent,
         PostedTextWasApproved
<1>5. (SentCopyWasPosted /\ SentRowWasPosted)'
  BY DEF Propose, Enter, Unlocked, Holds, IInv, TypeOK, SentCopyWasPosted,
         Absent, SentRowWasPosted
<1>6. RowNeverAhead'
  BY DEF Propose, Enter, Unlocked, Holds, IInv, TypeOK, RowNeverAhead, Lags,
         Earlier, Absent
<1>7. AuditMatchesRow'
  BY DEF Propose, Enter, Unlocked, Holds, IInv, TypeOK, AuditMatchesRow,
         Earlier
<1>8. QED
  BY <1>1, <1>2, <1>3, <1>4, <1>5, <1>6, <1>7 DEF IInv

\* An approval (approve) puts an approved text in memory, ahead of the row.
LEMMA ApproveKeeps ==
  ASSUME IInv, NEW h \in Handlers, NEW a \in Actions, NEW t \in Texts,
         Approve(h, a, t)
  PROVE  IInv'
<1>1. TypeOK'
  <2>1. mem' \in [Actions -> Record]
    <3>1. [status |-> "approved", text |-> t] \in Record
      BY DEF Record, Statuses
    <3>2. QED BY <3>1 DEF Approve, IInv, TypeOK
  <2>2. /\ pc' \in [Handlers -> Stages]
        /\ op' \in [Handlers -> Events \cup {"none"}]
        /\ act' \in [Handlers -> Actions \cup {None}]
    <3>1. "persist" \in Stages /\ "approved" \in Events
      BY DEF Stages, Events
    <3>2. QED BY <3>1, EnterTypes DEF Approve, IInv
  <2>3. approvals' \in [Actions -> SUBSET Texts]
    BY DEF Approve, IInv, TypeOK
  <2>4. QED BY <2>1, <2>2, <2>3 DEF Approve, IInv, TypeOK
<1>2. (Serial /\ Engaged /\ Ready)'
  BY DEF Approve, Enter, Unlocked, Holds, IInv, TypeOK, Serial, Engaged, Ready
<1>3. Working'
  <2> SUFFICES ASSUME NEW g \in Handlers PROVE Mid(g)'
    BY DEF Working
  <2>1. CASE g = h
    <3>1. /\ pc'[h] = "persist" /\ act'[h] = a
          /\ op'[h] = "approved" /\ mem'[a].status = "approved"
      BY DEF Approve, Enter, IInv, TypeOK, Record
    <3>2. db'[a] = db[a] /\ Earlier(db[a].status, "approved")
      BY DEF Approve, IInv, RowNeverAhead, Lags, Earlier, Absent
    <3>3. QED BY <2>1, <3>1, <3>2 DEF Mid
  <2>2. CASE g # h
    BY <2>2
    DEF Approve, Enter, Unlocked, Holds, IInv, TypeOK, Working, Mid, Serial,
        Engaged, Ready
  <2>3. QED BY <2>1, <2>2
<1>4. (ApprovedText /\ PostedTextWasApproved)'
  BY DEF Approve, Enter, Unlocked, Holds, IInv, TypeOK, ApprovedText, Absent,
         PostedTextWasApproved
<1>5. (SentCopyWasPosted /\ SentRowWasPosted)'
  BY DEF Approve, Enter, Unlocked, Holds, IInv, TypeOK, SentCopyWasPosted,
         Absent, SentRowWasPosted
<1>6. RowNeverAhead'
  BY DEF Approve, Enter, Unlocked, Holds, IInv, TypeOK, RowNeverAhead, Lags,
         Earlier, Absent
<1>7. AuditMatchesRow'
  BY DEF Approve, Enter, Unlocked, Holds, IInv, TypeOK, AuditMatchesRow,
         Earlier
<1>8. QED
  BY <1>1, <1>2, <1>3, <1>4, <1>5, <1>6, <1>7 DEF IInv

\* A rejection (reject) puts the action in memory ahead of its row.
LEMMA RejectKeeps ==
  ASSUME IInv, NEW h \in Handlers, NEW a \in Actions, Reject(h, a)
  PROVE  IInv'
<1>1. TypeOK'
  <2>1. mem' \in [Actions -> Record]
    <3>1. mem[a] \in Record
      BY DEF IInv, TypeOK
    <3>2. [mem[a] EXCEPT !.status = "rejected"] \in Record
      BY <3>1 DEF Record, Statuses
    <3>3. QED BY <3>2 DEF Reject, IInv, TypeOK
  <2>2. /\ pc' \in [Handlers -> Stages]
        /\ op' \in [Handlers -> Events \cup {"none"}]
        /\ act' \in [Handlers -> Actions \cup {None}]
    <3>1. "persist" \in Stages /\ "rejected" \in Events
      BY DEF Stages, Events
    <3>2. QED BY <3>1, EnterTypes DEF Reject, IInv
  <2>3. QED BY <2>1, <2>2 DEF Reject, IInv, TypeOK
<1>2. (Serial /\ Engaged /\ Ready)'
  BY DEF Reject, Enter, Unlocked, Holds, IInv, TypeOK, Serial, Engaged, Ready
<1>3. Working'
  <2> SUFFICES ASSUME NEW g \in Handlers PROVE Mid(g)'
    BY DEF Working
  <2>1. CASE g = h
    <3>1. /\ pc'[h] = "persist" /\ act'[h] = a
          /\ op'[h] = "rejected" /\ mem'[a].status = "rejected"
      BY DEF Reject, Enter, IInv, TypeOK, Record
    <3>2. db'[a] = db[a] /\ Earlier(db[a].status, "rejected")
      BY DEF Reject, IInv, RowNeverAhead, Lags, Earlier, Absent
    <3>3. QED BY <2>1, <3>1, <3>2 DEF Mid
  <2>2. CASE g # h
    BY <2>2
    DEF Reject, Enter, Unlocked, Holds, IInv, TypeOK, Working, Mid, Serial,
        Engaged, Ready
  <2>3. QED BY <2>1, <2>2
<1>4. (ApprovedText /\ PostedTextWasApproved)'
  BY DEF Reject, Enter, Unlocked, Holds, IInv, TypeOK, ApprovedText, Absent,
         PostedTextWasApproved
<1>5. (SentCopyWasPosted /\ SentRowWasPosted)'
  BY DEF Reject, Enter, Unlocked, Holds, IInv, TypeOK, SentCopyWasPosted,
         Absent, SentRowWasPosted
<1>6. RowNeverAhead'
  BY DEF Reject, Enter, Unlocked, Holds, IInv, TypeOK, RowNeverAhead, Lags,
         Earlier, Absent
<1>7. AuditMatchesRow'
  BY DEF Reject, Enter, Unlocked, Holds, IInv, TypeOK, AuditMatchesRow, Earlier
<1>8. QED
  BY <1>1, <1>2, <1>3, <1>4, <1>5, <1>6, <1>7 DEF IInv

\* The endpoint's lookup before send() changes nothing in the queue.
LEMMA SendLookupKeeps ==
  ASSUME IInv, NEW h \in Handlers, NEW a \in Actions, SendLookup(h, a)
  PROVE  IInv'
<1>1. TypeOK'
  BY ConstantsOK DEF SendLookup, Enter, Unlocked, Holds, IInv, TypeOK, Record,
         Statuses, Events, Stages, Absent
<1>2. (Serial /\ Engaged /\ Ready)'
  BY DEF SendLookup, Enter, Unlocked, Holds, IInv, TypeOK, Serial, Engaged,
         Ready
<1>3. Working'
  BY DEF SendLookup, Enter, Unlocked, Holds, IInv, TypeOK, Working, Mid,
         Serial, Engaged, Earlier, Absent
<1>4. (ApprovedText /\ PostedTextWasApproved)'
  BY DEF SendLookup, Enter, Unlocked, Holds, IInv, TypeOK, ApprovedText,
         Absent, PostedTextWasApproved
<1>5. (SentCopyWasPosted /\ SentRowWasPosted)'
  BY DEF SendLookup, Enter, Unlocked, Holds, IInv, TypeOK, SentCopyWasPosted,
         Absent, SentRowWasPosted
<1>6. RowNeverAhead'
  BY DEF SendLookup, Enter, Unlocked, Holds, IInv, TypeOK, RowNeverAhead, Lags,
         Earlier, Absent
<1>7. AuditMatchesRow'
  BY DEF SendLookup, Enter, Unlocked, Holds, IInv, TypeOK, AuditMatchesRow,
         Earlier
<1>8. QED
  BY <1>1, <1>2, <1>3, <1>4, <1>5, <1>6, <1>7 DEF IInv

\* send() takes the lock only on an approved action.
LEMMA SendStartKeeps ==
  ASSUME IInv, NEW h \in Handlers, SendStart(h)
  PROVE  IInv'
<1>1. TypeOK'
  BY ConstantsOK DEF SendStart, Unlocked, MaySend, Holds, IInv, TypeOK, Record,
         Statuses, Events, Stages, Absent
<1>2. (Serial /\ Engaged /\ Ready)'
  BY DEF SendStart, Unlocked, MaySend, Holds, IInv, TypeOK, Serial, Engaged,
         Ready
<1>3. Working'
  <2> SUFFICES ASSUME NEW g \in Handlers PROVE Mid(g)'
    BY DEF Working
  <2>1. CASE g = h
    BY <2>1, ConstantsOK
    DEF SendStart, Unlocked, MaySend, Holds, IInv, TypeOK, Working, Mid, Serial,
        Engaged, Ready, Earlier, Absent, RowNeverAhead, Lags, AuditMatchesRow
  <2>2. CASE g # h
    BY <2>2
    DEF SendStart, Unlocked, MaySend, Holds, IInv, TypeOK, Working, Mid, Serial,
        Engaged, Ready
  <2>3. QED BY <2>1, <2>2
<1>4. (ApprovedText /\ PostedTextWasApproved)'
  BY DEF SendStart, Unlocked, MaySend, Holds, IInv, TypeOK, ApprovedText,
         Absent, PostedTextWasApproved
<1>5. (SentCopyWasPosted /\ SentRowWasPosted)'
  BY DEF SendStart, Unlocked, MaySend, Holds, IInv, TypeOK, SentCopyWasPosted,
         Absent, SentRowWasPosted
<1>6. RowNeverAhead'
  BY DEF SendStart, Unlocked, MaySend, Holds, IInv, TypeOK, RowNeverAhead,
         Lags, Earlier, Absent
<1>7. AuditMatchesRow'
  BY DEF SendStart, Unlocked, MaySend, Holds, IInv, TypeOK, AuditMatchesRow,
         Earlier
<1>8. QED
  BY <1>1, <1>2, <1>3, <1>4, <1>5, <1>6, <1>7 DEF IInv

\* A refused send leaves everything as it was.
LEMMA SendRefusedKeeps ==
  ASSUME IInv, NEW h \in Handlers, SendRefused(h)
  PROVE  IInv'
<1>1. TypeOK'
  BY ConstantsOK DEF SendRefused, Unlocked, Leave, Enter, Holds, IInv, TypeOK,
         Record, Statuses, Events, Stages, Absent
<1>2. (Serial /\ Engaged /\ Ready)'
  BY DEF SendRefused, Unlocked, Leave, Enter, Holds, IInv, TypeOK, Serial,
         Engaged, Ready
<1>3. Working'
  BY DEF SendRefused, Unlocked, Leave, Enter, Holds, IInv, TypeOK, Working,
         Mid, Serial, Engaged, Earlier, Absent
<1>4. (ApprovedText /\ PostedTextWasApproved)'
  BY DEF SendRefused, Unlocked, Leave, Enter, Holds, IInv, TypeOK,
         ApprovedText, Absent, PostedTextWasApproved
<1>5. (SentCopyWasPosted /\ SentRowWasPosted)'
  BY DEF SendRefused, Unlocked, Leave, Enter, Holds, IInv, TypeOK,
         SentCopyWasPosted, Absent, SentRowWasPosted
<1>6. RowNeverAhead'
  BY DEF SendRefused, Unlocked, Leave, Enter, Holds, IInv, TypeOK,
         RowNeverAhead, Lags, Earlier, Absent
<1>7. AuditMatchesRow'
  BY DEF SendRefused, Unlocked, Leave, Enter, Holds, IInv, TypeOK,
         AuditMatchesRow, Earlier
<1>8. QED
  BY <1>1, <1>2, <1>3, <1>4, <1>5, <1>6, <1>7 DEF IInv

\* A successful post hands out the approved text and marks the copy sent.
LEMMA SendPostedKeeps ==
  ASSUME IInv, NEW h \in Handlers, SendPosted(h)
  PROVE  IInv'
<1>a. /\ act[h] \in Actions
      /\ mem[act[h]].status = "approved"
      /\ mem[act[h]].text \in approvals[act[h]]
      /\ mem[act[h]].text \in Texts
  BY DEF SendPosted, IInv, TypeOK, Engaged, Working, Mid, ApprovedText
<1>b. /\ posted' = [posted EXCEPT ![act[h]] = Append(@, mem[act[h]].text)]
      /\ posted'[act[h]] \in Seq(Texts)
      /\ Len(posted'[act[h]]) = Len(posted[act[h]]) + 1
      /\ \A i \in 1..Len(posted[act[h]]) : posted'[act[h]][i] = posted[act[h]][i]
      /\ posted'[act[h]][Len(posted[act[h]]) + 1] = mem[act[h]].text
      /\ Len(posted[act[h]]) \in Nat
  <2>1. posted' = [posted EXCEPT ![act[h]] = Append(@, mem[act[h]].text)]
    BY DEF SendPosted
  <2>2. /\ posted[act[h]] \in Seq(Texts)
        /\ posted'[act[h]] = Append(posted[act[h]], mem[act[h]].text)
    BY <1>a, <2>1 DEF IInv, TypeOK
  <2>3. QED BY <1>a, <2>1, <2>2, Appending
<1>1. TypeOK'
  <2>1. mem' \in [Actions -> Record]
    BY DEF SendPosted, IInv, TypeOK, Record, Statuses
  <2>2. posted' \in [Actions -> Seq(Texts)]
    BY <1>a, <1>b DEF IInv, TypeOK
  <2>3. pc' \in [Handlers -> Stages]
    BY DEF SendPosted, IInv, TypeOK, Stages
  <2>4. QED BY <2>1, <2>2, <2>3 DEF SendPosted, IInv, TypeOK
<1>2. (Serial /\ Engaged /\ Ready)'
  BY DEF SendPosted, IInv, TypeOK, Serial, Holds, Engaged, Ready
<1>3. Working'
  <2> SUFFICES ASSUME NEW g \in Handlers PROVE Mid(g)'
    BY DEF Working
  <2>1. CASE g = h
    BY <2>1, ConstantsOK
    DEF SendPosted, IInv, TypeOK, Working, Mid, Serial, Engaged, Ready, Holds,
        Earlier, Absent, RowNeverAhead, Lags, AuditMatchesRow
  <2>2. CASE g # h
    BY <2>2
    DEF SendPosted, IInv, TypeOK, Working, Mid, Serial, Engaged, Ready, Holds
  <2>3. QED BY <2>1, <2>2
<1>4. (ApprovedText /\ PostedTextWasApproved)'
  <2>1. ApprovedText'
    BY DEF SendPosted, IInv, TypeOK, ApprovedText
  <2>2. PostedTextWasApproved'
    BY <1>a, <1>b DEF SendPosted, IInv, TypeOK, PostedTextWasApproved
  <2>3. QED BY <2>1, <2>2
<1>5. (SentCopyWasPosted /\ SentRowWasPosted)'
  <2> SUFFICES ASSUME NEW b \in Actions
               PROVE  /\ mem'[b].status = "sent" =>
                           \E i \in 1..Len(posted'[b]) : posted'[b][i] = mem'[b].text
                      /\ db'[b].status = "sent" =>
                           \E i \in 1..Len(posted'[b]) : posted'[b][i] = db'[b].text
    BY DEF SentCopyWasPosted, SentRowWasPosted
  <2>1. CASE b # act[h]
    BY <2>1 DEF SendPosted, IInv, TypeOK, SentCopyWasPosted, SentRowWasPosted
  <2>2. CASE b = act[h]
    <3>1. db'[b].status # "sent"
      BY <1>a, <2>2 DEF SendPosted, IInv, RowNeverAhead, Lags, Earlier
    <3>2. /\ Len(posted'[b]) \in 1..Len(posted'[b])
          /\ posted'[b][Len(posted'[b])] = mem[b].text
      BY <1>b, <2>2
    <3>3. mem'[b].text = mem[b].text
      BY <1>a, <2>2 DEF SendPosted, IInv, TypeOK, Record
    <3>4. QED BY <3>1, <3>2, <3>3
  <2>3. QED BY <2>1, <2>2
<1>6. RowNeverAhead'
  BY <1>a DEF SendPosted, IInv, TypeOK, Record, RowNeverAhead, Lags, Earlier
<1>7. AuditMatchesRow'
  BY DEF SendPosted, IInv, TypeOK, AuditMatchesRow, Earlier
<1>8. QED
  BY <1>1, <1>2, <1>3, <1>4, <1>5, <1>6, <1>7 DEF IInv

\* A lost answer hands out the approved text and changes nothing else.
LEMMA SendUnknownKeeps ==
  ASSUME IInv, NEW h \in Handlers, SendUnknown(h)
  PROVE  IInv'
<1>a. /\ act[h] \in Actions
      /\ mem[act[h]].status = "approved"
      /\ mem[act[h]].text \in approvals[act[h]]
      /\ mem[act[h]].text \in Texts
  BY DEF SendUnknown, IInv, TypeOK, Engaged, Working, Mid, ApprovedText
<1>b. /\ posted' = [posted EXCEPT ![act[h]] = Append(@, mem[act[h]].text)]
      /\ posted'[act[h]] \in Seq(Texts)
      /\ Len(posted'[act[h]]) = Len(posted[act[h]]) + 1
      /\ \A i \in 1..Len(posted[act[h]]) : posted'[act[h]][i] = posted[act[h]][i]
      /\ posted'[act[h]][Len(posted[act[h]]) + 1] = mem[act[h]].text
      /\ Len(posted[act[h]]) \in Nat
  <2>1. posted' = [posted EXCEPT ![act[h]] = Append(@, mem[act[h]].text)]
    BY DEF SendUnknown
  <2>2. /\ posted[act[h]] \in Seq(Texts)
        /\ posted'[act[h]] = Append(posted[act[h]], mem[act[h]].text)
    BY <1>a, <2>1 DEF IInv, TypeOK
  <2>3. QED BY <1>a, <2>1, <2>2, Appending
<1>1. TypeOK'
  BY <1>a, <1>b
  DEF SendUnknown, Leave, Enter, IInv, TypeOK, Record, Statuses, Events, Stages
<1>2. (Serial /\ Engaged /\ Ready)'
  BY DEF SendUnknown, Leave, Enter, IInv, TypeOK, Serial, Holds, Engaged, Ready
<1>3. Working'
  BY DEF SendUnknown, Leave, Enter, IInv, TypeOK, Working, Mid, Serial,
         Engaged, Holds, Earlier, Absent
<1>4. (ApprovedText /\ PostedTextWasApproved)'
  <2>1. ApprovedText'
    BY DEF SendUnknown, Leave, Enter, IInv, TypeOK, ApprovedText
  <2>2. PostedTextWasApproved'
    BY <1>a, <1>b DEF SendUnknown, Leave, Enter, IInv, TypeOK,
        PostedTextWasApproved
  <2>3. QED BY <2>1, <2>2
<1>5. (SentCopyWasPosted /\ SentRowWasPosted)'
  <2> SUFFICES ASSUME NEW b \in Actions
               PROVE  /\ mem'[b].status = "sent" =>
                           \E i \in 1..Len(posted'[b]) : posted'[b][i] = mem'[b].text
                      /\ db'[b].status = "sent" =>
                           \E i \in 1..Len(posted'[b]) : posted'[b][i] = db'[b].text
    BY DEF SentCopyWasPosted, SentRowWasPosted
  <2>1. CASE b # act[h]
    BY <2>1 DEF SendUnknown, Leave, Enter, IInv, TypeOK, SentCopyWasPosted,
        SentRowWasPosted
  <2>2. CASE b = act[h]
    <3>1. db'[b].status # "sent"
      BY <1>a, <2>2 DEF SendUnknown, IInv, RowNeverAhead, Lags, Earlier
    <3>2. /\ Len(posted'[b]) \in 1..Len(posted'[b])
          /\ posted'[b][Len(posted'[b])] = mem[b].text
      BY <1>b, <2>2
    <3>3. mem'[b].text = mem[b].text
      BY <1>a, <2>2 DEF SendUnknown, IInv, TypeOK, Record
    <3>4. QED BY <3>1, <3>2, <3>3
  <2>3. QED BY <2>1, <2>2
<1>6. RowNeverAhead'
  BY DEF SendUnknown, Leave, Enter, IInv, TypeOK, RowNeverAhead, Lags, Earlier,
         Absent
<1>7. AuditMatchesRow'
  BY DEF SendUnknown, Leave, Enter, IInv, TypeOK, AuditMatchesRow, Earlier
<1>8. QED
  BY <1>1, <1>2, <1>3, <1>4, <1>5, <1>6, <1>7 DEF IInv

\* A failed post changes nothing in the queue.
LEMMA SendFailedKeeps ==
  ASSUME IInv, NEW h \in Handlers, SendFailed(h)
  PROVE  IInv'
<1>1. TypeOK'
  BY ConstantsOK DEF SendFailed, Leave, Enter, IInv, TypeOK, Record, Statuses,
         Events, Stages, Absent
<1>2. (Serial /\ Engaged /\ Ready)'
  BY DEF SendFailed, Leave, Enter, IInv, TypeOK, Serial, Holds, Engaged, Ready
<1>3. Working'
  BY DEF SendFailed, Leave, Enter, IInv, TypeOK, Working, Mid, Serial, Engaged,
         Holds, Earlier, Absent
<1>4. (ApprovedText /\ PostedTextWasApproved)'
  BY DEF SendFailed, Leave, Enter, IInv, TypeOK, ApprovedText, Absent,
         PostedTextWasApproved
<1>5. (SentCopyWasPosted /\ SentRowWasPosted)'
  BY DEF SendFailed, Leave, Enter, IInv, TypeOK, SentCopyWasPosted, Absent,
         SentRowWasPosted
<1>6. RowNeverAhead'
  BY DEF SendFailed, Leave, Enter, IInv, TypeOK, RowNeverAhead, Lags, Earlier,
         Absent
<1>7. AuditMatchesRow'
  BY DEF SendFailed, Leave, Enter, IInv, TypeOK, AuditMatchesRow, Earlier
<1>8. QED
  BY <1>1, <1>2, <1>3, <1>4, <1>5, <1>6, <1>7 DEF IInv

\* _persist brings the row up to the copy in memory.
LEMMA PersistKeeps ==
  ASSUME IInv, NEW h \in Handlers, Persist(h)
  PROVE  IInv'
<1>1. TypeOK'
  BY ConstantsOK DEF Persist, IInv, TypeOK, Record, Statuses, Events, Stages,
         Absent
<1>2. (Serial /\ Engaged /\ Ready)'
  BY DEF Persist, IInv, TypeOK, Serial, Holds, Engaged, Ready
<1>3. Working'
  <2> SUFFICES ASSUME NEW g \in Handlers PROVE Mid(g)'
    BY DEF Working
  <2>1. CASE g = h
    BY <2>1, ConstantsOK
    DEF Persist, IInv, TypeOK, Working, Mid, Serial, Engaged, Ready, Holds,
        Earlier, Absent, RowNeverAhead, Lags, AuditMatchesRow
  <2>2. CASE g # h
    BY <2>2
    DEF Persist, IInv, TypeOK, Working, Mid, Serial, Engaged, Ready, Holds
  <2>3. QED BY <2>1, <2>2
<1>4. (ApprovedText /\ PostedTextWasApproved)'
  BY DEF Persist, IInv, TypeOK, ApprovedText, Absent, PostedTextWasApproved
<1>5. (SentCopyWasPosted /\ SentRowWasPosted)'
  BY DEF Persist, IInv, TypeOK, SentCopyWasPosted, Absent, SentRowWasPosted
<1>6. RowNeverAhead'
  BY DEF Persist, IInv, TypeOK, RowNeverAhead, Lags, Earlier, Absent
<1>7. AuditMatchesRow'
  <2> SUFFICES ASSUME NEW b \in Actions
               PROVE  /\ \A i \in 1..Len(auditDb[b]) :
                           \/ auditDb[b][i] = db'[b].status
                           \/ Earlier(auditDb[b][i], db'[b].status)
                      /\ \A i, j \in 1..Len(auditDb[b]) :
                           i < j => Earlier(auditDb[b][i], auditDb[b][j])
    BY DEF AuditMatchesRow, Persist
  <2>1. \A i, j \in 1..Len(auditDb[b]) :
          i < j => Earlier(auditDb[b][i], auditDb[b][j])
    BY DEF IInv, AuditMatchesRow
  <2>2. ASSUME NEW i \in 1..Len(auditDb[b])
        PROVE  \/ auditDb[b][i] = db'[b].status
               \/ Earlier(auditDb[b][i], db'[b].status)
    <3>1. \/ auditDb[b][i] = db[b].status
          \/ Earlier(auditDb[b][i], db[b].status)
      BY DEF IInv, AuditMatchesRow
    <3>2. \/ db'[b] = db[b]
          \/ Earlier(db[b].status, db'[b].status)
      BY DEF Persist, IInv, TypeOK, Working, Mid
    <3>3. QED BY <3>1, <3>2 DEF Earlier
  <2>3. QED BY <2>1, <2>2
<1>8. QED
  BY <1>1, <1>2, <1>3, <1>4, <1>5, <1>6, <1>7 DEF IInv

\* A failing _persist leaves the row behind the copy.
LEMMA PersistFailsKeeps ==
  ASSUME IInv, NEW h \in Handlers, PersistFails(h)
  PROVE  IInv'
<1>1. TypeOK'
  BY ConstantsOK DEF PersistFails, Leave, Enter, IInv, TypeOK, Record,
         Statuses, Events, Stages, Absent
<1>2. (Serial /\ Engaged /\ Ready)'
  BY DEF PersistFails, Leave, Enter, IInv, TypeOK, Serial, Holds, Engaged,
         Ready
<1>3. Working'
  BY DEF PersistFails, Leave, Enter, IInv, TypeOK, Working, Mid, Serial,
         Engaged, Holds, Earlier, Absent
<1>4. (ApprovedText /\ PostedTextWasApproved)'
  BY DEF PersistFails, Leave, Enter, IInv, TypeOK, ApprovedText, Absent,
         PostedTextWasApproved
<1>5. (SentCopyWasPosted /\ SentRowWasPosted)'
  BY DEF PersistFails, Leave, Enter, IInv, TypeOK, SentCopyWasPosted, Absent,
         SentRowWasPosted
<1>6. RowNeverAhead'
  BY DEF PersistFails, Leave, Enter, IInv, TypeOK, RowNeverAhead, Lags,
         Earlier, Absent
<1>7. AuditMatchesRow'
  BY DEF PersistFails, Leave, Enter, IInv, TypeOK, AuditMatchesRow, Earlier
<1>8. QED
  BY <1>1, <1>2, <1>3, <1>4, <1>5, <1>6, <1>7 DEF IInv

\* _record_audit adds the stage the row has just reached.
LEMMA RecordAuditKeeps ==
  ASSUME IInv, NEW h \in Handlers, RecordAudit(h)
  PROVE  IInv'
<1>a. /\ act[h] \in Actions
      /\ op[h] \in Events
      /\ op[h] = db[act[h]].status
      /\ \A i \in 1..Len(auditDb[act[h]]) :
           Earlier(auditDb[act[h]][i], db[act[h]].status)
  BY DEF RecordAudit, IInv, TypeOK, Engaged, Working, Mid, Record, Statuses,
      Events
<1>b. /\ audit[act[h]] \in Seq(Events) /\ Append(audit[act[h]], op[h]) \in Seq(Events)
      /\ auditDb[act[h]] \in Seq(Events) /\ Append(auditDb[act[h]], op[h]) \in Seq(Events)
  BY <1>a, Appending DEF IInv, TypeOK
<1>c. /\ Len(auditDb'[act[h]]) = Len(auditDb[act[h]]) + 1
      /\ \A i \in 1..Len(auditDb[act[h]]) : auditDb'[act[h]][i] = auditDb[act[h]][i]
      /\ auditDb'[act[h]][Len(auditDb[act[h]]) + 1] = op[h]
      /\ Len(auditDb[act[h]]) \in Nat
  <2>1. auditDb'[act[h]] = Append(auditDb[act[h]], op[h])
    BY <1>a DEF RecordAudit, IInv, TypeOK
  <2>2. QED BY <1>a, <1>b, <2>1, Appending
<1>1. TypeOK'
  BY <1>a, <1>b DEF RecordAudit, Leave, Enter, IInv, TypeOK, Stages
<1>2. (Serial /\ Engaged /\ Ready)'
  BY DEF RecordAudit, Leave, Enter, IInv, TypeOK, Serial, Holds, Engaged, Ready
<1>3. Working'
  BY DEF RecordAudit, Leave, Enter, IInv, TypeOK, Working, Mid, Serial,
         Engaged, Holds, Earlier, Absent
<1>4. (ApprovedText /\ PostedTextWasApproved)'
  BY DEF RecordAudit, Leave, Enter, IInv, TypeOK, ApprovedText, Absent,
         PostedTextWasApproved
<1>5. (SentCopyWasPosted /\ SentRowWasPosted)'
  BY DEF RecordAudit, Leave, Enter, IInv, TypeOK, SentCopyWasPosted, Absent,
         SentRowWasPosted
<1>6. RowNeverAhead'
  BY DEF RecordAudit, Leave, Enter, IInv, TypeOK, RowNeverAhead, Lags, Earlier,
         Absent
<1>7. AuditMatchesRow'
  <2> SUFFICES ASSUME NEW b \in Actions
               PROVE  /\ \A i \in 1..Len(auditDb'[b]) :
                           \/ auditDb'[b][i] = db'[b].status
                           \/ Earlier(auditDb'[b][i], db'[b].status)
                      /\ \A i, j \in 1..Len(auditDb'[b]) :
                           i < j => Earlier(auditDb'[b][i], auditDb'[b][j])
    BY DEF AuditMatchesRow
  <2>1. CASE b # act[h]
    BY <2>1 DEF RecordAudit, IInv, TypeOK, AuditMatchesRow
  <2>2. CASE b = act[h]
    <3>1. db'[b] = db[b]
      BY DEF RecordAudit
    <3>2. ASSUME NEW i \in 1..Len(auditDb'[b])
          PROVE  \/ auditDb'[b][i] = db'[b].status
                 \/ Earlier(auditDb'[b][i], db'[b].status)
      BY <1>a, <1>c, <2>2, <3>1
    <3>3. ASSUME NEW i \in 1..Len(auditDb'[b]), NEW j \in 1..Len(auditDb'[b]), i < j
          PROVE  Earlier(auditDb'[b][i], auditDb'[b][j])
      BY <1>a, <1>c, <2>2, <3>3 DEF IInv, AuditMatchesRow
    <3>4. QED BY <3>2, <3>3
  <2>3. QED BY <2>1, <2>2
<1>8. QED
  BY <1>1, <1>2, <1>3, <1>4, <1>5, <1>6, <1>7 DEF IInv

\* A failing _record_audit leaves the table behind the list.
LEMMA RecordAuditFailsKeeps ==
  ASSUME IInv, NEW h \in Handlers, RecordAuditFails(h)
  PROVE  IInv'
<1>a. act[h] \in Actions /\ op[h] \in Events
  BY DEF RecordAuditFails, IInv, TypeOK, Engaged, Working, Mid, Record,
      Statuses, Events,
         Earlier
<1>b. audit[act[h]] \in Seq(Events) /\ Append(audit[act[h]], op[h]) \in Seq(Events)
  BY <1>a, Appending DEF IInv, TypeOK
<1>1. TypeOK'
  BY <1>a, <1>b DEF RecordAuditFails, Leave, Enter, IInv, TypeOK, Stages
<1>2. (Serial /\ Engaged /\ Ready)'
  BY DEF RecordAuditFails, Leave, Enter, IInv, TypeOK, Serial, Holds, Engaged,
         Ready
<1>3. Working'
  BY DEF RecordAuditFails, Leave, Enter, IInv, TypeOK, Working, Mid, Serial,
         Engaged, Holds, Earlier, Absent
<1>4. (ApprovedText /\ PostedTextWasApproved)'
  BY DEF RecordAuditFails, Leave, Enter, IInv, TypeOK, ApprovedText, Absent,
         PostedTextWasApproved
<1>5. (SentCopyWasPosted /\ SentRowWasPosted)'
  BY DEF RecordAuditFails, Leave, Enter, IInv, TypeOK, SentCopyWasPosted,
         Absent, SentRowWasPosted
<1>6. RowNeverAhead'
  BY DEF RecordAuditFails, Leave, Enter, IInv, TypeOK, RowNeverAhead, Lags,
         Earlier, Absent
<1>7. AuditMatchesRow'
  BY DEF RecordAuditFails, Leave, Enter, IInv, TypeOK, AuditMatchesRow, Earlier
<1>8. QED
  BY <1>1, <1>2, <1>3, <1>4, <1>5, <1>6, <1>7 DEF IInv

\* Installing or revoking a sender does not touch the queue.
LEMMA ChangeSenderKeeps ==
  ASSUME IInv, ChangeSender
  PROVE  IInv'
<1>1. TypeOK'
  BY ConstantsOK DEF ChangeSender, IInv, TypeOK, Record, Statuses, Events,
         Stages, Absent
<1>2. (Serial /\ Engaged /\ Ready)'
  BY DEF ChangeSender, IInv, TypeOK, Serial, Holds, Engaged, Ready
<1>3. Working'
  BY DEF ChangeSender, IInv, TypeOK, Working, Mid, Serial, Engaged, Holds,
         Earlier, Absent
<1>4. (ApprovedText /\ PostedTextWasApproved)'
  BY DEF ChangeSender, IInv, TypeOK, ApprovedText, Absent,
         PostedTextWasApproved
<1>5. (SentCopyWasPosted /\ SentRowWasPosted)'
  BY DEF ChangeSender, IInv, TypeOK, SentCopyWasPosted, Absent,
         SentRowWasPosted
<1>6. RowNeverAhead'
  BY DEF ChangeSender, IInv, TypeOK, RowNeverAhead, Lags, Earlier, Absent
<1>7. AuditMatchesRow'
  BY DEF ChangeSender, IInv, TypeOK, AuditMatchesRow, Earlier
<1>8. QED
  BY <1>1, <1>2, <1>3, <1>4, <1>5, <1>6, <1>7 DEF IInv

\* A restart (_load) sets the memory copy back to the rows.
LEMMA CrashKeeps ==
  ASSUME IInv, Crash
  PROVE  IInv'
<1>1. TypeOK'
  BY ConstantsOK DEF Crash, IInv, TypeOK, Record, Statuses, Events, Stages,
         Absent
<1>2. (Serial /\ Engaged /\ Ready)'
  BY DEF Crash, IInv, TypeOK, Serial, Holds, Engaged, Ready
<1>3. Working'
  BY DEF Crash, IInv, TypeOK, Working, Mid, Serial, Engaged, Holds, Earlier,
         Absent
<1>4. (ApprovedText /\ PostedTextWasApproved)'
  BY DEF Crash, IInv, TypeOK, ApprovedText, Absent, PostedTextWasApproved
<1>5. (SentCopyWasPosted /\ SentRowWasPosted)'
  BY DEF Crash, IInv, TypeOK, SentCopyWasPosted, Absent, SentRowWasPosted
<1>6. RowNeverAhead'
  BY DEF Crash, IInv, TypeOK, RowNeverAhead, Lags, Earlier, Absent
<1>7. AuditMatchesRow'
  BY DEF Crash, IInv, TypeOK, AuditMatchesRow, Earlier
<1>8. QED
  BY <1>1, <1>2, <1>3, <1>4, <1>5, <1>6, <1>7 DEF IInv

-----------------------------------------------------------------------------
(* The theorems.                                                           *)

\* The invariant holds initially.
LEMMA InitIInv == Init => IInv
  BY ConstantsOK
  DEF Init, IInv, TypeOK, Serial, Engaged, Ready, Working, Mid, ApprovedText,
      SentCopyWasPosted, PostedTextWasApproved, RowNeverAhead, SentRowWasPosted,
      AuditMatchesRow, Lags, Holds, Record, Statuses, Events, Stages, Absent

\* Every step, stuttering included, keeps the invariant.
LEMMA NextIInv == IInv /\ [Next]_vars => IInv'
<1> SUFFICES ASSUME IInv, [Next]_vars PROVE IInv'
  OBVIOUS
<1>1. ASSUME NEW h \in Handlers, NEW a \in Actions, NEW t \in Texts, Propose(h, a, t)
      PROVE  IInv'
  BY <1>1, ProposeKeeps
<1>2. ASSUME NEW h \in Handlers, NEW a \in Actions, NEW t \in Texts, Approve(h, a, t)
      PROVE  IInv'
  BY <1>2, ApproveKeeps
<1>3. ASSUME NEW h \in Handlers, NEW a \in Actions, Reject(h, a) \/ SendLookup(h, a)
      PROVE  IInv'
  BY <1>3, RejectKeeps, SendLookupKeeps
<1>4. ASSUME NEW h \in Handlers,
             \/ SendStart(h) \/ SendRefused(h)
             \/ SendPosted(h) \/ SendUnknown(h) \/ SendFailed(h)
      PROVE  IInv'
  BY <1>4, SendStartKeeps, SendRefusedKeeps, SendPostedKeeps, SendUnknownKeeps,
     SendFailedKeeps
<1>5. ASSUME NEW h \in Handlers,
             \/ Persist(h) \/ PersistFails(h)
             \/ RecordAudit(h) \/ RecordAuditFails(h)
      PROVE  IInv'
  BY <1>5, PersistKeeps, PersistFailsKeeps, RecordAuditKeeps, RecordAuditFailsKeeps
<1>6. CASE ChangeSender \/ Crash
  BY <1>6, ChangeSenderKeeps, CrashKeeps
<1>7. CASE UNCHANGED vars
  BY <1>7
  DEF vars, IInv, TypeOK, Serial, Engaged, Ready, Working, Mid, ApprovedText,
      SentCopyWasPosted, PostedTextWasApproved, RowNeverAhead, SentRowWasPosted,
      AuditMatchesRow, Holds
<1>8. QED
  BY <1>1, <1>2, <1>3, <1>4, <1>5, <1>6, <1>7 DEF Next

\* The invariant holds in every reachable state.
THEOREM Invariance == Spec => []IInv
  BY InitIInv, NextIInv, PTL DEF Spec

\* Every variable keeps its type, whatever fails (the state of
\* OutboundActionService and of its two tables).
THEOREM TypeCorrect == Spec => []TypeOK
<1>1. IInv => TypeOK
  BY DEF IInv
<1>2. QED BY <1>1, Invariance, PTL

\* Only approved texts reach a platform (approve and send).
THEOREM OnlyApprovedTextsArePosted == Spec => []PostedTextWasApproved
<1>1. IInv => PostedTextWasApproved
  BY DEF IInv
<1>2. QED BY <1>1, Invariance, PTL

\* The rows never run ahead of the memory copy (_persist).
THEOREM RowsNeverRunAhead == Spec => []RowNeverAhead
<1>1. IInv => RowNeverAhead
  BY DEF IInv
<1>2. QED BY <1>1, Invariance, PTL

\* A row that says sent was posted (send).
THEOREM SentRowsWerePosted == Spec => []SentRowWasPosted
<1>1. IInv => SentRowWasPosted
  BY DEF IInv
<1>2. QED BY <1>1, Invariance, PTL

\* The audit table never contradicts the rows (_persist, then _record_audit).
THEOREM AuditNeverContradicts == Spec => []AuditMatchesRow
<1>1. IInv => AuditMatchesRow
  BY DEF IInv
<1>2. QED BY <1>1, Invariance, PTL

\* What is sent or rejected stays so, and nothing more of it is posted (send's
\* second status check; ADR 005).
THEOREM ClosedActionsStayClosed == Spec => ClosedStaysClosed
<1>1. ASSUME IInv, Next, NEW a \in Actions
      PROVE  KeepsClosed(a)
  <2>1. ASSUME NEW h \in Handlers, SendPosted(h) \/ SendUnknown(h)
        PROVE  KeepsClosed(a)
    <3>1. act[h] \in Actions /\ mem[act[h]].status = "approved"
      BY <1>1, <2>1 DEF SendPosted, SendUnknown, IInv, Engaged, Working, Mid
    <3>2. db[act[h]].status \notin {"sent", "rejected"}
      BY <1>1, <3>1 DEF IInv, RowNeverAhead, Lags, Earlier
    <3>3. db' = db /\ (a # act[h] => posted'[a] = posted[a])
      BY <1>1, <2>1, <3>1 DEF SendPosted, SendUnknown, IInv, TypeOK
    <3>4. QED BY <3>1, <3>2, <3>3 DEF KeepsClosed
  <2>2. ASSUME NEW h \in Handlers, Persist(h)
        PROVE  KeepsClosed(a)
    <3>1. posted' = posted /\ (a # act[h] => db'[a] = db[a])
      BY <1>1, <2>2 DEF Persist, IInv, TypeOK
    <3>2. act[h] \in Actions /\ db[act[h]].status \notin {"sent", "rejected"}
      BY <1>1, <2>2 DEF Persist, IInv, Engaged, Working, Mid, Earlier
    <3>3. QED BY <3>1, <3>2 DEF KeepsClosed
  <2>3. CASE db' = db /\ posted' = posted
    BY <2>3 DEF KeepsClosed
  <2>4. \/ db' = db /\ posted' = posted
        \/ \E h \in Handlers : SendPosted(h) \/ SendUnknown(h) \/ Persist(h)
    BY <1>1
    DEF Next, Propose, Approve, Reject, SendLookup, SendStart, SendRefused,
        SendFailed, PersistFails, RecordAudit, RecordAuditFails, ChangeSender, Crash
  <2>5. QED BY <2>1, <2>2, <2>3, <2>4
<1>2. IInv /\ [Next]_vars => [\A a \in Actions : KeepsClosed(a)]_vars
  BY <1>1
<1>3. QED
  BY <1>2, Invariance, PTL DEF Spec, ClosedStaysClosed

\* The queue implements OutboundApproval, whatever fails (OutboundActionService).
THEOREM Implementation == Spec => ImplementsApproval
<1> USE DEF OutcomeBar
<1>1. Init => Approval!Init
  BY DEF Init, Approval!Init, Absent
<1>2. ASSUME IInv, [Next]_vars
      PROVE  [Approval!Next]_(Approval!vars)
  <2>1. ASSUME NEW h \in Handlers, NEW a \in Actions, NEW t \in Texts, Approve(h, a, t)
        PROVE  Approval!Approve(a, t)
    <3>1. db[a].status \notin {"sent", "rejected"}
      BY <1>2, <2>1 DEF Approve, IInv, RowNeverAhead, Lags, Earlier
    <3>2. QED BY <2>1, <3>1 DEF Approve, Approval!Approve
  <2>2. ASSUME NEW h \in Handlers, SendPosted(h) \/ SendUnknown(h)
        PROVE  \E a \in Actions, t \in Texts : Approval!Post(a, t)
    <3>1. /\ act[h] \in Actions
          /\ mem[act[h]].status = "approved"
          /\ mem[act[h]].text \in approvals[act[h]]
          /\ mem[act[h]].text \in Texts
      BY <1>2, <2>2
      DEF SendPosted, SendUnknown, IInv, TypeOK, Engaged, Working, Mid,
          ApprovedText
    <3>2. db[act[h]].status \notin {"sent", "rejected"}
      BY <1>2, <3>1 DEF IInv, RowNeverAhead, Lags, Earlier
    <3>3. Approval!Post(act[h], mem[act[h]].text)
      BY <2>2, <3>1, <3>2 DEF SendPosted, SendUnknown, Approval!Post
    <3>4. QED BY <3>1, <3>3
  <2>3. ASSUME NEW h \in Handlers, Persist(h)
        PROVE  [Approval!Next]_(Approval!vars)
    <3>1. PICK a \in Actions : a = act[h]
      BY <1>2, <2>3 DEF Persist, IInv, Engaged
    <3>2. /\ Earlier(db[a].status, mem[a].status)
          /\ mem[a].status \in Statuses
          /\ db' = [db EXCEPT ![a] = mem[a]]
          /\ approvals' = approvals /\ posted' = posted
          /\ db \in [Actions -> Record]
      BY <1>2, <2>3, <3>1 DEF Persist, IInv, TypeOK, Working, Mid, Record
    <3>3. db[a].status \notin {"sent", "rejected"}
      BY <3>2 DEF Earlier
    <3>4. CASE mem[a].status = "sent"
      <4>1. posted[a] # <<>>
        BY <1>2, <3>4 DEF IInv, TypeOK, SentCopyWasPosted
      <4>2. Approval!RecordSent(a)
        BY <3>2, <3>3, <3>4, <4>1 DEF Approval!RecordSent
      <4>3. QED BY <4>2 DEF Approval!Next
    <3>5. CASE mem[a].status = "rejected"
      <4>1. Approval!RecordRejected(a)
        BY <3>2, <3>3, <3>5 DEF Approval!RecordRejected
      <4>2. QED BY <4>1 DEF Approval!Next
    <3>6. CASE mem[a].status \notin {"sent", "rejected"}
      <4>1. OutcomeBar' = OutcomeBar
        BY <3>2, <3>3, <3>6
      <4>2. QED BY <3>2, <4>1 DEF Approval!vars
    <3>7. QED BY <3>4, <3>5, <3>6
  <2>4. CASE db' = db /\ posted' = posted /\ approvals' = approvals
    BY <2>4 DEF Approval!vars
  <2>5. \/ db' = db /\ posted' = posted /\ approvals' = approvals
        \/ \E h \in Handlers :
             \/ \E a \in Actions, t \in Texts : Approve(h, a, t)
             \/ SendPosted(h) \/ SendUnknown(h) \/ Persist(h)
    BY <1>2
    DEF Next, vars, Propose, Reject, SendLookup, SendStart, SendRefused,
        SendFailed, PersistFails, RecordAudit, RecordAuditFails, ChangeSender, Crash
  <2>6. QED BY <2>1, <2>2, <2>3, <2>4, <2>5 DEF Approval!Next
<1>3. QED
  BY <1>1, <1>2, Invariance, PTL DEF Spec, ImplementsApproval, Approval!Spec

=============================================================================

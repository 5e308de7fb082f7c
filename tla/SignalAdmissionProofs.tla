------------------------ MODULE SignalAdmissionProofs ------------------------
(***************************************************************************)
(* Proofs for SignalAdmission: for any number of producers, events and     *)
(* rows, with any loss of answers and any archival.                        *)
(***************************************************************************)
EXTENDS SignalAdmission, TLAPS

\* What Append does to admissions: the old ones stay, the new one is last.
LEMMA AppendAdmission ==
    ASSUME NEW s \in Seq(Row), NEW row \in Row
    PROVE  /\ Append(s, row) \in Seq(Row)
           /\ Len(Append(s, row)) = Len(s) + 1
           /\ \A i \in 1 .. Len(s) : Append(s, row)[i] = s[i]
           /\ Append(s, row)[Len(s) + 1] = row
           /\ \A i \in 1 .. Len(s) : s[i] \in Row
  OBVIOUS

\* The initial states satisfy the invariant: nothing was admitted or answered.
LEMMA AdmissionInit == Init => AdmissionInv
<1>. SUFFICES ASSUME Init PROVE AdmissionInv
  OBVIOUS
<1>1. \A p \in Producer : producer[p].phase = "idle"
  BY DEF Init
<1>2. admitted = <<>> /\ Len(admitted) = 0 /\ admitted \in Seq(Row)
  BY DEF Init
<1>3. SignalTypeOK
  <2>1. producer \in [Producer -> ProducerState \cup {[phase |-> "idle"]}]
    BY DEF Init
  <2>2. now \in Time
    BY AdmissionTypes DEF Init, Time
  <2>. QED BY <1>2, <2>1, <2>2 DEF Init, SignalTypeOK
<1>4. ReceiptsMatch /\ EventAdmittedOnce
  BY <1>2 DEF Init, ReceiptsMatch, EventAdmittedOnce
<1>5. VerdictsAreCurrent /\ AcceptedWasAdmitted /\ RefusalIsJustified
  BY <1>1 DEF VerdictsAreCurrent, AcceptedWasAdmitted, RefusalIsJustified
<1>. QED BY <1>3, <1>4, <1>5 DEF AdmissionInv

\* A step that leaves receipts, admissions and the producers alone, and the
\* lock, keeps the invariant if the rest keeps its type.
LEMMA AsideStep ==
    ASSUME AdmissionInv,
           history' \subseteq Row, batch' \subseteq Row, final' \in BOOLEAN, now' \in Time,
           UNCHANGED <<producer, lock, receipt, admitted>>
    PROVE  AdmissionInv'
  BY DEF AdmissionInv, SignalTypeOK, ReceiptsMatch, EventAdmittedOnce, VerdictsAreCurrent,
     AcceptedWasAdmitted, RefusalIsJustified, Admitted, Verdict

\* A step of one producer that admits nothing keeps the invariant, if what the
\* producer then holds is justified.
LEMMA ProducerStep ==
    ASSUME AdmissionInv, NEW p \in Producer, NEW s \in ProducerState,
           producer' = [producer EXCEPT ![p] = s],
           lock' \in Producer \cup {NoProducer},
           \A q \in Producer \ {p} : producer[q].phase = "locked" => lock' = q,
           s.phase = "locked" => lock' = p /\ s.verdict = Verdict(s.command),
           s.phase = "accepted" => Admitted(s.command),
           s.phase = "refused" =>
               \/ s.command.content \notin Declared
               \/ s.command.event \in Malformed
               \/ \E i \in 1 .. Len(admitted) :
                     admitted[i].event = s.command.event /\ admitted[i].content # s.command.content,
           UNCHANGED <<receipt, history, admitted, batch, final, now>>
    PROVE  AdmissionInv'
<1>. USE DEF AdmissionInv
<1>1. SignalTypeOK'
  BY DEF SignalTypeOK
<1>2. ReceiptsMatch' /\ EventAdmittedOnce'
  BY DEF ReceiptsMatch, EventAdmittedOnce, Admitted
<1>3. \A q \in Producer : producer'[q] = IF q = p THEN s ELSE producer[q]
  BY DEF SignalTypeOK
<1>4. VerdictsAreCurrent'
  BY <1>3 DEF VerdictsAreCurrent, Verdict
<1>5. AcceptedWasAdmitted'
  BY <1>3 DEF AcceptedWasAdmitted, Admitted
<1>6. RefusalIsJustified'
  BY <1>3 DEF RefusalIsJustified
<1>. QED BY <1>1, <1>2, <1>4, <1>5, <1>6

\* A transaction that ends frees the lock of its producer only.
LEMMA ReleaseStep ==
    ASSUME AdmissionInv, NEW p \in Producer, Release(p)
    PROVE  /\ lock' \in Producer \cup {NoProducer}
           /\ \A q \in Producer \ {p} : producer[q].phase = "locked" => lock' = q
  BY AdmissionTypes DEF AdmissionInv, SignalTypeOK, VerdictsAreCurrent, Release

\* A producer with an open transaction has a typed state.
LEMMA OpenProducer ==
    ASSUME SignalTypeOK, NEW p \in Producer, producer[p].phase # "idle"
    PROVE  producer[p] \in ProducerState
  BY DEF SignalTypeOK

\* BEGIN, or a refusal of a signal nothing declares.
LEMMA BeginStep ==
    ASSUME AdmissionInv, NEW p \in Producer, NEW k \in Command, Begin(p, k)
    PROVE  AdmissionInv'
<1>. DEFINE s == IF k.content \in Declared
                 THEN [phase |-> "begun", command |-> k, at |-> now, verdict |-> "unread"]
                 ELSE [phase |-> "refused", command |-> k, at |-> now, verdict |-> "unread"]
<1>1. s \in ProducerState
  BY DEF AdmissionInv, SignalTypeOK, ProducerState, Phases, Verdicts
<1>2. lock' \in Producer \cup {NoProducer} /\ lock' = lock
  BY DEF Begin, AdmissionInv, SignalTypeOK
<1>3. \A q \in Producer \ {p} : producer[q].phase = "locked" => lock' = q
  BY <1>2 DEF AdmissionInv, VerdictsAreCurrent
<1>4. s.phase = "refused" => s.command.content \notin Declared
  OBVIOUS
<1>5. s.phase # "locked" /\ s.phase # "accepted"
  OBVIOUS
<1>6. producer' = [producer EXCEPT ![p] = s]
  BY DEF Begin
<1>7. UNCHANGED <<receipt, history, admitted, batch, final, now>>
  BY DEF Begin
<1>. HIDE DEF s
<1>. QED BY <1>1, <1>2, <1>3, <1>4, <1>5, <1>6, <1>7, ProducerStep

\* The verdict of any command has its type.
LEMMA VerdictType == \A k : Verdict(k) \in Verdicts
  BY DEF Verdict, Verdicts

\* SELECT ... FOR UPDATE of a free instance row, and the receipt.
LEMMA LockStep ==
    ASSUME AdmissionInv, NEW p \in Producer, LockAndRead(p)
    PROVE  AdmissionInv'
<1>. DEFINE s == [producer[p] EXCEPT !.phase = "locked", !.verdict = Verdict(producer[p].command)]
<1>1. producer[p] \in ProducerState
  BY OpenProducer DEF LockAndRead, AdmissionInv
<1>2. s \in ProducerState
  BY <1>1, VerdictType DEF ProducerState, Phases
<1>3. lock' = p /\ lock = NoProducer
  BY DEF LockAndRead
<1>4. \A q \in Producer : producer[q].phase # "locked"
  BY <1>3, AdmissionTypes DEF AdmissionInv, VerdictsAreCurrent
<1>5. s.phase = "locked" /\ s.verdict = Verdict(s.command)
  BY <1>1 DEF ProducerState
<1>6. producer' = [producer EXCEPT ![p] = s]
  BY <1>1 DEF LockAndRead, ProducerState, AdmissionInv, SignalTypeOK
<1>7. UNCHANGED <<receipt, history, admitted, batch, final, now>>
  BY DEF LockAndRead
<1>. HIDE DEF s
<1>. QED BY <1>2, <1>3, <1>4, <1>5, <1>6, <1>7, ProducerStep

\* A duplicate is answered with success, or its answer is lost: the receipt
\* shows that this very signal was admitted.
LEMMA DuplicateStep ==
    ASSUME AdmissionInv, NEW p \in Producer, SkipDuplicate(p)
    PROVE  AdmissionInv'
<1>1. PICK answer \in {"accepted", "unanswered"} :
          producer' = [producer EXCEPT ![p].phase = answer]
  BY DEF SkipDuplicate
<1>. DEFINE s == [producer[p] EXCEPT !.phase = answer]
<1>2. producer[p] \in ProducerState
  BY OpenProducer DEF SkipDuplicate, AdmissionInv
<1>3. s \in ProducerState /\ s.phase = answer /\ s.command = producer[p].command
  BY <1>2 DEF ProducerState, Phases
<1>4. Verdict(producer[p].command) = "duplicate"
  BY DEF SkipDuplicate, AdmissionInv, VerdictsAreCurrent
<1>5. [event |-> producer[p].command.event, content |-> producer[p].command.content] \in receipt
  BY <1>4 DEF Verdict
<1>6. Admitted(s.command)
  BY <1>3, <1>5 DEF AdmissionInv, ReceiptsMatch, Admitted
<1>7. producer' = [producer EXCEPT ![p] = s]
  BY <1>1
<1>8. UNCHANGED <<receipt, history, admitted, batch, final, now>> /\ Release(p)
  BY DEF SkipDuplicate
<1>. HIDE DEF s
<1>. QED BY <1>3, <1>6, <1>7, <1>8, ReleaseStep, ProducerStep

\* A refusal shows a malformed identity or an admission with another content:
\* the primary key itself never refuses, for the verdict is current.
LEMMA RefuseStep ==
    ASSUME AdmissionInv, NEW p \in Producer, Refuse(p)
    PROVE  AdmissionInv'
<1>. DEFINE s == [producer[p] EXCEPT !.phase = "refused"]
            k == producer[p].command
<1>1. producer[p] \in ProducerState
  BY OpenProducer DEF Refuse, AdmissionInv
<1>2. s \in ProducerState /\ s.phase = "refused" /\ s.command = k
  BY <1>1 DEF ProducerState, Phases
<1>3. producer[p].verdict = Verdict(k)
  BY DEF Refuse, AdmissionInv, VerdictsAreCurrent
<1>4. ~(Verdict(k) = "new" /\ ~InsertsReceipt(k))
  BY DEF Verdict, InsertsReceipt
<1>5. \/ k.content \notin Declared
      \/ k.event \in Malformed
      \/ \E i \in 1 .. Len(admitted) : admitted[i].event = k.event /\ admitted[i].content # k.content
  <2>1. Verdict(k) \in {"conflict", "malformed"} \/ (Verdict(k) = "new" /\ ~InsertsReceipt(k))
    BY <1>3 DEF Refuse, Refused
  <2>2. CASE Verdict(k) = "malformed"
    BY <2>2 DEF Verdict
  <2>3. CASE Verdict(k) = "conflict"
    <3>1. PICK r \in receipt : r.event = k.event /\ [event |-> k.event, content |-> k.content] \notin receipt
      BY <2>3 DEF Verdict
    <3>2. r \in Receipt
      BY DEF AdmissionInv, SignalTypeOK
    <3>3. r.content # k.content
      BY <3>1, <3>2 DEF Receipt
    <3>4. PICK i \in 1 .. Len(admitted) : admitted[i].event = r.event /\ admitted[i].content = r.content
      BY <3>1 DEF AdmissionInv, ReceiptsMatch, Admitted
    <3>. QED BY <3>1, <3>3, <3>4
  <2>. QED BY <1>4, <2>1, <2>2, <2>3
<1>6. producer' = [producer EXCEPT ![p] = s]
  BY DEF Refuse
<1>7. UNCHANGED <<receipt, history, admitted, batch, final, now>> /\ Release(p)
  BY DEF Refuse
<1>. HIDE DEF s
<1>. QED BY <1>2, <1>5, <1>6, <1>7, ReleaseStep, ProducerStep

\* A transaction that rolls back leaves its producer without an answer.
LEMMA RollBackStep ==
    ASSUME AdmissionInv, NEW p \in Producer, RollBack(p)
    PROVE  AdmissionInv'
<1>. DEFINE s == [producer[p] EXCEPT !.phase = "unanswered"]
<1>1. producer[p] \in ProducerState
  BY OpenProducer DEF RollBack, AdmissionInv
<1>2. s \in ProducerState /\ s.phase = "unanswered"
  BY <1>1 DEF ProducerState, Phases
<1>3. producer' = [producer EXCEPT ![p] = s]
  BY DEF RollBack
<1>4. UNCHANGED <<receipt, history, admitted, batch, final, now>> /\ Release(p)
  BY DEF RollBack
<1>. HIDE DEF s
<1>. QED BY <1>2, <1>3, <1>4, ReleaseStep, ProducerStep
\* An admission keeps the invariant: its event had no receipt, and no other
\* transaction read receipts while it held the instance.
LEMMA AdmitStep ==
    ASSUME AdmissionInv, NEW p \in Producer, Admit(p)
    PROVE  AdmissionInv'
<1>. DEFINE k == producer[p].command
            n == Len(admitted)
<1>1. PICK u \in FreshUuid :
        LET row == [uuid |-> u, at |-> producer[p].at, event |-> k.event, content |-> k.content]
        IN  history' = history \cup {row} /\ admitted' = Append(admitted, row)
  BY DEF Admit
<1>2. PICK answer \in {"accepted", "unanswered"} :
          producer' = [producer EXCEPT ![p].phase = answer]
  BY DEF Admit
<1>. DEFINE row == [uuid |-> u, at |-> producer[p].at, event |-> k.event, content |-> k.content]
            s == [producer[p] EXCEPT !.phase = answer]
<1>3. producer[p] \in ProducerState
  BY OpenProducer DEF Admit, AdmissionInv
<1>4. row \in Row
  BY <1>3 DEF ProducerState, Command, Row, FreshUuid
<1>5. admitted \in Seq(Row) /\ n \in Nat
  BY DEF AdmissionInv, SignalTypeOK
<1>6. /\ admitted' \in Seq(Row)
      /\ Len(admitted') = n + 1
      /\ \A i \in 1 .. n : admitted'[i] = admitted[i]
      /\ admitted'[n + 1] = row
  BY <1>1, <1>4, <1>5, AppendAdmission
<1>7. row.event = k.event /\ row.content = k.content
  OBVIOUS
<1>8. s \in ProducerState /\ s.phase = answer /\ s.command = k
  BY <1>3 DEF ProducerState, Phases
<1>9. \A q \in Producer : producer'[q] = IF q = p THEN s ELSE producer[q]
  BY <1>2 DEF AdmissionInv, SignalTypeOK
<1>10. lock = p /\ \A q \in Producer \ {p} : producer[q].phase # "locked"
  BY DEF Admit, AdmissionInv, VerdictsAreCurrent
<1>11. k.event # NoEvent => k.event \in EventId
  BY <1>3 DEF ProducerState, Command
<1>12. InsertsReceipt(k) /\ receipt' = ReceiptsWith(k)
  BY DEF Admit
<1>. HIDE DEF row, s
<1>13. SignalTypeOK'
  <2>1. producer' \in [Producer -> ProducerState \cup {[phase |-> "idle"]}]
    BY <1>2, <1>8 DEF s, AdmissionInv, SignalTypeOK
  <2>2. lock' \in Producer \cup {NoProducer}
    BY DEF Admit, Release, AdmissionInv, SignalTypeOK
  <2>3. receipt' \subseteq Receipt
    BY <1>3, <1>11, <1>12 DEF ReceiptsWith, Receipt, ProducerState, Command, AdmissionInv, SignalTypeOK
  <2>4. history' \subseteq Row
    BY <1>1, <1>4 DEF row, AdmissionInv, SignalTypeOK
  <2>. QED BY <1>6, <2>1, <2>2, <2>3, <2>4 DEF Admit, AdmissionInv, SignalTypeOK
<1>14. ReceiptsMatch'
  <2>1. \A r, t \in receipt' : r.event = t.event => r = t
    BY <1>12 DEF ReceiptsWith, InsertsReceipt, AdmissionInv, ReceiptsMatch
  <2>2. \A i \in 1 .. Len(admitted') : admitted'[i].event # NoEvent =>
          [event |-> admitted'[i].event, content |-> admitted'[i].content] \in receipt'
    BY <1>5, <1>6, <1>7, <1>12 DEF ReceiptsWith, AdmissionInv, ReceiptsMatch
  <2>3. \A r \in receipt' : Admitted(r)'
    BY <1>5, <1>6, <1>7, <1>12 DEF ReceiptsWith, Admitted, AdmissionInv, ReceiptsMatch
  <2>. QED BY <2>1, <2>2, <2>3 DEF ReceiptsMatch
<1>15. EventAdmittedOnce'
  <2>1. \A i \in 1 .. n : admitted[i].event = k.event => k.event = NoEvent
    <3>. SUFFICES ASSUME NEW i \in 1 .. n, admitted[i].event = k.event, k.event # NoEvent
                  PROVE FALSE
      OBVIOUS
    <3>1. [event |-> admitted[i].event, content |-> admitted[i].content] \in receipt
      BY DEF AdmissionInv, ReceiptsMatch
    <3>. QED BY <1>12, <3>1 DEF InsertsReceipt
  <2>. QED BY <1>5, <1>6, <1>7, <2>1 DEF AdmissionInv, EventAdmittedOnce
<1>16. VerdictsAreCurrent'
  BY <1>8, <1>9, <1>10 DEF VerdictsAreCurrent
<1>17. AcceptedWasAdmitted'
  BY <1>5, <1>6, <1>7, <1>8, <1>9 DEF AdmissionInv, AcceptedWasAdmitted, Admitted
<1>18. RefusalIsJustified'
  BY <1>5, <1>6, <1>8, <1>9 DEF AdmissionInv, RefusalIsJustified
<1>. QED BY <1>13, <1>14, <1>15, <1>16, <1>17, <1>18 DEF AdmissionInv

\* Every step keeps the invariant.
LEMMA AdmissionNext == AdmissionInv /\ [Next]_vars => AdmissionInv'
<1>. SUFFICES ASSUME AdmissionInv, [Next]_vars PROVE AdmissionInv'
  OBVIOUS
<1>1. CASE UNCHANGED vars
  BY <1>1, AsideStep DEF vars, AdmissionInv, SignalTypeOK
<1>2. CASE \E p \in Producer : \E k \in Command : Begin(p, k)
  BY <1>2, BeginStep
<1>3. CASE \E p \in Producer : LockAndRead(p) \/ Admit(p) \/ SkipDuplicate(p) \/ Refuse(p) \/ RollBack(p)
  BY <1>3, LockStep, AdmitStep, DuplicateStep, RefuseStep, RollBackStep
<1>4. CASE \E c \in Logged : LogSignal(c)
  <2>1. history' \subseteq Row
    BY <1>4, AdmissionTypes DEF LogSignal, FreshUuid, Row, AdmissionInv, SignalTypeOK
  <2>. QED BY <1>4, <2>1, AsideStep DEF LogSignal, AdmissionInv, SignalTypeOK
<1>5. CASE \E cutoff \in 1 .. (MaxTime + 1) : FetchBatch(cutoff)
  <2>1. batch' \subseteq Row
    BY <1>5 DEF FetchBatch, AdmissionInv, SignalTypeOK
  <2>. QED BY <1>5, <2>1, AsideStep DEF FetchBatch, AdmissionInv, SignalTypeOK
<1>6. CASE \E rows \in SUBSET batch : DeleteArchived(rows)
  <2>1. history' \subseteq Row
    BY <1>6 DEF DeleteArchived, AdmissionInv, SignalTypeOK
  <2>. QED BY <1>6, <2>1, AsideStep DEF DeleteArchived, AdmissionInv, SignalTypeOK
<1>7. CASE Tick
  <2>1. now' \in Time
    BY <1>7, AdmissionTypes DEF Tick, Time, AdmissionInv, SignalTypeOK
  <2>. QED BY <1>7, <2>1, AsideStep DEF Tick, AdmissionInv, SignalTypeOK
<1>8. CASE AssignStage
  <2>1. final' \in BOOLEAN
    BY <1>8 DEF AssignStage
  <2>. QED BY <1>8, <2>1, AsideStep DEF AssignStage, AdmissionInv, SignalTypeOK
<1>. QED BY <1>1, <1>2, <1>3, <1>4, <1>5, <1>6, <1>7, <1>8 DEF Next

\* Receipts, admissions, verdicts and answers agree in every reachable state.
THEOREM AdmissionHolds == Spec => []AdmissionInv
  BY AdmissionInit, AdmissionNext, PTL DEF Spec

\* enqueue_signal_if_new admits an event identity once, whatever is retried,
\* lost or archived.
THEOREM AdmittedOnce == Spec => []EventAdmittedOnce
<1>1. AdmissionInv => EventAdmittedOnce
  BY DEF AdmissionInv
<1>. QED BY AdmissionHolds, <1>1, PTL

\* A success answer always means that this very signal was admitted.
THEOREM AnswersAreTrue == Spec => []AcceptedWasAdmitted
<1>1. AdmissionInv => AcceptedWasAdmitted
  BY DEF AdmissionInv
<1>. QED BY AdmissionHolds, <1>1, PTL

\* An error answer means that the signal could not be admitted.
THEOREM RefusalsAreTrue == Spec => []RefusalIsJustified
<1>1. AdmissionInv => RefusalIsJustified
  BY DEF AdmissionInv
<1>. QED BY AdmissionHolds, <1>1, PTL

\* Archival never takes the newest row of an instance that is still active.
THEOREM NewestStays == Spec => NewestIsRetained
<1>1. AdmissionInv /\ [Next]_vars => [\A r \in history \ history' : final \/ ~IsNewest(r)]_vars
  <2>. SUFFICES ASSUME AdmissionInv, Next, NEW r \in history, r \notin history', ~final
                PROVE  ~IsNewest(r)
    BY DEF vars
  <2>1. PICK rows \in SUBSET batch : DeleteArchived(rows)
    BY DEF Next, Begin, LockAndRead, Admit, SkipDuplicate, Refuse, RollBack, LogSignal, AssignStage,
       FetchBatch, Tick
  <2>2. PICK s \in history : Newer(s, r)
    BY <2>1 DEF DeleteArchived, Deletable
  <2>3. r.at \in Nat /\ s.at \in Nat /\ r.uuid \in Nat /\ s.uuid \in Nat
    <3>1. r \in Row /\ s \in Row
      BY DEF AdmissionInv, SignalTypeOK
    <3>2. r.at \in Time /\ s.at \in Time /\ r.uuid \in Uuid /\ s.uuid \in Uuid
      BY <3>1 DEF Row
    <3>3. Time \subseteq Nat /\ Uuid \subseteq Nat
      BY AdmissionTypes DEF Time
    <3>. QED BY <3>2, <3>3
  <2>. QED BY <2>2, <2>3 DEF IsNewest, Newer
<1>. QED BY AdmissionHolds, <1>1, PTL DEF Spec, NewestIsRetained
=============================================================================

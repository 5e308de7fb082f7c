--------------------------- MODULE SignalAdmission ---------------------------
(***************************************************************************)
(* Admission of signals to one instance and archival of their history.     *)
(*                                                                         *)
(* Producers post signals, may lose the answer of a post and then post the *)
(* same event again.  enqueue_signal_if_new is a transaction in three      *)
(* steps: it begins (PostgreSQL's now() is fixed then), takes the instance *)
(* row lock and reads the receipt, and commits.  Meanwhile a host archives *)
(* signal_history in two steps, and transitions move the instance between  *)
(* stages.  A content stands for a signal name, its payload and the wait   *)
(* visit it asks for.                                                      *)
(***************************************************************************)
EXTENDS Naturals, Sequences, FiniteSets

CONSTANTS
    Producer,    \* callers of post_signal
    NoProducer,
    EventId,     \* producer event identities
    NoEvent,     \* a signal posted without an event_id
    Malformed,   \* the identities that are empty, blank or too long
    Content,     \* signal, payload, requested visit
    Declared,    \* the contents whose signal the definition declares or waits for
    Logged,      \* the contents a host records with log_signal
    Uuid,        \* row identities, drawn at random
    BatchLimit,  \* rows in one archive batch
    MaxTime      \* bound on the database clock

ASSUME AdmissionTypes ==
    /\ NoProducer \notin Producer
    /\ NoEvent \notin EventId
    /\ Malformed \subseteq EventId
    /\ Declared \subseteq Content
    /\ Logged \subseteq Content
    /\ Uuid \subseteq Nat
    /\ BatchLimit \in Nat \ {0}
    /\ MaxTime \in Nat

VARIABLES
    producer,  \* each producer's command and the transaction it has open
    lock,      \* the transaction that holds the instance row lock
    receipt,   \* signal_receipt of the instance
    history,   \* signal_history of the instance
    admitted,  \* the admissions in commit order, each one row and one queue task
    batch,     \* the last batch the archiver fetched and stored
    final,     \* whether the instance's stage is final
    now        \* the database clock

vars == <<producer, lock, receipt, history, admitted, batch, final, now>>

Time == 0 .. MaxTime
Command == [event : EventId \cup {NoEvent}, content : Content]
Row == [uuid : Uuid, at : Time, event : EventId \cup {NoEvent}, content : Content]
Receipt == [event : EventId, content : Content]

\* A producer that has an open transaction, an answer, or neither.
Phases == {"begun", "locked", "unanswered", "accepted", "refused"}
Verdicts == {"unread", "new", "duplicate", "conflict", "malformed"}
ProducerState ==
    [phase : Phases, command : Command, at : Time, verdict : Verdicts]

SignalTypeOK ==
    /\ producer \in [Producer -> ProducerState \cup {[phase |-> "idle"]}]
    /\ lock \in Producer \cup {NoProducer}
    /\ receipt \subseteq Receipt
    /\ history \subseteq Row
    /\ admitted \in Seq(Row)
    /\ batch \subseteq Row
    /\ final \in BOOLEAN
    /\ now \in Time

Init ==
    /\ producer = [p \in Producer |-> [phase |-> "idle"]]
    /\ lock = NoProducer
    /\ receipt = {}
    /\ history = {}
    /\ admitted = <<>>
    /\ batch = {}
    /\ final = FALSE
    /\ now = 0

(***************************************************************************)
(* History rows.                                                           *)
(***************************************************************************)
\* The order of created_at, then uuid.
Newer(r, s) == r.at > s.at \/ (r.at = s.at /\ r.uuid > s.uuid)
IsNewest(r) == \A s \in history : s = r \/ Newer(r, s)

\* A row that may leave: of a final instance, or with a newer row.
Deletable(r) == final \/ \E s \in history : Newer(s, r)

FreshUuid == Uuid \ ({r.uuid : r \in history} \cup {admitted[i].uuid : i \in 1 .. Len(admitted)})

(***************************************************************************)
(* enqueue_signal_if_new                                                   *)
(***************************************************************************)
\* post_signal accepts the signal, or the retry of an unanswered post, and
\* BEGIN fixes created_at.
Begin(p, k) ==
    /\ \/ producer[p].phase = "idle"
       \/ producer[p].phase = "unanswered" /\ producer[p].command = k
    /\ producer' = [producer EXCEPT ![p] =
           IF k.content \in Declared
           THEN [phase |-> "begun", command |-> k, at |-> now, verdict |-> "unread"]
           ELSE [phase |-> "refused", command |-> k, at |-> now, verdict |-> "unread"]]
    /\ UNCHANGED <<lock, receipt, history, admitted, batch, final, now>>

MutVerdict(k) ==
    IF k.event = NoEvent THEN "new"
    ELSE IF k.event \in Malformed THEN "malformed"
    ELSE IF \E r \in receipt : r.event = k.event THEN "duplicate" ELSE "new"
\* What the receipt says of a command.
Verdict(k) ==
    IF k.event = NoEvent THEN "new"
    ELSE IF k.event \in Malformed THEN "malformed"
    ELSE IF \E r \in receipt : r.event = k.event
         THEN IF [event |-> k.event, content |-> k.content] \in receipt
              THEN "duplicate" ELSE "conflict"
         ELSE "new"

MutLockAndRead(p) ==
    /\ producer[p].phase = "begun"
    /\ lock' = IF lock = NoProducer THEN p ELSE lock
    /\ producer' = [producer EXCEPT ![p].phase = "locked",
                                    ![p].verdict = Verdict(producer[p].command)]
    /\ UNCHANGED <<receipt, history, admitted, batch, final, now>>
\* SELECT ... FOR UPDATE of the instance, then the receipt.
LockAndRead(p) ==
    /\ producer[p].phase = "begun"
    /\ lock = NoProducer
    /\ lock' = p
    /\ producer' = [producer EXCEPT ![p].phase = "locked",
                                    ![p].verdict = Verdict(producer[p].command)]
    /\ UNCHANGED <<receipt, history, admitted, batch, final, now>>

MutReceiptsWith(k) == receipt
MutReceiptsAnonymous(k) == receipt \cup {[event |-> k.event, content |-> k.content]}
\* The receipts after an admission; an anonymous signal leaves none.
ReceiptsWith(k) ==
    receipt \cup IF k.event = NoEvent THEN {}
                 ELSE {[event |-> k.event, content |-> k.content]}

\* The primary key of signal_receipt refuses a second row of an event.
InsertsReceipt(k) == k.event = NoEvent \/ \A r \in receipt : r.event # k.event

Release(p) == lock' = IF lock = p THEN NoProducer ELSE lock

\* COMMIT of a new signal: receipt, history row and queue task at once.  Its
\* answer may be lost.
Admit(p) ==
    LET k == producer[p].command
        t == producer[p].at
    IN  /\ producer[p].phase = "locked"
        /\ producer[p].verdict = "new"
        /\ InsertsReceipt(k)
        /\ \E u \in FreshUuid :
              LET row == [uuid |-> u, at |-> t, event |-> k.event, content |-> k.content]
              IN  /\ history' = history \cup {row}
                  /\ admitted' = Append(admitted, row)
        /\ receipt' = ReceiptsWith(k)
        /\ \E answer \in {"accepted", "unanswered"} :
              producer' = [producer EXCEPT ![p].phase = answer]
        /\ Release(p)
        /\ UNCHANGED <<batch, final, now>>

\* A receipt of the same content: Ok(false), which post_signal reports as success.
SkipDuplicate(p) ==
    /\ producer[p].phase = "locked"
    /\ producer[p].verdict = "duplicate"
    /\ \E answer \in {"accepted", "unanswered"} :
          producer' = [producer EXCEPT ![p].phase = answer]
    /\ Release(p)
    /\ UNCHANGED <<receipt, history, admitted, batch, final, now>>

\* An error: a malformed identity, another content under the same identity,
\* or a receipt that appeared after this transaction looked for it.
Refused(p) ==
    LET v == producer[p].verdict
    IN  v \in {"conflict", "malformed"} \/ (v = "new" /\ ~InsertsReceipt(producer[p].command))

Refuse(p) ==
    /\ producer[p].phase = "locked"
    /\ Refused(p)
    /\ producer' = [producer EXCEPT ![p].phase = "refused"]
    /\ Release(p)
    /\ UNCHANGED <<receipt, history, admitted, batch, final, now>>

\* The connection or the producer fails before COMMIT: PostgreSQL rolls back.
RollBack(p) ==
    /\ producer[p].phase \in {"begun", "locked"}
    /\ producer' = [producer EXCEPT ![p].phase = "unanswered"]
    /\ Release(p)
    /\ UNCHANGED <<receipt, history, admitted, batch, final, now>>

(***************************************************************************)
(* The rest of the instance, and the archive.                              *)
(***************************************************************************)
\* log_signal: history without a receipt or a task, in its own statement.
LogSignal(c) ==
    /\ \E u \in FreshUuid :
          history' = history \cup {[uuid |-> u, at |-> now, event |-> NoEvent, content |-> c]}
    /\ UNCHANGED <<producer, lock, receipt, admitted, batch, final, now>>

\* A transition assigns a stage; it holds the instance row lock.
AssignStage ==
    /\ lock = NoProducer
    /\ final' = ~final
    /\ UNCHANGED <<producer, lock, receipt, history, admitted, batch, now>>

\* fetch_batch of SignalHistory: the oldest rows that may leave.
FetchBatch(cutoff) ==
    LET eligible == {r \in history : r.at < cutoff /\ Deletable(r)}
    IN  /\ batch' = {r \in eligible :
                        Cardinality({s \in eligible : Newer(r, s)}) < BatchLimit}
        /\ UNCHANGED <<producer, lock, receipt, history, admitted, final, now>>

MutDeleteArchived(rows) ==
    /\ rows # {}
    /\ history' = history \ rows
    /\ UNCHANGED <<producer, lock, receipt, admitted, batch, final, now>>
\* delete_archived with any of the rows that were stored; the cutoff of the
\* batch still holds for them, and Deletable is evaluated again.
DeleteArchived(rows) ==
    /\ rows # {}
    /\ history' = history \ {r \in rows : Deletable(r)}
    /\ UNCHANGED <<producer, lock, receipt, admitted, batch, final, now>>

Tick ==
    /\ now < MaxTime
    /\ now' = now + 1
    /\ UNCHANGED <<producer, lock, receipt, history, admitted, batch, final>>

\* get_last_signal
LastSignal == CHOOSE r \in history : IsNewest(r)

Next ==
    \/ \E p \in Producer :
          \/ \E k \in Command : Begin(p, k)
          \/ LockAndRead(p) \/ Admit(p) \/ SkipDuplicate(p) \/ Refuse(p) \/ RollBack(p)
    \/ \E c \in Logged : LogSignal(c)
    \/ AssignStage
    \/ \E cutoff \in 1 .. (MaxTime + 1) : FetchBatch(cutoff)
    \/ \E rows \in SUBSET batch : DeleteArchived(rows)
    \/ Tick

Spec == Init /\ [][Next]_vars

(***************************************************************************)
(* Properties                                                              *)
(***************************************************************************)
\* One event identity is admitted once, however often it is posted, whatever
\* answers are lost, and after its history was archived
\* (enqueue_signal_if_new with signal_receipt).
EventAdmittedOnce ==
    \A i, j \in 1 .. Len(admitted) :
        admitted[i].event = admitted[j].event /\ admitted[i].event # NoEvent => i = j

Admitted(k) == \E i \in 1 .. Len(admitted) :
                  admitted[i].event = k.event /\ admitted[i].content = k.content

\* A producer that was told success knows that exactly its own signal was
\* admitted: a duplicate of another content is never reported as success.
AcceptedWasAdmitted ==
    \A p \in Producer :
        producer[p].phase = "accepted" => Admitted(producer[p].command)

\* Posting the same event again is never answered with an error: a refusal
\* means a signal that is not declared, a malformed identity, or one that was
\* admitted with another content.
RefusalIsJustified ==
    \A p \in Producer : producer[p].phase = "refused" =>
        LET k == producer[p].command
        IN  \/ k.content \notin Declared
            \/ k.event \in Malformed
            \/ \E i \in 1 .. Len(admitted) :
                  admitted[i].event = k.event /\ admitted[i].content # k.content

\* delete_archived never removes the newest row of an instance whose stage is
\* not final, not even one that was fetched while the stage was final.
NewestIsRetained ==
    [][\A r \in history \ history' : final \/ ~IsNewest(r)]_vars

\* src/src/db_service/mod.rs:259: get_last_signal returns the most recently
\* admitted signal (or one with the same created_at).
LastSignalIsLastAdmitted ==
    admitted # <<>> =>
        LET last == admitted[Len(admitted)]
        IN  last \in history => LastSignal.at = last.at

(***************************************************************************)
(* The inductive invariant of the proofs.                                  *)
(***************************************************************************)
\* Receipts and admissions are the same events with the same contents.
ReceiptsMatch ==
    /\ \A r, s \in receipt : r.event = s.event => r = s
    /\ \A i \in 1 .. Len(admitted) : admitted[i].event # NoEvent =>
          [event |-> admitted[i].event, content |-> admitted[i].content] \in receipt
    /\ \A r \in receipt : Admitted(r)

\* A verdict is current for as long as its transaction holds the instance.
VerdictsAreCurrent ==
    \A p \in Producer : producer[p].phase = "locked" =>
        lock = p /\ producer[p].verdict = Verdict(producer[p].command)

\* What the admission transaction keeps: receipts and admissions agree, and
\* only the holder of the instance row has a verdict to commit.
AdmissionInv ==
    /\ SignalTypeOK
    /\ ReceiptsMatch
    /\ EventAdmittedOnce
    /\ VerdictsAreCurrent
    /\ AcceptedWasAdmitted
    /\ RefusalIsJustified
=============================================================================

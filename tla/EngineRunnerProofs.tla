-------------------------- MODULE EngineRunnerProofs --------------------------
(***************************************************************************)
(* Proofs for EngineRunner: for any number of runners, worker slots,       *)
(* instances and queue rows.                                               *)
(***************************************************************************)
EXTENDS EngineRunner, TLAPS

-----------------------------------------------------------------------------
(* The inductive invariant.                                                *)
\* A dequeue between its statements holds the instance row it chose, and a
\* loop carries a task only between the claim and the spawn.
LocksAreHeld ==
    \A r \in Runner :
        /\ loop[r].pc = "claiming" => loop[r].inst \in Instance /\ lock[loop[r].inst] = r
        /\ loop[r].pc = "claimed" <=> loop[r].task # NoTask

\* Whoever has claimed a task holds the lease of its row, alone.
HoldersAreLeased ==
    /\ \A t, u \in Task : row[t] = "leased" /\ row[u] = "leased" /\ InstanceOf[t] = InstanceOf[u] => t = u
    /\ \A r \in Runner : loop[r].task # NoTask =>
          /\ row[loop[r].task] = "leased" /\ ~ Running(loop[r].task)
          /\ \A q \in Runner : loop[q].task = loop[r].task => q = r
    /\ \A r, q \in Runner : \A s, u \in Slot :
          slot[r][s].pc = "running" =>
              /\ slot[r][s].task \in Task /\ row[slot[r][s].task] = "leased"
              /\ slot[q][u].pc = "running" /\ slot[q][u].task = slot[r][s].task => q = r /\ u = s

\* Somebody is going to look at a task, or is going to be woken: a permit, a
\* commit that has yet to notify, or a runner on its way to a dequeue that
\* will see it.  An engine without a runner that looks announces nothing.
Looking == {"top", "full", "claiming", "claimed", "backoff", "woken"}
Away == {"new", "draining", "stopped"}
Announced(t) ==
    \/ permit
    \/ pending # {}
    \/ \E r \in Runner, s \in Slot : slot[r][s].pc = "committed"
    \/ \E r \in Runner : \/ loop[r].pc \in Looking
                         \/ loop[r].pc = "fetching" /\ InstanceOf[t] \in loop[r].snapshot
    \/ \A r \in Runner : loop[r].pc \in Away
WorkIsAnnounced == \A t \in Eligible \ left : Announced(t)

RunnerInv == RunnerTypeOK /\ LocksAreHeld /\ HoldersAreLeased /\ WorkIsAnnounced
-----------------------------------------------------------------------------
(* Facts about the invariant.                                              *)
\* What RunnerInv says of the variables one by one.
LEMMA Shape ==
    ASSUME RunnerInv
    PROVE  /\ row \in [Task -> {"idle", "ready", "leased"}]
           /\ lock \in [Instance -> Runner \cup {Free, Other}]
           /\ loop \in [Runner -> LoopState]
           /\ slot \in [Runner -> [Slot -> SlotState]]
           /\ permit \in BOOLEAN /\ pending \subseteq Task /\ left \subseteq Task
           /\ \A r \in Runner : /\ loop[r].pc \in Pcs /\ loop[r].snapshot \subseteq Instance
                                /\ loop[r].task \in Task \cup {NoTask}
                                /\ loop[r].inst \in Instance \cup {NoInstance}
           /\ \A r \in Runner, s \in Slot : slot[r][s] \in SlotState
  BY DEF RunnerInv, RunnerTypeOK, LoopState

LEMMA Places ==
    /\ \A pc \in Pcs : /\ At(pc) \in LoopState /\ At(pc).pc = pc
                       /\ At(pc).snapshot = {} /\ At(pc).task = NoTask
    /\ Empty \in SlotState /\ Empty.pc = "none" /\ Empty.task = NoTask
  BY DEF At, LoopState, Empty, SlotState

\* The locks of runners and the loops that hold them agree.
LocksHeld ==
    /\ \A i \in Instance : lock[i] \in Runner =>
          loop[lock[i]].pc = "claiming" /\ loop[lock[i]].inst = i
    /\ LocksAreHeld

\* A loop that is not in the middle of a dequeue has no lock to release.
LEMMA NothingLocked ==
    ASSUME RunnerInv, NEW r \in Runner, loop[r].pc # "claiming"
    PROVE  Unlocked(r) = lock
<1>1. \A i \in Instance : lock[i] # r
  BY DEF RunnerInv, RunnerTypeOK
<1>. QED BY <1>1, Shape DEF Unlocked

\* Locks stay in step with loops when every loop that moves ends without
\* lock and task, and every lock that is released was such a loop's.
LEMMA LocksKept ==
    ASSUME RunnerInv, loop' \in [Runner -> LoopState],
           \A r \in Runner : \/ loop'[r] = loop[r]
                             \/ /\ loop'[r].pc \notin {"claiming", "claimed"} /\ loop'[r].task = NoTask
                                /\ \A i \in Instance : lock'[i] # r,
           \A i \in Instance : \/ lock'[i] = lock[i]
                               \/ /\ lock'[i] \notin Runner
                                  /\ lock[i] \in Runner => loop'[lock[i]].pc # "claiming"
    PROVE  LocksHeld'
<1>1. LocksHeld
  BY DEF RunnerInv, RunnerTypeOK, LocksHeld
<1>2. \A i \in Instance : lock'[i] \in Runner =>
         loop'[lock'[i]].pc = "claiming" /\ loop'[lock'[i]].inst = i
  BY <1>1 DEF LocksHeld
<1>3. ASSUME NEW r \in Runner
      PROVE  /\ loop'[r].pc = "claiming" => loop'[r].inst \in Instance /\ lock'[loop'[r].inst] = r
             /\ loop'[r].pc = "claimed" <=> loop'[r].task # NoTask
  BY <1>1 DEF LocksHeld, LocksAreHeld
<1>. QED BY <1>2, <1>3 DEF LocksHeld, LocksAreHeld

\* Holders keep their leases when no row is leased, no task is taken, and a
\* row is released only by, or without, its holder.
LEMMA HoldersKept ==
    ASSUME RunnerInv,
           \A t \in Task : row'[t] = "leased" => row[t] = "leased",
           \A r \in Runner : loop'[r].task = loop[r].task \/ loop'[r].task = NoTask,
           \A r \in Runner, s \in Slot : slot'[r][s].pc = "running" => slot'[r][s] = slot[r][s],
           \A t \in Task : row[t] = "leased" /\ row'[t] # "leased" =>
               /\ \A r \in Runner, s \in Slot : ~ (slot'[r][s].pc = "running" /\ slot'[r][s].task = t)
               /\ \A r \in Runner : loop[r].task # t
    PROVE  HoldersAreLeased'
<1>1. HoldersAreLeased
  BY DEF RunnerInv
<1>2. \A t, u \in Task : row'[t] = "leased" /\ row'[u] = "leased" /\ InstanceOf[t] = InstanceOf[u] => t = u
  BY <1>1 DEF HoldersAreLeased
<1>3. ASSUME NEW r \in Runner, loop'[r].task # NoTask
      PROVE  /\ row'[loop'[r].task] = "leased" /\ (~ Running(loop[r].task))'
             /\ \A q \in Runner : loop'[q].task = loop'[r].task => q = r
  BY <1>1, <1>3, Shape DEF HoldersAreLeased, Running
<1>4. ASSUME NEW r \in Runner, NEW q \in Runner, NEW s \in Slot, NEW u \in Slot, slot'[r][s].pc = "running"
      PROVE  /\ slot'[r][s].task \in Task /\ row'[slot'[r][s].task] = "leased"
             /\ slot'[q][u].pc = "running" /\ slot'[q][u].task = slot'[r][s].task => q = r /\ u = s
  <2>1. slot'[r][s] = slot[r][s] /\ (slot'[q][u].pc = "running" => slot'[q][u] = slot[q][u])
    BY <1>4
  <2>. QED BY <1>1, <1>4, <2>1 DEF HoldersAreLeased
<1>. QED BY <1>2, <1>3, <1>4 DEF HoldersAreLeased

\* A loop that is going to look announces every task.
LEMMA SomeoneLooks ==
    ASSUME NEW r \in Runner, loop'[r].pc \in Looking
    PROVE  WorkIsAnnounced'
  BY DEF WorkIsAnnounced, Announced

\* Announcements stand when no wakeup is taken away, no work appears, and no
\* loop that looks stops looking.
LEMMA AnnouncementsStand ==
    ASSUME RunnerInv,
           \A t \in Task : t \in Eligible' /\ t \notin left' => t \in Eligible /\ t \notin left,
           permit => permit', pending \subseteq pending',
           \A r \in Runner, s \in Slot : slot[r][s].pc = "committed" => slot'[r][s].pc = "committed",
           \A r \in Runner : \/ loop'[r] = loop[r]
                             \/ /\ loop[r].pc \notin Looking \cup {"fetching"}
                                /\ loop[r].pc \in Away => loop'[r].pc \in Away
    PROVE  WorkIsAnnounced'
<1>. SUFFICES ASSUME NEW t \in Eligible', t \notin left' PROVE Announced(t)'
  BY DEF WorkIsAnnounced
<1>1. t \in Task
  BY DEF Eligible, EligibleIn
<1>2. Announced(t)
  BY <1>1 DEF RunnerInv, WorkIsAnnounced
<1>3. CASE permit \/ pending # {}
  BY <1>3 DEF Announced
<1>4. CASE \E r \in Runner, s \in Slot : slot[r][s].pc = "committed"
  BY <1>4 DEF Announced
<1>5. CASE \E r \in Runner : \/ loop[r].pc \in Looking
                             \/ loop[r].pc = "fetching" /\ InstanceOf[t] \in loop[r].snapshot
  BY <1>5 DEF Announced
<1>6. CASE \A r \in Runner : loop[r].pc \in Away
  BY <1>6 DEF Announced
<1>. QED BY <1>2, <1>3, <1>4, <1>5, <1>6 DEF Announced

\* notify_one: at most one waiter is woken, and if none is, the permit stays.
LEMMA NotifyOneWakes ==
    ASSUME NEW STATE w, w \in [Runner -> LoopState], NotifyOne(w), permit \in BOOLEAN
    PROVE  /\ loop' \in [Runner -> LoopState] /\ permit' \in BOOLEAN
           /\ \A r \in Runner : loop'[r] = w[r] \/ (w[r].pc = "waiting" /\ loop'[r] = At("woken"))
           /\ WorkIsAnnounced'
<1>1. At("woken") \in LoopState /\ At("woken").pc = "woken"
  BY Places DEF Pcs
<1>2. CASE Waiters(w) = {}
  <2>1. permit' = TRUE /\ loop' = w
    BY <1>2 DEF NotifyOne
  <2>2. WorkIsAnnounced'
    BY <2>1 DEF WorkIsAnnounced, Announced
  <2>. QED BY <2>1, <2>2
<1>3. CASE Waiters(w) # {}
  <2>1. permit' = permit /\ \E r \in Waiters(w) : loop' = [w EXCEPT ![r] = At("woken")]
    BY <1>3 DEF NotifyOne
  <2>2. PICK r \in Waiters(w) : loop' = [w EXCEPT ![r] = At("woken")]
    BY <2>1
  <2>3. r \in Runner /\ w[r].pc = "waiting"
    BY DEF Waiters
  <2>4. loop'[r] = At("woken") /\ loop' \in [Runner -> LoopState] /\ \A q \in Runner \ {r} : loop'[q] = w[q]
    BY <2>2, <2>3, <1>1
  <2>5. WorkIsAnnounced'
    BY <2>3, <2>4, <1>1, SomeoneLooks DEF Looking
  <2>. QED BY <2>1, <2>3, <2>4, <2>5
<1>. QED BY <1>2, <1>3

\* A step that leaves locks and rows alone and takes no task from a loop.
LEMMA NothingHeld ==
    ASSUME RunnerInv, loop' \in [Runner -> LoopState], row' = row,
           slot' \in [Runner -> [Slot -> SlotState]],
           \A r \in Runner : loop'[r] = loop[r] \/ (loop'[r].pc \notin {"claiming", "claimed"} /\ loop'[r].task = NoTask),
           \A r \in Runner : loop'[r] = loop[r] \/ loop[r].pc # "claiming" \/ \A i \in Instance : lock'[i] # r,
           \A i \in Instance : \/ lock'[i] = lock[i]
                               \/ lock[i] \in Runner /\ lock'[i] = Free /\ loop'[lock[i]].pc # "claiming",
           \A r \in Runner, s \in Slot : slot'[r][s].pc = "running" => slot'[r][s] = slot[r][s]
    PROVE  LocksHeld' /\ HoldersAreLeased'
<1>1. \A i \in Instance : \/ lock'[i] = lock[i]
                          \/ /\ lock'[i] \notin Runner
                             /\ lock[i] \in Runner => loop'[lock[i]].pc # "claiming"
  BY RunnerTypes
<1>2. \A r \in Runner : loop[r].pc # "claiming" => \A i \in Instance : lock[i] # r
  BY DEF RunnerInv, RunnerTypeOK
<1>3. \A r \in Runner : loop'[r] = loop[r] \/ \A i \in Instance : lock'[i] # r
  BY <1>2, RunnerTypes
<1>4. LocksHeld'
  BY <1>1, <1>3, LocksKept
<1>5. HoldersAreLeased'
  BY HoldersKept
<1>. QED BY <1>4, <1>5

\* What Joined and Unlocked leave.
LEMMA JoinedSlots ==
    ASSUME RunnerInv, NEW r \in Runner, NEW done \in SUBSET Done(r), slot' = Joined(r, done)
    PROVE  /\ slot' \in [Runner -> [Slot -> SlotState]]
           /\ \A q \in Runner, s \in Slot :
                 \/ slot'[q][s] = slot[q][s]
                 \/ slot'[q][s].pc = "none" /\ slot[q][s].pc = "done"
<1>. DEFINE rest == [s \in Slot |-> IF s \in done THEN Empty ELSE slot[r][s]]
<1>1. rest \in [Slot -> SlotState]
  BY Shape, Places
<1>2. slot' = [slot EXCEPT ![r] = rest]
  BY DEF Joined
<1>3. \A s \in done : slot[r][s].pc = "done"
  BY DEF Done
<1>4. \A s \in Slot : rest[s] = slot[r][s] \/ (rest[s].pc = "none" /\ slot[r][s].pc = "done")
  BY <1>3, Places
<1>. HIDE DEF rest
<1>. QED BY <1>1, <1>2, <1>4, Shape

LEMMA UnlockedRows ==
    ASSUME RunnerInv, NEW r \in Runner
    PROVE  /\ Unlocked(r) \in [Instance -> Runner \cup {Free, Other}]
           /\ \A i \in Instance : /\ Unlocked(r)[i] # r
                                  /\ \/ Unlocked(r)[i] = lock[i]
                                     \/ lock[i] = r /\ Unlocked(r)[i] = Free
  BY Shape, RunnerTypes DEF Unlocked

\* A loop that moves on with nothing held, as most of its steps do.
LEMMA MovesOn ==
    ASSUME RunnerInv, NEW r \in Runner, lock' = Unlocked(r), row' = row,
           loop' \in [Runner -> LoopState],
           loop'[r].pc \notin {"claiming", "claimed"}, loop'[r].task = NoTask,
           \A q \in Runner \ {r} : loop'[q] = loop[q] \/ (loop[q].pc = "waiting" /\ loop'[q] = At("woken")),
           slot' \in [Runner -> [Slot -> SlotState]],
           \A q \in Runner, s \in Slot : slot'[q][s] = slot[q][s] \/ slot'[q][s].pc # "running",
           permit' \in BOOLEAN, pending' \subseteq Task, left' \subseteq Task,
           unseen' \in [Runner -> SUBSET {"loop", "monitor"}], monitor' \in [Runner -> BOOLEAN],
           WorkIsAnnounced'
    PROVE  RunnerInv'
<1>1. lock' \in [Instance -> Runner \cup {Free, Other}]
      /\ \A i \in Instance : lock'[i] # r /\ (lock'[i] = lock[i] \/ (lock[i] = r /\ lock'[i] = Free))
  BY UnlockedRows
<1>2. At("woken").pc = "woken" /\ At("woken").task = NoTask
  BY Places DEF Pcs
<1>3. LocksHeld' /\ HoldersAreLeased'
  BY <1>1, <1>2, NothingHeld
<1>4. RunnerTypeOK'
  BY <1>1, <1>3, Shape DEF RunnerTypeOK, LocksHeld
<1>. QED BY <1>3, <1>4 DEF RunnerInv, LocksHeld

-----------------------------------------------------------------------------
\* The initial states satisfy the invariant: nothing is due.
LEMMA RunnerInit == Init => RunnerInv
<1>. SUFFICES ASSUME Init PROVE RunnerInv
  OBVIOUS
<1>1. At("new") \in LoopState /\ At("new").pc = "new" /\ At("new").task = NoTask
      /\ Empty \in SlotState /\ Empty.pc = "none"
  BY Places DEF Pcs
<1>2. RunnerTypeOK
  <2>1. \A i \in Instance : lock[i] \notin Runner
    BY RunnerTypes DEF Init
  <2>. QED BY <1>1, <2>1 DEF Init, RunnerTypeOK
<1>3. LocksAreHeld /\ HoldersAreLeased
  BY <1>1 DEF Init, LocksAreHeld, HoldersAreLeased
<1>4. WorkIsAnnounced
  BY DEF Init, WorkIsAnnounced, Eligible, EligibleIn
<1>. QED BY <1>2, <1>3, <1>4 DEF RunnerInv

-----------------------------------------------------------------------------
(* The run loop, one lemma for each group of its steps.                    *)
\* Steps that send the loop to its top, or to a backoff, whatever it held.
LEMMA GoesOn ==
    ASSUME RunnerInv, NEW r \in Runner, NEW pc \in {"top", "full", "backoff"},
           loop' = [loop EXCEPT ![r] = At(pc)], lock' = Unlocked(r),
           slot' \in [Runner -> [Slot -> SlotState]],
           \A q \in Runner, s \in Slot : slot'[q][s] = slot[q][s] \/ slot'[q][s].pc # "running",
           permit' \in BOOLEAN, monitor' \in [Runner -> BOOLEAN], UNCHANGED <<row, pending, left, unseen>>
    PROVE  RunnerInv'
<1>1. At(pc) \in LoopState /\ At(pc).pc = pc /\ At(pc).task = NoTask
  BY Places DEF Pcs
<1>2. /\ loop' \in [Runner -> LoopState] /\ loop'[r] = At(pc)
      /\ \A q \in Runner \ {r} : loop'[q] = loop[q]
  BY <1>1, Shape
<1>3. WorkIsAnnounced'
  BY <1>1, <1>2, SomeoneLooks DEF Looking
<1>4. pending' \subseteq Task /\ left' \subseteq Task /\ unseen' \in [Runner -> SUBSET {"loop", "monitor"}]
  BY DEF RunnerInv, RunnerTypeOK
<1>. QED BY <1>1, <1>2, <1>3, <1>4, MovesOn

LEMMA StartKeeps ==
    ASSUME RunnerInv, NEW r \in Runner, Start(r)
    PROVE  RunnerInv'
<1>1. lock' = Unlocked(r)
  BY NothingLocked DEF Start
<1>2. monitor' \in [Runner -> BOOLEAN]
  BY DEF Start, RunnerInv, RunnerTypeOK
<1>. QED BY <1>1, <1>2, GoesOn, Shape DEF Start

LEMMA RestKeeps ==
    ASSUME RunnerInv, NEW r \in Runner, JoinFull(r) \/ FetchFails(r) \/ BackedOff(r) \/ Notified(r)
    PROVE  RunnerInv'
<1>1. lock' = Unlocked(r)
  BY NothingLocked DEF JoinFull, FetchFails, BackedOff, Notified
<1>2. /\ slot' \in [Runner -> [Slot -> SlotState]]
      /\ \A q \in Runner, s \in Slot : slot'[q][s] = slot[q][s] \/ slot'[q][s].pc # "running"
  <2>1. CASE JoinFull(r)
    <3>1. PICK s \in Done(r) : slot' = Joined(r, {s})
      BY <2>1 DEF JoinFull
    <3>. QED BY <3>1, JoinedSlots
  <2>2. CASE FetchFails(r) \/ BackedOff(r) \/ Notified(r)
    BY <2>2, Shape DEF FetchFails, BackedOff, Notified
  <2>. QED BY <2>1, <2>2
<1>3. monitor' \in [Runner -> BOOLEAN] /\ permit' \in BOOLEAN
  BY DEF JoinFull, FetchFails, BackedOff, Notified, RunnerInv, RunnerTypeOK
<1>4. CASE FetchFails(r)
  BY <1>1, <1>2, <1>3, <1>4, GoesOn DEF FetchFails
<1>5. CASE JoinFull(r) \/ BackedOff(r) \/ Notified(r)
  BY <1>1, <1>2, <1>3, <1>5, GoesOn DEF JoinFull, BackedOff, Notified
<1>. QED BY <1>4, <1>5

\* What is eligible when the dequeue is sent is in its snapshot.
LEMMA TopKeeps ==
    ASSUME RunnerInv, NEW r \in Runner, Top(r)
    PROVE  RunnerInv'
<1>. DEFINE rest == Joined(r, Done(r))
            seen == {InstanceOf[t] : t \in Eligible}
<1>1. /\ slot' = rest /\ loop[r].pc = "top"
      /\ loop' = [loop EXCEPT ![r] = IF \A s \in Slot : rest[r][s] # Empty THEN At("full")
                                     ELSE [At("fetching") EXCEPT !.snapshot = seen]]
  BY DEF Top
<1>2. /\ slot' \in [Runner -> [Slot -> SlotState]]
      /\ \A q \in Runner, s \in Slot : slot'[q][s] = slot[q][s] \/ slot'[q][s].pc # "running"
  BY <1>1, JoinedSlots
<1>3. lock' = Unlocked(r) /\ monitor' = monitor /\ UNCHANGED <<row, permit, pending, left, unseen>>
  BY <1>1, NothingLocked DEF Top
<1>4. CASE loop' = [loop EXCEPT ![r] = At("full")]
  BY <1>2, <1>3, <1>4, GoesOn, Shape DEF RunnerInv, RunnerTypeOK
<1>5. CASE loop' = [loop EXCEPT ![r] = [At("fetching") EXCEPT !.snapshot = seen]]
  <2>. DEFINE l == [At("fetching") EXCEPT !.snapshot = seen]
  <2>1. seen \subseteq Instance
    BY RunnerTypes DEF Eligible, EligibleIn
  <2>2. l \in LoopState /\ l.pc = "fetching" /\ l.task = NoTask /\ l.snapshot = seen
    BY <2>1 DEF At, LoopState, Pcs
  <2>. HIDE DEF l, seen
  <2>3. loop' \in [Runner -> LoopState] /\ loop'[r] = l /\ \A q \in Runner \ {r} : loop'[q] = loop[q]
    BY <1>5, <2>2, Shape DEF l
  <2>4. WorkIsAnnounced'
    <3>. SUFFICES ASSUME NEW t \in Eligible' PROVE Announced(t)'
      BY DEF WorkIsAnnounced
    <3>1. t \in Eligible
      BY <1>3 DEF Eligible
    <3>2. InstanceOf[t] \in seen
      BY <3>1 DEF seen
    <3>. QED BY <2>2, <2>3, <3>2 DEF Announced
  <2>5. pending' \subseteq Task /\ left' \subseteq Task /\ permit' \in BOOLEAN
        /\ unseen' \in [Runner -> SUBSET {"loop", "monitor"}] /\ monitor' \in [Runner -> BOOLEAN]
    BY <1>3 DEF RunnerInv, RunnerTypeOK
  <2>. QED BY <1>2, <1>3, <2>2, <2>3, <2>4, <2>5, MovesOn
<1>. QED BY <1>1, <1>4, <1>5
\* A dequeue that finds every instance of its snapshot locked: whoever holds
\* one is claiming, or is another transaction and polling will see its work.
LEMMA MissAnnounced ==
    ASSUME RunnerInv, NEW r \in Runner, loop[r].pc = "fetching",
           \A i \in loop[r].snapshot : lock[i] # Free,
           loop'[r].pc = "missed", \A q \in Runner \ {r} : loop'[q] = loop[q],
           left' = left \cup {t \in Eligible : lock[InstanceOf[t]] = Other},
           UNCHANGED <<row, slot, permit, pending>>
    PROVE  WorkIsAnnounced'
<1>. SUFFICES ASSUME NEW t \in Eligible', t \notin left' PROVE Announced(t)'
  BY DEF WorkIsAnnounced
<1>1. t \in Eligible /\ t \notin left /\ t \in Task /\ lock[InstanceOf[t]] # Other
  BY DEF Eligible, EligibleIn
<1>2. Announced(t)
  BY <1>1 DEF RunnerInv, WorkIsAnnounced
<1>3. CASE InstanceOf[t] \in loop[r].snapshot
  <2>1. InstanceOf[t] \in Instance
    BY <1>1, RunnerTypes
  <2>2. lock[InstanceOf[t]] \in Runner
    BY <1>1, <1>3, <2>1, Shape
  <2>3. loop[lock[InstanceOf[t]]].pc = "claiming"
    BY <2>1, <2>2 DEF RunnerInv, RunnerTypeOK
  <2>. QED BY <2>2, <2>3, SomeoneLooks DEF Looking, Announced
<1>4. CASE InstanceOf[t] \notin loop[r].snapshot
  <2>1. r \notin {q \in Runner : loop[q].pc \in Looking \cup Away}
    BY DEF Looking, Away
  <2>2. CASE permit \/ pending # {} \/ \E q \in Runner, s \in Slot : slot[q][s].pc = "committed"
    BY <2>2 DEF Announced
  <2>3. CASE \E q \in Runner : \/ loop[q].pc \in Looking
                               \/ loop[q].pc = "fetching" /\ InstanceOf[t] \in loop[q].snapshot
    <3>1. PICK q \in Runner : \/ loop[q].pc \in Looking
                              \/ loop[q].pc = "fetching" /\ InstanceOf[t] \in loop[q].snapshot
      BY <2>3
    <3>2. q # r
      BY <1>4, <2>1, <3>1
    <3>. QED BY <3>1, <3>2 DEF Announced
  <2>. QED BY <1>2, <2>1, <2>2, <2>3 DEF Announced
<1>. QED BY <1>3, <1>4

LEMMA ChooseKeeps ==
    ASSUME RunnerInv, NEW r \in Runner, Choose(r)
    PROVE  RunnerInv'
<1>. DEFINE unlocked == {i \in loop[r].snapshot : lock[i] = Free}
<1>1. loop[r].pc = "fetching" /\ UNCHANGED <<row, slot, permit, pending, unseen, monitor>>
  BY DEF Choose
<1>2. loop[r].task = NoTask
  BY <1>1 DEF RunnerInv, LocksAreHeld
<1>3. CASE /\ unlocked = {} /\ loop' = [loop EXCEPT ![r] = At("missed")]
           /\ left' = left \cup {t \in Eligible : lock[InstanceOf[t]] = Other} /\ UNCHANGED lock
  <2>1. At("missed") \in LoopState /\ At("missed").pc = "missed" /\ At("missed").task = NoTask
    BY Places DEF Pcs
  <2>2. loop' \in [Runner -> LoopState] /\ loop'[r] = At("missed") /\ \A q \in Runner \ {r} : loop'[q] = loop[q]
    BY <1>3, <2>1, Shape
  <2>3. WorkIsAnnounced'
    BY <1>1, <1>3, <2>1, <2>2, MissAnnounced
  <2>4. left' \subseteq Task /\ lock' = Unlocked(r)
    BY <1>1, <1>3, Shape, NothingLocked DEF Eligible, EligibleIn
  <2>5. permit' \in BOOLEAN /\ pending' \subseteq Task
        /\ unseen' \in [Runner -> SUBSET {"loop", "monitor"}] /\ monitor' \in [Runner -> BOOLEAN]
    BY <1>1 DEF RunnerInv, RunnerTypeOK
  <2>. QED BY <1>1, <2>1, <2>2, <2>3, <2>4, <2>5, Shape, MovesOn
<1>4. ASSUME NEW i \in unlocked, lock' = [lock EXCEPT ![i] = r],
             loop' = [loop EXCEPT ![r] = [At("claiming") EXCEPT !.inst = i]], UNCHANGED left
      PROVE  RunnerInv'
  <2>. DEFINE l == [At("claiming") EXCEPT !.inst = i]
  <2>1. i \in Instance /\ lock[i] = Free
    BY Shape
  <2>2. l \in LoopState /\ l.pc = "claiming" /\ l.inst = i /\ l.task = NoTask
    BY <2>1 DEF At, LoopState, Pcs
  <2>. HIDE DEF l
  <2>3. loop' \in [Runner -> LoopState] /\ loop'[r] = l /\ \A q \in Runner \ {r} : loop'[q] = loop[q]
    BY <1>4, <2>2, Shape DEF l
  <2>4. /\ lock' \in [Instance -> Runner \cup {Free, Other}]
        /\ lock'[i] = r /\ \A j \in Instance \ {i} : lock'[j] = lock[j]
    BY <1>4, <2>1, Shape
  <2>5. \A j \in Instance : lock[j] # r
    BY <1>1 DEF RunnerInv, RunnerTypeOK
  <2>6. LocksHeld'
    <3>1. LocksHeld
      BY DEF RunnerInv, RunnerTypeOK, LocksHeld
    <3>2. \A j \in Instance : lock'[j] \in Runner =>
             loop'[lock'[j]].pc = "claiming" /\ loop'[lock'[j]].inst = j
      BY <3>1, <2>2, <2>3, <2>4, <2>5 DEF LocksHeld
    <3>3. ASSUME NEW q \in Runner
          PROVE  /\ loop'[q].pc = "claiming" => loop'[q].inst \in Instance /\ lock'[loop'[q].inst] = q
                 /\ loop'[q].pc = "claimed" <=> loop'[q].task # NoTask
      <4>1. CASE q = r
        BY <4>1, <2>1, <2>2, <2>3, <2>4
      <4>2. CASE q # r
        BY <4>2, <3>1, <2>1, <2>3, <2>4, RunnerTypes DEF LocksHeld, LocksAreHeld
      <4>. QED BY <4>1, <4>2
    <3>. QED BY <3>2, <3>3 DEF LocksHeld, LocksAreHeld
  <2>7. HoldersAreLeased'
    BY <1>1, <1>2, <2>2, <2>3, HoldersKept
  <2>8. WorkIsAnnounced'
    BY <2>2, <2>3, SomeoneLooks DEF Looking
  <2>9. RunnerTypeOK'
    BY <1>1, <1>4, <2>3, <2>4, <2>6 DEF RunnerInv, RunnerTypeOK, LocksHeld
  <2>. QED BY <2>6, <2>7, <2>8, <2>9 DEF RunnerInv, LocksHeld
<1>. QED BY <1>3, <1>4 DEF Choose

\* The claimed row had no leased sibling, so it is leased alone.
LEMMA LeasedAlone ==
    ASSUME RunnerInv, NEW t \in Eligible, row' = [row EXCEPT ![t] = "leased"]
    PROVE  /\ t \in Task /\ row' \in [Task -> {"idle", "ready", "leased"}] /\ row'[t] = "leased"
           /\ row[t] = "ready" /\ \A u \in Task \ {t} : row'[u] = row[u]
           /\ \A u, v \in Task : row'[u] = "leased" /\ row'[v] = "leased" /\ InstanceOf[u] = InstanceOf[v] => u = v
           /\ Eligible' \subseteq Eligible \ {t}
<1>1. t \in Task /\ row[t] = "ready" /\ \A u \in RowsOf(InstanceOf[t]) : row[u] # "leased"
  BY DEF Eligible, EligibleIn
<1>2. row' \in [Task -> {"idle", "ready", "leased"}] /\ row'[t] = "leased" /\ \A u \in Task \ {t} : row'[u] = row[u]
  BY <1>1, Shape
<1>3. \A u \in Task : row[u] = "leased" => InstanceOf[u] # InstanceOf[t]
  BY <1>1 DEF RowsOf
<1>4. \A u, v \in Task : row[u] = "leased" /\ row[v] = "leased" /\ InstanceOf[u] = InstanceOf[v] => u = v
  BY DEF RunnerInv, HoldersAreLeased
<1>5. \A u, v \in Task : row'[u] = "leased" /\ row'[v] = "leased" /\ InstanceOf[u] = InstanceOf[v] => u = v
  BY <1>2, <1>3, <1>4
<1>6. ASSUME NEW u \in Eligible' PROVE u \in Eligible \ {t}
  <2>1. u \in Task /\ row'[u] = "ready" /\ \A v \in RowsOf(InstanceOf[u]) : row'[v] # "leased"
    BY DEF Eligible, EligibleIn
  <2>2. u # t /\ row[u] = "ready" /\ \A v \in RowsOf(InstanceOf[u]) : row[v] # "leased"
    BY <2>1, <1>1, <1>2 DEF RowsOf
  <2>. QED BY <2>1, <2>2 DEF Eligible, EligibleIn
<1>. QED BY <1>1, <1>2, <1>5, <1>6
\* The holders that were there stay as they are when an eligible row is leased.
LEMMA HoldersBeside ==
    ASSUME RunnerInv, NEW t \in Eligible, row' = [row EXCEPT ![t] = "leased"], UNCHANGED slot
    PROVE  /\ \A r \in Runner : loop[r].task # t /\ \A s \in Slot : ~ (slot[r][s].pc = "running" /\ slot[r][s].task = t)
           /\ \A r \in Runner : loop[r].task # NoTask =>
                 row'[loop[r].task] = "leased" /\ \A q \in Runner, s \in Slot :
                     ~ (slot'[q][s].pc = "running" /\ slot'[q][s].task = loop[r].task)
           /\ \A r \in Runner, s \in Slot : slot'[r][s].pc = "running" =>
                 slot'[r][s].task \in Task /\ row'[slot'[r][s].task] = "leased"
<1>1. HoldersAreLeased /\ t \in Task /\ row[t] = "ready"
  BY LeasedAlone DEF RunnerInv
<1>2. \A u \in Task : row[u] = "leased" => row'[u] = "leased"
  BY LeasedAlone
<1>3. \A r \in Runner : loop[r].task # NoTask => row[loop[r].task] = "leased" /\ loop[r].task \in Task
  BY <1>1, Shape DEF HoldersAreLeased
<1>4. \A r \in Runner : loop[r].task # NoTask => \A q \in Runner, s \in Slot :
         ~ (slot[q][s].pc = "running" /\ slot[q][s].task = loop[r].task)
  BY <1>1 DEF HoldersAreLeased, Running
<1>5. \A r \in Runner, s \in Slot : slot[r][s].pc = "running" =>
         slot[r][s].task \in Task /\ row[slot[r][s].task] = "leased"
  BY <1>1 DEF HoldersAreLeased
<1>6. t # NoTask
  BY <1>1, RunnerTypes
<1>. QED BY <1>1, <1>2, <1>3, <1>4, <1>5, <1>6

LEMMA ClaimKeeps ==
    ASSUME RunnerInv, NEW r \in Runner, Claim(r)
    PROVE  RunnerInv'
<1>. DEFINE here == Eligible \cap RowsOf(loop[r].inst)
<1>1. loop[r].pc = "claiming" /\ lock' = Unlocked(r) /\ UNCHANGED <<slot, permit, pending, unseen, monitor>>
  BY DEF Claim
<1>2. loop[r].task = NoTask
  BY <1>1 DEF RunnerInv, LocksAreHeld
<1>3. CASE here = {} /\ loop' = [loop EXCEPT ![r] = At("missed")] /\ left' = left \cup Eligible /\ UNCHANGED row
  <2>1. At("missed") \in LoopState /\ At("missed").pc = "missed" /\ At("missed").task = NoTask
    BY Places DEF Pcs
  <2>2. loop' \in [Runner -> LoopState] /\ loop'[r] = At("missed") /\ \A q \in Runner \ {r} : loop'[q] = loop[q]
    BY <1>3, <2>1, Shape
  <2>3. WorkIsAnnounced'
    BY <1>3 DEF WorkIsAnnounced, Eligible, EligibleIn
  <2>4. left' \subseteq Task
    BY <1>3, Shape DEF Eligible, EligibleIn
  <2>5. permit' \in BOOLEAN /\ pending' \subseteq Task
        /\ unseen' \in [Runner -> SUBSET {"loop", "monitor"}] /\ monitor' \in [Runner -> BOOLEAN]
    BY <1>1 DEF RunnerInv, RunnerTypeOK
  <2>. QED BY <1>1, <1>3, <2>1, <2>2, <2>3, <2>4, <2>5, Shape, MovesOn
<1>4. ASSUME NEW t \in here, row' = [row EXCEPT ![t] = "leased"],
             loop' = [loop EXCEPT ![r] = [At("claimed") EXCEPT !.task = t]], left' = left \ {t}
      PROVE  RunnerInv'
  <2>. DEFINE l == [At("claimed") EXCEPT !.task = t]
  <2>1. t \in Eligible /\ t \in Task /\ t # NoTask
    BY LeasedAlone, <1>4, RunnerTypes
  <2>2. l \in LoopState /\ l.pc = "claimed" /\ l.task = t
    BY <2>1 DEF At, LoopState, Pcs
  <2>. HIDE DEF l, here
  <2>3. loop' \in [Runner -> LoopState] /\ loop'[r] = l /\ \A q \in Runner \ {r} : loop'[q] = loop[q]
    BY <1>4, <2>2, Shape DEF l
  <2>4. lock' \in [Instance -> Runner \cup {Free, Other}]
        /\ \A i \in Instance : lock'[i] # r /\ (lock'[i] = lock[i] \/ (lock[i] = r /\ lock'[i] = Free))
    BY <1>1, UnlockedRows
  <2>5. LocksHeld'
    <3>1. LocksHeld
      BY DEF RunnerInv, RunnerTypeOK, LocksHeld
    <3>2. \A i \in Instance : lock'[i] \in Runner =>
             loop'[lock'[i]].pc = "claiming" /\ loop'[lock'[i]].inst = i
      BY <3>1, <2>3, <2>4, RunnerTypes DEF LocksHeld
    <3>3. ASSUME NEW q \in Runner
          PROVE  /\ loop'[q].pc = "claiming" => loop'[q].inst \in Instance /\ lock'[loop'[q].inst] = q
                 /\ loop'[q].pc = "claimed" <=> loop'[q].task # NoTask
      <4>1. CASE q = r
        BY <4>1, <2>1, <2>2, <2>3
      <4>2. CASE q # r
        BY <4>2, <3>1, <2>3, <2>4 DEF LocksHeld, LocksAreHeld
      <4>. QED BY <4>1, <4>2
    <3>. QED BY <3>2, <3>3 DEF LocksHeld, LocksAreHeld
  <2>6. HoldersAreLeased'
    <3>1. slot' = slot /\ HoldersAreLeased
      BY <1>1 DEF RunnerInv
    <3>a. /\ \A q \in Runner : loop[q].task # t /\ \A s \in Slot : ~ (slot[q][s].pc = "running" /\ slot[q][s].task = t)
          /\ \A q \in Runner : loop[q].task # NoTask =>
                row'[loop[q].task] = "leased" /\ \A p \in Runner, s \in Slot :
                    ~ (slot'[p][s].pc = "running" /\ slot'[p][s].task = loop[q].task)
      BY <1>4, <2>1, <3>1, HoldersBeside
    <3>2. ASSUME NEW q \in Runner, loop'[q].task # NoTask
          PROVE  /\ row'[loop'[q].task] = "leased"
                 /\ \A p \in Runner, s \in Slot : ~ (slot'[p][s].pc = "running" /\ slot'[p][s].task = loop'[q].task)
      <4>1. CASE q = r
        <5>1. loop'[q].task = t /\ row'[t] = "leased"
          BY <4>1, <1>4, <2>1, <2>2, <2>3, LeasedAlone
        <5>. QED BY <5>1, <3>1, <3>a
      <4>2. CASE q # r
        BY <4>2, <3>2, <2>3, <3>a
      <4>. QED BY <4>1, <4>2
    <3>3. \A p, q \in Runner : loop'[p].task # NoTask /\ loop'[q].task = loop'[p].task => q = p
      BY <2>2, <2>3, <3>1, <3>a DEF HoldersAreLeased
    <3>4. \A p, q \in Runner : \A s, u \in Slot : slot'[p][s].pc = "running" =>
             /\ slot'[p][s].task \in Task /\ row'[slot'[p][s].task] = "leased"
             /\ slot'[q][u].pc = "running" /\ slot'[q][u].task = slot'[p][s].task => q = p /\ u = s
      BY <1>4, <2>1, <3>1, HoldersBeside DEF HoldersAreLeased
    <3>5. \A u, v \in Task : row'[u] = "leased" /\ row'[v] = "leased" /\ InstanceOf[u] = InstanceOf[v] => u = v
      BY <1>4, <2>1, LeasedAlone
    <3>. QED BY <3>2, <3>3, <3>4, <3>5 DEF HoldersAreLeased, Running
  <2>7. WorkIsAnnounced'
    BY <2>2, <2>3, SomeoneLooks DEF Looking
  <2>8. row' \in [Task -> {"idle", "ready", "leased"}]
    BY <1>4, <2>1, LeasedAlone
  <2>9. RunnerTypeOK'
    BY <1>1, <1>4, <2>3, <2>4, <2>5, <2>8, Shape DEF RunnerInv, RunnerTypeOK, LocksHeld
  <2>. QED BY <2>5, <2>6, <2>7, <2>9 DEF RunnerInv, LocksHeld
<1>. QED BY <1>3, <1>4 DEF Claim

\* The worker takes the lease over from the loop.
LEMMA SpawnKeeps ==
    ASSUME RunnerInv, NEW r \in Runner, Spawn(r)
    PROVE  RunnerInv'
<1>. DEFINE t == loop[r].task
            w == [pc |-> "running", task |-> t]
<1>1. loop[r].pc = "claimed" /\ loop' = [loop EXCEPT ![r] = At("top")]
      /\ UNCHANGED <<row, lock, permit, pending, left, unseen, monitor>>
  BY DEF Spawn
<1>2. PICK s \in Slot : slot[r][s] = Empty /\ slot' = [slot EXCEPT ![r][s] = w]
  BY DEF Spawn
<1>3. t # NoTask /\ t \in Task /\ row[t] = "leased"
  BY <1>1, Shape DEF RunnerInv, LocksAreHeld, HoldersAreLeased
<1>4. w \in SlotState /\ w.pc = "running" /\ w.task = t
  BY <1>3 DEF SlotState
<1>5. At("top") \in LoopState /\ At("top").pc = "top" /\ At("top").task = NoTask
  BY Places DEF Pcs
<1>6. \A q \in Runner, u \in Slot : ~ (slot[q][u].pc = "running" /\ slot[q][u].task = t)
  BY <1>3 DEF RunnerInv, HoldersAreLeased, Running
<1>7. HoldersAreLeased
  BY DEF RunnerInv
<1>. HIDE DEF w, t
<1>8. /\ slot' \in [Runner -> [Slot -> SlotState]] /\ slot'[r][s] = w
      /\ \A q \in Runner, u \in Slot : q # r \/ u # s => slot'[q][u] = slot[q][u]
  BY <1>2, <1>4, Shape
<1>9. loop' \in [Runner -> LoopState] /\ loop'[r] = At("top") /\ \A q \in Runner \ {r} : loop'[q] = loop[q]
  BY <1>1, <1>5, Shape
<1>10. LocksHeld'
  <2>1. \A i \in Instance : lock'[i] # r /\ lock'[i] = lock[i]
    BY <1>1 DEF RunnerInv, RunnerTypeOK
  <2>. QED BY <1>5, <1>9, <2>1, LocksKept
<1>11. HoldersAreLeased'
  <2>1. \A q \in Runner : loop'[q].task # NoTask => loop'[q] = loop[q] /\ loop'[q].task # t /\ q # r
    BY <1>3, <1>5, <1>7, <1>9 DEF HoldersAreLeased, t
  <2>2. ASSUME NEW q \in Runner, loop'[q].task # NoTask
        PROVE  /\ row'[loop'[q].task] = "leased"
               /\ \A p \in Runner, u \in Slot : ~ (slot'[p][u].pc = "running" /\ slot'[p][u].task = loop'[q].task)
    <3>1. loop'[q] = loop[q] /\ loop[q].task # t
      BY <2>1, <2>2
    <3>2. /\ row[loop[q].task] = "leased"
          /\ \A p \in Runner, u \in Slot : ~ (slot[p][u].pc = "running" /\ slot[p][u].task = loop[q].task)
      BY <1>7, <2>2, <3>1 DEF HoldersAreLeased, Running
    <3>3. ASSUME NEW p \in Runner, NEW u \in Slot
          PROVE  ~ (slot'[p][u].pc = "running" /\ slot'[p][u].task = loop[q].task)
      <4>1. CASE p = r /\ u = s
        BY <4>1, <1>4, <1>8, <3>1
      <4>2. CASE p # r \/ u # s
        BY <4>2, <1>8, <3>2
      <4>. QED BY <4>1, <4>2
    <3>. QED BY <1>1, <3>1, <3>2, <3>3
  <2>3. \A p, q \in Runner : loop'[p].task # NoTask /\ loop'[q].task = loop'[p].task => q = p
    BY <1>7, <1>9, <2>1 DEF HoldersAreLeased
  <2>4. ASSUME NEW p \in Runner, NEW q \in Runner, NEW x \in Slot, NEW u \in Slot, slot'[p][x].pc = "running"
        PROVE  /\ slot'[p][x].task \in Task /\ row'[slot'[p][x].task] = "leased"
               /\ slot'[q][u].pc = "running" /\ slot'[q][u].task = slot'[p][x].task => q = p /\ u = x
    <3>1. CASE p = r /\ x = s
      BY <3>1, <1>1, <1>3, <1>4, <1>6, <1>8
    <3>2. CASE p # r \/ x # s
      BY <3>2, <2>4, <1>1, <1>4, <1>6, <1>7, <1>8 DEF HoldersAreLeased
    <3>. QED BY <3>1, <3>2
  <2>5. \A u, v \in Task : row'[u] = "leased" /\ row'[v] = "leased" /\ InstanceOf[u] = InstanceOf[v] => u = v
    BY <1>1, <1>7 DEF HoldersAreLeased
  <2>. QED BY <2>2, <2>3, <2>4, <2>5 DEF HoldersAreLeased, Running
<1>12. WorkIsAnnounced'
  BY <1>5, <1>9, SomeoneLooks DEF Looking
<1>13. RunnerTypeOK'
  BY <1>1, <1>8, <1>9, <1>10 DEF RunnerInv, RunnerTypeOK, LocksHeld
<1>. QED BY <1>10, <1>11, <1>12, <1>13 DEF RunnerInv, LocksHeld
\* A stored permit is taken by a loop that will look; otherwise nothing that
\* announces work is taken, for a loop that missed announces nothing.
LEMMA EnterWaitKeeps ==
    ASSUME RunnerInv, NEW r \in Runner, EnterWait(r)
    PROVE  RunnerInv'
<1>. DEFINE pc == IF permit THEN "top" ELSE "waiting"
<1>1. /\ loop[r].pc = "missed" /\ loop' = [loop EXCEPT ![r] = At(pc)] /\ permit' = FALSE
      /\ UNCHANGED <<row, lock, slot, pending, left, unseen, monitor>>
  BY DEF EnterWait
<1>2. At(pc) \in LoopState /\ At(pc).pc = pc /\ At(pc).task = NoTask
  BY Places DEF Pcs
<1>3. pc \in {"top", "waiting"} /\ (permit => pc = "top")
  OBVIOUS
<1>. HIDE DEF pc
<1>4. loop' \in [Runner -> LoopState] /\ loop'[r] = At(pc) /\ \A q \in Runner \ {r} : loop'[q] = loop[q]
  BY <1>1, <1>2, Shape
<1>5. WorkIsAnnounced'
  <2>1. CASE permit
    BY <2>1, <1>2, <1>3, <1>4, SomeoneLooks DEF Looking
  <2>2. CASE ~ permit
    <3>1. \A t \in Task : t \in Eligible' /\ t \notin left' => t \in Eligible /\ t \notin left
      BY <1>1 DEF Eligible
    <3>2. loop[r].pc \notin Looking \cup {"fetching"} /\ loop[r].pc \notin Away
      BY <1>1 DEF Looking, Away
    <3>. QED BY <1>1, <1>4, <2>2, <3>1, <3>2, AnnouncementsStand
  <2>. QED BY <2>1, <2>2
<1>6. lock' = Unlocked(r)
  BY <1>1, NothingLocked
<1>7. permit' \in BOOLEAN /\ pending' \subseteq Task /\ left' \subseteq Task
      /\ unseen' \in [Runner -> SUBSET {"loop", "monitor"}] /\ monitor' \in [Runner -> BOOLEAN]
  BY <1>1 DEF RunnerInv, RunnerTypeOK
<1>. QED BY <1>1, <1>2, <1>3, <1>4, <1>5, <1>6, <1>7, Shape, MovesOn

\* A waiter that leaves hands on the notification it may hold.
LEMMA LeavesWait ==
    ASSUME RunnerInv, NEW r \in Runner, NEW pc \in {"top", "draining"}, Waits(r), LeaveWait(r, pc)
    PROVE  /\ loop' \in [Runner -> LoopState] /\ permit' \in BOOLEAN
           /\ loop'[r].pc = pc /\ loop'[r].task = NoTask
           /\ \A q \in Runner \ {r} : loop'[q] = loop[q] \/ (loop[q].pc = "waiting" /\ loop'[q] = At("woken"))
           /\ \/ WorkIsAnnounced'
              \/ /\ loop[r].pc = "waiting" /\ permit' = permit
                 /\ \A q \in Runner \ {r} : loop'[q] = loop[q]
<1>. DEFINE w == [loop EXCEPT ![r] = At(pc)]
<1>1. At(pc) \in LoopState /\ At(pc).pc = pc /\ At(pc).task = NoTask
  BY Places DEF Pcs
<1>2. w \in [Runner -> LoopState] /\ w[r] = At(pc) /\ \A q \in Runner \ {r} : w[q] = loop[q]
  BY <1>1, Shape
<1>3. IF loop[r].pc = "woken" THEN NotifyOne(w) ELSE loop' = w /\ permit' = permit
  BY DEF LeaveWait
<1>4. permit \in BOOLEAN
  BY Shape
<1>. HIDE DEF w
<1>5. CASE loop[r].pc = "woken"
  <2>1. NotifyOne(w)
    BY <1>3, <1>5
  <2>2. /\ loop' \in [Runner -> LoopState] /\ permit' \in BOOLEAN
        /\ \A q \in Runner : loop'[q] = w[q] \/ (w[q].pc = "waiting" /\ loop'[q] = At("woken"))
        /\ WorkIsAnnounced'
    BY <1>2, <1>4, <2>1, NotifyOneWakes
  <2>. QED BY <1>1, <1>2, <2>2
<1>6. CASE loop[r].pc # "woken"
  BY <1>1, <1>2, <1>3, <1>4, <1>6 DEF Waits
<1>. QED BY <1>5, <1>6

LEMMA WaitEnds ==
    ASSUME RunnerInv, NEW r \in Runner, JoinWaiting(r) \/ SleepEnds(r)
    PROVE  RunnerInv'
<1>1. Waits(r) /\ LeaveWait(r, "top") /\ UNCHANGED <<row, lock, pending, left, unseen, monitor>>
  BY DEF JoinWaiting, SleepEnds
<1>2. /\ slot' \in [Runner -> [Slot -> SlotState]]
      /\ \A q \in Runner, s \in Slot : slot'[q][s] = slot[q][s] \/ slot'[q][s].pc # "running"
  <2>1. CASE JoinWaiting(r)
    <3>1. PICK s \in Done(r) : slot' = Joined(r, {s})
      BY <2>1 DEF JoinWaiting
    <3>. QED BY <3>1, JoinedSlots
  <2>2. CASE SleepEnds(r)
    BY <2>2, Shape DEF SleepEnds
  <2>. QED BY <2>1, <2>2
<1>3. /\ loop' \in [Runner -> LoopState] /\ permit' \in BOOLEAN
      /\ loop'[r].pc = "top" /\ loop'[r].task = NoTask
      /\ \A q \in Runner \ {r} : loop'[q] = loop[q] \/ (loop[q].pc = "waiting" /\ loop'[q] = At("woken"))
  BY <1>1, LeavesWait
<1>4. lock' = Unlocked(r)
  BY <1>1, NothingLocked DEF Waits
<1>5. WorkIsAnnounced'
  BY <1>3, SomeoneLooks DEF Looking
<1>6. pending' \subseteq Task /\ left' \subseteq Task
      /\ unseen' \in [Runner -> SUBSET {"loop", "monitor"}] /\ monitor' \in [Runner -> BOOLEAN]
  BY <1>1 DEF RunnerInv, RunnerTypeOK
<1>. QED BY <1>1, <1>2, <1>3, <1>4, <1>5, <1>6, MovesOn

\* A loop that stops leaves to polling what it was looking for, or, if it
\* only waited, nothing.
LEMMA StopKeeps ==
    ASSUME RunnerInv, NEW r \in Runner, StopLoop(r)
    PROVE  RunnerInv'
<1>1. UNCHANGED <<row, slot, pending, monitor>> /\ unseen' = [unseen EXCEPT ![r] = @ \ {"loop"}]
  BY DEF StopLoop
<1>2. pending' \subseteq Task /\ monitor' \in [Runner -> BOOLEAN]
      /\ unseen' \in [Runner -> SUBSET {"loop", "monitor"}]
  BY <1>1 DEF RunnerInv, RunnerTypeOK
<1>3. CASE Waits(r) /\ LeaveWait(r, "draining") /\ UNCHANGED <<lock, left>>
  <2>1. /\ loop' \in [Runner -> LoopState] /\ permit' \in BOOLEAN
        /\ loop'[r].pc = "draining" /\ loop'[r].task = NoTask
        /\ \A q \in Runner \ {r} : loop'[q] = loop[q] \/ (loop[q].pc = "waiting" /\ loop'[q] = At("woken"))
        /\ \/ WorkIsAnnounced'
           \/ /\ loop[r].pc = "waiting" /\ permit' = permit
              /\ \A q \in Runner \ {r} : loop'[q] = loop[q]
    BY <1>3, LeavesWait
  <2>2. WorkIsAnnounced'
    <3>1. CASE /\ loop[r].pc = "waiting" /\ permit' = permit
               /\ \A q \in Runner \ {r} : loop'[q] = loop[q]
      <4>1. \A t \in Task : t \in Eligible' /\ t \notin left' => t \in Eligible /\ t \notin left
        BY <1>1, <1>3 DEF Eligible
      <4>2. loop[r].pc \notin Looking \cup {"fetching"} /\ loop[r].pc \notin Away
        BY <3>1 DEF Looking, Away
      <4>. QED BY <1>1, <3>1, <4>1, <4>2, AnnouncementsStand
    <3>. QED BY <2>1, <3>1
  <2>3. lock' = Unlocked(r)
    BY <1>3, NothingLocked DEF Waits
  <2>4. left' \subseteq Task
    BY <1>3, Shape
  <2>. QED BY <1>1, <1>2, <2>1, <2>2, <2>3, <2>4, Shape, MovesOn
<1>4. CASE /\ loop' = [loop EXCEPT ![r] = At("draining")] /\ lock' = Unlocked(r)
           /\ left' = left \cup Eligible /\ UNCHANGED permit
  <2>1. At("draining") \in LoopState /\ At("draining").pc = "draining" /\ At("draining").task = NoTask
    BY Places DEF Pcs
  <2>2. loop' \in [Runner -> LoopState] /\ loop'[r] = At("draining") /\ \A q \in Runner \ {r} : loop'[q] = loop[q]
    BY <1>4, <2>1, Shape
  <2>3. WorkIsAnnounced'
    BY <1>1, <1>4 DEF WorkIsAnnounced, Eligible, EligibleIn
  <2>4. left' \subseteq Task /\ permit' \in BOOLEAN
    BY <1>4, Shape DEF Eligible, EligibleIn
  <2>. QED BY <1>1, <1>2, <1>4, <2>1, <2>2, <2>3, <2>4, Shape, MovesOn
<1>. QED BY <1>3, <1>4 DEF StopLoop

LEMMA DrainKeeps ==
    ASSUME RunnerInv, NEW r \in Runner, Drain(r)
    PROVE  RunnerInv'
<1>1. loop[r].pc = "draining" /\ UNCHANGED <<row, lock, permit, pending, left, unseen, monitor>>
  BY DEF Drain
<1>2. /\ slot' \in [Runner -> [Slot -> SlotState]]
      /\ \A q \in Runner, s \in Slot : slot'[q][s] = slot[q][s] \/ (slot'[q][s].pc = "none" /\ slot[q][s].pc = "done")
  <2>1. CASE \E s \in Done(r) : slot' = Joined(r, {s})
    <3>1. PICK s \in Done(r) : slot' = Joined(r, {s})
      BY <2>1
    <3>. QED BY <3>1, JoinedSlots
  <2>2. CASE slot' = slot
    BY <2>2, Shape
  <2>. QED BY <2>1, <2>2 DEF Drain
<1>3. /\ loop' \in [Runner -> LoopState] /\ loop'[r].pc \in {"draining", "stopped"} /\ loop'[r].task = NoTask
      /\ \A q \in Runner \ {r} : loop'[q] = loop[q]
  <2>1. At("stopped") \in LoopState /\ At("stopped").pc = "stopped" /\ At("stopped").task = NoTask
    BY Places DEF Pcs
  <2>2. loop[r].task = NoTask
    BY <1>1 DEF RunnerInv, LocksAreHeld
  <2>. QED BY <1>1, <2>1, <2>2, Shape DEF Drain
<1>4. WorkIsAnnounced'
  <2>1. \A t \in Task : t \in Eligible' /\ t \notin left' => t \in Eligible /\ t \notin left
    BY <1>1 DEF Eligible
  <2>2. loop[r].pc \notin Looking \cup {"fetching"} /\ loop'[r].pc \in Away
    BY <1>1, <1>3 DEF Looking, Away
  <2>. QED BY <1>1, <1>2, <1>3, <2>1, <2>2, AnnouncementsStand
<1>5. lock' = Unlocked(r)
  BY <1>1, NothingLocked
<1>6. permit' \in BOOLEAN /\ pending' \subseteq Task /\ left' \subseteq Task
      /\ unseen' \in [Runner -> SUBSET {"loop", "monitor"}] /\ monitor' \in [Runner -> BOOLEAN]
  BY <1>1 DEF RunnerInv, RunnerTypeOK
<1>. QED BY <1>1, <1>2, <1>3, <1>4, <1>5, <1>6, MovesOn
-----------------------------------------------------------------------------
(* Workers, callers and what happens silently.                             *)
\* Steps that keep every loop and its lock, or wake one loop.
LEMMA LoopsStay ==
    ASSUME RunnerInv, loop' \in [Runner -> LoopState], lock' = lock,
           \A r \in Runner : loop'[r] = loop[r] \/ (loop[r].pc = "waiting" /\ loop'[r] = At("woken")),
           row' \in [Task -> {"idle", "ready", "leased"}], slot' \in [Runner -> [Slot -> SlotState]],
           permit' \in BOOLEAN, pending' \subseteq Task, left' \subseteq Task, UNCHANGED <<unseen, monitor>>,
           HoldersAreLeased', WorkIsAnnounced'
    PROVE  RunnerInv'
<1>1. At("woken").pc = "woken" /\ At("woken").task = NoTask
  BY Places DEF Pcs
<1>2. \A r \in Runner : loop[r].pc = "waiting" => \A i \in Instance : lock[i] # r
  BY DEF RunnerInv, RunnerTypeOK
<1>3. LocksHeld'
  BY <1>1, <1>2, LocksKept
<1>4. RunnerTypeOK'
  BY <1>3, Shape DEF RunnerInv, RunnerTypeOK, LocksHeld
<1>. QED BY <1>3, <1>4 DEF RunnerInv, LocksHeld

\* One worker moves on.
LEMMA OneSlot ==
    ASSUME RunnerInv, NEW r \in Runner, NEW s \in Slot, NEW pc \in {"committed", "finishing", "done"},
           slot' = [slot EXCEPT ![r][s].pc = pc]
    PROVE  /\ slot' \in [Runner -> [Slot -> SlotState]]
           /\ slot'[r][s].pc = pc /\ slot'[r][s].task = slot[r][s].task
           /\ \A q \in Runner, u \in Slot : q # r \/ u # s => slot'[q][u] = slot[q][u]
<1>. DEFINE x == [slot[r][s] EXCEPT !.pc = pc]
<1>1. x \in SlotState /\ x.pc = pc /\ x.task = slot[r][s].task
  BY Shape DEF SlotState
<1>2. slot' = [slot EXCEPT ![r][s] = x]
  OBVIOUS
<1>. HIDE DEF x
<1>. QED BY <1>1, <1>2, Shape

\* What a commit does to the rows: nobody else's lease is touched.
LEMMA CommittedKeeps ==
    ASSUME RunnerInv, NEW t \in Task, NEW q \in CommittedRows(t), row' = q
    PROVE  /\ row' \in [Task -> {"idle", "ready", "leased"}]
           /\ \A u \in Task : row'[u] = "leased" => row[u] = "leased"
           /\ \A u \in Task \ {t} : row[u] = "leased" => row'[u] = "leased"
  BY Shape DEF CommittedRows

LEMMA CommitKeeps ==
    ASSUME RunnerInv, NEW r \in Runner, NEW s \in Slot, Commit(r, s)
    PROVE  RunnerInv'
<1>. DEFINE t == slot[r][s].task
<1>1. /\ slot[r][s].pc = "running" /\ slot' = [slot EXCEPT ![r][s].pc = "committed"]
      /\ row' \in CommittedRows(t)
      /\ UNCHANGED <<lock, loop, permit, pending, left, unseen, monitor>>
  BY DEF Commit
<1>2. t \in Task /\ row[t] = "leased"
  BY <1>1 DEF RunnerInv, HoldersAreLeased
<1>3. \A q \in Runner, u \in Slot : slot[q][u].pc = "running" /\ slot[q][u].task = t => q = r /\ u = s
  BY <1>1 DEF RunnerInv, HoldersAreLeased
<1>4. \A q \in Runner : loop[q].task # t
  BY <1>1, <1>2, RunnerTypes DEF RunnerInv, HoldersAreLeased, Running
<1>. HIDE DEF t
<1>5. /\ row' \in [Task -> {"idle", "ready", "leased"}]
      /\ \A u \in Task : row'[u] = "leased" => row[u] = "leased"
      /\ \A u \in Task \ {t} : row[u] = "leased" => row'[u] = "leased"
  BY <1>1, <1>2, CommittedKeeps
<1>6. /\ slot' \in [Runner -> [Slot -> SlotState]] /\ slot'[r][s].pc = "committed"
      /\ \A q \in Runner, u \in Slot : q # r \/ u # s => slot'[q][u] = slot[q][u]
  BY <1>1, OneSlot
<1>7. HoldersAreLeased'
  BY <1>1, <1>3, <1>4, <1>5, <1>6, HoldersKept
<1>8. WorkIsAnnounced'
  BY <1>6 DEF WorkIsAnnounced, Announced
<1>9. permit' \in BOOLEAN /\ pending' \subseteq Task /\ left' \subseteq Task /\ loop' \in [Runner -> LoopState]
  BY <1>1, Shape
<1>. QED BY <1>1, <1>5, <1>6, <1>7, <1>8, <1>9, LoopsStay

LEMMA WorkerKeeps ==
    ASSUME RunnerInv, NEW r \in Runner, NEW s \in Slot,
           NotifyCommitted(r, s) \/ Finish(r, s) \/ FailAttempt(r, s)
    PROVE  RunnerInv'
<1>1. UNCHANGED <<row, lock, pending, left, unseen, monitor>>
  BY DEF NotifyCommitted, Finish, FailAttempt
<1>2. /\ slot' \in [Runner -> [Slot -> SlotState]]
      /\ \A q \in Runner, u \in Slot : slot'[q][u] = slot[q][u] \/ slot'[q][u].pc \in {"finishing", "done"}
  BY OneSlot DEF NotifyCommitted, Finish, FailAttempt
<1>3. /\ loop' \in [Runner -> LoopState] /\ permit' \in BOOLEAN /\ WorkIsAnnounced'
      /\ \A q \in Runner : loop'[q] = loop[q] \/ (loop[q].pc = "waiting" /\ loop'[q] = At("woken"))
  <2>1. CASE NotifyCommitted(r, s)
    <3>1. NotifyOne(loop)
      BY <2>1 DEF NotifyCommitted
    <3>. QED BY <3>1, Shape, NotifyOneWakes
  <2>2. CASE Finish(r, s) \/ FailAttempt(r, s)
    <3>1. loop' = loop /\ permit' = permit /\ slot[r][s].pc # "committed"
          /\ slot' = [slot EXCEPT ![r][s].pc = "done"]
      BY <2>2 DEF Finish, FailAttempt
    <3>2. \A q \in Runner, u \in Slot : slot[q][u].pc = "committed" => slot'[q][u].pc = "committed"
      BY <3>1, OneSlot
    <3>3. \A t \in Task : t \in Eligible' /\ t \notin left' => t \in Eligible /\ t \notin left
      BY <1>1 DEF Eligible
    <3>4. WorkIsAnnounced'
      BY <1>1, <3>1, <3>2, <3>3, AnnouncementsStand
    <3>. QED BY <3>1, <3>4, Shape
  <2>. QED BY <2>1, <2>2
<1>4. HoldersAreLeased'
  <2>1. \A q \in Runner : loop'[q].task = loop[q].task \/ loop'[q].task = NoTask
    BY <1>3, Places DEF Pcs
  <2>. QED BY <1>1, <1>2, <2>1, HoldersKept
<1>5. pending' \subseteq Task /\ left' \subseteq Task /\ row' \in [Task -> {"idle", "ready", "leased"}]
  BY <1>1, Shape
<1>. QED BY <1>1, <1>2, <1>3, <1>4, <1>5, LoopsStay

\* A row becomes ready and no lease changes.
LEMMA PostKeeps ==
    ASSUME RunnerInv, NEW t \in Task, Post(t)
    PROVE  RunnerInv'
<1>1. /\ row[t] = "idle" /\ row' = [row EXCEPT ![t] = "ready"] /\ pending' = pending \cup {t}
      /\ UNCHANGED <<lock, loop, slot, permit, left, unseen, monitor>>
  BY DEF Post
<1>2. /\ row' \in [Task -> {"idle", "ready", "leased"}]
      /\ \A u \in Task : row'[u] = "leased" <=> row[u] = "leased"
  BY <1>1, Shape
<1>3. HoldersAreLeased'
  BY <1>1, <1>2, HoldersKept
<1>4. WorkIsAnnounced'
  BY <1>1 DEF WorkIsAnnounced, Announced
<1>. QED BY <1>1, <1>2, <1>3, <1>4, Shape, LoopsStay

LEMMA PostedKeeps ==
    ASSUME RunnerInv, NEW t \in Task, NotifyPosted(t) \/ DropPost(t)
    PROVE  RunnerInv'
<1>1. pending' = pending \ {t} /\ UNCHANGED <<row, lock, slot, unseen, monitor>>
  BY DEF NotifyPosted, DropPost
<1>2. /\ loop' \in [Runner -> LoopState] /\ permit' \in BOOLEAN /\ left' \subseteq Task /\ WorkIsAnnounced'
      /\ \A q \in Runner : loop'[q] = loop[q] \/ (loop[q].pc = "waiting" /\ loop'[q] = At("woken"))
  <2>1. CASE NotifyPosted(t)
    <3>1. NotifyOne(loop) /\ left' = left
      BY <2>1 DEF NotifyPosted
    <3>. QED BY <3>1, Shape, NotifyOneWakes
  <2>2. CASE DropPost(t)
    <3>1. loop' = loop /\ permit' = permit /\ left' = left \cup Eligible
      BY <2>2 DEF DropPost
    <3>2. WorkIsAnnounced'
      BY <1>1, <3>1 DEF WorkIsAnnounced, Eligible, EligibleIn
    <3>. QED BY <3>1, <3>2, Shape DEF Eligible, EligibleIn
  <2>. QED BY <2>1, <2>2
<1>3. HoldersAreLeased'
  <2>1. \A q \in Runner : loop'[q].task = loop[q].task \/ loop'[q].task = NoTask
    BY <1>2, Places DEF Pcs
  <2>. QED BY <1>1, <2>1, HoldersKept
<1>. QED BY <1>1, <1>2, <1>3, Shape, LoopsStay

\* What becomes eligible silently is left to polling.
LEMMA SilentlyKeeps ==
    ASSUME RunnerInv, NEW t \in Task, NEW q \in [Task -> {"idle", "ready", "leased"}], Silently(q),
           \A u \in Task : q[u] = "leased" => row[u] = "leased",
           \A u \in Task \ {t} : row[u] = "leased" => q[u] = "leased",
           row[t] = "leased" => Orphan(t)
    PROVE  RunnerInv'
<1>1. /\ row' = q /\ left' = left \cup (EligibleIn(q) \ Eligible)
      /\ UNCHANGED <<lock, loop, slot, permit, pending, unseen, monitor>>
  BY DEF Silently
<1>2. HoldersAreLeased'
  <2>1. row[t] = "leased" => /\ \A r \in Runner, s \in Slot : ~ (slot[r][s].pc = "running" /\ slot[r][s].task = t)
                             /\ \A r \in Runner : loop[r].task # t
    BY DEF Orphan, Running
  <2>. QED BY <1>1, <2>1, HoldersKept
<1>3. Eligible' = EligibleIn(q)
  BY <1>1 DEF Eligible, EligibleIn
<1>4. WorkIsAnnounced'
  BY <1>1, <1>3, AnnouncementsStand
<1>5. left' \subseteq Task
  BY <1>1, Shape DEF EligibleIn
<1>. QED BY <1>1, <1>2, <1>4, <1>5, Shape, LoopsStay

LEMMA DueKeeps ==
    ASSUME RunnerInv, NEW t \in Task, row[t] = "idle" \/ Orphan(t), Silently([row EXCEPT ![t] = "ready"])
    PROVE  RunnerInv'
<1>. DEFINE q == [row EXCEPT ![t] = "ready"]
<1>1. /\ q \in [Task -> {"idle", "ready", "leased"}] /\ q[t] = "ready"
      /\ \A u \in Task \ {t} : q[u] = row[u]
  BY Shape
<1>2. Silently(q)
  OBVIOUS
<1>. HIDE DEF q
<1>. QED BY <1>1, <1>2, SilentlyKeeps

LEMMA SilentKeeps == ASSUME RunnerInv, Silent PROVE RunnerInv'
<1>1. PICK t \in Task : \/ row[t] = "idle" /\ Silently([row EXCEPT ![t] = "ready"])
                        \/ Orphan(t) /\ \E q \in CommittedRows(t) : Silently(q)
  BY DEF Silent
<1>2. CASE row[t] = "idle" /\ Silently([row EXCEPT ![t] = "ready"])
  BY <1>2, DueKeeps
<1>3. ASSUME Orphan(t), NEW q \in CommittedRows(t), Silently(q) PROVE RunnerInv'
  <2>1. row' = q
    BY <1>3 DEF Silently
  <2>2. /\ q \in [Task -> {"idle", "ready", "leased"}]
        /\ \A u \in Task : q[u] = "leased" => row[u] = "leased"
        /\ \A u \in Task \ {t} : row[u] = "leased" => q[u] = "leased"
    BY <2>1, CommittedKeeps
  <2>. QED BY <1>3, <2>2, SilentlyKeeps
<1>. QED BY <1>1, <1>2, <1>3

LEMMA RemoteKeeps ==
    ASSUME RunnerInv, NEW t \in Task, RemoteClaim(t)
    PROVE  RunnerInv'
<1>1. /\ t \in Eligible /\ row' = [row EXCEPT ![t] = "leased"] /\ left' = left \ {t}
      /\ UNCHANGED <<lock, loop, slot, permit, pending, unseen, monitor>>
  BY DEF RemoteClaim
<1>2. /\ row' \in [Task -> {"idle", "ready", "leased"}] /\ Eligible' \subseteq Eligible \ {t}
      /\ \A u, v \in Task : row'[u] = "leased" /\ row'[v] = "leased" /\ InstanceOf[u] = InstanceOf[v] => u = v
  BY <1>1, LeasedAlone
<1>3. HoldersAreLeased'
  <2>1. \A r \in Runner : loop[r].task # NoTask =>
           row'[loop[r].task] = "leased" /\ \A q \in Runner, s \in Slot :
               ~ (slot'[q][s].pc = "running" /\ slot'[q][s].task = loop[r].task)
    BY <1>1, HoldersBeside
  <2>2. \A r \in Runner, s \in Slot : slot'[r][s].pc = "running" =>
           slot'[r][s].task \in Task /\ row'[slot'[r][s].task] = "leased"
    BY <1>1, HoldersBeside
  <2>3. HoldersAreLeased /\ loop' = loop /\ slot' = slot
    BY <1>1 DEF RunnerInv
  <2>. QED BY <1>2, <2>1, <2>2, <2>3 DEF HoldersAreLeased, Running
<1>4. WorkIsAnnounced'
  BY <1>1, <1>2, AnnouncementsStand
<1>. QED BY <1>1, <1>2, <1>3, <1>4, Shape, LoopsStay

\* Steps that touch neither rows nor loops.
LEMMA AsideKeeps ==
    ASSUME RunnerInv, UNCHANGED <<row, loop, slot, permit, pending, left>>,
           lock' \in [Instance -> Runner \cup {Free, Other}],
           \A i \in Instance : lock'[i] = lock[i] \/ (lock[i] \notin Runner /\ lock'[i] \notin Runner),
           unseen' \in [Runner -> SUBSET {"loop", "monitor"}], monitor' \in [Runner -> BOOLEAN]
    PROVE  RunnerInv'
<1>1. LocksHeld'
  BY Shape, LocksKept
<1>2. HoldersAreLeased'
  BY HoldersKept
<1>3. WorkIsAnnounced'
  <2>1. \A t \in Task : t \in Eligible' /\ t \notin left' => t \in Eligible /\ t \notin left
    BY DEF Eligible
  <2>. QED BY <2>1, AnnouncementsStand
<1>4. RunnerTypeOK'
  BY <1>1, Shape DEF RunnerTypeOK, LocksHeld
<1>. QED BY <1>1, <1>2, <1>3, <1>4 DEF RunnerInv, LocksHeld

LEMMA AsideSteps ==
    ASSUME RunnerInv,
           \/ \E r \in Runner : EndMonitor(r) \/ Trigger(r)
           \/ \E i \in Instance : LockOther(i) \/ UnlockOther(i)
    PROVE  RunnerInv'
<1>1. unseen \in [Runner -> SUBSET {"loop", "monitor"}] /\ monitor \in [Runner -> BOOLEAN]
  BY DEF RunnerInv, RunnerTypeOK
<1>2. ASSUME NEW r \in Runner, EndMonitor(r) PROVE RunnerInv'
  BY <1>1, <1>2, Shape, AsideKeeps DEF EndMonitor
<1>3. ASSUME NEW r \in Runner, Trigger(r) PROVE RunnerInv'
  BY <1>1, <1>3, Shape, AsideKeeps DEF Trigger
<1>4. ASSUME NEW i \in Instance, LockOther(i) PROVE RunnerInv'
  BY <1>1, <1>4, Shape, RunnerTypes, AsideKeeps DEF LockOther
<1>5. ASSUME NEW i \in Instance, UnlockOther(i) PROVE RunnerInv'
  BY <1>1, <1>5, Shape, RunnerTypes, AsideKeeps DEF UnlockOther
<1>. QED BY <1>2, <1>3, <1>4, <1>5

-----------------------------------------------------------------------------
(* The theorems.                                                           *)
LEMMA RunnerNext == RunnerInv /\ [Next]_vars => RunnerInv'
<1>. SUFFICES ASSUME RunnerInv, [Next]_vars PROVE RunnerInv'
  OBVIOUS
<1>1. ASSUME NEW r \in Runner, LoopStep(r) PROVE RunnerInv'
  BY <1>1, StartKeeps, TopKeeps, RestKeeps, ChooseKeeps, ClaimKeeps, SpawnKeeps, EnterWaitKeeps, WaitEnds, DrainKeeps
     DEF LoopStep
<1>2. ASSUME NEW r \in Runner, FetchFails(r) \/ StopLoop(r) PROVE RunnerInv'
  BY <1>2, RestKeeps, StopKeeps
<1>3. ASSUME NEW r \in Runner, NEW s \in Slot, WorkerEnds(r, s) \/ WorkerStep(r, s) PROVE RunnerInv'
  BY <1>3, CommitKeeps, WorkerKeeps DEF WorkerEnds, WorkerStep
<1>4. ASSUME NEW t \in Task, Post(t) \/ NotifyPosted(t) \/ DropPost(t) \/ Expire(t) \/ RemoteClaim(t) PROVE RunnerInv'
  BY <1>4, PostKeeps, PostedKeeps, DueKeeps, RemoteKeeps DEF Expire
<1>5. CASE Silent
  BY <1>5, SilentKeeps
<1>6. CASE UNCHANGED vars
  BY <1>6, Shape, AsideKeeps DEF vars, RunnerInv, RunnerTypeOK
<1>. QED BY <1>1, <1>2, <1>3, <1>4, <1>5, <1>6, AsideSteps DEF Next

\* Every reachable state satisfies the inductive invariant.
THEOREM RunnerHolds == Spec => []RunnerInv
  BY RunnerInit, RunnerNext, PTL DEF Spec

\* The variables have their types, and only a dequeue between its two
\* statements holds an instance row (fetch_queue_task).
THEOREM RunnerTyped == Spec => []RunnerTypeOK
<1>1. RunnerInv => RunnerTypeOK
  BY DEF RunnerInv
<1>. QED BY <1>1, RunnerHolds, PTL

\* A task's worker holds the one lease of its instance, for any number of
\* runners, processes and slots (fetch_queue_task, run_until_stopped).
THEOREM OneWorker == Spec => []OneWorkerPerInstance
<1>1. ASSUME RunnerInv PROVE OneWorkerPerInstance
  <2>. SUFFICES ASSUME NEW r \in Runner, NEW q \in Runner, NEW s \in Slot, NEW u \in Slot, slot[r][s].pc = "running"
                PROVE  /\ {x \in RowsOf(InstanceOf[slot[r][s].task]) : row[x] = "leased"} = {slot[r][s].task}
                       /\ slot[q][u].pc = "running" /\ slot[q][u].task = slot[r][s].task => r = q /\ s = u
    BY DEF OneWorkerPerInstance
  <2>1. HoldersAreLeased
    BY <1>1 DEF RunnerInv
  <2>. QED BY <2>1 DEF HoldersAreLeased, RowsOf
<1>. QED BY <1>1, RunnerHolds, PTL

\* A quiet engine never holds work that a local commit announced: each wakeup
\* reaches a runner that looks, however many share the Notify
\* (notify_one, wait_for_queue_activity).
THEOREM WakeupsAreNotLost == Spec => []NoLostWakeup
<1>1. ASSUME RunnerInv PROVE NoLostWakeup
  <2>. SUFFICES ASSUME Quiet, NEW t \in Eligible, t \notin left PROVE FALSE
    BY DEF NoLostWakeup
  <2>1. Announced(t)
    BY <1>1 DEF RunnerInv, WorkIsAnnounced
  <2>2. /\ ~ permit /\ pending = {} /\ \A r \in Runner, s \in Slot : slot[r][s].pc # "committed"
        /\ \A r \in Runner : loop[r].pc \in Away \cup {"waiting"}
        /\ \E r \in Runner : loop[r].pc \notin Away
    BY DEF Quiet, Away
  <2>. QED BY <2>1, <2>2 DEF Announced, Looking, Away
<1>. QED BY <1>1, RunnerHolds, PTL
=============================================================================

--------------------------- MODULE SelectorProofs ---------------------------
(* Theorems about Selector, for tables of any size and any number of       *)
(* threads.                                                                *)
EXTENDS Selector, WellFoundedInduction, TLAPS

-----------------------------------------------------------------------------
(* The table.                                                              *)

(* A bounded, non-empty set of naturals has a greatest element, so the     *)
(* CHOOSE of items_max_fd picks it.                                        *)
LEMMA GreatestExists ==
  ASSUME NEW S \in SUBSET Nat, NEW b \in Nat, \A x \in S : x <= b, S # {}
  PROVE  \E m \in S : \A x \in S : x <= m
<1> DEFINE T == {b - x : x \in S}
<1>1. T \in SUBSET Nat /\ T # {}
  <2>1. ASSUME NEW x \in S PROVE b - x \in Nat
    BY x \in Nat, x <= b
  <2>2. PICK x \in S : TRUE
    OBVIOUS
  <2>3. b - x \in T
    OBVIOUS
  <2> QED
    BY <2>1, <2>3
<1>2. PICK k \in T : \A y \in T : ~(<<y, k>> \in OpToRel(<, Nat))
  BY <1>1, NatLessThanWellFounded, WFMin
<1>3. \A y \in T : ~(y < k)
  BY <1>1, <1>2 DEF OpToRel
<1>4. PICK m \in S : k = b - m
  BY <1>2
<1>5. \A x \in S : x <= m
  <2> SUFFICES ASSUME NEW x \in S PROVE x <= m
    OBVIOUS
  <2>1. b - x \in T
    OBVIOUS
  <2>2. ~(b - x < b - m)
    BY <2>1, <1>3, <1>4
  <2> QED
    BY <2>2
<1> QED
  BY <1>4, <1>5

\* What every table the selector reaches satisfies.
GoodTable(s) == s \in Table /\ HasHighestFd(s)

LEMMA EmptyTableGood == GoodTable(EmptyTable)
BY SelectorAssumption
DEF GoodTable, EmptyTable, Table, HasHighestFd, Used, ITEM_USED, FD_UNUSED, FD,
    Item, Interest

(* selector_register keeps max_fd the highest registered descriptor.       *)
LEMMA RegisterGood ==
  ASSUME NEW s, GoodTable(s), NEW fd \in FD,
         NEW i \in Interest, NEW d \in Data
  PROVE  GoodTable(selector_register(s, fd, i, d))
<1> DEFINE t == selector_register(s, fd, i, d)
<1>1. s.item \in [FD -> Item] /\ s.max_fd \in FD
  BY DEF GoodTable, Table
<1>2. [interest |-> i, data |-> d] \in Item
  BY DEF Item
<1>3. /\ t.item = [s.item EXCEPT ![fd] = [interest |-> i, data |-> d]]
      /\ t.max_fd = IF fd > s.max_fd THEN fd ELSE s.max_fd
  BY DEF selector_register
<1>4. t \in Table
  BY <1>1, <1>2 DEF selector_register, Table
<1>5. Used(t) = Used(s) \cup {fd}
  BY <1>1, <1>3, SelectorAssumption DEF Used, ITEM_USED
<1>6. fd \in Int /\ s.max_fd \in Int /\ \A g \in Used(s) : g \in Int
  BY <1>1, SelectorAssumption DEF Used, FD
<1>7. HasHighestFd(t)
  BY <1>3, <1>5, <1>6, SelectorAssumption DEF GoodTable, HasHighestFd, FD
<1> QED
  BY <1>4, <1>7 DEF GoodTable

(* So does selector_unregister_fd, whose rescan stops at the old max_fd.   *)
LEMMA UnregisterGood ==
  ASSUME NEW s, GoodTable(s), NEW fd
  PROVE  GoodTable(selector_unregister_fd(s, fd))
<1> DEFINE item == [s.item EXCEPT ![fd] = FD_UNUSED]
           t == [item |-> item, max_fd |-> items_max_fd(item, s.max_fd)]
           seen == {g \in 0 .. s.max_fd : item[g].data # NoData}
<1>1. CASE ~(fd \in FD /\ ITEM_USED(s, fd))
  BY <1>1 DEF selector_unregister_fd
<1>2. CASE fd \in FD /\ ITEM_USED(s, fd)
  <2>1. selector_unregister_fd(s, fd) = t
    BY <1>2 DEF selector_unregister_fd
  <2>2. s.item \in [FD -> Item] /\ s.max_fd \in FD
    BY DEF GoodTable, Table
  <2>3. item \in [FD -> Item]
    BY <2>2 DEF Item, FD_UNUSED, Interest
  <2>4. s.max_fd \in Nat /\ 0 .. s.max_fd \subseteq FD
    BY <2>2, SelectorAssumption DEF FD
  <2>5. Used(t) = Used(s) \ {fd}
    BY <1>2, <2>2 DEF Used, ITEM_USED, FD_UNUSED
  <2>6. Used(t) = seen
    <3>1. \A g \in FD : g \in Used(t) => g \in 0 .. s.max_fd
      BY <2>4, <2>5, SelectorAssumption DEF GoodTable, HasHighestFd, FD
    <3> QED
      BY <3>1, <2>4 DEF Used, ITEM_USED
  <2>7. CASE seen = {}
    <3>1. t.max_fd = 0
      BY <2>7 DEF items_max_fd
    <3>2. 0 \in FD
      BY SelectorAssumption DEF FD
    <3> QED
      BY <2>1, <2>3, <2>6, <2>7, <3>1, <3>2 DEF GoodTable, Table, HasHighestFd
  <2>8. CASE seen # {}
    <3>1. \E m \in seen : \A g \in seen : g <= m
      <4>1. seen \in SUBSET Nat /\ \A g \in seen : g <= s.max_fd
        BY <2>4
      <4> QED
        BY <4>1, <2>4, <2>8, GreatestExists
    <3>2. t.max_fd = CHOOSE m \in seen : \A g \in seen : g <= m
      BY <2>8 DEF items_max_fd
    <3>3. t.max_fd \in seen /\ \A g \in seen : g <= t.max_fd
      BY <3>1, <3>2
    <3>4. t.max_fd \in FD
      BY <3>3, <2>4
    <3> QED
      BY <2>1, <2>3, <2>6, <3>3, <3>4 DEF GoodTable, Table, HasHighestFd
  <2> QED
    BY <2>7, <2>8
<1> QED
  BY <1>1, <1>2

(* selector_set_interest moves no registration.                            *)
LEMMA SetInterestGood ==
  ASSUME NEW s, GoodTable(s), NEW fd, NEW i \in Interest
  PROVE  GoodTable(selector_set_interest(s, fd, i))
<1> DEFINE t == selector_set_interest(s, fd, i)
<1>1. CASE ~(fd \in FD /\ ITEM_USED(s, fd))
  BY <1>1 DEF selector_set_interest
<1>2. CASE fd \in FD /\ ITEM_USED(s, fd)
  <2>1. s.item \in [FD -> Item] /\ s.max_fd \in FD
    BY DEF GoodTable, Table
  <2>2. t = [s EXCEPT !.item[fd].interest = i]
    BY <1>2 DEF selector_set_interest
  <2>3. t \in Table /\ t.max_fd = s.max_fd
    BY <1>2, <2>1, <2>2 DEF GoodTable, Table, Item
  <2>4. \A g \in FD : t.item[g].data = s.item[g].data
    BY <1>2, <2>1, <2>2 DEF GoodTable, Table, Item
  <2>5. Used(t) = Used(s)
    BY <2>4 DEF Used, ITEM_USED
  <2> QED
    BY <2>3, <2>5 DEF GoodTable, HasHighestFd
<1> QED
  BY <1>1, <1>2

-----------------------------------------------------------------------------
(* The inductive invariant.  NoLostWakeup speaks of pselect only; what is  *)
(* inductive covers the way into pselect, too: from the moment the list    *)
(* was emptied the signal is blocked, so it stays pending.                 *)
Wakeable ==
  pc \in {"loop", "pselect"} /\ jobs # <<>> =>
    sigpending \/ \E w \in Workers : wpc[w] = "kill"

MutexHeldForWalk == mutex <=> pc = "jobs"

IInv == TypeOK /\ HasHighestFd(sel) /\ Wakeable /\ MutexHeldForWalk

\* The parts of TypeOK, by who writes them.
LoopTypes ==
  /\ slave_r \in SUBSET FD /\ slave_w \in SUBSET FD
  /\ pc \in {"loop", "pselect", "iterate", "notify", "jobs"}
  /\ cursor \in 0 .. ITEMS_MAX_SIZE /\ limit \in FD
  /\ key \in Data \cup {NoData}
  /\ inHandler \in BOOLEAN

JobTypes ==
  /\ jobs \in Seq(FD) /\ walk \in Seq(FD)
  /\ mutex \in BOOLEAN /\ sigpending \in BOOLEAN

ThreadTypes ==
  /\ wpc \in [Workers -> {"idle", "work", "notify", "kill"}]
  /\ wfd \in [Workers -> FD]

LEMMA TypeParts ==
  /\ IInv <=> GoodTable(sel) /\ LoopTypes /\ JobTypes /\ ThreadTypes
             /\ Wakeable /\ MutexHeldForWalk
  /\ IInv' <=> GoodTable(sel') /\ LoopTypes' /\ JobTypes' /\ ThreadTypes'
              /\ Wakeable' /\ MutexHeldForWalk'
BY DEF IInv, TypeOK, GoodTable, LoopTypes, JobTypes, ThreadTypes, HasHighestFd,
       Used, ITEM_USED

LEMMA InitIInv == Init => IInv
<1> SUFFICES ASSUME Init PROVE IInv
  OBVIOUS
<1>1. GoodTable(sel)
  BY EmptyTableGood DEF Init, selector_new
<1>2. 0 \in FD
  BY SelectorAssumption DEF FD
<1>3. LoopTypes
  <2>1. inHandler \in BOOLEAN
    BY Zenon DEF Init, selector_new
  <2>2. /\ slave_r \in SUBSET FD /\ slave_w \in SUBSET FD
        /\ pc = "loop" /\ cursor \in 0 .. ITEMS_MAX_SIZE
        /\ limit \in FD /\ key = NoData
    BY <1>2, SelectorAssumption DEF Init, selector_new
  <2> QED
    BY <2>1, <2>2 DEF LoopTypes
<1>4. JobTypes
  <2>1. mutex \in BOOLEAN /\ sigpending \in BOOLEAN
    BY Zenon DEF Init, selector_new
  <2>2. jobs \in Seq(FD) /\ walk \in Seq(FD)
    BY DEF Init, selector_new
  <2> QED
    BY <2>1, <2>2 DEF JobTypes
<1>5. ThreadTypes
  BY <1>2 DEF Init, selector_new, ThreadTypes
<1>6. Wakeable /\ MutexHeldForWalk
  BY DEF Init, selector_new, Wakeable, MutexHeldForWalk
<1> QED
  BY <1>1, <1>3, <1>4, <1>5, <1>6, TypeParts

(* The steps of the selector thread.                                       *)
LEMMA SelectorStepIInv == IInv /\ SelectorStep => IInv'
<1> SUFFICES ASSUME IInv, SelectorStep PROVE IInv'
  OBVIOUS
<1> USE SelectorAssumption
<1>0. GoodTable(sel) /\ LoopTypes /\ JobTypes /\ ThreadTypes
      /\ Wakeable /\ MutexHeldForWalk
  BY TypeParts
<1>1. CASE pc = "loop" /\ EnterPselect
  BY <1>0, <1>1, TypeParts
  DEF EnterPselect, notifyVars, workVars, LoopTypes, JobTypes, ThreadTypes,
      Wakeable, MutexHeldForWalk
<1>2. ASSUME NEW r \in SUBSET master_r(sel), NEW w \in SUBSET master_w(sel),
             PselectReturns(r, w)
      PROVE  IInv'
  <2>1. r \in SUBSET FD /\ w \in SUBSET FD /\ sel.max_fd \in FD
    BY <1>0 DEF master_r, master_w, GoodTable, Table
  <2>2. LoopTypes'
    BY <1>0, <1>2, <2>1 DEF PselectReturns, LoopTypes
  <2>3. JobTypes' /\ ThreadTypes'
    BY <1>0, <1>2 DEF PselectReturns, workVars, JobTypes, ThreadTypes
  <2>4. Wakeable' /\ MutexHeldForWalk'
    BY <1>0, <1>2 DEF PselectReturns, Wakeable, MutexHeldForWalk
  <2>5. GoodTable(sel')
    BY <1>0, <1>2 DEF PselectReturns
  <2> QED
    BY <2>2, <2>3, <2>4, <2>5, TypeParts
<1>3. CASE PselectInterrupted
  BY <1>0, <1>3, TypeParts
  DEF PselectInterrupted, loopVars, workVars, LoopTypes, JobTypes, ThreadTypes,
      Wakeable, MutexHeldForWalk
<1>4. CASE NextItem
  <2>1. cursor' \in 0 .. ITEMS_MAX_SIZE
    BY <1>0, <1>4 DEF NextItem, LoopTypes, FD
  <2>2. slave_r' \in SUBSET FD /\ slave_w' \in SUBSET FD
    BY <1>0, <1>4 DEF NextItem, LoopTypes
  <2> QED
    BY <1>0, <1>4, <2>1, <2>2, TypeParts
    DEF NextItem, AtItem, notifyVars, workVars, LoopTypes, JobTypes, ThreadTypes,
        Wakeable, MutexHeldForWalk
<1>5. CASE IterationEnds
  BY <1>0, <1>5, TypeParts
  DEF IterationEnds, notifyVars, workVars, LoopTypes, JobTypes, ThreadTypes,
      Wakeable, MutexHeldForWalk, FD
<1>6. CASE LockJobs
  BY <1>0, <1>6, TypeParts
  DEF LockJobs, loopVars, workVars, LoopTypes, JobTypes, ThreadTypes, Wakeable,
      MutexHeldForWalk
<1>7. CASE DropJob
  <2>1. Tail(walk) \in Seq(FD)
    BY <1>0, <1>7 DEF DropJob, JobDue, JobTypes
  <2> QED
    BY <1>0, <1>7, <2>1, TypeParts
    DEF DropJob, JobDue, loopVars, workVars, LoopTypes, JobTypes, ThreadTypes,
        Wakeable, MutexHeldForWalk
<1>8. CASE UnlockJobs
  BY <1>0, <1>8, TypeParts
  DEF UnlockJobs, loopVars, workVars, LoopTypes, JobTypes, ThreadTypes, Wakeable,
      MutexHeldForWalk
<1> QED
  BY <1>1, <1>2, <1>3, <1>4, <1>5, <1>6, <1>7, <1>8 DEF SelectorStep

(* The steps of a worker thread.                                           *)
LEMMA WorkerStepIInv ==
  ASSUME NEW w \in Workers, IInv,
         WorkerStep(w) \/ selector_notify_block_enomem(w)
  PROVE  IInv'
<1>0. GoodTable(sel) /\ LoopTypes /\ JobTypes /\ ThreadTypes
      /\ Wakeable /\ MutexHeldForWalk
  BY TypeParts
<1>1. CASE JobFinishes(w)
  <2>1. ThreadTypes' /\ Wakeable'
    BY <1>0, <1>1 DEF JobFinishes, notifyVars, ThreadTypes, Wakeable
  <2> QED
    BY <1>0, <1>1, <2>1, TypeParts
    DEF JobFinishes, loopVars, notifyVars, LoopTypes, JobTypes, MutexHeldForWalk
<1>2. CASE selector_notify_block_queue(w)
  <2>1. jobs' \in Seq(FD)
    BY <1>0, <1>2 DEF selector_notify_block_queue, JobTypes, ThreadTypes
  <2>2. ThreadTypes' /\ wpc'[w] = "kill"
    BY <1>0, <1>2 DEF selector_notify_block_queue, ThreadTypes
  <2>3. Wakeable'
    BY <2>2 DEF Wakeable
  <2> QED
    BY <1>0, <1>2, <2>1, <2>2, <2>3, TypeParts
    DEF selector_notify_block_queue, loopVars, LoopTypes, JobTypes,
        MutexHeldForWalk
<1>3. CASE selector_notify_block_kill(w)
  <2>1. ThreadTypes'
    BY <1>0, <1>3, SelectorAssumption
    DEF selector_notify_block_kill, ThreadEnds, ThreadTypes, FD
  <2>2. Wakeable' /\ JobTypes'
    BY <1>0, <1>3 DEF selector_notify_block_kill, Wakeable, JobTypes
  <2> QED
    BY <1>0, <1>3, <2>1, <2>2, TypeParts
    DEF selector_notify_block_kill, loopVars, LoopTypes, MutexHeldForWalk
<1>4. CASE selector_notify_block_enomem(w)
  <2>1. ThreadTypes'
    BY <1>0, <1>4, SelectorAssumption
    DEF selector_notify_block_enomem, ThreadEnds, ThreadTypes, FD
  <2>2. Wakeable'
    BY <1>0, <1>4
    DEF selector_notify_block_enomem, ThreadEnds, notifyVars, ThreadTypes, Wakeable
  <2> QED
    BY <1>0, <1>4, <2>1, <2>2, TypeParts
    DEF selector_notify_block_enomem, loopVars, notifyVars, LoopTypes, JobTypes,
        MutexHeldForWalk
<1> QED
  BY <1>1, <1>2, <1>3, <1>4 DEF WorkerStep

(* The steps of a handler, and of the caller before the loop.              *)
LEMMA HandlerStepIInv == IInv /\ (HandlerStep \/ CallerRegisters) => IInv'
<1> SUFFICES ASSUME IInv, HandlerStep \/ CallerRegisters PROVE IInv'
  OBVIOUS
<1>0. GoodTable(sel) /\ LoopTypes /\ JobTypes /\ ThreadTypes
      /\ Wakeable /\ MutexHeldForWalk
  BY TypeParts
<1>1. CASE HandlerStarts
  <2>1. key' \in Data \cup {NoData}
    <3>1. \A fd \in FD : sel.item[fd].data \in Data \cup {NoData}
      BY <1>0 DEF GoodTable, Table, Item
    <3>2. ReadDue => cursor \in FD
      BY <1>0 DEF ReadDue, LoopTypes
    <3> QED
      BY <1>0, <1>1, <3>1, <3>2
      DEF HandlerStarts, DispatchRead, DispatchWrite, DispatchBlock, LoopTypes
  <2>2. cursor' \in 0 .. ITEMS_MAX_SIZE
    BY <1>0, <1>1, SelectorAssumption
    DEF HandlerStarts, DispatchRead, DispatchWrite, DispatchBlock, WriteDue,
        AtItem, LoopTypes, FD
  <2>3. walk' \in Seq(FD)
    BY <1>0, <1>1
    DEF HandlerStarts, DispatchRead, DispatchWrite, DispatchBlock, JobDue, JobTypes
  <2>4. inHandler' \in BOOLEAN
    BY <1>1, Zenon DEF HandlerStarts
  <2>5. LoopTypes'
    BY <1>0, <1>1, <2>1, <2>2, <2>4 DEF HandlerStarts, LoopTypes
  <2>6. JobTypes' /\ ThreadTypes' /\ Wakeable' /\ MutexHeldForWalk'
    BY <1>0, <1>1, <2>3
    DEF HandlerStarts, workVars, JobTypes, ThreadTypes, Wakeable, MutexHeldForWalk
  <2> QED
    BY <1>0, <1>1, <2>5, <2>6, TypeParts DEF HandlerStarts
<1>2. CASE HandlerCalls \/ CallerRegisters
  <2>1. GoodTable(sel')
    BY <1>0, <1>2, RegisterGood, UnregisterGood, SetInterestGood
    DEF HandlerCalls, CallerRegisters
  <2> QED
    BY <1>0, <1>2, <2>1, TypeParts
    DEF HandlerCalls, CallerRegisters, loopVars, notifyVars, workVars, LoopTypes,
        JobTypes, ThreadTypes, Wakeable, MutexHeldForWalk
<1>3. CASE HandlerReturns
  <2>1. inHandler' \in BOOLEAN
    BY <1>3, Zenon DEF HandlerReturns
  <2> QED
    BY <1>0, <1>3, <2>1, TypeParts
    DEF HandlerReturns, loopVars, notifyVars, workVars, LoopTypes, JobTypes,
        ThreadTypes, Wakeable, MutexHeldForWalk
<1>4. ASSUME NEW w \in Workers, HandlerStartsJob(w) PROVE IInv'
  <2>1. ThreadTypes' /\ Wakeable'
    BY <1>0, <1>4 DEF HandlerStartsJob, notifyVars, ThreadTypes, Wakeable
  <2> QED
    BY <1>0, <1>4, <2>1, TypeParts
    DEF HandlerStartsJob, loopVars, notifyVars, LoopTypes, JobTypes,
        MutexHeldForWalk
<1> QED
  BY <1>1, <1>2, <1>3, <1>4 DEF HandlerStep

LEMMA NextIInv == IInv /\ [Next]_vars => IInv'
<1> SUFFICES ASSUME IInv, [Next]_vars PROVE IInv'
  OBVIOUS
<1>1. CASE UNCHANGED vars
  BY <1>1
  DEF IInv, TypeOK, HasHighestFd, Used, ITEM_USED, Wakeable, MutexHeldForWalk, vars
<1>2. CASE Next
  BY <1>2, SelectorStepIInv, HandlerStepIInv, WorkerStepIInv DEF Next
<1> QED
  BY <1>1, <1>2

-----------------------------------------------------------------------------
LEMMA Invariance == Spec => []IInv
BY InitIInv, NextIInv, PTL DEF Spec

(* The selector's state has its types whatever handlers and threads do; in *)
(* particular max_fd is always a descriptor select can hold.               *)
THEOREM TypeCorrect == Spec => []TypeOK
<1>1. IInv => TypeOK
  BY DEF IInv
<1> QED
  BY <1>1, Invariance, PTL

(* No wake-up is lost: a selector asleep with finished jobs in its list    *)
(* has the signal pending or is about to be sent it, for any number of     *)
(* threads.                                                                *)
THEOREM WakeupsAreNotLost == Spec => []NoLostWakeup
<1>1. IInv => NoLostWakeup
  BY DEF IInv, Wakeable, NoLostWakeup
<1> QED
  BY <1>1, Invariance, PTL

(* max_fd is the highest registered descriptor after any sequence of       *)
(* registrations and unregistrations, in a table of any size.              *)
THEOREM MaxFdCorrect == Spec => []MaxFdIsHighest
<1>1. IInv => MaxFdIsHighest
  BY DEF IInv, MaxFdIsHighest
<1> QED
  BY <1>1, Invariance, PTL

(* No job is added to the list between the start of the selector's walk    *)
(* over it and the end, when the whole list is freed.                      *)
THEOREM WalkIsStable == Spec => WalkedListIsStable
<1> DEFINE A == pc = "jobs" => jobs' = jobs \/ (jobs' = <<>> /\ walk = <<>>)
<1>1. IInv /\ [Next]_vars => [A]_vars
  <2> SUFFICES ASSUME IInv, Next PROVE A
    OBVIOUS
  <2>1. CASE SelectorStep \/ CallerRegisters
    BY <2>1
    DEF SelectorStep, CallerRegisters, EnterPselect, PselectReturns,
        PselectInterrupted, NextItem, IterationEnds, LockJobs, DropJob, UnlockJobs,
        notifyVars
  <2>2. CASE HandlerStep
    BY <2>2
    DEF HandlerStep, HandlerStarts, HandlerCalls, HandlerReturns,
        HandlerStartsJob, notifyVars
  <2>3. ASSUME NEW w \in Workers, WorkerStep(w) \/ selector_notify_block_enomem(w)
        PROVE  A
    BY <2>3
    DEF IInv, MutexHeldForWalk, WorkerStep, JobFinishes,
        selector_notify_block_queue, selector_notify_block_kill,
        selector_notify_block_enomem, notifyVars
  <2> QED
    BY <2>1, <2>2, <2>3 DEF Next
<1> QED
  BY <1>1, Invariance, PTL DEF Spec, WalkedListIsStable
=============================================================================

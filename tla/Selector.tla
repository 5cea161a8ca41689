------------------------------ MODULE Selector ------------------------------
(***************************************************************************)
(* The I/O multiplexer of src/selector.c: the jump table of registered     *)
(* file descriptors, the loop that pselect(2) drives over it, and the      *)
(* notification channel by which a thread that finished a blocking job     *)
(* wakes the loop (a list behind a mutex plus a signal that is blocked     *)
(* everywhere except inside pselect).                                      *)
(*                                                                         *)
(* The specification of this module lets every handler make any number of  *)
(* selector calls, so what it shows holds for any user of the library.     *)
(* Socks5 extends this module with the handlers of the proxy itself.       *)
(*                                                                         *)
(* The table has its final capacity from the start: main.c asks for 1024   *)
(* entries, which is FD_SETSIZE, so ensure_capacity never grows it.        *)
(***************************************************************************)
EXTENDS Integers, Sequences, FiniteSets

CONSTANTS ITEMS_MAX_SIZE,  \* FD_SETSIZE: the number of descriptors select can hold
          Data,            \* what users attach to a registration (item.data)
          NoData,          \* the mark of a free table entry
          Workers          \* the threads that run blocking jobs

ASSUME SelectorAssumption ==
  /\ ITEMS_MAX_SIZE \in Nat \ {0}
  /\ NoData \notin Data

VARIABLES
  sel,         \* [item, max_fd]: the table and the highest registered fd
  slave_r,     \* what the last pselect reported readable
  slave_w,     \* ... and writable
  pc,          \* where the selector thread is
  cursor,      \* handle_iteration's i
  limit,       \* handle_iteration's n, read before the loop
  key,         \* the data handle_iteration put in its key, NoData before that
  inHandler,   \* TRUE while a handler of the table runs
  jobs,        \* resolution_jobs, newest first: fds whose job has finished
  walk,        \* handle_block_notifications' j: the jobs it has still to serve
  mutex,       \* resolution_mutex is held by the selector thread
  sigpending,  \* conf.signal is pending for the selector thread
  wpc,         \* where each worker thread is
  wfd          \* the fd each worker will notify

loopVars   == <<slave_r, slave_w, cursor, limit, key>>
notifyVars == <<jobs, walk, mutex, sigpending>>
workVars   == <<wpc, wfd>>
vars == <<sel, slave_r, slave_w, pc, cursor, limit, key, inHandler,
          jobs, walk, mutex, sigpending, wpc, wfd>>

FD       == 0 .. ITEMS_MAX_SIZE - 1
Interest == SUBSET {"OP_READ", "OP_WRITE"}
Item     == [interest : Interest, data : Data \cup {NoData}]

-----------------------------------------------------------------------------
(* The table.  Each operator maps a table to the table the call leaves.    *)

FD_UNUSED == [interest |-> {}, data |-> NoData]

ITEM_USED(s, fd) == s.item[fd].data # NoData

Used(s) == {fd \in FD : ITEM_USED(s, fd)}

master_r(s) == {fd \in FD : "OP_READ" \in s.item[fd].interest}
master_w(s) == {fd \in FD : "OP_WRITE" \in s.item[fd].interest}

\* Mutants of the rescan: an empty table yields -1; the old maximum is left out.
items_max_fd_MinusOne(item, old) ==
  LET seen == {fd \in 0 .. old : item[fd].data # NoData}
  IN  IF seen = {} THEN -1 ELSE CHOOSE m \in seen : \A fd \in seen : fd <= m

items_max_fd_OffByOne(item, old) ==
  LET seen == {fd \in 0 .. old - 1 : item[fd].data # NoData}
  IN  IF seen = {} THEN 0 ELSE CHOOSE m \in seen : \A fd \in seen : fd <= m

\* The scan stops at the old max_fd; an empty table yields 0.
items_max_fd(item, old) ==
  LET seen == {fd \in 0 .. old : item[fd].data # NoData}
  IN  IF seen = {} THEN 0 ELSE CHOOSE m \in seen : \A fd \in seen : fd <= m

\* The two ways selector_register refuses: a bad fd, or an entry in use.
CanRegister(s, fd) == fd \in FD /\ ~ITEM_USED(s, fd)

selector_register(s, fd, interest, data) ==
  [item   |-> [s.item EXCEPT ![fd] = [interest |-> interest, data |-> data]],
   max_fd |-> IF fd > s.max_fd THEN fd ELSE s.max_fd]

\* The entry is wiped after handle_close ran, then max_fd is recomputed.
selector_unregister_fd(s, fd) ==
  IF fd \in FD /\ ITEM_USED(s, fd)
  THEN LET item == [s.item EXCEPT ![fd] = FD_UNUSED]
       IN  [item |-> item, max_fd |-> items_max_fd(item, s.max_fd)]
  ELSE s

selector_set_interest(s, fd, interest) ==
  IF fd \in FD /\ ITEM_USED(s, fd)
  THEN [s EXCEPT !.item[fd].interest = interest]
  ELSE s

-----------------------------------------------------------------------------
EmptyTable == [item |-> [fd \in FD |-> FD_UNUSED], max_fd |-> 0]

\* A new selector, with the registrations s made before the loop starts.
selector_new(s) ==
  /\ sel = s
  /\ slave_r = {} /\ slave_w = {}
  /\ cursor = 0 /\ limit = 0 /\ key = NoData /\ inHandler = FALSE
  /\ jobs = <<>> /\ walk = <<>> /\ mutex = FALSE /\ sigpending = FALSE
  /\ wpc = [w \in Workers |-> "idle"]
  /\ wfd = [w \in Workers |-> 0]

(* selector_select: the calling thread enters pselect.                     *)
EnterPselect ==
  /\ pc' = "pselect"
  /\ UNCHANGED <<sel, slave_r, slave_w, cursor, limit, key, inHandler,
                 notifyVars, workVars>>

(* pselect reports some of the watched descriptors, or none on a timeout.  *)
(* POSIX leaves open whether a pending signal is delivered on this path.   *)
PselectReturns(ready_r, ready_w) ==
  /\ pc = "pselect"
  /\ slave_r' = ready_r /\ slave_w' = ready_w
  /\ cursor' = 0 /\ limit' = sel.max_fd
  /\ pc' = "iterate"
  /\ sigpending' \in {sigpending, FALSE}
  /\ UNCHANGED <<sel, key, inHandler, jobs, walk, mutex, workVars>>

\* Mutant: after EINTR the notifications are not looked at.
PselectInterrupted_SkipsJobs ==
  /\ pc = "pselect" /\ sigpending
  /\ sigpending' = FALSE
  /\ pc' = "loop"
  /\ UNCHANGED <<sel, loopVars, inHandler, jobs, walk, mutex, workVars>>

(* The mask passed to pselect admits the signal: EINTR, no iteration.      *)
PselectInterrupted ==
  /\ pc = "pselect" /\ sigpending
  /\ sigpending' = FALSE
  /\ pc' = "notify"
  /\ UNCHANGED <<sel, loopVars, inHandler, jobs, walk, mutex, workVars>>

(* handle_iteration: on the entry under the cursor, first the read handler *)
(* if the fd is ready and still of interest, then likewise the write       *)
(* handler; interest is looked up again each time.                         *)
AtItem == pc = "iterate" /\ ~inHandler /\ cursor <= limit

ReadDue ==
  /\ AtItem /\ key = NoData
  /\ cursor \in slave_r /\ "OP_READ" \in sel.item[cursor].interest

WriteDue ==
  /\ AtItem /\ ~ReadDue
  /\ cursor \in slave_w /\ "OP_WRITE" \in sel.item[cursor].interest

\* The connection in the key: captured once, before the read handler ran.
\* Mutant: only if the read handler is called.
KeyData_OnlyOnRead == key

KeyData == IF key = NoData THEN sel.item[cursor].data ELSE key

\* The bookkeeping of calling a handler; its effects are the user's.
DispatchRead ==
  /\ ReadDue
  /\ key' = sel.item[cursor].data
  /\ UNCHANGED <<cursor, walk>>

DispatchWrite ==
  /\ WriteDue
  /\ key' = NoData /\ cursor' = cursor + 1
  /\ UNCHANGED walk

\* Entries whose bits are clear are passed over in one step; the bits behind
\* the cursor are never looked at again.
NextItem ==
  /\ AtItem /\ ~ReadDue /\ ~WriteDue
  /\ LET ahead == {fd \in slave_r \cup slave_w : fd > cursor}
     IN  /\ cursor' \in {fd \in ahead \cup {limit + 1} : \A g \in ahead : fd <= g}
         /\ slave_r' = slave_r \cap ahead /\ slave_w' = slave_w \cap ahead
  /\ key' = NoData
  /\ UNCHANGED <<sel, limit, pc, inHandler, notifyVars, workVars>>

IterationEnds ==
  /\ pc = "iterate" /\ ~inHandler /\ cursor > limit
  /\ pc' = "notify"
  /\ slave_r' = {} /\ slave_w' = {} /\ cursor' = 0 /\ limit' = 0
  /\ UNCHANGED <<sel, key, inHandler, notifyVars, workVars>>

(* handle_block_notifications holds the mutex while it walks the list, and *)
(* empties the whole list at the end.                                      *)
LockJobs ==
  /\ pc = "notify" /\ ~mutex
  /\ mutex' = TRUE
  /\ walk' = jobs
  /\ pc' = "jobs"
  /\ UNCHANGED <<sel, loopVars, inHandler, jobs, sigpending, workVars>>

JobDue == pc = "jobs" /\ ~inHandler /\ walk # <<>>

DropJob ==
  /\ JobDue /\ ~ITEM_USED(sel, Head(walk))
  /\ walk' = Tail(walk)
  /\ UNCHANGED <<sel, loopVars, pc, inHandler, jobs, mutex, sigpending, workVars>>

DispatchBlock ==
  /\ JobDue /\ ITEM_USED(sel, Head(walk))
  /\ walk' = Tail(walk)
  /\ UNCHANGED <<key, cursor>>

\* Mutant: the list is freed but not reset.
UnlockJobs_KeepsList ==
  /\ pc = "jobs" /\ ~inHandler /\ walk = <<>>
  /\ mutex' = FALSE
  /\ pc' = "loop"
  /\ UNCHANGED <<sel, loopVars, inHandler, jobs, walk, sigpending, workVars>>

UnlockJobs ==
  /\ pc = "jobs" /\ ~inHandler /\ walk = <<>>
  /\ jobs' = <<>>
  /\ mutex' = FALSE
  /\ pc' = "loop"
  /\ UNCHANGED <<sel, loopVars, inHandler, walk, sigpending, workVars>>

-----------------------------------------------------------------------------
(* A worker thread: the blocking job, then selector_notify_block, which    *)
(* queues the fd under the mutex and only then raises the signal.          *)
\* Mutants: the list is changed without its mutex; the job is not linked in.
selector_notify_block_queue_Unlocked(w) ==
  /\ wpc[w] = "notify"
  /\ jobs' = <<wfd[w]>> \o jobs
  /\ wpc' = [wpc EXCEPT ![w] = "kill"]
  /\ UNCHANGED <<sel, loopVars, pc, inHandler, walk, mutex, sigpending, wfd>>

selector_notify_block_queue_Forgets(w) ==
  /\ wpc[w] = "notify" /\ ~mutex
  /\ wpc' = [wpc EXCEPT ![w] = "kill"]
  /\ UNCHANGED <<sel, loopVars, pc, inHandler, notifyVars, wfd>>

selector_notify_block_queue(w) ==
  /\ wpc[w] = "notify" /\ ~mutex
  /\ jobs' = <<wfd[w]>> \o jobs
  /\ wpc' = [wpc EXCEPT ![w] = "kill"]
  /\ UNCHANGED <<sel, loopVars, pc, inHandler, walk, mutex, sigpending, wfd>>

ThreadEnds(w) ==
  /\ wpc' = [wpc EXCEPT ![w] = "idle"]
  /\ wfd' = [wfd EXCEPT ![w] = 0]

\* malloc of the job fails: the caller is told, nothing is queued.
selector_notify_block_enomem(w) ==
  /\ wpc[w] = "notify"
  /\ ThreadEnds(w)
  /\ UNCHANGED <<sel, loopVars, pc, inHandler, notifyVars>>

\* Mutant: the signal is not blocked outside pselect, where it does nothing.
selector_notify_block_kill_Unblocked(w) ==
  /\ wpc[w] = "kill"
  /\ sigpending' = (pc = "pselect")
  /\ ThreadEnds(w)
  /\ UNCHANGED <<sel, loopVars, pc, inHandler, jobs, walk, mutex>>

selector_notify_block_kill(w) ==
  /\ wpc[w] = "kill"
  /\ sigpending' = TRUE
  /\ ThreadEnds(w)
  /\ UNCHANGED <<sel, loopVars, pc, inHandler, jobs, walk, mutex>>

JobFinishes(w) ==
  /\ wpc[w] = "work"
  /\ wpc' = [wpc EXCEPT ![w] = "notify"]
  /\ UNCHANGED <<sel, loopVars, pc, inHandler, notifyVars, wfd>>

-----------------------------------------------------------------------------
(* Any user of the library: a handler that is due starts, makes selector   *)
(* calls and may hand a job to a worker, and returns.                      *)
HandlerStarts ==
  /\ DispatchRead \/ DispatchWrite \/ DispatchBlock
  /\ inHandler' = TRUE
  /\ UNCHANGED <<sel, slave_r, slave_w, limit, pc, jobs, mutex, sigpending,
                 workVars>>

HandlerCalls ==
  /\ inHandler
  /\ \E fd \in FD :
       \/ \E i \in Interest, d \in Data :
            CanRegister(sel, fd) /\ sel' = selector_register(sel, fd, i, d)
       \/ ITEM_USED(sel, fd) /\ sel' = selector_unregister_fd(sel, fd)
       \/ \E i \in Interest :
            ITEM_USED(sel, fd) /\ sel' = selector_set_interest(sel, fd, i)
  /\ UNCHANGED <<loopVars, pc, inHandler, notifyVars, workVars>>

\* One job per descriptor at a time, as the proxy does.
Outstanding(fd) ==
  \/ \E w \in Workers : wpc[w] \in {"work", "notify"} /\ wfd[w] = fd
  \/ \E n \in DOMAIN jobs : jobs[n] = fd

HandlerStartsJob(w) ==
  /\ inHandler /\ wpc[w] = "idle"
  /\ \E fd \in FD : ~Outstanding(fd) /\ wfd' = [wfd EXCEPT ![w] = fd]
  /\ wpc' = [wpc EXCEPT ![w] = "work"]
  /\ UNCHANGED <<sel, loopVars, pc, inHandler, notifyVars>>

HandlerReturns ==
  /\ inHandler
  /\ inHandler' = FALSE
  /\ UNCHANGED <<sel, loopVars, pc, notifyVars, workVars>>

(* Before the loop starts the program registers its listeners.             *)
Init ==
  /\ selector_new(EmptyTable)
  /\ pc = "loop"

CallerRegisters ==
  /\ pc = "loop"
  /\ \E fd \in FD, i \in Interest, d \in Data :
       CanRegister(sel, fd) /\ sel' = selector_register(sel, fd, i, d)
  /\ UNCHANGED <<loopVars, pc, inHandler, notifyVars, workVars>>

SelectorStep ==
  \/ pc = "loop" /\ EnterPselect
  \/ \E r \in SUBSET master_r(sel), w \in SUBSET master_w(sel) :
       PselectReturns(r, w)
  \/ PselectInterrupted
  \/ NextItem \/ IterationEnds \/ LockJobs \/ DropJob \/ UnlockJobs

HandlerStep ==
  \/ HandlerStarts \/ HandlerCalls \/ HandlerReturns
  \/ \E w \in Workers : HandlerStartsJob(w)

WorkerStep(w) ==
  \/ JobFinishes(w)
  \/ selector_notify_block_queue(w)
  \/ selector_notify_block_kill(w)

Next ==
  \/ CallerRegisters \/ SelectorStep \/ HandlerStep
  \/ \E w \in Workers : WorkerStep(w) \/ selector_notify_block_enomem(w)

Spec == Init /\ [][Next]_vars

(* The selector thread runs its code to the end of an iteration, handlers  *)
(* return, threads are scheduled.  pselect need not return by itself: it   *)
(* is only assumed to return when the signal is pending.                   *)
Fairness ==
  /\ WF_vars(pc = "loop" /\ EnterPselect)
  /\ WF_vars(PselectInterrupted)
  /\ WF_vars(NextItem) /\ WF_vars(IterationEnds)
  /\ WF_vars(LockJobs) /\ WF_vars(DropJob) /\ WF_vars(UnlockJobs)
  /\ WF_vars(HandlerStarts) /\ WF_vars(HandlerReturns)
  /\ \A w \in Workers : WF_vars(WorkerStep(w))

FairSpec == Spec /\ Fairness

-----------------------------------------------------------------------------
Table == [item : [FD -> Item], max_fd : FD]

(* Type correctness of the selector's state (struct fdselector, the locals *)
(* of handle_iteration and the worker threads).                            *)
TypeOK ==
  /\ sel \in Table
  /\ slave_r \in SUBSET FD /\ slave_w \in SUBSET FD
  /\ pc \in {"loop", "pselect", "iterate", "notify", "jobs"}
  /\ cursor \in 0 .. ITEMS_MAX_SIZE /\ limit \in FD
  /\ key \in Data \cup {NoData}
  /\ inHandler \in BOOLEAN
  /\ jobs \in Seq(FD) /\ walk \in Seq(FD)
  /\ mutex \in BOOLEAN /\ sigpending \in BOOLEAN
  /\ wpc \in [Workers -> {"idle", "work", "notify", "kill"}]
  /\ wfd \in [Workers -> FD]

(* A selector asleep in pselect with finished jobs in its list is going to *)
(* be woken: the signal is pending, or the thread that queued the job has  *)
(* still to send it.  This is what blocking conf.signal outside pselect    *)
(* buys (selector_init, selector_notify_block): otherwise the job waits    *)
(* for unrelated I/O or for the 10 s timeout.                              *)
NoLostWakeup ==
  pc = "pselect" /\ jobs # <<>> =>
    sigpending \/ \E w \in Workers : wpc[w] = "kill"

(* The list handle_block_notifications throws away at the end is the list  *)
(* it walked: no thread adds a job during the walk, which would be freed   *)
(* with the rest without ever being served.                                *)
WalkedListIsStable ==
  [][pc = "jobs" => jobs' = jobs \/ (jobs' = <<>> /\ walk = <<>>)]_vars

HasHighestFd(s) ==
  /\ \A fd \in Used(s) : fd <= s.max_fd
  /\ s.max_fd \in Used(s) \/ (Used(s) = {} /\ s.max_fd = 0)

(* pselect(max_fd + 1) watches every registered descriptor: max_fd, kept   *)
(* up to date by selector_register and by the partial rescan of            *)
(* items_max_fd, is the highest one in use, whatever handlers did.         *)
MaxFdIsHighest == HasHighestFd(sel)

(* Finished jobs are handed to their handlers even if no descriptor ever   *)
(* becomes ready and no timeout expires.                                   *)
JobsAreServed == jobs # <<>> ~> jobs = <<>>
=============================================================================

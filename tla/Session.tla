------------------------------- MODULE Session -------------------------------
(***************************************************************************)
(* The life of a mounted drive: the pool of tasks that read requests from  *)
(* the kernel (src/src/internal.pxi, main and terminate of                 *)
(* src/src/pyfuse3.pyx), the thread that invalidates directory entries,    *)
(* and the end of main in src/fuse_degoo.py, which has to stop the thread  *)
(* that refreshes the tree and the one that cleans the cache.              *)
(*                                                                         *)
(* Tasks are trio tasks: what one does between two awaits is one step.     *)
(***************************************************************************)
EXTENDS Naturals, FiniteSets, Sequences

CONSTANTS
  Tasks,         \* the tasks there may be
  MinTasks,      \* min_tasks and max_tasks of main
  MaxTasks,
  Raising,       \* whether a handler may raise something other than a FUSEError
  MaxRequests,   \* BOUND: requests the kernel sends
  MaxInterrupts, \* BOUND: reads that end with EINTR
  MaxEntries     \* BOUND: directory entries to invalidate

ASSUME PoolAssumption ==
  /\ IsFiniteSet(Tasks)
  /\ MinTasks \in Nat \ {0} /\ MaxTasks \in Nat \ {0} /\ MaxTasks <= Cardinality(Tasks)
  /\ Raising \in BOOLEAN
  /\ {MaxRequests, MaxInterrupts, MaxEntries} \subseteq Nat

VARIABLES
  task,        \* where each task is
  readLock,    \* worker_data.read_lock: the tasks that hold it
  readers,     \* worker_data.active_readers
  taskCount,   \* worker_data.task_count
  exited,      \* the exit flag of the session
  closing,     \* notify_closing has woken the task that waits for the device
  phase,       \* where main of fuse_degoo.py is
  device,      \* what the kernel has for us, and what it will still send
  notify,      \* the notify thread and _notify_queue
  refresher,   \* the thread of refresh_degoo_content
  maintainer   \* the thread of run_maintenance

vars == <<task, readLock, readers, taskCount, exited, closing, phase, device, notify,
          refresher, maintainer>>

pool == <<task, readLock, readers, taskCount>>
threads == <<notify, refresher, maintainer>>

(* "new": started.  "lock": waits for read_lock.  "read": has it, and waits *)
(* for the device.  "handle": its handler has not returned yet.              *)
Places == {"none", "new", "lock", "read", "handle"}

At(place) == { w \in Tasks : task[w] = place }

-----------------------------------------------------------------------------
(***************************************************************************)
(* The head of the loop in _session_loop, reached by w when there are n    *)
(* active readers and k tasks.                                             *)
(***************************************************************************)
(* MUTANT: the task counts itself, and min_tasks are enough. *)
EnoughReaders(n) == n + 1 >= MinTasks

(* MUTANT: only a full pool is too large. *)
FullPool(n) == n > MaxTasks

TooManyReaders(n) == n > MinTasks

(* `others`: where the tasks but w are. *)
LoopHead(w, others, n, k) ==
  IF exited \/ TooManyReaders(n)
  THEN /\ task' = [others EXCEPT ![w] = "none"]
       /\ readers' = n /\ taskCount' = k - 1
  ELSE /\ task' = [others EXCEPT ![w] = "lock"]
       /\ readers' = n + 1 /\ taskCount' = k

Begin(w) ==
  /\ phase = "loop" /\ task[w] = "new"
  /\ LoopHead(w, task, readers, taskCount)
  /\ UNCHANGED <<readLock, exited, closing, phase, device, threads>>

(* _wait_fuse_readable, with the lock: a session that has exited in between *)
(* is noticed.                                                               *)
Acquire(w) ==
  /\ phase = "loop" /\ task[w] = "lock" /\ readLock = {}
  /\ IF exited
     THEN /\ task' = [task EXCEPT ![w] = "none"]
          /\ readers' = readers - 1 /\ taskCount' = taskCount - 1
          /\ UNCHANGED readLock
     ELSE /\ task' = [task EXCEPT ![w] = "read"]
          /\ readLock' = {w}
          /\ UNCHANGED <<readers, taskCount>>
  /\ UNCHANGED <<exited, closing, phase, device, threads>>

(***************************************************************************)
(* The device is readable: w releases the lock and receives.  If nobody    *)
(* else waits a new task is started, whatever has been received.           *)
(***************************************************************************)
(* MUTANT: a task is started when requests come in faster than they end. *)
StartOnBurst(n, k) == n = 0 /\ k < MaxTasks /\ device.waiting > 1

StartAnother(n, k) == n = 0 /\ k < MaxTasks

(* The places after that, with a new task or without. *)
Started(n, k) ==
  IF StartAnother(n, k)
  THEN { [task EXCEPT ![v] = "new"] : v \in At("none") }
  ELSE {task}

(* MUTANT: counted before the size of the pool is looked at. *)
CountFirst(n, k) == IF n = 0 THEN k + 1 ELSE k

CountAfter(n, k) == IF StartAnother(n, k) THEN k + 1 ELSE k

Received(w) ==
  /\ phase = "loop" /\ task[w] = "read" /\ ~closing
  /\ readLock' = {}
  /\ UNCHANGED <<closing, phase, threads>>

(* MUTANT: the counter is left to the handler. *)
ReadersDuring(n) == n

ReadersAfter(n) == n - 1

Receive(w) ==
  LET n == ReadersAfter(readers)
  IN /\ Received(w)
     /\ device.waiting > 0
     /\ device' = [device EXCEPT !.waiting = @ - 1]
     /\ \E others \in Started(n, taskCount) : task' = [others EXCEPT ![w] = "handle"]
     /\ readers' = n /\ taskCount' = CountAfter(n, taskCount)
     /\ UNCHANGED exited

Interrupted(w) ==
  LET n == ReadersAfter(readers)
  IN /\ Received(w)
     /\ device.interrupts > 0
     /\ device' = [device EXCEPT !.interrupts = @ - 1]
     /\ \E others \in Started(n, taskCount) : LoopHead(w, others, n, CountAfter(n, taskCount))
     /\ UNCHANGED exited

(* The drive has been unmounted: libfuse sets the flag, and w breaks.       *)
ReceiveEnd(w) ==
  LET n == ReadersAfter(readers)
  IN /\ Received(w)
     /\ device.unmounted /\ device.waiting = 0
     /\ exited' = TRUE
     /\ \E others \in Started(n, taskCount) : task' = [others EXCEPT ![w] = "none"]
     /\ readers' = n /\ taskCount' = CountAfter(n, taskCount) - 1
     /\ UNCHANGED device

(* trio.ClosedResourceError *)
Woken(w) ==
  /\ phase = "loop" /\ task[w] = "read" /\ closing
  /\ task' = [task EXCEPT ![w] = "none"]
  /\ readLock' = {}
  /\ readers' = readers - 1 /\ taskCount' = taskCount - 1
  /\ closing' = FALSE
  /\ UNCHANGED <<exited, phase, device, threads>>

(* A handler returns, or raises a FUSEError. *)
Finish(w) ==
  /\ phase = "loop" /\ task[w] = "handle"
  /\ LoopHead(w, task, readers, taskCount)
  /\ UNCHANGED <<readLock, exited, closing, phase, device, threads>>

(* Any other exception, or a read that fails otherwise, cancels all tasks and *)
(* ends main of pyfuse3.                                                       *)
Raise(w) ==
  /\ Raising
  /\ phase = "loop" /\ task[w] = "handle"
  /\ task' = [v \in Tasks |-> "none"]
  /\ readLock' = {} /\ readers' = 0
  /\ phase' = "leaving"
  /\ UNCHANGED <<taskCount, exited, closing, device, threads>>

(* fuse_session_exit and notify_closing; a reader for whom the device has    *)
(* become readable before is scheduled already, and receives.                *)
Terminate ==
  /\ phase = "loop" /\ ~exited
  /\ exited' = TRUE
  /\ \/ closing' = (At("read") # {})
     \/ closing' = FALSE /\ (device.waiting > 0 \/ device.unmounted)
  /\ UNCHANGED <<pool, phase, device, threads>>

-----------------------------------------------------------------------------
(***************************************************************************)
(* The kernel.                                                             *)
(***************************************************************************)
Send ==
  /\ phase = "loop" /\ device.toSend > 0 /\ ~device.unmounted
  /\ device' = [device EXCEPT !.toSend = @ - 1, !.waiting = @ + 1]
  /\ UNCHANGED <<pool, exited, closing, phase, threads>>

Unmount ==
  /\ phase = "loop" /\ ~device.unmounted
  /\ device' = [device EXCEPT !.unmounted = TRUE]
  /\ UNCHANGED <<pool, exited, closing, phase, threads>>

-----------------------------------------------------------------------------
(***************************************************************************)
(* invalidate_entry_async puts an entry into the queue of the notify       *)
(* thread, which is started by the first call and ended by None.  The call *)
(* to the kernel blocks while a related request is being handled.          *)
(***************************************************************************)
InvalidateAsync ==
  /\ phase = "loop" /\ notify.toCome > 0
  /\ notify' = [notify EXCEPT !.at = IF @ = "none" THEN "waits" ELSE @,
                              !.queue = Append(@, "entry"), !.toCome = @ - 1]
  /\ UNCHANGED <<pool, exited, closing, phase, device, refresher, maintainer>>

NotifyTakes ==
  /\ notify.at = "waits" /\ notify.queue # << >>
  /\ notify' = [notify EXCEPT !.at = IF Head(notify.queue) = "stop" THEN "ended" ELSE "calls",
                              !.queue = Tail(@)]
  /\ UNCHANGED <<pool, exited, closing, phase, device, refresher, maintainer>>

(* `related` requests may be any of those being handled. *)
NotifyReturns ==
  /\ notify.at = "calls"
  /\ notify' = [notify EXCEPT !.at = "waits"]
  /\ UNCHANGED <<pool, exited, closing, phase, device, refresher, maintainer>>

-----------------------------------------------------------------------------
(***************************************************************************)
(* The end of main of fuse_degoo.py.                                       *)
(***************************************************************************)
(* The nursery is empty: main of pyfuse3 returns, and puts None into the   *)
(* queue.  It does so too when a task has raised.                          *)
(* MUTANT: only if there are entries to be done. *)
StopIfBusy == IF notify.queue = << >> THEN notify ELSE [notify EXCEPT !.queue = Append(@, "stop")]

Stop == IF notify.at = "none" THEN notify ELSE [notify EXCEPT !.queue = Append(@, "stop")]

LeaveMain ==
  /\ \/ phase = "loop" /\ At("none") = Tasks
     \/ phase = "leaving"
  /\ phase' = "finally"
  /\ notify' = Stop
  /\ UNCHANGED <<pool, exited, closing, device, refresher, maintainer>>

(* is_refresh_enabled = False, run_maintenance.set(), close(). *)
Finally ==
  /\ phase = "finally"
  /\ phase' = "closed"
  /\ refresher' = [refresher EXCEPT !.enabled = FALSE]
  /\ maintainer' = [maintainer EXCEPT !.enabled = FALSE]
  /\ UNCHANGED <<pool, exited, closing, device, notify>>

(* refresh_degoo_content looks at the flag before it sleeps: after the last *)
(* sleep it loads the tree once more.                                        *)
RefresherSleeps ==
  /\ refresher.at = "loop"
  /\ refresher' = [refresher EXCEPT !.at = IF refresher.enabled THEN "sleeps" ELSE "ended"]
  /\ UNCHANGED <<pool, exited, closing, phase, device, notify, maintainer>>

RefresherLoads ==
  /\ refresher.at = "sleeps"
  /\ refresher' = [refresher EXCEPT !.at = "loop"]
  /\ UNCHANGED <<pool, exited, closing, phase, device, notify, maintainer>>

(* The thread of run_maintenance looks at the event, cleans, and sleeps. *)
MaintainerCleans ==
  /\ maintainer.at = "loop"
  /\ maintainer' = [maintainer EXCEPT !.at = IF maintainer.enabled THEN "sleeps" ELSE "ended"]
  /\ UNCHANGED <<pool, exited, closing, phase, device, notify, refresher>>

MaintainerWakes ==
  /\ maintainer.at = "sleeps"
  /\ maintainer' = [maintainer EXCEPT !.at = "loop"]
  /\ UNCHANGED <<pool, exited, closing, phase, device, notify, refresher>>

-----------------------------------------------------------------------------
Thread == [at |-> "loop", enabled |-> TRUE]

Init ==
  /\ \E w \in Tasks : task = [v \in Tasks |-> IF v = w THEN "new" ELSE "none"]
  /\ readLock = {} /\ readers = 0 /\ taskCount = 1
  /\ exited = FALSE /\ closing = FALSE
  /\ phase = "loop"
  /\ device = [waiting |-> 0, toSend |-> MaxRequests, interrupts |-> MaxInterrupts, unmounted |-> FALSE]
  /\ notify = [at |-> "none", queue |-> << >>, toCome |-> MaxEntries]
  /\ refresher \in {Thread, [Thread EXCEPT !.at = "ended"]}
  /\ maintainer \in {Thread, [Thread EXCEPT !.at = "ended"]}

Poll == \E w \in Tasks : Begin(w) \/ Acquire(w) \/ Receive(w) \/ ReceiveEnd(w) \/ Woken(w)

Next ==
  \/ Poll
  \/ \E w \in Tasks : Interrupted(w) \/ Finish(w) \/ Raise(w)
  \/ Terminate \/ Send \/ Unmount
  \/ InvalidateAsync \/ NotifyTakes \/ NotifyReturns
  \/ LeaveMain \/ Finally
  \/ RefresherSleeps \/ RefresherLoads \/ MaintainerCleans \/ MaintainerWakes

Spec == Init /\ [][Next]_vars

(* The loop of tasks goes on while one of them can; handlers return; every *)
(* thread runs, and a sleep ends.  The kernel owes nothing.                 *)
Fairness ==
  /\ WF_vars(Poll)
  /\ \A w \in Tasks : WF_vars(Finish(w))
  /\ WF_vars(NotifyTakes) /\ WF_vars(NotifyReturns)
  /\ WF_vars(LeaveMain) /\ WF_vars(Finally)
  /\ WF_vars(RefresherSleeps) /\ WF_vars(RefresherLoads)
  /\ WF_vars(MaintainerCleans) /\ WF_vars(MaintainerWakes)

FairSpec == Spec /\ Fairness

-----------------------------------------------------------------------------
(***************************************************************************)
(* Properties.                                                             *)
(***************************************************************************)
TypeOK ==
  /\ task \in [Tasks -> Places]
  /\ readLock \subseteq Tasks
  /\ readers \in Nat /\ taskCount \in 0..MaxTasks
  /\ exited \in BOOLEAN /\ closing \in BOOLEAN
  /\ phase \in {"loop", "leaving", "finally", "closed"}
  /\ device \in [waiting : 0..MaxRequests, toSend : 0..MaxRequests,
                 interrupts : 0..MaxInterrupts, unmounted : BOOLEAN]
  /\ notify \in [at : {"none", "waits", "calls", "ended"}, queue : Seq({"entry", "stop"}),
                 toCome : 0..MaxEntries]
  /\ {refresher, maintainer} \subseteq [at : {"loop", "sleeps", "ended"}, enabled : BOOLEAN]

(* The two counters say how many tasks there are, and how many of them wait *)
(* for a request, at every await of any of them.                             *)
CountersRight ==
  phase = "loop" =>
    /\ readers = Cardinality(At("lock") \cup At("read"))
    /\ taskCount = Cardinality(Tasks \ At("none"))

(* As long as the session goes on there is a task that reads, or will, or   *)
(* all max_tasks tasks are in handlers: no request stays unread because the *)
(* last reader has left the pool.                                            *)
SomebodyReads ==
  phase = "loop" /\ ~exited =>
    \/ At("new") \cup At("lock") \cup At("read") # {}
    \/ taskCount = MaxTasks /\ Cardinality(At("handle")) = MaxTasks

(* After a burst the tasks that have nothing to do leave: never more than    *)
(* min_tasks + 1 wait for requests.                                          *)
FewIdle == Cardinality(At("lock") \cup At("read")) <= MinTasks + 1

(* Every request is received, unless terminate, an unmount or an exception   *)
(* ends the session before.                                                  *)
RequestsReceived ==
  phase = "loop" /\ device.waiting > 0 ~> device.waiting = 0 \/ exited \/ phase = "leaving"

(* After terminate, an unmount, or an exception, main gets to its end, and   *)
(* every thread that keeps the process alive ends, with the notify thread.   *)
AllEnds ==
  exited \/ device.unmounted \/ phase = "leaving" ~>
    phase = "closed" /\ refresher.at = "ended" /\ maintainer.at = "ended" /\ notify.at \in {"none", "ended"}
=============================================================================

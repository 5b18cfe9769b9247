----------------------------- MODULE TimerQueue -----------------------------
(***************************************************************************)
(* why::Timer::TimerQueue (src/common/include/common/timer.h, timer.cpp):  *)
(* the threads that add tasks and call Shutdown, the detached demon thread *)
(* of LocalRun, which hands the pending tasks to a pool, and the threads   *)
(* of that pool, which sleep until a task's time and run it.  The pool is  *)
(* the abstract TaskExecutor, which ThreadPool implements.                 *)
(*                                                                         *)
(* m_tasks, and m_isTerminate when it changes, are touched under m_taskMtx *)
(* only.  A critical section is one step, except those in which something  *)
(* else can be seen to happen: the demon's sweep, which submits task by    *)
(* task, and Shutdown, which keeps m_taskMtx while the pool shuts down.    *)
(***************************************************************************)
EXTENDS Integers, Sequences, FiniteSets

CONSTANTS Callers,          \* the program's threads
          Slots,            \* the threads of m_threadPool
          Adders,           \* the threads that add tasks: callers, and tasks on a slot
          Stoppers,         \* the threads that call Shutdown
          Durations,        \* the durations they use
          RepeatNums,       \* the repeat_num of AddRepeatTask
          MaxTime,          \* bound: the clock and the timepoints are in 0..MaxTime
          MaxTasks,         \* bound: how many tasks are added in all
          NoTask, NoThread, Demon

ASSUME TimerAssumption ==
    /\ MaxTime \in Nat /\ MaxTasks \in Nat
    /\ Durations \subseteq Nat /\ RepeatNums \subseteq Nat \ {0}
    /\ Callers \cap Slots = {}
    /\ Adders \subseteq Callers \cup Slots
    /\ Stoppers \subseteq Callers
    /\ Demon \notin Callers \cup Slots
    /\ NoThread \notin Callers \cup Slots \cup {Demon}
    /\ NoTask \notin 1..MaxTasks

Threads == Callers \cup Slots
Times == 0..MaxTime
Tasks == 1..MaxTasks    \* numbered in the order of the calls of m_tasks.insert

VARIABLES
    now,            \* std::chrono::steady_clock
    issued,         \* how many tasks the calls so far add
    due,            \* the timepoint of each task, in the order of insertion
    m_taskMtx,      \* the holder of m_taskMtx
    m_tasks,        \* the std::set, ordered by timepoint
    m_isTerminate,
    dpc,            \* where the demon is in LocalRun
    sampled,        \* LocalRun's now
    left,           \* the tasks its iterator has not reached
    pc,             \* where each thread is in a call of AddTask..., AddRepeatTask, Shutdown
    plan,           \* the timepoints a call has yet to add
    spc,            \* what a slot does: nothing, sleep_until, the function of the task
    queue, slot, seen, done, closed,    \* m_threadPool
    \* History, read by the properties only.
    tied,           \* the tasks that insert left out: their timepoint was pending
    late,           \* the tasks that the sweep left out: their time had come
    covered         \* the tasks added before Shutdown set m_isTerminate

poolVars == <<queue, slot, seen, done, closed>>
demonVars == <<dpc, sampled, left>>
callVars == <<issued, pc, plan>>
historyVars == <<tied, late, covered>>
vars == <<now, due, m_taskMtx, m_tasks, m_isTerminate, demonVars, callVars, spc, poolVars,
          historyVars>>

Pool == INSTANCE TaskExecutor

DemonPC == {"none", "loop", "acquire", "waiting", "sweep", "exit"}
CallPC == {"idle", "insert", "notify", "sd_acquire", "sd_waiting",
           "pool_poll", "pool_close", "pool_join"}

Init ==
    /\ now = 0
    /\ issued = 0
    /\ due = <<>>
    /\ m_taskMtx = NoThread
    /\ m_tasks = {}
    /\ m_isTerminate = FALSE
    /\ dpc = "none" /\ sampled = 0 /\ left = {}
    /\ pc = [x \in Threads |-> "idle"]
    /\ plan = [x \in Threads |-> <<>>]
    /\ spc = [s \in Slots |-> "idle"]
    /\ Pool!ExecInit
    /\ tied = {} /\ late = {} /\ covered = {}

Tick == /\ now < MaxTime
        /\ now' = now + 1
        /\ UNCHANGED <<due, m_taskMtx, m_tasks, m_isTerminate, demonVars, callVars, spc,
                       poolVars, historyVars>>

\* A thread that can call a member function: the program's own, or a task that is running.
CanCall(x) == pc[x] = "idle" /\ (x \in Slots => spc[x] = "func")

At(x, from, to) == pc[x] = from /\ pc' = [pc EXCEPT ![x] = to]

\* m_cv.notify_all(), in a thread that goes on at pcs: the demon and the callers of Shutdown
\* wait on the same condition variable.
WakeDemon == dpc' = IF dpc = "waiting" THEN "acquire" ELSE dpc
WakeCallers(pcs) ==
    pc' = [x \in Threads |-> IF pcs[x] = "sd_waiting" THEN "sd_acquire" ELSE pcs[x]]
-----------------------------------------------------------------------------
(***************************************************************************)
(* Start: the pool's threads, then the demon.  Called again it throws in   *)
(* ThreadPool::Start, before it makes a second demon.                      *)
(***************************************************************************)
Start == /\ dpc = "none"
         /\ dpc' = "loop"
         /\ UNCHANGED <<now, due, m_taskMtx, m_tasks, m_isTerminate, sampled, left, callVars,
                        spc, poolVars, historyVars>>
-----------------------------------------------------------------------------
(***************************************************************************)
(* Adding tasks.  The timepoints are computed when the call begins.        *)
(***************************************************************************)
AddCall(x, timepoints) ==
    /\ x \in Adders
    /\ CanCall(x)
    /\ issued + Len(timepoints) <= MaxTasks
    /\ timepoints \in Seq(Times)
    /\ issued' = issued + Len(timepoints)
    /\ pc' = [pc EXCEPT ![x] = "insert"]
    /\ plan' = [plan EXCEPT ![x] = timepoints]
    /\ UNCHANGED <<now, due, m_taskMtx, m_tasks, m_isTerminate, demonVars, spc, poolVars,
                   historyVars>>

AddTaskAtTimePoint(x, timepoint) == AddCall(x, <<timepoint>>)
AddTaskAfterDuration(x, duration) == AddCall(x, <<now + duration>>)
AddRepeatTask(x, interval, repeat_num) ==
    AddCall(x, [i \in 1..repeat_num |-> now + i * interval])

\* A std::set whose elements compare by timepoint keeps the first of two that tie.
Insert(x) ==
    LET task == Len(due) + 1
        timepoint == Head(plan[x])
        tie == \E e \in m_tasks : due[e] = timepoint
    IN  /\ due' = Append(due, timepoint)
        /\ plan' = [plan EXCEPT ![x] = Tail(@)]
        /\ m_tasks' = IF tie THEN m_tasks ELSE m_tasks \cup {task}
        /\ tied' = IF tie THEN tied \cup {task} ELSE tied
        /\ UNCHANGED <<now, issued, m_taskMtx, m_isTerminate, demonVars, spc, poolVars, late,
                       covered>>

\* Mutant: the set changes without m_taskMtx.
AddInsert_NoLock(x) == At(x, "insert", "notify") /\ Insert(x)

AddInsert(x) == m_taskMtx = NoThread /\ At(x, "insert", "notify") /\ Insert(x)

\* Mutant: nobody is told.
AddNotify_None(x) ==
    /\ At(x, "notify", IF plan[x] = <<>> THEN "idle" ELSE "insert")
    /\ UNCHANGED <<now, due, m_taskMtx, m_tasks, m_isTerminate, demonVars, issued,
                   plan, spc, poolVars, historyVars>>

\* After the unlock; AddRepeatTask then adds the next one.
AddNotify(x) ==
    /\ pc[x] = "notify"
    /\ WakeDemon
    /\ WakeCallers([pc EXCEPT ![x] = IF plan[x] = <<>> THEN "idle" ELSE "insert"])
    /\ UNCHANGED <<now, due, m_taskMtx, m_tasks, m_isTerminate, sampled, left, issued, plan,
                   spc, poolVars, historyVars>>
-----------------------------------------------------------------------------
(***************************************************************************)
(* Shutdown.                                                               *)
(***************************************************************************)
ShutdownCall(x) ==
    /\ x \in Stoppers
    /\ CanCall(x)
    /\ At(x, "idle", "sd_acquire")
    /\ UNCHANGED <<now, due, m_taskMtx, m_tasks, m_isTerminate, demonVars, issued, plan, spc,
                   poolVars, historyVars>>

ShutdownWait(x) ==
    /\ m_taskMtx = NoThread
    /\ m_tasks # {}
    /\ At(x, "sd_acquire", "sd_waiting")
    /\ UNCHANGED <<now, due, m_taskMtx, m_tasks, m_isTerminate, demonVars, issued, plan, spc,
                   poolVars, historyVars>>

\* CHECK_THROW: it was shut down before.
ShutdownThrow(x) ==
    /\ m_taskMtx = NoThread
    /\ m_tasks = {}
    /\ m_isTerminate
    /\ At(x, "sd_acquire", "idle")
    /\ UNCHANGED <<now, due, m_taskMtx, m_tasks, m_isTerminate, demonVars, issued, plan, spc,
                   poolVars, historyVars>>

\* Mutant: does not wait until m_tasks is empty.
ShutdownTerminate_NoWait(x) ==
    /\ m_taskMtx = NoThread
    /\ ~m_isTerminate
    /\ pc[x] = "sd_acquire"
    /\ m_taskMtx' = x
    /\ m_isTerminate' = TRUE
    /\ WakeDemon
    /\ WakeCallers([pc EXCEPT ![x] = "pool_poll"])
    /\ covered' = 1..Len(due)
    /\ UNCHANGED <<now, due, m_tasks, sampled, left, issued, plan, spc, poolVars, tied, late>>

\* Mutant: the pool is shut down after the mutex has been given back.
ShutdownTerminate_Unlocks(x) ==
    /\ m_taskMtx = NoThread
    /\ m_tasks = {}
    /\ ~m_isTerminate
    /\ pc[x] = "sd_acquire"
    /\ m_isTerminate' = TRUE
    /\ WakeDemon
    /\ WakeCallers([pc EXCEPT ![x] = "pool_poll"])
    /\ covered' = 1..Len(due)
    /\ UNCHANGED <<now, due, m_taskMtx, m_tasks, sampled, left, issued, plan, spc, poolVars,
                   tied, late>>

\* m_taskMtx stays with Shutdown to the end of the call.
ShutdownTerminate(x) ==
    /\ m_taskMtx = NoThread
    /\ m_tasks = {}
    /\ ~m_isTerminate
    /\ pc[x] = "sd_acquire"
    /\ m_taskMtx' = x
    /\ m_isTerminate' = TRUE
    /\ WakeDemon
    /\ WakeCallers([pc EXCEPT ![x] = "pool_poll"])
    /\ covered' = 1..Len(due)
    /\ UNCHANGED <<now, due, m_tasks, sampled, left, issued, plan, spc, poolVars, tied, late>>

\* Mutant: the pool is closed over the tasks it has queued.
ShutdownPoolPoll_Unchecked(x) ==
    /\ At(x, "pool_poll", "pool_close")
    /\ UNCHANGED <<now, due, m_taskMtx, m_tasks, m_isTerminate, demonVars, issued, plan, spc,
                   poolVars, historyVars>>

\* m_threadPool.Shutdown(): the queue is seen empty, the pool closes, its threads are joined.
ShutdownPoolPoll(x) ==
    /\ queue = <<>>
    /\ At(x, "pool_poll", "pool_close")
    /\ UNCHANGED <<now, due, m_taskMtx, m_tasks, m_isTerminate, demonVars, issued, plan, spc,
                   poolVars, historyVars>>

ShutdownPoolClose(x) ==
    /\ At(x, "pool_close", "pool_join")
    /\ Pool!Close
    /\ UNCHANGED <<now, due, m_taskMtx, m_tasks, m_isTerminate, demonVars, issued, plan, spc,
                   historyVars>>

SlotsIdle == \A s \in Slots : slot[s] = NoTask

ShutdownReturn(x) ==
    /\ SlotsIdle
    /\ At(x, "pool_join", "idle")
    /\ m_taskMtx' = NoThread
    /\ UNCHANGED <<now, due, m_tasks, m_isTerminate, demonVars, issued, plan, spc, poolVars,
                   historyVars>>
-----------------------------------------------------------------------------
(***************************************************************************)
(* The demon: LocalRun.                                                    *)
(***************************************************************************)
\* while (!m_isTerminate), read without the mutex.
DemonLoop ==
    /\ dpc = "loop"
    /\ dpc' = IF m_isTerminate THEN "exit" ELSE "acquire"
    /\ UNCHANGED <<now, due, m_taskMtx, m_tasks, m_isTerminate, sampled, left, callVars, spc,
                   poolVars, historyVars>>

\* The wait, and the return after it when the queue was terminated.
DemonWait ==
    /\ dpc = "acquire"
    /\ m_taskMtx = NoThread
    /\ m_tasks = {} \/ m_isTerminate
    /\ dpc' = IF m_isTerminate THEN "exit" ELSE "waiting"
    /\ UNCHANGED <<now, due, m_taskMtx, m_tasks, m_isTerminate, sampled, left, callVars, spc,
                   poolVars, historyVars>>

DemonSweepStart ==
    /\ dpc = "acquire"
    /\ m_taskMtx = NoThread
    /\ m_tasks # {} /\ ~m_isTerminate
    /\ m_taskMtx' = Demon
    /\ dpc' = "sweep"
    /\ sampled' = now
    /\ left' = m_tasks
    /\ UNCHANGED <<now, due, m_tasks, m_isTerminate, callVars, spc, poolVars, historyVars>>

\* One turn of the loop over m_tasks, in the order of the timepoints: a task whose time is
\* still to come is handed to the pool, any other is passed over.
DemonSweep ==
    /\ dpc = "sweep"
    /\ \E e \in left :
          /\ \A f \in left : due[e] <= due[f]
          /\ left' = left \ {e}
          /\ \/ due[e] > sampled /\ Pool!Submit(e) /\ UNCHANGED late
             \/ due[e] <= sampled /\ late' = late \cup {e} /\ UNCHANGED poolVars
    /\ UNCHANGED <<now, due, m_taskMtx, m_tasks, m_isTerminate, dpc, sampled, callVars, spc,
                   tied, covered>>

\* Mutant: the callers of Shutdown are not told that the set is empty.
DemonClear_NoNotify ==
    /\ dpc = "sweep"
    /\ left = {}
    /\ m_tasks' = {}
    /\ m_taskMtx' = NoThread
    /\ dpc' = "loop"
    /\ UNCHANGED <<now, due, m_isTerminate, sampled, left, callVars, spc, poolVars,
                   historyVars>>

\* Mutant: what was handed over stays in the set.
DemonClear_Keeps ==
    /\ dpc = "sweep"
    /\ left = {}
    /\ m_taskMtx' = NoThread
    /\ dpc' = "loop"
    /\ WakeCallers(pc)
    /\ UNCHANGED <<now, due, m_tasks, m_isTerminate, sampled, left, issued, plan, spc, poolVars,
                   historyVars>>

\* m_tasks.clear(), the notification for Shutdown, and the mutex.
DemonClear ==
    /\ dpc = "sweep"
    /\ left = {}
    /\ m_tasks' = {}
    /\ m_taskMtx' = NoThread
    /\ dpc' = "loop"
    /\ WakeCallers(pc)
    /\ UNCHANGED <<now, due, m_isTerminate, sampled, left, issued, plan, spc, poolVars,
                   historyVars>>

\* A condition variable may wake a thread that nobody notified.
Spurious ==
    /\ \/ dpc = "waiting" /\ dpc' = "acquire" /\ UNCHANGED pc
       \/ (\E x \in Callers : At(x, "sd_waiting", "sd_acquire")) /\ UNCHANGED dpc
    /\ UNCHANGED <<now, due, m_taskMtx, m_tasks, m_isTerminate, sampled, left, issued, plan,
                   spc, poolVars, historyVars>>
-----------------------------------------------------------------------------
(***************************************************************************)
(* A thread of the pool, in the lambda that LocalRun submits.              *)
(***************************************************************************)
SlotBegin(s) ==
    /\ spc[s] = "idle"
    /\ Pool!Begin(s)
    /\ spc' = [spc EXCEPT ![s] = "sleep"]
    /\ UNCHANGED <<now, due, m_taskMtx, m_tasks, m_isTerminate, demonVars, callVars,
                   historyVars>>

\* sleep_until(taskptr->timepoint): the thread is not free for another task meanwhile.
SlotWake(s) ==
    /\ spc[s] = "sleep"
    /\ now >= due[slot[s]]
    /\ spc' = [spc EXCEPT ![s] = "func"]
    /\ UNCHANGED <<now, due, m_taskMtx, m_tasks, m_isTerminate, demonVars, callVars, poolVars,
                   historyVars>>

SlotFinish(s) ==
    /\ spc[s] = "func"
    /\ pc[s] = "idle"
    /\ Pool!Finish(s)
    /\ spc' = [spc EXCEPT ![s] = "idle"]
    /\ UNCHANGED <<now, due, m_taskMtx, m_tasks, m_isTerminate, demonVars, callVars,
                   historyVars>>
-----------------------------------------------------------------------------
AddNext(x) == \/ \E t \in Times : AddTaskAtTimePoint(x, t)
              \/ \E d \in Durations : AddTaskAfterDuration(x, d)
              \/ \E d \in Durations, n \in RepeatNums : AddRepeatTask(x, d, n)
              \/ AddInsert(x)
              \/ AddNotify(x)

ShutdownNext(x) == \/ ShutdownCall(x)
                   \/ ShutdownWait(x)
                   \/ ShutdownThrow(x)
                   \/ ShutdownTerminate(x)
                   \/ ShutdownPoolPoll(x)
                   \/ ShutdownPoolClose(x)
                   \/ ShutdownReturn(x)

DemonNext == DemonLoop \/ DemonWait \/ DemonSweepStart \/ DemonSweep \/ DemonClear

Next == \/ Tick
        \/ Start
        \/ \E x \in Threads : AddNext(x)
        \/ \E x \in Callers : ShutdownNext(x)
        \/ DemonNext
        \/ Spurious
        \/ \E s \in Slots : SlotBegin(s) \/ SlotWake(s) \/ SlotFinish(s)

Spec == Init /\ [][Next]_vars

(***************************************************************************)
(* Fairness.  Time passes, threads that can run do (WF), a thread that     *)
(* asks for m_taskMtx gets it if it is free again and again (SF), and the  *)
(* functions of the tasks end.  The pool starts and finishes what it was   *)
(* given, which is ThreadPool's AcceptedTaskFinishes.  Nothing is assumed  *)
(* of the join in the pool's Shutdown, which a lost wake-up can hang, and  *)
(* nobody has to call Start, Shutdown or the adders.                       *)
(***************************************************************************)
Fairness ==
    /\ WF_vars(Tick)
    /\ WF_vars(DemonLoop) /\ WF_vars(DemonSweep) /\ WF_vars(DemonClear)
    /\ SF_vars(DemonWait) /\ SF_vars(DemonSweepStart)
    /\ \A x \in Threads : SF_vars(AddInsert(x)) /\ WF_vars(AddNotify(x))
    /\ \A x \in Callers :
          /\ SF_vars(ShutdownWait(x) \/ ShutdownThrow(x) \/ ShutdownTerminate(x))
          /\ WF_vars(ShutdownPoolPoll(x) \/ ShutdownPoolClose(x))
    /\ \A s \in Slots : WF_vars(SlotBegin(s) \/ SlotWake(s) \/ SlotFinish(s))

FairSpec == Spec /\ Fairness
-----------------------------------------------------------------------------
(***************************************************************************)
(* Invariants.                                                             *)
(***************************************************************************)
InPool(x) == pc[x] \in {"pool_poll", "pool_close", "pool_join"}

\* The variables keep their types, and m_taskMtx is held by the demon exactly during its
\* sweep and by a thread exactly while its Shutdown is in the pool's.
TypeOK ==
    /\ now \in Times
    /\ issued \in 0..MaxTasks
    /\ due \in Seq(Times) /\ Len(due) <= issued
    /\ m_tasks \subseteq 1..Len(due)
    /\ m_isTerminate \in BOOLEAN
    /\ dpc \in DemonPC /\ sampled \in Times /\ left \subseteq m_tasks
    /\ pc \in [Threads -> CallPC]
    /\ plan \in [Threads -> Seq(Times)]
    /\ spc \in [Slots -> {"idle", "sleep", "func"}]
    /\ queue \in Seq(Tasks) /\ slot \in [Slots -> Tasks \cup {NoTask}]
    /\ seen \subseteq Tasks /\ done \subseteq seen /\ closed \in BOOLEAN
    /\ tied \subseteq Tasks /\ late \subseteq Tasks /\ covered \subseteq Tasks
    /\ m_taskMtx \in Threads \cup {Demon, NoThread}
    /\ m_taskMtx = Demon <=> dpc = "sweep"
    /\ \A x \in Threads : m_taskMtx = x <=> InPool(x)

\* Every task that was added is pending or was handed to the pool, except the two kinds that
\* the code leaves out: those that tied and those whose time had come.  In particular none
\* is added to the set between the sweep over it and its clear().
Accounted == 1..Len(due) = m_tasks \cup seen \cup tied \cup late

Pending == IF dpc = "sweep" THEN left ELSE m_tasks
Queued == {queue[i] : i \in DOMAIN queue}
Running == {slot[s] : s \in Slots} \ {NoTask}

\* No task is run twice, and none is both run and left out: with Accounted, a task that was
\* added is in exactly one place, from the set through the pool's queue and one of its threads
\* to the end of its function.  So the pool is never offered a task that it has been given.
OneFate ==
    /\ Pending \cap (seen \cup tied \cup late) = {}
    /\ seen \cap (tied \cup late) = {} /\ tied \cap late = {}
    /\ done \cap (Queued \cup Running) = {} /\ Queued \cap Running = {}
    /\ \A i, j \in DOMAIN queue : queue[i] = queue[j] => i = j
    /\ \A s, t \in Slots : slot[s] = slot[t] /\ s # t => slot[s] = NoTask

\* Between the call that adds it and its end a task has one fate, and not more than one.
ExactlyOneFate == Accounted /\ OneFate

\* When Shutdown has returned, all that was added before it took effect and that the demon
\* did not leave out has run to its end, and nothing runs any more.
ShutdownDrains ==
    m_isTerminate /\ (\A x \in Callers : ~InPool(x)) =>
        /\ covered \subseteq done \cup tied \cup late
        /\ queue = <<>> /\ SlotsIdle

\* The demon and the callers of Shutdown wait on one condition variable for opposite reasons,
\* and at the same time, against timer.h:60, since an insert comes before its notification.
\* A thread that waits for something that is already so is about to be notified.
WaitersCovered ==
    /\ dpc = "waiting" => /\ ~m_isTerminate
                          /\ m_tasks # {} => \E x \in Threads : pc[x] = "notify"
    /\ \A x \in Callers : pc[x] = "sd_waiting" => m_tasks # {}

\* Shutdown holds m_taskMtx and waits for the pool, whose task waits for m_taskMtx.
CallbackBlocked == \E s \in Slots, x \in Callers : pc[s] = "insert" /\ InPool(x)

\* What the demon, a thread in a call and a slot can do without waiting for anything but time.
DemonMoves == \/ dpc = "loop"
              \/ dpc = "acquire" /\ m_taskMtx = NoThread
              \/ /\ dpc = "sweep"
                 /\ left # {} => \E e \in left \ seen : \A f \in left : due[e] <= due[f]

CallMoves(x) == \/ pc[x] \in {"notify", "pool_close"}
                \/ pc[x] \in {"insert", "sd_acquire"} /\ m_taskMtx = NoThread
                \/ pc[x] = "pool_poll" /\ queue = <<>>
                \/ pc[x] = "pool_join" /\ SlotsIdle

SlotMoves(s) == \/ spc[s] = "idle" /\ slot[s] = NoTask /\ queue # <<>> /\ ~closed
                \/ spc[s] = "sleep"
                \/ spc[s] = "func" /\ pc[s] = "idle"

\* The demon, those who add and stop, and the pool's threads never wait for each other in a
\* cycle but that one: in a queue that was started somebody moves as long as a task is pending or
\* queued, or a call is at more than its wait for the set to become empty.
NoDeadlock ==
    /\ dpc # "none" /\ Slots # {} /\ ~CallbackBlocked
    /\ \/ m_tasks # {} /\ ~m_isTerminate
       \/ queue # <<>>
       \/ \E x \in Threads : pc[x] \notin {"idle", "sd_waiting"}
    => DemonMoves \/ (\E x \in Threads : CallMoves(x)) \/ (\E s \in Slots : SlotMoves(s))

\* Neither for a notification that was missed nor in a cycle.
NobodyWaitsInVain == WaitersCovered /\ NoDeadlock

\* timer.h:36: a Task is a task that the timer has to execute.  When the sweep is over and
\* m_tasks is about to be cleared, every task in it has been handed to the pool.
SweepSubmitsAll == dpc = "sweep" /\ left = {} => m_tasks \subseteq seen
-----------------------------------------------------------------------------
(***************************************************************************)
(* Liveness.                                                               *)
(***************************************************************************)
\* A task handed to the pool runs to its end, unless that deadlock comes first.
SubmittedTaskRuns == \A e \in Tasks : e \in seen ~> e \in done \/ CallbackBlocked

\* Shutdown of a queue that was started gets to where only the pool's threads have to exit,
\* or throws, except for that deadlock and for tasks that were added to a queue that another
\* Shutdown had terminated.
ShutdownEnds ==
    \A x \in Callers :
        pc[x] \in {"sd_acquire", "sd_waiting", "pool_poll"} /\ dpc # "none" ~>
            \/ pc[x] = "idle"
            \/ pc[x] = "pool_join" /\ SlotsIdle
            \/ CallbackBlocked
            \/ m_isTerminate /\ ~InPool(x) /\ (m_tasks # {} \/ \E y \in Callers : InPool(y))
=============================================================================

----------------------------- MODULE ThreadPool -----------------------------
(***************************************************************************)
(* why::ThreadPool (src/common/include/common/threadpool.h, threadpool.cpp)*)
(* with every thread that touches it: the workers that Start creates, the  *)
(* threads that call Start, execute, Shutdown and the destructor, and the  *)
(* tasks, which run on a worker and may call the pool themselves.          *)
(*                                                                         *)
(* A step is what one thread does between two points where another thread  *)
(* can see the difference.  The body of a critical section is one step     *)
(* where nothing outside it reads what it writes; m_isTerminate is written *)
(* without m_taskMtx, so a worker that decides to sleep and one that goes  *)
(* to sleep are two steps.  The unsynchronised reads of m_isTerminate are  *)
(* a data race: every read is a load of its own in the compiled code (a    *)
(* call of the mutex or of the condition variable lies between any two),   *)
(* so a read returns the value before or after the one write, which is     *)
(* what the interleaving of the steps gives.                               *)
(***************************************************************************)
EXTENDS Integers, Sequences, FiniteSets

CONSTANTS Callers,              \* threads outside the pool that hold a reference to it
          PoolSize,             \* the constructor's argument, m_threadNum(size)
          HardwareConcurrency,  \* what std::thread::hardware_concurrency() returns
          Tasks,                \* what execute is called with, each at most once
          Submitters,           \* the threads that call execute
          Stoppers,             \* the threads that call Shutdown
          NoTask, NoThread      \* "no task in hand", "no holder"

ASSUME PoolAssumption ==
    /\ PoolSize \in Nat
    /\ HardwareConcurrency \in Nat
    /\ NoTask \notin Tasks

\* Line 6: an argument of 0 asks for one thread per hardware thread.
m_threadNum == IF PoolSize = 0 THEN HardwareConcurrency ELSE PoolSize

\* The std::thread objects in the order in which Start pushes them to m_threads.
Workers == 1..m_threadNum
Threads == Callers \cup Workers

ASSUME ThreadsAssumption ==
    /\ Callers \cap Workers = {}
    /\ NoThread \notin Threads
    /\ Submitters \subseteq Threads
    /\ Stoppers \subseteq Threads

VARIABLES
    m_taskMtx,      \* the holder of m_taskMtx, between the steps of a worker
    m_threadMtx,    \* the holder of m_threadMtx
    m_threads,      \* how many threads m_threads holds: workers 1..m_threads exist
    m_taskLists,    \* the queue
    m_isTerminate,
    wpc,            \* where each worker is in Run and GetTask
    job,            \* the task a worker took from the queue
    cpc,            \* where each thread is in a call of Start, execute, Shutdown, ~ThreadPool
    joinAt,         \* Shutdown's loop: the next element of m_threads to join
    joined,         \* the threads on which join() has returned
    status,         \* a task's life; "done" and "broken" are what its future reports
    life,           \* the pool object: alive, in its destructor, destroyed, std::terminate called
    \* History, read by the properties only.
    polled,         \* for a thread in Shutdown: the tasks accepted when it found the queue empty
    promised,       \* the tasks in polled[x] of every Shutdown that returned without an exception
    missed,         \* the workers between their predicate and their sleep at a notify_all
    misuse          \* Start ran after m_isTerminate was set, or a task called Shutdown

objectVars == <<m_threads, m_isTerminate, life>>
queueVars == <<m_taskLists, status>>
workerVars == <<m_taskMtx, wpc, job>>
callVars == <<m_threadMtx, cpc>>
joinVars == <<joinAt, joined>>
historyVars == <<polled, promised, missed, misuse>>
vars == <<objectVars, queueVars, workerVars, callVars, joinVars, historyVars>>

WorkerPC == {"none", "loop", "acquire", "block", "waiting", "test", "run", "exit"}
CallPC == {"idle", "notify_one", "spawning", "polling", "locking", "terminating",
           "notify_all", "joining", "members"}

Init ==
    /\ m_taskMtx = NoThread
    /\ m_threadMtx = NoThread
    /\ m_threads = 0
    /\ m_taskLists = <<>>
    /\ m_isTerminate = FALSE
    /\ wpc = [w \in Workers |-> "none"]
    /\ job = [w \in Workers |-> NoTask]
    /\ cpc = [x \in Threads |-> "idle"]
    /\ joinAt = [x \in Threads |-> 1]
    /\ joined = {}
    /\ status = [t \in Tasks |-> "new"]
    /\ life = "alive"
    /\ polled = [x \in Threads |-> {}]
    /\ promised = {}
    /\ missed = {}
    /\ misuse = FALSE

\* std::terminate ends every thread; a destroyed pool has none left.
Running == life \in {"alive", "dtor"}

\* A thread that can call a member function now: one of the program's own threads while
\* the object is alive, or a task that is being run.
CanCall(x) ==
    /\ cpc[x] = "idle"
    /\ \/ x \in Callers /\ life = "alive"
       \/ x \in Workers /\ wpc[x] = "run" /\ Running

Accepted == {t \in Tasks : status[t] # "new"}
Waiting == {w \in Workers : wpc[w] = "waiting"}

At(x, from, to) == /\ cpc[x] = from
                   /\ cpc' = [cpc EXCEPT ![x] = to]
-----------------------------------------------------------------------------
(***************************************************************************)
(* Start: holds m_threadMtx while it creates m_threadNum threads.          *)
(***************************************************************************)
StartCall(x) ==
    /\ x \in Callers
    /\ CanCall(x)
    /\ m_threadMtx = NoThread
    /\ m_threads = 0                          \* otherwise CHECK_THROW: nothing changes
    /\ At(x, "idle", "spawning")
    /\ m_threadMtx' = x
    /\ UNCHANGED <<objectVars, queueVars, workerVars, joinVars, historyVars>>

\* Mutant: i <= m_threadNum.
StartSpawn_OneMore(x) ==
    /\ Running
    /\ At(x, "spawning", "spawning")
    /\ m_threads <= m_threadNum
    /\ m_threads' = m_threads + 1
    /\ wpc' = [wpc EXCEPT ![m_threads + 1] = "loop"]
    /\ misuse' = (misuse \/ m_isTerminate)
    /\ UNCHANGED <<m_taskMtx, m_threadMtx, m_isTerminate, job, life, polled, promised, missed,
                   queueVars, joinVars>>

StartSpawn(x) ==
    /\ Running
    /\ At(x, "spawning", "spawning")
    /\ m_threads < m_threadNum
    /\ m_threads' = m_threads + 1
    /\ wpc' = [wpc EXCEPT ![m_threads + 1] = "loop"]
    /\ misuse' = (misuse \/ m_isTerminate)
    /\ UNCHANGED <<m_taskMtx, m_threadMtx, m_isTerminate, job, life, polled, promised, missed,
                   queueVars, joinVars>>

\* The loop is over, or std::thread's constructor threw because the system has no thread
\* to give: either way the guard unlocks and m_threads keeps what was pushed.
StartReturn(x) ==
    /\ Running
    /\ At(x, "spawning", "idle")
    /\ m_threadMtx' = NoThread
    /\ UNCHANGED <<objectVars, queueVars, workerVars, joinVars, historyVars>>
-----------------------------------------------------------------------------
(***************************************************************************)
(* execute: push under m_taskMtx, unlock, then wake one worker.            *)
(***************************************************************************)
Execute(x, t) ==
    /\ x \in Submitters
    /\ CanCall(x)
    /\ status[t] = "new"
    /\ m_taskMtx = NoThread
    /\ At(x, "idle", "notify_one")
    /\ m_taskLists' = Append(m_taskLists, t)
    /\ status' = [status EXCEPT ![t] = "queued"]
    /\ UNCHANGED <<m_threadMtx, objectVars, workerVars, joinVars, historyVars>>

\* Mutant: wakes a worker only when it saw the queue empty before its push.
ExecuteNotify_Skipped(x) ==
    /\ Running
    /\ At(x, "notify_one", "idle")
    /\ IF Waiting = {} \/ Len(m_taskLists) # 1
          THEN UNCHANGED wpc
          ELSE \E w \in Waiting : wpc' = [wpc EXCEPT ![w] = "acquire"]
    /\ UNCHANGED <<m_taskMtx, m_threadMtx, job, objectVars, queueVars, joinVars, historyVars>>

\* Mutant: nobody is told of the task.
ExecuteNotify_None(x) ==
    /\ Running
    /\ At(x, "notify_one", "idle")
    /\ UNCHANGED <<m_threadMtx, objectVars, queueVars, workerVars, joinVars, historyVars>>

ExecuteNotify(x) ==
    /\ Running
    /\ At(x, "notify_one", "idle")
    /\ \/ /\ Waiting = {}
          /\ UNCHANGED wpc
       \/ \E w \in Waiting : wpc' = [wpc EXCEPT ![w] = "acquire"]
    /\ UNCHANGED <<m_taskMtx, m_threadMtx, job, objectVars, queueVars, joinVars, historyVars>>
-----------------------------------------------------------------------------
(***************************************************************************)
(* Shutdown.                                                               *)
(***************************************************************************)
ShutdownCall(x) ==
    /\ x \in Stoppers
    /\ CanCall(x)
    /\ At(x, "idle", "polling")
    /\ misuse' = (misuse \/ x \in Workers)
    /\ UNCHANGED <<m_threadMtx, polled, promised, missed, objectVars, queueVars, workerVars,
                   joinVars>>

\* Mutant: Shutdown terminates the pool without a look at the queue.
ShutdownPoll_Unchecked(x) ==
    /\ Running
    /\ m_taskMtx = NoThread
    /\ At(x, "polling", "locking")
    /\ polled' = [polled EXCEPT ![x] = Accepted]
    /\ UNCHANGED <<m_threadMtx, promised, missed, misuse, objectVars, queueVars, workerVars,
                   joinVars>>

\* The loop sleeps 500 ms and looks again until it sees the queue empty.
ShutdownPoll(x) ==
    /\ Running
    /\ m_taskMtx = NoThread
    /\ m_taskLists = <<>>
    /\ At(x, "polling", "locking")
    /\ polled' = [polled EXCEPT ![x] = Accepted]
    /\ UNCHANGED <<m_threadMtx, promised, missed, misuse, objectVars, queueVars, workerVars,
                   joinVars>>

ShutdownLock(x) ==
    /\ Running
    /\ m_threadMtx = NoThread
    /\ At(x, "locking", "terminating")
    /\ m_threadMtx' = x
    /\ UNCHANGED <<objectVars, queueVars, workerVars, joinVars, historyVars>>

\* Written without m_taskMtx.
ShutdownTerminate(x) ==
    /\ Running
    /\ At(x, "terminating", "notify_all")
    /\ m_isTerminate' = TRUE
    /\ UNCHANGED <<m_threadMtx, m_threads, life, queueVars, workerVars, joinVars, historyVars>>

Blocking == {w \in Workers : wpc[w] = "block"}

\* Mutant: notify_one where notify_all is meant.
ShutdownNotify_One(x) ==
    /\ Running
    /\ At(x, "notify_all", "joining")
    /\ IF Waiting = {} THEN UNCHANGED wpc
                       ELSE \E w \in Waiting : wpc' = [wpc EXCEPT ![w] = "acquire"]
    /\ joinAt' = [joinAt EXCEPT ![x] = 1]
    /\ missed' = missed \cup Blocking
    /\ UNCHANGED <<m_taskMtx, m_threadMtx, job, joined, polled, promised, misuse, objectVars,
                   queueVars>>

\* notify_all, then the loop over m_threads starts.
ShutdownNotify(x) ==
    /\ Running
    /\ At(x, "notify_all", "joining")
    /\ wpc' = [w \in Workers |-> IF w \in Waiting THEN "acquire" ELSE wpc[w]]
    /\ joinAt' = [joinAt EXCEPT ![x] = 1]
    /\ missed' = missed \cup Blocking
    /\ UNCHANGED <<m_taskMtx, m_threadMtx, job, joined, polled, promised, misuse, objectVars,
                   queueVars>>

ShutdownJoin(x) ==
    /\ Running
    /\ cpc[x] = "joining"
    /\ joinAt[x] \in (1..m_threads) \ (joined \cup {x})
    /\ wpc[joinAt[x]] = "exit"
    /\ joined' = joined \cup {joinAt[x]}
    /\ joinAt' = [joinAt EXCEPT ![x] = @ + 1]
    /\ UNCHANGED <<objectVars, queueVars, workerVars, callVars, historyVars>>

\* join() throws std::system_error for a thread that was joined before and for the
\* calling thread itself.  The guard unlocks, and an exception that leaves the destructor
\* calls std::terminate.
ShutdownThrow(x) ==
    /\ Running
    /\ cpc[x] = "joining"
    /\ joinAt[x] \in (1..m_threads) \cap (joined \cup {x})
    /\ m_threadMtx' = NoThread
    /\ cpc' = [cpc EXCEPT ![x] = "idle"]
    /\ life' = IF x \in Callers /\ life = "dtor" THEN "terminated" ELSE life
    /\ UNCHANGED <<m_threads, m_isTerminate, queueVars, workerVars, joinVars, historyVars>>

\* Mutant: the loop leaves the last thread out.
ShutdownReturn_OneShort(x) ==
    /\ Running
    /\ cpc[x] = "joining"
    /\ joinAt[x] >= m_threads
    /\ m_threadMtx' = NoThread
    /\ cpc' = [cpc EXCEPT ![x] =
                  IF x \in Callers /\ life = "dtor" THEN "members" ELSE "idle"]
    /\ promised' = promised \cup polled[x]
    /\ UNCHANGED <<polled, missed, misuse, objectVars, queueVars, workerVars, joinVars>>

ShutdownReturn(x) ==
    /\ Running
    /\ cpc[x] = "joining"
    /\ joinAt[x] > m_threads
    /\ m_threadMtx' = NoThread
    /\ cpc' = [cpc EXCEPT ![x] =
                  IF x \in Callers /\ life = "dtor" THEN "members" ELSE "idle"]
    /\ promised' = promised \cup polled[x]
    /\ UNCHANGED <<polled, missed, misuse, objectVars, queueVars, workerVars, joinVars>>
-----------------------------------------------------------------------------
(***************************************************************************)
(* ~ThreadPool: no other thread of the program is inside the pool; Shutdown*)
(* runs only if m_isTerminate is still false; then the members go.  A      *)
(* std::thread that is still joinable calls std::terminate in its own      *)
(* destructor; a task that is still queued breaks its promise.             *)
(***************************************************************************)
DestroyCall(x) ==
    /\ x \in Callers
    /\ life = "alive"
    /\ \A y \in Callers : cpc[y] = "idle"
    /\ life' = "dtor"
    /\ cpc' = [cpc EXCEPT ![x] = IF m_isTerminate THEN "members" ELSE "polling"]
    /\ UNCHANGED <<m_threadMtx, m_threads, m_isTerminate, queueVars, workerVars, joinVars,
                   historyVars>>

\* Mutant: the vector gives up threads that are still running.
DestroyMembers_Unchecked(x) ==
    /\ life = "dtor"
    /\ At(x, "members", "idle")
    /\ life' = "destroyed"
    /\ m_taskLists' = <<>>
    /\ status' = [t \in Tasks |-> IF status[t] = "queued" THEN "broken" ELSE status[t]]
    /\ UNCHANGED <<m_threadMtx, m_threads, m_isTerminate, workerVars, joinVars, historyVars>>

DestroyMembers(x) ==
    /\ life = "dtor"
    /\ At(x, "members", "idle")
    /\ \/ /\ 1..m_threads \subseteq joined
          /\ life' = "destroyed"
          /\ m_taskLists' = <<>>
          /\ status' = [t \in Tasks |-> IF status[t] = "queued" THEN "broken" ELSE status[t]]
       \/ /\ ~(1..m_threads \subseteq joined)
          /\ life' = "terminated"
          /\ UNCHANGED <<m_taskLists, status>>
    /\ UNCHANGED <<m_threadMtx, m_threads, m_isTerminate, workerVars, joinVars, historyVars>>
-----------------------------------------------------------------------------
(***************************************************************************)
(* A worker: Run, and GetTask inlined in it.                               *)
(***************************************************************************)
\* while (!m_isTerminate), read without a lock.
RunLoop(w) ==
    /\ Running
    /\ wpc[w] = "loop"
    /\ wpc' = [wpc EXCEPT ![w] = IF m_isTerminate THEN "exit" ELSE "acquire"]
    /\ UNCHANGED <<m_taskMtx, job, objectVars, queueVars, callVars, joinVars, historyVars>>

\* Take m_taskMtx, or take it back after a wake-up, and evaluate the predicate of the wait.
GetTaskPredicate(w) ==
    /\ Running
    /\ wpc[w] = "acquire"
    /\ m_taskMtx = NoThread
    /\ m_taskMtx' = w
    /\ wpc' = [wpc EXCEPT ![w] =
                  IF m_taskLists # <<>> \/ m_isTerminate THEN "test" ELSE "block"]
    /\ UNCHANGED <<job, objectVars, queueVars, callVars, joinVars, historyVars>>

\* wait() unlocks and sleeps in one step; a notification sent before it is not seen.
GetTaskBlock(w) ==
    /\ Running
    /\ wpc[w] = "block"
    /\ m_taskMtx' = NoThread
    /\ wpc' = [wpc EXCEPT ![w] = "waiting"]
    /\ UNCHANGED <<job, objectVars, queueVars, callVars, joinVars, historyVars>>

\* Mutant: a wake-up that does not evaluate the predicate again.
GetTaskSpurious_NoRecheck(w) ==
    /\ Running
    /\ wpc[w] = "waiting"
    /\ m_taskMtx = NoThread
    /\ m_taskMtx' = w
    /\ wpc' = [wpc EXCEPT ![w] = "test"]
    /\ UNCHANGED <<job, objectVars, queueVars, callVars, joinVars, historyVars>>

\* A condition variable may wake a thread that nobody notified.
GetTaskSpurious(w) ==
    /\ Running
    /\ wpc[w] = "waiting"
    /\ wpc' = [wpc EXCEPT ![w] = "acquire"]
    /\ UNCHANGED <<m_taskMtx, job, objectVars, queueVars, callVars, joinVars, historyVars>>

\* The second look at m_isTerminate: a terminated pool hands out nothing, whatever is queued.
GetTaskNull(w) ==
    /\ Running
    /\ wpc[w] = "test"
    /\ m_isTerminate
    /\ m_taskMtx' = NoThread
    /\ wpc' = [wpc EXCEPT ![w] = "loop"]
    /\ UNCHANGED <<job, objectVars, queueVars, callVars, joinVars, historyVars>>

\* Mutant: front() without pop_front().
GetTaskTake_NoPop(w) ==
    /\ Running
    /\ wpc[w] = "test"
    /\ ~m_isTerminate
    /\ m_taskLists # <<>>
    /\ job' = [job EXCEPT ![w] = Head(m_taskLists)]
    /\ status' = [status EXCEPT ![Head(m_taskLists)] = "running"]
    /\ m_taskMtx' = NoThread
    /\ wpc' = [wpc EXCEPT ![w] = "run"]
    /\ UNCHANGED <<m_taskLists, objectVars, callVars, joinVars, historyVars>>

\* Mutant: the second look at m_isTerminate is missing.
GetTaskTake_Late(w) ==
    /\ Running
    /\ wpc[w] = "test"
    /\ m_taskLists # <<>>
    /\ job' = [job EXCEPT ![w] = Head(m_taskLists)]
    /\ m_taskLists' = Tail(m_taskLists)
    /\ status' = [status EXCEPT ![Head(m_taskLists)] = "running"]
    /\ m_taskMtx' = NoThread
    /\ wpc' = [wpc EXCEPT ![w] = "run"]
    /\ UNCHANGED <<objectVars, callVars, joinVars, historyVars>>

\* front(), pop_front(), and the lock goes when GetTask returns.
GetTaskTake(w) ==
    /\ Running
    /\ wpc[w] = "test"
    /\ ~m_isTerminate
    /\ m_taskLists # <<>>
    /\ job' = [job EXCEPT ![w] = Head(m_taskLists)]
    /\ m_taskLists' = Tail(m_taskLists)
    /\ status' = [status EXCEPT ![Head(m_taskLists)] = "running"]
    /\ m_taskMtx' = NoThread
    /\ wpc' = [wpc EXCEPT ![w] = "run"]
    /\ UNCHANGED <<objectVars, callVars, joinVars, historyVars>>

\* func() returns.  It is a packaged_task: what its callable throws goes to the future, so
\* the catch clause of Run is never entered.
RunFinish(w) ==
    /\ Running
    /\ wpc[w] = "run"
    /\ cpc[w] = "idle"
    /\ status' = [status EXCEPT ![job[w]] = "done"]
    /\ job' = [job EXCEPT ![w] = NoTask]
    /\ wpc' = [wpc EXCEPT ![w] = "loop"]
    /\ UNCHANGED <<m_taskMtx, m_taskLists, objectVars, callVars, joinVars, historyVars>>
-----------------------------------------------------------------------------
CallerNext(x) == \/ StartCall(x)
                 \/ StartSpawn(x)
                 \/ StartReturn(x)
                 \/ DestroyCall(x)
                 \/ DestroyMembers(x)

CallNext(x) == \/ \E t \in Tasks : Execute(x, t)
               \/ ExecuteNotify(x)
               \/ ShutdownCall(x)
               \/ ShutdownPoll(x)
               \/ ShutdownLock(x)
               \/ ShutdownTerminate(x)
               \/ ShutdownNotify(x)
               \/ ShutdownJoin(x)
               \/ ShutdownThrow(x)
               \/ ShutdownReturn(x)

WorkerNext(w) == \/ RunLoop(w)
                 \/ GetTaskPredicate(w)
                 \/ GetTaskBlock(w)
                 \/ GetTaskSpurious(w)
                 \/ GetTaskNull(w)
                 \/ GetTaskTake(w)
                 \/ RunFinish(w)

Next == \/ \E x \in Callers : CallerNext(x)
        \/ \E x \in Threads : CallNext(x)
        \/ \E w \in Workers : WorkerNext(w)

Spec == Init /\ [][Next]_vars

(***************************************************************************)
(* Fairness.  The operating system runs every thread that can run (WF), a  *)
(* thread that asks for a mutex again and again free gets it (SF), and     *)
(* tasks end.  ShutdownPoll is strongly fair also in what it sees: there   *)
(* are finitely many tasks, so the queue changes finitely often and a loop *)
(* that looks forever sees its last value.  Nobody has to call the pool,   *)
(* Start may fail, and no wake-up is spurious of necessity.                *)
(***************************************************************************)
\* The steps for which a thread waits for nobody; one at most is enabled at a time.
WorkerStep(w) == RunLoop(w) \/ GetTaskBlock(w) \/ GetTaskNull(w) \/ GetTaskTake(w) \/ RunFinish(w)

CallStep(x) == \/ StartSpawn(x)
               \/ StartReturn(x)
               \/ ExecuteNotify(x)
               \/ ShutdownTerminate(x)
               \/ ShutdownNotify(x)
               \/ ShutdownJoin(x)
               \/ ShutdownThrow(x)
               \/ ShutdownReturn(x)

Fairness == /\ \A w \in Workers : WF_vars(WorkerStep(w)) /\ SF_vars(GetTaskPredicate(w))
            /\ \A x \in Threads : WF_vars(CallStep(x)) /\ SF_vars(ShutdownPoll(x) \/ ShutdownLock(x))

FairSpec == Spec /\ Fairness
-----------------------------------------------------------------------------
(***************************************************************************)
(* Invariants.                                                             *)
(***************************************************************************)
\* The variables keep their types: in particular m_threads never holds more threads than
\* the constructor was told to make.
TypeOK ==
    /\ m_taskMtx \in Workers \cup {NoThread}
    /\ m_threadMtx \in Threads \cup {NoThread}
    /\ m_threads \in 0..m_threadNum
    /\ m_taskLists \in Seq(Tasks)
    /\ m_isTerminate \in BOOLEAN
    /\ wpc \in [Workers -> WorkerPC]
    /\ job \in [Workers -> Tasks \cup {NoTask}]
    /\ cpc \in [Threads -> CallPC]
    /\ joinAt \in [Threads -> Nat \ {0}]
    /\ joined \in SUBSET Workers
    /\ status \in [Tasks -> {"new", "queued", "running", "done", "broken"}]
    /\ life \in {"alive", "dtor", "destroyed", "terminated"}
    /\ polled \in [Threads -> SUBSET Tasks]
    /\ promised \in SUBSET Tasks
    /\ missed \in SUBSET Workers
    /\ misuse \in BOOLEAN

\* A task that was accepted and is not finished is in one place, the queue or the hands of
\* one worker: neither lost nor run twice, whoever pushes, pops and terminates meanwhile.
OnePlace ==
    /\ \A i, j \in 1..Len(m_taskLists) : m_taskLists[i] = m_taskLists[j] => i = j
    /\ \A t \in Tasks :
          /\ status[t] = "queued" <=> \E i \in 1..Len(m_taskLists) : m_taskLists[i] = t
          /\ status[t] = "running" <=> \E w \in Workers : job[w] = t
    /\ \A v, w \in Workers : job[v] = job[w] /\ job[v] # NoTask => v = w

\* The assertion in GetTask, threadpool.cpp:52: a worker that is past the wait and does not see
\* m_isTerminate finds a task, whoever else was woken for the same one.
TaskListNotEmpty ==
    \A w \in Workers : wpc[w] = "test" /\ ~m_isTerminate => m_taskLists # <<>>

\* The hand-over from callers to workers: no task is lost or given twice, and no worker comes for
\* a task that is not there.
HandOver == OnePlace /\ TaskListNotEmpty

\* What Shutdown is for: when it returns, every task that was accepted before it last
\* looked at the queue has run to its end.
ShutdownDrains == \A t \in promised : status[t] = "done"

\* execute notifies after it unlocked, and wakes one worker for one task, awake or not: as
\* long as some worker sleeps there are as many threads about to notify or about to look at
\* the queue as there are tasks in it, so no task is left to sleepers.
Awake == {w \in Workers : wpc[w] \in {"loop", "acquire", "test"}}
Notifiers == {x \in Threads : cpc[x] = "notify_one"}

WakeupsCoverQueue ==
    ~m_isTerminate /\ Waiting # {} =>
        Len(m_taskLists) <= Cardinality(Notifiers) + Cardinality(Awake)

\* Once a Shutdown has called notify_all, the only workers that can still sleep are those
\* that had evaluated their predicate, and were not asleep yet, when it did.
OnlyMissedSleep ==
    m_isTerminate /\ (\A x \in Threads : cpc[x] # "notify_all") => Waiting \subseteq missed

\* What a worker, and a thread in a call, can do without waiting for anybody.
WorkerMoves(w) == \/ wpc[w] \in {"loop", "block", "test"}
                  \/ wpc[w] = "acquire" /\ m_taskMtx = NoThread
                  \/ wpc[w] = "run" /\ cpc[w] = "idle"

CallMoves(x) == \/ cpc[x] \in {"notify_one", "spawning", "terminating", "notify_all", "members"}
                \/ cpc[x] = "polling" /\ m_taskMtx = NoThread /\ m_taskLists = <<>>
                \/ cpc[x] = "locking" /\ m_threadMtx = NoThread
                \/ /\ cpc[x] = "joining"
                   /\ joinAt[x] \in (1..m_threads) \ (joined \cup {x}) => wpc[joinAt[x]] = "exit"

\* Tasks that no worker will take: the pool has none, or is terminated.
Stranded == m_taskLists # <<>> /\ (m_isTerminate \/ m_threads = 0)

\* There is no cycle of threads that wait for each other, through the two mutexes, the condition
\* variable and the joins: as long as a task is queued or a call is under way somebody moves.
\* Exempt are the program that CleanDestruction exempts and the two ways in which a Shutdown
\* can wait forever.
NoDeadlock ==
    /\ Running /\ ~misuse /\ missed = {} /\ ~Stranded
    /\ m_taskLists # <<>> \/ \E x \in Threads : cpc[x] # "idle"
    => (\E w \in Workers : WorkerMoves(w)) \/ (\E x \in Threads : CallMoves(x))

\* A program that does not start a pool again after Shutdown, and whose tasks do not shut
\* their own pool down, is not ended by the pool's destructor.
CleanDestruction == life = "terminated" => misuse

\* When the members are gone no thread is still in a member function of the pool.
NoThreadOutlivesPool ==
    life = "destroyed" => /\ \A w \in Workers : wpc[w] \in {"none", "exit"}
                          /\ \A x \in Threads : cpc[x] = "idle"

\* The destructor neither ends a program that uses the pool properly nor leaves a thread behind.
SafeDestruction == CleanDestruction /\ NoThreadOutlivesPool
-----------------------------------------------------------------------------
(***************************************************************************)
(* The pool implements the abstract executor: its tasks begin in the order *)
(* in which execute accepted them, one to a worker, each at most once, and *)
(* none begins after m_isTerminate is set, although GetTask reads it       *)
(* without the mutex under which the queue lives.                          *)
(***************************************************************************)
Exec == INSTANCE TaskExecutor
            WITH Slots <- Workers, queue <- m_taskLists, slot <- job, seen <- Accepted,
                 done <- {t \in Tasks : status[t] = "done"}, closed <- m_isTerminate

ImplementsExecutor == Exec!ExecSpec
-----------------------------------------------------------------------------
(***************************************************************************)
(* Liveness.                                                               *)
(***************************************************************************)
\* An accepted task runs to its end, unless the pool has no thread or is terminated first:
\* no wake-up is lost between the workers and execute.
AcceptedTaskFinishes ==
    \A t \in Tasks :
        status[t] = "queued" /\ m_threads > 0 ~> status[t] = "done" \/ m_isTerminate

\* Shutdown returns, or throws, except in two cases: tasks are stranded, in a pool without
\* threads or behind m_isTerminate, or a worker missed the notification of termination.
InShutdown(x) == cpc[x] \in {"polling", "locking", "terminating", "notify_all", "joining"}

ShutdownEnds ==
    \A x \in Threads :
        InShutdown(x) ~> ~InShutdown(x) \/ Stranded \/ missed # {}

\* threadpool.cpp:45, of the wait in GetTask: it unblocks when the queue is not empty or
\* when the pool has been terminated.  A worker that sleeps in a terminated pool wakes up.
TerminationUnblocks ==
    \A w \in Workers : wpc[w] = "waiting" /\ m_isTerminate ~> wpc[w] # "waiting"
=============================================================================

# A TLA+ verification project for cpp_basic_library

The repository is a C++ library of services that share one process: a thread
pool, a timer queue on top of it, thread and semaphore wrappers, a registry of
configuration variables with change listeners, loggers that are configured
through that registry, and small file-system helpers.  Everything is in memory
and within one process; what makes it hard is the interleaving of threads, the
callbacks that run inside critical sections, and what is left behind when one
step of several throws.

This directory holds TLA+ modules that model those services, configurations
with which TLC checks them on small instances, and proofs that TLAPS checks for
every instance.  Paths below are relative to the repository, which the project
sees as `src/`.  `PROJECT.json` says for every definition which lines it
translates, for every property which change of the code would break it, and for
every hazard which property covers it.

## 1. The system

| Component | Source | State it keeps | Operations |
|---|---|---|---|
| ThreadPool | `src/common/.../threadpool.h`, `threadpool.cpp` | `m_threads`, `m_taskLists`, `m_isTerminate`, two mutexes, a condition variable | constructor, `Start`, `execute`, `Shutdown`, destructor; `Run` and `GetTask` on the workers |
| TimerQueue | `src/common/.../timer.h`, `timer.cpp` | `m_tasks`, a set ordered by time, `m_isTerminate`, `m_taskMtx`, `m_cv`, a ThreadPool | `Start`, `AddTaskAtTimePoint`, `AddTaskAfterDuration`, `AddRepeatTask`, `Shutdown`; `LocalRun` on a detached thread |
| Thread, ThisThread, Semaphore | `src/common/.../thread.h`, `thread.cpp`, `mutex.h`, `mutex.cpp` | `m_thread`, `m_id`, `m_semaphore`, a thread-local pointer to the object | constructor, `Join`, `Detach`, destructor; `run` on the new thread |
| ConfigVar, ConfigVarManager | `src/config` | the manager's map; per variable `m_val`, `m_cbs` and a mutex; one static key counter | `LookUp`, `SetValue`, `FromString`, `LoadFromYaml`, `AddListener`, `DelListener`, `ClearListener` |
| Loggers | `src/log` | the manager's map, `m_root`; per logger level, formatter, appenders; the variable `logs` | `GetLogger`, `DelLogger`, `Log`, changes of a logger, the listener of `LogIniter`, `ToYamlString` |
| LogFormatter | `src/log` | a list of items made from a pattern | `Parse`, both overloads of `Format` |
| LexicalCast | `src/config/config.h` | none | strings, YAML and containers into each other |
| FSUtil | `src/common/.../utils.h`, `utils.cpp` | none, it acts on the file system | `Mkdir`, `Unlink`, `Rm`, `Mv`, `Symlink`, `OpenForWrite`, `ListAllFile` |
| Back traces, times, strings | the rest of `utils.h`, `utils.cpp` | none | `BacktraceToString`, `GetCurrentMS`, ... |

How they interact:

* **Calls.** TimerQueue's demon calls `ThreadPool::execute` for every pending
  task, and `TimerQueue::Shutdown` calls `ThreadPool::Shutdown` while it holds
  its own mutex.  Loading a file calls `SetValue` of every variable it names.
* **Callbacks.** A task runs on a worker of the pool and may call the pool, or
  the timer that submitted it.  A listener runs inside `SetValue`, under the
  variable's mutex, and may set variables.  The loggers are configured by such
  a listener.
* **Shared state.** `m_isTerminate` of pool and timer is written under one
  mutex, or none, and read under another, or none.  The key counter of
  `AddListener` belongs to all variables of a type.  A logger is reached
  through the manager and through pointers that threads keep.
* **The operating system.** Condition variables may wake up of themselves,
  semaphore waits may be interrupted, thread creation may fail, and the ids of
  pthreads are used again.  Other processes change the file system between two
  system calls of FSUtil.

What is hard, and what makes each part correct:

* **ThreadPool** — a task that was accepted is in one place until it has run;
  nobody sleeps on queued work; `Shutdown` returns only when what was accepted
  before it has run, and does return; the destructor leaves no thread behind.
  The difficulty is that notifications and `m_isTerminate` are outside the
  mutex of the wait, and that Shutdown can be called twice, by a task, or
  between the steps of a `Start`.
* **TimerQueue** — no task is lost between the set and the pool; two kinds of
  waiters with opposite conditions share a condition variable; `Shutdown` drains;
  a callback that adds tasks meets a `Shutdown` that holds the mutex.
* **Thread** — an object that is constructed has a started pthread that no
  longer needs the constructor's arguments; its handle joins *its* pthread;
  pthreads that end are released.
* **ConfigVar** — listeners keep in step with the value in spite of exceptions
  and of listeners that set variables; a key names the listener it was returned
  for; a document that throws half way has set exactly the entries before;
  `SetValue` ends.
* **Loggers** — after any sequence of configurations, with good and bad
  entries, the loggers are what the one in force says; an accepted message
  reaches an appender also while the loggers are being configured, of its logger
  or of root, unless root has none left or root's own level drops it; an appender
  always has a formatter; what is written as YAML reads back.
* **LogFormatter** — the parser loses no character, what was parsed and is
  printed again parses to the same, and the two overloads of `Format` write the
  same.
* **FSUtil** — what a call reports was so at some moment while it ran, although
  it looks before it acts and others act in between; a call that ran alone has
  done what it is for, or failed for a good reason and changed nothing it need
  not; nothing is removed that the call was not asked to remove, whatever links
  the others put in its way.

## 2. Modules

| Module | What it is |
|---|---|
| `TaskExecutor` | abstract: what a pool promises to its users |
| `ThreadPool` | the pool, step by step; `ImplementsExecutor` says it implements `TaskExecutor` |
| `ThreadPoolProofs`, `TimerQueueProofs`, `ThreadProofs`, `ConfigVarProofs`, `FormattingProofs`, `LoggersProofs`, `FSUtilProofs` | the theorems about `ThreadPool`, `TimerQueue`, `Thread`, `ConfigVar`, `Formatting`, `Loggers`, `FSUtil` |
| `SequenceFacts` | lemmas that several proofs need: least elements, induction and recursion on natural numbers, pieces and concatenations of sequences |
| `TimerQueue` | the timer, composed with `TaskExecutor` in place of the pool |
| `LogFormatter` | `Parse` as a function, from the turns of its loop |
| `Formatting` | the life of a LogFormatter: the loop of `Parse`, turn by turn, then both overloads of `Format`, item by item |
| `Loggers` | the loggers with their configuration; extends `LogFormatter` |
| `ConfigVar` | variables, listeners and `LoadFromYaml` |
| `Thread` | `Thread`, `ThisThread` and `Semaphore` over a model of pthread ids |
| `FSUtil` | the functions of FSUtil, one step per system call, over a tree of files, directories, links and sockets |
| `MC*` | instances for TLC: model values, inputs and symmetries |

Operators named `X_Something` that stand before `X` with the comment `Mutant:`
are plausible mistakes in the code of `X`.  No specification uses them; each
property of a passing run is violated if `X` is replaced by one of them, which
`PROJECT.json` lists under `mutants`.

### ThreadPool

A step is what one thread does between two points where another can see the
difference.  Threads of the program (`Callers`) and workers have a program
counter for the call they are in (`cpc`), workers also one for `Run` with
`GetTask` inlined (`wpc`).

| State | Code |
|---|---|
| `m_taskMtx`, `m_threadMtx` | the holder of each mutex |
| `m_threads` | the length of the vector; worker `i` is its `i`-th element |
| `wpc[w] = "block"` | the predicate of the wait was false, the thread is not asleep yet |
| `wpc[w] = "waiting"` | asleep on `m_cv` |
| `status[t]` | the future of a task |
| `joined`, `joinAt` | on which elements `join` has returned, and the loop's index |
| `life` | the object: alive, in its destructor, destroyed, `std::terminate` called |
| `polled`, `promised`, `missed`, `misuse` | history that only properties read |

`Start` is `StartCall`, `StartSpawn` per thread and `StartReturn`, which may
come early because the constructor of `std::thread` may throw.  `execute` is
`Execute`, the push under the mutex, and `ExecuteNotify`, after the unlock.
`Shutdown` is the poll, the lock of `m_threadMtx`, the write of `m_isTerminate`,
`notify_all` and the loop of joins, which throws for a thread that was joined
before and for the caller itself.  The destructor calls Shutdown only if
`m_isTerminate` is false, and then destroys the members: a thread that is still
joinable calls `std::terminate`.  A task is a worker in `"run"`; it can call
`execute` and `Shutdown` (`CanCall`).

`ImplementsExecutor` maps the queue to the queue, `job` to the slots, the
accepted tasks to `seen` and `m_isTerminate` to `closed`.  `TaskExecutor` says
that tasks begin in the order of acceptance, one to a slot, once, and never
after the pool is closed.

### TimerQueue

`m_tasks` is a set of task numbers; `due` gives their times.  A task that ties
with a pending one is left out, as `std::set` with that comparison does.  The
demon's `LocalRun` is `DemonLoop`, `DemonWait`, `DemonSweepStart`, `DemonSweep`
per task and `DemonClear`; the sweep holds `m_taskMtx`.  A slot of the pool
sleeps until the task's time (`SlotWake`) and then runs its function, which may
add tasks.  `Shutdown` keeps the mutex from the moment it sees the set empty
until the pool has shut down.  The calls of the pool are the actions of
`TaskExecutor`, so that what is checked here rests on `ImplementsExecutor` and,
for progress, on `AcceptedTaskFinishes`.

### Loggers and LogFormatter

The registry variable `logs` is `m_val`; `set` is the one `SetValue` that can
be in progress, with the listener of `LogIniter` inlined: one step for every
critical section it goes through, which are those of the manager, of a logger
and of an appender.  A document is a sequence of entries with missing and
malformed fields.  `Users` look loggers up, keep them, change and delete them
and log; `LogCall` is the check of the level, `LogEmit` the writing under the
logger's mutex: a logger without appenders calls `m_root->Log`, which checks
the level of root once more.  `lost` records that a message found no appender,
`muted` that root's level dropped it, `rootCut` and `rootRaised` that somebody,
the program or a configuration, took an appender from root or set its level
above `DEBUG`, with which it begins.  `Rebuilt` takes the listener's own turns over an entry one
after the other and is what `YamlRebuilds` compares with.  `Files` are the
names of log files, among them perhaps the empty one (`Unnamed`), which makes
the listener throw; `Missing` stands for a field that is not in the file.
`ConfigApplied` compares the appenders by what they show (`Shown`): type, file,
level and formatter, after the defaults of the code.

`Parse` is a function of the pattern with one `Turn` per turn of the loop,
including what it does with `%%` and with a `%` at the end.  `Formatting` takes
those turns as steps, so that `TextKept` is an invariant of the loop, and then
formats an event: `out` is the string and `pos` of the overload that doubles
the string once per item, `stream` what the other overload has written.

### ConfigVar

Every thread has a stack of calls because a listener may call `SetValue`.  A
frame is at `lock`, `listener`, `assign`, or is a `load` (a document in
progress).  `AddListener` takes three steps after the lock since the counter is
read and written without a common mutex.  An entry of `m_cbs` remembers which
call of `AddListener` it came from and the value its listener saw last.

### Thread

A pthread goes by the name of the object that made it.  `who` says to which
pthread an id belongs; an id is free again when its pthread was joined or ended
detached, while `m_thread` of the old object still holds it.  `PthreadDetach`,
`Takes` and `DetachReturns` are the system's part and external to the sources.

### FSUtil

`tree` is the file system, which all `Callers` share.  A caller has a stack of
the functions it is in, since `Rm` and `ListAllFile` recurse, `Mv` and
`Symlink` call `Rm`, and `OpenForWrite` calls `Mkdir`.  A frame has the entries
of the directory still to come (`todo`), how far `Mkdir` is in the path (`i`)
and the `ret` of the code, which the result of every callee overwrites.  The
actions are named for the function and the system call they stand at:
`RmLstat`, `RmOpendir`, `RmReaddir`, `RmRmdir`, and so on.

`lstat`, `mkdir`, `rename` and the others are external.  A file system is a
function from places to what is there (`IsFileSystem`).  `Target` says where a
path leads: a function over all paths for every number of links within each
other, of which `Walk` takes one path name by name and `Enter` one name; `Place`
is where the last name is looked up, whether or not there is a link.
`CanRename`, `CanUnlink` and their like say when a system call succeeds.  `hist`
is what the properties remember of a call: the tree it began with, whether
anybody else changed the tree or put a link into it since (`alone`, `linked`),
whether there was something and whether there was nothing at its path at some
moment (`met`, `missed`), and the files that `ListAllFile` could have found at
some moment and at all (`ever`, `stable`).

## 3. What TLC checks

| Run | Question |
|---|---|
| `pool_safety` | The pool's invariants, `NoDeadlock` among them, and `ImplementsExecutor`, when anybody, tasks included, calls anything at any time |
| `pool_liveness` | Accepted tasks finish; `Shutdown` ends, with the exact exceptions |
| `pool_lost_wakeup` | finding: a worker misses the end of the pool |
| `timer_safety` | Tasks are accounted for and each has one fate, Shutdown drains, no waiter is forgotten, and the only deadlock is that with a callback |
| `timer_liveness` | Submitted tasks run, `Shutdown` ends, except for the deadlock with a callback |
| `timer_late` | finding: a due task is dropped |
| `log_safety` | Loggers are as configured in spite of bad entries and of concurrent use; what is written as YAML reads back |
| `log_format` | A formatter from its construction to its output, for every short pattern: nothing is lost, a formatter is its pattern, both overloads of `Format` write the same |
| `log_root` | finding: a second configuration takes root's default appender |
| `config_vars` | Listeners in step, keys, prefix of a document; no deadlock while listeners go one way; `SetValue` and `LoadFromYaml` end, except in a circle |
| `thread_handles` | What a handle may rely on although ids are used again, and that nobody waits in vain |
| `fs_utils` | What the functions of FSUtil have done when they return, beside each other and alone, and what they never touch |

`NoDeadlock` of the pool and the variables, `NobodyWaitsInVain` of the timer and
`WaitsWork` of Thread say in every state what liveness rests on: that somebody who has
something to do can do it.  They are written with predicates on the state
(`WorkerMoves`, `DemonMoves`, `CallMoves`, `SlotMoves`, `Waits`) that say whether
a thread has a step of its own to take, now or when its time has come, without a
spurious wake-up or another call of the program.  Their exemptions are the
deadlocks the code has: a worker that missed the end, tasks behind it or
without threads, a `Shutdown` of the pool by its own task, a callback that adds
a task while the timer's `Shutdown` holds the mutex, and listeners that set
variables in a circle.

Where two statements make one promise they are the named parts of one property:
`HandOver` is `OnePlace` and `TaskListNotEmpty`, `SafeDestruction` is
`CleanDestruction` and `NoThreadOutlivesPool`, `ExactlyOneFate` is `Accounted` and
`OneFate`, `NobodyWaitsInVain` is `WaitersCovered` and the timer's `NoDeadlock`,
`WaitsWork` is `WaitsAnswered` and `DanglingOnlyUnjoined`.  Each part has a mutant
and a theorem of its own.

The properties of each run are in its `.cfg`; the comment on each says what it
means.  Several are *exact*: they name the circumstances in which the code does
not do what one would wish, and say that these are the only ones.
`OnlyMissedSleep` and `ShutdownEnds` name the missed notification,
`Accounted` the two kinds of dropped tasks, `CleanDestruction` the calls that
lead to `std::terminate`, `KeysNameListeners` the overlap of two `AddListener`,
`ConfigApplied` the entries that a throwing `SetValue` touched,
`NothingLost` the two ways in which an accepted message vanishes, each with its
cause (with root at `FATAL`, an `INFO` message of a logger whose appenders the
listener has just cleared is dropped although root has its own: the run reaches
this state),
`JoinRefusedOnlyIfRobbed` the handle that kept an id, `RmExact` the sockets
that `Rm` takes for directories, `MvExact` what is lost when the source of `Mv`
is at or below its destination or its path leads through it, `AloneExact` the
path through a link that `Rm` removes on the way, `RemovesOnlyBelow` the link
that replaces a directory between `lstat` and `opendir`.

### Findings

1. `pool_lost_wakeup` — `threadpool.cpp:36-37` writes `m_isTerminate` and
   notifies without `m_taskMtx`.  A worker that has evaluated its predicate and
   does not sleep yet sees neither and sleeps on; `Shutdown` never returns from
   `join`.
2. `timer_late` — `timer.cpp:52` hands over only tasks whose time is still to
   come and then clears the set: a task that is due when the demon gets to it
   is never run.
3. `log_root` — configuring root twice clears all its appenders and passes over
   the StdOut of its entry, against the comment at `log.cpp:802`.

The comment at `timer.h:60`, that only one thread ever waits on the timer's
condition variable, is not true either: between an insert and its notification
the demon and a caller of Shutdown wait together.  `WaitersCovered` shows that
`notify_all`, which the code uses, is enough; `notify_one` would not be.

### Bounds

* Pool: two callers, two workers, three tasks (two for liveness, one of each in
  the finding).  Two callers are needed for two Shutdowns, and for a Shutdown
  beside an `execute`; two workers so that one can take the task the other was
  woken for; three tasks so that one can be queued while both workers are busy.
  Every task is submitted once, so all behaviours are finite but for spurious
  wake-ups and the loops.
* Timer: two callers, two slots, `MaxTime` 2, `MaxTasks` 3; one slot and two
  tasks for liveness, where a sleeping task then blocks the only slot.  Times
  0..2 give tasks that are past, present and to come, and ties; `RepeatNums`
  is {2}, durations are 0 and 1.  `MaxTime` bounds the clock in `Tick` and the
  timepoints in `AddCall`; `MaxTasks` is in the guard of `AddCall`.
* Loggers: `MaxSets` 3, so that an entry can be set, changed or thrown out and
  set again; `MaxChanges` 1; seven documents, each with another mistake or
  change; one user, since users meet only in critical sections of one step.
* Formatter: patterns of up to six characters over two letters, one of which
  names an item, the three signs of the parser and one other character; six is
  enough for text before and after a parameter, and for three items in a row.  An item writes up
  to two characters, into a string of up to three at first.
* Config: two threads, two variables, two values; `MaxDepth` 2 is enough for a
  listener to set its own variable and for a circle of two threads, `MaxNested`
  1, `MaxAdds` 2 for the overlap.  `SetValueEnds` speaks of one thread, since
  the threads are interchangeable.  The document has a good value, a bad value,
  which is passed over as long as its key is unknown, and a bad key.  A key
  that comes twice is left to the proof of `LoadIsPrefix`.
* Thread: three objects and two ids, so that an id has an old handle, a new
  owner and an outsider.
* FSUtil: two callers with two calls between them, so that any two calls out of
  31 meet in every interleaving, or come one after the other; two trees that
  together have files, nested directories, links to directories, to the
  root and to nothing, a socket, and a directory that cannot be changed; `MaxLinks` 2.  Two
  calls are enough for what is checked, since a property is about one call and
  whatever disturbs it.

Symmetry is used in `pool_safety`, `timer_safety` and `fs_utils`, over values
that nothing distinguishes, and never with a liveness property.

`CHECK_DEADLOCK FALSE` stands where the system really stops: a pool destroyed,
ended by `std::terminate` or waiting for itself; a timer that was shut down or
is in the deadlock with a callback; listeners in a circle; and where the calls
of the program are bounded and used up.

### Fairness

* Threads that can run do (WF), and a thread that asks for a mutex which is
  free again and again gets it (SF).  The operating system and the mutexes of
  the library give that.
* Tasks and listeners end.  Without it the services cannot promise anything.
* `ShutdownPoll` is strongly fair in what it sees as well: there are finitely
  many tasks, so that the queue changes finitely often and a loop that looks
  for ever sees its last value.
* In the timer, the pool begins and finishes what it was given
  (`AcceptedTaskFinishes`), but its join need not end, because of finding 1.
* In Thread, `run` and the constructor's return; nothing of the callback.
* Nowhere: that somebody calls something, that a thread can be created, that a
  wake-up is spurious.

## 4. What is proved

With TLAPS, for every value of the constants that satisfies the assumptions of
the module, which TLC evaluates as well.  They say that sizes are natural
numbers, that the values that stand for "nobody" and "nothing" are not threads
or tasks, what type the inputs have, that there are finitely many variables, and
that the letters of a pattern are none of the parser's signs.

### ThreadPoolProofs

For every number of callers, workers and tasks and every choice of who submits
and who stops:

| Theorem | What it says |
|---|---|
| `TypeCorrect` | `Spec => []TypeOK` |
| `TasksInOnePlace` | an accepted task that has not ended is in the queue once or with one worker |
| `ShutdownDrainsPool` | what a returned `Shutdown` had seen accepted has run |
| `NoThreadOutlives` | when the members go, no thread is in `Run` or in a call |
| `DestructionClean` | the destructor ends the program only if the pool was started again after Shutdown, or shut down by a task |
| `TaskListNeverEmpty` | the assertion at `threadpool.cpp:52` |
| `HandedOver`, `DestructionSafe` | both parts of `HandOver`, of `SafeDestruction` |
| `OnlyMissedSleepOn` | after `notify_all` only workers that it came too early for sleep |
| `WakeupsSuffice` | while a worker sleeps, each queued task has somebody about to notify or to look at the queue |
| `PoolNeverDeadlocks` | as long as a task is queued or a call under way somebody can move, but for the named exceptions |
| `PoolImplementsExecutor` | `Spec => Exec!ExecSpec` |

None of the properties is inductive by itself.  The argument goes in layers,
each of which is preserved by the steps of the code given the layers before:

1. `TypeOK`.
2. `TaskInv` — where tasks are: only threads that Start made do anything, a
   worker holds a task exactly while it runs one, and a promise is broken only
   by a pool that is gone.  It contains `OnePlace`.
3. `ShutdownInv` — what a Shutdown saw accepted has left the queue for good
   from its poll on, and the joined threads are through, all up to its index
   among them.  When the index has passed the last thread, everything it saw
   has run: `ShutdownDrains`.
4. `LifeInv` — `m_isTerminate` is set before members go, nobody else is in a
   call by then, and a worker calls only from a task.  It contains
   `NoThreadOutlivesPool`.
5. `JoinInv` — `m_threadMtx` has one holder, only the program's own threads are
   in Shutdown unless there was misuse, and once `m_isTerminate` is set either
   all threads are joined or one Shutdown has joined exactly those before its
   index.  So a destructor that calls Shutdown is the first to join, and none
   finds a joinable thread: `CleanDestruction`.
6. `MutexInv` — a worker between its lock and its unlock is the holder, so
   there is one; with it the queue cannot be emptied between the predicate and
   `front()`.
7. `SleepInv` — the sleepers and those about to sleep after the last
   `notify_all`.
8. `WakeInv` — the bound of `WakeupsCoverQueue` as soon as a worker is on its
   way to sleep, and that finitely many threads are about to notify.  A worker
   that finds its predicate false holds the mutex over an empty queue, by which
   the bound begins; a notification that wakes a worker moves it from one side
   of the sum to the other; and if it finds nobody asleep while a worker is
   about to sleep, that worker still holds the mutex over an empty queue.

`PoolNeverDeadlocks` goes from who waits to whom it waits for.  `HolderInv` says
that `m_taskMtx` is held only by a worker that is about to sleep or to take a
task, so that whoever asks for it finds it free or its holder moving
(`AcquirerMoves`); that all threads of the vector run; and that a worker ends
only after `m_isTerminate`.  A task in the queue has a worker that is awake, or
all sleep and `WakeInv` gives somebody who will notify (`QueueMoves`).  A
Shutdown that joins waits for a worker which has not ended; `SleepInv` says
that it does not sleep unless it missed the end, and when it runs a task that
task's call moves (`JoinMoves`).

The refinement is proved step by step from the first four: `Execute` is
`Submit`, `GetTaskTake` is `Begin`, `RunFinish` is `Finish`, `ShutdownTerminate`
is `Close`, `DestroyMembers` is `Discard`, all other steps stutter.

### TimerQueueProofs

For every number of threads, pool slots, tasks and times:

| Theorem | What it says |
|---|---|
| `TimerTypes` | `TypeOK`: who holds `m_taskMtx`, and that task numbers stay in bounds |
| `EveryTaskAccounted` | a task is pending or was handed over, but for ties and the late ones |
| `TimerShutdownDrains` | a `Shutdown` that returned left nothing of what was added before it |
| `OneFateEach` | a task is in one place: to be added, pending, tied, late, or with the pool once |
| `NoWaiterForgotten` | nobody waits on a condition that holds without a notification to come |
| `TimerNeverDeadlocks` | as long as there is something to do somebody can do it, unless a callback meets `Shutdown` |
| `FateOfTasks`, `WaitsEnd` | both parts of `ExactlyOneFate`, of `NobodyWaitsInVain` |

`CountInv` is what makes `TypeOK` inductive: `issued` counts a task from the
call on, so the tasks that exist and those still to be added (`ToAdd`, a set of
pairs whose cardinality is counted) never exceed `MaxTasks`, also when several
calls of `AddRepeatTask` insert in turn.  `SeenInv` says that the pool loses no
task.  `SweepInv` says that the demon's sweep has submitted, or found late,
whatever it has passed: it holds the mutex, so no task comes in between, and
the set that `DemonClear` empties was dealt with.  `StopInv` follows the
Shutdown that took effect: there is no sweep any more, so the pool's queue
stays empty once it was found empty.  `WaitersCovered` is inductive with the
rest.

`TimerNeverDeadlocks` needs `StillInv` besides: a slot is idle exactly without a
task, calls only from a function, and a pool that was closed has an empty
queue.  Who waits for `m_taskMtx` waits for the sweep, which has a task with
the least time to go on with (`SweepMoves`), or for a Shutdown in the pool,
which waits for the slots (`InPoolMoves`); and a slot waits for the mutex only in
`CallbackBlocked`, which is exempt.  That closes the circle, so there is no
other.

  The pool's part is `TaskExecutor`, which `PoolImplementsExecutor` proves
of `ThreadPool`.

### ThreadProofs

For every number of objects and ids:

| Theorem | What it says |
|---|---|
| `ThreadTypes` | `TypeOK`: the semaphore counts to one, no free id is detached or waited for |
| `ConstructorWaits` | a constructed object has its pid, and its pthread is past its arguments |
| `FirstJoinSucceeds` | the first `Join` is refused only if another handle took the pthread |
| `NoPthreadForgotten` | a pthread that ended is free or can be freed by a handle |
| `JoinedNeverDangling` | `ThisThread` finds its object gone only if nobody joined it |
| `NoWaitInVain` | the constructor's `Post` comes, and what `Join` waits for stays until it returns |
| `WaitingWorks` | both parts of `WaitsWork` |

The argument is about ids that are used again.  `IdsAndRun` says that a pthread
that runs has the id in its own object's `m_thread`; so a handle that names a
free id, or another object's, belongs to a pthread that has ended.  `OwnHandle`
is the strengthening of `JoinRefusedOnlyIfRobbed`, `GoneIsReleased` of
`EndedPthreadsReleased`, `LifeAndRun` of `ConstructedIsStarted`, and
`JoinedHasEnded` of `DanglingOnlyUnjoined`, and `PostComes` the part of
`WaitsAnswered` that speaks of the constructor; its other part is that an id
that somebody waits for is neither detached nor freed (`IdsAndRun`, `TypeOK`).

### ConfigVarProofs

For every number of threads, variables and values, any documents, and any depth
of nested calls:

| Theorem | What it says |
|---|---|
| `ConfigTypes` | `TypeOK`: a thread holds the mutexes of exactly the calls it is in |
| `ListenersFollow` | outside `SetValue` the listeners have seen the variable's value |
| `KeysStayValid` | the key that `AddListener` returned names its listener, unless calls overlapped |
| `LoadsInOrder` | an undisturbed `LoadFromYaml` has set the entries before its current one |
| `RankedNeverDeadlock` | while variables can be ranked so that listeners set only higher ones, not all calls wait |

1. `CallsShape` — in a stack only the call on top waits for a mutex or assigns,
   and a load is at the bottom.
2. `MutexInv` — a mutex is held by the one call, at one place of one stack, that
   is in a critical section of its variable.  So whatever is between a lock and
   an unlock sees nobody else's changes, although the thread may have left and
   entered other sections meanwhile, and an exception unwinds the stack.
3. `SawInv` — in a section the listeners that were called saw the new value and
   the others the old one.  With 2 that is `ListenersInStep` when the mutex is
   free.
4. `KeyInv` — while calls of `AddListener` do not overlap the counter is above
   all keys when it is used, and at the end is the key of the new entry.
5. `LoadInv` — above an undisturbed load is the `SetValue` of the entry before
   the current one, so that when it ends the values are those of a prefix that
   is longer by one (`PrefixSets`); when the key was not registered the prefix
   did not change (`PrefixSkips`).

`RankedNeverDeadlock` follows from the first two.  The holder of a mutex that a
thread waits for is in `AddListener`, where it waits for nothing, or in the
`SetValue` of that variable, below the call with which it waits itself
(`ChainUp`).  So from each waiting thread one comes to another that waits for a
variable of higher rank, and there are finitely many ranks.

### LoggersProofs

For every set of names, patterns, files and users, any documents, and any
number of SetValues:

| Theorem | What it says |
|---|---|
| `Formatters` | an appender always has a formatter |
| `OneLoggerAName` | two look-ups of one name give one logger, until the name is erased |
| `Messages` | an accepted message is handed to an appender, unless root has none left, which only happens when somebody took one, or root's level drops it, which only happens when somebody raised that level above `DEBUG` |
| `ReadsBack` | `ToString` of the configuration in force reads back, but for the loggers' formatters |
| `LoggersConfigured` | between two SetValues the loggers are as their entries say |
| `Rebuilds` | what `ToYamlString` writes of a logger makes the listener build the same logger |

1. `TypeInv` — every appender of a logger has a formatter that counts as its
   own, also where it is the logger's; without this no later layer could say
   what `SetFormatter` leaves alone.
2. `NamesInv` — the map leads from a name to the only logger of that name that
   was not erased, and the listener holds the logger of its entry.
3. `CutInv` — `m_root` keeps an appender until the program or a configuration
   takes it, and the level `DEBUG` until one of them raises it: this is all that
   `Log` falls back on.  With it, and since no message is below `DEBUG`, each
   message that is lost has its cause.
4. `ProgressInv` — which entries of the new value the listener has been at, and
   that it passes over exactly those that the old value has too.
5. `NamedInv` — a `FileLogAppender` without a file name throws, so that no value
   in force has one: what `ToString` leaves out was not there.
6. `ConfigInv` — every logger that no user changed and no throw left behind is
   as the new value says if the listener is past its entry, as the old value
   says if it is not, and in between (`Staged`) has as many of its entry's
   appenders as the listener has taken turns.  `ConfigApplied` is the case in
   which the listener is at no entry.

`Rebuilds` is an induction over the appenders of the logger, with `Until(l, k)`
the logger that has the first `k` of them.

### FormattingProofs

For every pattern of any length, every table of format items and every event:

| Theorem | What it says |
|---|---|
| `FormatsAlike` | both overloads of `Format` write the same |
| `TextStays` | at every turn of `Parse` no character is lost or comes twice |
| `ItemsReparse` | the items, printed with their parameters in braces, parse to the same items |
| `ParseEnds` | every turn goes forward, to one beyond the end of the pattern at most |

`FormatInv` compares the two outputs after every item and says that the string
is never shorter than at first, so that doubling it is enough.  `Keeps` is the
invariant of the loop: up to the signs, the items and the text collected so far
are the pattern up to the parser's index.  The kinds of turns are cases of it,
each an equation between pieces of the pattern.

`ItemsReparse` compares two runs of the parser, the one over the pattern and one
over what its items are printed as.  `ItemsInv` says of the first what the
second needs: no text or name is empty, no name of an item has a character that
ends a name, and no parameter a closing brace; and that the formatter has the
items of `ParseEnd`, which adds what is left of the text.  What `ItemsParsed`
exempts, a text with a sign and two texts in a row, completes `Parsed`, the
hypothesis of the second run.  `Reached` says of the second where it is after
each item, with which items and which text, and goes from one item to the next
by induction over their number: a text takes one turn for each of its
characters (`TextTurns`), an item one turn (`ItemTurn`), which first adds the text
before it.  `LettersAssumption` is needed for this: a name must not have signs
of the parser among its letters.

### FSUtilProofs

For every set of names, every number of callers, any calls, trees and guarded
directories, and any number of links within each other:

| Theorem | What it says |
|---|---|
| `ReportsHold` | what a call reports was so at some moment while it ran; `ListAllFile` misses nothing and invents nothing |
| `RemovalsAreBelow` | only what is at or below the path of a call, or the source of `Mv`, disappears |
| `AloneIsExact` | a call that no other comes between leaves behind exactly what it should, and says so |
| `SystemStays` | whatever there is, is in a directory |
| `FramesRely` | the inductive invariant, `FSInv` |

Every frame on a stack goes by what it read before, and the tree is no longer
what it was.  `SamePlaces` says what can be relied on: if no link was put
anywhere, a path that leads to something leads where it led before, so that a
path can lose what it leads to but not lead elsewhere.  It is an induction over
the links within each other and, for each number of them, over the path.
`FSInv` has of every caller

1. `StackInv` — each frame was called by the one below it (`Callee`), with the
   path of that one or one name more, and the first serves the call.
2. `HistInv` — `met` and `missed` tell whether there is something at the path
   now, and `stable` and `ever` enclose what `ListAllFile` could find now.
   Every change of the tree goes through `SetTree`, which keeps it.
3. `LinkInv` — while nobody puts a link anywhere, the paths that `Rm` opens and
   `ListAllFile` enters (`Sure`) are no links.  With 1 the place of each frame
   of `Rm` is that of the frame below with one name more, so it is below the
   place of the call (`PlacesBelow`): `RemovesOnlyBelow`.
4. `CoverInv` — each file that was there throughout has been listed or is still
   ahead of a frame: as it was there all the time, so were the directories on
   the way, and each was listed in the one before when that was read
   (`NextEntry`).
5. `SeenInv` — whatever the entries that were read name as files was in the
   listing at that moment; with 3, since the way there leads through no link.
6. `ReportInv` — what was returned, compared with `met` and `missed`.

`OwnStep` shows that the caller's own step keeps them, `Bystander` that the
steps of the others do, so that a step of the code has to be looked at only for
the frame on top.

`AloneExact` speaks of the end of a call, and `FSInv` of what may be gone or new
at any time.  `AllAlone` adds, for a call alone with the file system whose path
does not lead through what it removes, how far it has come from the tree it
began with:

1. `Partly` — while `Rm`, `Mv` or `Symlink` removes, the tree is the first one
   less something at or below the call's place that can be removed.
2. `Fits` — what each frame of the stack has done: below a directory that is
   being read there is only what could not be removed, what `readdir` has not
   returned yet, and what the frame above it is removing; its result is false
   only if something below could not be removed; when the frame of `Mv` or
   `Symlink` is on top, all that can be removed is gone.
3. `Depth` — each frame of `Rm` has a path one name longer than the one below,
   so that the first returns to the call and not to an `Rm` of its own.
4. `Making` — while `Mkdir` works, the tree is the first one and directories at
   prefixes of the path; where `mkdir` is to come there was nothing.

The first tree matters twice: `Kept`, what cannot be removed, is said of it, and
`Moved` gives each path of `Rm` its place there, which stays its place however
much of it is gone (`Avoids`).  As for `FSInv`, `AloneStep` reduces a step to
the stack of the caller that takes it.

### SequenceFacts

The library's induction theorems take an operator as a parameter, which the
provers at hand cannot instantiate.  `Least`, `Induction` and the lemmas on
recursive functions state the same for a *set* of numbers and a *function*, so
that an induction over the length of a sequence can be carried out where the
property is such a set.  `FlattenSeq` of the community modules is treated so:
its value on a longer sequence and on a concatenation are lemmas.

### What is only model-checked

Liveness, as the prover has neither fairness nor `ENABLED`: `AcceptedTaskFinishes`,
both `ShutdownEnds`, `SubmittedTaskRuns`, `SetValueEnds` and `ConstructorEnds`.
`PoolNeverDeadlocks`, `TimerNeverDeadlocks`, `RankedNeverDeadlock`, `NoWaitInVain`
and `ParseEnds` are the steps towards them that can be said without fairness.
Every invariant and every action property of the passing runs, and the
refinement, is proved.

## 5. Assumptions of the models

* Reads and writes of `m_isTerminate` and `m_level` without a mutex are data
  races in the language.  Every one is a load or store of its own in the
  compiled code, as a mutex or condition variable is called between any two, so
  they are modelled as single steps in any order.  The counter of `AddListener`
  is read, incremented and read again in separate steps.
* Pool: tasks do not call `Start`; the destructor begins only when no other
  thread of the program is in a call, as the language demands.  Destroying the
  condition variable with a sleeper on it is not modelled further than that
  the pool is terminated first.
* Timer: the object's destruction by the last `shared_ptr`, which the demon's
  own may be, is not modelled.
* Loggers: the checks of the level in the macro and in `Log` are one step; what
  appenders write, and the reopening of files, is left out.
* Config: listeners do nothing to the registry but call `SetValue`; all variables have
  one type; `GetValue`, whose reference is read after the unlock, is left out;
  `LookUp` with a bad name or another type throws without changing anything.
* FSUtil: the system calls are those of POSIX.  A directory is read into one
  buffer when it is opened, as small ones are; paths are absolute, without
  trailing or double slashes; `OpenForWrite` opens to append.  Nothing else
  than FSUtil changes the file system, but two callers may be two processes.
  `Rm` takes a socket for a directory (`utils.cpp` tests the type as if it were
  a mask), so it cannot remove it; `Mv` of a path onto itself, or from below
  its destination, or by a path through its destination, removes the source
  first; `Rm` of a path through a link that is below it removes the link on the
  way and then does not find the rest; `Mkdir` may return false although
  another caller has just made the directory.  Nothing in the repository says
  otherwise, so these are in the model and no findings.
* Pool: the size is a natural number; a negative one, which the conversion to
  `size_t` makes a huge one, is not modelled.
* Thread: `m_thread` is stored before the pthread runs, as glibc does; join and
  detach of an id that is not in use fail or do nothing; one owner per object;
  nobody joins itself; a callback does not throw.

## 6. What is not modelled

* `Realpath`, `IsRunningPidfile`, `Basename` and `OpenForRead` of FSUtil, which
  change nothing.  Back traces, times and string helpers are input, output and
  wording.
* `LexicalCast` of containers: data without control.  That a conversion can
  fail is in `ConfigVar` and `Loggers`.
* `RpcClientManager`: its definitions are commented out.  `ServiceManager`: not
  part of the build and over a library that is not in the repository.  `fiber`:
  unfinished and not part of the build.  `net`: stubs without behaviour.
  `Singleton`, `Noncopyable`, exceptions and macros: no state.

## 7. Plan

Done, in this order: `TaskExecutor`, `ThreadPool`, `ThreadPoolProofs`,
`TimerQueue`, `LogFormatter`, `Formatting`, `Loggers`, `ConfigVar`, `Thread`,
`FSUtil`, `ThreadProofs`, `TimerQueueProofs`, `ConfigVarProofs`,
`SequenceFacts`, `FormattingProofs`, `LoggersProofs`, `FSUtilProofs`, and last
`ItemsReparse`, and the properties about deadlocks with their theorems.

Next, to the model:

1. `ToString` and `FromString` of containers, as a round trip over small values.
2. The destruction of a TimerQueue by its demon.
3. `FileAppender` over `FSUtil`: what reopening a log file does beside another
   process that moves it away.

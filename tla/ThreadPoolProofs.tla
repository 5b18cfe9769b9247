-------------------------- MODULE ThreadPoolProofs --------------------------
(***************************************************************************)
(* What TLAPS proves of ThreadPool for every number of threads and tasks.  *)
(***************************************************************************)
EXTENDS ThreadPool, TLAPS, FiniteSetTheorems

-----------------------------------------------------------------------------
(***************************************************************************)
(* Type correctness.                                                       *)
(***************************************************************************)
LEMMA ThreadNum == m_threadNum \in Nat
BY PoolAssumption DEF m_threadNum

\* The variables of ThreadPool keep their types; m_threads is never longer than m_threadNum.
LEMMA TypeInit == Init => TypeOK
<1> SUFFICES ASSUME Init
             PROVE  TypeOK
  OBVIOUS
<1>1. m_threads \in 0..m_threadNum
  BY ThreadNum DEF Init
<1>2. m_taskLists \in Seq(Tasks) /\ status \in [Tasks -> {"new", "queued", "running", "done", "broken"}]
  BY DEF Init
<1>3. wpc \in [Workers -> WorkerPC] /\ cpc \in [Threads -> CallPC]
  BY DEF Init, WorkerPC, CallPC
<1>4. m_isTerminate \in BOOLEAN /\ misuse \in BOOLEAN
  BY DEF Init
<1>5. joined \in SUBSET Workers /\ promised \in SUBSET Tasks /\ missed \in SUBSET Workers
  BY DEF Init
<1>6. /\ job \in [Workers -> Tasks \cup {NoTask}]
      /\ joinAt \in [Threads -> Nat \ {0}]
      /\ polled \in [Threads -> SUBSET Tasks]
  BY DEF Init
<1> QED
  BY <1>1, <1>2, <1>3, <1>4, <1>5, <1>6 DEF Init, TypeOK

LEMMA TypeStart ==
    ASSUME TypeOK, NEW x \in Callers, CallerNext(x)
    PROVE  TypeOK'
<1> USE ThreadNum DEF TypeOK, At, objectVars, queueVars, workerVars, callVars, joinVars, historyVars
<1>1. CASE StartCall(x)
  BY <1>1 DEF StartCall, Threads, CallPC
<1>2. CASE StartSpawn(x)
  <2>1. m_threads + 1 \in Workers
    BY <1>2 DEF StartSpawn, Workers
  <2>2. wpc' \in [Workers -> WorkerPC]
    BY <1>2, <2>1 DEF StartSpawn, WorkerPC
  <2>3. m_threads' \in 0..m_threadNum
    BY <1>2 DEF StartSpawn
  <2>4. misuse' \in BOOLEAN
    BY <1>2 DEF StartSpawn
  <2>5. cpc' \in [Threads -> CallPC]
    BY <1>2 DEF StartSpawn, CallPC
  <2> QED
    BY <1>2, <2>2, <2>3, <2>4, <2>5 DEF StartSpawn
<1>3. CASE StartReturn(x)
  BY <1>3 DEF StartReturn, CallPC
<1>4. CASE DestroyCall(x)
  BY <1>4 DEF DestroyCall, CallPC
<1>5. CASE DestroyMembers(x)
  <2>1. cpc' \in [Threads -> CallPC]
    BY <1>5, Zenon DEF DestroyMembers, CallPC
  <2>2. CASE 1..m_threads \subseteq joined
    <3>1. status' \in [Tasks -> {"new", "queued", "running", "done", "broken"}]
      BY <1>5, <2>2 DEF DestroyMembers
    <3>2. m_taskLists' = <<>> /\ life' = "destroyed"
      BY <1>5, <2>2, Zenon DEF DestroyMembers
    <3> QED
      BY <1>5, <2>1, <3>1, <3>2 DEF DestroyMembers
  <2>3. CASE ~(1..m_threads \subseteq joined)
    BY <1>5, <2>1, <2>3 DEF DestroyMembers
  <2> QED
    BY <2>2, <2>3
<1> QED
  BY <1>1, <1>2, <1>3, <1>4, <1>5 DEF CallerNext

LEMMA TypeCall ==
    ASSUME TypeOK, NEW x \in Threads, CallNext(x)
    PROVE  TypeOK'
<1> USE ThreadNum DEF TypeOK, At, objectVars, queueVars, workerVars, callVars, joinVars, historyVars
<1>1. ASSUME NEW t \in Tasks, Execute(x, t)
      PROVE  TypeOK'
  BY <1>1 DEF Execute, CallPC
<1>2. CASE ExecuteNotify(x)
  <2>1. wpc' \in [Workers -> WorkerPC]
    BY <1>2 DEF ExecuteNotify, Waiting, WorkerPC
  <2> QED
    BY <1>2, <2>1 DEF ExecuteNotify, CallPC
<1>3. CASE ShutdownCall(x)
  <2>1. misuse' \in BOOLEAN /\ cpc' \in [Threads -> CallPC]
    BY <1>3 DEF ShutdownCall, CallPC
  <2> QED
    BY <1>3, <2>1 DEF ShutdownCall
<1>4. CASE ShutdownPoll(x)
  BY <1>4 DEF ShutdownPoll, CallPC, Accepted
<1>5. CASE ShutdownLock(x)
  BY <1>5 DEF ShutdownLock, CallPC
<1>6. CASE ShutdownTerminate(x)
  BY <1>6 DEF ShutdownTerminate, CallPC
<1>7. CASE ShutdownNotify(x)
  <2>1. wpc' \in [Workers -> WorkerPC]
    BY <1>7 DEF ShutdownNotify, Waiting, WorkerPC
  <2> QED
    BY <1>7, <2>1 DEF ShutdownNotify, CallPC, Blocking
<1>8. CASE ShutdownJoin(x)
  <2>1. joinAt[x] \in Workers /\ joinAt[x] + 1 \in Nat \ {0}
    BY <1>8 DEF ShutdownJoin, Workers
  <2>2. joinAt' \in [Threads -> Nat \ {0}]
    BY <1>8, <2>1 DEF ShutdownJoin
  <2> QED
    BY <1>8, <2>1, <2>2 DEF ShutdownJoin
<1>9. CASE ShutdownThrow(x)
  BY <1>9 DEF ShutdownThrow, CallPC
<1>10. CASE ShutdownReturn(x)
  BY <1>10 DEF ShutdownReturn, CallPC
<1> QED
  BY <1>1, <1>2, <1>3, <1>4, <1>5, <1>6, <1>7, <1>8, <1>9, <1>10 DEF CallNext

LEMMA TypeWorker ==
    ASSUME TypeOK, NEW w \in Workers, WorkerNext(w)
    PROVE  TypeOK'
<1> USE ThreadNum DEF TypeOK, WorkerPC, objectVars, queueVars, workerVars, callVars, joinVars, historyVars
<1>1. CASE RunLoop(w)
  BY <1>1 DEF RunLoop
<1>2. CASE GetTaskPredicate(w)
  BY <1>2 DEF GetTaskPredicate
<1>3. CASE GetTaskBlock(w)
  BY <1>3 DEF GetTaskBlock
<1>4. CASE GetTaskSpurious(w)
  BY <1>4 DEF GetTaskSpurious
<1>5. CASE GetTaskNull(w)
  BY <1>5 DEF GetTaskNull
<1>6. CASE GetTaskTake(w)
  <2>1. Head(m_taskLists) \in Tasks /\ Tail(m_taskLists) \in Seq(Tasks)
    BY <1>6 DEF GetTaskTake
  <2> QED
    BY <1>6, <2>1 DEF GetTaskTake
<1>7. CASE RunFinish(w)
  BY <1>7 DEF RunFinish
<1> QED
  BY <1>1, <1>2, <1>3, <1>4, <1>5, <1>6, <1>7 DEF WorkerNext

\* Type correctness: every reachable state has the types TypeOK states.
THEOREM TypeCorrect == Spec => []TypeOK
<1>1. TypeOK /\ [Next]_vars => TypeOK'
  <2> SUFFICES ASSUME TypeOK, [Next]_vars
               PROVE  TypeOK'
    OBVIOUS
  <2>1. CASE Next
    BY <2>1, TypeStart, TypeCall, TypeWorker DEF Next
  <2>2. CASE UNCHANGED vars
    BY <2>2 DEF vars, objectVars, queueVars, workerVars, callVars, joinVars, historyVars, TypeOK
  <2> QED
    BY <2>1, <2>2
<1> QED
  BY TypeInit, <1>1, PTL DEF Spec
-----------------------------------------------------------------------------
(***************************************************************************)
(* The inductive invariant, in three parts.  Each is preserved by every    *)
(* step that starts in the parts before it.                                *)
(***************************************************************************)
\* Where the tasks are.  Only threads that Start made do anything, a worker has a task exactly while it runs it, and a promise is
\* broken only by a pool that is gone.
TaskInv ==
    /\ \A w \in Workers : wpc[w] # "none" => w <= m_threads
    /\ OnePlace
    /\ \A w \in Workers : job[w] # NoTask <=> wpc[w] = "run"
    /\ life # "destroyed" => \A t \in Tasks : status[t] # "broken"

\* How far each Shutdown has come.  What it saw accepted when it found the queue empty has
\* left the queue for good, and the threads it has joined are through.
PastPoll == {"locking", "terminating", "notify_all", "joining"}

ShutdownInv ==
    /\ \A w \in joined : w <= m_threads /\ wpc[w] = "exit"
    /\ \A x \in Threads : cpc[x] = "joining" =>
          /\ joinAt[x] <= m_threads + 1
          /\ \A j \in 1..m_threads : j < joinAt[x] => j \in joined
    /\ \A x \in Threads : cpc[x] \in PastPoll =>
          \A t \in polled[x] : status[t] \in {"running", "done"}
    /\ ShutdownDrains

\* What the destructor may count on: m_isTerminate is set before members go, no other
\* caller is left, and only a task that runs is in a call.
LifeInv ==
    /\ \A x \in Threads : cpc[x] \in {"notify_all", "joining", "members"} => m_isTerminate
    /\ \A x \in Threads : cpc[x] = "members" => x \in Callers /\ life = "dtor"
    /\ \A w \in Workers : cpc[w] # "idle" => wpc[w] = "run"
    /\ life # "alive" =>
          \A x, y \in Callers : cpc[x] # "idle" /\ cpc[y] # "idle" => x = y
    /\ NoThreadOutlivesPool

\* OnlyMissedSleep with the workers that are on their way to sleep.
SleepInv ==
    m_isTerminate /\ (\A x \in Threads : cpc[x] # "notify_all") =>
        Waiting \cup Blocking \subseteq missed
-----------------------------------------------------------------------------
(***************************************************************************)
(* TaskInv.                                                                *)
(***************************************************************************)
LEMMA TaskInvInit == Init => TaskInv
<1> SUFFICES ASSUME Init
             PROVE  TaskInv
  OBVIOUS
<1>1. OnePlace
  BY PoolAssumption DEF Init, OnePlace
<1> QED
  BY <1>1 DEF Init, TaskInv

\* Most steps move no task.
LEMMA TaskFrame ==
    ASSUME TypeOK, TaskInv,
           UNCHANGED <<m_taskLists, job, status>>,
           m_threads <= m_threads',
           \A w \in Workers : /\ wpc'[w] = "run" <=> wpc[w] = "run"
                              /\ wpc'[w] # "none" => w <= m_threads',
           life' = "destroyed" <=> life = "destroyed"
    PROVE  TaskInv'
BY DEF TaskInv, OnePlace

LEMMA TaskExecute ==
    ASSUME TypeOK, TaskInv, NEW x \in Threads, NEW t \in Tasks, Execute(x, t)
    PROVE  TaskInv'
<1> USE DEF TypeOK
<1>1. /\ m_taskLists' = Append(m_taskLists, t)
      /\ status[t] = "new"
      /\ status' = [status EXCEPT ![t] = "queued"]
      /\ UNCHANGED <<job, wpc, life, m_threads>>
  BY DEF Execute, objectVars, queueVars, workerVars, callVars, joinVars, historyVars
<1>2. /\ Len(m_taskLists') = Len(m_taskLists) + 1
      /\ m_taskLists'[Len(m_taskLists) + 1] = t
      /\ \A i \in 1..Len(m_taskLists) : m_taskLists'[i] = m_taskLists[i]
  BY <1>1
<1>3. \A i \in 1..Len(m_taskLists) : m_taskLists[i] # t
  BY <1>1 DEF TaskInv, OnePlace
<1>4. ASSUME NEW i \in 1..Len(m_taskLists'), NEW j \in 1..Len(m_taskLists'),
             m_taskLists'[i] = m_taskLists'[j]
      PROVE  i = j
  <2> DEFINE L == Len(m_taskLists)
  <2>0. L \in Nat /\ i \in 1..L + 1 /\ j \in 1..L + 1
    BY <1>2
  <2>1. CASE i = L + 1 /\ j # L + 1
    <3>1. j \in 1..L
      BY <2>0, <2>1
    <3> QED
      BY <1>2, <1>3, <1>4, <2>1, <3>1
  <2>2. CASE i # L + 1 /\ j = L + 1
    <3>1. i \in 1..L
      BY <2>0, <2>2
    <3> QED
      BY <1>2, <1>3, <1>4, <2>2, <3>1
  <2>3. CASE i # L + 1 /\ j # L + 1
    <3> HIDE DEF L
    <3>1. i \in 1..L /\ j \in 1..L
      BY <2>0, <2>3
    <3> USE DEF L
    <3>2. m_taskLists[i] = m_taskLists[j]
      BY <1>2, <1>4, <3>1
    <3> QED
      BY <3>1, <3>2 DEF TaskInv, OnePlace
  <2> QED
    BY <2>1, <2>2, <2>3
<1>5. ASSUME NEW u \in Tasks
      PROVE  status'[u] = "queued" <=> \E i \in 1..Len(m_taskLists') : m_taskLists'[i] = u
  <2>1. CASE u = t
    BY <2>1, <1>1, <1>2
  <2>2. CASE u # t
    BY <2>2, <1>1, <1>2 DEF TaskInv, OnePlace
  <2> QED
    BY <2>1, <2>2
<1>6. ASSUME NEW u \in Tasks
      PROVE  status'[u] = "running" <=> \E w \in Workers : job'[w] = u
  BY <1>1 DEF TaskInv, OnePlace
<1> QED
  BY <1>1, <1>4, <1>5, <1>6 DEF TaskInv, OnePlace

LEMMA TaskTake ==
    ASSUME TypeOK, TaskInv, NEW w \in Workers, GetTaskTake(w)
    PROVE  TaskInv'
<1> USE DEF TypeOK
<1> DEFINE t == Head(m_taskLists)
<1>1. /\ m_taskLists # <<>>
      /\ m_taskLists' = Tail(m_taskLists)
      /\ job' = [job EXCEPT ![w] = t]
      /\ status' = [status EXCEPT ![t] = "running"]
      /\ wpc[w] = "test"
      /\ wpc' = [wpc EXCEPT ![w] = "run"]
      /\ UNCHANGED <<life, m_threads>>
  BY DEF GetTaskTake, objectVars, queueVars, workerVars, callVars, joinVars, historyVars
<1>2. /\ Len(m_taskLists) \in Nat \ {0}
      /\ Len(m_taskLists') = Len(m_taskLists) - 1
      /\ \A i \in 1..Len(m_taskLists') : m_taskLists'[i] = m_taskLists[i + 1]
      /\ t = m_taskLists[1]
  BY <1>1
<1>3. t \in Tasks /\ status[t] = "queued"
  BY <1>1, <1>2 DEF TaskInv, OnePlace
<1>4. job[w] = NoTask /\ \A v \in Workers : job[v] # t
  BY <1>1, <1>3 DEF TaskInv, OnePlace
<1>5. ASSUME NEW i \in 1..Len(m_taskLists'), NEW j \in 1..Len(m_taskLists'),
             m_taskLists'[i] = m_taskLists'[j]
      PROVE  i = j
  <2>1. i \in Int /\ j \in Int /\ i + 1 \in 1..Len(m_taskLists) /\ j + 1 \in 1..Len(m_taskLists)
    BY <1>2
  <2>2. m_taskLists[i + 1] = m_taskLists[j + 1]
    BY <1>2, <1>5
  <2>3. \A k, l \in 1..Len(m_taskLists) : m_taskLists[k] = m_taskLists[l] => k = l
    BY DEF TaskInv, OnePlace
  <2>4. i + 1 = j + 1
    BY <2>1, <2>2, <2>3
  <2> QED
    BY <2>1, <2>4
<1>6. ASSUME NEW u \in Tasks
      PROVE  status'[u] = "queued" <=> \E i \in 1..Len(m_taskLists') : m_taskLists'[i] = u
  <2>1. CASE u = t
    <3>1. status'[u] # "queued"
      BY <1>1, <1>3, <2>1
    <3>2. ASSUME NEW i \in 1..Len(m_taskLists')
          PROVE  m_taskLists'[i] # u
      <4>1. 1 \in 1..Len(m_taskLists) /\ i + 1 \in 1..Len(m_taskLists) /\ i + 1 # 1
        BY <1>2
      <4>2. m_taskLists[i + 1] # m_taskLists[1]
        BY <4>1 DEF TaskInv, OnePlace
      <4> QED
        BY <1>2, <2>1, <4>2
    <3> QED
      BY <3>1, <3>2
  <2>2. CASE u # t
    <3>1. status'[u] = status[u]
      BY <1>1, <1>3, <2>2
    <3>2. ASSUME NEW i \in 1..Len(m_taskLists), m_taskLists[i] = u
          PROVE  \E j \in 1..Len(m_taskLists') : m_taskLists'[j] = u
      <4>1. i # 1
        BY <1>2, <2>2, <3>2
      <4>2. i - 1 \in 1..Len(m_taskLists') /\ (i - 1) + 1 = i
        BY <1>2, <4>1
      <4> QED
        BY <1>2, <3>2, <4>2
    <3>3. ASSUME NEW i \in 1..Len(m_taskLists'), m_taskLists'[i] = u
          PROVE  \E j \in 1..Len(m_taskLists) : m_taskLists[j] = u
      BY <1>2, <3>3
    <3> QED
      BY <3>1, <3>2, <3>3 DEF TaskInv, OnePlace
  <2> QED
    BY <2>1, <2>2
<1>7. ASSUME NEW u \in Tasks
      PROVE  status'[u] = "running" <=> \E v \in Workers : job'[v] = u
  <2>1. CASE u = t
    BY <1>1, <1>3, <2>1
  <2>2. CASE u # t
    <3>1. status'[u] = status[u]
      BY <1>1, <1>3, <2>2
    <3>2. \A v \in Workers : job'[v] = u <=> job[v] = u
      BY <1>1, <1>3, <1>4, <2>2, PoolAssumption
    <3> QED
      BY <3>1, <3>2 DEF TaskInv, OnePlace
  <2> QED
    BY <2>1, <2>2
<1>8. \A u, v \in Workers : job'[u] = job'[v] /\ job'[u] # NoTask => u = v
  BY <1>1, <1>4 DEF TaskInv, OnePlace
<1>9. \A v \in Workers : job'[v] # NoTask <=> wpc'[v] = "run"
  BY <1>1, <1>3, PoolAssumption DEF TaskInv
<1>10. life' # "destroyed" => \A u \in Tasks : status'[u] # "broken"
  BY <1>1, <1>3 DEF TaskInv
<1>11. \A v \in Workers : wpc'[v] # "none" => v <= m_threads'
  BY <1>1 DEF TaskInv
<1> QED
  BY <1>5, <1>6, <1>7, <1>8, <1>9, <1>10, <1>11 DEF TaskInv, OnePlace

LEMMA TaskFinish ==
    ASSUME TypeOK, TaskInv, NEW w \in Workers, RunFinish(w)
    PROVE  TaskInv'
<1> USE DEF TypeOK
<1>1. /\ wpc[w] = "run"
      /\ job' = [job EXCEPT ![w] = NoTask]
      /\ status' = [status EXCEPT ![job[w]] = "done"]
      /\ wpc' = [wpc EXCEPT ![w] = "loop"]
      /\ UNCHANGED <<m_taskLists, life, m_threads>>
  BY DEF RunFinish, objectVars, queueVars, workerVars, callVars, joinVars, historyVars
<1>2. job[w] \in Tasks /\ status[job[w]] = "running"
  BY <1>1 DEF TaskInv, OnePlace
<1>3. ASSUME NEW u \in Tasks
      PROVE  status'[u] = "queued" <=> \E i \in 1..Len(m_taskLists') : m_taskLists'[i] = u
  BY <1>1, <1>2 DEF TaskInv, OnePlace
<1>4. ASSUME NEW u \in Tasks
      PROVE  status'[u] = "running" <=> \E v \in Workers : job'[v] = u
  <2>1. CASE u = job[w]
    BY <1>1, <1>2, <2>1, PoolAssumption DEF TaskInv, OnePlace
  <2>2. CASE u # job[w]
    BY <1>1, <1>2, <2>2, PoolAssumption DEF TaskInv, OnePlace
  <2> QED
    BY <2>1, <2>2
<1>5. \A u, v \in Workers : job'[u] = job'[v] /\ job'[u] # NoTask => u = v
  BY <1>1 DEF TaskInv, OnePlace
<1> QED
  BY <1>1, <1>2, <1>3, <1>4, <1>5 DEF TaskInv, OnePlace

LEMMA TaskDestroy ==
    ASSUME TypeOK, TaskInv, NEW x \in Callers, DestroyMembers(x)
    PROVE  TaskInv'
<1> USE DEF TypeOK
<1>1. UNCHANGED <<job, wpc, m_threads>> /\ life = "dtor"
  BY DEF DestroyMembers, objectVars, queueVars, workerVars, callVars, joinVars, historyVars
<1>2. CASE 1..m_threads \subseteq joined
  <2>1. m_taskLists' = <<>> /\ life' = "destroyed"
    BY <1>2, Zenon DEF DestroyMembers
  <2>2. status' = [t \in Tasks |-> IF status[t] = "queued" THEN "broken" ELSE status[t]]
    BY <1>2, Zenon DEF DestroyMembers
  <2>3. \A t \in Tasks : status'[t] # "queued" /\ (status'[t] = "running" <=> status[t] = "running")
    BY <2>2
  <2> QED
    BY <1>1, <2>1, <2>3 DEF TaskInv, OnePlace
<1>3. CASE ~(1..m_threads \subseteq joined)
  <2>1. UNCHANGED <<m_taskLists, status>> /\ life' = "terminated"
    BY <1>3 DEF DestroyMembers
  <2> QED
    BY <1>1, <2>1, TaskFrame DEF TaskInv
<1> QED
  BY <1>2, <1>3

LEMMA TaskStep == TypeOK /\ TaskInv /\ [Next]_vars => TaskInv'
<1> SUFFICES ASSUME TypeOK, TaskInv, [Next]_vars
             PROVE  TaskInv'
  OBVIOUS
<1> USE DEF objectVars, queueVars, workerVars, callVars, joinVars, historyVars
<1>1. ASSUME NEW x \in Callers, CallerNext(x)
      PROVE  TaskInv'
  <2>1. CASE StartCall(x) \/ StartReturn(x)
    BY <2>1, TaskFrame DEF StartCall, StartReturn, TypeOK, TaskInv
  <2>2. CASE StartSpawn(x)
    <3>1. m_threads + 1 \in Workers /\ wpc[m_threads + 1] = "none"
      BY <2>2, ThreadNum DEF StartSpawn, TypeOK, TaskInv, Workers
    <3>2. m_threads' = m_threads + 1 /\ wpc' = [wpc EXCEPT ![m_threads + 1] = "loop"]
      BY <2>2 DEF StartSpawn
    <3>3. \A w \in Workers : w \in Int
      BY ThreadNum DEF Workers
    <3>4. UNCHANGED <<m_taskLists, job, status, life>>
      BY <2>2 DEF StartSpawn
    <3> QED
      BY <3>1, <3>2, <3>3, <3>4, TaskFrame DEF TypeOK, TaskInv
  <2>3. CASE DestroyCall(x)
    BY <2>3, TaskFrame DEF DestroyCall, TypeOK, TaskInv
  <2>4. CASE DestroyMembers(x)
    BY <2>4, TaskDestroy
  <2> QED
    BY <1>1, <2>1, <2>2, <2>3, <2>4 DEF CallerNext
<1>2. ASSUME NEW x \in Threads, CallNext(x)
      PROVE  TaskInv'
  <2>1. ASSUME NEW t \in Tasks, Execute(x, t)
        PROVE  TaskInv'
    BY <2>1, TaskExecute
  <2>2. CASE ExecuteNotify(x)
    <3>1. \A w \in Workers : wpc'[w] = wpc[w] \/ (wpc[w] = "waiting" /\ wpc'[w] = "acquire")
      BY <2>2 DEF ExecuteNotify, Waiting, TypeOK
    <3>2. UNCHANGED <<m_taskLists, job, status, m_threads, life>>
      BY <2>2 DEF ExecuteNotify, objectVars, queueVars
    <3>3. \A w \in Workers : wpc[w] # "none" => w <= m_threads
      BY DEF TaskInv
    <3>4. m_threads <= m_threads'
      BY <3>2 DEF TypeOK, m_threadNum
    <3> QED
      BY <3>1, <3>2, <3>3, <3>4, TaskFrame
  <2>3. CASE ShutdownNotify(x)
    <3>1. \A w \in Workers : wpc'[w] = wpc[w] \/ (wpc[w] = "waiting" /\ wpc'[w] = "acquire")
      BY <2>3 DEF ShutdownNotify, Waiting, TypeOK
    <3>2. UNCHANGED <<m_taskLists, job, status, m_threads, life>>
      BY <2>3 DEF ShutdownNotify, objectVars, queueVars
    <3>3. \A w \in Workers : wpc[w] # "none" => w <= m_threads
      BY DEF TaskInv
    <3>4. m_threads <= m_threads'
      BY <3>2 DEF TypeOK, m_threadNum
    <3> QED
      BY <3>1, <3>2, <3>3, <3>4, TaskFrame
  <2>4. CASE ShutdownCall(x) \/ ShutdownPoll(x) \/ ShutdownLock(x) \/ ShutdownTerminate(x)
    BY <2>4, TaskFrame
       DEF ShutdownCall, ShutdownPoll, ShutdownLock, ShutdownTerminate, TypeOK, TaskInv
  <2>5. CASE ShutdownJoin(x) \/ ShutdownReturn(x)
    BY <2>5, TaskFrame DEF ShutdownJoin, ShutdownReturn, TypeOK, TaskInv
  <2>6. CASE ShutdownThrow(x)
    <3>1. life' = "destroyed" => life = "destroyed"
      BY <2>6 DEF ShutdownThrow
    <3> QED
      BY <2>6, <3>1, TaskFrame DEF ShutdownThrow, TypeOK, TaskInv
  <2> QED
    BY <1>2, <2>1, <2>2, <2>3, <2>4, <2>5, <2>6 DEF CallNext
<1>3. ASSUME NEW w \in Workers, WorkerNext(w)
      PROVE  TaskInv'
  <2>1. CASE RunLoop(w) \/ GetTaskPredicate(w) \/ GetTaskBlock(w)
    BY <2>1, TaskFrame DEF RunLoop, GetTaskPredicate, GetTaskBlock, TypeOK, TaskInv
  <2>2. CASE GetTaskSpurious(w) \/ GetTaskNull(w)
    BY <2>2, TaskFrame DEF GetTaskSpurious, GetTaskNull, TypeOK, TaskInv
  <2>3. CASE GetTaskTake(w)
    BY <2>3, TaskTake
  <2>4. CASE RunFinish(w)
    BY <2>4, TaskFinish
  <2> QED
    BY <1>3, <2>1, <2>2, <2>3, <2>4 DEF WorkerNext
<1>4. CASE UNCHANGED vars
  BY <1>4, TaskFrame DEF vars, TypeOK, TaskInv
<1> QED
  BY <1>1, <1>2, <1>3, <1>4 DEF Next

\* Every accepted task that has not ended is in the queue or in the hands of one worker.
THEOREM TasksInOnePlace == Spec => []OnePlace
<1>1. Spec => []TaskInv
  BY TypeCorrect, TaskInvInit, TaskStep, PTL DEF Spec
<1>2. TaskInv => OnePlace
  BY DEF TaskInv
<1> QED
  BY <1>1, <1>2, PTL
-----------------------------------------------------------------------------
(***************************************************************************)
(* ShutdownInv.                                                            *)
(***************************************************************************)
LEMMA ShutdownInvInit == Init => ShutdownInv
BY DEF Init, ShutdownInv, ShutdownDrains, PastPoll

\* Steps that take no Shutdown further and undo nothing that was run or joined.
LEMMA ShutdownFrame ==
    ASSUME TypeOK, ShutdownInv,
           UNCHANGED <<joined, joinAt, polled, promised>>,
           m_threads' \in Nat, m_threads <= m_threads',
           \A x \in Threads : /\ cpc'[x] \in PastPoll => cpc[x] \in PastPoll
                              /\ cpc'[x] = "joining" => cpc[x] = "joining",
           \A t \in Tasks : /\ status[t] = "running" => status'[t] \in {"running", "done"}
                            /\ status[t] = "done" => status'[t] = "done",
           \A w \in Workers : wpc[w] = "exit" => wpc'[w] = "exit"
    PROVE  ShutdownInv'
<1> USE ThreadNum DEF TypeOK
<1>1. \A w \in joined' : w <= m_threads' /\ wpc'[w] = "exit"
  <2>1. \A w \in Workers : w \in Int
    BY DEF Workers
  <2> QED
    BY <2>1 DEF ShutdownInv
<1>2. \A x \in Threads : cpc'[x] = "joining" =>
          /\ joinAt'[x] <= m_threads' + 1
          /\ \A j \in 1..m_threads' : j < joinAt'[x] => j \in joined'
  BY DEF ShutdownInv
<1>3. \A x \in Threads : cpc'[x] \in PastPoll =>
          \A t \in polled'[x] : status'[t] \in {"running", "done"}
  BY DEF ShutdownInv
<1>4. ShutdownDrains'
  BY DEF ShutdownInv, ShutdownDrains
<1> QED
  BY <1>1, <1>2, <1>3, <1>4 DEF ShutdownInv

LEMMA ShutdownPollStep ==
    ASSUME TypeOK, TaskInv, ShutdownInv, NEW x \in Threads, ShutdownPoll(x)
    PROVE  ShutdownInv'
<1> USE DEF TypeOK
<1>1. /\ m_taskLists = <<>>
      /\ Running
      /\ cpc[x] = "polling" /\ cpc' = [cpc EXCEPT ![x] = "locking"]
      /\ polled' = [polled EXCEPT ![x] = Accepted]
      /\ UNCHANGED <<m_threads, wpc, joinAt, joined, status, promised>>
  BY DEF ShutdownPoll, At, objectVars, queueVars, workerVars, callVars, joinVars, historyVars
<1>2. \A t \in Accepted : status[t] \in {"running", "done"}
  <2>1. \A t \in Tasks : status[t] # "queued" /\ status[t] # "broken"
    BY <1>1 DEF TaskInv, OnePlace, Running
  <2> QED
    BY <2>1 DEF Accepted
<1>3. \A y \in Threads : cpc'[y] \in PastPoll =>
          \A t \in polled'[y] : status'[t] \in {"running", "done"}
  BY <1>1, <1>2 DEF ShutdownInv
<1>4. \A y \in Threads : cpc'[y] = "joining" =>
          /\ joinAt'[y] <= m_threads' + 1
          /\ \A j \in 1..m_threads' : j < joinAt'[y] => j \in joined'
  BY <1>1 DEF ShutdownInv
<1> QED
  BY <1>1, <1>3, <1>4 DEF ShutdownInv, ShutdownDrains

LEMMA ShutdownNotifyStep ==
    ASSUME TypeOK, ShutdownInv, NEW x \in Threads, ShutdownNotify(x)
    PROVE  ShutdownInv'
<1> USE ThreadNum DEF TypeOK
<1>1. /\ cpc[x] = "notify_all" /\ cpc' = [cpc EXCEPT ![x] = "joining"]
      /\ joinAt' = [joinAt EXCEPT ![x] = 1]
      /\ UNCHANGED <<m_threads, joined, status, polled, promised>>
  BY DEF ShutdownNotify, At, objectVars, queueVars, workerVars, callVars, joinVars, historyVars
<1>2. \A w \in Workers : wpc[w] = "exit" => wpc'[w] = "exit"
  BY DEF ShutdownNotify, Waiting
<1>3. \A y \in Threads : cpc'[y] \in PastPoll =>
          \A t \in polled'[y] : status'[t] \in {"running", "done"}
  BY <1>1 DEF ShutdownInv, PastPoll
<1>4. \A y \in Threads : cpc'[y] = "joining" =>
          /\ joinAt'[y] <= m_threads' + 1
          /\ \A j \in 1..m_threads' : j < joinAt'[y] => j \in joined'
  BY <1>1 DEF ShutdownInv
<1> QED
  BY <1>1, <1>2, <1>3, <1>4 DEF ShutdownInv, ShutdownDrains

LEMMA ShutdownJoinStep ==
    ASSUME TypeOK, ShutdownInv, NEW x \in Threads, ShutdownJoin(x)
    PROVE  ShutdownInv'
<1> USE ThreadNum DEF TypeOK
<1>1. /\ cpc[x] = "joining"
      /\ joinAt[x] \in 1..m_threads /\ wpc[joinAt[x]] = "exit"
      /\ joined' = joined \cup {joinAt[x]}
      /\ joinAt' = [joinAt EXCEPT ![x] = joinAt[x] + 1]
      /\ UNCHANGED <<m_threads, wpc, cpc, status, polled, promised>>
  BY DEF ShutdownJoin, objectVars, queueVars, workerVars, callVars, joinVars, historyVars
<1>2. \A w \in joined' : w <= m_threads' /\ wpc'[w] = "exit"
  BY <1>1 DEF ShutdownInv
<1>3. ASSUME NEW y \in Threads, cpc'[y] = "joining"
      PROVE  /\ joinAt'[y] <= m_threads' + 1
             /\ \A j \in 1..m_threads' : j < joinAt'[y] => j \in joined'
  <2>1. CASE y = x
    <3>1. joinAt'[y] = joinAt[x] + 1
      BY <1>1, <2>1
    <3>2. joinAt[x] <= m_threads /\ m_threads' = m_threads
      BY <1>1
    <3>3. ASSUME NEW j \in 1..m_threads, j < joinAt[x] + 1
          PROVE  j \in joined'
      <4>1. CASE j = joinAt[x]
        BY <1>1, <4>1
      <4>2. CASE j < joinAt[x]
        BY <1>1, <4>2 DEF ShutdownInv
      <4> QED
        BY <1>1, <3>3, <4>1, <4>2
    <3> QED
      BY <3>1, <3>2, <3>3
  <2>2. CASE y # x
    BY <1>1, <1>3, <2>2 DEF ShutdownInv
  <2> QED
    BY <2>1, <2>2
<1> QED
  BY <1>1, <1>2, <1>3 DEF ShutdownInv, ShutdownDrains

LEMMA ShutdownReturnStep ==
    ASSUME TypeOK, TaskInv, ShutdownInv, NEW x \in Threads, ShutdownReturn(x)
    PROVE  ShutdownInv'
<1> USE ThreadNum DEF TypeOK
<1>1. /\ cpc[x] = "joining" /\ joinAt[x] > m_threads
      /\ promised' = promised \cup polled[x]
      /\ \E to \in {"members", "idle"} : cpc' = [cpc EXCEPT ![x] = to]
      /\ UNCHANGED <<m_threads, wpc, joinAt, joined, status, polled>>
  BY DEF ShutdownReturn, objectVars, queueVars, workerVars, callVars, joinVars, historyVars
<1>2. \A t \in polled[x] : status[t] = "done"
  <2>1. \A w \in Workers : wpc[w] # "run"
    <3> SUFFICES ASSUME NEW w \in Workers, wpc[w] = "run"
                 PROVE  FALSE
      OBVIOUS
    <3>1. w \in 1..m_threads
      BY DEF TaskInv, Workers
    <3>2. w < joinAt[x]
      BY <1>1, <3>1
    <3> QED
      BY <1>1, <3>1, <3>2 DEF ShutdownInv
  <2>2. \A t \in Tasks : status[t] # "running"
    BY <2>1, PoolAssumption DEF TaskInv, OnePlace
  <2> QED
    BY <1>1, <2>2 DEF ShutdownInv, PastPoll
<1>3. ShutdownDrains'
  BY <1>1, <1>2 DEF ShutdownInv, ShutdownDrains
<1>4. \A y \in Threads : cpc'[y] \in PastPoll => cpc[y] \in PastPoll /\ cpc'[y] = cpc[y]
  BY <1>1 DEF PastPoll
<1>5. \A y \in Threads : cpc'[y] \in PastPoll =>
          \A t \in polled'[y] : status'[t] \in {"running", "done"}
  BY <1>1, <1>4 DEF ShutdownInv
<1>6. \A y \in Threads : cpc'[y] = "joining" =>
          /\ joinAt'[y] <= m_threads' + 1
          /\ \A j \in 1..m_threads' : j < joinAt'[y] => j \in joined'
  BY <1>1, <1>4 DEF ShutdownInv, PastPoll
<1> QED
  BY <1>1, <1>3, <1>5, <1>6 DEF ShutdownInv

LEMMA ShutdownStep == TypeOK /\ TaskInv /\ ShutdownInv /\ [Next]_vars => ShutdownInv'
<1> SUFFICES ASSUME TypeOK, TaskInv, ShutdownInv, [Next]_vars
             PROVE  ShutdownInv'
  OBVIOUS
<1> USE ThreadNum DEF objectVars, queueVars, workerVars, callVars, joinVars, historyVars, At
<1>0. m_threads \in Nat
  BY DEF TypeOK
<1>1. ASSUME NEW x \in Callers, CallerNext(x)
      PROVE  ShutdownInv'
  <2>0. x \in Threads
    BY DEF Threads
  <2>1. CASE StartCall(x) \/ StartReturn(x) \/ DestroyCall(x)
    BY <1>0, <2>0, <2>1, ShutdownFrame DEF StartCall, StartReturn, DestroyCall, TypeOK, PastPoll
  <2>2. CASE StartSpawn(x)
    <3>1. m_threads + 1 \in Workers /\ wpc[m_threads + 1] = "none"
      BY <2>2 DEF StartSpawn, TypeOK, TaskInv, Workers
    <3>2. \A w \in Workers : wpc[w] = "exit" => wpc'[w] = "exit"
      BY <2>2, <3>1 DEF StartSpawn, TypeOK
    <3> QED
      BY <1>0, <2>0, <2>2, <3>2, ShutdownFrame DEF StartSpawn, TypeOK, PastPoll
  <2>3. CASE DestroyMembers(x)
    <3>1. \A t \in Tasks : status'[t] = status[t] \/ status[t] = "queued"
      <4>1. CASE 1..m_threads \subseteq joined
        <5>1. status' = [t \in Tasks |-> IF status[t] = "queued" THEN "broken" ELSE status[t]]
          BY <2>3, <4>1, Zenon DEF DestroyMembers
        <5> QED
          BY <5>1
      <4>2. CASE ~(1..m_threads \subseteq joined)
        BY <2>3, <4>2 DEF DestroyMembers
      <4> QED
        BY <4>1, <4>2
    <3>2. /\ UNCHANGED <<m_threads, wpc, joined, joinAt, polled, promised>>
          /\ cpc' = [cpc EXCEPT ![x] = "idle"]
      BY <2>3 DEF DestroyMembers
    <3> QED
      BY <1>0, <2>0, <3>1, <3>2, ShutdownFrame DEF TypeOK, PastPoll
  <2> QED
    BY <1>1, <2>1, <2>2, <2>3 DEF CallerNext
<1>2. ASSUME NEW x \in Threads, CallNext(x)
      PROVE  ShutdownInv'
  <2>1. ASSUME NEW t \in Tasks, Execute(x, t)
        PROVE  ShutdownInv'
    BY <1>0, <2>1, ShutdownFrame DEF Execute, TypeOK, PastPoll
  <2>2. CASE ExecuteNotify(x)
    <3>1. \A w \in Workers : wpc[w] = "exit" => wpc'[w] = "exit"
      BY <2>2 DEF ExecuteNotify, Waiting, TypeOK
    <3> QED
      BY <1>0, <2>2, <3>1, ShutdownFrame DEF ExecuteNotify, TypeOK, PastPoll
  <2>3. CASE ShutdownCall(x)
    BY <1>0, <2>3, ShutdownFrame DEF ShutdownCall, TypeOK, PastPoll
  <2>4. CASE ShutdownLock(x) \/ ShutdownTerminate(x)
    BY <1>0, <2>4, ShutdownFrame DEF ShutdownLock, ShutdownTerminate, TypeOK, PastPoll
  <2>5. CASE ShutdownThrow(x)
    BY <1>0, <2>5, ShutdownFrame DEF ShutdownThrow, TypeOK, PastPoll
  <2> QED
    BY <1>2, <2>1, <2>2, <2>3, <2>4, <2>5, ShutdownPollStep, ShutdownNotifyStep,
       ShutdownJoinStep, ShutdownReturnStep DEF CallNext
<1>3. ASSUME NEW w \in Workers, WorkerNext(w)
      PROVE  ShutdownInv'
  <2>1. CASE RunLoop(w) \/ GetTaskPredicate(w) \/ GetTaskBlock(w)
    BY <1>0, <2>1, ShutdownFrame DEF RunLoop, GetTaskPredicate, GetTaskBlock, TypeOK
  <2>2. CASE GetTaskSpurious(w) \/ GetTaskNull(w)
    BY <1>0, <2>2, ShutdownFrame DEF GetTaskSpurious, GetTaskNull, TypeOK
  <2>3. CASE GetTaskTake(w)
    <3>1. Head(m_taskLists) \in Tasks /\ status[Head(m_taskLists)] = "queued"
      <4>1. /\ m_taskLists # <<>> /\ Len(m_taskLists) \in Nat
            /\ 1 \in 1..Len(m_taskLists)
            /\ Head(m_taskLists) = m_taskLists[1] /\ m_taskLists[1] \in Tasks
        BY <2>3 DEF GetTaskTake, TypeOK
      <4> QED
        BY <4>1 DEF TaskInv, OnePlace
    <3> QED
      BY <1>0, <2>3, <3>1, ShutdownFrame DEF GetTaskTake, TypeOK
  <2>4. CASE RunFinish(w)
    <3>1. status[job[w]] = "running"
      BY <2>4 DEF RunFinish, TaskInv, OnePlace, TypeOK
    <3> QED
      BY <1>0, <2>4, <3>1, ShutdownFrame DEF RunFinish, TypeOK
  <2> QED
    BY <1>3, <2>1, <2>2, <2>3, <2>4 DEF WorkerNext
<1>4. CASE UNCHANGED vars
  BY <1>0, <1>4, ShutdownFrame DEF vars, TypeOK
<1> QED
  BY <1>1, <1>2, <1>3, <1>4 DEF Next

\* A Shutdown that returns leaves nothing unfinished of what it saw accepted.
THEOREM ShutdownDrainsPool == Spec => []ShutdownDrains
<1>1. Spec => [](TaskInv /\ ShutdownInv)
  BY TypeCorrect, TaskInvInit, TaskStep, ShutdownInvInit, ShutdownStep, PTL DEF Spec
<1>2. ShutdownInv => ShutdownDrains
  BY DEF ShutdownInv
<1> QED
  BY <1>1, <1>2, PTL
-----------------------------------------------------------------------------
(***************************************************************************)
(* LifeInv.                                                                *)
(***************************************************************************)
LEMMA AllJoined ==
    ASSUME TypeOK, TaskInv, ShutdownInv, 1..m_threads \subseteq joined
    PROVE  \A w \in Workers : wpc[w] \in {"none", "exit"}
<1> SUFFICES ASSUME NEW w \in Workers, wpc[w] # "none"
             PROVE  wpc[w] = "exit"
  OBVIOUS
<1>1. w \in 1..m_threads
  BY ThreadNum DEF TypeOK, TaskInv, Workers
<1> QED
  BY <1>1 DEF ShutdownInv

LEMMA LifeInvInit == Init => LifeInv
BY DEF Init, LifeInv, NoThreadOutlivesPool, Threads

LEMMA LifeCaller ==
    ASSUME TypeOK, TaskInv, ShutdownInv, LifeInv, NEW x \in Callers, CallerNext(x)
    PROVE  LifeInv'
<1> USE ThreadNum, ThreadsAssumption DEF TypeOK, objectVars, queueVars, workerVars, callVars, joinVars, historyVars, At, Running
<1>0. x \in Threads /\ x \notin Workers
  BY DEF Threads
<1>1. CASE StartCall(x)
  BY <1>0, <1>1 DEF StartCall, CanCall, LifeInv, NoThreadOutlivesPool
<1>2. CASE StartSpawn(x)
  <2>1. m_threads + 1 \in Workers /\ wpc[m_threads + 1] = "none"
    BY <1>2 DEF StartSpawn, TaskInv, Workers
  <2>2. /\ wpc' = [wpc EXCEPT ![m_threads + 1] = "loop"]
        /\ cpc[x] = "spawning" /\ life # "destroyed"
        /\ UNCHANGED <<cpc, life, m_isTerminate>>
    BY <1>2 DEF StartSpawn
  <2>3. \A w \in Workers : cpc'[w] # "idle" => wpc'[w] = "run"
    BY <2>1, <2>2 DEF LifeInv
  <2> QED
    BY <2>2, <2>3 DEF LifeInv, NoThreadOutlivesPool
<1>3. CASE StartReturn(x)
  BY <1>0, <1>3 DEF StartReturn, LifeInv, NoThreadOutlivesPool
<1>4. CASE DestroyCall(x)
  BY <1>0, <1>4 DEF DestroyCall, LifeInv, NoThreadOutlivesPool
<1>5. CASE DestroyMembers(x)
  <2>1. /\ cpc[x] = "members" /\ cpc' = [cpc EXCEPT ![x] = "idle"]
        /\ life = "dtor"
        /\ UNCHANGED <<m_threads, m_isTerminate, wpc, joined>>
    BY <1>5, Zenon DEF DestroyMembers
  <2>2. \A y \in Threads : cpc'[y] = "members" => y \in Callers /\ cpc[y] # "idle" /\ y # x
    BY <1>0, <2>1 DEF LifeInv
  <2>3. \A y \in Callers : cpc'[y] = "idle"
    BY <1>0, <2>1 DEF LifeInv, Threads
  <2>4. \A w \in Workers : cpc'[w] # "idle" => wpc'[w] = "run"
    BY <1>0, <2>1 DEF LifeInv
  <2>5. /\ \A y \in Threads : cpc'[y] \in {"notify_all", "joining", "members"} => m_isTerminate'
        /\ \A y \in Threads : cpc'[y] = "members" => y \in Callers /\ life' = "dtor"
    BY <1>0, <2>1, <2>2, <2>3 DEF LifeInv
  <2>6. NoThreadOutlivesPool'
    <3>1. CASE 1..m_threads \subseteq joined
      <4>1. \A w \in Workers : wpc'[w] \in {"none", "exit"}
        BY <2>1, <3>1, AllJoined
      <4>2. \A y \in Threads : cpc'[y] = "idle"
        BY <2>3, <2>4, <4>1 DEF Threads
      <4> QED
        BY <4>1, <4>2 DEF NoThreadOutlivesPool
    <3>2. CASE ~(1..m_threads \subseteq joined)
      <4>1. life' = "terminated"
        BY <1>5, <3>2 DEF DestroyMembers
      <4> QED
        BY <4>1 DEF NoThreadOutlivesPool
    <3> QED
      BY <3>1, <3>2
  <2> QED
    BY <2>3, <2>4, <2>5, <2>6 DEF LifeInv
<1> QED
  BY <1>1, <1>2, <1>3, <1>4, <1>5 DEF CallerNext

LEMMA LifeCall ==
    ASSUME TypeOK, LifeInv, NEW x \in Threads, CallNext(x)
    PROVE  LifeInv'
<1> USE ThreadNum, ThreadsAssumption
    DEF TypeOK, objectVars, queueVars, workerVars, callVars, joinVars, historyVars, At, Running, LifeInv, NoThreadOutlivesPool
<1>1. ASSUME NEW t \in Tasks, Execute(x, t)
      PROVE  LifeInv'
  BY <1>1 DEF Execute, CanCall
<1>2. CASE ExecuteNotify(x)
  <2>1. \A w \in Workers : wpc[w] = "run" => wpc'[w] = "run"
    BY <1>2 DEF ExecuteNotify, Waiting
  <2> QED
    BY <1>2, <2>1 DEF ExecuteNotify
<1>3. CASE ShutdownCall(x)
  BY <1>3 DEF ShutdownCall, CanCall
<1>4. CASE ShutdownPoll(x)
  BY <1>4 DEF ShutdownPoll
<1>5. CASE ShutdownLock(x)
  BY <1>5 DEF ShutdownLock
<1>6. CASE ShutdownTerminate(x)
  BY <1>6 DEF ShutdownTerminate
<1>7. CASE ShutdownNotify(x)
  <2>1. \A w \in Workers : wpc[w] = "run" => wpc'[w] = "run"
    BY <1>7 DEF ShutdownNotify, Waiting
  <2> QED
    BY <1>7, <2>1 DEF ShutdownNotify
<1>8. CASE ShutdownJoin(x)
  BY <1>8 DEF ShutdownJoin
<1>9. CASE ShutdownThrow(x)
  BY <1>9 DEF ShutdownThrow
<1>10. CASE ShutdownReturn(x)
  BY <1>10 DEF ShutdownReturn
<1> QED
  BY <1>1, <1>2, <1>3, <1>4, <1>5, <1>6, <1>7, <1>8, <1>9, <1>10 DEF CallNext

LEMMA LifeWorker ==
    ASSUME TypeOK, LifeInv, NEW w \in Workers, WorkerNext(w)
    PROVE  LifeInv'
<1> USE DEF TypeOK, objectVars, queueVars, workerVars, callVars, joinVars, historyVars, Running, LifeInv, NoThreadOutlivesPool
<1>1. CASE RunLoop(w) \/ GetTaskPredicate(w) \/ GetTaskBlock(w)
  BY <1>1 DEF RunLoop, GetTaskPredicate, GetTaskBlock
<1>2. CASE GetTaskSpurious(w) \/ GetTaskNull(w)
  BY <1>2 DEF GetTaskSpurious, GetTaskNull
<1>3. CASE GetTaskTake(w)
  BY <1>3 DEF GetTaskTake
<1>4. CASE RunFinish(w)
  BY <1>4 DEF RunFinish
<1> QED
  BY <1>1, <1>2, <1>3, <1>4 DEF WorkerNext

LEMMA LifeStep == TypeOK /\ TaskInv /\ ShutdownInv /\ LifeInv /\ [Next]_vars => LifeInv'
<1> SUFFICES ASSUME TypeOK, TaskInv, ShutdownInv, LifeInv, [Next]_vars
             PROVE  LifeInv'
  OBVIOUS
<1>1. CASE Next
  BY <1>1, LifeCaller, LifeCall, LifeWorker DEF Next
<1>2. CASE UNCHANGED vars
  BY <1>2 DEF vars, objectVars, queueVars, workerVars, callVars, joinVars, historyVars, LifeInv, NoThreadOutlivesPool
<1> QED
  BY <1>1, <1>2

\* The whole inductive invariant.
IInv == TypeOK /\ TaskInv /\ ShutdownInv /\ LifeInv

LEMMA Inductive == Spec => []IInv
BY TypeCorrect, TaskInvInit, TaskStep, ShutdownInvInit, ShutdownStep, LifeInvInit, LifeStep, PTL
   DEF Spec, IInv

\* No thread is in a member function of the pool, nor in Run, once its members are gone.
THEOREM NoThreadOutlives == Spec => []NoThreadOutlivesPool
<1>1. IInv => NoThreadOutlivesPool
  BY DEF IInv, LifeInv
<1> QED
  BY <1>1, Inductive, PTL
-----------------------------------------------------------------------------
(***************************************************************************)
(* JoinInv: who holds m_threadMtx, and how far the joins have come.        *)
(***************************************************************************)
Locked == {"spawning", "terminating", "notify_all", "joining"}

\* In a program without misuse only its own threads call Shutdown.  From the moment
\* m_isTerminate is set all threads are joined, or one Shutdown is about to do it, and a
\* destructor that calls Shutdown is the first to join.
JoinInv ==
    /\ \A x \in Threads : cpc[x] \in Locked <=> m_threadMtx = x
    /\ ~m_isTerminate => joined = {}
    /\ ~misuse => \A w \in Workers : cpc[w] \in {"idle", "notify_one"}
    /\ ~misuse /\ m_isTerminate /\ ~(1..m_threads \subseteq joined) =>
          \E x \in Callers : \/ cpc[x] = "notify_all" /\ joined = {}
                             \/ cpc[x] = "joining" /\ joined = 1..(joinAt[x] - 1)
    /\ ~misuse /\ life = "dtor" =>
          \A x \in Callers :
             /\ cpc[x] \in {"polling", "locking", "terminating"} => ~m_isTerminate
             /\ cpc[x] = "notify_all" => joined = {}
             /\ cpc[x] = "joining" => joined = 1..(joinAt[x] - 1)
    /\ CleanDestruction

LEMMA JoinInvInit == Init => JoinInv
BY ThreadsAssumption DEF Init, JoinInv, Locked, CleanDestruction, Threads

LEMMA JoinCaller ==
    ASSUME TypeOK, LifeInv, JoinInv, NEW x \in Callers, CallerNext(x)
    PROVE  JoinInv'
<1> USE ThreadNum, ThreadsAssumption
    DEF TypeOK, objectVars, queueVars, workerVars, callVars, joinVars, historyVars, At, Running, Locked
<1>0. x \in Threads /\ x \notin Workers
  BY DEF Threads
<1>1. CASE StartCall(x)
  BY <1>0, <1>1 DEF StartCall, CanCall, JoinInv, CleanDestruction
<1>2. CASE StartSpawn(x)
  <2>1. /\ cpc[x] = "spawning" /\ misuse' = (misuse \/ m_isTerminate)
        /\ UNCHANGED <<cpc, m_threadMtx, m_isTerminate, joined, joinAt, life>>
    BY <1>2 DEF StartSpawn
  <2> QED
    BY <2>1 DEF JoinInv, CleanDestruction
<1>3. CASE StartReturn(x)
  BY <1>0, <1>3 DEF StartReturn, JoinInv, CleanDestruction
<1>4. CASE DestroyCall(x)
  BY <1>0, <1>4 DEF DestroyCall, JoinInv, CleanDestruction
<1>5. CASE DestroyMembers(x)
  <2>1. /\ cpc[x] = "members" /\ cpc' = [cpc EXCEPT ![x] = "idle"]
        /\ life = "dtor" /\ life' \in {"destroyed", "terminated"}
        /\ UNCHANGED <<m_threadMtx, m_threads, m_isTerminate, joined, joinAt, misuse>>
    BY <1>5, Zenon DEF DestroyMembers
  <2>2. \A y \in Callers : cpc[y] # "idle" => y = x
    BY <2>1 DEF LifeInv
  <2>3. ASSUME ~misuse
        PROVE  life' = "destroyed" /\ 1..m_threads \subseteq joined
    <3>1. m_isTerminate
      BY <1>0, <2>1 DEF LifeInv
    <3>2. 1..m_threads \subseteq joined
      BY <2>1, <2>2, <2>3, <3>1 DEF JoinInv
    <3> QED
      BY <1>5, <3>2 DEF DestroyMembers
  <2> QED
    BY <1>0, <2>1, <2>3 DEF JoinInv, CleanDestruction
<1> QED
  BY <1>1, <1>2, <1>3, <1>4, <1>5 DEF CallerNext

LEMMA JoinCall ==
    ASSUME TypeOK, LifeInv, JoinInv, NEW x \in Threads, CallNext(x)
    PROVE  JoinInv'
<1> USE ThreadNum, ThreadsAssumption
    DEF TypeOK, objectVars, queueVars, workerVars, callVars, joinVars, historyVars, At, Running, Locked
<1>0. x \in Callers \/ x \in Workers
  BY DEF Threads
<1>1. ASSUME NEW t \in Tasks, Execute(x, t)
      PROVE  JoinInv'
  BY <1>1 DEF Execute, CanCall, JoinInv, CleanDestruction
<1>2. CASE ExecuteNotify(x)
  BY <1>2 DEF ExecuteNotify, JoinInv, CleanDestruction
<1>3. CASE ShutdownCall(x)
  <2>1. ~misuse' => ~misuse /\ x \in Callers /\ x \notin Workers /\ life = "alive"
    BY <1>3 DEF ShutdownCall, CanCall, Threads
  <2> QED
    BY <1>3, <2>1 DEF ShutdownCall, JoinInv, CleanDestruction
<1>4. CASE ShutdownPoll(x)
  BY <1>0, <1>4 DEF ShutdownPoll, JoinInv, CleanDestruction
<1>5. CASE ShutdownLock(x)
  BY <1>0, <1>5 DEF ShutdownLock, JoinInv, CleanDestruction, Threads
<1>a. ASSUME ~misuse, cpc[x] \in Locked
      PROVE  /\ x \in Callers /\ x \notin Workers /\ m_threadMtx = x
             /\ \A y \in Callers : cpc[y] \in Locked => y = x
             /\ life = "dtor" => \A y \in Callers : cpc[y] # "idle" => y = x
  <2>1. x \in Callers /\ x \notin Workers
    BY <1>0, <1>a DEF JoinInv
  <2> QED
    BY <1>a, <2>1 DEF JoinInv, LifeInv, Threads
<1>6. CASE ShutdownTerminate(x)
  <2>1. /\ cpc[x] = "terminating" /\ cpc' = [cpc EXCEPT ![x] = "notify_all"] /\ m_isTerminate'
        /\ life # "terminated"
        /\ UNCHANGED <<m_threadMtx, m_threads, life, joinAt, joined, misuse>>
    BY <1>6 DEF ShutdownTerminate
  <2>2. ASSUME ~misuse, ~(1..m_threads \subseteq joined)
        PROVE  x \in Callers /\ joined = {}
    BY <1>a, <2>1, <2>2 DEF JoinInv
  <2>3. ASSUME ~misuse, life = "dtor"
        PROVE  joined = {} /\ \A y \in Callers : cpc[y] # "idle" => y = x
    BY <1>a, <2>1, <2>3 DEF JoinInv
  <2>4. /\ \A y \in Threads : cpc'[y] \in Locked <=> m_threadMtx' = y
        /\ ~misuse' => \A w \in Workers : cpc'[w] \in {"idle", "notify_one"}
    BY <2>1 DEF JoinInv
  <2> QED
    BY <1>0, <2>1, <2>2, <2>3, <2>4 DEF JoinInv, CleanDestruction
<1>7. CASE ShutdownNotify(x)
  <2>1. /\ cpc[x] = "notify_all" /\ cpc' = [cpc EXCEPT ![x] = "joining"]
        /\ joinAt' = [joinAt EXCEPT ![x] = 1] /\ life # "terminated"
        /\ UNCHANGED <<m_threadMtx, m_threads, m_isTerminate, life, joined, misuse>>
    BY <1>7 DEF ShutdownNotify
  <2>2. ASSUME ~misuse, m_isTerminate, ~(1..m_threads \subseteq joined)
        PROVE  x \in Callers /\ joined = 1..(joinAt'[x] - 1)
    BY <1>a, <2>1, <2>2 DEF JoinInv
  <2>3. ASSUME ~misuse, life = "dtor"
        PROVE  joined = 1..(joinAt'[x] - 1) /\ \A y \in Callers : cpc[y] # "idle" => y = x
    BY <1>a, <2>1, <2>3 DEF JoinInv
  <2>4. /\ \A y \in Threads : cpc'[y] \in Locked <=> m_threadMtx' = y
        /\ ~misuse' => \A w \in Workers : cpc'[w] \in {"idle", "notify_one"}
    BY <2>1 DEF JoinInv
  <2>5. ~misuse' /\ m_isTerminate' /\ ~(1..m_threads' \subseteq joined') =>
            \E y \in Callers : cpc'[y] = "joining" /\ joined' = 1..(joinAt'[y] - 1)
    BY <2>1, <2>2
  <2>6. ~misuse' /\ life' = "dtor" =>
            \A y \in Callers :
               /\ cpc'[y] \notin {"polling", "locking", "terminating", "notify_all"}
               /\ cpc'[y] = "joining" => joined' = 1..(joinAt'[y] - 1)
    <3> SUFFICES ASSUME ~misuse, life = "dtor", NEW y \in Callers
                 PROVE  /\ cpc'[y] \notin {"polling", "locking", "terminating", "notify_all"}
                        /\ cpc'[y] = "joining" => joined' = 1..(joinAt'[y] - 1)
      BY <2>1
    <3>1. CASE y = x
      BY <1>0, <2>1, <2>3, <3>1
    <3>2. CASE y # x
      BY <2>1, <2>3, <3>2 DEF Threads
    <3> QED
      BY <3>1, <3>2
  <2> QED
    BY <2>1, <2>4, <2>5, <2>6 DEF JoinInv, CleanDestruction
<1>8. CASE ShutdownJoin(x)
  <2>1. /\ cpc[x] = "joining" /\ joinAt[x] \in 1..m_threads
        /\ joined' = joined \cup {joinAt[x]} /\ joinAt' = [joinAt EXCEPT ![x] = joinAt[x] + 1]
        /\ life # "terminated"
        /\ UNCHANGED <<m_threadMtx, m_threads, m_isTerminate, life, cpc, misuse>>
    BY <1>8 DEF ShutdownJoin
  <2>2. joined = 1..(joinAt[x] - 1) => joined' = 1..(joinAt'[x] - 1)
    <3>1. joinAt'[x] - 1 = joinAt[x]
      BY <2>1
    <3>2. \A j \in Nat \ {0} : 1..j = 1..(j - 1) \cup {j}
      OBVIOUS
    <3> QED
      BY <2>1, <3>1, <3>2
  <2>3. ASSUME ~misuse, m_isTerminate, ~(1..m_threads \subseteq joined')
        PROVE  x \in Callers /\ joined' = 1..(joinAt'[x] - 1)
    BY <1>a, <2>1, <2>2, <2>3 DEF JoinInv
  <2>4. ASSUME ~misuse, life = "dtor"
        PROVE  joined' = 1..(joinAt'[x] - 1) /\ \A y \in Callers : cpc[y] # "idle" => y = x
    BY <1>a, <2>1, <2>2, <2>4 DEF JoinInv
  <2>5. m_isTerminate
    BY <2>1 DEF LifeInv
  <2> QED
    BY <1>0, <2>1, <2>3, <2>4, <2>5 DEF JoinInv, CleanDestruction
<1>9. CASE ShutdownThrow(x)
  <2>1. /\ cpc[x] = "joining" /\ joinAt[x] \in (1..m_threads) \cap (joined \cup {x})
        /\ cpc' = [cpc EXCEPT ![x] = "idle"] /\ m_threadMtx' = NoThread
        /\ life' = IF x \in Callers /\ life = "dtor" THEN "terminated" ELSE life
        /\ life # "terminated"
        /\ UNCHANGED <<m_threads, m_isTerminate, joinAt, joined, misuse>>
    BY <1>9 DEF ShutdownThrow
  <2>2. ASSUME ~misuse
        PROVE  joinAt[x] \in joined /\ joined # 1..(joinAt[x] - 1)
    <3>1. joinAt[x] # x
      BY <1>a, <2>1, <2>2 DEF Workers
    <3> QED
      BY <2>1, <3>1
  <2>3. ASSUME ~misuse, m_isTerminate
        PROVE  1..m_threads \subseteq joined
    BY <1>a, <2>1, <2>2, <2>3 DEF JoinInv
  <2>4. ASSUME ~misuse
        PROVE  life # "dtor" /\ life' = life
    BY <1>a, <2>1, <2>2, <2>4 DEF JoinInv
  <2>5. \A y \in Threads : cpc'[y] \in Locked <=> m_threadMtx' = y
    BY <2>1 DEF JoinInv
  <2>6. ~misuse' => \A w \in Workers : cpc'[w] \in {"idle", "notify_one"}
    BY <2>1 DEF JoinInv
  <2> QED
    BY <2>1, <2>3, <2>4, <2>5, <2>6 DEF JoinInv, CleanDestruction
<1>10. CASE ShutdownReturn(x)
  BY <1>0, <1>10 DEF ShutdownReturn, JoinInv, CleanDestruction
<1> QED
  BY <1>1, <1>2, <1>3, <1>4, <1>5, <1>6, <1>7, <1>8, <1>9, <1>10 DEF CallNext

LEMMA JoinWorker ==
    ASSUME JoinInv, NEW w \in Workers, WorkerNext(w)
    PROVE  JoinInv'
<1>1. UNCHANGED <<m_threads, m_threadMtx, m_isTerminate, life, cpc, joinAt, joined, misuse>>
  BY DEF WorkerNext, RunLoop, GetTaskPredicate, GetTaskBlock, GetTaskSpurious, GetTaskNull,
         GetTaskTake, RunFinish, objectVars, callVars, joinVars, historyVars
<1> QED
  BY <1>1 DEF JoinInv, CleanDestruction

LEMMA JoinStep == IInv /\ JoinInv /\ [Next]_vars => JoinInv'
<1> SUFFICES ASSUME TypeOK, LifeInv, JoinInv, [Next]_vars
             PROVE  JoinInv'
  BY DEF IInv
<1>1. CASE Next
  BY <1>1, JoinCaller, JoinCall, JoinWorker DEF Next
<1>2. CASE UNCHANGED vars
  BY <1>2 DEF vars, objectVars, queueVars, workerVars, callVars, joinVars, historyVars,
              JoinInv, CleanDestruction
<1> QED
  BY <1>1, <1>2

\* std::terminate is not called by a program that does not start a pool again after Shutdown
\* and whose tasks do not shut their own pool down.
THEOREM DestructionClean == Spec => []CleanDestruction
<1>1. JoinInv => CleanDestruction
  BY DEF JoinInv
<1> QED
  BY <1>1, JoinInvInit, JoinStep, Inductive, PTL DEF Spec

\* The destructor ends no program that uses the pool properly, and leaves no thread in its
\* member functions.
THEOREM DestructionSafe == Spec => []SafeDestruction
<1>1. CleanDestruction /\ NoThreadOutlivesPool => SafeDestruction
  BY DEF SafeDestruction
<1> QED
  BY <1>1, DestructionClean, NoThreadOutlives, PTL
-----------------------------------------------------------------------------
(***************************************************************************)
(* MutexInv: who holds m_taskMtx, and what it protects.                    *)
(***************************************************************************)
MutexInv ==
    /\ \A w \in Workers : wpc[w] \in {"block", "test"} => m_taskMtx = w
    /\ \A w \in Workers : wpc[w] = "test" => m_taskLists # <<>> \/ m_isTerminate
    /\ \A w \in Workers : wpc[w] = "block" => m_taskLists = <<>>

LEMMA MutexStep == IInv /\ MutexInv /\ [Next]_vars => MutexInv'
<1> SUFFICES ASSUME TypeOK, TaskInv, ShutdownInv, MutexInv, [Next]_vars
             PROVE  MutexInv'
  BY DEF IInv
<1> USE ThreadNum, ThreadsAssumption
    DEF TypeOK, objectVars, queueVars, workerVars, callVars, joinVars, historyVars, At, MutexInv
<1>0. NoThread \notin Workers
  BY DEF Threads
<1>1. ASSUME NEW x \in Callers, CallerNext(x)
      PROVE  MutexInv'
  <2>1. CASE StartCall(x) \/ StartReturn(x) \/ DestroyCall(x)
    BY <2>1 DEF StartCall, StartReturn, DestroyCall
  <2>2. CASE StartSpawn(x)
    BY <2>2 DEF StartSpawn
  <2>3. CASE DestroyMembers(x)
    <3>1. UNCHANGED <<m_taskMtx, wpc, m_isTerminate>>
      BY <2>3 DEF DestroyMembers
    <3>2. CASE 1..m_threads \subseteq joined
      BY <3>1, <3>2, AllJoined
    <3>3. CASE ~(1..m_threads \subseteq joined)
      <4>1. UNCHANGED m_taskLists
        BY <2>3, <3>3 DEF DestroyMembers
      <4> QED
        BY <3>1, <4>1
    <3> QED
      BY <3>2, <3>3
  <2> QED
    BY <1>1, <2>1, <2>2, <2>3 DEF CallerNext
<1>2. ASSUME NEW x \in Threads, CallNext(x)
      PROVE  MutexInv'
  <2>1. ASSUME NEW t \in Tasks, Execute(x, t)
        PROVE  MutexInv'
    BY <1>0, <2>1 DEF Execute
  <2>2. CASE ExecuteNotify(x)
    BY <2>2 DEF ExecuteNotify
  <2>3. CASE ShutdownCall(x) \/ ShutdownPoll(x) \/ ShutdownLock(x) \/ ShutdownTerminate(x)
    BY <2>3 DEF ShutdownCall, ShutdownPoll, ShutdownLock, ShutdownTerminate
  <2>4. CASE ShutdownNotify(x)
    BY <2>4 DEF ShutdownNotify
  <2>5. CASE ShutdownJoin(x) \/ ShutdownThrow(x) \/ ShutdownReturn(x)
    BY <2>5 DEF ShutdownJoin, ShutdownThrow, ShutdownReturn
  <2> QED
    BY <1>2, <2>1, <2>2, <2>3, <2>4, <2>5 DEF CallNext
<1>3. ASSUME NEW w \in Workers, WorkerNext(w)
      PROVE  MutexInv'
  <2>1. CASE RunLoop(w) \/ GetTaskPredicate(w) \/ GetTaskBlock(w)
    BY <1>0, <2>1 DEF RunLoop, GetTaskPredicate, GetTaskBlock
  <2>2. CASE GetTaskSpurious(w) \/ GetTaskNull(w)
    BY <1>0, <2>2 DEF GetTaskSpurious, GetTaskNull
  <2>3. CASE GetTaskTake(w)
    BY <1>0, <2>3 DEF GetTaskTake
  <2>4. CASE RunFinish(w)
    BY <2>4 DEF RunFinish
  <2> QED
    BY <1>3, <2>1, <2>2, <2>3, <2>4 DEF WorkerNext
<1>4. CASE UNCHANGED vars
  BY <1>4 DEF vars
<1> QED
  BY <1>1, <1>2, <1>3, <1>4 DEF Next

\* The assertion of threadpool.cpp:52 never fails.
THEOREM TaskListNeverEmpty == Spec => []TaskListNotEmpty
<1>1. Init => MutexInv
  BY DEF Init, MutexInv
<1>2. MutexInv => TaskListNotEmpty
  BY DEF MutexInv, TaskListNotEmpty
<1> QED
  BY <1>1, <1>2, Inductive, MutexStep, PTL DEF Spec

\* Between execute and the workers no task is lost or given twice, and no worker that was woken
\* comes for a task that is not there.
THEOREM HandedOver == Spec => []HandOver
<1>1. OnePlace /\ TaskListNotEmpty => HandOver
  BY DEF HandOver
<1> QED
  BY <1>1, TasksInOnePlace, TaskListNeverEmpty, PTL
-----------------------------------------------------------------------------
(***************************************************************************)
(* SleepInv.                                                               *)
(***************************************************************************)
LEMMA SleepStep == TypeOK /\ SleepInv /\ [Next]_vars => SleepInv'
<1> SUFFICES ASSUME TypeOK, SleepInv, [Next]_vars
             PROVE  SleepInv'
  OBVIOUS
<1> USE ThreadNum DEF TypeOK, objectVars, queueVars, workerVars, callVars, joinVars, historyVars, At, SleepInv, Waiting, Blocking
<1>1. ASSUME NEW x \in Callers, CallerNext(x)
      PROVE  SleepInv'
  <2>0. x \in Threads
    BY DEF Threads
  <2>1. CASE StartCall(x) \/ StartReturn(x) \/ DestroyCall(x)
    BY <2>0, <2>1 DEF StartCall, StartReturn, DestroyCall
  <2>2. CASE StartSpawn(x)
    BY <2>0, <2>2 DEF StartSpawn
  <2>3. CASE DestroyMembers(x)
    <3>1. /\ cpc' = [cpc EXCEPT ![x] = "idle"] /\ cpc[x] = "members"
          /\ UNCHANGED <<m_isTerminate, wpc, missed>>
      BY <2>3, Zenon DEF DestroyMembers
    <3> QED
      BY <2>0, <3>1
  <2> QED
    BY <1>1, <2>1, <2>2, <2>3 DEF CallerNext
<1>2. ASSUME NEW x \in Threads, CallNext(x)
      PROVE  SleepInv'
  <2>1. ASSUME NEW t \in Tasks, Execute(x, t)
        PROVE  SleepInv'
    BY <2>1 DEF Execute
  <2>2. CASE ExecuteNotify(x)
    BY <2>2 DEF ExecuteNotify
  <2>3. CASE ShutdownCall(x) \/ ShutdownPoll(x) \/ ShutdownLock(x) \/ ShutdownTerminate(x)
    BY <2>3 DEF ShutdownCall, ShutdownPoll, ShutdownLock, ShutdownTerminate
  <2>4. CASE ShutdownNotify(x)
    BY <2>4 DEF ShutdownNotify
  <2>5. CASE ShutdownJoin(x) \/ ShutdownThrow(x) \/ ShutdownReturn(x)
    BY <2>5 DEF ShutdownJoin, ShutdownThrow, ShutdownReturn
  <2> QED
    BY <1>2, <2>1, <2>2, <2>3, <2>4, <2>5 DEF CallNext
<1>3. ASSUME NEW w \in Workers, WorkerNext(w)
      PROVE  SleepInv'
  <2>1. CASE RunLoop(w) \/ GetTaskPredicate(w) \/ GetTaskBlock(w)
    BY <2>1 DEF RunLoop, GetTaskPredicate, GetTaskBlock
  <2>2. CASE GetTaskSpurious(w) \/ GetTaskNull(w)
    BY <2>2 DEF GetTaskSpurious, GetTaskNull
  <2>3. CASE GetTaskTake(w) \/ RunFinish(w)
    BY <2>3 DEF GetTaskTake, RunFinish
  <2> QED
    BY <1>3, <2>1, <2>2, <2>3 DEF WorkerNext
<1>4. CASE UNCHANGED vars
  BY <1>4 DEF vars
<1> QED
  BY <1>1, <1>2, <1>3, <1>4 DEF Next

\* After notify_all the only workers asleep are those the notification was too early for.
THEOREM OnlyMissedSleepOn == Spec => []OnlyMissedSleep
<1>1. Init => SleepInv
  BY DEF Init, SleepInv
<1>2. SleepInv => OnlyMissedSleep
  BY DEF SleepInv, OnlyMissedSleep
<1> QED
  BY <1>1, <1>2, TypeCorrect, SleepStep, PTL DEF Spec
-----------------------------------------------------------------------------
(***************************************************************************)
(* WakeInv.                                                                *)
(***************************************************************************)
\* WakeupsCoverQueue with the workers that are on their way to sleep, and the finitely many
\* threads that are about to notify.
WakeInv ==
    /\ IsFiniteSet(Notifiers)
    /\ ~m_isTerminate /\ Waiting \cup Blocking # {} =>
          Len(m_taskLists) <= Cardinality(Notifiers) + Cardinality(Awake)

LEMMA AwakeFinite ==
    /\ \A S \in SUBSET Workers : IsFiniteSet(S) /\ Cardinality(S) \in Nat
    /\ IsFiniteSet(Awake) /\ Cardinality(Awake) \in Nat
<1>1. IsFiniteSet(Workers)
  BY ThreadNum, FS_Interval DEF Workers
<1>2. \A S \in SUBSET Workers : IsFiniteSet(S) /\ Cardinality(S) \in Nat
  BY <1>1, FS_Subset, FS_CardinalityType
<1> QED
  BY <1>2 DEF Awake

\* No worker sleeps, or is about to, while the others stay as they are and the queue is no longer
\* than before.
LEMMA WakeFrame ==
    ASSUME TypeOK, WakeInv,
           Notifiers' = Notifiers,
           Awake \subseteq Awake', Awake' \in SUBSET Workers,
           m_isTerminate' \/ Waiting' \cup Blocking' \subseteq Waiting \cup Blocking,
           m_isTerminate => m_isTerminate',
           m_isTerminate' \/ UNCHANGED m_taskLists
    PROVE  WakeInv'
<1>1. IsFiniteSet(Notifiers')
  BY DEF WakeInv
<1>2. Cardinality(Awake) <= Cardinality(Awake')
  BY AwakeFinite, FS_Subset
<1>3. Cardinality(Awake) \in Nat /\ Cardinality(Awake') \in Nat
  BY AwakeFinite
<1>4. Cardinality(Notifiers) \in Nat /\ Len(m_taskLists) \in Nat
  BY FS_CardinalityType DEF WakeInv, TypeOK
<1>5. ASSUME ~m_isTerminate', Waiting' \cup Blocking' # {}
      PROVE  Len(m_taskLists') <= Cardinality(Notifiers') + Cardinality(Awake')
  <2>1. Len(m_taskLists') <= Cardinality(Notifiers') + Cardinality(Awake)
    BY <1>5 DEF WakeInv
  <2> QED
    BY <2>1, <1>2, <1>3, <1>4, <1>5
<1> QED
  BY <1>1, <1>5 DEF WakeInv

\* execute: one task more, one notifier more.
LEMMA WakeExecute ==
    ASSUME TypeOK, WakeInv, NEW x \in Threads, NEW t \in Tasks, Execute(x, t)
    PROVE  WakeInv'
<1>1. /\ cpc[x] = "idle" /\ cpc' = [cpc EXCEPT ![x] = "notify_one"]
      /\ m_taskLists' = Append(m_taskLists, t)
      /\ UNCHANGED <<m_isTerminate, wpc>>
  BY DEF Execute, At, objectVars, workerVars
<1>2. Notifiers' = Notifiers \cup {x} /\ x \notin Notifiers
  BY <1>1 DEF Notifiers, TypeOK
<1>3. /\ IsFiniteSet(Notifiers')
      /\ Cardinality(Notifiers') = Cardinality(Notifiers) + 1
      /\ Cardinality(Notifiers) \in Nat
  BY <1>2, FS_AddElement, FS_CardinalityType DEF WakeInv
<1>4. Len(m_taskLists') = Len(m_taskLists) + 1 /\ Len(m_taskLists) \in Nat
  BY <1>1 DEF TypeOK
<1>5. Waiting' = Waiting /\ Blocking' = Blocking /\ Awake' = Awake
  BY <1>1 DEF Waiting, Blocking, Awake
<1> QED
  BY <1>1, <1>3, <1>4, <1>5, AwakeFinite DEF WakeInv

\* notify_one: one sleeper less, or nobody has anything to sleep for.
LEMMA WakeNotify ==
    ASSUME TypeOK, MutexInv, WakeInv, NEW x \in Threads, ExecuteNotify(x)
    PROVE  WakeInv'
<1>1. /\ cpc[x] = "notify_one" /\ cpc' = [cpc EXCEPT ![x] = "idle"]
      /\ UNCHANGED <<m_taskLists, m_isTerminate>>
  BY DEF ExecuteNotify, At, objectVars, queueVars
<1>2. Notifiers' = Notifiers \ {x} /\ x \in Notifiers
  BY <1>1 DEF Notifiers, TypeOK
<1>3. /\ IsFiniteSet(Notifiers')
      /\ Cardinality(Notifiers') = Cardinality(Notifiers) - 1
      /\ Cardinality(Notifiers) \in Nat
      /\ Cardinality(Notifiers') \in Nat
  BY <1>2, FS_RemoveElement, FS_CardinalityType DEF WakeInv
<1>4. Len(m_taskLists) \in Nat
  BY DEF TypeOK
<1>5. CASE Waiting = {} /\ UNCHANGED wpc
  <2>1. ASSUME NEW w \in Workers, wpc[w] = "block"
        PROVE  Len(m_taskLists') = 0
    BY <1>1, <2>1 DEF MutexInv
  <2>2. Waiting' \cup Blocking' # {} => Len(m_taskLists') = 0
    BY <1>5, <2>1 DEF Waiting, Blocking
  <2>3. Cardinality(Awake') \in Nat
    BY <1>5, AwakeFinite DEF Awake
  <2> QED
    BY <1>3, <2>2, <2>3 DEF WakeInv
<1>6. ASSUME NEW w \in Waiting, wpc' = [wpc EXCEPT ![w] = "acquire"]
      PROVE  WakeInv'
  <2>1. w \in Workers /\ wpc[w] = "waiting"
    BY <1>6 DEF Waiting
  <2>2. Awake' = Awake \cup {w} /\ w \notin Awake
    BY <1>6, <2>1 DEF Awake, TypeOK
  <2>3. Cardinality(Awake') = Cardinality(Awake) + 1 /\ Cardinality(Awake) \in Nat
    BY <2>2, AwakeFinite, FS_AddElement
  <2>4. Waiting \cup Blocking # {}
    BY <1>6
  <2> QED
    BY <1>1, <1>3, <1>4, <2>3, <2>4 DEF WakeInv
<1> QED
  BY <1>5, <1>6 DEF ExecuteNotify

\* A worker that takes a task leaves, and so does the task.
LEMMA WakeTake ==
    ASSUME TypeOK, WakeInv, NEW w \in Workers, GetTaskTake(w)
    PROVE  WakeInv'
<1>1. /\ wpc[w] = "test" /\ wpc' = [wpc EXCEPT ![w] = "run"]
      /\ m_taskLists # <<>> /\ m_taskLists' = Tail(m_taskLists)
      /\ UNCHANGED <<cpc, m_isTerminate>>
  BY DEF GetTaskTake, objectVars, callVars
<1>2. Awake' = Awake \ {w} /\ w \in Awake
  BY <1>1 DEF Awake, TypeOK
<1>3. /\ Cardinality(Awake') = Cardinality(Awake) - 1
      /\ Cardinality(Awake) \in Nat
  BY <1>2, AwakeFinite, FS_RemoveElement
<1>4. Len(m_taskLists') = Len(m_taskLists) - 1 /\ Len(m_taskLists) \in Nat
  BY <1>1 DEF TypeOK
<1>5. Waiting' = Waiting /\ Blocking' = Blocking /\ Notifiers' = Notifiers
  BY <1>1 DEF Waiting, Blocking, Notifiers, TypeOK
<1>6. Cardinality(Notifiers) \in Nat
  BY FS_CardinalityType DEF WakeInv
<1> QED
  BY <1>1, <1>3, <1>4, <1>5, <1>6 DEF WakeInv

\* A worker goes to sleep over an empty queue.
LEMMA WakePredicate ==
    ASSUME TypeOK, WakeInv, NEW w \in Workers, GetTaskPredicate(w)
    PROVE  WakeInv'
<1>1. /\ wpc[w] = "acquire"
      /\ wpc' = [wpc EXCEPT ![w] = IF m_taskLists # <<>> \/ m_isTerminate THEN "test" ELSE "block"]
      /\ UNCHANGED <<cpc, m_isTerminate, m_taskLists>>
  BY DEF GetTaskPredicate, objectVars, queueVars, callVars
<1>2. Notifiers' = Notifiers
  BY <1>1 DEF Notifiers
<1>3. CASE m_taskLists # <<>> \/ m_isTerminate
  <2>1. Waiting' = Waiting /\ Blocking' = Blocking /\ Awake' = Awake
    BY <1>1, <1>3 DEF Waiting, Blocking, Awake, TypeOK
  <2> QED
    BY <1>1, <1>2, <2>1 DEF WakeInv
<1>4. CASE m_taskLists = <<>>
  <2>1. Len(m_taskLists') = 0
    BY <1>1, <1>4
  <2>2. Cardinality(Awake') \in Nat
    BY AwakeFinite DEF Awake
  <2>3. Cardinality(Notifiers') \in Nat
    BY <1>2, FS_CardinalityType DEF WakeInv
  <2> QED
    BY <1>2, <2>1, <2>2, <2>3 DEF WakeInv
<1> QED
  BY <1>3, <1>4

LEMMA WakeStep == IInv /\ MutexInv /\ WakeInv /\ [Next]_vars => WakeInv'
<1> SUFFICES ASSUME TypeOK, LifeInv, MutexInv, WakeInv, [Next]_vars
             PROVE  WakeInv'
  BY DEF IInv
<1> USE DEF objectVars, queueVars, workerVars, callVars, joinVars, historyVars, At
<1>0. Awake' \in SUBSET Workers
  BY DEF Awake
<1>1. ASSUME NEW x \in Callers, CallerNext(x)
      PROVE  WakeInv'
  <2>0. x \in Threads
    BY DEF Threads
  <2>1. CASE StartCall(x) \/ StartReturn(x) \/ DestroyCall(x)
    <3>1. /\ \A y \in Threads : cpc'[y] = "notify_one" <=> cpc[y] = "notify_one"
          /\ UNCHANGED <<wpc, m_isTerminate, m_taskLists>>
      BY <2>0, <2>1 DEF StartCall, StartReturn, DestroyCall, TypeOK
    <3>2. Notifiers' = Notifiers /\ Awake' = Awake /\ Waiting' = Waiting /\ Blocking' = Blocking
      BY <3>1 DEF Notifiers, Awake, Waiting, Blocking
    <3> QED
      BY <1>0, <3>1, <3>2, WakeFrame
  <2>2. CASE StartSpawn(x)
    <3>1. /\ cpc' = cpc
          /\ wpc' = [wpc EXCEPT ![m_threads + 1] = "loop"]
          /\ UNCHANGED <<m_isTerminate, m_taskLists>>
      BY <2>0, <2>2 DEF StartSpawn, TypeOK
    <3>2. /\ Notifiers' = Notifiers /\ Awake \subseteq Awake'
          /\ Waiting' \subseteq Waiting /\ Blocking' \subseteq Blocking
      BY <3>1 DEF Notifiers, Awake, Waiting, Blocking, TypeOK
    <3> QED
      BY <1>0, <3>1, <3>2, WakeFrame
  <2>3. CASE DestroyMembers(x)
    <3>1. /\ cpc[x] = "members" /\ cpc' = [cpc EXCEPT ![x] = "idle"]
          /\ UNCHANGED <<wpc, m_isTerminate>>
      BY <2>3, Zenon DEF DestroyMembers
    <3>2. m_isTerminate'
      BY <2>0, <3>1 DEF LifeInv
    <3>3. Notifiers' = Notifiers /\ Awake' = Awake
      BY <2>0, <3>1 DEF Notifiers, Awake, TypeOK
    <3> QED
      BY <1>0, <3>2, <3>3, WakeFrame
  <2> QED
    BY <1>1, <2>1, <2>2, <2>3 DEF CallerNext
<1>2. ASSUME NEW x \in Threads, CallNext(x)
      PROVE  WakeInv'
  <2>1. ASSUME NEW t \in Tasks, Execute(x, t)
        PROVE  WakeInv'
    BY <2>1, WakeExecute
  <2>2. CASE ExecuteNotify(x)
    BY <2>2, WakeNotify
  <2>3. CASE ShutdownCall(x) \/ ShutdownPoll(x) \/ ShutdownLock(x) \/ ShutdownTerminate(x)
    <3>1. /\ \A y \in Threads : cpc'[y] = "notify_one" <=> cpc[y] = "notify_one"
          /\ UNCHANGED <<wpc, m_taskLists>>
          /\ m_isTerminate => m_isTerminate'
      BY <2>3 DEF ShutdownCall, ShutdownPoll, ShutdownLock, ShutdownTerminate, TypeOK
    <3>2. Notifiers' = Notifiers /\ Awake' = Awake /\ Waiting' = Waiting /\ Blocking' = Blocking
      BY <3>1 DEF Notifiers, Awake, Waiting, Blocking
    <3> QED
      BY <1>0, <3>1, <3>2, WakeFrame
  <2>4. CASE ShutdownNotify(x)
    <3>1. /\ cpc[x] = "notify_all" /\ cpc' = [cpc EXCEPT ![x] = "joining"]
          /\ wpc' = [w \in Workers |-> IF w \in Waiting THEN "acquire" ELSE wpc[w]]
          /\ UNCHANGED <<m_isTerminate, m_taskLists>>
      BY <2>4 DEF ShutdownNotify
    <3>2. m_isTerminate'
      BY <3>1 DEF LifeInv
    <3>3. Notifiers' = Notifiers /\ Awake \subseteq Awake'
      BY <3>1 DEF Notifiers, Awake, TypeOK
    <3> QED
      BY <1>0, <3>2, <3>3, WakeFrame
  <2>5. CASE ShutdownJoin(x) \/ ShutdownThrow(x) \/ ShutdownReturn(x)
    <3>1. /\ \A y \in Threads : cpc'[y] = "notify_one" <=> cpc[y] = "notify_one"
          /\ UNCHANGED <<wpc, m_taskLists, m_isTerminate>>
      BY <2>5 DEF ShutdownJoin, ShutdownThrow, ShutdownReturn, TypeOK
    <3>2. Notifiers' = Notifiers /\ Awake' = Awake /\ Waiting' = Waiting /\ Blocking' = Blocking
      BY <3>1 DEF Notifiers, Awake, Waiting, Blocking
    <3> QED
      BY <1>0, <3>1, <3>2, WakeFrame
  <2> QED
    BY <1>2, <2>1, <2>2, <2>3, <2>4, <2>5 DEF CallNext
<1>3. ASSUME NEW w \in Workers, WorkerNext(w)
      PROVE  WakeInv'
  <2>1. CASE RunLoop(w)
    <3>1. /\ wpc[w] = "loop" /\ wpc' = [wpc EXCEPT ![w] = IF m_isTerminate THEN "exit" ELSE "acquire"]
          /\ UNCHANGED <<cpc, m_isTerminate, m_taskLists>>
      BY <2>1 DEF RunLoop
    <3>2. CASE m_isTerminate
      BY <3>1, <3>2 DEF WakeInv, Notifiers
    <3>3. CASE ~m_isTerminate
      <4>1. Notifiers' = Notifiers /\ Awake' = Awake /\ Waiting' = Waiting /\ Blocking' = Blocking
        BY <3>1, <3>3 DEF Notifiers, Awake, Waiting, Blocking, TypeOK
      <4> QED
        BY <1>0, <3>1, <4>1, WakeFrame
    <3> QED
      BY <3>2, <3>3
  <2>2. CASE GetTaskPredicate(w)
    BY <2>2, WakePredicate
  <2>3. CASE GetTaskBlock(w)
    <3>1. /\ wpc[w] = "block" /\ wpc' = [wpc EXCEPT ![w] = "waiting"]
          /\ UNCHANGED <<cpc, m_isTerminate, m_taskLists>>
      BY <2>3 DEF GetTaskBlock
    <3>2. /\ Notifiers' = Notifiers /\ Awake' = Awake
          /\ Waiting' \cup Blocking' \subseteq Waiting \cup Blocking
      BY <3>1 DEF Notifiers, Awake, Waiting, Blocking, TypeOK
    <3> QED
      BY <1>0, <3>1, <3>2, WakeFrame
  <2>4. CASE GetTaskSpurious(w) \/ RunFinish(w)
    <3>1. /\ \E pc \in {"acquire", "loop"} : wpc' = [wpc EXCEPT ![w] = pc]
          /\ UNCHANGED <<cpc, m_isTerminate, m_taskLists>>
      BY <2>4 DEF GetTaskSpurious, RunFinish
    <3>2. /\ Notifiers' = Notifiers /\ Awake \subseteq Awake'
          /\ Waiting' \cup Blocking' \subseteq Waiting \cup Blocking
      BY <3>1 DEF Notifiers, Awake, Waiting, Blocking, TypeOK
    <3> QED
      BY <1>0, <3>1, <3>2, WakeFrame
  <2>5. CASE GetTaskNull(w)
    <3>1. wpc' = [wpc EXCEPT ![w] = "loop"] /\ m_isTerminate /\ UNCHANGED <<cpc, m_isTerminate>>
      BY <2>5 DEF GetTaskNull
    <3>2. Notifiers' = Notifiers /\ Awake \subseteq Awake'
      BY <3>1 DEF Notifiers, Awake, TypeOK
    <3> QED
      BY <1>0, <3>1, <3>2, WakeFrame
  <2>6. CASE GetTaskTake(w)
    BY <2>6, WakeTake
  <2> QED
    BY <1>3, <2>1, <2>2, <2>3, <2>4, <2>5, <2>6 DEF WorkerNext
<1>4. CASE UNCHANGED vars
  <2>1. UNCHANGED <<cpc, wpc, m_isTerminate, m_taskLists>>
    BY <1>4 DEF vars
  <2> QED
    BY <2>1 DEF WakeInv, Notifiers, Awake, Waiting, Blocking
<1> QED
  BY <1>1, <1>2, <1>3, <1>4 DEF Next

\* As long as some worker sleeps there are as many threads about to notify or to look at the
\* queue as there are tasks in it: execute's one notification per task is enough.
THEOREM WakeupsSuffice == Spec => []WakeupsCoverQueue
<1>1. Init => MutexInv /\ WakeInv
  <2> SUFFICES ASSUME Init
               PROVE  MutexInv /\ WakeInv
    OBVIOUS
  <2>1. MutexInv /\ Waiting = {} /\ Blocking = {} /\ Notifiers = {}
    BY DEF Init, MutexInv, Waiting, Blocking, Notifiers
  <2> QED
    BY <2>1, FS_EmptySet DEF WakeInv
<1>2. WakeInv => WakeupsCoverQueue
  BY DEF WakeInv, WakeupsCoverQueue
<1> QED
  BY <1>1, <1>2, Inductive, MutexStep, WakeStep, PTL DEF Spec
-----------------------------------------------------------------------------
(***************************************************************************)
(* HolderInv: a mutex that is taken will be given back, and who made the   *)
(* others wait can be found.                                               *)
(***************************************************************************)
HolderInv ==
    /\ m_taskMtx # NoThread => m_taskMtx \in Workers /\ wpc[m_taskMtx] \in {"block", "test"}
    /\ \A w \in 1..m_threads : wpc[w] # "none"
    /\ \A w \in Workers : wpc[w] = "exit" => m_isTerminate

LEMMA HolderStep == IInv /\ HolderInv /\ [Next]_vars => HolderInv'
<1> SUFFICES ASSUME TypeOK, TaskInv, HolderInv, [Next]_vars
             PROVE  HolderInv'
  BY DEF IInv
<1> USE ThreadNum
    DEF TypeOK, objectVars, queueVars, workerVars, callVars, joinVars, historyVars, At, HolderInv
<1>0. 1..m_threads \subseteq Workers
  BY DEF Workers
<1>1. ASSUME NEW x \in Callers, CallerNext(x)
      PROVE  HolderInv'
  <2>1. CASE StartCall(x) \/ StartReturn(x) \/ DestroyCall(x)
    BY <2>1 DEF StartCall, StartReturn, DestroyCall
  <2>2. CASE StartSpawn(x)
    <3>1. /\ m_threads' = m_threads + 1 /\ m_threads + 1 \in Workers
          /\ wpc' = [wpc EXCEPT ![m_threads + 1] = "loop"]
          /\ m_taskMtx' = m_taskMtx /\ m_isTerminate' = m_isTerminate
      BY <2>2 DEF StartSpawn, Workers
    <3>2. wpc[m_threads + 1] = "none"
      BY <3>1 DEF TaskInv
    <3>3. \A w \in 1..m_threads' : w \in 1..m_threads \/ w = m_threads + 1
      BY <3>1
    <3> QED
      BY <1>0, <3>1, <3>2, <3>3
  <2>3. CASE DestroyMembers(x)
    BY <2>3, Zenon DEF DestroyMembers
  <2> QED
    BY <1>1, <2>1, <2>2, <2>3 DEF CallerNext
<1>2. ASSUME NEW x \in Threads, CallNext(x)
      PROVE  HolderInv'
  <2>1. ASSUME NEW t \in Tasks, Execute(x, t)
        PROVE  HolderInv'
    BY <2>1 DEF Execute
  <2>2. CASE ExecuteNotify(x)
    BY <1>0, <2>2 DEF ExecuteNotify, Waiting
  <2>3. CASE ShutdownCall(x) \/ ShutdownPoll(x) \/ ShutdownLock(x) \/ ShutdownTerminate(x)
    BY <2>3 DEF ShutdownCall, ShutdownPoll, ShutdownLock, ShutdownTerminate
  <2>4. CASE ShutdownNotify(x)
    BY <1>0, <2>4 DEF ShutdownNotify, Waiting
  <2>5. CASE ShutdownJoin(x) \/ ShutdownThrow(x) \/ ShutdownReturn(x)
    BY <2>5 DEF ShutdownJoin, ShutdownThrow, ShutdownReturn
  <2> QED
    BY <1>2, <2>1, <2>2, <2>3, <2>4, <2>5 DEF CallNext
<1>3. ASSUME NEW w \in Workers, WorkerNext(w)
      PROVE  HolderInv'
  <2>1. CASE RunLoop(w) \/ GetTaskPredicate(w) \/ GetTaskBlock(w)
    BY <1>0, <2>1 DEF RunLoop, GetTaskPredicate, GetTaskBlock
  <2>2. CASE GetTaskSpurious(w) \/ GetTaskNull(w)
    BY <1>0, <2>2 DEF GetTaskSpurious, GetTaskNull
  <2>3. CASE GetTaskTake(w)
    BY <1>0, <2>3 DEF GetTaskTake
  <2>4. CASE RunFinish(w)
    BY <1>0, <2>4 DEF RunFinish
  <2> QED
    BY <1>3, <2>1, <2>2, <2>3, <2>4 DEF WorkerNext
<1>4. CASE UNCHANGED vars
  BY <1>4 DEF vars
<1> QED
  BY <1>1, <1>2, <1>3, <1>4 DEF Next

LEMMA AcquirerMoves ==
    ASSUME HolderInv, NEW v \in Workers, wpc[v] = "acquire" \/ m_taskMtx # NoThread
    PROVE  \E w \in Workers : WorkerMoves(w)
<1>1. CASE m_taskMtx = NoThread
  BY <1>1 DEF WorkerMoves
<1>2. CASE m_taskMtx # NoThread
  BY <1>2 DEF HolderInv, WorkerMoves
<1> QED
  BY <1>1, <1>2

\* A queued task is not left to sleepers, and a worker that is not asleep moves or waits for one
\* that does.
LEMMA QueueMoves ==
    ASSUME IInv, JoinInv, HolderInv, WakeInv, ~misuse, m_taskLists # <<>>, ~Stranded
    PROVE  (\E w \in Workers : WorkerMoves(w)) \/ (\E x \in Threads : CallMoves(x))
<1>1. ~m_isTerminate /\ m_threads \in Nat \ {0} /\ 1 \in 1..m_threads /\ 1 \in Workers
  BY ThreadNum DEF Stranded, IInv, TypeOK, Workers
<1>2. ASSUME NEW w \in Workers, w \in 1..m_threads, w \notin Waiting
      PROVE  (\E v \in Workers : WorkerMoves(v)) \/ (\E x \in Threads : CallMoves(x))
  <2>1. wpc[w] \in {"loop", "acquire", "block", "test", "run"}
    BY <1>1, <1>2 DEF HolderInv, IInv, TypeOK, WorkerPC, Waiting
  <2>2. w \in Threads /\ (cpc[w] = "idle" \/ cpc[w] = "notify_one")
    BY DEF Threads, JoinInv
  <2> QED
    BY <2>1, <2>2, AcquirerMoves DEF WorkerMoves, CallMoves
<1>3. CASE Waiting = {}
  BY <1>1, <1>2, <1>3
<1>4. CASE Waiting # {}
  <2>1. Len(m_taskLists) \in Nat \ {0}
    BY DEF IInv, TypeOK
  <2>2. Len(m_taskLists) <= Cardinality(Notifiers) + Cardinality(Awake)
    BY <1>1, <1>4 DEF WakeInv
  <2>3. Notifiers # {} \/ Awake # {}
    <3>1. SUFFICES ASSUME Notifiers = {}, Awake = {}
                   PROVE  FALSE
      OBVIOUS
    <3>2. Cardinality(Notifiers) = 0 /\ Cardinality(Awake) = 0
      BY <3>1, FS_EmptySet
    <3> QED
      BY <2>1, <2>2, <3>2
  <2>4. ASSUME NEW w \in Awake
        PROVE  \E v \in Workers : WorkerMoves(v)
    BY AcquirerMoves DEF Awake, WorkerMoves
  <2>5. ASSUME NEW x \in Notifiers
        PROVE  \E y \in Threads : CallMoves(y)
    BY DEF Notifiers, CallMoves
  <2> QED
    BY <2>3, <2>4, <2>5
<1> QED
  BY <1>3, <1>4

\* The thread that a Shutdown joins next has exited, or does not sleep.
LEMMA JoinMoves ==
    ASSUME IInv, JoinInv, SleepInv, HolderInv, ~misuse, missed = {},
           NEW x \in Threads, cpc[x] = "joining"
    PROVE  (\E w \in Workers : WorkerMoves(w)) \/ (\E y \in Threads : CallMoves(y))
<1>1. CASE ~CallMoves(x)
  <2> DEFINE w == joinAt[x]
  <2>1. w \in 1..m_threads /\ wpc[w] # "exit"
    BY <1>1 DEF CallMoves
  <2>2. w \in Workers /\ w \in Threads
    BY <2>1, ThreadNum DEF IInv, TypeOK, Workers, Threads
  <2>3. \A y \in Threads : cpc[y] # "notify_all"
    <3>1. m_threadMtx = x
      BY DEF JoinInv, Locked
    <3> QED
      BY <3>1 DEF JoinInv, Locked
  <2>4. wpc[w] # "waiting"
    <3>1. m_isTerminate
      BY DEF IInv, LifeInv
    <3> QED
      BY <2>2, <2>3, <3>1 DEF SleepInv, Waiting
  <2>5. wpc[w] \in {"loop", "acquire", "block", "test", "run"}
    BY <2>1, <2>2, <2>4 DEF HolderInv, IInv, TypeOK, WorkerPC
  <2>6. cpc[w] = "idle" \/ cpc[w] = "notify_one"
    BY <2>2 DEF JoinInv
  <2> HIDE DEF w
  <2> QED
    BY <2>2, <2>5, <2>6, AcquirerMoves DEF WorkerMoves, CallMoves
<1> QED
  BY <1>1

\* The pool does not deadlock: as long as a task is queued or a call is under way some thread can
\* go on, whoever waits for the mutexes, the condition variable and the other threads' ends.
THEOREM PoolNeverDeadlocks == Spec => []NoDeadlock
<1> DEFINE Inv == IInv /\ JoinInv /\ MutexInv /\ SleepInv /\ WakeInv /\ HolderInv
<1>1. Init => JoinInv /\ MutexInv /\ SleepInv /\ WakeInv /\ HolderInv
  <2> SUFFICES ASSUME Init
               PROVE  JoinInv /\ MutexInv /\ SleepInv /\ WakeInv /\ HolderInv
    OBVIOUS
  <2>1. MutexInv /\ SleepInv /\ Waiting = {} /\ Blocking = {} /\ Notifiers = {}
    BY DEF Init, MutexInv, SleepInv, Waiting, Blocking, Notifiers
  <2>2. WakeInv
    BY <2>1, FS_EmptySet DEF WakeInv
  <2>3. HolderInv
    BY DEF Init, HolderInv
  <2> QED
    BY <2>1, <2>2, <2>3, JoinInvInit
<1>2. Inv => NoDeadlock
  <2> SUFFICES ASSUME Inv, ~misuse, missed = {}, ~Stranded,
                      m_taskLists # <<>> \/ \E x \in Threads : cpc[x] # "idle"
               PROVE  (\E w \in Workers : WorkerMoves(w)) \/ (\E x \in Threads : CallMoves(x))
    BY DEF NoDeadlock
  <2>1. CASE m_taskLists # <<>>
    BY <2>1, QueueMoves
  <2>2. ASSUME m_taskLists = <<>>, NEW x \in Threads, cpc[x] # "idle"
        PROVE  (\E w \in Workers : WorkerMoves(w)) \/ (\E y \in Threads : CallMoves(y))
    <3>1. CASE cpc[x] = "joining"
      BY <3>1, JoinMoves
    <3>2. CASE cpc[x] = "locking"
      <4>1. CASE m_threadMtx = NoThread
        BY <3>2, <4>1 DEF CallMoves
      <4>2. CASE m_threadMtx # NoThread
        <5>1. m_threadMtx \in Threads /\ cpc[m_threadMtx] \in Locked
          BY <4>2 DEF IInv, TypeOK, JoinInv
        <5>2. CASE cpc[m_threadMtx] = "joining"
          BY <5>1, <5>2, JoinMoves
        <5>3. CASE cpc[m_threadMtx] # "joining"
          BY <5>1, <5>3 DEF Locked, CallMoves
        <5> QED
          BY <5>2, <5>3
      <4> QED
        BY <4>1, <4>2
    <3>3. CASE cpc[x] = "polling"
      <4>1. CASE m_taskMtx = NoThread
        BY <2>2, <3>3, <4>1 DEF CallMoves
      <4>2. CASE m_taskMtx # NoThread
        BY <4>2 DEF HolderInv, WorkerMoves
      <4> QED
        BY <4>1, <4>2
    <3>4. CASE cpc[x] \in {"notify_one", "spawning", "terminating", "notify_all", "members"}
      BY <3>4 DEF CallMoves
    <3> QED
      BY <2>2, <3>1, <3>2, <3>3, <3>4 DEF IInv, TypeOK, CallPC
  <2> QED
    BY <2>1, <2>2
<1>3. IInv /\ JoinInv /\ MutexInv /\ SleepInv /\ WakeInv /\ HolderInv /\ [Next]_vars =>
          JoinInv' /\ MutexInv' /\ SleepInv' /\ WakeInv' /\ HolderInv'
  BY JoinStep, MutexStep, SleepStep, WakeStep, HolderStep DEF IInv
<1> QED
  BY <1>1, <1>2, <1>3, Inductive, PTL DEF Spec
-----------------------------------------------------------------------------
(***************************************************************************)
(* Refinement: every step is a step of the abstract executor or a stutter. *)
(***************************************************************************)
LEMMA RefineInit == Init => Exec!ExecInit
BY DEF Init, Exec!ExecInit, Accepted

\* Most steps stutter.
LEMMA RefineFrame ==
    ASSUME UNCHANGED <<m_taskLists, job, status, m_isTerminate>>
    PROVE  UNCHANGED Exec!execVars
BY DEF Exec!execVars, Accepted

LEMMA RefineSubmit ==
    ASSUME TypeOK, NEW x \in Threads, NEW t \in Tasks, Execute(x, t)
    PROVE  Exec!Submit(t)
<1>1. /\ status[t] = "new"
      /\ m_taskLists' = Append(m_taskLists, t)
      /\ status' = [status EXCEPT ![t] = "queued"]
      /\ UNCHANGED <<job, m_isTerminate>>
  BY DEF Execute, objectVars, queueVars, workerVars, callVars, joinVars, historyVars
<1>2. t \notin Accepted /\ Accepted' = Accepted \cup {t}
  BY <1>1 DEF Accepted, TypeOK
<1>3. {u \in Tasks : status'[u] = "done"} = {u \in Tasks : status[u] = "done"}
  BY <1>1 DEF TypeOK
<1> QED
  BY <1>1, <1>2, <1>3 DEF Exec!Submit

LEMMA RefineBegin ==
    ASSUME TypeOK, TaskInv, NEW w \in Workers, GetTaskTake(w)
    PROVE  Exec!Begin(w)
<1>1. /\ ~m_isTerminate /\ m_taskLists # <<>> /\ wpc[w] = "test"
      /\ job' = [job EXCEPT ![w] = Head(m_taskLists)]
      /\ m_taskLists' = Tail(m_taskLists)
      /\ status' = [status EXCEPT ![Head(m_taskLists)] = "running"]
      /\ UNCHANGED m_isTerminate
  BY DEF GetTaskTake, objectVars, queueVars, workerVars, callVars, joinVars, historyVars
<1>2. Head(m_taskLists) \in Tasks /\ status[Head(m_taskLists)] = "queued"
  <2>1. /\ Len(m_taskLists) \in Nat
        /\ 1 \in 1..Len(m_taskLists)
        /\ Head(m_taskLists) = m_taskLists[1] /\ m_taskLists[1] \in Tasks
    BY <1>1 DEF TypeOK
  <2> QED
    BY <2>1 DEF TaskInv, OnePlace
<1>3. job[w] = NoTask
  BY <1>1 DEF TaskInv
<1>4. Accepted' = Accepted
  BY <1>1, <1>2 DEF Accepted, TypeOK
<1>5. {u \in Tasks : status'[u] = "done"} = {u \in Tasks : status[u] = "done"}
  BY <1>1, <1>2 DEF TypeOK
<1> QED
  BY <1>1, <1>3, <1>4, <1>5 DEF Exec!Begin

LEMMA RefineFinish ==
    ASSUME TypeOK, TaskInv, NEW w \in Workers, RunFinish(w)
    PROVE  Exec!Finish(w)
<1>1. /\ wpc[w] = "run"
      /\ status' = [status EXCEPT ![job[w]] = "done"]
      /\ job' = [job EXCEPT ![w] = NoTask]
      /\ UNCHANGED <<m_taskLists, m_isTerminate>>
  BY DEF RunFinish, objectVars, queueVars, workerVars, callVars, joinVars, historyVars
<1>2. job[w] # NoTask /\ job[w] \in Tasks /\ status[job[w]] = "running"
  BY <1>1 DEF TaskInv, OnePlace, TypeOK
<1>3. Accepted' = Accepted
  BY <1>1, <1>2 DEF Accepted, TypeOK
<1>4. {u \in Tasks : status'[u] = "done"} = {u \in Tasks : status[u] = "done"} \cup {job[w]}
  BY <1>1, <1>2 DEF TypeOK
<1> QED
  BY <1>1, <1>2, <1>3, <1>4 DEF Exec!Finish

LEMMA RefineDestroy ==
    ASSUME IInv, NEW x \in Callers, DestroyMembers(x)
    PROVE  Exec!Discard \/ UNCHANGED Exec!execVars
<1>1. CASE 1..m_threads \subseteq joined
  <2>1. /\ m_taskLists' = <<>>
        /\ cpc[x] = "members"
        /\ UNCHANGED <<job, m_isTerminate>>
    BY <1>1, Zenon DEF DestroyMembers, At, objectVars, queueVars, workerVars, callVars, joinVars, historyVars
  <2>2. status' = [t \in Tasks |-> IF status[t] = "queued" THEN "broken" ELSE status[t]]
    BY <1>1, Zenon DEF DestroyMembers
  <2>3. m_isTerminate
    BY <2>1 DEF IInv, LifeInv, Threads
  <2>4. \A w \in Workers : job[w] = NoTask
    BY <1>1, AllJoined DEF IInv, TaskInv
  <2>5. Accepted' = Accepted
    BY <2>2 DEF Accepted, IInv, TypeOK
  <2>6. {u \in Tasks : status'[u] = "done"} = {u \in Tasks : status[u] = "done"}
    BY <2>2 DEF IInv, TypeOK
  <2> QED
    BY <2>1, <2>3, <2>4, <2>5, <2>6 DEF Exec!Discard
<1>2. CASE ~(1..m_threads \subseteq joined)
  <2>1. UNCHANGED <<m_taskLists, job, status, m_isTerminate>>
    BY <1>2 DEF DestroyMembers, objectVars, queueVars, workerVars, callVars, joinVars, historyVars
  <2> QED
    BY <2>1, RefineFrame
<1> QED
  BY <1>1, <1>2

LEMMA RefineStep == IInv /\ [Next]_vars => [Exec!ExecNext]_(Exec!execVars)
<1> SUFFICES ASSUME IInv, [Next]_vars
             PROVE  Exec!ExecNext \/ UNCHANGED Exec!execVars
  OBVIOUS
<1> USE DEF objectVars, queueVars, workerVars, callVars, joinVars, historyVars
<1>0. TypeOK /\ TaskInv
  BY DEF IInv
<1>1. ASSUME NEW x \in Callers, CallerNext(x)
      PROVE  Exec!ExecNext \/ UNCHANGED Exec!execVars
  <2>1. CASE StartCall(x) \/ StartReturn(x) \/ StartSpawn(x) \/ DestroyCall(x)
    BY <2>1, RefineFrame DEF StartCall, StartReturn, StartSpawn, DestroyCall
  <2>2. CASE DestroyMembers(x)
    BY <2>2, RefineDestroy DEF Exec!ExecNext
  <2> QED
    BY <1>1, <2>1, <2>2 DEF CallerNext
<1>2. ASSUME NEW x \in Threads, CallNext(x)
      PROVE  Exec!ExecNext \/ UNCHANGED Exec!execVars
  <2>1. ASSUME NEW t \in Tasks, Execute(x, t)
        PROVE  Exec!ExecNext
    BY <1>0, <2>1, RefineSubmit DEF Exec!ExecNext
  <2>2. CASE ShutdownTerminate(x)
    <3>1. m_isTerminate' = TRUE /\ UNCHANGED <<m_taskLists, job, status>>
      BY <2>2 DEF ShutdownTerminate
    <3>2. Exec!Close
      BY <3>1 DEF Exec!Close, Accepted
    <3> QED
      BY <3>2 DEF Exec!ExecNext
  <2>3. CASE ExecuteNotify(x) \/ ShutdownCall(x) \/ ShutdownPoll(x) \/ ShutdownLock(x)
    BY <2>3, RefineFrame DEF ExecuteNotify, ShutdownCall, ShutdownPoll, ShutdownLock
  <2>4. CASE ShutdownNotify(x) \/ ShutdownJoin(x) \/ ShutdownThrow(x) \/ ShutdownReturn(x)
    BY <2>4, RefineFrame DEF ShutdownNotify, ShutdownJoin, ShutdownThrow, ShutdownReturn
  <2> QED
    BY <1>2, <2>1, <2>2, <2>3, <2>4 DEF CallNext
<1>3. ASSUME NEW w \in Workers, WorkerNext(w)
      PROVE  Exec!ExecNext \/ UNCHANGED Exec!execVars
  <2>1. CASE RunLoop(w) \/ GetTaskPredicate(w) \/ GetTaskBlock(w)
    BY <2>1, RefineFrame DEF RunLoop, GetTaskPredicate, GetTaskBlock
  <2>2. CASE GetTaskSpurious(w) \/ GetTaskNull(w)
    BY <2>2, RefineFrame DEF GetTaskSpurious, GetTaskNull
  <2>3. CASE GetTaskTake(w)
    BY <1>0, <2>3, RefineBegin DEF Exec!ExecNext
  <2>4. CASE RunFinish(w)
    BY <1>0, <2>4, RefineFinish DEF Exec!ExecNext
  <2> QED
    BY <1>3, <2>1, <2>2, <2>3, <2>4 DEF WorkerNext
<1>4. CASE UNCHANGED vars
  BY <1>4, RefineFrame DEF vars
<1> QED
  BY <1>1, <1>2, <1>3, <1>4 DEF Next

\* ThreadPool implements TaskExecutor: tasks begin in the order of their acceptance, at most
\* once, one to a worker, and none once m_isTerminate is set.
THEOREM PoolImplementsExecutor == Spec => ImplementsExecutor
BY RefineInit, RefineStep, Inductive, PTL DEF Spec, ImplementsExecutor, Exec!ExecSpec
=============================================================================

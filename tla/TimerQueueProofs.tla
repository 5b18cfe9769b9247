-------------------------- MODULE TimerQueueProofs --------------------------
(***************************************************************************)
(* What TLAPS proves of TimerQueue for every number of threads, slots and  *)
(* tasks, every set of durations, and a clock that runs to any bound.      *)
(***************************************************************************)
EXTENDS TimerQueue, TLAPS, FiniteSetTheorems, SequenceTheorems, SequenceFacts

\* What the calls under way have yet to insert: one pair for each timepoint.
ToAdd == UNION {{x} \X (1..Len(plan[x])) : x \in Threads}

\* issued counts each task from the call on, so there is a number for every task to come.
CountInv ==
    /\ IsFiniteSet(ToAdd)
    /\ Len(due) + Cardinality(ToAdd) <= issued
    /\ \A x \in Threads : /\ pc[x] \notin {"insert", "notify"} => plan[x] = <<>>
                          /\ pc[x] = "insert" => plan[x] # <<>>

\* The pool loses no task.
SeenInv == seen = done \cup Queued \cup Running

\* The sweep holds the mutex, so what it has passed is submitted or late when it clears the set,
\* and Shutdown does not take effect meanwhile.
SweepInv == dpc = "sweep" => ~m_isTerminate /\ m_tasks \subseteq left \cup seen \cup late

\* How far the Shutdown that took effect has come.  There is no sweep any more, so that the pool
\* is given nothing after its queue was found empty.
StopInv ==
    /\ \A x \in Threads : InPool(x) => m_isTerminate
    /\ \A x \in Threads : pc[x] \in {"pool_close", "pool_join"} => queue = <<>>
    /\ \A x \in Threads : pc[x] = "pool_join" => closed
    /\ m_isTerminate => covered \subseteq seen \cup tied \cup late

\* What stands still has a reason: a demon that is gone was told to go, a slot is idle if it has
\* no task and in a call only inside its task's function, and a pool that was closed has nothing
\* queued and nobody who waits for that.
StillInv ==
    /\ dpc = "exit" => m_isTerminate
    /\ \A s \in Slots : /\ spc[s] = "idle" <=> slot[s] = NoTask
                        /\ spc[s] # "func" => pc[s] = "idle"
                        /\ pc[s] \in {"idle", "insert", "notify"}
    /\ closed => /\ m_isTerminate /\ queue = <<>>
                 /\ \A x \in Threads : pc[x] \notin {"pool_poll", "pool_close"}

IInv ==
    /\ TypeOK /\ CountInv /\ SeenInv /\ SweepInv /\ Accounted /\ OneFate /\ StopInv
    /\ ShutdownDrains /\ WaitersCovered /\ StillInv

\* The calls that add tasks differ only in the timepoints, and each has one at least.
LEMMA AddNextCalls ==
    ASSUME NEW x \in Threads, AddNext(x)
    PROVE  \/ \E timepoints \in Seq(Times) \ {<<>>} : AddCall(x, timepoints)
           \/ AddInsert(x)
           \/ AddNotify(x)
<1>1. ASSUME NEW t \in Times, AddTaskAtTimePoint(x, t)
      PROVE  \E timepoints \in Seq(Times) \ {<<>>} : AddCall(x, timepoints)
  <2>1. <<t>> \in Seq(Times) \ {<<>>}
    OBVIOUS
  <2> QED
    BY <1>1, <2>1 DEF AddTaskAtTimePoint
<1>2. ASSUME NEW d \in Durations, AddTaskAfterDuration(x, d)
      PROVE  \E timepoints \in Seq(Times) \ {<<>>} : AddCall(x, timepoints)
  <2>1. <<now + d>> \in Seq(Times) \ {<<>>}
    BY <1>2 DEF AddTaskAfterDuration, AddCall
  <2> QED
    BY <1>2, <2>1 DEF AddTaskAfterDuration
<1>3. ASSUME NEW d \in Durations, NEW n \in RepeatNums, AddRepeatTask(x, d, n)
      PROVE  \E timepoints \in Seq(Times) \ {<<>>} : AddCall(x, timepoints)
  <2> DEFINE timepoints == [i \in 1..n |-> now + i * d]
  <2>1. timepoints \in Seq(Times)
    BY <1>3 DEF AddRepeatTask, AddCall
  <2>2. 1 \in DOMAIN timepoints
    BY TimerAssumption
  <2>3. timepoints # <<>>
    BY <2>2
  <2> HIDE DEF timepoints
  <2> QED
    BY <1>3, <2>1, <2>3 DEF AddRepeatTask, timepoints
<1> QED
  BY <1>1, <1>2, <1>3 DEF AddNext

LEMMA NextActions ==
    ASSUME Next
    PROVE  \/ Tick
           \/ Start
           \/ \E x \in Threads : \/ \E timepoints \in Seq(Times) \ {<<>>} : AddCall(x, timepoints)
                                 \/ AddInsert(x)
                                 \/ AddNotify(x)
           \/ \E x \in Callers : \/ ShutdownCall(x)
                                 \/ ShutdownWait(x)
                                 \/ ShutdownThrow(x)
                                 \/ ShutdownTerminate(x)
                                 \/ ShutdownPoolPoll(x)
                                 \/ ShutdownPoolClose(x)
                                 \/ ShutdownReturn(x)
           \/ DemonLoop
           \/ DemonWait
           \/ DemonSweepStart
           \/ DemonSweep
           \/ DemonClear
           \/ Spurious
           \/ \E s \in Slots : SlotBegin(s) \/ SlotWake(s) \/ SlotFinish(s)
BY AddNextCalls DEF Next, ShutdownNext, DemonNext
-----------------------------------------------------------------------------
(***************************************************************************)
(* ToAdd: one element goes with each insert, and as many come with a call. *)
(***************************************************************************)
\* There is a number for the task that a thread is about to insert.
LEMMA RoomToAdd ==
    ASSUME TypeOK, CountInv, NEW x \in Threads, plan[x] # <<>>
    PROVE  Len(due) + 1 <= issued
<1>1. plan[x] \in Seq(Times) /\ Len(plan[x]) \in Nat \ {0}
  BY DEF TypeOK
<1>2. <<x, 1>> \in ToAdd
  BY <1>1 DEF ToAdd
<1>3. Cardinality(ToAdd) \in Nat /\ Cardinality(ToAdd) # 0
  BY <1>2, FS_CardinalityType, FS_EmptySet DEF CountInv
<1> QED
  BY <1>3 DEF CountInv, TypeOK

\* ToAdd after the plan of one thread has changed.
LEMMA ToAddUpdate ==
    ASSUME TypeOK, NEW x \in Threads, NEW p \in Seq(Times), plan' = [plan EXCEPT ![x] = p]
    PROVE  ToAdd' = (ToAdd \ ({x} \X (1..Len(plan[x])))) \cup ({x} \X (1..Len(p)))
<1> DEFINE Own(y) == {y} \X (1..Len(plan[y]))
<1>1. \A y \in Threads : plan'[y] = IF y = x THEN p ELSE plan[y]
  BY DEF TypeOK
<1>2. \A y \in Threads \ {x} : Own(y)' = Own(y)
  BY <1>1
<1>3. Own(x)' = {x} \X (1..Len(p))
  BY <1>1
<1>4. \A y \in Threads \ {x} : Own(y) \cap Own(x) = {}
  OBVIOUS
<1>5. \A p1 : p1 \in ToAdd <=> \E y \in Threads : p1 \in Own(y)
  BY DEF ToAdd
<1>6. \A p1 : p1 \in ToAdd' <=> \E y \in Threads : p1 \in Own(y)'
  BY DEF ToAdd
<1> HIDE DEF Own
<1>7. \A p1 : p1 \in ToAdd' <=> p1 \in ToAdd \ Own(x) \/ p1 \in Own(x)'
  BY <1>2, <1>4, <1>5, <1>6
<1>8. ToAdd' = (ToAdd \ Own(x)) \cup Own(x)'
  BY <1>7
<1> QED
  BY <1>3, <1>8 DEF Own

LEMMA ToAddGrows ==
    ASSUME TypeOK, CountInv, NEW x \in Threads, plan[x] = <<>>,
           NEW timepoints \in Seq(Times), plan' = [plan EXCEPT ![x] = timepoints]
    PROVE  /\ IsFiniteSet(ToAdd')
           /\ Cardinality(ToAdd') <= Cardinality(ToAdd) + Len(timepoints)
<1> DEFINE new == {x} \X (1..Len(timepoints))
<1>1. Len(timepoints) \in Nat /\ Len(plan[x]) = 0
  OBVIOUS
<1>2. IsFiniteSet(new) /\ Cardinality(new) = Len(timepoints)
  <2>1. IsFiniteSet({x}) /\ Cardinality({x}) = 1
    BY FS_Singleton
  <2>2. IsFiniteSet(1..Len(timepoints)) /\ Cardinality(1..Len(timepoints)) = Len(timepoints)
    <3>1. ASSUME NEW n \in Nat PROVE IsFiniteSet(1..n) /\ Cardinality(1..n) = n
      BY FS_Interval
    <3> QED
      BY <1>1, <3>1
  <2> QED
    BY <1>1, <2>1, <2>2, FS_Product
<1>3. ToAdd' = ToAdd \cup new
  <2>1. {x} \X (1..Len(plan[x])) = {}
    BY <1>1
  <2> QED
    BY <2>1, ToAddUpdate
<1>4. IsFiniteSet(ToAdd)
  BY DEF CountInv
<1> HIDE DEF new
<1>5. /\ IsFiniteSet(ToAdd \cup new)
      /\ Cardinality(ToAdd \cup new) =
             Cardinality(ToAdd) + Cardinality(new) - Cardinality(ToAdd \cap new)
  BY <1>2, <1>4, FS_Union
<1>6. Cardinality(ToAdd) \in Nat /\ Cardinality(ToAdd \cap new) \in Nat
  BY <1>2, <1>4, FS_CardinalityType, FS_Intersection
<1> QED
  BY <1>1, <1>2, <1>3, <1>5, <1>6

LEMMA ToAddShrinks ==
    ASSUME TypeOK, CountInv, NEW x \in Threads, plan[x] # <<>>,
           plan' = [plan EXCEPT ![x] = Tail(@)]
    PROVE  /\ IsFiniteSet(ToAdd')
           /\ Cardinality(ToAdd') = Cardinality(ToAdd) - 1
<1> DEFINE last == <<x, Len(plan[x])>>
<1>1. plan[x] \in Seq(Times) /\ Len(plan[x]) \in Nat \ {0}
  BY DEF TypeOK
<1>2. Tail(plan[x]) \in Seq(Times) /\ Len(Tail(plan[x])) = Len(plan[x]) - 1
  BY <1>1, HeadTailProperties
<1>3. ToAdd' = (ToAdd \ ({x} \X (1..Len(plan[x])))) \cup ({x} \X (1..(Len(plan[x]) - 1)))
  <2>1. plan' = [plan EXCEPT ![x] = Tail(plan[x])]
    OBVIOUS
  <2> HIDE DEF ToAdd
  <2>2. ToAdd' = (ToAdd \ ({x} \X (1..Len(plan[x])))) \cup ({x} \X (1..Len(Tail(plan[x]))))
    BY <1>2, <2>1, ToAddUpdate
  <2> QED
    BY <1>2, <2>2
<1>4. {x} \X (1..Len(plan[x])) \subseteq ToAdd
  BY DEF ToAdd
<1>5. {x} \X (1..(Len(plan[x]) - 1)) = ({x} \X (1..Len(plan[x]))) \ {last}
  BY <1>1
<1>6. last \in {x} \X (1..Len(plan[x]))
  BY <1>1
<1>7. ToAdd' = ToAdd \ {last} /\ last \in ToAdd
  BY <1>3, <1>4, <1>5, <1>6
<1> QED
  BY <1>7, FS_RemoveElement DEF CountInv

\* Everything else leaves ToAdd alone.
LEMMA ToAddFrame ==
    ASSUME TypeOK, CountInv, UNCHANGED <<plan, issued, due>>,
           \A x \in Threads : /\ pc'[x] \notin {"insert", "notify"} => plan[x] = <<>>
                              /\ pc'[x] = "insert" => plan[x] # <<>>
    PROVE  CountInv'
<1>1. ToAdd' = ToAdd
  BY DEF ToAdd
<1>2. IsFiniteSet(ToAdd)'
  BY <1>1 DEF CountInv
<1>3. Cardinality(ToAdd)' = Cardinality(ToAdd)
  BY <1>1
<1>4. (Len(due) + Cardinality(ToAdd) <= issued)'
  BY <1>3 DEF CountInv
<1>5. (\A x \in Threads : /\ pc[x] \notin {"insert", "notify"} => plan[x] = <<>>
                          /\ pc[x] = "insert" => plan[x] # <<>>)'
  BY DEF Threads
<1> HIDE DEF ToAdd
<1> QED
  BY <1>2, <1>4, <1>5 DEF CountInv

LEMMA HeadTailElements ==
    ASSUME NEW S, NEW q \in Seq(S), q # <<>>
    PROVE  {q[i] : i \in DOMAIN q} = {Head(q)} \cup {Tail(q)[i] : i \in DOMAIN Tail(q)}
<1> DEFINE t == Tail(q)
<1>1. Len(q) \in Nat \ {0} /\ DOMAIN q = 1..Len(q) /\ Head(q) = q[1]
  OBVIOUS
<1>2. DOMAIN t = 1..(Len(q) - 1) /\ \A i \in DOMAIN t : t[i] = q[i + 1]
  OBVIOUS
<1> HIDE DEF t
<1>3. \A i \in DOMAIN q : i = 1 \/ (i - 1 \in DOMAIN t /\ q[i] = t[i - 1])
  BY <1>1, <1>2
<1>4. \A i \in DOMAIN t : i + 1 \in DOMAIN q
  BY <1>1, <1>2
<1>5. \A v : (\E i \in DOMAIN q : q[i] = v) <=> v = Head(q) \/ \E i \in DOMAIN t : t[i] = v
  BY <1>1, <1>2, <1>3, <1>4
<1> QED
  BY <1>5 DEF t
-----------------------------------------------------------------------------
\* There is a number for every task (RoomToAdd), m_taskMtx is free for whoever takes it, and the
\* demon and Shutdown take it exactly when they begin what TypeOK ties to it.
LEMMA TypeStep ==
    ASSUME TypeOK, CountInv, SeenInv, Next
    PROVE  TypeOK'
<1> USE TimerAssumption DEF TypeOK, demonVars, callVars, poolVars, historyVars, At, CanCall,
           WakeDemon, WakeCallers, InPool, Threads, Tasks, Times, DemonPC, CallPC, Insert,
           AddCall, Pool!Submit, Pool!Begin, Pool!Finish, Pool!Close, SeenInv, Running
<1>1. CASE Tick
  BY <1>1 DEF Tick
<1>2. CASE Start
  BY <1>2 DEF Start
<1>3. ASSUME NEW x \in Threads, NEW timepoints \in Seq(Times) \ {<<>>}, AddCall(x, timepoints)
      PROVE  TypeOK'
  <2>1. Len(timepoints) \in Nat
    OBVIOUS
  <2>2. issued' = issued + Len(timepoints) /\ issued + Len(timepoints) <= MaxTasks
    BY <1>3
  <2>3. issued' \in 0..MaxTasks /\ Len(due) <= issued'
    BY <2>1, <2>2
  <2>4. pc' \in [Threads -> CallPC] /\ plan' \in [Threads -> Seq(Times)]
    BY <1>3
  <2>5. \A y \in Threads : InPool(y)' <=> InPool(y)
    BY <1>3
  <2> QED
    BY <1>3, <2>3, <2>4, <2>5
<1>4. ASSUME NEW x \in Threads, AddInsert(x) PROVE TypeOK'
  <2>1. plan[x] # <<>> /\ plan[x] \in Seq(Times)
    BY <1>4 DEF AddInsert, CountInv
  <2>2. Head(plan[x]) \in Times /\ Tail(plan[x]) \in Seq(Times)
    BY <2>1, HeadTailProperties
  <2>3. due' \in Seq(Times) /\ Len(due') = Len(due) + 1
    BY <1>4, <2>2 DEF AddInsert
  <2>4. Len(due') <= issued
    BY <1>4, <2>1, <2>3, RoomToAdd
  <2>5. pc' \in [Threads -> CallPC] /\ plan' \in [Threads -> Seq(Times)]
    BY <1>4, <2>2 DEF AddInsert
  <2>6. \A y \in Threads : InPool(y)' <=> InPool(y)
    BY <1>4 DEF AddInsert
  <2>7. Len(due) + 1 \in Tasks
    BY <2>3, <2>4
  <2>8. m_tasks \subseteq m_tasks' /\ m_tasks' \subseteq m_tasks \cup {Len(due) + 1}
    BY <1>4 DEF AddInsert
  <2>9. m_tasks' \subseteq 1..Len(due')
    <3>1. m_tasks \subseteq 1..Len(due) /\ Len(due) \in Nat
      OBVIOUS
    <3> HIDE DEF TypeOK, SeenInv, CountInv
    <3> QED
      BY <2>3, <2>8, <3>1
  <2>10. tied' \subseteq Tasks
    BY <1>4, <2>7 DEF AddInsert
  <2> QED
    BY <1>4, <2>3, <2>4, <2>5, <2>6, <2>8, <2>9, <2>10 DEF AddInsert
<1>5. ASSUME NEW x \in Threads, AddNotify(x) PROVE TypeOK'
  BY <1>5 DEF AddNotify
<1>6. ASSUME NEW x \in Callers, ShutdownCall(x) PROVE TypeOK'
  <2>1. pc' \in [Threads -> CallPC]
    BY <1>6 DEF ShutdownCall
  <2>2. \A y \in Threads : InPool(y)' <=> InPool(y)
    BY <1>6 DEF ShutdownCall
  <2> QED
    BY <1>6, <2>1, <2>2 DEF ShutdownCall
<1>7. ASSUME NEW x \in Callers, ShutdownWait(x) PROVE TypeOK'
  BY <1>7 DEF ShutdownWait
<1>8. ASSUME NEW x \in Callers, ShutdownThrow(x) PROVE TypeOK'
  BY <1>8 DEF ShutdownThrow
<1>9. ASSUME NEW x \in Callers, ShutdownTerminate(x) PROVE TypeOK'
  BY <1>9 DEF ShutdownTerminate
<1>10. ASSUME NEW x \in Callers, ShutdownPoolPoll(x) PROVE TypeOK'
  BY <1>10 DEF ShutdownPoolPoll
<1>11. ASSUME NEW x \in Callers, ShutdownPoolClose(x) PROVE TypeOK'
  BY <1>11 DEF ShutdownPoolClose
<1>12. ASSUME NEW x \in Callers, ShutdownReturn(x) PROVE TypeOK'
  BY <1>12 DEF ShutdownReturn
<1>13. CASE DemonLoop
  BY <1>13 DEF DemonLoop
<1>14. CASE DemonWait
  BY <1>14 DEF DemonWait
<1>15. CASE DemonSweepStart
  BY <1>15 DEF DemonSweepStart
<1>16. CASE DemonSweep
  <2>1. PICK e \in left : /\ left' = left \ {e}
                          /\ \/ Pool!Submit(e) /\ UNCHANGED late
                             \/ late' = late \cup {e} /\ UNCHANGED poolVars
    BY <1>16 DEF DemonSweep
  <2>2. e \in Tasks
    OBVIOUS
  <2>3. queue' = queue \/ queue' = Append(queue, e)
    BY <2>1
  <2>5. queue' \in Seq(Tasks)
    <3>1. queue \in Seq(Tasks)
      OBVIOUS
    <3> HIDE DEF TypeOK, SeenInv, CountInv, Tasks
    <3> QED
      BY <2>2, <2>3, <3>1, AppendProperties
  <2>6. slot' = slot
    BY <2>1
  <2>4. /\ seen' \subseteq Tasks /\ done' \subseteq seen' /\ closed' \in BOOLEAN
        /\ late' \subseteq Tasks
    BY <2>1, <2>2
  <2> QED
    BY <1>16, <2>1, <2>4, <2>5, <2>6 DEF DemonSweep
<1>17. CASE DemonClear
  BY <1>17 DEF DemonClear
<1>18. CASE Spurious
  BY <1>18 DEF Spurious
<1>19. ASSUME NEW s \in Slots, SlotBegin(s) PROVE TypeOK'
  <2>1. Head(queue) \in Tasks /\ Tail(queue) \in Seq(Tasks)
    BY <1>19 DEF SlotBegin
  <2>2. queue' \in Seq(Tasks) /\ slot' \in [Slots -> Tasks \cup {NoTask}]
    BY <1>19, <2>1 DEF SlotBegin
  <2> QED
    BY <1>19, <2>2 DEF SlotBegin
<1>20. ASSUME NEW s \in Slots, SlotWake(s) PROVE TypeOK'
  BY <1>20 DEF SlotWake
<1>21. ASSUME NEW s \in Slots, SlotFinish(s) PROVE TypeOK'
  BY <1>21 DEF SlotFinish
<1> QED
  BY <1>1, <1>2, <1>3, <1>4, <1>5, <1>6, <1>7, <1>8, <1>9, <1>10, <1>11,
     <1>12, <1>13, <1>14, <1>15, <1>16, <1>17, <1>18, <1>19, <1>20, <1>21, NextActions

\* A call counts its tasks in issued before it inserts the first.
LEMMA CountStep ==
    ASSUME TypeOK, CountInv, Next
    PROVE  CountInv'
<1> USE DEF demonVars, callVars, At, CanCall, WakeCallers, Threads
<1>1. CASE Tick
  BY <1>1, ToAddFrame DEF Tick, TypeOK, CountInv
<1>2. CASE Start
  BY <1>2, ToAddFrame DEF Start, TypeOK, CountInv
<1>3. ASSUME NEW x \in Threads, NEW timepoints \in Seq(Times) \ {<<>>}, AddCall(x, timepoints)
      PROVE  CountInv'
  <2>1. plan[x] = <<>> /\ plan' = [plan EXCEPT ![x] = timepoints]
    BY <1>3 DEF AddCall, CanCall, callVars, TypeOK, CountInv
  <2>2. IsFiniteSet(ToAdd') /\ Cardinality(ToAdd') <= Cardinality(ToAdd) + Len(timepoints)
    BY <2>1, ToAddGrows
  <2>3. Cardinality(ToAdd) \in Nat /\ Cardinality(ToAdd') \in Nat /\ Len(timepoints) \in Nat
    BY <2>2, FS_CardinalityType DEF CountInv
  <2>4. Len(due') = Len(due) /\ issued' = issued + Len(timepoints)
    BY <1>3 DEF AddCall, CanCall, callVars, TypeOK, CountInv
  <2>5. Len(due) \in Nat /\ issued \in Nat
    BY DEF TypeOK
  <2>6. Len(due') + Cardinality(ToAdd') <= issued'
    BY <2>2, <2>3, <2>4, <2>5 DEF CountInv
  <2>7. \A y \in Threads : /\ pc'[y] \notin {"insert", "notify"} => plan'[y] = <<>>
                           /\ pc'[y] = "insert" => plan'[y] # <<>>
    BY <1>3 DEF AddCall, CanCall, callVars, TypeOK, CountInv
  <2> QED
    BY <2>2, <2>6, <2>7 DEF CountInv
<1>4. ASSUME NEW x \in Threads, AddInsert(x) PROVE CountInv'
  <2>1. plan[x] # <<>> /\ plan' = [plan EXCEPT ![x] = Tail(@)]
    BY <1>4 DEF AddInsert, Insert, CountInv
  <2>2. IsFiniteSet(ToAdd') /\ Cardinality(ToAdd') = Cardinality(ToAdd) - 1
    BY <2>1, ToAddShrinks
  <2>3. Cardinality(ToAdd) \in Nat /\ Len(due) \in Nat /\ issued \in Nat
    BY FS_CardinalityType DEF TypeOK, CountInv
  <2>4. due' = Append(due, Head(plan[x])) /\ issued' = issued
    BY <1>4 DEF AddInsert, Insert, CountInv
  <2>5. Len(due') = Len(due) + 1
    <3>1. due \in Seq(Times) /\ plan[x] \in Seq(Times)
      BY DEF TypeOK
    <3> QED
      BY <2>1, <2>4, <3>1
  <2>6. Len(due') + Cardinality(ToAdd') <= issued'
    BY <2>2, <2>3, <2>4, <2>5 DEF CountInv
  <2>7. \A y \in Threads : /\ pc'[y] \notin {"insert", "notify"} => plan'[y] = <<>>
                           /\ pc'[y] = "insert" => plan'[y] # <<>>
    BY <1>4 DEF AddInsert, Insert, TypeOK, CountInv
  <2> QED
    BY <2>2, <2>6, <2>7 DEF CountInv
<1>5. ASSUME NEW x \in Threads, AddNotify(x) PROVE CountInv'
  BY <1>5, ToAddFrame DEF AddNotify, TypeOK, CountInv
<1>6. ASSUME NEW x \in Callers, ShutdownCall(x) PROVE CountInv'
  BY <1>6, ToAddFrame DEF ShutdownCall, TypeOK, CountInv
<1>7. ASSUME NEW x \in Callers, ShutdownWait(x) PROVE CountInv'
  BY <1>7, ToAddFrame DEF ShutdownWait, TypeOK, CountInv
<1>8. ASSUME NEW x \in Callers, ShutdownThrow(x) PROVE CountInv'
  BY <1>8, ToAddFrame DEF ShutdownThrow, TypeOK, CountInv
<1>9. ASSUME NEW x \in Callers, ShutdownTerminate(x) PROVE CountInv'
  BY <1>9, ToAddFrame DEF ShutdownTerminate, TypeOK, CountInv
<1>10. ASSUME NEW x \in Callers, ShutdownPoolPoll(x) PROVE CountInv'
  BY <1>10, ToAddFrame DEF ShutdownPoolPoll, TypeOK, CountInv
<1>11. ASSUME NEW x \in Callers, ShutdownPoolClose(x) PROVE CountInv'
  BY <1>11, ToAddFrame DEF ShutdownPoolClose, TypeOK, CountInv
<1>12. ASSUME NEW x \in Callers, ShutdownReturn(x) PROVE CountInv'
  BY <1>12, ToAddFrame DEF ShutdownReturn, TypeOK, CountInv
<1>13. CASE DemonLoop
  BY <1>13, ToAddFrame DEF DemonLoop, TypeOK, CountInv
<1>14. CASE DemonWait
  BY <1>14, ToAddFrame DEF DemonWait, TypeOK, CountInv
<1>15. CASE DemonSweepStart
  BY <1>15, ToAddFrame DEF DemonSweepStart, TypeOK, CountInv
<1>16. CASE DemonSweep
  BY <1>16, ToAddFrame DEF DemonSweep, TypeOK, CountInv
<1>17. CASE DemonClear
  BY <1>17, ToAddFrame DEF DemonClear, TypeOK, CountInv
<1>18. CASE Spurious
  BY <1>18, ToAddFrame DEF Spurious, TypeOK, CountInv
<1>19. ASSUME NEW s \in Slots, SlotBegin(s) PROVE CountInv'
  BY <1>19, ToAddFrame DEF SlotBegin, TypeOK, CountInv
<1>20. ASSUME NEW s \in Slots, SlotWake(s) PROVE CountInv'
  BY <1>20, ToAddFrame DEF SlotWake, TypeOK, CountInv
<1>21. ASSUME NEW s \in Slots, SlotFinish(s) PROVE CountInv'
  BY <1>21, ToAddFrame DEF SlotFinish, TypeOK, CountInv
<1> QED
  BY <1>1, <1>2, <1>3, <1>4, <1>5, <1>6, <1>7, <1>8, <1>9, <1>10, <1>11,
     <1>12, <1>13, <1>14, <1>15, <1>16, <1>17, <1>18, <1>19, <1>20, <1>21, NextActions

\* A task moves from the queue to a slot and from there to done.
LEMMA SeenStep ==
    ASSUME TypeOK, SeenInv, Next
    PROVE  SeenInv'
<1> USE DEF SeenInv, Queued, Running, poolVars, Insert, Pool!Submit, Pool!Begin, Pool!Finish,
           Pool!Close
<1>1. CASE Tick
  BY <1>1 DEF Tick
<1>2. CASE Start
  BY <1>2 DEF Start
<1>3. ASSUME NEW x \in Threads, NEW timepoints \in Seq(Times) \ {<<>>}, AddCall(x, timepoints)
      PROVE  SeenInv'
  BY <1>3 DEF AddCall
<1>4. ASSUME NEW x \in Threads, AddInsert(x) PROVE SeenInv'
  BY <1>4 DEF AddInsert
<1>5. ASSUME NEW x \in Threads, AddNotify(x) PROVE SeenInv'
  BY <1>5 DEF AddNotify
<1>6. ASSUME NEW x \in Callers, ShutdownCall(x) PROVE SeenInv'
  BY <1>6 DEF ShutdownCall
<1>7. ASSUME NEW x \in Callers, ShutdownWait(x) PROVE SeenInv'
  BY <1>7 DEF ShutdownWait
<1>8. ASSUME NEW x \in Callers, ShutdownThrow(x) PROVE SeenInv'
  BY <1>8 DEF ShutdownThrow
<1>9. ASSUME NEW x \in Callers, ShutdownTerminate(x) PROVE SeenInv'
  BY <1>9 DEF ShutdownTerminate
<1>10. ASSUME NEW x \in Callers, ShutdownPoolPoll(x) PROVE SeenInv'
  BY <1>10 DEF ShutdownPoolPoll
<1>11. ASSUME NEW x \in Callers, ShutdownPoolClose(x) PROVE SeenInv'
  BY <1>11 DEF ShutdownPoolClose
<1>12. ASSUME NEW x \in Callers, ShutdownReturn(x) PROVE SeenInv'
  BY <1>12 DEF ShutdownReturn
<1>13. CASE DemonLoop
  BY <1>13 DEF DemonLoop
<1>14. CASE DemonWait
  BY <1>14 DEF DemonWait
<1>15. CASE DemonSweepStart
  BY <1>15 DEF DemonSweepStart
<1>16. CASE DemonSweep
  BY <1>16 DEF DemonSweep
<1>17. CASE DemonClear
  BY <1>17 DEF DemonClear
<1>18. CASE Spurious
  BY <1>18 DEF Spurious
<1>19. ASSUME NEW s \in Slots, SlotBegin(s) PROVE SeenInv'
  <2>1. /\ slot[s] = NoTask /\ queue # <<>> /\ queue \in Seq(Tasks)
        /\ slot' = [slot EXCEPT ![s] = Head(queue)]
        /\ queue' = Tail(queue) /\ seen' = seen /\ done' = done
    BY <1>19 DEF SlotBegin, TypeOK
  <2>2. Queued = {Head(queue)} \cup Queued'
    <3>1. Queued' = {Tail(queue)[i] : i \in DOMAIN Tail(queue)}
      BY <2>1 DEF Queued
    <3>2. {queue[i] : i \in DOMAIN queue} =
              {Head(queue)} \cup {Tail(queue)[i] : i \in DOMAIN Tail(queue)}
      BY <2>1, HeadTailElements
    <3> QED
      BY <3>1, <3>2 DEF Queued
  <2>3. Running' = Running \cup {Head(queue)}
    <3>1. Head(queue) # NoTask
      BY <2>1, HeadTailProperties, TimerAssumption DEF Tasks
    <3> QED
      BY <2>1, <3>1 DEF TypeOK
  <2> HIDE DEF Queued, Running
  <2> QED
    BY <2>1, <2>2, <2>3
<1>20. ASSUME NEW s \in Slots, SlotWake(s) PROVE SeenInv'
  BY <1>20 DEF SlotWake
<1>21. ASSUME NEW s \in Slots, SlotFinish(s) PROVE SeenInv'
  BY <1>21 DEF SlotFinish
<1> QED
  BY <1>1, <1>2, <1>3, <1>4, <1>5, <1>6, <1>7, <1>8, <1>9, <1>10, <1>11,
     <1>12, <1>13, <1>14, <1>15, <1>16, <1>17, <1>18, <1>19, <1>20, <1>21, NextActions

\* Nobody adds to the set during a sweep, and no Shutdown takes effect: both need the mutex.
LEMMA SweepStep ==
    ASSUME TypeOK, SweepInv, Next
    PROVE  SweepInv'
<1> USE TimerAssumption DEF SweepInv, demonVars, poolVars, historyVars, WakeDemon, Insert,
           AddCall, Pool!Submit, Pool!Begin, Pool!Finish, Pool!Close
<1>1. CASE Tick
  BY <1>1 DEF Tick
<1>2. CASE Start
  BY <1>2 DEF Start
<1>3. ASSUME NEW x \in Threads, NEW timepoints \in Seq(Times) \ {<<>>}, AddCall(x, timepoints)
      PROVE  SweepInv'
  BY <1>3 DEF AddCall
<1>4. ASSUME NEW x \in Threads, AddInsert(x) PROVE SweepInv'
  BY <1>4 DEF AddInsert, TypeOK
<1>5. ASSUME NEW x \in Threads, AddNotify(x) PROVE SweepInv'
  BY <1>5 DEF AddNotify
<1>6. ASSUME NEW x \in Callers, ShutdownCall(x) PROVE SweepInv'
  BY <1>6 DEF ShutdownCall
<1>7. ASSUME NEW x \in Callers, ShutdownWait(x) PROVE SweepInv'
  BY <1>7 DEF ShutdownWait
<1>8. ASSUME NEW x \in Callers, ShutdownThrow(x) PROVE SweepInv'
  BY <1>8 DEF ShutdownThrow
<1>9. ASSUME NEW x \in Callers, ShutdownTerminate(x) PROVE SweepInv'
  BY <1>9 DEF ShutdownTerminate, TypeOK
<1>10. ASSUME NEW x \in Callers, ShutdownPoolPoll(x) PROVE SweepInv'
  BY <1>10 DEF ShutdownPoolPoll
<1>11. ASSUME NEW x \in Callers, ShutdownPoolClose(x) PROVE SweepInv'
  BY <1>11 DEF ShutdownPoolClose
<1>12. ASSUME NEW x \in Callers, ShutdownReturn(x) PROVE SweepInv'
  BY <1>12 DEF ShutdownReturn
<1>13. CASE DemonLoop
  BY <1>13 DEF DemonLoop
<1>14. CASE DemonWait
  BY <1>14 DEF DemonWait
<1>15. CASE DemonSweepStart
  BY <1>15 DEF DemonSweepStart
<1>16. CASE DemonSweep
  BY <1>16 DEF DemonSweep
<1>17. CASE DemonClear
  BY <1>17 DEF DemonClear
<1>18. CASE Spurious
  BY <1>18 DEF Spurious
<1>19. ASSUME NEW s \in Slots, SlotBegin(s) PROVE SweepInv'
  BY <1>19 DEF SlotBegin
<1>20. ASSUME NEW s \in Slots, SlotWake(s) PROVE SweepInv'
  BY <1>20 DEF SlotWake
<1>21. ASSUME NEW s \in Slots, SlotFinish(s) PROVE SweepInv'
  BY <1>21 DEF SlotFinish
<1> QED
  BY <1>1, <1>2, <1>3, <1>4, <1>5, <1>6, <1>7, <1>8, <1>9, <1>10, <1>11,
     <1>12, <1>13, <1>14, <1>15, <1>16, <1>17, <1>18, <1>19, <1>20, <1>21, NextActions

\* A task enters with insert, or ties; clear() drops only what the sweep has passed.
LEMMA AccountedStep ==
    ASSUME TypeOK, CountInv, SweepInv, Accounted, Next
    PROVE  Accounted'
<1> USE DEF Accounted, demonVars, poolVars, historyVars, Insert, Pool!Submit, Pool!Begin,
           Pool!Finish, Pool!Close
<1>1. CASE Tick
  BY <1>1 DEF Tick
<1>2. CASE Start
  BY <1>2 DEF Start
<1>3. ASSUME NEW x \in Threads, NEW timepoints \in Seq(Times) \ {<<>>}, AddCall(x, timepoints)
      PROVE  Accounted'
  BY <1>3 DEF AddCall, historyVars
<1>4. ASSUME NEW x \in Threads, AddInsert(x) PROVE Accounted'
  BY <1>4 DEF AddInsert
<1>5. ASSUME NEW x \in Threads, AddNotify(x) PROVE Accounted'
  BY <1>5 DEF AddNotify
<1>6. ASSUME NEW x \in Callers, ShutdownCall(x) PROVE Accounted'
  BY <1>6 DEF ShutdownCall
<1>7. ASSUME NEW x \in Callers, ShutdownWait(x) PROVE Accounted'
  BY <1>7 DEF ShutdownWait
<1>8. ASSUME NEW x \in Callers, ShutdownThrow(x) PROVE Accounted'
  BY <1>8 DEF ShutdownThrow
<1>9. ASSUME NEW x \in Callers, ShutdownTerminate(x) PROVE Accounted'
  BY <1>9 DEF ShutdownTerminate
<1>10. ASSUME NEW x \in Callers, ShutdownPoolPoll(x) PROVE Accounted'
  BY <1>10 DEF ShutdownPoolPoll
<1>11. ASSUME NEW x \in Callers, ShutdownPoolClose(x) PROVE Accounted'
  BY <1>11 DEF ShutdownPoolClose
<1>12. ASSUME NEW x \in Callers, ShutdownReturn(x) PROVE Accounted'
  BY <1>12 DEF ShutdownReturn
<1>13. CASE DemonLoop
  BY <1>13 DEF DemonLoop
<1>14. CASE DemonWait
  BY <1>14 DEF DemonWait
<1>15. CASE DemonSweepStart
  BY <1>15 DEF DemonSweepStart
<1>16. CASE DemonSweep
  <2>1. PICK e \in left : \/ Pool!Submit(e) /\ UNCHANGED late
                          \/ late' = late \cup {e} /\ UNCHANGED poolVars
    BY <1>16 DEF DemonSweep
  <2>2. e \in m_tasks
    BY DEF TypeOK
  <2>3. seen' \cup late' = seen \cup late \cup {e}
    BY <2>1
  <2>4. due' = due /\ m_tasks' = m_tasks /\ tied' = tied
    BY <1>16 DEF DemonSweep
  <2> QED
    BY <2>2, <2>3, <2>4
<1>17. CASE DemonClear
  BY <1>17 DEF DemonClear, SweepInv, TypeOK
<1>18. CASE Spurious
  BY <1>18 DEF Spurious
<1>19. ASSUME NEW s \in Slots, SlotBegin(s) PROVE Accounted'
  BY <1>19 DEF SlotBegin
<1>20. ASSUME NEW s \in Slots, SlotWake(s) PROVE Accounted'
  BY <1>20 DEF SlotWake
<1>21. ASSUME NEW s \in Slots, SlotFinish(s) PROVE Accounted'
  BY <1>21 DEF SlotFinish
<1> QED
  BY <1>1, <1>2, <1>3, <1>4, <1>5, <1>6, <1>7, <1>8, <1>9, <1>10, <1>11,
     <1>12, <1>13, <1>14, <1>15, <1>16, <1>17, <1>18, <1>19, <1>20, <1>21, NextActions

\* What leaves the pool, the set and the two kinds left out alone.
LEMMA FateFrame ==
    ASSUME OneFate, UNCHANGED <<m_tasks, left, queue, slot, seen, done, tied, late>>,
           dpc' = "sweep" <=> dpc = "sweep"
    PROVE  OneFate'
BY DEF OneFate, Pending, Queued, Running

\* A new task has a new number; the sweep takes a task out of left when it hands it over or
\* passes it; the pool moves a task from the queue to a free slot and from there to done.
LEMMA FateStep ==
    ASSUME TypeOK, SeenInv, Accounted, OneFate, Next
    PROVE  OneFate'
<1> USE TimerAssumption DEF demonVars, callVars, poolVars, historyVars, WakeDemon
<1>1. CASE Tick
  BY <1>1, FateFrame DEF Tick
<1>2. CASE Start
  BY <1>2, FateFrame DEF Start
<1>3. ASSUME NEW x \in Threads, NEW timepoints \in Seq(Times) \ {<<>>}, AddCall(x, timepoints)
      PROVE  OneFate'
  BY <1>3, FateFrame DEF AddCall
<1>4. ASSUME NEW x \in Threads, AddInsert(x) PROVE OneFate'
  <2> DEFINE task == Len(due) + 1
  <2>1. dpc # "sweep" /\ dpc' = dpc
    BY <1>4 DEF AddInsert, Insert, TypeOK
  <2>2. task \notin m_tasks \cup seen \cup tied \cup late
    <3>1. Len(due) \in Nat
      BY DEF TypeOK
    <3>2. task \notin 1..Len(due)
      BY <3>1
    <3> QED
      BY <3>2 DEF Accounted
  <2>3. \/ m_tasks' = m_tasks /\ tied' = tied \cup {task}
        \/ m_tasks' = m_tasks \cup {task} /\ tied' = tied
    BY <1>4 DEF AddInsert, Insert
  <2>4. UNCHANGED <<queue, slot, seen, done, late>>
    BY <1>4 DEF AddInsert, Insert
  <2> HIDE DEF task
  <2>5. Queued' = Queued /\ Running' = Running
    BY <2>4 DEF Queued, Running
  <2>6. Pending = m_tasks /\ Pending' = m_tasks'
    BY <2>1 DEF Pending
  <2> QED
    BY <2>2, <2>3, <2>4, <2>5, <2>6 DEF OneFate
<1>5. ASSUME NEW x \in Threads, AddNotify(x) PROVE OneFate'
  BY <1>5, FateFrame DEF AddNotify
<1>6. ASSUME NEW x \in Callers, ShutdownCall(x) PROVE OneFate'
  BY <1>6, FateFrame DEF ShutdownCall
<1>7. ASSUME NEW x \in Callers, ShutdownWait(x) PROVE OneFate'
  BY <1>7, FateFrame DEF ShutdownWait
<1>8. ASSUME NEW x \in Callers, ShutdownThrow(x) PROVE OneFate'
  BY <1>8, FateFrame DEF ShutdownThrow
<1>9. ASSUME NEW x \in Callers, ShutdownTerminate(x) PROVE OneFate'
  BY <1>9, FateFrame DEF ShutdownTerminate
<1>10. ASSUME NEW x \in Callers, ShutdownPoolPoll(x) PROVE OneFate'
  BY <1>10, FateFrame DEF ShutdownPoolPoll
<1>11. ASSUME NEW x \in Callers, ShutdownPoolClose(x) PROVE OneFate'
  BY <1>11, FateFrame DEF ShutdownPoolClose, Pool!Close
<1>12. ASSUME NEW x \in Callers, ShutdownReturn(x) PROVE OneFate'
  BY <1>12, FateFrame DEF ShutdownReturn
<1>13. CASE DemonLoop
  BY <1>13, FateFrame DEF DemonLoop
<1>14. CASE DemonWait
  BY <1>14, FateFrame DEF DemonWait
<1>15. CASE DemonSweepStart
  BY <1>15 DEF DemonSweepStart, OneFate, Pending, Queued, Running
<1>16. CASE DemonSweep
  <2>1. PICK e \in left : /\ left' = left \ {e}
                          /\ \/ Pool!Submit(e) /\ UNCHANGED late
                             \/ late' = late \cup {e} /\ UNCHANGED poolVars
    BY <1>16 DEF DemonSweep
  <2>2. /\ dpc = "sweep" /\ dpc' = "sweep" /\ tied' = tied /\ m_tasks' = m_tasks
        /\ slot' = slot /\ done' = done /\ queue \in Seq(Tasks)
    BY <1>16, <2>1 DEF DemonSweep, Pool!Submit, TypeOK
  <2>3. Pending = left /\ Pending' = left \ {e}
    BY <2>1, <2>2 DEF Pending
  <2>4. Running' = Running
    BY <2>2 DEF Running
  <2>5. CASE Pool!Submit(e) /\ UNCHANGED late
    <3>1. queue' = Append(queue, e) /\ seen' = seen \cup {e}
      BY <2>5 DEF Pool!Submit
    <3>2. /\ DOMAIN queue = 1..Len(queue) /\ Len(queue) \in Nat
          /\ DOMAIN queue' = 1..(Len(queue) + 1)
          /\ \A i \in DOMAIN queue : queue'[i] = queue[i]
          /\ queue'[Len(queue) + 1] = e
      <4>1. e \in Tasks
        <5>1. e \in 1..Len(due) /\ Len(due) \in Nat /\ Len(due) <= MaxTasks
          BY DEF TypeOK
        <5> QED
          BY <5>1 DEF Tasks
      <4> QED
        BY <2>2, <3>1, <4>1
    <3>3. \A i \in DOMAIN queue' : i \in DOMAIN queue \/ i = Len(queue) + 1
      BY <3>2
    <3>4. Queued' = Queued \cup {e}
      <4>1. Len(queue) + 1 \in DOMAIN queue' /\ DOMAIN queue \subseteq DOMAIN queue'
        BY <3>2
      <4> QED
        BY <3>2, <3>3, <4>1 DEF Queued
    <3>5. e \notin seen \cup tied \cup late
      BY <2>3 DEF OneFate
    <3>6. \A i, j \in DOMAIN queue' : queue'[i] = queue'[j] => i = j
      <4>1. \A i \in DOMAIN queue : queue[i] # e
        BY <3>5 DEF SeenInv, Queued
      <4> QED
        BY <3>2, <3>3, <4>1 DEF OneFate
    <3>7. e \notin done \cup Running
      BY <3>5 DEF SeenInv
    <3> QED
      BY <2>2, <2>3, <2>4, <2>5, <3>1, <3>4, <3>5, <3>6, <3>7 DEF OneFate
  <2>6. CASE late' = late \cup {e} /\ UNCHANGED poolVars
    <3>1. Queued' = Queued /\ e \notin seen \cup tied \cup late
      BY <2>3, <2>6 DEF OneFate, Queued
    <3> QED
      BY <2>2, <2>3, <2>4, <2>6, <3>1 DEF OneFate
  <2> QED
    BY <2>1, <2>5, <2>6
<1>17. CASE DemonClear
  BY <1>17 DEF DemonClear, OneFate, Pending, Queued, Running
<1>18. CASE Spurious
  BY <1>18, FateFrame DEF Spurious
<1>19. ASSUME NEW s \in Slots, SlotBegin(s) PROVE OneFate'
  <2>1. /\ slot[s] = NoTask /\ queue # <<>> /\ queue \in Seq(Tasks)
        /\ slot' = [slot EXCEPT ![s] = Head(queue)]
        /\ queue' = Tail(queue) /\ UNCHANGED <<dpc, m_tasks, left, seen, done, tied, late>>
        /\ slot \in [Slots -> Tasks \cup {NoTask}]
    BY <1>19 DEF SlotBegin, Pool!Begin, TypeOK
  <2>2. /\ Len(queue) \in Nat \ {0} /\ DOMAIN queue = 1..Len(queue)
        /\ DOMAIN queue' = 1..(Len(queue) - 1)
        /\ Head(queue) = queue[1]
        /\ \A i \in DOMAIN queue' : queue'[i] = queue[i + 1]
    BY <2>1
  <2>3. \A i \in DOMAIN queue' : i + 1 \in DOMAIN queue /\ i + 1 # 1
    BY <2>2
  <2>4. 1 \in DOMAIN queue
    BY <2>2
  <2>5. Queued' \subseteq Queued /\ Head(queue) \in Queued /\ Head(queue) \notin Queued'
    BY <2>2, <2>3, <2>4 DEF OneFate, Queued
  <2>6. \A i, j \in DOMAIN queue' : queue'[i] = queue'[j] => i = j
    <3>1. \A i, j \in DOMAIN queue' : i + 1 = j + 1 => i = j
      BY <2>2
    <3> QED
      BY <2>2, <2>3, <3>1 DEF OneFate
  <2>7. Running' = Running \cup {Head(queue)}
    <3>1. Head(queue) # NoTask
      BY <2>1, HeadTailProperties DEF Tasks
    <3> QED
      BY <2>1, <3>1 DEF Running
  <2>8. \A r, t \in Slots : slot'[r] = slot'[t] /\ r # t => slot'[r] = NoTask
    <3>1. \A r \in Slots : slot[r] # Head(queue)
      <4>1. Head(queue) \notin Running /\ Head(queue) # NoTask
        BY <2>1, <2>5, HeadTailProperties DEF OneFate, Tasks
      <4> QED
        BY <4>1 DEF Running
    <3> QED
      BY <2>1, <3>1 DEF OneFate
  <2>9. Pending' = Pending
    BY <2>1 DEF Pending
  <2> QED
    BY <2>1, <2>5, <2>6, <2>7, <2>8, <2>9 DEF OneFate
<1>20. ASSUME NEW s \in Slots, SlotWake(s) PROVE OneFate'
  BY <1>20, FateFrame DEF SlotWake
<1>21. ASSUME NEW s \in Slots, SlotFinish(s) PROVE OneFate'
  <2>1. /\ slot[s] # NoTask /\ slot \in [Slots -> Tasks \cup {NoTask}]
        /\ slot' = [slot EXCEPT ![s] = NoTask] /\ done' = done \cup {slot[s]}
        /\ UNCHANGED <<dpc, m_tasks, left, queue, seen, tied, late>>
    BY <1>21 DEF SlotFinish, Pool!Finish, TypeOK
  <2>2. slot[s] \in Running /\ Running' = Running \ {slot[s]}
    BY <2>1 DEF OneFate, Running
  <2>3. \A r, t \in Slots : slot'[r] = slot'[t] /\ r # t => slot'[r] = NoTask
    BY <2>1 DEF OneFate
  <2>4. Pending' = Pending /\ Queued' = Queued
    BY <2>1 DEF Pending, Queued
  <2> QED
    BY <2>1, <2>2, <2>3, <2>4 DEF OneFate
<1> QED
  BY <1>1, <1>2, <1>3, <1>4, <1>5, <1>6, <1>7, <1>8, <1>9, <1>10, <1>11,
     <1>12, <1>13, <1>14, <1>15, <1>16, <1>17, <1>18, <1>19, <1>20, <1>21, NextActions

\* Only a sweep submits, and after Shutdown has set m_isTerminate there is none.
LEMMA StopStep ==
    ASSUME TypeOK, SweepInv, Accounted, StopInv, Next
    PROVE  StopInv'
<1> USE TimerAssumption DEF TypeOK, SweepInv, Accounted, StopInv, InPool, demonVars, callVars,
           poolVars, historyVars, At, CanCall, WakeDemon, WakeCallers, Threads, Insert,
           AddCall, Pool!Submit, Pool!Begin, Pool!Finish, Pool!Close
<1>1. CASE Tick
  BY <1>1 DEF Tick
<1>2. CASE Start
  BY <1>2 DEF Start
<1>3. ASSUME NEW x \in Threads, NEW timepoints \in Seq(Times) \ {<<>>}, AddCall(x, timepoints)
      PROVE  StopInv'
  BY <1>3 DEF AddCall
<1>4. ASSUME NEW x \in Threads, AddInsert(x) PROVE StopInv'
  BY <1>4 DEF AddInsert
<1>5. ASSUME NEW x \in Threads, AddNotify(x) PROVE StopInv'
  BY <1>5 DEF AddNotify
<1>6. ASSUME NEW x \in Callers, ShutdownCall(x) PROVE StopInv'
  BY <1>6 DEF ShutdownCall
<1>7. ASSUME NEW x \in Callers, ShutdownWait(x) PROVE StopInv'
  BY <1>7 DEF ShutdownWait
<1>8. ASSUME NEW x \in Callers, ShutdownThrow(x) PROVE StopInv'
  BY <1>8 DEF ShutdownThrow
<1>9. ASSUME NEW x \in Callers, ShutdownTerminate(x) PROVE StopInv'
  BY <1>9 DEF ShutdownTerminate
<1>10. ASSUME NEW x \in Callers, ShutdownPoolPoll(x) PROVE StopInv'
  BY <1>10 DEF ShutdownPoolPoll
<1>11. ASSUME NEW x \in Callers, ShutdownPoolClose(x) PROVE StopInv'
  BY <1>11 DEF ShutdownPoolClose
<1>12. ASSUME NEW x \in Callers, ShutdownReturn(x) PROVE StopInv'
  BY <1>12 DEF ShutdownReturn
<1>13. CASE DemonLoop
  BY <1>13 DEF DemonLoop
<1>14. CASE DemonWait
  BY <1>14 DEF DemonWait
<1>15. CASE DemonSweepStart
  BY <1>15 DEF DemonSweepStart
<1>16. CASE DemonSweep
  BY <1>16 DEF DemonSweep
<1>17. CASE DemonClear
  BY <1>17 DEF DemonClear
<1>18. CASE Spurious
  BY <1>18 DEF Spurious
<1>19. ASSUME NEW s \in Slots, SlotBegin(s) PROVE StopInv'
  BY <1>19 DEF SlotBegin
<1>20. ASSUME NEW s \in Slots, SlotWake(s) PROVE StopInv'
  BY <1>20 DEF SlotWake
<1>21. ASSUME NEW s \in Slots, SlotFinish(s) PROVE StopInv'
  BY <1>21 DEF SlotFinish
<1> QED
  BY <1>1, <1>2, <1>3, <1>4, <1>5, <1>6, <1>7, <1>8, <1>9, <1>10, <1>11,
     <1>12, <1>13, <1>14, <1>15, <1>16, <1>17, <1>18, <1>19, <1>20, <1>21, NextActions

\* The pool's queue was seen empty and its slots idle, so all it ever accepted is done, and with
\* m_tasks empty that is all that was added, but for what tied or was late.
LEMMA DrainStep ==
    ASSUME TypeOK, SeenInv, SweepInv, Accounted, StopInv, ShutdownDrains, Next
    PROVE  ShutdownDrains'
<1> USE TimerAssumption DEF TypeOK, SeenInv, SweepInv, Queued, Running, Accounted, StopInv,
           ShutdownDrains, SlotsIdle, InPool, demonVars, callVars, poolVars, historyVars, At,
           CanCall, WakeDemon, WakeCallers, Threads, Insert, AddCall, Pool!Submit, Pool!Begin,
           Pool!Finish, Pool!Close
<1>1. CASE Tick
  BY <1>1 DEF Tick
<1>2. CASE Start
  BY <1>2 DEF Start
<1>3. ASSUME NEW x \in Threads, NEW timepoints \in Seq(Times) \ {<<>>}, AddCall(x, timepoints)
      PROVE  ShutdownDrains'
  BY <1>3 DEF AddCall
<1>4. ASSUME NEW x \in Threads, AddInsert(x) PROVE ShutdownDrains'
  BY <1>4 DEF AddInsert
<1>5. ASSUME NEW x \in Threads, AddNotify(x) PROVE ShutdownDrains'
  BY <1>5 DEF AddNotify
<1>6. ASSUME NEW x \in Callers, ShutdownCall(x) PROVE ShutdownDrains'
  BY <1>6 DEF ShutdownCall
<1>7. ASSUME NEW x \in Callers, ShutdownWait(x) PROVE ShutdownDrains'
  BY <1>7 DEF ShutdownWait
<1>8. ASSUME NEW x \in Callers, ShutdownThrow(x) PROVE ShutdownDrains'
  BY <1>8 DEF ShutdownThrow
<1>9. ASSUME NEW x \in Callers, ShutdownTerminate(x) PROVE ShutdownDrains'
  BY <1>9 DEF ShutdownTerminate
<1>10. ASSUME NEW x \in Callers, ShutdownPoolPoll(x) PROVE ShutdownDrains'
  BY <1>10 DEF ShutdownPoolPoll
<1>11. ASSUME NEW x \in Callers, ShutdownPoolClose(x) PROVE ShutdownDrains'
  BY <1>11 DEF ShutdownPoolClose
<1>12. ASSUME NEW x \in Callers, ShutdownReturn(x) PROVE ShutdownDrains'
  <2>1. m_isTerminate /\ queue = <<>> /\ SlotsIdle
    BY <1>12 DEF ShutdownReturn
  <2>2. covered \subseteq done \cup tied \cup late
    BY <2>1
  <2> QED
    BY <1>12, <2>1, <2>2 DEF ShutdownReturn
<1>13. CASE DemonLoop
  BY <1>13 DEF DemonLoop
<1>14. CASE DemonWait
  BY <1>14 DEF DemonWait
<1>15. CASE DemonSweepStart
  BY <1>15 DEF DemonSweepStart
<1>16. CASE DemonSweep
  BY <1>16 DEF DemonSweep
<1>17. CASE DemonClear
  BY <1>17 DEF DemonClear
<1>18. CASE Spurious
  BY <1>18 DEF Spurious
<1>19. ASSUME NEW s \in Slots, SlotBegin(s) PROVE ShutdownDrains'
  BY <1>19 DEF SlotBegin
<1>20. ASSUME NEW s \in Slots, SlotWake(s) PROVE ShutdownDrains'
  BY <1>20 DEF SlotWake
<1>21. ASSUME NEW s \in Slots, SlotFinish(s) PROVE ShutdownDrains'
  BY <1>21 DEF SlotFinish
<1> QED
  BY <1>1, <1>2, <1>3, <1>4, <1>5, <1>6, <1>7, <1>8, <1>9, <1>10, <1>11,
     <1>12, <1>13, <1>14, <1>15, <1>16, <1>17, <1>18, <1>19, <1>20, <1>21, NextActions

\* Whoever makes a wait's condition true is at its notification, or gave it in the same critical
\* section.
LEMMA WaitersStep ==
    ASSUME TypeOK, WaitersCovered, Next
    PROVE  WaitersCovered'
<1> USE TimerAssumption DEF TypeOK, WaitersCovered, demonVars, callVars, At, CanCall,
           WakeDemon, WakeCallers, Threads, Insert, AddCall
<1>1. CASE Tick
  BY <1>1 DEF Tick
<1>2. CASE Start
  BY <1>2 DEF Start
<1>3. ASSUME NEW x \in Threads, NEW timepoints \in Seq(Times) \ {<<>>}, AddCall(x, timepoints)
      PROVE  WaitersCovered'
  BY <1>3 DEF AddCall
<1>4. ASSUME NEW x \in Threads, AddInsert(x) PROVE WaitersCovered'
  BY <1>4 DEF AddInsert
<1>5. ASSUME NEW x \in Threads, AddNotify(x) PROVE WaitersCovered'
  BY <1>5 DEF AddNotify
<1>6. ASSUME NEW x \in Callers, ShutdownCall(x) PROVE WaitersCovered'
  BY <1>6 DEF ShutdownCall
<1>7. ASSUME NEW x \in Callers, ShutdownWait(x) PROVE WaitersCovered'
  BY <1>7 DEF ShutdownWait
<1>8. ASSUME NEW x \in Callers, ShutdownThrow(x) PROVE WaitersCovered'
  BY <1>8 DEF ShutdownThrow
<1>9. ASSUME NEW x \in Callers, ShutdownTerminate(x) PROVE WaitersCovered'
  BY <1>9 DEF ShutdownTerminate
<1>10. ASSUME NEW x \in Callers, ShutdownPoolPoll(x) PROVE WaitersCovered'
  BY <1>10 DEF ShutdownPoolPoll
<1>11. ASSUME NEW x \in Callers, ShutdownPoolClose(x) PROVE WaitersCovered'
  BY <1>11 DEF ShutdownPoolClose
<1>12. ASSUME NEW x \in Callers, ShutdownReturn(x) PROVE WaitersCovered'
  BY <1>12 DEF ShutdownReturn
<1>13. CASE DemonLoop
  BY <1>13 DEF DemonLoop
<1>14. CASE DemonWait
  BY <1>14 DEF DemonWait
<1>15. CASE DemonSweepStart
  BY <1>15 DEF DemonSweepStart
<1>16. CASE DemonSweep
  BY <1>16 DEF DemonSweep
<1>17. CASE DemonClear
  BY <1>17 DEF DemonClear
<1>18. CASE Spurious
  BY <1>18 DEF Spurious
<1>19. ASSUME NEW s \in Slots, SlotBegin(s) PROVE WaitersCovered'
  BY <1>19 DEF SlotBegin
<1>20. ASSUME NEW s \in Slots, SlotWake(s) PROVE WaitersCovered'
  BY <1>20 DEF SlotWake
<1>21. ASSUME NEW s \in Slots, SlotFinish(s) PROVE WaitersCovered'
  BY <1>21 DEF SlotFinish
<1> QED
  BY <1>1, <1>2, <1>3, <1>4, <1>5, <1>6, <1>7, <1>8, <1>9, <1>10, <1>11,
     <1>12, <1>13, <1>14, <1>15, <1>16, <1>17, <1>18, <1>19, <1>20, <1>21, NextActions

\* A sweep, which alone submits, is over when Shutdown takes effect; what a slot begins is a task.
LEMMA StillStep ==
    ASSUME TypeOK, SweepInv, StopInv, StillInv, Next
    PROVE  StillInv'
<1> USE TimerAssumption DEF TypeOK, SweepInv, StopInv, StillInv, InPool, demonVars, callVars,
           poolVars, historyVars, At, CanCall, WakeDemon, WakeCallers, Threads, Insert,
           AddCall, Pool!Submit, Pool!Begin, Pool!Finish, Pool!Close
<1>1. CASE Tick
  BY <1>1 DEF Tick
<1>2. CASE Start
  BY <1>2 DEF Start
<1>3. ASSUME NEW x \in Threads, NEW timepoints \in Seq(Times) \ {<<>>}, AddCall(x, timepoints)
      PROVE  StillInv'
  BY <1>3
<1>4. ASSUME NEW x \in Threads, AddInsert(x) PROVE StillInv'
  BY <1>4 DEF AddInsert
<1>5. ASSUME NEW x \in Threads, AddNotify(x) PROVE StillInv'
  BY <1>5 DEF AddNotify
<1>6. ASSUME NEW x \in Callers, ShutdownCall(x) PROVE StillInv'
  BY <1>6 DEF ShutdownCall
<1>7. ASSUME NEW x \in Callers, ShutdownWait(x) PROVE StillInv'
  BY <1>7 DEF ShutdownWait
<1>8. ASSUME NEW x \in Callers, ShutdownThrow(x) PROVE StillInv'
  BY <1>8 DEF ShutdownThrow
<1>9. ASSUME NEW x \in Callers, ShutdownTerminate(x) PROVE StillInv'
  BY <1>9 DEF ShutdownTerminate
<1>10. ASSUME NEW x \in Callers, ShutdownPoolPoll(x) PROVE StillInv'
  BY <1>10 DEF ShutdownPoolPoll
<1>11. ASSUME NEW x \in Callers, ShutdownPoolClose(x) PROVE StillInv'
  BY <1>11 DEF ShutdownPoolClose
<1>12. ASSUME NEW x \in Callers, ShutdownReturn(x) PROVE StillInv'
  BY <1>12 DEF ShutdownReturn
<1>13. CASE DemonLoop
  BY <1>13 DEF DemonLoop
<1>14. CASE DemonWait
  BY <1>14 DEF DemonWait
<1>15. CASE DemonSweepStart
  BY <1>15 DEF DemonSweepStart
<1>16. CASE DemonSweep
  BY <1>16 DEF DemonSweep
<1>17. CASE DemonClear
  BY <1>17 DEF DemonClear
<1>18. CASE Spurious
  BY <1>18 DEF Spurious
<1>19. ASSUME NEW s \in Slots, SlotBegin(s) PROVE StillInv'
  <2>1. Head(queue) \in Tasks
    BY <1>19, HeadTailProperties DEF SlotBegin
  <2>2. Head(queue) # NoTask
    BY <2>1 DEF Tasks
  <2>3. ~closed /\ ~closed'
    BY <1>19 DEF SlotBegin
  <2>4. slot' = [slot EXCEPT ![s] = Head(queue)] /\ spc' = [spc EXCEPT ![s] = "sleep"]
    BY <1>19 DEF SlotBegin
  <2>5. UNCHANGED <<pc, dpc, m_isTerminate>> /\ spc[s] = "idle"
    BY <1>19 DEF SlotBegin
  <2> QED
    BY <2>2, <2>3, <2>4, <2>5
<1>20. ASSUME NEW s \in Slots, SlotWake(s) PROVE StillInv'
  BY <1>20 DEF SlotWake
<1>21. ASSUME NEW s \in Slots, SlotFinish(s) PROVE StillInv'
  BY <1>21 DEF SlotFinish
<1> QED
  BY <1>1, <1>2, <1>3, <1>4, <1>5, <1>6, <1>7, <1>8, <1>9, <1>10, <1>11,
     <1>12, <1>13, <1>14, <1>15, <1>16, <1>17, <1>18, <1>19, <1>20, <1>21, NextActions
-----------------------------------------------------------------------------
(***************************************************************************)
(* The theorems.                                                           *)
(***************************************************************************)
LEMMA IInvInit == Init => IInv
<1> SUFFICES ASSUME Init
             PROVE  IInv
  OBVIOUS
<1>1. TypeOK
  <2>1. now \in Times /\ issued \in 0..MaxTasks /\ sampled \in Times
    BY TimerAssumption DEF Init, Times
  <2>2. due = <<>> /\ Len(due) = 0 /\ due \in Seq(Times)
    BY DEF Init
  <2>3. m_tasks = {} /\ left = {} /\ m_isTerminate \in BOOLEAN /\ dpc \in DemonPC
    BY DEF Init, DemonPC
  <2>4. pc \in [Threads -> CallPC] /\ plan \in [Threads -> Seq(Times)]
    BY DEF Init, CallPC
  <2>5. spc \in [Slots -> {"idle", "sleep", "func"}]
    BY DEF Init
  <2>6. queue = <<>> /\ queue \in Seq(Tasks) /\ slot \in [Slots -> Tasks \cup {NoTask}]
    BY DEF Init, Pool!ExecInit
  <2>7. seen = {} /\ done = {} /\ closed \in BOOLEAN /\ tied = {} /\ late = {} /\ covered = {}
    BY DEF Init, Pool!ExecInit
  <2>8. m_taskMtx = NoThread /\ dpc = "none" /\ \A x \in Threads : ~InPool(x)
    BY DEF Init, InPool
  <2>9. NoThread # Demon /\ NoThread \notin Threads
    BY TimerAssumption DEF Threads
  <2> QED
    BY <2>1, <2>2, <2>3, <2>4, <2>5, <2>6, <2>7, <2>8, <2>9 DEF TypeOK
<1>2. CountInv
  <2>1. \A x \in Threads : Len(plan[x]) = 0 /\ pc[x] = "idle" /\ plan[x] = <<>>
    BY DEF Init
  <2>2. ToAdd = {}
    BY <2>1 DEF ToAdd
  <2>3. IsFiniteSet(ToAdd) /\ Cardinality(ToAdd) = 0
    BY <2>2, FS_EmptySet
  <2>4. Len(due) = 0 /\ issued = 0
    BY DEF Init
  <2> QED
    BY <2>1, <2>3, <2>4 DEF CountInv
<1>3. SeenInv
  BY DEF Init, Pool!ExecInit, SeenInv, Queued, Running
<1>4. SweepInv /\ StopInv /\ ShutdownDrains
  BY DEF Init, SweepInv, StopInv, ShutdownDrains, InPool, Threads
<1>5. Accounted
  BY DEF Init, Pool!ExecInit, Accounted
<1>7. OneFate
  BY DEF Init, Pool!ExecInit, OneFate, Pending, Queued, Running
<1>8. StillInv
  BY DEF Init, Pool!ExecInit, StillInv, Threads
<1>6. WaitersCovered
  BY DEF Init, WaitersCovered, Threads
<1> QED
  BY <1>1, <1>2, <1>3, <1>4, <1>5, <1>6, <1>7, <1>8 DEF IInv

LEMMA IInvStep == IInv /\ [Next]_vars => IInv'
<1> SUFFICES ASSUME IInv, [Next]_vars
             PROVE  IInv'
  OBVIOUS
<1>1. CASE Next
  <2>1. TypeOK' /\ CountInv' /\ SeenInv'
    BY <1>1, TypeStep, CountStep, SeenStep DEF IInv
  <2>2. SweepInv' /\ Accounted' /\ StopInv'
    BY <1>1, SweepStep, AccountedStep, StopStep DEF IInv
  <2>3. ShutdownDrains' /\ WaitersCovered'
    BY <1>1, DrainStep, WaitersStep DEF IInv
  <2>4. OneFate' /\ StillInv'
    BY <1>1, FateStep, StillStep DEF IInv
  <2> QED
    BY <2>1, <2>2, <2>3, <2>4 DEF IInv
<1>2. CASE UNCHANGED vars
  <2> USE <1>2 DEF vars, demonVars, callVars, poolVars, historyVars
  <2>1. TypeOK'
    BY DEF IInv, TypeOK, InPool
  <2>2. CountInv'
    BY ToAddFrame DEF IInv, CountInv
  <2>3. SeenInv' /\ SweepInv'
    BY DEF IInv, SeenInv, SweepInv, Queued, Running
  <2>4. Accounted' /\ StopInv'
    BY DEF IInv, Accounted, StopInv, InPool
  <2>5. ShutdownDrains'
    BY DEF IInv, ShutdownDrains, InPool, SlotsIdle
  <2>6. WaitersCovered'
    BY DEF IInv, WaitersCovered
  <2>7. OneFate'
    BY FateFrame DEF IInv
  <2>8. StillInv'
    BY DEF IInv, StillInv
  <2> QED
    BY <2>1, <2>2, <2>3, <2>4, <2>5, <2>6, <2>7, <2>8 DEF IInv
<1> QED
  BY <1>1, <1>2

LEMMA TimerInductive == Spec => []IInv
BY IInvInit, IInvStep, PTL DEF Spec

\* The variables of TimerQueue keep their types, and m_taskMtx is held by the demon exactly
\* during its sweep and by a caller exactly while its Shutdown waits for the pool.
THEOREM TimerTypes == Spec => []TypeOK
<1>1. IInv => TypeOK
  BY DEF IInv
<1> QED
  BY <1>1, TimerInductive, PTL

\* No added task is forgotten, but for those that tied in the set and those the sweep found late.
THEOREM EveryTaskAccounted == Spec => []Accounted
<1>1. IInv => Accounted
  BY DEF IInv
<1> QED
  BY <1>1, TimerInductive, PTL

\* No task is run twice, and none is both run and left out: the sweep never offers the pool a
\* task that it has been given, and the queue, the slots and done never share one.
THEOREM OneFateEach == Spec => []OneFate
<1>1. IInv => OneFate
  BY DEF IInv
<1> QED
  BY <1>1, TimerInductive, PTL

\* Every added task is pending, left out for one of the two reasons, or with the pool, and is
\* only one of these, once.
THEOREM FateOfTasks == Spec => []ExactlyOneFate
<1>1. Accounted /\ OneFate => ExactlyOneFate
  BY DEF ExactlyOneFate
<1> QED
  BY <1>1, EveryTaskAccounted, OneFateEach, PTL

\* A Shutdown that has returned left nothing of what had been added before it to be run.
THEOREM TimerShutdownDrains == Spec => []ShutdownDrains
<1>1. IInv => ShutdownDrains
  BY DEF IInv
<1> QED
  BY <1>1, TimerInductive, PTL

\* One condition variable is enough for the demon and for Shutdown: neither sleeps on what it
\* waits for unless its notification is on the way.
THEOREM NoWaiterForgotten == Spec => []WaitersCovered
<1>1. IInv => WaitersCovered
  BY DEF IInv
<1> QED
  BY <1>1, TimerInductive, PTL
-----------------------------------------------------------------------------
(***************************************************************************)
(* NoDeadlock, by cases: whoever does not move waits for the mutex, whose  *)
(* holder moves, or for what another thread is about to do.                *)
(***************************************************************************)
Moves == DemonMoves \/ (\E x \in Threads : CallMoves(x)) \/ (\E s \in Slots : SlotMoves(s))

\* The sweep has a next task, and the pool was not given it before.
LEMMA SweepMoves ==
    ASSUME IInv, dpc = "sweep"
    PROVE  DemonMoves
<1>1. ASSUME left # {}
      PROVE  \E e \in left \ seen : \A f \in left : due[e] <= due[f]
  <2>1. \A e \in left : due[e] \in Nat
    <3>1. \A e \in left : e \in 1..Len(due)
      BY DEF IInv, TypeOK
    <3>2. due \in Seq(Times)
      BY DEF IInv, TypeOK
    <3>3. \A e \in left : due[e] \in Times
      BY <3>1, <3>2, ElementOfSeq
    <3> QED
      BY <3>3 DEF Times
  <2>2. {due[e] : e \in left} \in SUBSET Nat /\ {due[e] : e \in left} # {}
    BY <1>1, <2>1
  <2>3. PICK m \in {due[e] : e \in left} : \A k \in {due[e] : e \in left} : m <= k
    BY <2>2, Least
  <2>4. PICK e \in left : due[e] = m
    OBVIOUS
  <2>5. e \notin seen
    BY DEF IInv, OneFate, Pending
  <2> QED
    BY <2>3, <2>4, <2>5
<1> QED
  BY <1>1 DEF DemonMoves

\* A slot is free for what is queued, sleeps until its task is due, or runs a function, which goes
\* on unless it adds a task and m_taskMtx is taken.
LEMMA SlotCases ==
    ASSUME IInv, NEW s \in Slots, queue # <<>> \/ slot[s] # NoTask
    PROVE  Moves \/ pc[s] = "insert"
<1>1. CASE spc[s] = "idle"
  <2>1. slot[s] = NoTask /\ queue # <<>>
    BY <1>1 DEF IInv, StillInv
  <2> QED
    BY <1>1, <2>1 DEF IInv, StillInv, SlotMoves, Moves
<1>2. CASE spc[s] = "sleep"
  BY <1>2 DEF SlotMoves, Moves
<1>3. CASE spc[s] = "func"
  <2>1. s \in Threads /\ pc[s] \in {"idle", "insert", "notify"}
    BY DEF IInv, StillInv, Threads
  <2> QED
    BY <1>3, <2>1 DEF SlotMoves, CallMoves, Moves
<1> QED
  BY <1>1, <1>2, <1>3 DEF IInv, TypeOK

\* A Shutdown in the pool waits for the slots, which do not wait for it but in a callback.
LEMMA InPoolMoves ==
    ASSUME IInv, Slots # {}, ~CallbackBlocked, NEW x \in Threads, InPool(x)
    PROVE  Moves
<1>1. x \in Callers /\ \A s \in Slots : pc[s] # "insert"
  <2>1. x \in Callers
    BY DEF IInv, StillInv, InPool, Threads
  <2> QED
    BY <2>1 DEF CallbackBlocked
<1>2. CASE pc[x] = "pool_close"
  BY <1>2 DEF CallMoves, Moves
<1>3. CASE pc[x] = "pool_poll"
  <2>1. CASE queue = <<>>
    BY <1>3, <2>1 DEF CallMoves, Moves
  <2>2. CASE queue # <<>>
    BY <1>1, <2>2, SlotCases
  <2> QED
    BY <2>1, <2>2
<1>4. CASE pc[x] = "pool_join"
  <2>1. CASE SlotsIdle
    BY <1>4, <2>1 DEF CallMoves, Moves
  <2>2. CASE ~SlotsIdle
    BY <1>1, <2>2, SlotCases DEF SlotsIdle
  <2> QED
    BY <2>1, <2>2
<1> QED
  BY <1>2, <1>3, <1>4 DEF InPool

LEMMA MutexMoves ==
    ASSUME IInv, Slots # {}, ~CallbackBlocked, m_taskMtx # NoThread
    PROVE  Moves
<1>1. CASE m_taskMtx = Demon
  BY <1>1, SweepMoves DEF IInv, TypeOK, Moves
<1>2. CASE m_taskMtx \in Threads
  BY <1>2, InPoolMoves DEF IInv, TypeOK
<1> QED
  BY <1>1, <1>2 DEF IInv, TypeOK

\* The demon, the callers and the pool's threads wait for each other in a cycle only if a task
\* adds a task while Shutdown waits for it with m_taskMtx in its hands.
THEOREM TimerNeverDeadlocks == Spec => []NoDeadlock
<1>1. IInv => NoDeadlock
  <2> SUFFICES ASSUME IInv, dpc # "none", Slots # {}, ~CallbackBlocked,
                      \/ m_tasks # {} /\ ~m_isTerminate
                      \/ queue # <<>>
                      \/ \E x \in Threads : pc[x] \notin {"idle", "sd_waiting"}
               PROVE  Moves
    BY DEF NoDeadlock, Moves
  <2>1. CASE m_tasks # {} /\ ~m_isTerminate
    <3>1. dpc \in {"loop", "acquire", "waiting", "sweep"}
      BY <2>1 DEF IInv, TypeOK, DemonPC, StillInv
    <3>2. CASE dpc = "loop"
      BY <3>2 DEF DemonMoves, Moves
    <3>3. CASE dpc = "acquire"
      BY <3>3, MutexMoves DEF DemonMoves, Moves
    <3>4. CASE dpc = "waiting"
      BY <2>1, <3>4 DEF IInv, WaitersCovered, CallMoves, Moves
    <3>5. CASE dpc = "sweep"
      BY <3>5, SweepMoves DEF Moves
    <3> QED
      BY <3>1, <3>2, <3>3, <3>4, <3>5
  <2>2. ASSUME NEW x \in Threads, pc[x] \notin {"idle", "sd_waiting"}
        PROVE  Moves
    <3>1. CASE pc[x] \in {"insert", "sd_acquire"}
      BY <3>1, MutexMoves DEF CallMoves, Moves
    <3>2. CASE pc[x] = "notify"
      BY <3>2 DEF CallMoves, Moves
    <3>3. CASE InPool(x)
      BY <3>3, InPoolMoves
    <3> QED
      BY <2>2, <3>1, <3>2, <3>3 DEF IInv, TypeOK, CallPC, InPool
  <2>3. CASE queue # <<>>
    <3>1. PICK s \in Slots : TRUE
      OBVIOUS
    <3>2. s \in Threads
      BY DEF Threads
    <3> QED
      BY <2>2, <2>3, <3>2, SlotCases
  <2> QED
    BY <2>1, <2>2, <2>3
<1> QED
  BY <1>1, TimerInductive, PTL

\* No thread of the timer waits for a notification that it missed, or in a cycle, but for the
\* callback that adds a task.
THEOREM WaitsEnd == Spec => []NobodyWaitsInVain
<1>1. WaitersCovered /\ NoDeadlock => NobodyWaitsInVain
  BY DEF NobodyWaitsInVain
<1> QED
  BY <1>1, NoWaiterForgotten, TimerNeverDeadlocks, PTL
=============================================================================

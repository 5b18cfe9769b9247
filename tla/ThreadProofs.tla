---------------------------- MODULE ThreadProofs ----------------------------
(***************************************************************************)
(* What TLAPS proves of Thread for every number of objects and of ids.     *)
(*                                                                         *)
(* The argument is about ids that are used again.  A pthread that runs has *)
(* the id that its own object's m_thread names, so a handle that names a   *)
(* free id, or one of another object, belongs to a pthread that has ended. *)
(***************************************************************************)
EXTENDS Thread, TLAPS

Running == {"start", "name", "post", "callback"}

\* How far an object can be when its pthread is at pc, and what run has set by then.
LifeAndRun ==
    \A o \in Objects :
        /\ life[o] = "none" => pc[o] = "none"
        /\ life[o] \in {"creating", "alive", "joining", "thrown"} =>
              m_thread[o] \in Ids /\ pc[o] # "none"
        /\ pc[o] \in {"none", "start", "name", "post"} => m_semaphore[o] = 0
        /\ pc[o] \in {"name", "post", "callback", "ended"} => m_id[o]
        /\ pc[o] \in {"start", "name", "post"} => life[o] \in {"creating", "thrown"}

\* What the system keeps of the ids: an id in use is in the handle of the object it belongs to,
\* a pthread that runs has its id, and an id is not detached and joined, or detached and ended.
IdsAndRun ==
    /\ \A i \in Ids : who[i] # Nobody => m_thread[who[i]] = i /\ pc[who[i]] # "none"
    /\ \A o \in Objects : pc[o] \in Running => m_thread[o] \in Ids /\ who[m_thread[o]] = o
    /\ \A i \in detached :
          i \in Ids /\ who[i] # Nobody /\ pc[who[i]] # "ended" /\ joiner[i] = Nobody
    /\ \A o \in Objects : life[o] = "joining" => joiner[m_thread[o]] = o

\* When the object of a pthread is gone, what will free its id is under way.
GoneIsReleased ==
    \A i \in Ids : who[i] # Nobody /\ life[who[i]] = "gone" => i \in detached \/ joiner[i] # Nobody

\* A handle through which nothing was done, and whose pthread no other handle took, names its
\* own pthread, and pthread_join accepts it.
OwnHandle ==
    \A o \in Objects :
        life[o] \in {"creating", "alive"} /\ o \notin settled \cup robbed =>
            who[m_thread[o]] = o /\ Takes(m_thread[o])

\* After Join the object's own pthread has ended, and what ThisThread found gone stays gone.
JoinedHasEnded ==
    /\ \A o \in Objects : o \in joined => pc[o] = "ended"
    /\ \A o \in Objects : o \in dangling => life[o] \in {"gone", "thrown"}

\* A constructor that has not returned will be posted or has been.
PostComes ==
    \A o \in Objects :
        life[o] = "creating" => m_semaphore[o] > 0 \/ pc[o] \in {"start", "name", "post"}

IInv ==
    /\ TypeOK /\ LifeAndRun /\ IdsAndRun /\ GoneIsReleased /\ OwnHandle /\ JoinedHasEnded
    /\ JoinRefusedOnlyIfRobbed /\ DanglingOnlyUnjoined /\ PostComes

\* The steps in which object o, or its pthread, takes part.
Step(o) == CreateNext(o) \/ RunStep(o) \/ UseThisThread(o) \/ RunEnd(o) \/ OwnerNext(o)

LEMMA NextSteps == Next => \E o \in Objects : Step(o)
BY DEF Next, Step

LEMMA IInvInit == Init => IInv
<1> SUFFICES ASSUME Init
             PROVE  IInv
  OBVIOUS
<1>1. TypeOK
  BY DEF Init, TypeOK
<1>2. LifeAndRun /\ IdsAndRun /\ GoneIsReleased
  BY DEF Init, LifeAndRun, IdsAndRun, GoneIsReleased, Running
<1>3. OwnHandle /\ JoinedHasEnded /\ JoinRefusedOnlyIfRobbed /\ DanglingOnlyUnjoined /\ PostComes
  BY DEF Init, PostComes, OwnHandle, JoinedHasEnded, JoinRefusedOnlyIfRobbed, DanglingOnlyUnjoined
<1> QED
  BY <1>1, <1>2, <1>3 DEF IInv
-----------------------------------------------------------------------------
(***************************************************************************)
(* One lemma for each part of the invariant, one step for each action.     *)
(***************************************************************************)
\* The semaphore is posted once, since run posts from 0 only; a free id is not detached, because
\* RunEnd clears the mark and PthreadDetach frees only what is not marked.
LEMMA TypeStep ==
    ASSUME TypeOK, LifeAndRun, IdsAndRun, NEW o \in Objects, Step(o)
    PROVE  TypeOK'
<1> USE DEF TypeOK, LifeAndRun, IdsAndRun, Becomes, Goes, Takes, Named, PthreadDetach,
            members, system
<1>1. ASSUME NEW i \in Ids, Create(o, i) PROVE TypeOK'
  BY <1>1 DEF Create
<1>2. CASE CreateThrow(o)
  BY <1>2 DEF CreateThrow
<1>3. CASE CreateReturn(o)
  BY <1>3 DEF CreateReturn
<1>4. CASE CreateInterrupted(o)
  BY <1>4 DEF CreateInterrupted
<1>5. CASE RunStart(o)
  BY <1>5 DEF RunStart
<1>6. CASE RunName(o)
  BY <1>6 DEF RunName
<1>7. CASE RunPost(o)
  BY <1>7 DEF RunPost
<1>8. CASE UseThisThread(o)
  BY <1>8 DEF UseThisThread
<1>9. CASE RunEnd(o)
  BY <1>9 DEF RunEnd
<1>10. CASE JoinCall(o)
  BY <1>10 DEF JoinCall
<1>11. CASE JoinThrow(o)
  BY <1>11 DEF JoinThrow
<1>12. CASE JoinReturn(o)
  BY <1>12 DEF JoinReturn
<1>13. CASE Detach(o)
  BY <1>13 DEF Detach
<1>14. CASE Destroy(o)
  BY <1>14 DEF Destroy
<1> QED
  BY <1>1, <1>2, <1>3, <1>4, <1>5, <1>6, <1>7, <1>8, <1>9, <1>10, <1>11, <1>12, <1>13, <1>14
  DEF Step, CreateNext, RunStep, OwnerNext

\* Only a post lets the constructor return, and the post comes last of run's first steps.
LEMMA LifeAndRunStep ==
    ASSUME TypeOK, LifeAndRun, NEW o \in Objects, Step(o)
    PROVE  LifeAndRun'
<1> USE DEF TypeOK, LifeAndRun, Becomes, Goes, members
<1>1. ASSUME NEW i \in Ids, Create(o, i) PROVE LifeAndRun'
  BY <1>1 DEF Create
<1>2. CASE CreateThrow(o)
  BY <1>2 DEF CreateThrow
<1>3. CASE CreateReturn(o)
  BY <1>3 DEF CreateReturn
<1>4. CASE CreateInterrupted(o)
  BY <1>4 DEF CreateInterrupted
<1>5. CASE RunStart(o)
  BY <1>5 DEF RunStart
<1>6. CASE RunName(o)
  BY <1>6 DEF RunName
<1>7. CASE RunPost(o)
  BY <1>7 DEF RunPost
<1>8. CASE UseThisThread(o)
  BY <1>8 DEF UseThisThread
<1>9. CASE RunEnd(o)
  BY <1>9 DEF RunEnd
<1>10. CASE JoinCall(o)
  BY <1>10 DEF JoinCall
<1>11. CASE JoinThrow(o)
  BY <1>11 DEF JoinThrow
<1>12. CASE JoinReturn(o)
  BY <1>12 DEF JoinReturn
<1>13. CASE Detach(o)
  BY <1>13 DEF Detach
<1>14. CASE Destroy(o)
  BY <1>14 DEF Destroy
<1> QED
  BY <1>1, <1>2, <1>3, <1>4, <1>5, <1>6, <1>7, <1>8, <1>9, <1>10, <1>11, <1>12, <1>13, <1>14
  DEF Step, CreateNext, RunStep, OwnerNext

\* An id is freed only when its pthread has ended, and then nothing is left of it in the system.
LEMMA IdsAndRunStep ==
    ASSUME TypeOK, LifeAndRun, IdsAndRun, NEW o \in Objects, Step(o)
    PROVE  IdsAndRun'
<1> USE ThreadAssumption DEF TypeOK, LifeAndRun, IdsAndRun, Running, Becomes, Goes, Takes,
            Named, PthreadDetach, IdOf, members, system
<1>1. ASSUME NEW i \in Ids, Create(o, i) PROVE IdsAndRun'
  BY <1>1 DEF Create
<1>2. CASE CreateThrow(o)
  BY <1>2 DEF CreateThrow
<1>3. CASE CreateReturn(o)
  BY <1>3 DEF CreateReturn
<1>4. CASE CreateInterrupted(o)
  BY <1>4 DEF CreateInterrupted
<1>5. CASE RunStart(o)
  BY <1>5 DEF RunStart
<1>6. CASE RunName(o)
  BY <1>6 DEF RunName
<1>7. CASE RunPost(o)
  BY <1>7 DEF RunPost
<1>8. CASE UseThisThread(o)
  BY <1>8 DEF UseThisThread
<1>9. CASE RunEnd(o)
  BY <1>9 DEF RunEnd
<1>10. CASE JoinCall(o)
  BY <1>10 DEF JoinCall
<1>11. CASE JoinThrow(o)
  BY <1>11 DEF JoinThrow
<1>12. CASE JoinReturn(o)
  BY <1>12 DEF JoinReturn
<1>13. CASE Detach(o)
  BY <1>13 DEF Detach
<1>14. CASE Destroy(o)
  BY <1>14 DEF Destroy
<1> QED
  BY <1>1, <1>2, <1>3, <1>4, <1>5, <1>6, <1>7, <1>8, <1>9, <1>10, <1>11, <1>12, <1>13, <1>14
  DEF Step, CreateNext, RunStep, OwnerNext

\* The destructor detaches or frees the pthread, or another handle has detached it or waits for
\* it; what ends that state frees the id.
LEMMA GoneIsReleasedStep ==
    ASSUME TypeOK, LifeAndRun, IdsAndRun, GoneIsReleased, NEW o \in Objects, Step(o)
    PROVE  GoneIsReleased'
<1> USE DEF TypeOK, LifeAndRun, IdsAndRun, GoneIsReleased, Becomes, Takes, PthreadDetach, system
<1>1. ASSUME NEW i \in Ids, Create(o, i) PROVE GoneIsReleased'
  BY <1>1 DEF Create
<1>2. CASE CreateThrow(o)
  BY <1>2 DEF CreateThrow
<1>3. CASE CreateReturn(o)
  BY <1>3 DEF CreateReturn
<1>4. CASE CreateInterrupted(o)
  BY <1>4 DEF CreateInterrupted
<1>5. CASE RunStart(o)
  BY <1>5 DEF RunStart
<1>6. CASE RunName(o)
  BY <1>6 DEF RunName
<1>7. CASE RunPost(o)
  BY <1>7 DEF RunPost
<1>8. CASE UseThisThread(o)
  BY <1>8 DEF UseThisThread
<1>9. CASE RunEnd(o)
  BY <1>9 DEF RunEnd
<1>10. CASE JoinCall(o)
  BY <1>10 DEF JoinCall
<1>11. CASE JoinThrow(o)
  BY <1>11 DEF JoinThrow
<1>12. CASE JoinReturn(o)
  BY <1>12 DEF JoinReturn
<1>13. CASE Detach(o)
  BY <1>13 DEF Detach
<1>14. CASE Destroy(o)
  BY <1>14 DEF Destroy
<1> QED
  BY <1>1, <1>2, <1>3, <1>4, <1>5, <1>6, <1>7, <1>8, <1>9, <1>10, <1>11, <1>12, <1>13, <1>14
  DEF Step, CreateNext, RunStep, OwnerNext

\* Whoever takes the pthread of o through another handle puts o among the robbed, and whoever
\* takes it through o's own puts o among the settled.
LEMMA OwnHandleStep ==
    ASSUME TypeOK, LifeAndRun, IdsAndRun, OwnHandle, NEW o \in Objects, Step(o)
    PROVE  OwnHandle'
<1> USE ThreadAssumption DEF TypeOK, LifeAndRun, IdsAndRun, OwnHandle, Becomes, Takes, Named,
            Robs, PthreadDetach, DetachReturns, IdOf, members, system, history
<1>1. ASSUME NEW i \in Ids, Create(o, i) PROVE OwnHandle'
  BY <1>1 DEF Create
<1>2. CASE CreateThrow(o)
  BY <1>2 DEF CreateThrow
<1>3. CASE CreateReturn(o)
  BY <1>3 DEF CreateReturn
<1>4. CASE CreateInterrupted(o)
  BY <1>4 DEF CreateInterrupted
<1>5. CASE RunStart(o)
  BY <1>5 DEF RunStart
<1>6. CASE RunName(o)
  BY <1>6 DEF RunName
<1>7. CASE RunPost(o)
  BY <1>7 DEF RunPost
<1>8. CASE UseThisThread(o)
  BY <1>8 DEF UseThisThread
<1>9. CASE RunEnd(o)
  BY <1>9 DEF RunEnd
<1>10. CASE JoinCall(o)
  BY <1>10 DEF JoinCall
<1>11. CASE JoinThrow(o)
  BY <1>11 DEF JoinThrow
<1>12. CASE JoinReturn(o)
  BY <1>12 DEF JoinReturn
<1>13. CASE Detach(o)
  BY <1>13 DEF Detach
<1>14. CASE Destroy(o)
  BY <1>14 DEF Destroy
<1> QED
  BY <1>1, <1>2, <1>3, <1>4, <1>5, <1>6, <1>7, <1>8, <1>9, <1>10, <1>11, <1>12, <1>13, <1>14
  DEF Step, CreateNext, RunStep, OwnerNext

\* pthread_join returns for the id in the handle: if o's pthread still ran the id would be its
\* own, so it has ended, under that id or an earlier use of it.
LEMMA JoinedHasEndedStep ==
    ASSUME TypeOK, LifeAndRun, IdsAndRun, JoinedHasEnded, NEW o \in Objects, Step(o)
    PROVE  JoinedHasEnded'
<1> USE DEF TypeOK, LifeAndRun, IdsAndRun, JoinedHasEnded, Running, Becomes, Goes, Named,
            history
<1>1. ASSUME NEW i \in Ids, Create(o, i) PROVE JoinedHasEnded'
  BY <1>1 DEF Create
<1>2. CASE CreateThrow(o)
  BY <1>2 DEF CreateThrow
<1>3. CASE CreateReturn(o)
  BY <1>3 DEF CreateReturn
<1>4. CASE CreateInterrupted(o)
  BY <1>4 DEF CreateInterrupted
<1>5. CASE RunStart(o)
  BY <1>5 DEF RunStart
<1>6. CASE RunName(o)
  BY <1>6 DEF RunName
<1>7. CASE RunPost(o)
  BY <1>7 DEF RunPost
<1>8. CASE UseThisThread(o)
  BY <1>8 DEF UseThisThread
<1>9. CASE RunEnd(o)
  BY <1>9 DEF RunEnd
<1>10. CASE JoinCall(o)
  BY <1>10 DEF JoinCall
<1>11. CASE JoinThrow(o)
  BY <1>11 DEF JoinThrow
<1>12. CASE JoinReturn(o)
  BY <1>12 DEF JoinReturn
<1>13. CASE Detach(o)
  BY <1>13 DEF Detach
<1>14. CASE Destroy(o)
  BY <1>14 DEF Destroy
<1> QED
  BY <1>1, <1>2, <1>3, <1>4, <1>5, <1>6, <1>7, <1>8, <1>9, <1>10, <1>11, <1>12, <1>13, <1>14
  DEF Step, CreateNext, RunStep, OwnerNext

\* pthread_join refuses only what it cannot take, which OwnHandle rules out.
LEMMA RefusedStep ==
    ASSUME TypeOK, LifeAndRun, OwnHandle, JoinRefusedOnlyIfRobbed, NEW o \in Objects, Step(o)
    PROVE  JoinRefusedOnlyIfRobbed'
<1> USE DEF TypeOK, LifeAndRun, OwnHandle, JoinRefusedOnlyIfRobbed, Robs, history
<1>1. ASSUME NEW i \in Ids, Create(o, i) PROVE JoinRefusedOnlyIfRobbed'
  BY <1>1 DEF Create
<1>2. CASE CreateThrow(o)
  BY <1>2 DEF CreateThrow
<1>3. CASE CreateReturn(o)
  BY <1>3 DEF CreateReturn
<1>4. CASE CreateInterrupted(o)
  BY <1>4 DEF CreateInterrupted
<1>5. CASE RunStart(o)
  BY <1>5 DEF RunStart
<1>6. CASE RunName(o)
  BY <1>6 DEF RunName
<1>7. CASE RunPost(o)
  BY <1>7 DEF RunPost
<1>8. CASE UseThisThread(o)
  BY <1>8 DEF UseThisThread
<1>9. CASE RunEnd(o)
  BY <1>9 DEF RunEnd
<1>10. CASE JoinCall(o)
  BY <1>10 DEF JoinCall
<1>11. CASE JoinThrow(o)
  BY <1>11 DEF JoinThrow
<1>12. CASE JoinReturn(o)
  BY <1>12 DEF JoinReturn
<1>13. CASE Detach(o)
  BY <1>13 DEF Detach
<1>14. CASE Destroy(o)
  BY <1>14 DEF Destroy
<1> QED
  BY <1>1, <1>2, <1>3, <1>4, <1>5, <1>6, <1>7, <1>8, <1>9, <1>10, <1>11, <1>12, <1>13, <1>14
  DEF Step, CreateNext, RunStep, OwnerNext

\* A callback that runs was not joined, and a handle that is gone joins nothing.
LEMMA DanglingStep ==
    ASSUME LifeAndRun, IdsAndRun, JoinedHasEnded, DanglingOnlyUnjoined, NEW o \in Objects, Step(o)
    PROVE  DanglingOnlyUnjoined'
<1> USE DEF LifeAndRun, IdsAndRun, JoinedHasEnded, DanglingOnlyUnjoined, history
<1>1. ASSUME NEW i \in Ids, Create(o, i) PROVE DanglingOnlyUnjoined'
  BY <1>1 DEF Create
<1>2. CASE CreateThrow(o)
  BY <1>2 DEF CreateThrow
<1>3. CASE CreateReturn(o)
  BY <1>3 DEF CreateReturn
<1>4. CASE CreateInterrupted(o)
  BY <1>4 DEF CreateInterrupted
<1>5. CASE RunStart(o)
  BY <1>5 DEF RunStart
<1>6. CASE RunName(o)
  BY <1>6 DEF RunName
<1>7. CASE RunPost(o)
  BY <1>7 DEF RunPost
<1>8. CASE UseThisThread(o)
  BY <1>8 DEF UseThisThread
<1>9. CASE RunEnd(o)
  BY <1>9 DEF RunEnd
<1>10. CASE JoinCall(o)
  BY <1>10 DEF JoinCall
<1>11. CASE JoinThrow(o)
  BY <1>11 DEF JoinThrow
<1>12. CASE JoinReturn(o)
  BY <1>12 DEF JoinReturn
<1>13. CASE Detach(o)
  BY <1>13 DEF Detach
<1>14. CASE Destroy(o)
  BY <1>14 DEF Destroy
<1> QED
  BY <1>1, <1>2, <1>3, <1>4, <1>5, <1>6, <1>7, <1>8, <1>9, <1>10, <1>11, <1>12, <1>13, <1>14
  DEF Step, CreateNext, RunStep, OwnerNext

\* Only run posts, once, and only the constructor takes what was posted.
LEMMA PostComesStep ==
    ASSUME TypeOK, LifeAndRun, PostComes, NEW o \in Objects, Step(o)
    PROVE  PostComes'
<1> USE DEF TypeOK, LifeAndRun, PostComes, Becomes, Goes, members
<1>1. ASSUME NEW i \in Ids, Create(o, i) PROVE PostComes'
  BY <1>1 DEF Create
<1>2. CASE CreateThrow(o)
  BY <1>2 DEF CreateThrow
<1>3. CASE CreateReturn(o)
  BY <1>3 DEF CreateReturn
<1>4. CASE CreateInterrupted(o)
  BY <1>4 DEF CreateInterrupted
<1>5. CASE RunStart(o)
  BY <1>5 DEF RunStart
<1>6. CASE RunName(o)
  BY <1>6 DEF RunName
<1>7. CASE RunPost(o)
  BY <1>7 DEF RunPost
<1>8. CASE UseThisThread(o)
  BY <1>8 DEF UseThisThread
<1>9. CASE RunEnd(o)
  BY <1>9 DEF RunEnd
<1>10. CASE JoinCall(o)
  BY <1>10 DEF JoinCall
<1>11. CASE JoinThrow(o)
  BY <1>11 DEF JoinThrow
<1>12. CASE JoinReturn(o)
  BY <1>12 DEF JoinReturn
<1>13. CASE Detach(o)
  BY <1>13 DEF Detach
<1>14. CASE Destroy(o)
  BY <1>14 DEF Destroy
<1> QED
  BY <1>1, <1>2, <1>3, <1>4, <1>5, <1>6, <1>7, <1>8, <1>9, <1>10, <1>11, <1>12, <1>13, <1>14
  DEF Step, CreateNext, RunStep, OwnerNext
-----------------------------------------------------------------------------
(***************************************************************************)
(* The theorems.                                                           *)
(***************************************************************************)
LEMMA IInvStep == IInv /\ [Next]_vars => IInv'
<1> SUFFICES ASSUME IInv, [Next]_vars
             PROVE  IInv'
  OBVIOUS
<1>1. CASE Next
  <2> PICK o \in Objects : Step(o)
    BY <1>1, NextSteps
  <2>1. TypeOK' /\ LifeAndRun' /\ IdsAndRun'
    BY TypeStep, LifeAndRunStep, IdsAndRunStep DEF IInv
  <2>2. GoneIsReleased' /\ OwnHandle' /\ JoinedHasEnded'
    BY GoneIsReleasedStep, OwnHandleStep, JoinedHasEndedStep DEF IInv
  <2>3. JoinRefusedOnlyIfRobbed' /\ DanglingOnlyUnjoined' /\ PostComes'
    BY RefusedStep, DanglingStep, PostComesStep DEF IInv
  <2> QED
    BY <2>1, <2>2, <2>3 DEF IInv
<1>2. CASE UNCHANGED vars
  <2> USE <1>2 DEF vars, members, system, history
  <2>1. TypeOK' /\ LifeAndRun'
    BY DEF IInv, TypeOK, LifeAndRun
  <2>2. IdsAndRun' /\ GoneIsReleased'
    BY DEF IInv, IdsAndRun, GoneIsReleased
  <2>3. OwnHandle' /\ JoinedHasEnded'
    BY DEF IInv, OwnHandle, JoinedHasEnded, Takes
  <2>4. JoinRefusedOnlyIfRobbed' /\ DanglingOnlyUnjoined' /\ PostComes'
    BY DEF IInv, JoinRefusedOnlyIfRobbed, DanglingOnlyUnjoined, PostComes
  <2> QED
    BY <2>1, <2>2, <2>3, <2>4 DEF IInv
<1> QED
  BY <1>1, <1>2

LEMMA ThreadInductive == Spec => []IInv
BY IInvInit, IInvStep, PTL DEF Spec

\* The variables of Thread keep their types: the semaphore never counts beyond 1, and the
\* system never marks, or lets anybody wait for, an id that is free.
THEOREM ThreadTypes == Spec => []TypeOK
<1>1. IInv => TypeOK
  BY DEF IInv
<1> QED
  BY <1>1, ThreadInductive, PTL

\* The constructor returns only after run has taken all it needs from the object, so GetPid of
\* a Thread that was constructed is its pthread's.
THEOREM ConstructorWaits == Spec => []ConstructedIsStarted
<1>1. IInv => ConstructedIsStarted
  BY DEF IInv, TypeOK, LifeAndRun, ConstructedIsStarted
<1> QED
  BY <1>1, ThreadInductive, PTL

\* A Thread on which neither Join nor Detach has succeeded can be joined, unless another handle
\* with the same pthread_t came first.
THEOREM FirstJoinSucceeds == Spec => []JoinRefusedOnlyIfRobbed
<1>1. IInv => JoinRefusedOnlyIfRobbed
  BY DEF IInv
<1> QED
  BY <1>1, ThreadInductive, PTL

\* No pthread that ended is forgotten: its id is free, or some handle can still free it.
THEOREM NoPthreadForgotten == Spec => []EndedPthreadsReleased
<1>1. ASSUME IInv PROVE EndedPthreadsReleased
  <2> SUFFICES ASSUME NEW i \in Ids, who[i] # Nobody, pc[who[i]] = "ended"
               PROVE  /\ i \notin detached
                      /\ \/ joiner[i] # Nobody
                         \/ life[who[i]] \in {"creating", "thrown"}
                         \/ life[who[i]] \in {"alive", "joining"} /\ m_thread[who[i]] = i
    BY DEF EndedPthreadsReleased
  <2>1. i \notin detached
    BY <1>1 DEF IInv, IdsAndRun
  <2>2. life[who[i]] # "none" /\ m_thread[who[i]] = i
    BY <1>1 DEF IInv, TypeOK, LifeAndRun, IdsAndRun
  <2>3. life[who[i]] = "gone" => joiner[i] # Nobody
    BY <1>1, <2>1 DEF IInv, GoneIsReleased
  <2> QED
    BY <1>1, <2>1, <2>2, <2>3 DEF IInv, TypeOK
<1> QED
  BY <1>1, ThreadInductive, PTL

\* What ThisThread uses in a callback is gone only if nobody joined the Thread.
THEOREM JoinedNeverDangling == Spec => []DanglingOnlyUnjoined
<1>1. IInv => DanglingOnlyUnjoined
  BY DEF IInv
<1> QED
  BY <1>1, ThreadInductive, PTL

\* Nobody waits in vain: the constructor's semaphore has been posted or will be, and the pthread
\* that Join waits for, the object's own or another, is neither freed nor replaced meanwhile.
THEOREM NoWaitInVain == Spec => []WaitsAnswered
<1>1. ASSUME IInv, NEW o \in Objects, life[o] = "joining"
      PROVE  joiner[m_thread[o]] = o /\ Named(o) # Nobody /\ pc[Named(o)] # "none"
  <2>1. m_thread[o] \in Ids /\ joiner[m_thread[o]] = o
    BY <1>1 DEF IInv, LifeAndRun, IdsAndRun
  <2>2. Named(o) # Nobody
    BY <2>1, <1>1, ThreadAssumption DEF IInv, TypeOK, Named
  <2> QED
    BY <2>1, <2>2, <1>1 DEF IInv, IdsAndRun, Named
<1>2. IInv => WaitsAnswered
  BY <1>1 DEF IInv, PostComes, WaitsAnswered
<1> QED
  BY <1>2, ThreadInductive, PTL

\* The constructor and Join have something to wait for, and what was joined does not use the
\* object any more.
THEOREM WaitingWorks == Spec => []WaitsWork
<1>1. WaitsAnswered /\ DanglingOnlyUnjoined => WaitsWork
  BY DEF WaitsWork
<1> QED
  BY <1>1, NoWaitInVain, JoinedNeverDangling, PTL
=============================================================================

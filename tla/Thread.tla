------------------------------- MODULE Thread -------------------------------
(***************************************************************************)
(* Thread and its Semaphore (src/common: thread.h, thread.cpp, mutex.cpp). *)
(* A Thread object starts a pthread in its constructor and waits until the *)
(* pthread has taken what it needs from the object.  Afterwards the object *)
(* is a handle, with which its owner joins or detaches the pthread, and    *)
(* its destructor detaches whatever m_thread names.                        *)
(*                                                                         *)
(* Nothing resets m_thread, and the system gives the id of a pthread that  *)
(* was joined, or that ended detached, to another one.  Every object makes *)
(* one pthread at most, so a pthread goes by the name of its object here;  *)
(* the ids are what pthread_create returns.  An object is used by one      *)
(* owner at a time.  What pthread_join and pthread_detach do is modelled   *)
(* after glibc, where they fail on, or ignore, an id that is not in use.   *)
(* Names are not modelled, only that one of them may be too long.          *)
(***************************************************************************)
EXTENDS Naturals, FiniteSets

CONSTANTS Objects,      \* Thread objects
          Ids,          \* values of pthread_t
          Nobody        \* no object, no id

ASSUME ThreadAssumption == Nobody \notin Objects \cup Ids

VARIABLES
    life,           \* of an object: "none", "creating", "alive", "joining", "gone", or
                    \* "thrown" if the constructor left its pthread behind
    m_thread, m_id, m_semaphore,    \* members of Thread; m_id is whether it is set
    pc,             \* of a pthread
    who,            \* the pthread that an id belongs to
    detached,       \* ids that are detached
    joiner,         \* the object whose Join waits for an id
    terminated,     \* std::terminate was called
    \* History, read by the properties.
    settled,        \* objects whose own Join or Detach has returned
    joined,         \* objects whose own Join has returned
    robbed,         \* objects whose pthread was detached, or joined, through another one
    refused,        \* objects whose first Join threw
    dangling        \* objects that ThisThread used when they were gone

members == <<m_thread, m_id, m_semaphore>>
system == <<who, detached, joiner>>
history == <<settled, joined, robbed, refused, dangling>>
vars == <<life, members, pc, system, terminated, history>>

Init ==
    /\ life = [o \in Objects |-> "none"]
    /\ m_thread = [o \in Objects |-> Nobody]
    /\ m_id = [o \in Objects |-> FALSE]
    /\ m_semaphore = [o \in Objects |-> 0]
    /\ pc = [o \in Objects |-> "none"]
    /\ who = [i \in Ids |-> Nobody]
    /\ detached = {}
    /\ joiner = [i \in Ids |-> Nobody]
    /\ terminated = FALSE
    /\ settled = {} /\ joined = {} /\ robbed = {} /\ refused = {} /\ dangling = {}

Becomes(o, stage) == life' = [life EXCEPT ![o] = stage]
Goes(o, stage) == pc' = [pc EXCEPT ![o] = stage]

\* Whose pthread a handle names now.
Named(o) == who[m_thread[o]]
-----------------------------------------------------------------------------
(***************************************************************************)
(* pthread_detach, with its return value.                                  *)
(***************************************************************************)
\* Nothing happens to an id that is free, detached, or waited for.
Takes(i) == who[i] # Nobody /\ i \notin detached /\ joiner[i] = Nobody

PthreadDetach(i) ==
    /\ who' = IF Takes(i) /\ pc[who[i]] = "ended" THEN [who EXCEPT ![i] = Nobody] ELSE who
    /\ detached' = IF Takes(i) /\ pc[who[i]] # "ended" THEN detached \cup {i} ELSE detached
    /\ UNCHANGED joiner

\* Of a free id only what is left in its memory tells.
DetachReturns(i) ==
    IF who[i] = Nobody THEN {0, 1} ELSE IF i \in detached THEN {1} ELSE {0}

\* Through o's handle: it is another object's pthread that is detached or joined.
Robs(o) == robbed' = IF Named(o) \in {o, Nobody} THEN robbed ELSE robbed \cup {Named(o)}
-----------------------------------------------------------------------------
(***************************************************************************)
(* The constructor.                                                        *)
(***************************************************************************)
\* Mutant: the pthread is created detached.
Create_Detached(o, i) ==
    /\ life[o] = "none" /\ who[i] = Nobody
    /\ Becomes(o, "creating")
    /\ m_thread' = [m_thread EXCEPT ![o] = i]
    /\ who' = [who EXCEPT ![i] = o]
    /\ Goes(o, "start")
    /\ detached' = detached \cup {i}
    /\ UNCHANGED <<m_id, m_semaphore, joiner, terminated, history>>

Create(o, i) ==
    /\ life[o] = "none" /\ who[i] = Nobody
    /\ Becomes(o, "creating")
    /\ m_thread' = [m_thread EXCEPT ![o] = i]
    /\ who' = [who EXCEPT ![i] = o]
    /\ Goes(o, "start")
    /\ UNCHANGED <<m_id, m_semaphore, detached, joiner, terminated, history>>

\* pthread_create fails; the object never comes to be.
CreateThrow(o) ==
    /\ life[o] = "none"
    /\ Becomes(o, "gone")
    /\ UNCHANGED <<members, pc, system, terminated, history>>

\* Mutant: the constructor does not wait.
CreateReturn_NoWait(o) ==
    /\ life[o] = "creating"
    /\ Becomes(o, "alive")
    /\ UNCHANGED <<members, pc, system, terminated, history>>

\* Mutant: the semaphore is one short.
CreateReturn_Short(o) ==
    /\ life[o] = "creating" /\ m_semaphore[o] > 1
    /\ m_semaphore' = [m_semaphore EXCEPT ![o] = @ - 1]
    /\ Becomes(o, "alive")
    /\ UNCHANGED <<m_thread, m_id, pc, system, terminated, history>>

\* Semaphore::Wait.
CreateReturn(o) ==
    /\ life[o] = "creating" /\ m_semaphore[o] > 0
    /\ m_semaphore' = [m_semaphore EXCEPT ![o] = @ - 1]
    /\ Becomes(o, "alive")
    /\ UNCHANGED <<m_thread, m_id, pc, system, terminated, history>>

\* A signal ends sem_wait, Wait throws, and the members are destroyed under the pthread.
CreateInterrupted(o) ==
    /\ life[o] = "creating" /\ m_semaphore[o] = 0
    /\ Becomes(o, "thrown")
    /\ UNCHANGED <<members, pc, system, terminated, history>>
-----------------------------------------------------------------------------
(***************************************************************************)
(* The pthread: Thread::run, and what the callback does with ThisThread.   *)
(***************************************************************************)
RunStart(o) ==
    /\ pc[o] = "start"
    /\ m_id' = [m_id EXCEPT ![o] = TRUE]
    /\ Goes(o, "name")
    /\ UNCHANGED <<life, m_thread, m_semaphore, system, terminated, history>>

\* A name of more than 15 characters throws, and nobody catches that.
RunName(o) ==
    /\ pc[o] = "name"
    /\ terminated' \in BOOLEAN
    /\ Goes(o, "post")
    /\ UNCHANGED <<life, members, system, history>>

\* Mutant: run does not post.
RunPost_Silent(o) ==
    /\ pc[o] = "post"
    /\ Goes(o, "callback")
    /\ UNCHANGED <<life, members, system, terminated, history>>

\* m_cb is moved out, and the semaphore.
RunPost(o) ==
    /\ pc[o] = "post"
    /\ m_semaphore' = [m_semaphore EXCEPT ![o] = @ + 1]
    /\ Goes(o, "callback")
    /\ UNCHANGED <<life, m_thread, m_id, system, terminated, history>>

\* ThisThread::SetName writes the object's name and reads its m_thread, GetID reads m_id.
UseThisThread(o) ==
    /\ pc[o] = "callback"
    /\ dangling' = IF life[o] \in {"gone", "thrown"} THEN dangling \cup {o} ELSE dangling
    /\ UNCHANGED <<life, members, pc, system, terminated, settled, joined, robbed, refused>>

IdOf(o) == {i \in Ids : who[i] = o}

\* Mutant: the id stays marked as detached.
RunEnd_Marked(o) ==
    /\ pc[o] = "callback"
    /\ Goes(o, "ended")
    /\ who' = [i \in Ids |-> IF i \in IdOf(o) \cap detached THEN Nobody ELSE who[i]]
    /\ UNCHANGED <<life, members, detached, joiner, terminated, history>>

\* The callback returns.
RunEnd(o) ==
    /\ pc[o] = "callback"
    /\ Goes(o, "ended")
    /\ who' = [i \in Ids |-> IF i \in IdOf(o) \cap detached THEN Nobody ELSE who[i]]
    /\ detached' = detached \ IdOf(o)
    /\ UNCHANGED <<life, members, joiner, terminated, history>>
-----------------------------------------------------------------------------
(***************************************************************************)
(* Join, Detach and the destructor.                                        *)
(***************************************************************************)
\* pthread_join waits for an id that is in use, not detached, and waited for by nobody.
JoinCall(o) ==
    /\ life[o] = "alive" /\ Takes(m_thread[o])
    /\ Becomes(o, "joining")
    /\ joiner' = [joiner EXCEPT ![m_thread[o]] = o]
    /\ Robs(o)
    /\ UNCHANGED <<members, pc, who, detached, terminated, settled, joined, refused, dangling>>

JoinThrow(o) ==
    /\ life[o] = "alive" /\ ~Takes(m_thread[o])
    /\ refused' = IF o \in settled THEN refused ELSE refused \cup {o}
    /\ UNCHANGED <<life, members, pc, system, terminated, settled, joined, robbed, dangling>>

\* Mutant: Join returns before the pthread has ended.
JoinReturn_Early(o) ==
    /\ life[o] = "joining"
    /\ Becomes(o, "alive")
    /\ joiner' = [joiner EXCEPT ![m_thread[o]] = Nobody]
    /\ settled' = settled \cup {o}
    /\ joined' = joined \cup {o}
    /\ UNCHANGED <<members, pc, who, detached, terminated, robbed, refused, dangling>>

JoinReturn(o) ==
    /\ life[o] = "joining" /\ pc[Named(o)] = "ended"
    /\ Becomes(o, "alive")
    /\ who' = [who EXCEPT ![m_thread[o]] = Nobody]
    /\ joiner' = [joiner EXCEPT ![m_thread[o]] = Nobody]
    /\ settled' = settled \cup {o}
    /\ joined' = joined \cup {o}
    /\ UNCHANGED <<members, pc, detached, terminated, robbed, refused, dangling>>

\* It throws or not: Detach without an effect counts as well.
Detach(o) ==
    /\ life[o] = "alive"
    /\ PthreadDetach(m_thread[o])
    /\ IF Takes(m_thread[o]) THEN Robs(o) ELSE UNCHANGED robbed
    /\ \E ret \in DetachReturns(m_thread[o]) :
          settled' = IF ret = 0 THEN settled \cup {o} ELSE settled
    /\ UNCHANGED <<life, members, pc, terminated, joined, refused, dangling>>

\* Mutant: the destructor leaves the pthread as it is.
Destroy_NoDetach(o) ==
    /\ life[o] = "alive"
    /\ Becomes(o, "gone")
    /\ UNCHANGED <<members, pc, system, terminated, history>>

\* pthread_detach, whatever it returns, also after Join and Detach.
Destroy(o) ==
    /\ life[o] = "alive"
    /\ Becomes(o, "gone")
    /\ PthreadDetach(m_thread[o])
    /\ IF Takes(m_thread[o]) THEN Robs(o) ELSE UNCHANGED robbed
    /\ UNCHANGED <<members, pc, terminated, settled, joined, refused, dangling>>
-----------------------------------------------------------------------------
RunStep(o) == RunStart(o) \/ RunName(o) \/ RunPost(o)
CreateNext(o) == \/ \E i \in Ids : Create(o, i)
                 \/ CreateThrow(o)
                 \/ CreateReturn(o)
                 \/ CreateInterrupted(o)
OwnerNext(o) == JoinCall(o) \/ JoinThrow(o) \/ JoinReturn(o) \/ Detach(o) \/ Destroy(o)

\* Nothing happens in a program that was terminated.
Next == /\ ~terminated
        /\ \E o \in Objects : \/ CreateNext(o)
                              \/ RunStep(o)
                              \/ UseThisThread(o)
                              \/ RunEnd(o)
                              \/ OwnerNext(o)

Spec == Init /\ [][Next]_vars

(***************************************************************************)
(* Fairness: threads run.  Nothing is asked of the callbacks.              *)
(***************************************************************************)
FairSpec == Spec /\ \A o \in Objects : /\ WF_vars(~terminated /\ RunStep(o))
                                       /\ WF_vars(~terminated /\ CreateReturn(o))
-----------------------------------------------------------------------------
(***************************************************************************)
(* Properties.                                                             *)
(***************************************************************************)
\* The variables keep their types; an id that is detached or waited for is in use.
TypeOK ==
    /\ life \in [Objects -> {"none", "creating", "alive", "joining", "gone", "thrown"}]
    /\ m_thread \in [Objects -> Ids \cup {Nobody}]
    /\ m_id \in [Objects -> BOOLEAN]
    /\ m_semaphore \in [Objects -> 0..1]
    /\ pc \in [Objects -> {"none", "start", "name", "post", "callback", "ended"}]
    /\ who \in [Ids -> Objects \cup {Nobody}] /\ joiner \in [Ids -> Objects \cup {Nobody}]
    /\ \A i \in Ids : i \in detached \/ joiner[i] # Nobody => who[i] # Nobody
    /\ \A i \in Ids : joiner[i] # Nobody => life[joiner[i]] = "joining" /\ m_thread[joiner[i]] = i

\* Until run has posted its pthread works on an object that exists, and whose constructor has
\* not returned, so that GetPid and GetName of a constructed Thread are those of its pthread:
\* unless a signal interrupted the constructor.
ConstructedIsStarted ==
    \A o \in Objects :
        /\ pc[o] \in {"start", "name", "post"} => life[o] \in {"creating", "thrown"}
        /\ life[o] \in {"alive", "joining"} => m_id[o] /\ pc[o] \in {"callback", "ended"}

\* A Thread that was neither joined nor detached can be joined, unless another handle got to
\* its pthread first: a handle that was joined or detached before, since m_thread keeps the id.
JoinRefusedOnlyIfRobbed == refused \subseteq robbed

\* A pthread that ended has been given back to the system, or has a handle that still can do
\* it: unless a signal interrupted its constructor.
EndedPthreadsReleased ==
    \A i \in Ids : who[i] # Nobody /\ pc[who[i]] = "ended" =>
        /\ i \notin detached
        /\ \/ joiner[i] # Nobody
           \/ life[who[i]] \in {"creating", "thrown"}
           \/ life[who[i]] \in {"alive", "joining"} /\ m_thread[who[i]] = i

\* ThisThread uses an object that is gone only if the object was not joined.
DanglingOnlyUnjoined == dangling \cap joined = {}

\* Whoever waits has something to wait for, although ids are used again and other handles may
\* detach them: a constructor has been posted or its pthread is on the way to it, and the pthread
\* that Join waits for is there until Join returns.
WaitsAnswered ==
    \A o \in Objects :
        /\ life[o] = "creating" => m_semaphore[o] > 0 \/ pc[o] \in {"start", "name", "post"}
        /\ life[o] = "joining" =>
              joiner[m_thread[o]] = o /\ Named(o) # Nobody /\ pc[Named(o)] # "none"

\* Waiting is possible and of use: there is something to wait for, and what Join waited for does
\* not use the object any more.
WaitsWork == WaitsAnswered /\ DanglingOnlyUnjoined

\* A constructor returns or throws, if the program is not terminated: the Post is never missed.
ConstructorEnds == \A o \in Objects : life[o] = "creating" ~> terminated \/ life[o] # "creating"
=============================================================================

----------------------------- MODULE ConfigVar -----------------------------
(***************************************************************************)
(* Configuration variables of one type and their manager (src/config): the *)
(* listeners of a variable are called in SetValue, under its mutex, and    *)
(* may set other variables, or the same one, or throw; LoadFromYaml sets   *)
(* one variable after the other.                                           *)
(*                                                                         *)
(* A thread has a stack of calls, because listeners call SetValue again.   *)
(* The counter of AddListener is shared by all variables of the type and   *)
(* protected by none of their mutexes, so every access of it is a step.    *)
(* An exception from a listener ends the SetValue that called it; whether  *)
(* the listener around that SetValue, if there is one, goes on or throws   *)
(* as well is its own choice.                                              *)
(***************************************************************************)
EXTENDS Naturals, Sequences, FiniteSets, FiniteSetsExt

CONSTANTS Threads, Nobody,  \* "no holder"
          Vars,             \* names of variables
          Values, Default,  \* their values; the default value of every variable
          BadValue,         \* a string that FromString cannot convert
          BadName,          \* a key with a letter that names must not have
          Docs,             \* what LoadFromYaml is given: sequences of <<key, value>>
          MaxDepth,         \* how deep calls of SetValue are nested
          MaxNested,        \* how often a listener calls SetValue
          MaxAdds           \* how often AddListener is called

ASSUME ConfigAssumption ==
    /\ Nobody \notin Threads
    /\ Default \in Values /\ BadValue \notin Values /\ BadName \notin Vars
    /\ {MaxDepth, MaxNested, MaxAdds} \subseteq Nat
    /\ Docs \subseteq Seq((Vars \cup {BadName}) \X (Values \cup {BadValue}))
    /\ IsFiniteSet(Vars)

VARIABLES
    m_datas,        \* the names that the manager has
    m_val,          \* the value of every variable
    m_cbs,          \* its listeners by key: which AddListener a listener came from, the value it
                    \* saw last, and whether the SetValue that called it then threw
    m_mtx,          \* who holds its mutex
    monotone_key,   \* the static counter in AddListener
    calls,          \* the stack of calls of every thread
    add,            \* its call of AddListener
    \* History, read by the properties.
    adds,           \* calls of AddListener so far
    returned,       \* <<variable, key, call>> for what AddListener returned and nobody removed
    overlap         \* two AddListener of different variables overlapped

registry == <<m_datas, m_val>>
addVars == <<monotone_key, add, adds, overlap>>
vars == <<registry, m_cbs, m_mtx, calls, addVars, returned>>

NoListeners == [k \in {} |-> 0]
NoAdd == [pc |-> "idle", v |-> BadName, call |-> 0, tmp |-> 0]

Init ==
    /\ m_datas = {}
    /\ m_val = [v \in Vars |-> Default]
    /\ m_cbs = [v \in Vars |-> NoListeners]
    /\ m_mtx = [v \in Vars |-> Nobody]
    /\ monotone_key = 0
    /\ calls = [t \in Threads |-> <<>>]
    /\ add = [t \in Threads |-> NoAdd]
    /\ adds = 0 /\ returned = {} /\ overlap = FALSE

Top(t) == calls[t][Len(calls[t])]
Pop(stack) == SubSeq(stack, 1, Len(stack) - 1)
InCall(t, pc) == calls[t] # <<>> /\ Top(t).pc = pc
Free(t) == calls[t] = <<>> /\ add[t].pc = "idle"

\* Something changed the registry that a LoadFromYaml in this stack did not do itself.
Disturbed(stack) == IF stack # <<>> /\ stack[1].pc = "load" THEN [stack EXCEPT ![1].alone = FALSE] ELSE stack
-----------------------------------------------------------------------------
\* LookUp of a name that the manager does not have; of one it has, it changes nothing.
LookUp(t, v) ==
    /\ Free(t)
    /\ v \notin m_datas
    /\ m_datas' = m_datas \cup {v}
    /\ calls' = [u \in Threads |-> Disturbed(calls[u])]
    /\ UNCHANGED <<m_val, m_cbs, m_mtx, addVars, returned>>

(***************************************************************************)
(* SetValue.                                                               *)
(***************************************************************************)
SetFrame(v, x) == [pc |-> "lock", v |-> v, val |-> x, todo |-> {}, nested |-> 0]

\* From the program, or from a listener.
SetValueCall(t, v, x) ==
    /\ v \in m_datas
    /\ \/ /\ Free(t)
          /\ calls' = [calls EXCEPT ![t] = <<SetFrame(v, x)>>]
       \/ /\ InCall(t, "listener") /\ Top(t).nested < MaxNested
          /\ Len(calls[t]) < MaxDepth
          /\ calls' = [calls EXCEPT ![t] =
                Append([calls[t] EXCEPT ![Len(calls[t])].nested = @ + 1], SetFrame(v, x))]
    /\ UNCHANGED <<registry, m_cbs, m_mtx, addVars, returned>>

\* Where SetValue is when these listeners are still to be called, in the order of their keys.
Calling(frame, todo) == [frame EXCEPT !.todo = todo, !.nested = 0,
                                      !.pc = IF todo = {} THEN "assign" ELSE "listener"]

\* Mutant: the early return keeps the mutex.
SetValueLock_Keeps(t) ==
    /\ InCall(t, "lock")
    /\ LET v == Top(t).v
       IN  /\ m_mtx[v] = Nobody
           /\ \/ /\ m_val[v] = Top(t).val             \* nothing to do
                 /\ calls' = [calls EXCEPT ![t] = Pop(@)]
                 /\ m_mtx' = [m_mtx EXCEPT ![v] = t]
              \/ /\ m_val[v] # Top(t).val
                 /\ m_mtx' = [m_mtx EXCEPT ![v] = t]
                 /\ calls' = [calls EXCEPT ![t][Len(calls[t])] = Calling(@, DOMAIN m_cbs[v])]
    /\ UNCHANGED <<registry, m_cbs, addVars, returned>>

SetValueLock(t) ==
    /\ InCall(t, "lock")
    /\ LET v == Top(t).v
       IN  /\ m_mtx[v] = Nobody
           /\ \/ /\ m_val[v] = Top(t).val             \* nothing to do
                 /\ calls' = [calls EXCEPT ![t] = Pop(@)]
                 /\ UNCHANGED m_mtx
              \/ /\ m_val[v] # Top(t).val
                 /\ m_mtx' = [m_mtx EXCEPT ![v] = t]
                 /\ calls' = [calls EXCEPT ![t][Len(calls[t])] = Calling(@, DOMAIN m_cbs[v])]
    /\ UNCHANGED <<registry, m_cbs, addVars, returned>>

Current(t) == Min(Top(t).todo)
Called(t) == DOMAIN m_cbs[Top(t).v] \ Top(t).todo
Saw(t, keys, misled) ==
    [m_cbs EXCEPT ![Top(t).v] =
        [k \in DOMAIN @ |-> IF k \in keys THEN [@[k] EXCEPT !.saw = Top(t).val, !.misled = misled]
                                          ELSE @[k]]]

ListenerReturn(t) ==
    /\ InCall(t, "listener")
    /\ m_cbs' = Saw(t, {Current(t)}, FALSE)
    /\ calls' = [calls EXCEPT ![t][Len(calls[t])] = Calling(@, @.todo \ {Current(t)})]
    /\ UNCHANGED <<registry, m_mtx, addVars, returned>>

\* What LoadFromYaml called ends with it.
Unwind(stack) == IF stack # <<>> /\ stack[Len(stack)].pc = "load" THEN Pop(stack) ELSE stack

\* Mutant: the mutex is not given back.
ListenerThrow_Locked(t) ==
    /\ InCall(t, "listener")
    /\ \E did \in SUBSET {Current(t)} : m_cbs' = Saw(t, Called(t) \cup did, TRUE)
    /\ calls' = [calls EXCEPT ![t] = Unwind(Pop(@))]
    /\ UNCHANGED <<registry, m_mtx, addVars, returned>>

\* The listener may have done its work before it throws.
ListenerThrow(t) ==
    /\ InCall(t, "listener")
    /\ \E did \in SUBSET {Current(t)} : m_cbs' = Saw(t, Called(t) \cup did, TRUE)
    /\ m_mtx' = [m_mtx EXCEPT ![Top(t).v] = Nobody]
    /\ calls' = [calls EXCEPT ![t] = Unwind(Pop(@))]
    /\ UNCHANGED <<registry, addVars, returned>>

AssignReturn(t) ==
    LET below == Pop(calls[t])
        loads == below # <<>> /\ below[Len(below)].pc = "load"
    IN  calls' = [u \in Threads |-> IF u # t THEN Disturbed(calls[u])
                                   ELSE IF loads THEN below ELSE Disturbed(below)]

\* Mutant: the value is assigned before the listeners are called.
SetValueAssign_Early(t) ==
    /\ InCall(t, "assign") \/ InCall(t, "listener")
    /\ LET v == Top(t).v
       IN  /\ m_val' = [m_val EXCEPT ![v] = Top(t).val]
           /\ m_mtx' = [m_mtx EXCEPT ![v] = Nobody]
    /\ AssignReturn(t)
    /\ UNCHANGED <<m_datas, m_cbs, addVars, returned>>

\* m_val = val, and the mutex.
SetValueAssign(t) ==
    /\ InCall(t, "assign")
    /\ LET v == Top(t).v
       IN  /\ m_val' = [m_val EXCEPT ![v] = Top(t).val]
           /\ m_mtx' = [m_mtx EXCEPT ![v] = Nobody]
    /\ AssignReturn(t)
    /\ UNCHANGED <<m_datas, m_cbs, addVars, returned>>
-----------------------------------------------------------------------------
(***************************************************************************)
(* LoadFromYaml, with ParseAllNodes' list of keys and values as its input. *)
(***************************************************************************)
LoadFromYaml(t, doc) ==
    /\ Free(t)
    /\ calls' = [calls EXCEPT ![t] =
          <<[pc |-> "load", doc |-> doc, i |-> 1, before |-> m_val, alone |-> TRUE]>>]
    /\ UNCHANGED <<registry, m_cbs, m_mtx, addVars, returned>>

\* Mutant: a bad value is passed over.
LoadNext_SkipsBad(t) ==
    /\ InCall(t, "load")
    /\ LET f == Top(t)
           key == f.doc[f.i][1]
           value == f.doc[f.i][2]
           later == [f EXCEPT !.i = @ + 1]
       IN  calls' = [calls EXCEPT ![t] =
              IF f.i > Len(f.doc) \/ key = BadName
              THEN Pop(@)
              ELSE IF key \in m_datas /\ value # BadValue THEN <<later, SetFrame(key, value)>>
              ELSE <<later>>]
    /\ UNCHANGED <<registry, m_cbs, m_mtx, addVars, returned>>

\* A bad key or value throws and ends the call, a key that is not registered is passed over,
\* any other sets its variable.
LoadNext(t) ==
    /\ InCall(t, "load")
    /\ LET f == Top(t)
           key == f.doc[f.i][1]
           value == f.doc[f.i][2]
           later == [f EXCEPT !.i = @ + 1]
       IN  calls' = [calls EXCEPT ![t] =
              IF \/ f.i > Len(f.doc)
                 \/ key = BadName
                 \/ key \in m_datas /\ value = BadValue
              THEN Pop(@)
              ELSE IF key \in m_datas THEN <<later, SetFrame(key, value)>> ELSE <<later>>]
    /\ UNCHANGED <<registry, m_cbs, m_mtx, addVars, returned>>
-----------------------------------------------------------------------------
(***************************************************************************)
(* Adding and removing listeners.                                          *)
(***************************************************************************)
\* The mutex, and the load in ++monotone_key.
AddListener(t, v) ==
    /\ Free(t)
    /\ v \in m_datas /\ m_mtx[v] = Nobody
    /\ adds < MaxAdds
    /\ m_mtx' = [m_mtx EXCEPT ![v] = t]
    /\ adds' = adds + 1
    /\ add' = [add EXCEPT ![t] = [pc |-> "store", v |-> v, call |-> adds + 1, tmp |-> monotone_key]]
    /\ overlap' = (overlap \/ \E u \in Threads : add[u].pc # "idle" /\ add[u].v # v)
    /\ UNCHANGED <<registry, m_cbs, monotone_key, calls, returned>>

AddStore(t) ==
    /\ add[t].pc = "store"
    /\ monotone_key' = add[t].tmp + 1
    /\ add' = [add EXCEPT ![t].pc = "emplace"]
    /\ UNCHANGED <<registry, m_cbs, m_mtx, calls, adds, returned, overlap>>

\* emplace reads the counter again and leaves a key that is there as it is.
AddEmplace(t) ==
    /\ add[t].pc = "emplace"
    /\ LET v == add[t].v
           entry == [call |-> add[t].call, saw |-> m_val[v], misled |-> FALSE]
       IN  m_cbs' = [m_cbs EXCEPT ![v] =
              [k \in DOMAIN @ \cup {monotone_key} |-> IF k \in DOMAIN @ THEN @[k] ELSE entry]]
    /\ add' = [add EXCEPT ![t].pc = "return"]
    /\ UNCHANGED <<registry, m_mtx, calls, monotone_key, adds, returned, overlap>>

\* Mutant: what is returned is the counter before the increment.
AddReturn_Before(t) ==
    /\ add[t].pc = "return"
    /\ returned' = returned \cup {<<add[t].v, add[t].tmp, add[t].call>>}
    /\ m_mtx' = [m_mtx EXCEPT ![add[t].v] = Nobody]
    /\ add' = [add EXCEPT ![t] = NoAdd]
    /\ UNCHANGED <<registry, m_cbs, calls, monotone_key, adds, overlap>>

\* return monotone_key.
AddReturn(t) ==
    /\ add[t].pc = "return"
    /\ returned' = returned \cup {<<add[t].v, monotone_key, add[t].call>>}
    /\ m_mtx' = [m_mtx EXCEPT ![add[t].v] = Nobody]
    /\ add' = [add EXCEPT ![t] = NoAdd]
    /\ UNCHANGED <<registry, m_cbs, calls, monotone_key, adds, overlap>>

Remove(v, keys) ==
    /\ m_cbs' = [m_cbs EXCEPT ![v] = [k \in DOMAIN @ \ keys |-> @[k]]]
    /\ returned' = {r \in returned : ~(r[1] = v /\ r[2] \in keys)}

DelListener(t, v, k) ==
    /\ Free(t) /\ v \in m_datas /\ m_mtx[v] = Nobody
    /\ k \in DOMAIN m_cbs[v]
    /\ Remove(v, {k})
    /\ UNCHANGED <<registry, m_mtx, calls, addVars>>

ClearListener(t, v) ==
    /\ Free(t) /\ v \in m_datas /\ m_mtx[v] = Nobody
    /\ Remove(v, DOMAIN m_cbs[v])
    /\ UNCHANGED <<registry, m_mtx, calls, addVars>>
-----------------------------------------------------------------------------
VarNext(t, v) == \/ LookUp(t, v)
                 \/ \E x \in Values : SetValueCall(t, v, x)
                 \/ AddListener(t, v)
                 \/ \E k \in 1..MaxAdds : DelListener(t, v, k)
                 \/ ClearListener(t, v)

SetStep(t) == ListenerReturn(t) \/ ListenerThrow(t) \/ SetValueAssign(t)
AddStep(t) == AddStore(t) \/ AddEmplace(t) \/ AddReturn(t)

Next == \E t \in Threads :
            \/ \E v \in Vars : VarNext(t, v)
            \/ \E doc \in Docs : LoadFromYaml(t, doc)
            \/ LoadNext(t)
            \/ SetValueLock(t)
            \/ SetStep(t)
            \/ AddStep(t)

Spec == Init /\ [][Next]_vars

(***************************************************************************)
(* Fairness: threads run, listeners end, and a thread that asks for a      *)
(* mutex that is free again and again gets it.                             *)
(***************************************************************************)
Fairness == \A t \in Threads : /\ WF_vars(SetStep(t)) /\ WF_vars(AddStep(t)) /\ WF_vars(LoadNext(t))
                               /\ SF_vars(SetValueLock(t))

FairSpec == Spec /\ Fairness
-----------------------------------------------------------------------------
(***************************************************************************)
(* Properties.                                                             *)
(***************************************************************************)
Holds(t) == {v \in Vars : m_mtx[v] = t}

\* The variables keep their types, and a thread holds the mutexes of exactly those variables
\* in whose SetValue or AddListener it is.
TypeOK ==
    /\ m_datas \subseteq Vars
    /\ m_val \in [Vars -> Values]
    /\ \A v \in Vars : \A k \in DOMAIN m_cbs[v] : k \in 1..MaxAdds /\ m_cbs[v][k].saw \in Values
    /\ m_mtx \in [Vars -> Threads \cup {Nobody}]
    /\ monotone_key \in 0..MaxAdds /\ adds \in 0..MaxAdds
    /\ \A t \in Threads :
          Holds(t) = {v \in Vars : add[t].pc # "idle" /\ add[t].v = v}
                     \cup {calls[t][i].v : i \in {j \in DOMAIN calls[t] :
                                                    calls[t][j].pc \in {"listener", "assign"}}}

\* While nobody is in SetValue or AddListener of a variable, every listener has seen the
\* variable's value, whatever the threads and the listeners set meanwhile: unless a listener
\* that was called after it threw, so that it saw a value that was not assigned.
ListenersInStep ==
    \A v \in Vars : m_mtx[v] = Nobody =>
        \A k \in DOMAIN m_cbs[v] : m_cbs[v][k].misled \/ m_cbs[v][k].saw = m_val[v]

\* The key that AddListener returned removes the listener that was added, and no other:
\* unless two AddListener of different variables overlapped, which share the counter.
KeysNameListeners ==
    ~overlap => \A r \in returned :
        r[2] \in DOMAIN m_cbs[r[1]] /\ m_cbs[r[1]][r[2]].call = r[3]

\* The values after the first n entries of a document.
Prefix(before, doc, n) ==
    [v \in Vars |->
        LET hits == {i \in 1..n : doc[i][1] = v}
        IN  IF v \in m_datas /\ hits # {} THEN doc[Max(hits)][2] ELSE before[v]]

\* As long as nobody else sets or registers a variable, LoadFromYaml has at any time, also
\* when it is about to throw, set what the entries before the current one say and nothing else.
LoadIsPrefix ==
    \A t \in Threads :
        InCall(t, "load") /\ Top(t).alone =>
            m_val = Prefix(Top(t).before, Top(t).doc, Top(t).i - 1)

Waits(t) == InCall(t, "lock") /\ m_mtx[Top(t).v] # Nobody

\* Listeners set, themselves or through the listeners that this calls, only variables that rank
\* higher than their own.
Ranked(rank) ==
    \A t \in Threads : \A i, j \in 1..Len(calls[t]) :
        i < j /\ calls[t][i].pc = "listener" => rank[calls[t][i].v] < rank[calls[t][j].v]

\* The mutexes that SetValue holds while it calls listeners lead to no deadlock as long as the
\* variables can be ranked: of the threads in a call one can go on, although nobody takes the
\* mutexes in an order, and AddListener and LoadFromYaml get in between.
NoDeadlock ==
    /\ \E t \in Threads : ~Free(t)
    /\ \E rank \in [Vars -> 1..Cardinality(Vars)] : Ranked(rank)
    => \E t \in Threads : ~Free(t) /\ ~Waits(t)

\* t waits for a mutex, and following who waits for whom never gets to a thread that runs.
WaitsFor(t) == IF InCall(t, "lock") THEN m_mtx[Top(t).v] ELSE Nobody
Deadlocked(t) ==
    LET after[n \in 0..Cardinality(Threads)] ==
            IF n = 0 THEN t ELSE IF after[n - 1] = Nobody THEN Nobody ELSE WaitsFor(after[n - 1])
    IN  after[Cardinality(Threads)] # Nobody

\* A call of SetValue or LoadFromYaml ends, unless listeners set variables in a circle.  The
\* threads are all alike: what holds of one of them holds of each.
SetValueEnds ==
    LET t == CHOOSE u \in Threads : TRUE
    IN  calls[t] # <<>> ~> calls[t] = <<>> \/ Deadlocked(t)
=============================================================================

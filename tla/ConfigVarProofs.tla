-------------------------- MODULE ConfigVarProofs --------------------------
(***************************************************************************)
(* What TLAPS proves of ConfigVar for every number of threads, variables   *)
(* and values, every set of documents, and every depth of nested calls.    *)
(***************************************************************************)
EXTENDS ConfigVar, TLAPS, SequenceTheorems, FiniteSetTheorems

Facts == INSTANCE SequenceFacts

SetFrames == [pc : {"lock", "listener", "assign"}, v : Vars, val : Values, todo : SUBSET Nat,
              nested : Nat]
LoadFrames == [pc : {"load"}, doc : Docs, i : Nat \ {0}, before : [Vars -> Values],
               alone : BOOLEAN]
Frames == SetFrames \cup LoadFrames
Entries == [call : Nat, saw : Values, misled : BOOLEAN]
Adding == [pc : {"idle", "store", "emplace", "return"}, v : Vars \cup {BadName}, call : Nat,
           tmp : Nat]

\* A load is at the bottom of its stack, and only the call on top waits for a mutex, or assigns.
StackOK(s) ==
    \A i \in 1..Len(s) :
        /\ s[i].pc = "load" => i = 1
        /\ i < Len(s) => s[i].pc \in {"listener", "load"}
        /\ s[i].pc = "listener" => s[i].todo # {}
        /\ s[i].pc = "assign" => s[i].todo = {}

\* The i-th call of a stack is in the critical section of SetValue for v.
InSet(s, i, v) == i \in 1..Len(s) /\ s[i].pc \in {"listener", "assign"} /\ s[i].v = v

\* The types of the parts that TypeOK says nothing of, and of those that the stacks take over.
CallsShape ==
    /\ calls \in [Threads -> Seq(Frames)]
    /\ \A t \in Threads : StackOK(calls[t]) /\ (add[t].pc # "idle" => calls[t] = <<>>)

AddShape == add \in [Threads -> Adding] /\ \A t \in Threads : add[t].pc # "idle" => add[t].v \in Vars

StoreShape ==
    /\ DOMAIN m_cbs = Vars
    /\ \A v \in Vars : DOMAIN m_cbs[v] \subseteq 1..MaxAdds /\ m_cbs[v] \in [DOMAIN m_cbs[v] -> Entries]
    /\ m_datas \subseteq Vars /\ m_val \in [Vars -> Values]
    /\ m_mtx \in [Vars -> Threads \cup {Nobody}]

\* The counter is never ahead of the calls of AddListener.
CounterInv ==
    /\ monotone_key \in Nat /\ adds \in 0..MaxAdds /\ monotone_key <= adds
    /\ \A t \in Threads : /\ add[t].pc = "store" => add[t].tmp + 1 <= adds
                          /\ add[t].pc \in {"emplace", "return"} => monotone_key >= 1

InAdd(t, v) == add[t].pc # "idle" /\ add[t].v = v

\* A mutex is held by the one call that is in a critical section of its variable.
MutexInv ==
    /\ \A t \in Threads, v \in Vars :
          m_mtx[v] = t <=> InAdd(t, v) \/ \E i \in Nat : InSet(calls[t], i, v)
    /\ \A t \in Threads, v \in Vars, i, j \in Nat :
          InSet(calls[t], i, v) /\ InSet(calls[t], j, v) => i = j

\* Inside SetValue the listeners that were called saw the new value, the others the old one.
SawInv ==
    /\ \A t \in Threads, v \in Vars, i \in Nat :
          InSet(calls[t], i, v) =>
              /\ calls[t][i].todo \subseteq DOMAIN m_cbs[v]
              /\ \A k \in DOMAIN m_cbs[v] \ calls[t][i].todo : m_cbs[v][k].saw = calls[t][i].val
    /\ \A v \in Vars : \A k \in DOMAIN m_cbs[v] :
          \/ m_cbs[v][k].misled
          \/ m_cbs[v][k].saw = m_val[v]
          \/ \E t \in Threads, i \in Nat : InSet(calls[t], i, v) /\ k \notin calls[t][i].todo

\* While AddListener of one variable at a time runs, the counter is above all keys when it is
\* used, and what it returns is the key of the new entry.
KeyInv ==
    ~overlap =>
        /\ \A t, u \in Threads : add[t].pc # "idle" /\ add[u].pc # "idle" => t = u
        /\ \A v \in Vars : \A k \in DOMAIN m_cbs[v] : k <= monotone_key
        /\ \A t \in Threads :
              /\ add[t].pc = "store" => add[t].tmp = monotone_key
              /\ add[t].pc = "emplace" => \A v \in Vars : monotone_key \notin DOMAIN m_cbs[v]
              /\ add[t].pc = "return" => /\ monotone_key \in DOMAIN m_cbs[add[t].v]
                                         /\ m_cbs[add[t].v][monotone_key].call = add[t].call
        /\ \A r \in returned : r[1] \in Vars

\* In a load that nobody disturbed the SetValue above it is for the entry before the current one.
LoadOK(s, val) ==
    s # <<>> /\ s[1].pc = "load" /\ s[1].alone =>
        LET f == s[1]
            n == f.i - 1
        IN  /\ n \in 0..Len(f.doc)
            /\ Len(s) = 1 => val = Prefix(f.before, f.doc, n)
            /\ Len(s) > 1 => /\ n >= 1 /\ f.doc[n][1] \in m_datas
                             /\ s[2].v = f.doc[n][1] /\ s[2].val = f.doc[n][2]
                             /\ val = Prefix(f.before, f.doc, n - 1)

LoadInv == \A t \in Threads : LoadOK(calls[t], m_val)

IInv ==
    /\ CallsShape /\ AddShape /\ StoreShape /\ CounterInv /\ MutexInv /\ SawInv
    /\ KeyInv /\ KeysNameListeners /\ LoadInv
-----------------------------------------------------------------------------
(***************************************************************************)
(* Stacks.  Each lemma says of one change of a stack that it keeps it      *)
(* well-formed, and which critical sections it is in afterwards.           *)
(***************************************************************************)
\* The calls of s and of r are in the same critical sections, at the same point of them.
SameSections(s, r) ==
    \A i \in Nat, v \in Vars :
        /\ InSet(r, i, v) <=> InSet(s, i, v)
        /\ InSet(s, i, v) => r[i].todo = s[i].todo /\ r[i].val = s[i].val

\* r is without the section of the call on top of s.
WithoutTop(s, r) ==
    \A i \in Nat, v \in Vars :
        /\ InSet(r, i, v) <=> InSet(s, i, v) /\ i # Len(s)
        /\ InSet(r, i, v) => r[i].todo = s[i].todo /\ r[i].val = s[i].val

LEMMA FrameTypes ==
    ASSUME NEW f \in Frames
    PROVE  /\ f.pc \in {"lock", "listener", "assign", "load"}
           /\ f.pc # "load" => f \in SetFrames
           /\ f.pc = "load" => f \in LoadFrames
BY DEF Frames, SetFrames, LoadFrames

LEMMA PopFacts ==
    ASSUME NEW s \in Seq(Frames), s # <<>>
    PROVE  /\ Pop(s) \in Seq(Frames) /\ Len(s) \in Nat \ {0} /\ Len(Pop(s)) = Len(s) - 1
           /\ \A i \in 1..(Len(s) - 1) : Pop(s)[i] = s[i]
<1>1. Len(s) \in Nat \ {0}
  OBVIOUS
<1>2. \A i \in 1..(Len(s) - 1) : s[i] \in Frames
  BY <1>1
<1>3. /\ Pop(s) \in Seq(Frames)
      /\ Len(Pop(s)) = IF 1 <= Len(s) - 1 THEN Len(s) - 1 - 1 + 1 ELSE 0
      /\ \A i \in 1..(Len(s) - 1 - 1 + 1) : Pop(s)[i] = s[1 + i - 1]
  BY <1>1, <1>2, SubSeqProperties DEF Pop
<1>4. \A i \in 1..(Len(s) - 1) : 1 + i - 1 = i /\ i \in 1..(Len(s) - 1 - 1 + 1)
  BY <1>1
<1>5. Len(Pop(s)) = Len(s) - 1
  <2>1. ASSUME NEW n \in Nat \ {0}
        PROVE  (IF 1 <= n - 1 THEN n - 1 - 1 + 1 ELSE 0) = n - 1
    OBVIOUS
  <2> QED
    BY <1>1, <1>3, <2>1
<1> QED
  BY <1>1, <1>3, <1>4, <1>5

LEMMA PopStack ==
    ASSUME NEW s \in Seq(Frames), s # <<>>, StackOK(s)
    PROVE  StackOK(Pop(s)) /\ WithoutTop(s, Pop(s))
<1> DEFINE r == Pop(s)
<1>1. /\ Len(s) \in Nat \ {0} /\ Len(r) = Len(s) - 1
      /\ \A i \in 1..(Len(s) - 1) : r[i] = s[i]
  BY PopFacts
<1> HIDE DEF r
<1>2. StackOK(r)
  BY <1>1 DEF StackOK
<1>3. WithoutTop(s, r)
  BY <1>1 DEF WithoutTop, InSet
<1> QED
  BY <1>2, <1>3 DEF r

LEMMA UnwindStack ==
    ASSUME NEW s \in Seq(Frames), s # <<>>, StackOK(s)
    PROVE  /\ Unwind(Pop(s)) \in Seq(Frames) /\ StackOK(Unwind(Pop(s)))
           /\ WithoutTop(s, Unwind(Pop(s)))
<1> DEFINE r == Pop(s)
<1>1. r \in Seq(Frames) /\ StackOK(r) /\ WithoutTop(s, r)
  BY PopFacts, PopStack
<1> HIDE DEF r
<1>2. CASE r # <<>> /\ r[Len(r)].pc = "load"
  <2>1. Unwind(r) = Pop(r) /\ Pop(r) \in Seq(Frames) /\ StackOK(Pop(r)) /\ WithoutTop(r, Pop(r))
    BY <1>1, <1>2, PopFacts, PopStack DEF Unwind
  <2>2. \A v \in Vars : ~InSet(r, Len(r), v)
    BY <1>2 DEF InSet
  <2>3. WithoutTop(s, Pop(r))
    BY <1>1, <2>1, <2>2 DEF WithoutTop
  <2> QED
    BY <2>1, <2>3 DEF r
<1>3. CASE ~(r # <<>> /\ r[Len(r)].pc = "load")
  BY <1>1, <1>3 DEF Unwind, r
<1> QED
  BY <1>2, <1>3

LEMMA DisturbedStack ==
    ASSUME NEW s \in Seq(Frames), StackOK(s)
    PROVE  /\ Disturbed(s) \in Seq(Frames) /\ Len(Disturbed(s)) = Len(s)
           /\ StackOK(Disturbed(s)) /\ SameSections(s, Disturbed(s))
           /\ s # <<>> /\ s[1].pc = "load" => Disturbed(s)[1].pc = "load" /\ ~Disturbed(s)[1].alone
           /\ s # <<>> /\ s[1].pc # "load" => Disturbed(s) = s
<1>1. CASE s # <<>> /\ s[1].pc = "load"
  <2> DEFINE g == [s[1] EXCEPT !.alone = FALSE]
             r == [s EXCEPT ![1] = g]
  <2>1. 1 \in 1..Len(s) /\ s[1] \in LoadFrames
    BY <1>1, FrameTypes
  <2>2. g \in LoadFrames /\ g.pc = "load" /\ ~g.alone
    BY <2>1 DEF LoadFrames
  <2> HIDE DEF g
  <2>3. /\ r \in Seq(Frames) /\ Len(r) = Len(s) /\ r[1] = g
        /\ \A i \in 1..Len(s) : i # 1 => r[i] = s[i]
    BY <2>1, <2>2 DEF Frames
  <2>4. Disturbed(s) = r
    BY <1>1 DEF Disturbed, g
  <2> HIDE DEF r
  <2>5. StackOK(r) /\ SameSections(s, r)
    BY <1>1, <2>2, <2>3 DEF StackOK, SameSections, InSet
  <2> QED
    BY <1>1, <2>2, <2>3, <2>4, <2>5
<1>2. CASE ~(s # <<>> /\ s[1].pc = "load")
  BY <1>2 DEF Disturbed, SameSections
<1> QED
  BY <1>1, <1>2

\* The call on top calls the listeners in todo.
LEMMA CallingStack ==
    ASSUME NEW s \in Seq(Frames), s # <<>>, StackOK(s), s[Len(s)] \in SetFrames,
           NEW todo \in SUBSET Nat
    PROVE  LET n == Len(s)
               r == [s EXCEPT ![n] = Calling(s[n], todo)]
           IN  /\ r \in Seq(Frames) /\ StackOK(r) /\ Len(r) = n
               /\ r[n].v = s[n].v /\ r[n].val = s[n].val /\ r[n].todo = todo
               /\ r[n].pc \in {"listener", "assign"}
               /\ \A i \in 1..(n - 1) : r[i] = s[i]
<1> DEFINE n == Len(s)
           g == Calling(s[n], todo)
           r == [s EXCEPT ![n] = g]
<1>1. n \in 1..Len(s) /\ n \in Nat
  OBVIOUS
<1>2. /\ g \in SetFrames /\ g.v = s[n].v /\ g.val = s[n].val /\ g.todo = todo
      /\ g.pc = IF todo = {} THEN "assign" ELSE "listener"
  BY DEF Calling, SetFrames
<1> HIDE DEF g
<1>3. /\ r \in Seq(Frames) /\ Len(r) = n /\ r[n] = g
      /\ \A i \in 1..Len(s) : i # n => r[i] = s[i]
  BY <1>1, <1>2 DEF Frames
<1> HIDE DEF r, n
<1>4. StackOK(r)
  <2> SUFFICES ASSUME NEW i \in 1..Len(r)
               PROVE  /\ r[i].pc = "load" => i = 1
                      /\ i < Len(r) => r[i].pc \in {"listener", "load"}
                      /\ r[i].pc = "listener" => r[i].todo # {}
                      /\ r[i].pc = "assign" => r[i].todo = {}
    BY DEF StackOK
  <2>1. CASE i = n
    <3>1. r[i] = g /\ Len(r) = i /\ i \in Nat
      BY <1>1, <1>3, <2>1
    <3>2. CASE todo = {}
      BY <1>2, <3>1, <3>2
    <3>3. CASE todo # {}
      BY <1>2, <3>1, <3>3
    <3> QED
      BY <3>2, <3>3
  <2>2. CASE i # n
    <3>1. i \in 1..Len(s) /\ r[i] = s[i] /\ Len(r) = Len(s)
      BY <1>3, <2>2 DEF n
    <3> QED
      BY <3>1 DEF StackOK
  <2> QED
    BY <2>1, <2>2
<1>5. /\ r[n].v = s[n].v /\ r[n].val = s[n].val /\ r[n].todo = todo
      /\ r[n].pc \in {"listener", "assign"}
  BY <1>2, <1>3
<1>6. \A i \in 1..(n - 1) : r[i] = s[i]
  BY <1>1, <1>3 DEF n
<1> QED
  BY <1>3, <1>4, <1>5, <1>6 DEF r, n, g

\* A listener calls SetValue.
LEMMA NestedStack ==
    ASSUME NEW s \in Seq(Frames), s # <<>>, StackOK(s), s[Len(s)].pc = "listener",
           NEW v \in Vars, NEW x \in Values
    PROVE  LET r == Append([s EXCEPT ![Len(s)].nested = @ + 1], SetFrame(v, x))
           IN  /\ r \in Seq(Frames) /\ StackOK(r) /\ SameSections(s, r)
               /\ Len(r) = Len(s) + 1 /\ \A i \in 1..(Len(s) - 1) : r[i] = s[i]
               /\ r[Len(s)].pc = "listener" /\ r[Len(s)].v = s[Len(s)].v /\ r[Len(s)].val = s[Len(s)].val
<1> DEFINE n == Len(s)
           g == [s[n] EXCEPT !.nested = @ + 1]
           f == SetFrame(v, x)
           q == [s EXCEPT ![n] = g]
           r == Append(q, f)
<1>1. n \in 1..Len(s) /\ n \in Nat /\ s[n] \in SetFrames
  BY FrameTypes
<1>2. /\ g \in SetFrames /\ g.pc = "listener" /\ g.v = s[n].v /\ g.val = s[n].val
      /\ g.todo = s[n].todo
  BY <1>1 DEF SetFrames
<1>3. f \in SetFrames /\ f.pc = "lock"
  BY DEF SetFrame, SetFrames
<1>4. q = [s EXCEPT ![Len(s)].nested = @ + 1]
  BY <1>1
<1> HIDE DEF f, g
<1>5. q \in Seq(Frames) /\ Len(q) = n /\ q[n] = g /\ \A i \in 1..n : i # n => q[i] = s[i]
  BY <1>1, <1>2 DEF Frames
<1> HIDE DEF q
<1>6. r \in Seq(Frames) /\ Len(r) = n + 1 /\ r[n + 1] = f /\ \A i \in 1..n : r[i] = q[i]
  BY <1>1, <1>3, <1>5 DEF Frames
<1> HIDE DEF r, n
<1>7. StackOK(r)
  BY <1>1, <1>2, <1>3, <1>5, <1>6 DEF StackOK, n
<1>8. SameSections(s, r)
  BY <1>1, <1>2, <1>3, <1>5, <1>6 DEF SameSections, InSet, n
<1>9. \A i \in 1..(n - 1) : r[i] = s[i]
  BY <1>1, <1>5, <1>6
<1>10. r[n] = g /\ Len(r) = n + 1
  BY <1>1, <1>5, <1>6
<1>11. r = Append([s EXCEPT ![Len(s)].nested = @ + 1], SetFrame(v, x)) /\ n = Len(s)
  BY <1>4 DEF r, f, n
<1> QED
  BY <1>2, <1>6, <1>7, <1>8, <1>9, <1>10, <1>11
-----------------------------------------------------------------------------
(***************************************************************************)
(* What each action does to the stacks.                                    *)
(***************************************************************************)
\* No call enters or leaves a critical section.
SectionsStay == \A u \in Threads : SameSections(calls[u], calls'[u])

LEMMA TopOfStack ==
    ASSUME CallsShape, NEW t \in Threads, calls[t] # <<>>
    PROVE  /\ calls[t] \in Seq(Frames) /\ StackOK(calls[t])
           /\ Len(calls[t]) \in Nat \ {0} /\ Top(t) = calls[t][Len(calls[t])] /\ Top(t) \in Frames
           /\ Top(t).pc # "load" => Top(t) \in SetFrames
           /\ Top(t).pc = "load" => Top(t) \in LoadFrames /\ Len(calls[t]) = 1
           /\ add[t].pc = "idle"
<1>1. calls[t] \in Seq(Frames) /\ StackOK(calls[t]) /\ add[t].pc = "idle"
  BY DEF CallsShape
<1>2. Len(calls[t]) \in Nat \ {0}
  BY <1>1
<1>3. Top(t) = calls[t][Len(calls[t])] /\ Top(t) \in Frames
  BY <1>1, <1>2 DEF Top
<1>4. Top(t).pc = "load" => Len(calls[t]) = 1
  <2>1. Len(calls[t]) \in 1..Len(calls[t])
    BY <1>2
  <2> QED
    BY <1>1, <1>3, <2>1 DEF StackOK
<1> QED
  BY <1>1, <1>2, <1>3, <1>4, FrameTypes

\* The stack of t becomes r.
LEMMA StackUpdate ==
    ASSUME CallsShape, NEW t \in Threads, NEW r \in Seq(Frames), StackOK(r),
           calls' = [calls EXCEPT ![t] = r], add[t].pc = "idle", add' = add
    PROVE  /\ CallsShape' /\ calls'[t] = r
           /\ \A u \in Threads \ {t} : calls'[u] = calls[u]
           /\ SameSections(calls[t], r) => SectionsStay
BY DEF CallsShape, SectionsStay, SameSections

LEMMA LookUpCalls ==
    ASSUME CallsShape, NEW t \in Threads, NEW v \in Vars, LookUp(t, v)
    PROVE  CallsShape' /\ SectionsStay
<1>1. calls' = [u \in Threads |-> Disturbed(calls[u])] /\ add' = add
  BY DEF LookUp, addVars
<1>2. ASSUME NEW u \in Threads
      PROVE  /\ calls'[u] \in Seq(Frames) /\ StackOK(calls'[u]) /\ SameSections(calls[u], calls'[u])
             /\ calls[u] = <<>> => calls'[u] = <<>>
  <2>1. calls[u] \in Seq(Frames) /\ StackOK(calls[u]) /\ calls'[u] = Disturbed(calls[u])
    BY <1>1 DEF CallsShape
  <2>2. calls[u] = <<>> => Disturbed(calls[u]) = <<>>
    BY DEF Disturbed
  <2> QED
    BY <2>1, <2>2, DisturbedStack
<1> QED
  BY <1>1, <1>2 DEF CallsShape, SectionsStay

LEMMA SetValueCallCalls ==
    ASSUME CallsShape, StoreShape, NEW t \in Threads, NEW v \in Vars, NEW x \in Values,
           SetValueCall(t, v, x)
    PROVE  CallsShape' /\ SectionsStay
<1>1. add' = add
  BY DEF SetValueCall, addVars
<1>2. CASE Free(t) /\ calls' = [calls EXCEPT ![t] = <<SetFrame(v, x)>>]
  <2> DEFINE f == SetFrame(v, x)
  <2>1. f \in Frames /\ f.pc = "lock"
    BY DEF SetFrame, SetFrames, Frames
  <2> HIDE DEF f
  <2>2. <<f>> \in Seq(Frames) /\ Len(<<f>>) = 1 /\ <<f>>[1] = f
    BY <2>1
  <2>3. StackOK(<<f>>) /\ SameSections(<<>>, <<f>>)
    BY <2>1, <2>2 DEF StackOK, SameSections, InSet
  <2> QED
    BY <1>1, <1>2, <2>2, <2>3, StackUpdate DEF Free, f
<1>3. CASE /\ InCall(t, "listener")
           /\ calls' = [calls EXCEPT ![t] =
                  Append([calls[t] EXCEPT ![Len(calls[t])].nested = @ + 1], SetFrame(v, x))]
  <2> DEFINE s == calls[t]
             r == Append([s EXCEPT ![Len(s)].nested = @ + 1], SetFrame(v, x))
  <2>1. s # <<>> /\ s \in Seq(Frames) /\ StackOK(s) /\ s[Len(s)].pc = "listener" /\ add[t].pc = "idle"
    BY <1>3, TopOfStack DEF InCall
  <2>2. r \in Seq(Frames) /\ StackOK(r) /\ SameSections(s, r)
    BY <2>1, NestedStack
  <2>3. calls' = [calls EXCEPT ![t] = r]
    BY <1>3
  <2> HIDE DEF r
  <2> QED
    BY <1>1, <2>1, <2>2, <2>3, StackUpdate
<1> QED
  BY <1>2, <1>3 DEF SetValueCall

LEMMA LoadFromYamlCalls ==
    ASSUME CallsShape, StoreShape, NEW t \in Threads, NEW doc \in Docs, LoadFromYaml(t, doc)
    PROVE  CallsShape' /\ SectionsStay
<1> DEFINE f == [pc |-> "load", doc |-> doc, i |-> 1, before |-> m_val, alone |-> TRUE]
<1>1. f \in Frames /\ f.pc = "load"
  BY DEF LoadFrames, Frames, StoreShape
<1>2. add' = add /\ Free(t) /\ calls' = [calls EXCEPT ![t] = <<f>>]
  BY DEF LoadFromYaml, addVars
<1> HIDE DEF f
<1>3. <<f>> \in Seq(Frames) /\ Len(<<f>>) = 1 /\ <<f>>[1] = f
  BY <1>1
<1>4. StackOK(<<f>>) /\ SameSections(<<>>, <<f>>)
  BY <1>1, <1>3 DEF StackOK, SameSections, InSet
<1> QED
  BY <1>2, <1>3, <1>4, StackUpdate DEF Free

\* The three ends of a turn of LoadFromYaml.
LEMMA LoadNextCases ==
    ASSUME CallsShape, StoreShape, NEW t \in Threads, LoadNext(t)
    PROVE  LET f == calls[t][1]
               later == [f EXCEPT !.i = @ + 1]
               key == f.doc[f.i][1]
               value == f.doc[f.i][2]
           IN  /\ calls[t] # <<>> /\ Len(calls[t]) = 1 /\ f \in LoadFrames /\ later \in LoadFrames
               /\ add[t].pc = "idle" /\ add' = add
               /\ \/ calls' = [calls EXCEPT ![t] = Pop(calls[t])]
                  \/ /\ f.i <= Len(f.doc) /\ key \notin m_datas
                     /\ calls' = [calls EXCEPT ![t] = <<later>>]
                  \/ /\ f.i <= Len(f.doc) /\ key \in m_datas /\ value \in Values
                     /\ calls' = [calls EXCEPT ![t] = <<later, SetFrame(key, value)>>]
<1> DEFINE f == calls[t][1]
           later == [f EXCEPT !.i = @ + 1]
           key == f.doc[f.i][1]
           value == f.doc[f.i][2]
<1>1. calls[t] # <<>> /\ Top(t).pc = "load" /\ add' = add
  BY DEF LoadNext, InCall, addVars
<1>2. Len(calls[t]) = 1 /\ f = Top(t) /\ f \in LoadFrames /\ add[t].pc = "idle"
  BY <1>1, TopOfStack
<1>3. later \in LoadFrames
  BY <1>2 DEF LoadFrames
<1>4. f.i <= Len(f.doc) => value \in Values \cup {BadValue}
  <2>1. f.doc \in Seq((Vars \cup {BadName}) \X (Values \cup {BadValue})) /\ f.i \in Nat \ {0}
    BY <1>2, ConfigAssumption DEF LoadFrames
  <2>2. f.i <= Len(f.doc) => f.doc[f.i] \in (Vars \cup {BadName}) \X (Values \cup {BadValue})
    BY <2>1
  <2> QED
    BY <2>2
<1>5. f.i <= Len(f.doc) <=> ~(f.i > Len(f.doc))
  <2>1. f.i \in Nat /\ f.doc \in Seq((Vars \cup {BadName}) \X (Values \cup {BadValue}))
    BY <1>2, ConfigAssumption DEF LoadFrames
  <2>2. Len(f.doc) \in Nat
    BY <2>1
  <2> QED
    BY <2>1, <2>2
<1>6. calls' = [calls EXCEPT ![t] =
          IF \/ f.i > Len(f.doc)
             \/ key = BadName
             \/ key \in m_datas /\ value = BadValue
          THEN Pop(calls[t])
          ELSE IF key \in m_datas THEN <<later, SetFrame(key, value)>> ELSE <<later>>]
  BY <1>2 DEF LoadNext
<1> HIDE DEF f, later, key, value
<1>7. \/ calls' = [calls EXCEPT ![t] = Pop(calls[t])]
      \/ f.i <= Len(f.doc) /\ key \notin m_datas /\ calls' = [calls EXCEPT ![t] = <<later>>]
      \/ /\ f.i <= Len(f.doc) /\ key \in m_datas /\ value \in Values
         /\ calls' = [calls EXCEPT ![t] = <<later, SetFrame(key, value)>>]
  BY <1>4, <1>5, <1>6
<1> QED
  BY <1>1, <1>2, <1>3, <1>7 DEF f, later, key, value

LEMMA LoadNextCalls ==
    ASSUME CallsShape, StoreShape, NEW t \in Threads, LoadNext(t)
    PROVE  CallsShape' /\ SectionsStay
<1> DEFINE s == calls[t]
           f == s[1]
           later == [f EXCEPT !.i = @ + 1]
<1>1. /\ s # <<>> /\ s \in Seq(Frames) /\ StackOK(s) /\ Len(s) = 1
      /\ f.pc = "load" /\ later \in LoadFrames /\ add[t].pc = "idle" /\ add' = add
  BY LoadNextCases, TopOfStack DEF LoadFrames
<1>2. later \in Frames /\ later.pc = "load"
  BY <1>1 DEF LoadFrames, Frames
<1> HIDE DEF later
<1>3. CASE calls' = [calls EXCEPT ![t] = Pop(s)]
  <2>1. Pop(s) \in Seq(Frames) /\ StackOK(Pop(s)) /\ WithoutTop(s, Pop(s))
    BY <1>1, PopFacts, PopStack
  <2>2. SameSections(s, Pop(s))
    BY <1>1, <2>1 DEF SameSections, WithoutTop, InSet
  <2> QED
    BY <1>1, <1>3, <2>1, <2>2, StackUpdate
<1>4. CASE calls' = [calls EXCEPT ![t] = <<later>>]
  <2>1. <<later>> \in Seq(Frames) /\ Len(<<later>>) = 1 /\ <<later>>[1] = later
    BY <1>2
  <2>2. StackOK(<<later>>) /\ SameSections(s, <<later>>)
    BY <1>1, <1>2, <2>1 DEF StackOK, SameSections, InSet
  <2> QED
    BY <1>1, <1>4, <2>1, <2>2, StackUpdate
<1>5. ASSUME NEW key \in Vars, NEW value \in Values,
             calls' = [calls EXCEPT ![t] = <<later, SetFrame(key, value)>>]
      PROVE  CallsShape' /\ SectionsStay
  <2> DEFINE g == SetFrame(key, value)
             r == <<later, g>>
  <2>1. g \in Frames /\ g.pc = "lock"
    BY DEF SetFrame, SetFrames, Frames
  <2> HIDE DEF g
  <2>2. r \in Seq(Frames) /\ Len(r) = 2 /\ r[1] = later /\ r[2] = g
    BY <1>2, <2>1
  <2> HIDE DEF r
  <2>3. StackOK(r) /\ SameSections(s, r)
    BY <1>1, <1>2, <2>1, <2>2 DEF StackOK, SameSections, InSet
  <2>4. calls' = [calls EXCEPT ![t] = r]
    BY <1>5 DEF r, g
  <2> QED
    BY <1>1, <2>2, <2>3, <2>4, StackUpdate
<1> DEFINE key == f.doc[f.i][1]
           value == f.doc[f.i][2]
<1>6. \/ calls' = [calls EXCEPT ![t] = Pop(s)]
      \/ calls' = [calls EXCEPT ![t] = <<later>>]
      \/ /\ key \in m_datas /\ value \in Values
         /\ calls' = [calls EXCEPT ![t] = <<later, SetFrame(key, value)>>]
  BY LoadNextCases DEF later
<1> HIDE DEF key, value
<1>7. m_datas \subseteq Vars
  BY DEF StoreShape
<1> QED
  BY <1>3, <1>4, <1>5, <1>6, <1>7
-----------------------------------------------------------------------------
\* Nobody enters or leaves a critical section, and what the sections protect stays as it is.
Quiet ==
    /\ CallsShape' /\ SectionsStay
    /\ UNCHANGED <<m_val, m_cbs, m_mtx, addVars, returned>>

OthersStay(t) == \A u \in Threads : u # t => SameSections(calls[u], calls'[u])

\* The n-th call of t is all that changes.
OnlyChange(t, n) ==
    \A i \in Nat, w \in Vars : i # n =>
        /\ InSet(calls'[t], i, w) <=> InSet(calls[t], i, w)
        /\ InSet(calls[t], i, w) => /\ calls'[t][i].todo = calls[t][i].todo
                                    /\ calls'[t][i].val = calls[t][i].val

\* The n-th call of t enters the critical section of v to set x.
Enters(t, n, v, x) ==
    /\ n \in Nat /\ v \in Vars /\ x \in Values
    /\ \A w \in Vars : ~InSet(calls[t], n, w) /\ (InSet(calls'[t], n, w) <=> w = v)
    /\ calls'[t][n].todo = DOMAIN m_cbs[v] /\ calls'[t][n].val = x
    /\ OnlyChange(t, n) /\ OthersStay(t)

\* The n-th call of t, in the section of v to set x, goes on with other listeners to call.
GoesOn(t, n, v, x, todo) ==
    /\ \A w \in Vars : InSet(calls'[t], n, w) <=> InSet(calls[t], n, w)
    /\ calls'[t][n].todo = todo /\ calls'[t][n].val = x
    /\ OnlyChange(t, n) /\ OthersStay(t)

Leaves(t) == WithoutTop(calls[t], calls'[t]) /\ OthersStay(t)

LEMMA TopSection ==
    ASSUME CallsShape, NEW t \in Threads, InCall(t, "listener") \/ InCall(t, "assign")
    PROVE  /\ Len(calls[t]) \in Nat /\ Top(t) = calls[t][Len(calls[t])] /\ Top(t) \in SetFrames
           /\ Top(t).v \in Vars /\ Top(t).val \in Values /\ Top(t).todo \in SUBSET Nat
           /\ InSet(calls[t], Len(calls[t]), Top(t).v)
           /\ InCall(t, "assign") => Top(t).todo = {}
           /\ InCall(t, "listener") => Top(t).todo # {}
           /\ add[t].pc = "idle"
<1>1. /\ Len(calls[t]) \in Nat \ {0} /\ Top(t) = calls[t][Len(calls[t])] /\ Top(t) \in SetFrames
      /\ StackOK(calls[t]) /\ add[t].pc = "idle" /\ Top(t).pc \in {"listener", "assign"}
  BY TopOfStack DEF InCall
<1>2. Len(calls[t]) \in 1..Len(calls[t])
  BY <1>1
<1>3. Top(t).v \in Vars /\ Top(t).val \in Values /\ Top(t).todo \in SUBSET Nat
  BY <1>1 DEF SetFrames
<1>4. InSet(calls[t], Len(calls[t]), Top(t).v)
  BY <1>1, <1>2 DEF InSet
<1>5. (InCall(t, "assign") => Top(t).todo = {}) /\ (InCall(t, "listener") => Top(t).todo # {})
  BY <1>1, <1>2 DEF InCall, StackOK
<1> QED
  BY <1>1, <1>3, <1>4, <1>5

LEMMA SetValueLockCalls ==
    ASSUME CallsShape, StoreShape, NEW t \in Threads, SetValueLock(t)
    PROVE  \/ Quiet
           \/ /\ CallsShape' /\ Enters(t, Len(calls[t]), Top(t).v, Top(t).val)
              /\ m_mtx[Top(t).v] = Nobody /\ m_mtx' = [m_mtx EXCEPT ![Top(t).v] = t]
              /\ add[t].pc = "idle"
              /\ UNCHANGED <<registry, m_cbs, addVars, returned>>
<1> DEFINE s == calls[t]
           n == Len(s)
           v == Top(t).v
<1>1. /\ s # <<>> /\ s \in Seq(Frames) /\ StackOK(s) /\ n \in Nat \ {0} /\ Top(t) = s[n]
      /\ Top(t) \in SetFrames /\ Top(t).pc = "lock" /\ add[t].pc = "idle"
  BY TopOfStack DEF SetValueLock, InCall
<1>2. v \in Vars /\ Top(t).val \in Values
  BY <1>1 DEF SetFrames
<1>3. add' = add /\ UNCHANGED <<registry, m_cbs, addVars, returned>>
  BY DEF SetValueLock, addVars
<1>4. CASE m_mtx' = m_mtx /\ calls' = [calls EXCEPT ![t] = Pop(@)]
  <2>1. Pop(s) \in Seq(Frames) /\ StackOK(Pop(s)) /\ WithoutTop(s, Pop(s))
    BY <1>1, PopFacts, PopStack
  <2>2. SameSections(s, Pop(s))
    BY <1>1, <2>1 DEF SameSections, WithoutTop, InSet
  <2>3. CallsShape' /\ SectionsStay
    BY <1>1, <1>3, <1>4, <2>1, <2>2, StackUpdate
  <2> QED
    BY <1>3, <1>4, <2>3 DEF Quiet, registry
<1>5. CASE /\ m_mtx[v] = Nobody /\ m_mtx' = [m_mtx EXCEPT ![v] = t]
           /\ calls' = [calls EXCEPT ![t][n] = Calling(@, DOMAIN m_cbs[v])]
  <2> DEFINE r == [s EXCEPT ![n] = Calling(s[n], DOMAIN m_cbs[v])]
  <2>1. DOMAIN m_cbs[v] \in SUBSET Nat
    BY <1>2, ConfigAssumption DEF StoreShape
  <2>2. /\ r \in Seq(Frames) /\ StackOK(r) /\ Len(r) = n
        /\ r[n].v = s[n].v /\ r[n].val = s[n].val /\ r[n].todo = DOMAIN m_cbs[v]
        /\ r[n].pc \in {"listener", "assign"}
        /\ \A i \in 1..(n - 1) : r[i] = s[i]
    BY <1>1, <2>1, CallingStack
  <2>3. calls' = [calls EXCEPT ![t] = r]
    BY <1>5
  <2> HIDE DEF r
  <2>4. CallsShape' /\ calls'[t] = r /\ \A u \in Threads \ {t} : calls'[u] = calls[u]
    BY <1>1, <1>3, <2>2, <2>3, StackUpdate
  <2>5. OthersStay(t)
    BY <2>4 DEF OthersStay, SameSections
  <2>6. OnlyChange(t, n)
    BY <1>1, <2>2, <2>4 DEF OnlyChange, InSet
  <2>7. \A w \in Vars : ~InSet(s, n, w) /\ (InSet(r, n, w) <=> w = v)
    BY <1>1, <2>2 DEF InSet
  <2>8. Enters(t, n, v, Top(t).val)
    BY <1>1, <1>2, <2>2, <2>4, <2>5, <2>6, <2>7 DEF Enters
  <2> QED
    BY <1>1, <1>3, <1>5, <2>4, <2>8
<1> QED
  BY <1>4, <1>5 DEF SetValueLock

LEMMA ListenerReturnCalls ==
    ASSUME CallsShape, NEW t \in Threads, ListenerReturn(t)
    PROVE  /\ CallsShape'
           /\ GoesOn(t, Len(calls[t]), Top(t).v, Top(t).val, Top(t).todo \ {Current(t)})
<1> DEFINE s == calls[t]
           n == Len(s)
           todo == Top(t).todo \ {Current(t)}
           r == [s EXCEPT ![n] = Calling(s[n], todo)]
<1>1. s # <<>> /\ InCall(t, "listener") /\ add' = add
  BY DEF ListenerReturn, InCall, addVars
<1>2. /\ s \in Seq(Frames) /\ StackOK(s) /\ n \in Nat \ {0} /\ Top(t) = s[n]
      /\ Top(t).pc = "listener" /\ s[n] \in SetFrames /\ add[t].pc = "idle"
  BY <1>1, TopOfStack DEF InCall
<1>3. todo \in SUBSET Nat
  BY <1>1, TopSection
<1>4. calls' = [calls EXCEPT ![t] = r]
  BY <1>2 DEF ListenerReturn
<1> HIDE DEF todo
<1>5. /\ r \in Seq(Frames) /\ StackOK(r) /\ Len(r) = n
      /\ r[n].v = s[n].v /\ r[n].val = s[n].val /\ r[n].todo = todo
      /\ r[n].pc \in {"listener", "assign"}
      /\ \A i \in 1..(n - 1) : r[i] = s[i]
  BY <1>1, <1>2, <1>3, CallingStack
<1> HIDE DEF r
<1>6. CallsShape' /\ calls'[t] = r /\ \A u \in Threads \ {t} : calls'[u] = calls[u]
  BY <1>1, <1>2, <1>4, <1>5, StackUpdate
<1>7. OthersStay(t)
  BY <1>6 DEF OthersStay, SameSections
<1>8. OnlyChange(t, n)
  BY <1>2, <1>5, <1>6 DEF OnlyChange, InSet
<1>9. \A w \in Vars : InSet(r, n, w) <=> InSet(s, n, w)
  BY <1>2, <1>5 DEF InSet
<1> QED
  BY <1>2, <1>5, <1>6, <1>7, <1>8, <1>9 DEF GoesOn, todo

LEMMA ListenerThrowCalls ==
    ASSUME CallsShape, NEW t \in Threads, ListenerThrow(t)
    PROVE  CallsShape' /\ Leaves(t)
<1> DEFINE s == calls[t]
           r == Unwind(Pop(s))
<1>1. /\ s # <<>> /\ s \in Seq(Frames) /\ StackOK(s) /\ add[t].pc = "idle" /\ add' = add
      /\ calls' = [calls EXCEPT ![t] = r]
  BY TopOfStack DEF ListenerThrow, InCall, addVars
<1>2. r \in Seq(Frames) /\ StackOK(r) /\ WithoutTop(s, r)
  BY <1>1, UnwindStack
<1> HIDE DEF r
<1>3. CallsShape' /\ calls'[t] = r /\ \A u \in Threads \ {t} : calls'[u] = calls[u]
  BY <1>1, <1>2, StackUpdate
<1>4. OthersStay(t)
  BY <1>3 DEF OthersStay, SameSections
<1> QED
  BY <1>2, <1>3, <1>4 DEF Leaves

LEMMA SetValueAssignCalls ==
    ASSUME CallsShape, NEW t \in Threads, SetValueAssign(t)
    PROVE  CallsShape' /\ Leaves(t)
<1> DEFINE s == calls[t]
           p == Pop(s)
<1>1. s # <<>> /\ s \in Seq(Frames) /\ StackOK(s) /\ add[t].pc = "idle" /\ add' = add
  BY TopOfStack DEF SetValueAssign, InCall, addVars
<1>2. p \in Seq(Frames) /\ StackOK(p) /\ WithoutTop(s, p)
  BY <1>1, PopFacts, PopStack
<1>3. /\ DOMAIN calls' = Threads /\ \A u \in Threads \ {t} : calls'[u] = Disturbed(calls[u])
      /\ calls'[t] = p \/ calls'[t] = Disturbed(p)
  BY DEF SetValueAssign, AssignReturn
<1>4. calls' \in [Threads -> {calls'[u] : u \in Threads}]
  BY DEF SetValueAssign, AssignReturn
<1> HIDE DEF p
<1>5. calls'[t] \in Seq(Frames) /\ StackOK(calls'[t]) /\ WithoutTop(s, calls'[t])
  <2>1. CASE calls'[t] = p
    BY <1>2, <2>1
  <2>2. CASE calls'[t] = Disturbed(p)
    <3>1. Disturbed(p) \in Seq(Frames) /\ StackOK(Disturbed(p)) /\ SameSections(p, Disturbed(p))
      BY <1>2, DisturbedStack
    <3>2. WithoutTop(s, Disturbed(p))
      BY <1>2, <3>1 DEF WithoutTop, SameSections
    <3> QED
      BY <2>2, <3>1, <3>2
  <2> QED
    BY <1>3, <2>1, <2>2
<1>6. ASSUME NEW u \in Threads, u # t
      PROVE  /\ calls'[u] \in Seq(Frames) /\ StackOK(calls'[u]) /\ SameSections(calls[u], calls'[u])
             /\ calls[u] = <<>> => calls'[u] = <<>>
  <2>1. calls[u] \in Seq(Frames) /\ StackOK(calls[u]) /\ calls'[u] = Disturbed(calls[u])
    BY <1>3, <1>6 DEF CallsShape
  <2>2. calls[u] = <<>> => Disturbed(calls[u]) = <<>>
    BY DEF Disturbed
  <2> QED
    BY <2>1, <2>2, DisturbedStack
<1>7. CallsShape'
  BY <1>1, <1>4, <1>5, <1>6 DEF CallsShape
<1> QED
  BY <1>5, <1>6, <1>7 DEF Leaves, OthersStay
-----------------------------------------------------------------------------
(***************************************************************************)
(* The parts of the invariant, kept by every action.                       *)
(***************************************************************************)
\* What Saw does to the listeners of the variable on top.
LEMMA SawFacts ==
    ASSUME StoreShape, NEW t \in Threads, Top(t).v \in Vars, Top(t).val \in Values,
           NEW keys, NEW misled \in BOOLEAN
    PROVE  LET new == Saw(t, keys, misled)
               v == Top(t).v
           IN  /\ DOMAIN new = Vars
               /\ \A w \in Vars : /\ DOMAIN new[w] = DOMAIN m_cbs[w]
                                  /\ new[w] \in [DOMAIN m_cbs[w] -> Entries]
                                  /\ w # v => new[w] = m_cbs[w]
                                  /\ \A k \in DOMAIN m_cbs[w] : new[w][k].call = m_cbs[w][k].call
               /\ \A k \in DOMAIN m_cbs[v] :
                     /\ k \in keys => new[v][k].saw = Top(t).val
                     /\ k \in keys => new[v][k].misled = misled
                     /\ k \notin keys => new[v][k] = m_cbs[v][k]
<1> DEFINE v == Top(t).v
           x == Top(t).val
           old == m_cbs[v]
           marked == [k \in DOMAIN old |-> IF k \in keys THEN [old[k] EXCEPT !.saw = x, !.misled = misled]
                                                         ELSE old[k]]
           new == [m_cbs EXCEPT ![v] = marked]
<1>1. Saw(t, keys, misled) = new
  BY DEF Saw
<1>2. old \in [DOMAIN old -> Entries]
  BY DEF StoreShape
<1> HIDE DEF old
<1>3. ASSUME NEW k \in DOMAIN old
      PROVE  /\ marked[k] \in Entries /\ marked[k].call = old[k].call
             /\ k \in keys => marked[k].saw = x
             /\ k \in keys => marked[k].misled = misled
             /\ k \notin keys => marked[k] = old[k]
  BY <1>2 DEF Entries
<1>4. DOMAIN marked = DOMAIN old /\ marked \in [DOMAIN old -> Entries]
  BY <1>3
<1> HIDE DEF marked
<1>5. DOMAIN new = Vars /\ new[v] = marked /\ \A w \in Vars : w # v => new[w] = m_cbs[w]
  BY DEF StoreShape
<1> QED
  BY <1>1, <1>3, <1>4, <1>5 DEF old, StoreShape

LEMMA StoreKept ==
    ASSUME CallsShape, AddShape, StoreShape, CounterInv, NEW t \in Threads,
           \/ Quiet /\ (UNCHANGED m_datas \/ \E v \in Vars : m_datas' = m_datas \cup {v})
           \/ SetValueLock(t) \/ SetStep(t) \/ AddStep(t)
           \/ \E v \in Vars : \/ AddListener(t, v) \/ ClearListener(t, v)
                              \/ \E k \in 1..MaxAdds : DelListener(t, v, k)
    PROVE  StoreShape'
<1>1. CASE Quiet /\ (UNCHANGED m_datas \/ \E v \in Vars : m_datas' = m_datas \cup {v})
  BY <1>1 DEF Quiet, StoreShape
<1>2. CASE SetValueLock(t)
  <2>1. UNCHANGED <<m_datas, m_val, m_cbs>> /\ m_mtx' \in [Vars -> Threads \cup {Nobody}]
    BY <1>2 DEF SetValueLock, registry, StoreShape
  <2> QED
    BY <2>1 DEF StoreShape
<1>3. ASSUME NEW keys, NEW misled \in BOOLEAN, m_cbs' = Saw(t, keys, misled),
             Top(t).v \in Vars, Top(t).val \in Values
      PROVE  /\ DOMAIN m_cbs' = Vars
             /\ \A v \in Vars : /\ DOMAIN m_cbs'[v] \subseteq 1..MaxAdds
                                /\ m_cbs'[v] \in [DOMAIN m_cbs'[v] -> Entries]
  <2>1. /\ DOMAIN m_cbs' = Vars
        /\ \A w \in Vars : /\ DOMAIN m_cbs'[w] = DOMAIN m_cbs[w]
                           /\ m_cbs'[w] \in [DOMAIN m_cbs[w] -> Entries]
    BY <1>3, SawFacts
  <2> QED
    BY <2>1 DEF StoreShape
<1>4. ASSUME ListenerReturn(t) \/ ListenerThrow(t)
      PROVE  StoreShape'
  <2>1. \E keys : \E misled \in BOOLEAN : m_cbs' = Saw(t, keys, misled)
    BY <1>4 DEF ListenerReturn, ListenerThrow
  <2>2. /\ UNCHANGED <<m_datas, m_val>> /\ m_mtx' \in [Vars -> Threads \cup {Nobody}]
        /\ Top(t).v \in Vars /\ Top(t).val \in Values
    BY <1>4, TopSection DEF ListenerReturn, ListenerThrow, registry, StoreShape
  <2> QED
    BY <1>3, <2>1, <2>2 DEF StoreShape
<1>5. CASE SetValueAssign(t)
  <2>1. Top(t).val \in Values
    BY <1>5, TopSection DEF SetValueAssign
  <2>2. /\ UNCHANGED <<m_datas, m_cbs>> /\ m_mtx' \in [Vars -> Threads \cup {Nobody}]
        /\ m_val' \in [Vars -> Values]
    BY <1>5, <2>1 DEF SetValueAssign, StoreShape
  <2> QED
    BY <2>2 DEF StoreShape
<1>6. CASE AddStore(t)
  BY <1>6 DEF AddStore, StoreShape, registry
<1>7. CASE AddEmplace(t)
  <2> DEFINE v == add[t].v
             D == DOMAIN m_cbs[v] \cup {monotone_key}
             entry == [call |-> add[t].call, saw |-> m_val[v], misled |-> FALSE]
             cbs == [k \in D |-> IF k \in DOMAIN m_cbs[v] THEN m_cbs[v][k] ELSE entry]
  <2>1. v \in Vars /\ add[t] \in Adding /\ add[t].pc = "emplace"
    BY <1>7 DEF AddEmplace, AddShape
  <2>2. entry \in Entries
    BY <2>1 DEF Entries, Adding, StoreShape
  <2>3. monotone_key \in 1..MaxAdds
    BY <2>1, ConfigAssumption DEF CounterInv
  <2> HIDE DEF entry
  <2>4. D \subseteq 1..MaxAdds /\ DOMAIN cbs = D /\ cbs \in [D -> Entries]
    BY <2>1, <2>2, <2>3 DEF StoreShape
  <2>5. m_cbs' = [m_cbs EXCEPT ![v] = cbs] /\ UNCHANGED <<m_datas, m_val, m_mtx>>
    BY <1>7 DEF AddEmplace, registry, entry
  <2> HIDE DEF cbs, D, v
  <2> QED
    BY <2>1, <2>4, <2>5 DEF StoreShape
<1>8. CASE AddReturn(t)
  <2>1. UNCHANGED <<m_datas, m_val, m_cbs>> /\ m_mtx' \in [Vars -> Threads \cup {Nobody}]
    BY <1>8 DEF AddReturn, registry, StoreShape
  <2> QED
    BY <2>1 DEF StoreShape
<1>9. ASSUME NEW v \in Vars, AddListener(t, v)
      PROVE  StoreShape'
  <2>1. UNCHANGED <<m_datas, m_val, m_cbs>> /\ m_mtx' \in [Vars -> Threads \cup {Nobody}]
    BY <1>9 DEF AddListener, registry, StoreShape
  <2> QED
    BY <2>1 DEF StoreShape
<1>10. ASSUME NEW v \in Vars, NEW keys, Remove(v, keys), UNCHANGED <<m_datas, m_val, m_mtx>>
       PROVE  StoreShape'
  <2> DEFINE cbs == [k \in DOMAIN m_cbs[v] \ keys |-> m_cbs[v][k]]
  <2>1. DOMAIN cbs \subseteq DOMAIN m_cbs[v] /\ cbs \in [DOMAIN cbs -> Entries]
    BY DEF StoreShape
  <2>2. m_cbs' = [m_cbs EXCEPT ![v] = cbs]
    BY <1>10 DEF Remove
  <2> HIDE DEF cbs
  <2> QED
    BY <1>10, <2>1, <2>2 DEF StoreShape
<1>11. ASSUME NEW v \in Vars, ClearListener(t, v)
       PROVE  StoreShape'
  BY <1>10, <1>11 DEF ClearListener, registry
<1>12. ASSUME NEW v \in Vars, NEW k \in 1..MaxAdds, DelListener(t, v, k)
       PROVE  StoreShape'
  BY <1>10, <1>12 DEF DelListener, registry
<1> QED
  BY <1>1, <1>2, <1>4, <1>5, <1>6, <1>7, <1>8, <1>9, <1>11, <1>12 DEF SetStep, AddStep

\* AddListener moves its own record only, and the sections of SetValue are not concerned.
LEMMA AddStepShape ==
    ASSUME CallsShape, AddShape, StoreShape, CounterInv, NEW t \in Threads,
           AddStep(t) \/ \E v \in Vars : AddListener(t, v)
    PROVE  CallsShape' /\ AddShape' /\ CounterInv' /\ calls[t] = <<>> /\ UNCHANGED calls
<1>1. ASSUME NEW v \in Vars, AddListener(t, v)
      PROVE  CallsShape' /\ AddShape' /\ CounterInv' /\ calls[t] = <<>> /\ UNCHANGED calls
  <2> DEFINE a == [pc |-> "store", v |-> v, call |-> adds + 1, tmp |-> monotone_key]
  <2>1. /\ add' = [add EXCEPT ![t] = a] /\ adds' = adds + 1 /\ adds < MaxAdds
        /\ calls[t] = <<>> /\ UNCHANGED <<calls, monotone_key>>
    BY <1>1 DEF AddListener, Free
  <2>2. adds \in Nat /\ adds + 1 \in 0..MaxAdds /\ monotone_key \in Nat /\ monotone_key <= adds
    BY <2>1, ConfigAssumption DEF CounterInv
  <2>3. a \in Adding
    BY <2>2 DEF Adding
  <2>4. a.pc = "store" /\ a.v \in Vars /\ a.tmp + 1 <= adds + 1
    BY <2>2
  <2> HIDE DEF a
  <2>5. AddShape' /\ CallsShape'
    BY <2>1, <2>3, <2>4 DEF AddShape, CallsShape
  <2>6. \A u \in Threads : add[u].pc = "store" => add[u].tmp \in Nat
    BY DEF AddShape, Adding
  <2>7. CounterInv'
    BY <2>1, <2>2, <2>4, <2>6 DEF CounterInv, AddShape
  <2> QED
    BY <2>1, <2>5, <2>7
<1>2. CASE AddStore(t)
  <2> DEFINE a == [add[t] EXCEPT !.pc = "emplace"]
  <2>1. add' = [add EXCEPT ![t] = a] /\ monotone_key' = add[t].tmp + 1 /\ UNCHANGED <<calls, adds>>
    BY <1>2 DEF AddStore
  <2>2. add[t] \in Adding /\ add[t].pc = "store" /\ add[t].v \in Vars /\ calls[t] = <<>>
    BY <1>2 DEF AddStore, AddShape, CallsShape
  <2>3. a \in Adding /\ a.pc = "emplace" /\ a.v \in Vars
    BY <2>2 DEF Adding
  <2> HIDE DEF a
  <2>4. AddShape' /\ CallsShape'
    BY <2>1, <2>2, <2>3 DEF AddShape, CallsShape
  <2>5. add[t].tmp \in Nat /\ add[t].tmp + 1 <= adds
    BY <2>2 DEF Adding, CounterInv
  <2>6. CounterInv'
    BY <2>1, <2>3, <2>5 DEF CounterInv, AddShape
  <2> QED
    BY <2>1, <2>2, <2>4, <2>6
<1>3. CASE AddEmplace(t)
  <2> DEFINE a == [add[t] EXCEPT !.pc = "return"]
  <2>1. add' = [add EXCEPT ![t] = a] /\ UNCHANGED <<calls, monotone_key, adds>>
    BY <1>3 DEF AddEmplace
  <2>2. add[t] \in Adding /\ add[t].pc = "emplace" /\ add[t].v \in Vars /\ calls[t] = <<>>
    BY <1>3 DEF AddEmplace, AddShape, CallsShape
  <2>3. a \in Adding /\ a.pc = "return" /\ a.v \in Vars
    BY <2>2 DEF Adding
  <2> HIDE DEF a
  <2>4. AddShape' /\ CallsShape'
    BY <2>1, <2>2, <2>3 DEF AddShape, CallsShape
  <2>5. CounterInv'
    BY <2>1, <2>2, <2>3 DEF CounterInv, AddShape
  <2> QED
    BY <2>1, <2>2, <2>4, <2>5
<1>4. CASE AddReturn(t)
  <2>1. add' = [add EXCEPT ![t] = NoAdd] /\ UNCHANGED <<calls, monotone_key, adds>>
    BY <1>4 DEF AddReturn
  <2>2. NoAdd \in Adding /\ NoAdd.pc = "idle" /\ calls[t] = <<>>
    BY <1>4 DEF NoAdd, Adding, AddReturn, CallsShape
  <2> HIDE DEF NoAdd
  <2>3. AddShape' /\ CallsShape'
    BY <2>1, <2>2 DEF AddShape, CallsShape
  <2>4. CounterInv'
    BY <2>1, <2>2 DEF CounterInv, AddShape
  <2> QED
    BY <2>1, <2>2, <2>3, <2>4
<1> QED
  BY <1>1, <1>2, <1>3, <1>4 DEF AddStep

\* The sections of a variable whose mutex is free, and of the others than its holder, are empty.
LEMMA OneSection ==
    ASSUME MutexInv, NEW v \in Vars, NEW t \in Threads, NEW i \in Nat, InSet(calls[t], i, v)
    PROVE  /\ m_mtx[v] = t /\ m_mtx[v] # Nobody
           /\ \A u \in Threads, j \in Nat : InSet(calls[u], j, v) => u = t /\ j = i
BY ConfigAssumption DEF MutexInv

LEMMA MutexKept ==
    ASSUME CallsShape, AddShape, StoreShape, MutexInv, NEW t \in Threads,
           \/ Quiet
           \/ SetValueLock(t) \/ SetStep(t) \/ AddStep(t)
           \/ \E v \in Vars : \/ AddListener(t, v) \/ ClearListener(t, v)
                              \/ \E k \in 1..MaxAdds : DelListener(t, v, k)
    PROVE  MutexInv'
<1> DEFINE Held == \A u \in Threads, w \in Vars :
                      m_mtx'[w] = u <=> \/ add'[u].pc # "idle" /\ add'[u].v = w
                                        \/ \E i \in Nat : InSet(calls'[u], i, w)
           Once == \A u \in Threads, w \in Vars, i, j \in Nat :
                      InSet(calls'[u], i, w) /\ InSet(calls'[u], j, w) => i = j
<1> SUFFICES Held /\ Once
  BY DEF MutexInv, InAdd, InSet
<1>a. /\ \A u \in Threads, w \in Vars :
            m_mtx[w] = u <=> \/ add[u].pc # "idle" /\ add[u].v = w
                             \/ \E i \in Nat : InSet(calls[u], i, w)
      /\ \A u \in Threads, w \in Vars, i, j \in Nat :
            InSet(calls[u], i, w) /\ InSet(calls[u], j, w) => i = j
  BY DEF MutexInv, InAdd
<1>b. DOMAIN m_mtx = Vars /\ Nobody \notin Threads
  BY ConfigAssumption DEF StoreShape
<1>c. DOMAIN add = Threads /\ \A u \in Threads : add[u].pc # "idle" => \A i \in Nat, w \in Vars : ~InSet(calls[u], i, w)
  BY DEF AddShape, CallsShape, InSet
<1>1. CASE Quiet
  <2>1. /\ add' = add /\ m_mtx' = m_mtx
        /\ \A u \in Threads, i \in Nat, w \in Vars : InSet(calls'[u], i, w) <=> InSet(calls[u], i, w)
    BY <1>1 DEF Quiet, addVars, SectionsStay, SameSections
  <2> QED
    BY <1>a, <2>1
<1>2. CASE SetValueLock(t)
  <2> DEFINE n == Len(calls[t])
             v == Top(t).v
  <2>1. CASE /\ Enters(t, n, v, Top(t).val)
             /\ m_mtx[v] = Nobody /\ m_mtx' = [m_mtx EXCEPT ![v] = t]
             /\ add[t].pc = "idle" /\ UNCHANGED addVars
    <3>1. /\ n \in Nat /\ v \in Vars
          /\ \A w \in Vars : ~InSet(calls[t], n, w) /\ (InSet(calls'[t], n, w) <=> w = v)
          /\ \A i \in Nat, w \in Vars : i # n => (InSet(calls'[t], i, w) <=> InSet(calls[t], i, w))
          /\ \A u \in Threads, i \in Nat, w \in Vars :
                u # t => (InSet(calls'[u], i, w) <=> InSet(calls[u], i, w))
      BY <2>1 DEF Enters, OnlyChange, OthersStay, SameSections
    <3> HIDE DEF n, v
    <3>2. add' = add /\ m_mtx'[v] = t /\ \A w \in Vars : w # v => m_mtx'[w] = m_mtx[w]
      BY <1>b, <2>1, <3>1 DEF addVars
    <3>3. \A u \in Threads, i \in Nat : ~InSet(calls[u], i, v) /\ ~(add[u].pc # "idle" /\ add[u].v = v)
      BY <1>a, <1>b, <2>1, <3>1
    <3>4. Once
      BY <1>a, <3>1, <3>3
    <3>5. Held
      <4> SUFFICES ASSUME NEW u \in Threads, NEW w \in Vars
                   PROVE  m_mtx'[w] = u <=> \/ add[u].pc # "idle" /\ add[u].v = w
                                            \/ \E i \in Nat : InSet(calls'[u], i, w)
        BY <3>2
      <4>1. CASE w = v
        BY <3>1, <3>2, <3>3, <4>1
      <4>2. CASE w # v
        BY <1>a, <3>1, <3>2, <4>2
      <4> QED
        BY <4>1, <4>2
    <3> QED
      BY <3>4, <3>5
  <2> QED
    BY <1>1, <1>2, <2>1, SetValueLockCalls
<1>3. CASE ListenerReturn(t)
  <2> DEFINE n == Len(calls[t])
             v == Top(t).v
             todo == Top(t).todo \ {Current(t)}
  <2>1. GoesOn(t, n, v, Top(t).val, todo) /\ add' = add /\ m_mtx' = m_mtx
    BY <1>3, ListenerReturnCalls DEF ListenerReturn, addVars
  <2> HIDE DEF todo
  <2>2. \A u \in Threads, i \in Nat, w \in Vars : InSet(calls'[u], i, w) <=> InSet(calls[u], i, w)
    BY <2>1 DEF GoesOn, OnlyChange, OthersStay, SameSections
  <2> QED
    BY <1>a, <2>1, <2>2
<1>4. CASE ListenerThrow(t) \/ SetValueAssign(t)
  <2> DEFINE n == Len(calls[t])
             v == Top(t).v
  <2>1. /\ Leaves(t) /\ add' = add /\ m_mtx' = [m_mtx EXCEPT ![v] = Nobody]
        /\ n \in Nat /\ v \in Vars /\ InSet(calls[t], n, v) /\ add[t].pc = "idle"
    BY <1>4, ListenerThrowCalls, SetValueAssignCalls, TopSection
       DEF ListenerThrow, SetValueAssign, addVars
  <2>2. /\ \A i \in Nat, w \in Vars : InSet(calls'[t], i, w) <=> InSet(calls[t], i, w) /\ i # n
        /\ \A u \in Threads, i \in Nat, w \in Vars :
              u # t => (InSet(calls'[u], i, w) <=> InSet(calls[u], i, w))
    BY <2>1 DEF Leaves, WithoutTop, OthersStay, SameSections
  <2> HIDE DEF n, v
  <2>3. m_mtx'[v] = Nobody /\ \A w \in Vars : w # v => m_mtx'[w] = m_mtx[w]
    BY <1>b, <2>1
  <2>4. \A i \in Nat, w \in Vars : InSet(calls[t], i, w) /\ w # v => i # n
    BY <2>1 DEF InSet
  <2>5. /\ m_mtx[v] = t
        /\ \A u \in Threads, j \in Nat : InSet(calls[u], j, v) => u = t /\ j = n
    BY <2>1, OneSection
  <2>6. Once
    BY <1>a, <2>2
  <2>7. Held
    <3> SUFFICES ASSUME NEW u \in Threads, NEW w \in Vars
                 PROVE  m_mtx'[w] = u <=> \/ add[u].pc # "idle" /\ add[u].v = w
                                          \/ \E i \in Nat : InSet(calls'[u], i, w)
      BY <2>1
    <3>1. CASE w = v
      BY <1>a, <1>b, <2>1, <2>2, <2>3, <2>5, <3>1
    <3>2. CASE w # v
      BY <1>a, <2>1, <2>2, <2>3, <2>4, <3>2
    <3> QED
      BY <3>1, <3>2
  <2> QED
    BY <2>6, <2>7
<1>5. ASSUME NEW v \in Vars, AddListener(t, v)
      PROVE  Held /\ Once
  <2> DEFINE a == [pc |-> "store", v |-> v, call |-> adds + 1, tmp |-> monotone_key]
  <2>1. /\ add' = [add EXCEPT ![t] = a] /\ calls' = calls /\ m_mtx' = [m_mtx EXCEPT ![v] = t]
        /\ m_mtx[v] = Nobody /\ add[t].pc = "idle" /\ calls[t] = <<>>
    BY <1>5 DEF AddListener, Free
  <2>2. a.pc = "store" /\ a.v = v
    OBVIOUS
  <2> HIDE DEF a
  <2>3. /\ m_mtx'[v] = t /\ add'[t] = a
        /\ \A w \in Vars : w # v => m_mtx'[w] = m_mtx[w]
        /\ \A u \in Threads : u # t => add'[u] = add[u]
    BY <1>b, <1>c, <2>1
  <2>4. Once
    BY <1>a, <2>1
  <2>5. \A u \in Threads : ~(add[u].pc # "idle" /\ add[u].v = v) /\ \A i \in Nat : ~InSet(calls[u], i, v)
    BY <1>a, <1>b, <2>1
  <2>6. \A i \in Nat, w \in Vars : ~InSet(calls[t], i, w)
    BY <2>1 DEF InSet
  <2>7. Held
    <3> SUFFICES ASSUME NEW u \in Threads, NEW w \in Vars
                 PROVE  m_mtx'[w] = u <=> \/ add'[u].pc # "idle" /\ add'[u].v = w
                                          \/ \E i \in Nat : InSet(calls[u], i, w)
      BY <2>1
    <3>1. CASE w = v
      BY <2>2, <2>3, <2>5, <3>1
    <3>2. CASE w # v
      BY <1>a, <2>1, <2>2, <2>3, <2>6, <3>2
    <3> QED
      BY <3>1, <3>2
  <2> QED
    BY <2>4, <2>7
<1>6. CASE AddStore(t) \/ AddEmplace(t)
  <2>1. /\ calls' = calls /\ m_mtx' = m_mtx
        /\ \E pc \in {"emplace", "return"} : add' = [add EXCEPT ![t].pc = pc]
        /\ add[t].pc # "idle"
    BY <1>6 DEF AddStore, AddEmplace
  <2>2. /\ \A u \in Threads : u # t => add'[u] = add[u]
        /\ add'[t].pc # "idle" /\ add'[t].v = add[t].v
    BY <1>c, <2>1 DEF AddShape, Adding
  <2> QED
    BY <1>a, <2>1, <2>2
<1>7. CASE AddReturn(t)
  <2> DEFINE v == add[t].v
  <2>1. /\ calls' = calls /\ m_mtx' = [m_mtx EXCEPT ![v] = Nobody] /\ add' = [add EXCEPT ![t] = NoAdd]
        /\ add[t].pc # "idle" /\ v \in Vars
    BY <1>7 DEF AddReturn, AddShape
  <2>2. NoAdd.pc = "idle"
    BY DEF NoAdd
  <2> HIDE DEF v, NoAdd
  <2>3. /\ \A u \in Threads : u # t => add'[u] = add[u]
        /\ add'[t].pc = "idle" /\ m_mtx'[v] = Nobody
        /\ \A w \in Vars : w # v => m_mtx'[w] = m_mtx[w]
    BY <1>b, <1>c, <2>1, <2>2
  <2>4. m_mtx[v] = t
    BY <1>a, <2>1 DEF v
  <2>5. Once
    BY <1>a, <2>1
  <2>6. Held
    <3> SUFFICES ASSUME NEW u \in Threads, NEW w \in Vars
                 PROVE  m_mtx'[w] = u <=> \/ add'[u].pc # "idle" /\ add'[u].v = w
                                          \/ \E i \in Nat : InSet(calls[u], i, w)
      BY <2>1
    <3>1. CASE w = v
      BY <1>a, <1>b, <1>c, <2>1, <2>3, <2>4, <3>1
    <3>2. CASE w # v
      BY <1>a, <1>c, <2>1, <2>3, <3>2 DEF v
    <3> QED
      BY <3>1, <3>2
  <2> QED
    BY <2>5, <2>6
<1>8. ASSUME NEW v \in Vars, ClearListener(t, v) \/ \E k \in 1..MaxAdds : DelListener(t, v, k)
      PROVE  Held /\ Once
  <2>1. UNCHANGED <<calls, add, m_mtx>>
    BY <1>8 DEF ClearListener, DelListener, addVars
  <2> QED
    BY <1>a, <2>1
<1> QED
  BY <1>1, <1>2, <1>3, <1>4, <1>5, <1>6, <1>7, <1>8 DEF SetStep, AddStep

LEMMA SawKept ==
    ASSUME CallsShape, AddShape, StoreShape, CounterInv, MutexInv, SawInv, NEW t \in Threads,
           \/ Quiet
           \/ SetValueLock(t) \/ SetStep(t) \/ AddStep(t)
           \/ \E v \in Vars : \/ AddListener(t, v) \/ ClearListener(t, v)
                              \/ \E k \in 1..MaxAdds : DelListener(t, v, k)
    PROVE  SawInv'
<1> DEFINE Told == \A u \in Threads, w \in Vars, i \in Nat :
                      InSet(calls'[u], i, w) =>
                          /\ calls'[u][i].todo \subseteq DOMAIN m_cbs'[w]
                          /\ \A k \in DOMAIN m_cbs'[w] \ calls'[u][i].todo :
                                m_cbs'[w][k].saw = calls'[u][i].val
           Know == \A w \in Vars : \A k \in DOMAIN m_cbs'[w] :
                      \/ m_cbs'[w][k].misled
                      \/ m_cbs'[w][k].saw = m_val'[w]
                      \/ \E u \in Threads, i \in Nat : InSet(calls'[u], i, w) /\ k \notin calls'[u][i].todo
<1> SUFFICES Told /\ Know
  BY DEF SawInv, InSet
<1>a. /\ \A u \in Threads, w \in Vars, i \in Nat :
            InSet(calls[u], i, w) =>
                /\ calls[u][i].todo \subseteq DOMAIN m_cbs[w]
                /\ \A k \in DOMAIN m_cbs[w] \ calls[u][i].todo : m_cbs[w][k].saw = calls[u][i].val
      /\ \A w \in Vars : \A k \in DOMAIN m_cbs[w] :
            \/ m_cbs[w][k].misled
            \/ m_cbs[w][k].saw = m_val[w]
            \/ \E u \in Threads, i \in Nat : InSet(calls[u], i, w) /\ k \notin calls[u][i].todo
  BY DEF SawInv
<1>1. CASE Quiet
  <2>1. /\ m_cbs' = m_cbs /\ m_val' = m_val
        /\ \A u \in Threads, i \in Nat, w \in Vars :
              /\ InSet(calls'[u], i, w) <=> InSet(calls[u], i, w)
              /\ InSet(calls[u], i, w) => /\ calls'[u][i].todo = calls[u][i].todo
                                          /\ calls'[u][i].val = calls[u][i].val
    BY <1>1 DEF Quiet, SectionsStay, SameSections
  <2> QED
    BY <1>a, <2>1
<1>2. CASE SetValueLock(t)
  <2> DEFINE n == Len(calls[t])
             v == Top(t).v
             x == Top(t).val
  <2>1. CASE Enters(t, n, v, x) /\ UNCHANGED <<registry, m_cbs>>
    <3>1. /\ n \in Nat /\ v \in Vars /\ m_cbs' = m_cbs /\ m_val' = m_val
          /\ \A w \in Vars : ~InSet(calls[t], n, w) /\ (InSet(calls'[t], n, w) <=> w = v)
          /\ calls'[t][n].todo = DOMAIN m_cbs[v] /\ calls'[t][n].val = x
          /\ \A u \in Threads, i \in Nat, w \in Vars : u # t \/ i # n =>
                /\ InSet(calls'[u], i, w) <=> InSet(calls[u], i, w)
                /\ InSet(calls[u], i, w) => /\ calls'[u][i].todo = calls[u][i].todo
                                            /\ calls'[u][i].val = calls[u][i].val
      BY <2>1 DEF Enters, OnlyChange, OthersStay, SameSections, registry
    <3> HIDE DEF n, v, x
    <3>2. Told
      <4> SUFFICES ASSUME NEW u \in Threads, NEW w \in Vars, NEW i \in Nat, InSet(calls'[u], i, w)
                   PROVE  /\ calls'[u][i].todo \subseteq DOMAIN m_cbs[w]
                          /\ \A k \in DOMAIN m_cbs[w] \ calls'[u][i].todo :
                                m_cbs[w][k].saw = calls'[u][i].val
        BY <3>1
      <4>1. CASE u = t /\ i = n
        BY <3>1, <4>1
      <4>2. CASE u # t \/ i # n
        BY <1>a, <3>1, <4>2
      <4> QED
        BY <4>1, <4>2
    <3>3. Know
      <4> SUFFICES ASSUME NEW w \in Vars, NEW k \in DOMAIN m_cbs[w]
                   PROVE  \/ m_cbs[w][k].misled
                          \/ m_cbs[w][k].saw = m_val[w]
                          \/ \E u \in Threads, i \in Nat :
                                InSet(calls'[u], i, w) /\ k \notin calls'[u][i].todo
        BY <3>1
      <4>1. ASSUME NEW u \in Threads, NEW i \in Nat, InSet(calls[u], i, w), k \notin calls[u][i].todo
            PROVE  InSet(calls'[u], i, w) /\ k \notin calls'[u][i].todo
        BY <3>1, <4>1
      <4> QED
        BY <1>a, <4>1
    <3> QED
      BY <3>2, <3>3
  <2> QED
    BY <1>1, <1>2, <2>1, SetValueLockCalls
<1>3. CASE ListenerReturn(t)
  <2> DEFINE n == Len(calls[t])
             v == Top(t).v
             x == Top(t).val
             c == Current(t)
             todo == Top(t).todo \ {c}
  <2>1. /\ n \in Nat /\ v \in Vars /\ x \in Values /\ InSet(calls[t], n, v)
        /\ calls[t][n].todo = Top(t).todo /\ calls[t][n].val = x
    BY <1>3, TopSection DEF ListenerReturn
  <2>2. /\ m_val' = m_val
        /\ \A w \in Vars : DOMAIN m_cbs'[w] = DOMAIN m_cbs[w] /\ (w # v => m_cbs'[w] = m_cbs[w])
        /\ \A k \in DOMAIN m_cbs[v] : /\ k = c => m_cbs'[v][k].saw = x
                                      /\ k # c => m_cbs'[v][k] = m_cbs[v][k]
    <3>1. m_val' = m_val /\ \E misled \in BOOLEAN : m_cbs' = Saw(t, {c}, misled)
      BY <1>3 DEF ListenerReturn, registry
    <3>2. PICK misled \in BOOLEAN : m_cbs' = Saw(t, {c}, misled)
      BY <3>1
    <3>3. /\ \A w \in Vars : DOMAIN m_cbs'[w] = DOMAIN m_cbs[w] /\ (w # v => m_cbs'[w] = m_cbs[w])
          /\ \A k \in DOMAIN m_cbs[v] : /\ k \in {c} => m_cbs'[v][k].saw = x
                                        /\ k \notin {c} => m_cbs'[v][k] = m_cbs[v][k]
      BY <2>1, <3>2, SawFacts
    <3> QED
      BY <3>1, <3>3
  <2>3. /\ \A w \in Vars : InSet(calls'[t], n, w) <=> InSet(calls[t], n, w)
        /\ calls'[t][n].todo = todo /\ calls'[t][n].val = x
        /\ \A u \in Threads, i \in Nat, w \in Vars : u # t \/ i # n =>
                /\ InSet(calls'[u], i, w) <=> InSet(calls[u], i, w)
                /\ InSet(calls[u], i, w) => /\ calls'[u][i].todo = calls[u][i].todo
                                            /\ calls'[u][i].val = calls[u][i].val
    BY <1>3, ListenerReturnCalls DEF GoesOn, OnlyChange, OthersStay, SameSections
  <2>4. \A u \in Threads, j \in Nat : InSet(calls[u], j, v) => u = t /\ j = n
    BY <2>1, OneSection
  <2>5. \A w \in Vars : InSet(calls[t], n, w) => w = v
    BY <2>1 DEF InSet
  <2> HIDE DEF n, v, x, c
  <2>6. Told
    <3> SUFFICES ASSUME NEW u \in Threads, NEW w \in Vars, NEW i \in Nat, InSet(calls'[u], i, w)
                 PROVE  /\ calls'[u][i].todo \subseteq DOMAIN m_cbs'[w]
                        /\ \A k \in DOMAIN m_cbs'[w] \ calls'[u][i].todo :
                              m_cbs'[w][k].saw = calls'[u][i].val
      OBVIOUS
    <3>1. CASE u = t /\ i = n
      BY <1>a, <2>1, <2>2, <2>3, <2>5, <3>1
    <3>2. CASE u # t \/ i # n
      <4>1. w # v /\ InSet(calls[u], i, w)
        BY <2>3, <2>4, <3>2
      <4> QED
        BY <1>a, <2>2, <2>3, <3>2, <4>1
    <3> QED
      BY <3>1, <3>2
  <2>7. Know
    <3> SUFFICES ASSUME NEW w \in Vars, NEW k \in DOMAIN m_cbs[w]
                 PROVE  \/ m_cbs'[w][k].misled
                        \/ m_cbs'[w][k].saw = m_val[w]
                        \/ \E u \in Threads, i \in Nat :
                              InSet(calls'[u], i, w) /\ k \notin calls'[u][i].todo
      BY <2>2
    <3>1. ASSUME NEW u \in Threads, NEW i \in Nat, InSet(calls[u], i, w), k \notin calls[u][i].todo
          PROVE  InSet(calls'[u], i, w) /\ k \notin calls'[u][i].todo
      BY <2>1, <2>3, <3>1
    <3>2. CASE w = v /\ k = c
      BY <2>1, <2>3, <3>2
    <3>3. CASE w # v \/ k # c
      BY <1>a, <2>2, <3>1, <3>3
    <3> QED
      BY <3>2, <3>3
  <2> QED
    BY <2>6, <2>7
<1>4. ASSUME NEW v \in Vars, NEW n \in Nat, InSet(calls[t], n, v), n = Len(calls[t]), Leaves(t),
             \A w \in Vars : /\ DOMAIN m_cbs'[w] = DOMAIN m_cbs[w]
                             /\ w # v => m_cbs'[w] = m_cbs[w] /\ m_val'[w] = m_val[w],
             \A k \in DOMAIN m_cbs[v] : m_cbs'[v][k].misled \/ m_cbs'[v][k].saw = m_val'[v]
      PROVE  Told /\ Know
  <2>1. \A u \in Threads, j \in Nat : InSet(calls[u], j, v) => u = t /\ j = n
    BY <1>4, OneSection
  <2>2. \A w \in Vars : InSet(calls[t], n, w) => w = v
    BY <1>4 DEF InSet
  <2>3. \A u \in Threads, i \in Nat, w \in Vars :
            /\ InSet(calls'[u], i, w) => InSet(calls[u], i, w) /\ w # v
            /\ InSet(calls[u], i, w) /\ w # v =>
                  /\ InSet(calls'[u], i, w)
                  /\ calls'[u][i].todo = calls[u][i].todo /\ calls'[u][i].val = calls[u][i].val
    BY <1>4, <2>1, <2>2 DEF Leaves, WithoutTop, OthersStay, SameSections
  <2>4. Told
    BY <1>a, <1>4, <2>3
  <2>5. Know
    <3> SUFFICES ASSUME NEW w \in Vars, NEW k \in DOMAIN m_cbs[w], w # v
                 PROVE  \/ m_cbs[w][k].misled
                        \/ m_cbs[w][k].saw = m_val[w]
                        \/ \E u \in Threads, i \in Nat :
                              InSet(calls'[u], i, w) /\ k \notin calls'[u][i].todo
      BY <1>4
    <3> QED
      BY <1>a, <2>3
  <2> QED
    BY <2>4, <2>5
<1>5. CASE ListenerThrow(t)
  <2> DEFINE n == Len(calls[t])
             v == Top(t).v
             x == Top(t).val
  <2>1. /\ n \in Nat /\ v \in Vars /\ x \in Values /\ InSet(calls[t], n, v)
        /\ calls[t][n].todo = Top(t).todo /\ calls[t][n].val = x
    BY <1>5, TopSection DEF ListenerThrow
  <2>2. PICK keys : m_cbs' = Saw(t, keys, TRUE) /\ DOMAIN m_cbs[v] \ Top(t).todo \subseteq keys
    BY <1>5 DEF ListenerThrow, Called
  <2>3. /\ m_val' = m_val
        /\ \A w \in Vars : DOMAIN m_cbs'[w] = DOMAIN m_cbs[w] /\ (w # v => m_cbs'[w] = m_cbs[w])
        /\ \A k \in DOMAIN m_cbs[v] : /\ k \in keys => m_cbs'[v][k].misled
                                      /\ k \notin keys => m_cbs'[v][k] = m_cbs[v][k]
    <3>1. m_val' = m_val
      BY <1>5 DEF ListenerThrow, registry
    <3>2. PICK misled \in BOOLEAN : misled = TRUE /\ m_cbs' = Saw(t, keys, misled)
      BY <2>2
    <3>3. m_cbs' = Saw(t, keys, misled)
      BY <3>2
    <3>4. /\ \A w \in Vars : DOMAIN m_cbs'[w] = DOMAIN m_cbs[w] /\ (w # v => m_cbs'[w] = m_cbs[w])
          /\ \A k \in DOMAIN m_cbs[v] : k \notin keys => m_cbs'[v][k] = m_cbs[v][k]
      BY <2>1, <3>3, SawFacts
    <3>5. \A k \in DOMAIN m_cbs[v] : k \in keys => m_cbs'[v][k].misled = misled
      BY <2>1, <3>3, SawFacts
    <3> QED
      BY <3>1, <3>2, <3>4, <3>5
  <2>4. ASSUME NEW k \in DOMAIN m_cbs[v], k \notin keys
        PROVE  m_cbs[v][k].misled \/ m_cbs[v][k].saw = m_val[v]
    <3>1. \A u \in Threads, j \in Nat : InSet(calls[u], j, v) => u = t /\ j = n
      BY <2>1, OneSection
    <3>2. k \in calls[t][n].todo
      BY <2>1, <2>2, <2>4
    <3> HIDE DEF n, v
    <3> QED
      BY <1>a, <2>1, <3>1, <3>2
  <2>5. Leaves(t)
    BY <1>5, ListenerThrowCalls
  <2> HIDE DEF v, x
  <2> QED
    BY <1>4, <2>1, <2>3, <2>4, <2>5
<1>6. CASE SetValueAssign(t)
  <2> DEFINE n == Len(calls[t])
             v == Top(t).v
             x == Top(t).val
  <2>1. /\ n \in Nat /\ v \in Vars /\ x \in Values /\ InSet(calls[t], n, v)
        /\ calls[t][n].todo = {} /\ calls[t][n].val = x
    BY <1>6, TopSection DEF SetValueAssign
  <2>2. m_cbs' = m_cbs /\ m_val' = [m_val EXCEPT ![v] = x] /\ Leaves(t)
    BY <1>6, SetValueAssignCalls DEF SetValueAssign
  <2> HIDE DEF v, x
  <2>3. m_val'[v] = x /\ \A w \in Vars : w # v => m_val'[w] = m_val[w]
    BY <2>1, <2>2 DEF StoreShape
  <2>4. \A k \in DOMAIN m_cbs[v] : m_cbs[v][k].saw = x
    BY <1>a, <2>1
  <2> QED
    BY <1>4, <2>1, <2>2, <2>3, <2>4
<1>7. ASSUME UNCHANGED <<m_val, m_cbs, calls>>
      PROVE  Told /\ Know
  BY <1>a, <1>7
<1>8. CASE AddStore(t) \/ AddReturn(t) \/ \E v \in Vars : AddListener(t, v)
  BY <1>7, <1>8 DEF AddStore, AddReturn, AddListener, registry
<1>9. CASE AddEmplace(t)
  <2> DEFINE v == add[t].v
             entry == [call |-> add[t].call, saw |-> m_val[v], misled |-> FALSE]
             cbs == [k \in DOMAIN m_cbs[v] \cup {monotone_key} |->
                        IF k \in DOMAIN m_cbs[v] THEN m_cbs[v][k] ELSE entry]
  <2>1. v \in Vars /\ add[t].pc # "idle" /\ calls[t] = <<>>
    BY <1>9 DEF AddEmplace, AddShape, CallsShape
  <2>2. \A u \in Threads, i \in Nat : ~InSet(calls[u], i, v)
    <3>1. m_mtx[v] = t
      BY <2>1 DEF MutexInv, InAdd
    <3>2. \A i \in Nat : ~InSet(calls[t], i, v)
      BY <2>1 DEF InSet
    <3> HIDE DEF v
    <3> QED
      BY <2>1, <3>1, <3>2, OneSection
  <2>3. m_cbs' = [m_cbs EXCEPT ![v] = cbs] /\ m_val' = m_val /\ calls' = calls
    BY <1>9 DEF AddEmplace, registry
  <2>4. \A k \in DOMAIN cbs : IF k \in DOMAIN m_cbs[v] THEN cbs[k] = m_cbs[v][k] ELSE cbs[k].saw = m_val[v]
    OBVIOUS
  <2> HIDE DEF cbs, v
  <2>5. m_cbs'[v] = cbs /\ \A w \in Vars : w # v => m_cbs'[w] = m_cbs[w]
    BY <2>1, <2>3 DEF StoreShape
  <2>6. Told
    BY <1>a, <2>1, <2>2, <2>3, <2>5
  <2>7. Know
    <3> SUFFICES ASSUME NEW w \in Vars, NEW k \in DOMAIN m_cbs'[w]
                 PROVE  \/ m_cbs'[w][k].misled
                        \/ m_cbs'[w][k].saw = m_val[w]
                        \/ \E u \in Threads, i \in Nat : InSet(calls[u], i, w) /\ k \notin calls[u][i].todo
      BY <2>3
    <3>1. CASE w = v
      BY <1>a, <2>1, <2>2, <2>4, <2>5, <3>1
    <3>2. CASE w # v
      BY <1>a, <2>5, <3>2
    <3> QED
      BY <3>1, <3>2
  <2> QED
    BY <2>6, <2>7
<1>10. ASSUME NEW v \in Vars, NEW keys, Remove(v, keys), m_mtx[v] = Nobody, UNCHANGED <<m_val, calls>>
       PROVE  Told /\ Know
  <2> DEFINE cbs == [k \in DOMAIN m_cbs[v] \ keys |-> m_cbs[v][k]]
  <2>1. m_cbs' = [m_cbs EXCEPT ![v] = cbs]
    BY <1>10 DEF Remove
  <2>2. \A k \in DOMAIN cbs : k \in DOMAIN m_cbs[v] /\ cbs[k] = m_cbs[v][k]
    OBVIOUS
  <2> HIDE DEF cbs
  <2>3. m_cbs'[v] = cbs /\ \A w \in Vars : w # v => m_cbs'[w] = m_cbs[w]
    BY <2>1 DEF StoreShape
  <2>4. \A u \in Threads, i \in Nat : ~InSet(calls[u], i, v)
    BY <1>10, OneSection
  <2>5. Told
    BY <1>a, <1>10, <2>3, <2>4
  <2>6. Know
    <3> SUFFICES ASSUME NEW w \in Vars, NEW k \in DOMAIN m_cbs'[w]
                 PROVE  \/ m_cbs'[w][k].misled
                        \/ m_cbs'[w][k].saw = m_val[w]
                        \/ \E u \in Threads, i \in Nat : InSet(calls[u], i, w) /\ k \notin calls[u][i].todo
      BY <1>10
    <3>1. CASE w = v
      BY <1>a, <2>2, <2>3, <3>1
    <3>2. CASE w # v
      BY <1>a, <2>3, <3>2
    <3> QED
      BY <3>1, <3>2
  <2> QED
    BY <2>5, <2>6
<1>11. ASSUME NEW v \in Vars, ClearListener(t, v)
       PROVE  Told /\ Know
  BY <1>10, <1>11 DEF ClearListener, registry
<1>12. ASSUME NEW v \in Vars, NEW k \in 1..MaxAdds, DelListener(t, v, k)
       PROVE  Told /\ Know
  BY <1>10, <1>12 DEF DelListener, registry
<1> HIDE DEF Told, Know
<1> QED
  BY <1>1, <1>2, <1>3, <1>5, <1>6, <1>8, <1>9, <1>11, <1>12 DEF SetStep, AddStep

LEMMA KeysKept ==
    ASSUME CallsShape, AddShape, StoreShape, CounterInv, MutexInv, KeyInv, KeysNameListeners,
           NEW t \in Threads,
           \/ Quiet
           \/ SetValueLock(t) \/ SetStep(t) \/ AddStep(t)
           \/ \E v \in Vars : \/ AddListener(t, v) \/ ClearListener(t, v)
                              \/ \E k \in 1..MaxAdds : DelListener(t, v, k)
    PROVE  KeyInv' /\ KeysNameListeners'
<1> DEFINE Alone == \A u, w \in Threads : add'[u].pc # "idle" /\ add'[w].pc # "idle" => u = w
           Below == \A v \in Vars : \A k \in DOMAIN m_cbs'[v] : k <= monotone_key'
           Steps == \A u \in Threads :
                       /\ add'[u].pc = "store" => add'[u].tmp = monotone_key'
                       /\ add'[u].pc = "emplace" => \A v \in Vars : monotone_key' \notin DOMAIN m_cbs'[v]
                       /\ add'[u].pc = "return" =>
                             /\ monotone_key' \in DOMAIN m_cbs'[add'[u].v]
                             /\ m_cbs'[add'[u].v][monotone_key'].call = add'[u].call
           Given == \A r \in returned' : /\ r[1] \in Vars
                                         /\ r[2] \in DOMAIN m_cbs'[r[1]]
                                         /\ m_cbs'[r[1]][r[2]].call = r[3]
<1>a. CASE overlap'
  BY <1>a DEF KeyInv, KeysNameListeners
<1>b. CASE ~overlap'
  <2> SUFFICES Alone /\ Below /\ Steps /\ Given
    BY DEF KeyInv, KeysNameListeners
  <2>a. ~overlap
    <3>1. overlap' = overlap \/ \E v \in Vars : AddListener(t, v)
      BY DEF Quiet, SetValueLock, SetStep, ListenerReturn, ListenerThrow, SetValueAssign, addVars,
             AddStep, AddStore, AddEmplace, AddReturn, ClearListener, DelListener
    <3> QED
      BY <1>b, <3>1 DEF AddListener
  <2>b. /\ \A u, w \in Threads : add[u].pc # "idle" /\ add[w].pc # "idle" => u = w
        /\ \A v \in Vars : \A k \in DOMAIN m_cbs[v] : k <= monotone_key
        /\ \A u \in Threads :
              /\ add[u].pc = "store" => add[u].tmp = monotone_key
              /\ add[u].pc = "emplace" => \A v \in Vars : monotone_key \notin DOMAIN m_cbs[v]
              /\ add[u].pc = "return" => /\ monotone_key \in DOMAIN m_cbs[add[u].v]
                                         /\ m_cbs[add[u].v][monotone_key].call = add[u].call
        /\ \A r \in returned : /\ r[1] \in Vars
                               /\ r[2] \in DOMAIN m_cbs[r[1]] /\ m_cbs[r[1]][r[2]].call = r[3]
    BY <2>a DEF KeyInv, KeysNameListeners
  <2>c. /\ DOMAIN add = Threads /\ DOMAIN m_cbs = Vars
        /\ \A u \in Threads : add[u].pc # "idle" => add[u].v \in Vars
        /\ \A v \in Vars : DOMAIN m_cbs[v] \subseteq Nat
        /\ monotone_key \in Nat /\ \A u \in Threads : add[u] \in Adding
    BY ConfigAssumption DEF AddShape, StoreShape, CounterInv
  <2>1. ASSUME UNCHANGED <<monotone_key, add, returned>>,
               \A v \in Vars : /\ DOMAIN m_cbs'[v] = DOMAIN m_cbs[v]
                               /\ \A k \in DOMAIN m_cbs[v] : m_cbs'[v][k].call = m_cbs[v][k].call
        PROVE  Alone /\ Below /\ Steps /\ Given
    <3>1. Alone /\ Below /\ Given
      BY <2>1, <2>b
    <3>2. Steps
      BY <2>1, <2>b, <2>c
    <3> QED
      BY <3>1, <3>2
  <2>2. CASE Quiet
    BY <2>1, <2>2 DEF Quiet, addVars
  <2>3. CASE SetValueLock(t) \/ SetValueAssign(t)
    BY <2>1, <2>3 DEF SetValueLock, SetValueAssign, addVars
  <2>4. CASE ListenerReturn(t) \/ ListenerThrow(t)
    <3>1. \E keys : \E misled \in BOOLEAN : m_cbs' = Saw(t, keys, misled)
      BY <2>4 DEF ListenerReturn, ListenerThrow
    <3>a. PICK keys : \E misled \in BOOLEAN : m_cbs' = Saw(t, keys, misled)
      BY <3>1
    <3>2. PICK misled \in BOOLEAN : m_cbs' = Saw(t, keys, misled)
      BY <3>a
    <3>3. Top(t).v \in Vars /\ Top(t).val \in Values /\ UNCHANGED <<monotone_key, add, returned>>
      BY <2>4, TopSection DEF ListenerReturn, ListenerThrow, addVars
    <3>4. \A v \in Vars : /\ DOMAIN m_cbs'[v] = DOMAIN m_cbs[v]
                          /\ \A k \in DOMAIN m_cbs[v] : m_cbs'[v][k].call = m_cbs[v][k].call
      BY <3>2, <3>3, SawFacts
    <3> QED
      BY <2>1, <3>3, <3>4
  <2>5. ASSUME NEW v \in Vars, AddListener(t, v)
        PROVE  Alone /\ Below /\ Steps /\ Given
    <3> DEFINE a == [pc |-> "store", v |-> v, call |-> adds + 1, tmp |-> monotone_key]
    <3>1. /\ add' = [add EXCEPT ![t] = a] /\ UNCHANGED <<monotone_key, m_cbs, returned>>
          /\ m_mtx[v] = Nobody
      BY <2>5 DEF AddListener
    <3>2. \A u \in Threads : add[u].pc # "idle" => add[u].v = v
      <4>1. overlap' = (overlap \/ \E u \in Threads : add[u].pc # "idle" /\ add[u].v # v)
        BY <2>5 DEF AddListener
      <4> QED
        BY <1>b, <4>1
    <3>3. \A u \in Threads : add[u].pc = "idle"
      BY <3>1, <3>2, ConfigAssumption DEF MutexInv, InAdd
    <3>4. a.pc = "store" /\ a.tmp = monotone_key
      OBVIOUS
    <3> HIDE DEF a
    <3>5. add'[t] = a /\ \A u \in Threads : u # t => add'[u].pc = "idle"
      BY <2>c, <3>1, <3>3
    <3>6. Alone /\ Below /\ Given
      BY <2>b, <3>1, <3>5
    <3>7. Steps
      BY <3>1, <3>4, <3>5
    <3> QED
      BY <3>6, <3>7
  <2>6. ASSUME add[t].pc # "idle"
        PROVE  \A u \in Threads : u # t => add[u].pc = "idle"
    BY <2>6, <2>b
  <2>7. CASE AddStore(t)
    <3>1. /\ add' = [add EXCEPT ![t].pc = "emplace"] /\ monotone_key' = monotone_key + 1
          /\ add[t].pc # "idle" /\ UNCHANGED <<m_cbs, returned>>
      BY <2>7, <2>b DEF AddStore
    <3>2. add'[t].pc = "emplace" /\ \A u \in Threads : u # t => add'[u].pc = "idle"
      BY <2>6, <2>c, <3>1 DEF Adding
    <3>3. Below /\ \A v \in Vars : monotone_key' \notin DOMAIN m_cbs[v]
      BY <2>b, <2>c, <3>1
    <3>4. Alone /\ Steps /\ Given
      BY <2>b, <3>1, <3>2, <3>3
    <3> QED
      BY <3>3, <3>4
  <2>8. CASE AddEmplace(t)
    <3> DEFINE v == add[t].v
               entry == [call |-> add[t].call, saw |-> m_val[v], misled |-> FALSE]
               cbs == [k \in DOMAIN m_cbs[v] \cup {monotone_key} |->
                          IF k \in DOMAIN m_cbs[v] THEN m_cbs[v][k] ELSE entry]
    <3>1. /\ m_cbs' = [m_cbs EXCEPT ![v] = cbs] /\ add' = [add EXCEPT ![t].pc = "return"]
          /\ add[t].pc = "emplace" /\ v \in Vars /\ UNCHANGED <<monotone_key, returned>>
      BY <2>8, <2>c DEF AddEmplace
    <3>2. monotone_key \notin DOMAIN m_cbs[v]
      BY <2>b, <3>1
    <3>3. entry.call = add[t].call
      OBVIOUS
    <3> HIDE DEF entry
    <3>4. /\ DOMAIN cbs = DOMAIN m_cbs[v] \cup {monotone_key}
          /\ cbs[monotone_key].call = add[t].call
          /\ \A k \in DOMAIN m_cbs[v] : cbs[k] = m_cbs[v][k]
      BY <3>2, <3>3
    <3> HIDE DEF cbs
    <3>5. /\ add'[t].pc = "return" /\ add'[t].v = v /\ add'[t].call = add[t].call
          /\ \A u \in Threads : u # t => add'[u].pc = "idle"
      BY <2>6, <2>c, <3>1 DEF Adding
    <3> HIDE DEF v
    <3>6. m_cbs'[v] = cbs /\ \A w \in Vars : w # v => m_cbs'[w] = m_cbs[w]
      BY <2>c, <3>1
    <3>7. Alone
      BY <3>5
    <3>8. Below
      BY <2>b, <2>c, <3>1, <3>4, <3>6
    <3>9. Steps
      BY <3>1, <3>4, <3>5, <3>6
    <3>10. Given
      BY <2>b, <3>1, <3>4, <3>6
    <3> QED
      BY <3>7, <3>8, <3>9, <3>10
  <2>9. CASE AddReturn(t)
    <3> DEFINE v == add[t].v
               r == <<v, monotone_key, add[t].call>>
    <3>1. /\ add' = [add EXCEPT ![t] = NoAdd] /\ returned' = returned \cup {r}
          /\ add[t].pc = "return" /\ v \in Vars /\ UNCHANGED <<monotone_key, m_cbs>>
      BY <2>9, <2>c DEF AddReturn
    <3>2. NoAdd.pc = "idle"
      BY DEF NoAdd
    <3> HIDE DEF NoAdd
    <3>3. \A u \in Threads : add'[u].pc = "idle"
      BY <2>6, <2>c, <3>1, <3>2
    <3>4. r[1] = v /\ r[2] = monotone_key /\ r[3] = add[t].call
      OBVIOUS
    <3>5. Alone /\ Steps /\ Below
      BY <2>b, <3>1, <3>3
    <3>6. monotone_key \in DOMAIN m_cbs[v] /\ m_cbs[v][monotone_key].call = add[t].call
      BY <2>b, <3>1
    <3> HIDE DEF r, v
    <3>7. Given
      BY <2>b, <3>1, <3>4, <3>6
    <3> QED
      BY <3>5, <3>7
  <2>10. ASSUME NEW v \in Vars, NEW keys, Remove(v, keys), m_mtx[v] = Nobody,
                UNCHANGED <<monotone_key, add>>
         PROVE  Alone /\ Below /\ Steps /\ Given
    <3> DEFINE cbs == [k \in DOMAIN m_cbs[v] \ keys |-> m_cbs[v][k]]
    <3>1. /\ m_cbs' = [m_cbs EXCEPT ![v] = cbs]
          /\ returned' = {r \in returned : ~(r[1] = v /\ r[2] \in keys)}
      BY <2>10 DEF Remove
    <3>2. DOMAIN cbs = DOMAIN m_cbs[v] \ keys /\ \A k \in DOMAIN cbs : cbs[k] = m_cbs[v][k]
      OBVIOUS
    <3> HIDE DEF cbs
    <3>3. m_cbs'[v] = cbs /\ \A w \in Vars : w # v => m_cbs'[w] = m_cbs[w]
      BY <2>c, <3>1
    <3>4. \A u \in Threads : add[u].pc # "idle" => add[u].v # v
      BY <2>10, ConfigAssumption DEF MutexInv, InAdd
    <3>5. Alone /\ Below
      BY <2>10, <2>b, <3>2, <3>3
    <3>6. Steps
      BY <2>10, <2>b, <2>c, <3>2, <3>3, <3>4
    <3>7. Given
      BY <2>b, <3>1, <3>2, <3>3
    <3> QED
      BY <3>5, <3>6, <3>7
  <2>11. ASSUME NEW v \in Vars, ClearListener(t, v)
         PROVE  Alone /\ Below /\ Steps /\ Given
    BY <2>10, <2>11 DEF ClearListener, addVars
  <2>12. ASSUME NEW v \in Vars, NEW k \in 1..MaxAdds, DelListener(t, v, k)
         PROVE  Alone /\ Below /\ Steps /\ Given
    BY <2>10, <2>12 DEF DelListener, addVars
  <2> HIDE DEF Alone, Below, Steps, Given
  <2> QED
    BY <2>2, <2>3, <2>4, <2>5, <2>7, <2>8, <2>9, <2>11, <2>12 DEF SetStep, AddStep
<1> QED
  BY <1>a, <1>b
-----------------------------------------------------------------------------
(***************************************************************************)
(* LoadFromYaml.                                                           *)
(***************************************************************************)
LEMMA PrefixSkips ==
    ASSUME NEW before \in [Vars -> Values], NEW doc, NEW n \in Nat, doc[n + 1][1] \notin m_datas
    PROVE  Prefix(before, doc, n + 1) = Prefix(before, doc, n)
<1> DEFINE hits(v, m) == {i \in 1..m : doc[i][1] = v}
<1>1. \A v \in m_datas : hits(v, n + 1) = hits(v, n)
  OBVIOUS
<1>2. \A m \in Nat : Prefix(before, doc, m) =
         [v \in Vars |-> IF v \in m_datas /\ hits(v, m) # {} THEN doc[Max(hits(v, m))][2] ELSE before[v]]
  BY DEF Prefix
<1> HIDE DEF hits
<1> QED
  BY <1>1, <1>2

LEMMA PrefixSets ==
    ASSUME NEW before \in [Vars -> Values], NEW doc, NEW n \in Nat, m_datas \subseteq Vars,
           doc[n + 1][1] \in m_datas
    PROVE  Prefix(before, doc, n + 1)
               = [Prefix(before, doc, n) EXCEPT ![doc[n + 1][1]] = doc[n + 1][2]]
<1> DEFINE key == doc[n + 1][1]
           hits(v, m) == {i \in 1..m : doc[i][1] = v}
<1>1. \A v \in m_datas : v # key => hits(v, n + 1) = hits(v, n)
  OBVIOUS
<1>2. hits(key, n + 1) # {} /\ Max(hits(key, n + 1)) = n + 1
  <2>1. /\ n + 1 \in hits(key, n + 1)
        /\ \A i \in hits(key, n + 1) : i \in Nat /\ n + 1 >= i
    OBVIOUS
  <2> HIDE DEF hits
  <2>2. \A m \in hits(key, n + 1) : (\A i \in hits(key, n + 1) : m >= i) => m = n + 1
    BY <2>1
  <2> QED
    BY <2>1, <2>2 DEF Max
<1>3. \A m \in Nat : Prefix(before, doc, m) =
         [v \in Vars |-> IF v \in m_datas /\ hits(v, m) # {} THEN doc[Max(hits(v, m))][2] ELSE before[v]]
  BY DEF Prefix
<1>4. key \in m_datas
  OBVIOUS
<1> HIDE DEF hits, key
<1>5. Prefix(before, doc, n + 1) = [Prefix(before, doc, n) EXCEPT ![key] = doc[n + 1][2]]
  BY <1>1, <1>2, <1>3, <1>4
<1> QED
  BY <1>5 DEF key

LEMMA OneOrMore ==
    ASSUME NEW q \in Seq(Frames), q # <<>>
    PROVE  /\ Len(q) \in Nat \ {0} /\ (Len(q) <= 1 => Len(q) = 1) /\ (Len(q) = 1 \/ Len(q) > 1)
           /\ Len(q) - 1 = 1 => Len(q) = 2
<1>1. Len(q) \in Nat \ {0}
  OBVIOUS
<1>2. ASSUME NEW n \in Nat \ {0}
      PROVE  (n <= 1 => n = 1) /\ (n = 1 \/ n > 1) /\ (n - 1 = 1 => n = 2)
  OBVIOUS
<1> QED
  BY <1>1, <1>2

\* The frame of a load, and what its entries are.
LEMMA LoadFrame ==
    ASSUME NEW s \in Seq(Frames), s # <<>>, s[1].pc = "load"
    PROVE  /\ s[1] \in LoadFrames /\ s[1].i - 1 \in Nat /\ s[1].i = s[1].i - 1 + 1
           /\ s[1].before \in [Vars -> Values] /\ Len(s[1].doc) \in Nat
           /\ Len(s) \in Nat \ {0}
<1>1. s[1] \in LoadFrames
  BY FrameTypes
<1>2. s[1].doc \in Seq((Vars \cup {BadName}) \X (Values \cup {BadValue}))
  BY <1>1, ConfigAssumption DEF LoadFrames
<1> QED
  BY <1>1, <1>2 DEF LoadFrames

\* What LoadOK reads is the first frame, and the variable and value of the second.
LEMMA LoadSame ==
    ASSUME NEW s \in Seq(Frames), NEW r \in Seq(Frames), NEW val, LoadOK(s, val), r # <<>>, s # <<>>,
           r[1] = s[1], Len(s) > 1 <=> Len(r) > 1,
           Len(s) > 1 => r[2].v = s[2].v /\ r[2].val = s[2].val
    PROVE  LoadOK(r, val)
<1>1. Len(s) \in Nat \ {0} /\ Len(r) \in Nat \ {0}
  OBVIOUS
<1>2. Len(r) = 1 <=> Len(s) = 1
  BY <1>1
<1> QED
  BY <1>2 DEF LoadOK

\* The SetValue above a load sets its variable and ends.
LEMMA LoadSets ==
    ASSUME NEW s \in Seq(Frames), s # <<>>, NEW r \in Seq(Frames), NEW val,
           LoadOK(s, val), m_datas \subseteq Vars,
           Len(s) = 2, Len(r) = 1, r[1] = s[1], s[2].val \in Values
    PROVE  LoadOK(r, [val EXCEPT ![s[2].v] = s[2].val])
<1> SUFFICES ASSUME s[1].pc = "load", s[1].alone
             PROVE  LoadOK(r, [val EXCEPT ![s[2].v] = s[2].val])
  BY DEF LoadOK
<1> DEFINE f == s[1]
           n == f.i - 1
           m == n - 1
<1>1. n \in Nat /\ f.before \in [Vars -> Values]
  BY LoadFrame
<1>2. /\ n \in 0..Len(f.doc) /\ n >= 1 /\ f.doc[n][1] \in m_datas
      /\ s[2].v = f.doc[n][1] /\ s[2].val = f.doc[n][2]
      /\ val = Prefix(f.before, f.doc, m)
  BY DEF LoadOK
<1>3. m \in Nat /\ n = m + 1
  BY <1>1, <1>2
<1> HIDE DEF m, n
<1>4. f.doc[m + 1][2] \in Values /\ f.doc[m + 1][1] \in m_datas
  BY <1>2, <1>3
<1>5. Prefix(f.before, f.doc, m + 1) = [Prefix(f.before, f.doc, m) EXCEPT ![f.doc[m + 1][1]] = f.doc[m + 1][2]]
  BY <1>1, <1>3, <1>4, PrefixSets
<1>6. [val EXCEPT ![s[2].v] = s[2].val] = Prefix(f.before, f.doc, n)
  BY <1>2, <1>3, <1>5
<1>7. f.i - 1 = n
  BY DEF n
<1> QED
  BY <1>2, <1>6, <1>7 DEF LoadOK

LEMMA LoadKept ==
    ASSUME CallsShape, StoreShape, LoadInv, NEW t \in Threads,
           \/ \E v \in Vars : LookUp(t, v) \/ \E x \in Values : SetValueCall(t, v, x)
           \/ \E doc \in Docs : LoadFromYaml(t, doc)
           \/ LoadNext(t)
           \/ SetValueLock(t) \/ SetStep(t)
           \/ UNCHANGED <<registry, calls>>
    PROVE  LoadInv'
<1> DEFINE s == calls[t]
<1>a. ASSUME m_datas' = m_datas, \A u \in Threads : LoadOK(calls'[u], m_val')
      PROVE  LoadInv'
  <2>1. \A before, doc, n : Prefix(before, doc, n)' = Prefix(before, doc, n)
    BY <1>a DEF Prefix
  <2> QED
    BY <1>a, <2>1 DEF LoadInv, LoadOK
<1>b. /\ \A u \in Threads : LoadOK(calls[u], m_val) /\ calls[u] \in Seq(Frames) /\ StackOK(calls[u])
      /\ DOMAIN calls = Threads /\ m_datas \subseteq Vars /\ m_val \in [Vars -> Values]
  BY DEF LoadInv, CallsShape, StoreShape
<1>c. ASSUME NEW r, calls' = [calls EXCEPT ![t] = r], UNCHANGED registry, LoadOK(r, m_val)
      PROVE  LoadInv'
  <2>1. \A u \in Threads : LoadOK(calls'[u], m_val)
    BY <1>b, <1>c
  <2> QED
    BY <1>a, <1>c, <2>1 DEF registry
<1>d. ASSUME NEW r, r = <<>> \/ r[1].pc # "load" \/ ~r[1].alone, NEW val
      PROVE  LoadOK(r, val)
  BY <1>d DEF LoadOK
<1>e. ASSUME s # <<>>
      PROVE  /\ Pop(s) \in Seq(Frames) /\ Len(s) \in Nat \ {0} /\ Len(Pop(s)) = Len(s) - 1
             /\ \A i \in 1..(Len(s) - 1) : Pop(s)[i] = s[i]
  BY <1>b, <1>e, PopFacts
<1>f. ASSUME NEW q \in Seq(Frames), q = <<>> \/ q[1].pc # "load" \/ ~Disturbed(q)[1].alone, NEW val
      PROVE  LoadOK(Disturbed(q), val)
  <2>1. CASE q # <<>> /\ q[1].pc = "load"
    BY <1>d, <1>f, <2>1
  <2>2. CASE ~(q # <<>> /\ q[1].pc = "load")
    <3>1. Disturbed(q) = q
      BY <2>2 DEF Disturbed
    <3> QED
      BY <1>d, <2>2, <3>1
  <2> QED
    BY <2>1, <2>2
<1>1. ASSUME NEW v \in Vars, LookUp(t, v)
      PROVE  LoadInv'
  <2>1. ASSUME NEW u \in Threads
        PROVE  calls'[u] = <<>> \/ calls'[u][1].pc # "load" \/ ~calls'[u][1].alone
    <3>1. calls'[u] = Disturbed(calls[u])
      BY <1>1 DEF LookUp
    <3>2. calls[u] = <<>> => Disturbed(calls[u]) = <<>>
      BY DEF Disturbed
    <3> QED
      BY <1>b, <3>1, <3>2, DisturbedStack
  <2> QED
    BY <2>1 DEF LoadInv, LoadOK
<1>2. ASSUME NEW v \in Vars, NEW x \in Values, SetValueCall(t, v, x)
      PROVE  LoadInv'
  <2>1. UNCHANGED registry
    BY <1>2 DEF SetValueCall
  <2>2. CASE calls' = [calls EXCEPT ![t] = <<SetFrame(v, x)>>]
    <3>1. <<SetFrame(v, x)>>[1].pc # "load"
      BY DEF SetFrame
    <3> QED
      BY <1>c, <1>d, <2>1, <2>2, <3>1
  <2>3. CASE /\ InCall(t, "listener")
             /\ calls' = [calls EXCEPT ![t] =
                    Append([calls[t] EXCEPT ![Len(calls[t])].nested = @ + 1], SetFrame(v, x))]
    <3> DEFINE r == Append([s EXCEPT ![Len(s)].nested = @ + 1], SetFrame(v, x))
               n == Len(s)
    <3>1. s # <<>> /\ n \in Nat \ {0} /\ s[n].pc = "listener" /\ s \in Seq(Frames) /\ StackOK(s)
      BY <1>b, <2>3, TopOfStack DEF InCall
    <3>2. /\ r \in Seq(Frames) /\ Len(r) = n + 1 /\ \A i \in 1..(n - 1) : r[i] = s[i]
          /\ r[n].pc = "listener" /\ r[n].v = s[n].v /\ r[n].val = s[n].val
      BY <3>1, NestedStack
    <3>3. calls' = [calls EXCEPT ![t] = r]
      BY <2>3
    <3> HIDE DEF r, s
    <3>4. CASE n = 1
      <4>1. r[1].pc # "load"
        BY <3>2, <3>4
      <4> QED
        BY <1>c, <1>d, <2>1, <3>3, <4>1
    <3>5. CASE n > 1
      <4>1. r # <<>> /\ r[1] = s[1] /\ Len(r) > 1 /\ r[2].v = s[2].v /\ r[2].val = s[2].val
        BY <3>1, <3>2, <3>5
      <4>2. LoadOK(r, m_val)
        BY <1>b, <3>1, <3>2, <3>5, <4>1, LoadSame DEF s
      <4> QED
        BY <1>c, <2>1, <3>3, <4>2
    <3>6. n = 1 \/ n > 1
      BY <3>1, OneOrMore DEF s
    <3> QED
      BY <3>4, <3>5, <3>6
  <2> QED
    BY <1>2, <2>2, <2>3 DEF SetValueCall
<1>3. ASSUME NEW doc \in Docs, LoadFromYaml(t, doc)
      PROVE  LoadInv'
  <2> DEFINE f == [pc |-> "load", doc |-> doc, i |-> 1, before |-> m_val, alone |-> TRUE]
             r == <<f>>
  <2>1. r[1] = f /\ Len(r) = 1 /\ f.i - 1 = 0 /\ f.before = m_val /\ f.doc = doc
    OBVIOUS
  <2>2. Prefix(m_val, doc, 0) = m_val
    <3>1. \A v : {i \in 1..0 : doc[i][1] = v} = {}
      OBVIOUS
    <3> QED
      BY <1>b, <3>1 DEF Prefix
  <2>3. Len(doc) \in Nat
    BY ConfigAssumption
  <2>4. UNCHANGED registry /\ calls' = [calls EXCEPT ![t] = r]
    BY <1>3 DEF LoadFromYaml
  <2> HIDE DEF f, r
  <2>5. LoadOK(r, m_val)
    BY <2>1, <2>2, <2>3 DEF LoadOK
  <2> QED
    BY <1>c, <2>4, <2>5
<1>4. CASE LoadNext(t)
  <2> DEFINE f == s[1]
             later == [f EXCEPT !.i = @ + 1]
             n == f.i - 1
             key == f.doc[f.i][1]
             value == f.doc[f.i][2]
  <2>1. UNCHANGED registry
    BY <1>4 DEF LoadNext
  <2>2. s # <<>> /\ Len(s) = 1 /\ f \in LoadFrames
    BY <1>4, LoadNextCases
  <2>3. /\ f.pc = "load" /\ n \in Nat /\ f.i = n + 1 /\ f.before \in [Vars -> Values]
        /\ Len(f.doc) \in Nat
    BY <1>b, <2>2, LoadFrame DEF LoadFrames
  <2>4. /\ later.i - 1 = n + 1 /\ later.before = f.before /\ later.doc = f.doc
        /\ later.alone <=> f.alone
    BY <2>2, <2>3 DEF LoadFrames
  <2>5. f.alone => m_val = Prefix(f.before, f.doc, n)
    BY <1>b, <2>2, <2>3 DEF LoadOK
  <2>6. \/ calls' = [calls EXCEPT ![t] = Pop(s)]
        \/ f.i <= Len(f.doc) /\ key \notin m_datas /\ calls' = [calls EXCEPT ![t] = <<later>>]
        \/ /\ f.i <= Len(f.doc) /\ key \in m_datas /\ value \in Values
           /\ calls' = [calls EXCEPT ![t] = <<later, SetFrame(key, value)>>]
    BY <1>4, LoadNextCases
  <2> HIDE DEF later, n, f
  <2>7. CASE calls' = [calls EXCEPT ![t] = Pop(s)]
    <3>1. Pop(s) = <<>>
      BY <1>e, <2>2
    <3> QED
      BY <1>c, <1>d, <2>1, <2>7, <3>1
  <2>8. CASE /\ f.i <= Len(f.doc) /\ key \notin m_datas /\ calls' = [calls EXCEPT ![t] = <<later>>]
    <3> DEFINE r == <<later>>
    <3>1. Len(r) = 1 /\ r[1] = later
      OBVIOUS
    <3>2. Prefix(f.before, f.doc, n + 1) = Prefix(f.before, f.doc, n)
      <4>1. f.doc[n + 1][1] \notin m_datas
        BY <2>3, <2>8
      <4> QED
        BY <2>3, <4>1, PrefixSkips
    <3>3. n + 1 \in 0..Len(f.doc)
      BY <2>3, <2>8
    <3> HIDE DEF r
    <3>4. LoadOK(r, m_val)
      BY <2>4, <2>5, <3>1, <3>2, <3>3 DEF LoadOK
    <3> QED
      BY <1>c, <2>1, <2>8, <3>4 DEF r
  <2>9. CASE /\ f.i <= Len(f.doc) /\ key \in m_datas /\ value \in Values
             /\ calls' = [calls EXCEPT ![t] = <<later, SetFrame(key, value)>>]
    <3> DEFINE g == SetFrame(key, value)
               r == <<later, g>>
    <3>1. g.v = key /\ g.val = value
      BY DEF SetFrame
    <3> HIDE DEF g
    <3>2. Len(r) = 2 /\ r[1] = later /\ r[2] = g
      OBVIOUS
    <3>3. n + 1 \in 0..Len(f.doc) /\ n + 1 >= 1 /\ n + 1 - 1 = n
      BY <2>3, <2>9
    <3>4. f.doc[n + 1][1] = key /\ f.doc[n + 1][2] = value /\ key \in m_datas
      BY <2>3, <2>9
    <3>5. calls' = [calls EXCEPT ![t] = r]
      BY <2>9 DEF g
    <3> HIDE DEF r, key, value
    <3>6. /\ r[1].i - 1 = n + 1 /\ r[1].doc = f.doc /\ r[1].before = f.before
          /\ (r[1].alone <=> f.alone) /\ r[2].v = key /\ r[2].val = value
      BY <2>4, <3>1, <3>2
    <3>7. LoadOK(r, m_val)
      <4> SUFFICES ASSUME r[1].alone
                   PROVE  LoadOK(r, m_val)
        BY DEF LoadOK
      <4> DEFINE m == n + 1
      <4>1. /\ r[1].i - 1 = m /\ m \in 0..Len(r[1].doc) /\ m >= 1
            /\ m_val = Prefix(r[1].before, r[1].doc, m - 1)
        <5>1. r[1].i - 1 = n + 1
          BY <3>6
        <5>3. m \in 0..Len(f.doc) /\ m >= 1 /\ m - 1 = n
          BY <2>3, <3>3
        <5>4. r[1].i - 1 = m
          BY <5>1
        <5>2. m_val = Prefix(f.before, f.doc, n)
          BY <2>5, <3>6
        <5> QED
          BY <3>6, <5>2, <5>3, <5>4
      <4>2. r[1].doc[m][1] = r[2].v /\ r[1].doc[m][2] = r[2].val /\ r[2].v \in m_datas
        BY <3>4, <3>6
      <4>3. Len(r) > 1 /\ Len(r) # 1
        BY <3>2
      <4> HIDE DEF m
      <4> QED
        BY <4>1, <4>2, <4>3 DEF LoadOK
    <3> QED
      BY <1>c, <2>1, <3>5, <3>7
  <2> QED
    BY <2>6, <2>7, <2>8, <2>9
<1>g. ASSUME NEW r \in Seq(Frames), s # <<>>, Len(r) = Len(s), NEW n, n = Len(s),
             s[n].pc \in {"lock", "listener"}, r[n].pc \in {"listener", "assign"},
             r[n].v = s[n].v, r[n].val = s[n].val, \A i \in 1..(n - 1) : r[i] = s[i],
             calls' = [calls EXCEPT ![t] = r], UNCHANGED registry
      PROVE  LoadInv'
  <2> HIDE DEF s
  <2>1. s \in Seq(Frames) /\ LoadOK(s, m_val) /\ n \in Nat \ {0} /\ r # <<>>
    BY <1>b, <1>g DEF s
  <2>2. CASE n = 1
    <3>1. r[1].pc # "load"
      BY <1>g, <2>2
    <3> QED
      BY <1>c, <1>d, <1>g, <3>1
  <2>3. CASE n > 1
    <3>1. r[1] = s[1] /\ r[2].v = s[2].v /\ r[2].val = s[2].val
      BY <1>g, <2>1, <2>3
    <3>2. LoadOK(r, m_val)
      BY <1>g, <2>1, <2>3, <3>1, LoadSame
    <3> QED
      BY <1>c, <1>g, <3>2
  <2> QED
    BY <2>1, <2>2, <2>3
\* The call on top ends; the load below it, if there is one, only if m_val is val.
<1>h. ASSUME s # <<>>, NEW x \in Values, NEW v \in Vars, s[Len(s)].v = v, s[Len(s)].val = x,
             s[Len(s)].pc # "load", NEW val,
             Len(s) = 2 => val = [m_val EXCEPT ![v] = x],
             Len(s) > 2 => val = m_val
      PROVE  LoadOK(Pop(s), val)
  <2> DEFINE r == Pop(s)
  <2>1. /\ r \in Seq(Frames) /\ Len(s) \in Nat \ {0} /\ Len(r) = Len(s) - 1
        /\ \A i \in 1..(Len(s) - 1) : r[i] = s[i]
        /\ s \in Seq(Frames) /\ LoadOK(s, m_val)
    BY <1>b, <1>e, <1>h
  <2> HIDE DEF r, s
  <2>2. CASE Len(s) = 1
    <3>1. r = <<>>
      BY <2>1, <2>2
    <3> QED
      BY <1>d, <3>1 DEF r
  <2>3. CASE Len(s) = 2
    <3>1. Len(r) = 1 /\ r[1] = s[1] /\ s[2].v = v /\ s[2].val = x
      BY <1>h, <2>1, <2>3
    <3>2. LoadOK(r, [m_val EXCEPT ![s[2].v] = s[2].val])
      BY <1>b, <1>h, <2>1, <2>3, <3>1, LoadSets
    <3> QED
      BY <1>h, <2>3, <3>1, <3>2 DEF r
  <2>4. CASE Len(s) > 2
    <3>1. r # <<>> /\ Len(r) > 1 /\ r[1] = s[1] /\ r[2] = s[2] /\ Len(s) > 1
      BY <2>1, <2>4
    <3>2. LoadOK(r, m_val)
      BY <1>h, <2>1, <3>1, LoadSame
    <3> QED
      BY <1>h, <2>4, <3>2 DEF r
  <2> QED
    BY <2>1, <2>2, <2>3, <2>4
<1>5. CASE SetValueLock(t)
  <2> DEFINE n == Len(s)
             v == Top(t).v
             x == Top(t).val
  <2>1. /\ s # <<>> /\ s \in Seq(Frames) /\ StackOK(s) /\ Top(t) = s[n] /\ s[n].pc = "lock"
        /\ Top(t) \in SetFrames
    BY <1>5, TopOfStack DEF SetValueLock, InCall
  <2>2. v \in Vars /\ x \in Values /\ UNCHANGED registry
    BY <1>5, <2>1 DEF SetFrames, SetValueLock
  <2>3. CASE m_val[v] = x /\ calls' = [calls EXCEPT ![t] = Pop(@)]
    <3>1. m_val = [m_val EXCEPT ![v] = x]
      BY <1>b, <2>2, <2>3
    <3>2. calls' = [calls EXCEPT ![t] = Pop(s)]
      BY <2>3
    <3>3. LoadOK(Pop(s), m_val)
      BY <1>h, <2>1, <2>2, <3>1
    <3> HIDE DEF s
    <3> QED
      BY <1>c, <2>2, <3>2, <3>3
  <2>4. CASE calls' = [calls EXCEPT ![t][n] = Calling(@, DOMAIN m_cbs[v])]
    <3> DEFINE todo == DOMAIN m_cbs[v]
               r == [s EXCEPT ![n] = Calling(s[n], todo)]
    <3>1. todo \in SUBSET Nat
      BY <2>2, ConfigAssumption DEF StoreShape
    <3>3. calls' = [calls EXCEPT ![t] = r]
      BY <2>4
    <3> HIDE DEF todo
    <3>2. /\ r \in Seq(Frames) /\ Len(r) = n
          /\ r[n].v = s[n].v /\ r[n].val = s[n].val /\ r[n].pc \in {"listener", "assign"}
          /\ \A i \in 1..(n - 1) : r[i] = s[i]
      <4>1. s # <<>> /\ s \in Seq(Frames) /\ StackOK(s) /\ s[Len(s)] \in SetFrames
        BY <2>1
      <4>2. ASSUME NEW q \in Seq(Frames), q # <<>>, StackOK(q), q[Len(q)] \in SetFrames
            PROVE  LET m == Len(q)
                       p == [q EXCEPT ![m] = Calling(q[m], todo)]
                   IN  /\ p \in Seq(Frames) /\ Len(p) = m
                       /\ p[m].v = q[m].v /\ p[m].val = q[m].val
                       /\ p[m].pc \in {"listener", "assign"}
                       /\ \A i \in 1..(m - 1) : p[i] = q[i]
        BY <3>1, <4>2, CallingStack
      <4> QED
        BY <4>1, <4>2
    <3> HIDE DEF r
    <3> QED
      BY <1>g, <2>1, <2>2, <3>2, <3>3
  <2> QED
    BY <1>5, <2>3, <2>4 DEF SetValueLock
<1>6. CASE ListenerReturn(t)
  <2> DEFINE n == Len(s)
             todo == Top(t).todo \ {Current(t)}
             r == [s EXCEPT ![n] = Calling(s[n], todo)]
  <2>1. s # <<>> /\ InCall(t, "listener") /\ UNCHANGED registry
    BY <1>6 DEF ListenerReturn, InCall
  <2>2. /\ s \in Seq(Frames) /\ StackOK(s) /\ Top(t) = s[n]
        /\ Top(t).pc = "listener" /\ s[n] \in SetFrames
    BY <2>1, TopOfStack DEF InCall
  <2>3. todo \in SUBSET Nat
    BY <2>1, TopSection
  <2>4. calls' = [calls EXCEPT ![t] = r]
    BY <1>6, <2>2 DEF ListenerReturn
  <2> HIDE DEF todo
  <2>5. /\ r \in Seq(Frames) /\ Len(r) = n
        /\ r[n].v = s[n].v /\ r[n].val = s[n].val /\ r[n].pc \in {"listener", "assign"}
        /\ \A i \in 1..(n - 1) : r[i] = s[i]
    BY <2>1, <2>2, <2>3, CallingStack
  <2> HIDE DEF r
  <2> QED
    BY <1>g, <2>1, <2>2, <2>4, <2>5
<1>7. CASE ListenerThrow(t)
  <2> DEFINE p == Pop(s)
  <2>1. s # <<>> /\ UNCHANGED registry /\ calls' = [calls EXCEPT ![t] = Unwind(p)]
    BY <1>7 DEF ListenerThrow, InCall
  <2>2. /\ p \in Seq(Frames) /\ StackOK(p) /\ Len(s) \in Nat \ {0} /\ Len(p) = Len(s) - 1
        /\ \A i \in 1..(Len(s) - 1) : p[i] = s[i]
    BY <1>b, <1>e, <2>1, PopStack
  <2> HIDE DEF p
  <2>3. CASE Len(p) > 1
    <3>1. p[Len(p)].pc # "load" /\ p # <<>>
      BY <2>2, <2>3 DEF StackOK
    <3>2. /\ Unwind(p) = p /\ p[1] = s[1] /\ p[2] = s[2] /\ Len(s) > 1
      BY <2>2, <2>3, <3>1 DEF Unwind
    <3>3. LoadOK(s, m_val) /\ s \in Seq(Frames)
      BY <1>b
    <3> HIDE DEF s
    <3>4. LoadOK(p, m_val)
      BY <2>1, <2>2, <2>3, <3>1, <3>2, <3>3, LoadSame
    <3> QED
      BY <1>c, <2>1, <3>2, <3>4
  <2>4. CASE Len(p) <= 1
    <3>1. Unwind(p) = <<>> \/ Unwind(p)[1].pc # "load"
      <4>1. CASE p # <<>> /\ p[1].pc = "load"
        <5>1. Len(p) = 1
          BY <2>2, <2>4, <4>1, OneOrMore
        <5>2. Unwind(p) = Pop(p) /\ Pop(p) \in Seq(Frames) /\ Len(Pop(p)) = Len(p) - 1
          BY <2>2, <4>1, <5>1, PopFacts DEF Unwind
        <5> QED
          BY <5>1, <5>2
      <4>2. CASE p # <<>> /\ p[1].pc # "load"
        <5>1. Len(p) = 1
          BY <2>2, <2>4, <4>2, OneOrMore
        <5> QED
          BY <4>2, <5>1 DEF Unwind
      <4>3. CASE p = <<>>
        BY <4>3 DEF Unwind
      <4> QED
        BY <4>1, <4>2, <4>3
    <3> QED
      BY <1>c, <1>d, <2>1, <3>1
  <2> QED
    BY <2>2, <2>3, <2>4
<1>8. CASE SetValueAssign(t)
  <2> DEFINE n == Len(s)
             v == Top(t).v
             x == Top(t).val
             p == Pop(s)
             loads == p # <<>> /\ p[Len(p)].pc = "load"
  <2>1. /\ s # <<>> /\ n \in Nat \ {0} /\ Top(t) = s[n] /\ s[n].pc = "assign"
        /\ v \in Vars /\ x \in Values /\ s \in Seq(Frames) /\ StackOK(s)
    BY <1>8, <1>b, TopOfStack, TopSection DEF SetValueAssign, InCall
  <2>2. /\ m_val' = [m_val EXCEPT ![v] = x] /\ m_datas' = m_datas
        /\ \A u \in Threads \ {t} : calls'[u] = Disturbed(calls[u])
        /\ calls'[t] = IF loads THEN p ELSE Disturbed(p)
    BY <1>8 DEF SetValueAssign, AssignReturn
  <2>3. ASSUME NEW q \in Seq(Frames), StackOK(q)
        PROVE  LoadOK(Disturbed(q), m_val')
    <3>1. q = <<>> \/ q[1].pc # "load" \/ ~Disturbed(q)[1].alone
      BY <2>3, DisturbedStack
    <3> QED
      BY <1>f, <2>3, <3>1
  <2>4. ASSUME NEW u \in Threads, u # t
        PROVE  LoadOK(calls'[u], m_val')
    BY <1>b, <2>2, <2>3, <2>4
  <2>5. LoadOK(calls'[t], m_val')
    <3>1. p \in Seq(Frames) /\ StackOK(p) /\ Len(p) = n - 1
      BY <1>e, <2>1, PopStack
    <3>2. CASE loads
      <4>1. Len(p) \in 1..Len(p)
        BY <3>1, <3>2
      <4>2. Len(p) = 1
        BY <3>1, <3>2, <4>1 DEF StackOK
      <4>3. n = 2
        BY <2>1, <3>1, <4>2, OneOrMore
      <4>4. /\ s[Len(s)].v = v /\ s[Len(s)].val = x /\ s[Len(s)].pc # "load"
            /\ Len(s) = 2 => m_val' = [m_val EXCEPT ![v] = x]
        BY <2>1, <2>2
      <4>5. LoadOK(p, m_val')
        <5> HIDE DEF v, x
        <5> QED
          BY <1>h, <2>1, <4>3, <4>4
      <4> QED
        BY <2>2, <3>2, <4>5
    <3>3. CASE ~loads
      BY <2>2, <2>3, <3>1, <3>3
    <3> QED
      BY <3>2, <3>3
  <2> HIDE DEF s, p, v, x
  <2> QED
    BY <1>a, <2>2, <2>4, <2>5
<1>9. CASE UNCHANGED <<registry, calls>>
  BY <1>a, <1>b, <1>9 DEF registry
<1> QED
  BY <1>1, <1>2, <1>3, <1>4, <1>5, <1>6, <1>7, <1>8, <1>9 DEF SetStep
-----------------------------------------------------------------------------
(***************************************************************************)
(* The theorems.                                                           *)
(***************************************************************************)
LEMMA IInvInit == Init => IInv
<1> SUFFICES ASSUME Init
             PROVE  IInv
  OBVIOUS
<1>1. /\ m_datas = {} /\ m_val = [v \in Vars |-> Default]
      /\ m_cbs = [v \in Vars |-> NoListeners] /\ m_mtx = [v \in Vars |-> Nobody]
      /\ monotone_key = 0 /\ calls = [t \in Threads |-> <<>>] /\ add = [t \in Threads |-> NoAdd]
      /\ adds = 0 /\ returned = {} /\ MaxAdds \in Nat /\ Nobody \notin Threads /\ Default \in Values
  BY ConfigAssumption DEF Init
<1>2. DOMAIN NoListeners = {} /\ NoListeners \in [{} -> Entries]
  BY DEF NoListeners
<1>3. NoAdd \in Adding /\ NoAdd.pc = "idle"
  BY DEF NoAdd, Adding
<1> HIDE DEF NoListeners, NoAdd
<1>4. \A t \in Threads, i \in Nat, v \in Vars : ~InSet(calls[t], i, v)
  BY <1>1 DEF InSet
<1>5. CallsShape
  BY <1>1 DEF CallsShape, StackOK
<1>6. AddShape /\ StoreShape /\ CounterInv
  BY <1>1, <1>2, <1>3 DEF AddShape, StoreShape, CounterInv
<1>7. MutexInv
  BY <1>1, <1>3, <1>4 DEF MutexInv, InAdd
<1>8. SawInv
  BY <1>1, <1>2, <1>4 DEF SawInv
<1>9. KeyInv /\ KeysNameListeners
  BY <1>1, <1>2, <1>3 DEF KeyInv, KeysNameListeners
<1>10. LoadInv
  BY <1>1 DEF LoadInv, LoadOK
<1> QED
  BY <1>5, <1>6, <1>7, <1>8, <1>9, <1>10 DEF IInv

LEMMA IInvStep == IInv /\ [Next]_vars => IInv'
<1> SUFFICES ASSUME IInv, [Next]_vars
             PROVE  IInv'
  OBVIOUS
<1> USE DEF IInv
<1>1. ASSUME NEW t \in Threads, Quiet, UNCHANGED m_datas \/ \E v \in Vars : m_datas' = m_datas \cup {v},
             LoadInv'
      PROVE  IInv'
  <2>1. AddShape' /\ CounterInv'
    BY <1>1 DEF Quiet, addVars, AddShape, CounterInv
  <2> QED
    BY <1>1, <2>1, StoreKept, MutexKept, SawKept, KeysKept DEF Quiet
<1>2. ASSUME NEW t \in Threads, NEW v \in Vars, LookUp(t, v)
      PROVE  IInv'
  BY <1>1, <1>2, LookUpCalls, LoadKept DEF LookUp, Quiet
<1>3. ASSUME NEW t \in Threads, NEW v \in Vars, NEW x \in Values, SetValueCall(t, v, x)
      PROVE  IInv'
  BY <1>1, <1>3, SetValueCallCalls, LoadKept DEF SetValueCall, Quiet, registry
<1>4. ASSUME NEW t \in Threads, NEW doc \in Docs, LoadFromYaml(t, doc)
      PROVE  IInv'
  BY <1>1, <1>4, LoadFromYamlCalls, LoadKept DEF LoadFromYaml, Quiet, registry
<1>5. ASSUME NEW t \in Threads, LoadNext(t)
      PROVE  IInv'
  BY <1>1, <1>5, LoadNextCalls, LoadKept DEF LoadNext, Quiet, registry
<1>6. ASSUME NEW t \in Threads, SetValueLock(t) \/ SetStep(t)
      PROVE  IInv'
  <2>1. CallsShape'
    BY <1>6, SetValueLockCalls, ListenerReturnCalls, ListenerThrowCalls, SetValueAssignCalls
       DEF SetStep, Quiet
  <2>2. UNCHANGED addVars
    BY <1>6 DEF SetValueLock, SetStep, ListenerReturn, ListenerThrow, SetValueAssign
  <2>3. AddShape' /\ CounterInv'
    BY <2>2 DEF addVars, AddShape, CounterInv
  <2> QED
    BY <1>6, <2>1, <2>3, StoreKept, MutexKept, SawKept, KeysKept, LoadKept
<1>7. ASSUME NEW t \in Threads, AddStep(t) \/ \E v \in Vars : AddListener(t, v)
      PROVE  IInv'
  <2>1. UNCHANGED <<registry, calls>>
    BY <1>7 DEF AddStep, AddStore, AddEmplace, AddReturn, AddListener
  <2> QED
    BY <1>7, <2>1, AddStepShape, StoreKept, MutexKept, SawKept, KeysKept, LoadKept
<1>8. ASSUME NEW t \in Threads, NEW v \in Vars,
             ClearListener(t, v) \/ \E k \in 1..MaxAdds : DelListener(t, v, k)
      PROVE  IInv'
  <2>1. UNCHANGED <<registry, calls, addVars>>
    BY <1>8 DEF ClearListener, DelListener
  <2>2. CallsShape' /\ AddShape' /\ CounterInv'
    BY <2>1 DEF addVars, CallsShape, AddShape, CounterInv
  <2> QED
    BY <1>8, <2>1, <2>2, StoreKept, MutexKept, SawKept, KeysKept, LoadKept
<1>9. CASE UNCHANGED vars
  <2>1. UNCHANGED <<m_datas, m_val, m_cbs, m_mtx, monotone_key, calls, add, adds, returned, overlap>>
    BY <1>9 DEF vars, registry, addVars
  <2>2. CallsShape' /\ AddShape' /\ StoreShape' /\ CounterInv' /\ KeyInv' /\ KeysNameListeners'
    BY <2>1 DEF CallsShape, AddShape, StoreShape, CounterInv, KeyInv, KeysNameListeners
  <2>3. MutexInv' /\ SawInv'
    BY <2>1 DEF MutexInv, SawInv, InAdd, InSet
  <2>4. \A before, doc, n : Prefix(before, doc, n)' = Prefix(before, doc, n)
    BY <2>1 DEF Prefix
  <2>5. LoadInv'
    BY <2>1, <2>4 DEF LoadInv, LoadOK
  <2> QED
    BY <2>2, <2>3, <2>5
<1> QED
  BY <1>2, <1>3, <1>4, <1>5, <1>6, <1>7, <1>8, <1>9 DEF Next, VarNext, SetStep, AddStep

LEMMA IInvAlways == Spec => []IInv
BY IInvInit, IInvStep, PTL DEF Spec

\* What TypeOK says of the mutexes: a thread holds those of the variables whose SetValue or
\* AddListener it is in, and no other.
LEMMA TypesFollow == IInv => TypeOK
<1> SUFFICES ASSUME IInv
             PROVE  TypeOK
  OBVIOUS
<1>1. m_datas \subseteq Vars /\ m_val \in [Vars -> Values] /\ m_mtx \in [Vars -> Threads \cup {Nobody}]
  BY DEF IInv, StoreShape
<1>2. \A v \in Vars : \A k \in DOMAIN m_cbs[v] : k \in 1..MaxAdds /\ m_cbs[v][k].saw \in Values
  <2>1. \A v \in Vars : /\ DOMAIN m_cbs[v] \subseteq 1..MaxAdds
                        /\ \A k \in DOMAIN m_cbs[v] : m_cbs[v][k] \in Entries
    BY DEF IInv, StoreShape
  <2> QED
    BY <2>1 DEF Entries
<1>3. monotone_key \in 0..MaxAdds /\ adds \in 0..MaxAdds
  BY ConfigAssumption DEF IInv, CounterInv
<1>4. ASSUME NEW t \in Threads
      PROVE  Holds(t) = {v \in Vars : add[t].pc # "idle" /\ add[t].v = v}
                        \cup {calls[t][i].v : i \in {j \in DOMAIN calls[t] :
                                                       calls[t][j].pc \in {"listener", "assign"}}}
  <2> DEFINE s == calls[t]
             sections == {s[i].v : i \in {j \in DOMAIN s : s[j].pc \in {"listener", "assign"}}}
  <2>1. DOMAIN s = 1..Len(s) /\ Len(s) \in Nat /\ \A i \in 1..Len(s) : s[i] \in Frames
    BY DEF IInv, CallsShape
  <2>2. \A i \in 1..Len(s) : s[i].pc \in {"listener", "assign"} => s[i].v \in Vars
    BY <2>1 DEF Frames, SetFrames, LoadFrames
  <2>3. \A v \in Vars : v \in sections <=> \E i \in Nat : InSet(s, i, v)
    BY <2>1 DEF InSet
  <2>4. sections \subseteq Vars
    BY <2>1, <2>2
  <2>5. \A v \in Vars : m_mtx[v] = t <=> (add[t].pc # "idle" /\ add[t].v = v) \/ \E i \in Nat : InSet(s, i, v)
    BY DEF IInv, MutexInv, InAdd
  <2> HIDE DEF sections
  <2>6. Holds(t) = {v \in Vars : add[t].pc # "idle" /\ add[t].v = v} \cup sections
    BY <2>3, <2>4, <2>5 DEF Holds
  <2> QED
    BY <2>6 DEF sections
<1> QED
  BY <1>1, <1>2, <1>3, <1>4 DEF TypeOK

\* TypeOK: the variables keep their types, and whoever holds the mutex of a variable is in its
\* SetValue or AddListener, also when a listener threw or set variables itself.
THEOREM ConfigTypes == Spec => []TypeOK
BY IInvAlways, TypesFollow, PTL

\* ListenersInStep: while nobody is in SetValue or AddListener of a variable, its listeners have
\* seen its value, however SetValue of the threads and of listeners interleave.
THEOREM ListenersFollow == Spec => []ListenersInStep
<1>1. IInv => ListenersInStep
  <2> SUFFICES ASSUME IInv, NEW v \in Vars, m_mtx[v] = Nobody, NEW k \in DOMAIN m_cbs[v]
               PROVE  m_cbs[v][k].misled \/ m_cbs[v][k].saw = m_val[v]
    BY DEF ListenersInStep
  <2>1. \A t \in Threads, i \in Nat : ~InSet(calls[t], i, v)
    BY OneSection DEF IInv
  <2> QED
    BY <2>1 DEF IInv, SawInv
<1> QED
  BY <1>1, IInvAlways, PTL

\* KeysNameListeners: the key that AddListener returned removes the listener it was returned for,
\* as long as no two AddListener of different variables overlap.
THEOREM KeysStayValid == Spec => []KeysNameListeners
<1>1. IInv => KeysNameListeners
  BY DEF IInv
<1> QED
  BY <1>1, IInvAlways, PTL

\* LoadIsPrefix: an undisturbed LoadFromYaml has set the entries before its current one, whatever
\* the listeners it runs do, and whether or not an entry makes it throw.
THEOREM LoadsInOrder == Spec => []LoadIsPrefix
<1>1. IInv => LoadIsPrefix
  <2> SUFFICES ASSUME IInv, NEW t \in Threads, InCall(t, "load"), Top(t).alone
               PROVE  m_val = Prefix(Top(t).before, Top(t).doc, Top(t).i - 1)
    BY DEF LoadIsPrefix
  <2>1. calls[t] # <<>> /\ Len(calls[t]) = 1 /\ Top(t) = calls[t][1] /\ Top(t).pc = "load"
    BY TopOfStack DEF InCall, IInv
  <2>2. LoadOK(calls[t], m_val)
    BY DEF IInv, LoadInv
  <2> QED
    BY <2>1, <2>2 DEF LoadOK
<1> QED
  BY <1>1, IInvAlways, PTL

\* A thread that waits for a mutex waits for one that is in AddListener, or whose stack has a call
\* of SetValue for the variable.
LEMMA Holder ==
    ASSUME IInv, NEW t \in Threads, Waits(t)
    PROVE  /\ calls[t] # <<>> /\ Top(t) \in Frames /\ Top(t).v \in Vars
           /\ \E u \in Threads :
                 \/ InAdd(u, Top(t).v)
                 \/ \E i \in Nat : InSet(calls[u], i, Top(t).v)
<1>1. calls[t] # <<>> /\ Top(t).pc = "lock" /\ m_mtx[Top(t).v] # Nobody
  BY DEF Waits, InCall
<1>2. Top(t) \in SetFrames /\ Top(t) \in Frames
  BY <1>1, TopOfStack DEF IInv
<1>3. Top(t).v \in Vars
  BY <1>2 DEF SetFrames
<1>4. m_mtx[Top(t).v] \in Threads
  BY <1>1, <1>3 DEF IInv, StoreShape
<1>5. PICK u \in Threads : m_mtx[Top(t).v] = u
  BY <1>4
<1>6. InAdd(u, Top(t).v) \/ \E i \in Nat : InSet(calls[u], i, Top(t).v)
  BY <1>3, <1>5 DEF IInv, MutexInv
<1> QED
  BY <1>1, <1>2, <1>3, <1>6

\* If everybody who is busy waits, whoever holds what t waits for waits for a variable that
\* ranks higher.
LEMMA ChainUp ==
    ASSUME IInv, NEW t \in Threads, Waits(t),
           \A u \in Threads : ~Free(u) => Waits(u),
           NEW rank \in [Vars -> 1..Cardinality(Vars)], Ranked(rank)
    PROVE  \E u \in Threads : Waits(u) /\ rank[Top(t).v] < rank[Top(u).v]
<1> DEFINE v == Top(t).v
<1>1. PICK u \in Threads : InAdd(u, v) \/ \E i \in Nat : InSet(calls[u], i, v)
  BY Holder
<1>2. ~Free(u)
  <2>1. CASE InAdd(u, v)
    BY <2>1 DEF InAdd, Free
  <2>2. CASE \E i \in Nat : InSet(calls[u], i, v)
    <3>1. calls[u] # <<>>
      BY <2>2 DEF InSet
    <3> QED
      BY <3>1 DEF Free
  <2> QED
    BY <1>1, <2>1, <2>2
<1>3. Waits(u) /\ calls[u] # <<>> /\ Top(u).pc = "lock"
  BY <1>2 DEF Waits, InCall
<1>4. /\ Len(calls[u]) \in Nat \ {0} /\ Top(u) = calls[u][Len(calls[u])]
      /\ StackOK(calls[u]) /\ add[u].pc = "idle"
  BY <1>3, TopOfStack DEF IInv
<1>5. PICK i \in Nat : InSet(calls[u], i, v)
  BY <1>1, <1>4 DEF InAdd
<1>6. i \in 1..Len(calls[u]) /\ calls[u][i].pc \in {"listener", "assign"} /\ calls[u][i].v = v
  BY <1>5 DEF InSet
<1>7. i # Len(calls[u])
  BY <1>3, <1>4, <1>6
<1>8. i < Len(calls[u]) /\ Len(calls[u]) \in 1..Len(calls[u])
  BY <1>4, <1>6, <1>7
<1>9. calls[u][i].pc = "listener"
  BY <1>4, <1>6, <1>8 DEF StackOK
<1>10. rank[calls[u][i].v] < rank[calls[u][Len(calls[u])].v]
  BY <1>6, <1>8, <1>9 DEF Ranked
<1> QED
  BY <1>3, <1>4, <1>6, <1>10

\* NoDeadlock: while the listeners set only variables that rank higher than their own, some thread
\* in a call can go on: the mutex that ranks highest of those that are waited for has a holder
\* that does not wait.
THEOREM RankedNeverDeadlock == Spec => []NoDeadlock
<1>1. IInv => NoDeadlock
  <2> SUFFICES ASSUME IInv, NEW t \in Threads, ~Free(t),
                      NEW rank \in [Vars -> 1..Cardinality(Vars)], Ranked(rank),
                      \A u \in Threads : ~Free(u) => Waits(u)
               PROVE  FALSE
    BY DEF NoDeadlock
  <2> DEFINE n == Cardinality(Vars)
             Left(u) == n - rank[Top(u).v]
             Lefts == {Left(u) : u \in {w \in Threads : Waits(w)}}
  <2>1. n \in Nat
    BY ConfigAssumption, FS_CardinalityType
  <2>2. \A u \in Threads : Waits(u) => rank[Top(u).v] \in 1..n
    BY Holder
  <2>3. \A u \in Threads : Waits(u) => Left(u) \in Nat
    <3> TAKE u \in Threads
    <3> HAVE Waits(u)
    <3> DEFINE r == rank[Top(u).v]
    <3>1. r \in 1..n
      BY <2>2
    <3> HIDE DEF r, n
    <3>2. n - r \in Nat
      BY <2>1, <3>1
    <3> QED
      BY <3>2 DEF r
  <2>4. Lefts \in SUBSET Nat /\ Lefts # {}
    <3>1. Waits(t)
      OBVIOUS
    <3> QED
      BY <2>3, <3>1
  <2>5. PICK m \in Lefts : \A k \in Lefts : m <= k
    <3> HIDE DEF Lefts
    <3> QED
      BY <2>4, Facts!Least
  <2>6. PICK w \in Threads : Waits(w) /\ m = Left(w)
    BY <2>5
  <2>7. PICK u \in Threads : Waits(u) /\ rank[Top(w).v] < rank[Top(u).v]
    BY <2>6, ChainUp
  <2>8. Left(u) \in Lefts
    BY <2>7
  <2>9. Left(w) <= Left(u)
    BY <2>5, <2>6, <2>8
  <2>10. rank[Top(w).v] \in 1..n /\ rank[Top(u).v] \in 1..n
    BY <2>2, <2>6, <2>7
  <2> DEFINE a == rank[Top(w).v]
             b == rank[Top(u).v]
  <2>11. n - a <= n - b /\ a < b /\ a \in 1..n /\ b \in 1..n
    BY <2>7, <2>9, <2>10
  <2> HIDE DEF a, b, n
  <2> QED
    BY <2>1, <2>11
<1> QED
  BY <1>1, IInvAlways, PTL
=============================================================================

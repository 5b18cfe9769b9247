---------------------------- MODULE TaskExecutor ----------------------------
(***************************************************************************)
(* What a pool of threads promises to those who use it, without threads,   *)
(* locks or condition variables: accepted tasks wait in one queue, leave   *)
(* it in the order of acceptance, are run by one of a fixed number of      *)
(* slots, one task to a slot, and nothing begins once the pool is closed.  *)
(*                                                                         *)
(* ThreadPool implements this specification; TimerQueue is composed with   *)
(* it instead of with ThreadPool's own steps.                              *)
(***************************************************************************)
EXTENDS Sequences

CONSTANTS Tasks,    \* what can be submitted
          Slots,    \* the places where a task can run
          NoTask    \* a slot that runs nothing

VARIABLES queue,    \* the accepted tasks that have not begun, oldest first
          slot,     \* what each slot runs
          seen,     \* every task ever accepted
          done,     \* the tasks that ran to their end
          closed    \* TRUE once no further task may begin

execVars == <<queue, slot, seen, done, closed>>

ExecInit == /\ queue = <<>>
            /\ slot = [s \in Slots |-> NoTask]
            /\ seen = {}
            /\ done = {}
            /\ closed = FALSE

\* A closed pool still accepts tasks; they never begin.
Submit(t) == /\ t \notin seen
             /\ queue' = Append(queue, t)
             /\ seen' = seen \cup {t}
             /\ UNCHANGED <<slot, done, closed>>

Begin(s) == /\ ~closed
            /\ slot[s] = NoTask
            /\ queue # <<>>
            /\ slot' = [slot EXCEPT ![s] = Head(queue)]
            /\ queue' = Tail(queue)
            /\ UNCHANGED <<seen, done, closed>>

Finish(s) == /\ slot[s] # NoTask
             /\ done' = done \cup {slot[s]}
             /\ slot' = [slot EXCEPT ![s] = NoTask]
             /\ UNCHANGED <<queue, seen, closed>>

Close == /\ closed' = TRUE
         /\ UNCHANGED <<queue, slot, seen, done>>

\* The pool goes away: what was never begun is given up.
Discard == /\ closed
           /\ \A s \in Slots : slot[s] = NoTask
           /\ queue' = <<>>
           /\ UNCHANGED <<slot, seen, done, closed>>

ExecNext == \/ \E t \in Tasks : Submit(t)
            \/ \E s \in Slots : Begin(s) \/ Finish(s)
            \/ Close
            \/ Discard

ExecSpec == ExecInit /\ [][ExecNext]_execVars
=============================================================================

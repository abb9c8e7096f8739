--------------------------- MODULE SerialExecutor ---------------------------
(***************************************************************************)
(* What pkg/apk promises the callers of Install, Remove, Update and        *)
(* Upgrade, without its two mutexes and its goroutines: a bounded backlog  *)
(* served first in, first out, one operation at a time, each operation     *)
(* ending with a verdict.  ApkQueue is shown to implement this             *)
(* specification.                                                          *)
(***************************************************************************)
EXTENDS Naturals, Sequences

CONSTANTS
  Ops,        \* operations that may be submitted
  Capacity,   \* operations the backlog holds
  NoOp        \* no operation is active

VARIABLES
  backlog,    \* accepted operations whose command has not started
  active,     \* the operation whose command is being run
  verdict     \* what each operation came to

vars == <<backlog, active, verdict>>

Init == /\ backlog = <<>>
        /\ active = NoOp
        /\ verdict = [op \in Ops |-> "none"]

(* An operation is accepted once, while there is room. *)
Submit(op) == /\ verdict[op] = "none"
              /\ op # active
              /\ \A i \in 1..Len(backlog) : backlog[i] # op
              /\ Len(backlog) < Capacity
              /\ backlog' = Append(backlog, op)
              /\ UNCHANGED <<active, verdict>>

(* The oldest operation starts when no other is being run. *)
Start == /\ active = NoOp
         /\ backlog # <<>>
         /\ active' = Head(backlog)
         /\ backlog' = Tail(backlog)
         /\ UNCHANGED verdict

End == /\ active # NoOp
       /\ \E v \in {"completed", "failed"} : verdict' = [verdict EXCEPT ![active] = v]
       /\ active' = NoOp
       /\ UNCHANGED backlog

(* The backlog may be dropped; one operation that is about to start stays. *)
Drop == /\ \E n \in 0..1 : n <= Len(backlog) /\ backlog' = SubSeq(backlog, 1, n)
        /\ UNCHANGED <<active, verdict>>

Next == (\E op \in Ops : Submit(op)) \/ Start \/ End \/ Drop

Spec == Init /\ [][Next]_vars /\ WF_vars(Start) /\ WF_vars(End)
=============================================================================

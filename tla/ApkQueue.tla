------------------------------ MODULE ApkQueue ------------------------------
(***************************************************************************)
(* The package manager of the root helper (src/pkg/apk/apk.go): the        *)
(* mutating operations Install, Remove, Update and Upgrade, the pending    *)
(* queue, the bounded history and the two mutexes that order them.         *)
(*                                                                         *)
(* Each operation has at most one goroutine: the caller's own (runMutating *)
(* found no running operation) or the one a finishing operation starts for *)
(* it (runQueued).  pc is where that goroutine is.  The critical sections  *)
(* of queueMu contain no blocking call, so each is one step; m.mu is held  *)
(* across the apk command, so it is a variable.                            *)
(***************************************************************************)
EXTENDS Integers, Sequences, SequencesExt

CONSTANTS
  Ops,          \* calls of the four mutating operations, one value each
  NoOp,         \* the nil *Operation
  MaxQueue,     \* Manager.maxQueue
  MaxHistory    \* Manager.maxHistory

ASSUME ApkAssumption == /\ NoOp \notin Ops
                        /\ MaxQueue \in Nat
                        /\ MaxHistory \in Nat \ {0}

VARIABLES
  pc,        \* where the goroutine of each operation is
  state,     \* Operation.State
  id,        \* Operation.ID, 0 before genID
  clock,     \* the nanosecond clock genID reads
  result,    \* the local err of executeWithProgress
  running,   \* Manager.running
  queue,     \* Manager.queue
  history,   \* Manager.history
  mu,        \* the holder of Manager.mu
  replied    \* operations whose call has returned the *Operation

vars == <<pc, state, id, clock, result, running, queue, history, mu, replied>>

(* "lock" waits for m.mu, "exec" runs the command, "ended" has its result, *)
(* "archived" has handed over but not written its final State, "settled"   *)
(* has written it and still holds m.mu.                                    *)
Active  == {"lock", "exec", "ended"}
Holding == {"exec", "ended", "archived", "settled"}
PCs     == {"new", "rejected", "queued", "flushed", "done"} \cup Active \cup Holding
States  == {"none", "pending", "running", "completed", "failed"}

Init == /\ pc = [op \in Ops |-> "new"]
        /\ state = [op \in Ops |-> "none"]
        /\ id = [op \in Ops |-> 0]
        /\ clock = 0
        /\ result = [op \in Ops |-> "none"]
        /\ running = NoOp
        /\ queue = <<>>
        /\ history = <<>>
        /\ mu = NoOp
        /\ replied = {}

-----------------------------------------------------------------------------
(* genID under queueMu.  The clock is taken to advance between two calls.  *)
GenID(op) == /\ clock' = clock + 1
             /\ id' = [id EXCEPT ![op] = clock + 1]

(* Mutant of Archive: evicts one entry too many. *)
ArchiveShort(h, op) ==
  LET all == Append(h, op)
  IN  IF Len(all) >= MaxHistory THEN SubSeq(all, Len(all) - MaxHistory + 2, Len(all)) ELSE all

(* archiveOp: append, then keep the last MaxHistory entries. *)
Archive(h, op) ==
  LET all == Append(h, op)
  IN  IF Len(all) > MaxHistory
      THEN SubSeq(all, Len(all) - MaxHistory + 1, Len(all))
      ELSE all

(* Install and Remove: a name fails validatePackageName. *)
RejectName(op) == /\ pc[op] = "new"
                  /\ pc' = [pc EXCEPT ![op] = "rejected"]
                  /\ UNCHANGED <<state, id, clock, result, running, queue, history, mu, replied>>

(* runMutating with an operation running and no room in the queue. *)
RejectFull(op) == /\ pc[op] = "new"
                  /\ running # NoOp
                  /\ Len(queue) >= MaxQueue
                  /\ pc' = [pc EXCEPT ![op] = "rejected"]
                  /\ UNCHANGED <<state, id, clock, result, running, queue, history, mu, replied>>

(* runMutating with an operation running and room in the queue. *)
Enqueue(op) == /\ pc[op] = "new"
               /\ running # NoOp
               /\ Len(queue) < MaxQueue
               /\ GenID(op)
               /\ pc' = [pc EXCEPT ![op] = "queued"]
               /\ state' = [state EXCEPT ![op] = "pending"]
               /\ queue' = Append(queue, op)
               /\ replied' = replied \cup {op}
               /\ UNCHANGED <<result, running, history, mu>>

(* Mutant of Claim: claims without looking at m.running. *)
ClaimUnchecked(op) == /\ pc[op] = "new"
                      /\ GenID(op)
                      /\ pc' = [pc EXCEPT ![op] = "lock"]
                      /\ state' = [state EXCEPT ![op] = "running"]
                      /\ running' = op
                      /\ UNCHANGED <<result, queue, history, mu, replied>>

(* runMutating with nothing running: claim running, then go for m.mu. *)
Claim(op) == /\ pc[op] = "new"
             /\ running = NoOp
             /\ GenID(op)
             /\ pc' = [pc EXCEPT ![op] = "lock"]
             /\ state' = [state EXCEPT ![op] = "running"]
             /\ running' = op
             /\ UNCHANGED <<result, queue, history, mu, replied>>

(* Mutant of Acquire: runs the command without m.mu. *)
AcquireUnlocked(op) == /\ pc[op] = "lock"
                       /\ mu' = op
                       /\ pc' = [pc EXCEPT ![op] = "exec"]
                       /\ UNCHANGED <<state, id, clock, result, running, queue, history, replied>>

(* m.mu.Lock at the head of the goroutine. *)
Acquire(op) == /\ pc[op] = "lock"
               /\ mu = NoOp
               /\ mu' = op
               /\ pc' = [pc EXCEPT ![op] = "exec"]
               /\ UNCHANGED <<state, id, clock, result, running, queue, history, replied>>

(* executeWithProgress returns: apk succeeded, failed, could not be        *)
(* started, or was killed when the context expired.                        *)
Executed(op) == /\ pc[op] = "exec"
                /\ pc' = [pc EXCEPT ![op] = "ended"]
                /\ \E r \in {"ok", "err"} : result' = [result EXCEPT ![op] = r]
                /\ UNCHANGED <<state, id, clock, running, queue, history, mu, replied>>

(* Mutant of Finish: clears m.running and leaves the queue to the next call. *)
FinishOnly(op) == /\ pc[op] = "ended"
                  /\ history' = Archive(history, op)
                  /\ running' = NoOp
                  /\ pc' = [pc EXCEPT ![op] = "archived"]
                  /\ UNCHANGED <<state, queue, id, clock, result, mu, replied>>

(* Mutant of Finish: promotes the youngest pending operation. *)
FinishYoungest(op) ==
  /\ pc[op] = "ended"
  /\ history' = Archive(history, op)
  /\ running' = IF queue = <<>> THEN NoOp ELSE Last(queue)
  /\ queue' = IF queue = <<>> THEN queue ELSE Front(queue)
  /\ pc' = [a \in Ops |-> IF a = op THEN "archived" ELSE IF a = running' THEN "lock" ELSE pc[a]]
  /\ UNCHANGED <<state, id, clock, result, mu, replied>>

(* The critical section that ends runMutating and runQueued alike: archive *)
(* m.running, and promote the head of the queue with a goroutine of its    *)
(* own.                                                                    *)
Finish(op) ==
  /\ pc[op] = "ended"
  /\ history' = IF running = NoOp THEN history ELSE Archive(history, running)
  /\ \/ /\ queue = <<>>
        /\ running' = NoOp
        /\ pc' = [pc EXCEPT ![op] = "archived"]
        /\ UNCHANGED <<queue, state>>
     \/ /\ queue # <<>>
        /\ running' = Head(queue)
        /\ queue' = Tail(queue)
        /\ pc' = [pc EXCEPT ![op] = "archived", ![Head(queue)] = "lock"]
        /\ state' = [state EXCEPT ![Head(queue)] = "running"]
  /\ UNCHANGED <<id, clock, result, mu, replied>>

(* The final State is written after queueMu has been released. *)
Settle(op) == /\ pc[op] = "archived"
              /\ pc' = [pc EXCEPT ![op] = "settled"]
              /\ state' = [state EXCEPT ![op] =
                             IF result[op] = "ok" THEN "completed" ELSE "failed"]
              /\ UNCHANGED <<id, clock, result, running, queue, history, mu, replied>>

(* Mutant of Return: a path that misses m.mu.Unlock. *)
ReturnLocked(op) == /\ pc[op] = "settled"
                    /\ pc' = [pc EXCEPT ![op] = "done"]
                    /\ replied' = replied \cup {op}
                    /\ UNCHANGED <<state, id, clock, result, running, queue, history, mu>>

(* The deferred m.mu.Unlock; a caller's own goroutine returns here. *)
Return(op) == /\ pc[op] = "settled"
              /\ pc' = [pc EXCEPT ![op] = "done"]
              /\ mu' = NoOp
              /\ replied' = replied \cup {op}
              /\ UNCHANGED <<state, id, clock, result, running, queue, history>>

(* FlushQueue drops the pending operations and touches nothing else. *)
FlushQueue == /\ queue # <<>>
              /\ queue' = <<>>
              /\ pc' = [op \in Ops |-> IF op \in Range(queue) THEN "flushed" ELSE pc[op]]
              /\ UNCHANGED <<state, id, clock, result, running, history, mu, replied>>

Call(op) == RejectName(op) \/ RejectFull(op) \/ Enqueue(op) \/ Claim(op)
Step(op) == Acquire(op) \/ Executed(op) \/ Finish(op) \/ Settle(op) \/ Return(op)

(* Every call has been made and every goroutine has ended. *)
Quiet == /\ \A op \in Ops : pc[op] \in {"rejected", "flushed", "done"}
         /\ UNCHANGED vars

Next == (\E op \in Ops : Call(op) \/ Step(op)) \/ FlushQueue \/ Quiet

Spec == Init /\ [][Next]_vars

(* A goroutine that can run does run; Executed is bounded by the context's *)
(* timeout.  Callers and FlushQueue owe nothing.                           *)
FairSpec == Spec /\ \A op \in Ops : WF_vars(Step(op))

(* GetOperation(op.ID) answers. *)
Findable(op) == \/ running = op
                \/ op \in Range(queue)
                \/ op \in Range(history)

-----------------------------------------------------------------------------
(* Every variable holds the values its Go type and the code allow.         *)
TypeOK == /\ pc \in [Ops -> PCs]
          /\ state \in [Ops -> States]
          /\ id \in [Ops -> Nat]
          /\ clock \in Nat
          /\ result \in [Ops -> {"none", "ok", "err"}]
          /\ running \in Ops \cup {NoOp}
          /\ queue \in Seq(Ops)
          /\ history \in Seq(Ops)
          /\ mu \in Ops \cup {NoOp}
          /\ replied \in SUBSET Ops

(* m.mu and m.running together: at most one goroutine is at the command    *)
(* (from exec to the archiving critical section), and the operation it     *)
(* archives there is its own, although the code archives m.running.        *)
OneCommand ==
  \A a, b \in Ops : pc[a] \in {"exec", "ended"} /\ pc[b] \in Active
                      => a = b /\ running = a

(* First in, first out, across promotion and direct claims: when a command *)
(* runs, every operation accepted earlier has its final State or was       *)
(* flushed, so no two operations ever look unfinished out of order.        *)
InOrder ==
  \A a, b \in Ops : /\ pc[b] \in {"exec", "ended", "archived", "settled", "done"}
                    /\ 0 < id[a] /\ id[a] < id[b]
                    => \/ pc[a] = "flushed"
                       \/ pc[a] = "done" /\ state[a] \in {"completed", "failed"}

(* No lost promotion: pending operations always have a running operation   *)
(* ahead of them, whose goroutine is on its way to promote them.           *)
QueueHasRunner == queue # <<>> => running # NoOp /\ pc[running] \in Active

(* A client that polls GetOperation loses an operation only to FlushQueue, *)
(* or once MaxHistory younger ones have been archived.                     *)
Pollable ==
  \A op \in Ops : id[op] > 0 /\ pc[op] # "flushed" /\ ~Findable(op)
                    => /\ Len(history) = MaxHistory
                       /\ \A i \in 1..Len(history) : id[history[i]] > id[op]

(* An accepted operation comes to a final State or is flushed: the queue   *)
(* drains by itself, each goroutine starting the next.                     *)
EveryOpSettles ==
  \A op \in Ops : (id[op] > 0) ~> (pc[op] = "flushed" \/ state[op] \in {"completed", "failed"})

(* The manager is a serial executor to its callers.  An operation is in    *)
(* the backlog until it has m.mu, and active until it gives it back.       *)
Claimed  == IF running # NoOp /\ pc[running] = "lock" THEN <<running>> ELSE <<>>
Verdicts == [op \in Ops |-> IF pc[op] = "done" THEN state[op] ELSE "none"]

Executor == INSTANCE SerialExecutor WITH
  Capacity <- MaxQueue + 1,
  backlog  <- Claimed \o queue,
  active   <- mu,
  verdict  <- Verdicts

(* The refinement, with the executor's liveness.                           *)
ImplementsExecutor == Executor!Spec
=============================================================================

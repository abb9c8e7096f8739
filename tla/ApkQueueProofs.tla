--------------------------- MODULE ApkQueueProofs ---------------------------
(***************************************************************************)
(* Proofs about ApkQueue for every set of operations, queue capacity and   *)
(* history length.  OneCommand, InOrder and QueueHasRunner are not         *)
(* inductive: they rest on who is running, who holds m.mu and what the     *)
(* queue contains, which IInv states.  Pollable adds that the history is   *)
(* sorted by ID and evicts the oldest, which HistoryInv states.            *)
(***************************************************************************)
EXTENDS ApkQueue, SequenceTheorems, TLAPS

(* Manager.running is the one operation whose goroutine is before its      *)
(* archiving critical section.                                             *)
RunningInv == \A op \in Ops : pc[op] \in Active <=> running = op

(* m.mu is held exactly between Acquire and Return. *)
MutexInv == \A op \in Ops : pc[op] \in Holding <=> mu = op

(* The queue lists the queued operations, each once. *)
QueueInv == /\ \A i \in 1..Len(queue) : pc[queue[i]] = "queued"
            /\ \A op \in Ops : pc[op] = "queued" => \E i \in 1..Len(queue) : queue[i] = op
            /\ \A i, j \in 1..Len(queue) : i # j => queue[i] # queue[j]

(* Nobody waits when nothing runs. *)
NoRunner == running = NoOp => queue = <<>>

(* IDs are given out in order, to accepted operations only. *)
IdInv == /\ \A op \in Ops : id[op] <= clock
         /\ \A op \in Ops : id[op] = 0 <=> pc[op] \in {"new", "rejected"}
         /\ \A a, b \in Ops : id[a] = id[b] /\ id[a] # 0 => a = b

(* The queue is sorted by ID, behind the running operation. *)
QueueOrder == /\ \A i, j \in 1..Len(queue) : i < j => id[queue[i]] < id[queue[j]]
              /\ \A i \in 1..Len(queue) : running # NoOp => id[running] < id[queue[i]]

(* What was accepted before the running operation has left the queue. *)
RunningOrder ==
  \A a, b \in Ops : running = b /\ 0 < id[a] /\ id[a] < id[b]
                      => pc[a] \in {"flushed", "done", "archived", "settled"}

(* A goroutine past Settle has written the final State. *)
FinalState == \A op \in Ops : pc[op] \in {"settled", "done"}
                                => state[op] \in {"completed", "failed"}

IInv == /\ TypeOK
        /\ RunningInv
        /\ MutexInv
        /\ QueueInv
        /\ NoRunner
        /\ IdInv
        /\ QueueOrder
        /\ RunningOrder
        /\ FinalState
        /\ InOrder
-----------------------------------------------------------------------------
(* archiveOp keeps a sequence of operations. *)
LEMMA ArchiveType ==
  ASSUME NEW h \in Seq(Ops), NEW op \in Ops
  PROVE  Archive(h, op) \in Seq(Ops)
<1> DEFINE all == Append(h, op)
<1>1. all \in Seq(Ops) /\ Len(all) = Len(h) + 1
  BY AppendProperties
<1>2. CASE Len(all) > MaxHistory
  <2>1. \A i \in (Len(all) - MaxHistory + 1)..Len(all) : all[i] \in Ops
    BY <1>1, <1>2, ElementOfSeq, ApkAssumption
  <2>2. Len(all) \in Int /\ Len(all) - MaxHistory + 1 \in Int
    BY <1>1, LenProperties, ApkAssumption
  <2> HIDE DEF all
  <2>3. SubSeq(all, Len(all) - MaxHistory + 1, Len(all)) \in Seq(Ops)
    BY <2>1, <2>2, SubSeqProperties
  <2> QED
    BY <1>2, <2>3 DEF Archive, all
<1>3. CASE ~(Len(all) > MaxHistory)
  BY <1>1, <1>3 DEF Archive
<1> QED
  BY <1>2, <1>3

(* Every variable keeps the values the code can give it. *)
THEOREM Typing == Spec => []TypeOK
<1>1. Init => TypeOK
  BY ApkAssumption DEF Init, TypeOK, PCs, States, Active, Holding
<1>2. TypeOK /\ [Next]_vars => TypeOK'
  <2> SUFFICES ASSUME TypeOK, [Next]_vars
               PROVE  TypeOK'
    OBVIOUS
  <2> USE DEF PCs, States, Active, Holding
  <2>1. ASSUME NEW op \in Ops, RejectName(op) PROVE TypeOK'
    BY <2>1 DEF TypeOK, RejectName
  <2>2. ASSUME NEW op \in Ops, RejectFull(op) PROVE TypeOK'
    BY <2>2 DEF TypeOK, RejectFull
  <2>3. ASSUME NEW op \in Ops, Enqueue(op) PROVE TypeOK'
    BY <2>3 DEF TypeOK, Enqueue, GenID
  <2>4. ASSUME NEW op \in Ops, Claim(op) PROVE TypeOK'
    BY <2>4 DEF TypeOK, Claim, GenID
  <2>5. ASSUME NEW op \in Ops, Acquire(op) PROVE TypeOK'
    BY <2>5 DEF TypeOK, Acquire
  <2>6. ASSUME NEW op \in Ops, Executed(op) PROVE TypeOK'
    BY <2>6 DEF TypeOK, Executed
  <2>7. ASSUME NEW op \in Ops, Finish(op) PROVE TypeOK'
    <3>1. history' \in Seq(Ops)
      BY <2>7, ArchiveType DEF TypeOK, Finish
    <3>2. CASE queue = <<>>
      BY <2>7, <3>1, <3>2 DEF TypeOK, Finish
    <3>3. CASE queue # <<>>
      <4>1. Head(queue) \in Ops /\ Tail(queue) \in Seq(Ops)
        BY <3>3, HeadTailProperties DEF TypeOK
      <4> QED
        BY <2>7, <3>1, <3>3, <4>1 DEF TypeOK, Finish
    <3> QED
      BY <3>2, <3>3
  <2>8. ASSUME NEW op \in Ops, Settle(op) PROVE TypeOK'
    BY <2>8 DEF TypeOK, Settle
  <2>9. ASSUME NEW op \in Ops, Return(op) PROVE TypeOK'
    BY <2>9 DEF TypeOK, Return
  <2>10. CASE FlushQueue
    BY <2>10 DEF TypeOK, FlushQueue
  <2>11. CASE UNCHANGED vars
    BY <2>11 DEF TypeOK, vars
  <2> QED
    BY <2>1, <2>2, <2>3, <2>4, <2>5, <2>6, <2>7, <2>8, <2>9, <2>10, <2>11 DEF Next, Call, Step,
       Quiet
<1> QED
  BY <1>1, <1>2, PTL DEF Spec

(* The strengthened invariant holds initially and is kept by every step.   *)
LEMMA IInvInit == Init => IInv
<1> SUFFICES ASSUME Init PROVE IInv
  OBVIOUS
<1>1. TypeOK
  BY ApkAssumption DEF Init, TypeOK, PCs, States, Active, Holding
<1> QED
  BY <1>1, ApkAssumption DEF Init, IInv, RunningInv, MutexInv, QueueInv, NoRunner, IdInv,
     QueueOrder, RunningOrder, FinalState, InOrder, Active, Holding

(* Every step of the queue keeps the inductive invariant, action by action. *)
LEMMA IInvStep == IInv /\ [Next]_vars /\ TypeOK' => IInv'
<1> SUFFICES ASSUME TypeOK, TypeOK', RunningInv, MutexInv, QueueInv, NoRunner, IdInv,
                    QueueOrder, RunningOrder, FinalState, InOrder, [Next]_vars
             PROVE  IInv'
  BY DEF IInv
<1> USE ApkAssumption DEF Active, Holding
<1>a. /\ pc \in [Ops -> PCs] /\ state \in [Ops -> States]
      /\ id \in [Ops -> Nat] /\ clock \in Nat
      /\ running \in Ops \cup {NoOp} /\ mu \in Ops \cup {NoOp}
  BY DEF TypeOK
<1>b. queue \in Seq(Ops)
  BY DEF TypeOK
<1>1. ASSUME NEW op \in Ops, RejectName(op) PROVE IInv'
  <2>1. RunningInv' /\ MutexInv' /\ NoRunner' /\ FinalState'
    BY <1>a, <1>1 DEF RejectName, RunningInv, MutexInv, NoRunner, FinalState
  <2>2. QueueInv' /\ IdInv' /\ QueueOrder'
    BY <1>a, <1>b, <1>1 DEF RejectName, QueueInv, IdInv, QueueOrder
  <2>3. RunningOrder' /\ InOrder'
    BY <1>a, <1>1 DEF RejectName, RunningOrder, RunningInv, MutexInv, IdInv, InOrder, FinalState
  <2> QED
    BY <2>1, <2>2, <2>3 DEF IInv
<1>2. ASSUME NEW op \in Ops, RejectFull(op) PROVE IInv'
  <2>1. RunningInv' /\ MutexInv' /\ NoRunner' /\ FinalState'
    BY <1>a, <1>2 DEF RejectFull, RunningInv, MutexInv, NoRunner, FinalState
  <2>2. QueueInv' /\ IdInv' /\ QueueOrder'
    BY <1>a, <1>b, <1>2 DEF RejectFull, QueueInv, IdInv, QueueOrder
  <2>3. RunningOrder' /\ InOrder'
    BY <1>a, <1>2 DEF RejectFull, RunningOrder, RunningInv, MutexInv, IdInv, InOrder, FinalState
  <2> QED
    BY <2>1, <2>2, <2>3 DEF IInv
<1>3. ASSUME NEW op \in Ops, Enqueue(op) PROVE IInv'
  <2>1. /\ Len(queue') = Len(queue) + 1
        /\ \A i \in 1..Len(queue) : queue'[i] = queue[i]
        /\ queue'[Len(queue) + 1] = op
    BY <1>a, <1>b, <1>3, AppendProperties DEF Enqueue
  <2>2. /\ \A i \in 1..Len(queue) : queue[i] \in Ops /\ queue[i] # op
        /\ running \in Ops /\ running # op
    BY <1>a, <1>b, <1>3, ElementOfSeq DEF Enqueue, QueueInv, RunningInv
  <2>3. /\ id'[op] = clock + 1
        /\ \A a \in Ops \ {op} : id'[a] = id[a] /\ id[a] < clock + 1
    BY <1>a, <1>b, <1>3 DEF Enqueue, GenID, IdInv
  <2>4. RunningInv' /\ MutexInv' /\ NoRunner' /\ FinalState'
    BY <1>a, <1>b, <1>3 DEF Enqueue, RunningInv, MutexInv, NoRunner, FinalState
  <2>5. QueueInv'
    BY <1>a, <1>b, <1>3, <2>1, <2>2 DEF Enqueue, QueueInv
  <2>6. IdInv'
    BY <1>a, <1>b, <1>3 DEF Enqueue, GenID, IdInv
  <2>7. QueueOrder'
    <3>1. \A i \in 1..Len(queue) : id'[queue'[i]] = id[queue[i]] /\ id[queue[i]] < clock + 1
      BY <2>1, <2>2, <2>3
    <3>2. \A i, j \in 1..Len(queue') : i < j => id'[queue'[i]] < id'[queue'[j]]
      <4> SUFFICES ASSUME NEW i \in 1..Len(queue'), NEW j \in 1..Len(queue'), i < j
                   PROVE  id'[queue'[i]] < id'[queue'[j]]
        OBVIOUS
      <4>1. i \in 1..Len(queue)
        BY <1>b, <2>1, LenProperties
      <4>2. CASE j \in 1..Len(queue)
        BY <3>1, <4>1, <4>2 DEF QueueOrder
      <4>3. CASE j = Len(queue) + 1
        BY <3>1, <2>1, <2>3, <4>1, <4>3
      <4> QED
        BY <1>b, <2>1, <4>2, <4>3, LenProperties
    <3>3. \A i \in 1..Len(queue') : id'[running] < id'[queue'[i]]
      <4> SUFFICES ASSUME NEW i \in 1..Len(queue') PROVE id'[running] < id'[queue'[i]]
        OBVIOUS
      <4>1. CASE i \in 1..Len(queue)
        BY <3>1, <2>2, <2>3, <4>1 DEF QueueOrder
      <4>2. CASE i = Len(queue) + 1
        BY <2>1, <2>2, <2>3, <4>2
      <4> QED
        BY <1>b, <2>1, <4>1, <4>2, LenProperties
    <3> QED
      BY <1>3, <3>2, <3>3 DEF Enqueue, QueueOrder
  <2>8. RunningOrder'
    BY <1>a, <1>b, <1>3, <2>2, <2>3 DEF Enqueue, RunningOrder
  <2>9. InOrder'
    BY <1>a, <1>b, <1>3, <2>3 DEF Enqueue, InOrder, IdInv
  <2> QED
    BY <2>4, <2>5, <2>6, <2>7, <2>8, <2>9 DEF IInv
<1>4. ASSUME NEW op \in Ops, Claim(op) PROVE IInv'
  <2>1. /\ id'[op] = clock + 1
        /\ \A a \in Ops \ {op} : id'[a] = id[a] /\ id[a] < clock + 1
    BY <1>a, <1>b, <1>4 DEF Claim, GenID, IdInv
  <2>2. \A a \in Ops : pc[a] \notin Active \cup {"queued"}
    BY <1>a, <1>b, <1>4 DEF Claim, RunningInv, NoRunner, QueueInv
  <2>3. RunningInv' /\ MutexInv' /\ NoRunner' /\ FinalState'
    BY <1>a, <1>b, <1>4 DEF Claim, RunningInv, MutexInv, NoRunner, FinalState
  <2>4. QueueInv'
    BY <1>a, <1>b, <1>4 DEF Claim, QueueInv
  <2>5. IdInv'
    BY <1>a, <1>b, <1>4 DEF Claim, GenID, IdInv
  <2>6. QueueOrder'
    BY <1>a, <1>b, <1>4 DEF Claim, QueueOrder, NoRunner
  <2>7. RunningOrder'
    BY <1>a, <1>4, <2>1, <2>2 DEF Claim, RunningOrder, IdInv, PCs
  <2>8. InOrder'
    BY <1>a, <1>b, <1>4, <2>1 DEF Claim, InOrder, IdInv
  <2> QED
    BY <2>3, <2>4, <2>5, <2>6, <2>7, <2>8 DEF IInv
<1>5. ASSUME NEW op \in Ops, Acquire(op) PROVE IInv'
  <2>1. RunningInv' /\ MutexInv' /\ NoRunner' /\ FinalState'
    BY <1>a, <1>5 DEF Acquire, RunningInv, MutexInv, NoRunner, FinalState
  <2>2. QueueInv' /\ IdInv' /\ QueueOrder'
    BY <1>a, <1>b, <1>5 DEF Acquire, QueueInv, IdInv, QueueOrder
  <2>3. RunningOrder' /\ InOrder'
    BY <1>a, <1>5 DEF Acquire, RunningOrder, RunningInv, MutexInv, IdInv, InOrder, FinalState
  <2> QED
    BY <2>1, <2>2, <2>3 DEF IInv
<1>6. ASSUME NEW op \in Ops, Executed(op) PROVE IInv'
  <2>1. RunningInv' /\ MutexInv' /\ NoRunner' /\ FinalState'
    BY <1>a, <1>6 DEF Executed, RunningInv, MutexInv, NoRunner, FinalState
  <2>2. QueueInv' /\ IdInv' /\ QueueOrder'
    BY <1>a, <1>b, <1>6 DEF Executed, QueueInv, IdInv, QueueOrder
  <2>3. RunningOrder' /\ InOrder'
    BY <1>a, <1>6 DEF Executed, RunningOrder, RunningInv, MutexInv, IdInv, InOrder, FinalState
  <2> QED
    BY <2>1, <2>2, <2>3 DEF IInv
<1>7. ASSUME NEW op \in Ops, Finish(op) PROVE IInv'
  <2>1. /\ running = op /\ mu = op
        /\ \A a \in Ops \ {op} : pc[a] \notin Active \cup Holding
    BY <1>a, <1>b, <1>7 DEF Finish, RunningInv, MutexInv
  <2>2. CASE queue = <<>>
    <3>1. \A a \in Ops : pc[a] # "queued"
      BY <1>a, <1>b, <2>2 DEF QueueInv
    <3>2. RunningInv' /\ MutexInv' /\ NoRunner' /\ FinalState' /\ IdInv'
      BY <1>a, <1>b, <1>7, <2>1, <2>2 DEF Finish, RunningInv, MutexInv, NoRunner, FinalState, IdInv
    <3>3. QueueInv' /\ QueueOrder' /\ RunningOrder' /\ InOrder'
      BY <1>a, <1>b, <1>7, <2>1, <2>2, <3>1
      DEF Finish, QueueInv, QueueOrder, RunningOrder, InOrder, FinalState
    <3> QED
      BY <3>2, <3>3 DEF IInv
  <2>3. CASE queue # <<>>
    <3> DEFINE next == Head(queue)
    <3>1. /\ next \in Ops /\ next = queue[1] /\ Len(queue) \in Nat \ {0}
          /\ Len(Tail(queue)) = Len(queue) - 1
          /\ \A i \in 1..Len(Tail(queue)) : Tail(queue)[i] = queue[i + 1]
      BY <1>a, <1>b, <2>3, HeadTailProperties, EmptySeq
    <3>2. /\ next # op /\ pc[next] = "queued"
          /\ \A i \in 2..Len(queue) : queue[i] # next
      BY <1>a, <1>b, <1>7, <3>1 DEF Finish, QueueInv
    <3>3. /\ running' = next /\ queue' = Tail(queue)
          /\ pc' = [pc EXCEPT ![op] = "archived", ![next] = "lock"]
          /\ state' = [state EXCEPT ![next] = "running"]
          /\ UNCHANGED <<id, clock, mu>>
      BY <1>a, <1>b, <1>7, <2>3 DEF Finish
    <3>4. \A i \in 1..Len(queue) : queue[i] \in Ops
      BY <1>a, <1>b, ElementOfSeq
    <3>5. \A i \in 2..Len(queue) : id[next] < id[queue[i]]
      BY <1>a, <1>b, <3>1, <3>4 DEF QueueOrder
    <3> HIDE DEF next
    <3>6. RunningInv' /\ MutexInv' /\ NoRunner' /\ FinalState' /\ IdInv'
      BY <1>a, <1>b, <1>7, <2>1, <3>1, <3>2, <3>3 DEF RunningInv, MutexInv, NoRunner, FinalState,
         IdInv
    <3>7. QueueInv'
      <4>1. \A i \in 1..Len(queue') : pc'[queue'[i]] = "queued"
        <5> SUFFICES ASSUME NEW i \in 1..Len(queue') PROVE pc'[queue'[i]] = "queued"
          OBVIOUS
        <5>1. i + 1 \in 2..Len(queue) /\ queue'[i] = queue[i + 1]
          BY <3>1, <3>3
        <5>2. pc[queue[i + 1]] = "queued" /\ queue[i + 1] # next /\ queue[i + 1] \in Ops
          BY <5>1, <3>2, <3>4 DEF QueueInv
        <5> QED
          BY <1>a, <1>7, <3>3, <5>1, <5>2 DEF Finish
      <4>2. \A a \in Ops : pc'[a] = "queued" => \E i \in 1..Len(queue') : queue'[i] = a
        <5> SUFFICES ASSUME NEW a \in Ops, pc'[a] = "queued"
                     PROVE  \E i \in 1..Len(queue') : queue'[i] = a
          OBVIOUS
        <5>1. PICK i \in 1..Len(queue) : queue[i] = a
          BY <1>a, <1>b, <3>3 DEF QueueInv
        <5>2. i # 1
          BY <1>a, <1>b, <5>1, <3>1, <3>3
        <5>3. i - 1 \in 1..Len(queue') /\ queue'[i - 1] = a
          BY <1>a, <1>b, <5>1, <5>2, <3>1, <3>3
        <5> QED
          BY <1>a, <1>b, <5>3
      <4>3. \A i, j \in 1..Len(queue') : i # j => queue'[i] # queue'[j]
        BY <1>a, <1>b, <3>1, <3>3 DEF QueueInv
      <4> QED
        BY <1>a, <1>b, <4>1, <4>2, <4>3 DEF QueueInv
    <3>8. QueueOrder'
      BY <1>a, <1>b, <3>1, <3>3, <3>5 DEF QueueOrder
    <3>9. RunningOrder'
      <4> SUFFICES ASSUME NEW a \in Ops, 0 < id[a], id[a] < id[next]
                   PROVE  pc'[a] \in {"flushed", "done", "archived", "settled"}
        BY <1>a, <1>b, <3>3 DEF RunningOrder
      <4>1. pc[a] # "queued"
        BY <1>a, <1>b, <3>1, <3>4, <3>5 DEF QueueInv
      <4>2. pc[a] \notin {"new", "rejected"} /\ a # next
        BY <1>a, <1>b, <3>1 DEF IdInv
      <4> QED
        BY <1>a, <4>1, <4>2, <2>1, <3>3 DEF PCs
    <3>10. InOrder'
      BY <1>a, <1>b, <1>7, <2>1, <3>1, <3>2, <3>3 DEF InOrder, Finish
    <3> QED
      BY <3>6, <3>7, <3>8, <3>9, <3>10 DEF IInv
  <2> QED
    BY <1>a, <1>b, <2>2, <2>3
<1>8. ASSUME NEW op \in Ops, Settle(op) PROVE IInv'
  <2>1. RunningInv' /\ MutexInv' /\ NoRunner' /\ FinalState'
    BY <1>a, <1>8 DEF Settle, RunningInv, MutexInv, NoRunner, FinalState
  <2>2. QueueInv' /\ IdInv' /\ QueueOrder'
    BY <1>a, <1>b, <1>8 DEF Settle, QueueInv, IdInv, QueueOrder
  <2>3. RunningOrder' /\ InOrder'
    BY <1>a, <1>8 DEF Settle, RunningOrder, RunningInv, MutexInv, IdInv, InOrder, FinalState
  <2> QED
    BY <2>1, <2>2, <2>3 DEF IInv
<1>9. ASSUME NEW op \in Ops, Return(op) PROVE IInv'
  <2>1. RunningInv' /\ MutexInv' /\ NoRunner' /\ FinalState'
    BY <1>a, <1>9 DEF Return, RunningInv, MutexInv, NoRunner, FinalState
  <2>2. QueueInv' /\ IdInv' /\ QueueOrder'
    BY <1>a, <1>b, <1>9 DEF Return, QueueInv, IdInv, QueueOrder
  <2>3. RunningOrder' /\ InOrder'
    BY <1>a, <1>9 DEF Return, RunningOrder, RunningInv, MutexInv, IdInv, InOrder, FinalState
  <2> QED
    BY <2>1, <2>2, <2>3 DEF IInv
<1>10. CASE FlushQueue
  <2>1. \A a \in Ops : pc'[a] = IF pc[a] = "queued" THEN "flushed" ELSE pc[a]
    <3>1. DOMAIN queue = 1..Len(queue)
      BY <1>b, LenProperties
    <3>2. \A a \in Ops : a \in Range(queue) <=> pc[a] = "queued"
      BY <3>1 DEF Range, QueueInv
    <3> QED
      BY <1>10, <3>2 DEF FlushQueue
  <2>2. /\ queue' = <<>>
        /\ UNCHANGED <<state, id, clock, running, mu>>
    BY <1>a, <1>b, <1>10 DEF FlushQueue
  <2>3. RunningInv' /\ MutexInv' /\ QueueInv' /\ NoRunner' /\ FinalState'
    BY <1>a, <1>b, <2>1, <2>2 DEF RunningInv, MutexInv, QueueInv, NoRunner, FinalState
  <2>4. IdInv' /\ QueueOrder' /\ RunningOrder' /\ InOrder'
    BY <1>a, <1>b, <2>1, <2>2 DEF IdInv, QueueOrder, RunningOrder, InOrder
  <2> QED
    BY <2>3, <2>4 DEF IInv
<1>11. CASE UNCHANGED vars
  <2>1. RunningInv' /\ MutexInv' /\ QueueInv' /\ NoRunner' /\ FinalState'
    BY <1>11 DEF vars, RunningInv, MutexInv, QueueInv, NoRunner, FinalState
  <2>2. IdInv' /\ QueueOrder' /\ RunningOrder' /\ InOrder'
    BY <1>11 DEF vars, IdInv, QueueOrder, RunningOrder, InOrder
  <2> QED
    BY <2>1, <2>2 DEF IInv
<1> QED
  BY <1>a, <1>b, <1>1, <1>2, <1>3, <1>4, <1>5, <1>6, <1>7, <1>8, <1>9, <1>10, <1>11 DEF Next,
     Call, Step, Quiet

(* Every reachable state satisfies the strengthened invariant.             *)
THEOREM Inductive == Spec => []IInv
<1>1. Init => IInv
  BY IInvInit
<1>2. IInv /\ [Next]_vars /\ TypeOK' => IInv'
  BY IInvStep
<1> QED
  BY <1>1, <1>2, Typing, PTL DEF Spec

(* runMutating and runQueued never run two apk commands together, and the  *)
(* m.running that each archives is its own operation.                      *)
THEOREM Exclusion == Spec => []OneCommand
<1>1. IInv => OneCommand
  BY DEF IInv, OneCommand, RunningInv, TypeOK, Active
<1> QED
  BY <1>1, Inductive, PTL

(* Operations settle in the order their IDs were given out.                *)
THEOREM Fifo == Spec => []InOrder
<1>1. IInv => InOrder
  BY DEF IInv
<1> QED
  BY <1>1, Inductive, PTL

(* No pending operation is ever left without a goroutine to promote it.    *)
THEOREM NoLostPromotion == Spec => []QueueHasRunner
<1>1. IInv => QueueHasRunner
  <2> SUFFICES ASSUME TypeOK, RunningInv, NoRunner, queue # <<>>
               PROVE  running # NoOp /\ pc[running] \in Active
    BY DEF IInv, QueueHasRunner
  <2>1. running \in Ops
    BY DEF TypeOK, NoRunner
  <2> QED
    BY <2>1, ApkAssumption DEF RunningInv
<1> QED
  BY <1>1, Inductive, PTL

-----------------------------------------------------------------------------
(* What has been archived is in the history, in the order of its ID, or is *)
(* older than all of a full history.                                       *)
Past == {"archived", "settled", "done"}
HistoryInv ==
  /\ Len(history) <= MaxHistory
  /\ \A i \in 1..Len(history) : pc[history[i]] \in Past
  /\ \A i, j \in 1..Len(history) : i < j => id[history[i]] < id[history[j]]
  /\ \A op \in Ops : pc[op] \in Past =>
       \/ \E i \in 1..Len(history) : history[i] = op
       \/ Len(history) = MaxHistory /\ \A i \in 1..Len(history) : id[op] < id[history[i]]

(* archiveOp appends while there is room, and then shifts.                 *)
LEMMA Archiving ==
  ASSUME NEW h \in Seq(Ops), Len(h) <= MaxHistory, NEW op \in Ops
  PROVE  /\ Archive(h, op) \in Seq(Ops)
         /\ Len(h) < MaxHistory => Archive(h, op) = Append(h, op)
         /\ Len(h) = MaxHistory =>
              /\ Len(Archive(h, op)) = MaxHistory
              /\ \A i \in 1..MaxHistory :
                   Archive(h, op)[i] = IF i = MaxHistory THEN op ELSE h[i + 1]
<1>1. /\ MaxHistory \in Nat /\ MaxHistory > 0 /\ Len(h) \in Nat
  BY ApkAssumption, LenProperties
<1>2. /\ Append(h, op) \in Seq(Ops) /\ Len(Append(h, op)) = Len(h) + 1
      /\ \A i \in 1..Len(h) + 1 : Append(h, op)[i] = IF i = Len(h) + 1 THEN op ELSE h[i]
  BY AppendProperties
<1>3. Archive(h, op) \in Seq(Ops)
  BY ArchiveType
<1>4. ASSUME Len(h) < MaxHistory PROVE Archive(h, op) = Append(h, op)
  BY <1>1, <1>2, <1>4 DEF Archive
<1>5. ASSUME Len(h) = MaxHistory
      PROVE  /\ Len(Archive(h, op)) = MaxHistory
             /\ \A i \in 1..MaxHistory :
                  Archive(h, op)[i] = IF i = MaxHistory THEN op ELSE h[i + 1]
  <2> DEFINE all == Append(h, op)
             end == MaxHistory + 1
  <2>1. Archive(h, op) = SubSeq(all, 2, end)
    BY <1>1, <1>2, <1>5 DEF Archive
  <2>2. \A i \in 1..MaxHistory : all[i + 1] = IF i = MaxHistory THEN op ELSE h[i + 1]
    BY <1>1, <1>2, <1>5
  <2>3. all \in Seq(Ops) /\ Len(all) = end /\ \A i \in 2..end : all[i] \in Ops
    <3>1. \A i \in 1..Len(all) : all[i] \in Ops
      BY <1>2, ElementOfSeq
    <3> QED BY <1>1, <1>2, <1>5, <3>1
  <2>4. end \in Int /\ 2 \in Int /\ 2 <= end + 1 /\ end - 2 + 1 = MaxHistory
    BY <1>1
  <2> HIDE DEF all, end
  <2>5. /\ Len(SubSeq(all, 2, end)) = end - 2 + 1
        /\ \A i \in 1..end - 2 + 1 : SubSeq(all, 2, end)[i] = all[2 + i - 1]
    BY <2>3, <2>4, SubSeqProperties
  <2>6. \A i \in 1..MaxHistory : 2 + i - 1 = i + 1
    BY <1>1
  <2> QED BY <2>1, <2>2, <2>4, <2>5, <2>6
<1> QED BY <1>3, <1>4, <1>5

(* The one step that archives.  Whatever has been archived before is older *)
(* than what is archived now, by the order in which operations end.        *)
LEMMA FinishKeepsHistory ==
  ASSUME IInv, HistoryInv, NEW op \in Ops, Finish(op)
  PROVE  HistoryInv'
<1>1. /\ pc \in [Ops -> PCs] /\ id \in [Ops -> Nat] /\ history \in Seq(Ops) /\ queue \in Seq(Ops)
      /\ pc[op] = "ended" /\ running = op /\ id' = id /\ id[op] > 0
      /\ MaxHistory \in Nat /\ MaxHistory > 0 /\ Len(history) \in Nat
  BY ApkAssumption, LenProperties DEF IInv, TypeOK, RunningInv, IdInv, Active, Finish
<1>2. history' = Archive(history, op) /\ Len(history) <= MaxHistory
  BY <1>1, ApkAssumption DEF Finish, HistoryInv
<1>3. pc'[op] = "archived" /\ \A a \in Ops \ {op} : pc'[a] \in Past <=> pc[a] \in Past
  <2>1. CASE queue = <<>>
    BY <1>1, <2>1 DEF Finish
  <2>2. CASE queue # <<>>
    <3>1. Head(queue) \in Ops /\ pc[Head(queue)] = "queued" /\ Head(queue) # op
      BY <1>1, <2>2, HeadTailProperties, LenProperties, EmptySeq DEF IInv, QueueInv
    <3> QED BY <1>1, <2>2, <3>1 DEF Finish, Past
  <2> QED BY <2>1, <2>2
<1>4. \A a \in Ops : pc[a] \in Past => id[a] < id[op] /\ a # op
  <2> SUFFICES ASSUME NEW a \in Ops, pc[a] \in Past PROVE id[a] < id[op] /\ a # op
    OBVIOUS
  <2>1. ~(0 < id[op] /\ id[op] < id[a])
    BY <1>1 DEF IInv, InOrder, Past
  <2>2. a # op /\ id[a] # id[op] /\ id[a] \in Nat
    BY <1>1 DEF IInv, IdInv, Past
  <2> QED BY <1>1, <2>1, <2>2
<1>5. \A i \in 1..Len(history) : /\ history[i] \in Ops /\ history[i] # op /\ pc[history[i]] \in Past
                                 /\ id[history[i]] \in Nat /\ id[history[i]] < id[op]
  BY <1>1, <1>4, ElementOfSeq DEF HistoryInv
<1>6. /\ \A i, j \in 1..Len(history) : i < j => id[history[i]] < id[history[j]]
      /\ \A a \in Ops : pc[a] \in Past =>
           \/ \E i \in 1..Len(history) : history[i] = a
           \/ Len(history) = MaxHistory /\ \A i \in 1..Len(history) : id[a] < id[history[i]]
  BY DEF HistoryInv
<1>7. \A a \in Ops : pc'[a] \in Past => a = op \/ pc[a] \in Past
  BY <1>3
<1>8. /\ pc'[op] \in Past
      /\ \A i \in 1..Len(history) : pc'[history[i]] \in Past
  BY <1>3, <1>5 DEF Past
<1>9. /\ Len(history) \in Nat /\ MaxHistory \in Nat /\ MaxHistory > 0 /\ id' = id
  BY <1>1
<1>10. CASE Len(history) < MaxHistory
  <2>1. history' = Append(history, op)
    <3>1. history \in Seq(Ops) /\ Len(history) <= MaxHistory
      BY <1>1, <1>2
    <3> QED BY <1>2, <1>10, <3>1, Archiving
  <2>2. /\ Len(history') = Len(history) + 1 /\ history'[Len(history) + 1] = op
        /\ \A i \in 1..Len(history) : history'[i] = history[i]
    <3>1. history \in Seq(Ops)
      BY <1>1
    <3> QED BY <2>1, <3>1, AppendProperties
  <2>3. \A i \in 1..Len(history') : i = Len(history) + 1 \/ i \in 1..Len(history)
    BY <1>9, <2>2
  <2>4. \A i \in 1..Len(history') : pc'[history'[i]] \in Past
    BY <1>8, <2>2, <2>3
  <2>5. ASSUME NEW i \in 1..Len(history'), NEW j \in 1..Len(history'), i < j
        PROVE  id'[history'[i]] < id'[history'[j]]
    <3>1. i \in 1..Len(history) /\ history'[i] = history[i]
      BY <1>9, <2>2, <2>5
    <3>2. CASE j \in 1..Len(history)
      BY <1>6, <1>9, <2>2, <2>5, <3>1, <3>2
    <3>3. CASE j = Len(history) + 1
      BY <1>5, <1>9, <2>2, <3>1, <3>3
    <3> QED BY <2>3, <3>2, <3>3
  <2>6. ASSUME NEW a \in Ops, pc'[a] \in Past PROVE \E i \in 1..Len(history') : history'[i] = a
    <3>1. CASE a = op
      <4>1. Len(history) + 1 \in 1..Len(history')
        BY <1>9, <2>2
      <4> QED BY <2>2, <3>1, <4>1
    <3>2. CASE a # op
      <4>1. PICK i \in 1..Len(history) : history[i] = a
        BY <1>6, <1>7, <1>9, <1>10, <2>6, <3>2
      <4>2. i \in 1..Len(history')
        BY <1>9, <2>2
      <4> QED BY <2>2, <4>1, <4>2
    <3> QED BY <3>1, <3>2
  <2> QED BY <1>9, <1>10, <2>2, <2>4, <2>5, <2>6 DEF HistoryInv
<1>11. CASE Len(history) = MaxHistory
  <2>1. /\ Len(history') = MaxHistory
        /\ \A i \in 1..MaxHistory : history'[i] = IF i = MaxHistory THEN op ELSE history[i + 1]
    <3>1. history \in Seq(Ops) /\ Len(history) <= MaxHistory
      BY <1>1, <1>2
    <3> QED BY <1>2, <1>11, <3>1, Archiving
  <2>2. /\ MaxHistory \in 1..Len(history') /\ history'[MaxHistory] = op
        /\ \A i \in 1..Len(history') : \/ i = MaxHistory
                                       \/ i + 1 \in 1..Len(history) /\ history'[i] = history[i + 1]
    BY <1>9, <1>11, <2>1
  <2>3. \A i \in 1..Len(history') : pc'[history'[i]] \in Past
    BY <1>8, <2>2
  <2>4. ASSUME NEW i \in 1..Len(history'), NEW j \in 1..Len(history'), i < j
        PROVE  id'[history'[i]] < id'[history'[j]]
    <3>1. i + 1 \in 1..Len(history) /\ history'[i] = history[i + 1]
      BY <1>9, <2>1, <2>2, <2>4
    <3>2. CASE j = MaxHistory
      BY <1>5, <1>9, <2>2, <3>1, <3>2
    <3>3. CASE j # MaxHistory
      <4>1. j + 1 \in 1..Len(history) /\ history'[j] = history[j + 1] /\ i + 1 < j + 1
        BY <1>9, <2>1, <2>2, <2>4, <3>3
      <4> QED BY <1>6, <1>9, <3>1, <4>1
    <3> QED BY <3>2, <3>3
  <2>5. ASSUME NEW a \in Ops, pc'[a] \in Past
        PROVE  \/ \E i \in 1..Len(history') : history'[i] = a
               \/ \A i \in 1..Len(history') : id'[a] < id'[history'[i]]
    <3>1. CASE a = op
      BY <2>2, <3>1
    <3>2. ASSUME a # op, NEW k \in 1..Len(history), history[k] = a, k # 1
          PROVE  \E i \in 1..Len(history') : history'[i] = a
      <4>1. k - 1 \in 1..Len(history') /\ k - 1 # MaxHistory /\ (k - 1) + 1 = k
        BY <1>9, <1>11, <2>1, <3>2
      <4>2. history'[k - 1] = history[k]
        BY <2>2, <4>1
      <4> QED BY <3>2, <4>1, <4>2
    <3>3. ASSUME a # op, pc[a] \in Past, \A k \in 2..Len(history) : id[a] < id[history[k]]
          PROVE  \A i \in 1..Len(history') : id'[a] < id'[history'[i]]
      <4> SUFFICES ASSUME NEW i \in 1..Len(history') PROVE id[a] < id[history'[i]]
        BY <1>9
      <4>1. CASE i = MaxHistory
        BY <1>4, <2>2, <3>3, <4>1
      <4>2. CASE i # MaxHistory
        <5>1. i + 1 \in 2..Len(history) /\ history'[i] = history[i + 1]
          BY <1>9, <2>1, <2>2, <4>2
        <5> QED BY <3>3, <5>1
      <4> QED BY <4>1, <4>2
    <3>4. ASSUME 1 \in 1..Len(history), history[1] = a
          PROVE  \A k \in 2..Len(history) : id[a] < id[history[k]]
      BY <1>6, <1>9, <3>4
    <3>5. ASSUME \A k \in 1..Len(history) : id[a] < id[history[k]]
          PROVE  \A k \in 2..Len(history) : id[a] < id[history[k]]
      BY <1>9, <3>5
    <3>6. a = op \/ (pc[a] \in Past /\ \/ \E k \in 1..Len(history) : history[k] = a
                                       \/ \A k \in 1..Len(history) : id[a] < id[history[k]])
      BY <1>6, <1>7, <2>5
    <3> QED BY <3>1, <3>2, <3>3, <3>4, <3>5, <3>6
  <2> QED BY <1>9, <2>1, <2>3, <2>4, <2>5 DEF HistoryInv
<1> QED BY <1>2, <1>9, <1>10, <1>11

(* Only Finish archives; no other step takes anything out of the history   *)
(* or brings an operation past its archiving section.                      *)
LEMMA HistoryStep == IInv /\ HistoryInv /\ [Next]_vars => HistoryInv'
<1> SUFFICES ASSUME IInv, HistoryInv, [Next]_vars PROVE HistoryInv'
  OBVIOUS
<1>1. /\ pc \in [Ops -> PCs] /\ id \in [Ops -> Nat] /\ history \in Seq(Ops) /\ queue \in Seq(Ops)
  BY DEF IInv, TypeOK
<1>2. ASSUME history' = history,
             \A a \in Ops : /\ pc'[a] \in Past <=> pc[a] \in Past
                            /\ pc[a] \in Past => id'[a] = id[a]
      PROVE  HistoryInv'
  <2>1. \A i \in 1..Len(history) : history[i] \in Ops /\ pc[history[i]] \in Past
    BY <1>1, ElementOfSeq DEF HistoryInv
  <2>2. \A i \in 1..Len(history) : pc'[history[i]] \in Past /\ id'[history[i]] = id[history[i]]
    BY <1>2, <2>1
  <2> QED BY <1>2, <2>2 DEF HistoryInv
<1>3. CASE \E op \in Ops : Finish(op)
  BY <1>3, FinishKeepsHistory
<1>4. CASE \E op \in Ops : Call(op)
  BY <1>1, <1>2, <1>4 DEF Call, RejectName, RejectFull, Enqueue, Claim, GenID, Past
<1>5. CASE \E op \in Ops : Acquire(op) \/ Executed(op) \/ Settle(op) \/ Return(op)
  BY <1>1, <1>2, <1>5 DEF Acquire, Executed, Settle, Return, Past
<1>6. CASE FlushQueue
  <2>1. \A a \in Ops : pc'[a] = pc[a] \/ (pc[a] = "queued" /\ pc'[a] = "flushed")
    BY <1>1, <1>6, LenProperties DEF FlushQueue, IInv, QueueInv, Range
  <2> QED BY <1>2, <1>6, <2>1 DEF FlushQueue, Past
<1>7. CASE UNCHANGED vars
  BY <1>2, <1>7 DEF vars
<1> QED BY <1>3, <1>4, <1>5, <1>6, <1>7 DEF Next, Step, Quiet

(* GetOperation finds every accepted operation until it is flushed, or     *)
(* MaxHistory younger ones have been archived: never in between the queue, *)
(* m.running and the history.                                              *)
THEOREM Findability == Spec => []Pollable
<1>1. Init => HistoryInv
  BY ApkAssumption DEF Init, HistoryInv, Past
<1>2. IInv /\ HistoryInv => Pollable
  <2> SUFFICES ASSUME IInv, HistoryInv, NEW op \in Ops, id[op] > 0, pc[op] # "flushed", ~Findable(op)
               PROVE  Len(history) = MaxHistory /\ \A i \in 1..Len(history) : id[history[i]] > id[op]
    BY DEF Pollable
  <2>1. pc \in [Ops -> PCs] /\ id \in [Ops -> Nat] /\ history \in Seq(Ops) /\ queue \in Seq(Ops)
    BY DEF IInv, TypeOK
  <2>2. pc[op] \in Past
    <3>1. pc[op] \notin {"new", "rejected"} /\ pc[op] \notin Active
      BY <2>1 DEF IInv, IdInv, RunningInv, Findable
    <3>2. pc[op] # "queued"
      BY <2>1, LenProperties DEF IInv, QueueInv, Findable, Range
    <3> QED BY <2>1, <3>1, <3>2 DEF PCs, Active, Holding, Past
  <2>3. ~\E i \in 1..Len(history) : history[i] = op
    BY <2>1, LenProperties DEF Findable, Range
  <2>4. \A i \in 1..Len(history) : id[history[i]] \in Nat
    BY <2>1, ElementOfSeq
  <2> QED BY <2>1, <2>2, <2>3, <2>4 DEF HistoryInv
<1> QED BY <1>1, <1>2, Inductive, HistoryStep, PTL DEF Spec

-----------------------------------------------------------------------------
(* The refinement of SerialExecutor, step by step.  The claimed operation, *)
(* which waits for m.mu, is the head of the executor's backlog.            *)
LEMMA ClaimedType == IInv => Claimed \in Seq(Ops) /\ queue \in Seq(Ops) /\ Claimed \o queue \in Seq(Ops)
<1> SUFFICES ASSUME IInv PROVE Claimed \in Seq(Ops) /\ queue \in Seq(Ops) /\ Claimed \o queue \in Seq(Ops)
  OBVIOUS
<1>1. queue \in Seq(Ops) /\ running \in Ops \cup {NoOp}
  BY DEF IInv, TypeOK
<1>2. Claimed \in Seq(Ops)
  BY <1>1, EmptySeq DEF Claimed
<1> QED
  BY <1>1, <1>2, ConcatProperties

(* The manager starts as the executor does.                                *)
LEMMA RefinementInit == Init => Executor!Init
<1> SUFFICES ASSUME Init PROVE Executor!Init
  OBVIOUS
<1>1. Claimed = <<>> /\ queue = <<>>
  BY DEF Init, Claimed
<1>2. Claimed \o queue = <<>>
  BY <1>1, ConcatEmptySeq, EmptySeq
<1>3. Verdicts = [op \in Ops |-> "none"]
  BY DEF Init, Verdicts
<1> QED
  BY <1>2, <1>3 DEF Init, Executor!Init

(* Enqueue and Claim submit, Acquire starts, Return ends, FlushQueue       *)
(* drops; everything else is a stutter.                                    *)
LEMMA RefinementStep == IInv /\ IInv' /\ [Next]_vars => [Executor!Next]_(Executor!vars)
<1> SUFFICES ASSUME IInv, IInv', [Next]_vars
             PROVE  [Executor!Next]_(Executor!vars)
  OBVIOUS
<1> DEFINE backlog == Claimed \o queue
<1>t. /\ pc \in [Ops -> PCs] /\ state \in [Ops -> States]
      /\ running \in Ops \cup {NoOp} /\ mu \in Ops \cup {NoOp}
      /\ queue \in Seq(Ops) /\ Claimed \in Seq(Ops)
      /\ NoOp \notin Ops /\ MaxQueue \in Nat
  BY ApkAssumption, ClaimedType DEF IInv, TypeOK
<1>i. RunningInv /\ MutexInv /\ QueueInv /\ NoRunner /\ FinalState
  BY DEF IInv
<1>stutter. ASSUME UNCHANGED <<running, queue, mu, Claimed, Verdicts>>
            PROVE  [Executor!Next]_(Executor!vars)
  BY <1>stutter DEF Executor!vars
<1>1. ASSUME NEW op \in Ops, RejectName(op) \/ RejectFull(op) PROVE [Executor!Next]_(Executor!vars)
  <2>1. UNCHANGED <<running, queue, mu, state>> /\ pc[op] = "new" /\ pc' = [pc EXCEPT ![op] = "rejected"]
    BY <1>1 DEF RejectName, RejectFull
  <2>2. Verdicts' = Verdicts
    BY <1>t, <2>1 DEF Verdicts
  <2>3. Claimed' = Claimed
    BY <1>t, <2>1 DEF Claimed
  <2> QED
    BY <1>stutter, <2>1, <2>2, <2>3
<1>2. ASSUME NEW op \in Ops, Enqueue(op) PROVE Executor!Submit(op)
  <2>1. /\ pc[op] = "new" /\ running # NoOp /\ Len(queue) < MaxQueue
        /\ pc' = [pc EXCEPT ![op] = "queued"]
        /\ state' = [state EXCEPT ![op] = "pending"]
        /\ queue' = Append(queue, op)
        /\ UNCHANGED <<running, mu>>
    BY <1>2 DEF Enqueue
  <2>2. Claimed' = Claimed /\ Verdicts' = Verdicts
    BY <1>t, <1>i, <2>1 DEF Claimed, Verdicts, RunningInv, Active
  <2>3. backlog' = Append(backlog, op)
    <3>1. <<op>> \in Seq(Ops) /\ Append(queue, op) = queue \o <<op>> /\ backlog \in Seq(Ops)
      BY <1>t, AppendIsConcat, ClaimedType
    <3>2. Append(backlog, op) = (Claimed \o queue) \o <<op>>
      BY <3>1, AppendIsConcat
    <3> QED
      BY <1>t, <2>1, <2>2, <3>1, <3>2, ConcatAssociative
  <2>4. op # mu /\ Verdicts[op] = "none"
    BY <1>t, <1>i, <2>1 DEF Verdicts, MutexInv, Holding
  <2>5. Len(Claimed) \in 0..1 /\ \A i \in 1..Len(Claimed) : Claimed[i] # op
    BY <1>t, <1>i, <2>1 DEF Claimed, RunningInv, Active
  <2>6. /\ Len(backlog) = Len(Claimed) + Len(queue)
        /\ \A i \in 1..Len(backlog) :
              backlog[i] = IF i <= Len(Claimed) THEN Claimed[i] ELSE queue[i - Len(Claimed)]
    BY <1>t, ConcatProperties
  <2>7. Len(queue) \in Nat /\ \A i \in 1..Len(queue) : queue[i] # op
    BY <1>t, <1>i, <2>1, LenProperties DEF QueueInv
  <2>8. \A i \in 1..Len(backlog) : backlog[i] # op
    BY <2>5, <2>6, <2>7
  <2>9. Len(backlog) < MaxQueue + 1
    <3>1. Len(Claimed) \in 0..1 /\ Len(queue) \in Nat /\ Len(queue) < MaxQueue /\ MaxQueue \in Nat
      BY ApkAssumption, <2>1, <2>5, <2>7
    <3>2. \A c \in 0..1, q, m \in Nat : q < m => c + q < m + 1
      OBVIOUS
    <3> QED
      BY <2>6, <3>1, <3>2
  <2> QED
    BY <2>1, <2>2, <2>3, <2>4, <2>8, <2>9 DEF Executor!Submit
<1>3. ASSUME NEW op \in Ops, Claim(op) PROVE Executor!Submit(op)
  <2>1. /\ pc[op] = "new" /\ running = NoOp
        /\ pc' = [pc EXCEPT ![op] = "lock"]
        /\ state' = [state EXCEPT ![op] = "running"]
        /\ running' = op
        /\ UNCHANGED <<queue, mu>>
    BY <1>3 DEF Claim
  <2>2. queue = <<>> /\ Claimed = <<>> /\ Claimed' = <<op>>
    BY <1>t, <1>i, <2>1 DEF NoRunner, Claimed
  <2>3. backlog = <<>> /\ backlog' = <<op>>
    BY <1>t, <2>1, <2>2, ConcatEmptySeq, EmptySeq
  <2>4. op # mu /\ Verdicts[op] = "none" /\ Verdicts' = Verdicts
    BY <1>t, <1>i, <2>1 DEF Verdicts, MutexInv, Holding
  <2>5. <<op>> = Append(<<>>, op) /\ Len(<<>>) = 0 /\ 0 < MaxQueue + 1
    BY <1>t
  <2> QED
    BY <2>1, <2>3, <2>4, <2>5 DEF Executor!Submit
<1>4. ASSUME NEW op \in Ops, Acquire(op) PROVE Executor!Start
  <2>1. /\ pc[op] = "lock" /\ mu = NoOp /\ mu' = op
        /\ pc' = [pc EXCEPT ![op] = "exec"]
        /\ UNCHANGED <<running, queue, state>>
    BY <1>4 DEF Acquire
  <2>2. running = op
    BY <1>i, <2>1 DEF RunningInv, Active
  <2>3. Claimed = <<op>> /\ Claimed' = <<>> /\ Verdicts' = Verdicts
    BY <1>t, <2>1, <2>2 DEF Claimed, Verdicts
  <2>4. backlog' = queue
    BY <1>t, <2>1, <2>3, ConcatEmptySeq
  <2>5. backlog # <<>> /\ Head(backlog) = op /\ Tail(backlog) = queue
    BY <1>t, <2>3
  <2> QED
    BY <2>1, <2>3, <2>4, <2>5 DEF Executor!Start
<1>5. ASSUME NEW op \in Ops, Executed(op) PROVE [Executor!Next]_(Executor!vars)
  <2>1. /\ pc[op] = "exec" /\ pc' = [pc EXCEPT ![op] = "ended"]
        /\ UNCHANGED <<running, queue, mu, state>>
    BY <1>5 DEF Executed
  <2>2. Claimed' = Claimed /\ Verdicts' = Verdicts
    BY <1>t, <2>1 DEF Claimed, Verdicts
  <2> QED
    BY <1>stutter, <2>1, <2>2
<1>6. ASSUME NEW op \in Ops, Finish(op) PROVE [Executor!Next]_(Executor!vars)
  <2>1. pc[op] = "ended" /\ running = op /\ mu' = mu /\ Claimed = <<>> /\ backlog = queue
    BY <1>t, <1>i, <1>6, ConcatEmptySeq DEF Finish, RunningInv, Active, Claimed
  <2>2. CASE queue = <<>>
    <3>1. queue' = <<>> /\ running' = NoOp /\ state' = state /\ pc' = [pc EXCEPT ![op] = "archived"]
      BY <1>6, <2>2 DEF Finish
    <3>2. Claimed' = <<>> /\ Verdicts' = Verdicts
      BY <1>t, <2>1, <3>1 DEF Claimed, Verdicts
    <3>3. backlog' = backlog
      BY <2>1, <2>2, <3>1, <3>2
    <3> QED
      BY <2>1, <3>2, <3>3 DEF Executor!vars
  <2>3. CASE queue # <<>>
    <3> DEFINE next == Head(queue)
    <3>1. next \in Ops /\ Tail(queue) \in Seq(Ops) /\ next = queue[1] /\ 1 \in 1..Len(queue)
      BY <1>t, <2>3, HeadTailProperties
    <3>2. pc[next] = "queued"
      BY <1>i, <3>1 DEF QueueInv
    <3>3. /\ queue' = Tail(queue) /\ running' = next
          /\ state' = [state EXCEPT ![next] = "running"]
          /\ pc' = [pc EXCEPT ![op] = "archived", ![next] = "lock"]
      BY <1>6, <2>3 DEF Finish
    <3> HIDE DEF next
    <3>4. Verdicts' = Verdicts
      BY <1>t, <2>1, <3>1, <3>2, <3>3 DEF Verdicts
    <3>5. Claimed' = <<next>>
      BY <1>t, <3>1, <3>3 DEF Claimed
    <3>6. queue = <<next>> \o Tail(queue)
      BY <1>t, <2>3, <3>1 DEF next
    <3>7. backlog' = backlog
      BY <2>1, <3>3, <3>5, <3>6
    <3> QED
      BY <2>1, <3>4, <3>7 DEF Executor!vars
  <2> QED
    BY <2>2, <2>3
<1>7. ASSUME NEW op \in Ops, Settle(op) PROVE [Executor!Next]_(Executor!vars)
  <2>1. /\ pc[op] = "archived" /\ pc' = [pc EXCEPT ![op] = "settled"]
        /\ \A a \in Ops \ {op} : state'[a] = state[a]
        /\ UNCHANGED <<running, queue, mu>>
    BY <1>t, <1>7 DEF Settle
  <2>2. Claimed' = Claimed /\ Verdicts' = Verdicts
    BY <1>t, <2>1 DEF Claimed, Verdicts
  <2> QED
    BY <1>stutter, <2>1, <2>2
<1>8. ASSUME NEW op \in Ops, Return(op) PROVE Executor!End
  <2>1. /\ pc[op] = "settled" /\ pc' = [pc EXCEPT ![op] = "done"] /\ mu' = NoOp
        /\ UNCHANGED <<running, queue, state>>
    BY <1>8 DEF Return
  <2>2. mu = op /\ state[op] \in {"completed", "failed"}
    BY <1>i, <2>1 DEF MutexInv, FinalState, Holding
  <2>3. Claimed' = Claimed /\ Verdicts' = [Verdicts EXCEPT ![op] = state[op]]
    BY <1>t, <2>1 DEF Claimed, Verdicts
  <2>4. mu # NoOp /\ backlog' = backlog
    BY <1>t, <2>1, <2>2, <2>3
  <2> QED
    BY <2>1, <2>2, <2>3, <2>4 DEF Executor!End
<1>9. CASE FlushQueue
  <2>1. /\ queue' = <<>>
        /\ pc' = [a \in Ops |-> IF a \in Range(queue) THEN "flushed" ELSE pc[a]]
        /\ UNCHANGED <<running, mu, state>>
    BY <1>9 DEF FlushQueue
  <2>2. \A a \in Ops : pc'[a] = pc[a] \/ (pc[a] = "queued" /\ pc'[a] = "flushed")
    BY <1>t, <1>i, <2>1, LenProperties DEF QueueInv, Range
  <2>3. Claimed' = Claimed /\ Verdicts' = Verdicts
    BY <1>t, <2>1, <2>2 DEF Claimed, Verdicts
  <2>4. backlog' = Claimed
    BY <1>t, <2>1, <2>3, ConcatEmptySeq
  <2>5. \E n \in 0..1 : n <= Len(backlog) /\ Claimed = SubSeq(backlog, 1, n)
    <3>1. backlog \in Seq(Ops) /\ Len(backlog) \in Nat
      BY ClaimedType, LenProperties
    <3>2. CASE Claimed = <<>>
      BY <3>1, <3>2, SubSeqEmpty
    <3>3. CASE Claimed = <<running>>
      BY <1>t, <3>1, <3>3
    <3> QED
      BY <3>2, <3>3 DEF Claimed
  <2> QED
    BY <2>1, <2>3, <2>4, <2>5 DEF Executor!Next, Executor!Drop
<1>10. CASE UNCHANGED vars
  BY <1>10, <1>stutter DEF vars, Claimed, Verdicts
<1> QED
  BY <1>1, <1>2, <1>3, <1>4, <1>5, <1>6, <1>7, <1>8, <1>9, <1>10
  DEF Next, Call, Step, Quiet, Executor!Next

(* Every behaviour of the manager, seen through the backlog, the holder of *)
(* m.mu and the verdicts, is one of the serial executor.                   *)
THEOREM RefinesExecutor == Spec => Executor!Init /\ [][Executor!Next]_(Executor!vars)
  BY RefinementInit, RefinementStep, Inductive, PTL DEF Spec
=============================================================================

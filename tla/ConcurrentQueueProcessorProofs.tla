------------------- MODULE ConcurrentQueueProcessorProofs -------------------
(***************************************************************************)
(* The safety of ConcurrentQueueProcessor for every number of threads and  *)
(* items and every capacity, stopped or cancelled at any moment.  PoolInv  *)
(* speaks of the pool alone and of whether more items may come, so that it *)
(* also serves the piece writer inside storage_hasher; IInv adds where     *)
(* each item is and in which order items are handled.                      *)
(***************************************************************************)
EXTENDS ConcurrentQueueProcessor, QueueLemmas, TLAPS

-----------------------------------------------------------------------------
(* The invariant of the pool.                                              *)

WaitPCs == {"waking", "nudging", "nudge", "joining", "returned"}
PastStop == {"ending", "draining", "drained", "finishing", "sweeping", "exited"}
PastDrain == {"finishing", "sweeping", "exited"}

PoolType ==
    /\ queue_ \in Seq(Items \cup {nullopt})
    /\ started_ \in BOOLEAN
    /\ cancelled_ \in BOOLEAN
    /\ stop \in [Workers -> BOOLEAN]
    /\ done_ \in [Workers -> BOOLEAN]
    /\ pc \in [Workers -> WorkerPCs]
    /\ item \in [Workers -> Items \cup {NoItem}]
    /\ \A w \in Workers : pc[w] \in {"popped", "drained"} <=> item[w] # NoItem
    /\ ctl \in ControlPCs
    /\ k \in Workers

(* The controller: where it is says what it has done.                      *)
ControlInv ==
    /\ ctl \in {"idle", "returned"} => k = 1
    /\ ctl = "starting" => ~started_ /\ \A w \in k .. ThreadCount : pc[w] = "unborn"
    /\ ctl = "idle" /\ ~started_ => \A w \in Workers : pc[w] = "unborn"
    /\ ctl = "stopping" => started_
    /\ ctl \in WaitPCs => /\ started_
                          /\ ~producing
                          /\ \A w \in Workers : stop[w]
    /\ ctl = "joining" => \A w \in 1 .. k - 1 : pc[w] = "exited"
    /\ ctl = "returned" => \A w \in Workers : pc[w] = "exited"

(* The workers: without a cancellation a stop is requested only after the  *)
(* last push; a worker leaves its loop only because of a stop request; its *)
(* flag in done_ is set from its sweep on.                                 *)
StopInv ==
    /\ \A w \in Workers : stop[w] => started_
    /\ ~cancelled_ /\ ctl = "stopping" => ~producing
    /\ \A w \in Workers : ~cancelled_ /\ stop[w] => ~producing
    /\ \A w \in Workers : pc[w] \in PastStop => stop[w]
    /\ \A w \in Workers : done_[w] <=> pc[w] \in {"sweeping", "exited"}

(* The queue: items, then the wake-ups of wait().                          *)
ShapeInv ==
    /\ \A i \in 1 .. Len(queue_) : queue_[i] = nullopt => ctl \in WaitPCs
    /\ \A i, j \in 1 .. Len(queue_) :
          i < j /\ queue_[j] # nullopt => queue_[i] # nullopt

(* Without a cancellation a worker finishes only when no item is queued.   *)
DrainInv ==
    \A w \in Workers :
        ~cancelled_ /\ pc[w] \in PastDrain =>
            \A i \in 1 .. Len(queue_) : queue_[i] = nullopt

PoolInv ==
    /\ PoolType
    /\ ControlInv
    /\ StopInv
    /\ ShapeInv
    /\ DrainInv

(* What the pool and its users may do, as far as PoolInv is concerned: as  *)
(* long as there are producers they may push any item.                     *)
PoolNext ==
    \/ /\ UNCHANGED producing
       /\ \/ start /\ ~started_ /\ ~cancelled_
          \/ request_stop /\ started_ /\ ~producing
          \/ request_cancellation /\ started_
          \/ wait /\ ~producing /\ \A w \in Workers : stop[w]
          \/ Controller
          \/ \E w \in Workers : Invoke(w) \/ Worker(w)
    \/ producing /\ \E x \in Items : Submit(x)
    \/ /\ ~producing => ~producing'
       /\ UNCHANGED <<queue_, started_, cancelled_, stop, done_, pc, item, ctl, k>>

-----------------------------------------------------------------------------
(* Every action preserves PoolInv: one lemma per action, in it one step    *)
(* per conjunct.                                                           *)

(* start() begins.                                                         *)
LEMMA StartPool ==
    ASSUME PoolInv, start, ~started_, ~cancelled_, UNCHANGED producing
    PROVE  PoolInv'
<1> USE ThreadCountAssumption, CapacityAssumption, ItemAssumption DEF PoolInv,
       start
<1>1. PoolType'
  BY DEF PoolType, Workers, WorkerPCs, ControlPCs
<1>2. ControlInv'
  BY DEF PoolType, ControlInv, WaitPCs, Workers
<1>3. StopInv'
  BY DEF PoolType, StopInv, PastStop
<1>4. ShapeInv'
  BY DEF PoolType, ShapeInv, WaitPCs
<1>5. DrainInv'
  BY DEF PoolType, DrainInv, PastDrain
<1> QED
  BY <1>1, <1>2, <1>3, <1>4, <1>5

(* start() spawns one thread.                                              *)
LEMMA SpawnPool ==
    ASSUME PoolInv, Spawn, UNCHANGED producing
    PROVE  PoolInv'
<1> USE ThreadCountAssumption, CapacityAssumption, ItemAssumption DEF PoolInv,
       Spawn, Advance
<1>k. /\ k \in 1 .. ThreadCount /\ ~started_
      /\ pc[k] = "unborn" /\ item[k] = NoItem
      /\ \A w \in k .. ThreadCount : pc[w] = "unborn"
  BY DEF PoolType, ControlInv, Workers
<1>1. PoolType'
  BY <1>k DEF PoolType, Workers, WorkerPCs, ControlPCs
<1>2. ControlInv'
  <2>1. CASE k < ThreadCount
    BY <1>k, <2>1 DEF PoolType, ControlInv, WaitPCs, Workers
  <2>2. CASE k = ThreadCount
    <3>1. ctl' = "idle" /\ k' = 1
      BY <2>2
    <3>2. started_'
      BY <2>2
    <3> QED
      BY <3>1, <3>2 DEF PoolType, ControlInv, WaitPCs
  <2> QED
    BY <1>k, <2>1, <2>2
<1>3. StopInv'
  BY <1>k DEF PoolType, StopInv, PastStop
<1>4. ShapeInv'
  BY DEF PoolType, ShapeInv, WaitPCs
<1>5. DrainInv'
  BY <1>k DEF PoolType, DrainInv, PastDrain
<1> QED
  BY <1>1, <1>2, <1>3, <1>4, <1>5

(* request_stop() begins, after the last push.                             *)
LEMMA RequestStopPool ==
    ASSUME PoolInv, request_stop, started_, ~producing, UNCHANGED producing
    PROVE  PoolInv'
<1> USE ThreadCountAssumption, CapacityAssumption, ItemAssumption DEF PoolInv,
       request_stop
<1>1. PoolType'
  BY DEF PoolType, Workers, WorkerPCs, ControlPCs
<1>2. ControlInv'
  BY DEF PoolType, ControlInv, WaitPCs, Workers
<1>3. StopInv'
  BY DEF PoolType, StopInv, PastStop
<1>4. ShapeInv'
  BY DEF PoolType, ShapeInv, WaitPCs
<1>5. DrainInv'
  BY DEF PoolType, DrainInv, PastDrain
<1> QED
  BY <1>1, <1>2, <1>3, <1>4, <1>5

(* request_cancellation() sets cancelled_.                                 *)
LEMMA RequestCancellationPool ==
    ASSUME PoolInv, request_cancellation, started_, UNCHANGED producing
    PROVE  PoolInv'
<1> USE ThreadCountAssumption, CapacityAssumption, ItemAssumption DEF PoolInv,
       request_cancellation
<1>1. PoolType'
  BY DEF PoolType, Workers, WorkerPCs, ControlPCs
<1>2. ControlInv'
  BY DEF PoolType, ControlInv, WaitPCs, Workers
<1>3. StopInv'
  BY DEF PoolType, StopInv, PastStop
<1>4. ShapeInv'
  BY DEF PoolType, ShapeInv, WaitPCs
<1>5. DrainInv'
  BY DEF PoolType, DrainInv, PastDrain
<1> QED
  BY <1>1, <1>2, <1>3, <1>4, <1>5

(* One thread's stop request.                                              *)
LEMMA StopThreadPool ==
    ASSUME PoolInv, StopThread, UNCHANGED producing
    PROVE  PoolInv'
<1> USE ThreadCountAssumption, CapacityAssumption, ItemAssumption DEF PoolInv,
       StopThread, Advance
<1>1. PoolType'
  BY DEF PoolType, Workers, WorkerPCs, ControlPCs
<1>2. ControlInv'
  BY DEF PoolType, ControlInv, WaitPCs, Workers
<1>3. StopInv'
  BY DEF PoolType, StopInv, PastStop, ControlInv
<1>4. ShapeInv'
  BY DEF PoolType, ShapeInv, WaitPCs
<1>5. DrainInv'
  BY DEF PoolType, DrainInv, PastDrain
<1> QED
  BY <1>1, <1>2, <1>3, <1>4, <1>5

(* wait() begins, after the stop requests.                                 *)
LEMMA WaitPool ==
    ASSUME PoolInv, wait, ~producing, \A w \in Workers : stop[w], UNCHANGED producing
    PROVE  PoolInv'
<1> USE ThreadCountAssumption, CapacityAssumption, ItemAssumption DEF PoolInv,
       wait
<1>s. started_
  BY DEF StopInv, Workers
<1>1. PoolType'
  BY DEF PoolType, Workers, WorkerPCs, ControlPCs
<1>2. ControlInv'
  BY <1>s DEF PoolType, ControlInv, WaitPCs, Workers
<1>3. StopInv'
  BY DEF PoolType, StopInv, PastStop
<1>4. ShapeInv'
  BY DEF PoolType, ShapeInv, WaitPCs
<1>5. DrainInv'
  BY DEF PoolType, DrainInv, PastDrain
<1> QED
  BY <1>1, <1>2, <1>3, <1>4, <1>5

(* wait() pushes one of its wake-ups.                                      *)
LEMMA WakePool ==
    ASSUME PoolInv, Wake, UNCHANGED producing
    PROVE  PoolInv'
<1> USE ThreadCountAssumption, CapacityAssumption, ItemAssumption DEF PoolInv,
       Wake, Advance
<1>q. /\ Len(queue_) \in Nat
      /\ queue_' \in Seq(Items \cup {nullopt})
      /\ Len(queue_') = Len(queue_) + 1
      /\ \A i \in 1 .. Len(queue_) : queue_'[i] = queue_[i]
      /\ queue_'[Len(queue_) + 1] = nullopt
  BY AppendFacts DEF PoolType
<1>1. PoolType'
  BY <1>q DEF PoolType, Workers, ControlPCs
<1>2. ControlInv'
  BY DEF PoolType, ControlInv, WaitPCs, Workers
<1>3. StopInv'
  BY DEF PoolType, StopInv, PastStop
<1>4. ShapeInv'
  BY <1>q DEF ShapeInv, WaitPCs
<1>5. DrainInv'
  BY <1>q DEF PoolType, DrainInv, PastDrain
<1> QED
  BY <1>1, <1>2, <1>3, <1>4, <1>5

(* wait() tries to push another wake-up.                                   *)
LEMMA NudgePool ==
    ASSUME PoolInv, Nudge, UNCHANGED producing
    PROVE  PoolInv'
<1> USE ThreadCountAssumption, CapacityAssumption, ItemAssumption DEF PoolInv,
       Nudge, Advance
<1>f. CASE UNCHANGED queue_
  BY <1>f DEF PoolType, ControlPCs, Workers, ControlInv, WaitPCs, StopInv,
     ShapeInv, DrainInv
<1> SUFFICES ASSUME queue_' = Append(queue_, nullopt) PROVE PoolInv'
  BY <1>f
<1>q. /\ Len(queue_) \in Nat
      /\ queue_' \in Seq(Items \cup {nullopt})
      /\ Len(queue_') = Len(queue_) + 1
      /\ \A i \in 1 .. Len(queue_) : queue_'[i] = queue_[i]
      /\ queue_'[Len(queue_) + 1] = nullopt
  BY AppendFacts DEF PoolType
<1>1. PoolType'
  BY <1>q DEF PoolType, Workers, ControlPCs
<1>2. ControlInv'
  BY DEF PoolType, ControlInv, WaitPCs, Workers
<1>3. StopInv'
  BY DEF PoolType, StopInv, PastStop
<1>4. ShapeInv'
  BY <1>q DEF ShapeInv, WaitPCs
<1>5. DrainInv'
  BY <1>q DEF PoolType, DrainInv, PastDrain
<1> QED
  BY <1>1, <1>2, <1>3, <1>4, <1>5

(* wait() tests done().                                                    *)
LEMMA NudgeTestPool ==
    ASSUME PoolInv, NudgeTest, UNCHANGED producing
    PROVE  PoolInv'
<1> USE ThreadCountAssumption, CapacityAssumption, ItemAssumption DEF PoolInv,
       NudgeTest
<1>1. PoolType'
  BY DEF PoolType, Workers, WorkerPCs, ControlPCs
<1>2. ControlInv'
  BY DEF PoolType, ControlInv, WaitPCs, Workers
<1>3. StopInv'
  BY DEF PoolType, StopInv, PastStop
<1>4. ShapeInv'
  BY DEF PoolType, ShapeInv, WaitPCs
<1>5. DrainInv'
  BY DEF PoolType, DrainInv, PastDrain
<1> QED
  BY <1>1, <1>2, <1>3, <1>4, <1>5

(* wait() joins one thread.                                                *)
LEMMA JoinPool ==
    ASSUME PoolInv, Join, UNCHANGED producing
    PROVE  PoolInv'
<1> USE ThreadCountAssumption, CapacityAssumption, ItemAssumption DEF PoolInv,
       Join, Advance
<1>1. PoolType'
  BY DEF PoolType, Workers, WorkerPCs, ControlPCs
<1>2. ControlInv'
  BY DEF PoolType, ControlInv, WaitPCs, Workers
<1>3. StopInv'
  BY DEF PoolType, StopInv, PastStop
<1>4. ShapeInv'
  BY DEF PoolType, ShapeInv, WaitPCs
<1>5. DrainInv'
  BY DEF PoolType, DrainInv, PastDrain
<1> QED
  BY <1>1, <1>2, <1>3, <1>4, <1>5

(* A producer pushes an item.                                              *)
LEMMA SubmitPool ==
    ASSUME PoolInv, NEW x \in Items, Submit(x), producing
    PROVE  PoolInv'
<1> USE ThreadCountAssumption, CapacityAssumption, ItemAssumption DEF PoolInv,
       Submit
<1>q. /\ Len(queue_) \in Nat
      /\ queue_' \in Seq(Items \cup {nullopt})
      /\ Len(queue_') = Len(queue_) + 1
      /\ \A i \in 1 .. Len(queue_) : queue_'[i] = queue_[i]
      /\ queue_'[Len(queue_) + 1] = x
  BY AppendFacts DEF PoolType
<1>n. ctl \notin WaitPCs
  BY DEF ControlInv
<1>1. PoolType'
  BY <1>q DEF PoolType
<1>2. ControlInv'
  BY <1>n DEF PoolType, ControlInv, WaitPCs
<1>3. StopInv'
  BY <1>n DEF PoolType, StopInv, WaitPCs
<1>4. ShapeInv'
  <2>1. \A i \in 1 .. Len(queue_') : queue_'[i] # nullopt
    BY <1>q, <1>n DEF ShapeInv, Items
  <2> QED
    BY <2>1 DEF ShapeInv
<1>5. DrainInv'
  BY DEF PoolType, DrainInv, StopInv, PastStop, PastDrain
<1> QED
  BY <1>1, <1>2, <1>3, <1>4, <1>5

(* A worker tests its stop token.                                          *)
LEMMA LoopTestPool ==
    ASSUME PoolInv, NEW w \in Workers, LoopTest(w), UNCHANGED producing
    PROVE  PoolInv'
<1> USE ThreadCountAssumption, CapacityAssumption, ItemAssumption DEF PoolInv,
       LoopTest
<1>1. PoolType'
  BY DEF PoolType, Workers, WorkerPCs, ControlPCs
<1>2. ControlInv'
  BY DEF PoolType, ControlInv, WaitPCs, Workers
<1>3. StopInv'
  BY DEF PoolType, StopInv, PastStop
<1>4. ShapeInv'
  BY DEF PoolType, ShapeInv, WaitPCs
<1>5. DrainInv'
  BY DEF PoolType, DrainInv, PastDrain
<1> QED
  BY <1>1, <1>2, <1>3, <1>4, <1>5

(* A queue keeps its shape when its first entry is popped.                 *)
LEMMA TailShape ==
    ASSUME PoolType, ShapeInv, queue_ # <<>>,
           queue_' = Tail(queue_), UNCHANGED ctl
    PROVE  ShapeInv'
<1>q. /\ Len(queue_) \in Nat \ {0}
      /\ Len(queue_') = Len(queue_) - 1
      /\ \A i \in 1 .. Len(queue_) - 1 : queue_'[i] = queue_[i + 1]
  BY TailFacts DEF PoolType
<1>1. ASSUME NEW i \in 1 .. Len(queue_')
      PROVE  i + 1 \in 1 .. Len(queue_) /\ queue_'[i] = queue_[i + 1]
  BY <1>q
<1>2. ASSUME NEW i \in 1 .. Len(queue_'), NEW j \in 1 .. Len(queue_'), i < j
      PROVE  i + 1 < j + 1
  BY <1>2, <1>q
<1> QED
  BY <1>1, <1>2 DEF ShapeInv

(* A worker pops the front of the queue.                                   *)
LEMMA PopPool ==
    ASSUME PoolInv, NEW w \in Workers, Pop(w), UNCHANGED producing
    PROVE  PoolInv'
<1> USE ThreadCountAssumption, CapacityAssumption, ItemAssumption DEF PoolInv,
       Pop
<1>q. /\ Len(queue_) \in Nat \ {0}
      /\ Head(queue_) = queue_[1]
      /\ Head(queue_) \in Items \cup {nullopt}
      /\ queue_' \in Seq(Items \cup {nullopt})
      /\ Len(queue_') = Len(queue_) - 1
      /\ \A i \in 1 .. Len(queue_) - 1 : queue_'[i] = queue_[i + 1]
  BY TailFacts DEF PoolType
<1>1. PoolType'
  <2>1. CASE Head(queue_) = nullopt
    <3>1. pc' = [pc EXCEPT ![w] = "loop"]
      BY <2>1
    <3>2. UNCHANGED <<item, started_, cancelled_, stop, done_, ctl, k>>
      BY <2>1
    <3>3. pc[w] \notin {"popped", "drained"}
      OBVIOUS
    <3>4. /\ pc' \in [Workers -> WorkerPCs]
          /\ \A v \in Workers : pc'[v] \in {"popped", "drained"} <=> item[v] # NoItem
      BY <3>1, <3>3 DEF PoolType, WorkerPCs
    <3> QED
      BY <1>q, <3>2, <3>4 DEF PoolType
  <2>2. CASE Head(queue_) # nullopt
    <3>1. Head(queue_) \in Items /\ Head(queue_) # NoItem
      BY <1>q, <2>2 DEF Items
    <3>2. /\ pc' = [pc EXCEPT ![w] = "popped"]
          /\ item' = [item EXCEPT ![w] = Head(queue_)]
      BY <2>2
    <3> QED
      BY <1>q, <3>1, <3>2 DEF PoolType, WorkerPCs
  <2> QED
    BY <2>1, <2>2
<1>2. ControlInv'
  BY DEF PoolType, ControlInv, WaitPCs, Workers
<1>3. StopInv'
  BY DEF PoolType, StopInv, PastStop
<1>4. ShapeInv'
  BY TailShape
<1>5. DrainInv'
  BY <1>q DEF PoolType, DrainInv, PastDrain
<1> QED
  BY <1>1, <1>2, <1>3, <1>4, <1>5

(* A worker calls the work function.                                       *)
LEMMA InvokePool ==
    ASSUME PoolInv, NEW w \in Workers, Invoke(w), UNCHANGED producing
    PROVE  PoolInv'
<1> USE ThreadCountAssumption, CapacityAssumption, ItemAssumption DEF PoolInv,
       Invoke
<1>1. PoolType'
  BY DEF PoolType, Workers, WorkerPCs, ControlPCs
<1>2. ControlInv'
  BY DEF PoolType, ControlInv, WaitPCs, Workers
<1>3. StopInv'
  BY DEF PoolType, StopInv, PastStop
<1>4. ShapeInv'
  BY DEF PoolType, ShapeInv, WaitPCs
<1>5. DrainInv'
  BY DEF PoolType, DrainInv, PastDrain
<1> QED
  BY <1>1, <1>2, <1>3, <1>4, <1>5

(* A worker leaves its loop.                                               *)
LEMMA EndTestPool ==
    ASSUME PoolInv, NEW w \in Workers, EndTest(w), UNCHANGED producing
    PROVE  PoolInv'
<1> USE ThreadCountAssumption, CapacityAssumption, ItemAssumption DEF PoolInv,
       EndTest
<1>1. PoolType'
  BY DEF PoolType, Workers, WorkerPCs, ControlPCs
<1>2. ControlInv'
  BY DEF PoolType, ControlInv, WaitPCs, Workers
<1>3. StopInv'
  BY DEF PoolType, StopInv, PastStop
<1>4. ShapeInv'
  BY DEF PoolType, ShapeInv, WaitPCs
<1>5. DrainInv'
  BY DEF PoolType, DrainInv, PastDrain
<1> QED
  BY <1>1, <1>2, <1>3, <1>4, <1>5

(* A worker finds the queue empty.                                         *)
LEMMA DrainEmptyPool ==
    ASSUME PoolInv, NEW w \in Workers, DrainEmpty(w), UNCHANGED producing
    PROVE  PoolInv'
<1> USE ThreadCountAssumption, CapacityAssumption, ItemAssumption DEF PoolInv,
       DrainEmpty
<1>1. PoolType'
  BY DEF PoolType, Workers, WorkerPCs, ControlPCs
<1>2. ControlInv'
  BY DEF PoolType, ControlInv, WaitPCs, Workers
<1>3. StopInv'
  BY DEF PoolType, StopInv, PastStop
<1>4. ShapeInv'
  BY DEF PoolType, ShapeInv, WaitPCs
<1>5. DrainInv'
  BY DEF PoolType, DrainInv, PastDrain
<1> QED
  BY <1>1, <1>2, <1>3, <1>4, <1>5

(* A worker drains the front of the queue.                                 *)
LEMMA DrainPopPool ==
    ASSUME PoolInv, NEW w \in Workers, DrainPop(w), UNCHANGED producing
    PROVE  PoolInv'
<1> USE ThreadCountAssumption, CapacityAssumption, ItemAssumption DEF PoolInv,
       DrainPop
<1>q. /\ Len(queue_) \in Nat \ {0}
      /\ Head(queue_) = queue_[1]
      /\ Head(queue_) \in Items \cup {nullopt}
      /\ queue_' \in Seq(Items \cup {nullopt})
      /\ Len(queue_') = Len(queue_) - 1
      /\ \A i \in 1 .. Len(queue_) - 1 : queue_'[i] = queue_[i + 1]
  BY TailFacts DEF PoolType
<1>1. PoolType'
  <2>1. CASE Head(queue_) = nullopt
    <3>1. pc' = [pc EXCEPT ![w] = "finishing"]
      BY <2>1
    <3>2. UNCHANGED <<item, started_, cancelled_, stop, done_, ctl, k>>
      BY <2>1
    <3>3. pc[w] \notin {"popped", "drained"}
      OBVIOUS
    <3>4. /\ pc' \in [Workers -> WorkerPCs]
          /\ \A v \in Workers : pc'[v] \in {"popped", "drained"} <=> item[v] # NoItem
      BY <3>1, <3>3 DEF PoolType, WorkerPCs
    <3> QED
      BY <1>q, <3>2, <3>4 DEF PoolType
  <2>2. CASE Head(queue_) # nullopt
    <3>1. Head(queue_) \in Items /\ Head(queue_) # NoItem
      BY <1>q, <2>2 DEF Items
    <3>2. /\ pc' = [pc EXCEPT ![w] = "drained"]
          /\ item' = [item EXCEPT ![w] = Head(queue_)]
      BY <2>2
    <3> QED
      BY <1>q, <3>1, <3>2 DEF PoolType, WorkerPCs
  <2> QED
    BY <2>1, <2>2
<1>2. ControlInv'
  BY DEF PoolType, ControlInv, WaitPCs, Workers
<1>3. StopInv'
  BY SMTT(30) DEF PoolType, StopInv, PastStop
<1>4. ShapeInv'
  BY TailShape
<1>5. DrainInv'
  BY <1>q DEF PoolType, DrainInv, PastDrain, ShapeInv
<1> QED
  BY <1>1, <1>2, <1>3, <1>4, <1>5

(* A worker sets its done_ flag.                                           *)
LEMMA FinishPool ==
    ASSUME PoolInv, NEW w \in Workers, Finish(w), UNCHANGED producing
    PROVE  PoolInv'
<1> USE ThreadCountAssumption, CapacityAssumption, ItemAssumption DEF PoolInv,
       Finish
<1>1. PoolType'
  BY DEF PoolType, Workers, WorkerPCs, ControlPCs
<1>2. ControlInv'
  BY DEF PoolType, ControlInv, WaitPCs, Workers
<1>3. StopInv'
  BY DEF PoolType, StopInv, PastStop
<1>4. ShapeInv'
  BY DEF PoolType, ShapeInv, WaitPCs
<1>5. DrainInv'
  BY DEF PoolType, DrainInv, PastDrain
<1> QED
  BY <1>1, <1>2, <1>3, <1>4, <1>5

(* A worker sweeps the queue, or exits.                                    *)
LEMMA SweepPool ==
    ASSUME PoolInv, NEW w \in Workers, Sweep(w), UNCHANGED producing
    PROVE  PoolInv'
<1> USE ThreadCountAssumption, CapacityAssumption, ItemAssumption DEF PoolInv,
       Sweep
<1>e. CASE queue_ = <<>>
  <2>1. UNCHANGED queue_ /\ pc' = [pc EXCEPT ![w] = "exited"]
    BY <1>e
  <2> QED
    BY <2>1 DEF PoolType, WorkerPCs, Workers, ControlInv, WaitPCs, StopInv,
       PastStop, ShapeInv, DrainInv, PastDrain
<1> SUFFICES ASSUME queue_ # <<>>, UNCHANGED pc, queue_' = Tail(queue_)
             PROVE  PoolInv'
  BY <1>e
<1>q. /\ Len(queue_) \in Nat \ {0}
      /\ Head(queue_) = queue_[1]
      /\ Head(queue_) \in Items \cup {nullopt}
      /\ queue_' \in Seq(Items \cup {nullopt})
      /\ Len(queue_') = Len(queue_) - 1
      /\ \A i \in 1 .. Len(queue_) - 1 : queue_'[i] = queue_[i + 1]
  BY TailFacts DEF PoolType
<1>1. PoolType'
  BY <1>q DEF PoolType
<1>2. ControlInv'
  BY DEF PoolType, ControlInv, WaitPCs, Workers
<1>3. StopInv'
  BY DEF PoolType, StopInv, PastStop
<1>4. ShapeInv'
  BY TailShape
<1>5. DrainInv'
  BY <1>q DEF PoolType, DrainInv, PastDrain
<1> QED
  BY <1>1, <1>2, <1>3, <1>4, <1>5

(* Whatever the pool or its users do, PoolInv is kept.                     *)
LEMMA PoolStep ==
    ASSUME PoolInv, PoolNext
    PROVE  PoolInv'
<1>1. CASE /\ UNCHANGED producing
           /\ \/ start /\ ~started_ /\ ~cancelled_
              \/ request_stop /\ started_ /\ ~producing
              \/ request_cancellation /\ started_
              \/ wait /\ ~producing /\ \A w \in Workers : stop[w]
  BY <1>1, StartPool, RequestStopPool, RequestCancellationPool, WaitPool
<1>2. CASE UNCHANGED producing /\ Controller
  BY <1>2, SpawnPool, StopThreadPool, WakePool, NudgeTestPool, NudgePool,
     JoinPool
  DEF Controller
<1>3. ASSUME UNCHANGED producing, NEW w \in Workers, Invoke(w) \/ Worker(w)
      PROVE  PoolInv'
  BY <1>3, InvokePool, LoopTestPool, PopPool, EndTestPool, DrainEmptyPool,
     DrainPopPool, FinishPool, SweepPool
  DEF Worker
<1>4. CASE producing /\ \E x \in Items : Submit(x)
  BY <1>4, SubmitPool
<1>5. CASE /\ ~producing => ~producing'
           /\ UNCHANGED <<queue_, started_, cancelled_, stop, done_, pc, item, ctl, k>>
  BY <1>5 DEF PoolInv, PoolType, ControlInv, StopInv, ShapeInv, DrainInv
<1> QED
  BY <1>1, <1>2, <1>3, <1>4, <1>5 DEF PoolNext

(* The pool begins in a state PoolInv describes.                           *)
LEMMA PoolBegins ==
    ASSUME PoolInit
    PROVE  PoolInv
<1> USE ThreadCountAssumption, CapacityAssumption, ItemAssumption DEF PoolInit
<1>1. PoolType
  <2>1. queue_ \in Seq(Items \cup {nullopt}) /\ k \in Workers
    BY DEF Workers
  <2>2. \A w \in Workers : pc[w] \in {"popped", "drained"} <=> item[w] # NoItem
    OBVIOUS
  <2> QED
    BY <2>1, <2>2 DEF PoolType, WorkerPCs, ControlPCs
<1>2. ControlInv /\ StopInv /\ ShapeInv /\ DrainInv
  BY DEF ControlInv, WaitPCs, Workers, StopInv, PastStop, ShapeInv, DrainInv,
     PastDrain
<1> QED
  BY <1>1, <1>2 DEF PoolInv

(* The contracts of a pool that is not cancelled: start() finds it new, no *)
(* sweep meets an item, and the last join finds done().                    *)
LEMMA PoolContracts ==
    ASSUME PoolInv, ~terminated, ~cancelled_,
           \/ start /\ ~started_
           \/ request_stop \/ request_cancellation \/ wait
           \/ Controller
           \/ \E w \in Workers : Invoke(w) \/ Worker(w)
           \/ \E x \in Items : Submit(x)
    PROVE  ~terminated'
<1>1. CASE Join
  <2>1. k = ThreadCount => done
    BY <1>1, ThreadCountAssumption
    DEF PoolInv, PoolType, ControlInv, StopInv, Join, done, Workers, WaitPCs
  <2> QED
    BY <1>1, <2>1 DEF Join
<1>2. ASSUME NEW w \in Workers, Sweep(w)
      PROVE  ~terminated'
  <2>1. CASE queue_ = <<>>
    BY <1>2, <2>1 DEF Sweep
  <2>2. CASE queue_ # <<>>
    <3>1. 1 \in 1 .. Len(queue_) /\ Head(queue_) = queue_[1]
      BY <2>2, TailFacts DEF PoolInv, PoolType
    <3>2. Head(queue_) = nullopt
      BY <1>2, <3>1 DEF PoolInv, DrainInv, PastDrain, Sweep
    <3> QED
      BY <1>2, <2>2, <3>2 DEF Sweep
  <2> QED
    BY <2>1, <2>2
<1> QED
  BY <1>1, <1>2
  DEF start, request_stop, request_cancellation, wait, Controller, Spawn,
      StopThread, Wake, NudgeTest, Nudge, Invoke, Worker, LoopTest, Pop,
      EndTest, DrainEmpty, DrainPop, Finish, Submit

-----------------------------------------------------------------------------
(* Where the items are, for the users of a pool inside a pipeline.         *)

(* The steps that neither push nor handle an item move items from the      *)
(* queue to a worker; only after a cancellation can they lose one.         *)
LEMMA MovePlaces ==
    ASSUME PoolInv, Once(queue_, item, Items),
           \/ start \/ request_stop \/ request_cancellation \/ wait \/ Controller
           \/ \E w \in Workers : Worker(w)
    PROVE  /\ Once(queue_', item', Items)
           /\ \A x \in Items : Holds(queue_', item', x) => Holds(queue_, item, x)
           /\ ~cancelled_ =>
                 \A x \in Items : Holds(queue_, item, x) => Holds(queue_', item', x)
<1> USE ItemAssumption DEF PoolInv
<1> DEFINE Kept == \A x \in Items : Holds(queue_', item', x) <=> Holds(queue_, item, x)
<1>n. nullopt \notin Items /\ NoItem \notin Items
  BY DEF Items
<1>1. CASE UNCHANGED <<queue_, item>>
  BY <1>1
<1>2. CASE queue_' = Append(queue_, nullopt) /\ UNCHANGED item
  BY <1>2, <1>n, PushPlaces DEF PoolType
<1>3. ASSUME NEW w \in Workers, Pop(w)
      PROVE  Once(queue_', item', Items) /\ Kept
  <2>1. item[w] \notin Items
    BY <1>3, <1>n DEF Pop, PoolType
  <2>2. CASE Head(queue_) = nullopt
    BY <1>3, <1>n, <2>2, LosePlaces DEF Pop, PoolType
  <2>3. CASE Head(queue_) # nullopt
    <3>1. /\ queue_ # <<>> /\ queue_' = Tail(queue_)
          /\ item' = [item EXCEPT ![w] = Head(queue_)]
      BY <1>3, <2>3 DEF Pop
    <3>2. queue_ \in Seq(Items \cup {nullopt}) /\ item \in [Workers -> Items \cup {NoItem}]
      BY DEF PoolType
    <3> QED
      BY <2>1, <3>1, <3>2, TakePlaces
  <2> QED
    BY <2>2, <2>3
<1>4. ASSUME NEW w \in Workers, DrainPop(w)
      PROVE  Once(queue_', item', Items) /\ Kept
  <2>1. item[w] \notin Items
    BY <1>4, <1>n DEF DrainPop, PoolType
  <2>2. CASE Head(queue_) = nullopt
    BY <1>4, <1>n, <2>2, LosePlaces DEF DrainPop, PoolType
  <2>3. CASE Head(queue_) # nullopt
    <3>1. /\ queue_ # <<>> /\ queue_' = Tail(queue_)
          /\ item' = [item EXCEPT ![w] = Head(queue_)]
      BY <1>4, <2>3 DEF DrainPop
    <3>2. queue_ \in Seq(Items \cup {nullopt}) /\ item \in [Workers -> Items \cup {NoItem}]
      BY DEF PoolType
    <3> QED
      BY <2>1, <3>1, <3>2, TakePlaces
  <2> QED
    BY <2>2, <2>3
<1>5. ASSUME NEW w \in Workers, Sweep(w), queue_ # <<>>
      PROVE  /\ Once(queue_', item', Items)
             /\ \A x \in Items : Holds(queue_', item', x) => Holds(queue_, item, x)
             /\ ~cancelled_ => Kept
  <2>1. queue_' = Tail(queue_) /\ UNCHANGED item
    BY <1>5 DEF Sweep
  <2>2. /\ Once(queue_', item', Items)
        /\ \A x : Holds(queue_', item', x) => Holds(queue_, item, x)
        /\ \A x : Holds(queue_, item, x) /\ x # Head(queue_) => Holds(queue_', item', x)
    BY <1>5, <2>1, LosePlaces DEF PoolType
  <2>3. ~cancelled_ => Head(queue_) = nullopt
    <3>1. Head(queue_) = queue_[1] /\ 1 \in 1 .. Len(queue_)
      BY <1>5, TailFacts DEF PoolType
    <3> QED
      BY <1>5, <3>1 DEF DrainInv, PastDrain, Sweep
  <2> QED
    BY <1>n, <2>2, <2>3
<1>6. ASSUME NEW w \in Workers, Sweep(w), queue_ = <<>>
      PROVE  UNCHANGED <<queue_, item>>
  BY <1>6 DEF Sweep
<1> QED
  BY <1>1, <1>2, <1>3, <1>4, <1>5, <1>6
  DEF start, request_stop, request_cancellation, wait, Controller, Spawn,
      StopThread, Wake, NudgeTest, Nudge, Join, Worker, LoopTest, EndTest,
      DrainEmpty, Finish

(* A push adds its item.                                                   *)
LEMMA SubmitPlaces ==
    ASSUME PoolInv, Once(queue_, item, Items), NEW y \in Items, Submit(y),
           ~Holds(queue_, item, y)
    PROVE  /\ Once(queue_', item', Items)
           /\ \A x \in Items : Holds(queue_', item', x)
                                <=> Holds(queue_, item, x) \/ x = y
  BY PushPlaces DEF PoolInv, PoolType, Submit

(* The work function takes the item it is given away.                      *)
LEMMA InvokePlaces ==
    ASSUME PoolInv, Once(queue_, item, Items), NEW w \in Workers, Invoke(w)
    PROVE  /\ item[w] \in Items /\ Holds(queue_, item, item[w])
           /\ Once(queue_', item', Items)
           /\ \A x \in Items : Holds(queue_', item', x)
                                <=> Holds(queue_, item, x) /\ x # item[w]
<1>1. NoItem \notin Items
  BY ItemAssumption DEF Items
<1>2. item[w] \in Items
  BY DEF PoolInv, PoolType, Invoke
<1>3. Holds(queue_, item, item[w])
  BY DEF PoolInv, PoolType, Holds
<1>4. item' = [item EXCEPT ![w] = NoItem] /\ UNCHANGED queue_
  BY DEF Invoke
<1>5. item \in [Workers -> Items \cup {NoItem}]
  BY DEF PoolInv, PoolType
<1> QED
  BY <1>1, <1>2, <1>3, <1>4, <1>5, DropPlaces

(* Once every worker has left, nothing is held unless it was cancelled.    *)
LEMMA EmptyPlaces ==
    ASSUME PoolInv, ~cancelled_, \A w \in Workers : pc[w] = "exited"
    PROVE  \A x \in Items : ~Holds(queue_, item, x)
<1>1. nullopt \notin Items /\ NoItem \notin Items /\ 1 \in Workers
  BY ItemAssumption, ThreadCountAssumption DEF Items, Workers
<1>2. \A w \in Workers : item[w] = NoItem
  BY DEF PoolInv, PoolType
<1>3. \A i \in 1 .. Len(queue_) : queue_[i] = nullopt
  BY <1>1 DEF PoolInv, DrainInv, PastDrain
<1> QED
  BY <1>1, <1>2, <1>3 DEF Holds, PoolInv, PoolType

-----------------------------------------------------------------------------
(* The invariant of the pool among its users.                              *)

UserInv ==
    /\ terminated \in BOOLEAN
    /\ producing \in BOOLEAN
    /\ submitted \in 0 .. ItemCount
    /\ handled \in [Items -> Nat]

(* The queue: items in the order of their pushes, then the wake-ups.       *)
QueueInv ==
    /\ Len(queue_) <= Capacity
    /\ \A i, j \in 1 .. Len(queue_) :
          i < j /\ queue_[j] # nullopt => queue_[i] < queue_[j]
    /\ \A i \in 1 .. Len(queue_) : queue_[i] # nullopt => queue_[i] <= submitted

(* Every item pushed is in one place: queued, held by one worker, handled; *)
(* only the failing Ensures of a cancelled worker's sweep drops one.       *)
Held(w) == item[w] \in Items

HeldFresh ==
    \A w \in Workers : Held(w) => item[w] <= submitted /\ handled[item[w]] = 0

HeldByOne ==
    \A w, v \in Workers : Held(w) /\ item[w] = item[v] => w = v

HeldBeforeQueued ==
    \A w \in Workers : \A i \in 1 .. Len(queue_) :
        Held(w) /\ queue_[i] # nullopt => item[w] < queue_[i]

HandledBeforeQueued ==
    \A x \in Items : handled[x] # 0 =>
        /\ x <= submitted
        /\ \A i \in 1 .. Len(queue_) : queue_[i] # nullopt => x < queue_[i]

(* A single worker takes the items one by one.                             *)
HandledBeforeHeld ==
    ThreadCount = 1 =>
        \A x \in Items : \A w \in Workers : handled[x] # 0 /\ Held(w) => x < item[w]

NothingLost ==
    ~terminated =>
        \A x \in Items : x <= submitted =>
            \/ handled[x] = 1
            \/ \E i \in 1 .. Len(queue_) : queue_[i] = x
            \/ \E w \in Workers : item[w] = x

PlaceInv ==
    /\ InOrder
    /\ HeldFresh
    /\ HeldByOne
    /\ HeldBeforeQueued
    /\ HandledBeforeQueued
    /\ HandledBeforeHeld
    /\ NothingLost

IInv ==
    /\ PoolInv
    /\ StopIsClean
    /\ UserInv
    /\ QueueInv
    /\ PlaceInv

(* The invariant gives every variable its type.                            *)
LEMMA Typed == IInv => TypeOK
  BY DEF IInv, PoolInv, PoolType, UserInv, TypeOK

-----------------------------------------------------------------------------
(* How the places of the items change when the queue changes.              *)

(* A step that leaves the queue, the hands of the workers and the calls of *)
(* the work function alone moves no item.                                  *)
LEMMA PlaceFrame ==
    ASSUME PlaceInv, ~terminated, UNCHANGED <<queue_, item, submitted, handled>>
    PROVE  PlaceInv'
  BY DEF PlaceInv, InOrder, AtMostOnce, Held, HeldFresh, HeldByOne,
     HeldBeforeQueued, HandledBeforeQueued, HandledBeforeHeld, NothingLost

(* A wake-up at the end of the queue moves no item.                        *)
LEMMA WakePlace ==
    ASSUME TypeOK, PlaceInv, queue_' = Append(queue_, nullopt),
           ~terminated, UNCHANGED <<item, submitted, handled>>
    PROVE  PlaceInv'
<1>q. /\ Len(queue_) \in Nat
      /\ Len(queue_') = Len(queue_) + 1
      /\ \A i \in 1 .. Len(queue_) : queue_'[i] = queue_[i]
      /\ queue_'[Len(queue_) + 1] = nullopt
  BY AppendFacts DEF TypeOK
<1>1. \A i \in 1 .. Len(queue_') : queue_'[i] # nullopt =>
          i \in 1 .. Len(queue_) /\ queue_'[i] = queue_[i]
  BY <1>q
<1>2. InOrder' /\ HeldFresh' /\ HeldByOne' /\ HandledBeforeHeld'
  BY DEF PlaceInv, InOrder, AtMostOnce, HeldFresh, HeldByOne, HandledBeforeHeld, Held
<1>3. HeldBeforeQueued' /\ HandledBeforeQueued'
  BY <1>1 DEF PlaceInv, HeldBeforeQueued, HandledBeforeQueued, Held
<1>4. ASSUME NEW i \in 1 .. Len(queue_)
      PROVE  i \in 1 .. Len(queue_') /\ queue_'[i] = queue_[i]
  BY <1>q
<1>5. NothingLost'
  BY <1>4 DEF PlaceInv, NothingLost
<1> QED
  BY <1>2, <1>3, <1>5 DEF PlaceInv

(* ... and keeps the order of the queue.                                   *)
LEMMA WakeQueue ==
    ASSUME TypeOK, QueueInv, queue_' = Append(queue_, nullopt),
           Len(queue_) < Capacity, UNCHANGED submitted
    PROVE  QueueInv'
<1> USE CapacityAssumption
<1>q. /\ Len(queue_) \in Nat
      /\ Len(queue_') = Len(queue_) + 1
      /\ \A i \in 1 .. Len(queue_) : queue_'[i] = queue_[i]
      /\ queue_'[Len(queue_) + 1] = nullopt
  BY AppendFacts DEF TypeOK
<1>1. ASSUME NEW i \in 1 .. Len(queue_'), NEW j \in 1 .. Len(queue_'),
             i < j, queue_'[j] # nullopt
      PROVE  /\ i \in 1 .. Len(queue_) /\ queue_'[i] = queue_[i]
             /\ j \in 1 .. Len(queue_) /\ queue_'[j] = queue_[j]
  BY <1>1, <1>q
<1>2. ASSUME NEW i \in 1 .. Len(queue_'), queue_'[i] # nullopt
      PROVE  i \in 1 .. Len(queue_) /\ queue_'[i] = queue_[i]
  BY <1>2, <1>q
<1>3. Len(queue_') <= Capacity
  BY <1>q
<1> QED
  BY <1>1, <1>2, <1>3 DEF QueueInv

(* Taking the front of the queue moves an item to the worker's hands.      *)
LEMMA TakePlace ==
    ASSUME TypeOK, QueueInv, PlaceInv, NEW w \in Workers,
           queue_ # <<>>, queue_' = Tail(queue_),
           item[w] = NoItem, ~terminated,
           \/ item' = [item EXCEPT ![w] = Head(queue_)] /\ Head(queue_) # nullopt
           \/ item' = item /\ (Head(queue_) = nullopt \/ terminated'),
           UNCHANGED <<submitted, handled>>
    PROVE  PlaceInv'
<1> USE ItemAssumption
<1>q. /\ Len(queue_) \in Nat \ {0}
      /\ Head(queue_) = queue_[1]
      /\ Head(queue_) \in Items \cup {nullopt}
      /\ Len(queue_') = Len(queue_) - 1
      /\ \A i \in 1 .. Len(queue_) - 1 : queue_'[i] = queue_[i + 1]
  BY TailFacts DEF TypeOK
<1>1. ASSUME NEW i \in 1 .. Len(queue_')
      PROVE  i + 1 \in 1 .. Len(queue_) /\ 1 < i + 1 /\ queue_'[i] = queue_[i + 1]
  BY <1>q
<1>2. 1 \in 1 .. Len(queue_)
  BY <1>q
<1>3. ASSUME NEW v \in Workers, Held(v)'
      PROVE  \/ v # w /\ Held(v) /\ item'[v] = item[v]
             \/ v = w /\ item'[w] = queue_[1] /\ queue_[1] \in Items
  BY <1>q, <1>3 DEF TypeOK, Held, Items
<1>4. InOrder'
  BY DEF PlaceInv, InOrder, AtMostOnce
<1>5. HeldFresh'
  <2> SUFFICES ASSUME NEW v \in Workers, Held(v)'
               PROVE  item'[v] <= submitted /\ handled[item'[v]] = 0
    BY DEF HeldFresh
  <2>1. CASE v # w /\ Held(v) /\ item'[v] = item[v]
    BY <2>1 DEF PlaceInv, HeldFresh
  <2>2. CASE v = w /\ item'[w] = queue_[1] /\ queue_[1] \in Items
    <3>1. queue_[1] # nullopt
      BY <2>2 DEF Items
    <3>2. queue_[1] <= submitted
      BY <3>1, <1>2 DEF QueueInv
    <3>3. handled[queue_[1]] = 0
      BY <3>1, <1>2, <2>2 DEF PlaceInv, HandledBeforeQueued, Items
    <3> QED
      BY <2>2, <3>2, <3>3
  <2> QED
    BY <1>3, <2>1, <2>2
<1>6. HeldByOne'
  <2> SUFFICES ASSUME NEW u \in Workers, NEW v \in Workers,
                      Held(u)', item'[u] = item'[v]
               PROVE  u = v
    BY DEF HeldByOne
  <2>1. Held(v)'
    BY DEF Held
  <2>2. ASSUME NEW x \in Workers, Held(x), queue_[1] \in Items
        PROVE  item[x] # queue_[1]
    BY <1>2, <2>2 DEF PlaceInv, HeldBeforeQueued, Held, Items
  <2> QED
    BY <2>1, <2>2, <1>3 DEF PlaceInv, HeldByOne
<1>7. HeldBeforeQueued'
  <2> SUFFICES ASSUME NEW v \in Workers, NEW i \in 1 .. Len(queue_'),
                      Held(v)', queue_'[i] # nullopt
               PROVE  item'[v] < queue_'[i]
    BY DEF HeldBeforeQueued
  <2>1. CASE v # w /\ Held(v) /\ item'[v] = item[v]
    BY <2>1, <1>1 DEF PlaceInv, HeldBeforeQueued
  <2>2. CASE v = w /\ item'[w] = queue_[1] /\ queue_[1] \in Items
    BY <2>2, <1>1, <1>2 DEF QueueInv
  <2> QED
    BY <1>3, <2>1, <2>2
<1>8. HandledBeforeQueued'
  BY <1>1 DEF PlaceInv, HandledBeforeQueued
<1>9. HandledBeforeHeld'
  <2> SUFFICES ASSUME ThreadCount = 1, NEW x \in Items, NEW v \in Workers,
                      handled[x] # 0, Held(v)'
               PROVE  x < item'[v]
    BY DEF HandledBeforeHeld
  <2>1. CASE v # w /\ Held(v) /\ item'[v] = item[v]
    BY <2>1 DEF PlaceInv, HandledBeforeHeld
  <2>2. CASE v = w /\ item'[w] = queue_[1] /\ queue_[1] \in Items
    BY <2>2, <1>2 DEF PlaceInv, HandledBeforeQueued, Items
  <2> QED
    BY <1>3, <2>1, <2>2
<1>10. NothingLost'
  <2> SUFFICES ASSUME NEW x \in Items, x <= submitted, handled[x] # 1, ~terminated'
               PROVE  \/ \E i \in 1 .. Len(queue_') : queue_'[i] = x
                      \/ \E v \in Workers : item'[v] = x
    BY DEF NothingLost
  <2>1. CASE \E i \in 1 .. Len(queue_) : queue_[i] = x
    <3> PICK i \in 1 .. Len(queue_) : queue_[i] = x
      BY <2>1
    <3>1. CASE i = 1
      BY <3>1, <1>q DEF TypeOK, Items
    <3>2. CASE i # 1
      <4>1. i - 1 \in 1 .. Len(queue_') /\ (i - 1) + 1 = i
        BY <3>2, <1>q
      <4>2. queue_'[i - 1] = queue_[i]
        BY <4>1, <1>1, <1>q
      <4> QED
        BY <4>1, <4>2
    <3> QED
      BY <3>1, <3>2
  <2>2. CASE \E v \in Workers : item[v] = x
    <3> PICK v \in Workers : item[v] = x
      BY <2>2
    <3>1. v # w
      BY DEF Items
    <3>2. item'[v] = x
      BY <3>1 DEF TypeOK
    <3> QED
      BY <3>2
  <2> QED
    BY <2>1, <2>2 DEF PlaceInv, NothingLost
<1> QED
  BY <1>4, <1>5, <1>6, <1>7, <1>8, <1>9, <1>10 DEF PlaceInv

(* Taking the front of the queue keeps the order of what remains.          *)
LEMMA TakeQueue ==
    ASSUME TypeOK, QueueInv, queue_ # <<>>, queue_' = Tail(queue_),
           UNCHANGED submitted
    PROVE  QueueInv'
<1> USE CapacityAssumption
<1>q. /\ Len(queue_) \in Nat \ {0}
      /\ Len(queue_') = Len(queue_) - 1
      /\ \A i \in 1 .. Len(queue_) - 1 : queue_'[i] = queue_[i + 1]
  BY TailFacts DEF TypeOK
<1>1. ASSUME NEW i \in 1 .. Len(queue_')
      PROVE  i + 1 \in 1 .. Len(queue_) /\ queue_'[i] = queue_[i + 1]
  BY <1>q
<1>2. Len(queue_') <= Capacity
  BY <1>q DEF QueueInv
<1>3. ASSUME NEW i \in 1 .. Len(queue_'), NEW j \in 1 .. Len(queue_'),
             i < j, queue_'[j] # nullopt
      PROVE  queue_'[i] < queue_'[j]
  <2>1. i + 1 < j + 1
    BY <1>3, <1>q
  <2> QED
    BY <1>1, <1>3, <2>1 DEF QueueInv
<1>4. ASSUME NEW i \in 1 .. Len(queue_'), queue_'[i] # nullopt
      PROVE  queue_'[i] <= submitted'
  BY <1>1, <1>4 DEF QueueInv
<1> QED
  BY <1>2, <1>3, <1>4 DEF QueueInv

-----------------------------------------------------------------------------
(* Every action preserves the invariant.                                   *)

(* A step that leaves the queue and the workers' hands alone.              *)
LEMMA QuietStep ==
    ASSUME IInv, PoolInv', StopIsClean', ~terminated, terminated' \in BOOLEAN,
           UNCHANGED <<queue_, item, submitted, handled>>,
           producing' \in BOOLEAN
    PROVE  IInv'
<1> USE DEF IInv
<1>1. UserInv' /\ QueueInv'
  BY DEF UserInv, QueueInv
<1>2. PlaceInv'
  BY PlaceFrame
<1> QED
  BY <1>1, <1>2

(* wait() pushes a wake-up, unless the queue is full.                      *)
LEMMA WakeStep ==
    ASSUME IInv, PoolInv', StopIsClean', Wake \/ Nudge, UNCHANGED users
    PROVE  IInv'
<1> USE CapacityAssumption DEF IInv, users
<1>1. ~terminated /\ UNCHANGED <<item, terminated, submitted, handled, producing>>
  BY DEF Wake, Nudge
<1>2. CASE UNCHANGED queue_
  BY <1>1, <1>2, QuietStep DEF UserInv
<1>3. CASE queue_' = Append(queue_, nullopt) /\ Len(queue_) < Capacity
  <2>1. QueueInv' /\ PlaceInv'
    BY <1>1, <1>3, Typed, WakeQueue, WakePlace
  <2> QED
    BY <1>1, <2>1 DEF UserInv
<1>4. Len(queue_) \in Nat /\ Len(queue_) <= Capacity
  BY DEF PoolInv, PoolType, QueueInv
<1> QED
  BY <1>2, <1>3, <1>4 DEF Wake, Nudge

(* A worker takes the front of the queue, or sweeps it away.               *)
LEMMA TakeStep ==
    ASSUME IInv, PoolInv', StopIsClean', NEW w \in Workers,
           Pop(w) \/ DrainPop(w) \/ (Sweep(w) /\ queue_ # <<>>), UNCHANGED users
    PROVE  IInv'
<1> USE DEF IInv, users
<1>1. /\ queue_ # <<>> /\ queue_' = Tail(queue_)
      /\ item[w] = NoItem /\ ~terminated /\ terminated' \in BOOLEAN
      /\ \/ item' = [item EXCEPT ![w] = Head(queue_)] /\ Head(queue_) # nullopt
         \/ item' = item /\ (Head(queue_) = nullopt \/ terminated')
      /\ UNCHANGED <<submitted, handled, producing>>
  BY DEF Pop, DrainPop, Sweep, PoolInv, PoolType, UserInv
<1>2. QueueInv'
  BY <1>1, Typed, TakeQueue
<1>3. PlaceInv'
  BY <1>1, Typed, TakePlace
<1>4. UserInv'
  BY <1>1 DEF UserInv
<1> QED
  BY <1>2, <1>3, <1>4

(* A worker calls the work function.                                       *)
LEMMA HandleStep ==
    ASSUME IInv, TypeOK, PoolInv', NEW w \in Workers, Handle(w)
    PROVE  IInv'
<1> USE ItemAssumption DEF IInv, Handle, Invoke
<1>1. PlaceInv'
  <2>1. Held(w) /\ item[w] \in Items
    BY DEF TypeOK, Held
  <2>2. ASSUME NEW v \in Workers, Held(v)'
        PROVE  v # w /\ Held(v) /\ item'[v] = item[v] /\ item[v] # item[w]
    BY <2>1, <2>2 DEF TypeOK, Held, Items, PlaceInv, HeldByOne
  <2>3. /\ handled'[item[w]] = 1 /\ handled[item[w]] = 0
        /\ \A x \in Items : x # item[w] => handled'[x] = handled[x]
    BY <2>1 DEF TypeOK, PlaceInv, HeldFresh
  <2>4. HeldFresh'
    BY <2>2, <2>3 DEF PlaceInv, HeldFresh, Held
  <2>5. HeldByOne'
    BY <2>2 DEF PlaceInv, HeldByOne, Held
  <2>6. HeldBeforeQueued'
    BY <2>2 DEF PlaceInv, HeldBeforeQueued
  <2>7. HandledBeforeQueued'
    BY <2>1, <2>3 DEF PlaceInv, HandledBeforeQueued, HeldFresh, HeldBeforeQueued
  <2>8. HandledBeforeHeld'
    <3>1. ThreadCount = 1 => \A v \in Workers : v = w
      BY DEF Workers
    <3> QED
      BY <2>2, <3>1 DEF HandledBeforeHeld
  <2>9. NothingLost'
    BY <2>1, <2>3 DEF TypeOK, PlaceInv, NothingLost
  <2>10. AtMostOnce'
    BY <2>1, <2>3 DEF PlaceInv, InOrder, AtMostOnce
  <2>11. ASSUME ThreadCount = 1, NEW x \in Items, handled'[x] > 0, NEW y \in 1 .. x
         PROVE  handled'[y] > 0
    <3>1. y \in Items /\ y <= x
      BY DEF Items
    <3>2. CASE x # item[w]
      <4>1. handled[y] > 0
        BY <2>3, <2>11, <3>2 DEF PlaceInv, InOrder
      <4> QED
        BY <2>3, <3>1, <4>1
    <3>3. CASE x = item[w] /\ y # x
      <4>1. y <= submitted
        BY <2>1, <3>1, <3>3 DEF PlaceInv, HeldFresh, TypeOK, Items
      <4>2. ~ \E i \in 1 .. Len(queue_) : queue_[i] = y
        <5> SUFFICES ASSUME NEW i \in 1 .. Len(queue_), queue_[i] = y
                     PROVE  FALSE
          OBVIOUS
        <5>1. queue_[i] # nullopt
          BY <3>1 DEF Items
        <5> QED
          BY <2>1, <3>1, <3>3, <5>1 DEF PlaceInv, HeldBeforeQueued, Items
      <4>3. ~ \E v \in Workers : item[v] = y
        BY <2>1, <2>11, <3>3 DEF Workers
      <4> QED
        BY <3>1, <3>3, <2>3, <4>1, <4>2, <4>3 DEF PlaceInv, NothingLost
    <3>4. CASE x = item[w] /\ y = x
      BY <2>3, <3>4
    <3> QED
      BY <3>2, <3>3, <3>4
  <2>12. InOrder'
    BY <2>10, <2>11 DEF InOrder
  <2> QED
    BY <2>4, <2>5, <2>6, <2>7, <2>8, <2>9, <2>12 DEF PlaceInv
<1>2. QueueInv' /\ StopIsClean'
  BY DEF QueueInv, StopIsClean
<1>3. handled' \in [Items -> Nat]
  BY DEF TypeOK
<1>4. UserInv'
  BY <1>3 DEF UserInv
<1> QED
  BY <1>1, <1>2, <1>4

(* A producer's item enters the queue.                                     *)
LEMMA PushStep ==
    ASSUME IInv, TypeOK, PoolInv', Push
    PROVE  IInv'
<1> USE ThreadCountAssumption, CapacityAssumption, ItemAssumption DEF IInv,
       Push, Submit
<1>s. submitted + 1 \in Items
  BY DEF UserInv, Items
<1>q. /\ Len(queue_) \in Nat
      /\ Len(queue_') = Len(queue_) + 1
      /\ \A i \in 1 .. Len(queue_) : queue_'[i] = queue_[i]
      /\ queue_'[Len(queue_) + 1] = submitted + 1
  BY <1>s, AppendFacts DEF PoolInv, PoolType
<1>n. /\ ctl \notin WaitPCs
      /\ \A i \in 1 .. Len(queue_) : queue_[i] # nullopt /\ queue_[i] \in Items
  BY DEF PoolInv, ControlInv, ShapeInv, PoolType
<1>1. UserInv' /\ StopIsClean'
  BY <1>s DEF UserInv, Items, StopIsClean
<1>2. QueueInv'
  <2>1. \A i \in 1 .. Len(queue_) : queue_[i] <= submitted
    BY <1>n DEF QueueInv
  <2>2. ASSUME NEW i \in 1 .. Len(queue_')
        PROVE  \/ i \in 1 .. Len(queue_) /\ queue_'[i] = queue_[i]
               \/ i = Len(queue_) + 1 /\ queue_'[i] = submitted + 1
    BY <1>q
  <2>3. ASSUME NEW i \in 1 .. Len(queue_'), NEW j \in 1 .. Len(queue_'), i < j
        PROVE  queue_'[i] < queue_'[j]
    <3>1. i \in 1 .. Len(queue_) /\ queue_'[i] = queue_[i] /\ queue_[i] \in Items
      BY <2>3, <1>q, <1>n
    <3>2. CASE j = Len(queue_) + 1
      BY <3>1, <3>2, <2>1, <1>q DEF TypeOK, Items
    <3>3. CASE j # Len(queue_) + 1
      <4>1. j \in 1 .. Len(queue_) /\ queue_'[j] = queue_[j] /\ queue_[j] # nullopt
        BY <3>3, <1>q, <1>n
      <4> QED
        BY <2>3, <3>1, <4>1 DEF QueueInv
    <3> QED
      BY <3>2, <3>3
  <2>4. \A i \in 1 .. Len(queue_') : queue_'[i] # nullopt /\ queue_'[i] <= submitted'
    BY <2>2, <2>1, <1>n, <1>s DEF TypeOK, Items
  <2>5. Len(queue_') <= Capacity
    BY <1>q
  <2> QED
    BY <2>3, <2>4, <2>5 DEF QueueInv
<1>3. PlaceInv'
  <2>1. ASSUME NEW i \in 1 .. Len(queue_'), queue_'[i] # nullopt
        PROVE  \/ i \in 1 .. Len(queue_) /\ queue_'[i] = queue_[i]
               \/ queue_'[i] = submitted + 1
    BY <1>q
  <2>2. InOrder' /\ HeldByOne' /\ HandledBeforeHeld'
    BY DEF PlaceInv, InOrder, AtMostOnce, HeldByOne, HandledBeforeHeld, Held
  <2>3. HeldFresh'
    BY DEF TypeOK, PlaceInv, HeldFresh, Held, Items
  <2>4. HeldBeforeQueued'
    <3> SUFFICES ASSUME NEW w \in Workers, NEW i \in 1 .. Len(queue_'),
                        Held(w), queue_'[i] # nullopt
                 PROVE  item[w] < queue_'[i]
      BY DEF HeldBeforeQueued, Held
    <3>1. CASE i \in 1 .. Len(queue_) /\ queue_'[i] = queue_[i]
      BY <3>1 DEF PlaceInv, HeldBeforeQueued
    <3>2. CASE queue_'[i] = submitted + 1
      BY <3>2 DEF TypeOK, PlaceInv, HeldFresh, Held, Items
    <3> QED
      BY <2>1, <3>1, <3>2
  <2>5. HandledBeforeQueued'
    <3> SUFFICES ASSUME NEW x \in Items, handled[x] # 0
                 PROVE  /\ x <= submitted + 1
                        /\ \A i \in 1 .. Len(queue_') : queue_'[i] # nullopt => x < queue_'[i]
      BY DEF HandledBeforeQueued
    <3>1. x <= submitted /\ x <= submitted + 1 /\ x < submitted + 1
      BY DEF TypeOK, PlaceInv, HandledBeforeQueued, Items
    <3> QED
      BY <2>1, <3>1 DEF PlaceInv, HandledBeforeQueued
  <2>6. NothingLost'
    <3> SUFFICES ASSUME NEW x \in Items, x <= submitted + 1, handled[x] # 1,
                        ~ \E w \in Workers : item[w] = x
                 PROVE  \E i \in 1 .. Len(queue_') : queue_'[i] = x
      BY DEF NothingLost
    <3>1. CASE x = submitted + 1
      BY <3>1, <1>q
    <3>2. CASE x # submitted + 1
      <4>1. x <= submitted
        BY <3>2 DEF TypeOK, Items
      <4> PICK i \in 1 .. Len(queue_) : queue_[i] = x
        BY <4>1 DEF PlaceInv, NothingLost
      <4>2. i \in 1 .. Len(queue_') /\ queue_'[i] = x
        BY <1>q
      <4> QED
        BY <4>2
    <3> QED
      BY <3>1, <3>2
  <2> QED
    BY <2>2, <2>3, <2>4, <2>5, <2>6 DEF PlaceInv
<1> QED
  BY <1>1, <1>2, <1>3

-----------------------------------------------------------------------------
(* Initially and after every step, stuttering included.                    *)
LEMMA InitInv == Init => IInv
<1> SUFFICES ASSUME Init PROVE IInv
  OBVIOUS
<1> USE ThreadCountAssumption, CapacityAssumption, ItemAssumption DEF Init,
       PoolInit
<1>1. PoolInv
  BY PoolBegins
<1>2. UserInv /\ StopIsClean
  <2>1. submitted \in 0 .. ItemCount /\ handled \in [Items -> Nat]
    OBVIOUS
  <2> QED
    BY <2>1 DEF UserInv, StopIsClean
<1>3. QueueInv
  BY DEF QueueInv
<1>4. PlaceInv
  BY DEF PlaceInv, Held, InOrder, AtMostOnce, HeldFresh, HeldByOne,
     HeldBeforeQueued, HandledBeforeQueued, HandledBeforeHeld, NothingLost,
     Items
<1> QED
  BY <1>1, <1>2, <1>3, <1>4 DEF IInv

(* Every step of the pool, its client and its producer keeps it.           *)
LEMMA StepInv == IInv /\ [Next]_vars => IInv'
<1> SUFFICES ASSUME IInv, [Next]_vars PROVE IInv'
  OBVIOUS
<1> USE DEF IInv
<1>s. Push => submitted + 1 \in Items /\ Submit(submitted + 1) /\ producing
  BY ItemAssumption DEF Push, UserInv, Items
<1>p. PoolInv'
  <2>1. CASE Start \/ RequestStop \/ RequestCancellation \/ Wait
    BY <2>1, PoolStep
    DEF PoolNext, Start, RequestStop, RequestCancellation, Wait, users
  <2>2. CASE Controller /\ UNCHANGED users
    BY <2>2, PoolStep DEF PoolNext, users
  <2>3. CASE StopProducing \/ UNCHANGED vars
    BY <2>3, PoolStep DEF PoolNext, StopProducing, vars, users, pool
  <2>4. CASE Push
    BY <2>4, <1>s, PoolStep DEF PoolNext
  <2>5. ASSUME NEW w \in Workers, Handle(w) \/ (Worker(w) /\ UNCHANGED users)
        PROVE  PoolInv'
    BY <2>5, PoolStep DEF PoolNext, Handle, users
  <2> QED
    BY <2>1, <2>2, <2>3, <2>4, <2>5 DEF Next
<1>c. StopIsClean'
  <2> SUFFICES ASSUME ~cancelled_' PROVE ~terminated'
    BY DEF StopIsClean
  <2>c. ~cancelled_ /\ ~terminated
    BY DEF StopIsClean, Next, vars, pool, Start, start, RequestStop,
       request_stop, RequestCancellation, request_cancellation, Wait, wait,
       Controller, Spawn, StopThread, Wake, NudgeTest, Nudge, Join, Push,
       Submit, StopProducing, Handle, Invoke, Worker, LoopTest, Pop, EndTest,
       DrainEmpty, DrainPop, Finish, Sweep
  <2>1. CASE Start \/ RequestStop \/ RequestCancellation \/ Wait
    BY <2>1, <2>c, PoolContracts DEF Start, RequestStop, RequestCancellation, Wait
  <2>2. CASE Controller \/ (\E w \in Workers : Handle(w) \/ Worker(w))
    BY <2>2, <2>c, PoolContracts DEF Handle
  <2>3. CASE Push
    BY <2>3, <2>c, <1>s, PoolContracts
  <2>4. CASE StopProducing \/ UNCHANGED vars
    BY <2>4, <2>c DEF StopProducing, vars, pool
  <2> QED
    BY <2>1, <2>2, <2>3, <2>4 DEF Next
<1>1. CASE Start \/ RequestStop \/ RequestCancellation \/ Wait
  <2>1. ~terminated /\ UNCHANGED <<queue_, item, users, terminated>>
    BY <1>1 DEF Start, start, RequestStop, request_stop, RequestCancellation,
       request_cancellation, Wait, wait
  <2> QED
    BY <1>p, <1>c, <2>1, QuietStep DEF UserInv, users
<1>2. CASE (Spawn \/ StopThread \/ NudgeTest \/ Join) /\ UNCHANGED users
  <2>1. ~terminated /\ UNCHANGED <<queue_, item>> /\ terminated' \in BOOLEAN
    BY <1>2 DEF Spawn, StopThread, NudgeTest, Join, UserInv
  <2> QED
    BY <1>2, <1>p, <1>c, <2>1, QuietStep DEF UserInv, users
<1>3. CASE (Wake \/ Nudge) /\ UNCHANGED users
  BY <1>3, <1>p, <1>c, WakeStep
<1>4. CASE StopProducing
  BY <1>4, <1>p, <1>c, QuietStep DEF StopProducing, pool, UserInv
<1>5. CASE Push
  BY <1>5, <1>p, Typed, PushStep
<1>6. ASSUME NEW w \in Workers, Handle(w)
      PROVE  IInv'
  BY <1>6, <1>p, Typed, HandleStep
<1>7. ASSUME NEW w \in Workers, Worker(w), UNCHANGED users
      PROVE  IInv'
  <2>1. CASE \/ LoopTest(w) \/ EndTest(w) \/ DrainEmpty(w) \/ Finish(w)
             \/ Sweep(w) /\ queue_ = <<>>
    <3>1. ~terminated /\ UNCHANGED <<queue_, item, terminated>>
      BY <2>1 DEF LoopTest, EndTest, DrainEmpty, Finish, Sweep
    <3> QED
      BY <1>7, <1>p, <1>c, <3>1, QuietStep DEF UserInv, users
  <2>2. CASE Pop(w) \/ DrainPop(w) \/ (Sweep(w) /\ queue_ # <<>>)
    BY <1>7, <1>p, <1>c, <2>2, TakeStep
  <2> QED
    BY <1>7, <2>1, <2>2 DEF Worker
<1>8. CASE UNCHANGED vars
  BY <1>8
  DEF vars, users, pool, PoolInv, PoolType, StopIsClean, ControlInv, StopInv,
      ShapeInv, DrainInv, UserInv, QueueInv, PlaceInv, Held, InOrder,
      AtMostOnce, HeldFresh, HeldByOne, HeldBeforeQueued,
      HandledBeforeQueued, HandledBeforeHeld, NothingLost
<1> QED
  BY <1>1, <1>2, <1>3, <1>4, <1>5, <1>6, <1>7, <1>8 DEF Next, Controller

(* The invariant holds in every reachable state of the pool.               *)
THEOREM Invariance == Spec => []IInv
  BY InitInv, StepInv, PTL DEF Spec

-----------------------------------------------------------------------------
(* The results.                                                            *)

(* The pool keeps its types, and a worker holds an item exactly between    *)
(* popping it and handing it to the work function.                         *)
THEOREM TypeCorrectness == Spec => []TypeOK
  BY Typed, Invariance, PTL

(* As long as nobody cancels no contract fails: no sweep of run() meets an *)
(* item, however the workers interleave with the last pushes and with      *)
(* wait(), and wait() ends with done().                                    *)
THEOREM StopContractsHold == Spec => []StopIsClean
<1>1. IInv => StopIsClean
  BY DEF IInv
<1> QED
  BY <1>1, Invariance, PTL

(* No item reaches the work function twice, with any number of competing   *)
(* workers, stopped or cancelled at any moment, and a single worker (the   *)
(* piece writer) applies it in the order of the pushes.                    *)
THEOREM HandledInOrder == Spec => []InOrder
<1>1. IInv => InOrder
  BY DEF IInv, PlaceInv
<1> QED
  BY <1>1, Invariance, PTL

(* wait() after request_stop() returns only when the work function has had *)
(* every item pushed.                                                      *)
THEOREM NoItemLost == Spec => []AllHandled
<1>1. IInv => AllHandled
  <2> SUFFICES ASSUME IInv, ctl = "returned", ~cancelled_,
                      NEW x \in 1 .. submitted
               PROVE  handled[x] = 1
    BY DEF AllHandled
  <2>1. x \in Items /\ x <= submitted /\ x # nullopt /\ x # NoItem
    BY ItemAssumption DEF IInv, UserInv, Items
  <2>2. \A w \in Workers : pc[w] = "exited" /\ item[w] = NoItem
    BY DEF IInv, PoolInv, ControlInv, PoolType
  <2>3. \A i \in 1 .. Len(queue_) : queue_[i] = nullopt
    BY <2>2, ThreadCountAssumption DEF IInv, PoolInv, DrainInv, PastDrain, Workers
  <2> QED
    BY <2>1, <2>2, <2>3 DEF IInv, PlaceInv, NothingLost, StopIsClean
<1> QED
  BY <1>1, Invariance, PTL

(* done() is true, without a cancellation, only when nothing is pending,   *)
(* although run() sets its flag before its last sweep.                     *)
THEOREM DoneIsDone == Spec => []DoneMeansDone
<1>1. IInv => DoneMeansDone
  <2> SUFFICES ASSUME IInv, done, ~cancelled_
               PROVE  /\ \A i \in DOMAIN queue_ : queue_[i] = nullopt
                      /\ \A w \in Workers : item[w] = NoItem
    BY DEF DoneMeansDone
  <2>1. \A w \in Workers : pc[w] \in {"sweeping", "exited"}
    BY DEF done, IInv, PoolInv, StopInv
  <2>2. \A w \in Workers : item[w] = NoItem
    BY <2>1 DEF IInv, PoolInv, PoolType
  <2>3. DOMAIN queue_ = 1 .. Len(queue_)
    BY DEF IInv, PoolInv, PoolType
  <2>4. \A i \in 1 .. Len(queue_) : queue_[i] = nullopt
    BY <2>1, ThreadCountAssumption DEF IInv, PoolInv, DrainInv, PastDrain, Workers
  <2> QED
    BY <2>2, <2>3, <2>4
<1> QED
  BY <1>1, Invariance, PTL
=============================================================================

------------------------ MODULE ChunkProcessorProofs ------------------------
(***************************************************************************)
(* The safety of ChunkProcessor for every number of threads and chunks and *)
(* every capacity.  PoolInv speaks of the pool alone and of whether its    *)
(* producer has finished, so that it also serves the pools inside          *)
(* storage_hasher; IInv adds where each chunk of the producer is.          *)
(***************************************************************************)
EXTENDS ChunkProcessor, QueueLemmas, TLAPS

-----------------------------------------------------------------------------
(* The invariant of the pool.                                              *)

WaitPCs == {"waking", "nudging", "nudge", "joining", "returned"}
PastStop == {"ending", "draining", "drained", "finishing", "exited"}

PoolType ==
    /\ queue_ \in Seq(Chunks \cup {Sentinel})
    /\ started_ \in BOOLEAN
    /\ cancelled_ \in BOOLEAN
    /\ stop \in [Workers -> BOOLEAN]
    /\ done_ \in [Workers -> BOOLEAN]
    /\ pc \in [Workers -> WorkerPCs]
    /\ item \in [Workers -> Chunks \cup {Sentinel, NoChunk}]
    /\ \A w \in Workers : pc[w] \in {"popped", "drained"} <=> item[w] # NoChunk
    /\ ctl \in ControlPCs
    /\ k \in Workers

(* The controller: where it is says what it and the producer have done.    *)
ControlInv ==
    /\ ctl \in {"idle", "returned"} => k = 1
    /\ ctl = "starting" => ~started_ /\ \A w \in k .. ThreadCount : pc[w] = "unborn"
    /\ ctl = "idle" /\ ~started_ => \A w \in Workers : pc[w] = "unborn"
    /\ ctl = "stopping" => started_
    /\ ctl \in WaitPCs => /\ started_
                          /\ producer = "finished"
                          /\ \A w \in Workers : stop[w]
    /\ ctl = "joining" => \A w \in 1 .. k - 1 : pc[w] = "exited"
    /\ ctl = "returned" => \A w \in Workers : pc[w] = "exited"

(* The workers: a stop is requested only after the start and, without a    *)
(* cancellation, only after the last chunk was pushed; a worker leaves its *)
(* loop only because of a stop request.                                    *)
StopInv ==
    /\ \A w \in Workers : stop[w] => started_
    /\ ~cancelled_ /\ ctl = "stopping" => producer = "finished"
    /\ \A w \in Workers : ~cancelled_ /\ stop[w] => producer = "finished"
    /\ \A w \in Workers : pc[w] \in PastStop => stop[w]
    /\ \A w \in Workers : pc[w] = "exited" <=> done_[w]
    /\ \A w \in Workers : item[w] = Sentinel => ctl \in WaitPCs /\ pc[w] = "popped"

(* The queue: chunks, then the sentinels of wait().                        *)
ShapeInv ==
    /\ \A i \in 1 .. Len(queue_) : queue_[i] = Sentinel => ctl \in WaitPCs
    /\ \A i, j \in 1 .. Len(queue_) :
          i < j /\ queue_[j] # Sentinel => queue_[i] # Sentinel

(* Without a cancellation a worker finishes only when no chunk is queued.  *)
DrainInv ==
    \A w \in Workers :
        ~cancelled_ /\ pc[w] \in {"finishing", "exited"} =>
            \A i \in 1 .. Len(queue_) : queue_[i] = Sentinel

PoolInv ==
    /\ PoolType
    /\ ControlInv
    /\ StopInv
    /\ ShapeInv
    /\ DrainInv

(* What the pool and its users may do, as far as PoolInv is concerned: any *)
(* producer that has not finished may push any chunk.                      *)
PoolNext ==
    \/ /\ UNCHANGED producer
       /\ \/ start /\ ~started_ /\ ~cancelled_
          \/ request_stop /\ started_ /\ producer = "finished"
          \/ request_cancellation /\ started_
          \/ wait /\ producer = "finished" /\ \A w \in Workers : stop[w]
          \/ Controller
          \/ \E w \in Workers : HashChunk(w) \/ Worker(w)
    \/ producer # "finished" /\ \E c \in Chunks : Submit(c)
    \/ /\ producer = "finished" => producer' = "finished"
       /\ UNCHANGED <<queue_, started_, cancelled_, stop, done_, pc, item, ctl, k>>

-----------------------------------------------------------------------------
(* Every action preserves PoolInv: one lemma per action, in it one step    *)
(* per conjunct.                                                           *)

(* start() begins.                                                         *)
LEMMA StartPool ==
    ASSUME PoolInv, start, ~started_, ~cancelled_, UNCHANGED producer
    PROVE  PoolInv'
<1> USE ThreadCountAssumption, CapacityAssumption, ChunkAssumption DEF PoolInv,
       start
<1>1. PoolType'
  BY DEF PoolType, Workers, WorkerPCs, ControlPCs
<1>2. ControlInv'
  BY DEF PoolType, ControlInv, WaitPCs, Workers, ControlPCs
<1>3. StopInv'
  BY DEF PoolType, StopInv, PastStop, WaitPCs, Workers, ControlPCs
<1>4. ShapeInv'
  BY DEF PoolType, ShapeInv, WaitPCs
<1>5. DrainInv'
  BY DEF PoolType, DrainInv
<1> QED
  BY <1>1, <1>2, <1>3, <1>4, <1>5

(* start() spawns one thread.                                              *)
LEMMA SpawnPool ==
    ASSUME PoolInv, Spawn, UNCHANGED producer
    PROVE  PoolInv'
<1> USE ThreadCountAssumption, CapacityAssumption, ChunkAssumption DEF PoolInv,
       Spawn, Advance
<1>k. /\ k \in 1 .. ThreadCount /\ ~started_
      /\ pc[k] = "unborn" /\ item[k] = NoChunk
      /\ \A w \in k .. ThreadCount : pc[w] = "unborn"
  BY DEF PoolType, ControlInv, Workers
<1>1. PoolType'
  BY <1>k DEF PoolType, Workers, WorkerPCs, ControlPCs
<1>2. ControlInv'
  <2>1. CASE k < ThreadCount
    BY <1>k, <2>1 DEF PoolType, ControlInv, WaitPCs, Workers
  <2>2. CASE k = ThreadCount
    <3>1. ctl' = "idle" /\ k' = 1
      BY <2>2
    <3>2. started_'
      BY <2>2
    <3> QED
      BY <3>1, <3>2 DEF PoolType, ControlInv, WaitPCs
  <2> QED
    BY <1>k, <2>1, <2>2
<1>3. StopInv'
  BY <1>k DEF PoolType, StopInv, PastStop, WaitPCs, Workers, ControlPCs
<1>4. ShapeInv'
  BY DEF PoolType, ShapeInv, WaitPCs
<1>5. DrainInv'
  BY <1>k DEF PoolType, DrainInv
<1> QED
  BY <1>1, <1>2, <1>3, <1>4, <1>5

(* request_stop() begins, after the producer's end.                        *)
LEMMA RequestStopPool ==
    ASSUME PoolInv, request_stop, started_, producer = "finished", UNCHANGED producer
    PROVE  PoolInv'
<1> USE ThreadCountAssumption, CapacityAssumption, ChunkAssumption DEF PoolInv,
       request_stop
<1>1. PoolType'
  BY DEF PoolType, Workers, WorkerPCs, ControlPCs
<1>2. ControlInv'
  BY DEF PoolType, ControlInv, WaitPCs, Workers, ControlPCs
<1>3. StopInv'
  BY DEF PoolType, StopInv, PastStop, WaitPCs, Workers, ControlPCs
<1>4. ShapeInv'
  BY DEF PoolType, ShapeInv, WaitPCs
<1>5. DrainInv'
  BY DEF PoolType, DrainInv
<1> QED
  BY <1>1, <1>2, <1>3, <1>4, <1>5

(* request_cancellation() sets cancelled_.                                 *)
LEMMA RequestCancellationPool ==
    ASSUME PoolInv, request_cancellation, started_, UNCHANGED producer
    PROVE  PoolInv'
<1> USE ThreadCountAssumption, CapacityAssumption, ChunkAssumption DEF PoolInv,
       request_cancellation
<1>1. PoolType'
  BY DEF PoolType, Workers, WorkerPCs, ControlPCs
<1>2. ControlInv'
  BY DEF PoolType, ControlInv, WaitPCs, Workers, ControlPCs
<1>3. StopInv'
  BY DEF PoolType, StopInv, PastStop, WaitPCs, Workers, ControlPCs
<1>4. ShapeInv'
  BY DEF PoolType, ShapeInv, WaitPCs
<1>5. DrainInv'
  BY DEF PoolType, DrainInv
<1> QED
  BY <1>1, <1>2, <1>3, <1>4, <1>5

(* One thread's stop request.                                              *)
LEMMA StopThreadPool ==
    ASSUME PoolInv, StopThread, UNCHANGED producer
    PROVE  PoolInv'
<1> USE ThreadCountAssumption, CapacityAssumption, ChunkAssumption DEF PoolInv,
       StopThread, Advance
<1>1. PoolType'
  BY DEF PoolType, Workers, WorkerPCs, ControlPCs
<1>2. ControlInv'
  BY DEF PoolType, ControlInv, WaitPCs, Workers, ControlPCs
<1>3. StopInv'
  BY DEF PoolType, StopInv, PastStop, WaitPCs, Workers, ControlPCs, ControlInv
<1>4. ShapeInv'
  BY DEF PoolType, ShapeInv, WaitPCs
<1>5. DrainInv'
  BY DEF PoolType, DrainInv
<1> QED
  BY <1>1, <1>2, <1>3, <1>4, <1>5

(* wait() begins, after the stop requests.                                 *)
LEMMA WaitPool ==
    ASSUME PoolInv, wait, producer = "finished",
           \A w \in Workers : stop[w], UNCHANGED producer
    PROVE  PoolInv'
<1> USE ThreadCountAssumption, CapacityAssumption, ChunkAssumption DEF PoolInv,
       wait
<1>s. started_
  BY DEF StopInv, Workers
<1>1. PoolType'
  BY DEF PoolType, Workers, WorkerPCs, ControlPCs
<1>2. ControlInv'
  BY <1>s DEF PoolType, ControlInv, WaitPCs, Workers, ControlPCs
<1>3. StopInv'
  BY DEF PoolType, StopInv, PastStop, WaitPCs, Workers, ControlPCs
<1>4. ShapeInv'
  BY DEF PoolType, ShapeInv, WaitPCs
<1>5. DrainInv'
  BY DEF PoolType, DrainInv
<1> QED
  BY <1>1, <1>2, <1>3, <1>4, <1>5

(* wait() pushes one of its first sentinels.                               *)
LEMMA WakePool ==
    ASSUME PoolInv, Wake, UNCHANGED producer
    PROVE  PoolInv'
<1> USE ThreadCountAssumption, CapacityAssumption, ChunkAssumption DEF PoolInv,
       Wake, Advance
<1>q. /\ Len(queue_) \in Nat
      /\ queue_' \in Seq(Chunks \cup {Sentinel})
      /\ Len(queue_') = Len(queue_) + 1
      /\ \A i \in 1 .. Len(queue_) : queue_'[i] = queue_[i]
      /\ queue_'[Len(queue_) + 1] = Sentinel
  BY AppendFacts DEF PoolType
<1>1. PoolType'
  BY <1>q DEF PoolType, Workers, ControlPCs
<1>2. ControlInv'
  BY DEF PoolType, ControlInv, WaitPCs, Workers, ControlPCs
<1>3. StopInv'
  BY DEF PoolType, StopInv, PastStop, WaitPCs, Workers, ControlPCs
<1>4. ShapeInv'
  BY <1>q DEF ShapeInv, WaitPCs
<1>5. DrainInv'
  BY <1>q DEF PoolType, DrainInv
<1> QED
  BY <1>1, <1>2, <1>3, <1>4, <1>5

(* wait() pushes another sentinel.                                         *)
LEMMA NudgePool ==
    ASSUME PoolInv, Nudge, UNCHANGED producer
    PROVE  PoolInv'
<1> USE ThreadCountAssumption, CapacityAssumption, ChunkAssumption DEF PoolInv,
       Nudge, Advance
<1>q. /\ Len(queue_) \in Nat
      /\ queue_' \in Seq(Chunks \cup {Sentinel})
      /\ Len(queue_') = Len(queue_) + 1
      /\ \A i \in 1 .. Len(queue_) : queue_'[i] = queue_[i]
      /\ queue_'[Len(queue_) + 1] = Sentinel
  BY AppendFacts DEF PoolType
<1>1. PoolType'
  BY <1>q DEF PoolType, Workers, ControlPCs
<1>2. ControlInv'
  BY DEF PoolType, ControlInv, WaitPCs, Workers, ControlPCs
<1>3. StopInv'
  BY DEF PoolType, StopInv, PastStop, WaitPCs, Workers, ControlPCs
<1>4. ShapeInv'
  BY <1>q DEF ShapeInv, WaitPCs
<1>5. DrainInv'
  BY <1>q DEF PoolType, DrainInv
<1> QED
  BY <1>1, <1>2, <1>3, <1>4, <1>5

(* wait() tests done().                                                    *)
LEMMA NudgeTestPool ==
    ASSUME PoolInv, NudgeTest, UNCHANGED producer
    PROVE  PoolInv'
<1> USE ThreadCountAssumption, CapacityAssumption, ChunkAssumption DEF PoolInv,
       NudgeTest
<1>1. PoolType'
  BY DEF PoolType, Workers, WorkerPCs, ControlPCs
<1>2. ControlInv'
  BY DEF PoolType, ControlInv, WaitPCs, Workers, ControlPCs
<1>3. StopInv'
  BY DEF PoolType, StopInv, PastStop, WaitPCs, Workers, ControlPCs
<1>4. ShapeInv'
  BY DEF PoolType, ShapeInv, WaitPCs
<1>5. DrainInv'
  BY DEF PoolType, DrainInv
<1> QED
  BY <1>1, <1>2, <1>3, <1>4, <1>5

(* wait() joins one thread.                                                *)
LEMMA JoinPool ==
    ASSUME PoolInv, Join, UNCHANGED producer
    PROVE  PoolInv'
<1> USE ThreadCountAssumption, CapacityAssumption, ChunkAssumption DEF PoolInv,
       Join, Advance
<1>1. PoolType'
  BY DEF PoolType, Workers, WorkerPCs, ControlPCs
<1>2. ControlInv'
  BY DEF PoolType, ControlInv, WaitPCs, Workers, ControlPCs
<1>3. StopInv'
  BY DEF PoolType, StopInv, PastStop, WaitPCs, Workers, ControlPCs
<1>4. ShapeInv'
  BY DEF PoolType, ShapeInv, WaitPCs
<1>5. DrainInv'
  BY DEF PoolType, DrainInv
<1> QED
  BY <1>1, <1>2, <1>3, <1>4, <1>5

(* A producer that has not finished pushes a chunk.                        *)
LEMMA SubmitPool ==
    ASSUME PoolInv, NEW c \in Chunks, Submit(c), producer # "finished"
    PROVE  PoolInv'
<1> USE ThreadCountAssumption, CapacityAssumption, ChunkAssumption DEF PoolInv,
       Submit
<1>q. /\ Len(queue_) \in Nat
      /\ queue_' \in Seq(Chunks \cup {Sentinel})
      /\ Len(queue_') = Len(queue_) + 1
      /\ \A i \in 1 .. Len(queue_) : queue_'[i] = queue_[i]
      /\ queue_'[Len(queue_) + 1] = c
  BY AppendFacts DEF PoolType
<1>n. ctl \notin WaitPCs
  BY DEF ControlInv
<1>1. PoolType'
  BY <1>q DEF PoolType
<1>2. ControlInv'
  BY <1>n DEF PoolType, ControlInv, WaitPCs
<1>3. StopInv'
  BY <1>n DEF PoolType, StopInv, WaitPCs
<1>4. ShapeInv'
  <2>1. \A i \in 1 .. Len(queue_') : queue_'[i] # Sentinel
    BY <1>q, <1>n DEF ShapeInv, Chunks
  <2> QED
    BY <2>1 DEF ShapeInv
<1>5. DrainInv'
  BY DEF PoolType, DrainInv, StopInv, PastStop
<1> QED
  BY <1>1, <1>2, <1>3, <1>4, <1>5

(* A worker tests its stop token.                                          *)
LEMMA LoopTestPool ==
    ASSUME PoolInv, NEW w \in Workers, LoopTest(w), UNCHANGED producer
    PROVE  PoolInv'
<1> USE ThreadCountAssumption, CapacityAssumption, ChunkAssumption DEF PoolInv,
       LoopTest
<1>1. PoolType'
  BY DEF PoolType, Workers, WorkerPCs, ControlPCs
<1>2. ControlInv'
  BY DEF PoolType, ControlInv, WaitPCs, Workers, ControlPCs
<1>3. StopInv'
  BY DEF PoolType, StopInv, PastStop, WaitPCs, Workers, ControlPCs
<1>4. ShapeInv'
  BY DEF PoolType, ShapeInv, WaitPCs
<1>5. DrainInv'
  BY DEF PoolType, DrainInv
<1> QED
  BY <1>1, <1>2, <1>3, <1>4, <1>5

(* A worker pops the front of the queue.                                   *)
LEMMA PopPool ==
    ASSUME PoolInv, NEW w \in Workers, Pop(w), UNCHANGED producer
    PROVE  PoolInv'
<1> USE ThreadCountAssumption, CapacityAssumption, ChunkAssumption DEF PoolInv,
       Pop
<1>q. /\ Len(queue_) \in Nat \ {0}
      /\ Head(queue_) = queue_[1]
      /\ Head(queue_) \in Chunks \cup {Sentinel}
      /\ queue_' \in Seq(Chunks \cup {Sentinel})
      /\ Len(queue_') = Len(queue_) - 1
      /\ \A i \in 1 .. Len(queue_) - 1 : queue_'[i] = queue_[i + 1]
  BY TailFacts DEF PoolType
<1>1. PoolType'
  BY <1>q DEF PoolType, WorkerPCs, Chunks
<1>2. ControlInv'
  BY DEF PoolType, ControlInv, WaitPCs, Workers, ControlPCs
<1>3. StopInv'
  BY <1>q DEF PoolType, StopInv, PastStop, ShapeInv
<1>4. ShapeInv'
  <2>1. ASSUME NEW i \in 1 .. Len(queue_')
        PROVE  i + 1 \in 1 .. Len(queue_) /\ queue_'[i] = queue_[i + 1]
    BY <1>q
  <2>2. ASSUME NEW i \in 1 .. Len(queue_'), NEW j \in 1 .. Len(queue_'), i < j
        PROVE  i + 1 < j + 1
    BY <2>2, <1>q
  <2> QED
    BY <2>1, <2>2 DEF ShapeInv
<1>5. DrainInv'
  BY <1>q DEF PoolType, DrainInv
<1> QED
  BY <1>1, <1>2, <1>3, <1>4, <1>5

(* A worker finds a sentinel in its hands, after its stop request.         *)
LEMMA WokenPool ==
    ASSUME PoolInv, NEW w \in Workers, Woken(w), UNCHANGED producer
    PROVE  PoolInv'
<1> USE ThreadCountAssumption, CapacityAssumption, ChunkAssumption DEF PoolInv,
       Woken
<1>s. stop[w]
  BY DEF ControlInv, StopInv
<1>1. PoolType'
  BY <1>s DEF PoolType, WorkerPCs
<1>2. ControlInv'
  BY DEF PoolType, ControlInv, WaitPCs, Workers, ControlPCs
<1>3. StopInv'
  BY <1>s DEF PoolType, StopInv, PastStop
<1>4. ShapeInv'
  BY DEF PoolType, ShapeInv, WaitPCs
<1>5. DrainInv'
  BY DEF PoolType, DrainInv
<1> QED
  BY <1>1, <1>2, <1>3, <1>4, <1>5

(* A worker hashes the chunk it holds.                                     *)
LEMMA HashChunkPool ==
    ASSUME PoolInv, NEW w \in Workers, HashChunk(w), UNCHANGED producer
    PROVE  PoolInv'
<1> USE ThreadCountAssumption, CapacityAssumption, ChunkAssumption DEF PoolInv,
       HashChunk
<1>1. PoolType'
  BY DEF PoolType, Workers, WorkerPCs, ControlPCs
<1>2. ControlInv'
  BY DEF PoolType, ControlInv, WaitPCs, Workers, ControlPCs
<1>3. StopInv'
  BY DEF PoolType, StopInv, PastStop, WaitPCs, Workers, ControlPCs
<1>4. ShapeInv'
  BY DEF PoolType, ShapeInv, WaitPCs
<1>5. DrainInv'
  BY DEF PoolType, DrainInv
<1> QED
  BY <1>1, <1>2, <1>3, <1>4, <1>5

(* A worker leaves its loop.                                               *)
LEMMA EndTestPool ==
    ASSUME PoolInv, NEW w \in Workers, EndTest(w), UNCHANGED producer
    PROVE  PoolInv'
<1> USE ThreadCountAssumption, CapacityAssumption, ChunkAssumption DEF PoolInv,
       EndTest
<1>1. PoolType'
  BY DEF PoolType, Workers, WorkerPCs, ControlPCs
<1>2. ControlInv'
  BY DEF PoolType, ControlInv, WaitPCs, Workers, ControlPCs
<1>3. StopInv'
  BY DEF PoolType, StopInv, PastStop, WaitPCs, Workers, ControlPCs
<1>4. ShapeInv'
  BY DEF PoolType, ShapeInv, WaitPCs
<1>5. DrainInv'
  BY DEF PoolType, DrainInv
<1> QED
  BY <1>1, <1>2, <1>3, <1>4, <1>5

(* A worker finds the queue empty.                                         *)
LEMMA DrainEmptyPool ==
    ASSUME PoolInv, NEW w \in Workers, DrainEmpty(w), UNCHANGED producer
    PROVE  PoolInv'
<1> USE ThreadCountAssumption, CapacityAssumption, ChunkAssumption DEF PoolInv,
       DrainEmpty
<1>1. PoolType'
  BY DEF PoolType, Workers, WorkerPCs, ControlPCs
<1>2. ControlInv'
  BY DEF PoolType, ControlInv, WaitPCs, Workers, ControlPCs
<1>3. StopInv'
  BY DEF PoolType, StopInv, PastStop, WaitPCs, Workers, ControlPCs
<1>4. ShapeInv'
  BY DEF PoolType, ShapeInv, WaitPCs
<1>5. DrainInv'
  BY DEF PoolType, DrainInv
<1> QED
  BY <1>1, <1>2, <1>3, <1>4, <1>5

(* A worker drains the front of the queue.                                 *)
LEMMA DrainPopPool ==
    ASSUME PoolInv, NEW w \in Workers, DrainPop(w), UNCHANGED producer
    PROVE  PoolInv'
<1> USE ThreadCountAssumption, CapacityAssumption, ChunkAssumption DEF PoolInv,
       DrainPop
<1>q. /\ Len(queue_) \in Nat \ {0}
      /\ Head(queue_) = queue_[1]
      /\ Head(queue_) \in Chunks \cup {Sentinel}
      /\ queue_' \in Seq(Chunks \cup {Sentinel})
      /\ Len(queue_') = Len(queue_) - 1
      /\ \A i \in 1 .. Len(queue_) - 1 : queue_'[i] = queue_[i + 1]
  BY TailFacts DEF PoolType
<1>1. PoolType'
  <2>1. CASE Head(queue_) = Sentinel
    BY <1>q, <2>1 DEF PoolType, WorkerPCs
  <2>2. CASE Head(queue_) # Sentinel
    <3>1. Head(queue_) \in Chunks /\ Head(queue_) # NoChunk
      BY <1>q, <2>2 DEF Chunks
    <3>2. /\ pc' = [pc EXCEPT ![w] = "drained"]
          /\ item' = [item EXCEPT ![w] = Head(queue_)]
      BY <2>2
    <3> QED
      BY <1>q, <3>1, <3>2 DEF PoolType, WorkerPCs
  <2> QED
    BY <2>1, <2>2
<1>2. ControlInv'
  BY DEF PoolType, ControlInv, WaitPCs, Workers, ControlPCs
<1>3. StopInv'
  BY DEF PoolType, StopInv, PastStop, WaitPCs, Workers, ControlPCs
<1>4. ShapeInv'
  <2>1. ASSUME NEW i \in 1 .. Len(queue_')
        PROVE  i + 1 \in 1 .. Len(queue_) /\ queue_'[i] = queue_[i + 1]
    BY <1>q
  <2>2. ASSUME NEW i \in 1 .. Len(queue_'), NEW j \in 1 .. Len(queue_'), i < j
        PROVE  i + 1 < j + 1
    BY <2>2, <1>q
  <2> QED
    BY <2>1, <2>2 DEF ShapeInv
<1>5. DrainInv'
  BY <1>q DEF PoolType, DrainInv, ShapeInv
<1> QED
  BY <1>1, <1>2, <1>3, <1>4, <1>5

(* A worker sets its done_ flag and exits.                                 *)
LEMMA FinishPool ==
    ASSUME PoolInv, NEW w \in Workers, Finish(w), UNCHANGED producer
    PROVE  PoolInv'
<1> USE ThreadCountAssumption, CapacityAssumption, ChunkAssumption DEF PoolInv,
       Finish
<1>1. PoolType'
  BY DEF PoolType, Workers, WorkerPCs, ControlPCs
<1>2. ControlInv'
  BY DEF PoolType, ControlInv, WaitPCs, Workers, ControlPCs
<1>3. StopInv'
  BY DEF PoolType, StopInv, PastStop, WaitPCs, Workers, ControlPCs
<1>4. ShapeInv'
  BY DEF PoolType, ShapeInv, WaitPCs
<1>5. DrainInv'
  BY DEF PoolType, DrainInv
<1> QED
  BY <1>1, <1>2, <1>3, <1>4, <1>5

(* Whatever the pool or its users do, PoolInv is kept.                     *)
LEMMA PoolStep ==
    ASSUME PoolInv, PoolNext
    PROVE  PoolInv'
<1>1. CASE /\ UNCHANGED producer
           /\ \/ start /\ ~started_ /\ ~cancelled_
              \/ request_stop /\ started_ /\ producer = "finished"
              \/ request_cancellation /\ started_
              \/ wait /\ producer = "finished" /\ \A w \in Workers : stop[w]
  BY <1>1, StartPool, RequestStopPool, RequestCancellationPool, WaitPool
<1>2. CASE UNCHANGED producer /\ Controller
  BY <1>2, SpawnPool, StopThreadPool, WakePool, NudgeTestPool, NudgePool,
     JoinPool
  DEF Controller
<1>3. ASSUME UNCHANGED producer, NEW w \in Workers, HashChunk(w) \/ Worker(w)
      PROVE  PoolInv'
  BY <1>3, HashChunkPool, LoopTestPool, PopPool, WokenPool, EndTestPool,
     DrainEmptyPool, DrainPopPool, FinishPool
  DEF Worker
<1>4. CASE producer # "finished" /\ \E c \in Chunks : Submit(c)
  BY <1>4, SubmitPool
<1>5. CASE /\ producer = "finished" => producer' = "finished"
           /\ UNCHANGED <<queue_, started_, cancelled_, stop, done_, pc, item, ctl, k>>
  BY <1>5 DEF PoolInv, PoolType, ControlInv, StopInv, ShapeInv, DrainInv
<1> QED
  BY <1>1, <1>2, <1>3, <1>4, <1>5 DEF PoolNext

(* The pool begins in a state PoolInv describes.                           *)
LEMMA PoolBegins ==
    ASSUME PoolInit
    PROVE  PoolInv
<1> USE ThreadCountAssumption, CapacityAssumption, ChunkAssumption DEF PoolInit
<1>1. PoolType
  <2>1. queue_ \in Seq(Chunks \cup {Sentinel}) /\ k \in Workers
    BY DEF Workers
  <2>2. \A w \in Workers : pc[w] \in {"popped", "drained"} <=> item[w] # NoChunk
    OBVIOUS
  <2> QED
    BY <2>1, <2>2 DEF PoolType, WorkerPCs, ControlPCs
<1>2. ControlInv /\ StopInv /\ ShapeInv /\ DrainInv
  BY DEF ControlInv, WaitPCs, Workers, StopInv, PastStop, ShapeInv, DrainInv
<1> QED
  BY <1>1, <1>2 DEF PoolInv

(* The contracts of the pool: start() finds it new, a worker pops no       *)
(* sentinel before its stop request, and the last join finds every done_   *)
(* flag set.                                                               *)
LEMMA PoolContracts ==
    ASSUME PoolInv, ~terminated,
           \/ start /\ ~started_ /\ ~cancelled_
           \/ request_stop \/ request_cancellation \/ wait
           \/ Controller
           \/ \E w \in Workers : HashChunk(w) \/ Worker(w)
           \/ \E c \in Chunks : Submit(c)
    PROVE  ~terminated'
<1>1. CASE Join
  <2>1. k = ThreadCount => \A w \in Workers : done_[w]
    BY <1>1, ThreadCountAssumption
    DEF PoolInv, PoolType, ControlInv, StopInv, Join, Workers
  <2> QED
    BY <1>1, <2>1 DEF Join
<1>2. ASSUME NEW w \in Workers, Woken(w)
      PROVE  ~terminated'
  <2>1. stop[w]
    BY <1>2 DEF PoolInv, ControlInv, StopInv, Woken
  <2> QED
    BY <1>2, <2>1 DEF Woken
<1> QED
  BY <1>1, <1>2
  DEF start, request_stop, request_cancellation, wait, Controller, Spawn,
      StopThread, Wake, NudgeTest, Nudge, HashChunk, Worker, LoopTest, Pop,
      EndTest, DrainEmpty, DrainPop, Finish, Submit

-----------------------------------------------------------------------------
(* Where the chunks are, for the users of a pool inside a pipeline.        *)

(* The steps that neither push nor hash a chunk move chunks from the queue *)
(* to a worker and lose none.                                              *)
LEMMA MovePlaces ==
    ASSUME PoolInv, Once(queue_, item, Chunks),
           \/ start \/ request_stop \/ request_cancellation \/ wait \/ Controller
           \/ \E w \in Workers : Worker(w)
    PROVE  /\ Once(queue_', item', Chunks)
           /\ \A c \in Chunks : Holds(queue_', item', c) <=> Holds(queue_, item, c)
<1> USE ChunkAssumption DEF PoolInv
<1>n. Sentinel \notin Chunks /\ NoChunk \notin Chunks
  BY DEF Chunks
<1>1. CASE UNCHANGED <<queue_, item>>
  BY <1>1
<1>2. CASE queue_' = Append(queue_, Sentinel) /\ UNCHANGED item
  BY <1>2, <1>n, PushPlaces, SMTT(30) DEF PoolType
<1>3. ASSUME NEW w \in Workers, Pop(w)
      PROVE  /\ Once(queue_', item', Chunks)
             /\ \A c \in Chunks : Holds(queue_', item', c) <=> Holds(queue_, item, c)
  <2>1. item[w] \notin Chunks
    BY <1>3, <1>n DEF Pop, PoolType
  <2> QED
    BY <1>3, <2>1, TakePlaces DEF Pop, PoolType
<1>4. ASSUME NEW w \in Workers, Woken(w)
      PROVE  /\ Once(queue_', item', Chunks)
             /\ \A c \in Chunks : Holds(queue_', item', c) <=> Holds(queue_, item, c)
  <2>1. item' = [item EXCEPT ![w] = NoChunk] /\ UNCHANGED queue_
    BY <1>4 DEF Woken
  <2>2. item[w] \notin Chunks
    BY <1>4, <1>n DEF Woken
  <2>3. item \in [Workers -> Chunks \cup {Sentinel, NoChunk}]
    BY DEF PoolType
  <2> QED
    BY <1>n, <2>1, <2>2, <2>3, DropPlaces
<1>5. ASSUME NEW w \in Workers, DrainPop(w)
      PROVE  /\ Once(queue_', item', Chunks)
             /\ \A c \in Chunks : Holds(queue_', item', c) <=> Holds(queue_, item, c)
  <2>1. item[w] \notin Chunks
    BY <1>5, <1>n DEF DrainPop, PoolType
  <2>2. CASE Head(queue_) = Sentinel
    BY <1>5, <1>n, <2>2, LosePlaces DEF DrainPop, PoolType
  <2>3. CASE Head(queue_) # Sentinel
    <3>1. /\ queue_ # <<>> /\ queue_' = Tail(queue_)
          /\ item' = [item EXCEPT ![w] = Head(queue_)]
      BY <1>5, <2>3 DEF DrainPop
    <3>2. queue_ \in Seq(Chunks \cup {Sentinel}) /\ item \in [Workers -> Chunks \cup {Sentinel, NoChunk}]
      BY DEF PoolType
    <3> QED
      BY <2>1, <3>1, <3>2, TakePlaces
  <2> QED
    BY <2>2, <2>3
<1> QED
  BY <1>1, <1>2, <1>3, <1>4, <1>5
  DEF start, request_stop, request_cancellation, wait, Controller, Spawn,
      StopThread, Wake, NudgeTest, Nudge, Join, Worker, LoopTest, EndTest,
      DrainEmpty, Finish

(* A push adds its chunk.                                                  *)
LEMMA SubmitPlaces ==
    ASSUME PoolInv, Once(queue_, item, Chunks), NEW c \in Chunks, Submit(c),
           ~Holds(queue_, item, c)
    PROVE  /\ Once(queue_', item', Chunks)
           /\ \A x \in Chunks : Holds(queue_', item', x)
                                 <=> Holds(queue_, item, x) \/ x = c
  BY PushPlaces DEF PoolInv, PoolType, Submit

(* hash_chunk takes the chunk it hashes away.                              *)
LEMMA HashPlaces ==
    ASSUME PoolInv, Once(queue_, item, Chunks), NEW w \in Workers, HashChunk(w)
    PROVE  /\ item[w] \in Chunks /\ Holds(queue_, item, item[w])
           /\ Once(queue_', item', Chunks)
           /\ \A x \in Chunks : Holds(queue_', item', x)
                                 <=> Holds(queue_, item, x) /\ x # item[w]
<1>1. NoChunk \notin Chunks
  BY ChunkAssumption DEF Chunks
<1>2. item[w] \in Chunks
  BY DEF PoolInv, PoolType, HashChunk
<1>3. Holds(queue_, item, item[w])
  BY DEF PoolInv, PoolType, Holds
<1>4. item' = [item EXCEPT ![w] = NoChunk] /\ UNCHANGED queue_
  BY DEF HashChunk
<1>5. item \in [Workers -> Chunks \cup {Sentinel, NoChunk}]
  BY DEF PoolInv, PoolType
<1> QED
  BY <1>1, <1>2, <1>3, <1>4, <1>5, DropPlaces

(* Once every worker has left, nothing is held unless it was cancelled.    *)
LEMMA EmptyPlaces ==
    ASSUME PoolInv, ~cancelled_, \A w \in Workers : pc[w] = "exited"
    PROVE  \A c \in Chunks : ~Holds(queue_, item, c)
<1>1. Sentinel \notin Chunks /\ NoChunk \notin Chunks /\ 1 \in Workers
  BY ChunkAssumption, ThreadCountAssumption DEF Chunks, Workers
<1>2. \A w \in Workers : item[w] = NoChunk
  BY DEF PoolInv, PoolType
<1>3. \A i \in 1 .. Len(queue_) : queue_[i] = Sentinel
  BY <1>1 DEF PoolInv, DrainInv
<1> QED
  BY <1>1, <1>2, <1>3 DEF Holds, PoolInv, PoolType

-----------------------------------------------------------------------------
(* The invariant of the pool among its users.                              *)

UserInv ==
    /\ terminated \in BOOLEAN
    /\ producer \in {"ready", "pushing", "finished"}
    /\ submitted \in 0 .. ChunkCount
    /\ hashed \in [Chunks -> Nat]
    /\ producer = "pushing" => submitted < ChunkCount

(* How many sentinels wait() has pushed, at most.                          *)
Pushed == CASE ctl = "waking" -> k - 1
            [] ctl \in {"nudging", "nudge"} -> ThreadCount + (k - 1)
            [] ctl \in {"joining", "returned"} -> 2 * ThreadCount
            [] OTHER -> 0

(* The queue: chunks in the order they were pushed, then at most Pushed    *)
(* sentinels.                                                              *)
QueueInv ==
    /\ Len(queue_) <= Capacity
    /\ \A i \in 1 .. Len(queue_) : i <= Len(queue_) - Pushed => queue_[i] # Sentinel
    /\ \A i, j \in 1 .. Len(queue_) :
          i < j /\ queue_[j] # Sentinel =>
              queue_[i] # Sentinel /\ queue_[i] < queue_[j]
    /\ \A i \in 1 .. Len(queue_) : queue_[i] # Sentinel => queue_[i] <= submitted

(* Every chunk pushed is in one place: queued, held by one worker, hashed. *)
Held(w) == item[w] \in Chunks

HeldFresh ==
    \A w \in Workers : Held(w) => item[w] <= submitted /\ hashed[item[w]] = 0

HeldByOne ==
    \A w, v \in Workers : Held(w) /\ item[w] = item[v] => w = v

HeldBeforeQueued ==
    \A w \in Workers : \A i \in 1 .. Len(queue_) :
        Held(w) /\ queue_[i] # Sentinel => item[w] < queue_[i]

HashedBeforeQueued ==
    \A c \in Chunks : hashed[c] # 0 =>
        /\ c <= submitted
        /\ \A i \in 1 .. Len(queue_) : queue_[i] # Sentinel => c < queue_[i]

NothingLost ==
    \A c \in Chunks : c <= submitted =>
        \/ hashed[c] = 1
        \/ \E i \in 1 .. Len(queue_) : queue_[i] = c
        \/ \E w \in Workers : item[w] = c

PlaceInv ==
    /\ AtMostOnce
    /\ HeldFresh
    /\ HeldByOne
    /\ HeldBeforeQueued
    /\ HashedBeforeQueued
    /\ NothingLost

IInv ==
    /\ PoolInv
    /\ NoContractFailure
    /\ UserInv
    /\ QueueInv
    /\ PlaceInv

(* The invariant gives every variable its type.                            *)
LEMMA Typed == IInv => TypeOK
  BY DEF IInv, PoolInv, PoolType, UserInv, TypeOK

-----------------------------------------------------------------------------
(* How the chunks' places change when the queue changes.                   *)

(* Pushing a sentinel moves no chunk.                                      *)
LEMMA SentinelPlace ==
    ASSUME TypeOK, PlaceInv, queue_' = Append(queue_, Sentinel),
           UNCHANGED <<item, submitted, hashed>>
    PROVE  PlaceInv'
<1>q. /\ Len(queue_) \in Nat
      /\ Len(queue_') = Len(queue_) + 1
      /\ \A i \in 1 .. Len(queue_) : queue_'[i] = queue_[i]
      /\ queue_'[Len(queue_) + 1] = Sentinel
  BY AppendFacts DEF TypeOK
<1>1. \A i \in 1 .. Len(queue_') : queue_'[i] # Sentinel =>
          i \in 1 .. Len(queue_) /\ queue_'[i] = queue_[i]
  BY <1>q
<1>2. AtMostOnce' /\ HeldFresh' /\ HeldByOne'
  BY DEF PlaceInv, AtMostOnce, HeldFresh, HeldByOne, Held
<1>3. HeldBeforeQueued'
  BY <1>1 DEF PlaceInv, HeldBeforeQueued, Held
<1>4. HashedBeforeQueued'
  BY <1>1 DEF PlaceInv, HashedBeforeQueued
<1>5. ASSUME NEW i \in 1 .. Len(queue_)
      PROVE  i \in 1 .. Len(queue_') /\ queue_'[i] = queue_[i]
  BY <1>q
<1>6. NothingLost'
  BY <1>5 DEF PlaceInv, NothingLost
<1> QED
  BY <1>2, <1>3, <1>4, <1>6 DEF PlaceInv

(* Taking the front of the queue moves a chunk to the worker's hands.      *)
LEMMA TakePlace ==
    ASSUME TypeOK, QueueInv, PlaceInv, NEW w \in Workers,
           queue_ # <<>>, queue_' = Tail(queue_),
           item[w] = NoChunk,
           \/ item' = [item EXCEPT ![w] = Head(queue_)]
           \/ Head(queue_) = Sentinel /\ item' = item,
           UNCHANGED <<submitted, hashed>>
    PROVE  PlaceInv'
<1> USE ChunkAssumption
<1>q. /\ Len(queue_) \in Nat \ {0}
      /\ Head(queue_) = queue_[1]
      /\ Head(queue_) \in Chunks \cup {Sentinel}
      /\ Len(queue_') = Len(queue_) - 1
      /\ \A i \in 1 .. Len(queue_) - 1 : queue_'[i] = queue_[i + 1]
  BY TailFacts DEF TypeOK
<1>1. ASSUME NEW i \in 1 .. Len(queue_')
      PROVE  i + 1 \in 1 .. Len(queue_) /\ 1 < i + 1 /\ queue_'[i] = queue_[i + 1]
  BY <1>q
<1>2. 1 \in 1 .. Len(queue_)
  BY <1>q
<1>3. ASSUME NEW v \in Workers, Held(v)'
      PROVE  \/ v # w /\ Held(v) /\ item'[v] = item[v]
             \/ v = w /\ item'[w] = queue_[1] /\ queue_[1] \in Chunks
  BY <1>q, <1>3 DEF TypeOK, Held, Chunks
<1>4. AtMostOnce'
  BY DEF PlaceInv, AtMostOnce
<1>5. HeldFresh'
  <2> SUFFICES ASSUME NEW v \in Workers, Held(v)'
               PROVE  item'[v] <= submitted /\ hashed[item'[v]] = 0
    BY DEF HeldFresh
  <2>1. CASE v # w /\ Held(v) /\ item'[v] = item[v]
    BY <2>1 DEF PlaceInv, HeldFresh
  <2>2. CASE v = w /\ item'[w] = queue_[1] /\ queue_[1] \in Chunks
    <3>1. queue_[1] # Sentinel
      BY <2>2 DEF Chunks
    <3>2. queue_[1] <= submitted
      BY <3>1, <1>2 DEF QueueInv
    <3>3. hashed[queue_[1]] = 0
      BY <3>1, <1>2, <2>2 DEF PlaceInv, HashedBeforeQueued, Chunks
    <3> QED
      BY <2>2, <3>2, <3>3
  <2> QED
    BY <1>3, <2>1, <2>2
<1>6. HeldByOne'
  <2> SUFFICES ASSUME NEW u \in Workers, NEW v \in Workers,
                      Held(u)', item'[u] = item'[v]
               PROVE  u = v
    BY DEF HeldByOne
  <2>1. Held(v)'
    BY DEF Held
  <2>2. ASSUME NEW x \in Workers, Held(x), queue_[1] \in Chunks
        PROVE  item[x] # queue_[1]
    BY <1>2, <2>2 DEF PlaceInv, HeldBeforeQueued, Held, Chunks
  <2> QED
    BY <2>1, <2>2, <1>3 DEF PlaceInv, HeldByOne
<1>7. HeldBeforeQueued'
  <2> SUFFICES ASSUME NEW v \in Workers, NEW i \in 1 .. Len(queue_'),
                      Held(v)', queue_'[i] # Sentinel
               PROVE  item'[v] < queue_'[i]
    BY DEF HeldBeforeQueued
  <2>1. CASE v # w /\ Held(v) /\ item'[v] = item[v]
    BY <2>1, <1>1 DEF PlaceInv, HeldBeforeQueued
  <2>2. CASE v = w /\ item'[w] = queue_[1] /\ queue_[1] \in Chunks
    BY <2>2, <1>1, <1>2 DEF QueueInv
  <2> QED
    BY <1>3, <2>1, <2>2
<1>8. HashedBeforeQueued'
  BY <1>1 DEF PlaceInv, HashedBeforeQueued
<1>9. NothingLost'
  <2> SUFFICES ASSUME NEW c \in Chunks, c <= submitted, hashed[c] # 1
               PROVE  \/ \E i \in 1 .. Len(queue_') : queue_'[i] = c
                      \/ \E v \in Workers : item'[v] = c
    BY DEF NothingLost
  <2>1. CASE \E i \in 1 .. Len(queue_) : queue_[i] = c
    <3> PICK i \in 1 .. Len(queue_) : queue_[i] = c
      BY <2>1
    <3>1. CASE i = 1
      BY <3>1, <1>q DEF TypeOK, Chunks
    <3>2. CASE i # 1
      <4>1. i - 1 \in 1 .. Len(queue_')
        BY <3>2, <1>q
      <4>2. queue_'[i - 1] = queue_[i]
        BY <4>1, <1>1, <1>q
      <4> QED
        BY <4>1, <4>2
    <3> QED
      BY <3>1, <3>2
  <2>2. CASE \E v \in Workers : item[v] = c
    <3> PICK v \in Workers : item[v] = c
      BY <2>2
    <3>1. v # w
      BY DEF Chunks
    <3>2. item'[v] = c
      BY <3>1 DEF TypeOK
    <3> QED
      BY <3>2
  <2> QED
    BY <2>1, <2>2 DEF PlaceInv, NothingLost
<1> QED
  BY <1>4, <1>5, <1>6, <1>7, <1>8, <1>9 DEF PlaceInv

(* Taking the front of the queue keeps the order of what remains.          *)
LEMMA TakeQueue ==
    ASSUME TypeOK, QueueInv, queue_ # <<>>, queue_' = Tail(queue_),
           UNCHANGED <<submitted, ctl, k>>
    PROVE  QueueInv'
<1> USE ThreadCountAssumption, CapacityAssumption
<1>q. /\ Len(queue_) \in Nat \ {0}
      /\ Len(queue_') = Len(queue_) - 1
      /\ \A i \in 1 .. Len(queue_) - 1 : queue_'[i] = queue_[i + 1]
  BY TailFacts DEF TypeOK
<1>p. Pushed' = Pushed /\ Pushed \in Nat
  BY DEF Pushed, TypeOK, Workers
<1>1. ASSUME NEW i \in 1 .. Len(queue_')
      PROVE  i + 1 \in 1 .. Len(queue_) /\ queue_'[i] = queue_[i + 1]
  BY <1>q
<1>2. Len(queue_') <= Capacity
  BY <1>q DEF QueueInv
<1>3. ASSUME NEW i \in 1 .. Len(queue_'), i <= Len(queue_') - Pushed'
      PROVE  queue_'[i] # Sentinel
  <2>1. i + 1 <= Len(queue_) - Pushed
    BY <1>3, <1>q, <1>p
  <2> QED
    BY <2>1, <1>1 DEF QueueInv
<1>4. ASSUME NEW i \in 1 .. Len(queue_'), NEW j \in 1 .. Len(queue_'),
             i < j, queue_'[j] # Sentinel
      PROVE  queue_'[i] # Sentinel /\ queue_'[i] < queue_'[j]
  <2>1. i + 1 < j + 1
    BY <1>4, <1>q
  <2> QED
    BY <1>1, <1>4, <2>1 DEF QueueInv
<1>5. ASSUME NEW i \in 1 .. Len(queue_'), queue_'[i] # Sentinel
      PROVE  queue_'[i] <= submitted'
  BY <1>1, <1>5 DEF QueueInv
<1> QED
  BY <1>2, <1>3, <1>4, <1>5 DEF QueueInv

-----------------------------------------------------------------------------
(* Every action preserves the invariant.                                   *)

(* A step that leaves the queue and the workers' hands alone.              *)
LEMMA QuietStep ==
    ASSUME IInv, PoolInv', ~terminated', terminated' \in BOOLEAN,
           UNCHANGED <<queue_, item, users>>, Pushed <= Pushed'
    PROVE  IInv'
<1> USE DEF users, IInv
<1>1. UserInv'
  BY DEF UserInv
<1>2. Pushed \in Nat /\ Pushed' \in Nat /\ Len(queue_) \in Nat
  BY ThreadCountAssumption DEF Pushed, PoolInv, PoolType, Workers
<1>3. QueueInv'
  BY <1>2 DEF QueueInv
<1>4. PlaceInv'
  BY DEF PlaceInv, Held, AtMostOnce, HeldFresh, HeldByOne, HeldBeforeQueued,
     HashedBeforeQueued, NothingLost
<1> QED
  BY <1>1, <1>3, <1>4 DEF NoContractFailure

(* wait() pushes a sentinel.                                               *)
LEMMA SentinelStep ==
    ASSUME IInv, PoolInv', Wake \/ Nudge, UNCHANGED users
    PROVE  IInv'
<1> USE ThreadCountAssumption, CapacityAssumption DEF IInv
<1>a. /\ queue_' = Append(queue_, Sentinel) /\ Len(queue_) < Capacity
      /\ UNCHANGED <<item, terminated, submitted, hashed, producer>>
  BY DEF Wake, Nudge, users
<1>q. /\ Len(queue_) \in Nat
      /\ Len(queue_') = Len(queue_) + 1
      /\ \A i \in 1 .. Len(queue_) : queue_'[i] = queue_[i]
      /\ queue_'[Len(queue_) + 1] = Sentinel
  BY <1>a, AppendFacts DEF PoolInv, PoolType
<1>p. Pushed \in Nat /\ Pushed' = Pushed + 1
  <2>k. k \in 1 .. ThreadCount
    BY DEF PoolInv, PoolType, Workers
  <2>1. CASE Wake
    BY <2>k, <2>1 DEF Pushed, Wake, Advance
  <2>2. CASE Nudge
    BY <2>k, <2>2 DEF Pushed, Nudge, Advance
  <2> QED
    BY <2>1, <2>2
<1>1. UserInv'
  BY <1>a DEF UserInv
<1>2. QueueInv'
  BY <1>a, <1>q, <1>p DEF QueueInv
<1>3. PlaceInv'
  BY <1>a, Typed, SentinelPlace
<1> QED
  BY <1>a, <1>1, <1>2, <1>3 DEF NoContractFailure

(* A worker takes the front of the queue.                                  *)
LEMMA TakeStep ==
    ASSUME IInv, PoolInv', NEW w \in Workers, Pop(w) \/ DrainPop(w),
           UNCHANGED users
    PROVE  IInv'
<1> USE DEF IInv, users
<1>1. /\ queue_ # <<>> /\ queue_' = Tail(queue_)
      /\ item[w] = NoChunk
      /\ \/ item' = [item EXCEPT ![w] = Head(queue_)]
         \/ Head(queue_) = Sentinel /\ item' = item
      /\ UNCHANGED <<submitted, hashed, ctl, k, terminated, producer>>
  BY DEF Pop, DrainPop, PoolInv, PoolType
<1>2. QueueInv'
  BY <1>1, Typed, TakeQueue
<1>3. PlaceInv'
  BY <1>1, Typed, TakePlace
<1>4. UserInv'
  BY <1>1 DEF UserInv
<1> QED
  BY <1>1, <1>2, <1>3, <1>4 DEF NoContractFailure

(* A worker drops a sentinel.                                              *)
LEMMA WokenStep ==
    ASSUME IInv, TypeOK, PoolInv', ~terminated', NEW w \in Workers, Woken(w),
           UNCHANGED users
    PROVE  IInv'
<1> USE ChunkAssumption DEF IInv, Woken, users
<1>1. PlaceInv'
  <2>1. ASSUME NEW v \in Workers
        PROVE  Held(v)' <=> Held(v)
    BY DEF TypeOK, Held, Chunks
  <2>2. ASSUME NEW v \in Workers, Held(v)
        PROVE  item'[v] = item[v]
    BY <2>2 DEF TypeOK, Held, Chunks
  <2>3. AtMostOnce' /\ HeldFresh' /\ HeldBeforeQueued' /\ HashedBeforeQueued'
    BY <2>1, <2>2 DEF PlaceInv, AtMostOnce, HeldFresh, HeldBeforeQueued,
       HashedBeforeQueued
  <2>4. HeldByOne'
    BY <2>1, <2>2 DEF PlaceInv, HeldByOne, Held
  <2>5. NothingLost'
    BY <2>2 DEF PlaceInv, NothingLost, Held
  <2> QED
    BY <2>3, <2>4, <2>5 DEF PlaceInv
<1>2. QueueInv' /\ UserInv'
  BY DEF QueueInv, Pushed, UserInv
<1> QED
  BY <1>1, <1>2 DEF NoContractFailure

(* A worker hashes the chunk it holds.                                     *)
LEMMA HashStep ==
    ASSUME IInv, TypeOK, PoolInv', NEW w \in Workers, Hash(w)
    PROVE  IInv'
<1> USE ChunkAssumption DEF IInv, Hash, HashChunk
<1>1. PlaceInv'
  <2>1. Held(w) /\ item[w] \in Chunks
    BY DEF TypeOK, Held
  <2>2. ASSUME NEW v \in Workers, Held(v)'
        PROVE  v # w /\ Held(v) /\ item'[v] = item[v] /\ item[v] # item[w]
    BY <2>1, <2>2 DEF TypeOK, Held, Chunks, PlaceInv, HeldByOne
  <2>3. /\ hashed'[item[w]] = 1
        /\ \A c \in Chunks : c # item[w] => hashed'[c] = hashed[c]
    BY <2>1 DEF TypeOK, PlaceInv, HeldFresh
  <2>4. AtMostOnce'
    BY <2>1, <2>3 DEF PlaceInv, AtMostOnce
  <2>5. HeldFresh'
    BY <2>2, <2>3 DEF PlaceInv, HeldFresh, Held
  <2>6. HeldByOne'
    BY <2>2 DEF PlaceInv, HeldByOne, Held
  <2>7. HeldBeforeQueued'
    BY <2>2 DEF PlaceInv, HeldBeforeQueued
  <2>8. HashedBeforeQueued'
    BY <2>1, <2>3 DEF PlaceInv, HashedBeforeQueued, HeldFresh, HeldBeforeQueued
  <2>9. NothingLost'
    BY <2>1, <2>3 DEF TypeOK, PlaceInv, NothingLost
  <2> QED
    BY <2>4, <2>5, <2>6, <2>7, <2>8, <2>9 DEF PlaceInv
<1>2. QueueInv'
  BY DEF QueueInv, Pushed
<1>3. hashed' \in [Chunks -> Nat]
  BY DEF TypeOK
<1>4. UserInv'
  BY <1>3 DEF UserInv
<1> QED
  BY <1>1, <1>2, <1>4 DEF NoContractFailure

(* The producer's chunk enters the queue.                                  *)
LEMMA PushStep ==
    ASSUME IInv, TypeOK, PoolInv', Push
    PROVE  IInv'
<1> USE ThreadCountAssumption, CapacityAssumption, ChunkAssumption DEF IInv,
       Push, Submit
<1>s. submitted + 1 \in Chunks
  BY DEF UserInv, Chunks
<1>q. /\ Len(queue_) \in Nat
      /\ Len(queue_') = Len(queue_) + 1
      /\ \A i \in 1 .. Len(queue_) : queue_'[i] = queue_[i]
      /\ queue_'[Len(queue_) + 1] = submitted + 1
  BY <1>s, AppendFacts DEF PoolInv, PoolType
<1>n. ctl \notin WaitPCs /\ Pushed = 0
  BY DEF PoolInv, ControlInv, Pushed, WaitPCs
<1>1. UserInv'
  BY <1>s DEF UserInv, Chunks
<1>2. QueueInv'
  <2>1. \A i \in 1 .. Len(queue_) :
            queue_[i] \in Chunks /\ queue_[i] <= submitted
    BY <1>n, <1>q DEF TypeOK, QueueInv
  <2>2. Pushed' = 0
    BY <1>n DEF Pushed, WaitPCs
  <2>3. ASSUME NEW i \in 1 .. Len(queue_')
        PROVE  /\ queue_'[i] \in Chunks
               /\ i <= Len(queue_) => queue_'[i] <= submitted
               /\ i = Len(queue_) + 1 => queue_'[i] = submitted + 1
    BY <2>1, <1>q, <1>s
  <2>4. ASSUME NEW i \in 1 .. Len(queue_'), NEW j \in 1 .. Len(queue_'), i < j
        PROVE  queue_'[i] < queue_'[j]
    <3>1. i \in 1 .. Len(queue_) /\ queue_'[i] = queue_[i] /\ queue_[i] \in Chunks
      BY <2>4, <1>q, <2>1
    <3>2. CASE j = Len(queue_) + 1
      BY <3>1, <3>2, <2>1, <1>q DEF TypeOK, Chunks
    <3>3. CASE j # Len(queue_) + 1
      <4>1. j \in 1 .. Len(queue_) /\ queue_'[j] = queue_[j] /\ queue_[j] # Sentinel
        BY <3>3, <1>q, <2>1 DEF Chunks
      <4> QED
        BY <2>4, <3>1, <4>1 DEF QueueInv
    <3> QED
      BY <3>2, <3>3
  <2>5. \A i \in 1 .. Len(queue_') : queue_'[i] # Sentinel /\ queue_'[i] <= submitted'
    BY <2>3, <1>q DEF TypeOK, Chunks
  <2>6. Len(queue_') <= Capacity
    BY <1>q
  <2> QED
    BY <2>4, <2>5, <2>6 DEF QueueInv
<1>3. PlaceInv'
  <2>1. ASSUME NEW i \in 1 .. Len(queue_'), queue_'[i] # Sentinel
        PROVE  \/ i \in 1 .. Len(queue_) /\ queue_'[i] = queue_[i]
               \/ queue_'[i] = submitted + 1
    BY <1>q
  <2>2. AtMostOnce' /\ HeldByOne'
    BY DEF PlaceInv, AtMostOnce, HeldByOne, Held
  <2>3. HeldFresh'
    BY DEF TypeOK, PlaceInv, HeldFresh, Held, Chunks
  <2>4. HeldBeforeQueued'
    <3> SUFFICES ASSUME NEW w \in Workers, NEW i \in 1 .. Len(queue_'),
                        Held(w), queue_'[i] # Sentinel
                 PROVE  item[w] < queue_'[i]
      BY DEF HeldBeforeQueued, Held
    <3>1. CASE i \in 1 .. Len(queue_) /\ queue_'[i] = queue_[i]
      BY <3>1 DEF PlaceInv, HeldBeforeQueued
    <3>2. CASE queue_'[i] = submitted + 1
      BY <3>2 DEF TypeOK, PlaceInv, HeldFresh, Held, Chunks
    <3> QED
      BY <2>1, <3>1, <3>2
  <2>5. HashedBeforeQueued'
    <3> SUFFICES ASSUME NEW c \in Chunks, hashed[c] # 0
                 PROVE  /\ c <= submitted + 1
                        /\ \A i \in 1 .. Len(queue_') : queue_'[i] # Sentinel => c < queue_'[i]
      BY DEF HashedBeforeQueued
    <3>1. c <= submitted /\ c <= submitted + 1 /\ c < submitted + 1
      BY DEF TypeOK, PlaceInv, HashedBeforeQueued, Chunks
    <3> QED
      BY <2>1, <3>1 DEF PlaceInv, HashedBeforeQueued
  <2>6. NothingLost'
    <3> SUFFICES ASSUME NEW c \in Chunks, c <= submitted + 1, hashed[c] # 1,
                        ~ \E w \in Workers : item[w] = c
                 PROVE  \E i \in 1 .. Len(queue_') : queue_'[i] = c
      BY DEF NothingLost
    <3>1. CASE c = submitted + 1
      BY <3>1, <1>q
    <3>2. CASE c # submitted + 1
      <4>1. c <= submitted
        BY <3>2 DEF TypeOK, Chunks
      <4> PICK i \in 1 .. Len(queue_) : queue_[i] = c
        BY <4>1 DEF PlaceInv, NothingLost
      <4>2. i \in 1 .. Len(queue_') /\ queue_'[i] = c
        BY <1>q
      <4> QED
        BY <4>2
    <3> QED
      BY <3>1, <3>2
  <2> QED
    BY <2>2, <2>3, <2>4, <2>5, <2>6 DEF PlaceInv
<1> QED
  BY <1>1, <1>2, <1>3 DEF NoContractFailure

-----------------------------------------------------------------------------
(* Initially and after every step, stuttering included.                    *)
LEMMA InitInv == Init => IInv
<1> SUFFICES ASSUME Init PROVE IInv
  OBVIOUS
<1> USE ThreadCountAssumption, CapacityAssumption, ChunkAssumption DEF Init,
       PoolInit
<1>1. PoolInv
  BY PoolBegins
<1>2. UserInv /\ NoContractFailure
  <2>1. submitted \in 0 .. ChunkCount /\ hashed \in [Chunks -> Nat]
    OBVIOUS
  <2> QED
    BY <2>1 DEF UserInv, NoContractFailure
<1>3. QueueInv
  BY DEF QueueInv, Pushed
<1>4. PlaceInv
  BY DEF PlaceInv, Held, AtMostOnce, HeldFresh, HeldByOne, HeldBeforeQueued,
         HashedBeforeQueued, NothingLost, Workers, Chunks
<1> QED
  BY <1>1, <1>2, <1>3, <1>4 DEF IInv

(* Every step of the pool, its client and its producer keeps it.           *)
LEMMA StepInv == IInv /\ [Next]_vars => IInv'
<1> SUFFICES ASSUME IInv, [Next]_vars PROVE IInv'
  OBVIOUS
<1> USE DEF IInv
<1>s. Push => submitted + 1 \in Chunks /\ Submit(submitted + 1) /\ producer # "finished"
  BY ChunkAssumption DEF Push, UserInv, Chunks
<1>p. PoolInv'
  <2>1. CASE Start \/ RequestStop \/ RequestCancellation \/ Wait
    BY <2>1, PoolStep
    DEF PoolNext, Start, RequestStop, RequestCancellation, Wait, users
  <2>2. CASE Controller /\ UNCHANGED users
    BY <2>2, PoolStep DEF PoolNext, users
  <2>3. CASE Offer \/ StopProducing \/ UNCHANGED vars
    BY <2>3, PoolStep DEF PoolNext, Offer, StopProducing, vars, users, pool
  <2>4. CASE Push
    BY <2>4, <1>s, PoolStep DEF PoolNext
  <2>5. ASSUME NEW w \in Workers, Hash(w) \/ (Worker(w) /\ UNCHANGED users)
        PROVE  PoolInv'
    BY <2>5, PoolStep DEF PoolNext, Hash, users
  <2> QED
    BY <2>1, <2>2, <2>3, <2>4, <2>5 DEF Next
<1>c. ~terminated'
  <2> USE DEF NoContractFailure
  <2>1. CASE Start \/ RequestStop \/ RequestCancellation \/ Wait
    BY <2>1, PoolContracts DEF Start, RequestStop, RequestCancellation, Wait
  <2>2. CASE Controller \/ (\E w \in Workers : Hash(w) \/ Worker(w))
    BY <2>2, PoolContracts DEF Hash
  <2>3. CASE Push
    BY <2>3, <1>s, PoolContracts
  <2>4. CASE Offer \/ StopProducing \/ UNCHANGED vars
    BY <2>4 DEF Offer, StopProducing, vars, pool
  <2> QED
    BY <2>1, <2>2, <2>3, <2>4 DEF Next
<1>w. Pushed \in Nat /\ 2 * ThreadCount \in Nat /\ k \in 1 .. ThreadCount
  BY ThreadCountAssumption DEF PoolInv, PoolType, Workers, Pushed
<1>1. CASE Start \/ RequestStop \/ RequestCancellation \/ Wait
  <2>1. UNCHANGED <<queue_, item, users, terminated>>
    BY <1>1 DEF Start, start, RequestStop, request_stop, RequestCancellation,
       request_cancellation, Wait, wait
  <2>2. Pushed = 0
    BY <1>1 DEF Start, start, RequestStop, request_stop, RequestCancellation,
       request_cancellation, Wait, wait, Pushed
  <2>3. Pushed <= Pushed'
    BY <1>p, <2>2, ThreadCountAssumption DEF PoolInv, PoolType, Workers, Pushed
  <2> QED
    BY <1>p, <1>c, <2>1, <2>3, QuietStep DEF UserInv
<1>2. CASE (Spawn \/ StopThread \/ NudgeTest \/ Join) /\ UNCHANGED users
  <2>1. UNCHANGED <<queue_, item>> /\ terminated' \in BOOLEAN
    BY <1>2 DEF Spawn, StopThread, NudgeTest, Join, UserInv
  <2>2. Pushed <= Pushed'
    <3>1. CASE Spawn \/ StopThread
      <4>1. Pushed = 0
        BY <3>1 DEF Spawn, StopThread, Pushed
      <4>2. Pushed' \in Nat
        BY <1>p, ThreadCountAssumption DEF PoolInv, PoolType, Workers, Pushed
      <4> QED
        BY <4>1, <4>2
    <3>2. CASE NudgeTest
      BY <3>2, <1>w, ThreadCountAssumption DEF NudgeTest, Pushed
    <3>3. CASE Join
      BY <3>3, <1>w, ThreadCountAssumption DEF Join, Advance, Pushed
    <3> QED
      BY <1>2, <3>1, <3>2, <3>3
  <2> QED
    BY <1>2, <1>p, <1>c, <2>1, <2>2, QuietStep
<1>3. CASE (Wake \/ Nudge) /\ UNCHANGED users
  BY <1>3, <1>p, SentinelStep
<1>4. CASE Offer \/ StopProducing
  <2>1. UserInv' /\ QueueInv' /\ PlaceInv'
    BY <1>4
    DEF Offer, StopProducing, pool, UserInv, QueueInv, Pushed, PlaceInv, Held,
        AtMostOnce, HeldFresh, HeldByOne, HeldBeforeQueued,
        HashedBeforeQueued, NothingLost
  <2> QED
    BY <1>p, <1>c, <2>1 DEF NoContractFailure
<1>5. CASE Push
  BY <1>5, <1>p, Typed, PushStep
<1>6. ASSUME NEW w \in Workers, Hash(w)
      PROVE  IInv'
  BY <1>6, <1>p, Typed, HashStep
<1>7. ASSUME NEW w \in Workers, Worker(w), UNCHANGED users
      PROVE  IInv'
  <2>1. CASE LoopTest(w) \/ EndTest(w) \/ DrainEmpty(w) \/ Finish(w)
    <3>1. UNCHANGED <<queue_, item, terminated, ctl, k>>
      BY <2>1 DEF LoopTest, EndTest, DrainEmpty, Finish
    <3>2. Pushed' = Pushed
      BY <3>1 DEF Pushed
    <3> QED
      BY <1>7, <1>p, <1>c, <1>w, <3>1, <3>2, QuietStep DEF UserInv
  <2>2. CASE Pop(w) \/ DrainPop(w)
    BY <1>7, <1>p, <2>2, TakeStep
  <2>3. CASE Woken(w)
    BY <1>7, <1>p, <1>c, <2>3, Typed, WokenStep
  <2> QED
    BY <1>7, <2>1, <2>2, <2>3 DEF Worker
<1>8. CASE UNCHANGED vars
  <2>1. Pushed' = Pushed
    BY <1>8 DEF vars, pool, Pushed
  <2> QED
    BY <1>8, <1>p, <1>c, <1>w, <2>1, QuietStep DEF vars, pool, UserInv
<1> QED
  BY <1>1, <1>2, <1>3, <1>4, <1>5, <1>6, <1>7, <1>8 DEF Next, Controller

(* The invariant holds in every reachable state of the pool.               *)
THEOREM Invariance == Spec => []IInv
  BY InitInv, StepInv, PTL DEF Spec

-----------------------------------------------------------------------------
(* The results.                                                            *)

(* The pool keeps its types.                                               *)
THEOREM TypeCorrectness == Spec => []TypeOK
  BY Typed, Invariance, PTL

(* No Ensures of chunk_processor_base and of run() fails: no worker pops a *)
(* sentinel before its stop request, however the stop and the pops         *)
(* interleave, and wait() finds every done_ flag set.                      *)
THEOREM ContractsHold == Spec => []NoContractFailure
<1>1. IInv => NoContractFailure
  BY DEF IInv
<1> QED
  BY <1>1, Invariance, PTL

(* No chunk is hashed twice, with any number of competing workers, stopped *)
(* or cancelled at any moment.                                             *)
THEOREM HashedAtMostOnce == Spec => []AtMostOnce
<1>1. IInv => AtMostOnce
  BY DEF IInv, PlaceInv
<1> QED
  BY <1>1, Invariance, PTL

(* wait() after request_stop() returns only when every chunk pushed has    *)
(* been hashed exactly once.                                               *)
THEOREM NoChunkLost == Spec => []AllHashed
<1>1. IInv => AllHashed
  <2> SUFFICES ASSUME IInv, ctl = "returned", ~cancelled_,
                      NEW c \in 1 .. submitted
               PROVE  hashed[c] = 1
    BY DEF AllHashed
  <2>1. c \in Chunks /\ c <= submitted /\ c # Sentinel /\ c # NoChunk
    BY ChunkAssumption DEF IInv, UserInv, Chunks
  <2>2. \A w \in Workers : pc[w] = "exited" /\ item[w] = NoChunk
    BY DEF IInv, PoolInv, ControlInv, PoolType
  <2>3. \A i \in 1 .. Len(queue_) : queue_[i] = Sentinel
    BY <2>2, ThreadCountAssumption DEF IInv, PoolInv, DrainInv, Workers
  <2> QED
    BY <2>1, <2>2, <2>3 DEF IInv, PlaceInv, NothingLost
<1> QED
  BY <1>1, Invariance, PTL

(* done() is true, without a cancellation, only when nothing is pending.   *)
THEOREM DoneIsDone == Spec => []DoneMeansDone
<1>1. IInv => DoneMeansDone
  <2> SUFFICES ASSUME IInv, done, ~cancelled_
               PROVE  /\ \A i \in DOMAIN queue_ : queue_[i] = Sentinel
                      /\ \A w \in Workers : item[w] = NoChunk
    BY DEF DoneMeansDone
  <2>1. \A w \in Workers : pc[w] = "exited"
    BY DEF done, IInv, PoolInv, StopInv
  <2>2. \A w \in Workers : item[w] = NoChunk
    BY <2>1 DEF IInv, PoolInv, PoolType
  <2>3. DOMAIN queue_ = 1 .. Len(queue_)
    BY DEF IInv, PoolInv, PoolType
  <2>4. \A i \in 1 .. Len(queue_) : queue_[i] = Sentinel
    BY <2>1, ThreadCountAssumption DEF IInv, PoolInv, DrainInv, Workers
  <2> QED
    BY <2>2, <2>3, <2>4
<1> QED
  BY <1>1, Invariance, PTL

(* With a queue of at least two places per thread (the default is four),   *)
(* wait() after request_stop() is never blocked on a queue that no worker  *)
(* is left to empty.                                                       *)
THEOREM StopCannotBlock ==
    ASSUME Capacity >= 2 * ThreadCount
    PROVE  Spec => []WaitUnblocked
<1>1. IInv => WaitUnblocked
  <2> SUFFICES ASSUME IInv, ctl \in {"waking", "nudge"}, ~cancelled_,
                      \A w \in Workers : pc[w] = "exited"
               PROVE  Len(queue_) < Capacity
    BY DEF WaitUnblocked
  <2>1. \A i \in 1 .. Len(queue_) : queue_[i] = Sentinel
    BY ThreadCountAssumption DEF IInv, PoolInv, DrainInv, Workers
  <2>2. Pushed \in Nat /\ Pushed < 2 * ThreadCount
    BY ThreadCountAssumption DEF Pushed, IInv, PoolInv, PoolType, Workers
  <2>3. Len(queue_) \in Nat
    BY DEF IInv, PoolInv, PoolType
  <2>4. Len(queue_) <= Pushed
    <3> SUFFICES ASSUME Len(queue_) > Pushed PROVE FALSE
      BY <2>2, <2>3
    <3>1. 1 \in 1 .. Len(queue_) /\ 1 <= Len(queue_) - Pushed
      BY <2>2, <2>3
    <3> QED
      BY <2>1, <3>1 DEF IInv, QueueInv
  <2> QED
    BY <2>2, <2>3, <2>4, CapacityAssumption, ThreadCountAssumption
<1> QED
  BY <1>1, Invariance, PTL
=============================================================================

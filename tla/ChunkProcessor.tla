--------------------------- MODULE ChunkProcessor ---------------------------
(***************************************************************************)
(* chunk_processor_base (src/chunk_processor_base.cpp) and the worker loop *)
(* of its subclasses, run() of chunk_hasher_single_buffer and              *)
(* chunk_hasher_multi_buffer: a pool of worker threads that hash the       *)
(* chunks of one bounded work queue, woken at shutdown by sentinel chunks. *)
(*                                                                         *)
(* Three parties take steps: the controller, a thread that calls start,    *)
(* request_stop, request_cancellation and wait; the producer, the thread   *)
(* that pushes chunks; the workers.  A queue operation is one step, which  *)
(* is what ConcurrentQueue promises (AtomicQueue); hash_chunk is one step. *)
(***************************************************************************)
EXTENDS Integers, Sequences, FiniteSets

CONSTANTS
    ThreadCount,    \* thread_count, the size of threads_ and done_
    Capacity,       \* the capacity of the work queue
    ChunkCount,     \* how many chunks the producer has
    Sentinel,       \* the wake-up chunk {UINT32_MAX, UINT32_MAX, nullptr}
    NoChunk         \* a worker's item after item.data.reset()

ASSUME ThreadCountAssumption == ThreadCount \in Nat \ {0}
ASSUME CapacityAssumption == Capacity \in Nat \ {0}
ASSUME ChunkAssumption ==
    /\ ChunkCount \in Nat
    /\ Sentinel \notin Nat /\ NoChunk \notin Nat /\ Sentinel # NoChunk

Workers == 1 .. ThreadCount
Chunks == 1 .. ChunkCount   \* the chunks, in the order they are pushed

VARIABLES
    queue_,         \* the work queue, oldest chunk first
    started_,
    cancelled_,
    stop,           \* [Workers -> stop_requested() of the worker's token]
    done_,          \* [Workers -> BOOLEAN]
    pc,             \* [Workers -> where in run() the worker is]
    item,           \* [Workers -> the chunk the worker holds]
    ctl,            \* where in the member functions the controller is
    k,              \* the loop counter of the member function it is in
    terminated      \* a contract failed: gsl-lite calls std::terminate

pool == <<queue_, started_, cancelled_, stop, done_, pc, item, ctl, k, terminated>>

WorkerPCs == {"unborn", "loop", "popping", "popped", "ending",
              "draining", "drained", "finishing", "exited"}

ControlPCs == {"idle", "starting", "stopping", "waking", "nudging",
               "nudge", "joining", "returned"}

PoolInit ==
    /\ queue_ = <<>>
    /\ started_ = FALSE
    /\ cancelled_ = FALSE
    /\ stop = [w \in Workers |-> FALSE]
    /\ done_ = [w \in Workers |-> FALSE]
    /\ pc = [w \in Workers |-> "unborn"]
    /\ item = [w \in Workers |-> NoChunk]
    /\ ctl = "idle"
    /\ k = 1
    /\ terminated = FALSE

-----------------------------------------------------------------------------
(* The controller.                                                         *)

(* A loop over threads_ ends after the last thread: go on to `next`.       *)
Advance(here, next) ==
    IF k < ThreadCount THEN ctl' = here /\ k' = k + 1
                       ELSE ctl' = next /\ k' = 1

start ==
    /\ ctl = "idle"
    /\ ~terminated
    /\ IF started_ \/ cancelled_
       THEN terminated' = TRUE /\ UNCHANGED ctl
       ELSE ctl' = "starting" /\ UNCHANGED terminated
    /\ UNCHANGED <<queue_, started_, cancelled_, stop, done_, pc, item, k>>

(* done_[k] = false and thread k begins run(); started_ after the last.    *)
Spawn ==
    /\ ctl = "starting"
    /\ ~terminated
    /\ done_' = [done_ EXCEPT ![k] = FALSE]
    /\ pc' = [pc EXCEPT ![k] = "loop"]
    /\ Advance("starting", "idle")
    /\ started_' = (k = ThreadCount)
    /\ UNCHANGED <<queue_, cancelled_, stop, item, terminated>>

request_stop ==
    /\ ctl = "idle"
    /\ ~terminated
    /\ ctl' = "stopping"
    /\ UNCHANGED <<queue_, started_, cancelled_, stop, done_, pc, item, k, terminated>>

request_cancellation ==
    /\ ctl = "idle"
    /\ ~terminated
    /\ cancelled_' = TRUE
    /\ ctl' = "stopping"
    /\ UNCHANGED <<queue_, started_, stop, done_, pc, item, k, terminated>>

StopThread ==
    /\ ctl = "stopping"
    /\ ~terminated
    /\ stop' = [stop EXCEPT ![k] = TRUE]
    /\ Advance("stopping", "idle")
    /\ UNCHANGED <<queue_, started_, cancelled_, done_, pc, item, terminated>>

(* Mutant: done() when any worker is.                                      *)
done_Any == cancelled_ \/ (started_ /\ \E w \in Workers : done_[w])

done == cancelled_ \/ (started_ /\ \A w \in Workers : done_[w])

wait ==
    /\ ctl = "idle"
    /\ ~terminated
    /\ ctl' = IF started_ THEN "waking" ELSE "returned"
    /\ UNCHANGED <<queue_, started_, cancelled_, stop, done_, pc, item, k, terminated>>

(* Mutant: wait() wakes nobody.                                            *)
Wake_Nobody ==
    /\ ctl = "waking"
    /\ ~terminated
    /\ Advance("waking", "nudging")
    /\ UNCHANGED <<queue_, started_, cancelled_, stop, done_, pc, item, terminated>>

(* First loop of wait(): a blocking push of one sentinel per thread.       *)
Wake ==
    /\ ctl = "waking"
    /\ ~terminated
    /\ Len(queue_) < Capacity
    /\ queue_' = Append(queue_, Sentinel)
    /\ Advance("waking", "nudging")
    /\ UNCHANGED <<started_, cancelled_, stop, done_, pc, item, terminated>>

(* Second loop of wait(): while !done(), again a blocking push.            *)
NudgeTest ==
    /\ ctl = "nudging"
    /\ ~terminated
    /\ IF done THEN ctl' = "joining" /\ k' = 1
               ELSE ctl' = "nudge" /\ UNCHANGED k
    /\ UNCHANGED <<queue_, started_, cancelled_, stop, done_, pc, item, terminated>>

(* Mutant: the second loop goes on until done(), however often.            *)
Nudge_Unbounded ==
    /\ ctl = "nudge"
    /\ ~terminated
    /\ Len(queue_) < Capacity
    /\ queue_' = Append(queue_, Sentinel)
    /\ ctl' = "nudging"
    /\ UNCHANGED <<started_, cancelled_, stop, done_, pc, item, k, terminated>>

Nudge ==
    /\ ctl = "nudge"
    /\ ~terminated
    /\ Len(queue_) < Capacity
    /\ queue_' = Append(queue_, Sentinel)
    /\ Advance("nudging", "joining")
    /\ UNCHANGED <<started_, cancelled_, stop, done_, pc, item, terminated>>

(* join() of thread k; after the last, Ensures(every done_ flag is set).   *)
Join ==
    /\ ctl = "joining"
    /\ ~terminated
    /\ pc[k] = "exited"
    /\ Advance("joining", "returned")
    /\ terminated' = (k = ThreadCount /\ \E w \in Workers : ~done_[w])
    /\ UNCHANGED <<queue_, started_, cancelled_, stop, done_, pc, item>>

Controller == Spawn \/ StopThread \/ Wake \/ NudgeTest \/ Nudge \/ Join

-----------------------------------------------------------------------------
(* The workers: run().                                                     *)

(* while (!stop_requested())                                               *)
LoopTest(w) ==
    /\ pc[w] = "loop"
    /\ ~terminated
    /\ pc' = [pc EXCEPT ![w] = IF stop[w] THEN "ending" ELSE "popping"]
    /\ UNCHANGED <<queue_, started_, cancelled_, stop, done_, item, ctl, k, terminated>>

Pop(w) ==
    /\ pc[w] = "popping"
    /\ ~terminated
    /\ queue_ # <<>>
    /\ item' = [item EXCEPT ![w] = Head(queue_)]
    /\ queue_' = Tail(queue_)
    /\ pc' = [pc EXCEPT ![w] = "popped"]
    /\ UNCHANGED <<started_, cancelled_, stop, done_, ctl, k, terminated>>

(* A sentinel: Ensures(stop_requested()), then break.                      *)
Woken(w) ==
    /\ pc[w] = "popped"
    /\ ~terminated
    /\ item[w] = Sentinel
    /\ IF stop[w] THEN pc' = [pc EXCEPT ![w] = "ending"] /\ UNCHANGED terminated
                  ELSE terminated' = TRUE /\ UNCHANGED pc
    /\ item' = [item EXCEPT ![w] = NoChunk]
    /\ UNCHANGED <<queue_, started_, cancelled_, stop, done_, ctl, k>>

(* Mutant: item.data is not reset.                                         *)
HashChunk_Kept(w) ==
    /\ ~terminated
    /\ item[w] # Sentinel
    /\ \/ pc[w] = "popped" /\ pc' = [pc EXCEPT ![w] = "loop"]
       \/ pc[w] = "drained" /\ pc' = [pc EXCEPT ![w] = "draining"]
    /\ UNCHANGED <<queue_, started_, cancelled_, stop, done_, item, ctl, k, terminated>>

(* hash_chunk(item); item.data.reset() -- in the loop or while draining.   *)
HashChunk(w) ==
    /\ ~terminated
    /\ item[w] # Sentinel
    /\ \/ pc[w] = "popped" /\ pc' = [pc EXCEPT ![w] = "loop"]
       \/ pc[w] = "drained" /\ pc' = [pc EXCEPT ![w] = "draining"]
    /\ item' = [item EXCEPT ![w] = NoChunk]
    /\ UNCHANGED <<queue_, started_, cancelled_, stop, done_, ctl, k, terminated>>

(* Mutant: pending work is discarded after a stop too.                     *)
EndTest_Discard(w) ==
    /\ pc[w] = "ending"
    /\ ~terminated
    /\ pc' = [pc EXCEPT ![w] = "finishing"]
    /\ UNCHANGED <<queue_, started_, cancelled_, stop, done_, item, ctl, k, terminated>>

(* Pending work is finished unless the pool is cancelled.                  *)
EndTest(w) ==
    /\ pc[w] = "ending"
    /\ ~terminated
    /\ pc' = [pc EXCEPT ![w] = IF cancelled_ THEN "finishing" ELSE "draining"]
    /\ UNCHANGED <<queue_, started_, cancelled_, stop, done_, item, ctl, k, terminated>>

DrainEmpty(w) ==
    /\ pc[w] = "draining"
    /\ ~terminated
    /\ queue_ = <<>>
    /\ pc' = [pc EXCEPT ![w] = "finishing"]
    /\ UNCHANGED <<queue_, started_, cancelled_, stop, done_, item, ctl, k, terminated>>

(* Mutant: the draining loop looks at the front without removing it.       *)
DrainPop_Peek(w) ==
    /\ pc[w] = "draining"
    /\ ~terminated
    /\ queue_ # <<>>
    /\ IF Head(queue_) = Sentinel
       THEN pc' = [pc EXCEPT ![w] = "finishing"] /\ UNCHANGED item
       ELSE /\ pc' = [pc EXCEPT ![w] = "drained"]
            /\ item' = [item EXCEPT ![w] = Head(queue_)]
    /\ UNCHANGED <<queue_, started_, cancelled_, stop, done_, ctl, k, terminated>>

DrainPop(w) ==
    /\ pc[w] = "draining"
    /\ ~terminated
    /\ queue_ # <<>>
    /\ queue_' = Tail(queue_)
    /\ IF Head(queue_) = Sentinel
       THEN pc' = [pc EXCEPT ![w] = "finishing"] /\ UNCHANGED item
       ELSE /\ pc' = [pc EXCEPT ![w] = "drained"]
            /\ item' = [item EXCEPT ![w] = Head(queue_)]
    /\ UNCHANGED <<started_, cancelled_, stop, done_, ctl, k, terminated>>

(* Mutant: the worker's done_ flag is forgotten.                           *)
Finish_Silent(w) ==
    /\ pc[w] = "finishing"
    /\ ~terminated
    /\ pc' = [pc EXCEPT ![w] = "exited"]
    /\ UNCHANGED <<queue_, started_, cancelled_, stop, done_, item, ctl, k, terminated>>

Finish(w) ==
    /\ pc[w] = "finishing"
    /\ ~terminated
    /\ done_' = [done_ EXCEPT ![w] = TRUE]
    /\ pc' = [pc EXCEPT ![w] = "exited"]
    /\ UNCHANGED <<queue_, started_, cancelled_, stop, item, ctl, k, terminated>>

(* The worker steps that neither submit nor hash a chunk.                  *)
Worker(w) ==
    \/ LoopTest(w) \/ Pop(w) \/ Woken(w) \/ EndTest(w)
    \/ DrainEmpty(w) \/ DrainPop(w) \/ Finish(w)

(* The producer's blocking queue_->push(chunk).                            *)
Submit(c) ==
    /\ ~terminated
    /\ Len(queue_) < Capacity
    /\ queue_' = Append(queue_, c)
    /\ UNCHANGED <<started_, cancelled_, stop, done_, pc, item, ctl, k, terminated>>

-----------------------------------------------------------------------------
(* The pool among its users: a producer that pushes its chunks in order    *)
(* and may stop at any time between two pushes, and a controller that      *)
(* respects the documented order: start first; request_stop only when no   *)
(* chunk will be added any more, request_cancellation at any time; wait    *)
(* once the producer has finished, as storage_hasher::wait and cancel do.  *)

VARIABLES
    producer,       \* "ready", "pushing" the next chunk, or "finished"
    submitted,      \* the number of chunks pushed so far
    hashed          \* [Chunks -> how often hash_chunk was called on it]

users == <<producer, submitted, hashed>>
vars == <<pool, users>>

Init ==
    /\ PoolInit
    /\ producer = "ready"
    /\ submitted = 0
    /\ hashed = [c \in Chunks |-> 0]

Start == start /\ ~started_ /\ ~cancelled_ /\ UNCHANGED users

Offer ==
    /\ started_ /\ ~terminated
    /\ producer = "ready"
    /\ submitted < ChunkCount
    /\ producer' = "pushing"
    /\ UNCHANGED <<pool, submitted, hashed>>

Push ==
    /\ producer = "pushing"
    /\ Submit(submitted + 1)
    /\ submitted' = submitted + 1
    /\ producer' = "ready"
    /\ UNCHANGED hashed

StopProducing ==
    /\ started_ /\ ~terminated
    /\ producer = "ready"
    /\ producer' = "finished"
    /\ UNCHANGED <<pool, submitted, hashed>>

RequestStop ==
    /\ started_ /\ producer = "finished"
    /\ request_stop
    /\ UNCHANGED users

RequestCancellation ==
    /\ started_ /\ ~cancelled_
    /\ request_cancellation
    /\ UNCHANGED users

Wait ==
    /\ producer = "finished"
    /\ \A w \in Workers : stop[w]
    /\ wait
    /\ UNCHANGED users

Hash(w) ==
    /\ HashChunk(w)
    /\ hashed' = [hashed EXCEPT ![item[w]] = @ + 1]
    /\ UNCHANGED <<producer, submitted>>

Next ==
    \/ Start \/ RequestStop \/ RequestCancellation \/ Wait
    \/ Controller /\ UNCHANGED users
    \/ Offer \/ Push \/ StopProducing
    \/ \E w \in Workers : Hash(w) \/ (Worker(w) /\ UNCHANGED users)

Spec == Init /\ [][Next]_vars

(* Every thread that can take a step takes one; the producer ends, and the *)
(* controller, once the producer has, stops and waits.  Nobody has to      *)
(* cancel.                                                                 *)
Fairness ==
    /\ WF_vars(Start) /\ WF_vars(Wait)
    /\ WF_vars(RequestStop /\ \E w \in Workers : ~stop[w])
    /\ WF_vars(Controller /\ UNCHANGED users)
    /\ WF_vars(Push) /\ WF_vars(StopProducing)
    /\ \A w \in Workers : WF_vars(Hash(w) \/ (Worker(w) /\ UNCHANGED users))

FairSpec == Spec /\ Fairness

-----------------------------------------------------------------------------
(* Every variable keeps its type, and a worker holds a chunk exactly       *)
(* between popping it and hashing it.                                      *)
TypeOK ==
    /\ queue_ \in Seq(Chunks \cup {Sentinel})
    /\ started_ \in BOOLEAN
    /\ cancelled_ \in BOOLEAN
    /\ stop \in [Workers -> BOOLEAN]
    /\ done_ \in [Workers -> BOOLEAN]
    /\ pc \in [Workers -> WorkerPCs]
    /\ item \in [Workers -> Chunks \cup {Sentinel, NoChunk}]
    /\ \A w \in Workers : pc[w] \in {"popped", "drained"} <=> item[w] # NoChunk
    /\ ctl \in ControlPCs
    /\ k \in Workers
    /\ terminated \in BOOLEAN
    /\ producer \in {"ready", "pushing", "finished"}
    /\ submitted \in 0 .. ChunkCount
    /\ hashed \in [Chunks -> Nat]

(* No contract of the pool fails: a worker never pops a wake-up before its *)
(* stop request, and after the joins every done_ flag is set.              *)
NoContractFailure == ~terminated

(* No chunk is hashed twice, although every worker takes from one queue in *)
(* two different loops.                                                    *)
AtMostOnce == \A c \in Chunks : hashed[c] <= 1

(* When wait() returns after a stop, every chunk pushed has been hashed:   *)
(* no sentinel makes the workers leave a chunk behind.                     *)
AllHashed ==
    ctl = "returned" /\ ~cancelled_ => \A c \in 1 .. submitted : hashed[c] = 1

(* done() is not premature: without a cancellation it is true only when    *)
(* nothing is queued or in the hands of a worker.                          *)
DoneMeansDone ==
    done /\ ~cancelled_ =>
        /\ \A i \in DOMAIN queue_ : queue_[i] = Sentinel
        /\ \A w \in Workers : item[w] = NoChunk

(* After a stop, wait() blocks only "until all workers finish their        *)
(* execution": once all have exited there is room for its next sentinel.   *)
WaitUnblocked ==
    (ctl \in {"waking", "nudge"} /\ ~cancelled_ /\ \A w \in Workers : pc[w] = "exited")
    => Len(queue_) < Capacity

(* A stopped pool shuts down: wait() returns.                              *)
StopCompletes == (ctl = "waking" /\ ~cancelled_) ~> (ctl = "returned")
=============================================================================

---------------------- MODULE ConcurrentQueueProcessor ----------------------
(***************************************************************************)
(* concurrent_queue_processor<T>                                           *)
(* (include/dottorrent/concurrent_queue_processor.hpp), the thread pool    *)
(* behind the piece writers and the piece verifiers: worker threads apply  *)
(* one work function to the items of a queue of optional<T>; an empty      *)
(* optional only wakes a worker.  A queue operation is one step            *)
(* (AtomicQueue), and so is one call of the work function.                 *)
(***************************************************************************)
EXTENDS Integers, Sequences

CONSTANTS
    ThreadCount,    \* max_concurrency, the size of threads_ and done_
    Capacity,       \* the capacity of the queue
    ItemCount,      \* how many items the producers have
    nullopt,        \* the empty optional
    NoItem          \* a worker's item variable when it holds nothing new

ASSUME ThreadCountAssumption == ThreadCount \in Nat \ {0}
ASSUME CapacityAssumption == Capacity \in Nat \ {0}
ASSUME ItemAssumption ==
    /\ ItemCount \in Nat
    /\ nullopt \notin Nat /\ NoItem \notin Nat /\ nullopt # NoItem

Workers == 1 .. ThreadCount
Items == 1 .. ItemCount     \* the items, in the order they are pushed

VARIABLES
    queue_,         \* the queue, oldest item first
    started_,
    cancelled_,
    stop,           \* [Workers -> stop_requested() of the worker's token]
    done_,          \* [Workers -> BOOLEAN]
    pc,             \* [Workers -> where in run() the worker is]
    item,           \* [Workers -> the item the worker holds]
    ctl,            \* where in the member functions the controller is
    k,              \* the loop counter of the member function it is in
    terminated      \* a contract failed: gsl-lite calls std::terminate

pool == <<queue_, started_, cancelled_, stop, done_, pc, item, ctl, k, terminated>>

WorkerPCs == {"unborn", "loop", "popping", "popped", "ending",
              "draining", "drained", "finishing", "sweeping", "exited"}

ControlPCs == {"idle", "starting", "stopping", "waking", "nudging",
               "nudge", "joining", "returned"}

PoolInit ==
    /\ queue_ = <<>>
    /\ started_ = FALSE
    /\ cancelled_ = FALSE
    /\ stop = [w \in Workers |-> FALSE]
    /\ done_ = [w \in Workers |-> FALSE]
    /\ pc = [w \in Workers |-> "unborn"]
    /\ item = [w \in Workers |-> NoItem]
    /\ ctl = "idle"
    /\ k = 1
    /\ terminated = FALSE

-----------------------------------------------------------------------------
(* The controller.                                                         *)

Advance(here, next) ==
    IF k < ThreadCount THEN ctl' = here /\ k' = k + 1
                       ELSE ctl' = next /\ k' = 1

(* start(): Ensures(!started()), Ensures(!cancelled()), then the threads.  *)
start ==
    /\ ctl = "idle"
    /\ ~terminated
    /\ IF started_ \/ cancelled_
       THEN terminated' = TRUE /\ UNCHANGED ctl
       ELSE ctl' = "starting" /\ UNCHANGED terminated
    /\ UNCHANGED <<queue_, started_, cancelled_, stop, done_, pc, item, k>>

Spawn ==
    /\ ctl = "starting"
    /\ ~terminated
    /\ done_' = [done_ EXCEPT ![k] = FALSE]
    /\ pc' = [pc EXCEPT ![k] = "loop"]
    /\ Advance("starting", "idle")
    /\ started_' = (k = ThreadCount)
    /\ UNCHANGED <<queue_, cancelled_, stop, item, terminated>>

request_stop ==
    /\ ctl = "idle"
    /\ ~terminated
    /\ ctl' = "stopping"
    /\ UNCHANGED <<queue_, started_, cancelled_, stop, done_, pc, item, k, terminated>>

request_cancellation ==
    /\ ctl = "idle"
    /\ ~terminated
    /\ cancelled_' = TRUE
    /\ ctl' = "stopping"
    /\ UNCHANGED <<queue_, started_, stop, done_, pc, item, k, terminated>>

StopThread ==
    /\ ctl = "stopping"
    /\ ~terminated
    /\ stop' = [stop EXCEPT ![k] = TRUE]
    /\ Advance("stopping", "idle")
    /\ UNCHANGED <<queue_, started_, cancelled_, done_, pc, item, terminated>>

(* Mutant: done() as soon as every worker has been asked to stop.          *)
done_Stopped == cancelled_ \/ (started_ /\ \A w \in Workers : stop[w])

done == cancelled_ \/ (started_ /\ \A w \in Workers : done_[w])

wait ==
    /\ ctl = "idle"
    /\ ~terminated
    /\ ctl' = IF started_ THEN "waking" ELSE "returned"
    /\ UNCHANGED <<queue_, started_, cancelled_, stop, done_, pc, item, k, terminated>>

(* Mutant: wait() wakes nobody.                                            *)
Wake_Nobody ==
    /\ ctl = "waking"
    /\ ~terminated
    /\ Advance("waking", "joining")
    /\ UNCHANGED <<queue_, started_, cancelled_, stop, done_, pc, item, terminated>>

(* First loop of wait(): a blocking push of nullopt per thread.            *)
Wake ==
    /\ ctl = "waking"
    /\ ~terminated
    /\ Len(queue_) < Capacity
    /\ queue_' = Append(queue_, nullopt)
    /\ Advance("waking", "nudging")
    /\ UNCHANGED <<started_, cancelled_, stop, done_, pc, item, terminated>>

(* Second loop of wait(): while !done(), a try_push of nullopt.            *)
NudgeTest ==
    /\ ctl = "nudging"
    /\ ~terminated
    /\ IF done THEN ctl' = "joining" /\ k' = 1
               ELSE ctl' = "nudge" /\ UNCHANGED k
    /\ UNCHANGED <<queue_, started_, cancelled_, stop, done_, pc, item, terminated>>

Nudge ==
    /\ ctl = "nudge"
    /\ ~terminated
    /\ queue_' = IF Len(queue_) = Capacity THEN queue_ ELSE Append(queue_, nullopt)
    /\ Advance("nudging", "joining")
    /\ UNCHANGED <<started_, cancelled_, stop, done_, pc, item, terminated>>

(* join() of thread k; after the last, Expects(done()).                    *)
Join ==
    /\ ctl = "joining"
    /\ ~terminated
    /\ pc[k] = "exited"
    /\ Advance("joining", "returned")
    /\ terminated' = (k = ThreadCount /\ ~done)
    /\ UNCHANGED <<queue_, started_, cancelled_, stop, done_, pc, item>>

Controller == Spawn \/ StopThread \/ Wake \/ NudgeTest \/ Nudge \/ Join

-----------------------------------------------------------------------------
(* The workers: run().                                                     *)

(* while (!stop_requested())                                               *)
LoopTest(w) ==
    /\ pc[w] = "loop"
    /\ ~terminated
    /\ pc' = [pc EXCEPT ![w] = IF stop[w] THEN "ending" ELSE "popping"]
    /\ UNCHANGED <<queue_, started_, cancelled_, stop, done_, item, ctl, k, terminated>>

(* Mutant: the newest item is taken first.                                 *)
Pop_Newest(w) ==
    /\ pc[w] = "popping"
    /\ ~terminated
    /\ queue_ # <<>>
    /\ queue_' = SubSeq(queue_, 1, Len(queue_) - 1)
    /\ IF queue_[Len(queue_)] = nullopt
       THEN pc' = [pc EXCEPT ![w] = "loop"] /\ UNCHANGED item
       ELSE /\ pc' = [pc EXCEPT ![w] = "popped"]
            /\ item' = [item EXCEPT ![w] = queue_[Len(queue_)]]
    /\ UNCHANGED <<started_, cancelled_, stop, done_, ctl, k, terminated>>

(* A nullopt is skipped: back to the test of the stop token.               *)
Pop(w) ==
    /\ pc[w] = "popping"
    /\ ~terminated
    /\ queue_ # <<>>
    /\ queue_' = Tail(queue_)
    /\ IF Head(queue_) = nullopt
       THEN pc' = [pc EXCEPT ![w] = "loop"] /\ UNCHANGED item
       ELSE /\ pc' = [pc EXCEPT ![w] = "popped"]
            /\ item' = [item EXCEPT ![w] = Head(queue_)]
    /\ UNCHANGED <<started_, cancelled_, stop, done_, ctl, k, terminated>>

(* Mutant: the item outlives the call of the work function.                *)
Invoke_Kept(w) ==
    /\ ~terminated
    /\ \/ pc[w] = "popped" /\ pc' = [pc EXCEPT ![w] = "loop"]
       \/ pc[w] = "drained" /\ pc' = [pc EXCEPT ![w] = "draining"]
    /\ UNCHANGED <<queue_, started_, cancelled_, stop, done_, item, ctl, k, terminated>>

(* std::invoke(work_function_, *item), in the loop or while draining.      *)
Invoke(w) ==
    /\ ~terminated
    /\ \/ pc[w] = "popped" /\ pc' = [pc EXCEPT ![w] = "loop"]
       \/ pc[w] = "drained" /\ pc' = [pc EXCEPT ![w] = "draining"]
    /\ item' = [item EXCEPT ![w] = NoItem]
    /\ UNCHANGED <<queue_, started_, cancelled_, stop, done_, ctl, k, terminated>>

(* Mutant: pending work is discarded after a stop too.                     *)
EndTest_Discard(w) ==
    /\ pc[w] = "ending"
    /\ ~terminated
    /\ pc' = [pc EXCEPT ![w] = "finishing"]
    /\ UNCHANGED <<queue_, started_, cancelled_, stop, done_, item, ctl, k, terminated>>

EndTest(w) ==
    /\ pc[w] = "ending"
    /\ ~terminated
    /\ pc' = [pc EXCEPT ![w] = IF cancelled_ THEN "finishing" ELSE "draining"]
    /\ UNCHANGED <<queue_, started_, cancelled_, stop, done_, item, ctl, k, terminated>>

DrainEmpty(w) ==
    /\ pc[w] = "draining"
    /\ ~terminated
    /\ queue_ = <<>>
    /\ pc' = [pc EXCEPT ![w] = "finishing"]
    /\ UNCHANGED <<queue_, started_, cancelled_, stop, done_, item, ctl, k, terminated>>

(* Mutant: the draining loop drops what it pops.                           *)
DrainPop_Drop(w) ==
    /\ pc[w] = "draining"
    /\ ~terminated
    /\ queue_ # <<>>
    /\ queue_' = Tail(queue_)
    /\ pc' = [pc EXCEPT ![w] = IF Head(queue_) = nullopt THEN "finishing" ELSE "draining"]
    /\ UNCHANGED <<started_, cancelled_, stop, done_, item, ctl, k, terminated>>

DrainPop(w) ==
    /\ pc[w] = "draining"
    /\ ~terminated
    /\ queue_ # <<>>
    /\ queue_' = Tail(queue_)
    /\ IF Head(queue_) = nullopt
       THEN pc' = [pc EXCEPT ![w] = "finishing"] /\ UNCHANGED item
       ELSE /\ pc' = [pc EXCEPT ![w] = "drained"]
            /\ item' = [item EXCEPT ![w] = Head(queue_)]
    /\ UNCHANGED <<started_, cancelled_, stop, done_, ctl, k, terminated>>

Finish(w) ==
    /\ pc[w] = "finishing"
    /\ ~terminated
    /\ done_' = [done_ EXCEPT ![w] = TRUE]
    /\ pc' = [pc EXCEPT ![w] = "sweeping"]
    /\ UNCHANGED <<queue_, started_, cancelled_, stop, item, ctl, k, terminated>>

(* "Remaining pieces should all be empty": until the queue is empty, pop   *)
(* and Ensures(!item.has_value()).                                         *)
Sweep(w) ==
    /\ pc[w] = "sweeping"
    /\ ~terminated
    /\ \/ /\ queue_ = <<>>
          /\ pc' = [pc EXCEPT ![w] = "exited"]
          /\ UNCHANGED <<queue_, terminated>>
       \/ /\ queue_ # <<>>
          /\ queue_' = Tail(queue_)
          /\ terminated' = (Head(queue_) # nullopt)
          /\ UNCHANGED pc
    /\ UNCHANGED <<started_, cancelled_, stop, done_, item, ctl, k>>

Worker(w) ==
    \/ LoopTest(w) \/ Pop(w) \/ EndTest(w) \/ DrainEmpty(w)
    \/ DrainPop(w) \/ Finish(w) \/ Sweep(w)

(* A producer's blocking push(item).                                       *)
Submit(x) ==
    /\ ~terminated
    /\ Len(queue_) < Capacity
    /\ queue_' = Append(queue_, x)
    /\ UNCHANGED <<started_, cancelled_, stop, done_, pc, item, ctl, k, terminated>>

-----------------------------------------------------------------------------
(* The pool among its users, who keep the documented order: no item is     *)
(* added after request_stop(); request_cancellation() may come at any      *)
(* time; wait() follows either, once the producers have finished (the      *)
(* hash workers are joined before the writer is waited for).               *)

VARIABLES
    producing,      \* whether more items may be pushed
    submitted,      \* the number of items pushed so far
    handled         \* [Items -> how often the work function got the item]

users == <<producing, submitted, handled>>
vars == <<pool, users>>

Init ==
    /\ PoolInit
    /\ producing = TRUE
    /\ submitted = 0
    /\ handled = [x \in Items |-> 0]

Start == start /\ ~started_ /\ ~cancelled_ /\ UNCHANGED users

Push ==
    /\ started_ /\ producing
    /\ submitted < ItemCount
    /\ Submit(submitted + 1)
    /\ submitted' = submitted + 1
    /\ UNCHANGED <<producing, handled>>

StopProducing ==
    /\ started_ /\ ~terminated
    /\ producing
    /\ producing' = FALSE
    /\ UNCHANGED <<pool, submitted, handled>>

RequestStop ==
    /\ started_ /\ ~producing
    /\ request_stop
    /\ UNCHANGED users

RequestCancellation ==
    /\ started_ /\ ~cancelled_
    /\ request_cancellation
    /\ UNCHANGED users

Wait ==
    /\ ~producing
    /\ \A w \in Workers : stop[w]
    /\ wait
    /\ UNCHANGED users

Handle(w) ==
    /\ Invoke(w)
    /\ handled' = [handled EXCEPT ![item[w]] = @ + 1]
    /\ UNCHANGED <<producing, submitted>>

Next ==
    \/ Start \/ RequestStop \/ RequestCancellation \/ Wait
    \/ Controller /\ UNCHANGED users
    \/ Push \/ StopProducing
    \/ \E w \in Workers : Handle(w) \/ (Worker(w) /\ UNCHANGED users)

Spec == Init /\ [][Next]_vars

(* Every thread that can take a step takes one; the producers end, and     *)
(* then the controller stops and waits.  Nobody has to cancel.             *)
Fairness ==
    /\ WF_vars(Start) /\ WF_vars(Wait) /\ WF_vars(StopProducing)
    /\ WF_vars(RequestStop /\ \E w \in Workers : ~stop[w])
    /\ WF_vars(Controller /\ UNCHANGED users)
    /\ \A w \in Workers : WF_vars(Handle(w) \/ (Worker(w) /\ UNCHANGED users))

FairSpec == Spec /\ Fairness

-----------------------------------------------------------------------------
(* Every variable keeps its type, and a worker holds an item exactly       *)
(* between popping it and handing it to the work function.                 *)
TypeOK ==
    /\ queue_ \in Seq(Items \cup {nullopt})
    /\ started_ \in BOOLEAN
    /\ cancelled_ \in BOOLEAN
    /\ stop \in [Workers -> BOOLEAN]
    /\ done_ \in [Workers -> BOOLEAN]
    /\ pc \in [Workers -> WorkerPCs]
    /\ item \in [Workers -> Items \cup {NoItem}]
    /\ \A w \in Workers : pc[w] \in {"popped", "drained"} <=> item[w] # NoItem
    /\ ctl \in ControlPCs
    /\ k \in Workers
    /\ terminated \in BOOLEAN
    /\ producing \in BOOLEAN
    /\ submitted \in 0 .. ItemCount
    /\ handled \in [Items -> Nat]

(* No contract of a stopped pool fails: what run() finds in the queue      *)
(* after its done_ flag is set is only wake-ups, and wait() ends done().   *)
StopIsClean == ~cancelled_ => ~terminated

(* No item reaches the work function twice.                                *)
AtMostOnce == \A x \in Items : handled[x] <= 1

(* When wait() returns after a stop, the work function has had every item. *)
AllHandled ==
    ctl = "returned" /\ ~cancelled_ => \A x \in 1 .. submitted : handled[x] = 1

(* A single worker applies the work function in the order of the pushes:   *)
(* an item is handled once, and only after all the earlier ones.           *)
InOrder ==
    /\ AtMostOnce
    /\ ThreadCount = 1 =>
        \A x \in Items : handled[x] > 0 => \A y \in 1 .. x : handled[y] > 0

(* done() is not premature, although done_ is set before the last sweep.   *)
DoneMeansDone ==
    done /\ ~cancelled_ =>
        /\ \A i \in DOMAIN queue_ : queue_[i] = nullopt
        /\ \A w \in Workers : item[w] = NoItem

(* A stopped pool shuts down: wait() blocks until all workers finish their *)
(* execution, and returns.                                                 *)
StopCompletes == (ctl = "waking" /\ ~cancelled_) ~> (ctl = "returned")
=============================================================================

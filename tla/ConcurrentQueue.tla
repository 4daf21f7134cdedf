-------------------------- MODULE ConcurrentQueue --------------------------
(***************************************************************************)
(* concurrent_queue<T> (include/dottorrent/concurrent_queue.hpp): a        *)
(* bounded FIFO guarded by one mutex and two condition variables.          *)
(*                                                                         *)
(* A call is a sequence of steps of its thread: Lock acquires mutex_; one  *)
(* of the critical sections runs; a critical section that changed the      *)
(* queue releases mutex_ and only then notifies (Notify), so other threads *)
(* run between the change and the notification.  A thread whose wait       *)
(* predicate is false joins the waiters of the condition variable and      *)
(* releases mutex_ in one step, and reacquires mutex_ after a notification *)
(* or a spurious wake-up.                                                  *)
(***************************************************************************)
EXTENDS Integers, Sequences, FiniteSets

CONSTANTS
    Threads,        \* the threads that share the queue
    Requests,       \* [Threads -> set of calls [op, arg] the thread makes]
    Capacity,       \* the capacity given to the constructor
    NoCall,         \* the call of a thread that is outside the queue
    NoItem,         \* no item delivered
    NoThread        \* the owner of a free mutex

Ops == {"push", "try_push", "pop", "try_pop", "size", "set_capacity"}

ASSUME ThreadAssumption == NoThread \notin Threads
ASSUME CapacityAssumption == Capacity \in Nat \ {0}
ASSUME RequestAssumption ==
    \A t \in Threads : \A r \in Requests[t] :
        /\ r # NoCall
        /\ r.op \in Ops
        /\ r.op = "set_capacity" => r.arg \in Nat

VARIABLES
    queue_,         \* the items in the queue, oldest first
    capacity_,      \* the capacity in force
    mutex_,         \* the thread that holds the mutex, or NoThread
    not_empty_,     \* the threads waiting on condition variable not_empty_
    not_full_,      \* the threads waiting on condition variable not_full_
    pc,             \* [Threads -> where in the call the thread is]
    call,           \* [Threads -> the call the thread is in, or NoCall]
    item,           \* [Threads -> what the pop in progress has delivered]
    ret             \* [Threads -> the bool (0 or 1) or the size to return]

vars == <<queue_, capacity_, mutex_, not_empty_, not_full_, pc, call, item, ret>>

(* "waiting": blocked in condition_variable::wait or just woken from it.   *)
PCs == {"idle", "entering", "critical", "waiting", "notify", "returning"}

Init ==
    /\ queue_ = <<>>
    /\ capacity_ = Capacity
    /\ mutex_ = NoThread
    /\ not_empty_ = {}
    /\ not_full_ = {}
    /\ pc = [t \in Threads |-> "idle"]
    /\ call = [t \in Threads |-> NoCall]
    /\ item = [t \in Threads |-> NoItem]
    /\ ret = [t \in Threads |-> 0]

Call(t) ==
    /\ pc[t] = "idle"
    /\ \E r \in Requests[t] : call' = [call EXCEPT ![t] = r]
    /\ pc' = [pc EXCEPT ![t] = "entering"]
    /\ UNCHANGED <<queue_, capacity_, mutex_, not_empty_, not_full_, item, ret>>

(* std::unique_lock's constructor, and the reacquisition inside wait.      *)
Lock(t) ==
    /\ \/ pc[t] = "entering"
       \/ pc[t] = "waiting" /\ t \notin not_empty_ \cup not_full_
    /\ mutex_ = NoThread
    /\ mutex_' = t
    /\ pc' = [pc EXCEPT ![t] = "critical"]
    /\ UNCHANGED <<queue_, capacity_, not_empty_, not_full_, call, item, ret>>

(* A waiter may wake without a notification; it rechecks its predicate.    *)
SpuriousWakeup(t) ==
    /\ t \in not_empty_ \cup not_full_
    /\ not_empty_' = not_empty_ \ {t}
    /\ not_full_' = not_full_ \ {t}
    /\ UNCHANGED <<queue_, capacity_, mutex_, pc, call, item, ret>>

-----------------------------------------------------------------------------
(* The critical sections: t holds mutex_ and gives it up.                  *)

InCritical(t, ops) == pc[t] = "critical" /\ call[t].op \in ops

Leave(t, next) ==
    /\ mutex_' = NoThread
    /\ pc' = [pc EXCEPT ![t] = next]
    /\ UNCHANGED call

push_wait(t) ==
    /\ InCritical(t, {"push"})
    /\ ~(Len(queue_) < capacity_)
    /\ not_full_' = not_full_ \cup {t}
    /\ Leave(t, "waiting")
    /\ UNCHANGED <<queue_, capacity_, not_empty_, item, ret>>

(* Mutant: the predicate of the wait lets one item too many in.            *)
push_OffByOne(t) ==
    /\ InCritical(t, {"push"})
    /\ Len(queue_) <= capacity_
    /\ queue_' = Append(queue_, call[t].arg)
    /\ ret' = [ret EXCEPT ![t] = 1]
    /\ Leave(t, "notify")
    /\ UNCHANGED <<capacity_, not_empty_, not_full_, item>>

push(t) ==
    /\ InCritical(t, {"push"})
    /\ Len(queue_) < capacity_
    /\ queue_' = Append(queue_, call[t].arg)
    /\ ret' = [ret EXCEPT ![t] = 1]
    /\ Leave(t, "notify")
    /\ UNCHANGED <<capacity_, not_empty_, not_full_, item>>

try_push(t) ==
    /\ InCritical(t, {"try_push"})
    /\ \/ /\ Len(queue_) = capacity_
          /\ ret' = [ret EXCEPT ![t] = 0]
          /\ Leave(t, "returning")
          /\ UNCHANGED queue_
       \/ /\ Len(queue_) # capacity_
          /\ queue_' = Append(queue_, call[t].arg)
          /\ ret' = [ret EXCEPT ![t] = 1]
          /\ Leave(t, "notify")
    /\ UNCHANGED <<capacity_, not_empty_, not_full_, item>>

pop_wait(t) ==
    /\ InCritical(t, {"pop"})
    /\ queue_ = <<>>
    /\ not_empty_' = not_empty_ \cup {t}
    /\ Leave(t, "waiting")
    /\ UNCHANGED <<queue_, capacity_, not_full_, item, ret>>

(* Mutant: the front is copied and not removed.                            *)
TakeFront_Peek(t) ==
    /\ queue_ # <<>>
    /\ item' = [item EXCEPT ![t] = Head(queue_)]
    /\ ret' = [ret EXCEPT ![t] = 1]
    /\ Leave(t, "notify")
    /\ UNCHANGED queue_

TakeFront(t) ==
    /\ queue_ # <<>>
    /\ item' = [item EXCEPT ![t] = Head(queue_)]
    /\ queue_' = Tail(queue_)
    /\ ret' = [ret EXCEPT ![t] = 1]
    /\ Leave(t, "notify")

pop(t) ==
    /\ InCritical(t, {"pop"})
    /\ TakeFront(t)
    /\ UNCHANGED <<capacity_, not_empty_, not_full_>>

try_pop(t) ==
    /\ InCritical(t, {"try_pop"})
    /\ \/ /\ queue_ = <<>>
          /\ ret' = [ret EXCEPT ![t] = 0]
          /\ Leave(t, "returning")
          /\ UNCHANGED <<queue_, item>>
       \/ TakeFront(t)
    /\ UNCHANGED <<capacity_, not_empty_, not_full_>>

size(t) ==
    /\ InCritical(t, {"size"})
    /\ ret' = [ret EXCEPT ![t] = Len(queue_)]
    /\ Leave(t, "returning")
    /\ UNCHANGED <<queue_, capacity_, not_empty_, not_full_, item>>

(* The capacity changes under the mutex; nobody is notified.               *)
set_capacity(t) ==
    /\ InCritical(t, {"set_capacity"})
    /\ capacity_' = call[t].arg
    /\ Leave(t, "returning")
    /\ UNCHANGED <<queue_, not_empty_, not_full_, item, ret>>

-----------------------------------------------------------------------------
(* notify_all, after the mutex has been released: every waiter of the      *)
(* condition variable wakes.                                               *)

(* Mutant: a push notifies the wrong condition variable.                   *)
NotifyNotEmpty_Swapped(t) ==
    /\ call[t].op \in {"push", "try_push"}
    /\ not_full_' = {}
    /\ UNCHANGED not_empty_

NotifyNotEmpty(t) ==
    /\ call[t].op \in {"push", "try_push"}
    /\ not_empty_' = {}
    /\ UNCHANGED not_full_

(* Mutant: a pop notifies nobody.                                          *)
NotifyNotFull_Forgotten(t) ==
    /\ call[t].op \in {"pop", "try_pop"}
    /\ UNCHANGED <<not_empty_, not_full_>>

NotifyNotFull(t) ==
    /\ call[t].op \in {"pop", "try_pop"}
    /\ not_full_' = {}
    /\ UNCHANGED not_empty_

Notify(t) ==
    /\ pc[t] = "notify"
    /\ NotifyNotEmpty(t) \/ NotifyNotFull(t)
    /\ pc' = [pc EXCEPT ![t] = "returning"]
    /\ UNCHANGED <<queue_, capacity_, mutex_, call, item, ret>>

(* Mutant: the call is still recorded after it has returned.               *)
Return_Uncleared(t) ==
    /\ pc[t] = "returning"
    /\ pc' = [pc EXCEPT ![t] = "idle"]
    /\ item' = [item EXCEPT ![t] = NoItem]
    /\ ret' = [ret EXCEPT ![t] = 0]
    /\ UNCHANGED <<queue_, capacity_, mutex_, not_empty_, not_full_, call>>

(* The caller takes the results: item and ret are cleared.                 *)
Return(t) ==
    /\ pc[t] = "returning"
    /\ pc' = [pc EXCEPT ![t] = "idle"]
    /\ call' = [call EXCEPT ![t] = NoCall]
    /\ item' = [item EXCEPT ![t] = NoItem]
    /\ ret' = [ret EXCEPT ![t] = 0]
    /\ UNCHANGED <<queue_, capacity_, mutex_, not_empty_, not_full_>>

Critical(t) ==
    \/ push(t) \/ push_wait(t) \/ try_push(t)
    \/ pop(t) \/ pop_wait(t) \/ try_pop(t)
    \/ size(t) \/ set_capacity(t)

Next ==
    \E t \in Threads :
        \/ Call(t) \/ Lock(t) \/ Critical(t)
        \/ Notify(t) \/ Return(t) \/ SpuriousWakeup(t)

Spec == Init /\ [][Next]_vars

(* A thread inside a call keeps running; a thread that keeps asking for    *)
(* the mutex gets it (no starvation by the operating system).  Nobody has  *)
(* to make a call, and no waiter has to wake spuriously.                   *)
Fairness ==
    \A t \in Threads :
        /\ SF_vars(Lock(t))
        /\ WF_vars(Critical(t) \/ Notify(t) \/ Return(t))

FairSpec == Spec /\ Fairness

-----------------------------------------------------------------------------
Items == {r.arg : r \in UNION {Requests[t] : t \in Threads}}

(* Every variable keeps its type: the waiters are threads, a thread is     *)
(* outside the queue exactly when it has no call.                          *)
TypeOK ==
    /\ queue_ \in Seq(Items)
    /\ capacity_ \in Nat
    /\ mutex_ \in Threads \cup {NoThread}
    /\ not_empty_ \subseteq Threads
    /\ not_full_ \subseteq Threads
    /\ pc \in [Threads -> PCs]
    /\ DOMAIN call = Threads
    /\ \A t \in Threads : pc[t] = "idle" => call[t] = NoCall
    /\ \A t \in Threads : pc[t] # "idle" => call[t] \in Requests[t]
    /\ DOMAIN item = Threads
    /\ ret \in [Threads -> Nat]

(* The mutex protects every critical section: whoever is inside owns it,   *)
(* and waiting on a condition variable gives it up.                        *)
MutexHeld ==
    \A t \in Threads : pc[t] = "critical" <=> mutex_ = t

NeverResized ==
    \A t \in Threads : \A r \in Requests[t] : r.op # "set_capacity"

(* The queue never holds more than its capacity as long as set_capacity    *)
(* is not used, whatever mix of push and try_push filled it.               *)
CapacityRespected ==
    NeverResized => Len(queue_) <= Capacity

(* No lost wake-up of a consumer: while a thread waits on not_empty_ and   *)
(* there is an item, some thread is on its way to notify not_empty_.       *)
NoLostItem ==
    not_empty_ # {} /\ queue_ # <<>> =>
        \E t \in Threads : pc[t] = "notify" /\ call[t].op \in {"push", "try_push"}

(* No lost wake-up of a producer: while a thread waits on not_full_ and    *)
(* there is room, some thread is on its way to notify not_full_.           *)
NoLostRoom ==
    not_full_ # {} /\ Len(queue_) < capacity_ =>
        \E t \in Threads : pc[t] = "notify" /\ call[t].op \in {"pop", "try_pop"}

(* The mapping to the promise: a call has taken effect once its critical   *)
(* section has run to its end.                                             *)
Promise == INSTANCE AtomicQueue WITH
    queue <- queue_,
    capacity <- capacity_,
    effective <- [t \in Threads |-> pc[t] \in {"notify", "returning"}]

(* concurrent_queue is linearizable: every call takes effect once, in one  *)
(* step between its call and its return.                                   *)
Linearizable == Promise!Spec

(* No call waits for ever on something that stays possible (a push while   *)
(* there is room, a pop while there are items, every other call at once),  *)
(* and every call that took effect returns.                                *)
Responsive == Promise!Fairness
=============================================================================

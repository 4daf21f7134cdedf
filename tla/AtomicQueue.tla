---------------------------- MODULE AtomicQueue ----------------------------
(***************************************************************************)
(* What concurrent_queue<T> promises to the threads that share it: every   *)
(* call takes effect exactly once, in one indivisible step, somewhere      *)
(* between the call and its return; push and pop take effect only when     *)
(* there is room or an item.  ConcurrentQueue implements this module.      *)
(***************************************************************************)
EXTENDS Integers, Sequences

CONSTANTS
    Threads,        \* the threads that share the queue
    Requests,       \* [Threads -> set of calls [op, arg] the thread makes]
    Capacity,       \* the capacity given to the constructor
    NoCall,         \* the call of a thread that is outside the queue
    NoItem          \* no item delivered

VARIABLES
    queue,          \* the items in the queue, oldest first
    capacity,       \* the capacity in force
    call,           \* [Threads -> the call the thread is in, or NoCall]
    effective,      \* [Threads -> whether that call has taken effect]
    item,           \* [Threads -> what the pop in progress has delivered]
    ret             \* [Threads -> what the call in progress will return]

vars == <<queue, capacity, call, effective, item, ret>>

Init ==
    /\ queue = <<>>
    /\ capacity = Capacity
    /\ call = [t \in Threads |-> NoCall]
    /\ effective = [t \in Threads |-> FALSE]
    /\ item = [t \in Threads |-> NoItem]
    /\ ret = [t \in Threads |-> 0]

Call(t) ==
    /\ call[t] = NoCall
    /\ \E r \in Requests[t] : call' = [call EXCEPT ![t] = r]
    /\ UNCHANGED <<queue, capacity, effective, item, ret>>

Enqueue(t) ==
    /\ queue' = Append(queue, call[t].arg)
    /\ ret' = [ret EXCEPT ![t] = 1]
    /\ UNCHANGED <<capacity, item>>

Dequeue(t) ==
    /\ queue # <<>>
    /\ queue' = Tail(queue)
    /\ item' = [item EXCEPT ![t] = Head(queue)]
    /\ ret' = [ret EXCEPT ![t] = 1]
    /\ UNCHANGED capacity

Refuse(t) ==
    /\ ret' = [ret EXCEPT ![t] = 0]
    /\ UNCHANGED <<queue, capacity, item>>

Effect(t) ==
    /\ call[t] # NoCall
    /\ ~effective[t]
    /\ \/ call[t].op = "push" /\ Len(queue) < capacity /\ Enqueue(t)
       \/ call[t].op = "try_push" /\ Len(queue) # capacity /\ Enqueue(t)
       \/ call[t].op = "try_push" /\ Len(queue) = capacity /\ Refuse(t)
       \/ call[t].op \in {"pop", "try_pop"} /\ Dequeue(t)
       \/ call[t].op = "try_pop" /\ queue = <<>> /\ Refuse(t)
       \/ /\ call[t].op = "size"
          /\ ret' = [ret EXCEPT ![t] = Len(queue)]
          /\ UNCHANGED <<queue, capacity, item>>
       \/ /\ call[t].op = "set_capacity"
          /\ capacity' = call[t].arg
          /\ UNCHANGED <<queue, item, ret>>
    /\ effective' = [effective EXCEPT ![t] = TRUE]
    /\ UNCHANGED call

Return(t) ==
    /\ call[t] # NoCall
    /\ effective[t]
    /\ call' = [call EXCEPT ![t] = NoCall]
    /\ effective' = [effective EXCEPT ![t] = FALSE]
    /\ item' = [item EXCEPT ![t] = NoItem]
    /\ ret' = [ret EXCEPT ![t] = 0]
    /\ UNCHANGED <<queue, capacity>>

Next == \E t \in Threads : Call(t) \/ Effect(t) \/ Return(t)

Spec == Init /\ [][Next]_vars

(* A call whose effect stays possible takes effect, and then returns.      *)
Fairness ==
    \A t \in Threads : WF_vars(Effect(t)) /\ WF_vars(Return(t))
=============================================================================

----------------------- MODULE ConcurrentQueueProofs -----------------------
(***************************************************************************)
(* The safety of ConcurrentQueue, for any threads, calls and capacity: it  *)
(* implements AtomicQueue, and no wake-up is lost.                         *)
(***************************************************************************)
EXTENDS ConcurrentQueue, QueueLemmas, TLAPS

-----------------------------------------------------------------------------
(* The inductive invariant: who waits where, and in which call.            *)

WaiterInv ==
    /\ \A t \in not_empty_ : pc[t] = "waiting" /\ call[t].op = "pop"
    /\ \A t \in not_full_ : pc[t] = "waiting" /\ call[t].op = "push"

NotifierInv ==
    \A t \in Threads : pc[t] = "notify" =>
        call[t].op \in {"push", "try_push", "pop", "try_pop"}

ResizeInv ==
    NeverResized => /\ capacity_ = Capacity
                    /\ Len(queue_) <= Capacity
                    /\ NoLostRoom

IInv ==
    /\ TypeOK
    /\ MutexHeld
    /\ WaiterInv
    /\ NotifierInv
    /\ NoLostItem
    /\ ResizeInv

(* What a call enqueues is one of the items.                               *)
LEMMA ArgIsItem ==
    ASSUME TypeOK, NEW t \in Threads, pc[t] # "idle"
    PROVE  call[t].arg \in Items
  BY DEF TypeOK, Items

(* The types.                                                              *)
LEMMA TypeStep ==
    ASSUME IInv, [Next]_vars
    PROVE  TypeOK'
<1> USE ThreadAssumption, CapacityAssumption, RequestAssumption DEF IInv,
       TypeOK, PCs
<1>1. ASSUME NEW t \in Threads, Call(t) PROVE TypeOK'
  BY <1>1 DEF Call
<1>2. ASSUME NEW t \in Threads, Lock(t) PROVE TypeOK'
  BY <1>2 DEF Lock, WaiterInv
<1>3. ASSUME NEW t \in Threads, push(t) PROVE TypeOK'
  <2>1. queue_' \in Seq(Items)
    BY <1>3, ArgIsItem, AppendFacts DEF push, InCritical
  <2> QED
    BY <1>3, <2>1 DEF push, InCritical, Leave
<1>4. ASSUME NEW t \in Threads, push_wait(t) PROVE TypeOK'
  BY <1>4 DEF push_wait, InCritical, Leave
<1>5. ASSUME NEW t \in Threads, try_push(t) PROVE TypeOK'
  <2>a. Append(queue_, call[t].arg) \in Seq(Items)
    BY <1>5, ArgIsItem, AppendFacts DEF try_push, InCritical
  <2>1. queue_' \in Seq(Items)
    BY <1>5, <2>a DEF try_push
  <2>2. ret' \in [Threads -> Nat]
    BY <1>5, SMTT(30) DEF try_push
  <2> QED
    BY <1>5, <2>1, <2>2, ZenonT(60) DEF try_push, InCritical, Leave
<1>6. ASSUME NEW t \in Threads, pop(t) PROVE TypeOK'
  <2>1. queue_' \in Seq(Items)
    BY <1>6, TailFacts DEF pop, TakeFront
  <2> QED
    BY <1>6, <2>1 DEF pop, TakeFront, InCritical, Leave
<1>7. ASSUME NEW t \in Threads, pop_wait(t) PROVE TypeOK'
  BY <1>7 DEF pop_wait, InCritical, Leave
<1>8. ASSUME NEW t \in Threads, try_pop(t) PROVE TypeOK'
  <2>a. queue_ # <<>> => Tail(queue_) \in Seq(Items)
    BY TailFacts
  <2>1. queue_' \in Seq(Items)
    BY <1>8, <2>a DEF try_pop, TakeFront
  <2>2. ret' \in [Threads -> Nat]
    BY <1>8 DEF try_pop, TakeFront
  <2> QED
    BY <1>8, <2>1, <2>2, ZenonT(60) DEF try_pop, TakeFront, InCritical, Leave
<1>9. ASSUME NEW t \in Threads, size(t) PROVE TypeOK'
  BY <1>9 DEF size, InCritical, Leave
<1>10. ASSUME NEW t \in Threads, set_capacity(t) PROVE TypeOK'
  BY <1>10 DEF set_capacity, InCritical, Leave
<1>11. ASSUME NEW t \in Threads, Notify(t) PROVE TypeOK'
  BY <1>11 DEF Notify, NotifyNotEmpty, NotifyNotFull
<1>12. ASSUME NEW t \in Threads, Return(t) PROVE TypeOK'
  BY <1>12 DEF Return
<1>13. ASSUME NEW t \in Threads, SpuriousWakeup(t) PROVE TypeOK'
  BY <1>13 DEF SpuriousWakeup
<1>14. CASE UNCHANGED vars
  BY <1>14 DEF vars
<1> QED
  BY <1>1, <1>2, <1>3, <1>4, <1>5, <1>6, <1>7, <1>8, <1>9, <1>10, <1>11,
     <1>12, <1>13, <1>14
  DEF Next, Critical

(* The rest of the invariant, one action at a time.                        *)
InvRest == MutexHeld /\ WaiterInv /\ NotifierInv /\ NoLostItem /\ ResizeInv

(* Outside the critical sections the queue does not change, and whoever    *)
(* was about to notify still is, unless it has just notified.              *)
LEMMA OutsideStep ==
    ASSUME IInv, NEW t \in Threads,
           Call(t) \/ Lock(t) \/ Return(t) \/ SpuriousWakeup(t) \/ Notify(t)
    PROVE  InvRest'
<1> USE ThreadAssumption, RequestAssumption DEF IInv, TypeOK, PCs
<1>1. MutexHeld'
  BY DEF MutexHeld, Call, Lock, Return, SpuriousWakeup, Notify,
     NotifyNotEmpty, NotifyNotFull
<1>2. WaiterInv'
  BY DEF WaiterInv, Call, Lock, Return, SpuriousWakeup, Notify,
     NotifyNotEmpty, NotifyNotFull
<1>3. NotifierInv'
  BY DEF NotifierInv, Call, Lock, Return, SpuriousWakeup, Notify
<1>4. NoLostItem'
  BY DEF NoLostItem, Call, Lock, Return, SpuriousWakeup, Notify,
     NotifyNotEmpty, NotifyNotFull
<1>5. UNCHANGED <<capacity_, queue_>>
  BY DEF Call, Lock, Return, SpuriousWakeup, Notify
<1>6. ASSUME NeverResized PROVE NoLostRoom'
  <2>1. NoLostRoom
    BY <1>6 DEF ResizeInv
  <2> QED
    BY <2>1, <1>5
    DEF NoLostRoom, Call, Lock, Return, SpuriousWakeup, Notify,
       NotifyNotEmpty, NotifyNotFull
<1>7. ResizeInv'
  BY <1>5, <1>6 DEF ResizeInv, NeverResized
<1> QED
  BY <1>1, <1>2, <1>3, <1>4, <1>7 DEF InvRest

(* In a critical section the mutex keeps everybody else out.               *)
LEMMA CriticalStep ==
    ASSUME IInv, NEW t \in Threads, Critical(t)
    PROVE  InvRest'
<1> USE ThreadAssumption, RequestAssumption, CapacityAssumption DEF IInv,
       TypeOK, PCs
<1>1. pc[t] = "critical" /\ mutex_' = NoThread /\ UNCHANGED call
  BY DEF Critical, push, push_wait, try_push, pop, pop_wait, try_pop, size,
         set_capacity, InCritical, Leave, TakeFront
<1>2. PICK p \in {"waiting", "notify", "returning"} : pc' = [pc EXCEPT ![t] = p]
  BY DEF Critical, push, push_wait, try_push, pop, pop_wait, try_pop, size,
         set_capacity, Leave, TakeFront
<1>3. MutexHeld'
  BY <1>1, <1>2 DEF MutexHeld
<1>4. WaiterInv'
  BY <1>1 DEF WaiterInv, Critical, push, push_wait, try_push, pop, pop_wait,
     try_pop, size, set_capacity, InCritical, Leave, TakeFront
<1>5. NotifierInv'
  BY <1>1 DEF NotifierInv, Critical, push, push_wait, try_push, pop, pop_wait,
     try_pop, size, set_capacity, InCritical, Leave, TakeFront
<1>6. ASSUME NEW u \in Threads, pc[u] = "notify" PROVE u # t /\ pc'[u] = "notify"
  BY <1>1, <1>2, <1>6
<1>7. NoLostItem'
  <2>1. CASE push(t) \/ (try_push(t) /\ Len(queue_) # capacity_)
    <3>1. pc'[t] = "notify" /\ call'[t].op \in {"push", "try_push"}
      BY <2>1 DEF push, try_push, InCritical, Leave
    <3> QED
      BY <3>1 DEF NoLostItem
  <2>2. CASE pop_wait(t)
    BY <2>2 DEF pop_wait, NoLostItem
  <2>3. CASE pop(t) \/ try_pop(t)
    <3>1. queue_' # <<>> => queue_ # <<>>
      BY <2>3 DEF pop, try_pop, TakeFront
    <3>2. UNCHANGED not_empty_
      BY <2>3 DEF pop, try_pop
    <3> QED
      BY <1>1, <1>6, <3>1, <3>2 DEF NoLostItem
  <2>4. CASE \/ push_wait(t) \/ size(t) \/ set_capacity(t)
             \/ (try_push(t) /\ Len(queue_) = capacity_)
    <3>1. UNCHANGED <<not_empty_, queue_>>
      BY <2>4 DEF push_wait, size, set_capacity, try_push
    <3> QED
      BY <1>1, <1>6, <3>1 DEF NoLostItem
  <2> QED
    BY <2>1, <2>2, <2>3, <2>4 DEF Critical
<1>8. ASSUME NeverResized
      PROVE  capacity_' = Capacity /\ Len(queue_') <= Capacity /\ NoLostRoom'
  <2>0. capacity_ = Capacity /\ Len(queue_) <= Capacity /\ NoLostRoom /\ Len(queue_) \in Nat
    BY <1>8 DEF ResizeInv
  <2>1. CASE push(t) \/ (try_push(t) /\ Len(queue_) # capacity_)
    <3>1. UNCHANGED <<capacity_, not_full_>> /\ Len(queue_) < Capacity
      BY <2>0, <2>1 DEF push, try_push
    <3>2. Len(queue_') = Len(queue_) + 1
      BY <2>1, <1>1, ArgIsItem, AppendFacts DEF push, try_push
    <3> QED
      BY <2>0, <3>1, <3>2, <1>1, <1>6 DEF NoLostRoom
  <2>2. CASE push_wait(t)
    BY <2>0, <2>2 DEF push_wait, NoLostRoom
  <2>3. CASE queue_ # <<>> /\ (pop(t) \/ try_pop(t))
    <3>1. UNCHANGED capacity_ /\ queue_' = Tail(queue_)
      BY <2>3 DEF pop, try_pop, TakeFront
    <3>2. pc'[t] = "notify" /\ call'[t].op \in {"pop", "try_pop"}
      BY <2>3 DEF pop, try_pop, TakeFront, InCritical, Leave
    <3>3. Len(queue_') = Len(queue_) - 1
      BY <2>3, <3>1, TailFacts
    <3> QED
      BY <2>0, <3>1, <3>2, <3>3 DEF NoLostRoom
  <2>4. CASE \/ size(t) \/ pop_wait(t) \/ (try_pop(t) /\ queue_ = <<>>)
             \/ (try_push(t) /\ Len(queue_) = capacity_)
    <3>1. UNCHANGED <<not_full_, queue_, capacity_>>
      BY <2>4 DEF pop_wait, size, try_pop, try_push, TakeFront
    <3> QED
      BY <2>0, <1>1, <1>6, <3>1 DEF NoLostRoom
  <2>5. ~set_capacity(t)
    BY <1>1, <1>8 DEF set_capacity, InCritical, NeverResized
  <2>6. pop(t) => queue_ # <<>>
    BY DEF pop, TakeFront
  <2> QED
    BY <2>1, <2>2, <2>3, <2>4, <2>5, <2>6 DEF Critical
<1>9. ResizeInv'
  BY <1>8 DEF ResizeInv, NeverResized
<1> QED
  BY <1>3, <1>4, <1>5, <1>7, <1>9 DEF InvRest

(* The queue begins in a state IInv describes.                             *)
LEMMA InitInv == Init => IInv
<1> SUFFICES ASSUME Init PROVE IInv
  OBVIOUS
<1>1. TypeOK
  BY CapacityAssumption DEF Init, TypeOK, PCs
<1>2. MutexHeld /\ WaiterInv /\ NotifierInv /\ NoLostItem
  BY ThreadAssumption DEF Init, MutexHeld, WaiterInv, NotifierInv, NoLostItem
<1>3. ResizeInv
  BY CapacityAssumption DEF Init, ResizeInv, NoLostRoom
<1> QED
  BY <1>1, <1>2, <1>3 DEF IInv

(* Every step of every thread keeps it.                                    *)
LEMMA StepInv == IInv /\ [Next]_vars => IInv'
<1> SUFFICES ASSUME IInv, [Next]_vars PROVE IInv'
  OBVIOUS
<1>1. CASE UNCHANGED vars
  BY <1>1 DEF vars, IInv, TypeOK, MutexHeld, WaiterInv, NotifierInv, NoLostItem,
     ResizeInv, NeverResized, NoLostRoom
<1>2. CASE Next
  <2>1. InvRest'
    BY <1>2, OutsideStep, CriticalStep DEF Next
  <2> QED
    BY <1>2, <2>1, TypeStep DEF IInv, InvRest
<1> QED
  BY <1>1, <1>2

(* The invariant holds in every reachable state of the queue.              *)
THEOREM Invariance == Spec => []IInv
  BY InitInv, StepInv, PTL DEF Spec

-----------------------------------------------------------------------------
(* The results.                                                            *)

(* The queue keeps its types.                                              *)
THEOREM TypeCorrectness == Spec => []TypeOK
<1>1. IInv => TypeOK
  BY DEF IInv
<1> QED
  BY <1>1, Invariance, PTL

(* Whoever is in a critical section holds the mutex, and nobody else.      *)
THEOREM MutualExclusion == Spec => []MutexHeld
<1>1. IInv => MutexHeld
  BY DEF IInv
<1> QED
  BY <1>1, Invariance, PTL

(* Without set_capacity the queue never exceeds its capacity.              *)
THEOREM CapacityHolds == Spec => []CapacityRespected
<1>1. IInv => CapacityRespected
  BY DEF IInv, ResizeInv, CapacityRespected
<1> QED
  BY <1>1, Invariance, PTL

(* A consumer never sleeps on a non-empty queue with nobody about to wake  *)
(* it, although push notifies after releasing the mutex.                   *)
THEOREM NoItemLost == Spec => []NoLostItem
<1>1. IInv => NoLostItem
  BY DEF IInv
<1> QED
  BY <1>1, Invariance, PTL

(* Without set_capacity a producer never sleeps on a queue with room with  *)
(* nobody about to wake it.                                                *)
THEOREM NoRoomLost == ASSUME NeverResized PROVE Spec => []NoLostRoom
<1>1. IInv => NoLostRoom
  BY DEF IInv, ResizeInv
<1> QED
  BY <1>1, Invariance, PTL

-----------------------------------------------------------------------------
(* Refinement: a call takes effect in the step that ends its critical      *)
(* section; locking, waiting and notifying are invisible.                  *)

(* The steps that change no variable of the promise.                       *)
LEMMA Invisible ==
    ASSUME IInv, NEW t \in Threads,
           Lock(t) \/ Notify(t) \/ SpuriousWakeup(t) \/ push_wait(t) \/ pop_wait(t)
    PROVE  UNCHANGED Promise!vars
<1>1. UNCHANGED <<queue_, capacity_, call, item, ret>>
  BY DEF Lock, Notify, SpuriousWakeup, push_wait, pop_wait, Leave
<1>2. \A u \in Threads : pc'[u] \in {"notify", "returning"} <=> pc[u] \in {"notify", "returning"}
  BY DEF IInv, TypeOK, Lock, Notify, SpuriousWakeup, push_wait, pop_wait,
     Leave, InCritical
<1> QED
  BY <1>1, <1>2 DEF Promise!vars

(* The end of a critical section is the effect of the call.                *)
LEMMA Visible ==
    ASSUME IInv, NEW t \in Threads,
           push(t) \/ try_push(t) \/ pop(t) \/ try_pop(t) \/ size(t) \/ set_capacity(t)
    PROVE  Promise!Effect(t)
<1> DEFINE effective == [u \in Threads |-> pc[u] \in {"notify", "returning"}]
<1>1. /\ pc[t] = "critical" /\ UNCHANGED call
      /\ \E p \in {"notify", "returning"} : pc' = [pc EXCEPT ![t] = p]
  BY DEF push, try_push, pop, try_pop, size, set_capacity, InCritical, Leave,
     TakeFront
<1>2. call[t] # NoCall /\ call[t].op \in Ops
  BY <1>1, RequestAssumption DEF IInv, TypeOK
<1>3. ~effective[t] /\ effective' = [effective EXCEPT ![t] = TRUE]
  BY <1>1 DEF IInv, TypeOK
<1>4. CASE push(t)
  BY <1>1, <1>2, <1>3, <1>4 DEF push, InCritical, Promise!Effect,
     Promise!Enqueue
<1>5. CASE try_push(t)
  BY <1>1, <1>2, <1>3, <1>5
  DEF try_push, InCritical, Promise!Effect, Promise!Enqueue, Promise!Refuse
<1>6. CASE pop(t)
  BY <1>1, <1>2, <1>3, <1>6 DEF pop, TakeFront, InCritical, Promise!Effect,
     Promise!Dequeue
<1>7. CASE try_pop(t)
  BY <1>1, <1>2, <1>3, <1>7
  DEF try_pop, TakeFront, InCritical, Promise!Effect, Promise!Dequeue,
     Promise!Refuse
<1>8. CASE size(t)
  BY <1>1, <1>2, <1>3, <1>8 DEF size, InCritical, Promise!Effect
<1>9. CASE set_capacity(t)
  BY <1>1, <1>2, <1>3, <1>9 DEF set_capacity, InCritical, Promise!Effect
<1> QED
  BY <1>4, <1>5, <1>6, <1>7, <1>8, <1>9

(* concurrent_queue is linearizable: ConcurrentQueue implements            *)
(* AtomicQueue.                                                            *)
THEOREM Refinement == Spec => Linearizable
<1> DEFINE effective == [t \in Threads |-> pc[t] \in {"notify", "returning"}]
<1>1. Init => Promise!Init
  <2> SUFFICES ASSUME Init PROVE Promise!Init
    OBVIOUS
  <2>1. \A t \in Threads : (pc[t] \in {"notify", "returning"}) = FALSE
    BY DEF Init
  <2>2. effective = [t \in Threads |-> FALSE]
    BY <2>1, Zenon
  <2> QED
    BY <2>2 DEF Init, Promise!Init
<1>2. IInv /\ [Next]_vars => [Promise!Next]_(Promise!vars)
  <2> SUFFICES ASSUME IInv, [Next]_vars
               PROVE  Promise!Next \/ UNCHANGED Promise!vars
    OBVIOUS
  <2>1. ASSUME NEW t \in Threads, Call(t) PROVE Promise!Call(t)
    <3>1. \A u \in Threads : (pc'[u] \in {"notify", "returning"}) = (pc[u] \in {"notify", "returning"})
      BY <2>1 DEF Call, IInv, TypeOK
    <3>2. effective' = effective
      BY <3>1, Zenon
    <3> QED
      BY <2>1, <3>2 DEF Call, IInv, TypeOK, Promise!Call
  <2>2. ASSUME NEW t \in Threads, Return(t) PROVE Promise!Return(t)
    <3>1. call[t] # NoCall
      BY <2>2, RequestAssumption DEF Return, IInv, TypeOK
    <3>2. pc' = [pc EXCEPT ![t] = "idle"] /\ pc \in [Threads -> PCs]
      BY <2>2 DEF Return, IInv, TypeOK
    <3>a. ASSUME NEW u \in Threads, u # t PROVE pc'[u] = pc[u]
      BY <3>a, <3>2
    <3>b. (pc'[t] \in {"notify", "returning"}) = FALSE
      <4>1. pc'[t] = "idle"
        BY <3>2
      <4> QED
        BY <4>1
    <3>3. effective' = [effective EXCEPT ![t] = FALSE]
      BY <3>a, <3>b, Zenon
    <3>4. effective[t]
      BY <2>2 DEF Return
    <3> QED
      BY <2>2, <3>1, <3>3, <3>4 DEF Return, Promise!Return
  <2>3. CASE UNCHANGED vars
    BY <2>3 DEF vars, Promise!vars
  <2> QED
    BY <2>1, <2>2, <2>3, Visible, Invisible DEF Next, Critical, Promise!Next
<1> QED
  BY <1>1, <1>2, Invariance, PTL DEF Spec, Linearizable, Promise!Spec
=============================================================================

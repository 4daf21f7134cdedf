------------------------- MODULE MCConcurrentQueue -------------------------
(* TLC instances of ConcurrentQueue.                                       *)
EXTENDS ConcurrentQueue, TLC

CONSTANTS p1, p2, c1, c2, x, y

Req(op, arg) == [op |-> op, arg |-> arg]

(* Two producers and two consumers, blocking and non-blocking calls.       *)
MCRequests == (p1 :> {Req("push", x)})
           @@ (p2 :> {Req("push", y), Req("try_push", y)})
           @@ (c1 :> {Req("pop", NoItem)})
           @@ (c2 :> {Req("pop", NoItem), Req("try_pop", NoItem)})

(* Producers and a consumer while another thread shrinks the queue; none   *)
(* uses try_push, whose test == would let the queue grow without bound.    *)
MCResizeRequests == (p1 :> {Req("push", x)})
                 @@ (p2 :> {Req("push", y)})
                 @@ (c1 :> {Req("pop", NoItem), Req("try_pop", NoItem)})
                 @@ (c2 :> {Req("set_capacity", 1), Req("size", NoItem)})
=============================================================================

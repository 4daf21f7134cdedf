------------------------ MODULE StorageHasherProofs ------------------------
(***************************************************************************)
(* The safety of StorageHasher for every number of threads and chunks,     *)
(* every capacity and every way the client may call wait() and cancel().   *)
(* The invariant has four parts: PoolInv of each of the three pools, from  *)
(* their own proofs; how far the client has come with its calls and what   *)
(* that says of the pools (ClientInv, StageInv); where every chunk is and  *)
(* what was done with it (PlaceInv); who owns the buffers (BufferInv).     *)
(***************************************************************************)
EXTENDS StorageHasher, QueueLemmas, FiniteSetTheorems, TLAPS

-----------------------------------------------------------------------------
(* The pools with their proofs.  The reader feeds the hash workers and the *)
(* checksum worker; the hash workers feed the piece writer.                *)

HP == INSTANCE ChunkProcessorProofs WITH
    queue_ <- h_queue, started_ <- h_started, cancelled_ <- h_cancelled,
    stop <- h_stop, done_ <- h_done, pc <- h_pc, item <- h_item,
    ctl <- h_ctl, k <- h_k,
    producer <- IF reader = "exited" THEN "finished" ELSE "ready",
    submitted <- next

SP == INSTANCE ChunkProcessorProofs WITH
    ThreadCount <- 1,
    queue_ <- s_queue, started_ <- s_started, cancelled_ <- s_cancelled,
    stop <- s_stop, done_ <- s_done, pc <- s_pc, item <- s_item,
    ctl <- s_ctl, k <- s_k,
    producer <- IF reader = "exited" THEN "finished" ELSE "ready",
    submitted <- next, hashed <- summed

WP == INSTANCE ConcurrentQueueProcessorProofs WITH
    ThreadCount <- 1, Capacity <- Unlimited, ItemCount <- ChunkCount,
    nullopt <- Sentinel, NoItem <- NoChunk,
    queue_ <- w_queue, started_ <- w_started, cancelled_ <- w_cancelled,
    stop <- w_stop, done_ <- w_done, pc <- w_pc, item <- w_item,
    ctl <- w_ctl, k <- w_k,
    producing <- ~(\A v \in H!Workers : h_pc[v] = "exited"),
    submitted <- next, handled <- written

PoolsInv == HP!PoolInv /\ SP!PoolInv /\ WP!PoolInv

-----------------------------------------------------------------------------
(* The client: the calls that are left are in their order.                 *)

StartNames == {"w.start", "h.start", "s.start", "r.start"}

CancelNames ==
    {"r.request_cancellation", "h.request_cancellation",
     "s.request_cancellation", "w.request_cancellation"}

StopNames ==
    {"h.request_stop", "s.request_stop", "w.request_stop",
     "h.expects_done", "w.expects_done"}

WaitNames == {"r.wait", "h.wait", "s.wait", "w.wait"}

CallNames == StartNames \cup CancelNames \cup StopNames \cup WaitNames

Rank(c) ==
    CASE c \in {"w.start", "r.request_cancellation"} -> 1
      [] c \in {"h.start", "h.request_cancellation"} -> 2
      [] c \in {"s.start", "s.request_cancellation"} -> 3
      [] c \in {"r.start", "w.request_cancellation"} -> 4
      [] c = "r.wait" -> 5
      [] c = "h.request_stop" -> 6
      [] c = "s.request_stop" -> 7
      [] c = "h.wait" -> 8
      [] c = "h.expects_done" -> 9
      [] c = "s.wait" -> 10
      [] c = "w.request_stop" -> 11
      [] c = "w.wait" -> 12
      [] c = "w.expects_done" -> 13

Pending(c) == \E i \in 1 .. Len(todo) : todo[i] = c

ClientInv ==
    /\ calling \in {"", "start", "wait", "cancel"}
    /\ started_ \in BOOLEAN /\ stopped_ \in BOOLEAN /\ cancelled_ \in BOOLEAN
    /\ todo \in Seq(CallNames)
    /\ \A i, j \in 1 .. Len(todo) : i < j => Rank(todo[i]) < Rank(todo[j])
    /\ \A c \in StartNames : Pending(c) => calling = "start"
    /\ \A c \in CancelNames : Pending(c) => calling = "cancel"
    /\ \A c \in StopNames : Pending(c) => calling = "wait"
    /\ \A c \in WaitNames : Pending(c) => calling \in {"wait", "cancel"}
    /\ \A c \in {"s.start", "s.request_cancellation", "s.request_stop", "s.wait"} :
          Pending(c) => WithChecksum
    /\ calling = "start" => ~started_ /\ ~cancelled_
    /\ calling \in {"wait", "cancel"} => started_ /\ ~cancelled_ /\ ~stopped_
    /\ stopped_ => started_ /\ calling = ""
    /\ cancelled_ /\ started_ => stopped_

(* What the client has not, or has, called on the member x of the names    *)
(* "x.start", "x.request_stop", "x.request_cancellation" and "x.wait".     *)
Fresh(startx) == ~started_ /\ (calling = "start" => Pending(startx))

Asked(stopx, cancelx) ==
    \/ stopped_
    \/ calling = "wait" /\ ~Pending(stopx)
    \/ calling = "cancel" /\ ~Pending(cancelx)

Waited(waitx) == stopped_ \/ (calling \in {"wait", "cancel"} /\ ~Pending(waitx))

WaitPCs == {"waking", "nudging", "nudge", "joining", "returned"}

(* A member is new until it is started, runs until it is asked to stop and *)
(* is waited for last.                                                     *)
Stage(fresh, asked, waited, begun, cancelled, stop, ctl, i) ==
    /\ fresh => ~begun /\ ~cancelled /\ ctl = "idle"
    /\ ~fresh => begun \/ ctl = "starting"
    /\ ctl = "starting" => calling = "start"
    /\ ctl = "stopping" => \A v \in 1 .. i - 1 : stop[v]
    /\ asked => ctl = "stopping" \/ \A v \in DOMAIN stop : stop[v]
    /\ waited => ctl \in WaitPCs
    /\ stopped_ => ctl = "returned"
    /\ cancelled => Cancelling

HStage ==
    Stage(Fresh("h.start"), Asked("h.request_stop", "h.request_cancellation"),
          Waited("h.wait"), h_started, h_cancelled, h_stop, h_ctl, h_k)

SStage ==
    IF WithChecksum
    THEN Stage(Fresh("s.start"), Asked("s.request_stop", "s.request_cancellation"),
               Waited("s.wait"), s_started, s_cancelled, s_stop, s_ctl, s_k)
    ELSE ~s_started /\ ~s_cancelled /\ s_ctl = "idle"

WStage ==
    Stage(Fresh("w.start"), Asked("w.request_stop", "w.request_cancellation"),
          Waited("w.wait"), w_started, w_cancelled, w_stop, w_ctl, w_k)

(* The reader thread begins with reader_->start() and has ended once       *)
(* reader_->wait() has returned.                                           *)
RStage ==
    /\ Fresh("r.start") => reader = "unborn"
    /\ Waited("r.wait") => reader = "exited"
    /\ r_cancelled => Cancelling

StageInv == HStage /\ SStage /\ WStage /\ RStage

-----------------------------------------------------------------------------
(* The chunks.                                                             *)

HHolds(c) == Holds(h_queue, h_item, c)
SHolds(c) == Holds(s_queue, s_item, c)
WHolds(c) == Holds(w_queue, w_item, c)

(* The chunks the reader has pushed, or skipped, to the one queue and to   *)
(* the other.                                                              *)
Pushed(c) == c < next \/ (c = next /\ reader \in {"push2", "drop"})
PushedS(c) == c < next \/ (c = next /\ reader = "drop")

ReaderInv ==
    /\ reader \in {"unborn", "get", "get2", "read", "push", "push2",
                   "drop", "end", "exited"}
    /\ r_cancelled \in BOOLEAN
    /\ terminated \in BOOLEAN
    /\ next \in 1 .. ChunkCount + 1
    /\ piece_index_ \in 0 .. next - 1
    /\ reader \in {"push", "push2", "drop"} => next \in Chunks
    /\ reader \in {"end", "exited"} => next = ChunkCount + 1
    /\ reader = "push2" => WithChecksum

(* No chunk is twice in a pool; a chunk comes to the hash workers before   *)
(* it is hashed, to the writer after it was hashed and before it is        *)
(* written, and leaves each of them with its work done.                    *)
PlaceInv ==
    /\ Once(h_queue, h_item, Chunks)
    /\ Once(s_queue, s_item, Chunks)
    /\ Once(w_queue, w_item, Chunks)
    /\ hashed \in [Chunks -> {0, 1}]
    /\ summed \in [Chunks -> {0, 1}]
    /\ written \in [Chunks -> {0, 1}]
    /\ \A c \in Chunks : HHolds(c) => Pushed(c) /\ hashed[c] = 0
    /\ \A c \in Chunks : hashed[c] = 1 => Pushed(c)
    /\ \A c \in Chunks : SHolds(c) => WithChecksum /\ PushedS(c) /\ summed[c] = 0
    /\ \A c \in Chunks : summed[c] = 1 => PushedS(c)
    /\ \A c \in Chunks : WHolds(c) => /\ hashed[c] = 1 /\ written[c] = 0
                                     /\ c \notin NullChunks
    /\ \A c \in Chunks : written[c] = 1 => hashed[c] = 1 /\ c \notin NullChunks

(* Without a cancellation no chunk is skipped or lost between the stages.  *)
LossInv ==
    ~Cancelling =>
        /\ piece_index_ = next - 1
        /\ \A c \in Chunks :
              /\ Pushed(c) => hashed[c] = 1 \/ HHolds(c)
              /\ hashed[c] = 1 /\ c \notin NullChunks => written[c] = 1 \/ WHolds(c)
              /\ WithChecksum /\ PushedS(c) => summed[c] = 1 \/ SHolds(c)

(* A shared_ptr to the buffer of a chunk is held by the reader, in or      *)
(* behind the hash queue, in or behind the checksum queue.                 *)
One(b) == IF b THEN 1 ELSE 0

RefsInv ==
    /\ refs \in [Chunks -> 0 .. 3]
    /\ \A c \in Chunks :
          refs[c] = IF c \in NullChunks THEN 0
                    ELSE One(c = next /\ reader \in {"push2", "drop"})
                         + One(HHolds(c)) + One(SHolds(c))

InUse == {c \in Chunks : refs[c] > 0}

BufferInv ==
    /\ free \in Nat /\ resources_left \in Nat
    /\ free + resources_left + ReaderBuffers + Cardinality(InUse) = Capacity

-----------------------------------------------------------------------------
IInv ==
    /\ PoolsInv
    /\ ClientInv
    /\ StageInv
    /\ ReaderInv
    /\ PlaceInv
    /\ LossInv
    /\ RefsInv
    /\ BufferInv

-----------------------------------------------------------------------------
(* The assumptions of the pools' proofs hold of the pools here.            *)
LEMMA PoolAssumptions ==
    /\ HP!ThreadCountAssumption /\ HP!CapacityAssumption /\ HP!ChunkAssumption
    /\ SP!ThreadCountAssumption /\ SP!CapacityAssumption /\ SP!ChunkAssumption
    /\ WP!ThreadCountAssumption /\ WP!CapacityAssumption /\ WP!ItemAssumption
  BY StorageAssumption
  DEF HP!ThreadCountAssumption, HP!CapacityAssumption, HP!ChunkAssumption,
      SP!ThreadCountAssumption, SP!CapacityAssumption, SP!ChunkAssumption,
      WP!ThreadCountAssumption, WP!CapacityAssumption, WP!ItemAssumption

(* The pools of StorageHasher and those of the proofs take the same steps. *)
LEMMA HasherSame ==
    /\ H!Workers = HP!Workers /\ HP!Chunks = Chunks
    /\ H!start <=> HP!start
    /\ H!request_stop <=> HP!request_stop
    /\ H!request_cancellation <=> HP!request_cancellation
    /\ H!wait <=> HP!wait
    /\ H!done <=> HP!done
    /\ H!Controller <=> HP!Controller
    /\ \A w \in H!Workers : H!Worker(w) <=> HP!Worker(w)
    /\ \A w \in H!Workers : H!HashChunk(w) <=> HP!HashChunk(w)
    /\ \A c \in Chunks : H!Submit(c) <=> HP!Submit(c)
  BY DEF H!Workers, HP!Workers, H!Chunks, HP!Chunks, H!start, HP!start,
      H!request_stop, HP!request_stop, H!request_cancellation,
      HP!request_cancellation, H!wait, HP!wait, H!done, HP!done,
      H!Controller, HP!Controller, H!Spawn, HP!Spawn, H!StopThread,
      HP!StopThread, H!Wake, HP!Wake, H!NudgeTest, HP!NudgeTest, H!Nudge,
      HP!Nudge, H!Join, HP!Join, H!Advance, HP!Advance, H!Worker,
      HP!Worker, H!LoopTest, HP!LoopTest, H!Pop, HP!Pop, H!Woken, HP!Woken,
      H!EndTest, HP!EndTest, H!DrainEmpty, HP!DrainEmpty, H!DrainPop,
      HP!DrainPop, H!Finish, HP!Finish, H!HashChunk, HP!HashChunk,
      H!Submit, HP!Submit, Chunks

(* The same for the checksum worker.                                       *)
LEMMA ChecksumSame ==
    /\ S!Workers = SP!Workers /\ SP!Chunks = Chunks
    /\ S!start <=> SP!start
    /\ S!request_stop <=> SP!request_stop
    /\ S!request_cancellation <=> SP!request_cancellation
    /\ S!wait <=> SP!wait
    /\ S!done <=> SP!done
    /\ S!Controller <=> SP!Controller
    /\ \A w \in S!Workers : S!Worker(w) <=> SP!Worker(w)
    /\ \A w \in S!Workers : S!HashChunk(w) <=> SP!HashChunk(w)
    /\ \A c \in Chunks : S!Submit(c) <=> SP!Submit(c)
  BY DEF S!Workers, SP!Workers, S!Chunks, SP!Chunks, S!start, SP!start,
      S!request_stop, SP!request_stop, S!request_cancellation,
      SP!request_cancellation, S!wait, SP!wait, S!done, SP!done,
      S!Controller, SP!Controller, S!Spawn, SP!Spawn, S!StopThread,
      SP!StopThread, S!Wake, SP!Wake, S!NudgeTest, SP!NudgeTest, S!Nudge,
      SP!Nudge, S!Join, SP!Join, S!Advance, SP!Advance, S!Worker,
      SP!Worker, S!LoopTest, SP!LoopTest, S!Pop, SP!Pop, S!Woken, SP!Woken,
      S!EndTest, SP!EndTest, S!DrainEmpty, SP!DrainEmpty, S!DrainPop,
      SP!DrainPop, S!Finish, SP!Finish, S!HashChunk, SP!HashChunk,
      S!Submit, SP!Submit, Chunks

(* The same for the writer.                                                *)
LEMMA WriterSame ==
    /\ W!Workers = WP!Workers /\ WP!Items = Chunks
    /\ W!start <=> WP!start
    /\ W!request_stop <=> WP!request_stop
    /\ W!request_cancellation <=> WP!request_cancellation
    /\ W!wait <=> WP!wait
    /\ W!done <=> WP!done
    /\ W!Controller <=> WP!Controller
    /\ \A w \in W!Workers : W!Worker(w) <=> WP!Worker(w)
    /\ \A w \in W!Workers : W!Invoke(w) <=> WP!Invoke(w)
    /\ \A c \in Chunks : W!Submit(c) <=> WP!Submit(c)
  BY DEF W!Workers, WP!Workers, W!Items, WP!Items, W!start, WP!start,
      W!request_stop, WP!request_stop, W!request_cancellation,
      WP!request_cancellation, W!wait, WP!wait, W!done, WP!done,
      W!Controller, WP!Controller, W!Spawn, WP!Spawn, W!StopThread,
      WP!StopThread, W!Wake, WP!Wake, W!NudgeTest, WP!NudgeTest, W!Nudge,
      WP!Nudge, W!Join, WP!Join, W!Advance, WP!Advance, W!Worker,
      WP!Worker, W!LoopTest, WP!LoopTest, W!Pop, WP!Pop, W!EndTest,
      WP!EndTest, W!DrainEmpty, WP!DrainEmpty, W!DrainPop, WP!DrainPop,
      W!Finish, WP!Finish, W!Sweep, WP!Sweep, W!Invoke, WP!Invoke,
      W!Submit, WP!Submit, Chunks

-----------------------------------------------------------------------------
(* The client's calls.                                                     *)

(* Every call has a rank.                                                  *)
LEMMA RankType == \A c \in CallNames : Rank(c) \in 1 .. 13
  BY DEF CallNames, StartNames, CancelNames, StopNames, WaitNames, Rank

(* Making a call takes it, and no other, off the list; every call behind   *)
(* it has a higher rank.                                                   *)
LEMMA CallMade ==
    ASSUME ClientInv, todo # <<>>, todo' = Tail(todo),
           UNCHANGED <<calling, started_, stopped_, cancelled_>>
    PROVE  /\ ClientInv'
           /\ Head(todo) \in CallNames /\ Pending(Head(todo))
           /\ \A c : Pending(c)' <=> Pending(c) /\ c # Head(todo)
           /\ \A c : Pending(c) /\ c # Head(todo) => Rank(Head(todo)) < Rank(c)
<1>1. /\ Len(todo) \in Nat \ {0}
      /\ Head(todo) = todo[1]
      /\ Head(todo) \in CallNames
      /\ todo' \in Seq(CallNames)
      /\ Len(todo') = Len(todo) - 1
      /\ \A i \in 1 .. Len(todo) - 1 : todo'[i] = todo[i + 1]
  BY TailFacts DEF ClientInv
<1>2. \A i \in 1 .. Len(todo') : /\ i + 1 \in 1 .. Len(todo)
                                 /\ 1 < i + 1
                                 /\ todo'[i] = todo[i + 1]
  BY <1>1
<1>3. \A i \in 1 .. Len(todo) : i = 1 \/ (/\ i - 1 \in 1 .. Len(todo')
                                          /\ todo'[i - 1] = todo[i]
                                          /\ 1 < i)
  BY <1>1
<1>4. 1 \in 1 .. Len(todo)
  BY <1>1
<1>5. \A i \in 1 .. Len(todo) : i # 1 => Rank(Head(todo)) < Rank(todo[i])
  BY <1>1, <1>3, <1>4 DEF ClientInv
<1>6. \A i \in 1 .. Len(todo) : Rank(todo[i]) \in Int
  <2>1. todo \in Seq(CallNames)
    BY DEF ClientInv
  <2>2. \A i \in 1 .. Len(todo) : todo[i] \in CallNames
    BY <2>1
  <2>3. \A n \in 1 .. 13 : n \in Int
    OBVIOUS
  <2> QED
    BY <2>2, <2>3, RankType
<1>7. \A i \in 1 .. Len(todo) : i # 1 => todo[i] # Head(todo)
  BY <1>1, <1>4, <1>5, <1>6
<1>8. \A c : Pending(c)' <=> Pending(c) /\ c # Head(todo)
  <2>1. ASSUME NEW c, NEW i \in 1 .. Len(todo'), todo'[i] = c
        PROVE  Pending(c) /\ c # Head(todo)
    BY <1>2, <1>7, <2>1 DEF Pending
  <2>2. ASSUME NEW c, NEW i \in 1 .. Len(todo), todo[i] = c, c # Head(todo)
        PROVE  Pending(c)'
    BY <1>1, <1>3, <2>2 DEF Pending
  <2> QED
    BY <2>1, <2>2 DEF Pending
<1>9. \A c : Pending(c) /\ c # Head(todo) => Rank(Head(todo)) < Rank(c)
  BY <1>1, <1>5 DEF Pending
<1>10. \A i, j \in 1 .. Len(todo') : i < j => Rank(todo'[i]) < Rank(todo'[j])
  <2>1. ASSUME NEW i \in 1 .. Len(todo'), NEW j \in 1 .. Len(todo'), i < j
        PROVE  i + 1 < j + 1
    BY <1>1, <2>1
  <2> QED
    BY <1>2, <2>1 DEF ClientInv
<1>11. Pending(Head(todo))
  BY <1>1, <1>4 DEF Pending
<1>12. ClientInv'
  BY <1>1, <1>8, <1>10 DEF ClientInv
<1> QED
  BY <1>1, <1>8, <1>9, <1>11, <1>12

(* What start(), wait() and cancel() have before them when they begin.     *)
LEMMA StartList ==
    ASSUME todo' = StartCalls
    PROVE  /\ todo' \in Seq(CallNames)
           /\ \A i, j \in 1 .. Len(todo') : i < j => Rank(todo'[i]) < Rank(todo'[j])
           /\ \A c : Pending(c)' <=> \/ c \in {"w.start", "h.start", "r.start"}
                                     \/ c = "s.start" /\ WithChecksum
<1>1. CASE WithChecksum
  <2>1. Len(todo') = 4
    BY <1>1 DEF StartCalls, Sums
  <2>2. /\ todo'[1] = "w.start"
        /\ todo'[2] = "h.start"
        /\ todo'[3] = "s.start"
        /\ todo'[4] = "r.start"
    BY <1>1 DEF StartCalls, Sums
  <2>3. \A i \in 1 .. 4 : i \in {1, 2, 3, 4}
    OBVIOUS
  <2>4. todo' \in Seq(CallNames)
    BY <1>1 DEF StartCalls, Sums, CallNames, StartNames, CancelNames,
       StopNames, WaitNames
  <2>5. \A i, j \in 1 .. Len(todo') : i < j => Rank(todo'[i]) < Rank(todo'[j])
    BY <2>1, <2>2, <2>3 DEF Rank
  <2>6. \A c : Pending(c)' <=>
              c \in {"w.start", "h.start", "s.start", "r.start"}
    BY <2>1, <2>2, <2>3, SMTT(30) DEF Pending
  <2> QED
    BY <1>1, <2>4, <2>5, <2>6
<1>2. CASE ~WithChecksum
  <2>1. Len(todo') = 3
    BY <1>2 DEF StartCalls, Sums
  <2>2. /\ todo'[1] = "w.start"
        /\ todo'[2] = "h.start"
        /\ todo'[3] = "r.start"
    BY <1>2 DEF StartCalls, Sums
  <2>3. \A i \in 1 .. 3 : i \in {1, 2, 3}
    OBVIOUS
  <2>4. todo' \in Seq(CallNames)
    BY <1>2 DEF StartCalls, Sums, CallNames, StartNames, CancelNames,
       StopNames, WaitNames
  <2>5. \A i, j \in 1 .. Len(todo') : i < j => Rank(todo'[i]) < Rank(todo'[j])
    BY <2>1, <2>2, <2>3 DEF Rank
  <2>6. \A c : Pending(c)' <=>
              c \in {"w.start", "h.start", "r.start"}
    BY <2>1, <2>2, <2>3, SMTT(30) DEF Pending
  <2> QED
    BY <1>2, <2>4, <2>5, <2>6
<1> QED
  BY <1>1, <1>2, StorageAssumption

(* The calls of cancel() are in the order of their ranks.                  *)
LEMMA CancelList ==
    ASSUME todo' = CancelCalls
    PROVE  /\ todo' \in Seq(CallNames)
           /\ \A i, j \in 1 .. Len(todo') : i < j => Rank(todo'[i]) < Rank(todo'[j])
           /\ \A c : Pending(c)' <=>
                 \/ c \in {"r.request_cancellation", "h.request_cancellation",
                           "w.request_cancellation", "r.wait", "h.wait", "w.wait"}
                 \/ c \in {"s.request_cancellation", "s.wait"} /\ WithChecksum
<1>1. CASE WithChecksum
  <2>1. Len(todo') = 8
    BY <1>1 DEF CancelCalls, Sums
  <2>2. /\ todo'[1] = "r.request_cancellation"
        /\ todo'[2] = "h.request_cancellation"
        /\ todo'[3] = "s.request_cancellation"
        /\ todo'[4] = "w.request_cancellation"
        /\ todo'[5] = "r.wait"
        /\ todo'[6] = "h.wait"
        /\ todo'[7] = "s.wait"
        /\ todo'[8] = "w.wait"
    BY <1>1 DEF CancelCalls, Sums
  <2>3. \A i \in 1 .. 8 : i \in {1, 2, 3, 4, 5, 6, 7, 8}
    OBVIOUS
  <2>4. todo' \in Seq(CallNames)
    BY <1>1 DEF CancelCalls, Sums, CallNames, StartNames, CancelNames,
       StopNames, WaitNames
  <2>5. \A i, j \in 1 .. Len(todo') : i < j => Rank(todo'[i]) < Rank(todo'[j])
    BY <2>1, <2>2, <2>3 DEF Rank
  <2>6. \A c : Pending(c)' <=>
              c \in {"r.request_cancellation", "h.request_cancellation",
                    "s.request_cancellation", "w.request_cancellation", "r.wait",
                    "h.wait", "s.wait", "w.wait"}
    BY <2>1, <2>2, <2>3, SMTT(30) DEF Pending
  <2> QED
    BY <1>1, <2>4, <2>5, <2>6
<1>2. CASE ~WithChecksum
  <2>1. Len(todo') = 6
    BY <1>2 DEF CancelCalls, Sums
  <2>2. /\ todo'[1] = "r.request_cancellation"
        /\ todo'[2] = "h.request_cancellation"
        /\ todo'[3] = "w.request_cancellation"
        /\ todo'[4] = "r.wait"
        /\ todo'[5] = "h.wait"
        /\ todo'[6] = "w.wait"
    BY <1>2 DEF CancelCalls, Sums
  <2>3. \A i \in 1 .. 6 : i \in {1, 2, 3, 4, 5, 6}
    OBVIOUS
  <2>4. todo' \in Seq(CallNames)
    BY <1>2 DEF CancelCalls, Sums, CallNames, StartNames, CancelNames,
       StopNames, WaitNames
  <2>5. \A i, j \in 1 .. Len(todo') : i < j => Rank(todo'[i]) < Rank(todo'[j])
    BY <2>1, <2>2, <2>3 DEF Rank
  <2>6. \A c : Pending(c)' <=>
              c \in {"r.request_cancellation", "h.request_cancellation",
                    "w.request_cancellation", "r.wait", "h.wait", "w.wait"}
    BY <2>1, <2>2, <2>3, SMTT(30) DEF Pending
  <2> QED
    BY <1>2, <2>4, <2>5, <2>6
<1> QED
  BY <1>1, <1>2, StorageAssumption

(* So are the calls of wait(), of the hasher and of the verifier.          *)
LEMMA WaitList ==
    ASSUME todo' = IF Verifier THEN VerifierWaitCalls ELSE WaitCalls
    PROVE  /\ todo' \in Seq(CallNames)
           /\ \A i, j \in 1 .. Len(todo') : i < j => Rank(todo'[i]) < Rank(todo'[j])
           /\ \A c : Pending(c)' <=>
                 \/ c \in {"r.wait", "h.request_stop", "h.wait", "w.request_stop", "w.wait"}
                 \/ c \in {"s.request_stop", "s.wait"} /\ WithChecksum
                 \/ c \in {"h.expects_done", "w.expects_done"} /\ Verifier
<1>1. CASE Verifier /\ ~WithChecksum
  <2>1. Len(todo') = 7
    BY <1>1 DEF VerifierWaitCalls, WaitCalls, Sums
  <2>2. /\ todo'[1] = "r.wait"
        /\ todo'[2] = "h.request_stop"
        /\ todo'[3] = "h.wait"
        /\ todo'[4] = "h.expects_done"
        /\ todo'[5] = "w.request_stop"
        /\ todo'[6] = "w.wait"
        /\ todo'[7] = "w.expects_done"
    BY <1>1 DEF VerifierWaitCalls, WaitCalls, Sums
  <2>3. \A i \in 1 .. 7 : i \in {1, 2, 3, 4, 5, 6, 7}
    OBVIOUS
  <2>4. todo' \in Seq(CallNames)
    BY <1>1 DEF VerifierWaitCalls, WaitCalls, Sums, CallNames, StartNames, CancelNames,
       StopNames, WaitNames
  <2>5. \A i, j \in 1 .. Len(todo') : i < j => Rank(todo'[i]) < Rank(todo'[j])
    <3>1. /\ Rank(todo'[1]) = 5
          /\ Rank(todo'[2]) = 6
          /\ Rank(todo'[3]) = 8
          /\ Rank(todo'[4]) = 9
          /\ Rank(todo'[5]) = 11
          /\ Rank(todo'[6]) = 12
          /\ Rank(todo'[7]) = 13
      BY <2>2 DEF Rank
    <3>2. ASSUME NEW i \in 1 .. 7, NEW j \in 1 .. 7, i < j
          PROVE  Rank(todo'[i]) < Rank(todo'[j])
      <4>1. i \in {1, 2, 3, 4, 5, 6} /\ j \in {2, 3, 4, 5, 6, 7}
        BY <3>2
      <4> QED
        BY <3>1, <3>2, <4>1
    <3> QED
      BY <2>1, <3>2
  <2>6. \A c : Pending(c)' <=>
              c \in {"r.wait", "h.request_stop", "h.wait", "h.expects_done",
                    "w.request_stop", "w.wait", "w.expects_done"}
    BY <2>1, <2>2, <2>3, SMTT(30) DEF Pending
  <2> QED
    BY <1>1, <2>4, <2>5, <2>6
<1>2. CASE ~Verifier /\ WithChecksum
  <2>1. Len(todo') = 7
    BY <1>2 DEF VerifierWaitCalls, WaitCalls, Sums
  <2>2. /\ todo'[1] = "r.wait"
        /\ todo'[2] = "h.request_stop"
        /\ todo'[3] = "s.request_stop"
        /\ todo'[4] = "h.wait"
        /\ todo'[5] = "s.wait"
        /\ todo'[6] = "w.request_stop"
        /\ todo'[7] = "w.wait"
    BY <1>2 DEF VerifierWaitCalls, WaitCalls, Sums
  <2>3. \A i \in 1 .. 7 : i \in {1, 2, 3, 4, 5, 6, 7}
    OBVIOUS
  <2>4. todo' \in Seq(CallNames)
    BY <1>2 DEF VerifierWaitCalls, WaitCalls, Sums, CallNames, StartNames, CancelNames,
       StopNames, WaitNames
  <2>5. \A i, j \in 1 .. Len(todo') : i < j => Rank(todo'[i]) < Rank(todo'[j])
    <3>1. /\ Rank(todo'[1]) = 5
          /\ Rank(todo'[2]) = 6
          /\ Rank(todo'[3]) = 7
          /\ Rank(todo'[4]) = 8
          /\ Rank(todo'[5]) = 10
          /\ Rank(todo'[6]) = 11
          /\ Rank(todo'[7]) = 12
      BY <2>2 DEF Rank
    <3>2. ASSUME NEW i \in 1 .. 7, NEW j \in 1 .. 7, i < j
          PROVE  Rank(todo'[i]) < Rank(todo'[j])
      <4>1. i \in {1, 2, 3, 4, 5, 6} /\ j \in {2, 3, 4, 5, 6, 7}
        BY <3>2
      <4> QED
        BY <3>1, <3>2, <4>1
    <3> QED
      BY <2>1, <3>2
  <2>6. \A c : Pending(c)' <=>
              c \in {"r.wait", "h.request_stop", "s.request_stop", "h.wait",
                    "s.wait", "w.request_stop", "w.wait"}
    BY <2>1, <2>2, <2>3, SMTT(30) DEF Pending
  <2> QED
    BY <1>2, <2>4, <2>5, <2>6
<1>3. CASE ~Verifier /\ ~WithChecksum
  <2>1. Len(todo') = 5
    BY <1>3 DEF VerifierWaitCalls, WaitCalls, Sums
  <2>2. /\ todo'[1] = "r.wait"
        /\ todo'[2] = "h.request_stop"
        /\ todo'[3] = "h.wait"
        /\ todo'[4] = "w.request_stop"
        /\ todo'[5] = "w.wait"
    BY <1>3 DEF VerifierWaitCalls, WaitCalls, Sums
  <2>3. \A i \in 1 .. 5 : i \in {1, 2, 3, 4, 5}
    OBVIOUS
  <2>4. todo' \in Seq(CallNames)
    BY <1>3 DEF VerifierWaitCalls, WaitCalls, Sums, CallNames, StartNames, CancelNames,
       StopNames, WaitNames
  <2>5. \A i, j \in 1 .. Len(todo') : i < j => Rank(todo'[i]) < Rank(todo'[j])
    <3>1. /\ Rank(todo'[1]) = 5
          /\ Rank(todo'[2]) = 6
          /\ Rank(todo'[3]) = 8
          /\ Rank(todo'[4]) = 11
          /\ Rank(todo'[5]) = 12
      BY <2>2 DEF Rank
    <3>2. ASSUME NEW i \in 1 .. 5, NEW j \in 1 .. 5, i < j
          PROVE  Rank(todo'[i]) < Rank(todo'[j])
      <4>1. i \in {1, 2, 3, 4} /\ j \in {2, 3, 4, 5}
        BY <3>2
      <4> QED
        BY <3>1, <3>2, <4>1
    <3> QED
      BY <2>1, <3>2
  <2>6. \A c : Pending(c)' <=>
              c \in {"r.wait", "h.request_stop", "h.wait", "w.request_stop",
                    "w.wait"}
    BY <2>1, <2>2, <2>3, SMTT(30) DEF Pending
  <2> QED
    BY <1>3, <2>4, <2>5, <2>6
<1> QED
  BY <1>1, <1>2, <1>3, StorageAssumption

(* start() begins, wait() begins, cancel() begins or only sets cancelled_, *)
(* or the function the client is in returns: the calls made say the same   *)
(* of the members as before.                                               *)
LEMMA StartClient ==
    ASSUME ClientInv, StageInv, start
    PROVE  ClientInv' /\ StageInv'
<1>1. /\ todo' = StartCalls /\ calling = "" /\ calling' = "start"
      /\ ~started_ /\ ~cancelled_
      /\ UNCHANGED <<hvars, svars, wvars, rvars, started_, stopped_, cancelled_>>
  BY DEF start, Begin, done
<1>2. ~stopped_
  BY <1>1 DEF ClientInv
<1>3. ClientInv'
  BY <1>1, <1>2, StartList
  DEF ClientInv, StartNames, CancelNames, StopNames, WaitNames
<1>4. StageInv'
  BY <1>1, <1>2, StartList
  DEF StageInv, HStage, SStage, WStage, RStage, Stage, Fresh, Asked, Waited,
      Cancelling, hvars, svars, wvars, rvars
<1> QED
  BY <1>3, <1>4

(* wait() begins: every stop and wait is pending.                          *)
LEMMA WaitClient ==
    ASSUME ClientInv, StageInv, wait
    PROVE  ClientInv' /\ StageInv'
<1>1. /\ todo' = IF Verifier THEN VerifierWaitCalls ELSE WaitCalls
      /\ calling = "" /\ calling' = "wait"
      /\ started_ /\ ~cancelled_ /\ ~stopped_
      /\ UNCHANGED <<hvars, svars, wvars, rvars, started_, stopped_, cancelled_>>
  BY DEF wait, Begin, done
<1>2. ClientInv'
  BY <1>1, WaitList
  DEF ClientInv, StartNames, CancelNames, StopNames, WaitNames
<1>3. StageInv'
  BY <1>1, WaitList
  DEF StageInv, HStage, SStage, WStage, RStage, Stage, Fresh, Asked, Waited,
      Cancelling, hvars, svars, wvars, rvars
<1> QED
  BY <1>2, <1>3

(* cancel() begins; before start() it makes no call.                       *)
LEMMA CancelClient ==
    ASSUME ClientInv, StageInv, cancel
    PROVE  ClientInv' /\ StageInv'
<1>1. CASE ~started_
  <2>1. /\ calling = "" /\ ~stopped_ /\ cancelled_'
        /\ UNCHANGED <<hvars, svars, wvars, rvars, todo, calling, started_, stopped_>>
    BY <1>1 DEF cancel, done, ClientInv
  <2>2. ClientInv'
    BY <1>1, <2>1 DEF ClientInv, Pending
  <2>3. StageInv'
    BY <1>1, <2>1
    DEF StageInv, HStage, SStage, WStage, RStage, Stage, Fresh, Asked, Waited,
        Pending, Cancelling, hvars, svars, wvars, rvars
  <2> QED
    BY <2>2, <2>3
<1>2. CASE started_
  <2>1. /\ todo' = CancelCalls /\ calling = "" /\ calling' = "cancel"
        /\ ~cancelled_ /\ ~stopped_
        /\ UNCHANGED <<hvars, svars, wvars, rvars, started_, stopped_, cancelled_>>
    BY <1>2 DEF cancel, Begin, done
  <2>2. ClientInv'
    BY <1>2, <2>1, CancelList
    DEF ClientInv, StartNames, CancelNames, StopNames, WaitNames
  <2>3. StageInv'
    BY <1>2, <2>1, CancelList
    DEF StageInv, HStage, SStage, WStage, RStage, Stage, Fresh, Asked, Waited,
        Cancelling, hvars, svars, wvars, rvars
  <2> QED
    BY <2>2, <2>3
<1> QED
  BY <1>1, <1>2

(* start(), wait() or cancel() returns.                                    *)
LEMMA ReturnClient ==
    ASSUME ClientInv, StageInv, Return
    PROVE  ClientInv' /\ StageInv'
<1>1. /\ calling # "" /\ todo = <<>> /\ calling' = ""
      /\ started_' = (started_ \/ calling = "start")
      /\ cancelled_' = (cancelled_ \/ calling = "cancel")
      /\ stopped_' = (stopped_ \/ calling \in {"wait", "cancel"})
      /\ UNCHANGED <<hvars, svars, wvars, rvars, todo>>
      /\ {h_ctl, s_ctl, w_ctl} \subseteq {"idle", "returned"}
  BY DEF Return, MembersIdle
<1>2. \A c : ~Pending(c) /\ ~Pending(c)'
  <2>1. Len(todo) = 0 /\ Len(todo') = 0
    BY <1>1
  <2> QED
    BY <2>1 DEF Pending
<1>3. ClientInv'
  BY <1>1, <1>2 DEF ClientInv
<1>4. StageInv'
  BY <1>1, <1>2
  DEF ClientInv, StageInv, HStage, SStage, WStage, RStage, Stage, Fresh, Asked,
      Waited, WaitPCs, Cancelling, hvars, svars, wvars, rvars
<1> QED
  BY <1>3, <1>4

-----------------------------------------------------------------------------
(* The calls on the members: each finds its member in the stage it needs.  *)

(* The guards of the calls, from what has been called before.              *)
LEMMA HasherGuards ==
    ASSUME PoolsInv, ClientInv, StageInv, todo # <<>>, MembersIdle,
           todo' = Tail(todo), UNCHANGED <<calling, started_, stopped_, cancelled_>>
    PROVE  /\ Head(todo) = "h.start" => ~h_started /\ ~h_cancelled
           /\ Head(todo) = "h.request_stop" => h_started /\ reader = "exited"
           /\ Head(todo) = "h.request_cancellation" => h_started
           /\ Head(todo) = "h.wait" => /\ reader = "exited"
                                       /\ h_ctl = "idle" => \A w \in H!Workers : h_stop[w]
           /\ Head(todo) = "h.expects_done" => \A v \in H!Workers : h_pc[v] = "exited"
<1> USE DEF StageInv, HStage, RStage, Stage
<1>p. \A c : Pending(c) /\ c # Head(todo) => Rank(Head(todo)) < Rank(c)
  BY CallMade
<1>q. Pending(Head(todo))
  BY CallMade
<1>i. h_ctl \in {"idle", "returned"} /\ DOMAIN h_stop = H!Workers
  BY HasherSame DEF MembersIdle, PoolsInv, HP!PoolInv, HP!PoolType
<1>1. CASE Head(todo) = "h.start"
  BY <1>1, <1>q DEF ClientInv, StartNames, Fresh
<1>2. CASE Head(todo) = "h.request_stop"
  <2>1. calling = "wait"
    BY <1>2, <1>q DEF ClientInv, StopNames
  <2>2. ~Pending("r.wait")
    BY <1>2, <1>p DEF Rank
  <2> QED
    BY <1>2, <1>i, <2>1, <2>2 DEF ClientInv, Fresh, Waited
<1>3. CASE Head(todo) = "h.request_cancellation"
  BY <1>3, <1>i, <1>q DEF ClientInv, CancelNames, Fresh
<1>4. CASE Head(todo) = "h.wait"
  <2>1. calling \in {"wait", "cancel"}
    BY <1>4, <1>q DEF ClientInv, WaitNames
  <2>2. ~Pending("r.wait") /\ ~Pending("h.request_stop") /\ ~Pending("h.request_cancellation")
    BY <1>4, <1>p DEF Rank
  <2> QED
    BY <1>4, <1>i, <2>1, <2>2 DEF Waited, Asked
<1>5. CASE Head(todo) = "h.expects_done"
  <2>1. calling = "wait"
    BY <1>5, <1>q DEF ClientInv, StopNames
  <2>2. ~Pending("h.wait")
    BY <1>5, <1>p DEF Rank
  <2>3. h_ctl = "returned"
    BY <1>i, <2>1, <2>2 DEF Waited, WaitPCs
  <2> QED
    BY <1>5, <2>3, HasherSame DEF PoolsInv, HP!PoolInv, HP!ControlInv
<1> QED
  BY <1>1, <1>2, <1>3, <1>4, <1>5

(* When a checksum hasher's member function is called.                     *)
LEMMA ChecksumGuards ==
    ASSUME PoolsInv, ClientInv, StageInv, todo # <<>>, MembersIdle,
           todo' = Tail(todo), UNCHANGED <<calling, started_, stopped_, cancelled_>>
    PROVE  /\ Head(todo) = "s.start" => ~s_started /\ ~s_cancelled
           /\ Head(todo) = "s.request_stop" => s_started /\ reader = "exited"
           /\ Head(todo) = "s.request_cancellation" => s_started
           /\ Head(todo) = "s.wait" => /\ reader = "exited"
                                       /\ s_ctl = "idle" => \A w \in S!Workers : s_stop[w]
<1> USE DEF StageInv, SStage, RStage, Stage
<1>p. \A c : Pending(c) /\ c # Head(todo) => Rank(Head(todo)) < Rank(c)
  BY CallMade
<1>q. Pending(Head(todo))
  BY CallMade
<1>i. s_ctl \in {"idle", "returned"} /\ DOMAIN s_stop = S!Workers
  BY ChecksumSame DEF MembersIdle, PoolsInv, SP!PoolInv, SP!PoolType
<1>1. CASE Head(todo) = "s.start"
  BY <1>1, <1>q DEF ClientInv, StartNames, Fresh
<1>2. CASE Head(todo) = "s.request_stop"
  <2>1. calling = "wait" /\ WithChecksum
    BY <1>2, <1>q DEF ClientInv, StopNames
  <2>2. ~Pending("r.wait")
    BY <1>2, <1>p DEF Rank
  <2> QED
    BY <1>2, <1>i, <2>1, <2>2 DEF ClientInv, Fresh, Waited
<1>3. CASE Head(todo) = "s.request_cancellation"
  BY <1>3, <1>i, <1>q DEF ClientInv, CancelNames, Fresh
<1>4. CASE Head(todo) = "s.wait"
  <2>1. calling \in {"wait", "cancel"} /\ WithChecksum
    BY <1>4, <1>q DEF ClientInv, WaitNames
  <2>2. ~Pending("r.wait") /\ ~Pending("s.request_stop") /\ ~Pending("s.request_cancellation")
    BY <1>4, <1>p DEF Rank
  <2> QED
    BY <1>4, <1>i, <2>1, <2>2 DEF Waited, Asked
<1> QED
  BY <1>1, <1>2, <1>3, <1>4

(* The writer is stopped and waited for when every hash worker has ended.  *)
LEMMA WriterGuards ==
    ASSUME PoolsInv, ClientInv, StageInv, todo # <<>>, MembersIdle,
           todo' = Tail(todo), UNCHANGED <<calling, started_, stopped_, cancelled_>>
    PROVE  /\ Head(todo) = "w.start" => ~w_started /\ ~w_cancelled
           /\ Head(todo) = "w.request_stop" =>
                 w_started /\ \A v \in H!Workers : h_pc[v] = "exited"
           /\ Head(todo) = "w.request_cancellation" => w_started
           /\ Head(todo) = "w.wait" =>
                 /\ \A v \in H!Workers : h_pc[v] = "exited"
                 /\ w_ctl = "idle" => \A w \in W!Workers : w_stop[w]
           /\ Head(todo) = "w.expects_done" => \A w \in W!Workers : w_pc[w] = "exited"
<1> USE DEF StageInv, HStage, WStage, Stage
<1>p. \A c : Pending(c) /\ c # Head(todo) => Rank(Head(todo)) < Rank(c)
  BY CallMade
<1>q. Pending(Head(todo))
  BY CallMade
<1>i. /\ h_ctl \in {"idle", "returned"} /\ w_ctl \in {"idle", "returned"}
      /\ DOMAIN w_stop = W!Workers
  BY WriterSame DEF MembersIdle, PoolsInv, WP!PoolInv, WP!PoolType
<1>h. ASSUME calling \in {"wait", "cancel"}, ~Pending("h.wait")
      PROVE  \A v \in H!Workers : h_pc[v] = "exited"
  <2>1. h_ctl = "returned"
    BY <1>h, <1>i DEF Waited, WaitPCs
  <2> QED
    BY <2>1, HasherSame DEF PoolsInv, HP!PoolInv, HP!ControlInv
<1>1. CASE Head(todo) = "w.start"
  BY <1>1, <1>q DEF ClientInv, StartNames, Fresh
<1>2. CASE Head(todo) = "w.request_stop"
  <2>1. calling = "wait"
    BY <1>2, <1>q DEF ClientInv, StopNames
  <2>2. ~Pending("h.wait")
    BY <1>2, <1>p DEF Rank
  <2> QED
    BY <1>2, <1>h, <1>i, <2>1, <2>2 DEF ClientInv, Fresh, Waited
<1>3. CASE Head(todo) = "w.request_cancellation"
  BY <1>3, <1>i, <1>q DEF ClientInv, CancelNames, Fresh
<1>4. CASE Head(todo) = "w.wait"
  <2>1. calling \in {"wait", "cancel"}
    BY <1>4, <1>q DEF ClientInv, WaitNames
  <2>2. ~Pending("h.wait") /\ ~Pending("w.request_stop") /\ ~Pending("w.request_cancellation")
    BY <1>4, <1>p DEF Rank
  <2> QED
    BY <1>4, <1>h, <1>i, <2>1, <2>2 DEF Waited, Asked
<1>5. CASE Head(todo) = "w.expects_done"
  <2>1. calling = "wait"
    BY <1>5, <1>q DEF ClientInv, StopNames
  <2>2. ~Pending("w.wait")
    BY <1>5, <1>p DEF Rank
  <2>3. w_ctl = "returned"
    BY <1>i, <2>1, <2>2 DEF Waited, WaitPCs
  <2> QED
    BY <1>5, <2>3, WriterSame DEF PoolsInv, WP!PoolInv, WP!ControlInv
<1> QED
  BY <1>1, <1>2, <1>3, <1>4, <1>5

(* The reader is started once; wait() finds the hasher running.            *)
LEMMA ReaderGuards ==
    ASSUME PoolsInv, ClientInv, StageInv, todo # <<>>, MembersIdle,
           todo' = Tail(todo), UNCHANGED <<calling, started_, stopped_, cancelled_>>
    PROVE  /\ Head(todo) = "r.start" => reader = "unborn"
           /\ Head(todo) = "r.request_cancellation" => calling = "cancel"
           /\ Head(todo) = "r.wait" /\ calling = "wait" => h_started /\ ~h_cancelled
<1> USE DEF StageInv, HStage, RStage, Stage
<1>q. Pending(Head(todo))
  BY CallMade
<1>1. CASE Head(todo) = "r.start"
  BY <1>1, <1>q DEF ClientInv, StartNames, Fresh
<1>2. CASE Head(todo) = "r.request_cancellation"
  BY <1>2, <1>q DEF ClientInv, CancelNames
<1>3. CASE Head(todo) = "r.wait" /\ calling = "wait"
  BY <1>3 DEF ClientInv, Fresh, Cancelling, MembersIdle
<1> QED
  BY <1>1, <1>2, <1>3

-----------------------------------------------------------------------------
(* What a step of the pipeline is to each of the pools.                    *)

(* Every step is a step of the hash workers' pool, or leaves it alone.     *)
LEMMA HasherStep ==
    ASSUME PoolsInv, ClientInv, StageInv, ReaderInv, [Next]_vars
    PROVE  HP!PoolNext
<1> USE DEF HP!PoolNext
<1> DEFINE Idle == /\ reader = "exited" => reader' = "exited"
                   /\ UNCHANGED <<h_queue, h_started, h_cancelled, h_stop, h_done,
                                  h_pc, h_item, h_ctl, h_k>>
<1>i. ASSUME Idle PROVE HP!PoolNext
  BY <1>i
<1>1. CASE start \/ wait \/ cancel \/ Return \/ UNCHANGED vars
  <2>1. Idle
    BY <1>1 DEF start, wait, cancel, Begin, Return, vars, hvars, rvars
  <2> QED
    BY <1>i, <2>1
<1>2. CASE CallMember
  <2>g. /\ todo # <<>> /\ MembersIdle /\ todo' = Tail(todo)
        /\ UNCHANGED <<calling, started_, stopped_, cancelled_>>
    BY <1>2 DEF CallMember
  <2>1. CASE CallHasher
    <3>1. UNCHANGED reader
      BY <2>1 DEF CallHasher, rvars
    <3> QED
      BY <2>1, <2>g, <3>1, HasherGuards, HasherSame
      DEF CallHasher, hvars, HP!request_stop, HP!wait
  <2>2. CASE CallChecksum \/ CallWriter
    BY <1>i, <2>2 DEF CallChecksum, CallWriter, hvars, rvars
  <2>3. CASE CallReader
    <3>1. Head(todo) = "r.start" => reader = "unborn"
      BY <2>g, ReaderGuards
    <3> QED
      BY <1>i, <2>3, <3>1 DEF CallReader, hvars
  <2> QED
    BY <1>2, <2>1, <2>2, <2>3 DEF CallMember
<1>3. CASE InMember
  <2>1. CASE H!Controller
    BY <1>3, <2>1, HasherSame DEF InMember, rvars
  <2>2. CASE UNCHANGED hvars
    BY <1>3, <1>i, <2>2 DEF InMember, hvars, rvars
  <2> QED
    BY <1>3, <2>1, <2>2 DEF InMember
<1>4. CASE ReaderPush
  BY <1>4, HasherSame DEF ReaderPush, ReaderInv
<1>5. CASE ReaderGet \/ ReaderRead \/ ReaderPushChecksum \/ ReaderDrop \/ ReaderEnd
  <2>1. reader # "exited"
    BY <1>5 DEF ReaderGet, ReaderRead, ReaderPushChecksum, ReaderDrop, ReaderEnd
  <2>2. UNCHANGED hvars
    BY <1>5 DEF ReaderGet, ReaderRead, ReaderPushChecksum, ReaderDrop, ReaderEnd
  <2> QED
    BY <1>i, <2>1, <2>2 DEF hvars
<1>6. ASSUME NEW w \in H!Workers, HashWorker(w) PROVE HP!PoolNext
  BY <1>6, HasherSame DEF HashWorker, HashChunk, rvars
<1>7. CASE ChecksumWorker \/ Writer
  BY <1>7, <1>i DEF ChecksumWorker, ChecksumChunk, Writer, WritePiece, hvars, rvars
<1> QED
  BY <1>1, <1>2, <1>3, <1>4, <1>5, <1>6, <1>7 DEF Next, Client, Reader

(* Every step is a step of the checksum pool, or leaves it alone.          *)
LEMMA ChecksumStep ==
    ASSUME PoolsInv, ClientInv, StageInv, ReaderInv, [Next]_vars
    PROVE  SP!PoolNext
<1> USE DEF SP!PoolNext
<1> DEFINE Idle == /\ reader = "exited" => reader' = "exited"
                   /\ UNCHANGED <<s_queue, s_started, s_cancelled, s_stop, s_done,
                                  s_pc, s_item, s_ctl, s_k>>
<1>i. ASSUME Idle PROVE SP!PoolNext
  BY <1>i
<1>w. 1 \in S!Workers
  BY DEF S!Workers
<1>1. CASE start \/ wait \/ cancel \/ Return \/ UNCHANGED vars
  <2>1. Idle
    BY <1>1 DEF start, wait, cancel, Begin, Return, vars, svars, rvars
  <2> QED
    BY <1>i, <2>1
<1>2. CASE CallMember
  <2>g. /\ todo # <<>> /\ MembersIdle /\ todo' = Tail(todo)
        /\ UNCHANGED <<calling, started_, stopped_, cancelled_>>
    BY <1>2 DEF CallMember
  <2>1. CASE CallChecksum
    <3>1. UNCHANGED reader
      BY <2>1 DEF CallChecksum, rvars
    <3> QED
      BY <2>1, <2>g, <3>1, ChecksumGuards, ChecksumSame
      DEF CallChecksum, SP!request_stop, SP!wait
  <2>2. CASE CallHasher \/ CallWriter
    BY <1>i, <2>2 DEF CallHasher, CallWriter, svars, rvars
  <2>3. CASE CallReader
    <3>1. Head(todo) = "r.start" => reader = "unborn"
      BY <2>g, ReaderGuards
    <3> QED
      BY <1>i, <2>3, <3>1 DEF CallReader, svars
  <2> QED
    BY <1>2, <2>1, <2>2, <2>3 DEF CallMember
<1>3. CASE InMember
  <2>1. CASE S!Controller
    BY <1>3, <2>1, ChecksumSame DEF InMember, rvars
  <2>2. CASE UNCHANGED svars
    BY <1>3, <1>i, <2>2 DEF InMember, svars, rvars
  <2> QED
    BY <1>3, <2>1, <2>2 DEF InMember
<1>4. CASE ReaderPushChecksum
  BY <1>4, ChecksumSame DEF ReaderPushChecksum, ReaderInv
<1>5. CASE ReaderGet \/ ReaderRead \/ ReaderPush \/ ReaderDrop \/ ReaderEnd
  <2>1. reader # "exited"
    BY <1>5 DEF ReaderGet, ReaderRead, ReaderPush, ReaderDrop, ReaderEnd
  <2>2. UNCHANGED svars
    BY <1>5 DEF ReaderGet, ReaderRead, ReaderPush, ReaderDrop, ReaderEnd
  <2> QED
    BY <1>i, <2>1, <2>2 DEF svars
<1>6. CASE ChecksumWorker
  BY <1>6, <1>i, <1>w, ChecksumSame DEF ChecksumWorker, ChecksumChunk, rvars, svars
<1>7. CASE Writer \/ \E w \in H!Workers : HashWorker(w)
  BY <1>7, <1>i DEF HashWorker, HashChunk, Writer, WritePiece, svars, rvars
<1> QED
  BY <1>1, <1>2, <1>3, <1>4, <1>5, <1>6, <1>7 DEF Next, Client, Reader

(* A hash worker that has ended stays ended.                               *)
LEMMA ExitedStays ==
    ASSUME HP!PoolInv, HP!PoolNext, \A v \in H!Workers : h_pc[v] = "exited"
    PROVE  \A v \in H!Workers : h_pc'[v] = "exited"
<1>1. 1 \in H!Workers /\ H!Workers = HP!Workers
  BY HasherSame, StorageAssumption DEF H!Workers
<1>2. h_k \in HP!Workers /\ h_ctl # "starting"
  BY <1>1, StorageAssumption
  DEF HP!PoolInv, HP!PoolType, HP!ControlInv, HP!Workers
<1>3. CASE UNCHANGED h_pc
  BY <1>3
<1>4. CASE HP!Spawn
  BY <1>2, <1>4 DEF HP!Spawn
<1>5. ASSUME NEW w \in HP!Workers, HP!HashChunk(w) \/ HP!Worker(w)
      PROVE  UNCHANGED h_pc
  BY <1>1, <1>5
  DEF HP!HashChunk, HP!Worker, HP!LoopTest, HP!Pop, HP!Woken, HP!EndTest,
      HP!DrainEmpty, HP!DrainPop, HP!Finish
<1> QED
  BY <1>3, <1>4, <1>5
  DEF HP!PoolNext, HP!start, HP!request_stop, HP!request_cancellation, HP!wait,
      HP!Controller, HP!StopThread, HP!Wake, HP!NudgeTest, HP!Nudge, HP!Join,
      HP!Submit

(* Every step is a step of the writer, or leaves it alone.                 *)
LEMMA WriterStep ==
    ASSUME PoolsInv, ClientInv, StageInv, ReaderInv, [Next]_vars
    PROVE  WP!PoolNext
<1> USE DEF WP!PoolNext
<1> DEFINE Ended == \A v \in H!Workers : h_pc[v] = "exited"
           Idle == UNCHANGED <<w_queue, w_started, w_cancelled, w_stop, w_done,
                               w_pc, w_item, w_ctl, w_k>>
<1>e. Ended => Ended'
  BY HasherStep, ExitedStays DEF PoolsInv, H!Workers
<1>i. ASSUME Idle PROVE WP!PoolNext
  BY <1>i, <1>e
<1>w. 1 \in W!Workers
  BY DEF W!Workers
<1>1. CASE start \/ wait \/ cancel \/ Return \/ UNCHANGED vars
  <2>1. Idle
    BY <1>1 DEF start, wait, cancel, Begin, Return, vars, wvars
  <2> QED
    BY <1>i, <2>1
<1>2. CASE CallMember
  <2>g. /\ todo # <<>> /\ MembersIdle /\ todo' = Tail(todo)
        /\ UNCHANGED <<calling, started_, stopped_, cancelled_>>
    BY <1>2 DEF CallMember
  <2>1. CASE CallWriter
    <3>1. UNCHANGED h_pc
      BY <2>1 DEF CallWriter, hvars
    <3>2. CASE Head(todo) = "w.expects_done" /\ UNCHANGED wvars
      BY <1>i, <3>2 DEF wvars
    <3> QED
      BY <2>1, <2>g, <3>1, <3>2, WriterGuards, WriterSame
      DEF CallWriter, WP!request_stop, WP!wait
  <2>2. CASE CallHasher \/ CallChecksum \/ CallReader
    BY <1>i, <2>2 DEF CallHasher, CallChecksum, CallReader, wvars
  <2> QED
    BY <1>2, <2>1, <2>2 DEF CallMember
<1>3. CASE InMember
  <2>1. CASE W!Controller /\ UNCHANGED hvars
    BY <2>1, WriterSame DEF hvars
  <2>2. CASE UNCHANGED wvars
    BY <1>i, <2>2 DEF wvars
  <2> QED
    BY <1>3, <2>1, <2>2 DEF InMember
<1>4. CASE Reader
  BY <1>4, <1>i
  DEF Reader, ReaderGet, ReaderRead, ReaderPush, ReaderPushChecksum, ReaderDrop,
      ReaderEnd, Elsewhere, wvars
<1>5. ASSUME NEW w \in H!Workers, HashWorker(w) PROVE WP!PoolNext
  <2>1. CASE HashChunk(w) /\ h_item[w] \notin NullChunks
    <3>1. h_item[w] \in Chunks /\ h_pc[w] # "exited"
      BY <2>1, HasherSame
      DEF HashChunk, H!HashChunk, PoolsInv, HP!PoolInv, HP!PoolType
    <3> QED
      BY <2>1, <3>1, WriterSame DEF HashChunk
  <2>2. CASE UNCHANGED wvars
    BY <1>i, <2>2 DEF wvars
  <2> QED
    BY <1>5, <2>1, <2>2 DEF HashWorker, HashChunk
<1>6. CASE Writer
  BY <1>6, <1>w, WriterSame DEF Writer, WritePiece, hvars
<1>7. CASE ChecksumWorker
  BY <1>7, <1>i DEF ChecksumWorker, ChecksumChunk, wvars
<1> QED
  BY <1>1, <1>2, <1>3, <1>4, <1>5, <1>6, <1>7 DEF Next, Client

(* So PoolInv holds of all three pools at every step.                      *)
LEMMA PoolsStep ==
    ASSUME PoolsInv, ClientInv, StageInv, ReaderInv, [Next]_vars
    PROVE  PoolsInv'
<1>1. HP!PoolInv'
  BY HasherStep, HP!PoolStep, PoolAssumptions DEF PoolsInv
<1>2. SP!PoolInv'
  BY ChecksumStep, SP!PoolStep, PoolAssumptions DEF PoolsInv
<1>3. WP!PoolInv'
  BY WriterStep, WP!PoolStep, PoolAssumptions DEF PoolsInv
<1> QED
  BY <1>1, <1>2, <1>3 DEF PoolsInv

-----------------------------------------------------------------------------
(* The stages: a call on a member, and its loop, move that member to its   *)
(* next stage.                                                             *)
LEMMA HasherCall ==
    ASSUME PoolsInv, ClientInv, StageInv, CallMember
    PROVE  HStage'
<1>g. /\ todo # <<>> /\ MembersIdle /\ todo' = Tail(todo)
      /\ UNCHANGED <<calling, started_, stopped_, cancelled_>>
  BY DEF CallMember
<1>p. /\ \A c : Pending(c)' <=> Pending(c) /\ c # Head(todo)
      /\ Pending(Head(todo)) /\ Head(todo) \in CallNames
  BY <1>g, CallMade
<1>i. /\ h_ctl \in {"idle", "returned"} /\ h_k = 1
      /\ \A n \in 1 .. h_k - 1 : FALSE
  BY <1>g DEF MembersIdle, PoolsInv, HP!PoolInv, HP!ControlInv
<1> USE DEF StageInv, HStage, Stage, Fresh, Asked, Waited, Cancelling
<1>1. CASE CallChecksum \/ CallWriter \/ CallReader
  <2>1. UNCHANGED hvars
    BY <1>1 DEF CallChecksum, CallWriter, CallReader
  <2>2. Head(todo) \notin {"h.start", "h.request_stop",
                         "h.request_cancellation", "h.wait"}
    BY <1>1 DEF CallChecksum, CallWriter, CallReader
  <2> QED
    BY <1>g, <1>p, <2>1, <2>2 DEF hvars
<1>2. CASE CallHasher
  <2>g. /\ Head(todo) = "h.start" => ~h_started /\ ~h_cancelled
        /\ Head(todo) \in {"h.request_stop", "h.request_cancellation"} => h_started
    BY <1>g, HasherGuards
  <2>w. Head(todo) = "h.wait" /\ h_ctl = "idle" => \A w \in H!Workers : h_stop[w]
    BY <1>g, HasherGuards
  <2>d. DOMAIN h_stop = H!Workers
    BY HasherSame DEF PoolsInv, HP!PoolInv, HP!PoolType
  <2>1. CASE Head(todo) = "h.start" /\ H!start
    <3>1. calling = "start" /\ ~started_ /\ ~stopped_
      BY <1>p, <2>1 DEF ClientInv, StartNames
    <3>2. /\ h_ctl' = "starting"
          /\ UNCHANGED <<h_started, h_cancelled, h_stop, h_k>>
      BY <2>1, <2>g DEF H!start
    <3> QED
      BY <1>g, <1>p, <2>1, <3>1, <3>2
  <2>2. CASE Head(todo) = "h.request_stop" /\ H!request_stop
    <3>1. calling = "wait" /\ started_ /\ ~stopped_
      BY <1>p, <2>2 DEF ClientInv, StopNames
    <3>2. /\ h_ctl = "idle" /\ h_ctl' = "stopping"
          /\ UNCHANGED <<h_started, h_cancelled, h_stop, h_k>>
      BY <2>2 DEF H!request_stop
    <3> QED
      BY <1>g, <1>p, <1>i, <2>2, <2>g, <3>1, <3>2 DEF WaitPCs
  <2>3. CASE Head(todo) = "h.request_cancellation" /\ H!request_cancellation
    <3>1. calling = "cancel" /\ started_ /\ ~stopped_
      BY <1>p, <2>3 DEF ClientInv, CancelNames
    <3>2. /\ h_ctl = "idle" /\ h_ctl' = "stopping"
          /\ UNCHANGED <<h_started, h_stop, h_k>>
      BY <2>3 DEF H!request_cancellation
    <3> QED
      BY <1>g, <1>p, <1>i, <2>3, <2>g, <3>1, <3>2 DEF WaitPCs
  <2>4. CASE Head(todo) = "h.wait" /\ H!wait
    <3>1. calling \in {"wait", "cancel"} /\ started_ /\ ~stopped_
      BY <1>p, <2>4 DEF ClientInv, WaitNames
    <3>2. /\ h_ctl = "idle" /\ h_started /\ h_ctl' = "waking"
          /\ UNCHANGED <<h_started, h_cancelled, h_stop, h_k>>
      BY <2>4, <3>1 DEF H!wait
    <3> QED
      BY <1>g, <1>p, <2>4, <2>w, <2>d, <3>1, <3>2 DEF WaitPCs
  <2>5. CASE Head(todo) = "h.expects_done" /\ UNCHANGED hvars
    BY <1>g, <1>p, <2>5 DEF hvars
  <2> QED
    BY <1>2, <2>1, <2>2, <2>3, <2>4, <2>5 DEF CallHasher
<1> QED
  BY <1>1, <1>2 DEF CallMember

(* A loop inside such a call keeps the hasher's stage.                     *)
LEMMA HasherLoop ==
    ASSUME PoolsInv, HStage, H!Controller, UNCHANGED cvars
    PROVE  HStage'
<1> USE DEF HStage, Stage, Fresh, Asked, Waited, Pending, Cancelling, cvars
<1>t. /\ h_k \in H!Workers /\ DOMAIN h_stop = H!Workers
      /\ h_started \in BOOLEAN
  BY HasherSame DEF PoolsInv, HP!PoolInv, HP!PoolType
<1>n. H!Workers = 1 .. ThreadCount /\ ThreadCount \in Nat \ {0}
  BY StorageAssumption DEF H!Workers
<1>1. CASE H!Spawn
  <2>1. /\ h_ctl = "starting" /\ ~h_started
        /\ \/ h_ctl' = "starting"
           \/ h_ctl' = "idle" /\ h_started'
        /\ UNCHANGED <<h_cancelled, h_stop>>
    <3>1. /\ h_ctl = "starting" /\ ~h_started
          /\ UNCHANGED <<h_cancelled, h_stop>>
      BY <1>1 DEF H!Spawn, PoolsInv, HP!PoolInv, HP!ControlInv
    <3>2. CASE h_k < ThreadCount
      BY <1>1, <3>1, <3>2 DEF H!Spawn, H!Advance
    <3>3. CASE ~(h_k < ThreadCount)
      <4>1. h_k = ThreadCount
        BY <1>t, <1>n, <3>3
      <4>2. h_ctl' = "idle"
        BY <1>1, <3>3 DEF H!Spawn, H!Advance
      <4>3. h_started' = TRUE
        BY <1>1, <4>1 DEF H!Spawn
      <4> QED
        BY <3>1, <4>2, <4>3
    <3> QED
      BY <3>2, <3>3
  <2> QED
    BY <2>1 DEF WaitPCs
<1>2. CASE H!StopThread
  <2>1. /\ h_ctl = "stopping"
        /\ h_stop' = [h_stop EXCEPT ![h_k] = TRUE]
        /\ UNCHANGED <<h_started, h_cancelled>>
    BY <1>2 DEF H!StopThread
  <2>2. /\ DOMAIN h_stop' = H!Workers
        /\ \A w \in 1 .. h_k - 1 : w \in H!Workers /\ h_stop'[w]
        /\ h_stop'[h_k]
    BY <1>t, <1>n, <2>1
  <2>3. CASE h_k < ThreadCount
    <3>1. h_ctl' = "stopping" /\ h_k' = h_k + 1
      BY <1>2, <2>3 DEF H!StopThread, H!Advance
    <3>2. \A w \in 1 .. h_k' - 1 : h_stop'[w]
      BY <1>t, <1>n, <2>2, <3>1
    <3> QED
      BY <2>1, <3>1, <3>2 DEF WaitPCs
  <2>4. CASE ~(h_k < ThreadCount)
    <3>1. h_ctl' = "idle" /\ h_k = ThreadCount
      BY <1>2, <1>t, <1>n, <2>4 DEF H!StopThread, H!Advance
    <3>2. \A w \in DOMAIN h_stop' : h_stop'[w]
      BY <1>t, <1>n, <2>2, <3>1
    <3> QED
      BY <2>1, <3>1, <3>2 DEF WaitPCs
  <2> QED
    BY <2>3, <2>4
<1>3. CASE H!Wake \/ H!NudgeTest \/ H!Nudge \/ H!Join
  <2>1. /\ h_ctl \in WaitPCs /\ h_ctl' \in WaitPCs
        /\ h_ctl # "returned"
        /\ UNCHANGED <<h_started, h_cancelled, h_stop>>
    BY <1>3
    DEF H!Wake, H!NudgeTest, H!Nudge, H!Join, H!Advance, WaitPCs
  <2>2. \A w \in DOMAIN h_stop : h_stop[w]
    BY <1>t, <2>1, HasherSame DEF PoolsInv, HP!PoolInv, HP!ControlInv, WaitPCs, HP!WaitPCs
  <2> QED
    BY <2>1, <2>2 DEF WaitPCs
<1> QED
  BY <1>1, <1>2, <1>3 DEF H!Controller

(* A call of any member keeps the checksum hasher's stage.                 *)
LEMMA ChecksumCall ==
    ASSUME PoolsInv, ClientInv, StageInv, CallMember
    PROVE  SStage'
<1>g. /\ todo # <<>> /\ MembersIdle /\ todo' = Tail(todo)
      /\ UNCHANGED <<calling, started_, stopped_, cancelled_>>
  BY DEF CallMember
<1>p. /\ \A c : Pending(c)' <=> Pending(c) /\ c # Head(todo)
      /\ Pending(Head(todo)) /\ Head(todo) \in CallNames
  BY <1>g, CallMade
<1>i. /\ s_ctl \in {"idle", "returned"} /\ s_k = 1
      /\ \A n \in 1 .. s_k - 1 : FALSE
  BY <1>g DEF MembersIdle, PoolsInv, SP!PoolInv, SP!ControlInv
<1> USE DEF StageInv, SStage, Stage, Fresh, Asked, Waited, Cancelling
<1>1. CASE CallHasher \/ CallWriter \/ CallReader
  <2>1. UNCHANGED svars
    BY <1>1 DEF CallHasher, CallWriter, CallReader
  <2>2. Head(todo) \notin {"s.start", "s.request_stop",
                         "s.request_cancellation", "s.wait"}
    BY <1>1 DEF CallHasher, CallWriter, CallReader
  <2> QED
    BY <1>g, <1>p, <2>1, <2>2 DEF svars
<1>2. CASE CallChecksum
  <2>g. /\ Head(todo) = "s.start" => ~s_started /\ ~s_cancelled
        /\ Head(todo) \in {"s.request_stop", "s.request_cancellation"} => s_started
    BY <1>g, ChecksumGuards
  <2>w. Head(todo) = "s.wait" /\ s_ctl = "idle" => \A w \in S!Workers : s_stop[w]
    BY <1>g, ChecksumGuards
  <2>d. DOMAIN s_stop = S!Workers
    BY ChecksumSame DEF PoolsInv, SP!PoolInv, SP!PoolType
  <2>c. WithChecksum
    BY <1>2, <1>p DEF ClientInv, CallChecksum
  <2>1. CASE Head(todo) = "s.start" /\ S!start
    <3>1. calling = "start" /\ ~started_ /\ ~stopped_
      BY <1>p, <2>1 DEF ClientInv, StartNames
    <3>2. /\ s_ctl' = "starting"
          /\ UNCHANGED <<s_started, s_cancelled, s_stop, s_k>>
      BY <2>1, <2>g DEF S!start
    <3> QED
      BY <1>g, <1>p, <2>c, <2>1, <3>1, <3>2
  <2>2. CASE Head(todo) = "s.request_stop" /\ S!request_stop
    <3>1. calling = "wait" /\ started_ /\ ~stopped_
      BY <1>p, <2>2 DEF ClientInv, StopNames
    <3>2. /\ s_ctl = "idle" /\ s_ctl' = "stopping"
          /\ UNCHANGED <<s_started, s_cancelled, s_stop, s_k>>
      BY <2>2 DEF S!request_stop
    <3> QED
      BY <1>g, <1>p, <1>i, <2>c, <2>2, <2>g, <3>1, <3>2 DEF WaitPCs
  <2>3. CASE Head(todo) = "s.request_cancellation" /\ S!request_cancellation
    <3>1. calling = "cancel" /\ started_ /\ ~stopped_
      BY <1>p, <2>3 DEF ClientInv, CancelNames
    <3>2. /\ s_ctl = "idle" /\ s_ctl' = "stopping"
          /\ UNCHANGED <<s_started, s_stop, s_k>>
      BY <2>3 DEF S!request_cancellation
    <3> QED
      BY <1>g, <1>p, <1>i, <2>c, <2>3, <2>g, <3>1, <3>2 DEF WaitPCs
  <2>4. CASE Head(todo) = "s.wait" /\ S!wait
    <3>1. calling \in {"wait", "cancel"} /\ started_ /\ ~stopped_
      BY <1>p, <2>4 DEF ClientInv, WaitNames
    <3>2. /\ s_ctl = "idle" /\ s_started /\ s_ctl' = "waking"
          /\ UNCHANGED <<s_started, s_cancelled, s_stop, s_k>>
      BY <2>4, <2>c, <3>1 DEF S!wait
    <3> QED
      BY <1>g, <1>p, <2>c, <2>4, <2>w, <2>d, <3>1, <3>2 DEF WaitPCs
  <2> QED
    BY <1>2, <2>1, <2>2, <2>3, <2>4 DEF CallChecksum
<1> QED
  BY <1>1, <1>2 DEF CallMember

(* A loop inside such a call does so too.                                  *)
LEMMA ChecksumLoop ==
    ASSUME PoolsInv, SStage, S!Controller, UNCHANGED cvars
    PROVE  SStage'
<1> USE DEF SStage, Stage, Fresh, Asked, Waited, Pending, Cancelling, cvars
<1>t. /\ s_k \in S!Workers /\ DOMAIN s_stop = S!Workers
      /\ s_started \in BOOLEAN
  BY ChecksumSame DEF PoolsInv, SP!PoolInv, SP!PoolType
<1>n. S!Workers = 1 .. 1 /\ 1 \in Nat \ {0}
  BY StorageAssumption DEF S!Workers
<1>1. CASE S!Spawn
  <2>1. /\ s_ctl = "starting" /\ ~s_started
        /\ \/ s_ctl' = "starting"
           \/ s_ctl' = "idle" /\ s_started'
        /\ UNCHANGED <<s_cancelled, s_stop>>
    <3>1. /\ s_ctl = "starting" /\ ~s_started
          /\ UNCHANGED <<s_cancelled, s_stop>>
      BY <1>1 DEF S!Spawn, PoolsInv, SP!PoolInv, SP!ControlInv
    <3>2. CASE s_k < 1
      BY <1>1, <3>1, <3>2 DEF S!Spawn, S!Advance
    <3>3. CASE ~(s_k < 1)
      <4>1. s_k = 1
        BY <1>t, <1>n, <3>3
      <4>2. s_ctl' = "idle"
        BY <1>1, <3>3 DEF S!Spawn, S!Advance
      <4>3. s_started' = TRUE
        BY <1>1, <4>1 DEF S!Spawn
      <4> QED
        BY <3>1, <4>2, <4>3
    <3> QED
      BY <3>2, <3>3
  <2> QED
    BY <2>1 DEF WaitPCs
<1>2. CASE S!StopThread
  <2>1. /\ s_ctl = "stopping"
        /\ s_stop' = [s_stop EXCEPT ![s_k] = TRUE]
        /\ UNCHANGED <<s_started, s_cancelled>>
    BY <1>2 DEF S!StopThread
  <2>2. /\ DOMAIN s_stop' = S!Workers
        /\ \A w \in 1 .. s_k - 1 : w \in S!Workers /\ s_stop'[w]
        /\ s_stop'[s_k]
    BY <1>t, <1>n, <2>1
  <2>3. CASE s_k < 1
    <3>1. s_ctl' = "stopping" /\ s_k' = s_k + 1
      BY <1>2, <2>3 DEF S!StopThread, S!Advance
    <3>2. \A w \in 1 .. s_k' - 1 : s_stop'[w]
      BY <1>t, <1>n, <2>2, <3>1
    <3> QED
      BY <2>1, <3>1, <3>2 DEF WaitPCs
  <2>4. CASE ~(s_k < 1)
    <3>1. s_ctl' = "idle" /\ s_k = 1
      BY <1>2, <1>t, <1>n, <2>4 DEF S!StopThread, S!Advance
    <3>2. \A w \in DOMAIN s_stop' : s_stop'[w]
      BY <1>t, <1>n, <2>2, <3>1
    <3> QED
      BY <2>1, <3>1, <3>2 DEF WaitPCs
  <2> QED
    BY <2>3, <2>4
<1>3. CASE S!Wake \/ S!NudgeTest \/ S!Nudge \/ S!Join
  <2>1. /\ s_ctl \in WaitPCs /\ s_ctl' \in WaitPCs
        /\ s_ctl # "returned"
        /\ UNCHANGED <<s_started, s_cancelled, s_stop>>
    BY <1>3
    DEF S!Wake, S!NudgeTest, S!Nudge, S!Join, S!Advance, WaitPCs
  <2>2. \A w \in DOMAIN s_stop : s_stop[w]
    BY <1>t, <2>1, ChecksumSame DEF PoolsInv, SP!PoolInv, SP!ControlInv, WaitPCs, SP!WaitPCs
  <2> QED
    BY <2>1, <2>2 DEF WaitPCs
<1> QED
  BY <1>1, <1>2, <1>3 DEF S!Controller

(* A call of any member keeps the writer's stage.                          *)
LEMMA WriterCall ==
    ASSUME PoolsInv, ClientInv, StageInv, CallMember
    PROVE  WStage'
<1>g. /\ todo # <<>> /\ MembersIdle /\ todo' = Tail(todo)
      /\ UNCHANGED <<calling, started_, stopped_, cancelled_>>
  BY DEF CallMember
<1>p. /\ \A c : Pending(c)' <=> Pending(c) /\ c # Head(todo)
      /\ Pending(Head(todo)) /\ Head(todo) \in CallNames
  BY <1>g, CallMade
<1>i. /\ w_ctl \in {"idle", "returned"} /\ w_k = 1
      /\ \A n \in 1 .. w_k - 1 : FALSE
  BY <1>g DEF MembersIdle, PoolsInv, WP!PoolInv, WP!ControlInv
<1> USE DEF StageInv, WStage, Stage, Fresh, Asked, Waited, Cancelling
<1>1. CASE CallHasher \/ CallChecksum \/ CallReader
  <2>1. UNCHANGED wvars
    BY <1>1 DEF CallHasher, CallChecksum, CallReader
  <2>2. Head(todo) \notin {"w.start", "w.request_stop",
                         "w.request_cancellation", "w.wait"}
    BY <1>1 DEF CallHasher, CallChecksum, CallReader
  <2> QED
    BY <1>g, <1>p, <2>1, <2>2 DEF wvars
<1>2. CASE CallWriter
  <2>g. /\ Head(todo) = "w.start" => ~w_started /\ ~w_cancelled
        /\ Head(todo) \in {"w.request_stop", "w.request_cancellation"} => w_started
    BY <1>g, WriterGuards
  <2>w. Head(todo) = "w.wait" /\ w_ctl = "idle" => \A w \in W!Workers : w_stop[w]
    BY <1>g, WriterGuards
  <2>d. DOMAIN w_stop = W!Workers
    BY WriterSame DEF PoolsInv, WP!PoolInv, WP!PoolType
  <2>1. CASE Head(todo) = "w.start" /\ W!start
    <3>1. calling = "start" /\ ~started_ /\ ~stopped_
      BY <1>p, <2>1 DEF ClientInv, StartNames
    <3>2. /\ w_ctl' = "starting"
          /\ UNCHANGED <<w_started, w_cancelled, w_stop, w_k>>
      BY <2>1, <2>g DEF W!start
    <3> QED
      BY <1>g, <1>p, <2>1, <3>1, <3>2
  <2>2. CASE Head(todo) = "w.request_stop" /\ W!request_stop
    <3>1. calling = "wait" /\ started_ /\ ~stopped_
      BY <1>p, <2>2 DEF ClientInv, StopNames
    <3>2. /\ w_ctl = "idle" /\ w_ctl' = "stopping"
          /\ UNCHANGED <<w_started, w_cancelled, w_stop, w_k>>
      BY <2>2 DEF W!request_stop
    <3> QED
      BY <1>g, <1>p, <1>i, <2>2, <2>g, <3>1, <3>2 DEF WaitPCs
  <2>3. CASE Head(todo) = "w.request_cancellation" /\ W!request_cancellation
    <3>1. calling = "cancel" /\ started_ /\ ~stopped_
      BY <1>p, <2>3 DEF ClientInv, CancelNames
    <3>2. /\ w_ctl = "idle" /\ w_ctl' = "stopping"
          /\ UNCHANGED <<w_started, w_stop, w_k>>
      BY <2>3 DEF W!request_cancellation
    <3> QED
      BY <1>g, <1>p, <1>i, <2>3, <2>g, <3>1, <3>2 DEF WaitPCs
  <2>4. CASE Head(todo) = "w.wait" /\ W!wait
    <3>1. calling \in {"wait", "cancel"} /\ started_ /\ ~stopped_
      BY <1>p, <2>4 DEF ClientInv, WaitNames
    <3>2. /\ w_ctl = "idle" /\ w_started /\ w_ctl' = "waking"
          /\ UNCHANGED <<w_started, w_cancelled, w_stop, w_k>>
      BY <2>4, <3>1 DEF W!wait
    <3> QED
      BY <1>g, <1>p, <2>4, <2>w, <2>d, <3>1, <3>2 DEF WaitPCs
  <2>5. CASE Head(todo) = "w.expects_done" /\ UNCHANGED wvars
    BY <1>g, <1>p, <2>5 DEF wvars
  <2> QED
    BY <1>2, <2>1, <2>2, <2>3, <2>4, <2>5 DEF CallWriter
<1> QED
  BY <1>1, <1>2 DEF CallMember

(* A loop inside such a call does so too.                                  *)
LEMMA WriterLoop ==
    ASSUME PoolsInv, WStage, W!Controller, UNCHANGED cvars
    PROVE  WStage'
<1> USE DEF WStage, Stage, Fresh, Asked, Waited, Pending, Cancelling, cvars
<1>t. /\ w_k \in W!Workers /\ DOMAIN w_stop = W!Workers
      /\ w_started \in BOOLEAN
  BY WriterSame DEF PoolsInv, WP!PoolInv, WP!PoolType
<1>n. W!Workers = 1 .. 1 /\ 1 \in Nat \ {0}
  BY StorageAssumption DEF W!Workers
<1>1. CASE W!Spawn
  <2>1. /\ w_ctl = "starting" /\ ~w_started
        /\ \/ w_ctl' = "starting"
           \/ w_ctl' = "idle" /\ w_started'
        /\ UNCHANGED <<w_cancelled, w_stop>>
    <3>1. /\ w_ctl = "starting" /\ ~w_started
          /\ UNCHANGED <<w_cancelled, w_stop>>
      BY <1>1 DEF W!Spawn, PoolsInv, WP!PoolInv, WP!ControlInv
    <3>2. CASE w_k < 1
      BY <1>1, <3>1, <3>2 DEF W!Spawn, W!Advance
    <3>3. CASE ~(w_k < 1)
      <4>1. w_k = 1
        BY <1>t, <1>n, <3>3
      <4>2. w_ctl' = "idle"
        BY <1>1, <3>3 DEF W!Spawn, W!Advance
      <4>3. w_started' = TRUE
        BY <1>1, <4>1 DEF W!Spawn
      <4> QED
        BY <3>1, <4>2, <4>3
    <3> QED
      BY <3>2, <3>3
  <2> QED
    BY <2>1 DEF WaitPCs
<1>2. CASE W!StopThread
  <2>1. /\ w_ctl = "stopping"
        /\ w_stop' = [w_stop EXCEPT ![w_k] = TRUE]
        /\ UNCHANGED <<w_started, w_cancelled>>
    BY <1>2 DEF W!StopThread
  <2>2. /\ DOMAIN w_stop' = W!Workers
        /\ \A w \in 1 .. w_k - 1 : w \in W!Workers /\ w_stop'[w]
        /\ w_stop'[w_k]
    BY <1>t, <1>n, <2>1
  <2>3. CASE w_k < 1
    <3>1. w_ctl' = "stopping" /\ w_k' = w_k + 1
      BY <1>2, <2>3 DEF W!StopThread, W!Advance
    <3>2. \A w \in 1 .. w_k' - 1 : w_stop'[w]
      BY <1>t, <1>n, <2>2, <3>1
    <3> QED
      BY <2>1, <3>1, <3>2 DEF WaitPCs
  <2>4. CASE ~(w_k < 1)
    <3>1. w_ctl' = "idle" /\ w_k = 1
      BY <1>2, <1>t, <1>n, <2>4 DEF W!StopThread, W!Advance
    <3>2. \A w \in DOMAIN w_stop' : w_stop'[w]
      BY <1>t, <1>n, <2>2, <3>1
    <3> QED
      BY <2>1, <3>1, <3>2 DEF WaitPCs
  <2> QED
    BY <2>3, <2>4
<1>3. CASE W!Wake \/ W!NudgeTest \/ W!Nudge \/ W!Join
  <2>1. /\ w_ctl \in WaitPCs /\ w_ctl' \in WaitPCs
        /\ w_ctl # "returned"
        /\ UNCHANGED <<w_started, w_cancelled, w_stop>>
    BY <1>3
    DEF W!Wake, W!NudgeTest, W!Nudge, W!Join, W!Advance, WaitPCs
  <2>2. \A w \in DOMAIN w_stop : w_stop[w]
    BY <1>t, <2>1, WriterSame DEF PoolsInv, WP!PoolInv, WP!ControlInv, WaitPCs, WP!WaitPCs
  <2> QED
    BY <2>1, <2>2 DEF WaitPCs
<1> QED
  BY <1>1, <1>2, <1>3 DEF W!Controller

(* A call of any member keeps the reader's stage.                          *)
LEMMA ReaderCall ==
    ASSUME PoolsInv, ClientInv, StageInv, CallMember
    PROVE  RStage'
<1>g. /\ todo # <<>> /\ MembersIdle /\ todo' = Tail(todo)
      /\ UNCHANGED <<calling, started_, stopped_, cancelled_>>
  BY DEF CallMember
<1>p. /\ \A c : Pending(c)' <=> Pending(c) /\ c # Head(todo)
      /\ Pending(Head(todo)) /\ Head(todo) \in CallNames
  BY <1>g, CallMade
<1> USE DEF StageInv, RStage, Fresh, Waited, Cancelling
<1>1. CASE CallHasher \/ CallChecksum \/ CallWriter
  <2>1. UNCHANGED rvars
    BY <1>1 DEF CallHasher, CallChecksum, CallWriter
  <2>2. Head(todo) \notin {"r.start", "r.wait"}
    BY <1>1 DEF CallHasher, CallChecksum, CallWriter
  <2> QED
    BY <1>g, <1>p, <2>1, <2>2 DEF rvars
<1>2. CASE CallReader
  <2>1. CASE Head(todo) = "r.start"
    <3>1. calling = "start" /\ ~stopped_ /\ UNCHANGED r_cancelled
      BY <1>p, <1>2, <2>1 DEF CallReader, ClientInv, StartNames
    <3> QED
      BY <1>g, <1>p, <2>1, <3>1
  <2>2. CASE Head(todo) = "r.request_cancellation"
    <3>1. calling = "cancel" /\ UNCHANGED reader
      BY <1>p, <1>2, <2>2 DEF CallReader, ClientInv, CancelNames
    <3> QED
      BY <1>g, <1>p, <2>2, <3>1
  <2>3. CASE Head(todo) = "r.wait"
    <3>1. reader = "exited" /\ started_ /\ UNCHANGED <<reader, r_cancelled>>
      BY <1>p, <1>2, <2>3 DEF CallReader, ClientInv, WaitNames
    <3> QED
      BY <1>g, <1>p, <2>3, <3>1
  <2> QED
    BY <1>2, <2>1, <2>2, <2>3 DEF CallReader
<1> QED
  BY <1>1, <1>2 DEF CallMember

(* The threads do not change the stage of a pool, and the reader ends by   *)
(* itself.                                                                 *)
LEMMA ThreadStage ==
    ASSUME ClientInv, StageInv, ReaderInv,
           \/ Reader \/ ChecksumWorker \/ Writer
           \/ \E w \in H!Workers : HashWorker(w)
    PROVE  ClientInv' /\ StageInv'
<1> DEFINE Fixed == /\ UNCHANGED <<h_started, h_cancelled, h_stop, h_ctl, h_k>>
                    /\ UNCHANGED <<s_started, s_cancelled, s_stop, s_ctl, s_k>>
                    /\ UNCHANGED <<w_started, w_cancelled, w_stop, w_ctl, w_k>>
<1>1. UNCHANGED cvars
  BY DEF Reader, ReaderGet, ReaderRead, ReaderPush, ReaderPushChecksum,
         ReaderDrop, ReaderEnd, Elsewhere, ChecksumWorker, ChecksumChunk,
         Writer, WritePiece, HashWorker, HashChunk
<1>2. ClientInv'
  BY <1>1 DEF ClientInv, Pending, cvars
<1>3. CASE Reader
  <2>1. Fixed
    BY <1>3
    DEF Reader, ReaderGet, ReaderRead, ReaderPush, ReaderPushChecksum, ReaderDrop,
        ReaderEnd, Elsewhere, H!Submit, S!Submit, hvars, svars, wvars
  <2>2. reader \notin {"unborn", "exited"} /\ UNCHANGED r_cancelled
    BY <1>3
    DEF Reader, ReaderGet, ReaderRead, ReaderPush, ReaderPushChecksum, ReaderDrop,
        ReaderEnd
  <2> QED
    BY <1>1, <1>2, <2>1, <2>2
    DEF StageInv, HStage, SStage, WStage, RStage, Stage, Fresh, Asked, Waited,
        Pending, Cancelling, cvars
<1>4. CASE ChecksumWorker \/ Writer \/ \E w \in H!Workers : HashWorker(w)
  <2>1. UNCHANGED rvars
    BY <1>4 DEF ChecksumWorker, ChecksumChunk, Writer, WritePiece, HashWorker, HashChunk
  <2>2. ASSUME ChecksumWorker PROVE Fixed
    BY <2>2
    DEF ChecksumWorker, ChecksumChunk, S!HashChunk, S!Worker, S!LoopTest, S!Pop,
        S!Woken, S!EndTest, S!DrainEmpty, S!DrainPop, S!Finish, hvars, svars, wvars
  <2>3. ASSUME Writer PROVE Fixed
    BY <2>3
    DEF Writer, WritePiece, W!Invoke, W!Worker, W!LoopTest, W!Pop, W!EndTest,
        W!DrainEmpty, W!DrainPop, W!Finish, W!Sweep, hvars, svars, wvars
  <2>4. ASSUME NEW w \in H!Workers, HashWorker(w) PROVE Fixed
    BY <2>4
    DEF HashWorker, HashChunk, H!HashChunk, H!Worker, H!LoopTest, H!Pop, H!Woken,
        H!EndTest, H!DrainEmpty, H!DrainPop, H!Finish, W!Submit, hvars, svars, wvars
  <2>5. Fixed
    BY <1>4, <2>2, <2>3, <2>4
  <2> QED
    BY <1>1, <1>2, <2>1, <2>5
    DEF StageInv, HStage, SStage, WStage, RStage, Stage, Fresh, Asked, Waited,
        Pending, Cancelling, cvars, rvars
<1> QED
  BY <1>3, <1>4

(* Every step keeps ClientInv and StageInv.                                *)
LEMMA StageStep ==
    ASSUME PoolsInv, ClientInv, StageInv, ReaderInv, [Next]_vars
    PROVE  ClientInv' /\ StageInv'
<1>1. CASE start \/ wait \/ cancel \/ Return
  BY <1>1, StartClient, WaitClient, CancelClient, ReturnClient
<1>2. CASE CallMember
  <2>1. ClientInv'
    BY <1>2, CallMade DEF CallMember
  <2> QED
    BY <1>2, <2>1, HasherCall, ChecksumCall, WriterCall, ReaderCall DEF StageInv
<1>3. CASE InMember
  <2>1. UNCHANGED cvars /\ UNCHANGED rvars
    BY <1>3 DEF InMember
  <2>2. ClientInv' /\ RStage'
    BY <2>1 DEF ClientInv, StageInv, RStage, Fresh, Waited, Pending, Cancelling,
       cvars, rvars
  <2>h. UNCHANGED hvars => HStage'
    BY <2>1 DEF StageInv, HStage, Stage, Fresh, Asked, Waited, Pending, Cancelling,
       cvars, hvars
  <2>s. UNCHANGED svars => SStage'
    BY <2>1 DEF StageInv, SStage, Stage, Fresh, Asked, Waited, Pending, Cancelling,
       cvars, svars
  <2>w. UNCHANGED wvars => WStage'
    BY <2>1 DEF StageInv, WStage, Stage, Fresh, Asked, Waited, Pending, Cancelling,
       cvars, wvars
  <2> QED
    BY <1>3, <2>1, <2>2, <2>h, <2>s, <2>w, HasherLoop, ChecksumLoop, WriterLoop
    DEF InMember, StageInv
<1>4. CASE \/ Reader \/ ChecksumWorker \/ Writer
           \/ \E w \in H!Workers : HashWorker(w)
  BY <1>4, ThreadStage
<1>5. CASE UNCHANGED vars
  <2>1. UNCHANGED <<hvars, svars, wvars, rvars, cvars>>
    BY <1>5 DEF vars
  <2>2. ClientInv'
    BY <2>1 DEF ClientInv, Pending, cvars
  <2>3. HStage' /\ WStage'
    BY <2>1 DEF StageInv, HStage, WStage, Stage, Fresh, Asked, Waited, Pending,
       Cancelling, hvars, wvars, cvars
  <2>4. SStage' /\ RStage'
    BY <2>1 DEF StageInv, SStage, RStage, Stage, Fresh, Asked, Waited, Pending,
       Cancelling, svars, rvars, cvars
  <2> QED
    BY <2>2, <2>3, <2>4 DEF StageInv
<1> QED
  BY <1>1, <1>2, <1>3, <1>4, <1>5 DEF Next, Client

-----------------------------------------------------------------------------
(* The places of the chunks: what the proofs of the pools say of them.     *)

(* The pools' own notion of who holds a chunk is the one used here.        *)
LEMMA PlacesSame ==
    /\ \A q, held, x : /\ HP!Holds(q, held, x) <=> Holds(q, held, x)
                       /\ SP!Holds(q, held, x) <=> Holds(q, held, x)
                       /\ WP!Holds(q, held, x) <=> Holds(q, held, x)
    /\ \A q, held, X : /\ HP!Once(q, held, X) <=> Once(q, held, X)
                       /\ SP!Once(q, held, X) <=> Once(q, held, X)
                       /\ WP!Once(q, held, X) <=> Once(q, held, X)
  BY DEF Holds, Once, HP!Holds, SP!Holds, WP!Holds, HP!Once, SP!Once, WP!Once

(* A step that neither pushes nor hashes a chunk leaves every chunk where  *)
(* it is: in the queue or with a worker.                                   *)
LEMMA HasherMoves ==
    ASSUME PoolsInv, PlaceInv,
           \/ UNCHANGED hvars
           \/ H!start \/ H!request_stop \/ H!request_cancellation \/ H!wait
           \/ H!Controller
           \/ \E w \in H!Workers : H!Worker(w)
    PROVE  /\ Once(h_queue', h_item', Chunks)
           /\ \A c \in Chunks : HHolds(c)' <=> HHolds(c)
<1>1. CASE UNCHANGED hvars
  BY <1>1 DEF PlaceInv, HHolds, hvars
<1>2. CASE \/ HP!start \/ HP!request_stop \/ HP!request_cancellation \/ HP!wait
           \/ HP!Controller
           \/ \E w \in HP!Workers : HP!Worker(w)
  <2>1. HP!PoolInv /\ HP!Once(h_queue, h_item, HP!Chunks)
    BY PlacesSame, HasherSame DEF PoolsInv, PlaceInv
  <2>2. /\ HP!Once(h_queue', h_item', HP!Chunks)
        /\ \A c \in HP!Chunks :
              HP!Holds(h_queue', h_item', c) <=> HP!Holds(h_queue, h_item, c)
    BY <1>2, <2>1, HP!MovePlaces, PoolAssumptions
  <2> QED
    BY <2>2, PlacesSame, HasherSame DEF HHolds
<1> QED
  BY <1>1, <1>2, HasherSame

(* The same for the checksum worker.                                       *)
LEMMA ChecksumMoves ==
    ASSUME PoolsInv, PlaceInv,
           \/ UNCHANGED svars
           \/ S!start \/ S!request_stop \/ S!request_cancellation \/ S!wait
           \/ S!Controller
           \/ \E w \in S!Workers : S!Worker(w)
    PROVE  /\ Once(s_queue', s_item', Chunks)
           /\ \A c \in Chunks : SHolds(c)' <=> SHolds(c)
<1>1. CASE UNCHANGED svars
  BY <1>1 DEF PlaceInv, SHolds, svars
<1>2. CASE \/ SP!start \/ SP!request_stop \/ SP!request_cancellation \/ SP!wait
           \/ SP!Controller
           \/ \E w \in SP!Workers : SP!Worker(w)
  <2>1. SP!PoolInv /\ SP!Once(s_queue, s_item, SP!Chunks)
    BY PlacesSame, ChecksumSame DEF PoolsInv, PlaceInv
  <2>2. /\ SP!Once(s_queue', s_item', SP!Chunks)
        /\ \A c \in SP!Chunks :
              SP!Holds(s_queue', s_item', c) <=> SP!Holds(s_queue, s_item, c)
    BY <1>2, <2>1, SP!MovePlaces, PoolAssumptions
  <2> QED
    BY <2>2, PlacesSame, ChecksumSame DEF SHolds
<1> QED
  BY <1>1, <1>2, ChecksumSame

(* The same for the writer.                                                *)
LEMMA WriterMoves ==
    ASSUME PoolsInv, PlaceInv,
           \/ UNCHANGED wvars
           \/ W!start \/ W!request_stop \/ W!request_cancellation \/ W!wait
           \/ W!Controller
           \/ \E w \in W!Workers : W!Worker(w)
    PROVE  /\ Once(w_queue', w_item', Chunks)
           /\ \A c \in Chunks : WHolds(c)' => WHolds(c)
           /\ ~w_cancelled => \A c \in Chunks : WHolds(c) => WHolds(c)'
<1>1. CASE UNCHANGED wvars
  BY <1>1 DEF PlaceInv, WHolds, wvars
<1>2. CASE \/ WP!start \/ WP!request_stop \/ WP!request_cancellation \/ WP!wait
           \/ WP!Controller
           \/ \E w \in WP!Workers : WP!Worker(w)
  <2>1. WP!PoolInv /\ WP!Once(w_queue, w_item, WP!Items)
    BY PlacesSame, WriterSame DEF PoolsInv, PlaceInv
  <2>2. /\ WP!Once(w_queue', w_item', WP!Items)
        /\ \A c \in WP!Items :
              WP!Holds(w_queue', w_item', c) => WP!Holds(w_queue, w_item, c)
        /\ ~w_cancelled =>
              \A c \in WP!Items :
                  WP!Holds(w_queue, w_item, c) => WP!Holds(w_queue', w_item', c)
    BY <1>2, <2>1, WP!MovePlaces, PoolAssumptions
  <2> QED
    BY <2>2, PlacesSame, WriterSame DEF WHolds
<1> QED
  BY <1>1, <1>2, WriterSame

-----------------------------------------------------------------------------
(* The steps that neither push nor take a chunk away.                      *)

DataInv ==
    /\ ReaderInv
    /\ PlaceInv
    /\ LossInv
    /\ RefsInv
    /\ BufferInv

(* A step that touches no chunk, no buffer and no counter keeps DataInv.   *)
LEMMA QuietData ==
    ASSUME DataInv, UNCHANGED <<reader, next, piece_index_, bvars, gvars>>,
           r_cancelled' \in BOOLEAN, terminated' \in BOOLEAN,
           Cancelling => Cancelling',
           Once(h_queue', h_item', Chunks),
           Once(s_queue', s_item', Chunks),
           Once(w_queue', w_item', Chunks),
           \A c \in Chunks : HHolds(c)' <=> HHolds(c),
           \A c \in Chunks : SHolds(c)' <=> SHolds(c),
           \A c \in Chunks : WHolds(c)' => WHolds(c),
           ~Cancelling => \A c \in Chunks : WHolds(c) => WHolds(c)'
    PROVE  DataInv'
<1> USE DEF DataInv, bvars, gvars
<1>1. ReaderInv'
  BY DEF ReaderInv
<1>p. \A c \in Chunks : (Pushed(c)' <=> Pushed(c)) /\ (PushedS(c)' <=> PushedS(c))
  BY DEF Pushed, PushedS
<1>2. PlaceInv'
  BY <1>p DEF PlaceInv
<1>3. LossInv'
  BY <1>p DEF LossInv
<1>4. RefsInv'
  BY DEF RefsInv, One
<1>5. BufferInv'
  BY DEF BufferInv, ReaderBuffers, InUse
<1> QED
  BY <1>1, <1>2, <1>3, <1>4, <1>5

(* The client's own steps, and the loops in its calls, keep DataInv.       *)
LEMMA ClientData ==
    ASSUME PoolsInv, ClientInv, StageInv, DataInv,
           \/ start \/ wait \/ cancel \/ Return \/ InMember \/ UNCHANGED vars
           \/ CallMember /\ ~(CallReader /\ Head(todo) = "r.start")
    PROVE  DataInv'
<1>c. w_cancelled => Cancelling
  BY DEF StageInv, WStage, Stage
<1>1. CASE start \/ wait \/ cancel \/ Return \/ UNCHANGED vars
  <2>1. UNCHANGED <<hvars, svars, wvars, terminated, rvars, bvars, gvars>>
    BY <1>1 DEF start, wait, cancel, Begin, Return, vars
  <2>2. Cancelling => Cancelling'
    BY <1>1 DEF start, wait, cancel, Begin, Return, vars, cvars, Cancelling
  <2>3. r_cancelled' \in BOOLEAN /\ terminated' \in BOOLEAN
    BY <2>1 DEF rvars, DataInv, ReaderInv
  <2> QED
    BY <1>c, <2>1, <2>2, <2>3, HasherMoves, ChecksumMoves, WriterMoves, QuietData
    DEF DataInv, rvars
<1>2. CASE InMember
  <2>1. UNCHANGED <<rvars, bvars, cvars, gvars>>
    BY <1>2 DEF InMember
  <2>2. terminated' \in BOOLEAN
    BY <1>2
    DEF InMember, DataInv, ReaderInv, H!Controller, H!Spawn, H!StopThread, H!Wake,
        H!NudgeTest, H!Nudge, H!Join, S!Controller, S!Spawn, S!StopThread, S!Wake,
        S!NudgeTest, S!Nudge, S!Join, W!Controller, W!Spawn, W!StopThread, W!Wake,
        W!NudgeTest, W!Nudge, W!Join
  <2>3. r_cancelled' \in BOOLEAN
    BY <2>1 DEF rvars, DataInv, ReaderInv
  <2>4. Cancelling' = Cancelling
    BY <2>1 DEF cvars, Cancelling
  <2>5. /\ UNCHANGED hvars \/ H!Controller
        /\ UNCHANGED svars \/ S!Controller
        /\ UNCHANGED wvars \/ W!Controller
    BY <1>2 DEF InMember
  <2> QED
    BY <1>c, <2>1, <2>2, <2>3, <2>4, <2>5, HasherMoves, ChecksumMoves, WriterMoves,
       QuietData
    DEF DataInv, rvars
<1>3. CASE CallMember /\ ~(CallReader /\ Head(todo) = "r.start")
  <2>1. /\ UNCHANGED <<bvars, gvars, calling, cancelled_>>
        /\ CallHasher \/ CallChecksum \/ CallWriter \/ CallReader
    BY <1>3 DEF CallMember
  <2>2. UNCHANGED <<reader, next, piece_index_>> /\ r_cancelled' \in BOOLEAN
    BY <1>3, <2>1
    DEF CallHasher, CallChecksum, CallWriter, CallReader, rvars, DataInv, ReaderInv
  <2>3. terminated' \in BOOLEAN
    BY <2>1
    DEF CallHasher, CallChecksum, CallWriter, CallReader, DataInv, ReaderInv,
        Expects, H!start, H!request_stop, H!request_cancellation, H!wait,
        S!start, S!request_stop, S!request_cancellation, S!wait,
        W!start, W!request_stop, W!request_cancellation, W!wait
  <2>4. Cancelling' = Cancelling
    BY <2>1 DEF Cancelling
  <2>5. \/ UNCHANGED hvars
        \/ H!start \/ H!request_stop \/ H!request_cancellation \/ H!wait
    BY <2>1 DEF CallHasher, CallChecksum, CallWriter, CallReader
  <2>6. \/ UNCHANGED svars
        \/ S!start \/ S!request_stop \/ S!request_cancellation \/ S!wait
    BY <2>1 DEF CallHasher, CallChecksum, CallWriter, CallReader
  <2>7. \/ UNCHANGED wvars
        \/ W!start \/ W!request_stop \/ W!request_cancellation \/ W!wait
    BY <2>1 DEF CallHasher, CallChecksum, CallWriter, CallReader
  <2> QED
    BY <1>c, <2>1, <2>2, <2>3, <2>4, <2>5, <2>6, <2>7, HasherMoves, ChecksumMoves,
       WriterMoves, QuietData
    DEF DataInv
<1> QED
  BY <1>1, <1>2, <1>3

(* The worker steps without hash_chunk or the work function, and the       *)
(* checksum worker's failing Expects(item.data != nullptr).                *)
LEMMA WorkerData ==
    ASSUME PoolsInv, StageInv, DataInv,
           \/ /\ \E w \in H!Workers : H!Worker(w)
              /\ UNCHANGED <<svars, wvars, rvars, bvars, cvars, gvars>>
           \/ S!Worker(1) /\ UNCHANGED <<hvars, wvars, rvars, bvars, cvars, gvars>>
           \/ W!Worker(1) /\ UNCHANGED <<hvars, svars, rvars, bvars, cvars, gvars>>
           \/ ChecksumChunk /\ s_item[1] \in NullChunks
    PROVE  DataInv'
<1>c. w_cancelled => Cancelling
  BY DEF StageInv, WStage, Stage
<1>1. UNCHANGED <<rvars, bvars, cvars, gvars>>
  BY DEF ChecksumChunk, gvars
<1>2. r_cancelled' \in BOOLEAN
  BY <1>1 DEF rvars, DataInv, ReaderInv
<1>3. terminated' \in BOOLEAN
  BY DEF DataInv, ReaderInv, ChecksumChunk,
         H!Worker, H!LoopTest, H!Pop, H!Woken, H!EndTest, H!DrainEmpty,
         H!DrainPop, H!Finish,
         S!Worker, S!LoopTest, S!Pop, S!Woken, S!EndTest, S!DrainEmpty,
         S!DrainPop, S!Finish,
         W!Worker, W!LoopTest, W!Pop, W!EndTest, W!DrainEmpty, W!DrainPop,
         W!Finish, W!Sweep
<1>4. Cancelling' = Cancelling
  BY <1>1 DEF cvars, Cancelling
<1>5. 1 \in S!Workers /\ 1 \in W!Workers
  BY DEF S!Workers, W!Workers
<1>6. /\ UNCHANGED hvars \/ \E w \in H!Workers : H!Worker(w)
      /\ UNCHANGED svars \/ S!Worker(1)
      /\ UNCHANGED wvars \/ W!Worker(1)
  BY DEF ChecksumChunk
<1> QED
  BY <1>c, <1>1, <1>2, <1>3, <1>4, <1>5, <1>6, HasherMoves, ChecksumMoves,
     WriterMoves, QuietData
  DEF DataInv, rvars

-----------------------------------------------------------------------------
(* The buffers.                                                            *)

(* The buffers in use are finitely many.                                   *)
LEMMA InUseFacts ==
    ASSUME RefsInv
    PROVE  IsFiniteSet(InUse) /\ Cardinality(InUse) \in Nat
<1>1. IsFiniteSet(Chunks)
  BY StorageAssumption, FS_Interval DEF Chunks
<1>2. IsFiniteSet(InUse)
  BY <1>1, FS_Subset DEF InUse
<1> QED
  BY <1>2, FS_CardinalityType

(* Releasing a shared_ptr returns the buffer with the last one.            *)
LEMMA ReleaseFacts ==
    ASSUME RefsInv, BufferInv, NEW c \in Chunks, refs[c] > 0, Release(c)
    PROVE  /\ free' \in Nat /\ UNCHANGED resources_left
           /\ refs' = [refs EXCEPT ![c] = refs[c] - 1]
           /\ Cardinality(InUse) \in Nat /\ Cardinality(InUse') \in Nat
           /\ \/ free' = free /\ Cardinality(InUse') = Cardinality(InUse)
              \/ free' = free + 1 /\ Cardinality(InUse) = Cardinality(InUse') + 1
<1>1. IsFiniteSet(InUse) /\ Cardinality(InUse) \in Nat
  BY InUseFacts
<1>2. /\ UNCHANGED resources_left
      /\ refs' = [refs EXCEPT ![c] = refs[c] - 1]
      /\ free' = IF refs[c] = 1 THEN free + 1 ELSE free
  BY DEF Release
<1>3. /\ refs[c] \in Nat /\ free \in Nat
      /\ \A d \in Chunks : refs'[d] = IF d = c THEN refs[c] - 1 ELSE refs[d]
  BY <1>2 DEF RefsInv, BufferInv
<1>4. CASE refs[c] = 1
  <2>1. InUse' = InUse \ {c} /\ c \in InUse
    BY <1>3, <1>4 DEF InUse
  <2>2. Cardinality(InUse') = Cardinality(InUse) - 1 /\ Cardinality(InUse') \in Nat
    BY <1>1, <2>1, FS_RemoveElement, FS_CardinalityType
  <2> QED
    BY <1>1, <1>2, <1>3, <1>4, <2>2
<1>5. CASE refs[c] # 1
  <2>1. InUse' = InUse
    BY <1>3, <1>5 DEF InUse
  <2> QED
    BY <1>1, <1>2, <1>3, <1>5, <2>1
<1> QED
  BY <1>4, <1>5

-----------------------------------------------------------------------------
(* The reader's steps between two pushes: no pool moves.                   *)

(* Pools that stand still hold what they held.                             *)
LEMMA StillPools ==
    ASSUME UNCHANGED <<h_queue, h_item, s_queue, s_item, w_queue, w_item>>
    PROVE  \A c : /\ HHolds(c)' <=> HHolds(c)
                  /\ SHolds(c)' <=> SHolds(c)
                  /\ WHolds(c)' <=> WHolds(c)
  BY DEF HHolds, SHolds, WHolds

(* Then PlaceInv stays true while the reader goes forward.                 *)
LEMMA StillPlaces ==
    ASSUME PlaceInv, UNCHANGED <<hvars, svars, wvars, gvars>>,
           \A c \in Chunks : Pushed(c) => Pushed(c)',
           \A c \in Chunks : PushedS(c) => PushedS(c)'
    PROVE  PlaceInv'
  BY StillPools DEF PlaceInv, hvars, svars, wvars, gvars

(* pool_.get() keeps DataInv: a buffer goes from the pool to the reader.   *)
LEMMA ReaderGetData ==
    ASSUME DataInv, ReaderGet PROVE DataInv'
<1> USE DEF DataInv
<1>1. /\ UNCHANGED <<hvars, svars, wvars, gvars, cvars>>
      /\ UNCHANGED <<refs, r_cancelled, next, piece_index_, terminated>>
      /\ reader \in {"get", "get2"} /\ reader' \in {"get2", "read"}
  BY DEF ReaderGet, Elsewhere
<1>p. \A c \in Chunks : (Pushed(c)' <=> Pushed(c)) /\ (PushedS(c)' <=> PushedS(c))
  BY <1>1 DEF Pushed, PushedS
<1>2. ReaderInv'
  BY <1>1 DEF ReaderInv
<1>3. PlaceInv'
  BY <1>1, <1>p, StillPlaces
<1>4. LossInv'
  BY <1>1, <1>p, StillPools DEF LossInv, Cancelling, hvars, svars, wvars, gvars, cvars
<1>5. RefsInv'
  BY <1>1, StillPools DEF RefsInv, One, hvars, svars, wvars
<1>6. BufferInv'
  <2>1. InUse' = InUse /\ Cardinality(InUse) \in Nat
    BY <1>1, InUseFacts DEF InUse
  <2>2. CASE reader' = "read"
    <3>1. ReaderBuffers = 0 /\ ReaderBuffers' = 1
      BY <1>1, <2>2 DEF ReaderBuffers
    <3>2. /\ free' \in Nat /\ resources_left' \in Nat
          /\ \/ free = free' + 1 /\ UNCHANGED resources_left
             \/ resources_left = resources_left' + 1 /\ UNCHANGED free
      BY <1>1, <2>2 DEF ReaderGet, TryPop, Construct, BufferInv
    <3>3. free + resources_left + 0 + Cardinality(InUse) = Capacity
      BY <3>1 DEF BufferInv
    <3>4. free' + resources_left' + 1 + Cardinality(InUse) = Capacity
      BY <2>1, <3>2, <3>3
    <3> QED
      BY <2>1, <3>1, <3>2, <3>4 DEF BufferInv
  <2>3. CASE reader' = "get2"
    <3>1. ReaderBuffers = 0 /\ ReaderBuffers' = 0
      BY <1>1, <2>3 DEF ReaderBuffers
    <3>2. UNCHANGED <<free, resources_left>>
      BY <2>3 DEF ReaderGet
    <3> QED
      BY <2>1, <3>1, <3>2 DEF BufferInv
  <2> QED
    BY <1>1, <2>2, <2>3
<1> QED
  BY <1>2, <1>3, <1>4, <1>5, <1>6

(* A chunk is skipped only after a cancellation.                           *)
LEMMA ReaderReadData ==
    ASSUME StageInv, DataInv, ReaderRead PROVE DataInv'
<1> USE DEF DataInv
<1>1. /\ UNCHANGED <<hvars, svars, wvars, gvars, cvars, bvars>>
      /\ UNCHANGED <<r_cancelled, piece_index_, terminated>>
      /\ reader = "read" /\ reader' \in {"read", "push"}
      /\ next <= ChunkCount
  BY DEF ReaderRead, Elsewhere
<1>2. \/ UNCHANGED next /\ reader' = "push"
      \/ next' = next + 1 /\ reader' = "read" /\ Cancelling
  BY DEF ReaderRead, StageInv, RStage
<1>3. next \in 1 .. ChunkCount + 1 /\ ChunkCount \in Nat
  BY StorageAssumption DEF ReaderInv
<1>4. ReaderInv'
  BY <1>1, <1>2, <1>3 DEF ReaderInv, Chunks
<1>p. \A c \in Chunks : (Pushed(c) => Pushed(c)') /\ (PushedS(c) => PushedS(c)')
  BY <1>1, <1>2, <1>3 DEF Pushed, PushedS, Chunks
<1>5. PlaceInv'
  BY <1>1, <1>p, StillPlaces
<1>6. LossInv'
  <2>1. CASE Cancelling
    BY <1>1, <2>1 DEF LossInv, Cancelling, cvars
  <2>2. CASE ~Cancelling
    <3>1. \A c \in Chunks : (Pushed(c)' <=> Pushed(c)) /\ (PushedS(c)' <=> PushedS(c))
      BY <1>1, <1>2, <2>2 DEF Pushed, PushedS
    <3> QED
      BY <1>1, <1>2, <2>2, <3>1, StillPools
      DEF LossInv, Cancelling, hvars, svars, wvars, gvars, cvars
  <2> QED
    BY <2>1, <2>2
<1>7. RefsInv'
  BY <1>1, StillPools DEF RefsInv, One, hvars, svars, wvars, bvars
<1>8. BufferInv'
  <2>1. ReaderBuffers = 1 /\ ReaderBuffers' = 1
    BY <1>1 DEF ReaderBuffers
  <2>2. InUse' = InUse
    BY <1>1 DEF InUse, bvars
  <2> QED
    BY <1>1, <2>1, <2>2 DEF BufferInv, bvars
<1> QED
  BY <1>4, <1>5, <1>6, <1>7, <1>8

(* chunk.reset() keeps DataInv: the last owner returns the buffer.         *)
LEMMA ReaderDropData ==
    ASSUME DataInv, ReaderDrop PROVE DataInv'
<1> USE DEF DataInv
<1>1. /\ UNCHANGED <<hvars, svars, wvars, gvars, cvars>>
      /\ UNCHANGED <<r_cancelled, terminated>>
      /\ reader = "drop" /\ next' = next + 1 /\ piece_index_' = piece_index_ + 1
  BY DEF ReaderDrop, Elsewhere
<1>2. /\ next \in Chunks /\ next \in 1 .. ChunkCount /\ ChunkCount \in Nat
      /\ piece_index_ \in 0 .. next - 1
  BY <1>1, StorageAssumption DEF ReaderInv, Chunks
<1>3. \/ next \in NullChunks /\ reader' = "read" /\ UNCHANGED bvars
      \/ /\ next \notin NullChunks /\ Release(next)
         /\ reader' = "get" \/ (reader' = "end" /\ next = ChunkCount)
  BY DEF ReaderDrop
<1>4. ReaderInv'
  <2>1. /\ reader' \in {"read", "get", "end"}
        /\ reader' = "end" => next = ChunkCount
    BY <1>3
  <2>2. next' \in 1 .. ChunkCount + 1 /\ piece_index_' \in 0 .. next' - 1
    BY <1>1, <1>2
  <2> QED
    BY <1>1, <2>1, <2>2 DEF ReaderInv
<1>p. \A c \in Chunks : (Pushed(c)' <=> Pushed(c)) /\ (PushedS(c)' <=> PushedS(c))
  BY <1>1, <1>2, <1>3 DEF Pushed, PushedS, Chunks
<1>5. PlaceInv'
  BY <1>1, <1>p, StillPlaces
<1>6. LossInv'
  <2>1. ~Cancelling => piece_index_' = next' - 1
    BY <1>1, <1>2 DEF LossInv
  <2> QED
    BY <1>1, <1>p, <2>1, StillPools
    DEF LossInv, Cancelling, hvars, svars, wvars, gvars, cvars
<1>h. \A c \in Chunks : (HHolds(c)' <=> HHolds(c)) /\ (SHolds(c)' <=> SHolds(c))
  BY <1>1, StillPools DEF hvars, svars, wvars
<1>7. CASE next \in NullChunks
  <2>1. reader' = "read" /\ UNCHANGED bvars
    BY <1>3, <1>7
  <2>2. RefsInv'
    BY <1>1, <1>7, <1>h, <2>1 DEF RefsInv, One, bvars
  <2>3. BufferInv'
    <3>1. ReaderBuffers = 1 /\ ReaderBuffers' = 1
      BY <1>1, <1>7, <2>1 DEF ReaderBuffers
    <3>2. InUse' = InUse
      BY <2>1 DEF InUse, bvars
    <3> QED
      BY <2>1, <3>1, <3>2 DEF BufferInv, bvars
  <2> QED
    BY <1>4, <1>5, <1>6, <2>2, <2>3
<1>8. CASE next \notin NullChunks
  <2>1. Release(next) /\ reader' \in {"get", "end"}
    BY <1>3, <1>8
  <2>2. refs[next] = 1 + One(HHolds(next)) + One(SHolds(next))
    BY <1>1, <1>2, <1>8 DEF RefsInv, One
  <2>3. refs[next] \in 1 .. 3
    BY <2>2 DEF One
  <2>4. /\ free' \in Nat /\ UNCHANGED resources_left
        /\ refs' = [refs EXCEPT ![next] = refs[next] - 1]
        /\ Cardinality(InUse) \in Nat /\ Cardinality(InUse') \in Nat
        /\ \/ free' = free /\ Cardinality(InUse') = Cardinality(InUse)
           \/ free' = free + 1 /\ Cardinality(InUse) = Cardinality(InUse') + 1
    BY <1>2, <2>1, <2>3, ReleaseFacts
  <2>5. RefsInv'
    <3>1. refs' \in [Chunks -> 0 .. 3]
      BY <1>2, <2>3, <2>4 DEF RefsInv
    <3>2. ASSUME NEW c \in Chunks, c # next
          PROVE  refs'[c] = IF c \in NullChunks THEN 0
                            ELSE One(HHolds(c)) + One(SHolds(c))
      BY <2>4, <3>2 DEF RefsInv, One
    <3>3. refs'[next] = One(HHolds(next)) + One(SHolds(next))
      BY <1>2, <2>2, <2>4 DEF RefsInv, One
    <3>4. ASSUME NEW c \in Chunks
          PROVE  refs'[c] = IF c \in NullChunks THEN 0
                            ELSE One(HHolds(c)) + One(SHolds(c))
      BY <1>8, <3>2, <3>3
    <3> QED
      BY <1>h, <2>1, <3>1, <3>4 DEF RefsInv, One
  <2>6. BufferInv'
    <3>1. ReaderBuffers = 0 /\ ReaderBuffers' = 0
      BY <1>1, <1>8, <2>1 DEF ReaderBuffers
    <3> QED
      <4>1. free + resources_left + 0 + Cardinality(InUse) = Capacity
        BY <3>1 DEF BufferInv
      <4>2. free \in Nat /\ resources_left \in Nat /\ Capacity \in Nat
        BY StorageAssumption DEF BufferInv
      <4>3. free' + resources_left + 0 + Cardinality(InUse') = Capacity
        BY <2>4, <4>1, <4>2
      <4> QED
        BY <2>4, <3>1, <4>2, <4>3 DEF BufferInv
  <2> QED
    BY <1>4, <1>5, <1>6, <2>5, <2>6
<1> QED
  BY <1>7, <1>8

(* The end of run() keeps DataInv.                                         *)
LEMMA ReaderEndData ==
    ASSUME DataInv, ReaderEnd PROVE DataInv'
<1> USE DEF DataInv
<1>1. /\ UNCHANGED <<hvars, svars, wvars, gvars, cvars, resources_left, refs>>
      /\ UNCHANGED <<r_cancelled, next, piece_index_>>
      /\ terminated' \in BOOLEAN
      /\ reader' = "exited"
      /\ \/ reader = "end" /\ UNCHANGED free
         \/ reader = "read" /\ next > ChunkCount /\ free' = free + 1
  BY DEF ReaderEnd, Elsewhere
<1>p. \A c \in Chunks : (Pushed(c)' <=> Pushed(c)) /\ (PushedS(c)' <=> PushedS(c))
  BY <1>1 DEF Pushed, PushedS
<1>2. ReaderInv'
  BY <1>1, StorageAssumption DEF ReaderInv
<1>3. PlaceInv'
  BY <1>1, <1>p, StillPlaces
<1>4. LossInv'
  BY <1>1, <1>p, StillPools DEF LossInv, Cancelling, hvars, svars, wvars, gvars, cvars
<1>5. RefsInv'
  BY <1>1, StillPools DEF RefsInv, One, hvars, svars, wvars
<1>6. BufferInv'
  <2>1. InUse' = InUse /\ Cardinality(InUse) \in Nat
    BY <1>1, InUseFacts DEF InUse
  <2>2. CASE reader = "end"
    BY <1>1, <2>1, <2>2 DEF BufferInv, ReaderBuffers
  <2>3. CASE reader = "read"
    BY <1>1, <2>1, <2>3, StorageAssumption DEF BufferInv, ReaderBuffers
  <2> QED
    BY <1>1, <2>2, <2>3
<1> QED
  BY <1>2, <1>3, <1>4, <1>5, <1>6

(* reader_->start(): the thread begins.                                    *)
LEMMA ReaderStartData ==
    ASSUME PoolsInv, ClientInv, StageInv, DataInv,
           CallMember, CallReader, Head(todo) = "r.start"
    PROVE  DataInv'
<1> USE DEF DataInv
<1>1. /\ UNCHANGED <<hvars, svars, wvars, gvars, calling, cancelled_, bvars>>
      /\ UNCHANGED <<r_cancelled, next, piece_index_, terminated>>
      /\ reader' = "get"
  BY DEF CallReader, CallMember
<1>2. reader = "unborn"
  BY ReaderGuards DEF CallMember
<1>p. \A c \in Chunks : (Pushed(c)' <=> Pushed(c)) /\ (PushedS(c)' <=> PushedS(c))
  BY <1>1, <1>2 DEF Pushed, PushedS
<1>3. ReaderInv'
  BY <1>1 DEF ReaderInv
<1>4. PlaceInv'
  BY <1>1, <1>p, StillPlaces
<1>5. LossInv'
  BY <1>1, <1>p, StillPools DEF LossInv, Cancelling, hvars, svars, wvars, gvars
<1>6. RefsInv'
  BY <1>1, <1>2, StillPools DEF RefsInv, One, hvars, svars, wvars, bvars
<1>7. BufferInv'
  BY <1>1, <1>2 DEF BufferInv, ReaderBuffers, InUse, bvars
<1> QED
  BY <1>3, <1>4, <1>5, <1>6, <1>7

-----------------------------------------------------------------------------
(* The reader's pushes.                                                    *)

(* The push to the hash queue keeps DataInv.                               *)
LEMMA ReaderPushData ==
    ASSUME PoolsInv, DataInv, ReaderPush PROVE DataInv'
<1> USE DEF DataInv
<1>1. /\ UNCHANGED <<svars, wvars, gvars, cvars, free, resources_left>>
      /\ UNCHANGED <<r_cancelled, next, piece_index_, terminated>>
      /\ reader = "push" /\ reader' = IF WithChecksum THEN "push2" ELSE "drop"
      /\ H!Submit(next)
      /\ refs' = IF next \in NullChunks THEN refs ELSE [refs EXCEPT ![next] = 2]
  BY DEF ReaderPush, Elsewhere, H!Submit
<1>2. /\ next \in Chunks /\ ~Pushed(next) /\ ~PushedS(next)
      /\ reader' \in {"push2", "drop"} /\ WithChecksum \in BOOLEAN
  BY <1>1, StorageAssumption DEF ReaderInv, Pushed, PushedS, Chunks
<1>3. ~HHolds(next) /\ ~SHolds(next) /\ hashed[next] = 0
  BY <1>2 DEF PlaceInv
<1>4. /\ Once(h_queue', h_item', Chunks)
      /\ \A x \in Chunks : HHolds(x)' <=> HHolds(x) \/ x = next
  <2>1. /\ HP!PoolInv /\ HP!Once(h_queue, h_item, HP!Chunks)
        /\ next \in HP!Chunks /\ HP!Submit(next) /\ ~HP!Holds(h_queue, h_item, next)
    BY <1>1, <1>2, <1>3, PlacesSame, HasherSame DEF PoolsInv, PlaceInv, HHolds
  <2>2. /\ HP!Once(h_queue', h_item', HP!Chunks)
        /\ \A x \in HP!Chunks : HP!Holds(h_queue', h_item', x)
                                <=> HP!Holds(h_queue, h_item, x) \/ x = next
    BY <2>1, HP!SubmitPlaces, PoolAssumptions
  <2> QED
    BY <2>2, PlacesSame, HasherSame DEF HHolds
<1>5. \A c \in Chunks : (SHolds(c)' <=> SHolds(c)) /\ (WHolds(c)' <=> WHolds(c))
  BY <1>1 DEF SHolds, WHolds, svars, wvars
<1>6. \A c \in Chunks : /\ Pushed(c)' <=> Pushed(c) \/ c = next
                        /\ PushedS(c) => PushedS(c)'
                        /\ WithChecksum => (PushedS(c)' <=> PushedS(c))
  BY <1>1 DEF Pushed, PushedS
<1>7. ReaderInv'
  BY <1>1, <1>2 DEF ReaderInv
<1>8. PlaceInv'
  BY <1>1, <1>3, <1>4, <1>5, <1>6 DEF PlaceInv, gvars, svars, wvars
<1>9. LossInv'
  BY <1>1, <1>4, <1>5, <1>6 DEF LossInv, Cancelling, gvars, cvars
<1>10. RefsInv'
  <2>1. \A c \in Chunks : refs'[c] = IF c = next /\ next \notin NullChunks THEN 2
                                     ELSE refs[c]
    BY <1>1, <1>2 DEF RefsInv
  <2>2. refs' \in [Chunks -> 0 .. 3]
    BY <1>1, <1>2 DEF RefsInv
  <2>3. ASSUME NEW c \in Chunks
        PROVE  refs'[c] = IF c \in NullChunks THEN 0
                          ELSE One(c = next) + One(HHolds(c)') + One(SHolds(c)')
    BY <1>1, <1>3, <1>4, <1>5, <2>1 DEF RefsInv, One
  <2> QED
    BY <1>1, <1>2, <2>2, <2>3 DEF RefsInv, One
<1>11. BufferInv'
  <2>1. CASE next \in NullChunks
    <3>1. ReaderBuffers = 1 /\ ReaderBuffers' = 1
      BY <1>1, <1>2, <2>1 DEF ReaderBuffers
    <3>2. InUse' = InUse
      BY <1>1, <2>1 DEF InUse
    <3> QED
      BY <1>1, <3>1, <3>2 DEF BufferInv
  <2>2. CASE next \notin NullChunks
    <3>1. ReaderBuffers = 1 /\ ReaderBuffers' = 0
      BY <1>1, <1>2, <2>2 DEF ReaderBuffers
    <3>2. refs[next] = 0
      BY <1>1, <1>2, <1>3, <2>2 DEF RefsInv, One
    <3>3. InUse' = InUse \cup {next} /\ next \notin InUse
      BY <1>1, <1>2, <2>2, <3>2 DEF InUse, RefsInv
    <3>4. /\ Cardinality(InUse) \in Nat
          /\ Cardinality(InUse') = Cardinality(InUse) + 1
      BY <3>3, InUseFacts, FS_AddElement
    <3>5. free + resources_left + 1 + Cardinality(InUse) = Capacity
      BY <3>1 DEF BufferInv
    <3>6. free \in Nat /\ resources_left \in Nat
      BY DEF BufferInv
    <3>7. free + resources_left + 0 + Cardinality(InUse') = Capacity
      BY <3>4, <3>5, <3>6
    <3> QED
      BY <1>1, <3>1, <3>6, <3>7 DEF BufferInv
  <2> QED
    BY <2>1, <2>2
<1> QED
  BY <1>7, <1>8, <1>9, <1>10, <1>11

(* The push to the checksum queue keeps DataInv.                           *)
LEMMA ReaderPushChecksumData ==
    ASSUME PoolsInv, DataInv, ReaderPushChecksum PROVE DataInv'
<1> USE DEF DataInv
<1>1. /\ UNCHANGED <<hvars, wvars, gvars, cvars, free, resources_left>>
      /\ UNCHANGED <<r_cancelled, next, piece_index_, terminated>>
      /\ reader = "push2" /\ reader' = "drop"
      /\ S!Submit(next)
      /\ refs' = IF next \in NullChunks THEN refs
                 ELSE [refs EXCEPT ![next] = refs[next] + 1]
  BY DEF ReaderPushChecksum, Elsewhere, S!Submit
<1>2. next \in Chunks /\ ~PushedS(next) /\ WithChecksum
  BY <1>1 DEF ReaderInv, PushedS, Chunks
<1>3. ~SHolds(next) /\ summed[next] = 0
  BY <1>2 DEF PlaceInv
<1>4. /\ Once(s_queue', s_item', Chunks)
      /\ \A x \in Chunks : SHolds(x)' <=> SHolds(x) \/ x = next
  <2>1. /\ SP!PoolInv /\ SP!Once(s_queue, s_item, SP!Chunks)
        /\ next \in SP!Chunks /\ SP!Submit(next) /\ ~SP!Holds(s_queue, s_item, next)
    BY <1>1, <1>2, <1>3, PlacesSame, ChecksumSame DEF PoolsInv, PlaceInv, SHolds
  <2>2. /\ SP!Once(s_queue', s_item', SP!Chunks)
        /\ \A x \in SP!Chunks : SP!Holds(s_queue', s_item', x)
                                <=> SP!Holds(s_queue, s_item, x) \/ x = next
    BY <2>1, SP!SubmitPlaces, PoolAssumptions
  <2> QED
    BY <2>2, PlacesSame, ChecksumSame DEF SHolds
<1>5. \A c \in Chunks : (HHolds(c)' <=> HHolds(c)) /\ (WHolds(c)' <=> WHolds(c))
  BY <1>1 DEF HHolds, WHolds, hvars, wvars
<1>6. \A c \in Chunks : /\ Pushed(c)' <=> Pushed(c)
                        /\ PushedS(c)' <=> PushedS(c) \/ c = next
  BY <1>1 DEF Pushed, PushedS
<1>7. ReaderInv'
  BY <1>1, <1>2 DEF ReaderInv
<1>8. PlaceInv'
  BY <1>1, <1>2, <1>3, <1>4, <1>5, <1>6 DEF PlaceInv, gvars, hvars, wvars
<1>9. LossInv'
  BY <1>1, <1>4, <1>5, <1>6 DEF LossInv, Cancelling, gvars, cvars
<1>10. \A c \in Chunks : refs'[c] = IF c = next /\ next \notin NullChunks
                                    THEN refs[c] + 1 ELSE refs[c]
  BY <1>1, <1>2 DEF RefsInv
<1>11. next \notin NullChunks => refs[next] = 1 + One(HHolds(next))
  BY <1>1, <1>2, <1>3 DEF RefsInv, One
<1>12. RefsInv'
  <2>1. refs' \in [Chunks -> 0 .. 3]
    <3>1. next \notin NullChunks => refs[next] + 1 \in 0 .. 3
      BY <1>11 DEF One
    <3> QED
      BY <1>1, <1>2, <3>1 DEF RefsInv
  <2>2. ASSUME NEW c \in Chunks
        PROVE  refs'[c] = IF c \in NullChunks THEN 0
                          ELSE One(c = next) + One(HHolds(c)') + One(SHolds(c)')
    BY <1>1, <1>3, <1>4, <1>5, <1>10 DEF RefsInv, One
  <2> QED
    BY <1>1, <2>1, <2>2 DEF RefsInv, One
<1>13. BufferInv'
  <2>1. ReaderBuffers' = ReaderBuffers
    BY <1>1 DEF ReaderBuffers
  <2>2. InUse' = InUse
    <3>1. next \notin NullChunks => refs[next] > 0 /\ refs[next] \in Int
      BY <1>11 DEF One
    <3> QED
      BY <1>2, <1>10, <3>1 DEF InUse
  <2> QED
    BY <1>1, <2>1, <2>2 DEF BufferInv
<1> QED
  BY <1>7, <1>8, <1>9, <1>12, <1>13

-----------------------------------------------------------------------------
(* The workers take chunks away.                                           *)

(* hash_chunk: the chunk leaves the hash workers and, if it has data,      *)
(* comes to the writer; the shared_ptr to its buffer goes.                 *)
LEMMA HashChunkData ==
    ASSUME PoolsInv, DataInv, NEW w \in H!Workers, HashChunk(w) PROVE DataInv'
<1> USE DEF DataInv
<1> DEFINE c == h_item[w]
<1>1. /\ UNCHANGED <<svars, rvars, cvars, summed, written, terminated>>
      /\ H!HashChunk(w)
      /\ hashed' = [hashed EXCEPT ![c] = hashed[c] + 1]
      /\ c \in NullChunks => UNCHANGED <<wvars, bvars>>
      /\ c \notin NullChunks => W!Submit(c) /\ Release(c)
  BY DEF HashChunk, H!HashChunk
<1>2. /\ c \in Chunks /\ HHolds(c)
      /\ Once(h_queue', h_item', Chunks)
      /\ \A x \in Chunks : HHolds(x)' <=> HHolds(x) /\ x # c
  <2>1. /\ HP!PoolInv /\ HP!Once(h_queue, h_item, HP!Chunks)
        /\ w \in HP!Workers /\ HP!HashChunk(w)
    BY <1>1, PlacesSame, HasherSame DEF PoolsInv, PlaceInv
  <2>2. /\ c \in HP!Chunks /\ HP!Holds(h_queue, h_item, c)
        /\ HP!Once(h_queue', h_item', HP!Chunks)
        /\ \A x \in HP!Chunks : HP!Holds(h_queue', h_item', x)
                                <=> HP!Holds(h_queue, h_item, x) /\ x # c
    BY <2>1, HP!HashPlaces, PoolAssumptions
  <2> QED
    BY <2>2, PlacesSame, HasherSame DEF HHolds
<1> HIDE DEF c
<1>3. Pushed(c) /\ hashed[c] = 0 /\ ~WHolds(c) /\ written[c] = 0
  BY <1>2 DEF PlaceInv
<1>4. /\ hashed' \in [Chunks -> {0, 1}]
      /\ \A x \in Chunks : hashed'[x] = IF x = c THEN 1 ELSE hashed[x]
  BY <1>1, <1>2, <1>3 DEF PlaceInv
<1>5. /\ Once(w_queue', w_item', Chunks)
      /\ \A x \in Chunks : WHolds(x)' <=> WHolds(x) \/ (x = c /\ c \notin NullChunks)
  <2>1. CASE c \in NullChunks
    BY <1>1, <2>1 DEF PlaceInv, WHolds, wvars
  <2>2. CASE c \notin NullChunks
    <3>1. /\ WP!PoolInv /\ WP!Once(w_queue, w_item, WP!Items)
          /\ c \in WP!Items /\ WP!Submit(c) /\ ~WP!Holds(w_queue, w_item, c)
      BY <1>1, <1>2, <1>3, <2>2, PlacesSame, WriterSame DEF PoolsInv, PlaceInv, WHolds
    <3>2. /\ WP!Once(w_queue', w_item', WP!Items)
          /\ \A x \in WP!Items : WP!Holds(w_queue', w_item', x)
                                 <=> WP!Holds(w_queue, w_item, x) \/ x = c
      BY <3>1, WP!SubmitPlaces, PoolAssumptions
    <3> QED
      BY <2>2, <3>2, PlacesSame, WriterSame DEF WHolds
  <2> QED
    BY <2>1, <2>2
<1>6. \A x \in Chunks : /\ SHolds(x)' <=> SHolds(x)
                        /\ Pushed(x)' <=> Pushed(x)
                        /\ PushedS(x)' <=> PushedS(x)
  BY <1>1 DEF SHolds, Pushed, PushedS, svars, rvars
<1>7. ReaderInv'
  BY <1>1 DEF ReaderInv, rvars
<1>8. PlaceInv'
  BY <1>1, <1>2, <1>3, <1>4, <1>5, <1>6 DEF PlaceInv, svars
<1>9. LossInv'
  BY <1>1, <1>2, <1>4, <1>5, <1>6 DEF LossInv, Cancelling, rvars, cvars
<1>r. UNCHANGED <<reader, next>> /\ ReaderBuffers' = ReaderBuffers
  BY <1>1 DEF rvars, ReaderBuffers
<1>10. CASE c \in NullChunks
  <2>1. UNCHANGED bvars
    BY <1>1, <1>10
  <2>2. RefsInv'
    BY <1>2, <1>6, <1>10, <1>r, <2>1 DEF RefsInv, One, bvars
  <2>3. BufferInv'
    BY <1>r, <2>1 DEF BufferInv, InUse, bvars
  <2> QED
    BY <1>7, <1>8, <1>9, <2>2, <2>3
<1>11. CASE c \notin NullChunks
  <2>1. refs[c] = One(c = next /\ reader \in {"push2", "drop"}) + 1 + One(SHolds(c))
    BY <1>2, <1>11 DEF RefsInv, One
  <2>2. refs[c] \in 1 .. 3
    BY <2>1 DEF One
  <2>3. /\ free' \in Nat /\ UNCHANGED resources_left
        /\ refs' = [refs EXCEPT ![c] = refs[c] - 1]
        /\ Cardinality(InUse) \in Nat /\ Cardinality(InUse') \in Nat
        /\ \/ free' = free /\ Cardinality(InUse') = Cardinality(InUse)
           \/ free' = free + 1 /\ Cardinality(InUse) = Cardinality(InUse') + 1
    BY <1>1, <1>2, <1>11, <2>2, ReleaseFacts
  <2>4. RefsInv'
    <3>1. refs' \in [Chunks -> 0 .. 3]
      BY <1>2, <2>2, <2>3 DEF RefsInv
    <3>2. refs'[c] = One(c = next /\ reader \in {"push2", "drop"}) + One(SHolds(c))
      BY <1>2, <2>1, <2>3 DEF RefsInv, One
    <3>3. \A x \in Chunks \ {c} : refs'[x] = refs[x]
      BY <1>2, <2>3 DEF RefsInv
    <3>4. ASSUME NEW x \in Chunks
          PROVE  refs'[x] = IF x \in NullChunks THEN 0
                            ELSE One(x = next /\ reader \in {"push2", "drop"})
                                 + One(HHolds(x)') + One(SHolds(x)')
      <4>1. CASE x = c
        BY <1>2, <1>6, <1>11, <3>2, <4>1 DEF One
      <4>2. CASE x # c
        BY <1>2, <1>6, <3>3, <4>2 DEF RefsInv, One
      <4> QED
        BY <4>1, <4>2
    <3> QED
      BY <1>r, <3>1, <3>4 DEF RefsInv
  <2>5. BufferInv'
    <3>1. /\ free \in Nat /\ resources_left \in Nat /\ ReaderBuffers \in Nat
          /\ free + resources_left + ReaderBuffers + Cardinality(InUse) = Capacity
      BY DEF BufferInv, ReaderBuffers
    <3>2. free' + resources_left + ReaderBuffers + Cardinality(InUse') = Capacity
      BY <2>3, <3>1
    <3> QED
      BY <1>r, <2>3, <3>1, <3>2 DEF BufferInv
  <2> QED
    BY <1>7, <1>8, <1>9, <2>4, <2>5
<1> QED
  BY <1>10, <1>11

(* A checksum update.                                                      *)
LEMMA ChecksumChunkData ==
    ASSUME PoolsInv, DataInv, ChecksumChunk, s_item[1] \notin NullChunks
    PROVE  DataInv'
<1> USE DEF DataInv
<1> DEFINE c == s_item[1]
<1>1. /\ UNCHANGED <<hvars, wvars, rvars, cvars, hashed, written, terminated>>
      /\ S!HashChunk(1) /\ Release(c)
      /\ summed' = [summed EXCEPT ![c] = summed[c] + 1]
  BY DEF ChecksumChunk, S!HashChunk
<1>2. /\ c \in Chunks /\ SHolds(c)
      /\ Once(s_queue', s_item', Chunks)
      /\ \A x \in Chunks : SHolds(x)' <=> SHolds(x) /\ x # c
  <2>1. /\ SP!PoolInv /\ SP!Once(s_queue, s_item, SP!Chunks)
        /\ 1 \in SP!Workers /\ SP!HashChunk(1)
    BY <1>1, PlacesSame, ChecksumSame DEF PoolsInv, PlaceInv, S!Workers
  <2>2. /\ c \in SP!Chunks /\ SP!Holds(s_queue, s_item, c)
        /\ SP!Once(s_queue', s_item', SP!Chunks)
        /\ \A x \in SP!Chunks : SP!Holds(s_queue', s_item', x)
                                <=> SP!Holds(s_queue, s_item, x) /\ x # c
    BY <2>1, SP!HashPlaces, PoolAssumptions
  <2> QED
    BY <2>2, PlacesSame, ChecksumSame DEF SHolds
<1>n. c \notin NullChunks
  OBVIOUS
<1> HIDE DEF c
<1>3. WithChecksum /\ PushedS(c) /\ summed[c] = 0
  BY <1>2 DEF PlaceInv
<1>4. /\ summed' \in [Chunks -> {0, 1}]
      /\ \A x \in Chunks : summed'[x] = IF x = c THEN 1 ELSE summed[x]
  BY <1>1, <1>2, <1>3 DEF PlaceInv
<1>5. \A x \in Chunks : /\ HHolds(x)' <=> HHolds(x)
                        /\ WHolds(x)' <=> WHolds(x)
                        /\ Pushed(x)' <=> Pushed(x)
                        /\ PushedS(x)' <=> PushedS(x)
  BY <1>1 DEF HHolds, WHolds, Pushed, PushedS, hvars, wvars, rvars
<1>6. ReaderInv'
  BY <1>1 DEF ReaderInv, rvars
<1>7. PlaceInv'
  BY <1>1, <1>2, <1>3, <1>4, <1>5 DEF PlaceInv, hvars, wvars
<1>8. LossInv'
  BY <1>1, <1>2, <1>4, <1>5 DEF LossInv, Cancelling, rvars, cvars
<1>r. UNCHANGED <<reader, next>> /\ ReaderBuffers' = ReaderBuffers
  BY <1>1 DEF rvars, ReaderBuffers
<1>9. refs[c] = One(c = next /\ reader \in {"push2", "drop"}) + One(HHolds(c)) + 1
  BY <1>2, <1>n DEF RefsInv, One
<1>10. refs[c] \in 1 .. 3
  BY <1>9 DEF One
<1>11. /\ free' \in Nat /\ UNCHANGED resources_left
       /\ refs' = [refs EXCEPT ![c] = refs[c] - 1]
       /\ Cardinality(InUse) \in Nat /\ Cardinality(InUse') \in Nat
       /\ \/ free' = free /\ Cardinality(InUse') = Cardinality(InUse)
          \/ free' = free + 1 /\ Cardinality(InUse) = Cardinality(InUse') + 1
  BY <1>1, <1>2, <1>10, ReleaseFacts
<1>12. RefsInv'
  <2>1. refs' \in [Chunks -> 0 .. 3]
    BY <1>2, <1>10, <1>11 DEF RefsInv
  <2>2. refs'[c] = One(c = next /\ reader \in {"push2", "drop"}) + One(HHolds(c))
    BY <1>2, <1>9, <1>11 DEF RefsInv, One
  <2>3. \A x \in Chunks \ {c} : refs'[x] = refs[x]
    BY <1>2, <1>11 DEF RefsInv
  <2>4. ASSUME NEW x \in Chunks
        PROVE  refs'[x] = IF x \in NullChunks THEN 0
                          ELSE One(x = next /\ reader \in {"push2", "drop"})
                               + One(HHolds(x)') + One(SHolds(x)')
    <3>1. CASE x = c
      BY <1>2, <1>5, <1>n, <2>2, <3>1 DEF One
    <3>2. CASE x # c
      BY <1>2, <1>5, <2>3, <3>2 DEF RefsInv, One
    <3> QED
      BY <3>1, <3>2
  <2> QED
    BY <1>r, <2>1, <2>4 DEF RefsInv
<1>13. BufferInv'
  <2>1. /\ free \in Nat /\ resources_left \in Nat /\ ReaderBuffers \in Nat
        /\ free + resources_left + ReaderBuffers + Cardinality(InUse) = Capacity
    BY DEF BufferInv, ReaderBuffers
  <2>2. free' + resources_left + ReaderBuffers + Cardinality(InUse') = Capacity
    BY <1>11, <2>1
  <2> QED
    BY <1>r, <1>11, <2>1, <2>2 DEF BufferInv
<1> QED
  BY <1>6, <1>7, <1>8, <1>12, <1>13

(* The writer stores a piece hash.                                         *)
LEMMA WritePieceData ==
    ASSUME PoolsInv, DataInv, WritePiece
    PROVE  DataInv'
<1> USE DEF DataInv
<1> DEFINE c == w_item[1]
<1>1. /\ UNCHANGED <<hvars, svars, rvars, bvars, cvars, hashed, summed, terminated>>
      /\ W!Invoke(1)
      /\ written' = [written EXCEPT ![c] = written[c] + 1]
  BY DEF WritePiece, W!Invoke
<1>2. /\ c \in Chunks /\ WHolds(c)
      /\ Once(w_queue', w_item', Chunks)
      /\ \A x \in Chunks : WHolds(x)' <=> WHolds(x) /\ x # c
  <2>1. /\ WP!PoolInv /\ WP!Once(w_queue, w_item, WP!Items)
        /\ 1 \in WP!Workers /\ WP!Invoke(1)
    BY <1>1, PlacesSame, WriterSame DEF PoolsInv, PlaceInv, W!Workers
  <2>2. /\ c \in WP!Items /\ WP!Holds(w_queue, w_item, c)
        /\ WP!Once(w_queue', w_item', WP!Items)
        /\ \A x \in WP!Items : WP!Holds(w_queue', w_item', x)
                               <=> WP!Holds(w_queue, w_item, x) /\ x # c
    BY <2>1, WP!InvokePlaces, PoolAssumptions
  <2> QED
    BY <2>2, PlacesSame, WriterSame DEF WHolds
<1> HIDE DEF c
<1>3. hashed[c] = 1 /\ written[c] = 0 /\ c \notin NullChunks
  BY <1>2 DEF PlaceInv
<1>4. /\ written' \in [Chunks -> {0, 1}]
      /\ \A x \in Chunks : written'[x] = IF x = c THEN 1 ELSE written[x]
  BY <1>1, <1>2, <1>3 DEF PlaceInv
<1>5. \A x \in Chunks : /\ HHolds(x)' <=> HHolds(x)
                        /\ SHolds(x)' <=> SHolds(x)
                        /\ Pushed(x)' <=> Pushed(x)
                        /\ PushedS(x)' <=> PushedS(x)
  BY <1>1 DEF HHolds, SHolds, Pushed, PushedS, hvars, svars, rvars
<1>6. ReaderInv'
  BY <1>1 DEF ReaderInv, rvars
<1>7. PlaceInv'
  BY <1>1, <1>2, <1>3, <1>4, <1>5 DEF PlaceInv, hvars, svars
<1>8. LossInv'
  BY <1>1, <1>2, <1>4, <1>5 DEF LossInv, Cancelling, rvars, cvars
<1>9. RefsInv'
  BY <1>1, <1>5 DEF RefsInv, One, rvars, bvars
<1>10. BufferInv'
  BY <1>1 DEF BufferInv, ReaderBuffers, InUse, rvars, bvars
<1> QED
  BY <1>6, <1>7, <1>8, <1>9, <1>10

-----------------------------------------------------------------------------
(* The invariant is inductive.                                             *)

(* Every step keeps DataInv.                                               *)
LEMMA DataStep ==
    ASSUME PoolsInv, ClientInv, StageInv, DataInv, [Next]_vars
    PROVE  DataInv'
<1>1. CASE start \/ wait \/ cancel \/ Return \/ InMember \/ UNCHANGED vars
  BY <1>1, ClientData
<1>2. CASE CallMember
  BY <1>2, ClientData, ReaderStartData
<1>3. CASE Reader
  BY <1>3, ReaderGetData, ReaderReadData, ReaderPushData, ReaderPushChecksumData,
     ReaderDropData, ReaderEndData
  DEF Reader
<1>4. ASSUME NEW w \in H!Workers, HashWorker(w) PROVE DataInv'
  BY <1>4, HashChunkData, WorkerData DEF HashWorker
<1>5. CASE ChecksumWorker
  BY <1>5, ChecksumChunkData, WorkerData DEF ChecksumWorker
<1>6. CASE Writer
  BY <1>6, WritePieceData, WorkerData DEF Writer
<1> QED
  BY <1>1, <1>2, <1>3, <1>4, <1>5, <1>6 DEF Next, Client

(* The pipeline begins in a state IInv describes.                          *)
LEMMA InitInv == Init => IInv
<1> SUFFICES ASSUME Init PROVE IInv
  OBVIOUS
<1>i. next = 1 /\ piece_index_ = 0 /\ free = 0 /\ resources_left = Capacity
  BY DEF Init
<1>r. reader = "unborn"
  BY DEF Init
<1>g. r_cancelled \in BOOLEAN /\ terminated \in BOOLEAN
  BY DEF Init, H!PoolInit
<1>t. todo = <<>>
  BY DEF Init
<1>a. /\ reader = "unborn" /\ r_cancelled = FALSE /\ terminated = FALSE
      /\ calling = ""
      /\ started_ = FALSE /\ stopped_ = FALSE /\ cancelled_ = FALSE
  BY DEF Init, H!PoolInit
<1>b. /\ h_queue = <<>> /\ s_queue = <<>> /\ w_queue = <<>>
      /\ h_item = [w \in H!Workers |-> NoChunk]
      /\ s_item = [w \in S!Workers |-> NoChunk]
      /\ w_item = [w \in W!Workers |-> NoChunk]
  BY DEF Init, H!PoolInit, S!PoolInit, W!PoolInit
<1>c. /\ h_started = FALSE /\ s_started = FALSE /\ w_started = FALSE
      /\ h_cancelled = FALSE /\ s_cancelled = FALSE /\ w_cancelled = FALSE
      /\ h_ctl = "idle" /\ s_ctl = "idle" /\ w_ctl = "idle"
  BY DEF Init, H!PoolInit, S!PoolInit, W!PoolInit
<1>d. /\ refs = [c \in Chunks |-> 0] /\ hashed = [c \in Chunks |-> 0]
      /\ summed = [c \in Chunks |-> 0] /\ written = [c \in Chunks |-> 0]
  BY DEF Init
<1>1. PoolsInv
  <2>1. HP!PoolInit
    BY DEF Init, H!PoolInit, HP!PoolInit, H!Workers, HP!Workers
  <2>2. SP!PoolInit
    BY DEF Init, S!PoolInit, SP!PoolInit, S!Workers, SP!Workers
  <2>3. WP!PoolInit
    BY DEF Init, W!PoolInit, WP!PoolInit, W!Workers, WP!Workers
  <2> QED
    BY <2>1, <2>2, <2>3, HP!PoolBegins, SP!PoolBegins, WP!PoolBegins, PoolAssumptions
    DEF PoolsInv
<1>e. Len(todo) = 0 /\ Len(h_queue) = 0 /\ Len(s_queue) = 0 /\ Len(w_queue) = 0
  BY <1>b, <1>t
<1>p. \A c : ~Pending(c)
  BY <1>e DEF Pending
<1>2. ClientInv
  <2>1. todo \in Seq(CallNames)
    BY <1>t
  <2>2. \A i, j \in 1 .. Len(todo) : i < j => Rank(todo[i]) < Rank(todo[j])
    BY <1>e
  <2> QED
    BY <1>a, <1>p, <2>1, <2>2 DEF ClientInv
<1>3. StageInv
  BY <1>a, <1>c, <1>p DEF StageInv, HStage, SStage, WStage, RStage, Stage, Fresh,
     Asked, Waited, Cancelling
<1>4. ReaderInv
  BY <1>g, <1>i, <1>r, StorageAssumption DEF ReaderInv
<1>f. NoChunk \notin Chunks
  BY StorageAssumption DEF Chunks
<1>h. \A c \in Chunks : ~HHolds(c) /\ ~SHolds(c) /\ ~WHolds(c)
  BY <1>b, <1>e, <1>f DEF HHolds, SHolds, WHolds, Holds
<1>n. \A c \in Chunks : ~Pushed(c) /\ ~PushedS(c)
  BY <1>i, <1>r, StorageAssumption DEF Pushed, PushedS, Chunks
<1>5. PlaceInv
  <2>1. /\ Once(h_queue, h_item, Chunks) /\ Once(s_queue, s_item, Chunks)
        /\ Once(w_queue, w_item, Chunks)
    BY <1>b, <1>e, <1>f DEF Once
  <2> QED
    BY <1>d, <1>h, <2>1 DEF PlaceInv
<1>6. LossInv
  BY <1>d, <1>i, <1>n DEF LossInv
<1>7. RefsInv
  BY <1>d, <1>h, <1>r DEF RefsInv, One
<1>8. BufferInv
  <2>1. InUse = {}
    BY <1>d DEF InUse
  <2>2. Cardinality(InUse) = 0
    BY <2>1, FS_EmptySet
  <2>3. ReaderBuffers = 0
    BY <1>a DEF ReaderBuffers
  <2> QED
    BY <1>i, <2>2, <2>3, StorageAssumption DEF BufferInv
<1> QED
  BY <1>1, <1>2, <1>3, <1>4, <1>5, <1>6, <1>7, <1>8 DEF IInv

(* Every step keeps IInv.                                                  *)
LEMMA StepInv == IInv /\ [Next]_vars => IInv'
<1> SUFFICES ASSUME IInv, [Next]_vars PROVE IInv'
  OBVIOUS
<1>1. PoolsInv' /\ ClientInv' /\ StageInv'
  BY PoolsStep, StageStep DEF IInv
<1>2. DataInv'
  BY DataStep DEF IInv, DataInv
<1> QED
  BY <1>1, <1>2 DEF IInv, DataInv

(* The pipeline's state is always one that IInv describes.                 *)
THEOREM Invariance == Spec => []IInv
<1>1. Init => IInv
  BY InitInv
<1>2. IInv /\ [Next]_vars => IInv'
  BY StepInv
<1> QED
  BY <1>1, <1>2, PTL DEF Spec

-----------------------------------------------------------------------------
(* The results.                                                            *)

(* object_pool hands out queue_capacity_ buffers at most and loses none:   *)
(* cancelled or not, every buffer is in the pool, with the reader or       *)
(* shared by the chunk's holders, and every variable keeps its type.       *)
THEOREM NoBufferLost == Spec => []BuffersConserved
<1>1. IInv => BuffersConserved
  <2> SUFFICES ASSUME IInv PROVE BuffersConserved
    OBVIOUS
  <2>1. /\ free \in Nat /\ resources_left \in Nat /\ ReaderBuffers \in Nat
        /\ Cardinality(InUse) \in Nat /\ Capacity \in Nat
        /\ free + resources_left + ReaderBuffers + Cardinality(InUse) = Capacity
    BY InUseFacts, StorageAssumption DEF IInv, BufferInv, ReaderBuffers
  <2>2. free \in 0 .. Capacity /\ resources_left \in 0 .. Capacity
    BY <2>1
  <2>3. refs \in [Chunks -> 0 .. Copies]
    <3>1. CASE WithChecksum
      BY <3>1 DEF IInv, RefsInv, Copies
    <3>2. CASE ~WithChecksum
      <4>1. \A c \in Chunks : ~SHolds(c)
        BY <3>2 DEF IInv, PlaceInv
      <4>2. \A c \in Chunks : refs[c] \in 0 .. 2
        BY <4>1 DEF IInv, RefsInv, One
      <4> QED
        BY <3>2, <4>2 DEF IInv, RefsInv, Copies
    <3> QED
      BY <3>1, <3>2
  <2>4. TypeOK
    BY <2>2, <2>3 DEF TypeOK, IInv, ReaderInv, ClientInv
  <2> QED
    BY <2>1, <2>4 DEF BuffersConserved, InUse
<1> QED
  BY <1>1, Invariance, PTL

(* However wait() and cancel() interleave with the threads, no piece is    *)
(* hashed or written twice, and none is written that was not hashed.       *)
THEOREM NothingTwice == Spec => []WrittenOnce
<1>1. IInv => WrittenOnce
  BY DEF IInv, PlaceInv, WrittenOnce
<1> QED
  BY <1>1, Invariance, PTL

(* When wait() has returned every chunk was hashed once, every piece with  *)
(* data was written once and every checksum was updated with every chunk.  *)
THEOREM NothingMissing == Spec => []AllWritten
<1>1. IInv => AllWritten
  <2> SUFFICES ASSUME IInv, stopped_, ~cancelled_, NEW c \in Chunks
               PROVE  /\ hashed[c] = 1
                      /\ written[c] = (IF c \in NullChunks THEN 0 ELSE 1)
                      /\ WithChecksum => summed[c] = 1
    BY DEF AllWritten
  <2>1. ~Cancelling /\ reader = "exited"
    BY DEF IInv, ClientInv, StageInv, RStage, Waited, Cancelling
  <2>2. Pushed(c) /\ PushedS(c)
    BY <2>1, StorageAssumption DEF IInv, ReaderInv, Pushed, PushedS, Chunks
  <2>3. ~HHolds(c)
    <3>1. ~h_cancelled /\ h_ctl = "returned"
      BY <2>1 DEF IInv, StageInv, HStage, Stage
    <3>2. \A w \in HP!Workers : h_pc[w] = "exited"
      BY <3>1 DEF IInv, PoolsInv, HP!PoolInv, HP!ControlInv
    <3>3. \A x \in HP!Chunks : ~HP!Holds(h_queue, h_item, x)
      BY <3>1, <3>2, HP!EmptyPlaces, PoolAssumptions DEF IInv, PoolsInv
    <3> QED
      BY <3>3, PlacesSame, HasherSame DEF HHolds
  <2>4. ~WHolds(c)
    <3>1. ~w_cancelled /\ w_ctl = "returned"
      BY <2>1 DEF IInv, StageInv, WStage, Stage
    <3>2. \A w \in WP!Workers : w_pc[w] = "exited"
      BY <3>1 DEF IInv, PoolsInv, WP!PoolInv, WP!ControlInv
    <3>3. \A x \in WP!Items : ~WP!Holds(w_queue, w_item, x)
      BY <3>1, <3>2, WP!EmptyPlaces, PoolAssumptions DEF IInv, PoolsInv
    <3> QED
      BY <3>3, PlacesSame, WriterSame DEF WHolds
  <2>5. WithChecksum => ~SHolds(c)
    <3> SUFFICES ASSUME WithChecksum PROVE ~SHolds(c)
      OBVIOUS
    <3>1. ~s_cancelled /\ s_ctl = "returned"
      BY <2>1 DEF IInv, StageInv, SStage, Stage
    <3>2. \A w \in SP!Workers : s_pc[w] = "exited"
      BY <3>1 DEF IInv, PoolsInv, SP!PoolInv, SP!ControlInv
    <3>3. \A x \in SP!Chunks : ~SP!Holds(s_queue, s_item, x)
      BY <3>1, <3>2, SP!EmptyPlaces, PoolAssumptions DEF IInv, PoolsInv
    <3> QED
      BY <3>3, PlacesSame, ChecksumSame DEF SHolds
  <2> QED
    BY <2>1, <2>2, <2>3, <2>4, <2>5 DEF IInv, LossInv, PlaceInv
<1> QED
  BY <1>1, Invariance, PTL

(* A cancellation is not taken back.                                       *)
LEMMA CancellingStays ==
    ASSUME ClientInv, Cancelling, [Next]_vars
    PROVE  Cancelling'
<1>1. CASE UNCHANGED cvars
  BY <1>1 DEF cvars, Cancelling
<1>2. CASE start \/ wait \/ cancel
  BY <1>2 DEF start, wait, cancel, Begin, Cancelling
<1>3. CASE CallMember
  BY <1>3 DEF CallMember, Cancelling
<1>4. CASE Return
  BY <1>4 DEF Return, Cancelling
<1>5. CASE InMember \/ Reader \/ ChecksumWorker \/ Writer \/ UNCHANGED vars
  BY <1>1, <1>5
  DEF InMember, Reader, ReaderGet, ReaderRead, ReaderPush, ReaderPushChecksum,
      ReaderDrop, ReaderEnd, Elsewhere, ChecksumWorker, ChecksumChunk, Writer,
      WritePiece, vars
<1>6. ASSUME NEW w \in H!Workers, HashWorker(w) PROVE Cancelling'
  BY <1>1, <1>6 DEF HashWorker, HashChunk
<1> QED
  BY <1>2, <1>3, <1>4, <1>5, <1>6 DEF Next, Client

(* A pool's member function, called as the pipeline calls it, meets its    *)
(* contracts, and so do wait()'s own contracts about the pools.            *)
LEMMA CleanCall ==
    ASSUME IInv, ~Cancelling, ~terminated, CallMember
    PROVE  ~terminated'
<1>a. /\ todo # <<>> /\ MembersIdle /\ todo' = Tail(todo)
      /\ UNCHANGED <<calling, started_, stopped_, cancelled_>>
  BY DEF CallMember
<1>b. PoolsInv /\ ClientInv /\ StageInv
  BY DEF IInv
<1>c. HP!PoolInv /\ SP!PoolInv /\ WP!PoolInv
  BY <1>b DEF PoolsInv
<1>w. ~w_cancelled
  BY <1>b DEF StageInv, WStage, Stage
<1>1. CASE CallHasher
  <2>1. CASE Head(todo) = "h.expects_done"
    <3>1. \A w \in HP!Workers : h_pc[w] = "exited"
      BY <1>a, <1>b, <2>1, HasherGuards, HasherSame
    <3>2. \A w \in HP!Workers : h_done[w]
      BY <1>c, <3>1 DEF HP!PoolInv, HP!StopInv
    <3>3. h_started
      <4>1. 1 \in HP!Workers
        BY StorageAssumption DEF HP!Workers
      <4>2. h_stop[1]
        BY <1>c, <3>1, <4>1 DEF HP!PoolInv, HP!StopInv, HP!PastStop
      <4> QED
        BY <1>c, <4>1, <4>2 DEF HP!PoolInv, HP!StopInv
    <3>4. H!done
      BY <3>2, <3>3, HasherSame DEF HP!done
    <3> QED
      BY <1>1, <2>1, <3>4 DEF CallHasher, Expects
  <2>2. CASE Head(todo) # "h.expects_done"
    <3>1. \/ HP!start /\ ~h_started /\ ~h_cancelled
          \/ HP!request_stop \/ HP!request_cancellation \/ HP!wait
      BY <1>1, <1>a, <1>b, <2>2, HasherGuards, HasherSame DEF CallHasher
    <3> QED
      BY <1>c, <3>1, HP!PoolContracts, PoolAssumptions
  <2> QED
    BY <2>1, <2>2
<1>2. CASE CallChecksum
  <2>1. \/ SP!start /\ ~s_started /\ ~s_cancelled
        \/ SP!request_stop \/ SP!request_cancellation \/ SP!wait
    BY <1>2, <1>a, <1>b, ChecksumGuards, ChecksumSame DEF CallChecksum
  <2> QED
    BY <1>c, <2>1, SP!PoolContracts, PoolAssumptions
<1>3. CASE CallWriter
  <2>1. CASE Head(todo) = "w.expects_done"
    <3>1. \A w \in WP!Workers : w_pc[w] = "exited"
      BY <1>a, <1>b, <2>1, WriterGuards, WriterSame
    <3>2. \A w \in WP!Workers : w_done[w]
      BY <1>c, <3>1 DEF WP!PoolInv, WP!StopInv
    <3>3. w_started
      <4>1. 1 \in WP!Workers
        BY DEF WP!Workers
      <4>2. w_stop[1]
        BY <1>c, <3>1, <4>1 DEF WP!PoolInv, WP!StopInv, WP!PastStop
      <4> QED
        BY <1>c, <4>1, <4>2 DEF WP!PoolInv, WP!StopInv
    <3>4. W!done
      BY <3>2, <3>3, WriterSame DEF WP!done
    <3> QED
      BY <1>3, <2>1, <3>4 DEF CallWriter, Expects
  <2>2. CASE Head(todo) # "w.expects_done"
    <3>1. \/ WP!start /\ ~w_started
          \/ WP!request_stop \/ WP!request_cancellation \/ WP!wait
      BY <1>3, <1>a, <1>b, <2>2, WriterGuards, WriterSame DEF CallWriter
    <3> QED
      BY <1>c, <1>w, <3>1, WP!PoolContracts, PoolAssumptions
  <2> QED
    BY <2>1, <2>2
<1>4. CASE CallReader
  BY <1>4, <1>a, <1>b, ReaderGuards DEF CallReader
<1> QED
  BY <1>1, <1>2, <1>3, <1>4 DEF CallMember

(* Without a cancellation, and with every chunk carrying data where        *)
(* checksums are made, no step fails a contract.                           *)
LEMMA CleanStep ==
    ASSUME WithChecksum => NullChunks = {}, IInv, WaitIsClean, [Next]_vars
    PROVE  WaitIsClean'
<1> SUFFICES ASSUME ~Cancelling' PROVE ~terminated'
  BY DEF WaitIsClean
<1>a. ~Cancelling /\ ~terminated
  BY CancellingStays DEF WaitIsClean, IInv
<1>c. HP!PoolInv /\ SP!PoolInv /\ WP!PoolInv
  BY DEF IInv, PoolsInv
<1>w. ~w_cancelled
  BY <1>a DEF IInv, StageInv, WStage, Stage
<1>1. CASE start \/ wait \/ cancel \/ Return \/ UNCHANGED vars
  BY <1>1, <1>a DEF start, wait, cancel, Begin, Return, vars
<1>2. CASE CallMember
  BY <1>2, <1>a, CleanCall
<1>3. CASE InMember
  <2>1. HP!Controller \/ SP!Controller \/ WP!Controller
    BY <1>3, HasherSame, ChecksumSame, WriterSame DEF InMember
  <2>2. CASE HP!Controller
    BY <1>a, <1>c, <2>2, HP!PoolContracts, PoolAssumptions
  <2>3. CASE SP!Controller
    BY <1>a, <1>c, <2>3, SP!PoolContracts, PoolAssumptions
  <2>4. CASE WP!Controller
    BY <1>a, <1>c, <1>w, <2>4, WP!PoolContracts, PoolAssumptions
  <2> QED
    BY <2>1, <2>2, <2>3, <2>4
<1>4. CASE Reader
  <2>1. CASE ReaderGet \/ ReaderRead \/ ReaderDrop
    BY <1>a, <2>1 DEF ReaderGet, ReaderRead, ReaderDrop
  <2>2. CASE ReaderPush
    <3>1. HP!Submit(next) /\ next \in HP!Chunks
      BY <2>2, HasherSame DEF ReaderPush, IInv, ReaderInv
    <3> QED
      BY <1>a, <1>c, <3>1, HP!PoolContracts, PoolAssumptions
  <2>3. CASE ReaderPushChecksum
    <3>1. SP!Submit(next) /\ next \in SP!Chunks
      BY <2>3, ChecksumSame DEF ReaderPushChecksum, IInv, ReaderInv
    <3> QED
      BY <1>a, <1>c, <3>1, SP!PoolContracts, PoolAssumptions
  <2>4. CASE ReaderEnd
    <3>1. next = ChunkCount + 1
      BY <2>4, StorageAssumption DEF ReaderEnd, IInv, ReaderInv
    <3>2. piece_index_ = next - 1
      BY <1>a DEF IInv, LossInv
    <3>3. piece_index_ = ChunkCount
      BY <3>1, <3>2, StorageAssumption
    <3> QED
      BY <2>4, <3>3 DEF ReaderEnd
  <2> QED
    BY <1>4, <2>1, <2>2, <2>3, <2>4 DEF Reader
<1>5. ASSUME NEW w \in H!Workers, HashWorker(w) PROVE ~terminated'
  <2>1. w \in HP!Workers /\ (HP!HashChunk(w) \/ HP!Worker(w))
    BY <1>5, HasherSame DEF HashWorker, HashChunk
  <2> QED
    BY <1>a, <1>c, <2>1, HP!PoolContracts, PoolAssumptions
<1>6. CASE ChecksumWorker
  <2>1. 1 \in SP!Workers
    BY DEF SP!Workers
  <2>2. SP!HashChunk(1) \/ SP!Worker(1)
    <3>1. CASE S!Worker(1)
      BY <2>1, <3>1, ChecksumSame
    <3>2. CASE ChecksumChunk
      <4>1. SHolds(s_item[1]) /\ s_item[1] \in Chunks
        BY <1>c, <2>1, <3>2 DEF ChecksumChunk, SHolds, Holds, SP!PoolInv, SP!PoolType
      <4>2. s_item[1] \notin NullChunks
        BY <4>1 DEF IInv, PlaceInv
      <4>3. S!HashChunk(1)
        BY <3>2, <4>2 DEF ChecksumChunk
      <4> QED
        BY <2>1, <4>3, ChecksumSame
    <3> QED
      BY <1>6, <3>1, <3>2 DEF ChecksumWorker
  <2> QED
    BY <1>a, <1>c, <2>1, <2>2, SP!PoolContracts, PoolAssumptions
<1>7. CASE Writer
  <2>1. 1 \in WP!Workers
    BY DEF WP!Workers
  <2>2. WP!Invoke(1) \/ WP!Worker(1)
    BY <1>7, <2>1, WriterSame DEF Writer, WritePiece
  <2> QED
    BY <1>a, <1>c, <1>w, <2>1, <2>2, WP!PoolContracts, PoolAssumptions
<1> QED
  BY <1>1, <1>2, <1>3, <1>4, <1>5, <1>6, <1>7 DEF Next, Client

(* start() and wait() meet every contract of every part, for every         *)
(* interleaving of the threads, as long as the client does not cancel.     *)
(* The checksum hashers' Expects(item.data != nullptr) fails on a piece of *)
(* a missing file: hence the hypothesis.                                   *)
THEOREM ContractsHold ==
    ASSUME WithChecksum => NullChunks = {}
    PROVE  Spec => []WaitIsClean
<1>1. Init => WaitIsClean
  BY DEF Init, H!PoolInit, WaitIsClean
<1>2. IInv /\ WaitIsClean /\ [Next]_vars => WaitIsClean'
  BY CleanStep
<1> QED
  BY <1>1, <1>2, Invariance, PTL DEF Spec
=============================================================================

--------------------------- MODULE StorageHasher ---------------------------
(***************************************************************************)
(* storage_hasher (src/storage_hasher.cpp): the pipeline                   *)
(*                                                                         *)
(*    reader thread --> hash queue --> hash workers --> piece queue -->    *)
(*                  \-> checksum queue --> checksum worker     writer      *)
(*                                                                         *)
(* of chunk_reader, object_pool, ChunkProcessor (hasher_ and one of the    *)
(* checksum_hashers_) and ConcurrentQueueProcessor (verifier_, a piece     *)
(* writer with one thread and an unlimited queue), driven by the client's  *)
(* thread through start(), wait() and cancel().  storage_verifier is the   *)
(* same pipeline without checksum hashers, with a piece verifier in place  *)
(* of the writer and two more contracts in wait().                         *)
(*                                                                         *)
(* A chunk holds one piece; a chunk of NullChunks stands for a piece of a  *)
(* missing file, which the reader pushes without data.                     *)
(***************************************************************************)
EXTENDS Integers, Sequences, FiniteSets

CONSTANTS
    ThreadCount,    \* options.threads
    Capacity,       \* queue_capacity_: of each chunk queue and of the pool
    Unlimited,      \* SIZE_MAX, the capacity -1 of the piece queue
    ChunkCount,     \* how many chunks the storage has
    NullChunks,     \* the chunks without data
    V1,             \* whether the reader is a v1_chunk_reader
    WithChecksum,   \* whether options.checksums has an algorithm
    Verifier,       \* whether this is a storage_verifier
    Sentinel, NoChunk

ASSUME StorageAssumption ==
    /\ ThreadCount \in Nat \ {0} /\ Unlimited \in Nat \ {0}
    /\ Capacity \in Nat /\ Capacity > 1
    /\ ChunkCount \in Nat /\ NullChunks \subseteq 1 .. ChunkCount
    /\ Sentinel \notin Nat /\ NoChunk \notin Nat /\ Sentinel # NoChunk
    /\ V1 \in BOOLEAN /\ WithChecksum \in BOOLEAN /\ Verifier \in BOOLEAN
    /\ Verifier => ~WithChecksum

VARIABLES
    \* hasher_
    h_queue, h_started, h_cancelled, h_stop, h_done, h_pc, h_item, h_ctl, h_k,
    \* the checksum hasher
    s_queue, s_started, s_cancelled, s_stop, s_done, s_pc, s_item, s_ctl, s_k,
    \* verifier_
    w_queue, w_started, w_cancelled, w_stop, w_done, w_pc, w_item, w_ctl, w_k,
    terminated,     \* a contract failed: the process is gone
    \* reader_
    reader,         \* where in run() the reader thread is
    r_cancelled,    \* reader_->cancelled_
    next,           \* the chunk it handles next
    piece_index_,   \* how many chunks it has pushed
    free,           \* buffers waiting in the pool's queue
    resources_left, \* buffers the pool may still construct
    refs,           \* [Chunks -> shared_ptrs to the chunk's buffer]
    \* storage_hasher and its client
    todo,           \* the member calls left in the function being executed
    calling,        \* "", "start", "wait" or "cancel"
    started_, stopped_, cancelled_,
    \* what the pipeline did
    hashed, summed, written

hvars == <<h_queue, h_started, h_cancelled, h_stop, h_done, h_pc, h_item, h_ctl, h_k>>
svars == <<s_queue, s_started, s_cancelled, s_stop, s_done, s_pc, s_item, s_ctl, s_k>>
wvars == <<w_queue, w_started, w_cancelled, w_stop, w_done, w_pc, w_item, w_ctl, w_k>>
rvars == <<reader, r_cancelled, next, piece_index_>>
bvars == <<free, resources_left, refs>>
cvars == <<todo, calling, started_, stopped_, cancelled_>>
gvars == <<hashed, summed, written>>
vars == <<hvars, svars, wvars, terminated, rvars, bvars, cvars, gvars>>

Chunks == 1 .. ChunkCount

H == INSTANCE ChunkProcessor WITH
    queue_ <- h_queue, started_ <- h_started, cancelled_ <- h_cancelled,
    stop <- h_stop, done_ <- h_done, pc <- h_pc, item <- h_item,
    ctl <- h_ctl, k <- h_k,
    producer <- reader, submitted <- next

S == INSTANCE ChunkProcessor WITH
    ThreadCount <- 1,
    queue_ <- s_queue, started_ <- s_started, cancelled_ <- s_cancelled,
    stop <- s_stop, done_ <- s_done, pc <- s_pc, item <- s_item,
    ctl <- s_ctl, k <- s_k,
    producer <- reader, submitted <- next, hashed <- summed

W == INSTANCE ConcurrentQueueProcessor WITH
    ThreadCount <- 1, Capacity <- Unlimited, ItemCount <- ChunkCount,
    nullopt <- Sentinel, NoItem <- NoChunk,
    queue_ <- w_queue, started_ <- w_started, cancelled_ <- w_cancelled,
    stop <- w_stop, done_ <- w_done, pc <- w_pc, item <- w_item,
    ctl <- w_ctl, k <- w_k,
    producing <- reader, submitted <- next, handled <- written

Init ==
    /\ H!PoolInit /\ S!PoolInit /\ W!PoolInit
    /\ reader = "unborn"
    /\ r_cancelled = FALSE
    /\ next = 1
    /\ piece_index_ = 0
    /\ free = 0
    /\ resources_left = Capacity
    /\ refs = [c \in Chunks |-> 0]
    /\ todo = <<>>
    /\ calling = ""
    /\ started_ = FALSE /\ stopped_ = FALSE /\ cancelled_ = FALSE
    /\ hashed = [c \in Chunks |-> 0]
    /\ summed = [c \in Chunks |-> 0]
    /\ written = [c \in Chunks |-> 0]

-----------------------------------------------------------------------------
(* The buffers: object_pool.  get() first tries to pop an unused buffer,   *)
(* then constructs one if it may, else blocks in pop().                    *)

TryPop ==
    /\ free > 0
    /\ free' = free - 1
    /\ UNCHANGED resources_left

(* Mutant: a constructed buffer is not counted.                            *)
Construct_Uncounted ==
    /\ resources_left > 0
    /\ UNCHANGED <<free, resources_left>>

Construct ==
    /\ resources_left > 0
    /\ resources_left' = resources_left - 1
    /\ UNCHANGED free

(* Mutant: the deleter frees the buffer instead of recycling it.           *)
Release_Freed(c) ==
    /\ refs' = [refs EXCEPT ![c] = @ - 1]
    /\ UNCHANGED <<free, resources_left>>

(* A shared_ptr to the buffer of c goes away.  The last one's deleter      *)
(* recycles the buffer, a blocking push into the pool's queue.             *)
Release(c) ==
    /\ refs[c] = 1 => free < Capacity
    /\ refs' = [refs EXCEPT ![c] = @ - 1]
    /\ free' = IF refs[c] = 1 THEN free + 1 ELSE free
    /\ UNCHANGED resources_left

-----------------------------------------------------------------------------
(* The reader thread: run() of v1_chunk_reader and v2_chunk_reader.        *)

Elsewhere == UNCHANGED <<cvars, gvars, wvars>>

(* chunk = pool_.get()                                                     *)
ReaderGet ==
    /\ ~terminated
    /\ \/ reader = "get" /\ TryPop /\ reader' = "read"
       \/ reader = "get" /\ free = 0 /\ reader' = "get2" /\ UNCHANGED <<free, resources_left>>
       \/ reader = "get2" /\ Construct /\ reader' = "read"
       \/ reader = "get2" /\ resources_left = 0 /\ TryPop /\ reader' = "read"
    /\ UNCHANGED <<refs, r_cancelled, next, piece_index_, hvars, svars, terminated>>
    /\ Elsewhere

(* Fill the buffer with the next chunk.  Only the loop that reads a file   *)
(* looks at cancelled_: once it is set the chunks of files are skipped,    *)
(* the empty chunks of missing files are still pushed.                     *)
ReaderRead ==
    /\ reader = "read" /\ ~terminated
    /\ next <= ChunkCount
    /\ IF next \in NullChunks \/ ~r_cancelled
       THEN reader' = "push" /\ UNCHANGED next
       ELSE next' = next + 1 /\ UNCHANGED reader
    /\ UNCHANGED <<bvars, r_cancelled, piece_index_, hvars, svars, terminated>>
    /\ Elsewhere

(* push(): to the hash queue, then to the checksum queue, both blocking.   *)
ReaderPush ==
    /\ reader = "push"
    /\ H!Submit(next)
    /\ reader' = IF WithChecksum THEN "push2" ELSE "drop"
    /\ refs' = IF next \in NullChunks THEN refs ELSE [refs EXCEPT ![next] = 2]
    /\ UNCHANGED <<free, resources_left, r_cancelled, next, piece_index_, svars>>
    /\ Elsewhere

ReaderPushChecksum ==
    /\ reader = "push2"
    /\ S!Submit(next)
    /\ reader' = "drop"
    /\ refs' = IF next \in NullChunks THEN refs ELSE [refs EXCEPT ![next] = @ + 1]
    /\ UNCHANGED <<free, resources_left, r_cancelled, next, piece_index_, hvars>>
    /\ Elsewhere

(* Mutant: the chunk index is not advanced: the chunk is pushed again.     *)
ReaderDrop_Again ==
    /\ reader = "drop" /\ ~terminated
    /\ reader' = IF next \in NullChunks THEN "read" ELSE "get"
    /\ IF next \in NullChunks THEN UNCHANGED bvars ELSE Release(next)
    /\ UNCHANGED <<r_cancelled, next, piece_index_, hvars, svars, terminated>>
    /\ Elsewhere

(* chunk.reset(), and a new buffer; a chunk without data used no buffer,   *)
(* and v1 gets none after a last, partial chunk.                           *)
ReaderDrop ==
    /\ reader = "drop" /\ ~terminated
    /\ next' = next + 1
    /\ piece_index_' = piece_index_ + 1
    /\ \/ next \in NullChunks /\ reader' = "read" /\ UNCHANGED bvars
       \/ next \notin NullChunks /\ reader' = "get" /\ Release(next)
       \/ V1 /\ next = ChunkCount /\ next \notin NullChunks
          /\ reader' = "end" /\ Release(next)
    /\ UNCHANGED <<r_cancelled, hvars, svars, terminated>>
    /\ Elsewhere

(* The end of run(): the buffer still held goes back, and v1 has           *)
(* Ensures(piece_index_ == storage.piece_count()).                         *)
ReaderEnd ==
    /\ ~terminated
    /\ \/ reader = "end" /\ UNCHANGED free
       \/ /\ reader = "read" /\ next > ChunkCount
          /\ free < Capacity
          /\ free' = free + 1
    /\ reader' = "exited"
    /\ terminated' = (V1 /\ piece_index_ # ChunkCount)
    /\ UNCHANGED <<resources_left, refs, r_cancelled, next, piece_index_, hvars, svars>>
    /\ Elsewhere

Reader ==
    \/ ReaderGet \/ ReaderRead \/ ReaderPush
    \/ ReaderPushChecksum \/ ReaderDrop \/ ReaderEnd

-----------------------------------------------------------------------------
(* The hash workers, the checksum worker and the writer.                   *)

(* hash_chunk pushes the piece hash to the writer; a chunk without data    *)
(* only counts as done.                                                    *)
HashChunk(w) ==
    /\ H!HashChunk(w)
    /\ hashed' = [hashed EXCEPT ![h_item[w]] = @ + 1]
    /\ IF h_item[w] \in NullChunks
       THEN UNCHANGED <<wvars, bvars>>
       ELSE W!Submit(h_item[w]) /\ Release(h_item[w])
    /\ UNCHANGED <<svars, rvars, cvars, summed, written>>

(* The checksum hashers' Expects(item.data != nullptr).                    *)
ChecksumChunk ==
    /\ ~terminated
    /\ s_item[1] \in Chunks
    /\ IF s_item[1] \in NullChunks
       THEN terminated' = TRUE /\ UNCHANGED <<svars, bvars, summed>>
       ELSE /\ S!HashChunk(1)
            /\ Release(s_item[1])
            /\ summed' = [summed EXCEPT ![s_item[1]] = @ + 1]
    /\ UNCHANGED <<hvars, wvars, rvars, cvars, hashed, written>>

WritePiece ==
    /\ W!Invoke(1)
    /\ written' = [written EXCEPT ![w_item[1]] = @ + 1]
    /\ UNCHANGED <<hvars, svars, rvars, bvars, cvars, hashed, summed>>

HashWorker(w) ==
    \/ HashChunk(w)
    \/ H!Worker(w) /\ UNCHANGED <<svars, wvars, rvars, bvars, cvars, gvars>>

ChecksumWorker ==
    \/ ChecksumChunk
    \/ S!Worker(1) /\ UNCHANGED <<hvars, wvars, rvars, bvars, cvars, gvars>>

Writer ==
    \/ WritePiece
    \/ W!Worker(1) /\ UNCHANGED <<hvars, svars, rvars, bvars, cvars, gvars>>

-----------------------------------------------------------------------------
(* The client's thread: the calls each member function makes, in order.    *)

Sums(c) == IF WithChecksum THEN <<c>> ELSE <<>>

StartCalls == <<"w.start", "h.start">> \o Sums("s.start") \o <<"r.start">>

(* Mutant: the verifier is stopped before the hash workers are done.       *)
VerifierWaitCalls_VerifierFirst ==
    <<"r.wait", "h.request_stop", "w.request_stop", "w.wait", "w.expects_done",
      "h.wait", "h.expects_done">>

(* Mutant: the hash workers are woken without being asked to stop.         *)
VerifierWaitCalls_NoStop ==
    <<"r.wait", "h.wait", "h.expects_done",
      "w.request_stop", "w.wait", "w.expects_done">>

VerifierWaitCalls ==
    <<"r.wait", "h.request_stop", "h.wait", "h.expects_done",
      "w.request_stop", "w.wait", "w.expects_done">>

(* Mutant: the writer is stopped before the hash workers are done.         *)
WaitCalls_WriterFirst ==
    <<"r.wait", "h.request_stop">> \o Sums("s.request_stop")
    \o <<"w.request_stop", "w.wait", "h.wait">> \o Sums("s.wait")

WaitCalls ==
    <<"r.wait", "h.request_stop">> \o Sums("s.request_stop")
    \o <<"h.wait">> \o Sums("s.wait") \o <<"w.request_stop", "w.wait">>

CancelCalls ==
    <<"r.request_cancellation", "h.request_cancellation">>
    \o Sums("s.request_cancellation") \o <<"w.request_cancellation">>
    \o <<"r.wait", "h.wait">> \o Sums("s.wait") \o <<"w.wait">>

done == cancelled_ \/ (started_ /\ stopped_)

Begin(function, calls) ==
    /\ calling = "" /\ ~terminated
    /\ calling' = function
    /\ todo' = calls
    /\ UNCHANGED <<hvars, svars, wvars, terminated, rvars, bvars, gvars,
                   started_, stopped_, cancelled_>>

(* start() throws when done(); the client starts once.                     *)
start == ~done /\ ~started_ /\ Begin("start", StartCalls)

(* wait() throws unless started and not done.                              *)
wait ==
    /\ started_ /\ ~done
    /\ Begin("wait", IF Verifier THEN VerifierWaitCalls ELSE WaitCalls)

(* cancel() throws when done(); before start() it only sets cancelled_.    *)
cancel ==
    /\ ~done
    /\ \/ started_ /\ Begin("cancel", CancelCalls)
       \/ /\ ~started_ /\ calling = "" /\ ~terminated
          /\ cancelled_' = TRUE
          /\ UNCHANGED <<hvars, svars, wvars, terminated, rvars, bvars, gvars,
                         todo, calling, started_, stopped_>>

(* The member function called last has returned.                           *)
MembersIdle == {h_ctl, s_ctl, w_ctl} \subseteq {"idle", "returned"}

Expects(condition) == ~terminated /\ terminated' = ~condition

CallHasher ==
    /\ \/ Head(todo) = "h.start" /\ H!start
       \/ Head(todo) = "h.request_stop" /\ H!request_stop
       \/ Head(todo) = "h.request_cancellation" /\ H!request_cancellation
       \/ Head(todo) = "h.wait" /\ H!wait
       \/ Head(todo) = "h.expects_done" /\ Expects(H!done) /\ UNCHANGED hvars
    /\ UNCHANGED <<svars, wvars, rvars>>

CallChecksum ==
    /\ \/ Head(todo) = "s.start" /\ S!start
       \/ Head(todo) = "s.request_stop" /\ S!request_stop
       \/ Head(todo) = "s.request_cancellation" /\ S!request_cancellation
       \/ Head(todo) = "s.wait" /\ S!wait
    /\ UNCHANGED <<hvars, wvars, rvars>>

CallWriter ==
    /\ \/ Head(todo) = "w.start" /\ W!start
       \/ Head(todo) = "w.request_stop" /\ W!request_stop
       \/ Head(todo) = "w.request_cancellation" /\ W!request_cancellation
       \/ Head(todo) = "w.wait" /\ W!wait
       \/ Head(todo) = "w.expects_done" /\ Expects(W!done) /\ UNCHANGED wvars
    /\ UNCHANGED <<hvars, svars, rvars>>

(* reader_->wait() joins the reader thread; wait() checks before and after *)
(* it that the hasher is running.                                          *)
CallReader ==
    /\ ~terminated
    /\ \/ /\ Head(todo) = "r.start"
          /\ reader' = "get"
          /\ UNCHANGED <<r_cancelled, terminated>>
       \/ /\ Head(todo) = "r.request_cancellation"
          /\ r_cancelled' = TRUE
          /\ UNCHANGED <<reader, terminated>>
       \/ /\ Head(todo) = "r.wait"
          /\ reader = "exited"
          /\ terminated' = (calling = "wait" /\ (~h_started \/ h_cancelled))
          /\ UNCHANGED <<reader, r_cancelled>>
    /\ UNCHANGED <<next, piece_index_, hvars, svars, wvars>>

CallMember ==
    /\ todo # <<>> /\ MembersIdle
    /\ CallHasher \/ CallChecksum \/ CallWriter \/ CallReader
    /\ todo' = Tail(todo)
    /\ UNCHANGED <<bvars, gvars, calling, started_, stopped_, cancelled_>>

(* A loop inside the member function that was called.                      *)
InMember ==
    /\ \/ H!Controller /\ UNCHANGED <<svars, wvars>>
       \/ S!Controller /\ UNCHANGED <<hvars, wvars>>
       \/ W!Controller /\ UNCHANGED <<hvars, svars>>
    /\ UNCHANGED <<rvars, bvars, cvars, gvars>>

Return ==
    /\ calling # "" /\ todo = <<>> /\ MembersIdle /\ ~terminated
    /\ started_' = (started_ \/ calling = "start")
    /\ cancelled_' = (cancelled_ \/ calling = "cancel")
    /\ stopped_' = (stopped_ \/ calling \in {"wait", "cancel"})
    /\ calling' = ""
    /\ UNCHANGED <<hvars, svars, wvars, terminated, rvars, bvars, gvars, todo>>

Client == CallMember \/ InMember \/ Return

Next ==
    \/ start \/ wait \/ cancel \/ Client
    \/ Reader
    \/ \E w \in H!Workers : HashWorker(w)
    \/ ChecksumWorker
    \/ Writer

Spec == Init /\ [][Next]_vars

(* Every thread that can run does; the client starts the hasher and, once  *)
(* it is started, calls wait() unless it cancels.                          *)
Fairness ==
    /\ WF_vars(start) /\ WF_vars(wait) /\ WF_vars(Client) /\ WF_vars(Reader)
    /\ \A w \in H!Workers : WF_vars(HashWorker(w))
    /\ WF_vars(ChecksumWorker) /\ WF_vars(Writer)

FairSpec == Spec /\ Fairness

-----------------------------------------------------------------------------
Cancelling == cancelled_ \/ calling = "cancel"
Copies == IF WithChecksum THEN 3 ELSE 2

(* Every variable of the composition itself keeps its type; the parts keep *)
(* theirs.                                                                 *)
TypeOK ==
    /\ reader \in {"unborn", "get", "get2", "read", "push", "push2",
                  "drop", "end", "exited"}
    /\ r_cancelled \in BOOLEAN /\ terminated \in BOOLEAN
    /\ next \in 1 .. ChunkCount + 1
    /\ piece_index_ \in 0 .. next - 1
    /\ free \in 0 .. Capacity
    /\ resources_left \in 0 .. Capacity
    /\ refs \in [Chunks -> 0 .. Copies]
    /\ calling \in {"", "start", "wait", "cancel"}
    /\ started_ \in BOOLEAN /\ stopped_ \in BOOLEAN /\ cancelled_ \in BOOLEAN

(* Every piece with data reaches the storage exactly once before wait()    *)
(* returns, and with it every checksum update: no stage is stopped while   *)
(* an earlier one still has work for it.                                   *)
AllWritten ==
    stopped_ /\ ~cancelled_ =>
        \A c \in Chunks : /\ hashed[c] = 1
                          /\ written[c] = (IF c \in NullChunks THEN 0 ELSE 1)
                          /\ WithChecksum => summed[c] = 1

(* Even when cancelled no piece is written twice, or written unhashed.     *)
WrittenOnce == \A c \in Chunks : written[c] <= hashed[c] /\ hashed[c] <= 1

(* No contract of any part fails as long as the client does not cancel.    *)
WaitIsClean == ~Cancelling => ~terminated

(* "Max size of all file chunks in memory": the buffers in use, unused in  *)
(* the pool and not yet constructed are queue_capacity_ together, so a     *)
(* buffer is never lost, freed twice or constructed beyond the limit.      *)
ReaderBuffers ==
    IF \/ reader \in {"read", "push"}
       \/ reader \in {"push2", "drop"} /\ next \in NullChunks
    THEN 1 ELSE 0

BuffersConserved ==
    /\ TypeOK
    /\ free + resources_left + ReaderBuffers
       + Cardinality({c \in Chunks : refs[c] > 0}) = Capacity

(* start() and wait() come to their end: the client's wait() returns.      *)
WaitReturns == (calling = "wait") ~> stopped_

(* cancel() does not block for ever: it comes to its end, be it a failed   *)
(* contract.                                                               *)
CancelReturns == (calling = "cancel") ~> (cancelled_ \/ terminated)
=============================================================================

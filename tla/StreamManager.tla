---------------------------- MODULE StreamManager ----------------------------
(***************************************************************************)
(* amrex::StreamManager and the calls of Gpu::Device around it             *)
(* (Src/Base/AMReX_GpuDevice.cpp), composed with the CArena of a GPU       *)
(* build.  Gpu::freeAsync defers a free to the next synchronisation of the *)
(* stream, because kernels already launched may still use the memory; an   *)
(* allocation that finds no room clears the deferred frees first.          *)
(*                                                                         *)
(* A stream runs its kernels in order.  A callback in a stream may call    *)
(* CArena::free, and returning memory to the system waits until every      *)
(* stream is idle, as cudaFree may: both are what the comment in           *)
(* freeUnused_protected speaks of.  The program frees a block once, uses   *)
(* it on the stream it will freeAsync it on, and resizes or frees at once  *)
(* only blocks no kernel uses.                                             *)
(***************************************************************************)
EXTENDS CArena, Sequences

CONSTANTS
    NumStreams,     \* size of gpu_stream_pool
    WaitLimit,      \* the length of m_free_wait_list that makes free_async synchronise
    MaxQueue        \* bound: launched and unfinished work of a stream

ASSUME StreamsAssumption == {NumStreams, WaitLimit, MaxQueue} \subseteq Nat

VARIABLES
    queue,          \* queue[s]: the unfinished work of stream s, oldest first
    wait,           \* wait[s]: m_free_wait_list of stream s
    sync,           \* sync[t]: the call of StreamManager::sync thread t is in
    visit,          \* visit[t]: the streams clearFreeAsyncBuffer has looked at
    owed            \* history: the blocks passed to freeAsync and not freed since

listvars == <<wait, sync, visit>>
gpuvars == <<queue, listvars, owed>>

Streams == 1..NumStreams
Work == [kind : {"kernel", "callback"}, block : Blocks]

\* ahead: the work launched before cudaStreamSynchronize that is not finished.
NoSync == [stream |-> 0, ahead |-> 0, free |-> {}]
Syncing(t) == sync[t].stream # 0

Queued == UNION {{queue[s][i] : i \in 1..Len(queue[s])} : s \in Streams}
Uses(s, b) == \E i \in 1..Len(queue[s]) : queue[s][i].block = b
Deferred == (UNION {wait[s] : s \in Streams}) \cup (UNION {sync[t].free : t \in Threads})

\* The blocks the program still has, and those of them no work uses.
Held == m_busylist \ (owed \cup {w.block : w \in {v \in Queued : v.kind = "callback"}})
Unused == {b \in Held : \A s \in Streams : ~Uses(s, b)}

-----------------------------------------------------------------------------
Launch(t, s, b, kind) ==
    /\ ~Syncing(t) /\ call[t].pc = "idle"
    /\ Len(queue[s]) < MaxQueue
    /\ \A r \in Streams \ {s} : ~Uses(r, b)
    /\ queue' = [queue EXCEPT ![s] = Append(@, [kind |-> kind, block |-> b])]
    /\ UNCHANGED <<vars, listvars, owed>>

KernelDone(s) ==
    /\ queue[s] # <<>>
    /\ queue' = [queue EXCEPT ![s] = Tail(@)]
    /\ sync' = [t \in Threads |->
                  IF sync[t].stream = s /\ sync[t].ahead > 0
                  THEN [sync[t] EXCEPT !.ahead = @ - 1] ELSE sync[t]]
    /\ IF Head(queue[s]).kind = "callback" THEN FreeBlock(Head(queue[s]).block)
                                           ELSE UNCHANGED vars
    /\ UNCHANGED <<wait, visit, owed>>

\* The list is taken under m_mutex, before the stream is waited for.
BeginSync(t, s, list) ==
    /\ sync' = [sync EXCEPT ![t] = [stream |-> s, ahead |-> Len(queue[s]), free |-> list]]
    /\ wait' = [wait EXCEPT ![s] = {}]

StreamSynchronize(t, s) ==
    /\ ~Syncing(t) /\ call[t].pc = "idle"
    /\ BeginSync(t, s, wait[s])
    /\ UNCHANGED <<vars, queue, visit, owed>>

\* Mutant: past the limit the list is taken before the block is put in it, and
\* the block is in neither.
FreeAsyncForgets(t, s, b) ==
    /\ ~Syncing(t) /\ call[t].pc = "idle"
    /\ \A r \in Streams \ {s} : ~Uses(r, b)
    /\ IF Cardinality(wait[s]) + 1 > WaitLimit
       THEN BeginSync(t, s, wait[s])
       ELSE wait' = [wait EXCEPT ![s] = @ \cup {b}] /\ UNCHANGED sync
    /\ owed' = owed \cup {b}
    /\ UNCHANGED <<vars, queue, visit>>

FreeAsync(t, s, b) ==
    /\ ~Syncing(t) /\ call[t].pc = "idle"
    /\ \A r \in Streams \ {s} : ~Uses(r, b)
    /\ IF Cardinality(wait[s]) + 1 > WaitLimit
       THEN BeginSync(t, s, wait[s] \cup {b})
       ELSE wait' = [wait EXCEPT ![s] = @ \cup {b}] /\ UNCHANGED sync
    /\ owed' = owed \cup {b}
    /\ UNCHANGED <<vars, queue, visit>>

\* Mutant: after the wait, what came into the list meanwhile is freed too.
SyncFreeLate(t) ==
    /\ Syncing(t)
    /\ sync[t].ahead = 0
    /\ \E b \in sync[t].free \cup wait[sync[t].stream] :
          /\ FreeBlock(b)
          /\ sync' = [sync EXCEPT ![t].free = @ \ {b}]
          /\ wait' = [wait EXCEPT ![sync[t].stream] = @ \ {b}]
          /\ owed' = owed \ {b}
    /\ UNCHANGED <<queue, visit>>

\* One of the frees after the wait; each takes carena_mutex.
SyncFree(t) ==
    /\ Syncing(t)
    /\ sync[t].ahead = 0
    /\ \E b \in sync[t].free :
          /\ FreeBlock(b)
          /\ sync' = [sync EXCEPT ![t].free = @ \ {b}]
          /\ owed' = owed \ {b}
    /\ UNCHANGED <<queue, wait, visit>>

SyncReturn(t) ==
    /\ Syncing(t)
    /\ sync[t].ahead = 0
    /\ sync[t].free = {}
    /\ sync' = [sync EXCEPT ![t] = NoSync]
    /\ UNCHANGED <<vars, queue, wait, visit, owed>>

\* clearFreeAsyncBuffer, called by alloc_protected without carena_mutex.
ClearNext(t) ==
    /\ ~Syncing(t) /\ call[t].pc = "clear"
    /\ visit[t] < NumStreams
    /\ visit' = [visit EXCEPT ![t] = @ + 1]
    /\ LET s == visit[t] + 1
       IN  IF wait[s] # {} THEN BeginSync(t, s, wait[s]) ELSE UNCHANGED <<wait, sync>>
    /\ UNCHANGED <<vars, queue, owed>>

ClearDone(t) ==
    /\ ~Syncing(t)
    /\ visit[t] = NumStreams
    /\ BufferCleared(t)
    /\ visit' = [visit EXCEPT ![t] = 0]
    /\ UNCHANGED <<queue, wait, sync, owed>>

\* cudaFree and cudaFreeHost wait for the streams.
DeallocateAndWait(t) ==
    /\ \A s \in Streams : queue[s] = <<>>
    /\ DeallocateSystem(t)
    /\ UNCHANGED gpuvars

-----------------------------------------------------------------------------
GpuInit ==
    /\ Init
    /\ queue = [s \in Streams |-> <<>>]
    /\ wait = [s \in Streams |-> {}]
    /\ sync = [t \in Threads |-> NoSync]
    /\ visit = [t \in Threads |-> 0]
    /\ owed = {}

AsyncWork(t) == \E s \in Streams : \E b \in Held :
    FreeAsync(t, s, b) \/ Launch(t, s, b, "kernel")
                       \/ (b \in Unused /\ Launch(t, s, b, "callback"))

Program(t) ==
    \/ ~Syncing(t) /\ Call(t, Unused) /\ UNCHANGED gpuvars
    \/ \E s \in Streams : StreamSynchronize(t, s)
    \/ AsyncWork(t)

Inside(t) ==
    \/ Holder(t) /\ UNCHANGED gpuvars
    \/ Relock(t) /\ UNCHANGED gpuvars
    \/ DeallocateAndWait(t)
    \/ SyncFree(t) \/ SyncReturn(t) \/ ClearNext(t) \/ ClearDone(t)

GpuNext ==
    \/ \E t \in Threads : Program(t) \/ Inside(t)
    \/ \E s \in Streams : KernelDone(s)

GpuSpec == GpuInit /\ [][GpuNext]_<<vars, gpuvars>>

\* Threads inside a call go on, and streams run what was launched.
GpuFair ==
    /\ \A t \in Threads : WF_<<vars, gpuvars>>(Inside(t))
    /\ \A s \in Streams : WF_<<vars, gpuvars>>(KernelDone(s))

FairGpuSpec == GpuSpec /\ GpuFair

-----------------------------------------------------------------------------
GpuTypeOK ==
    /\ queue \in [Streams -> Seq(Work)]
    /\ wait \in [Streams -> SUBSET Blocks]
    /\ sync \in [Threads -> [stream : 0..NumStreams, ahead : Nat, free : SUBSET Blocks]]
    /\ visit \in [Threads -> 0..NumStreams]
    /\ \A t \in Threads : IF Syncing(t) THEN sync[t].ahead <= Len(queue[sync[t].stream])
                                      ELSE sync[t].free = {}

\* Memory passed to freeAsync is not given to anybody else while work launched
\* before the call can still use it: the blocks of all queued work are busy.
NotReusedInFlight == \A w \in Queued : w.block \in m_busylist

\* A deferred free is neither forgotten nor done twice: the blocks freeAsync has
\* been given and nothing has freed yet are those in the lists of the streams and in
\* the hands of the synchronising threads, each of them in one place only, and all
\* still busy.
DeferredOnce ==
    /\ Deferred = owed
    /\ Deferred \subseteq m_busylist
    /\ \A r, s \in Streams : r # s => wait[r] \cap wait[s] = {}
    /\ \A t, u \in Threads : t # u => sync[t].free \cap sync[u].free = {}
    /\ \A s \in Streams, t \in Threads : wait[s] \cap sync[t].free = {}

\* Why a free after the wait is safe.  Of a block in a stream's list only that
\* stream's work knows; of one in a thread's hands, only work that was launched
\* before the wait; and a callback is the only work that knows of the block it frees.
OnlyItsStream ==
    \A s \in Streams : \A b \in wait[s] : \A r \in Streams \ {s} : ~Uses(r, b)

OnlyAhead ==
    \A t \in Threads : \A b \in sync[t].free :
        \A s \in Streams : \A i \in 1..Len(queue[s]) :
            queue[s][i].block = b => s = sync[t].stream /\ i <= sync[t].ahead

CallbackAlone ==
    \A s \in Streams : \A i \in 1..Len(queue[s]) : queue[s][i].kind = "callback" =>
        /\ queue[s][i].block \notin Deferred
        /\ \A r \in Streams : \A j \in 1..Len(queue[r]) :
              queue[r][j].block = queue[s][i].block => r = s /\ j = i

\* The inductive invariant.
GpuIInv ==
    /\ IInv
    /\ GpuTypeOK
    /\ NotReusedInFlight
    /\ DeferredOnce
    /\ OnlyItsStream
    /\ OnlyAhead
    /\ CallbackAlone

\* Whoever holds carena_mutex releases it: no thread waits for a stream, which may
\* itself be running a callback that needs the mutex, while it holds it.
MutexReleased == \A t \in Threads : mutex = t ~> mutex # t
=============================================================================

------------------------------- MODULE CArena -------------------------------
(***************************************************************************)
(* amrex::CArena (Src/Base/AMReX_CArena.cpp), the coalescing arena behind  *)
(* The_Arena(): hunks obtained from the system are cut into blocks, free   *)
(* blocks of one hunk that touch are merged, and a hunk that is wholly     *)
(* free can be given back.                                                 *)
(*                                                                         *)
(* Addresses and sizes are in units of Arena::align_size, to which the     *)
(* code rounds every request; a leftover of at most 64 bytes is therefore  *)
(* none.  Every call holds carena_mutex, but freeUnused_protected unlocks  *)
(* it while it returns memory to the system, and alloc_protected while it  *)
(* clears the freeAsync buffer of a GPU build: in these windows the other  *)
(* threads' calls run.  The program passes in only pointers it was given.  *)
(* The high-water marks and the profiler's records are left out.           *)
(***************************************************************************)
EXTENDS Integers, FiniteSetsExt

CONSTANTS
    Threads,            \* the threads that use the arena
    Memory,             \* bound: number of units the system has
    Hunk,               \* m_hunk
    Threshold,          \* arena_info.release_threshold
    Defragmentation,    \* arena_info.defragmentation
    UseGpu,             \* AMREX_USE_GPU
    None                \* the mutex is free

ASSUME SizesAssumption == Memory \in Nat /\ Hunk \in Nat \ {0} /\ Threshold \in Nat
ASSUME FlagsAssumption == Defragmentation \in BOOLEAN /\ UseGpu \in BOOLEAN
ASSUME NoneAssumption == None \notin Threads

VARIABLES
    m_alloc,            \* the hunks: [p, size]
    m_freelist,         \* the free blocks: [block, owner, size]
    m_busylist,         \* the blocks handed out: [block, owner, size]
    m_used,
    m_actually_used,
    mutex,              \* the holder of carena_mutex
    call,               \* what a thread is doing, see Calls
    to_free             \* the hunks it is returning to the system

heapvars == <<m_alloc, m_freelist, m_busylist>>
callvars == <<mutex, call, to_free>>
vars == <<heapvars, m_used, m_actually_used, callvars>>

Sizes == 1..Memory

\* The locals of alloc_protected and the point a thread has reached in it; next is
\* where it goes on after freeUnused_protected, request is N.
Labels == {"idle", "search", "clear", "again", "grow", "system", "retry", "release", "dealloc"}
Calls == [pc : Labels, next : {"idle", "search", "system", "retry"}, nbytes : Nat \ {0},
          request : Nat \ {0}, freeunused_called : BOOLEAN]
Idle == [pc |-> "idle", next |-> "idle", nbytes |-> 1, request |-> 1,
         freeunused_called |-> FALSE]

Blocks == [block : Nat, owner : Nat, size : Nat \ {0}]
Hunks == [p : Nat, size : Nat \ {0}]

BlockEnd(b) == b.block + b.size
HunkEnd(h) == h.p + h.size
Max2(m, n) == IF m >= n THEN m ELSE n
Min2(m, n) == IF m <= n THEN m ELSE n

Total(S) == MapThenSumSet(LAMBDA x : x.size, S)

Node(block, owner, size) == [block |-> block, owner |-> owner, size |-> size]

\* Memory obtained from the system and not yet returned to it.
FromSystem == m_alloc \cup UNION {to_free[t] : t \in Threads}

-----------------------------------------------------------------------------
(***************************************************************************)
(* The lists                                                               *)
(***************************************************************************)
Fitting(n) == {b \in m_freelist : b.size >= n}
FirstFit(n) == CHOOSE b \in Fitting(n) : \A c \in Fitting(n) : b.block <= c.block

\* Mutant: the remainder keeps the old address.
LeftoverInPlace(b, n) == IF b.size > n THEN {Node(b.block, b.owner, b.size - n)} ELSE {}

\* The part of a free block that is left when its first n units are used.
Leftover(b, n) ==
    IF b.size > n THEN {Node(b.block + n, b.owner, b.size - n)} ELSE {}

\* The free blocks of b's hunk that end where b begins, or begin where it ends.
Below(b) == {c \in m_freelist : BlockEnd(c) = b.block /\ c.owner = b.owner}
Above(b) == {c \in m_freelist : c.block = BlockEnd(b) /\ c.owner = b.owner}

\* The size of a neighbour found by Below or Above: none or one block.
SizeOf(S) == IF S = {} THEN 0 ELSE (CHOOSE c \in S : TRUE).size

\* b merged with the free blocks it touches.
Merged(b) ==
    Node(b.block - SizeOf(Below(b)), b.owner, SizeOf(Below(b)) + b.size + SizeOf(Above(b)))

\* Mutant: any free block at the start of a hunk will do, as Node::operator== has it.
FreeableByAddress == {h \in m_alloc : \E b \in m_freelist : b.block = h.p}

\* The hunks that are one free block, and these blocks.
AsFree(h) == Node(h.p, h.p, h.size)
Freeable == {h \in m_alloc : AsFree(h) \in m_freelist}

-----------------------------------------------------------------------------
(***************************************************************************)
(* alloc                                                                   *)
(***************************************************************************)
Goto(t, label) == call' = [call EXCEPT ![t].pc = label]
Finish(t) == call' = [call EXCEPT ![t] = Idle] /\ mutex' = None

\* A call begins when the mutex is free; the other threads' run in its windows only.
Locks(t) == mutex = None /\ call[t].pc = "idle"

EnterAllocProtected(t, n) ==
    /\ mutex' = t
    /\ call' = [call EXCEPT ![t] =
                  [pc |-> IF m_used + n >= Threshold THEN "release" ELSE "search",
                   next |-> "search", nbytes |-> n, request |-> 1,
                   freeunused_called |-> m_used + n >= Threshold]]
    /\ UNCHANGED <<heapvars, m_used, m_actually_used, to_free>>

Alloc(t, n) == Locks(t) /\ EnterAllocProtected(t, n)

\* The free block at the lowest address that is large enough is cut.
Carve(t) ==
    /\ call[t].pc \in {"search", "again"}
    /\ Fitting(call[t].nbytes) # {}
    /\ LET n == call[t].nbytes
           b == FirstFit(n)
       IN  /\ m_busylist' = m_busylist \cup {Node(b.block, b.owner, n)}
           /\ m_freelist' = (m_freelist \ {b}) \cup Leftover(b, n)
           /\ m_actually_used' = m_actually_used + n
    /\ Finish(t)
    /\ UNCHANGED <<m_alloc, m_used, to_free>>

\* Mutant: the buffer is cleared with the mutex locked.
NothingFitsLocked(t) ==
    /\ call[t].pc = "search"
    /\ Fitting(call[t].nbytes) = {}
    /\ Goto(t, IF UseGpu THEN "clear" ELSE "grow")
    /\ UNCHANGED <<heapvars, m_used, m_actually_used, mutex, to_free>>

\* A GPU build unlocks the mutex, clears the freeAsync buffer and looks again.
NothingFits(t) ==
    /\ call[t].pc = "search"
    /\ Fitting(call[t].nbytes) = {}
    /\ mutex' = IF UseGpu THEN None ELSE t
    /\ Goto(t, IF UseGpu THEN "clear" ELSE "grow")
    /\ UNCHANGED <<heapvars, m_used, m_actually_used, to_free>>

BufferCleared(t) ==
    /\ call[t].pc = "clear"
    /\ mutex = None
    /\ mutex' = t
    /\ Goto(t, "again")
    /\ UNCHANGED <<heapvars, m_used, m_actually_used, to_free>>

\* The choice of the size of the hunk to get, perhaps after giving others back.
Grow(t) ==
    /\ \/ call[t].pc = "grow"
       \/ call[t].pc = "again" /\ Fitting(call[t].nbytes) = {}
    /\ LET N == Max2(Hunk, call[t].nbytes)
           freeable == Total(Freeable)
           trade == ~call[t].freeunused_called /\ Defragmentation /\ freeable \in N..Memory
       IN  call' = [call EXCEPT ![t].request = IF trade THEN freeable ELSE N,
                                ![t].next = "system",
                                ![t].pc = IF trade THEN "release" ELSE "system"]
    /\ UNCHANGED <<heapvars, m_used, m_actually_used, mutex, to_free>>

\* allocate_system succeeds: the block is cut from the new hunk.
NewHunk(t, p) ==
    /\ call[t].pc \in {"system", "retry"}
    /\ LET h == [p |-> p, size |-> call[t].request]
           n == call[t].nbytes
       IN  /\ HunkEnd(h) <= Memory
           /\ \A g \in FromSystem : HunkEnd(h) <= g.p \/ HunkEnd(g) <= h.p
           /\ m_alloc' = m_alloc \cup {h}
           /\ m_freelist' = m_freelist \cup Leftover(AsFree(h), n)
           /\ m_busylist' = m_busylist \cup {Node(p, p, n)}
           /\ m_used' = m_used + h.size
           /\ m_actually_used' = m_actually_used + n
    /\ Finish(t)
    /\ UNCHANGED to_free

\* The system has no memory: allocate_system gives back what is free and tries
\* again, then throws.
Refused(t) ==
    /\ \/ /\ call[t].pc = "system"
          /\ call' = [call EXCEPT ![t].pc = "release", ![t].next = "retry"]
          /\ UNCHANGED mutex
       \/ /\ call[t].pc = "retry"
          /\ Finish(t)
    /\ UNCHANGED <<heapvars, m_used, m_actually_used, to_free>>

-----------------------------------------------------------------------------
(***************************************************************************)
(* freeUnused                                                              *)
(***************************************************************************)
FreeUnused(t) ==
    /\ Locks(t)
    /\ mutex' = t
    /\ Goto(t, "release")
    /\ UNCHANGED <<heapvars, m_used, m_actually_used, to_free>>

Resume(t) ==
    /\ Goto(t, call[t].next)
    /\ mutex' = IF call[t].next = "idle" THEN None ELSE t

\* freeUnused_protected takes the wholly free hunks out of the lists, then unlocks.
Release(t) ==
    /\ call[t].pc = "release"
    /\ m_alloc' = m_alloc \ Freeable
    /\ m_freelist' = m_freelist \ {AsFree(h) : h \in Freeable}
    /\ m_used' = m_used - Total(Freeable)
    /\ to_free' = [to_free EXCEPT ![t] = Freeable]
    /\ IF Freeable = {} THEN Resume(t) ELSE mutex' = None /\ Goto(t, "dealloc")
    /\ UNCHANGED <<m_busylist, m_actually_used>>

DeallocateSystem(t) ==
    /\ call[t].pc = "dealloc"
    /\ \E h \in to_free[t] : to_free' = [to_free EXCEPT ![t] = @ \ {h}]
    /\ UNCHANGED <<heapvars, m_used, m_actually_used, mutex, call>>

\* Mutant: the mutex is not locked again.
RelockForgotten(t) ==
    /\ call[t].pc = "dealloc"
    /\ to_free[t] = {}
    /\ Goto(t, call[t].next)
    /\ UNCHANGED <<heapvars, m_used, m_actually_used, mutex, to_free>>

Relock(t) ==
    /\ call[t].pc = "dealloc"
    /\ to_free[t] = {}
    /\ mutex = None
    /\ Resume(t)
    /\ UNCHANGED <<heapvars, m_used, m_actually_used, to_free>>

-----------------------------------------------------------------------------
(***************************************************************************)
(* free, shrink_in_place, alloc_in_place                                   *)
(***************************************************************************)
\* Mutant: the block is merged with the free block below it only.
FreeBlockLow(b) ==
    /\ mutex = None
    /\ m_busylist' = m_busylist \ {b}
    /\ m_freelist' = (m_freelist \ Below(b)) \cup
                        {Node(Merged(b).block, b.owner, SizeOf(Below(b)) + b.size)}
    /\ m_actually_used' = m_actually_used - b.size
    /\ UNCHANGED <<m_alloc, m_used, callvars>>

FreeBlock(b) ==
    /\ mutex = None
    /\ m_busylist' = m_busylist \ {b}
    /\ m_freelist' = (m_freelist \ (Below(b) \cup Above(b))) \cup {Merged(b)}
    /\ m_actually_used' = m_actually_used - b.size
    /\ UNCHANGED <<m_alloc, m_used, callvars>>

Free(t, b) == Locks(t) /\ FreeBlock(b)

\* Mutant: what is cut off is put in the free list as it is.
ShrinkInPlaceUnmerged(t, b, n) ==
    /\ Locks(t)
    /\ n < b.size
    /\ m_busylist' = (m_busylist \ {b}) \cup {Node(b.block, b.owner, n)}
    /\ m_freelist' = m_freelist \cup {Node(b.block + n, b.owner, b.size - n)}
    /\ m_actually_used' = m_actually_used - (b.size - n)
    /\ UNCHANGED <<m_alloc, m_used, callvars>>

\* What is cut off is merged with the free block above it.
ShrinkInPlace(t, b, n) ==
    /\ Locks(t)
    /\ n < b.size
    /\ m_busylist' = (m_busylist \ {b}) \cup {Node(b.block, b.owner, n)}
    /\ m_freelist' = (m_freelist \ Above(b)) \cup
                       {Node(b.block + n, b.owner, (b.size - n) + SizeOf(Above(b)))}
    /\ m_actually_used' = m_actually_used - (b.size - n)
    /\ UNCHANGED <<m_alloc, m_used, callvars>>

\* The block above is free and is used, up to the size szmax.
GrowInPlace(t, b, szmin, szmax) ==
    /\ Locks(t)
    /\ b.size < szmax
    /\ \E c \in Above(b) :
          LET total == b.size + c.size
              new_size == Min2(total, szmax)
          IN  /\ total >= szmin
              /\ m_freelist' = (m_freelist \ {c}) \cup Leftover(c, new_size - b.size)
              /\ m_busylist' = (m_busylist \ {b}) \cup {Node(b.block, b.owner, new_size)}
              /\ m_actually_used' = m_actually_used + (new_size - b.size)
    /\ UNCHANGED <<m_alloc, m_used, callvars>>

\* Nothing serves in place: a block of its own, the old one stays with the program.
AllocElsewhere(t, b, szmin, szmax) ==
    /\ Locks(t)
    /\ b.size + SizeOf(Above(b)) < szmin
    /\ EnterAllocProtected(t, szmax)

-----------------------------------------------------------------------------
Init ==
    /\ m_alloc = {} /\ m_freelist = {} /\ m_busylist = {}
    /\ m_used = 0 /\ m_actually_used = 0
    /\ mutex = None
    /\ call = [t \in Threads |-> Idle]
    /\ to_free = [t \in Threads |-> {}]

Holder(t) == mutex = t /\ (Carve(t) \/ NothingFits(t) \/ Grow(t) \/ Refused(t) \/ Release(t)
                              \/ \E p \in 0..Memory : NewHunk(t, p))

Window(t) == BufferCleared(t) \/ DeallocateSystem(t) \/ Relock(t)

\* A call of the program; B are the blocks it may pass.
Call(t, B) ==
    \/ FreeUnused(t)
    \/ \E n \in Sizes : Alloc(t, n)
    \/ \E b \in B :
          \/ Free(t, b)
          \/ \E n \in Sizes : ShrinkInPlace(t, b, n)
          \/ \E szmax \in Sizes : \E szmin \in 1..szmax :
                GrowInPlace(t, b, szmin, szmax) \/ AllocElsewhere(t, b, szmin, szmax)

Next == \E t \in Threads : Holder(t) \/ Window(t) \/ Call(t, m_busylist)

Spec == Init /\ [][Next]_vars

-----------------------------------------------------------------------------
(***************************************************************************)
(* Properties                                                              *)
(***************************************************************************)
\* The state is well formed; a thread inside a call holds the mutex except in the
\* windows in which the code unlocks it, and no call forgets a hunk it took out.
TypeOK ==
    /\ m_alloc \subseteq Hunks
    /\ m_freelist \subseteq Blocks
    /\ m_busylist \subseteq Blocks
    /\ mutex \in Threads \cup {None}
    /\ call \in [Threads -> Calls]
    /\ to_free \in [Threads -> SUBSET Hunks]
    /\ \A t \in Threads : /\ mutex = t <=> call[t].pc \notin {"idle", "clear", "dealloc"}
                          /\ call[t].pc # "dealloc" => to_free[t] = {}

ApartBlocks(b, c) == BlockEnd(b) <= c.block \/ BlockEnd(c) <= b.block
ApartHunks(g, h) == HunkEnd(g) <= h.p \/ HunkEnd(h) <= g.p
InHunk(b, h) == b.owner = h.p /\ h.p <= b.block /\ BlockEnd(b) <= HunkEnd(h)
Covers(b, a) == b.block <= a /\ a < BlockEnd(b)

\* The blocks X cut the hunks A into pieces.
Tiling(X, A) ==
    /\ \A b, c \in X : b # c => ApartBlocks(b, c)
    /\ \A b \in X : \E h \in A : InHunk(b, h)
    /\ \A h \in A : \A a \in h.p .. (HunkEnd(h) - 1) : \E b \in X : b.owner = h.p /\ Covers(b, a)

\* Memory is neither lost nor given out twice: the free and the busy blocks lie in
\* the hunks that own them, no two of them share a unit and together they cover
\* every hunk; a hunk being returned to the system overlaps no other.
Tiled ==
    /\ m_freelist \cap m_busylist = {}
    /\ Tiling(m_freelist \cup m_busylist, m_alloc)
    /\ \A g, h \in m_alloc : g # h => ApartHunks(g, h)
    /\ \A t \in Threads : \A g \in to_free[t] : \A h \in m_alloc : ApartHunks(g, h)

\* No two free blocks of one hunk touch, whatever sequence of splits, shrinks and
\* frees made them: a hunk without busy blocks is one free block, the only form in
\* which freeUnused recognises it.
Coalesced ==
    \A b, c \in m_freelist : b.owner = c.owner => BlockEnd(b) # c.block

\* A thread asks the system for at least what it is to return; between calls it has
\* nothing to go on with, so that freeUnused ends where it began.
RequestSuffices ==
    \A t \in Threads :
        /\ (\/ call[t].pc \in {"system", "retry"}
            \/ call[t].pc \in {"release", "dealloc"} /\ call[t].next \in {"system", "retry"})
              => call[t].nbytes <= call[t].request
        /\ call[t].pc = "idle" => call[t].next = "idle"

\* The inductive invariant.
IInv == TypeOK /\ Tiled /\ Coalesced /\ RequestSuffices

\* A call of freeUnused leaves no hunk in the arena that carries no busy block.
ReleaseStep(t) ==
    (call[t].pc = "release" /\ call'[t].pc # "release") =>
        \A h \in m_alloc' : \E b \in m_busylist' : b.owner = h.p
ReleasesAll == [][\A t \in Threads : ReleaseStep(t)]_vars

\* The arena is a heap: the blocks in the hands of the program never overlap and
\* never lie in memory that is being given back, and a call changes its own only.
Piece(b) == [p |-> b.block, size |-> b.size]
Live == {Piece(b) : b \in m_busylist}
H == INSTANCE Heap WITH live <- Live, granted <- m_alloc
Refinement == H!Spec
=============================================================================

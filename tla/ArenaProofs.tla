---------------------------- MODULE ArenaProofs ----------------------------
(***************************************************************************)
(* For every memory, hunk size, threshold and set of threads: the blocks   *)
(* of the arena tile its hunks, no two free blocks of a hunk touch, and    *)
(* the arena implements the heap.                                          *)
(*                                                                         *)
(* Every operation on the lists replaces some neighbouring blocks R by     *)
(* others, N, that fill the same stretch lo .. hi - 1 of one hunk; the     *)
(* lemma Recut says that this keeps a tiling.  A hunk of which nothing is  *)
(* busy is therefore one free block, and is given back by freeUnused.      *)
(*                                                                         *)
(* Then, for any number of streams and any limits: memory whose free was   *)
(* deferred is not reused while launched work can touch it, and no         *)
(* deferred free is in two places.                                         *)
(***************************************************************************)
EXTENDS StreamManager, WellFoundedInduction, TLAPS


\* The fields of the elements of a set of blocks.
LEMMA BlockFields ==
    ASSUME NEW b \in Blocks
    PROVE  /\ b.block \in Nat /\ b.owner \in Nat /\ b.size \in Nat \ {0}
           /\ BlockEnd(b) = b.block + b.size /\ BlockEnd(b) \in Nat
  BY DEF Blocks, BlockEnd

LEMMA HunkFields ==
    ASSUME NEW h \in Hunks
    PROVE  h.p \in Nat /\ h.size \in Nat \ {0} /\ HunkEnd(h) = h.p + h.size
  BY DEF Hunks, HunkEnd

\* The blocks S, of the hunk o, fill the stretch lo .. hi - 1 and no more.
Fills(S, o, lo, hi) ==
    /\ \A s \in S : s.owner = o /\ lo <= s.block /\ BlockEnd(s) <= hi
    /\ \A a \in lo .. (hi - 1) : \E s \in S : Covers(s, a)
    /\ \A s, r \in S : s # r => ApartBlocks(s, r)

\* The stretch lo .. hi - 1 lies in the hunk o of A.
InOneOf(A, o, lo, hi) == \E h \in A : h.p = o /\ o <= lo /\ hi <= HunkEnd(h)

\* The blocks N may take the place of the blocks R in X.
Replaceable(X, A, R, N, o, lo, hi) ==
    /\ X \subseteq Blocks /\ A \subseteq Hunks /\ R \subseteq X /\ N \subseteq Blocks
    /\ o \in Nat /\ lo \in Nat /\ hi \in Nat /\ lo < hi
    /\ Tiling(X, A) /\ InOneOf(A, o, lo, hi)
    /\ Fills(R, o, lo, hi) /\ Fills(N, o, lo, hi)

\* Outside the blocks R, which fill lo .. hi - 1, no block of X reaches into it.
LEMMA OutsideOf ==
    ASSUME NEW X \in SUBSET Blocks,
           \A b, c \in X : b # c => ApartBlocks(b, c),
           NEW R \in SUBSET X, NEW lo \in Nat, NEW hi \in Nat,
           \A a \in lo .. (hi - 1) : \E r \in R : Covers(r, a),
           lo < hi,
           NEW x \in X \ R
    PROVE  BlockEnd(x) <= lo \/ hi <= x.block
  <1> SUFFICES ASSUME ~(BlockEnd(x) <= lo), ~(hi <= x.block)
               PROVE  FALSE
    OBVIOUS
  <1> DEFINE a == Max2(lo, x.block)
  <1>1. x.block \in Nat /\ BlockEnd(x) \in Nat /\ x.block < BlockEnd(x)
    BY BlockFields
  <1>2. a \in lo .. (hi - 1) /\ x.block <= a /\ a < BlockEnd(x)
    BY <1>1 DEF Max2
  <1>3. PICK r \in R : Covers(r, a)
    BY <1>2
  <1>4. r.block \in Nat /\ BlockEnd(r) \in Nat
    BY BlockFields
  <1>5. ApartBlocks(r, x)
    OBVIOUS
  <1> QED
    BY <1>1, <1>2, <1>3, <1>4, <1>5 DEF ApartBlocks, Covers

\* Cutting a stretch of a hunk in another way keeps the tiling.
LEMMA Recut ==
    ASSUME NEW X, NEW A, NEW R, NEW N, NEW o, NEW lo, NEW hi,
           Replaceable(X, A, R, N, o, lo, hi)
    PROVE  /\ Tiling((X \ R) \cup N, A)
           /\ (X \ R) \cap N = {}
           /\ \A x \in X \ R : BlockEnd(x) <= lo \/ hi <= x.block
  <1> USE DEF Replaceable
  <1>1. \A b, c \in X : b # c => ApartBlocks(b, c)
    BY DEF Tiling
  <1>2. \A x \in X \ R : BlockEnd(x) <= lo \/ hi <= x.block
    <2> TAKE x \in X \ R
    <2> QED
      BY <1>1, OutsideOf DEF Fills
  <1>3. \A n \in N : n.block \in Nat /\ BlockEnd(n) \in Nat /\ n.block < BlockEnd(n)
    BY BlockFields
  <1>4. \A x \in X : x.block \in Nat /\ BlockEnd(x) \in Nat /\ x.block < BlockEnd(x)
    BY BlockFields
  <1>5. \A x \in X \ R : \A n \in N : ApartBlocks(x, n) /\ ApartBlocks(n, x)
    BY <1>2, <1>3, <1>4 DEF ApartBlocks, Fills
  <1>6. (X \ R) \cap N = {}
    <2> SUFFICES ASSUME NEW x \in X \ R, x \in N PROVE FALSE
      OBVIOUS
    <2> QED
      BY <1>3, <1>5 DEF ApartBlocks
  <1> DEFINE Y == (X \ R) \cup N
  <1>7. \A b, c \in Y : b # c => ApartBlocks(b, c)
    BY <1>1, <1>5 DEF Fills
  <1>8. \A b \in Y : \E h \in A : InHunk(b, h)
    <2> TAKE b \in Y
    <2>1. CASE b \in X
      BY <2>1 DEF Tiling
    <2>2. CASE b \in N
      <3>1. PICK h \in A : h.p = o /\ o <= lo /\ hi <= HunkEnd(h)
        BY DEF InOneOf
      <3>2. b.owner = o /\ lo <= b.block /\ BlockEnd(b) <= hi
        BY <2>2 DEF Fills
      <3>3. b.block \in Nat /\ BlockEnd(b) \in Nat /\ HunkEnd(h) \in Nat
        BY <1>3, <2>2, HunkFields
      <3> QED
        BY <3>1, <3>2, <3>3 DEF InHunk
    <2> QED
      BY <2>1, <2>2
  <1>9. \A h \in A : \A a \in h.p .. (HunkEnd(h) - 1) :
           \E b \in Y : b.owner = h.p /\ Covers(b, a)
    <2> TAKE h \in A
    <2> TAKE a \in h.p .. (HunkEnd(h) - 1)
    <2>1. PICK b \in X : b.owner = h.p /\ Covers(b, a)
      BY DEF Tiling
    <2>2. CASE b \in R
      <3>1. b.owner = o /\ lo <= b.block /\ BlockEnd(b) <= hi
        BY <2>2 DEF Fills
      <3>2. a \in Int
        BY HunkFields
      <3>3. a \in lo .. (hi - 1)
        BY <1>4, <2>1, <3>1, <3>2 DEF Covers
      <3>4. PICK n \in N : n.owner = o /\ Covers(n, a)
        BY <3>3 DEF Fills
      <3> QED
        BY <2>1, <3>1, <3>4
    <2> QED
      BY <2>1, <2>2
  <1> QED
    BY <1>2, <1>6, <1>7, <1>8, <1>9 DEF Tiling

\* A new hunk cut into the blocks N joins the arena.
Addable(X, A, N, h) ==
    /\ X \subseteq Blocks /\ A \subseteq Hunks /\ N \subseteq Blocks /\ h \in Hunks
    /\ Tiling(X, A)
    /\ \A g \in A : ApartHunks(h, g)
    /\ \A a \in h.p .. (HunkEnd(h) - 1) : \E n \in N : Covers(n, a)
    /\ \A n \in N : InHunk(n, h)
    /\ \A m, n \in N : m # n => ApartBlocks(m, n)

LEMMA Extend ==
    ASSUME NEW X, NEW A, NEW N, NEW h, Addable(X, A, N, h)
    PROVE  /\ Tiling(X \cup N, A \cup {h})
           /\ X \cap N = {}
           /\ \A x \in X, n \in N : x.owner # n.owner
  <1> USE DEF Addable
  <1>1. \A x \in X : x.block \in Nat /\ BlockEnd(x) \in Nat /\ x.block < BlockEnd(x)
    BY BlockFields
  <1>2. \A n \in N : n.block \in Nat /\ BlockEnd(n) \in Nat /\ n.block < BlockEnd(n)
    BY BlockFields
  <1>3. \A x \in X, n \in N : ApartBlocks(x, n) /\ ApartBlocks(n, x) /\ x.owner # n.owner
    <2> TAKE x \in X, n \in N
    <2>1. PICK g \in A : InHunk(x, g)
      BY DEF Tiling
    <2>2. /\ InHunk(n, h) /\ ApartHunks(h, g)
          /\ g.p \in Nat /\ g.size \in Nat \ {0} /\ HunkEnd(g) = g.p + g.size
          /\ h.p \in Nat /\ h.size \in Nat \ {0} /\ HunkEnd(h) = h.p + h.size
      BY HunkFields
    <2> QED
      BY <1>1, <1>2, <2>1, <2>2 DEF InHunk, ApartHunks, ApartBlocks
  <1>4. X \cap N = {}
    BY <1>3
  <1>5. \A b, c \in X \cup N : b # c => ApartBlocks(b, c)
    BY <1>3 DEF Tiling
  <1>6. \A b \in X \cup N : \E g \in A \cup {h} : InHunk(b, g)
    BY DEF Tiling
  <1>7. \A g \in A \cup {h} : \A a \in g.p .. (HunkEnd(g) - 1) :
           \E b \in X \cup N : b.owner = g.p /\ Covers(b, a)
    BY DEF Tiling, InHunk
  <1> QED
    BY <1>3, <1>4, <1>5, <1>6, <1>7 DEF Tiling

\* Hunks D, each one free block, leave the arena.
LEMMA Shed ==
    ASSUME NEW X \in SUBSET Blocks, NEW A \in SUBSET Hunks, Tiling(X, A),
           \A g, h \in A : g # h => ApartHunks(g, h),
           NEW D \in SUBSET A, \A h \in D : AsFree(h) \in X
    PROVE  Tiling(X \ {AsFree(h) : h \in D}, A \ D)
  <1> DEFINE Y == X \ {AsFree(h) : h \in D}
  <1>1. \A x \in X : x.block \in Nat /\ BlockEnd(x) \in Nat /\ x.block < BlockEnd(x)
    BY BlockFields
  <1>2. \A h \in A : h.p \in Nat /\ h.size \in Nat \ {0} /\ HunkEnd(h) = h.p + h.size
    BY HunkFields
  <1>3. \A h \in A : /\ AsFree(h).block = h.p /\ AsFree(h).owner = h.p
                     /\ BlockEnd(AsFree(h)) = HunkEnd(h)
    BY DEF AsFree, Node, BlockEnd, HunkEnd
  <1>4. \A b, c \in Y : b # c => ApartBlocks(b, c)
    BY DEF Tiling
  <1>5. \A b \in Y : \E h \in A \ D : InHunk(b, h)
    <2> TAKE b \in Y
    <2>1. PICK h \in A : InHunk(b, h)
      BY DEF Tiling
    <2>2. ASSUME h \in D PROVE FALSE
      <3>1. AsFree(h) \in X /\ AsFree(h) # b
        BY <2>2
      <3>2. ApartBlocks(AsFree(h), b)
        BY <3>1 DEF Tiling
      <3> QED
        BY <1>1, <1>2, <1>3, <2>1, <3>2 DEF ApartBlocks, InHunk
    <2> QED
      BY <2>1, <2>2
  <1>6. \A h \in A \ D : \A a \in h.p .. (HunkEnd(h) - 1) :
           \E b \in Y : b.owner = h.p /\ Covers(b, a)
    <2> TAKE h \in A \ D
    <2> TAKE a \in h.p .. (HunkEnd(h) - 1)
    <2>1. PICK b \in X : b.owner = h.p /\ Covers(b, a)
      BY DEF Tiling
    <2>2. ASSUME NEW g \in D, b = AsFree(g) PROVE FALSE
      <3>1. g.p = h.p /\ ApartHunks(g, h)
        BY <1>3, <2>1, <2>2
      <3> QED
        BY <1>2, <3>1 DEF ApartHunks
    <2> QED
      BY <2>1, <2>2
  <1> QED
    BY <1>4, <1>5, <1>6 DEF Tiling

-----------------------------------------------------------------------------
(***************************************************************************)
(* The lists of the arena                                                  *)
(***************************************************************************)
\* A block and the blocks of its owner lie in one hunk.
LEMMA OneHunk ==
    ASSUME TypeOK, Tiled, NEW b \in m_freelist \cup m_busylist,
           NEW c \in m_freelist \cup m_busylist, b.owner = c.owner
    PROVE  \E h \in m_alloc : InHunk(b, h) /\ InHunk(c, h)
  <1>1. PICK g \in m_alloc : InHunk(b, g)
    BY DEF Tiled, Tiling
  <1>2. PICK h \in m_alloc : InHunk(c, h)
    BY DEF Tiled, Tiling
  <1>3. g \in Hunks /\ h \in Hunks
    BY DEF TypeOK
  <1>4. /\ g.p \in Nat /\ g.size \in Nat \ {0} /\ HunkEnd(g) = g.p + g.size
        /\ h.p \in Nat /\ h.size \in Nat \ {0} /\ HunkEnd(h) = h.p + h.size
    BY <1>3, HunkFields
  <1>5. ASSUME g # h PROVE FALSE
    <2>1. ApartHunks(g, h)
      BY <1>5 DEF Tiled
    <2>2. g.p = h.p
      BY <1>1, <1>2 DEF InHunk
    <2> QED
      BY <1>4, <2>1, <2>2 DEF ApartHunks
  <1> QED
    BY <1>1, <1>2, <1>5

\* What Below, Above and SizeOf return for a busy block.
LEMMA Neighbours ==
    ASSUME TypeOK, Tiled, NEW b \in m_busylist
    PROVE  /\ SizeOf(Below(b)) \in Nat /\ SizeOf(Above(b)) \in Nat
           /\ Below(b) \subseteq m_freelist /\ Above(b) \subseteq m_freelist
           /\ Below(b) = {} => SizeOf(Below(b)) = 0
           /\ Above(b) = {} => SizeOf(Above(b)) = 0
           /\ \A c \in Below(b) : /\ c.owner = b.owner /\ BlockEnd(c) = b.block
                                  /\ c.block = b.block - SizeOf(Below(b))
           /\ \A c \in Above(b) : /\ c.owner = b.owner /\ c.block = BlockEnd(b)
                                  /\ BlockEnd(c) = BlockEnd(b) + SizeOf(Above(b))
           /\ \E h \in m_alloc : /\ h.p = b.owner
                                 /\ h.p <= b.block - SizeOf(Below(b))
                                 /\ BlockEnd(b) + SizeOf(Above(b)) <= HunkEnd(h)
  <1>1. b \in Blocks /\ m_freelist \subseteq Blocks
    BY DEF TypeOK
  <1>2. b.block \in Nat /\ b.size \in Nat \ {0} /\ BlockEnd(b) = b.block + b.size
    BY <1>1, BlockFields
  <1>3. \A c \in m_freelist : c.block \in Nat /\ c.size \in Nat \ {0} /\ BlockEnd(c) = c.block + c.size
    BY <1>1, BlockFields
  <1>4. \A c, d \in m_freelist : c # d => ApartBlocks(c, d)
    BY DEF Tiled, Tiling
  <1>5. \A c, d \in Below(b) : c = d
    BY <1>2, <1>3, <1>4 DEF Below, ApartBlocks
  <1>6. \A c, d \in Above(b) : c = d
    BY <1>2, <1>3, <1>4 DEF Above, ApartBlocks
  <1>7. /\ Below(b) = {} => SizeOf(Below(b)) = 0
        /\ Above(b) = {} => SizeOf(Above(b)) = 0
    BY DEF SizeOf
  <1>8. \A c \in Below(b) : SizeOf(Below(b)) = c.size
    BY <1>5 DEF SizeOf
  <1>9. \A c \in Above(b) : SizeOf(Above(b)) = c.size
    BY <1>6 DEF SizeOf
  <1>10. Below(b) \subseteq m_freelist /\ Above(b) \subseteq m_freelist
    BY DEF Below, Above
  <1>11. SizeOf(Below(b)) \in Nat /\ SizeOf(Above(b)) \in Nat
    BY <1>3, <1>7, <1>8, <1>9, <1>10
  <1>12. \A c \in Below(b) : /\ c.owner = b.owner /\ BlockEnd(c) = b.block
                             /\ c.block = b.block - SizeOf(Below(b))
    BY <1>2, <1>3, <1>8, <1>10 DEF Below
  <1>13. \A c \in Above(b) : /\ c.owner = b.owner /\ c.block = BlockEnd(b)
                             /\ BlockEnd(c) = BlockEnd(b) + SizeOf(Above(b))
    BY <1>2, <1>3, <1>9, <1>10 DEF Above
  <1>14. \E h \in m_alloc : /\ h.p = b.owner
                            /\ h.p <= b.block - SizeOf(Below(b))
                            /\ BlockEnd(b) + SizeOf(Above(b)) <= HunkEnd(h)
    <2>1. PICK h \in m_alloc : InHunk(b, h)
      BY OneHunk
    <2>2. h.p \in Nat /\ HunkEnd(h) \in Nat
      BY HunkFields DEF TypeOK
    <2>3. \A g \in m_alloc : g.p = h.p => g = h
      BY <2>1, HunkFields DEF Tiled, ApartHunks, TypeOK
    <2>4. \A c \in Below(b) \cup Above(b) : InHunk(c, h)
      <3> TAKE c \in Below(b) \cup Above(b)
      <3>1. PICK g \in m_alloc : InHunk(b, g) /\ InHunk(c, g)
        BY <1>10, <1>12, <1>13, OneHunk
      <3> QED
        BY <2>1, <2>3, <3>1 DEF InHunk
    <2>5. h.p <= b.block - SizeOf(Below(b))
      BY <1>2, <1>7, <1>12, <2>1, <2>2, <2>4 DEF InHunk
    <2>6. BlockEnd(b) + SizeOf(Above(b)) <= HunkEnd(h)
      BY <1>2, <1>7, <1>13, <2>1, <2>2, <2>4 DEF InHunk
    <2> QED
      BY <2>1, <2>5, <2>6 DEF InHunk
  <1> QED
    BY <1>7, <1>10, <1>11, <1>12, <1>13, <1>14

\* The free list has a lowest block that fits, if any fits.
LEMMA FirstFitFits ==
    ASSUME TypeOK, NEW n, Fitting(n) # {}
    PROVE  FirstFit(n) \in m_freelist /\ FirstFit(n).size >= n
  <1> DEFINE T == {b.block : b \in Fitting(n)}
             Less == OpToRel(<, Nat)
  <1>1. \A b \in Fitting(n) : b.block \in Nat
    BY BlockFields DEF TypeOK, Fitting
  <1>2. T \subseteq Nat /\ T # {}
    BY <1>1
  <1>3. \E x \in T : \A y \in T : ~(<<y, x>> \in Less)
    <2> HIDE DEF T, Less
    <2>1. IsWellFoundedOn(Less, Nat)
      BY NatLessThanWellFounded DEF Less
    <2> QED
      BY <1>2, <2>1, WFMin
  <1>4. PICK x \in T : \A y \in T : ~(<<y, x>> \in Less)
    BY <1>3
  <1>5. \A y \in T : x <= y
    <2> SUFFICES ASSUME NEW y \in T, y < x PROVE FALSE
      BY <1>2
    <2>1. <<y, x>> \in Nat \X Nat
      BY <1>2
    <2>2. <<y, x>> \in Less
      BY <2>1 DEF OpToRel
    <2> QED
      BY <1>4, <2>2
  <1>6. \E b \in Fitting(n) : \A c \in Fitting(n) : b.block <= c.block
    BY <1>5
  <1>7. FirstFit(n) \in Fitting(n)
    BY <1>6 DEF FirstFit
  <1> QED
    BY <1>7 DEF Fitting

-----------------------------------------------------------------------------
(***************************************************************************)
(* The operations on the lists.  Lists collects what each one preserves.   *)
(***************************************************************************)
Lists ==
    /\ m_alloc \subseteq Hunks /\ m_freelist \subseteq Blocks /\ m_busylist \subseteq Blocks
    /\ Tiled /\ Coalesced

\* The case of an operation that leaves the hunks and the windows alone.
LEMMA SameHunks ==
    ASSUME Tiled, UNCHANGED <<m_alloc, to_free>>,
           Tiling(m_freelist \cup m_busylist, m_alloc)', (m_freelist \cap m_busylist = {})'
    PROVE  Tiled'
  BY DEF Tiled

\* The lists lose RF and RB and gain NF and NB, which fill the same stretch.
Relist(RF, RB, NF, NB, o, lo, hi) ==
    /\ RF \subseteq m_freelist /\ RB \subseteq m_busylist /\ NF \cap NB = {}
    /\ Replaceable(m_freelist \cup m_busylist, m_alloc, RF \cup RB, NF \cup NB, o, lo, hi)
    /\ m_freelist' = (m_freelist \ RF) \cup NF
    /\ m_busylist' = (m_busylist \ RB) \cup NB
    /\ UNCHANGED <<m_alloc, to_free>>

LEMMA Relisted ==
    ASSUME Tiled, NEW RF, NEW RB, NEW NF, NEW NB, NEW o, NEW lo, NEW hi,
           Relist(RF, RB, NF, NB, o, lo, hi)
    PROVE  /\ Tiled'
           /\ m_freelist' \subseteq Blocks /\ m_busylist' \subseteq Blocks
           /\ \A x \in (m_freelist \cup m_busylist) \ (RF \cup RB) :
                 BlockEnd(x) <= lo \/ hi <= x.block
  <1> DEFINE X == m_freelist \cup m_busylist
             R == RF \cup RB
             N == NF \cup NB
  <1>1. /\ Tiling((X \ R) \cup N, m_alloc) /\ (X \ R) \cap N = {}
        /\ \A x \in X \ R : BlockEnd(x) <= lo \/ hi <= x.block
    <2>1. Replaceable(X, m_alloc, R, N, o, lo, hi)
      BY DEF Relist
    <2> HIDE DEF X, R, N
    <2> QED
      BY <2>1, Recut
  <1>2. m_freelist \cap m_busylist = {}
    BY DEF Tiled
  <1>3. /\ m_freelist' \cup m_busylist' = (X \ R) \cup N
        /\ m_freelist' \cap m_busylist' = {}
    BY <1>1, <1>2 DEF Relist
  <1>4. Tiled'
    BY <1>1, <1>3, SameHunks DEF Relist
  <1>5. m_freelist' \subseteq Blocks /\ m_busylist' \subseteq Blocks
    BY DEF Relist, Replaceable
  <1> QED
    BY <1>1, <1>4, <1>5

\* The only new free block, if any, touches no other of its hunk.
TouchesNone(RF, NF) ==
    /\ m_freelist' = (m_freelist \ RF) \cup NF
    /\ \A y, z \in NF : y = z
    /\ \A z \in NF : BlockEnd(z) # z.block
    /\ \A z \in NF : \A d \in m_freelist \ RF :
          d.owner = z.owner => BlockEnd(d) # z.block /\ BlockEnd(z) # d.block

LEMMA StaysCoalesced ==
    ASSUME Coalesced, NEW RF, NEW NF, TouchesNone(RF, NF)
    PROVE  Coalesced'
  BY DEF Coalesced, TouchesNone

LEMMA FreeBlockLists ==
    ASSUME IInv, NEW b \in m_busylist, FreeBlock(b)
    PROVE  Lists'
  <1> DEFINE lo == b.block - SizeOf(Below(b))
             hi == BlockEnd(b) + SizeOf(Above(b))
             R == {b} \cup Below(b) \cup Above(b)
             N == {Merged(b)}
             X == m_freelist \cup m_busylist
  <1>1. TypeOK /\ Tiled /\ Coalesced
    BY DEF IInv
  <1>2. b \in Blocks /\ X \in SUBSET Blocks /\ m_alloc \in SUBSET Hunks
    BY <1>1 DEF TypeOK
  <1>3. b.block \in Nat /\ b.owner \in Nat /\ b.size \in Nat \ {0} /\ BlockEnd(b) = b.block + b.size
    BY <1>2, BlockFields
  <1>4. /\ SizeOf(Below(b)) \in Nat /\ SizeOf(Above(b)) \in Nat
        /\ Below(b) \subseteq m_freelist /\ Above(b) \subseteq m_freelist
        /\ Below(b) = {} => lo = b.block
        /\ Above(b) = {} => hi = BlockEnd(b)
        /\ \A c \in Below(b) : c.owner = b.owner /\ BlockEnd(c) = b.block /\ c.block = lo
        /\ \A c \in Above(b) : c.owner = b.owner /\ c.block = BlockEnd(b) /\ BlockEnd(c) = hi
        /\ \E h \in m_alloc : h.p = b.owner /\ h.p <= lo /\ hi <= HunkEnd(h)
    BY <1>1, <1>3, Neighbours
  <1>5. lo \in Nat /\ hi \in Nat /\ lo <= b.block /\ BlockEnd(b) <= hi /\ lo < hi
    BY <1>2, <1>3, <1>4, HunkFields
  <1>6. Merged(b) \in Blocks /\ Merged(b).owner = b.owner /\ Merged(b).block = lo /\ BlockEnd(Merged(b)) = hi
    BY <1>3, <1>4, <1>5 DEF Merged, Node, Blocks, BlockEnd
  <1>7. \A a \in lo .. (hi - 1) : \E r \in R : Covers(r, a)
    <2> TAKE a \in lo .. (hi - 1)
    <2>1. CASE a < b.block
      BY <1>3, <1>4, <1>5, <2>1 DEF Covers
    <2>2. CASE b.block <= a /\ a < BlockEnd(b)
      BY <2>2 DEF Covers
    <2>3. CASE BlockEnd(b) <= a
      BY <1>3, <1>4, <1>5, <2>3 DEF Covers
    <2> QED
      BY <1>3, <1>5, <2>1, <2>2, <2>3
  <1>8. \A c \in m_freelist : c.block \in Nat /\ BlockEnd(c) \in Nat /\ c.block < BlockEnd(c)
    BY <1>2, BlockFields
  <1>9. /\ \A r \in R : r.owner = b.owner /\ lo <= r.block /\ BlockEnd(r) <= hi
        /\ R \in SUBSET X
    BY <1>3, <1>4, <1>5, <1>8
  <1>10. Fills(R, b.owner, lo, hi)
    BY <1>1, <1>7, <1>9 DEF Fills, Tiled, Tiling
  <1>11. Fills(N, b.owner, lo, hi)
    BY <1>5, <1>6 DEF Fills, Covers
  <1>12. Tiling(X, m_alloc) /\ N \in SUBSET Blocks /\ InOneOf(m_alloc, b.owner, lo, hi)
    BY <1>1, <1>4, <1>6 DEF Tiled, InOneOf
  <1>13. Replaceable(X, m_alloc, R, N, b.owner, lo, hi)
    BY <1>2, <1>3, <1>5, <1>9, <1>10, <1>11, <1>12 DEF Replaceable
  <1>14. /\ m_freelist' = (m_freelist \ (Below(b) \cup Above(b))) \cup N
         /\ m_busylist' = (m_busylist \ {b}) \cup {}
         /\ UNCHANGED <<m_alloc, to_free>>
    BY DEF FreeBlock, callvars
  <1>15. /\ Tiled' /\ m_freelist' \subseteq Blocks /\ m_busylist' \subseteq Blocks
         /\ \A x \in X \ R : BlockEnd(x) <= lo \/ hi <= x.block
    <2> DEFINE RF == Below(b) \cup Above(b)
    <2>1. R = RF \cup {b} /\ N = N \cup {} /\ RF \subseteq m_freelist
      BY <1>4
    <2>2. Relist(RF, {b}, N, {}, b.owner, lo, hi)
      BY <1>13, <1>14, <2>1 DEF Relist
    <2> HIDE DEF N, RF, lo, hi
    <2> QED
      BY <1>1, <2>1, <2>2, Relisted
  <1>16. Coalesced'
    <2>1. \A d \in m_freelist \ (Below(b) \cup Above(b)) :
             d.owner = b.owner => BlockEnd(d) # lo /\ hi # d.block
      <3> SUFFICES ASSUME NEW d \in m_freelist \ (Below(b) \cup Above(b)), d.owner = b.owner
                   PROVE  BlockEnd(d) # lo /\ hi # d.block
        OBVIOUS
      <3>1. Below(b) = {} => BlockEnd(d) # lo
        BY <1>4 DEF Below
      <3>2. \A e \in Below(b) : BlockEnd(d) # lo
        BY <1>1, <1>4 DEF Coalesced
      <3>3. Above(b) = {} => hi # d.block
        BY <1>4 DEF Above
      <3>4. \A e \in Above(b) : hi # d.block
        BY <1>1, <1>4 DEF Coalesced
      <3> QED
        BY <3>1, <3>2, <3>3, <3>4
    <2>2. TouchesNone(Below(b) \cup Above(b), N)
      BY <1>4, <1>5, <1>6, <1>14, <2>1 DEF TouchesNone
    <2> HIDE DEF N
    <2> QED
      BY <1>1, <2>2, StaysCoalesced
  <1> QED
    BY <1>2, <1>14, <1>15, <1>16 DEF Lists

LEMMA ShrinkLists ==
    ASSUME IInv, NEW t, NEW b \in m_busylist, NEW n \in Sizes, ShrinkInPlace(t, b, n)
    PROVE  Lists'
  <1> DEFINE lo == b.block
             mid == b.block + n
             hi == BlockEnd(b) + SizeOf(Above(b))
             kept == Node(b.block, b.owner, n)
             rest == Node(mid, b.owner, (b.size - n) + SizeOf(Above(b)))
             R == Above(b) \cup {b}
             N == {rest} \cup {kept}
             X == m_freelist \cup m_busylist
  <1>1. TypeOK /\ Tiled /\ Coalesced
    BY DEF IInv
  <1>2. b \in Blocks /\ X \subseteq Blocks /\ m_alloc \subseteq Hunks
    BY <1>1 DEF TypeOK
  <1>3. /\ b.block \in Nat /\ b.owner \in Nat /\ b.size \in Nat \ {0} /\ BlockEnd(b) = b.block + b.size
        /\ n \in Nat \ {0} /\ n < b.size
    BY <1>2, BlockFields, SizesAssumption DEF Sizes, ShrinkInPlace
  <1>4. /\ SizeOf(Above(b)) \in Nat /\ Above(b) \subseteq m_freelist
        /\ Above(b) = {} => hi = BlockEnd(b)
        /\ \A c \in Above(b) : c.owner = b.owner /\ c.block = BlockEnd(b) /\ BlockEnd(c) = hi
        /\ InOneOf(m_alloc, b.owner, lo, hi)
    <2>1. SizeOf(Below(b)) \in Nat
      BY <1>1, Neighbours
    <2>2. \A h \in m_alloc : h.p \in Nat
      BY <1>2, HunkFields
    <2> QED
      BY <1>1, <1>3, <2>1, <2>2, Neighbours DEF InOneOf
  <1>5. /\ kept \in Blocks /\ kept.owner = b.owner /\ kept.block = lo /\ BlockEnd(kept) = mid
        /\ rest \in Blocks /\ rest.owner = b.owner /\ rest.block = mid /\ BlockEnd(rest) = hi
        /\ lo \in Nat /\ mid \in Nat /\ hi \in Nat /\ lo < mid /\ mid < BlockEnd(b) /\ BlockEnd(b) <= hi
    <2>1. lo \in Nat /\ mid \in Nat /\ hi \in Nat /\ lo < mid /\ mid < BlockEnd(b) /\ BlockEnd(b) <= hi
      BY <1>3, <1>4
    <2>2. (b.size - n) + SizeOf(Above(b)) \in Nat \ {0}
      BY <1>3, <1>4
    <2>3. mid + ((b.size - n) + SizeOf(Above(b))) = hi
      BY <1>3, <1>4
    <2>4. kept \in Blocks /\ kept.owner = b.owner /\ kept.block = lo /\ BlockEnd(kept) = mid
      BY <1>3 DEF Node, Blocks, BlockEnd
    <2>5. rest \in Blocks /\ rest.owner = b.owner /\ rest.block = mid /\ BlockEnd(rest) = hi
      BY <1>3, <2>1, <2>2, <2>3 DEF Node, Blocks, BlockEnd
    <2> QED
      BY <2>1, <2>4, <2>5
  <1> HIDE DEF kept, rest
  <1>6. Fills(R, b.owner, lo, hi)
    <2>1. \A a \in lo .. (hi - 1) : \E r \in R : Covers(r, a)
      BY <1>3, <1>4, <1>5 DEF Covers
    <2>2. \A c \in Above(b) : lo <= c.block
      BY <1>3, <1>4
    <2>3. \A r \in R : r.owner = b.owner /\ lo <= r.block /\ BlockEnd(r) <= hi
      BY <1>3, <1>4, <1>5, <2>2
    <2>4. \A s, r \in R : s # r => ApartBlocks(s, r)
      BY <1>1, <1>4 DEF Tiled, Tiling
    <2> QED
      BY <2>1, <2>3, <2>4 DEF Fills
  <1>7. Fills(N, b.owner, lo, hi)
    <2>1. \A a \in lo .. (hi - 1) : Covers(kept, a) \/ Covers(rest, a)
      BY <1>3, <1>5 DEF Covers
    <2>2. ApartBlocks(kept, rest) /\ ApartBlocks(rest, kept)
      BY <1>5 DEF ApartBlocks
    <2>3. \A m \in N : m.owner = b.owner /\ lo <= m.block /\ BlockEnd(m) <= hi
      BY <1>3, <1>5
    <2> QED
      BY <2>1, <2>2, <2>3 DEF Fills
  <1>8. Replaceable(X, m_alloc, R, N, b.owner, lo, hi)
    BY <1>1, <1>2, <1>3, <1>4, <1>5, <1>6, <1>7 DEF Replaceable, Tiled
  <1>9. /\ m_freelist' = (m_freelist \ Above(b)) \cup {rest}
        /\ m_busylist' = (m_busylist \ {b}) \cup {kept}
        /\ UNCHANGED <<m_alloc, to_free>>
    BY DEF ShrinkInPlace, callvars, kept, rest
  <1>10. /\ Tiled' /\ m_freelist' \subseteq Blocks /\ m_busylist' \subseteq Blocks
         /\ \A x \in X \ R : BlockEnd(x) <= lo \/ hi <= x.block
    <2>1. {rest} \cap {kept} = {}
      BY <1>5
    <2>2. Relist(Above(b), {b}, {rest}, {kept}, b.owner, lo, hi)
      BY <1>4, <1>8, <1>9, <2>1 DEF Relist
    <2> HIDE DEF lo, hi
    <2> QED
      BY <1>1, <2>2, Relisted
  <1>11. Coalesced'
    <2>1. \A d \in m_freelist \ Above(b) : d.owner = b.owner => BlockEnd(d) # mid /\ hi # d.block
      <3> SUFFICES ASSUME NEW d \in m_freelist \ Above(b), d.owner = b.owner
                   PROVE  BlockEnd(d) # mid /\ hi # d.block
        OBVIOUS
      <3>1. d # b /\ d.block \in Nat /\ BlockEnd(d) \in Nat /\ d.block < BlockEnd(d)
        BY <1>1, <1>2, BlockFields DEF Tiled
      <3>2. BlockEnd(d) # mid
        <4>1. d \in X \ R
          BY <3>1
        <4>2. BlockEnd(d) <= lo \/ hi <= d.block
          BY <1>10, <4>1
        <4>3. lo \in Nat /\ mid \in Nat /\ hi \in Nat /\ lo < mid /\ mid < hi
          BY <1>3, <1>4
        <4> HIDE DEF lo, mid, hi
        <4> QED
          BY <3>1, <4>2, <4>3
      <3>3. Above(b) = {} => hi # d.block
        BY <1>4 DEF Above
      <3>4. \A e \in Above(b) : hi # d.block
        BY <1>1, <1>4 DEF Coalesced
      <3> QED
        BY <3>2, <3>3, <3>4
    <2>2. BlockEnd(rest) # rest.block
      BY <1>3, <1>5
    <2>3. TouchesNone(Above(b), {rest})
      BY <1>5, <1>9, <2>1, <2>2 DEF TouchesNone
    <2> QED
      BY <1>1, <2>3, StaysCoalesced
  <1> QED
    BY <1>2, <1>9, <1>10, <1>11 DEF Lists

\* The stretch from lo to the end of the free block last becomes a busy block up to
\* mid and a free block behind it, if anything is left.
Serves(last, RB, lo, mid) ==
    /\ last \in m_freelist /\ RB \subseteq m_busylist
    /\ lo \in Nat /\ mid \in Nat /\ lo < mid /\ mid <= BlockEnd(last)
    /\ Fills({last} \cup RB, last.owner, lo, BlockEnd(last))
    /\ InOneOf(m_alloc, last.owner, lo, BlockEnd(last))
    /\ m_freelist' = (m_freelist \ {last}) \cup
          (IF mid < BlockEnd(last) THEN {Node(mid, last.owner, BlockEnd(last) - mid)} ELSE {})
    /\ m_busylist' = (m_busylist \ RB) \cup {Node(lo, last.owner, mid - lo)}
    /\ UNCHANGED <<m_alloc, to_free>>

LEMMA ServesLists ==
    ASSUME TypeOK, Tiled, Coalesced, NEW last, NEW RB, NEW lo, NEW mid, Serves(last, RB, lo, mid)
    PROVE  Lists'
  <1> DEFINE hi == BlockEnd(last)
             o == last.owner
             front == Node(lo, o, mid - lo)
             rest == Node(mid, o, hi - mid)
             L == IF mid < hi THEN {rest} ELSE {}
             R == {last} \cup RB
             N == L \cup {front}
             X == m_freelist \cup m_busylist
  <1>1. /\ last \in Blocks /\ X \subseteq Blocks /\ m_alloc \subseteq Hunks
        /\ last \in m_freelist /\ RB \subseteq m_busylist
    BY DEF TypeOK, Serves
  <1>2. o \in Nat /\ lo \in Nat /\ mid \in Nat /\ hi \in Nat /\ lo < mid /\ mid <= hi /\ lo < hi
    BY <1>1, BlockFields DEF Serves
  <1>3. front \in Blocks /\ front.owner = o /\ front.block = lo /\ BlockEnd(front) = mid
    <2>1. mid - lo \in Nat \ {0} /\ lo + (mid - lo) = mid
      BY <1>2
    <2> HIDE DEF o
    <2> QED
      BY <1>2, <2>1 DEF Node, Blocks, BlockEnd
  <1>4. mid < hi => rest \in Blocks /\ rest.owner = o /\ rest.block = mid /\ BlockEnd(rest) = hi
    <2>1. mid < hi => hi - mid \in Nat \ {0} /\ mid + (hi - mid) = hi
      BY <1>2
    <2> HIDE DEF o, hi
    <2> QED
      BY <1>2, <2>1 DEF Node, Blocks, BlockEnd
  <1>5. /\ m_freelist' = (m_freelist \ {last}) \cup L
        /\ m_busylist' = (m_busylist \ RB) \cup {front}
        /\ UNCHANGED <<m_alloc, to_free>>
        /\ Fills(R, o, lo, hi) /\ InOneOf(m_alloc, o, lo, hi)
    BY DEF Serves
  <1> HIDE DEF front, rest, hi, o
  <1>6. Fills(N, o, lo, hi)
    <2>1. CASE mid < hi
      <3>1. \A a \in lo .. (hi - 1) : Covers(front, a) \/ Covers(rest, a)
        BY <1>2, <1>3, <1>4, <2>1 DEF Covers
      <3>2. ApartBlocks(front, rest) /\ ApartBlocks(rest, front)
        BY <1>2, <1>3, <1>4, <2>1 DEF ApartBlocks
      <3>3. \A m \in N : m.owner = o /\ lo <= m.block /\ BlockEnd(m) <= hi
        BY <1>2, <1>3, <1>4, <2>1
      <3> QED
        BY <2>1, <3>1, <3>2, <3>3 DEF Fills
    <2>2. CASE mid = hi
      <3>1. N = {front}
        BY <1>2, <2>2
      <3>2. \A a \in lo .. (hi - 1) : Covers(front, a)
        BY <1>2, <1>3, <2>2 DEF Covers
      <3> QED
        BY <1>2, <1>3, <2>2, <3>1, <3>2 DEF Fills
    <2> QED
      BY <1>2, <2>1, <2>2
  <1>7. Replaceable(X, m_alloc, R, N, o, lo, hi)
    <2>1. R \subseteq X /\ N \subseteq Blocks
      BY <1>1, <1>3, <1>4
    <2>2. Tiling(X, m_alloc)
      BY DEF Tiled
    <2> HIDE DEF R, N, X
    <2> QED
      BY <1>1, <1>2, <1>5, <1>6, <2>1, <2>2 DEF Replaceable
  <1>8. /\ Tiled' /\ m_freelist' \subseteq Blocks /\ m_busylist' \subseteq Blocks
        /\ \A x \in X \ R : BlockEnd(x) <= lo \/ hi <= x.block
    <2>1. L \cap {front} = {}
      BY <1>2, <1>3, <1>4
    <2>2. {last} \subseteq m_freelist
      BY <1>1
    <2>3. Relist({last}, RB, L, {front}, o, lo, hi)
      <3> HIDE DEF L
      <3> QED
        BY <1>1, <1>5, <1>7, <2>1, <2>2 DEF Relist
    <2> HIDE DEF L
    <2> QED
      BY <2>3, Relisted
  <1>9. Coalesced'
    <2>1. ASSUME mid < hi, NEW d \in m_freelist \ {last}, d.owner = o
          PROVE  BlockEnd(d) # mid /\ hi # d.block
      <3>1. d \in X \ R
        BY <1>1 DEF Tiled
      <3>2. BlockEnd(d) <= lo \/ hi <= d.block
        BY <1>8, <3>1
      <3>3. d.block \in Nat /\ BlockEnd(d) \in Nat /\ d.block < BlockEnd(d)
        BY <1>1, BlockFields
      <3>4. hi # d.block
        BY <1>1, <2>1 DEF Coalesced, hi, o
      <3> QED
        BY <1>2, <2>1, <3>2, <3>3, <3>4
    <2>2. TouchesNone({last}, L)
      BY <1>2, <1>4, <1>5, <2>1 DEF TouchesNone
    <2> HIDE DEF L
    <2> QED
      BY <2>2, StaysCoalesced
  <1> QED
    BY <1>1, <1>5, <1>8, <1>9 DEF Lists

LEMMA CarveLists ==
    ASSUME IInv, NEW t \in Threads, Carve(t)
    PROVE  Lists'
  <1> DEFINE n == call[t].nbytes
             b == FirstFit(n)
             mid == b.block + n
  <1>1. TypeOK /\ Tiled /\ Coalesced
    BY DEF IInv
  <1>2. n \in Nat \ {0} /\ b \in m_freelist /\ b.size >= n
    BY <1>1, FirstFitFits DEF Carve, TypeOK, Calls
  <1> HIDE DEF n, b
  <1>3. b \in Blocks /\ b.block \in Nat /\ b.owner \in Nat /\ b.size \in Nat \ {0}
        /\ BlockEnd(b) = b.block + b.size
    BY <1>1, <1>2, BlockFields DEF TypeOK
  <1>4. Fills({b} \cup {}, b.owner, b.block, BlockEnd(b))
    BY <1>3 DEF Fills, Covers
  <1>5. InOneOf(m_alloc, b.owner, b.block, BlockEnd(b))
    BY <1>1, <1>2 DEF Tiled, Tiling, InHunk, InOneOf
  <1>6. Leftover(b, n) = IF mid < BlockEnd(b) THEN {Node(mid, b.owner, BlockEnd(b) - mid)} ELSE {}
    <2>1. b.size > n <=> mid < BlockEnd(b)
      BY <1>2, <1>3
    <2>2. b.size - n = BlockEnd(b) - mid
      BY <1>2, <1>3
    <2> QED
      BY <2>1, <2>2 DEF Leftover
  <1>7. /\ m_freelist' = (m_freelist \ {b}) \cup Leftover(b, n)
        /\ m_busylist' = (m_busylist \ {}) \cup {Node(b.block, b.owner, n)}
        /\ UNCHANGED <<m_alloc, to_free>>
    BY DEF Carve, n, b
  <1>8. Serves(b, {}, b.block, mid)
    <2>1. mid - b.block = n /\ mid \in Nat /\ b.block < mid /\ mid <= BlockEnd(b)
      BY <1>2, <1>3
    <2> HIDE DEF mid
    <2> QED
      BY <1>2, <1>3, <1>4, <1>5, <1>6, <1>7, <2>1 DEF Serves
  <1> QED
    BY <1>1, <1>8, ServesLists

LEMMA GrowLists ==
    ASSUME IInv, NEW t, NEW b \in m_busylist, NEW szmin \in Nat, NEW szmax \in Nat,
           GrowInPlace(t, b, szmin, szmax)
    PROVE  Lists'
  <1>1. TypeOK /\ Tiled /\ Coalesced
    BY DEF IInv
  <1>2. PICK c \in Above(b) :
           LET new_size == Min2(b.size + c.size, szmax)
           IN  /\ m_freelist' = (m_freelist \ {c}) \cup Leftover(c, new_size - b.size)
               /\ m_busylist' = (m_busylist \ {b}) \cup {Node(b.block, b.owner, new_size)}
    BY DEF GrowInPlace
  <1> DEFINE new_size == Min2(b.size + c.size, szmax)
             mid == b.block + new_size
             hi == BlockEnd(c)
  <1>3. /\ b.block \in Nat /\ b.owner \in Nat /\ b.size \in Nat \ {0}
        /\ BlockEnd(b) = b.block + b.size
    BY <1>1, BlockFields DEF TypeOK
  <1>4. c \in m_freelist /\ c.owner = b.owner /\ c.block = BlockEnd(b)
    BY DEF Above
  <1>5. c.block \in Nat /\ c.size \in Nat \ {0} /\ BlockEnd(c) = c.block + c.size
    BY <1>1, <1>4, BlockFields DEF TypeOK
  <1>6. new_size \in Nat /\ b.size < new_size /\ new_size <= b.size + c.size
    BY <1>3, <1>5 DEF GrowInPlace, Min2
  <1> HIDE DEF new_size
  <1>7. /\ mid \in Nat /\ b.block < mid /\ mid <= hi /\ mid - b.block = new_size
        /\ c.block + (new_size - b.size) = mid
        /\ c.size - (new_size - b.size) = hi - mid
        /\ c.size > new_size - b.size <=> mid < hi
    BY <1>3, <1>4, <1>5, <1>6
  <1>8. Leftover(c, new_size - b.size) =
           IF mid < hi THEN {Node(mid, c.owner, hi - mid)} ELSE {}
    BY <1>7 DEF Leftover
  <1>9. /\ m_freelist' = (m_freelist \ {c}) \cup Leftover(c, new_size - b.size)
        /\ m_busylist' = (m_busylist \ {b}) \cup {Node(b.block, c.owner, mid - b.block)}
        /\ UNCHANGED <<m_alloc, to_free>>
    <2>1. UNCHANGED <<m_alloc, to_free>>
      BY DEF GrowInPlace, callvars
    <2> QED
      BY <1>2, <1>4, <1>7, <2>1 DEF new_size
  <1>10. Fills({c} \cup {b}, c.owner, b.block, hi)
    <2>1. \A a \in b.block .. (hi - 1) : Covers(b, a) \/ Covers(c, a)
      BY <1>3, <1>4, <1>5 DEF Covers
    <2>2. ApartBlocks(b, c) /\ ApartBlocks(c, b)
      BY <1>3, <1>4, <1>5 DEF ApartBlocks
    <2>3. \A x \in {c} \cup {b} : x.owner = c.owner /\ b.block <= x.block /\ BlockEnd(x) <= hi
      BY <1>3, <1>4, <1>5
    <2> QED
      BY <2>1, <2>2, <2>3 DEF Fills
  <1>11. InOneOf(m_alloc, c.owner, b.block, hi)
    <2>1. PICK h \in m_alloc : InHunk(b, h) /\ InHunk(c, h)
      BY <1>1, <1>4, OneHunk
    <2> QED
      BY <2>1 DEF InHunk, InOneOf
  <1>12. Serves(c, {b}, b.block, mid)
    <2>1. {b} \subseteq m_busylist
      OBVIOUS
    <2> HIDE DEF mid
    <2> QED
      BY <1>3, <1>4, <1>7, <1>8, <1>9, <1>10, <1>11, <2>1 DEF Serves
  <1> QED
    BY <1>1, <1>12, ServesLists

LEMMA NewHunkLists ==
    ASSUME IInv, NEW t \in Threads, NEW p \in Nat, NewHunk(t, p)
    PROVE  Lists'
  <1> DEFINE n == call[t].nbytes
             h == [p |-> p, size |-> call[t].request]
             kept == Node(p, p, n)
             L == Leftover(AsFree(h), n)
             N == L \cup {kept}
             X == m_freelist \cup m_busylist
  <1>1. TypeOK /\ Tiled /\ Coalesced
    BY DEF IInv
  <1>2. n \in Nat \ {0} /\ call[t].request \in Nat \ {0} /\ n <= call[t].request
    BY <1>1 DEF IInv, RequestSuffices, NewHunk, TypeOK, Calls
  <1>3. /\ m_freelist' = m_freelist \cup L /\ m_busylist' = m_busylist \cup {kept}
        /\ m_alloc' = m_alloc \cup {h} /\ to_free' = to_free
        /\ \A g \in FromSystem : HunkEnd(h) <= g.p \/ HunkEnd(g) <= h.p
    BY DEF NewHunk
  <1>4. h \in Hunks /\ h.p = p /\ HunkEnd(h) = p + call[t].request
    BY <1>2 DEF Hunks, HunkEnd
  <1>5. kept \in Blocks /\ kept.owner = p /\ kept.block = p /\ BlockEnd(kept) = p + n
    BY <1>2 DEF Node, Blocks, BlockEnd
  <1>6. /\ n = call[t].request => L = {}
        /\ n < call[t].request => \E r \in L : TRUE
        /\ \A q, r \in L : q = r
        /\ \A r \in L : /\ r \in Blocks /\ r.owner = p /\ r.block = p + n
                        /\ BlockEnd(r) = HunkEnd(h) /\ n < call[t].request
    <2> DEFINE r == Node(p + n, p, call[t].request - n)
    <2>1. L = IF call[t].request > n THEN {r} ELSE {}
      BY DEF Leftover, AsFree, Node
    <2>2. ASSUME n < call[t].request
          PROVE  r \in Blocks /\ r.owner = p /\ r.block = p + n /\ BlockEnd(r) = HunkEnd(h)
      <3>1. call[t].request - n \in Nat \ {0} /\ p + n \in Nat
        BY <1>2, <2>2
      <3> QED
        BY <1>2, <1>4, <3>1 DEF Node, Blocks, BlockEnd
    <2> HIDE DEF r
    <2> QED
      BY <1>2, <2>1, <2>2
  <1> HIDE DEF kept, L, h, n
  <1>7. \A m \in N : InHunk(m, h)
    BY <1>2, <1>4, <1>5, <1>6 DEF InHunk
  <1>8. \A a \in h.p .. (HunkEnd(h) - 1) : \E m \in N : Covers(m, a)
    <2> TAKE a \in h.p .. (HunkEnd(h) - 1)
    <2>1. CASE a < p + n
      BY <1>2, <1>4, <1>5, <2>1 DEF Covers
    <2>2. CASE p + n <= a
      BY <1>2, <1>4, <1>6, <2>2 DEF Covers
    <2> QED
      BY <1>2, <1>4, <2>1, <2>2
  <1>9. \A m, q \in N : m # q => ApartBlocks(m, q)
    BY <1>2, <1>5, <1>6 DEF ApartBlocks
  <1>10. \A g \in m_alloc : ApartHunks(h, g) /\ ApartHunks(g, h)
    BY <1>3 DEF ApartHunks, FromSystem
  <1>11. \A u \in Threads : \A g \in to_free[u] : ApartHunks(g, h)
    BY <1>3 DEF ApartHunks, FromSystem
  <1>12. /\ X \in SUBSET Blocks /\ m_alloc \in SUBSET Hunks /\ Tiling(X, m_alloc)
         /\ N \in SUBSET Blocks
    BY <1>1, <1>5, <1>6 DEF TypeOK, Tiled
  <1>13. /\ Tiling(X \cup N, m_alloc \cup {h}) /\ X \cap N = {}
         /\ \A x \in X, m \in N : x.owner # m.owner
    <2> HIDE DEF X, N
    <2>1. Addable(X, m_alloc, N, h)
      BY <1>4, <1>7, <1>8, <1>9, <1>10, <1>12 DEF Addable
    <2> QED
      BY <2>1, Extend
  <1>14. kept \notin L
    BY <1>2, <1>5, <1>6
  <1>15. Tiled'
    <2>1. m_freelist' \cup m_busylist' = X \cup N /\ m_freelist' \cap m_busylist' = {}
      BY <1>1, <1>3, <1>13, <1>14 DEF Tiled
    <2> HIDE DEF X, N
    <2> QED
      BY <1>1, <1>3, <1>10, <1>11, <1>13, <2>1 DEF Tiled
  <1>16. Coalesced'
    <2> SUFFICES ASSUME NEW c \in m_freelist', NEW d \in m_freelist', c.owner = d.owner
                 PROVE  BlockEnd(c) # d.block
      BY DEF Coalesced
    <2>1. CASE c \in m_freelist /\ d \in m_freelist
      BY <1>1, <2>1 DEF Coalesced
    <2>2. CASE c \in L /\ d \in L
      <3>1. c = d /\ d.block = p + n /\ BlockEnd(c) = HunkEnd(h) /\ n < call[t].request
        BY <1>6, <2>2
      <3> QED
        BY <1>2, <1>4, <3>1
    <2>3. (c \in m_freelist /\ d \in m_freelist) \/ (c \in L /\ d \in L)
      BY <1>3, <1>13
    <2> QED
      BY <2>1, <2>2, <2>3
  <1> QED
    BY <1>3, <1>4, <1>5, <1>6, <1>12, <1>15, <1>16 DEF Lists

LEMMA ReleaseLists ==
    ASSUME IInv, NEW t \in Threads, Release(t)
    PROVE  Lists'
  <1> DEFINE X == m_freelist \cup m_busylist
             D == Freeable
             S == {AsFree(h) : h \in D}
  <1>1. TypeOK /\ Tiled /\ Coalesced
    BY DEF IInv
  <1>2. /\ m_freelist' = m_freelist \ S /\ m_busylist' = m_busylist /\ m_alloc' = m_alloc \ D
        /\ to_free' = [to_free EXCEPT ![t] = D]
    BY DEF Release
  <1>3. D \in SUBSET m_alloc /\ \A h \in D : AsFree(h) \in m_freelist
    BY DEF Freeable
  <1>4. /\ X \in SUBSET Blocks /\ m_alloc \in SUBSET Hunks /\ Tiling(X, m_alloc)
        /\ \A g, h \in m_alloc : g # h => ApartHunks(g, h)
        /\ m_freelist \cap m_busylist = {}
    BY <1>1 DEF TypeOK, Tiled
  <1>5. Tiling(X \ S, m_alloc \ D)
    <2>1. \A h \in D : AsFree(h) \in X
      BY <1>3
    <2> HIDE DEF X, D
    <2> QED
      BY <1>3, <1>4, <2>1, Shed
  <1>6. m_freelist' \cup m_busylist' = X \ S
    BY <1>2, <1>3, <1>4
  <1>7. \A u \in Threads : \A g \in to_free'[u] : \A h \in m_alloc' : ApartHunks(g, h)
    <2> TAKE u \in Threads
    <2> TAKE g \in to_free'[u]
    <2> TAKE h \in m_alloc'
    <2>1. CASE u = t
      BY <1>1, <1>2, <1>3, <1>4, <2>1 DEF TypeOK
    <2>2. CASE u # t
      BY <1>1, <1>2, <2>2 DEF TypeOK, Tiled
    <2> QED
      BY <2>1, <2>2
  <1>8. Tiled'
    <2> HIDE DEF X, S, D
    <2> QED
      BY <1>2, <1>4, <1>5, <1>6, <1>7 DEF Tiled
  <1>9. Coalesced'
    BY <1>1, <1>2 DEF Coalesced
  <1> QED
    BY <1>1, <1>2, <1>8, <1>9 DEF Lists, TypeOK

-----------------------------------------------------------------------------
(***************************************************************************)
(* The calls                                                               *)
(***************************************************************************)
Outside(c) == c.pc \in {"idle", "clear", "dealloc"}
WantsHunk(c) == \/ c.pc \in {"system", "retry"}
                \/ c.pc \in {"release", "dealloc"} /\ c.next \in {"system", "retry"}

\* What IInv says of the calls.
Callers ==
    /\ mutex \in Threads \cup {None}
    /\ call \in [Threads -> Calls]
    /\ to_free \in [Threads -> SUBSET Hunks]
    /\ \A t \in Threads : /\ mutex = t <=> ~Outside(call[t])
                          /\ call[t].pc # "dealloc" => to_free[t] = {}
                          /\ WantsHunk(call[t]) => call[t].nbytes <= call[t].request
                          /\ call[t].pc = "idle" => call[t].next = "idle"

LEMMA IInvParts == IInv <=> Lists /\ Callers
  BY DEF IInv, Lists, Callers, TypeOK, RequestSuffices, Outside, WantsHunk

LEMMA IInvPartsNext == Lists' /\ Callers' => IInv'
  BY DEF IInv, Lists, Callers, TypeOK, RequestSuffices, Outside, WantsHunk

\* Thread t goes on to the call c; the others stay where they are.
Moves(t, c) ==
    /\ c \in Calls
    /\ call' = [call EXCEPT ![t] = c]
    /\ mutex \in {t, None}
    /\ mutex' = IF Outside(c) THEN None ELSE t
    /\ to_free'[t] \in SUBSET Hunks
    /\ to_free' = [to_free EXCEPT ![t] = to_free'[t]]
    /\ c.pc # "dealloc" => to_free'[t] = {}
    /\ WantsHunk(c) => c.nbytes <= c.request
    /\ c.pc = "idle" => c.next = "idle"

LEMMA MovesCallers ==
    ASSUME Callers, NEW t \in Threads, NEW c, Moves(t, c)
    PROVE  Callers'
  <1>1. /\ call' \in [Threads -> Calls] /\ to_free' \in [Threads -> SUBSET Hunks]
        /\ call'[t] = c
        /\ \A u \in Threads \ {t} : call'[u] = call[u] /\ to_free'[u] = to_free[u]
    BY DEF Callers, Moves
  <1>2. mutex' \in Threads \cup {None} /\ (mutex' = t <=> ~Outside(c))
    BY NoneAssumption DEF Moves
  <1>3. \A u \in Threads \ {t} : mutex' # u /\ Outside(call'[u])
    BY <1>1, NoneAssumption DEF Callers, Moves
  <1> QED
    BY <1>1, <1>2, <1>3 DEF Callers, Moves

LEMMA IdleCall == Idle \in Calls /\ Outside(Idle) /\ ~WantsHunk(Idle)
                  /\ Idle.pc = "idle" /\ Idle.next = "idle"
  BY DEF Idle, Calls, Labels, Outside, WantsHunk

\* A thread that finishes its call.
LEMMA FinishCallers ==
    ASSUME Callers, NEW t \in Threads, mutex = t, Finish(t), UNCHANGED to_free
    PROVE  Callers'
  <1>1. ~Outside(call[t])
    BY DEF Callers
  <1>2. to_free[t] = {} /\ to_free' = [to_free EXCEPT ![t] = to_free'[t]]
    BY <1>1 DEF Callers, Outside
  <1>3. Moves(t, Idle)
    BY <1>2, IdleCall DEF Moves, Finish, Callers
  <1> QED
    BY <1>3, MovesCallers

LEMMA EnterCallers ==
    ASSUME Callers, NEW t \in Threads, NEW n \in Nat \ {0}, Locks(t), EnterAllocProtected(t, n)
    PROVE  Callers'
  <1> DEFINE c == [pc |-> IF m_used + n >= Threshold THEN "release" ELSE "search",
                   next |-> "search", nbytes |-> n, request |-> 1,
                   freeunused_called |-> m_used + n >= Threshold]
  <1>1. c \in Calls /\ ~Outside(c) /\ ~WantsHunk(c) /\ c.pc \notin {"idle", "dealloc"}
    <2>1. (m_used + n >= Threshold) \in BOOLEAN
      OBVIOUS
    <2>2. c.pc \in {"release", "search"} /\ c.next = "search"
      OBVIOUS
    <2>3. c \in Calls
      BY <2>1 DEF Calls, Labels
    <2> QED
      BY <2>2, <2>3 DEF Outside, WantsHunk
  <1>2. call' = [call EXCEPT ![t] = c] /\ mutex' = t /\ mutex = None /\ to_free' = to_free
    BY DEF EnterAllocProtected, Locks
  <1> HIDE DEF c
  <1>3. to_free[t] = {} /\ to_free' = [to_free EXCEPT ![t] = to_free'[t]]
    BY <1>2 DEF Callers, Locks
  <1>4. Moves(t, c)
    BY <1>1, <1>2, <1>3 DEF Moves, Callers
  <1> QED
    BY <1>4, MovesCallers

\* The label a thread goes on to after freeUnused_protected.
LEMMA ResumeCallers ==
    ASSUME Callers, NEW t \in Threads, mutex \in {t, None}, Resume(t),
           call[t].pc \in {"release", "dealloc"},
           to_free'[t] = {}, to_free' = [to_free EXCEPT ![t] = {}]
    PROVE  Callers'
  <1> DEFINE c == [call[t] EXCEPT !.pc = call[t].next]
  <1>1. call[t] \in Calls /\ call[t].next \in {"idle", "search", "system", "retry"}
    BY DEF Callers, Calls
  <1>2. c \in Calls /\ c.pc = call[t].next /\ c.next = call[t].next
        /\ c.nbytes = call[t].nbytes /\ c.request = call[t].request
    BY <1>1 DEF Calls, Labels
  <1>3. call' = [call EXCEPT ![t] = c]
    BY DEF Resume, Goto
  <1> HIDE DEF c
  <1>4. WantsHunk(c) => c.nbytes <= c.request
    BY <1>1, <1>2 DEF WantsHunk, Callers
  <1>5. Moves(t, c)
    BY <1>1, <1>2, <1>3, <1>4 DEF Moves, Resume, Outside
  <1> QED
    BY <1>5, MovesCallers

\* A step to another label only.
LEMMA GotoCallers ==
    ASSUME Callers, NEW t \in Threads, NEW label \in Labels \ {"idle"}, Goto(t, label),
           mutex \in {t, None}, mutex' = IF label \in {"clear", "dealloc"} THEN None ELSE t,
           to_free' = [to_free EXCEPT ![t] = to_free'[t]], to_free'[t] \in SUBSET Hunks,
           label # "dealloc" => to_free'[t] = {},
           WantsHunk([call[t] EXCEPT !.pc = label]) => call[t].nbytes <= call[t].request
    PROVE  Callers'
  <1> DEFINE c == [call[t] EXCEPT !.pc = label]
  <1>1. call[t] \in Calls
    BY DEF Callers
  <1>2. c \in Calls /\ c.pc = label /\ c.request = call[t].request /\ c.nbytes = call[t].nbytes
    BY <1>1 DEF Calls
  <1>3. call' = [call EXCEPT ![t] = c]
    BY DEF Goto
  <1> HIDE DEF c
  <1>4. Moves(t, c)
    BY <1>2, <1>3 DEF Moves, Outside, c
  <1> QED
    BY <1>4, MovesCallers

LEMMA GrowCallers ==
    ASSUME Callers, NEW t \in Threads, mutex = t, Grow(t)
    PROVE  Callers'
  <1> DEFINE N == Max2(Hunk, call[t].nbytes)
             freeable == Total(Freeable)
             trade == ~call[t].freeunused_called /\ Defragmentation /\ freeable \in N..Memory
             label == IF trade THEN "release" ELSE "system"
             request == IF trade THEN freeable ELSE N
             c == [call[t] EXCEPT !.request = request, !.next = "system", !.pc = label]
  <1>1. call[t] \in Calls /\ call[t].nbytes \in Nat \ {0}
    BY DEF Callers, Calls
  <1>2. N \in Nat \ {0} /\ call[t].nbytes <= N
    BY <1>1, SizesAssumption DEF Max2
  <1>3. request \in Nat \ {0} /\ call[t].nbytes <= request
    <2> HIDE DEF N, freeable
    <2>1. CASE trade
      BY <1>1, <1>2, <2>1, SizesAssumption
    <2>2. CASE ~trade
      BY <1>2, <2>2
    <2> QED
      BY <2>1, <2>2
  <1>4. call' = [call EXCEPT ![t] = c] /\ mutex' = t /\ to_free' = to_free
    BY Zenon DEF Grow
  <1>5. label \in {"release", "system"}
    OBVIOUS
  <1> HIDE DEF label, request, trade
  <1>6. c \in Calls /\ c.pc = label /\ c.request = request /\ c.nbytes = call[t].nbytes
    <2>1. label \in Labels
      BY <1>5 DEF Labels
    <2> QED
      BY <1>1, <1>3, <2>1 DEF Calls
  <1> HIDE DEF c
  <1>7. to_free[t] = {} /\ to_free' = [to_free EXCEPT ![t] = to_free'[t]]
    BY <1>4 DEF Callers, Outside
  <1>8. Moves(t, c)
    BY <1>3, <1>4, <1>5, <1>6, <1>7 DEF Moves, Outside, WantsHunk, Callers
  <1> QED
    BY <1>8, MovesCallers

LEMMA RefusedCallers ==
    ASSUME Callers, NEW t \in Threads, mutex = t, Refused(t)
    PROVE  Callers'
  <1>1. CASE call[t].pc = "system"
    <2> DEFINE c == [call[t] EXCEPT !.pc = "release", !.next = "retry"]
    <2>1. call[t] \in Calls /\ call[t].nbytes <= call[t].request
      BY <1>1 DEF Callers, WantsHunk
    <2>2. /\ c \in Calls /\ c.pc = "release"
          /\ c.request = call[t].request /\ c.nbytes = call[t].nbytes
      BY <2>1 DEF Calls, Labels
    <2>3. call' = [call EXCEPT ![t] = c] /\ mutex' = t /\ to_free' = to_free
      BY <1>1 DEF Refused, Finish
    <2> HIDE DEF c
    <2>4. to_free[t] = {} /\ to_free' = [to_free EXCEPT ![t] = to_free'[t]]
      BY <1>1, <2>3 DEF Callers
    <2>5. Moves(t, c)
      BY <2>1, <2>2, <2>3, <2>4 DEF Moves, Outside, Callers
    <2> QED
      BY <2>5, MovesCallers
  <1>2. CASE call[t].pc # "system"
    <2>1. Finish(t) /\ to_free' = to_free
      BY <1>2 DEF Refused
    <2> QED
      BY <2>1, FinishCallers
  <1> QED
    BY <1>1, <1>2

LEMMA ReleaseCallers ==
    ASSUME IInv, NEW t \in Threads, mutex = t, Release(t)
    PROVE  Callers'
  <1>1. Callers /\ Freeable \subseteq Hunks
    BY IInvParts DEF Freeable, Lists
  <1>2. call[t] \in Calls /\ to_free' = [to_free EXCEPT ![t] = Freeable] /\ to_free'[t] = Freeable
    BY <1>1 DEF Release, Callers
  <1>3. CASE Freeable = {}
    BY <1>1, <1>2, <1>3, ResumeCallers DEF Release
  <1>4. CASE Freeable # {}
    <2>1. Goto(t, "dealloc") /\ mutex' = None
      BY <1>4 DEF Release
    <2>2. WantsHunk([call[t] EXCEPT !.pc = "dealloc"]) => WantsHunk(call[t])
      BY <1>2 DEF WantsHunk, Calls, Release
    <2>3. "dealloc" \in Labels
      BY DEF Labels
    <2> QED
      BY <1>1, <1>2, <2>1, <2>2, <2>3, GotoCallers DEF Callers
  <1> QED
    BY <1>3, <1>4

\* The window in which memory goes back to the system.
LEMMA DeallocateCallers ==
    ASSUME Callers, NEW t \in Threads, DeallocateSystem(t)
    PROVE  Callers'
  <1>1. PICK h \in to_free[t] : to_free' = [to_free EXCEPT ![t] = to_free[t] \ {h}]
    BY DEF DeallocateSystem
  <1>2. UNCHANGED <<mutex, call>> /\ call[t].pc = "dealloc"
    BY DEF DeallocateSystem
  <1>3. to_free' \in [Threads -> SUBSET Hunks]
    BY <1>1 DEF Callers
  <1>4. \A u \in Threads \ {t} : to_free'[u] = to_free[u]
    BY <1>1 DEF Callers
  <1> QED
    BY <1>2, <1>3, <1>4 DEF Callers, Outside, WantsHunk

-----------------------------------------------------------------------------
(***************************************************************************)
(* The invariant                                                           *)
(***************************************************************************)
LEMMA InitIInv == Init => IInv
  <1> SUFFICES ASSUME Init PROVE Lists /\ Callers
    BY IInvParts
  <1>1. Lists
    BY DEF Init, Lists, Tiled, Tiling, Coalesced
  <1>2. Callers
    <2>1. call \in [Threads -> Calls] /\ to_free \in [Threads -> SUBSET Hunks] /\ mutex = None
      BY IdleCall DEF Init
    <2>2. \A t \in Threads : /\ Outside(call[t]) /\ ~WantsHunk(call[t]) /\ to_free[t] = {}
                             /\ call[t].next = "idle"
      BY IdleCall DEF Init
    <2> QED
      BY <2>1, <2>2, NoneAssumption DEF Callers
  <1> QED
    BY <1>1, <1>2

\* A step that leaves the lists alone and adds no hunk to the windows.
LEMMA KeepsLists ==
    ASSUME Lists, UNCHANGED heapvars, \A t \in Threads : to_free'[t] \subseteq to_free[t]
    PROVE  Lists'
  BY DEF Lists, Tiled, Tiling, Coalesced, heapvars

LEMMA SizesArePositive == Sizes \subseteq Nat \ {0}
  BY SizesAssumption DEF Sizes

LEMMA HolderIInv ==
    ASSUME IInv, NEW t \in Threads, Holder(t)
    PROVE  IInv'
  <1>1. Lists /\ Callers /\ mutex = t
    BY IInvParts DEF Holder
  <1>2. CASE Carve(t)
    <2>1. Lists'
      BY <1>2, CarveLists
    <2>2. Callers'
      BY <1>1, <1>2, FinishCallers DEF Carve
    <2> QED
      BY <2>1, <2>2, IInvPartsNext
  <1>3. CASE NothingFits(t)
    <2>1. Lists'
      BY <1>1, <1>3, KeepsLists DEF NothingFits
    <2>2. Callers'
      <3>1. to_free[t] = {} /\ to_free' = to_free /\ to_free' = [to_free EXCEPT ![t] = to_free'[t]]
        BY <1>1, <1>3 DEF NothingFits, Callers
      <3>2. call[t] \in Calls
        BY <1>1 DEF Callers
      <3>3. PICK label \in {"clear", "grow"} :
               Goto(t, label) /\ mutex' = IF label = "clear" THEN None ELSE t
        BY <1>3, FlagsAssumption DEF NothingFits
      <3>4. ~WantsHunk([call[t] EXCEPT !.pc = label])
        BY <3>2, <3>3 DEF WantsHunk, Calls
      <3> QED
        BY <1>1, <3>1, <3>3, <3>4, GotoCallers DEF Labels
    <2> QED
      BY <2>1, <2>2, IInvPartsNext
  <1>4. CASE Grow(t)
    <2>1. Lists'
      BY <1>1, <1>4, KeepsLists DEF Grow
    <2> QED
      BY <1>1, <1>4, <2>1, GrowCallers, IInvPartsNext
  <1>5. CASE Refused(t)
    <2>1. Lists'
      BY <1>1, <1>5, KeepsLists DEF Refused
    <2> QED
      BY <1>1, <1>5, <2>1, RefusedCallers, IInvPartsNext
  <1>6. CASE Release(t)
    BY <1>1, <1>6, ReleaseLists, ReleaseCallers, IInvPartsNext
  <1>7. ASSUME NEW p \in 0..Memory, NewHunk(t, p) PROVE IInv'
    <2>1. Lists'
      BY <1>7, NewHunkLists
    <2>2. Callers'
      BY <1>1, <1>7, FinishCallers DEF NewHunk
    <2> QED
      BY <2>1, <2>2, IInvPartsNext
  <1> QED
    BY <1>2, <1>3, <1>4, <1>5, <1>6, <1>7 DEF Holder

LEMMA WindowIInv ==
    ASSUME IInv, NEW t \in Threads, Window(t)
    PROVE  IInv'
  <1>1. Lists /\ Callers
    BY IInvParts
  <1>2. CASE BufferCleared(t)
    <2>1. Lists'
      BY <1>1, <1>2, KeepsLists DEF BufferCleared
    <2>2. to_free[t] = {} /\ to_free' = to_free /\ to_free' = [to_free EXCEPT ![t] = to_free'[t]]
      BY <1>1, <1>2 DEF BufferCleared, Callers
    <2>3. ~WantsHunk([call[t] EXCEPT !.pc = "again"])
      BY <1>1 DEF WantsHunk, Calls, Callers
    <2>4. Callers'
      BY <1>1, <1>2, <2>2, <2>3, GotoCallers DEF BufferCleared, Labels
    <2> QED
      BY <2>1, <2>4, IInvPartsNext
  <1>3. CASE DeallocateSystem(t)
    <2>1. \A u \in Threads : to_free'[u] \subseteq to_free[u]
      BY <1>1, <1>3 DEF DeallocateSystem, Callers
    <2>2. Lists'
      BY <1>1, <1>3, <2>1, KeepsLists DEF DeallocateSystem
    <2> QED
      BY <1>1, <1>3, <2>2, DeallocateCallers, IInvPartsNext
  <1>4. CASE Relock(t)
    <2>1. Lists'
      BY <1>1, <1>4, KeepsLists DEF Relock
    <2>2. to_free[t] = {} /\ to_free' = to_free /\ to_free' = [to_free EXCEPT ![t] = {}]
      BY <1>1, <1>4 DEF Relock, Callers
    <2>3. Callers'
      BY <1>1, <1>4, <2>2, ResumeCallers DEF Relock
    <2> QED
      BY <2>1, <2>3, IInvPartsNext
  <1> QED
    BY <1>2, <1>3, <1>4 DEF Window

\* A call that changes the lists at once leaves the calls as they were.
LEMMA KeepsCallers ==
    ASSUME Callers, UNCHANGED callvars
    PROVE  Callers'
  BY DEF Callers, callvars

LEMMA CallIInv ==
    ASSUME IInv, NEW t \in Threads, Call(t, m_busylist)
    PROVE  IInv'
  <1>1. Lists /\ Callers
    BY IInvParts
  <1>2. CASE FreeUnused(t)
    <2>1. Lists'
      BY <1>1, <1>2, KeepsLists DEF FreeUnused
    <2>2. to_free[t] = {} /\ to_free' = to_free /\ to_free' = [to_free EXCEPT ![t] = to_free'[t]]
      BY <1>1, <1>2 DEF FreeUnused, Locks, Callers
    <2>3. ~WantsHunk([call[t] EXCEPT !.pc = "release"])
      BY <1>1, <1>2 DEF FreeUnused, Locks, Callers, Calls, WantsHunk
    <2>4. Callers'
      BY <1>1, <1>2, <2>2, <2>3, GotoCallers DEF FreeUnused, Locks, Labels
    <2> QED
      BY <2>1, <2>4, IInvPartsNext
  <1>3. ASSUME NEW n \in Nat \ {0}, Locks(t), EnterAllocProtected(t, n) PROVE IInv'
    <2>1. Lists'
      BY <1>1, <1>3, KeepsLists DEF EnterAllocProtected
    <2> QED
      BY <1>1, <1>3, <2>1, EnterCallers, IInvPartsNext
  <1>4. ASSUME NEW n \in Sizes, Alloc(t, n) PROVE IInv'
    BY <1>3, <1>4, SizesArePositive DEF Alloc
  <1>5. ASSUME NEW b \in m_busylist, Free(t, b) PROVE IInv'
    <2>1. Lists' /\ UNCHANGED callvars
      BY <1>5, FreeBlockLists DEF Free, FreeBlock
    <2> QED
      BY <1>1, <2>1, KeepsCallers, IInvPartsNext
  <1>6. ASSUME NEW b \in m_busylist, NEW n \in Sizes, ShrinkInPlace(t, b, n) PROVE IInv'
    <2>1. Lists' /\ UNCHANGED callvars
      BY <1>6, ShrinkLists DEF ShrinkInPlace
    <2> QED
      BY <1>1, <2>1, KeepsCallers, IInvPartsNext
  <1>7. ASSUME NEW b \in m_busylist, NEW szmax \in Sizes, NEW szmin \in 1..szmax,
               GrowInPlace(t, b, szmin, szmax)
        PROVE  IInv'
    <2>1. Lists' /\ UNCHANGED callvars
      BY <1>7, GrowLists, SizesArePositive DEF GrowInPlace
    <2> QED
      BY <1>1, <2>1, KeepsCallers, IInvPartsNext
  <1>8. ASSUME NEW b \in m_busylist, NEW szmax \in Sizes, NEW szmin \in 1..szmax,
               AllocElsewhere(t, b, szmin, szmax)
        PROVE  IInv'
    BY <1>3, <1>8, SizesArePositive DEF AllocElsewhere
  <1> QED
    BY <1>2, <1>4, <1>5, <1>6, <1>7, <1>8 DEF Call

LEMMA NextIInv == IInv /\ [Next]_vars => IInv'
  <1> SUFFICES ASSUME IInv, [Next]_vars PROVE IInv'
    OBVIOUS
  <1>1. CASE Next
    BY <1>1, HolderIInv, WindowIInv, CallIInv DEF Next
  <1>2. CASE UNCHANGED vars
    <2>1. UNCHANGED heapvars /\ UNCHANGED callvars /\ UNCHANGED to_free
      BY <1>2 DEF vars, callvars
    <2> QED
      BY <2>1, IInvParts, KeepsLists, KeepsCallers, IInvPartsNext
  <1> QED
    BY <1>1, <1>2

\* The inductive invariant holds in every state of the arena.
THEOREM Invariance == Spec => []IInv
  BY InitIInv, NextIInv, PTL DEF Spec

\* Whatever the threads do in each other's unlocked windows, no memory of the arena
\* is lost or given out twice.
THEOREM MemoryIsTiled == Spec => []Tiled
  <1>1. IInv => Tiled
    BY DEF IInv
  <1> QED
    BY <1>1, Invariance, PTL

\* Free blocks of a hunk are always merged.
THEOREM FreeIsCoalesced == Spec => []Coalesced
  <1>1. IInv => Coalesced
    BY DEF IInv
  <1> QED
    BY <1>1, Invariance, PTL

\* A hunk without busy blocks is one free block: the block at its start is free, and if
\* it ended within the hunk the next one, free too, would touch it.
LEMMA FreeHunkIsOneBlock ==
    ASSUME IInv, NEW h \in m_alloc, \A b \in m_busylist : b.owner # h.p
    PROVE  h \in Freeable
  <1>1. /\ m_alloc \subseteq Hunks /\ m_freelist \subseteq Blocks /\ m_busylist \subseteq Blocks
        /\ Tiling(m_freelist \cup m_busylist, m_alloc) /\ Coalesced
        /\ \A g \in m_alloc : g # h => ApartHunks(g, h)
    BY DEF IInv, TypeOK, Tiled
  <1>2. h.p \in Nat /\ h.size \in Nat \ {0} /\ HunkEnd(h) = h.p + h.size
    BY <1>1, HunkFields
  <1>3. ASSUME NEW a \in h.p .. (HunkEnd(h) - 1)
        PROVE  \E b \in m_freelist : b.owner = h.p /\ Covers(b, a)
    BY <1>1, <1>3 DEF Tiling
  <1>4. PICK b \in m_freelist : b.owner = h.p /\ Covers(b, h.p)
    BY <1>2, <1>3
  <1>5. /\ b \in Blocks /\ b.block \in Nat /\ b.size \in Nat \ {0}
        /\ BlockEnd(b) = b.block + b.size
    BY <1>1, BlockFields
  <1>6. b.block = h.p /\ BlockEnd(b) <= HunkEnd(h)
    <2>1. PICK g \in m_alloc : InHunk(b, g)
      BY <1>1 DEF Tiling
    <2>2. g.p = h.p /\ g.p \in Nat /\ g.size \in Nat \ {0} /\ HunkEnd(g) = g.p + g.size
      BY <1>1, <1>4, <2>1, HunkFields DEF InHunk
    <2>3. g = h
      BY <1>1, <1>2, <2>2 DEF ApartHunks
    <2> QED
      BY <1>2, <1>4, <1>5, <2>1, <2>3 DEF InHunk, Covers
  <1>7. BlockEnd(b) = HunkEnd(h)
    <2> SUFFICES ASSUME BlockEnd(b) < HunkEnd(h) PROVE FALSE
      BY <1>2, <1>5, <1>6
    <2>1. PICK c \in m_freelist : c.owner = h.p /\ Covers(c, BlockEnd(b))
      BY <1>2, <1>3, <1>5, <1>6
    <2>2. c \in Blocks /\ c.block \in Nat /\ BlockEnd(c) \in Nat
      BY <1>1, BlockFields
    <2>3. c # b
      BY <1>5, <2>1 DEF Covers
    <2>4. ApartBlocks(b, c)
      BY <1>1, <2>3 DEF Tiling
    <2>5. c.block = BlockEnd(b)
      BY <1>5, <2>1, <2>2, <2>4 DEF ApartBlocks, Covers
    <2> QED
      BY <1>1, <1>4, <2>1, <2>5 DEF Coalesced
  <1>8. b.size = h.size
    BY <1>2, <1>5, <1>6, <1>7
  <1>9. b = AsFree(h)
    BY <1>4, <1>5, <1>6, <1>8 DEF Blocks, AsFree, Node
  <1> QED
    BY <1>9 DEF Freeable

\* freeUnused finds all that is free: after it every hunk of the arena carries a busy
\* block, for any number of threads and whatever calls came before.
THEOREM ReleasesAllAlways == Spec => ReleasesAll
  <1>1. ASSUME IInv, [Next]_vars, NEW t \in Threads PROVE ReleaseStep(t)
    <2> SUFFICES ASSUME call[t].pc = "release", call'[t].pc # "release"
                 PROVE  \A h \in m_alloc' : \E b \in m_busylist' : b.owner = h.p
      BY DEF ReleaseStep
    <2>1. call \in [Threads -> Calls] /\ mutex = t
      BY <1>1 DEF IInv, TypeOK
    <2>2. PICK u \in Threads : Holder(u) \/ Window(u) \/ Call(u, m_busylist)
      <3>1. call' # call
        OBVIOUS
      <3> QED
        BY <1>1, <3>1 DEF Next, vars, callvars
    <2>3. ~Call(u, m_busylist)
      <3>1. mutex # None
        BY <2>1, NoneAssumption
      <3> QED
        BY <3>1 DEF Call, FreeUnused, Alloc, AllocElsewhere, Free, ShrinkInPlace, GrowInPlace, Locks
    <2>4. ~Window(u)
      <3>1. CASE u = t
        BY <3>1 DEF Window, BufferCleared, DeallocateSystem, Relock
      <3>2. CASE u # t
        <4>1. ASSUME BufferCleared(u) \/ Relock(u) PROVE FALSE
          BY <2>1, <4>1, NoneAssumption DEF BufferCleared, Relock
        <4>2. ASSUME DeallocateSystem(u) PROVE FALSE
          BY <4>2 DEF DeallocateSystem
        <4> QED
          BY <4>1, <4>2 DEF Window
      <3> QED
        BY <3>1, <3>2
    <2>5. Release(t)
      <3>1. u = t
        BY <2>1, <2>2, <2>3, <2>4, NoneAssumption DEF Holder
      <3> QED
        BY <2>2, <2>3, <2>4, <3>1 DEF Holder, Carve, NothingFits, Grow, Refused, NewHunk
    <2>6. m_alloc' = m_alloc \ Freeable /\ m_busylist' = m_busylist
      BY <2>5 DEF Release
    <2> QED
      BY <1>1, <2>6, FreeHunkIsOneBlock
  <1>2. IInv /\ [Next]_vars => [\A t \in Threads : ReleaseStep(t)]_vars
    BY <1>1
  <1> QED
    BY <1>2, Invariance, PTL DEF Spec, ReleasesAll

-----------------------------------------------------------------------------
(***************************************************************************)
(* The arena implements the heap                                           *)
(***************************************************************************)
LEMMA PieceFields ==
    ASSUME NEW b
    PROVE  Piece(b).p = b.block /\ Piece(b).size = b.size
  BY DEF Piece

\* Distinct busy blocks are distinct pieces of memory.
LEMMA BusyApart ==
    ASSUME IInv, NEW b \in m_busylist, NEW c \in m_busylist, b # c
    PROVE  ApartBlocks(b, c) /\ Piece(b) # Piece(c)
  <1>1. ApartBlocks(b, c) /\ b \in Blocks /\ c \in Blocks
    BY DEF IInv, TypeOK, Tiled, Tiling
  <1>2. b.size > 0 /\ b.block \in Nat /\ b.size \in Nat /\ c.block \in Nat /\ c.size \in Nat
    BY <1>1, BlockFields
  <1>3. b.block # c.block \/ b.size # c.size
    BY <1>1, <1>2 DEF ApartBlocks, BlockEnd
  <1> QED
    BY <1>1, <1>3, PieceFields

\* Every block the program holds lies in granted memory, and the grants are apart.
HeapSafe ==
    /\ \A r \in Live : \E g \in m_alloc : H!Within(r, g)
    /\ \A g, h \in m_alloc : g # h => H!Apart(g, h)

LEMMA HeapIsSafe == IInv => HeapSafe
  <1> SUFFICES ASSUME IInv PROVE HeapSafe
    OBVIOUS
  <1>1. ASSUME NEW b \in m_busylist PROVE \E g \in m_alloc : H!Within(Piece(b), g)
    <2>1. PICK g \in m_alloc : InHunk(b, g)
      BY DEF IInv, Tiled, Tiling
    <2> QED
      BY <2>1, PieceFields DEF InHunk, H!Within, BlockEnd, HunkEnd
  <1>2. \A g, h \in m_alloc : g # h => H!Apart(g, h)
    BY DEF IInv, Tiled, ApartHunks, HunkEnd, H!Apart
  <1> QED
    BY <1>1, <1>2 DEF Live, HeapSafe

\* One block more, clear of every busy one.
LEMMA HeapAlloc ==
    ASSUME NEW b, m_busylist' = m_busylist \cup {b},
           \A c \in m_busylist : ApartBlocks(b, c)
    PROVE  H!Alloc
  <1>1. Live' = Live \cup {Piece(b)}
    BY DEF Live, Piece
  <1>2. \A s \in Live : H!Apart(Piece(b), s)
    BY PieceFields DEF Live, H!Apart, ApartBlocks, BlockEnd
  <1> QED
    BY <1>1, <1>2 DEF H!Alloc

\* A busy block replaced by one at its address, clear of the others.
LEMMA HeapResize ==
    ASSUME IInv, NEW b \in m_busylist, NEW new, new.block = b.block,
           m_busylist' = (m_busylist \ {b}) \cup {new},
           \A c \in m_busylist \ {b} : ApartBlocks(new, c),
           m_alloc' = m_alloc
    PROVE  H!Resize
  <1>1. Live' = (Live \ {Piece(b)}) \cup {Piece(new)}
    BY BusyApart DEF Live, Piece
  <1>2. \A s \in Live \ {Piece(b)} : H!Apart(Piece(new), s)
    BY PieceFields DEF Live, H!Apart, ApartBlocks, BlockEnd
  <1>3. Piece(b) \in Live /\ Piece(new) \in Live' /\ Piece(new).p = Piece(b).p
    BY <1>1, PieceFields DEF Live
  <1> QED
    BY <1>1, <1>2, <1>3 DEF H!Resize

LEMMA HeapFree ==
    ASSUME IInv, NEW b \in m_busylist, m_busylist' = m_busylist \ {b}, m_alloc' = m_alloc
    PROVE  H!Free
  <1>1. Live' = Live \ {Piece(b)}
    BY BusyApart DEF Live, Piece
  <1>2. Piece(b) \in Live
    BY DEF Live
  <1> QED
    BY <1>1, <1>2 DEF H!Free

LEMMA HeapTrade ==
    ASSUME m_busylist' = m_busylist
    PROVE  H!Trade
  BY DEF H!Trade, Live, Piece

\* Some operation of the heap.
HeapStep == H!Alloc \/ H!Resize \/ H!Free \/ H!Trade

LEMMA CarveSteps ==
    ASSUME IInv, NEW t \in Threads, Carve(t)
    PROVE  HeapStep
  <1> DEFINE n == call[t].nbytes
             b == FirstFit(n)
             new == Node(b.block, b.owner, n)
  <1>1. n \in Nat \ {0} /\ m_busylist' = m_busylist \cup {new} /\ Fitting(n) # {}
    BY DEF IInv, TypeOK, Calls, Carve
  <1>2. b \in m_freelist /\ b.size >= n
    BY <1>1, FirstFitFits DEF IInv, TypeOK
  <1>3. ASSUME NEW c \in m_busylist PROVE ApartBlocks(new, c)
    <2>1. ApartBlocks(b, c) /\ b \in Blocks /\ c \in Blocks
      BY <1>2 DEF IInv, TypeOK, Tiled, Tiling
    <2> HIDE DEF b, n
    <2>2. new.block = b.block /\ new.size = n
      BY DEF Node
    <2> QED
      BY <1>1, <1>2, <2>1, <2>2, BlockFields DEF ApartBlocks, BlockEnd
  <1> HIDE DEF new
  <1> QED
    BY <1>1, <1>3, HeapAlloc DEF HeapStep

LEMMA NewHunkSteps ==
    ASSUME IInv, NEW t \in Threads, NEW p \in 0..Memory, NewHunk(t, p)
    PROVE  HeapStep
  <1> DEFINE n == call[t].nbytes
             h == [p |-> p, size |-> call[t].request]
             new == Node(p, p, n)
  <1>1. /\ n \in Nat \ {0} /\ call[t].request \in Nat /\ n <= call[t].request
        /\ m_busylist' = m_busylist \cup {new}
    BY DEF IInv, TypeOK, Calls, RequestSuffices, NewHunk
  <1>2. ASSUME NEW c \in m_busylist PROVE ApartBlocks(new, c)
    <2>1. PICK g \in m_alloc : InHunk(c, g)
      BY DEF IInv, Tiled, Tiling
    <2>2. HunkEnd(h) <= g.p \/ HunkEnd(g) <= h.p
      BY <2>1 DEF NewHunk, FromSystem
    <2>3. c \in Blocks /\ g \in Hunks
      BY <2>1 DEF IInv, TypeOK
    <2>4. new.block = p /\ new.size = n /\ h.p = p /\ HunkEnd(h) = p + call[t].request
      BY DEF Node, HunkEnd
    <2> HIDE DEF n, h, new
    <2> QED
      BY <1>1, <2>1, <2>2, <2>3, <2>4, BlockFields, HunkFields
      DEF ApartBlocks, BlockEnd, InHunk, HunkEnd
  <1> HIDE DEF new
  <1> QED
    BY <1>1, <1>2, HeapAlloc DEF HeapStep

LEMMA ShrinkSteps ==
    ASSUME IInv, NEW t \in Threads, NEW b \in m_busylist, NEW n \in Nat \ {0}, ShrinkInPlace(t, b, n)
    PROVE  HeapStep
  <1> DEFINE new == Node(b.block, b.owner, n)
  <1>1. new.block = b.block /\ new.size = n
    BY DEF Node
  <1>2. /\ m_busylist' = (m_busylist \ {b}) \cup {new} /\ m_alloc' = m_alloc
        /\ n < b.size
    BY DEF ShrinkInPlace
  <1> HIDE DEF new
  <1>3. ASSUME NEW c \in m_busylist \ {b} PROVE ApartBlocks(new, c)
    <2>1. ApartBlocks(b, c) /\ b \in Blocks /\ c \in Blocks
      BY BusyApart DEF IInv, TypeOK
    <2> QED
      BY <1>1, <1>2, <2>1, BlockFields DEF ApartBlocks, BlockEnd
  <1> QED
    BY <1>1, <1>2, <1>3, HeapResize DEF HeapStep

LEMMA GrowSteps ==
    ASSUME IInv, NEW t \in Threads, NEW b \in m_busylist,
           NEW szmax \in Nat \ {0}, NEW szmin \in 1..szmax, GrowInPlace(t, b, szmin, szmax)
    PROVE  HeapStep
  <1>1. PICK c \in Above(b) :
           m_busylist' = (m_busylist \ {b}) \cup
                           {Node(b.block, b.owner, Min2(b.size + c.size, szmax))}
    BY DEF GrowInPlace
  <1> DEFINE size == Min2(b.size + c.size, szmax)
             new == Node(b.block, b.owner, size)
  <1>2. b \in Blocks /\ c \in Blocks /\ c \in m_freelist /\ c.block = BlockEnd(b)
    BY DEF Above, IInv, TypeOK
  <1>3. size \in Nat /\ size <= b.size + c.size
    BY <1>2, BlockFields DEF Min2
  <1>4. new.block = b.block /\ new.size = size
    BY DEF Node
  <1>5. m_busylist' = (m_busylist \ {b}) \cup {new} /\ m_alloc' = m_alloc
    BY <1>1 DEF GrowInPlace
  <1> HIDE DEF size, new
  <1>6. ASSUME NEW d \in m_busylist \ {b} PROVE ApartBlocks(new, d)
    <2>1. ApartBlocks(b, d) /\ ApartBlocks(c, d) /\ d \in Blocks
      BY <1>2, BusyApart DEF IInv, TypeOK, Tiled, Tiling
    <2> QED
      BY <1>2, <1>3, <1>4, <2>1, BlockFields DEF ApartBlocks, BlockEnd
  <1> QED
    BY <1>4, <1>5, <1>6, HeapResize DEF HeapStep

LEMMA ThreadSteps ==
    ASSUME IInv, NEW t \in Threads, Holder(t) \/ Window(t) \/ Call(t, m_busylist)
    PROVE  HeapStep
  <1>1. CASE m_busylist' = m_busylist
    BY <1>1, HeapTrade DEF HeapStep
  <1>2. CASE Holder(t) /\ m_busylist' # m_busylist
    <2>1. Carve(t) \/ \E p \in 0..Memory : NewHunk(t, p)
      BY <1>2 DEF Holder, NothingFits, Grow, Refused, Release, heapvars
    <2> QED
      BY <2>1, CarveSteps, NewHunkSteps
  <1>3. CASE Window(t)
    <2>1. m_busylist' = m_busylist
      BY <1>3 DEF Window, BufferCleared, DeallocateSystem, Relock, heapvars
    <2> QED
      BY <2>1, <1>1
  <1>4. CASE Call(t, m_busylist) /\ m_busylist' # m_busylist
    <2>1. \E b \in m_busylist :
             \/ Free(t, b)
             \/ \E n \in Sizes : ShrinkInPlace(t, b, n)
             \/ \E szmax \in Sizes : \E szmin \in 1..szmax : GrowInPlace(t, b, szmin, szmax)
      BY <1>4 DEF Call, FreeUnused, Alloc, AllocElsewhere, EnterAllocProtected, heapvars
    <2>2. ASSUME NEW b \in m_busylist, Free(t, b) PROVE HeapStep
      BY <2>2, HeapFree DEF Free, FreeBlock, HeapStep
    <2> QED
      BY <2>1, <2>2, ShrinkSteps, GrowSteps, SizesArePositive
  <1> QED
    BY <1>1, <1>2, <1>3, <1>4

LEMMA HeapNext == IInv /\ IInv' /\ [Next]_vars => [H!Next]_(H!vars)
  <1> SUFFICES ASSUME IInv, IInv', [Next]_vars PROVE [H!Next]_(H!vars)
    OBVIOUS
  <1>1. CASE Next
    <2>1. HeapStep
      BY <1>1, ThreadSteps DEF Next
    <2>2. HeapSafe'
      BY HeapIsSafe, PTL
    <2> QED
      BY <2>1, <2>2 DEF HeapStep, HeapSafe, H!Next
  <1>2. CASE UNCHANGED vars
    BY <1>2 DEF vars, heapvars, H!vars, Live, Piece
  <1> QED
    BY <1>1, <1>2

\* The arena does what a heap promises, for any number of threads and any sizes: a
\* block is handed out clear of every live one, a resize keeps its address and stays
\* clear of the others, and granted memory is never taken from under a live block.
THEOREM ImplementsHeap == Spec => Refinement
  <1>1. Init => H!Init
    BY DEF Init, H!Init, Live
  <1> QED
    BY <1>1, HeapNext, Invariance, PTL DEF Spec, Refinement, H!Spec

\* The mutex is held exactly by the thread inside a call, outside the windows.
THEOREM TypeCorrect == Spec => []TypeOK
  <1>1. IInv => TypeOK
    BY DEF IInv
  <1> QED
    BY <1>1, Invariance, PTL

-----------------------------------------------------------------------------
(***************************************************************************)
(* Deferred frees.  The arena changes the busy list in the ways shown      *)
(* above.  What is shown here is which blocks may leave it: those no work  *)
(* uses (ArenaStep), those a synchronised stream has finished with         *)
(* (SyncFree), and the block of a callback, of which no other work knows.  *)
(***************************************************************************)
\* GpuIInv without the arena, in terms of single entries of the lists.
InWaitOrSync(b) == (\E s \in Streams : b \in wait[s]) \/ (\E t \in Threads : b \in sync[t].free)

EntriesBusy ==
    \A s \in Streams : \A i \in 1..Len(queue[s]) : queue[s][i].block \in m_busylist

DeferredBusy ==
    /\ \A s \in Streams : wait[s] \subseteq m_busylist
    /\ \A t \in Threads : sync[t].free \subseteq m_busylist

InOnePlace ==
    /\ \A r, s \in Streams : r # s => wait[r] \cap wait[s] = {}
    /\ \A t, u \in Threads : t # u => sync[t].free \cap sync[u].free = {}
    /\ \A s \in Streams, t \in Threads : wait[s] \cap sync[t].free = {}

NothingForgotten == \A b : b \in owed <=> InWaitOrSync(b)

\* What does not depend on the arena.
StreamsInv ==
    GpuTypeOK /\ InOnePlace /\ NothingForgotten /\ OnlyItsStream /\ OnlyAhead /\ CallbackAlone

LEMMA DeferredEntries ==
    ASSUME NEW b
    PROVE  b \in Deferred <=> InWaitOrSync(b)
  <1> DEFINE W == UNION {wait[s] : s \in Streams}
             Y == UNION {sync[t].free : t \in Threads}
  <1>1. b \in W <=> \E s \in Streams : b \in wait[s]
    BY Zenon
  <1>2. b \in Y <=> \E t \in Threads : b \in sync[t].free
    BY Zenon
  <1>3. Deferred = W \cup Y
    BY Zenon DEF Deferred
  <1> HIDE DEF W, Y
  <1> QED
    BY <1>1, <1>2, <1>3 DEF InWaitOrSync

LEMMA DeferredIs == \A b : b \in Deferred <=> InWaitOrSync(b)
  BY DeferredEntries

LEMMA DeferredIsNext == (\A b : b \in Deferred <=> InWaitOrSync(b))'
  BY DeferredIs, PTL

LEMMA GpuParts ==
    GpuIInv <=> IInv /\ StreamsInv /\ EntriesBusy /\ DeferredBusy
  <1>1. NotReusedInFlight <=> EntriesBusy
    BY DEF NotReusedInFlight, EntriesBusy, Queued
  <1>2. Deferred = owed <=> NothingForgotten
    BY DeferredIs DEF NothingForgotten
  <1>3. Deferred \subseteq m_busylist <=> DeferredBusy
    BY DeferredIs DEF DeferredBusy, InWaitOrSync
  <1>4. DeferredOnce <=> NothingForgotten /\ DeferredBusy /\ InOnePlace
    BY <1>2, <1>3 DEF DeferredOnce, InOnePlace
  <1> QED
    BY <1>1, <1>4 DEF GpuIInv, StreamsInv

LEMMA GpuPartsNext ==
    IInv' /\ StreamsInv' /\ EntriesBusy' /\ DeferredBusy' => GpuIInv'
  BY GpuParts, PTL
-----------------------------------------------------------------------------
(***************************************************************************)
(* The arena's steps                                                       *)
(***************************************************************************)
\* The program passes to the arena only busy blocks that are not deferred and that
\* no work uses.
LEMMA UnusedBlocks ==
    ASSUME NothingForgotten, NEW b \in Unused
    PROVE  /\ b \in m_busylist /\ ~InWaitOrSync(b)
           /\ \A s \in Streams : \A i \in 1..Len(queue[s]) : queue[s][i].block # b
  BY DEF NothingForgotten, Unused, Held, Uses

LEMMA ArenaStep ==
    ASSUME GpuIInv, IInv', UNCHANGED gpuvars,
           \A b \in m_busylist \ m_busylist' : b \in Unused
    PROVE  GpuIInv'
  <1>1. StreamsInv /\ EntriesBusy /\ DeferredBusy
    BY GpuParts
  <1>2. StreamsInv'
    BY <1>1 DEF StreamsInv, GpuTypeOK, InOnePlace, NothingForgotten, InWaitOrSync,
                OnlyItsStream, OnlyAhead, CallbackAlone, gpuvars, listvars, Deferred, Uses, Syncing
  <1>3. EntriesBusy'
    BY <1>1, UnusedBlocks DEF StreamsInv, EntriesBusy, gpuvars, listvars
  <1>4. DeferredBusy'
    BY <1>1, UnusedBlocks DEF StreamsInv, DeferredBusy, InWaitOrSync, gpuvars, listvars
  <1> QED
    BY <1>2, <1>3, <1>4, GpuPartsNext

\* Inside the arena nothing leaves the busy list; a call takes out the block passed.
LEMMA HolderKeepsBusy ==
    ASSUME NEW t \in Threads, Holder(t) \/ Window(t)
    PROVE  m_busylist \subseteq m_busylist'
  BY DEF Holder, Window, Carve, NothingFits, Grow, Refused, Release, NewHunk, BufferCleared,
         DeallocateSystem, Relock, heapvars

LEMMA CallKeepsBusy ==
    ASSUME NEW t \in Threads, NEW B, Call(t, B)
    PROVE  \A b \in m_busylist \ m_busylist' : b \in B
  BY DEF Call, FreeUnused, Alloc, EnterAllocProtected, Free, FreeBlock, ShrinkInPlace,
         GrowInPlace, AllocElsewhere, heapvars

LEMMA CallUnused ==
    ASSUME NEW t \in Threads, Call(t, Unused)
    PROVE  Call(t, m_busylist)
  <1>1. Unused \subseteq m_busylist
    BY DEF Unused, Held
  <1> QED
    BY <1>1 DEF Call

LEMMA FreeBlockIInv ==
    ASSUME IInv, NEW b \in m_busylist, FreeBlock(b)
    PROVE  IInv' /\ m_busylist' = m_busylist \ {b}
  <1>1. Lists' /\ UNCHANGED callvars /\ m_busylist' = m_busylist \ {b}
    BY FreeBlockLists DEF FreeBlock
  <1> QED
    BY <1>1, IInvParts, KeepsCallers, IInvPartsNext

LEMMA ArenaSame ==
    ASSUME IInv, UNCHANGED vars
    PROVE  IInv' /\ m_busylist' = m_busylist
  BY NextIInv DEF vars, heapvars

-----------------------------------------------------------------------------
(***************************************************************************)
(* Deferring and synchronising                                             *)
(***************************************************************************)
LEMMA HeldBlocks ==
    ASSUME NothingForgotten, NEW b \in Held
    PROVE  /\ b \in m_busylist /\ ~InWaitOrSync(b)
           /\ \A s \in Streams : \A i \in 1..Len(queue[s]) :
                 queue[s][i].block = b => queue[s][i].kind # "callback"
  <1>1. b \in m_busylist /\ ~InWaitOrSync(b)
    BY DEF NothingForgotten, Held
  <1>2. ASSUME NEW s \in Streams, NEW i \in 1..Len(queue[s]), queue[s][i].block = b,
               queue[s][i].kind = "callback"
        PROVE  FALSE
    <2>1. queue[s][i] \in Queued
      BY DEF Queued
    <2> QED
      BY <1>2, <2>1 DEF Held
  <1> QED
    BY <1>1, <1>2

\* Blocks that the program defers on the stream s.
DeferrableOn(s, S) ==
    S \subseteq Held /\ \A b \in S : \A r \in Streams \ {s} : ~Uses(r, b)

\* The list of a stream, with what is being deferred, goes to the hands of a thread,
\* when all work that uses it is what the thread is going to wait for.
LEMMA BeginSyncStep ==
    ASSUME GpuIInv, NEW t \in Threads, NEW s \in Streams, NEW S, NEW list,
           ~Syncing(t), DeferrableOn(s, S), list = wait[s] \cup S,
           BeginSync(t, s, list), UNCHANGED <<vars, queue>>, owed' = owed \cup S,
           visit' \in [Threads -> 0..NumStreams]
    PROVE  GpuIInv'
  <1>1. StreamsInv /\ EntriesBusy /\ DeferredBusy /\ GpuTypeOK /\ IInv
    BY GpuParts DEF StreamsInv
  <1>2. IInv' /\ m_busylist' = m_busylist /\ queue' = queue
    BY <1>1, ArenaSame
  <1>3. \A b \in list \ wait[s] : /\ b \in S /\ b \in Held
                                 /\ b \in m_busylist /\ ~InWaitOrSync(b)
    BY <1>1, HeldBlocks DEF DeferrableOn, StreamsInv
  <1>4. list \subseteq m_busylist /\ list \subseteq Blocks
    BY <1>1, <1>3 DEF DeferredBusy, IInv, TypeOK
  <1>5. /\ \A u \in Threads \ {t} : sync'[u] = sync[u]
        /\ sync'[t] = [stream |-> s, ahead |-> Len(queue[s]), free |-> list]
        /\ \A r \in Streams \ {s} : wait'[r] = wait[r]
        /\ wait'[s] = {}
    BY <1>1 DEF BeginSync, GpuTypeOK
  <1>6. GpuTypeOK'
    <2>1. Len(queue[s]) \in Nat /\ s \in 0..NumStreams
      BY <1>1 DEF GpuTypeOK, Streams
    <2>2. sync' \in [Threads -> [stream : 0..NumStreams, ahead : Nat, free : SUBSET Blocks]]
      BY <1>1, <1>4, <2>1 DEF BeginSync, GpuTypeOK
    <2>3. wait' \in [Streams -> SUBSET Blocks]
      BY <1>1 DEF BeginSync, GpuTypeOK
    <2>4. ASSUME NEW u \in Threads
          PROVE  IF sync'[u].stream # 0 THEN sync'[u].ahead <= Len(queue[sync'[u].stream])
                                        ELSE sync'[u].free = {}
      <3>1. CASE u = t
        BY <1>5, <2>1, <3>1, StreamsAssumption DEF Streams
      <3>2. CASE u # t
        BY <1>1, <1>5, <3>2 DEF GpuTypeOK, Syncing
      <3> QED
        BY <3>1, <3>2
    <2> QED
      BY <1>1, <1>2, <2>2, <2>3, <2>4 DEF GpuTypeOK, Syncing
  <1>7. InOnePlace'
    BY <1>1, <1>3, <1>5 DEF StreamsInv, InOnePlace, InWaitOrSync
  <1>8. OnlyItsStream'
    BY <1>1, <1>2, <1>5 DEF StreamsInv, OnlyItsStream, Uses
  <1>9. OnlyAhead'
    <2>1. \A b \in list : \A r \in Streams \ {s} : ~Uses(r, b)
      BY <1>1, <1>3 DEF StreamsInv, OnlyItsStream, DeferrableOn
    <2>2. ASSUME NEW b \in list, NEW r \in Streams, NEW i \in 1..Len(queue[r]),
                 queue[r][i].block = b
          PROVE  r = s /\ i <= Len(queue[s])
      BY <1>1, <2>1, <2>2 DEF Uses, GpuTypeOK
    <2> QED
      BY <1>1, <1>2, <1>5, <2>2 DEF StreamsInv, OnlyAhead
  <1>10. CallbackAlone'
    <2>1. ASSUME NEW b, InWaitOrSync(b)' PROVE InWaitOrSync(b) \/ b \in Held
      BY <1>3, <1>5, <2>1 DEF InWaitOrSync
    <2>2. ASSUME NEW r \in Streams, NEW i \in 1..Len(queue[r]), queue[r][i].kind = "callback"
          PROVE  ~InWaitOrSync(queue[r][i].block)'
      BY <1>1, <2>1, <2>2, HeldBlocks, DeferredEntries DEF StreamsInv, CallbackAlone
    <2> QED
      BY <1>1, <1>2, <2>2, DeferredIsNext DEF StreamsInv, CallbackAlone
  <1>11. EntriesBusy' /\ DeferredBusy'
    BY <1>1, <1>2, <1>4, <1>5 DEF EntriesBusy, DeferredBusy
  <1>12. NothingForgotten'
    <2>1. sync[t].free = {}
      BY <1>1 DEF GpuTypeOK
    <2>2. \A b : InWaitOrSync(b)' <=> InWaitOrSync(b) \/ b \in S
      BY <1>5, <2>1 DEF InWaitOrSync
    <2> QED
      BY <1>1, <2>2 DEF StreamsInv, NothingForgotten
  <1> QED
    BY <1>2, <1>6, <1>7, <1>8, <1>9, <1>10, <1>11, <1>12, GpuPartsNext DEF StreamsInv

\* What a synchronisation needs when nothing new is deferred.
LEMMA NothingDeferred ==
    ASSUME NEW s
    PROVE  DeferrableOn(s, {})
  BY DEF DeferrableOn

LEMMA StreamSynchronizeStep ==
    ASSUME GpuIInv, NEW t \in Threads, NEW s \in Streams, StreamSynchronize(t, s)
    PROVE  GpuIInv'
  <1>1. visit' \in [Threads -> 0..NumStreams]
    BY DEF StreamSynchronize, GpuIInv, GpuTypeOK
  <1>2. BeginSync(t, s, wait[s]) /\ UNCHANGED <<vars, queue, owed>> /\ ~Syncing(t)
    BY DEF StreamSynchronize
  <1>3. wait[s] = wait[s] \cup {} /\ owed = owed \cup {}
    OBVIOUS
  <1> QED
    BY <1>1, <1>2, <1>3, NothingDeferred, BeginSyncStep

\* A step that changes neither arena nor queues nor lists.
LEMMA VisitStep ==
    ASSUME GpuIInv, UNCHANGED <<vars, queue, wait, sync, owed>>, visit' \in [Threads -> 0..NumStreams]
    PROVE  GpuIInv'
  <1>1. StreamsInv /\ EntriesBusy /\ DeferredBusy /\ IInv
    BY GpuParts
  <1>2. IInv' /\ m_busylist' = m_busylist
    BY <1>1, ArenaSame
  <1>3. EntriesBusy' /\ DeferredBusy'
    BY <1>1, <1>2 DEF EntriesBusy, DeferredBusy
  <1>4. GpuTypeOK'
    BY <1>1 DEF StreamsInv, GpuTypeOK, Syncing
  <1>5. InOnePlace' /\ NothingForgotten' /\ OnlyItsStream' /\ OnlyAhead' /\ CallbackAlone'
    BY <1>1 DEF StreamsInv, InOnePlace, NothingForgotten, InWaitOrSync, OnlyItsStream, OnlyAhead,
                CallbackAlone, Deferred, Uses
  <1> QED
    BY <1>2, <1>3, <1>4, <1>5, GpuPartsNext DEF StreamsInv

LEMMA ClearNextStep ==
    ASSUME GpuIInv, NEW t \in Threads, ClearNext(t)
    PROVE  GpuIInv'
  <1> DEFINE s == visit[t] + 1
  <1>1. s \in Streams /\ visit' \in [Threads -> 0..NumStreams]
    BY StreamsAssumption DEF ClearNext, GpuIInv, GpuTypeOK, Streams
  <1>2. /\ UNCHANGED <<vars, queue, owed>> /\ ~Syncing(t)
        /\ BeginSync(t, s, wait[s]) \/ UNCHANGED <<wait, sync>>
    BY DEF ClearNext
  <1>3. wait[s] = wait[s] \cup {} /\ owed = owed \cup {}
    OBVIOUS
  <1> HIDE DEF s
  <1>4. CASE BeginSync(t, s, wait[s])
    BY <1>1, <1>2, <1>3, <1>4, NothingDeferred, BeginSyncStep
  <1>5. CASE UNCHANGED <<wait, sync>>
    BY <1>1, <1>2, <1>5, VisitStep
  <1> QED
    BY <1>2, <1>4, <1>5

\* A block the program no longer needs waits in the list of its stream.
LEMMA DeferStep ==
    ASSUME GpuIInv, NEW s \in Streams, NEW b \in Held,
           \A r \in Streams \ {s} : ~Uses(r, b),
           wait' = [wait EXCEPT ![s] = @ \cup {b}], owed' = owed \cup {b},
           UNCHANGED <<vars, queue, sync, visit>>
    PROVE  GpuIInv'
  <1>1. StreamsInv /\ EntriesBusy /\ DeferredBusy /\ GpuTypeOK /\ IInv
    BY GpuParts DEF StreamsInv
  <1>2. IInv' /\ m_busylist' = m_busylist /\ queue' = queue /\ sync' = sync
    BY <1>1, ArenaSame
  <1>3. b \in m_busylist /\ ~InWaitOrSync(b) /\ b \in Blocks
    BY <1>1, HeldBlocks DEF IInv, TypeOK, StreamsInv
  <1>4. /\ wait'[s] = wait[s] \cup {b}
        /\ \A r \in Streams \ {s} : wait'[r] = wait[r]
    BY <1>1 DEF GpuTypeOK
  <1>5. GpuTypeOK'
    BY <1>1, <1>3 DEF GpuTypeOK, Syncing
  <1>6. InOnePlace'
    BY <1>1, <1>2, <1>3, <1>4 DEF StreamsInv, InOnePlace, InWaitOrSync
  <1>7. OnlyItsStream' /\ OnlyAhead'
    BY <1>1, <1>2, <1>4 DEF StreamsInv, OnlyItsStream, OnlyAhead, Uses
  <1>8. CallbackAlone'
    <2>1. \A c : InWaitOrSync(c)' => InWaitOrSync(c) \/ c = b
      BY <1>2, <1>4 DEF InWaitOrSync
    <2>2. ASSUME NEW r \in Streams, NEW i \in 1..Len(queue[r]), queue[r][i].kind = "callback"
          PROVE  ~InWaitOrSync(queue[r][i].block)'
      BY <1>1, <2>1, <2>2, HeldBlocks, DeferredEntries DEF StreamsInv, CallbackAlone
    <2> QED
      BY <1>1, <1>2, <2>2, DeferredIsNext DEF StreamsInv, CallbackAlone
  <1>9. EntriesBusy' /\ DeferredBusy'
    BY <1>1, <1>2, <1>3, <1>4 DEF EntriesBusy, DeferredBusy
  <1>10. NothingForgotten'
    <2>1. \A c : InWaitOrSync(c)' <=> InWaitOrSync(c) \/ c = b
      BY <1>2, <1>4 DEF InWaitOrSync
    <2> QED
      BY <1>1, <2>1 DEF StreamsInv, NothingForgotten
  <1> QED
    BY <1>2, <1>5, <1>6, <1>7, <1>8, <1>9, <1>10, GpuPartsNext DEF StreamsInv

LEMMA FreeAsyncStep ==
    ASSUME GpuIInv, NEW t \in Threads, NEW s \in Streams, NEW b \in Held, FreeAsync(t, s, b)
    PROVE  GpuIInv'
  <1>1. /\ UNCHANGED <<vars, queue, visit>> /\ owed' = owed \cup {b} /\ ~Syncing(t)
        /\ \A r \in Streams \ {s} : ~Uses(r, b)
        /\ \/ BeginSync(t, s, wait[s] \cup {b})
           \/ wait' = [wait EXCEPT ![s] = @ \cup {b}] /\ UNCHANGED sync
    BY DEF FreeAsync
  <1>2. visit' \in [Threads -> 0..NumStreams]
    BY <1>1 DEF GpuIInv, GpuTypeOK
  <1>3. CASE BeginSync(t, s, wait[s] \cup {b})
    <2>1. DeferrableOn(s, {b})
      BY <1>1 DEF DeferrableOn
    <2> QED
      BY <1>1, <1>2, <1>3, <2>1, BeginSyncStep
  <1>4. CASE wait' = [wait EXCEPT ![s] = @ \cup {b}] /\ UNCHANGED sync
    BY <1>1, <1>4, DeferStep
  <1> QED
    BY <1>1, <1>3, <1>4

LEMMA SyncReturnStep ==
    ASSUME GpuIInv, NEW t \in Threads, SyncReturn(t)
    PROVE  GpuIInv'
  <1>1. StreamsInv /\ EntriesBusy /\ DeferredBusy /\ GpuTypeOK /\ IInv
    BY GpuParts DEF StreamsInv
  <1>2. UNCHANGED <<vars, queue, wait, visit, owed>> /\ IInv' /\ m_busylist' = m_busylist
    BY <1>1, ArenaSame DEF SyncReturn
  <1>3. /\ \A u \in Threads \ {t} : sync'[u] = sync[u]
        /\ sync'[t] = NoSync /\ sync'[t].stream = 0
        /\ \A u \in Threads : sync'[u].free = sync[u].free
    BY <1>1 DEF SyncReturn, GpuTypeOK, NoSync
  <1>4. GpuTypeOK'
    <2>1. NoSync \in [stream : 0..NumStreams, ahead : Nat, free : SUBSET Blocks]
      BY StreamsAssumption DEF NoSync
    <2>2. sync' \in [Threads -> [stream : 0..NumStreams, ahead : Nat, free : SUBSET Blocks]]
      BY <1>1, <2>1 DEF SyncReturn, GpuTypeOK
    <2>3. \A u \in Threads : IF sync'[u].stream # 0
                            THEN sync'[u].ahead <= Len(queue[sync'[u].stream])
                            ELSE sync'[u].free = {}
      <3>1. sync'[t].stream = 0 /\ sync'[t].free = {}
        BY <1>3 DEF NoSync
      <3> QED
        BY <1>1, <1>3, <3>1 DEF GpuTypeOK, Syncing
    <2> QED
      BY <1>1, <1>2, <2>2, <2>3 DEF GpuTypeOK, Syncing
  <1>5. OnlyAhead'
    <2>1. \A u \in Threads : sync'[u].free # {} => sync'[u] = sync[u]
      BY <1>3 DEF SyncReturn
    <2> QED
      BY <1>1, <1>2, <2>1 DEF StreamsInv, OnlyAhead
  <1>6. InOnePlace' /\ OnlyItsStream' /\ EntriesBusy' /\ DeferredBusy'
    BY <1>1, <1>2, <1>3 DEF StreamsInv, InOnePlace, OnlyItsStream, EntriesBusy, DeferredBusy, Uses
  <1>7. CallbackAlone' /\ NothingForgotten'
    <2>1. \A b : InWaitOrSync(b)' <=> InWaitOrSync(b)
      BY <1>2, <1>3 DEF InWaitOrSync
    <2>2. CallbackAlone'
      BY <1>1, <1>2, <2>1, DeferredIs, DeferredIsNext DEF StreamsInv, CallbackAlone
    <2> QED
      BY <1>1, <1>2, <2>1, <2>2 DEF StreamsInv, NothingForgotten
  <1> QED
    BY <1>2, <1>4, <1>5, <1>6, <1>7, GpuPartsNext DEF StreamsInv

\* After the wait no work uses what the thread has in its hands.
LEMMA SyncFreeStep ==
    ASSUME GpuIInv, NEW t \in Threads, SyncFree(t)
    PROVE  GpuIInv'
  <1>1. StreamsInv /\ EntriesBusy /\ DeferredBusy /\ GpuTypeOK /\ IInv
    BY GpuParts DEF StreamsInv
  <1>2. PICK b \in sync[t].free :
           FreeBlock(b) /\ sync' = [sync EXCEPT ![t].free = @ \ {b}] /\ owed' = owed \ {b}
    BY DEF SyncFree
  <1>3. b \in m_busylist
    BY <1>1 DEF DeferredBusy
  <1>4. IInv' /\ m_busylist' = m_busylist \ {b}
    BY <1>1, <1>2, <1>3, FreeBlockIInv
  <1>5. UNCHANGED <<queue, wait, visit>> /\ sync[t].ahead = 0
    BY DEF SyncFree
  <1>6. /\ \A u \in Threads \ {t} : sync'[u] = sync[u]
        /\ sync'[t].stream = sync[t].stream /\ sync'[t].ahead = sync[t].ahead
        /\ sync'[t].free = sync[t].free \ {b}
    BY <1>1, <1>2 DEF GpuTypeOK
  <1>7. \A s \in Streams : \A i \in 1..Len(queue[s]) : queue[s][i].block # b
    BY <1>1, <1>5 DEF StreamsInv, OnlyAhead
  <1>8. GpuTypeOK'
    <2>1. sync' \in [Threads -> [stream : 0..NumStreams, ahead : Nat, free : SUBSET Blocks]]
      BY <1>1, <1>2 DEF GpuTypeOK
    <2>2. \A u \in Threads : /\ sync'[u].stream = sync[u].stream /\ sync'[u].ahead = sync[u].ahead
                            /\ sync'[u].free \subseteq sync[u].free
      BY <1>6
    <2> QED
      BY <1>1, <1>5, <2>1, <2>2 DEF GpuTypeOK, Syncing
  <1>9. InOnePlace' /\ OnlyItsStream' /\ OnlyAhead'
    BY <1>1, <1>5, <1>6 DEF StreamsInv, InOnePlace, OnlyItsStream, OnlyAhead, Uses
  <1>10. CallbackAlone'
    <2>1. \A c : InWaitOrSync(c)' => InWaitOrSync(c)
      BY <1>5, <1>6 DEF InWaitOrSync
    <2> QED
      BY <1>1, <1>5, <2>1, DeferredIs, DeferredIsNext DEF StreamsInv, CallbackAlone
  <1>11. EntriesBusy'
    BY <1>1, <1>4, <1>5, <1>7 DEF EntriesBusy
  <1>12. DeferredBusy'
    BY <1>1, <1>4, <1>5, <1>6 DEF DeferredBusy, StreamsInv, InOnePlace
  <1>13. NothingForgotten'
    <2>1. \A c : InWaitOrSync(c)' <=> InWaitOrSync(c) /\ c # b
      BY <1>1, <1>5, <1>6 DEF InWaitOrSync, StreamsInv, InOnePlace
    <2> QED
      BY <1>1, <1>2, <2>1 DEF StreamsInv, NothingForgotten
  <1> QED
    BY <1>4, <1>8, <1>9, <1>10, <1>11, <1>12, <1>13, GpuPartsNext DEF StreamsInv

-----------------------------------------------------------------------------
(***************************************************************************)
(* The streams' work                                                       *)
(***************************************************************************)
\* Work is launched behind what is queued, on the only stream that uses its block.
LEMMA LaunchStep ==
    ASSUME GpuIInv, NEW t \in Threads, NEW s \in Streams, NEW b \in Held,
           NEW kind \in {"kernel", "callback"}, kind = "callback" => b \in Unused,
           Launch(t, s, b, kind)
    PROVE  GpuIInv'
  <1> DEFINE w == [kind |-> kind, block |-> b]
  <1>1. StreamsInv /\ EntriesBusy /\ DeferredBusy /\ GpuTypeOK /\ IInv
    BY GpuParts DEF StreamsInv
  <1>2. /\ IInv' /\ m_busylist' = m_busylist /\ UNCHANGED <<wait, sync, visit>>
        /\ owed' = owed /\ \A r \in Streams \ {s} : ~Uses(r, b)
    BY <1>1, ArenaSame DEF Launch, listvars
  <1>3. b \in m_busylist /\ ~InWaitOrSync(b) /\ w \in Work
    BY <1>1, HeldBlocks DEF IInv, TypeOK, Work, StreamsInv
  <1>4. /\ queue' \in [Streams -> Seq(Work)]
        /\ \A r \in Streams \ {s} : queue'[r] = queue[r]
        /\ Len(queue'[s]) = Len(queue[s]) + 1 /\ Len(queue[s]) \in Nat
        /\ \A i \in 1..Len(queue[s]) : queue'[s][i] = queue[s][i]
        /\ queue'[s][Len(queue[s]) + 1] = w
    BY <1>1, <1>3 DEF Launch, GpuTypeOK
  <1> HIDE DEF w
  <1>5. w.block = b /\ w.kind = kind
    BY DEF w
  <1>6. ASSUME NEW r \in Streams, NEW i \in 1..Len(queue'[r])
        PROVE  \/ i \in 1..Len(queue[r]) /\ queue'[r][i] = queue[r][i]
               \/ r = s /\ i = Len(queue[s]) + 1 /\ queue'[r][i] = w
    BY <1>4, <1>6
  <1>7. GpuTypeOK'
    <2>1. \A r \in Streams : Len(queue[r]) <= Len(queue'[r]) /\ Len(queue[r]) \in Nat
                                                        /\ Len(queue'[r]) \in Nat
      BY <1>1, <1>4 DEF GpuTypeOK
    <2>2. ASSUME NEW u \in Threads, Syncing(u)
          PROVE  sync[u].ahead <= Len(queue'[sync[u].stream])
      <3>1. sync[u].stream \in Streams /\ sync[u].ahead \in Nat
                                     /\ sync[u].ahead <= Len(queue[sync[u].stream])
        BY <1>1, <2>2, StreamsAssumption DEF GpuTypeOK, Syncing, Streams
      <3> QED
        BY <2>1, <3>1
    <2>3. \A u \in Threads : ~Syncing(u) => sync[u].free = {}
      BY <1>1 DEF GpuTypeOK
    <2> QED
      BY <1>1, <1>2, <1>4, <2>2, <2>3 DEF GpuTypeOK, Syncing
  <1>8. OnlyItsStream'
    <2>1. ASSUME NEW r \in Streams, NEW c \in wait[r], NEW q \in Streams \ {r},
                 NEW i \in 1..Len(queue'[q]), queue'[q][i].block = c
          PROVE  FALSE
      <3>1. c # b
        BY <1>3, <2>1 DEF InWaitOrSync
      <3>2. i \in 1..Len(queue[q]) /\ queue'[q][i] = queue[q][i]
        BY <1>5, <1>6, <2>1, <3>1
      <3> QED
        BY <1>1, <2>1, <3>2 DEF StreamsInv, OnlyItsStream, Uses
    <2> QED
      BY <1>2, <2>1 DEF OnlyItsStream, Uses
  <1>9. OnlyAhead'
    <2>1. ASSUME NEW u \in Threads, NEW c \in sync[u].free, NEW r \in Streams,
                 NEW i \in 1..Len(queue'[r]), queue'[r][i].block = c
          PROVE  r = sync[u].stream /\ i <= sync[u].ahead
      <3>1. c # b
        BY <1>3, <2>1 DEF InWaitOrSync
      <3>2. i \in 1..Len(queue[r]) /\ queue'[r][i] = queue[r][i]
        BY <1>5, <1>6, <2>1, <3>1
      <3> QED
        BY <1>1, <2>1, <3>2 DEF StreamsInv, OnlyAhead
    <2> QED
      BY <1>2, <2>1 DEF OnlyAhead
  <1>10. CallbackAlone'
    <2>1. \A c : InWaitOrSync(c)' <=> InWaitOrSync(c)
      BY <1>2 DEF InWaitOrSync
    <2>2. ASSUME NEW r \in Streams, NEW i \in 1..Len(queue'[r]), queue'[r][i].kind = "callback"
          PROVE  /\ ~InWaitOrSync(queue'[r][i].block)
                 /\ \A q \in Streams : \A j \in 1..Len(queue'[q]) :
                       queue'[q][j].block = queue'[r][i].block => q = r /\ j = i
      <3>1. CASE i \in 1..Len(queue[r]) /\ queue'[r][i] = queue[r][i]
        <4>1. queue[r][i].block # b
          BY <1>1, <2>2, <3>1, HeldBlocks DEF StreamsInv
        <4>2. /\ ~InWaitOrSync(queue[r][i].block)
              /\ \A q \in Streams : \A j \in 1..Len(queue[q]) :
                    queue[q][j].block = queue[r][i].block => q = r /\ j = i
          BY <1>1, <2>2, <3>1, DeferredIs DEF StreamsInv, CallbackAlone
        <4> QED
          BY <1>5, <1>6, <3>1, <4>1, <4>2
      <3>2. CASE r = s /\ i = Len(queue[s]) + 1 /\ queue'[r][i] = w
        <4>1. \A q \in Streams : \A j \in 1..Len(queue[q]) : queue[q][j].block # b
          BY <1>1, <1>5, <2>2, <3>2, UnusedBlocks DEF StreamsInv
        <4> QED
          BY <1>3, <1>5, <1>6, <3>2, <4>1
      <3> QED
        BY <1>6, <3>1, <3>2
    <2> QED
      BY <2>1, <2>2, DeferredIsNext DEF CallbackAlone
  <1>11. InOnePlace' /\ DeferredBusy' /\ NothingForgotten'
    BY <1>1, <1>2 DEF StreamsInv, InOnePlace, DeferredBusy, NothingForgotten, InWaitOrSync
  <1>12. EntriesBusy'
    BY <1>1, <1>2, <1>3, <1>5, <1>6 DEF EntriesBusy
  <1> QED
    BY <1>2, <1>7, <1>8, <1>9, <1>10, <1>11, <1>12, GpuPartsNext DEF StreamsInv

\* The oldest work of a stream ends; a thread that waits for the stream has one less
\* to wait for, and a callback frees the block only it knows of.
LEMMA KernelDoneStep ==
    ASSUME GpuIInv, NEW s \in Streams, KernelDone(s)
    PROVE  GpuIInv'
  <1> DEFINE b == Head(queue[s]).block
  <1>1. StreamsInv /\ EntriesBusy /\ DeferredBusy /\ GpuTypeOK /\ IInv
    BY GpuParts DEF StreamsInv
  <1>2. /\ UNCHANGED <<wait, visit, owed>>
        /\ queue[s] \in Seq(Work) /\ queue[s] # <<>>
        /\ queue' = [queue EXCEPT ![s] = Tail(@)]
    BY <1>1 DEF KernelDone, GpuTypeOK
  <1>3. /\ queue' \in [Streams -> Seq(Work)]
        /\ \A r \in Streams \ {s} : queue'[r] = queue[r]
        /\ queue'[s] = Tail(queue[s])
    BY <1>1, <1>2 DEF GpuTypeOK
  <1>4. /\ Len(queue[s]) \in Nat \ {0} /\ Len(queue'[s]) = Len(queue[s]) - 1
        /\ \A i \in 1..Len(queue'[s]) :
              i + 1 \in 1..Len(queue[s]) /\ queue'[s][i] = queue[s][i + 1]
    BY <1>2, <1>3
  <1>5. Head(queue[s]) = queue[s][1] /\ 1 \in 1..Len(queue[s])
    BY <1>2, <1>4
  \* Where an entry was before.
  <1> DEFINE was(r, i) == IF r = s THEN i + 1 ELSE i
  <1>6. ASSUME NEW r \in Streams, NEW i \in 1..Len(queue'[r])
        PROVE  was(r, i) \in 1..Len(queue[r]) /\ queue'[r][i] = queue[r][was(r, i)]
                                           /\ i \in Nat
    <2>1. CASE r = s
      BY <1>4, <1>6, <2>1
    <2>2. CASE r # s
      BY <1>3, <1>6, <2>2
    <2> QED
      BY <2>1, <2>2
  <1>7. /\ \A u \in Threads : sync'[u].stream = sync[u].stream /\ sync'[u].free = sync[u].free
        /\ \A u \in Threads : sync'[u].ahead =
              IF sync[u].stream = s /\ sync[u].ahead > 0 THEN sync[u].ahead - 1 ELSE sync[u].ahead
        /\ sync' \in [Threads -> [stream : 0..NumStreams, ahead : Nat, free : SUBSET Blocks]]
    <2>1. sync' = [u \in Threads |-> IF sync[u].stream = s /\ sync[u].ahead > 0
                                      THEN [sync[u] EXCEPT !.ahead = @ - 1] ELSE sync[u]]
      BY DEF KernelDone
    <2>2. ASSUME NEW u \in Threads
          PROVE  /\ sync'[u].stream = sync[u].stream /\ sync'[u].free = sync[u].free
                 /\ sync'[u].ahead = IF sync[u].stream = s /\ sync[u].ahead > 0
                                     THEN sync[u].ahead - 1 ELSE sync[u].ahead
                 /\ sync'[u] \in [stream : 0..NumStreams, ahead : Nat, free : SUBSET Blocks]
      <3>1. sync[u] \in [stream : 0..NumStreams, ahead : Nat, free : SUBSET Blocks]
        BY <1>1 DEF GpuTypeOK
      <3>2. CASE sync[u].stream = s /\ sync[u].ahead > 0
        <4>1. sync'[u] = [sync[u] EXCEPT !.ahead = sync[u].ahead - 1]
          BY <2>1, <3>2
        <4> QED
          BY <3>1, <3>2, <4>1
      <3>3. CASE ~(sync[u].stream = s /\ sync[u].ahead > 0)
        BY <2>1, <3>1, <3>3
      <3> QED
        BY <3>2, <3>3
    <2>3. sync' = [u \in Threads |-> sync'[u]]
      BY <2>1, Zenon
    <2> QED
      BY <2>2, <2>3
  <1>8. \A c : InWaitOrSync(c)' <=> InWaitOrSync(c)
    BY <1>2, <1>7 DEF InWaitOrSync
  \* What the arena does.
  <1>9. /\ IInv'
        /\ \/ m_busylist' = m_busylist
           \/ Head(queue[s]).kind = "callback" /\ m_busylist' = m_busylist \ {b}
    <2>1. CASE Head(queue[s]).kind = "callback"
      <3>1. b \in m_busylist
        BY <1>1, <1>5 DEF EntriesBusy
      <3>2. FreeBlock(b)
        BY <2>1 DEF KernelDone
      <3> QED
        BY <1>1, <2>1, <3>1, <3>2, FreeBlockIInv
    <2>2. CASE Head(queue[s]).kind # "callback"
      <3>1. UNCHANGED vars
        BY <2>2 DEF KernelDone
      <3> QED
        BY <1>1, <3>1, ArenaSame
    <2> QED
      BY <2>1, <2>2
  <1>10. Head(queue[s]).kind = "callback" =>
           /\ ~InWaitOrSync(b)
           /\ \A r \in Streams : \A i \in 1..Len(queue'[r]) : queue'[r][i].block # b
    <2>1. ASSUME Head(queue[s]).kind = "callback" PROVE ~InWaitOrSync(b)
      BY <1>1, <1>5, <2>1, DeferredIs DEF StreamsInv, CallbackAlone
    <2>2. ASSUME Head(queue[s]).kind = "callback", NEW r \in Streams,
                 NEW i \in 1..Len(queue'[r]), queue'[r][i].block = b
          PROVE  FALSE
      <3>1. r = s /\ was(r, i) = 1
        BY <1>1, <1>5, <1>6, <2>2 DEF StreamsInv, CallbackAlone
      <3> QED
        BY <1>6, <3>1
    <2> QED
      BY <2>1, <2>2
  <1>11. GpuTypeOK'
    <2>1. ASSUME NEW u \in Threads, sync[u].stream # 0
          PROVE  sync'[u].ahead <= Len(queue'[sync[u].stream])
      <3>1. sync[u].stream \in Streams /\ sync[u].ahead \in Nat
                                     /\ sync[u].ahead <= Len(queue[sync[u].stream])
        BY <1>1, <2>1, StreamsAssumption DEF GpuTypeOK, Syncing, Streams
      <3>2. CASE sync[u].stream = s
        BY <1>4, <1>7, <3>1, <3>2
      <3>3. CASE sync[u].stream # s
        BY <1>3, <1>7, <3>1, <3>3
      <3> QED
        BY <3>2, <3>3
    <2>2. \A u \in Threads : sync[u].stream = 0 => sync'[u].free = {}
      BY <1>1, <1>7 DEF GpuTypeOK, Syncing
    <2> QED
      BY <1>1, <1>2, <1>3, <1>7, <2>1, <2>2 DEF GpuTypeOK, Syncing
  <1>12. OnlyItsStream'
    BY <1>1, <1>2, <1>6 DEF StreamsInv, OnlyItsStream, Uses
  <1>13. OnlyAhead'
    <2>1. ASSUME NEW u \in Threads, NEW c \in sync[u].free, NEW r \in Streams,
                 NEW i \in 1..Len(queue'[r]), queue'[r][i].block = c
          PROVE  r = sync[u].stream /\ i <= sync'[u].ahead
      <3>1. r = sync[u].stream /\ was(r, i) <= sync[u].ahead
        BY <1>1, <1>6, <2>1 DEF StreamsInv, OnlyAhead
      <3>2. sync[u].ahead \in Nat
        BY <1>1 DEF GpuTypeOK
      <3>3. i \in Nat \ {0}
        BY <1>3, <1>4
      <3>4. CASE r = s
        BY <1>7, <3>1, <3>2, <3>3, <3>4
      <3>5. CASE r # s
        BY <1>7, <3>1, <3>2, <3>5
      <3> QED
        BY <3>4, <3>5
    <2> QED
      BY <1>7, <2>1 DEF OnlyAhead
  <1>14. CallbackAlone'
    <2>1. ASSUME NEW r \in Streams, NEW i \in 1..Len(queue'[r]), queue'[r][i].kind = "callback"
          PROVE  /\ ~InWaitOrSync(queue'[r][i].block)
                 /\ \A q \in Streams : \A j \in 1..Len(queue'[q]) :
                       queue'[q][j].block = queue'[r][i].block => q = r /\ j = i
      <3>1. /\ ~InWaitOrSync(queue[r][was(r, i)].block)
            /\ \A q \in Streams : \A j \in 1..Len(queue[q]) :
                  queue[q][j].block = queue[r][was(r, i)].block => q = r /\ j = was(r, i)
        BY <1>1, <1>6, <2>1, DeferredIs DEF StreamsInv, CallbackAlone
      <3>2. ASSUME NEW q \in Streams, NEW j \in 1..Len(queue'[q]),
                   queue'[q][j].block = queue'[r][i].block
            PROVE  q = r /\ j = i
        <4>1. was(q, j) \in 1..Len(queue[q]) /\ queue'[q][j] = queue[q][was(q, j)]
          BY <1>6
        <4>2. queue'[r][i] = queue[r][was(r, i)]
          BY <1>6
        <4>3. queue[q][was(q, j)].block = queue[r][was(r, i)].block
          BY <3>2, <4>1, <4>2
        <4> HIDE DEF was
        <4>4. q = r /\ was(q, j) = was(r, i)
          BY <3>1, <4>1, <4>3
        <4>5. i \in Nat /\ j \in Nat
          BY <1>6
        <4> QED
          BY <4>4, <4>5 DEF was
      <3> QED
        BY <1>6, <3>1, <3>2
    <2> QED
      BY <1>8, <2>1, DeferredIsNext DEF CallbackAlone
  <1>15. InOnePlace' /\ NothingForgotten'
    BY <1>1, <1>2, <1>7, <1>8 DEF StreamsInv, InOnePlace, NothingForgotten
  <1>16. EntriesBusy'
    BY <1>1, <1>6, <1>9, <1>10 DEF EntriesBusy
  <1>17. DeferredBusy'
    BY <1>1, <1>2, <1>7, <1>9, <1>10 DEF DeferredBusy, InWaitOrSync
  <1> QED
    BY <1>9, <1>11, <1>12, <1>13, <1>14, <1>15, <1>16, <1>17, GpuPartsNext DEF StreamsInv

-----------------------------------------------------------------------------
(***************************************************************************)
(* The invariant                                                           *)
(***************************************************************************)
\* What a thread does inside the arena takes no block out of the busy list.
LEMMA ArenaInsideStep ==
    ASSUME GpuIInv, NEW t \in Threads, Holder(t) \/ Window(t), UNCHANGED gpuvars
    PROVE  GpuIInv'
  <1>1. IInv'
    BY HolderIInv, WindowIInv DEF GpuIInv
  <1>2. \A b \in m_busylist \ m_busylist' : b \in Unused
    BY HolderKeepsBusy
  <1> QED
    BY <1>1, <1>2, ArenaStep

\* The end of clearFreeAsyncBuffer: the thread has the mutex again and forgets which
\* streams it has looked at.
LEMMA ClearDoneStep ==
    ASSUME GpuIInv, NEW t \in Threads, ClearDone(t)
    PROVE  GpuIInv'
  <1>1. StreamsInv /\ EntriesBusy /\ DeferredBusy /\ IInv
    BY GpuParts
  <1>2. IInv' /\ m_busylist' = m_busylist /\ UNCHANGED <<queue, wait, sync, owed>>
    BY <1>1, WindowIInv DEF ClearDone, Window, BufferCleared, heapvars
  <1>3. visit' \in [Threads -> 0..NumStreams]
    BY <1>1, StreamsAssumption DEF ClearDone, StreamsInv, GpuTypeOK
  <1>4. StreamsInv' /\ EntriesBusy' /\ DeferredBusy'
    BY <1>1, <1>2, <1>3 DEF StreamsInv, GpuTypeOK, InOnePlace, NothingForgotten,
                            InWaitOrSync, OnlyItsStream, OnlyAhead, CallbackAlone, Deferred, Uses, Syncing, EntriesBusy, DeferredBusy
  <1> QED
    BY <1>2, <1>4, GpuPartsNext

\* The program passes to the arena only what no work uses.
LEMMA CallStep ==
    ASSUME GpuIInv, NEW t \in Threads, Call(t, Unused), UNCHANGED gpuvars
    PROVE  GpuIInv'
  <1>1. IInv'
    BY CallUnused, CallIInv DEF GpuIInv
  <1>2. \A b \in m_busylist \ m_busylist' : b \in Unused
    BY CallKeepsBusy
  <1> QED
    BY <1>1, <1>2, ArenaStep

LEMMA InitGpuIInv == GpuInit => GpuIInv
  <1> SUFFICES ASSUME GpuInit PROVE GpuIInv
    OBVIOUS
  <1>1. IInv
    BY InitIInv DEF GpuInit
  <1>2. /\ \A s \in Streams : queue[s] = <<>> /\ Len(queue[s]) = 0 /\ wait[s] = {}
        /\ \A t \in Threads : sync[t] = NoSync /\ sync[t].stream = 0 /\ sync[t].free = {}
    BY DEF GpuInit, NoSync
  <1>3. GpuTypeOK
    <2>1. NoSync \in [stream : 0..NumStreams, ahead : Nat, free : SUBSET Blocks]
      BY StreamsAssumption DEF NoSync
    <2>2. queue \in [Streams -> Seq(Work)] /\ wait \in [Streams -> SUBSET Blocks]
      BY DEF GpuInit
    <2>3. visit \in [Threads -> 0..NumStreams]
      BY StreamsAssumption DEF GpuInit
    <2> QED
      BY <1>2, <2>1, <2>2, <2>3 DEF GpuTypeOK, GpuInit, Syncing
  <1>4. \A s \in Streams : 1..Len(queue[s]) = {}
    BY <1>2
  <1>5. NothingForgotten
    BY <1>2 DEF GpuInit, NothingForgotten, InWaitOrSync
  <1>6. InOnePlace /\ OnlyItsStream /\ OnlyAhead /\ CallbackAlone /\ EntriesBusy /\ DeferredBusy
    BY <1>2, <1>4 DEF InOnePlace, OnlyItsStream, OnlyAhead, CallbackAlone, EntriesBusy, DeferredBusy
  <1> QED
    BY <1>1, <1>3, <1>5, <1>6, GpuParts DEF StreamsInv

LEMMA NextGpuIInv == GpuIInv /\ [GpuNext]_<<vars, gpuvars>> => GpuIInv'
  <1> SUFFICES ASSUME GpuIInv, [GpuNext]_<<vars, gpuvars>> PROVE GpuIInv'
    OBVIOUS
  <1>1. ASSUME NEW t \in Threads, Program(t) PROVE GpuIInv'
    <2>1. CASE Call(t, Unused) /\ UNCHANGED gpuvars
      BY <2>1, CallStep
    <2>2. ASSUME NEW s \in Streams, StreamSynchronize(t, s) PROVE GpuIInv'
      BY <2>2, StreamSynchronizeStep
    <2>3. ASSUME NEW s \in Streams, NEW b \in Held, FreeAsync(t, s, b) PROVE GpuIInv'
      BY <2>3, FreeAsyncStep
    <2>4. ASSUME NEW s \in Streams, NEW b \in Held,
                 \/ Launch(t, s, b, "kernel")
                 \/ b \in Unused /\ Launch(t, s, b, "callback")
          PROVE  GpuIInv'
      BY <2>4, LaunchStep
    <2> QED
      BY <1>1, <2>1, <2>2, <2>3, <2>4 DEF Program, AsyncWork
  <1>2. ASSUME NEW t \in Threads, Inside(t) PROVE GpuIInv'
    <2>1. CASE (Holder(t) \/ Relock(t) \/ DeallocateSystem(t)) /\ UNCHANGED gpuvars
      BY <2>1, ArenaInsideStep DEF Window
    <2>2. CASE SyncFree(t)
      BY <2>2, SyncFreeStep
    <2>3. CASE SyncReturn(t)
      BY <2>3, SyncReturnStep
    <2>4. CASE ClearNext(t)
      BY <2>4, ClearNextStep
    <2>5. CASE ClearDone(t)
      BY <2>5, ClearDoneStep
    <2> QED
      BY <1>2, <2>1, <2>2, <2>3, <2>4, <2>5 DEF Inside, DeallocateAndWait
  <1>3. ASSUME NEW s \in Streams, KernelDone(s) PROVE GpuIInv'
    BY <1>3, KernelDoneStep
  <1>4. CASE UNCHANGED <<vars, gpuvars>>
    BY <1>4, VisitStep DEF gpuvars, listvars, GpuIInv, GpuTypeOK
  <1> QED
    BY <1>1, <1>2, <1>3, <1>4 DEF GpuNext

\* The arena and the streams together keep the inductive invariant: what the arena
\* keeps alone it also keeps under callbacks, deferred frees and clearFreeAsyncBuffer.
THEOREM GpuInvariance == GpuSpec => []GpuIInv
  BY InitGpuIInv, NextGpuIInv, PTL DEF GpuSpec

\* Memory passed to Gpu::freeAsync goes to nobody else before all work launched on
\* its stream up to that call has finished.
THEOREM NeverReusedInFlight == GpuSpec => []NotReusedInFlight
  <1>1. GpuIInv => NotReusedInFlight
    BY DEF GpuIInv
  <1> QED
    BY <1>1, GpuInvariance, PTL

\* A block passed to Gpu::freeAsync stays busy and in one place, the list of a stream
\* or the hands of one thread that synchronises, until it is freed from there: no
\* deferred free is forgotten or done twice.
THEOREM DeferredOnceAlways == GpuSpec => []DeferredOnce
  <1>1. GpuIInv => DeferredOnce
    BY DEF GpuIInv
  <1> QED
    BY <1>1, GpuInvariance, PTL
=============================================================================

----------------------------- MODULE LayoutCache -----------------------------
(***************************************************************************)
(* The metadata caches of FabArrayBase (Src/Base/AMReX_FabArrayBase.cpp)   *)
(* on one rank.  What depends only on how grids are laid out (tiles, the   *)
(* patterns of FillBoundary, ParallelCopy and FillPatch) is built once and *)
(* kept under the BDKey of the layout: the addresses of the shared data of *)
(* its BoxArray and its DistributionMapping.  Addresses are used again, so *)
(* m_BD_count counts the objects built with a key, and the last of them    *)
(* to go erases what is kept under it.  An FPinfo has layouts of its own   *)
(* and registers them, so erasing it may erase more.                       *)
(*                                                                         *)
(* An array is a FabArray, a LayoutData, or the FabArrayBase of an MFIter. *)
(* An address stands for the pair in a BDKey.  The data of arrays, and the *)
(* requests a pattern depends on other than the view of the BoxArray       *)
(* (ghost cells, periodicity), are left out.                               *)
(***************************************************************************)
EXTENDS Integers, FiniteSets

CONSTANTS
    Arrays,     \* the variables of the program that may hold an array
    Refs,       \* the addresses
    Layouts,    \* what may be there: records with the fields boxes and procs
    Views,      \* what a BoxArray may make of it: records with typ and ratio
    Spaces,     \* the EB index spaces of FillPatch
    NoRef, NoFB, Freed

\* A BoxArray as its boxes are: of cells, not coarsened.
BATransformer == [typ |-> "cell", ratio |-> 1]

ASSUME LayoutAssumption ==
    /\ NoRef \notin Refs
    /\ IsFiniteSet(Arrays)
    /\ BATransformer \in Views
    /\ \A v \in Views : /\ v = [typ |-> v.typ, ratio |-> v.ratio]
                        /\ v.ratio \in Nat
                        /\ [v EXCEPT !.ratio = 1] \in Views

Kinds == {"TileArray", "FB"}

VARIABLES
    grids,      \* what is at an address
    ref,        \* the address in the BoxArray of an array
    view,       \* its transformation: index type and coarsening ratio
    defined,    \* define_function_called: the array has registered its key
    m_bdkey,    \* the key it has registered
    tables,     \* m_BD_count and the caches
    fbd,        \* the FB an array's exchange in flight uses
    fpc         \* the FPinfo that FillPatch is using, with its arrays

vars == <<grids, ref, view, defined, m_bdkey, tables, fbd, fpc>>

\* A pattern kept under one key; and one kept under the keys of both its layouts.
Pattern(kind, key, v, g) == [kind |-> kind, key |-> key, view |-> v, grids |-> g]
Pair(src, dst, v, w, gs, gd) ==
    [src |-> src, dst |-> dst, srcView |-> v, dstView |-> w, srcGrids |-> gs, dstGrids |-> gd]
Under(o) == {[at |-> o.src, obj |-> o], [at |-> o.dst, obj |-> o]}
Objects(table) == {p.obj : p \in table}

\* The layouts of the patches of an FPinfo.
PatchRefs(t) == UNION {o.patch : o \in Objects(t.FillPatchCache)}

\* Somebody holds the BoxArray and the DistributionMapping at r.
Held(r) == (\E a \in Arrays : ref[a] = r) \/ r \in PatchRefs(tables)

-----------------------------------------------------------------------------
(***************************************************************************)
(* Counting and flushing                                                   *)
(***************************************************************************)
addThisBD(t, k) == [t EXCEPT !.BD_count[k] = @ + 1]

Released(t, K) ==
    [t EXCEPT !.BD_count = [k \in Refs |-> IF k \in K THEN @[k] - 1 ELSE @[k]]]

\* Mutant: the entry under the other key is left behind.
flushCPCHere(t, K) == [t EXCEPT !.CPCache = {p \in @ : p.at \notin K}]

flushCPC(t, K) ==
    LET dead == {p.obj : p \in {q \in t.CPCache : q.at \in K}}
    IN  [t EXCEPT !.CPCache = {p \in @ : p.obj \notin dead}]

\* Everything but the FPinfos: flushTileArray, flushFB and their likes, flushCPC.
Flush(t, K) == flushCPC([t EXCEPT !.kept = {e \in @ : e.key \notin K}], K)

\* FPinfo::~FPinfo: its patches are no longer registered.
ClearPatches(t, P) == Flush(Released(t, P), {k \in P : t.BD_count[k] = 1})

\* The entries are erased before the objects are destroyed.
Destroy(t, dead) ==
    ClearPatches([t EXCEPT !.FillPatchCache = {p \in @ : p.obj \notin dead}],
                 UNION {o.patch : o \in dead})

flushFPinfo(t, k) == Destroy(t, {p.obj : p \in {q \in t.FillPatchCache : q.at = k}})

\* Mutant: erased whoever else was built with the key.
clearThisBDAll(t, k) == Flush(flushFPinfo(Released(t, {k}), k), {k})

clearThisBD(t, k) ==
    IF t.BD_count[k] = 1
    THEN Flush(flushFPinfo(Released(t, {k}), k), {k})
    ELSE Released(t, {k})

\* An exchange in flight has a pointer to its pattern.
Retable(t) ==
    /\ tables' = t
    /\ fbd' = [a \in Arrays |-> IF fbd[a] \in t.kept \cup {NoFB} THEN fbd[a] ELSE Freed]

\* A new BoxArray with layout l is at an address nobody holds.
Allocate(r, l) == ~Held(r) /\ grids' = [grids EXCEPT ![r] = l]

\* a is not in the middle of an exchange, nor FillPatch at work with it.
Free(a) == fbd[a] = NoFB /\ a \notin fpc.arrays

-----------------------------------------------------------------------------
(***************************************************************************)
(* Arrays                                                                  *)
(***************************************************************************)
Cleared(a) == IF defined[a] THEN clearThisBD(tables, m_bdkey[a]) ELSE tables

Clear(a) ==
    /\ Free(a)
    /\ defined' = [defined EXCEPT ![a] = FALSE]
    /\ Retable(Cleared(a))
    /\ ref' = [ref EXCEPT ![a] = NoRef]
    /\ m_bdkey' = [m_bdkey EXCEPT ![a] = NoRef]
    /\ view' = [view EXCEPT ![a] = BATransformer]
    /\ UNCHANGED <<grids, fpc>>

\* The BoxArray shares its data with another, or is new.
Define(a, r, v) ==
    /\ Free(a)
    /\ \/ Held(r) /\ UNCHANGED grids
       \/ \E l \in Layouts : Allocate(r, l)
    /\ Retable(addThisBD(Cleared(a), r))
    /\ defined' = [defined EXCEPT ![a] = TRUE]
    /\ ref' = [ref EXCEPT ![a] = r]
    /\ m_bdkey' = [m_bdkey EXCEPT ![a] = r]
    /\ view' = [view EXCEPT ![a] = v]
    /\ UNCHANGED fpc

\* Mutant: b still believes it is registered.
MoveCopied(a, b) ==
    /\ a # b /\ Free(a) /\ Free(b)
    /\ Retable(Cleared(a))
    /\ defined' = [defined EXCEPT ![a] = defined[b]]
    /\ ref' = [ref EXCEPT ![a] = ref[b], ![b] = NoRef]
    /\ m_bdkey' = [m_bdkey EXCEPT ![a] = m_bdkey[b], ![b] = NoRef]
    /\ view' = [view EXCEPT ![a] = view[b], ![b] = BATransformer]
    /\ UNCHANGED <<grids, fpc>>

\* FabArray::operator=(FabArray&&): b's registration passes to a.
Move(a, b) ==
    /\ a # b /\ Free(a) /\ Free(b)
    /\ Retable(Cleared(a))
    /\ defined' = [defined EXCEPT ![a] = defined[b], ![b] = FALSE]
    /\ ref' = [ref EXCEPT ![a] = ref[b], ![b] = NoRef]
    /\ m_bdkey' = [m_bdkey EXCEPT ![a] = m_bdkey[b], ![b] = NoRef]
    /\ view' = [view EXCEPT ![a] = view[b], ![b] = BATransformer]
    /\ UNCHANGED <<grids, fpc>>

\* The BoxArray is shifted in place if nobody shares it, else copied first; its boxes
\* are coarsened if they were not (uniqify).
shift(a) ==
    LET t == clearThisBD(tables, m_bdkey[a])
        shared == (\E b \in Arrays \ {a} : ref[b] = ref[a]) \/ ref[a] \in PatchRefs(t)
    IN
    /\ defined[a] /\ Free(a)
    /\ \E r \in Refs, l \in Layouts :
          /\ \/ r = ref[a] /\ ~shared /\ grids' = [grids EXCEPT ![r] = l]
             \/ Allocate(r, l)
          /\ Retable(addThisBD(t, r))
          /\ ref' = [ref EXCEPT ![a] = r]
          /\ m_bdkey' = [m_bdkey EXCEPT ![a] = r]
    /\ view' = [view EXCEPT ![a].ratio = 1]
    /\ UNCHANGED <<defined, fpc>>

\* TagBoxArray::coarsen: only the transformation of the BoxArray changes.
coarsen(a, v) ==
    /\ defined[a] /\ Free(a)
    /\ v.typ = view[a].typ /\ v.ratio > view[a].ratio
    /\ view' = [view EXCEPT ![a] = v]
    /\ UNCHANGED <<grids, ref, defined, m_bdkey, tables, fbd, fpc>>

-----------------------------------------------------------------------------
(***************************************************************************)
(* Looking up, and building what is not found                              *)
(***************************************************************************)
\* Mutant: the coarsening ratio is not part of what is looked up.
FitsType(kind, v, w) == kind # "TileArray" => v.typ = w.typ

\* Tiles are cell-centered boxes whatever the type.
Fits(kind, v, w) == v.ratio = w.ratio /\ (kind # "TileArray" => v.typ = w.typ)

Hits(kind, a) ==
    {e \in tables.kept : e.kind = kind /\ e.key = m_bdkey[a] /\ Fits(kind, e.view, view[a])}

NewPattern(kind, a) == Pattern(kind, m_bdkey[a], view[a], grids[ref[a]])

\* getTileArray, getFB: e is what is returned.
Get(kind, a, e) ==
    \/ e \in Hits(kind, a) /\ UNCHANGED tables
    \/ /\ Hits(kind, a) = {}
       /\ e = NewPattern(kind, a)
       /\ tables' = [tables EXCEPT !.kept = @ \cup {e}]

\* MFIter over an array.
getTileArray(a) ==
    /\ defined[a]
    /\ \E e \in Hits("TileArray", a) \cup {NewPattern("TileArray", a)} : Get("TileArray", a, e)
    /\ UNCHANGED <<grids, ref, view, defined, m_bdkey, fbd, fpc>>

FillBoundary_nowait(a) ==
    /\ defined[a] /\ fbd[a] = NoFB
    /\ \E e \in Hits("FB", a) \cup {NewPattern("FB", a)} :
          Get("FB", a, e) /\ fbd' = [fbd EXCEPT ![a] = e]
    /\ UNCHANGED <<grids, ref, view, defined, m_bdkey, fpc>>

FillBoundary_finish(a) ==
    /\ fbd[a] # NoFB
    /\ fbd' = [fbd EXCEPT ![a] = NoFB]
    /\ UNCHANGED <<grids, ref, view, defined, m_bdkey, tables, fpc>>

\* The boxes are compared too, not the ranks they are on.
CPCHits(dst, src) ==
    {o \in Objects({p \in tables.CPCache : p.at = m_bdkey[dst]}) :
        /\ o.src = m_bdkey[src] /\ o.dst = m_bdkey[dst]
        /\ o.srcView = view[src] /\ o.srcGrids.boxes = grids[ref[src]].boxes
        /\ o.dstView = view[dst] /\ o.dstGrids.boxes = grids[ref[dst]].boxes}

NewCPC(dst, src) ==
    Pair(m_bdkey[src], m_bdkey[dst], view[src], view[dst], grids[ref[src]], grids[ref[dst]])

ParallelCopy(dst, src) ==
    /\ defined[dst] /\ defined[src]
    /\ view[dst].typ = view[src].typ
    /\ CPCHits(dst, src) = {}
    /\ tables' = [tables EXCEPT !.CPCache = @ \cup Under(NewCPC(dst, src))]
    /\ UNCHANGED <<grids, ref, view, defined, m_bdkey, fbd, fpc>>

\* The boxes of a layout are not compared, but the domain is, which has its view.
FPinfoHits(dst, src, space) ==
    {o \in Objects({p \in tables.FillPatchCache : p.at = m_bdkey[dst]}) :
        o.src = m_bdkey[src] /\ o.dst = m_bdkey[dst] /\ o.dstView = view[dst] /\ o.space = space}

NewFPinfo(dst, src, space, P) ==
    [src |-> m_bdkey[src], dst |-> m_bdkey[dst], srcView |-> view[src], dstView |-> view[dst],
     srcGrids |-> grids[ref[src]], dstGrids |-> grids[ref[dst]], space |-> space, patch |-> P]

UseFPinfo(dst, src, o) == fpc' = [arrays |-> {dst, src}, obj |-> {o}]

\* The arrays are the program's own, not on patches, and of one level: one view.
CanFill(dst, src) ==
    /\ fpc.obj = {}
    /\ defined[dst] /\ defined[src]
    /\ view[dst] = view[src]
    /\ {m_bdkey[dst], m_bdkey[src]} \cap PatchRefs(tables) = {}

FillPatchAgain(dst, src, space) ==
    /\ CanFill(dst, src)
    /\ \E o \in FPinfoHits(dst, src, space) : UseFPinfo(dst, src, o)
    /\ UNCHANGED <<grids, ref, view, defined, m_bdkey, tables, fbd>>

\* There may be nothing to fill from the coarse level; else the layouts of the coarse
\* and of the fine patch are new.
FillPatch(dst, src, space) ==
    /\ CanFill(dst, src)
    /\ FPinfoHits(dst, src, space) = {}
    /\ \E P \in SUBSET {r \in Refs : ~Held(r)} :
          /\ Cardinality(P) \in {0, 2}
          /\ \E g \in [P -> Layouts] :
                grids' = [r \in Refs |-> IF r \in P THEN g[r] ELSE grids[r]]
          /\ LET o == NewFPinfo(dst, src, space, P)
             IN  /\ tables' = [tables EXCEPT
                                 !.FillPatchCache = @ \cup Under(o),
                                 !.BD_count = [k \in Refs |-> IF k \in P THEN @[k] + 1 ELSE @[k]]]
                 /\ UseFPinfo(dst, src, o)
    /\ UNCHANGED <<ref, view, defined, m_bdkey, fbd>>

FillPatchEnd ==
    /\ fpc.obj # {}
    /\ fpc' = [arrays |-> {}, obj |-> {}]
    /\ UNCHANGED <<grids, ref, view, defined, m_bdkey, tables, fbd>>

\* EB2::IndexSpace::~IndexSpace
flushIndexSpace(space) ==
    /\ fpc.obj = {}
    /\ Retable(Destroy(tables, {o \in Objects(tables.FillPatchCache) : o.space = space}))
    /\ UNCHANGED <<grids, ref, view, defined, m_bdkey, fpc>>

-----------------------------------------------------------------------------
Init ==
    /\ grids \in [Refs -> Layouts]
    /\ ref = [a \in Arrays |-> NoRef]
    /\ view = [a \in Arrays |-> BATransformer]
    /\ defined = [a \in Arrays |-> FALSE]
    /\ m_bdkey = [a \in Arrays |-> NoRef]
    /\ tables = [BD_count |-> [k \in Refs |-> 0], kept |-> {}, CPCache |-> {}, FillPatchCache |-> {}]
    /\ fbd = [a \in Arrays |-> NoFB]
    /\ fpc = [arrays |-> {}, obj |-> {}]

Next ==
    \/ \E a \in Arrays :
          \/ Clear(a) \/ shift(a)
          \/ \E v \in Views : coarsen(a, v) \/ \E r \in Refs : Define(a, r, v)
          \/ getTileArray(a) \/ FillBoundary_nowait(a) \/ FillBoundary_finish(a)
    \/ \E a, b \in Arrays :
          \/ Move(a, b) \/ ParallelCopy(a, b)
          \/ \E s \in Spaces : FillPatch(a, b, s) \/ FillPatchAgain(a, b, s)
    \/ FillPatchEnd
    \/ \E s \in Spaces : flushIndexSpace(s)

Spec == Init /\ [][Next]_vars

-----------------------------------------------------------------------------
(***************************************************************************)
(* Properties                                                              *)
(***************************************************************************)
Kept == [kind : Kinds, key : Refs, view : Views, grids : Layouts]

CPCs == [src : Refs, dst : Refs, srcView : Views, dstView : Views,
         srcGrids : Layouts, dstGrids : Layouts]

FPinfos == [src : Refs, dst : Refs, srcView : Views, dstView : Views,
            srcGrids : Layouts, dstGrids : Layouts, space : Spaces, patch : SUBSET Refs]

\* Types; and an array that has registered has done it with the address it has
\* (the assertion getBDKey() == m_bdkey of every lookup and flush).
TypeOK ==
    /\ grids \in [Refs -> Layouts]
    /\ ref \in [Arrays -> Refs \cup {NoRef}]
    /\ view \in [Arrays -> Views]
    /\ defined \in [Arrays -> BOOLEAN]
    /\ m_bdkey = ref
    /\ \A a \in Arrays : defined[a] <=> ref[a] \in Refs
    /\ tables \in [BD_count : [Refs -> Nat], kept : SUBSET Kept,
                   CPCache : SUBSET [at : Refs, obj : CPCs],
                   FillPatchCache : SUBSET [at : Refs, obj : FPinfos]]
    /\ fbd \in [Arrays -> Kept \cup {NoFB, Freed}]
    /\ fpc \in [arrays : SUBSET Arrays, obj : SUBSET FPinfos]

Holders(k) == {a \in Arrays : defined[a] /\ m_bdkey[a] = k}

Registered(k) == tables.BD_count[k] > 0

\* m_BD_count is the number of objects registered with a key, and nothing is kept
\* under a key that nobody holds (clearThisBD), under either of its keys: a flush that
\* missed one would leave a pattern for whoever gets the address next, or a pointer to
\* a deleted one.
Counted ==
    /\ \A k \in Refs :
          tables.BD_count[k] = Cardinality(Holders(k)) + (IF k \in PatchRefs(tables) THEN 1 ELSE 0)
    /\ \A e \in tables.kept : Registered(e.key)
    /\ \A p \in tables.CPCache \cup tables.FillPatchCache :
          Registered(p.obj.src) /\ Registered(p.obj.dst)
    /\ \A p \in tables.CPCache : Under(p.obj) \subseteq tables.CPCache
    /\ \A p \in tables.FillPatchCache : Under(p.obj) \subseteq tables.FillPatchCache

SameGrids(o, dst, src) == o.srcGrids = grids[ref[src]] /\ o.dstGrids = grids[ref[dst]]

\* What a lookup finds is what would be built now, the ranks the boxes are on included,
\* although addresses are used again for other layouts (getTileArray, getFB, getCPC,
\* TheFPinfo).
HitsRight ==
    \A a \in {b \in Arrays : defined[b]} :
        /\ \A kind \in Kinds : \A e \in Hits(kind, a) :
              e.grids = grids[ref[a]] /\ e.view.ratio = view[a].ratio
        /\ \A e \in Hits("FB", a) : e = NewPattern("FB", a)
        /\ \A b \in {c \in Arrays : defined[c]} :
              /\ \A o \in CPCHits(a, b) : SameGrids(o, a, b)
              /\ \A s \in Spaces : \A o \in FPinfoHits(a, b, s) : SameGrids(o, a, b)

\* The pattern an exchange in flight has a pointer to is still there and is the one of
\* its array (fbd, from FillBoundary_nowait to FillBoundary_finish); so is the FPinfo
\* that FillPatch is using, and the layouts of its patches.
InFlight ==
    /\ \A a \in Arrays : fbd[a] # NoFB =>
          /\ fbd[a] \in tables.kept
          /\ defined[a] /\ fbd[a].key = m_bdkey[a] /\ fbd[a].grids = grids[ref[a]]
    /\ fpc.obj \subseteq Objects(tables.FillPatchCache)
    /\ \A o \in fpc.obj : \A r \in o.patch : Registered(r)

=============================================================================

------------------------- MODULE LayoutCacheProofs -------------------------
(***************************************************************************)
(* The invariants of LayoutCache for every set of arrays, addresses,       *)
(* layouts and views.                                                      *)
(*                                                                         *)
(* The tables are described by Good(t, H, g, X): with H[k] arrays          *)
(* registered with k and g[k] at address k, the counts are right, whatever *)
(* is kept is kept under every key it belongs to, for the layouts that are *)
(* there, and under keys that are registered, or in X, the keys about to   *)
(* be flushed.  Every step of clearThisBD keeps it, with X = {k} from the  *)
(* decrement of the count to the end of the flush.                         *)
(***************************************************************************)
EXTENDS LayoutCache, FiniteSetTheorems, TLAPS

Tables == [BD_count : [Refs -> Nat], kept : SUBSET Kept,
           CPCache : SUBSET [at : Refs, obj : CPCs],
           FillPatchCache : SUBSET [at : Refs, obj : FPinfos]]

CountsGood(t, H) ==
    \A k \in Refs : t.BD_count[k] = H[k] + (IF k \in PatchRefs(t) THEN 1 ELSE 0)

\* No two FPinfos share the layout of a patch, and none is for a layout of a patch.
PatchesGood(t) ==
    /\ \A o1, o2 \in Objects(t.FillPatchCache) : o1.patch \cap o2.patch # {} => o1 = o2
    /\ \A o \in Objects(t.FillPatchCache) : o.src \notin PatchRefs(t) /\ o.dst \notin PatchRefs(t)

RegisteredBut(t, k, X) == t.BD_count[k] > 0 \/ k \in X

KeptGood(t, g, X) ==
    \A e \in t.kept : e.grids = g[e.key] /\ RegisteredBut(t, e.key, X)

PairsGood(table, t, g, X) ==
    \A p \in table :
        /\ p.at \in {p.obj.src, p.obj.dst}
        /\ Under(p.obj) \subseteq table
        /\ RegisteredBut(t, p.obj.src, X) /\ RegisteredBut(t, p.obj.dst, X)
        /\ p.obj.srcGrids = g[p.obj.src] /\ p.obj.dstGrids = g[p.obj.dst]

Good(t, H, g, X) ==
    /\ t \in Tables
    /\ CountsGood(t, H)
    /\ PatchesGood(t)
    /\ KeptGood(t, g, X)
    /\ PairsGood(t.CPCache, t, g, X)
    /\ PairsGood(t.FillPatchCache, t, g, X)

Holdings == [Refs -> Nat]

-----------------------------------------------------------------------------
(***************************************************************************)
(* Flushing                                                                *)
(***************************************************************************)
\* What a flush of the keys in K leaves: what is under none of them.
LEMMA FlushLeaves ==
    ASSUME NEW t \in Tables, NEW K \in SUBSET Refs,
           \A p \in t.CPCache : p.at \in {p.obj.src, p.obj.dst} /\ Under(p.obj) \subseteq t.CPCache
    PROVE  /\ Flush(t, K) \in Tables
           /\ Flush(t, K).BD_count = t.BD_count
           /\ Flush(t, K).FillPatchCache = t.FillPatchCache
           /\ Flush(t, K).kept = {e \in t.kept : e.key \notin K}
           /\ Flush(t, K).CPCache = {p \in t.CPCache : p.obj.src \notin K /\ p.obj.dst \notin K}
<1> DEFINE t1 == [t EXCEPT !.kept = {e \in @ : e.key \notin K}]
           dead == {p.obj : p \in {q \in t.CPCache : q.at \in K}}
<1>1. t1 \in Tables /\ t1.CPCache = t.CPCache /\ t1.BD_count = t.BD_count
      /\ t1.FillPatchCache = t.FillPatchCache /\ t1.kept = {e \in t.kept : e.key \notin K}
  BY DEF Tables
<1>2. Flush(t, K) = [t1 EXCEPT !.CPCache = {p \in @ : p.obj \notin dead}]
  BY <1>1 DEF Flush, flushCPC
<1>3. \A p \in t.CPCache : p.obj \in dead <=> p.obj.src \in K \/ p.obj.dst \in K
  <2> SUFFICES ASSUME NEW p \in t.CPCache
               PROVE  p.obj \in dead <=> p.obj.src \in K \/ p.obj.dst \in K
    OBVIOUS
  <2>1. ASSUME p.obj \in dead PROVE p.obj.src \in K \/ p.obj.dst \in K
    BY <2>1
  <2>2. ASSUME p.obj.src \in K PROVE p.obj \in dead
    <3>1. [at |-> p.obj.src, obj |-> p.obj] \in t.CPCache
      BY DEF Under
    <3>2. QED  BY <3>1, <2>2
  <2>3. ASSUME p.obj.dst \in K PROVE p.obj \in dead
    <3>1. [at |-> p.obj.dst, obj |-> p.obj] \in t.CPCache
      BY DEF Under
    <3>2. QED  BY <3>1, <2>3
  <2>4. QED  BY <2>1, <2>2, <2>3
<1> HIDE DEF t1, dead
<1>4. QED  BY <1>1, <1>2, <1>3 DEF Tables

\* Destroying FPinfos keeps the tables good, and what arrays hold stays.
LEMMA DestroyGood ==
    ASSUME NEW t, NEW H \in Holdings, NEW g, NEW X \in SUBSET Refs, Good(t, H, g, X),
           NEW dead \in SUBSET Objects(t.FillPatchCache)
    PROVE  /\ Good(Destroy(t, dead), H, g, X)
           /\ Destroy(t, dead).FillPatchCache = {p \in t.FillPatchCache : p.obj \notin dead}
           /\ PatchRefs(Destroy(t, dead)) \subseteq PatchRefs(t)
           /\ \A e \in t.kept : H[e.key] > 0 => e \in Destroy(t, dead).kept
<1> DEFINE t1 == [t EXCEPT !.FillPatchCache = {p \in @ : p.obj \notin dead}]
           P == UNION {o.patch : o \in dead}
           t2 == Released(t1, P)
           F == {k \in P : t1.BD_count[k] = 1}
           d == Flush(t2, F)
<1>0. Destroy(t, dead) = d
  BY DEF Destroy, ClearPatches
<1>1. /\ t \in Tables
      /\ t1 \in Tables /\ t1.BD_count = t.BD_count /\ t1.kept = t.kept /\ t1.CPCache = t.CPCache
      /\ t1.FillPatchCache = {p \in t.FillPatchCache : p.obj \notin dead}
  BY DEF Good, Tables
<1>2. Objects(t1.FillPatchCache) = Objects(t.FillPatchCache) \ dead
  BY <1>1 DEF Objects
<1>3. Objects(t.FillPatchCache) \subseteq FPinfos /\ P \in SUBSET Refs /\ P \subseteq PatchRefs(t)
  <2>1. Objects(t.FillPatchCache) \subseteq FPinfos
    BY <1>1 DEF Tables, Objects
  <2>2. QED  BY <2>1 DEF FPinfos, PatchRefs
<1>4. PatchRefs(t1) = PatchRefs(t) \ P
  <2>1. ASSUME NEW k \in PatchRefs(t1) PROVE k \in PatchRefs(t) /\ k \notin P
    <3>1. PICK o \in Objects(t.FillPatchCache) \ dead : k \in o.patch
      BY <1>2, <2>1 DEF PatchRefs
    <3>2. ASSUME k \in P PROVE FALSE
      <4>1. PICK o2 \in dead : k \in o2.patch
        BY <3>2
      <4>2. QED  BY <3>1, <4>1 DEF Good, PatchesGood
    <3>3. QED  BY <3>1, <3>2 DEF PatchRefs
  <2>2. ASSUME NEW k \in PatchRefs(t) \ P PROVE k \in PatchRefs(t1)
    BY <1>2, <2>2 DEF PatchRefs
  <2>3. QED  BY <2>1, <2>2
<1> HIDE DEF t1, P
<1>5. \A k \in Refs : t.BD_count[k] = H[k] + (IF k \in PatchRefs(t) THEN 1 ELSE 0) /\ H[k] \in Nat
  BY DEF Good, CountsGood, Holdings
<1>6. /\ t2 \in Tables /\ t2.kept = t.kept /\ t2.CPCache = t.CPCache
      /\ t2.FillPatchCache = t1.FillPatchCache
      /\ \A k \in Refs : t2.BD_count[k] = H[k] + (IF k \in PatchRefs(t1) THEN 1 ELSE 0)
  <2>1. t2 = [t1 EXCEPT !.BD_count = [k \in Refs |-> IF k \in P THEN t1.BD_count[k] - 1 ELSE t1.BD_count[k]]]
    BY DEF Released
  <2>2. \A k \in Refs : (IF k \in P THEN t1.BD_count[k] - 1 ELSE t1.BD_count[k])
                        = H[k] + (IF k \in PatchRefs(t1) THEN 1 ELSE 0)
    BY <1>1, <1>3, <1>4, <1>5
  <2>3. [k \in Refs |-> IF k \in P THEN t1.BD_count[k] - 1 ELSE t1.BD_count[k]] \in [Refs -> Nat]
    BY <1>5, <2>2
  <2> HIDE DEF t2
  <2>4. QED  BY <1>1, <2>1, <2>2, <2>3 DEF Tables
<1>7. F = {k \in P : H[k] = 0} /\ F \in SUBSET Refs
  BY <1>1, <1>3, <1>5
<1> HIDE DEF t2, F
<1>8. PairsGood(t.CPCache, t, g, X) /\ PairsGood(t.FillPatchCache, t, g, X)
  BY DEF Good
<1>9. /\ d \in Tables /\ d.BD_count = t2.BD_count /\ d.FillPatchCache = t1.FillPatchCache
      /\ d.kept = {e \in t.kept : e.key \notin F}
      /\ d.CPCache = {p \in t.CPCache : p.obj.src \notin F /\ p.obj.dst \notin F}
  <2>1. \A p \in t2.CPCache : p.at \in {p.obj.src, p.obj.dst} /\ Under(p.obj) \subseteq t2.CPCache
    BY <1>6, <1>8 DEF PairsGood
  <2>2. QED  BY <1>6, <1>7, <2>1, FlushLeaves
<1> HIDE DEF d
<1>10. PatchRefs(d) = PatchRefs(t1)
  BY <1>9 DEF PatchRefs
<1>11. CountsGood(d, H)
  BY <1>6, <1>9, <1>10 DEF CountsGood
\* Of the keys that are not flushed, those registered before are so still.
<1>12. \A k \in Refs \ F : RegisteredBut(t, k, X) => RegisteredBut(d, k, X)
  BY <1>4, <1>5, <1>6, <1>7, <1>9 DEF RegisteredBut
<1>13. PatchesGood(d)
  BY <1>1, <1>2, <1>4, <1>9, <1>10 DEF Good, PatchesGood, Objects
<1>14. KeptGood(d, g, X)
  BY <1>1, <1>9, <1>12 DEF Good, KeptGood, Tables, Kept
<1>15. PairsGood(d.CPCache, d, g, X)
  <2> SUFFICES ASSUME NEW p \in d.CPCache
               PROVE  /\ p.at \in {p.obj.src, p.obj.dst}
                      /\ Under(p.obj) \subseteq d.CPCache
                      /\ RegisteredBut(d, p.obj.src, X) /\ RegisteredBut(d, p.obj.dst, X)
                      /\ p.obj.srcGrids = g[p.obj.src] /\ p.obj.dstGrids = g[p.obj.dst]
    BY DEF PairsGood
  <2>1. p \in t.CPCache /\ p.obj.src \in Refs \ F /\ p.obj.dst \in Refs \ F
    BY <1>1, <1>9 DEF Tables, CPCs
  <2>2. \A q \in Under(p.obj) : q.obj = p.obj /\ q \in t.CPCache
    <3>1. \A q \in Under(p.obj) : q.obj = p.obj
      BY DEF Under
    <3>2. Under(p.obj) \subseteq t.CPCache
      BY <1>8, <2>1 DEF PairsGood
    <3>3. QED  BY <3>1, <3>2
  <2>3. Under(p.obj) \subseteq d.CPCache
    BY <1>9, <2>1, <2>2
  <2>4. QED  BY <1>8, <1>12, <2>1, <2>3 DEF PairsGood
<1>16. PairsGood(d.FillPatchCache, d, g, X)
  <2> SUFFICES ASSUME NEW p \in d.FillPatchCache
               PROVE  /\ p.at \in {p.obj.src, p.obj.dst}
                      /\ Under(p.obj) \subseteq d.FillPatchCache
                      /\ RegisteredBut(d, p.obj.src, X) /\ RegisteredBut(d, p.obj.dst, X)
                      /\ p.obj.srcGrids = g[p.obj.src] /\ p.obj.dstGrids = g[p.obj.dst]
    BY DEF PairsGood
  <2>1. p \in t.FillPatchCache /\ p.obj \notin dead
    BY <1>1, <1>9
  <2>2. p.obj.src \in Refs \ F /\ p.obj.dst \in Refs \ F
    <3>1. p.obj \in Objects(t.FillPatchCache)
      BY <2>1 DEF Objects
    <3>2. p.obj.src \notin PatchRefs(t) /\ p.obj.dst \notin PatchRefs(t)
      BY <3>1 DEF Good, PatchesGood
    <3>3. QED  BY <1>3, <1>7, <3>1, <3>2 DEF FPinfos
  <2>3. \A q \in Under(p.obj) : q.obj = p.obj /\ q \in t.FillPatchCache
    <3>1. \A q \in Under(p.obj) : q.obj = p.obj
      BY DEF Under
    <3>2. Under(p.obj) \subseteq t.FillPatchCache
      BY <1>8, <2>1 DEF PairsGood
    <3>3. QED  BY <3>1, <3>2
  <2>4. Under(p.obj) \subseteq d.FillPatchCache
    BY <1>1, <1>9, <2>1, <2>3
  <2>5. QED  BY <1>8, <1>12, <2>1, <2>2, <2>4 DEF PairsGood
<1>17. \A e \in t.kept : H[e.key] > 0 => e \in d.kept
  BY <1>1, <1>5, <1>7, <1>9 DEF Tables, Kept
<1>18. QED
  BY <1>0, <1>1, <1>4, <1>9, <1>10, <1>11, <1>13, <1>14, <1>15, <1>16, <1>17 DEF Good

\* clearThisBD with one holder of k less.
LEMMA ClearGood ==
    ASSUME NEW t, NEW H \in Holdings, NEW g, Good(t, H, g, {}),
           NEW k \in Refs, H[k] > 0, NEW H1, H1 = [H EXCEPT ![k] = @ - 1]
    PROVE  /\ Good(clearThisBD(t, k), H1, g, {})
           /\ PatchRefs(clearThisBD(t, k)) \subseteq PatchRefs(t)
           /\ \A e \in t.kept : H1[e.key] > 0 => e \in clearThisBD(t, k).kept
           /\ \A p \in t.FillPatchCache :
                 H1[p.obj.src] > 0 /\ H1[p.obj.dst] > 0 => p \in clearThisBD(t, k).FillPatchCache
<1> DEFINE t1 == Released(t, {k})
           dead == {p.obj : p \in {q \in t1.FillPatchCache : q.at = k}}
           d == Destroy(t1, dead)
           c == clearThisBD(t, k)
<1>1. /\ H1 \in Holdings /\ \A j \in Refs : H1[j] = H[j] - (IF j = k THEN 1 ELSE 0)
      /\ \A j \in Refs : H[j] \in Nat /\ H1[j] \in Nat
  BY DEF Holdings
<1>2. \A j \in Refs : t.BD_count[j] = H[j] + (IF j \in PatchRefs(t) THEN 1 ELSE 0)
  BY DEF Good, CountsGood
<1>3. /\ t1 \in Tables /\ t1.kept = t.kept /\ t1.CPCache = t.CPCache
      /\ t1.FillPatchCache = t.FillPatchCache
      /\ \A j \in Refs : t1.BD_count[j] = H1[j] + (IF j \in PatchRefs(t) THEN 1 ELSE 0)
  <2>1. t \in Tables
    BY DEF Good
  <2>2. t1 = [t EXCEPT !.BD_count = [j \in Refs |-> IF j \in {k} THEN t.BD_count[j] - 1 ELSE t.BD_count[j]]]
    BY DEF Released
  <2>3. \A j \in Refs : (IF j \in {k} THEN t.BD_count[j] - 1 ELSE t.BD_count[j])
                        = H1[j] + (IF j \in PatchRefs(t) THEN 1 ELSE 0)
    BY <1>1, <1>2
  <2>4. [j \in Refs |-> IF j \in {k} THEN t.BD_count[j] - 1 ELSE t.BD_count[j]] \in [Refs -> Nat]
    BY <1>1, <2>3
  <2> HIDE DEF t1
  <2>5. QED  BY <2>1, <2>2, <2>3, <2>4 DEF Tables
<1>4. clearThisBD(t, k) = IF t.BD_count[k] = 1 THEN Flush(d, {k}) ELSE t1
  BY DEF clearThisBD, flushFPinfo
<1> HIDE DEF t1
<1>5. PatchRefs(t1) = PatchRefs(t)
  BY <1>3 DEF PatchRefs
<1>6. CountsGood(t1, H1) /\ PatchesGood(t1)
  BY <1>3, <1>5 DEF Good, CountsGood, PatchesGood
<1>7. \A j \in Refs : RegisteredBut(t, j, {}) => RegisteredBut(t1, j, {k})
  BY <1>1, <1>2, <1>3 DEF RegisteredBut
<1>8. /\ \A e \in t.kept : e.key \in Refs
      /\ \A p \in t.CPCache \cup t.FillPatchCache : p.obj.src \in Refs /\ p.obj.dst \in Refs
  BY DEF Good, Tables, Kept, CPCs, FPinfos
<1>9. /\ KeptGood(t, g, {}) /\ PairsGood(t.CPCache, t, g, {}) /\ PairsGood(t.FillPatchCache, t, g, {})
  BY DEF Good
<1>10. CASE t.BD_count[k] # 1
  <2>1. \A j \in Refs : RegisteredBut(t, j, {}) => RegisteredBut(t1, j, {})
    BY <1>1, <1>2, <1>3, <1>10 DEF RegisteredBut
  <2>2. KeptGood(t1, g, {})
    BY <1>3, <1>8, <1>9, <2>1 DEF KeptGood
  <2>3. PairsGood(t1.CPCache, t1, g, {})
    BY <1>3, <1>8, <1>9, <2>1 DEF PairsGood
  <2>4. PairsGood(t1.FillPatchCache, t1, g, {})
    BY <1>3, <1>8, <1>9, <2>1 DEF PairsGood
  <2>5. Good(t1, H1, g, {})
    BY <1>3, <1>6, <2>2, <2>3, <2>4 DEF Good
  <2>6. QED  BY <1>3, <1>4, <1>5, <1>10, <2>5
<1>11. CASE t.BD_count[k] = 1
  <2>1. c = Flush(d, {k})
    BY <1>4, <1>11
  <2>2. H1[k] = 0
    BY <1>1, <1>2, <1>11
  <2>3. KeptGood(t1, g, {k})
    BY <1>3, <1>7, <1>8, <1>9 DEF KeptGood
  <2>4. PairsGood(t1.CPCache, t1, g, {k})
    BY <1>3, <1>7, <1>8, <1>9 DEF PairsGood
  <2>5. PairsGood(t1.FillPatchCache, t1, g, {k})
    BY <1>3, <1>7, <1>8, <1>9 DEF PairsGood
  <2>6. Good(t1, H1, g, {k})
    BY <1>3, <1>6, <2>3, <2>4, <2>5 DEF Good
  <2>7. dead \in SUBSET Objects(t1.FillPatchCache)
    BY DEF Objects
  <2>8. /\ Good(d, H1, g, {k})
        /\ d.FillPatchCache = {p \in t1.FillPatchCache : p.obj \notin dead}
        /\ PatchRefs(d) \subseteq PatchRefs(t1)
        /\ \A e \in t1.kept : H1[e.key] > 0 => e \in d.kept
    <3> HIDE DEF dead
    <3>1. {k} \in SUBSET Refs
      OBVIOUS
    <3>2. H1 \in Holdings
      BY <1>1
    <3>3. QED  BY ONLY <2>6, <2>7, <3>1, <3>2, DestroyGood, Zenon
  <2> HIDE DEF d
  \* None of the FPinfos that are left is for k.
  <2>9. \A p \in t1.FillPatchCache : p.obj \in dead <=> p.obj.src = k \/ p.obj.dst = k
    <3> SUFFICES ASSUME NEW p \in t1.FillPatchCache
                 PROVE  p.obj \in dead <=> p.obj.src = k \/ p.obj.dst = k
      OBVIOUS
    <3>1. ASSUME p.obj \in dead PROVE p.obj.src = k \/ p.obj.dst = k
      BY <2>5, <3>1 DEF PairsGood
    <3>2. ASSUME p.obj.src = k \/ p.obj.dst = k PROVE p.obj \in dead
      <4>1. Under(p.obj) \subseteq t1.FillPatchCache
        BY <2>5 DEF PairsGood
      <4>2. [at |-> k, obj |-> p.obj] \in Under(p.obj)
        BY <3>2 DEF Under
      <4>3. QED  BY <4>1, <4>2
    <3>3. QED  BY <3>1, <3>2
  <2> HIDE DEF dead
  <2>10. /\ c \in Tables /\ c.BD_count = d.BD_count /\ c.FillPatchCache = d.FillPatchCache
         /\ c.kept = {e \in d.kept : e.key # k}
         /\ c.CPCache = {p \in d.CPCache : p.obj.src # k /\ p.obj.dst # k}
    <3>1. \A p \in d.CPCache : p.at \in {p.obj.src, p.obj.dst} /\ Under(p.obj) \subseteq d.CPCache
      BY <2>8 DEF Good, PairsGood
    <3>2. d \in Tables /\ {k} \in SUBSET Refs
      BY <2>8 DEF Good
    <3> HIDE DEF c
    <3>3. QED  BY <2>1, <3>1, <3>2, FlushLeaves
  <2> HIDE DEF c
  <2>11. PatchRefs(c) = PatchRefs(d)
    BY <2>10 DEF PatchRefs
  <2>12. CountsGood(c, H1) /\ PatchesGood(c)
    BY <2>8, <2>10, <2>11 DEF Good, CountsGood, PatchesGood
  <2>13. \A j \in Refs : j # k /\ RegisteredBut(d, j, {k}) => RegisteredBut(c, j, {})
    BY <2>10 DEF RegisteredBut
  <2>14. /\ \A e \in d.kept : e.key \in Refs
         /\ \A p \in d.CPCache \cup d.FillPatchCache : p.obj.src \in Refs /\ p.obj.dst \in Refs
    BY <2>8 DEF Good, Tables, Kept, CPCs, FPinfos
  <2>15. KeptGood(c, g, {})
    BY <2>8, <2>10, <2>13, <2>14 DEF Good, KeptGood
  <2>16. PairsGood(c.CPCache, c, g, {})
    <3> SUFFICES ASSUME NEW p \in c.CPCache
                 PROVE  /\ p.at \in {p.obj.src, p.obj.dst}
                        /\ Under(p.obj) \subseteq c.CPCache
                        /\ RegisteredBut(c, p.obj.src, {}) /\ RegisteredBut(c, p.obj.dst, {})
                        /\ p.obj.srcGrids = g[p.obj.src] /\ p.obj.dstGrids = g[p.obj.dst]
      BY DEF PairsGood
    <3>1. p \in d.CPCache /\ p.obj.src # k /\ p.obj.dst # k
      BY <2>10
    <3>2. \A q \in Under(p.obj) : q.obj = p.obj
      BY DEF Under
    <3>3. PairsGood(d.CPCache, d, g, {k})
      BY <2>8 DEF Good
    <3>4. Under(p.obj) \subseteq c.CPCache
      BY <2>10, <3>1, <3>2, <3>3 DEF PairsGood
    <3>5. QED  BY <2>13, <2>14, <3>1, <3>3, <3>4 DEF PairsGood
  <2>17. PairsGood(c.FillPatchCache, c, g, {})
    <3>1. PairsGood(d.FillPatchCache, d, g, {k})
      BY <2>8 DEF Good
    <3>2. \A p \in d.FillPatchCache : p.obj.src # k /\ p.obj.dst # k
      BY <2>8, <2>9
    <3>3. QED  BY <2>10, <2>13, <2>14, <3>1, <3>2 DEF PairsGood
  <2>18. Good(c, H1, g, {})
    BY <2>10, <2>12, <2>15, <2>16, <2>17 DEF Good
  <2>19. \A e \in t.kept : H1[e.key] > 0 => e \in c.kept
    BY <1>3, <2>2, <2>8, <2>10
  <2>20. \A p \in t.FillPatchCache : H1[p.obj.src] > 0 /\ H1[p.obj.dst] > 0 => p \in c.FillPatchCache
    BY <1>3, <2>2, <2>8, <2>9, <2>10
  <2>21. QED  BY <1>5, <2>8, <2>11, <2>18, <2>19, <2>20 DEF c
<1>12. QED  BY <1>10, <1>11

\* A fact about what is kept that does not depend on how much is registered.
LEMMA PairsMono ==
    ASSUME NEW table, NEW t, NEW t2, NEW g, NEW g2,
           PairsGood(table, t, g, {}),
           \A p \in table : p.obj.src \in Refs /\ p.obj.dst \in Refs,
           \A k \in Refs : t.BD_count[k] > 0 => t2.BD_count[k] > 0 /\ g2[k] = g[k]
    PROVE  PairsGood(table, t2, g2, {})
  BY DEF PairsGood, RegisteredBut

LEMMA KeysAreRefs ==
    ASSUME NEW t \in Tables
    PROVE  /\ \A e \in t.kept : e.key \in Refs
           /\ \A p \in t.CPCache : p.obj.src \in Refs /\ p.obj.dst \in Refs
           /\ \A p \in t.FillPatchCache : p.obj.src \in Refs /\ p.obj.dst \in Refs
  BY DEF Tables, Kept, CPCs, FPinfos

\* addThisBD with one holder of k more.
LEMMA AddGood ==
    ASSUME NEW t, NEW H \in Holdings, NEW g, Good(t, H, g, {}),
           NEW k \in Refs, NEW H1, H1 = [H EXCEPT ![k] = @ + 1]
    PROVE  /\ Good(addThisBD(t, k), H1, g, {})
           /\ addThisBD(t, k).kept = t.kept
           /\ addThisBD(t, k).FillPatchCache = t.FillPatchCache
<1> DEFINE c == addThisBD(t, k)
<1>1. t \in Tables /\ \A j \in Refs : H[j] \in Nat
  BY DEF Good, Holdings
<1>2. /\ c \in Tables /\ c.kept = t.kept /\ c.CPCache = t.CPCache
      /\ c.FillPatchCache = t.FillPatchCache
      /\ \A j \in Refs : c.BD_count[j] = t.BD_count[j] + (IF j = k THEN 1 ELSE 0)
  BY <1>1 DEF addThisBD, Tables
<1> HIDE DEF c
<1>3. PatchRefs(c) = PatchRefs(t)
  BY <1>2 DEF PatchRefs
<1>4. \A j \in Refs : t.BD_count[j] \in Nat
  BY <1>1 DEF Tables
<1>5. \A j \in Refs : t.BD_count[j] > 0 => c.BD_count[j] > 0 /\ g[j] = g[j]
  BY <1>2, <1>4
<1>6. CountsGood(c, H1)
  <2>1. \A j \in Refs : H1[j] = H[j] + (IF j = k THEN 1 ELSE 0)
    BY DEF Holdings
  <2>2. CountsGood(t, H)
    BY DEF Good
  <2>3. QED  BY <1>1, <1>2, <1>3, <2>1, <2>2 DEF CountsGood
<1>7. PatchesGood(c)
  BY <1>2, <1>3 DEF Good, PatchesGood
<1>8. KeptGood(c, g, {})
  BY <1>1, <1>2, <1>5, KeysAreRefs DEF Good, KeptGood, RegisteredBut
<1>9. PairsGood(t.CPCache, c, g, {}) /\ PairsGood(t.FillPatchCache, c, g, {})
  BY <1>1, <1>5, KeysAreRefs, PairsMono DEF Good
<1>10. QED  BY <1>2, <1>6, <1>7, <1>8, <1>9 DEF Good, c

\* Other layouts at addresses that are not registered.
LEMMA GroundGood ==
    ASSUME NEW t, NEW H \in Holdings, NEW g, NEW g2, Good(t, H, g, {}),
           \A k \in Refs : H[k] > 0 \/ k \in PatchRefs(t) => g2[k] = g[k]
    PROVE  Good(t, H, g2, {})
<1>1. t \in Tables /\ \A j \in Refs : H[j] \in Nat
  BY DEF Good, Holdings
<1>2. \A k \in Refs : t.BD_count[k] > 0 => t.BD_count[k] > 0 /\ g2[k] = g[k]
  BY <1>1 DEF Good, CountsGood
<1>3. KeptGood(t, g2, {})
  BY <1>1, <1>2, KeysAreRefs DEF Good, KeptGood, RegisteredBut
<1>4. PairsGood(t.CPCache, t, g2, {}) /\ PairsGood(t.FillPatchCache, t, g2, {})
  BY <1>1, <1>2, KeysAreRefs, PairsMono DEF Good
<1>5. QED  BY <1>3, <1>4 DEF Good

\* One pattern more under a registered key.
LEMMA KeepGood ==
    ASSUME NEW t, NEW H \in Holdings, NEW g, Good(t, H, g, {}),
           NEW e \in Kept, H[e.key] > 0, e.grids = g[e.key]
    PROVE  Good([t EXCEPT !.kept = @ \cup {e}], H, g, {})
<1> DEFINE c == [t EXCEPT !.kept = @ \cup {e}]
<1>1. t \in Tables /\ e.key \in Refs /\ \A j \in Refs : H[j] \in Nat
  BY DEF Good, Holdings, Kept
<1>2. /\ c \in Tables /\ c.kept = t.kept \cup {e} /\ c.CPCache = t.CPCache
      /\ c.FillPatchCache = t.FillPatchCache /\ c.BD_count = t.BD_count
  BY <1>1 DEF Tables
<1> HIDE DEF c
<1>3. PatchRefs(c) = PatchRefs(t)
  BY <1>2 DEF PatchRefs
<1>4. t.BD_count[e.key] > 0
  BY <1>1 DEF Good, CountsGood
<1>5. KeptGood(c, g, {})
  BY <1>2, <1>4 DEF Good, KeptGood, RegisteredBut
<1>6. CountsGood(c, H) /\ PatchesGood(c)
  BY <1>2, <1>3 DEF Good, CountsGood, PatchesGood
<1>7. PairsGood(c.CPCache, c, g, {}) /\ PairsGood(c.FillPatchCache, c, g, {})
  BY <1>2 DEF Good, PairsGood, RegisteredBut
<1>8. QED  BY <1>2, <1>5, <1>6, <1>7 DEF Good, c

\* One object more in a table, under its two keys.
LEMMA PairMore ==
    ASSUME NEW table, NEW t, NEW g, PairsGood(table, t, g, {}),
           NEW o, t.BD_count[o.src] > 0, t.BD_count[o.dst] > 0,
           o.srcGrids = g[o.src], o.dstGrids = g[o.dst]
    PROVE  PairsGood(table \cup Under(o), t, g, {})
<1>1. \A p \in Under(o) : p.at \in {o.src, o.dst} /\ p.obj = o
  BY DEF Under
<1>2. SUFFICES ASSUME NEW p \in table \cup Under(o)
               PROVE  /\ p.at \in {p.obj.src, p.obj.dst}
                      /\ Under(p.obj) \subseteq table \cup Under(o)
                      /\ RegisteredBut(t, p.obj.src, {}) /\ RegisteredBut(t, p.obj.dst, {})
                      /\ p.obj.srcGrids = g[p.obj.src] /\ p.obj.dstGrids = g[p.obj.dst]
  BY DEF PairsGood
<1>3. CASE p \in table
  BY <1>3 DEF PairsGood
<1>4. CASE p \in Under(o)
  BY <1>1, <1>4 DEF RegisteredBut
<1>5. QED  BY <1>2, <1>3, <1>4

LEMMA CopyGood ==
    ASSUME NEW t, NEW H \in Holdings, NEW g, Good(t, H, g, {}),
           NEW o \in CPCs, H[o.src] > 0, H[o.dst] > 0,
           o.srcGrids = g[o.src], o.dstGrids = g[o.dst]
    PROVE  Good([t EXCEPT !.CPCache = @ \cup Under(o)], H, g, {})
<1> DEFINE c == [t EXCEPT !.CPCache = @ \cup Under(o)]
<1>1. t \in Tables /\ o.src \in Refs /\ o.dst \in Refs /\ \A j \in Refs : H[j] \in Nat
  BY DEF Good, Holdings, CPCs
<1>2. Under(o) \subseteq [at : Refs, obj : CPCs]
  BY <1>1 DEF Under
<1>3. /\ c \in Tables /\ c.kept = t.kept /\ c.CPCache = t.CPCache \cup Under(o)
      /\ c.FillPatchCache = t.FillPatchCache /\ c.BD_count = t.BD_count
  BY <1>1, <1>2 DEF Tables
<1> HIDE DEF c
<1>4. PatchRefs(c) = PatchRefs(t)
  BY <1>3 DEF PatchRefs
<1>5. t.BD_count[o.src] > 0 /\ t.BD_count[o.dst] > 0
  BY <1>1 DEF Good, CountsGood
<1>6. PairsGood(t.CPCache \cup Under(o), t, g, {})
  BY <1>5, PairMore DEF Good
<1>7. PairsGood(c.CPCache, c, g, {})
  BY <1>3, <1>6 DEF PairsGood, RegisteredBut
<1>8. PairsGood(c.FillPatchCache, c, g, {}) /\ KeptGood(c, g, {})
  BY <1>3 DEF Good, PairsGood, KeptGood, RegisteredBut
<1>9. CountsGood(c, H) /\ PatchesGood(c)
  BY <1>3, <1>4 DEF Good, CountsGood, PatchesGood
<1>10. QED  BY <1>3, <1>7, <1>8, <1>9 DEF Good, c

Filled(t, o) ==
    [t EXCEPT !.FillPatchCache = @ \cup Under(o),
              !.BD_count = [k \in Refs |-> IF k \in o.patch THEN @[k] + 1 ELSE @[k]]]

\* An FPinfo more, with patches that nobody held.
LEMMA FillGood ==
    ASSUME NEW t, NEW H \in Holdings, NEW g, Good(t, H, g, {}),
           NEW o \in FPinfos, H[o.src] > 0, H[o.dst] > 0,
           o.srcGrids = g[o.src], o.dstGrids = g[o.dst],
           o.src \notin PatchRefs(t), o.dst \notin PatchRefs(t),
           \A k \in o.patch : H[k] = 0 /\ k \notin PatchRefs(t),
           NEW c, c = Filled(t, o)
    PROVE  Good(c, H, g, {})
<1>1. t \in Tables /\ o.src \in Refs /\ o.dst \in Refs /\ \A j \in Refs : H[j] \in Nat
  BY DEF Good, Holdings, FPinfos
<1>2. Under(o) \subseteq [at : Refs, obj : FPinfos]
  BY <1>1 DEF Under
<1>3. t.BD_count \in [Refs -> Nat]
  BY <1>1 DEF Tables
<1>4. /\ c \in Tables /\ c.kept = t.kept /\ c.CPCache = t.CPCache
      /\ c.FillPatchCache = t.FillPatchCache \cup Under(o)
      /\ \A k \in Refs : c.BD_count[k] = t.BD_count[k] + (IF k \in o.patch THEN 1 ELSE 0)
  <2>1. PICK f : /\ f = [k \in Refs |-> IF k \in o.patch THEN t.BD_count[k] + 1 ELSE t.BD_count[k]]
                /\ c = [t EXCEPT !.FillPatchCache = @ \cup Under(o), !.BD_count = f]
    BY DEF Filled
  <2>2. f \in [Refs -> Nat] /\ \A k \in Refs : f[k] = t.BD_count[k] + (IF k \in o.patch THEN 1 ELSE 0)
    BY <1>3, <2>1
  <2>3. QED  BY <1>1, <1>2, <2>1, <2>2 DEF Tables
<1>5. Objects(c.FillPatchCache) = Objects(t.FillPatchCache) \cup {o}
  <2>1. Under(o) # {} /\ \A p \in Under(o) : p.obj = o
    BY DEF Under
  <2>2. QED  BY <1>4, <2>1 DEF Objects
<1>6. PatchRefs(c) = PatchRefs(t) \cup o.patch
  BY <1>5 DEF PatchRefs
<1>7. CountsGood(t, H)
  BY DEF Good
<1>8. CountsGood(c, H)
  BY <1>1, <1>4, <1>6, <1>7 DEF CountsGood
<1>9. \A k \in Refs : t.BD_count[k] > 0 => c.BD_count[k] > 0 /\ g[k] = g[k]
  BY <1>3, <1>4
<1>10. t.BD_count[o.src] > 0 /\ t.BD_count[o.dst] > 0
  BY <1>1, <1>7 DEF CountsGood
<1>11. KeptGood(c, g, {})
  BY <1>1, <1>4, <1>9, KeysAreRefs DEF Good, KeptGood, RegisteredBut
<1>12. PairsGood(c.CPCache, c, g, {})
  BY <1>1, <1>4, <1>9, KeysAreRefs, PairsMono DEF Good
<1>13. PairsGood(c.FillPatchCache, c, g, {})
  <2>1. PairsGood(t.FillPatchCache \cup Under(o), t, g, {})
    BY <1>10, PairMore DEF Good
  <2>2. \A p \in t.FillPatchCache \cup Under(o) : p.obj.src \in Refs /\ p.obj.dst \in Refs
    BY <1>4, KeysAreRefs
  <2>3. QED  BY <1>4, <1>9, <2>1, <2>2, PairsMono
<1>14. PatchesGood(c)
  <2>1. PatchesGood(t)
    BY DEF Good
  <2>2. \A o1 \in Objects(t.FillPatchCache) : o1.patch \cap o.patch = {}
    BY DEF PatchRefs
  <2>3. \A o1 \in Objects(t.FillPatchCache) : o1.src \notin o.patch /\ o1.dst \notin o.patch
    <3> SUFFICES ASSUME NEW o1 \in Objects(t.FillPatchCache)
                 PROVE  o1.src \notin o.patch /\ o1.dst \notin o.patch
      OBVIOUS
    <3>1. PICK p \in t.FillPatchCache : o1 = p.obj
      BY DEF Objects
    <3>2. t.BD_count[o1.src] > 0 /\ t.BD_count[o1.dst] > 0 /\ o1.src \in Refs /\ o1.dst \in Refs
      BY <1>1, <3>1, KeysAreRefs DEF Good, PairsGood, RegisteredBut
    <3>3. \A k \in Refs : k \in o.patch => t.BD_count[k] = 0
      BY <1>7 DEF CountsGood
    <3>4. QED  BY <3>2, <3>3
  <2>4. o.src \notin o.patch /\ o.dst \notin o.patch
    OBVIOUS
  <2>5. QED  BY <1>5, <1>6, <2>1, <2>2, <2>3, <2>4 DEF PatchesGood
<1>15. QED  BY <1>4, <1>8, <1>11, <1>12, <1>13, <1>14 DEF Good

-----------------------------------------------------------------------------
(***************************************************************************)
(* The inductive invariant                                                 *)
(***************************************************************************)
HolderCount == [k \in Refs |-> Cardinality(Holders(k))]

\* As if a were not registered.
Without(a) == [k \in Refs |-> Cardinality(Holders(k) \ {a})]

\* What is in use is kept, for arrays that hold its keys.
Flight ==
    /\ \A a \in Arrays : fbd[a] # NoFB =>
          fbd[a] \in tables.kept /\ defined[a] /\ fbd[a].key = m_bdkey[a]
    /\ \A o \in fpc.obj :
          /\ o \in Objects(tables.FillPatchCache)
          /\ \E a, b \in fpc.arrays :
                defined[a] /\ defined[b] /\ m_bdkey[a] = o.dst /\ m_bdkey[b] = o.src

IInv == TypeOK /\ Good(tables, HolderCount, grids, {}) /\ Flight

\* A key is held as long as some array holds it.
LEMMA HolderCounts ==
    /\ HolderCount \in Holdings
    /\ \A a \in Arrays : Without(a) \in Holdings
    /\ \A k \in Refs : \A b \in Holders(k) : HolderCount[k] > 0
    /\ \A a \in Arrays, k \in Refs : \A b \in Holders(k) \ {a} : Without(a)[k] > 0
<1>1. \A k \in Refs : IsFiniteSet(Holders(k)) /\ \A a \in Arrays : IsFiniteSet(Holders(k) \ {a})
  <2>1. \A k \in Refs : Holders(k) \subseteq Arrays
    BY DEF Holders
  <2>2. QED  BY <2>1, LayoutAssumption, FS_Subset
<1>2. \A k \in Refs : /\ Cardinality(Holders(k)) \in Nat
                      /\ \A b \in Holders(k) : Cardinality(Holders(k)) # 0
  BY <1>1, FS_CardinalityType, FS_EmptySet
<1>3. \A a \in Arrays, k \in Refs :
          /\ Cardinality(Holders(k) \ {a}) \in Nat
          /\ \A b \in Holders(k) \ {a} : Cardinality(Holders(k) \ {a}) # 0
  <2> SUFFICES ASSUME NEW a \in Arrays, NEW k \in Refs
               PROVE  /\ Cardinality(Holders(k) \ {a}) \in Nat
                      /\ \A b \in Holders(k) \ {a} : Cardinality(Holders(k) \ {a}) # 0
    OBVIOUS
  <2>1. IsFiniteSet(Holders(k) \ {a})
    BY <1>1
  <2>2. QED  BY <2>1, FS_CardinalityType, FS_EmptySet
<1>4. QED  BY <1>2, <1>3 DEF HolderCount, Without, Holdings

LEMMA CountWithout ==
    ASSUME NEW a \in Arrays, NEW k \in Refs
    PROVE  /\ a \in Holders(k) => HolderCount[k] = Without(a)[k] + 1
           /\ a \notin Holders(k) => HolderCount[k] = Without(a)[k]
<1>1. IsFiniteSet(Holders(k))
  <2>1. Holders(k) \subseteq Arrays
    BY DEF Holders
  <2>2. QED  BY <2>1, LayoutAssumption, FS_Subset
<1>2. ASSUME a \in Holders(k) PROVE Cardinality(Holders(k)) = Cardinality(Holders(k) \ {a}) + 1
  <2>1. Cardinality(Holders(k) \ {a}) = Cardinality(Holders(k)) - 1
    BY <1>1, <1>2, FS_RemoveElement
  <2>2. QED  BY <1>1, <2>1, FS_CardinalityType
<1>3. ASSUME a \notin Holders(k) PROVE Holders(k) \ {a} = Holders(k)
  BY <1>3
<1>4. QED  BY <1>2, <1>3 DEF HolderCount, Without

\* FabArray::clear, as far as the tables go.
LEMMA ClearedGood ==
    ASSUME IInv, NEW a \in Arrays
    PROVE  /\ Good(Cleared(a), Without(a), grids, {})
           /\ PatchRefs(Cleared(a)) \subseteq PatchRefs(tables)
           /\ \A e \in tables.kept : Without(a)[e.key] > 0 => e \in Cleared(a).kept
           /\ \A p \in tables.FillPatchCache :
                 Without(a)[p.obj.src] > 0 /\ Without(a)[p.obj.dst] > 0
                    => p \in Cleared(a).FillPatchCache
<1>1. CASE defined[a]
  <2> DEFINE k == m_bdkey[a]
  <2>1. k \in Refs
    BY <1>1 DEF IInv, TypeOK
  <2>2. \A j \in Refs : a \in Holders(j) <=> j = k
    BY <1>1 DEF Holders
  <2>3. HolderCount \in Holdings /\ Without(a) \in Holdings /\ HolderCount[k] > 0
    BY <2>1, <2>2, HolderCounts
  <2>4. Without(a) = [HolderCount EXCEPT ![k] = @ - 1]
    <3>1. \A j \in Refs : HolderCount[j] = Without(a)[j] + (IF j = k THEN 1 ELSE 0)
      BY <2>2, CountWithout, <2>3 DEF Holdings
    <3>2. QED  BY <2>3, <3>1 DEF Holdings
  <2>5. Cleared(a) = clearThisBD(tables, k)
    BY <1>1 DEF Cleared
  <2>6. Good(tables, HolderCount, grids, {})
    BY DEF IInv
  <2> HIDE DEF k
  <2>7. /\ Good(clearThisBD(tables, k), Without(a), grids, {})
        /\ PatchRefs(clearThisBD(tables, k)) \subseteq PatchRefs(tables)
        /\ \A e \in tables.kept : Without(a)[e.key] > 0 => e \in clearThisBD(tables, k).kept
        /\ \A p \in tables.FillPatchCache :
              Without(a)[p.obj.src] > 0 /\ Without(a)[p.obj.dst] > 0
                 => p \in clearThisBD(tables, k).FillPatchCache
    BY ONLY <2>1, <2>3, <2>4, <2>6, ClearGood, Zenon
  <2>8. QED  BY <2>5, <2>7
<1>2. CASE ~defined[a]
  <2>1. \A j \in Refs : a \notin Holders(j)
    BY <1>2 DEF Holders
  <2>2. Without(a) = HolderCount
    BY <2>1 DEF Without, HolderCount
  <2>3. QED  BY <1>2, <2>2 DEF Cleared, IInv
<1>3. QED  BY <1>1, <1>2

\* What is in use stays when a, which is not in the middle of anything, is cleared.
LEMMA FlightKept ==
    ASSUME IInv, NEW a \in Arrays, Free(a), NEW t, Retable(t), fpc' = fpc,
           \A e \in tables.kept : Without(a)[e.key] > 0 => e \in t.kept,
           \A p \in tables.FillPatchCache :
              Without(a)[p.obj.src] > 0 /\ Without(a)[p.obj.dst] > 0 => p \in t.FillPatchCache,
           \A c \in Arrays : ~Free(c) => defined'[c] = defined[c] /\ m_bdkey'[c] = m_bdkey[c]
    PROVE  Flight' /\ fbd' \in [Arrays -> Kept \cup {NoFB, Freed}]
<1>1. TypeOK /\ Flight
  BY DEF IInv
<1>2. \A c \in Arrays, k \in Refs :
         c # a /\ defined[c] /\ m_bdkey[c] = k => Without(a)[k] > 0
  BY HolderCounts DEF Holders
<1>3. tables' = t /\ \A c \in Arrays : fbd'[c] = IF fbd[c] \in t.kept \cup {NoFB} THEN fbd[c] ELSE Freed
  BY DEF Retable
<1>4. fbd' \in [Arrays -> Kept \cup {NoFB, Freed}]
  BY <1>1 DEF Retable, TypeOK
<1>5. ASSUME NEW c \in Arrays, fbd'[c] # NoFB
      PROVE  fbd'[c] \in t.kept /\ defined'[c] /\ fbd'[c].key = m_bdkey'[c]
  <2>1. fbd[c] # NoFB /\ ~Free(c) /\ c # a
    BY <1>3, <1>5 DEF Free
  <2>2. fbd[c] \in tables.kept /\ defined[c] /\ fbd[c].key = m_bdkey[c] /\ m_bdkey[c] \in Refs
    BY <1>1, <2>1 DEF Flight, TypeOK
  <2>3. fbd[c] \in t.kept
    BY <1>2, <2>1, <2>2
  <2>4. QED  BY <1>3, <2>1, <2>2, <2>3
<1>6. ASSUME NEW o \in fpc.obj
      PROVE  /\ o \in Objects(t.FillPatchCache)
             /\ \E c, b \in fpc.arrays :
                   defined'[c] /\ defined'[b] /\ m_bdkey'[c] = o.dst /\ m_bdkey'[b] = o.src
  <2>1. PICK c \in fpc.arrays, b \in fpc.arrays :
            defined[c] /\ defined[b] /\ m_bdkey[c] = o.dst /\ m_bdkey[b] = o.src
    BY <1>1 DEF Flight
  <2>2. c \in Arrays /\ b \in Arrays /\ ~Free(c) /\ ~Free(b) /\ c # a /\ b # a
    BY <1>1, <2>1 DEF TypeOK, Free
  <2>3. m_bdkey[c] \in Refs /\ m_bdkey[b] \in Refs
    BY <1>1, <2>1, <2>2 DEF TypeOK
  <2>4. Without(a)[o.dst] > 0 /\ Without(a)[o.src] > 0
    BY <1>2, <2>1, <2>2, <2>3
  <2>5. PICK p \in tables.FillPatchCache : p.obj = o
    BY <1>1 DEF Flight, Objects
  <2>6. p \in t.FillPatchCache
    BY <2>4, <2>5
  <2>7. QED  BY <2>1, <2>2, <2>5, <2>6 DEF Objects
<1>7. QED  BY <1>3, <1>4, <1>5, <1>6 DEF Flight

-----------------------------------------------------------------------------
(***************************************************************************)
(* The steps preserve the invariant                                        *)
(***************************************************************************)
LEMMA InitInv == Init => IInv
<1> SUFFICES ASSUME Init PROVE IInv
  OBVIOUS
<1>1. TypeOK
  BY LayoutAssumption DEF Init, TypeOK
<1>2. \A k \in Refs : HolderCount[k] = 0
  <2>1. \A k \in Refs : Holders(k) = {}
    BY DEF Init, Holders
  <2>2. QED  BY <2>1, FS_EmptySet DEF HolderCount
<1>3. PatchRefs(tables) = {} /\ Objects(tables.FillPatchCache) = {}
  BY DEF Init, PatchRefs, Objects
<1>4. CountsGood(tables, HolderCount)
  <2>1. \A k \in Refs : tables.BD_count[k] = 0
    BY DEF Init
  <2>2. QED  BY <1>2, <1>3, <2>1 DEF CountsGood
<1>5. Good(tables, HolderCount, grids, {})
  BY <1>1, <1>3, <1>4
     DEF TypeOK, Tables, Good, PatchesGood, KeptGood, PairsGood, Init
<1>6. Flight
  BY DEF Init, Flight
<1>7. QED  BY <1>1, <1>5, <1>6 DEF IInv

LEMMA HolderMore ==
    ASSUME NEW a \in Arrays, NEW r \in Refs, defined'[a], m_bdkey'[a] = r,
           \A c \in Arrays \ {a} : defined'[c] = defined[c] /\ m_bdkey'[c] = m_bdkey[c]
    PROVE  HolderCount' = [Without(a) EXCEPT ![r] = @ + 1]
<1>1. \A k \in Refs : IsFiniteSet(Holders(k) \ {a})
  <2>1. \A k \in Refs : Holders(k) \ {a} \subseteq Arrays
    BY DEF Holders
  <2>2. QED  BY <2>1, LayoutAssumption, FS_Subset
<1>2. \A k \in Refs : Holders(k)' = IF k = r THEN (Holders(k) \ {a}) \cup {a} ELSE Holders(k) \ {a}
  BY DEF Holders
<1>3. \A k \in Refs : Cardinality((Holders(k) \ {a}) \cup {a}) = Cardinality(Holders(k) \ {a}) + 1
  BY <1>1, FS_AddElement
<1>4. \A k \in Refs : Cardinality(Holders(k)')
                      = IF k = r THEN Cardinality(Holders(k) \ {a}) + 1 ELSE Cardinality(Holders(k) \ {a})
  BY <1>2, <1>3
<1>5. QED  BY <1>4 DEF HolderCount, Without

LEMMA NobodyElse ==
    ASSUME IInv, NEW a \in Arrays, NEW r \in Refs, \A b \in Arrays \ {a} : ref[b] # r
    PROVE  Without(a)[r] = 0
<1>1. Holders(r) \ {a} = {}
  BY DEF IInv, TypeOK, Holders
<1>2. QED  BY <1>1, FS_EmptySet DEF Without

\* define and shift: a lets its key go and registers with r, where the layout may be new.
LEMMA Reregister ==
    ASSUME IInv, NEW a \in Arrays, Free(a), NEW r \in Refs,
           Retable(addThisBD(Cleared(a), r)),
           \/ grids' = grids
           \/ \E l \in Layouts :
                 /\ grids' = [grids EXCEPT ![r] = l]
                 /\ \A b \in Arrays \ {a} : ref[b] # r
                 /\ r \notin PatchRefs(Cleared(a)),
           defined' = [defined EXCEPT ![a] = TRUE],
           ref' = [ref EXCEPT ![a] = r],
           m_bdkey' = [m_bdkey EXCEPT ![a] = r],
           view' \in [Arrays -> Views],
           fpc' = fpc
    PROVE  IInv'
<1> DEFINE t == Cleared(a)
           c == addThisBD(t, r)
<1>1. Good(t, Without(a), grids, {}) /\ Without(a) \in Holdings
  BY ClearedGood, HolderCounts
<1>2. TypeOK
  BY DEF IInv
<1>3. Good(t, Without(a), grids', {})
  <2>1. CASE grids' = grids
    BY <1>1, <2>1
  <2>2. CASE grids' # grids
    <3>1. PICK l \in Layouts : /\ grids' = [grids EXCEPT ![r] = l]
                               /\ \A b \in Arrays \ {a} : ref[b] # r
                               /\ r \notin PatchRefs(t)
      BY <2>2
    <3>2. Without(a)[r] = 0
      BY <3>1, NobodyElse
    <3>3. \A k \in Refs : Without(a)[k] > 0 \/ k \in PatchRefs(t) => grids'[k] = grids[k]
      BY <1>2, <3>1, <3>2 DEF TypeOK
    <3> HIDE DEF t
    <3>4. QED  BY ONLY <1>1, <3>3, GroundGood, Zenon
  <2>3. QED  BY <2>1, <2>2
<1>4. HolderCount' = [Without(a) EXCEPT ![r] = @ + 1]
  BY <1>2, HolderMore DEF TypeOK
<1>5. Good(c, HolderCount', grids', {}) /\ c.kept = t.kept /\ c.FillPatchCache = t.FillPatchCache
  <2> HIDE DEF t
  <2>1. QED  BY ONLY <1>1, <1>3, <1>4, r \in Refs, AddGood, Zenon DEF c
<1>6. tables' = c
  BY DEF Retable
<1>7. Flight' /\ fbd' \in [Arrays -> Kept \cup {NoFB, Freed}]
  <2>1. \A e \in tables.kept : Without(a)[e.key] > 0 => e \in c.kept
    BY <1>5, ClearedGood
  <2>2. \A p \in tables.FillPatchCache :
           Without(a)[p.obj.src] > 0 /\ Without(a)[p.obj.dst] > 0 => p \in c.FillPatchCache
    BY <1>5, ClearedGood
  <2>3. \A d \in Arrays : ~Free(d) => defined'[d] = defined[d] /\ m_bdkey'[d] = m_bdkey[d]
    BY <1>2 DEF TypeOK
  <2>4. Retable(c)
    OBVIOUS
  <2> HIDE DEF c
  <2>5. QED  BY <2>1, <2>2, <2>3, <2>4, FlightKept
<1>8. TypeOK'
  <2>1. c \in Tables
    BY <1>5 DEF Good
  <2>2. grids' \in [Refs -> Layouts]
    BY <1>2 DEF TypeOK
  <2>3. /\ ref' \in [Arrays -> Refs \cup {NoRef}] /\ defined' \in [Arrays -> BOOLEAN]
        /\ m_bdkey' = ref' /\ fpc' \in [arrays : SUBSET Arrays, obj : SUBSET FPinfos]
    BY <1>2 DEF TypeOK
  <2>4. \A b \in Arrays : defined'[b] <=> ref'[b] \in Refs
    BY <1>2 DEF TypeOK
  <2> HIDE DEF c
  <2>5. QED  BY <1>6, <1>7, <2>1, <2>2, <2>3, <2>4 DEF TypeOK, Tables
<1>9. QED  BY <1>5, <1>6, <1>7, <1>8 DEF IInv

LEMMA DefineInv ==
    ASSUME IInv, NEW a \in Arrays, NEW r \in Refs, NEW v \in Views, Define(a, r, v)
    PROVE  IInv'
<1>1. TypeOK
  BY DEF IInv
<1>2. \/ grids' = grids
      \/ \E l \in Layouts :
            /\ grids' = [grids EXCEPT ![r] = l]
            /\ \A b \in Arrays \ {a} : ref[b] # r
            /\ r \notin PatchRefs(Cleared(a))
  BY ClearedGood DEF Define, Allocate, Held
<1>3. view' \in [Arrays -> Views]
  BY <1>1 DEF Define, TypeOK
<1>4. QED
  BY <1>2, <1>3, Reregister DEF Define

LEMMA shiftInv ==
    ASSUME IInv, NEW a \in Arrays, shift(a)
    PROVE  IInv'
<1> DEFINE t == clearThisBD(tables, m_bdkey[a])
           shared == (\E b \in Arrays \ {a} : ref[b] = ref[a]) \/ ref[a] \in PatchRefs(t)
<1>1. TypeOK
  BY DEF IInv
<1>2. defined[a] /\ Free(a) /\ t = Cleared(a)
  BY DEF shift, Cleared
<1>3. PICK r \in Refs, l \in Layouts :
          /\ \/ r = ref[a] /\ ~shared /\ grids' = [grids EXCEPT ![r] = l]
             \/ Allocate(r, l)
          /\ Retable(addThisBD(t, r))
          /\ ref' = [ref EXCEPT ![a] = r]
          /\ m_bdkey' = [m_bdkey EXCEPT ![a] = r]
  BY DEF shift
<1>4. /\ grids' = [grids EXCEPT ![r] = l]
      /\ \A b \in Arrays \ {a} : ref[b] # r
      /\ r \notin PatchRefs(Cleared(a))
  <2>1. CASE r = ref[a] /\ ~shared /\ grids' = [grids EXCEPT ![r] = l]
    BY <1>2, <2>1
  <2>2. CASE Allocate(r, l)
    BY <2>2, ClearedGood DEF Allocate, Held
  <2>3. QED  BY <1>3, <2>1, <2>2
<1>5. view' \in [Arrays -> Views] /\ defined' = [defined EXCEPT ![a] = TRUE] /\ fpc' = fpc
  BY <1>1, <1>2, LayoutAssumption DEF shift, TypeOK
<1> HIDE DEF t
<1>6. QED
  BY <1>2, <1>3, <1>4, <1>5, Reregister

\* Clear, and the array that takes over.
LEMMA ClearInv ==
    ASSUME IInv, NEW a \in Arrays, Clear(a)
    PROVE  IInv'
<1> DEFINE t == Cleared(a)
<1>1. TypeOK /\ Free(a)
  BY DEF IInv, Clear
<1>2. Good(t, Without(a), grids, {})
  BY ClearedGood
<1>3. HolderCount' = Without(a)
  <2>1. \A k \in Refs : Holders(k)' = Holders(k) \ {a}
    BY <1>1 DEF Clear, TypeOK, Holders
  <2>2. QED  BY <2>1 DEF HolderCount, Without
<1>4. Flight' /\ fbd' \in [Arrays -> Kept \cup {NoFB, Freed}]
  <2>1. \A d \in Arrays : ~Free(d) => defined'[d] = defined[d] /\ m_bdkey'[d] = m_bdkey[d]
    BY <1>1 DEF TypeOK, Clear
  <2>2. Retable(t) /\ fpc' = fpc
    BY DEF Clear
  <2>3. /\ \A e \in tables.kept : Without(a)[e.key] > 0 => e \in t.kept
        /\ \A p \in tables.FillPatchCache :
              Without(a)[p.obj.src] > 0 /\ Without(a)[p.obj.dst] > 0 => p \in t.FillPatchCache
    BY ClearedGood
  <2> HIDE DEF t
  <2>4. QED  BY <1>1, <2>1, <2>2, <2>3, FlightKept
<1>5. tables' = t /\ grids' = grids
  BY DEF Clear, Retable
<1>6. TypeOK'
  <2>1. t \in Tables
    BY <1>2 DEF Good
  <2>2. /\ ref' \in [Arrays -> Refs \cup {NoRef}] /\ defined' \in [Arrays -> BOOLEAN]
        /\ m_bdkey' = ref' /\ fpc' \in [arrays : SUBSET Arrays, obj : SUBSET FPinfos]
        /\ view' \in [Arrays -> Views] /\ grids' \in [Refs -> Layouts]
    BY <1>1, LayoutAssumption DEF TypeOK, Clear
  <2>3. \A b \in Arrays : defined'[b] <=> ref'[b] \in Refs
    BY <1>1, LayoutAssumption DEF TypeOK, Clear
  <2> HIDE DEF t
  <2>4. QED  BY <1>4, <1>5, <2>1, <2>2, <2>3 DEF TypeOK, Tables
<1>7. QED  BY <1>2, <1>3, <1>4, <1>5, <1>6 DEF IInv

LEMMA MoveInv ==
    ASSUME IInv, NEW a \in Arrays, NEW b \in Arrays, Move(a, b)
    PROVE  IInv'
<1> DEFINE t == Cleared(a)
<1>1. TypeOK /\ Free(a) /\ Free(b) /\ a # b
  BY DEF IInv, Move
<1>2. Good(t, Without(a), grids, {})
  BY ClearedGood
\* One holder in place of another.
<1>3. HolderCount' = Without(a)
  <2>1. \A k \in Refs : Cardinality(Holders(k)') = Cardinality(Holders(k) \ {a})
    <3> SUFFICES ASSUME NEW k \in Refs
                 PROVE  Cardinality(Holders(k)') = Cardinality(Holders(k) \ {a})
      OBVIOUS
    <3> DEFINE rest == (Holders(k) \ {a}) \ {b}
    <3>1. IsFiniteSet(rest) /\ IsFiniteSet(Holders(k) \ {a})
      <4>1. Holders(k) \subseteq Arrays
        BY DEF Holders
      <4>2. QED  BY <4>1, LayoutAssumption, FS_Subset
    <3>2. CASE b \in Holders(k)
      <4>1. Holders(k)' = rest \cup {a} /\ Holders(k) \ {a} = rest \cup {b}
        BY <1>1, <3>2 DEF Move, TypeOK, Holders
      <4>2. a \notin rest /\ b \notin rest
        OBVIOUS
      <4> HIDE DEF rest
      <4>3. Cardinality(rest \cup {a}) = Cardinality(rest) + 1
        BY <3>1, <4>2, FS_AddElement
      <4>4. Cardinality(rest \cup {b}) = Cardinality(rest) + 1
        BY <3>1, <4>2, FS_AddElement
      <4>5. QED  BY <4>1, <4>3, <4>4
    <3>3. CASE b \notin Holders(k)
      <4>1. Holders(k)' = Holders(k) \ {a}
        BY <1>1, <3>3 DEF Move, TypeOK, Holders
      <4>2. QED  BY <4>1
    <3>4. QED  BY <3>2, <3>3
  <2>2. QED  BY <2>1 DEF HolderCount, Without
<1>4. Flight' /\ fbd' \in [Arrays -> Kept \cup {NoFB, Freed}]
  <2>1. \A d \in Arrays : ~Free(d) => defined'[d] = defined[d] /\ m_bdkey'[d] = m_bdkey[d]
    BY <1>1 DEF TypeOK, Move
  <2>2. Retable(t) /\ fpc' = fpc
    BY DEF Move
  <2>3. /\ \A e \in tables.kept : Without(a)[e.key] > 0 => e \in t.kept
        /\ \A p \in tables.FillPatchCache :
              Without(a)[p.obj.src] > 0 /\ Without(a)[p.obj.dst] > 0 => p \in t.FillPatchCache
    BY ClearedGood
  <2> HIDE DEF t
  <2>4. QED  BY <1>1, <2>1, <2>2, <2>3, FlightKept
<1>5. tables' = t /\ grids' = grids
  BY DEF Move, Retable
<1>6. TypeOK'
  <2>1. t \in Tables
    BY <1>2 DEF Good
  <2>2. /\ ref' \in [Arrays -> Refs \cup {NoRef}] /\ defined' \in [Arrays -> BOOLEAN]
        /\ m_bdkey' = ref' /\ fpc' \in [arrays : SUBSET Arrays, obj : SUBSET FPinfos]
        /\ view' \in [Arrays -> Views] /\ grids' \in [Refs -> Layouts]
    BY <1>1, LayoutAssumption DEF TypeOK, Move
  <2>3. \A c \in Arrays : defined'[c] <=> ref'[c] \in Refs
    BY <1>1, LayoutAssumption DEF TypeOK, Move
  <2> HIDE DEF t
  <2>4. QED  BY <1>4, <1>5, <2>1, <2>2, <2>3 DEF TypeOK, Tables
<1>7. QED  BY <1>2, <1>3, <1>4, <1>5, <1>6 DEF IInv

\* What is left to show when no array changes its registration.
LEMMA SameHolders ==
    ASSUME defined' = defined, m_bdkey' = m_bdkey
    PROVE  HolderCount' = HolderCount
  BY DEF HolderCount, Holders

LEMMA coarsenInv ==
    ASSUME IInv, NEW a \in Arrays, NEW v \in Views, coarsen(a, v)
    PROVE  IInv'
<1>1. TypeOK'
  BY DEF IInv, TypeOK, coarsen
<1>2. Good(tables', HolderCount', grids', {})
  BY SameHolders DEF IInv, coarsen
<1>3. Flight'
  BY DEF IInv, Flight, coarsen
<1>4. QED  BY <1>1, <1>2, <1>3 DEF IInv

\* getTileArray and FillBoundary_nowait.
LEMMA GetInv ==
    ASSUME IInv, NEW a \in Arrays, NEW kind \in Kinds, defined[a],
           NEW e \in Hits(kind, a) \cup {NewPattern(kind, a)}, Get(kind, a, e),
           UNCHANGED <<grids, defined, m_bdkey>>
    PROVE  /\ tables' \in Tables /\ Good(tables', HolderCount', grids', {})
           /\ tables.kept \subseteq tables'.kept /\ tables'.FillPatchCache = tables.FillPatchCache
           /\ e \in Kept /\ e \in tables'.kept /\ e.key = m_bdkey[a]
<1>1. TypeOK /\ Good(tables, HolderCount, grids, {}) /\ HolderCount' = HolderCount
  BY SameHolders DEF IInv
<1>2. m_bdkey[a] \in Refs /\ ref[a] = m_bdkey[a] /\ HolderCount[m_bdkey[a]] > 0 /\ HolderCount \in Holdings
  BY <1>1, HolderCounts DEF TypeOK, Holders
<1>3. CASE e \in Hits(kind, a) /\ UNCHANGED tables
  BY <1>1, <1>3 DEF Good, Hits, Tables
<1>4. CASE e = NewPattern(kind, a) /\ tables' = [tables EXCEPT !.kept = @ \cup {e}]
  <2>1. e \in Kept /\ e.key = m_bdkey[a] /\ e.grids = grids[e.key]
    BY <1>1, <1>2, <1>4 DEF NewPattern, Pattern, Kept, TypeOK
  <2>2. tables \in Tables
    BY <1>1 DEF Good
  <2>3. Good(tables', HolderCount, grids, {})
    <3>1. HolderCount[e.key] > 0
      BY <1>2, <2>1
    <3>2. Good([tables EXCEPT !.kept = @ \cup {e}], HolderCount, grids, {})
      BY ONLY <1>1, <1>2, <2>1, <3>1, KeepGood, Zenon
    <3>3. QED  BY <1>4, <3>2
  <2>4. /\ tables'.kept = tables.kept \cup {e}
        /\ tables'.FillPatchCache = tables.FillPatchCache
    BY <1>4, <2>2 DEF Tables
  <2>5. QED  BY <1>1, <2>1, <2>3, <2>4 DEF Good
<1>5. QED  BY <1>3, <1>4 DEF Get

LEMMA getTileArrayInv ==
    ASSUME IInv, NEW a \in Arrays, getTileArray(a)
    PROVE  IInv'
<1>1. PICK e \in Hits("TileArray", a) \cup {NewPattern("TileArray", a)} : Get("TileArray", a, e)
  BY DEF getTileArray
<1>2. defined[a] /\ UNCHANGED <<grids, ref, view, defined, m_bdkey, fbd, fpc>>
  BY DEF getTileArray
<1>3. /\ tables' \in Tables /\ Good(tables', HolderCount', grids', {})
      /\ tables.kept \subseteq tables'.kept /\ tables'.FillPatchCache = tables.FillPatchCache
  BY <1>1, <1>2, GetInv DEF Kinds
<1>4. TypeOK'
  BY <1>2, <1>3 DEF IInv, TypeOK, Tables
<1>5. Flight'
  BY <1>2, <1>3 DEF IInv, Flight
<1>6. QED  BY <1>3, <1>4, <1>5 DEF IInv

LEMMA nowaitInv ==
    ASSUME IInv, NEW a \in Arrays, FillBoundary_nowait(a)
    PROVE  IInv'
<1>1. PICK e \in Hits("FB", a) \cup {NewPattern("FB", a)} :
          Get("FB", a, e) /\ fbd' = [fbd EXCEPT ![a] = e]
  BY DEF FillBoundary_nowait
<1>2. defined[a] /\ UNCHANGED <<grids, ref, view, defined, m_bdkey, fpc>>
  BY DEF FillBoundary_nowait
<1>3. /\ tables' \in Tables /\ Good(tables', HolderCount', grids', {})
      /\ tables.kept \subseteq tables'.kept /\ tables'.FillPatchCache = tables.FillPatchCache
      /\ e \in Kept /\ e \in tables'.kept /\ e.key = m_bdkey[a]
  BY <1>1, <1>2, GetInv DEF Kinds
<1>4. TypeOK'
  BY <1>1, <1>2, <1>3 DEF IInv, TypeOK, Tables
<1>5. Flight'
  BY <1>1, <1>2, <1>3 DEF IInv, TypeOK, Flight
<1>6. QED  BY <1>3, <1>4, <1>5 DEF IInv

LEMMA finishInv ==
    ASSUME IInv, NEW a \in Arrays, FillBoundary_finish(a)
    PROVE  IInv'
<1>1. TypeOK'
  BY DEF IInv, TypeOK, FillBoundary_finish
<1>2. Good(tables', HolderCount', grids', {})
  BY SameHolders DEF IInv, FillBoundary_finish
<1>3. Flight'
  BY DEF IInv, TypeOK, Flight, FillBoundary_finish
<1>4. QED  BY <1>1, <1>2, <1>3 DEF IInv

LEMMA ParallelCopyInv ==
    ASSUME IInv, NEW a \in Arrays, NEW b \in Arrays, ParallelCopy(a, b)
    PROVE  IInv'
<1> DEFINE o == NewCPC(a, b)
<1>1. TypeOK /\ Good(tables, HolderCount, grids, {}) /\ defined[a] /\ defined[b]
  BY DEF IInv, ParallelCopy
<1>2. HolderCount' = HolderCount /\ HolderCount \in Holdings
  BY SameHolders, HolderCounts DEF ParallelCopy
<1>3. /\ o \in CPCs /\ o.src = m_bdkey[b] /\ o.dst = m_bdkey[a]
      /\ o.srcGrids = grids[o.src] /\ o.dstGrids = grids[o.dst]
  BY <1>1 DEF NewCPC, Pair, CPCs, TypeOK
<1> HIDE DEF o
<1>4. HolderCount[o.src] > 0 /\ HolderCount[o.dst] > 0
  BY <1>1, <1>3, HolderCounts DEF TypeOK, Holders
<1>5. Good([tables EXCEPT !.CPCache = @ \cup Under(o)], HolderCount, grids, {})
  BY ONLY <1>1, <1>2, <1>3, <1>4, CopyGood, Zenon
<1>6. tables' = [tables EXCEPT !.CPCache = @ \cup Under(o)] /\ grids' = grids
  BY DEF ParallelCopy, o
<1>7. tables'.kept = tables.kept /\ tables'.FillPatchCache = tables.FillPatchCache
  BY <1>1, <1>6 DEF TypeOK
<1>8. TypeOK'
  BY <1>1, <1>5, <1>6 DEF Good, Tables, TypeOK, ParallelCopy
<1>9. Flight'
  BY <1>7 DEF IInv, Flight, ParallelCopy
<1>10. QED  BY <1>2, <1>5, <1>6, <1>8, <1>9 DEF IInv

LEMMA FillPatchInv ==
    ASSUME IInv, NEW a \in Arrays, NEW b \in Arrays, NEW s \in Spaces, FillPatch(a, b, s)
    PROVE  IInv'
<1>1. TypeOK /\ Good(tables, HolderCount, grids, {})
  BY DEF IInv
<1>2. /\ defined[a] /\ defined[b] /\ m_bdkey[a] \in Refs /\ m_bdkey[b] \in Refs
      /\ m_bdkey[a] \notin PatchRefs(tables) /\ m_bdkey[b] \notin PatchRefs(tables)
      /\ ref = m_bdkey
  BY <1>1 DEF FillPatch, CanFill, TypeOK
<1>3. PICK P \in SUBSET {r \in Refs : ~Held(r)} :
          /\ \E g \in [P -> Layouts] :
                grids' = [r \in Refs |-> IF r \in P THEN g[r] ELSE grids[r]]
          /\ tables' = [tables EXCEPT
                          !.FillPatchCache = @ \cup Under(NewFPinfo(a, b, s, P)),
                          !.BD_count = [k \in Refs |-> IF k \in P THEN @[k] + 1 ELSE @[k]]]
          /\ UseFPinfo(a, b, NewFPinfo(a, b, s, P))
  BY DEF FillPatch
<1> DEFINE o == NewFPinfo(a, b, s, P)
<1>4. /\ o \in FPinfos /\ o.src = m_bdkey[b] /\ o.dst = m_bdkey[a] /\ o.patch = P
      /\ o.srcGrids = grids[o.src] /\ o.dstGrids = grids[o.dst]
  BY <1>1, <1>2 DEF NewFPinfo, FPinfos, TypeOK
<1>5. tables' = Filled(tables, o)
  BY <1>3, <1>4 DEF Filled
<1>6. UseFPinfo(a, b, o)
  BY <1>3
<1> HIDE DEF o
<1>7. HolderCount' = HolderCount /\ HolderCount \in Holdings
  BY SameHolders, HolderCounts DEF FillPatch
<1>8. HolderCount[o.src] > 0 /\ HolderCount[o.dst] > 0
  BY <1>2, <1>4, HolderCounts DEF Holders
<1>9. \A k \in P : HolderCount[k] = 0 /\ k \notin PatchRefs(tables)
  <2>1. \A k \in P : Holders(k) = {} /\ k \notin PatchRefs(tables) /\ k \in Refs
    BY <1>1 DEF Held, Holders, TypeOK
  <2>2. QED  BY <2>1, FS_EmptySet DEF HolderCount
<1>10. /\ \A k \in Refs : HolderCount[k] > 0 \/ k \in PatchRefs(tables) => grids'[k] = grids[k]
       /\ grids' \in [Refs -> Layouts]
  BY <1>1, <1>3, <1>9 DEF TypeOK
<1>11. Good(tables, HolderCount, grids', {})
  BY ONLY <1>1, <1>7, <1>10, GroundGood, Zenon
<1>12. o.srcGrids = grids'[o.src] /\ o.dstGrids = grids'[o.dst] /\ o.src \in Refs /\ o.dst \in Refs
  BY <1>2, <1>4, <1>8, <1>10
<1>13. Good(tables', HolderCount, grids', {})
  <2>1. o.src \notin PatchRefs(tables) /\ o.dst \notin PatchRefs(tables)
    BY <1>2, <1>4
  <2>2. \A k \in o.patch : HolderCount[k] = 0 /\ k \notin PatchRefs(tables)
    BY <1>4, <1>9
  <2>3. QED  BY ONLY <1>4, <1>5, <1>7, <1>8, <1>11, <1>12, <2>1, <2>2, FillGood, Zenon
<1>14. /\ tables' \in Tables /\ tables'.kept = tables.kept
       /\ tables'.FillPatchCache = tables.FillPatchCache \cup Under(o)
  BY <1>1, <1>5, <1>13 DEF Good, Filled, TypeOK
<1>15. fpc' = [arrays |-> {a, b}, obj |-> {o}] /\ UNCHANGED <<ref, view, defined, m_bdkey, fbd>>
  BY <1>6 DEF UseFPinfo, FillPatch
<1>16. TypeOK'
  BY <1>1, <1>4, <1>10, <1>14, <1>15 DEF Tables, TypeOK
<1>17. Flight'
  <2>1. o \in Objects(tables'.FillPatchCache)
    BY <1>14 DEF Objects, Under
  <2>2. QED  BY <1>2, <1>4, <1>14, <1>15, <2>1 DEF IInv, Flight
<1>18. QED  BY <1>7, <1>13, <1>16, <1>17 DEF IInv

LEMMA FillPatchAgainInv ==
    ASSUME IInv, NEW a \in Arrays, NEW b \in Arrays, NEW s \in Spaces, FillPatchAgain(a, b, s)
    PROVE  IInv'
<1>1. PICK o \in FPinfoHits(a, b, s) : UseFPinfo(a, b, o)
  BY DEF FillPatchAgain
<1>2. /\ defined[a] /\ defined[b]
      /\ UNCHANGED <<grids, ref, view, defined, m_bdkey, tables, fbd>>
  BY DEF FillPatchAgain, CanFill
<1>3. o \in Objects(tables.FillPatchCache) /\ o.src = m_bdkey[b] /\ o.dst = m_bdkey[a]
  BY DEF FPinfoHits, Objects
<1>4. o \in FPinfos
  BY <1>3 DEF IInv, TypeOK, Objects
<1>5. TypeOK'
  BY <1>1, <1>2, <1>4 DEF IInv, TypeOK, UseFPinfo
<1>6. Good(tables', HolderCount', grids', {})
  BY <1>2, SameHolders DEF IInv
<1>7. Flight'
  BY <1>1, <1>2, <1>3 DEF IInv, Flight, UseFPinfo
<1>8. QED  BY <1>5, <1>6, <1>7 DEF IInv

LEMMA FillPatchEndInv ==
    ASSUME IInv, FillPatchEnd
    PROVE  IInv'
<1>1. TypeOK'
  BY DEF IInv, TypeOK, FillPatchEnd
<1>2. Good(tables', HolderCount', grids', {})
  BY SameHolders DEF IInv, FillPatchEnd
<1>3. Flight'
  BY DEF IInv, Flight, FillPatchEnd
<1>4. QED  BY <1>1, <1>2, <1>3 DEF IInv

LEMMA flushIndexSpaceInv ==
    ASSUME IInv, NEW s \in Spaces, flushIndexSpace(s)
    PROVE  IInv'
<1> DEFINE dead == {o \in Objects(tables.FillPatchCache) : o.space = s}
           t == Destroy(tables, dead)
<1>1. TypeOK /\ Good(tables, HolderCount, grids, {}) /\ Flight /\ fpc.obj = {}
  BY DEF IInv, flushIndexSpace
<1>2. Retable(t) /\ UNCHANGED <<grids, ref, view, defined, m_bdkey, fpc>>
  BY DEF flushIndexSpace
<1>3. HolderCount' = HolderCount /\ HolderCount \in Holdings
  BY <1>2, SameHolders, HolderCounts
<1>4. /\ Good(t, HolderCount, grids, {})
      /\ \A e \in tables.kept : HolderCount[e.key] > 0 => e \in t.kept
  <2>1. dead \in SUBSET Objects(tables.FillPatchCache) /\ {} \in SUBSET Refs
    OBVIOUS
  <2> HIDE DEF dead
  <2>2. QED  BY ONLY <1>1, <1>3, <2>1, DestroyGood, Zenon DEF t
<1> HIDE DEF t
<1>5. tables' = t /\ \A c \in Arrays : fbd'[c] = IF fbd[c] \in t.kept \cup {NoFB} THEN fbd[c] ELSE Freed
  BY <1>2 DEF Retable
<1>6. fbd' \in [Arrays -> Kept \cup {NoFB, Freed}]
  BY <1>1, <1>2 DEF Retable, TypeOK
<1>7. TypeOK'
  BY <1>1, <1>2, <1>4, <1>5, <1>6 DEF TypeOK, Good, Tables
<1>8. Flight'
  <2>1. \A c \in Arrays : fbd[c] # NoFB => HolderCount[fbd[c].key] > 0
    BY <1>1, HolderCounts DEF Flight, TypeOK, Holders
  <2>2. QED  BY <1>1, <1>2, <1>4, <1>5, <2>1 DEF Flight
<1>9. QED  BY <1>2, <1>3, <1>4, <1>5, <1>7, <1>8 DEF IInv

LEMMA NextInv == IInv /\ [Next]_vars => IInv'
<1> SUFFICES ASSUME IInv, [Next]_vars PROVE IInv'
  OBVIOUS
<1>1. CASE UNCHANGED vars
  <2>1. HolderCount' = HolderCount
    BY <1>1, SameHolders DEF vars
  <2>2. QED  BY <1>1, <2>1 DEF vars, IInv, TypeOK, Flight
<1>2. ASSUME NEW a \in Arrays,
             \/ Clear(a) \/ shift(a)
             \/ \E v \in Views : coarsen(a, v) \/ \E r \in Refs : Define(a, r, v)
             \/ getTileArray(a) \/ FillBoundary_nowait(a) \/ FillBoundary_finish(a)
      PROVE  IInv'
  BY <1>2, ClearInv, shiftInv, coarsenInv, DefineInv, getTileArrayInv, nowaitInv, finishInv
<1>3. ASSUME NEW a \in Arrays, NEW b \in Arrays,
             \/ Move(a, b) \/ ParallelCopy(a, b)
             \/ \E s \in Spaces : FillPatch(a, b, s) \/ FillPatchAgain(a, b, s)
      PROVE  IInv'
  BY <1>3, MoveInv, ParallelCopyInv, FillPatchInv, FillPatchAgainInv
<1>4. CASE FillPatchEnd
  BY <1>4, FillPatchEndInv
<1>5. CASE \E s \in Spaces : flushIndexSpace(s)
  BY <1>5, flushIndexSpaceInv
<1>6. QED  BY <1>1, <1>2, <1>3, <1>4, <1>5 DEF Next

THEOREM Invariance == Spec => []IInv
  BY InitInv, NextInv, PTL DEF Spec

-----------------------------------------------------------------------------
(***************************************************************************)
(* What follows                                                            *)
(***************************************************************************)
\* Whatever the program does with its arrays, an array that is defined is registered
\* with the layout it has (define, clear, shift, the moves).
THEOREM TypeCorrect == Spec => []TypeOK
  BY Invariance, PTL DEF IInv

LEMMA InvCounted == IInv => Counted
<1> SUFFICES ASSUME IInv PROVE Counted
  OBVIOUS
<1>1. Good(tables, HolderCount, grids, {})
  BY DEF IInv
<1>2. \A k \in Refs :
        tables.BD_count[k] = Cardinality(Holders(k)) + (IF k \in PatchRefs(tables) THEN 1 ELSE 0)
  BY <1>1 DEF Good, CountsGood, HolderCount
<1>3. QED
  BY <1>1, <1>2 DEF Counted, Good, KeptGood, PairsGood, RegisteredBut, Registered

\* m_BD_count counts the objects that are registered, and the last of them to go takes
\* with it all that is kept for its layout, under either key (clearThisBD).
THEOREM CountedAlways == Spec => []Counted
  BY Invariance, InvCounted, PTL

LEMMA InvHitsRight == IInv => HitsRight
<1> SUFFICES ASSUME IInv, NEW a \in Arrays, defined[a]
             PROVE  /\ \A kind \in Kinds : \A e \in Hits(kind, a) :
                          e.grids = grids[ref[a]] /\ e.view.ratio = view[a].ratio
                    /\ \A e \in Hits("FB", a) : e = NewPattern("FB", a)
                    /\ \A b \in {c \in Arrays : defined[c]} :
                          /\ \A o \in CPCHits(a, b) : SameGrids(o, a, b)
                          /\ \A s \in Spaces : \A o \in FPinfoHits(a, b, s) : SameGrids(o, a, b)
  BY DEF HitsRight
<1>1. TypeOK /\ Good(tables, HolderCount, grids, {}) /\ ref = m_bdkey
  BY DEF IInv, TypeOK
<1>2. \A kind \in Kinds : \A e \in Hits(kind, a) :
         /\ e.kind = kind /\ e.key = m_bdkey[a] /\ e \in Kept
         /\ e.grids = grids[ref[a]] /\ e.view.ratio = view[a].ratio
         /\ kind # "TileArray" => e.view.typ = view[a].typ
  BY <1>1 DEF Good, KeptGood, Hits, Fits, TypeOK
<1>3. ASSUME NEW b \in Arrays, NEW o \in CPCHits(a, b) PROVE SameGrids(o, a, b)
  <2>1. PICK p \in tables.CPCache : p.obj = o /\ o.src = m_bdkey[b] /\ o.dst = m_bdkey[a]
    BY DEF CPCHits, Objects
  <2>2. QED  BY <1>1, <2>1 DEF Good, PairsGood, SameGrids
<1>4. ASSUME NEW b \in Arrays, NEW s \in Spaces, NEW o \in FPinfoHits(a, b, s)
      PROVE  SameGrids(o, a, b)
  <2>1. PICK p \in tables.FillPatchCache : p.obj = o /\ o.src = m_bdkey[b] /\ o.dst = m_bdkey[a]
    BY DEF FPinfoHits, Objects
  <2>2. QED  BY <1>1, <2>1 DEF Good, PairsGood, SameGrids
<1>5. ASSUME NEW e \in Hits("FB", a) PROVE e = NewPattern("FB", a)
  <2>1. /\ e.kind = "FB" /\ e.key = m_bdkey[a] /\ e.grids = grids[ref[a]] /\ e \in Kept
        /\ e.view.ratio = view[a].ratio /\ e.view.typ = view[a].typ
    BY <1>2 DEF Kinds
  <2>2. e.view \in Views /\ view[a] \in Views
    BY <1>1, <2>1 DEF Kept, TypeOK
  <2>3. e.view = view[a]
    BY <2>1, <2>2, LayoutAssumption
  <2>4. QED  BY <2>1, <2>3 DEF NewPattern, Pattern, Kept
<1>6. QED  BY <1>2, <1>3, <1>4, <1>5

\* No lookup of the caches finds what was built for another layout, though the layout's
\* address has been used again (getTileArray, getFB, getCPC, TheFPinfo).
THEOREM HitsRightAlways == Spec => []HitsRight
  BY Invariance, InvHitsRight, PTL

LEMMA InvInFlight == IInv => InFlight
<1> SUFFICES ASSUME IInv PROVE InFlight
  OBVIOUS
<1>1. TypeOK /\ Good(tables, HolderCount, grids, {}) /\ Flight /\ ref = m_bdkey
  BY DEF IInv, TypeOK
<1>2. \A a \in Arrays : fbd[a] # NoFB =>
         /\ fbd[a] \in tables.kept
         /\ defined[a] /\ fbd[a].key = m_bdkey[a] /\ fbd[a].grids = grids[ref[a]]
  BY <1>1 DEF Flight, Good, KeptGood
<1>3. \A o \in fpc.obj : \A r \in o.patch : Registered(r)
  <2> SUFFICES ASSUME NEW o \in fpc.obj, NEW r \in o.patch PROVE Registered(r)
    OBVIOUS
  <2>1. r \in PatchRefs(tables) /\ r \in Refs
    BY <1>1 DEF Flight, PatchRefs, TypeOK, FPinfos
  <2>2. HolderCount[r] \in Nat
    BY <2>1, HolderCounts DEF Holdings
  <2>3. QED  BY <1>1, <2>1, <2>2 DEF Good, CountsGood, Registered
<1>4. QED  BY <1>1, <1>2, <1>3 DEF InFlight, Flight

\* The pattern of an exchange in flight, and the FPinfo in use, are never deleted under
\* the pointer to them, whatever happens to the other arrays of their layouts.
THEOREM InFlightAlways == Spec => []InFlight
  BY Invariance, InvInFlight, PTL

=============================================================================

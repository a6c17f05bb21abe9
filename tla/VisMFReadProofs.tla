-------------------------- MODULE VisMFReadProofs --------------------------
(***************************************************************************)
(* Proofs about VisMFRead, for any numbers of ranks, fabs and files, any   *)
(* owners and any limit: a file is never open more often than it may be.   *)
(* In synchronous reads this is because the readers of a file are in at    *)
(* most that many chains, and in a chain a rank follows all before it.     *)
(* Otherwise it is an account: how often a file may still be opened and    *)
(* how many ranks have been given it make no more than the limit.          *)
(***************************************************************************)
EXTENDS VisMFRead, FiniteSetTheorems, WellFoundedInduction, TLAPS

-----------------------------------------------------------------------------
(***************************************************************************)
(* Numbers and sets                                                        *)
(***************************************************************************)
\* Division by a positive number.
LEMMA DivMod ==
    ASSUME NEW a \in Nat, NEW b \in Nat \ {0}
    PROVE  /\ a \div b \in Nat
           /\ a % b \in 0 .. b - 1
           /\ a = b * (a \div b) + (a % b)
  BY Z3

\* A set of natural numbers has a least member.
LEMMA MinOfNaturals ==
    ASSUME NEW T \in SUBSET Nat, T # {}
    PROVE  Min(T) \in T /\ \A m \in T : Min(T) <= m
<1> DEFINE Less == OpToRel(<, Nat)
<1>1. IsWellFoundedOn(Less, Nat)
  BY NatLessThanWellFounded
<1> HIDE DEF Less
<1>2. PICK n \in T : \A m \in T : ~(<<m, n>> \in Less)
  BY <1>1, WFMin
<1>3. ASSUME NEW m \in T, m < n PROVE FALSE
  <2>1. <<m, n>> \in Less
    BY <1>3 DEF Less, OpToRel
  <2> QED
    BY <1>2, <2>1
<1>4. \A m \in T : n <= m
  BY <1>3
<1> QED
  BY <1>4 DEF Min

LEMMA Numbers ==
    /\ Ranks \subseteq Nat /\ ioProcNum \in Ranks
    /\ IsFiniteSet(Ranks) /\ IsFiniteSet(Fabs)
    /\ Cardinality(Fabs) = NFabs
    /\ Streams \subseteq Nat \ {0}
<1>1. NProcs \in Nat \ {0} /\ NFabs \in Nat \ {0} /\ Streams \subseteq 1..NProcs
  BY ReadAssumption
<1>2. IsFiniteSet(0 .. NProcs - 1)
  BY <1>1, FS_Interval
<1>3. IsFiniteSet(1..NFabs) /\ Cardinality(1..NFabs) = NFabs
  <2>1. /\ IsFiniteSet(1..NFabs)
        /\ Cardinality(1..NFabs) = IF 1 > NFabs THEN 0 ELSE NFabs - 1 + 1
    BY <1>1, FS_Interval
  <2> QED
    BY <1>1, <2>1
<1> QED
  BY <1>1, <1>2, <1>3 DEF Ranks, Fabs, ioProcNum

LEMMA FileFacts ==
    ASSUME conf.file \in FilesOf
    PROVE  /\ Files \subseteq Nat \ {0}
           /\ \A k \in Fabs : conf.file[k] \in Files
<1>1. DOMAIN conf.file = Fabs /\ Range(conf.file) = 1 .. Cardinality(Range(conf.file))
  BY ReadAssumption
<1>2. \A k \in Fabs : conf.file[k] \in Range(conf.file)
  BY <1>1 DEF Range
<1>3. \A n : 1..n \subseteq Int /\ \A i \in 1..n : i >= 1
  OBVIOUS
<1>4. 1 .. Cardinality(Range(conf.file)) \subseteq Nat \ {0}
  BY <1>3
<1> QED
  BY <1>1, <1>2, <1>4 DEF Files

LEMMA FileNumbers ==
    ASSUME PlanOK
    PROVE  /\ conf.file \in FilesOf /\ Files \subseteq Nat \ {0}
           /\ \A k \in Fabs : conf.file[k] \in Files
<1>1. conf.file \in FilesOf
  BY DEF PlanOK
<1> QED
  BY <1>1, FileFacts

\* Removing a part of a finite set.
LEMMA CardMinus ==
    ASSUME NEW S, IsFiniteSet(S), NEW T \in SUBSET S
    PROVE  /\ IsFiniteSet(T) /\ Cardinality(T) \in Nat /\ Cardinality(S) \in Nat
           /\ Cardinality(T) <= Cardinality(S)
           /\ IsFiniteSet(S \ T) /\ Cardinality(S \ T) = Cardinality(S) - Cardinality(T)
<1>1. S \cap T = T
  OBVIOUS
<1>2. IsFiniteSet(T) /\ Cardinality(T) <= Cardinality(S)
  BY FS_Subset
<1>3. IsFiniteSet(S \ T) /\ Cardinality(S \ T) = Cardinality(S) - Cardinality(S \cap T)
  BY FS_Difference
<1>4. Cardinality(T) \in Nat /\ Cardinality(S) \in Nat
  BY <1>2, FS_CardinalityType
<1> QED
  BY <1>1, <1>2, <1>3, <1>4

-----------------------------------------------------------------------------
(***************************************************************************)
(* The chains                                                              *)
(***************************************************************************)
\* The number of different values of a function on a set.
LEMMA ImageCard ==
    ASSUME NEW S, IsFiniteSet(S), NEW g, NEW T,
           \A t \in T : \E s \in S : t = g[s]
    PROVE  IsFiniteSet(T) /\ Cardinality(T) <= Cardinality(S)
<1> DEFINE h == [s \in S |-> g[s]]
           I == {g[s] : s \in S}
<1>1. h \in Surjection(S, I)
  BY DEF Surjection
<1>2. IsFiniteSet(I) /\ Cardinality(I) <= Cardinality(S)
  BY <1>1, FS_Surjection
<1>3. T \in SUBSET I
  OBVIOUS
<1> HIDE DEF I
<1>4. IsFiniteSet(T) /\ Cardinality(T) <= Cardinality(I)
  BY <1>2, <1>3, FS_Subset
<1> QED
  BY <1>2, <1>4, FS_CardinalityType

\* The smaller of two numbers.
LEMMA MinOfTwo ==
    ASSUME NEW a \in Int, NEW b \in Int
    PROVE  Min({a, b}) = IF a <= b THEN a ELSE b
<1> DEFINE m == IF a <= b THEN a ELSE b
<1>1. m \in {a, b} /\ \A y \in {a, b} : m =< y
  OBVIOUS
<1>2. \A x \in {a, b} : (\A y \in {a, b} : x =< y) => x = m
  OBVIOUS
<1> QED
  BY <1>1, <1>2 DEF Min

\* The members of a chain agree on it, and there are at most nOpensPerFile chains.
LEMMA Chains ==
    ASSUME conf.nOpensPerFile \in Nat \ {0}, NEW f
    PROVE  LET R == ReadFileRanks(f) IN
           /\ \A r, q \in R : /\ r \in StreamSet(f, r) /\ StreamSet(f, r) \subseteq R
                              /\ q \in StreamSet(f, r) => StreamSet(f, q) = StreamSet(f, r)
           /\ Cardinality({StreamSet(f, r) : r \in R}) <= conf.nOpensPerFile
<1> DEFINE R == ReadFileRanks(f)
           n == Min({Cardinality(R), conf.nOpensPerFile})
           w == Cardinality(R) \div n
           stream(q) == Min({n - 1, Cardinality({p \in R : p < q}) \div w})
<1>1. \A r : StreamSet(f, r) = {q \in R : stream(q) = stream(r)}
  BY DEF StreamSet
<1>2. IsFiniteSet(R) /\ Cardinality(R) \in Nat
  BY Numbers, FS_Subset, FS_CardinalityType DEF ReadFileRanks
<1>3. CASE R = {}
  <2>1. {StreamSet(f, r) : r \in R} = {}
    BY <1>3
  <2> QED
    BY <1>3, <2>1, FS_EmptySet
<1>4. CASE R # {}
  <2>1. Cardinality(R) \in Nat \ {0}
    BY <1>2, <1>4, FS_EmptySet
  <2>2. n \in Nat \ {0} /\ n <= Cardinality(R) /\ n <= conf.nOpensPerFile
    BY <2>1, MinOfTwo
  <2>3. w \in Nat \ {0}
    <3>1. w \in Nat /\ Cardinality(R) % n \in 0 .. n - 1
          /\ Cardinality(R) = n * w + (Cardinality(R) % n)
      BY <2>1, <2>2, DivMod
    <3>2. ASSUME w = 0 PROVE FALSE
      <4>1. n * w = 0
        BY <2>2, <3>2
      <4> HIDE DEF w, n
      <4> QED
        BY <2>2, <3>1, <4>1
    <3> QED
      BY <3>1, <3>2
  <2> HIDE DEF n, w
  <2>4. \A q : stream(q) \in 0 .. n - 1
    <3> SUFFICES ASSUME NEW q PROVE stream(q) \in 0 .. n - 1
      OBVIOUS
    <3> DEFINE B == {p \in R : p < q}
               x == Cardinality(B) \div w
    <3>1. Cardinality(B) \in Nat
      BY <1>2, FS_Subset, FS_CardinalityType
    <3>2. x \in Nat
      BY <2>3, <3>1, DivMod
    <3> HIDE DEF x
    <3>3. Min({n - 1, x}) \in 0 .. n - 1
      BY <2>2, <3>2, MinOfTwo
    <3> QED
      BY <3>3 DEF x
  <2> HIDE DEF stream, R
  <2>5. \A r, q \in R : /\ r \in StreamSet(f, r) /\ StreamSet(f, r) \subseteq R
                        /\ q \in StreamSet(f, r) => StreamSet(f, q) = StreamSet(f, r)
    BY <1>1
  <2>6. Cardinality({StreamSet(f, r) : r \in R}) <= n
    <3> DEFINE g == [i \in 0 .. n - 1 |-> {q \in R : stream(q) = i}]
               T == {StreamSet(f, r) : r \in R}
    <3>1. \A t \in T : \E i \in 0 .. n - 1 : t = g[i]
      BY <1>1, <2>4
    <3>2. IsFiniteSet(0 .. n - 1) /\ Cardinality(0 .. n - 1) = n
      <4>1. /\ IsFiniteSet(0 .. n - 1)
            /\ Cardinality(0 .. n - 1) = IF 0 > n - 1 THEN 0 ELSE (n - 1) - 0 + 1
        <5>1. 0 \in Int /\ n - 1 \in Int
          BY <2>2
        <5> QED
          BY <5>1, FS_Interval
      <4> QED
        BY <2>2, <4>1
    <3> HIDE DEF g, T
    <3>3. Cardinality(T) <= Cardinality(0 .. n - 1)
      BY <3>1, <3>2, ImageCard
    <3> QED
      BY <3>2, <3>3 DEF T
  <2>7. IsFiniteSet({StreamSet(f, r) : r \in R})
    <3> DEFINE h == [r \in R |-> StreamSet(f, r)]
               T == {StreamSet(f, r) : r \in R}
    <3>1. \A t \in T : \E r \in R : t = h[r]
      OBVIOUS
    <3> HIDE DEF h, T
    <3>2. IsFiniteSet(R)
      BY <1>2 DEF R
    <3>3. IsFiniteSet(T)
      BY <3>1, <3>2, ImageCard
    <3> QED
      BY <3>3 DEF T
  <2>8. Cardinality({StreamSet(f, r) : r \in R}) <= conf.nOpensPerFile
    BY <2>2, <2>6, <2>7, FS_CardinalityType
  <2> QED
    BY <2>5, <2>8 DEF R
<1> QED
  BY <1>3, <1>4

-----------------------------------------------------------------------------
(***************************************************************************)
(* The initial states                                                      *)
(***************************************************************************)
LEMMA InitReads == Init => ReadIInv
<1> SUFFICES ASSUME Init PROVE ReadIInv
  OBVIOUS
<1>1. /\ conf \in [file : FilesOf, owner : [Fabs -> Ranks], nOpensPerFile : Streams,
                   sync : BOOLEAN]
      /\ toRead = [f \in Files |-> [r \in Ranks |-> RankToRead(f, r)]]
      /\ streamSet = [f \in Files |-> [r \in Ranks |-> StreamSet(f, r)]]
      /\ pc = [r \in Ranks |-> "ready"]
      /\ file = [r \in Ranks |-> 0]
      /\ vReads = [r \in Ranks |-> {}]
      /\ nReqs = [r \in Ranks |-> Cardinality({k \in Fabs : conf.owner[k] = r})]
      /\ msgs = {}
      /\ copies = [k \in Fabs |-> <<>>]
      /\ allReads = {[file |-> conf.file[k], rank |-> conf.owner[k]] : k \in Fabs}
      /\ availableFiles = [f \in Files |-> conf.nOpensPerFile]
      /\ busyProcs = {} /\ totalIOReqs = NFabs /\ reqsPending = 0
  BY DEF Init
<1>2. /\ conf.file \in FilesOf /\ conf.nOpensPerFile \in Nat \ {0}
      /\ Files \subseteq Nat \ {0}
  BY <1>1, Numbers, FileFacts
<1>3. \A k \in Fabs : NotGiven(k)
  BY <1>1 DEF NotGiven
<1>4. PlanOK
  <2>1. \A f \in Files, r \in Ranks : toRead[f][r] \subseteq Fabs
    <3>1. \A f, r : RankToRead(f, r) \subseteq Fabs
      BY DEF RankToRead, InFile
    <3> QED
      BY <1>1, <3>1
  <2>2. ASSUME NEW f \in Files
        PROVE  /\ \A r, q \in ReadFileRanks(f) :
                     /\ r \in streamSet[f][r] /\ streamSet[f][r] \subseteq ReadFileRanks(f)
                     /\ q \in streamSet[f][r] => streamSet[f][q] = streamSet[f][r]
               /\ Cardinality({streamSet[f][r] : r \in ReadFileRanks(f)})
                     <= conf.nOpensPerFile
    <3>1. \A r \in ReadFileRanks(f) : streamSet[f][r] = StreamSet(f, r)
      BY <1>1 DEF ReadFileRanks
    <3>2. {streamSet[f][r] : r \in ReadFileRanks(f)} = {StreamSet(f, r) : r \in ReadFileRanks(f)}
      BY <3>1
    <3> QED
      BY <1>2, <3>1, <3>2, Chains
  <2> QED
    BY <1>1, <2>1, <2>2 DEF PlanOK
<1>5. TypeOK
  <2>1. {k \in Fabs : NotGiven(k) \/ k \in vReads[ioProcNum] \/ NotReported(k)} = Fabs
    BY <1>3
  <2>2. Cardinality(busyProcs \ {ioProcNum}) = 0
    <3>1. busyProcs \ {ioProcNum} = {}
      BY <1>1
    <3> QED
      BY <3>1, FS_EmptySet
  <2>3. nReqs \in [Ranks -> 0..NFabs]
    <3> SUFFICES ASSUME NEW r \in Ranks
                 PROVE  Cardinality({k \in Fabs : conf.owner[k] = r}) \in 0..NFabs
      BY <1>1
    <3> DEFINE K == {k \in Fabs : conf.owner[k] = r}
    <3>1. K \in SUBSET Fabs
      OBVIOUS
    <3> HIDE DEF K
    <3>2. Cardinality(K) \in Nat /\ Cardinality(K) <= Cardinality(Fabs)
      <4>1. IsFiniteSet(Fabs)
        BY Numbers
      <4> QED
        BY <3>1, <4>1, CardMinus
    <3>3. Cardinality(K) \in 0..NFabs
      BY <3>2, Numbers, ReadAssumption
    <3> QED
      BY <3>3 DEF K
  <2>4. copies \in [Fabs -> Seq(Ranks)]
    <3>1. <<>> \in Seq(Ranks)
      OBVIOUS
    <3> QED
      BY <1>1, <3>1
  <2>5. availableFiles \in [Files -> 0 .. conf.nOpensPerFile]
    BY <1>1, <1>2
  <2> QED
    BY <1>1, <2>1, <2>2, <2>3, <2>4, <2>5, Numbers DEF TypeOK
<1>6. InChains
  BY <1>1, <1>2, <1>3 DEF InChains, At
<1>7. ByLeave
  <2>1. \A f, r : ~Given(r, f)
    BY <1>1 DEF Given
  <2>2. \A f \in Files :
            availableFiles[f] + Cardinality({r \in Ranks : Given(r, f)}) <= conf.nOpensPerFile
    <3> SUFFICES ASSUME NEW f \in Files
                 PROVE  availableFiles[f] + Cardinality({r \in Ranks : Given(r, f)})
                            <= conf.nOpensPerFile
      OBVIOUS
    <3>1. {r \in Ranks : Given(r, f)} = {}
      BY <2>1
    <3>2. Cardinality({r \in Ranks : Given(r, f)}) = 0
      BY <3>1, FS_EmptySet
    <3>3. availableFiles[f] = conf.nOpensPerFile /\ conf.nOpensPerFile \in Nat
      BY <1>1, <1>2
    <3> QED
      BY <3>2, <3>3
  <2>3. \A r \in Ranks \ {ioProcNum} : nReqs[r] = Cardinality(Awaited(r))
    <3>1. \A r : Awaited(r) = {k \in Fabs : conf.owner[k] = r}
      BY <1>3 DEF Awaited
    <3> QED
      BY <1>1, <3>1
  <2> QED
    BY <1>1, <2>1, <2>2, <2>3 DEF ByLeave, OneErrand, OwnReads, At
<1> QED
  BY <1>1, <1>4, <1>5, <1>6, <1>7 DEF ReadIInv

-----------------------------------------------------------------------------
(***************************************************************************)
(* Synchronous reads                                                       *)
(***************************************************************************)
LEMMA PlanKept ==
    ASSUME UNCHANGED plan
    PROVE  /\ conf' = conf /\ toRead' = toRead /\ streamSet' = streamSet
           /\ Files' = Files
           /\ PlanOK => PlanOK'
           /\ \A f, r : Owned(f, r)' = Owned(f, r)
           /\ \A f, r : Before(f, r)' = Before(f, r) /\ After(f, r)' = After(f, r)
  BY DEF plan, Files, PlanOK, ReadFileRanks, Owned, InFile, Before, After

\* The coordinator's accounts are not touched.
LEMMA SyncTypes ==
    ASSUME ReadIInv, conf.sync, UNCHANGED <<plan, nReqs, coordinating>>,
           pc' \in [Ranks -> {"ready", "reading", "await", "done"}],
           file' \in [Ranks -> Files \cup {0}],
           vReads' \in [Ranks -> SUBSET Fabs],
           msgs' \subseteq [tag : {"handoff", "read", "done"}, rank : Ranks, file : Files],
           copies' \in [Fabs -> Seq(Ranks)]
    PROVE  PlanOK' /\ TypeOK' /\ busyProcs' = {} /\ \A k \in Fabs : NotGiven(k)'
<1>1. PlanOK /\ TypeOK /\ InChains
  BY DEF ReadIInv
<1>2. /\ conf' = conf /\ Files' = Files /\ PlanOK'
      /\ UNCHANGED <<nReqs, allReads, availableFiles, busyProcs, totalIOReqs, reqsPending>>
  BY <1>1, PlanKept DEF coordinating
<1>3. busyProcs' = {} /\ \A k \in Fabs : NotGiven(k) /\ NotGiven(k)'
  BY <1>1, <1>2 DEF InChains, NotGiven
<1>4. totalIOReqs' = Cardinality({k \in Fabs : NotGiven(k) \/ k \in vReads[ioProcNum]
                                                \/ NotReported(k)})'
  <2>1. /\ {k \in Fabs : NotGiven(k) \/ k \in vReads[ioProcNum] \/ NotReported(k)} = Fabs
        /\ {k \in Fabs : NotGiven(k) \/ k \in vReads[ioProcNum] \/ NotReported(k)}' = Fabs
    BY <1>3
  <2> QED
    BY <1>1, <1>2, <2>1 DEF TypeOK
<1> QED
  BY <1>1, <1>2, <1>3, <1>4 DEF TypeOK

LEMMA FilesAreNumbers ==
    ASSUME PlanOK, TypeOK
    PROVE  \A q \in Ranks : file[q] \in Nat
<1> SUFFICES ASSUME NEW q \in Ranks PROVE file[q] \in Nat
  OBVIOUS
<1>1. file[q] \in Files \/ file[q] = 0
  BY DEF TypeOK
<1>2. file[q] \in Files => file[q] \in Nat
  BY FileNumbers
<1> QED
  BY <1>1, <1>2

LEMMA ReadyToReadKeeps ==
    ASSUME ReadIInv, NEW r \in Ranks, ReadyToRead(r)
    PROVE  ReadIInv'
<1> DEFINE g == Min(FilesLeft(r))
<1>1. PlanOK /\ TypeOK /\ InChains /\ conf.sync
  BY DEF ReadIInv, ReadyToRead
<1>2. /\ conf' = conf /\ toRead' = toRead /\ streamSet' = streamSet /\ Files' = Files
      /\ At(r, "ready") /\ FilesLeft(r) # {}
      /\ pc' = [pc EXCEPT ![r] = "reading"]
      /\ file' = [file EXCEPT ![r] = g]
      /\ vReads' = [vReads EXCEPT ![r] = toRead[g][r]]
      /\ msgs' \subseteq msgs
      /\ Before(g, r) = {} \/ Message("handoff", r, g) \in msgs
      /\ UNCHANGED <<nReqs, copies, coordinating>>
  BY PlanKept DEF ReadyToRead, StartReading, Goto
<1>3. /\ g \in Files /\ g > file[r] /\ toRead[g][r] # {}
      /\ \A f \in Files : f > file[r] /\ toRead[f][r] # {} => g <= f
  <2>1. FilesLeft(r) \in SUBSET Nat
    BY <1>1, FileFacts DEF FilesLeft, PlanOK
  <2>2. g \in FilesLeft(r) /\ \A f \in FilesLeft(r) : g <= f
    BY <1>2, <2>1, MinOfNaturals
  <2> QED
    BY <2>2 DEF FilesLeft
<1> HIDE DEF g
<1>4. Files \subseteq Nat \ {0} /\ (\A q \in Ranks : file[q] \in Nat) /\ vReads[r] = {}
  <2>1. Files \subseteq Nat \ {0}
    BY <1>1, FileNumbers
  <2>2. \A q \in Ranks : file[q] \in Nat
    BY <1>1, FilesAreNumbers
  <2>3. vReads[r] = {}
    BY <1>1, <1>2 DEF InChains, At
  <2> QED
    BY <2>1, <2>2, <2>3
<1>5. /\ PlanOK' /\ TypeOK' /\ busyProcs' = {} /\ \A k \in Fabs : NotGiven(k)'
  <2>1. /\ pc' \in [Ranks -> {"ready", "reading", "await", "done"}]
        /\ file' \in [Ranks -> Files \cup {0}]
        /\ vReads' \in [Ranks -> SUBSET Fabs]
        /\ msgs' \subseteq [tag : {"handoff", "read", "done"}, rank : Ranks, file : Files]
        /\ copies' \in [Fabs -> Seq(Ranks)]
    <3>1. toRead[g][r] \in SUBSET Fabs
      BY <1>1, <1>3 DEF PlanOK
    <3> QED
      BY <1>1, <1>2, <1>3, <3>1 DEF TypeOK
  <2> QED
    BY <1>1, <1>2, <2>1, SyncTypes DEF ReadyToRead
<1>6. \A q \in Ranks, f \in Files : Passed(q, f) => Passed(q, f)'
  BY <1>1, <1>2, <1>3, <1>4 DEF Passed, TypeOK
<1>7. \A f, q : Before(f, q)' = Before(f, q) /\ Before(f, q) \subseteq streamSet[f][q]
  BY <1>2 DEF Before
<1>8. \A f \in Files, q \in Ranks : toRead[f][q] # {} => Before(f, q) \subseteq Ranks
  BY <1>1, <1>7 DEF PlanOK, ReadFileRanks
<1>9. \A q \in Before(g, r) : Passed(q, g)
  <2>1. Message("handoff", r, g).file = g /\ Message("handoff", r, g).rank = r
    BY DEF Message
  <2> QED
    BY <1>1, <1>2, <2>1 DEF InChains
<1>10. InChains'
  <2>1. ASSUME NEW q \in Ranks, NEW f \in Files, file'[q] >= f, toRead[f][q] # {}
        PROVE  \A p \in Before(f, q) : Passed(p, f)'
    <3>1. \A p \in Before(f, q) : Passed(p, f)
      <4>1. CASE q # r \/ file[r] >= f
        BY <1>1, <1>2, <2>1, <4>1 DEF InChains, TypeOK
      <4>2. CASE q = r /\ ~(file[r] >= f)
        <5>1. f = g
          BY <1>1, <1>2, <1>3, <1>4, <2>1, <4>2 DEF TypeOK
        <5> QED
          BY <1>9, <4>2, <5>1
      <4> QED
        BY <4>1, <4>2
    <3> QED
      BY <1>6, <1>8, <2>1, <3>1
  <2>2. ASSUME NEW m \in msgs'
        PROVE  /\ m.tag = "handoff" /\ toRead[m.file][m.rank] # {}
               /\ \A q \in Before(m.file, m.rank) : Passed(q, m.file)'
    <3>1. /\ m \in msgs /\ m.file \in Files /\ m.rank \in Ranks
      BY <1>1, <1>2, <2>2 DEF TypeOK
    <3> QED
      BY <1>1, <1>6, <1>8, <3>1 DEF InChains
  <2>3. ASSUME NEW q \in Ranks
        PROVE  /\ pc'[q] = "reading" <=> vReads'[q] # {}
               /\ pc'[q] = "reading" => file'[q] \in Files /\ toRead[file'[q]][q] # {}
    BY <1>1, <1>2, <1>3 DEF InChains, TypeOK, At
  <2> QED
    BY <1>2, <1>5, <1>7, <2>1, <2>2, <2>3 DEF InChains, At
<1> QED
  BY <1>1, <1>2, <1>5, <1>10 DEF ReadIInv

LEMMA ReadAppends ==
    ASSUME TypeOK, NEW r \in Ranks, NEW S, Read(r, S)
    PROVE  copies' \in [Fabs -> Seq(Ranks)]
<1>1. \A k \in Fabs : copies[k] \in Seq(Ranks)
  BY DEF TypeOK
<1>2. \A k \in Fabs : Append(copies[k], r) \in Seq(Ranks)
  BY <1>1
<1> QED
  BY <1>1, <1>2 DEF Read

\* The rank that is handed the file is the next of the chain: all before it are those
\* before r, and r.
LEMMA ReadAndHandOnKeeps ==
    ASSUME ReadIInv, NEW r \in Ranks, ReadAndHandOn(r)
    PROVE  ReadIInv'
<1>0. PICK g : g = file[r]
  OBVIOUS
<1> DEFINE s == Min(After(g, r))
<1>1. PlanOK /\ TypeOK /\ InChains /\ conf.sync
  BY DEF ReadIInv, ReadAndHandOn
<1>2. /\ conf' = conf /\ toRead' = toRead /\ streamSet' = streamSet /\ Files' = Files
      /\ At(r, "reading")
      /\ pc' = [pc EXCEPT ![r] = "ready"]
      /\ Read(r, vReads[r])
      /\ vReads' = [vReads EXCEPT ![r] = {}]
      /\ msgs' = msgs \cup (IF After(g, r) = {} THEN {} ELSE {Message("handoff", s, g)})
      /\ UNCHANGED <<file, nReqs, coordinating>>
      /\ g = file[r]
  BY <1>0, PlanKept DEF ReadAndHandOn, Goto
<1>3. g \in Files /\ toRead[g][r] # {} /\ Files \subseteq Nat \ {0} /\ g >= g
  <2>1. g \in Files /\ toRead[g][r] # {}
    BY <1>1, <1>2 DEF InChains
  <2> QED
    BY <1>1, <2>1, FileNumbers
<1>4. \A q \in Ranks, f \in Files : Passed(q, f) => Passed(q, f)'
  BY <1>1, <1>2 DEF Passed, TypeOK
<1>5. \A f, q : Before(f, q)' = Before(f, q) /\ Before(f, q) \subseteq streamSet[f][q]
  BY <1>2 DEF Before
<1>6. \A f \in Files, q \in Ranks : toRead[f][q] # {} => Before(f, q) \subseteq Ranks
  BY <1>1, <1>5 DEF PlanOK, ReadFileRanks
<1>7. ASSUME After(g, r) # {}
      PROVE  /\ s \in Ranks /\ toRead[g][s] # {}
             /\ \A q \in Before(g, s) : Passed(q, g)'
  <2>1. r \in ReadFileRanks(g) /\ streamSet[g][r] \subseteq ReadFileRanks(g)
    BY <1>1, <1>3 DEF ReadFileRanks, PlanOK
  <2>2. After(g, r) \in SUBSET Nat
    BY <2>1, Numbers DEF After, ReadFileRanks
  <2>3. s \in After(g, r) /\ \A q \in After(g, r) : s <= q
    BY <1>7, <2>2, MinOfNaturals
  <2> HIDE DEF s
  <2>4. s \in ReadFileRanks(g) /\ s \in streamSet[g][r] /\ s > r
    BY <2>1, <2>3 DEF After
  <2>5. streamSet[g][s] = streamSet[g][r]
    BY <1>1, <1>3, <2>1, <2>4 DEF PlanOK
  <2>6. ASSUME NEW q \in Before(g, s) PROVE Passed(q, g)'
    <3>1. q \in streamSet[g][r] /\ q < s /\ q \in Ranks
      BY <2>1, <2>5, <2>6 DEF Before, ReadFileRanks
    <3>2. ~(q > r)
      <4>1. q > r => q \in After(g, r)
        BY <3>1 DEF After
      <4>2. q \in Nat /\ s \in Nat
        BY <2>4, <3>1, Numbers DEF ReadFileRanks
      <4> QED
        BY <2>3, <3>1, <4>1, <4>2
    <3>3. q < r \/ q = r
      <4>1. q \in Nat /\ r \in Nat
        BY <3>1, Numbers
      <4> QED
        BY <3>2, <4>1
    <3>4. CASE q = r
      BY <1>1, <1>2, <3>4 DEF Passed, TypeOK
    <3>5. CASE q < r
      <4>1. q \in Before(g, r)
        BY <3>1, <3>5 DEF Before
      <4>2. Passed(q, g)
        BY <1>1, <1>2, <1>3, <4>1 DEF InChains
      <4> QED
        BY <1>3, <1>4, <3>1, <4>2
    <3> QED
      BY <3>3, <3>4, <3>5
  <2> QED
    BY <2>4, <2>6 DEF ReadFileRanks
<1>8. \A m \in msgs' : m \in msgs \/ (After(g, r) # {} /\ m = Message("handoff", s, g))
  BY <1>2
<1>9. /\ Message("handoff", s, g).tag = "handoff"
      /\ Message("handoff", s, g).rank = s
      /\ Message("handoff", s, g).file = g
      /\ s \in Ranks => Message("handoff", s, g)
            \in [tag : {"handoff", "read", "done"}, rank : Ranks, file : Files]
  BY <1>3 DEF Message
<1> HIDE DEF s
<1>10. /\ PlanOK' /\ TypeOK' /\ busyProcs' = {} /\ \A k \in Fabs : NotGiven(k)'
  <2>1. /\ pc' \in [Ranks -> {"ready", "reading", "await", "done"}]
        /\ file' \in [Ranks -> Files \cup {0}]
        /\ vReads' \in [Ranks -> SUBSET Fabs]
    BY <1>1, <1>2 DEF TypeOK
  <2>2. msgs' \subseteq [tag : {"handoff", "read", "done"}, rank : Ranks, file : Files]
    <3>1. \A m \in msgs : m \in [tag : {"handoff", "read", "done"}, rank : Ranks, file : Files]
      BY <1>1 DEF TypeOK
    <3> QED
      BY <1>7, <1>8, <1>9, <3>1
  <2>3. copies' \in [Fabs -> Seq(Ranks)]
    BY <1>1, <1>2, ReadAppends
  <2> QED
    BY <1>1, <1>2, <2>1, <2>2, <2>3, SyncTypes DEF ReadAndHandOn
<1>11. InChains'
  <2>1. ASSUME NEW q \in Ranks, NEW f \in Files, file'[q] >= f, toRead[f][q] # {}
        PROVE  \A p \in Before(f, q) : Passed(p, f)'
    BY <1>1, <1>2, <1>4, <1>6, <2>1 DEF InChains
  <2>2. ASSUME NEW m \in msgs'
        PROVE  /\ m.tag = "handoff" /\ toRead[m.file][m.rank] # {}
               /\ \A q \in Before(m.file, m.rank) : Passed(q, m.file)'
    <3>1. CASE m \in msgs
      <4>1. m.file \in Files /\ m.rank \in Ranks
        BY <1>1, <3>1 DEF TypeOK
      <4> QED
        BY <1>1, <1>4, <1>6, <3>1, <4>1 DEF InChains
    <3>2. CASE After(g, r) # {} /\ m = Message("handoff", s, g)
      <4>1. m.tag = "handoff" /\ m.rank = s /\ m.file = g
        BY <1>9, <3>2
      <4> QED
        BY <1>7, <3>2, <4>1
    <3> QED
      BY <1>8, <3>1, <3>2
  <2>3. ASSUME NEW q \in Ranks
        PROVE  /\ pc'[q] = "reading" <=> vReads'[q] # {}
               /\ pc'[q] = "reading" => file'[q] \in Files /\ toRead[file'[q]][q] # {}
    BY <1>1, <1>2 DEF InChains, TypeOK, At
  <2> QED
    BY <1>2, <1>5, <1>10, <2>1, <2>2, <2>3 DEF InChains, At
<1> QED
  BY <1>1, <1>2, <1>10, <1>11 DEF ReadIInv

LEMMA LeaveChainsKeeps ==
    ASSUME ReadIInv, NEW r \in Ranks, LeaveChains(r)
    PROVE  ReadIInv'
<1>1. PlanOK /\ TypeOK /\ InChains /\ conf.sync
  BY DEF ReadIInv, LeaveChains
<1>2. /\ conf' = conf /\ toRead' = toRead /\ streamSet' = streamSet /\ Files' = Files
      /\ At(r, "ready")
      /\ pc' = [pc EXCEPT ![r] = "done"]
      /\ UNCHANGED <<file, vReads, nReqs, msgs, copies, coordinating>>
  BY PlanKept DEF LeaveChains, Goto
<1>3. /\ PlanOK' /\ TypeOK' /\ busyProcs' = {} /\ \A k \in Fabs : NotGiven(k)'
  <2>1. /\ pc' \in [Ranks -> {"ready", "reading", "await", "done"}]
        /\ file' \in [Ranks -> Files \cup {0}]
        /\ vReads' \in [Ranks -> SUBSET Fabs]
        /\ msgs' \subseteq [tag : {"handoff", "read", "done"}, rank : Ranks, file : Files]
        /\ copies' \in [Fabs -> Seq(Ranks)]
    BY <1>1, <1>2 DEF TypeOK
  <2> QED
    BY <1>1, <1>2, <2>1, SyncTypes DEF LeaveChains
<1>4. InChains'
  <2>1. \A q \in Ranks : pc'[q] = "reading" <=> pc[q] = "reading"
    BY <1>1, <1>2 DEF TypeOK, At
  <2> QED
    BY <1>1, <1>2, <1>3, <2>1 DEF InChains, At, Before, Passed
<1> QED
  BY <1>1, <1>2, <1>3, <1>4 DEF ReadIInv

-----------------------------------------------------------------------------
(***************************************************************************)
(* Reads by the leave of the coordinator: what a step leaves alone         *)
(***************************************************************************)
\* The fabs the coordinator has still to hear of.
Counted == {k \in Fabs : NotGiven(k) \/ k \in vReads[ioProcNum] \/ NotReported(k)}

\* The ranks that have been given a file.
GivenTo(f) == {r \in Ranks : Given(r, f)}

LEMMA CountedFinite ==
    /\ IsFiniteSet(Counted)
    /\ \A f : IsFiniteSet(GivenTo(f)) /\ Cardinality(GivenTo(f)) \in Nat
    /\ \A r : IsFiniteSet(Awaited(r)) /\ Cardinality(Awaited(r)) \in 0..NFabs
<1>1. IsFiniteSet(Counted)
  BY Numbers, FS_Subset DEF Counted
<1>2. ASSUME NEW f PROVE IsFiniteSet(GivenTo(f)) /\ Cardinality(GivenTo(f)) \in Nat
  <2>1. IsFiniteSet(GivenTo(f))
    BY Numbers, FS_Subset DEF GivenTo
  <2> QED
    BY <2>1, FS_CardinalityType
<1>3. ASSUME NEW r PROVE IsFiniteSet(Awaited(r)) /\ Cardinality(Awaited(r)) \in 0..NFabs
  <2>1. IsFiniteSet(Fabs) /\ Cardinality(Fabs) = NFabs /\ NFabs \in Nat
    BY Numbers, ReadAssumption
  <2>2. Awaited(r) \in SUBSET Fabs
    BY DEF Awaited
  <2>3. /\ IsFiniteSet(Awaited(r)) /\ Cardinality(Awaited(r)) \in Nat
        /\ Cardinality(Awaited(r)) <= Cardinality(Fabs)
    BY <2>1, <2>2, CardMinus
  <2> QED
    BY <2>1, <2>3
<1> QED
  BY <1>1, <1>2, <1>3

\* What a rank has been given changes only if the rank opens a file, reports, or is told.
LEMMA GivenKept ==
    ASSUME NEW q, q \in busyProcs' <=> q \in busyProcs, file'[q] = file[q],
           \A m : m.tag = "read" /\ m.rank = q => (m \in msgs' <=> m \in msgs)
    PROVE  \A f : Given(q, f)' <=> Given(q, f)
<1> SUFFICES ASSUME NEW f PROVE Given(q, f)' <=> Given(q, f)
  OBVIOUS
<1>1. Message("read", q, f).tag = "read" /\ Message("read", q, f).rank = q
  BY DEF Message
<1>2. Message("read", q, f)' = Message("read", q, f)
  BY DEF Message
<1>3. Message("read", q, f) \in msgs' <=> Message("read", q, f) \in msgs
  BY <1>1
<1>4. (\A m \in msgs' : ~(m.tag = "read" /\ m.rank = q))
        <=> (\A m \in msgs : ~(m.tag = "read" /\ m.rank = q))
  OBVIOUS
<1> QED
  BY <1>2, <1>3, <1>4 DEF Given

\* Messages are determined by what is in them.
LEMMA MessageOf ==
    ASSUME TypeOK, NEW m \in msgs
    PROVE  m = Message(m.tag, m.rank, m.file) /\ m.rank \in Ranks /\ m.file \in Files
  BY DEF TypeOK, Message

LEMMA Account ==
    ASSUME ReadIInv, ~conf.sync
    PROVE  /\ PlanOK /\ TypeOK /\ OneErrand /\ OwnReads /\ ByLeave
           /\ conf.nOpensPerFile \in Nat \ {0} /\ busyProcs \subseteq Ranks
           /\ totalIOReqs = Cardinality(Counted)
           /\ \A f \in Files : availableFiles[f] + Cardinality(GivenTo(f)) <= conf.nOpensPerFile
<1>1. PlanOK /\ TypeOK /\ ByLeave /\ busyProcs \subseteq Ranks
  BY DEF ReadIInv
<1>2. conf.nOpensPerFile \in Nat \ {0}
  <2>1. conf.nOpensPerFile \in Streams
    BY <1>1 DEF PlanOK
  <2> QED
    BY <2>1, Numbers
<1>3. totalIOReqs = Cardinality(Counted)
  BY <1>1 DEF TypeOK, Counted
<1>4. \A f \in Files : availableFiles[f] + Cardinality(GivenTo(f)) <= conf.nOpensPerFile
  BY <1>1 DEF ByLeave, GivenTo
<1> QED
  BY <1>1, <1>2, <1>3, <1>4 DEF ByLeave

\* What is to be shown of a step that leaves the plan alone.
LEMMA Accounted ==
    ASSUME ReadIInv, ~conf.sync, UNCHANGED plan,
           busyProcs' \subseteq Ranks, OneErrand', OwnReads',
           pc' \in [Ranks -> {"ready", "reading", "await", "done"}],
           file' \in [Ranks -> Files \cup {0}],
           vReads' \in [Ranks -> SUBSET Fabs],
           nReqs' \in [Ranks -> 0..NFabs],
           msgs' \subseteq [tag : {"handoff", "read", "done"}, rank : Ranks, file : Files],
           copies' \in [Fabs -> Seq(Ranks)],
           availableFiles' \in [Files -> 0 .. conf.nOpensPerFile],
           reqsPending' = Cardinality(busyProcs' \ {ioProcNum}),
           totalIOReqs' = Cardinality(Counted'),
           allReads' \subseteq allReads,
           \A f \in Files, r \in Ranks : Given(r, f)' => [file |-> f, rank |-> r] \notin allReads',
           \A r \in Ranks \ {ioProcNum} : nReqs'[r] = Cardinality(Awaited(r)'),
           \A f \in Files : availableFiles'[f] + Cardinality(GivenTo(f)') <= conf.nOpensPerFile
    PROVE  ReadIInv'
<1>1. /\ PlanOK' /\ conf' = conf /\ Files' = Files
      /\ \A a \in allReads : \E k \in Fabs : a = [file |-> conf.file[k], rank |-> conf.owner[k]]
  BY PlanKept DEF ReadIInv, ByLeave
<1>2. TypeOK'
  BY <1>1 DEF TypeOK, Counted
<1>3. ByLeave'
  BY <1>1 DEF ByLeave, GivenTo
<1> QED
  BY <1>1, <1>2, <1>3 DEF ReadIInv

\* A step that gives nothing and reports nothing.
LEMMA NothingMoves ==
    ASSUME ReadIInv, ~conf.sync,
           UNCHANGED <<plan, file, vReads, nReqs, msgs, copies, allReads, busyProcs, totalIOReqs,
                       reqsPending>>,
           pc' \in [Ranks -> {"ready", "reading", "await", "done"}],
           \A r \in Ranks : pc'[r] = "reading" => vReads[r] # {},
           availableFiles' \in [Files -> 0 .. conf.nOpensPerFile],
           \A f \in Files : availableFiles'[f] <= availableFiles[f]
    PROVE  ReadIInv'
<1>1. /\ PlanOK /\ TypeOK /\ OneErrand /\ OwnReads /\ ByLeave
      /\ conf.nOpensPerFile \in Nat \ {0} /\ busyProcs \subseteq Ranks
      /\ totalIOReqs = Cardinality(Counted)
      /\ \A f \in Files : availableFiles[f] + Cardinality(GivenTo(f)) <= conf.nOpensPerFile
  BY Account
<1>2. /\ conf' = conf /\ Files' = Files /\ PlanOK'
      /\ \A f, r : Owned(f, r)' = Owned(f, r)
  BY <1>1, PlanKept
<1>3. \A r, f : Given(r, f)' <=> Given(r, f)
  BY GivenKept
<1>4. /\ Counted' = Counted
      /\ \A f : GivenTo(f)' = GivenTo(f)
      /\ \A r : Awaited(r)' = Awaited(r)
  BY <1>2, <1>3 DEF Counted, GivenTo, Awaited, NotGiven, NotReported, Message
<1>5. OneErrand' /\ OwnReads'
  BY <1>1, <1>2 DEF OneErrand, OwnReads, At
<1>6. \A f \in Files : availableFiles'[f] + Cardinality(GivenTo(f)) <= conf.nOpensPerFile
  <2> SUFFICES ASSUME NEW f \in Files
               PROVE  availableFiles'[f] + Cardinality(GivenTo(f)) <= conf.nOpensPerFile
    OBVIOUS
  <2>1. availableFiles[f] \in Nat /\ availableFiles'[f] \in Nat /\ Cardinality(GivenTo(f)) \in Nat
    BY <1>1, CountedFinite DEF TypeOK
  <2> QED
    BY <1>1, <2>1
<1>7. /\ file' \in [Ranks -> Files \cup {0}]
      /\ vReads' \in [Ranks -> SUBSET Fabs]
      /\ nReqs' \in [Ranks -> 0..NFabs]
      /\ msgs' \subseteq [tag : {"handoff", "read", "done"}, rank : Ranks, file : Files]
      /\ copies' \in [Fabs -> Seq(Ranks)]
      /\ reqsPending' = Cardinality(busyProcs' \ {ioProcNum})
  BY <1>1, <1>2 DEF TypeOK
<1>8. /\ \A f \in Files, r \in Ranks : Given(r, f)' => [file |-> f, rank |-> r] \notin allReads'
      /\ \A r \in Ranks \ {ioProcNum} : nReqs'[r] = Cardinality(Awaited(r)')
  BY <1>1, <1>3, <1>4 DEF ByLeave
<1>9. /\ totalIOReqs' = Cardinality(Counted')
      /\ \A f \in Files : availableFiles'[f] + Cardinality(GivenTo(f)') <= conf.nOpensPerFile
  BY <1>1, <1>4, <1>6
<1> QED
  BY <1>1, <1>5, <1>7, <1>8, <1>9, Accounted

LEMMA LeaveKeeps ==
    ASSUME ReadIInv, NEW r \in Ranks, Leave(r)
    PROVE  ReadIInv'
<1>1. /\ ~conf.sync
      /\ UNCHANGED <<plan, file, vReads, nReqs, msgs, copies, coordinating>>
      /\ pc' = [pc EXCEPT ![r] = "done"]
  BY DEF Leave, Goto
<1>2. TypeOK /\ OwnReads
  BY <1>1, Account
<1>3. /\ UNCHANGED <<plan, file, vReads, nReqs, msgs, copies, allReads, busyProcs, totalIOReqs,
                     reqsPending>>
      /\ availableFiles' = availableFiles
  BY <1>1 DEF coordinating
<1>4. /\ availableFiles' \in [Files -> 0 .. conf.nOpensPerFile]
      /\ \A f \in Files : availableFiles'[f] <= availableFiles[f]
  BY <1>2, <1>3 DEF TypeOK
<1>5. /\ pc' \in [Ranks -> {"ready", "reading", "await", "done"}]
      /\ \A q \in Ranks : pc'[q] = "reading" => vReads[q] # {}
  BY <1>1, <1>2 DEF TypeOK, OwnReads, At
<1> QED
  BY <1>1, <1>3, <1>4, <1>5, NothingMoves

LEMMA CoordinatorGoesOn ==
    ASSUME ReadIInv, ~conf.sync, NoReport \/ AllReported
    PROVE  ReadIInv'
<1>1. /\ UNCHANGED <<plan, file, vReads, nReqs, msgs, copies, coordinating>>
      /\ pc' = [pc EXCEPT ![ioProcNum] = "ready"] \/ pc' = [pc EXCEPT ![ioProcNum] = "done"]
  BY DEF NoReport, AllReported, Goto
<1>2. TypeOK /\ OwnReads
  BY Account
<1>3. /\ UNCHANGED <<plan, file, vReads, nReqs, msgs, copies, allReads, busyProcs, totalIOReqs,
                     reqsPending>>
      /\ availableFiles' = availableFiles
  BY <1>1 DEF coordinating
<1>4. /\ availableFiles' \in [Files -> 0 .. conf.nOpensPerFile]
      /\ \A f \in Files : availableFiles'[f] <= availableFiles[f]
  BY <1>2, <1>3 DEF TypeOK
<1>5. /\ pc' \in [Ranks -> {"ready", "reading", "await", "done"}]
      /\ \A q \in Ranks : pc'[q] = "reading" => vReads[q] # {}
  BY <1>1, <1>2 DEF TypeOK, OwnReads, At
<1> QED
  BY <1>1, <1>3, <1>4, <1>5, NothingMoves

\* A scan only ever lowers how often a file may be opened.
LEMMA ScanLowers ==
    ASSUME TypeOK, conf.nOpensPerFile \in Nat, NEW S
    PROVE  /\ Scanned(S) \in [Files -> 0 .. conf.nOpensPerFile]
           /\ \A f \in Files : Scanned(S)[f] <= availableFiles[f]
  BY DEF Scanned, TypeOK

LEMMA NothingToGiveKeeps ==
    ASSUME ReadIInv, ~conf.sync, NothingToGive
    PROVE  ReadIInv'
<1>1. /\ UNCHANGED <<plan, file, vReads, nReqs, msgs, copies, allReads, busyProcs, totalIOReqs,
                     reqsPending>>
      /\ availableFiles' = Scanned(Files)
      /\ pc' = [pc EXCEPT ![ioProcNum] = IF vReads[ioProcNum] = {} THEN "await" ELSE "reading"]
  BY DEF NothingToGive, Goto
<1>2. TypeOK /\ OwnReads /\ conf.nOpensPerFile \in Nat
  BY Account
<1>3. /\ availableFiles' \in [Files -> 0 .. conf.nOpensPerFile]
      /\ \A f \in Files : availableFiles'[f] <= availableFiles[f]
  BY <1>1, <1>2, ScanLowers
<1>4. /\ pc' \in [Ranks -> {"ready", "reading", "await", "done"}]
      /\ \A q \in Ranks : pc'[q] = "reading" => vReads[q] # {}
  BY <1>1, <1>2 DEF TypeOK, OwnReads, At
<1> QED
  BY <1>1, <1>3, <1>4, NothingMoves

\* The message becomes the fabs to read: the rank stays given the file.
LEMMA ReceiveKeeps ==
    ASSUME ReadIInv, NEW r \in Ranks, Receive(r)
    PROVE  ReadIInv'
<1>1. PICK m \in msgs :
          /\ m.tag = "read" /\ m.rank = r
          /\ msgs' = msgs \ {m}
          /\ StartReading(r, m.file, Owned(m.file, r))
  BY DEF Receive
<1>2. /\ ~conf.sync /\ r # ioProcNum
      /\ pc' = [pc EXCEPT ![r] = "reading"]
      /\ UNCHANGED plan
      /\ UNCHANGED <<nReqs, copies, allReads, availableFiles, busyProcs, totalIOReqs, reqsPending>>
  BY DEF Receive, Goto, coordinating
<1>3. PICK g : g = m.file
  OBVIOUS
<1>4. /\ PlanOK /\ TypeOK /\ OneErrand /\ OwnReads /\ ByLeave
      /\ busyProcs \subseteq Ranks
      /\ totalIOReqs = Cardinality(Counted)
      /\ \A f \in Files : availableFiles[f] + Cardinality(GivenTo(f)) <= conf.nOpensPerFile
  BY <1>2, Account
<1>5. /\ conf' = conf /\ Files' = Files
      /\ \A f, q : Owned(f, q)' = Owned(f, q)
      /\ \A f, q : Owned(f, q) \subseteq Fabs
  BY <1>2, PlanKept DEF Owned, InFile
<1>6. m = Message("read", r, g) /\ g \in Files
  BY <1>1, <1>3, <1>4, MessageOf
<1>7. /\ file' = [file EXCEPT ![r] = g]
      /\ vReads' = [vReads EXCEPT ![r] = Owned(g, r)]
  BY <1>1, <1>3 DEF StartReading
<1>8. /\ r \in busyProcs /\ vReads[r] = {} /\ Owned(g, r) # {}
      /\ \A n \in msgs : n.rank = r => n = m
  BY <1>1, <1>3, <1>4 DEF OneErrand
<1>9. /\ file'[r] = g /\ vReads'[r] = Owned(g, r)
      /\ \A q \in Ranks \ {r} : file'[q] = file[q] /\ vReads'[q] = vReads[q]
  BY <1>4, <1>7 DEF TypeOK
<1>10. \A n \in msgs' : n.rank # r
  BY <1>1, <1>8
<1>11. \A q \in Ranks : \A f : Given(q, f)' <=> Given(q, f)
  <2>1. ASSUME NEW q \in Ranks, q # r, NEW f PROVE Given(q, f)' <=> Given(q, f)
    <3>1. \A n : n.rank = q => (n \in msgs' <=> n \in msgs)
      BY <1>1, <2>1
    <3> QED
      BY <1>2, <1>9, <2>1, <3>1, GivenKept
  <2>2. ASSUME NEW f PROVE Given(r, f)' <=> Given(r, f)
    <3>1. Given(r, f) <=> f = g
      <4>1. Given(r, f) <=> Message("read", r, f) \in msgs
        BY <1>1, <1>2, <1>8 DEF Given
      <4>2. Message("read", r, f) \in msgs <=> f = g
        BY <1>1, <1>6, <1>8 DEF Message
      <4> QED
        BY <4>1, <4>2
    <3>2. Given(r, f)' <=> f = g
      <4>1. Message("read", r, f)' \notin msgs'
        BY <1>10 DEF Message
      <4> QED
        BY <1>2, <1>8, <1>9, <1>10, <4>1 DEF Given
    <3> QED
      BY <3>1, <3>2
  <2> QED
    BY <2>1, <2>2
<1>12. \A k : NotGiven(k)' <=> NotGiven(k)
  BY <1>2, <1>5 DEF NotGiven
<1>13. Counted' = Counted /\ \A f : GivenTo(f)' = GivenTo(f)
  <2>1. \A k \in Fabs : conf.owner[k] \in Ranks
    BY <1>4 DEF PlanOK
  <2>2. \A k \in Fabs : NotReported(k)' <=> NotReported(k)
    BY <1>5, <1>11, <2>1 DEF NotReported
  <2>3. vReads'[ioProcNum] = vReads[ioProcNum]
    BY <1>2, <1>9, Numbers
  <2> QED
    BY <1>11, <1>12, <2>2, <2>3 DEF Counted, GivenTo
<1>14. \A q \in Ranks : Awaited(q)' = Awaited(q)
  <2>1. \A q, f : Message("read", q, f)' = Message("read", q, f)
    BY DEF Message
  <2>2. ASSUME NEW q \in Ranks, q # r PROVE Awaited(q)' = Awaited(q)
    <3>1. \A f : Message("read", q, f) \in msgs' <=> Message("read", q, f) \in msgs
      BY <1>1, <2>2 DEF Message
    <3> QED
      BY <1>5, <1>9, <1>12, <2>1, <2>2, <3>1 DEF Awaited
  <2>3. Awaited(r)' = Awaited(r)
    <3>1. \A k : Message("read", r, conf.file[k]) \in msgs <=> conf.file[k] = g
      BY <1>1, <1>6, <1>8 DEF Message
    <3>2. \A k : Message("read", r, conf.file[k]) \notin msgs'
      BY <1>10 DEF Message
    <3>3. Awaited(r) = {k \in Fabs : conf.owner[k] = r /\ (NotGiven(k) \/ conf.file[k] = g)}
      BY <1>8, <3>1 DEF Awaited
    <3>4. Awaited(r)' = {k \in Fabs : conf.owner[k] = r /\ (NotGiven(k) \/ k \in Owned(g, r))}
      BY <1>5, <1>9, <1>12, <2>1, <3>2 DEF Awaited
    <3> QED
      BY <3>3, <3>4 DEF Owned, InFile
  <2> QED
    BY <2>2, <2>3
<1>15. OneErrand'
  <2> SUFFICES ASSUME NEW n \in msgs'
               PROVE  /\ n.tag \in {"read", "done"} /\ n.rank # ioProcNum /\ n.rank \in busyProcs'
                      /\ vReads'[n.rank] = {} /\ Owned(n.file, n.rank)' # {}
                      /\ n.tag = "done" => n.file = file'[n.rank]
                      /\ \A p \in msgs' : p.rank = n.rank => p = n
    BY DEF OneErrand
  <2>1. n \in msgs /\ n.rank # r /\ n.rank \in Ranks
    BY <1>1, <1>4, <1>10, MessageOf
  <2> QED
    BY <1>1, <1>2, <1>4, <1>5, <1>9, <2>1 DEF OneErrand
<1>16. OwnReads'
  <2> SUFFICES ASSUME NEW q \in Ranks
               PROVE  /\ pc'[q] = "reading" => vReads'[q] # {}
                      /\ vReads'[q] # {} =>
                            /\ q \in busyProcs' /\ \A n \in msgs' : n.rank # q
                            /\ vReads'[q] \subseteq Owned(file'[q], q)
    BY <1>5 DEF OwnReads, At, Owned, InFile
  <2>1. CASE q = r
    BY <1>2, <1>5, <1>8, <1>9, <1>10, <2>1
  <2>2. CASE q # r
    BY <1>1, <1>2, <1>4, <1>5, <1>9, <2>2 DEF OwnReads, At, TypeOK
  <2> QED
    BY <2>1, <2>2
<1>17. /\ pc' \in [Ranks -> {"ready", "reading", "await", "done"}]
       /\ file' \in [Ranks -> Files \cup {0}]
       /\ vReads' \in [Ranks -> SUBSET Fabs]
       /\ nReqs' \in [Ranks -> 0..NFabs]
       /\ msgs' \subseteq [tag : {"handoff", "read", "done"}, rank : Ranks, file : Files]
       /\ copies' \in [Fabs -> Seq(Ranks)]
       /\ availableFiles' \in [Files -> 0 .. conf.nOpensPerFile]
       /\ reqsPending' = Cardinality(busyProcs' \ {ioProcNum})
  BY <1>1, <1>2, <1>4, <1>5, <1>6, <1>7 DEF TypeOK
<1>18. /\ \A f \in Files, q \in Ranks : Given(q, f)' => [file |-> f, rank |-> q] \notin allReads'
       /\ \A q \in Ranks \ {ioProcNum} : nReqs'[q] = Cardinality(Awaited(q)')
  BY <1>2, <1>4, <1>11, <1>14 DEF ByLeave
<1>19. /\ totalIOReqs' = Cardinality(Counted') /\ busyProcs' \subseteq Ranks
       /\ allReads' \subseteq allReads
       /\ \A f \in Files : availableFiles'[f] + Cardinality(GivenTo(f)') <= conf.nOpensPerFile
  BY <1>2, <1>4, <1>13
<1> QED
  BY <1>2, <1>15, <1>16, <1>17, <1>18, <1>19, Accounted

\* What a rank is reading it has been given, so that it is among the fabs not read by now.
LEMMA Reading ==
    ASSUME ReadIInv, ~conf.sync, NEW r \in Ranks, vReads[r] # {}
    PROVE  /\ file[r] \in Files /\ Owned(file[r], r) # {}
           /\ vReads[r] \subseteq Owned(file[r], r)
           /\ r \in busyProcs /\ \A m \in msgs : m.rank # r
           /\ \A f : Given(r, f) <=> f = file[r]
           /\ \A k \in vReads[r] : k \in Fabs /\ conf.owner[k] = r /\ conf.file[k] = file[r]
                                   /\ ~NotGiven(k)
<1>1. PlanOK /\ TypeOK /\ OwnReads /\ ByLeave
  BY Account
<1>2. /\ r \in busyProcs /\ (\A m \in msgs : m.rank # r)
      /\ vReads[r] \subseteq Owned(file[r], r)
  BY <1>1 DEF OwnReads
<1>3. \A k \in vReads[r] : k \in Fabs /\ conf.owner[k] = r /\ conf.file[k] = file[r]
  BY <1>2 DEF Owned, InFile
<1>4. file[r] \in Files
  BY <1>1, <1>3, FileNumbers
<1>5. \A f : Given(r, f) <=> f = file[r]
  <2>1. \A f : Message("read", r, f) \notin msgs
    BY <1>2 DEF Message
  <2> QED
    BY <1>2, <2>1 DEF Given
<1>6. [file |-> file[r], rank |-> r] \notin allReads
  BY <1>1, <1>4, <1>5 DEF ByLeave
<1>7. \A k \in vReads[r] : ~NotGiven(k)
  BY <1>3, <1>6 DEF NotGiven
<1> QED
  BY <1>2, <1>3, <1>4, <1>5, <1>7

\* The rank waits for the fabs it has read no more, and has been given the file until
\* the coordinator takes its report.
LEMMA ReadAndReportKeeps ==
    ASSUME ReadIInv, NEW r \in Ranks, ReadAndReport(r)
    PROVE  ReadIInv'
<1>1. PICK g : g = file[r]
  OBVIOUS
<1>2. /\ ~conf.sync /\ r # ioProcNum /\ At(r, "reading")
      /\ Read(r, vReads[r])
      /\ nReqs' = [nReqs EXCEPT ![r] = @ - Cardinality(vReads[r])]
      /\ vReads' = [vReads EXCEPT ![r] = {}]
      /\ msgs' = msgs \cup {Message("done", r, g)}
      /\ pc' = [pc EXCEPT ![r] = "ready"]
      /\ UNCHANGED plan
      /\ UNCHANGED <<file, allReads, availableFiles, busyProcs, totalIOReqs, reqsPending>>
  BY <1>1 DEF ReadAndReport, Goto, coordinating
<1>3. /\ PlanOK /\ TypeOK /\ OneErrand /\ OwnReads /\ ByLeave
      /\ busyProcs \subseteq Ranks
      /\ totalIOReqs = Cardinality(Counted)
      /\ \A f \in Files : availableFiles[f] + Cardinality(GivenTo(f)) <= conf.nOpensPerFile
  BY <1>2, Account
<1>4. /\ conf' = conf /\ Files' = Files
      /\ \A f, q : Owned(f, q)' = Owned(f, q)
  BY <1>2, PlanKept
<1>5. vReads[r] # {}
  BY <1>2, <1>3 DEF OwnReads
<1>6. /\ g \in Files /\ Owned(g, r) # {}
      /\ r \in busyProcs /\ \A n \in msgs : n.rank # r
      /\ \A k \in vReads[r] : k \in Fabs /\ conf.owner[k] = r /\ conf.file[k] = g /\ ~NotGiven(k)
  BY <1>1, <1>2, <1>5, Reading
<1>7. /\ Message("done", r, g).tag = "done" /\ Message("done", r, g).rank = r
      /\ Message("done", r, g).file = g
      /\ Message("done", r, g) \in [tag : {"handoff", "read", "done"}, rank : Ranks, file : Files]
  BY <1>6 DEF Message
<1>8. \A n : n \in msgs' <=> n \in msgs \/ n = Message("done", r, g)
  BY <1>2
<1>9. /\ vReads'[r] = {} /\ nReqs'[r] = nReqs[r] - Cardinality(vReads[r])
      /\ \A q \in Ranks \ {r} : vReads'[q] = vReads[q] /\ nReqs'[q] = nReqs[q]
  BY <1>2, <1>3 DEF TypeOK
<1>10. \A q, f : Given(q, f)' <=> Given(q, f)
  <2> SUFFICES ASSUME NEW q PROVE \A f : Given(q, f)' <=> Given(q, f)
    OBVIOUS
  <2>1. \A n : n.tag = "read" /\ n.rank = q => (n \in msgs' <=> n \in msgs)
    BY <1>7, <1>8
  <2> QED
    BY <1>2, <2>1, GivenKept
<1>11. \A k : NotGiven(k)' <=> NotGiven(k)
  BY <1>2, <1>4 DEF NotGiven
<1>12. Counted' = Counted /\ \A f : GivenTo(f)' = GivenTo(f)
  <2>1. \A k \in Fabs : NotReported(k)' <=> NotReported(k)
    BY <1>4, <1>10 DEF NotReported
  <2>2. vReads'[ioProcNum] = vReads[ioProcNum]
    BY <1>2, <1>9, Numbers
  <2> QED
    BY <1>10, <1>11, <2>1, <2>2 DEF Counted, GivenTo
<1>13. /\ Awaited(r)' = Awaited(r) \ vReads[r] /\ vReads[r] \subseteq Awaited(r)
       /\ \A q \in Ranks \ {r} : Awaited(q)' = Awaited(q)
  <2>1. \A q, f : /\ Message("read", q, f)' = Message("read", q, f)
                  /\ Message("read", q, f) \in msgs' <=> Message("read", q, f) \in msgs
    BY <1>8 DEF Message
  <2>2. \A f : Message("read", r, f) \notin msgs
    BY <1>6 DEF Message
  <2>3. \A q \in Ranks \ {r} : Awaited(q)' = Awaited(q)
    BY <1>4, <1>9, <1>11, <2>1 DEF Awaited
  <2>4. Awaited(r) = {k \in Fabs : conf.owner[k] = r /\ (NotGiven(k) \/ k \in vReads[r])}
    BY <2>2 DEF Awaited
  <2>5. Awaited(r)' = {k \in Fabs : conf.owner[k] = r /\ NotGiven(k)}
    BY <1>4, <1>9, <1>11, <2>1, <2>2 DEF Awaited
  <2> QED
    BY <1>6, <2>3, <2>4, <2>5
<1>14. \A q \in Ranks \ {ioProcNum} : nReqs'[q] = Cardinality(Awaited(q)')
  <2>1. nReqs[r] = Cardinality(Awaited(r))
    BY <1>2, <1>3 DEF ByLeave
  <2>2. Cardinality(Awaited(r) \ vReads[r]) = Cardinality(Awaited(r)) - Cardinality(vReads[r])
    BY <1>13, CountedFinite, CardMinus
  <2>3. nReqs'[r] = Cardinality(Awaited(r)')
    BY <1>9, <1>13, <2>1, <2>2
  <2> QED
    BY <1>3, <1>9, <1>13, <2>3 DEF ByLeave
<1>15. OneErrand'
  <2> SUFFICES ASSUME NEW n \in msgs'
               PROVE  /\ n.tag \in {"read", "done"} /\ n.rank # ioProcNum /\ n.rank \in busyProcs'
                      /\ vReads'[n.rank] = {} /\ Owned(n.file, n.rank)' # {}
                      /\ n.tag = "done" => n.file = file'[n.rank]
                      /\ \A p \in msgs' : p.rank = n.rank => p = n
    BY DEF OneErrand
  <2>1. CASE n \in msgs
    <3>1. n.rank # r /\ n.rank \in Ranks
      BY <1>3, <1>6, <2>1, MessageOf
    <3> QED
      BY <1>2, <1>3, <1>4, <1>7, <1>8, <1>9, <2>1, <3>1 DEF OneErrand
  <2>2. CASE n = Message("done", r, g)
    <3>1. \A p \in msgs' : p.rank = r => p = n
      BY <1>6, <1>8, <2>2
    <3>2. n.tag = "done" /\ n.rank = r /\ n.file = g
      BY <1>7, <2>2
    <3>3. Owned(n.file, n.rank)' # {}
      BY <1>4, <1>6, <3>2
    <3> QED
      BY <1>1, <1>2, <1>6, <1>9, <3>1, <3>2, <3>3
  <2> QED
    BY <1>8, <2>1, <2>2
<1>16. OwnReads'
  <2> SUFFICES ASSUME NEW q \in Ranks
               PROVE  /\ pc'[q] = "reading" => vReads'[q] # {}
                      /\ vReads'[q] # {} =>
                            /\ q \in busyProcs' /\ \A n \in msgs' : n.rank # q
                            /\ vReads'[q] \subseteq Owned(file'[q], q)
    BY <1>4 DEF OwnReads, At, Owned, InFile
  <2>1. CASE q = r
    BY <1>2, <1>3, <1>9, <2>1 DEF TypeOK
  <2>2. CASE q # r
    BY <1>2, <1>3, <1>7, <1>8, <1>9, <2>2 DEF OwnReads, At, TypeOK
  <2> QED
    BY <2>1, <2>2
<1>17. nReqs' \in [Ranks -> 0..NFabs]
  <2>1. nReqs'[r] \in 0..NFabs
    <3>1. Awaited(r) \ vReads[r] \in SUBSET Awaited(r)
      OBVIOUS
    <3>2. /\ Cardinality(Awaited(r) \ vReads[r]) \in Nat
          /\ Cardinality(Awaited(r) \ vReads[r]) <= Cardinality(Awaited(r))
      BY <3>1, CountedFinite, CardMinus
    <3>3. Cardinality(Awaited(r)) \in 0..NFabs /\ NFabs \in Nat
      BY CountedFinite, ReadAssumption
    <3>4. nReqs'[r] = Cardinality(Awaited(r) \ vReads[r])
      BY <1>2, <1>13, <1>14
    <3> QED
      BY <3>2, <3>3, <3>4
  <2> QED
    BY <1>2, <1>3, <1>9, <2>1 DEF TypeOK
<1>18. copies' \in [Fabs -> Seq(Ranks)]
  BY <1>2, <1>3, ReadAppends
<1>19. /\ pc' \in [Ranks -> {"ready", "reading", "await", "done"}]
       /\ file' \in [Ranks -> Files \cup {0}]
       /\ vReads' \in [Ranks -> SUBSET Fabs]
       /\ msgs' \subseteq [tag : {"handoff", "read", "done"}, rank : Ranks, file : Files]
       /\ availableFiles' \in [Files -> 0 .. conf.nOpensPerFile]
       /\ reqsPending' = Cardinality(busyProcs' \ {ioProcNum})
  BY <1>2, <1>3, <1>7 DEF TypeOK
<1>20. \A f \in Files, q \in Ranks : Given(q, f)' => [file |-> f, rank |-> q] \notin allReads'
  BY <1>2, <1>3, <1>10 DEF ByLeave
<1>21. /\ totalIOReqs' = Cardinality(Counted') /\ busyProcs' \subseteq Ranks
       /\ allReads' \subseteq allReads
       /\ \A f \in Files : availableFiles'[f] + Cardinality(GivenTo(f)') <= conf.nOpensPerFile
  BY <1>2, <1>3, <1>12
<1> QED
  BY <1>2, <1>14, <1>15, <1>16, <1>17, <1>18, <1>19, <1>20, <1>21, Accounted

\* What is given out: a read of the list, of a file that may be opened, to a rank
\* that is not busy and of which nothing is in transit.
LEMMA ToGive ==
    ASSUME ReadIInv, ~conf.sync, Assignable # {}
    PROVE  LET f == Min(Assignable)
               r == Min({a.rank : a \in Idle(f)})
           IN  /\ f \in Files /\ availableFiles[f] > 0
               /\ r \in Ranks \ busyProcs
               /\ [file |-> f, rank |-> r] \in allReads
               /\ Owned(f, r) # {}
               /\ \A m \in msgs : m.rank # r
               /\ vReads[r] = {} /\ \A g : ~Given(r, g)
<1> DEFINE f == Min(Assignable)
           R == {a.rank : a \in Idle(f)}
           r == Min(R)
<1>1. PlanOK /\ TypeOK /\ OneErrand /\ OwnReads /\ ByLeave
  BY Account
<1>2. f \in Assignable
  <2>1. Assignable \in SUBSET Nat
    BY <1>1, FileNumbers DEF Assignable
  <2> QED
    BY <2>1, MinOfNaturals
<1>3. f \in Files /\ availableFiles[f] > 0 /\ Idle(f) # {}
  BY <1>2 DEF Assignable
<1> HIDE DEF f
<1>4. \A a \in Idle(f) : /\ a \in allReads /\ a.file = f /\ a.rank \in Ranks \ busyProcs
                         /\ a = [file |-> f, rank |-> a.rank] /\ Owned(f, a.rank) # {}
  <2> SUFFICES ASSUME NEW a \in Idle(f)
               PROVE  /\ a \in allReads /\ a.file = f /\ a.rank \in Ranks \ busyProcs
                      /\ a = [file |-> f, rank |-> a.rank] /\ Owned(f, a.rank) # {}
    OBVIOUS
  <2>1. a \in allReads /\ a.file = f /\ a.rank \notin busyProcs
    BY DEF Idle
  <2>2. PICK k \in Fabs : a = [file |-> conf.file[k], rank |-> conf.owner[k]]
    BY <1>1, <2>1 DEF ByLeave
  <2>3. conf.owner[k] \in Ranks /\ a.rank = conf.owner[k] /\ conf.file[k] = f
    BY <1>1, <2>1, <2>2 DEF PlanOK
  <2>4. k \in Owned(f, a.rank)
    BY <2>3 DEF Owned, InFile
  <2> QED
    BY <2>1, <2>2, <2>3, <2>4
<1>5. r \in R
  <2>1. R \in SUBSET Nat /\ R # {}
    BY <1>3, <1>4, Numbers
  <2> HIDE DEF R
  <2> QED
    BY <2>1, MinOfNaturals
<1>6. /\ r \in Ranks \ busyProcs /\ [file |-> f, rank |-> r] \in allReads
      /\ Owned(f, r) # {}
  BY <1>4, <1>5
<1> HIDE DEF r
<1>7. (\A m \in msgs : m.rank # r) /\ vReads[r] = {} /\ \A g : ~Given(r, g)
  BY <1>1, <1>6 DEF OneErrand, OwnReads, Given
<1> QED
  BY <1>3, <1>6, <1>7 DEF f, r

\* The file may be opened once less, and one rank more has been given it.
LEMMA GiveKeeps ==
    ASSUME ReadIInv, ~conf.sync, Give
    PROVE  ReadIInv'
<1>1. PICK f : f = Min(Assignable)
  OBVIOUS
<1>2. PICK r : r = Min({a.rank : a \in Idle(f)})
  OBVIOUS
<1>3. /\ busyProcs' = busyProcs \cup {r}
      /\ allReads' = allReads \ {[file |-> f, rank |-> r]}
      /\ availableFiles' = GivenOut(f)
      /\ IF r = ioProcNum
         THEN /\ StartReading(r, f, Owned(f, r))
              /\ UNCHANGED <<msgs, reqsPending>>
         ELSE /\ msgs' = msgs \cup {Message("read", r, f)}
              /\ reqsPending' = reqsPending + 1
              /\ UNCHANGED <<file, vReads>>
      /\ UNCHANGED plan /\ UNCHANGED <<pc, nReqs, copies, totalIOReqs>>
      /\ Assignable # {}
  BY <1>1, <1>2 DEF Give
<1>4. /\ PlanOK /\ TypeOK /\ OneErrand /\ OwnReads /\ ByLeave
      /\ conf.nOpensPerFile \in Nat \ {0} /\ busyProcs \subseteq Ranks
      /\ totalIOReqs = Cardinality(Counted)
      /\ \A g \in Files : availableFiles[g] + Cardinality(GivenTo(g)) <= conf.nOpensPerFile
  BY Account
<1>5. /\ f \in Files /\ availableFiles[f] > 0
      /\ r \in Ranks \ busyProcs
      /\ [file |-> f, rank |-> r] \in allReads
      /\ Owned(f, r) # {}
      /\ \A m \in msgs : m.rank # r
      /\ vReads[r] = {} /\ \A g : ~Given(r, g)
  BY <1>1, <1>2, <1>3, ToGive
<1>6. /\ conf' = conf /\ Files' = Files
      /\ \A g, q : Owned(g, q)' = Owned(g, q)
      /\ \A g, q : Owned(g, q) \subseteq Fabs
  BY <1>3, PlanKept DEF Owned, InFile
<1>7. /\ Message("read", r, f).tag = "read" /\ Message("read", r, f).rank = r
      /\ Message("read", r, f).file = f
      /\ Message("read", r, f) \in [tag : {"handoff", "read", "done"}, rank : Ranks, file : Files]
      /\ \A q, g : Message("read", q, g)' = Message("read", q, g)
      /\ \A g : Message("read", r, g) = Message("read", r, f) <=> g = f
      /\ \A q, g : Message("read", q, g).rank = q
  BY <1>5 DEF Message
<1>8. \A n : n \in msgs' <=> n \in msgs \/ (r # ioProcNum /\ n = Message("read", r, f))
  BY <1>3
<1>9. /\ \A q \in Ranks \ {r} : file'[q] = file[q] /\ vReads'[q] = vReads[q]
      /\ vReads'[r] = IF r = ioProcNum THEN Owned(f, r) ELSE {}
      /\ r = ioProcNum => file'[r] = f
      /\ file' \in [Ranks -> Files \cup {0}]
      /\ vReads' \in [Ranks -> SUBSET Fabs]
  <2>1. file \in [Ranks -> Files \cup {0}] /\ vReads \in [Ranks -> SUBSET Fabs]
    BY <1>4 DEF TypeOK
  <2>2. CASE r = ioProcNum
    <3>1. /\ file' = [file EXCEPT ![r] = f]
          /\ vReads' = [vReads EXCEPT ![r] = Owned(f, r)]
      BY <1>3, <2>2 DEF StartReading
    <3>2. Owned(f, r) \in SUBSET Fabs
      BY <1>6
    <3> QED
      BY <1>5, <2>1, <2>2, <3>1, <3>2
  <2>3. CASE r # ioProcNum
    <3>1. file' = file /\ vReads' = vReads
      BY <1>3, <2>3
    <3> QED
      BY <1>5, <2>1, <2>3, <3>1
  <2> QED
    BY <2>2, <2>3
<1>10. /\ \A q \in Ranks \ {r} : \A g : Given(q, g)' <=> Given(q, g)
       /\ \A g : Given(r, g)' <=> g = f
  <2>1. ASSUME NEW q \in Ranks \ {r} PROVE \A g : Given(q, g)' <=> Given(q, g)
    <3>1. \A n : n.tag = "read" /\ n.rank = q => (n \in msgs' <=> n \in msgs)
      BY <1>7, <1>8, <2>1
    <3>2. q \in busyProcs' <=> q \in busyProcs
      BY <1>3, <2>1
    <3> QED
      BY <1>9, <2>1, <3>1, <3>2, GivenKept
  <2>2. ASSUME NEW g PROVE Given(r, g)' <=> g = f
    <3>1. r \in busyProcs'
      BY <1>3
    <3>2. CASE r = ioProcNum
      <4>1. \A n \in msgs' : n.rank # r
        BY <1>5, <1>8, <3>2
      <4> QED
        BY <1>9, <3>1, <3>2, <4>1 DEF Given
    <3>3. CASE r # ioProcNum
      <4>1. Message("read", r, g)' \in msgs' <=> g = f
        BY <1>5, <1>7, <1>8, <3>3
      <4>2. Message("read", r, f) \in msgs'
        BY <1>8, <3>3
      <4> QED
        BY <1>7, <3>1, <3>3, <4>1, <4>2 DEF Given
    <3> QED
      BY <3>2, <3>3
  <2> QED
    BY <2>1, <2>2
<1>11. \A k \in Fabs : /\ NotGiven(k)' <=> NotGiven(k) /\ k \notin Owned(f, r)
                       /\ k \in Owned(f, r) <=> conf.owner[k] = r /\ conf.file[k] = f
                       /\ k \in Owned(f, r) => NotGiven(k)
  BY <1>3, <1>5, <1>6 DEF NotGiven, Owned, InFile
<1>12. Counted' = Counted
  <2>1. \A k \in Fabs : conf.owner[k] \in Ranks
    BY <1>4 DEF PlanOK
  <2>2. \A k \in Fabs : NotReported(k)' <=> NotReported(k) \/ (r # ioProcNum /\ k \in Owned(f, r))
    BY <1>5, <1>6, <1>10, <1>11, <2>1 DEF NotReported
  <2>3. vReads'[ioProcNum] = vReads[ioProcNum] \cup (IF r = ioProcNum THEN Owned(f, r) ELSE {})
    BY <1>5, <1>9, Numbers
  <2> QED
    BY <1>11, <2>2, <2>3 DEF Counted
<1>13. \A q \in Ranks \ {ioProcNum} : Awaited(q)' = Awaited(q)
  <2> SUFFICES ASSUME NEW q \in Ranks \ {ioProcNum} PROVE Awaited(q)' = Awaited(q)
    OBVIOUS
  <2>1. CASE q # r
    <3>1. \A g : Message("read", q, g)' \in msgs' <=> Message("read", q, g) \in msgs
      BY <1>7, <1>8, <2>1
    <3>2. \A k \in Fabs : conf.owner[k] = q => (NotGiven(k)' <=> NotGiven(k))
      BY <1>11, <2>1
    <3> QED
      BY <1>6, <1>9, <2>1, <3>1, <3>2 DEF Awaited
  <2>2. CASE q = r
    <3>1. \A g : /\ Message("read", q, g)' \in msgs' <=> g = f
                 /\ Message("read", q, g) \notin msgs
      BY <1>5, <1>7, <1>8, <2>2
    <3>2. vReads'[q] = {} /\ vReads[q] = {}
      BY <1>5, <1>9, <2>2
    <3>3. Awaited(q) = {k \in Fabs : conf.owner[k] = q /\ NotGiven(k)}
      BY <3>1, <3>2 DEF Awaited
    <3>4. Awaited(q)' = {k \in Fabs : conf.owner[k] = q /\ (NotGiven(k)' \/ conf.file[k] = f)}
      BY <1>6, <3>1, <3>2 DEF Awaited
    <3> QED
      BY <1>11, <2>2, <3>3, <3>4
  <2> QED
    BY <2>1, <2>2
<1>14. OneErrand'
  <2> SUFFICES ASSUME NEW n \in msgs'
               PROVE  /\ n.tag \in {"read", "done"} /\ n.rank # ioProcNum /\ n.rank \in busyProcs'
                      /\ vReads'[n.rank] = {} /\ Owned(n.file, n.rank)' # {}
                      /\ n.tag = "done" => n.file = file'[n.rank]
                      /\ \A p \in msgs' : p.rank = n.rank => p = n
    BY DEF OneErrand
  <2>1. CASE n \in msgs
    <3>1. n.rank # r /\ n.rank \in Ranks
      BY <1>4, <1>5, <2>1, MessageOf
    <3> QED
      BY <1>3, <1>4, <1>6, <1>7, <1>8, <1>9, <2>1, <3>1 DEF OneErrand
  <2>2. CASE r # ioProcNum /\ n = Message("read", r, f)
    <3>1. n.tag = "read" /\ n.rank = r /\ n.file = f
      BY <1>7, <2>2
    <3>2. \A p \in msgs' : p.rank = r => p = n
      BY <1>5, <1>8, <2>2
    <3>3. Owned(n.file, n.rank)' # {}
      BY <1>5, <1>6, <3>1
    <3> QED
      BY <1>3, <1>9, <2>2, <3>1, <3>2, <3>3
  <2> QED
    BY <1>8, <2>1, <2>2
<1>15. OwnReads'
  <2> SUFFICES ASSUME NEW q \in Ranks
               PROVE  /\ pc[q] = "reading" => vReads'[q] # {}
                      /\ vReads'[q] # {} =>
                            /\ q \in busyProcs' /\ \A n \in msgs' : n.rank # q
                            /\ vReads'[q] \subseteq Owned(file'[q], q)
    BY <1>3, <1>6 DEF OwnReads, At, Owned, InFile
  <2>1. CASE q = r
    <3>1. pc[q] # "reading"
      BY <1>4, <1>5, <2>1 DEF OwnReads, At
    <3>2. CASE q = ioProcNum
      <4>1. \A n \in msgs' : n.rank # q
        BY <1>5, <1>8, <2>1, <3>2
      <4> QED
        BY <1>3, <1>9, <2>1, <3>1, <3>2, <4>1
    <3> QED
      BY <1>9, <2>1, <3>1, <3>2
  <2>2. CASE q # r
    BY <1>3, <1>4, <1>7, <1>8, <1>9, <2>2 DEF OwnReads, At
  <2> QED
    BY <2>1, <2>2
<1>16. /\ availableFiles' \in [Files -> 0 .. conf.nOpensPerFile]
       /\ availableFiles'[f] = availableFiles[f] - 1
       /\ \A g \in Files \ {f} : availableFiles'[g] <= availableFiles[g]
  <2> DEFINE T == {g \in Files : g < f}
             A == Scanned(T)
  <2>1. A \in [Files -> 0 .. conf.nOpensPerFile] /\ \A g \in Files : A[g] <= availableFiles[g]
    BY <1>4, ScanLowers
  <2>2. A[f] = availableFiles[f]
    <3>1. f \in Nat
      BY <1>4, <1>5, FileNumbers
    <3>2. f \notin T
      BY <3>1
    <3> HIDE DEF T
    <3> QED
      BY <1>5, <3>2 DEF Scanned
  <2>3. availableFiles' = [A EXCEPT ![f] = @ - 1]
    BY <1>3 DEF GivenOut
  <2> HIDE DEF A
  <2> QED
    BY <1>4, <1>5, <2>1, <2>2, <2>3 DEF TypeOK
<1>17. \A g \in Files : availableFiles'[g] + Cardinality(GivenTo(g)') <= conf.nOpensPerFile
  <2> SUFFICES ASSUME NEW g \in Files
               PROVE  availableFiles'[g] + Cardinality(GivenTo(g)') <= conf.nOpensPerFile
    OBVIOUS
  <2>1. /\ availableFiles[g] \in Nat /\ availableFiles'[g] \in Nat
        /\ IsFiniteSet(GivenTo(g)) /\ Cardinality(GivenTo(g)) \in Nat
        /\ availableFiles[g] + Cardinality(GivenTo(g)) <= conf.nOpensPerFile
    BY <1>4, <1>16, CountedFinite DEF TypeOK
  <2>2. CASE g # f
    <3>1. GivenTo(g)' = GivenTo(g)
      BY <1>5, <1>10, <2>2 DEF GivenTo
    <3> QED
      BY <1>4, <1>16, <2>1, <2>2, <3>1
  <2>3. CASE g = f
    <3>1. GivenTo(f)' = GivenTo(f) \cup {r} /\ r \notin GivenTo(f)
      BY <1>5, <1>10 DEF GivenTo
    <3>2. Cardinality(GivenTo(f) \cup {r}) = Cardinality(GivenTo(f)) + 1
      BY <2>1, <2>3, <3>1, FS_AddElement
    <3> QED
      BY <1>4, <1>16, <2>1, <2>3, <3>1, <3>2
  <2> QED
    BY <2>2, <2>3
<1>18. reqsPending' = Cardinality(busyProcs' \ {ioProcNum})
  <2>1. reqsPending = Cardinality(busyProcs \ {ioProcNum})
    BY <1>4 DEF TypeOK
  <2>2. CASE r = ioProcNum
    <3>1. busyProcs' \ {ioProcNum} = busyProcs \ {ioProcNum}
      BY <1>3, <2>2
    <3> QED
      BY <1>3, <2>1, <2>2, <3>1
  <2>3. CASE r # ioProcNum
    <3>1. /\ busyProcs' \ {ioProcNum} = (busyProcs \ {ioProcNum}) \cup {r}
          /\ r \notin busyProcs \ {ioProcNum}
      BY <1>3, <1>5, <2>3
    <3>2. IsFiniteSet(busyProcs \ {ioProcNum})
      BY <1>4, Numbers, FS_Subset
    <3>3. Cardinality((busyProcs \ {ioProcNum}) \cup {r})
            = Cardinality(busyProcs \ {ioProcNum}) + 1
      BY <3>1, <3>2, FS_AddElement
    <3> QED
      BY <1>3, <2>1, <2>3, <3>1, <3>3
  <2> QED
    BY <2>2, <2>3
<1>19. /\ pc' \in [Ranks -> {"ready", "reading", "await", "done"}]
       /\ nReqs' \in [Ranks -> 0..NFabs]
       /\ msgs' \subseteq [tag : {"handoff", "read", "done"}, rank : Ranks, file : Files]
       /\ copies' \in [Fabs -> Seq(Ranks)]
  BY <1>3, <1>4, <1>7, <1>8 DEF TypeOK
<1>20. /\ \A g \in Files, q \in Ranks : Given(q, g)' => [file |-> g, rank |-> q] \notin allReads'
       /\ \A q \in Ranks \ {ioProcNum} : nReqs'[q] = Cardinality(Awaited(q)')
  BY <1>3, <1>4, <1>10, <1>13 DEF ByLeave
<1>21. /\ totalIOReqs' = Cardinality(Counted') /\ busyProcs' \subseteq Ranks
       /\ allReads' \subseteq allReads
  BY <1>3, <1>4, <1>5, <1>12
<1> QED
  BY <1>3, <1>9, <1>14, <1>15, <1>16, <1>17, <1>18, <1>19, <1>20, <1>21, Accounted

\* A file that is taken back may be opened once more, and one rank less has been given it.
LEMMA TakenBack ==
    ASSUME ReadIInv, ~conf.sync, NEW f \in Files, NEW r \in Ranks,
           Given(r, f), \A g : ~Given(r, g)',
           \A q \in Ranks \ {r} : \A g : Given(q, g)' <=> Given(q, g),
           \A g : g # f => ~Given(r, g),
           availableFiles' = [availableFiles EXCEPT ![f] = @ + 1]
    PROVE  /\ availableFiles' \in [Files -> 0 .. conf.nOpensPerFile]
           /\ \A g \in Files :
                 availableFiles'[g] + Cardinality(GivenTo(g)') <= conf.nOpensPerFile
<1>1. /\ TypeOK /\ conf.nOpensPerFile \in Nat
      /\ \A g \in Files : availableFiles[g] + Cardinality(GivenTo(g)) <= conf.nOpensPerFile
  BY Account
<1>2. \A g \in Files : availableFiles[g] \in Nat /\ Cardinality(GivenTo(g)) \in Nat
  BY <1>1, CountedFinite DEF TypeOK
<1>3. GivenTo(f)' = GivenTo(f) \ {r} /\ {r} \in SUBSET GivenTo(f)
  BY DEF GivenTo
<1>4. Cardinality(GivenTo(f) \ {r}) = Cardinality(GivenTo(f)) - 1
      /\ Cardinality(GivenTo(f) \ {r}) \in Nat
  <2>1. /\ IsFiniteSet(GivenTo(f) \ {r})
        /\ Cardinality(GivenTo(f) \ {r}) = Cardinality(GivenTo(f)) - Cardinality({r})
    BY <1>3, CountedFinite, CardMinus
  <2>2. Cardinality({r}) = 1
    BY FS_Singleton
  <2> QED
    BY <2>1, <2>2, FS_CardinalityType
<1>5. Cardinality(GivenTo(f)') = Cardinality(GivenTo(f)) - 1
  BY <1>3, <1>4
<1>6. availableFiles[f] + 1 \in 0 .. conf.nOpensPerFile
  BY <1>1, <1>2, <1>4
<1>7. availableFiles' \in [Files -> 0 .. conf.nOpensPerFile]
  BY <1>1, <1>6 DEF TypeOK
<1>8. ASSUME NEW g \in Files
      PROVE  availableFiles'[g] + Cardinality(GivenTo(g)') <= conf.nOpensPerFile
  <2>1. CASE g = f
    <3>1. availableFiles'[g] = availableFiles[f] + 1
      BY <1>1, <2>1 DEF TypeOK
    <3>2. Cardinality(GivenTo(g)') = Cardinality(GivenTo(f)) - 1
      BY <1>5, <2>1
    <3> QED
      BY <1>1, <1>2, <3>1, <3>2
  <2>2. CASE g # f
    <3>1. GivenTo(g)' = GivenTo(g)
      BY <2>2 DEF GivenTo
    <3>2. availableFiles'[g] = availableFiles[g]
      BY <1>1, <2>2 DEF TypeOK
    <3> QED
      BY <1>1, <3>1, <3>2
  <2> QED
    BY <2>1, <2>2
<1> QED
  BY <1>7, <1>8

\* With the last of its fabs the coordinator takes the file back from itself.
LEMMA ReadOwnKeeps ==
    ASSUME ReadIInv, ~conf.sync, ReadOwn
    PROVE  ReadIInv'
<1>1. PICK f : f = file[ioProcNum]
  OBVIOUS
<1>2. PICK k : k = Min(vReads[ioProcNum])
  OBVIOUS
<1>3. PICK left : left = vReads[ioProcNum] \ {k}
  OBVIOUS
<1>4. /\ At(ioProcNum, "reading")
      /\ Read(ioProcNum, {k})
      /\ vReads' = [vReads EXCEPT ![ioProcNum] = left]
      /\ totalIOReqs' = totalIOReqs - 1
      /\ availableFiles' = IF left = {} THEN [availableFiles EXCEPT ![f] = @ + 1]
                           ELSE availableFiles
      /\ busyProcs' = IF left = {} THEN busyProcs \ {ioProcNum} ELSE busyProcs
      /\ \/ pc' = [pc EXCEPT ![ioProcNum] = "await"]
         \/ left # {} /\ pc' = pc
      /\ UNCHANGED plan /\ UNCHANGED <<file, nReqs, msgs, allReads, reqsPending>>
  BY <1>1, <1>2, <1>3 DEF ReadOwn, Goto
<1>5. /\ PlanOK /\ TypeOK /\ OneErrand /\ OwnReads /\ ByLeave
      /\ conf.nOpensPerFile \in Nat \ {0} /\ busyProcs \subseteq Ranks
      /\ totalIOReqs = Cardinality(Counted)
      /\ \A g \in Files : availableFiles[g] + Cardinality(GivenTo(g)) <= conf.nOpensPerFile
  BY Account
<1>6. /\ conf' = conf /\ Files' = Files
      /\ \A g, q : Owned(g, q)' = Owned(g, q)
  BY <1>4, PlanKept
<1>7. ioProcNum \in Ranks /\ vReads[ioProcNum] # {}
  BY <1>4, <1>5, Numbers DEF OwnReads
<1>8. /\ f \in Files
      /\ vReads[ioProcNum] \subseteq Owned(f, ioProcNum)
      /\ ioProcNum \in busyProcs /\ \A m \in msgs : m.rank # ioProcNum
      /\ \A g : Given(ioProcNum, g) <=> g = f
      /\ \A j \in vReads[ioProcNum] : j \in Fabs /\ conf.owner[j] = ioProcNum /\ ~NotGiven(j)
  BY <1>1, <1>7, Reading
<1>9. k \in vReads[ioProcNum]
  <2>1. Fabs \subseteq Nat
    BY DEF Fabs
  <2>2. vReads[ioProcNum] \in SUBSET Nat
    BY <1>8, <2>1
  <2> QED
    BY <1>2, <1>7, <2>2, MinOfNaturals
<1>10. /\ vReads'[ioProcNum] = left /\ left \subseteq vReads[ioProcNum]
       /\ \A q \in Ranks \ {ioProcNum} : vReads'[q] = vReads[q]
  BY <1>3, <1>4, <1>5, <1>7 DEF TypeOK
<1>11. \A q \in Ranks \ {ioProcNum} : \A g : Given(q, g)' <=> Given(q, g)
  <2> SUFFICES ASSUME NEW q \in Ranks \ {ioProcNum} PROVE \A g : Given(q, g)' <=> Given(q, g)
    OBVIOUS
  <2>1. q \in busyProcs' <=> q \in busyProcs
    BY <1>4
  <2> QED
    BY <1>4, <2>1, GivenKept
<1>12. \A j : NotGiven(j)' <=> NotGiven(j)
  BY <1>4, <1>6 DEF NotGiven
<1>13. totalIOReqs' = Cardinality(Counted')
  <2>1. \A j \in Fabs : conf.owner[j] \in Ranks
    BY <1>5 DEF PlanOK
  <2>2. \A j \in Fabs : NotReported(j)' <=> NotReported(j)
    BY <1>6, <1>11, <2>1 DEF NotReported
  <2>3. Counted' = Counted \ {k}
    BY <1>3, <1>8, <1>9, <1>10, <1>12, <2>2 DEF Counted, NotReported
  <2>4. {k} \in SUBSET Counted
    BY <1>8, <1>9 DEF Counted
  <2>5. Cardinality(Counted \ {k}) = Cardinality(Counted) - Cardinality({k})
    BY <2>4, CountedFinite, CardMinus
  <2>6. Cardinality({k}) = 1
    BY FS_Singleton
  <2> QED
    BY <1>4, <1>5, <2>3, <2>5, <2>6
<1>14. \A q \in Ranks \ {ioProcNum} : Awaited(q)' = Awaited(q)
  <2>1. \A q, g : Message("read", q, g)' = Message("read", q, g)
    BY DEF Message
  <2> QED
    BY <1>4, <1>6, <1>10, <1>12, <2>1 DEF Awaited
<1>15. OneErrand'
  <2> SUFFICES ASSUME NEW n \in msgs
               PROVE  /\ n.tag \in {"read", "done"} /\ n.rank # ioProcNum /\ n.rank \in busyProcs'
                      /\ vReads'[n.rank] = {} /\ Owned(n.file, n.rank)' # {}
                      /\ n.tag = "done" => n.file = file[n.rank]
                      /\ \A p \in msgs : p.rank = n.rank => p = n
    BY <1>4 DEF OneErrand
  <2>1. n.rank # ioProcNum /\ n.rank \in Ranks
    BY <1>5, <1>8, MessageOf
  <2> QED
    BY <1>4, <1>5, <1>6, <1>10, <2>1 DEF OneErrand
<1>16. OwnReads'
  <2> SUFFICES ASSUME NEW q \in Ranks
               PROVE  /\ pc'[q] = "reading" => vReads'[q] # {}
                      /\ vReads'[q] # {} =>
                            /\ q \in busyProcs' /\ \A n \in msgs : n.rank # q
                            /\ vReads'[q] \subseteq Owned(file[q], q)
    BY <1>4, <1>6 DEF OwnReads, At, Owned, InFile
  <2>1. CASE q = ioProcNum
    <3>1. pc'[q] = "reading" => left # {}
      BY <1>4, <1>5, <2>1 DEF TypeOK
    <3>2. left # {} => busyProcs' = busyProcs
      BY <1>4
    <3>3. left \subseteq Owned(file[q], q)
      BY <1>1, <1>8, <1>10, <2>1
    <3> QED
      BY <1>8, <1>10, <2>1, <3>1, <3>2, <3>3
  <2>2. CASE q # ioProcNum
    BY <1>4, <1>5, <1>10, <2>2 DEF OwnReads, At, TypeOK
  <2> QED
    BY <2>1, <2>2
<1>17. /\ availableFiles' \in [Files -> 0 .. conf.nOpensPerFile]
       /\ \A g \in Files : availableFiles'[g] + Cardinality(GivenTo(g)') <= conf.nOpensPerFile
       /\ \A g \in Files, q \in Ranks : Given(q, g)' => [file |-> g, rank |-> q] \notin allReads'
  <2>1. CASE left = {}
    <3>1. \A g : ~Given(ioProcNum, g)'
      BY <1>4, <2>1 DEF Given
    <3>2. availableFiles' = [availableFiles EXCEPT ![f] = @ + 1]
      BY <1>4, <2>1
    <3>3. Given(ioProcNum, f) /\ \A g : g # f => ~Given(ioProcNum, g)
      BY <1>8
    <3>4. /\ availableFiles' \in [Files -> 0 .. conf.nOpensPerFile]
          /\ \A g \in Files : availableFiles'[g] + Cardinality(GivenTo(g)') <= conf.nOpensPerFile
      BY <1>7, <1>8, <1>11, <3>1, <3>2, <3>3, TakenBack
    <3>5. \A g \in Files, q \in Ranks : Given(q, g)' => [file |-> g, rank |-> q] \notin allReads'
      BY <1>4, <1>5, <1>11, <3>1 DEF ByLeave
    <3> QED
      BY <3>4, <3>5
  <2>2. CASE left # {}
    <3>1. \A q, g : Given(q, g)' <=> Given(q, g)
      <4>1. busyProcs' = busyProcs
        BY <1>4, <2>2
      <4> QED
        BY <1>4, <4>1, GivenKept
    <3>2. \A g : GivenTo(g)' = GivenTo(g)
      BY <3>1 DEF GivenTo
    <3>3. availableFiles' = availableFiles
      BY <1>4, <2>2
    <3>4. availableFiles' \in [Files -> 0 .. conf.nOpensPerFile]
      BY <1>5, <3>3 DEF TypeOK
    <3>5. \A g \in Files, q \in Ranks : Given(q, g)' => [file |-> g, rank |-> q] \notin allReads'
      BY <1>4, <1>5, <3>1 DEF ByLeave
    <3> QED
      BY <1>5, <3>2, <3>3, <3>4, <3>5
  <2> QED
    BY <2>1, <2>2
<1>18. reqsPending' = Cardinality(busyProcs' \ {ioProcNum})
  <2>1. busyProcs' \ {ioProcNum} = busyProcs \ {ioProcNum}
    BY <1>4
  <2> QED
    BY <1>4, <1>5, <2>1 DEF TypeOK
<1>19. copies' \in [Fabs -> Seq(Ranks)]
  BY <1>4, <1>5, <1>7, ReadAppends
<1>20. vReads' \in [Ranks -> SUBSET Fabs]
  <2>1. left \in SUBSET Fabs /\ vReads \in [Ranks -> SUBSET Fabs]
    BY <1>5, <1>8, <1>10 DEF TypeOK
  <2> QED
    BY <1>4, <2>1
<1>21. /\ pc' \in [Ranks -> {"ready", "reading", "await", "done"}]
       /\ file' \in [Ranks -> Files \cup {0}]
       /\ nReqs' \in [Ranks -> 0..NFabs]
       /\ msgs' \subseteq [tag : {"handoff", "read", "done"}, rank : Ranks, file : Files]
  BY <1>4, <1>5 DEF TypeOK
<1>22. \A q \in Ranks \ {ioProcNum} : nReqs'[q] = Cardinality(Awaited(q)')
  BY <1>4, <1>5, <1>14 DEF ByLeave
<1>23. busyProcs' \subseteq Ranks /\ allReads' \subseteq allReads
  BY <1>4, <1>5
<1> QED
  BY <1>4, <1>13, <1>15, <1>16, <1>17, <1>18, <1>19, <1>20, <1>21, <1>22, <1>23, Accounted

\* The rank that has reported is given nothing any more, and all it owns of the file is read.
LEMMA TakeReportKeeps ==
    ASSUME ReadIInv, ~conf.sync, TakeReport
    PROVE  ReadIInv'
<1>1. PICK m \in msgs :
          /\ m.tag = "done"
          /\ msgs' = msgs \ {m}
          /\ totalIOReqs' = totalIOReqs - Reported(m)
          /\ reqsPending' = reqsPending - 1
          /\ busyProcs' = busyProcs \ {m.rank}
          /\ availableFiles' = [availableFiles EXCEPT ![m.file] = @ + 1]
  BY DEF TakeReport
<1>2. /\ pc' = [pc EXCEPT ![ioProcNum] = "ready"]
      /\ UNCHANGED plan /\ UNCHANGED <<file, vReads, nReqs, copies, allReads>>
  BY DEF TakeReport, Goto
<1>3. PICK r : r = m.rank
  OBVIOUS
<1>4. PICK f : f = m.file
  OBVIOUS
<1>5. /\ PlanOK /\ TypeOK /\ OneErrand /\ OwnReads /\ ByLeave
      /\ conf.nOpensPerFile \in Nat \ {0} /\ busyProcs \subseteq Ranks
      /\ totalIOReqs = Cardinality(Counted)
  BY Account
<1>6. /\ conf' = conf /\ Files' = Files
      /\ \A g, q : Owned(g, q)' = Owned(g, q)
  BY <1>2, PlanKept
<1>7. /\ r \in Ranks \ {ioProcNum} /\ f \in Files
      /\ r \in busyProcs /\ vReads[r] = {} /\ file[r] = f
      /\ \A n \in msgs : n.rank = r => n = m
  BY <1>1, <1>3, <1>4, <1>5, MessageOf DEF OneErrand
<1>8. /\ \A q \in Ranks \ {r} : \A g : Given(q, g)' <=> Given(q, g)
      /\ \A g : /\ Given(r, g) <=> g = f
                /\ ~Given(r, g)'
  <2>1. ASSUME NEW q \in Ranks \ {r} PROVE \A g : Given(q, g)' <=> Given(q, g)
    <3>1. q \in busyProcs' <=> q \in busyProcs
      BY <1>1, <1>3
    <3>2. \A n : n.tag = "read" /\ n.rank = q => (n \in msgs' <=> n \in msgs)
      BY <1>1
    <3> QED
      BY <1>2, <3>1, <3>2, GivenKept
  <2>2. ASSUME NEW g PROVE Given(r, g) <=> g = f
    <3>1. \A n \in msgs : ~(n.tag = "read" /\ n.rank = r)
      BY <1>1, <1>7
    <3>2. Message("read", r, g) \notin msgs
      BY <3>1 DEF Message
    <3> QED
      BY <1>7, <3>1, <3>2 DEF Given
  <2>3. \A g : ~Given(r, g)'
    BY <1>1, <1>3 DEF Given
  <2> QED
    BY <2>1, <2>2, <2>3
<1>9. \A k : NotGiven(k)' <=> NotGiven(k)
  BY <1>2, <1>6 DEF NotGiven
<1>10. totalIOReqs' = Cardinality(Counted')
  <2>1. \A k \in Fabs : conf.owner[k] \in Ranks
    BY <1>5 DEF PlanOK
  <2>2. \A k \in Fabs : k \in Owned(f, r) <=> conf.owner[k] = r /\ conf.file[k] = f
    BY DEF Owned, InFile
  <2>3. \A k \in Fabs : NotReported(k)' <=> NotReported(k) /\ k \notin Owned(f, r)
    BY <1>6, <1>7, <1>8, <2>1, <2>2 DEF NotReported
  <2>4. \A k \in Owned(f, r) : /\ k \in Fabs /\ NotReported(k) /\ ~NotGiven(k)
                               /\ k \notin vReads[ioProcNum]
    <3> SUFFICES ASSUME NEW k \in Owned(f, r)
                 PROVE  /\ k \in Fabs /\ NotReported(k) /\ ~NotGiven(k)
                        /\ k \notin vReads[ioProcNum]
      OBVIOUS
    <3>1. k \in Fabs /\ conf.owner[k] = r /\ conf.file[k] = f
      BY DEF Owned, InFile
    <3>2. NotReported(k)
      BY <1>7, <1>8, <3>1 DEF NotReported
    <3>3. ~NotGiven(k)
      BY <1>5, <1>7, <1>8, <3>1 DEF ByLeave, NotGiven
    <3>4. k \notin vReads[ioProcNum]
      BY <1>5, <1>7, <3>1, Numbers DEF OwnReads, Owned
    <3> QED
      BY <3>1, <3>2, <3>3, <3>4
  <2>5. Counted' = Counted \ Owned(f, r)
    BY <1>2, <1>9, <2>3, <2>4 DEF Counted
  <2>6. Owned(f, r) \in SUBSET Counted
    BY <2>4 DEF Counted
  <2>7. Cardinality(Counted \ Owned(f, r)) = Cardinality(Counted) - Cardinality(Owned(f, r))
    BY <2>6, CountedFinite, CardMinus
  <2>8. Reported(m) = Cardinality(Owned(f, r))
    BY <1>3, <1>4 DEF Reported
  <2> QED
    BY <1>1, <1>5, <2>5, <2>7, <2>8
<1>11. \A q \in Ranks \ {ioProcNum} : Awaited(q)' = Awaited(q)
  <2>1. \A q, g : Message("read", q, g)' = Message("read", q, g)
                  /\ (Message("read", q, g) \in msgs' <=> Message("read", q, g) \in msgs)
    BY <1>1 DEF Message
  <2> QED
    BY <1>2, <1>6, <1>9, <2>1 DEF Awaited
<1>12. OneErrand'
  <2> SUFFICES ASSUME NEW n \in msgs'
               PROVE  /\ n.tag \in {"read", "done"} /\ n.rank # ioProcNum /\ n.rank \in busyProcs'
                      /\ vReads[n.rank] = {} /\ Owned(n.file, n.rank)' # {}
                      /\ n.tag = "done" => n.file = file[n.rank]
                      /\ \A p \in msgs' : p.rank = n.rank => p = n
    BY <1>2 DEF OneErrand
  <2>1. n \in msgs /\ n.rank # r
    BY <1>1, <1>7
  <2> QED
    BY <1>1, <1>3, <1>5, <1>6, <2>1 DEF OneErrand
<1>13. OwnReads'
  <2> SUFFICES ASSUME NEW q \in Ranks
               PROVE  /\ pc'[q] = "reading" => vReads[q] # {}
                      /\ vReads[q] # {} =>
                            /\ q \in busyProcs' /\ \A n \in msgs' : n.rank # q
                            /\ vReads[q] \subseteq Owned(file[q], q)
    BY <1>2, <1>6 DEF OwnReads, At, Owned, InFile
  <2>1. pc'[q] = "reading" => pc[q] = "reading"
    BY <1>2, <1>5 DEF TypeOK
  <2> QED
    BY <1>1, <1>3, <1>5, <1>7, <2>1 DEF OwnReads, At
<1>14. /\ availableFiles' \in [Files -> 0 .. conf.nOpensPerFile]
       /\ \A g \in Files : availableFiles'[g] + Cardinality(GivenTo(g)') <= conf.nOpensPerFile
  <2>1. availableFiles' = [availableFiles EXCEPT ![f] = @ + 1]
    BY <1>1, <1>4
  <2>2. Given(r, f) /\ (\A g : ~Given(r, g)') /\ \A g : g # f => ~Given(r, g)
    BY <1>8
  <2> QED
    BY <1>7, <1>8, <2>1, <2>2, TakenBack
<1>15. reqsPending' = Cardinality(busyProcs' \ {ioProcNum})
  <2> DEFINE B == busyProcs \ {ioProcNum}
  <2>1. busyProcs' \ {ioProcNum} = B \ {r} /\ {r} \in SUBSET B
    BY <1>1, <1>3, <1>7
  <2>2. IsFiniteSet(B) /\ reqsPending = Cardinality(B)
    <3>1. IsFiniteSet(B)
      BY <1>5, Numbers, FS_Subset
    <3> QED
      BY <1>5, <3>1 DEF TypeOK
  <2> HIDE DEF B
  <2>3. Cardinality(B \ {r}) = Cardinality(B) - Cardinality({r}) /\ Cardinality({r}) = 1
    BY <2>1, <2>2, CardMinus, FS_Singleton
  <2> QED
    BY <1>1, <2>1, <2>2, <2>3
<1>16. /\ pc' \in [Ranks -> {"ready", "reading", "await", "done"}]
       /\ file' \in [Ranks -> Files \cup {0}]
       /\ vReads' \in [Ranks -> SUBSET Fabs]
       /\ nReqs' \in [Ranks -> 0..NFabs]
       /\ msgs' \subseteq [tag : {"handoff", "read", "done"}, rank : Ranks, file : Files]
       /\ copies' \in [Fabs -> Seq(Ranks)]
  BY <1>1, <1>2, <1>5 DEF TypeOK
<1>17. /\ \A g \in Files, q \in Ranks : Given(q, g)' => [file |-> g, rank |-> q] \notin allReads'
       /\ \A q \in Ranks \ {ioProcNum} : nReqs'[q] = Cardinality(Awaited(q)')
  BY <1>2, <1>5, <1>8, <1>11 DEF ByLeave
<1>18. busyProcs' \subseteq Ranks /\ allReads' \subseteq allReads
  BY <1>1, <1>2, <1>5
<1> QED
  BY <1>2, <1>10, <1>12, <1>13, <1>14, <1>15, <1>16, <1>17, <1>18, Accounted

-----------------------------------------------------------------------------
(***************************************************************************)
(* The theorems                                                            *)
(***************************************************************************)
LEMMA ReadNext == ReadIInv /\ [Next]_vars => ReadIInv'
<1> SUFFICES ASSUME ReadIInv, [Next]_vars PROVE ReadIInv'
  OBVIOUS
<1>1. CASE Coordinate
  BY <1>1, GiveKeeps, NothingToGiveKeeps, ReadOwnKeeps, TakeReportKeeps, CoordinatorGoesOn
     DEF Coordinate
<1>2. ASSUME NEW r \in Ranks, ChainStep(r) PROVE ReadIInv'
  BY <1>2, ReadyToReadKeeps, ReadAndHandOnKeeps, LeaveChainsKeeps DEF ChainStep
<1>3. ASSUME NEW r \in Ranks, ReaderStep(r) PROVE ReadIInv'
  BY <1>3, ReceiveKeeps, ReadAndReportKeeps, LeaveKeeps DEF ReaderStep
<1>4. CASE UNCHANGED vars
  <2>1. /\ UNCHANGED <<plan, file, vReads, nReqs, msgs, copies, coordinating>>
        /\ UNCHANGED <<plan, file, vReads, nReqs, msgs, copies, allReads, busyProcs, totalIOReqs,
                       reqsPending>>
        /\ UNCHANGED <<plan, nReqs, coordinating>>
        /\ pc' = pc /\ availableFiles' = availableFiles
    BY <1>4 DEF vars, coordinating
  <2>2. TypeOK
    BY DEF ReadIInv
  <2>3. CASE conf.sync
    <3>1. /\ pc' \in [Ranks -> {"ready", "reading", "await", "done"}]
          /\ file' \in [Ranks -> Files \cup {0}]
          /\ vReads' \in [Ranks -> SUBSET Fabs]
          /\ msgs' \subseteq [tag : {"handoff", "read", "done"}, rank : Ranks, file : Files]
          /\ copies' \in [Fabs -> Seq(Ranks)]
      BY <2>1, <2>2 DEF TypeOK
    <3>2. /\ PlanOK' /\ TypeOK' /\ busyProcs' = {} /\ \A k \in Fabs : NotGiven(k)'
      BY <2>1, <2>3, <3>1, SyncTypes
    <3>3. /\ conf' = conf /\ toRead' = toRead /\ Files' = Files
          /\ \A f, r : Before(f, r)' = Before(f, r)
      BY <2>1, PlanKept
    <3>4. InChains'
      BY <2>1, <2>3, <3>2, <3>3 DEF ReadIInv, InChains, Passed, At
    <3> QED
      BY <2>3, <3>2, <3>3, <3>4 DEF ReadIInv
  <2>4. CASE ~conf.sync
    <3>1. conf.nOpensPerFile \in Nat /\ OwnReads
      BY <2>4, Account
    <3>2. /\ pc' \in [Ranks -> {"ready", "reading", "await", "done"}]
          /\ \A r \in Ranks : pc'[r] = "reading" => vReads[r] # {}
          /\ availableFiles' \in [Files -> 0 .. conf.nOpensPerFile]
          /\ \A f \in Files : availableFiles'[f] <= availableFiles[f]
      BY <2>1, <2>2, <3>1 DEF TypeOK, OwnReads, At
    <3> QED
      BY <2>1, <2>4, <3>2, NothingMoves
  <2> QED
    BY <2>3, <2>4
<1> QED
  BY <1>1, <1>2, <1>3, <1>4 DEF Next

\* The plan, the chains and the coordinator's account hold throughout, whichever
\* branch is taken.
THEOREM ReadInvariance == Spec => []ReadIInv
<1>1. Init => ReadIInv
  BY InitReads
<1>2. ReadIInv /\ [Next]_vars => ReadIInv'
  BY ReadNext
<1> QED
  BY <1>1, <1>2, PTL DEF Spec

\* The coordinator waits for the reports of just the other ranks that are busy, and
\* counts just the fabs it has still to hear of, so that it leaves when all are read
\* and not before; no file's count ever falls below zero or rises above the limit.
THEOREM ReadTypeCorrect == Spec => []TypeOK
<1>1. ReadIInv => TypeOK
  BY DEF ReadIInv
<1> QED
  BY <1>1, ReadInvariance, PTL

\* Two ranks of a chain never have the file open together.
LEMMA OneOfAChain ==
    ASSUME PlanOK, TypeOK, InChains, NEW f \in Files
    PROVE  /\ Open(f) \subseteq ReadFileRanks(f)
           /\ \A r, q \in Open(f) : streamSet[f][r] = streamSet[f][q] => r = q
<1>1. Open(f) \subseteq ReadFileRanks(f)
  BY DEF Open, ReadFileRanks, InChains
<1>2. f >= f
  BY FileNumbers
<1>3. ASSUME NEW r \in Open(f), NEW q \in Open(f), streamSet[f][r] = streamSet[f][q], r < q
      PROVE  FALSE
  <2>1. r \in ReadFileRanks(f) /\ q \in ReadFileRanks(f)
    BY <1>1
  <2>2. r \in Before(f, q)
    BY <1>3, <2>1 DEF PlanOK, Before
  <2>3. file[q] = f /\ file[r] = f /\ vReads[r] # {} /\ q \in Ranks /\ toRead[f][q] # {}
    BY <2>1 DEF Open, ReadFileRanks
  <2>4. Passed(r, f)
    BY <1>2, <2>2, <2>3 DEF InChains
  <2>5. ~(f > f)
    BY FileNumbers
  <2> QED
    BY <2>3, <2>4, <2>5 DEF Passed
<1>4. ASSUME NEW r \in Open(f), NEW q \in Open(f), streamSet[f][r] = streamSet[f][q]
      PROVE  r = q
  <2>1. r \in Nat /\ q \in Nat
    BY Numbers DEF Open
  <2>2. r < q \/ q < r \/ r = q
    BY <2>1
  <2> QED
    BY <1>3, <1>4, <2>2
<1> QED
  BY <1>1, <1>4

LEMMA OpensOfIInv == ReadIInv => OpensLimited
<1> SUFFICES ASSUME ReadIInv, NEW f \in Files
             PROVE  Cardinality(Open(f)) <= conf.nOpensPerFile
  BY DEF OpensLimited
<1>1. PlanOK /\ TypeOK
  BY DEF ReadIInv
<1>2. conf.nOpensPerFile \in Nat
  <2>1. conf.nOpensPerFile \in Streams
    BY <1>1 DEF PlanOK
  <2> QED
    BY <2>1, Numbers
<1>3. IsFiniteSet(Open(f)) /\ Cardinality(Open(f)) \in Nat
  <2>1. IsFiniteSet(Open(f))
    BY Numbers, FS_Subset DEF Open
  <2> QED
    BY <2>1, FS_CardinalityType
<1>4. CASE conf.sync
  <2>1. InChains
    BY <1>4 DEF ReadIInv
  <2> DEFINE T == {streamSet[f][r] : r \in ReadFileRanks(f)}
             g == [r \in Open(f) |-> streamSet[f][r]]
  <2>2. g \in Injection(Open(f), T)
    <3>1. /\ Open(f) \subseteq ReadFileRanks(f)
          /\ \A r, q \in Open(f) : streamSet[f][r] = streamSet[f][q] => r = q
      BY <1>1, <2>1, OneOfAChain
    <3>2. g \in [Open(f) -> T]
      BY <3>1
    <3>3. \A r, q \in Open(f) : g[r] = g[q] => r = q
      BY <3>1
    <3> QED
      BY <3>2, <3>3 DEF Injection, IsInjective
  <2>3. IsFiniteSet(T) /\ Cardinality(T) <= conf.nOpensPerFile
    <3>1. IsFiniteSet(ReadFileRanks(f))
      BY Numbers, FS_Subset DEF ReadFileRanks
    <3> DEFINE h == [r \in ReadFileRanks(f) |-> streamSet[f][r]]
    <3>2. \A t \in T : \E r \in ReadFileRanks(f) : t = h[r]
      OBVIOUS
    <3>3. Cardinality(T) <= conf.nOpensPerFile
      BY <1>1 DEF PlanOK
    <3> HIDE DEF h, T
    <3>4. IsFiniteSet(T)
      BY <3>1, <3>2, ImageCard
    <3> QED
      BY <3>3, <3>4
  <2> HIDE DEF T, g
  <2>4. Cardinality(Open(f)) <= Cardinality(T) /\ Cardinality(T) \in Nat
    BY <2>2, <2>3, FS_Injection, FS_CardinalityType
  <2> QED
    BY <1>2, <1>3, <2>3, <2>4
<1>5. CASE ~conf.sync
  <2>1. availableFiles[f] + Cardinality(GivenTo(f)) <= conf.nOpensPerFile
    BY <1>5, Account
  <2>2. availableFiles[f] \in Nat
    BY <1>1 DEF TypeOK
  <2>3. Open(f) \in SUBSET GivenTo(f)
    <3>1. \A r \in Open(f) : r \in Ranks /\ vReads[r] # {} /\ file[r] = f
      BY DEF Open
    <3> QED
      BY <1>5, <3>1, Reading DEF GivenTo
  <2>4. IsFiniteSet(GivenTo(f)) /\ Cardinality(GivenTo(f)) \in Nat
    BY CountedFinite
  <2>5. Cardinality(Open(f)) <= Cardinality(GivenTo(f))
    BY <2>3, <2>4, CardMinus
  <2> QED
    BY <1>2, <1>3, <2>1, <2>2, <2>4, <2>5
<1> QED
  BY <1>4, <1>5

\* No file is ever open by more ranks at once than nMFFileInStreams allows, whichever
\* ranks are slow and in whatever order they report or hand a file on.
THEOREM OpensLimitedAlways == Spec => []OpensLimited
<1>1. ReadIInv => OpensLimited
  BY OpensOfIInv
<1> QED
  BY <1>1, ReadInvariance, PTL
=============================================================================

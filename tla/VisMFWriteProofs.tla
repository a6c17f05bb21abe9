-------------------------- MODULE VisMFWriteProofs --------------------------
(***************************************************************************)
(* Proofs about VisMFWrite and NFilesIter, for any number of ranks and     *)
(* files and in all three modes.  The first argument is about who owns a   *)
(* file: every step hands it from a rank to a message, from a message to a *)
(* rank or to the coordinator's list, and never makes a second owner.  The *)
(* second is about the messages: what the decider and the coordinator have *)
(* still to receive is what the others have sent or are still to send.     *)
(* The third is about the coordinator's record of the writes: it is what a *)
(* file holds and, when a rank has to write to it, that rank.              *)
(***************************************************************************)
EXTENDS VisMFWrite, FiniteSetTheorems, WellFoundedInduction, TLAPS

-----------------------------------------------------------------------------
(***************************************************************************)
(* Arithmetic                                                              *)
(***************************************************************************)
\* Division by a positive number.
LEMMA DivMod ==
    ASSUME NEW a \in Nat, NEW b \in Nat \ {0}
    PROVE  /\ a \div b \in Nat
           /\ a % b \in 0 .. b - 1
           /\ a = b * (a \div b) + (a % b)
  BY Z3

\* Quotient and remainder are determined.
LEMMA DivModUnique ==
    ASSUME NEW b \in Nat \ {0}, NEW q \in Nat, NEW r \in 0 .. b - 1
    PROVE  (b * q + r) \div b = q /\ (b * q + r) % b = r
  BY Z3

LEMMA MulNat == ASSUME NEW a \in Nat, NEW b \in Nat PROVE a * b \in Nat
  BY Z3

LEMMA MulBelow ==
    ASSUME NEW a \in Nat, NEW b \in Nat \ {0}
    PROVE  a <= b * a
  BY Z3

LEMMA DivLeq ==
    ASSUME NEW a \in Nat, NEW b \in Nat \ {0}
    PROVE  a \div b <= a
<1>1. a \div b <= b * (a \div b) /\ b * (a \div b) \in Nat
  BY DivMod, MulBelow, MulNat
<1> QED
  BY <1>1, DivMod

\* A set of natural numbers has a least member.
LEMMA MinOfNaturals ==
    ASSUME NEW T \in SUBSET Nat, T # {}
    PROVE  Min(T) \in T /\ \A m \in T : Min(T) <= m
<1> DEFINE Less == OpToRel(<, Nat)
<1>1. IsWellFoundedOn(Less, Nat)
  BY NatLessThanWellFounded
<1> HIDE DEF Less
<1>2. PICK n \in T : \A m \in T : ~(<<m, n>> \in Less)
  BY <1>1, WFMin
<1>3. ASSUME NEW m \in T, m < n PROVE FALSE
  <2>1. <<m, n>> \in Less
    BY <1>3 DEF Less, OpToRel
  <2> QED
    BY <1>2, <2>1
<1>4. \A m \in T : n <= m
  BY <1>3
<1> QED
  BY <1>4 DEF Min

-----------------------------------------------------------------------------
(***************************************************************************)
(* Sets and files                                                          *)
(***************************************************************************)
LEMMA RankNumbers ==
    /\ Ranks \subseteq Nat
    /\ FileNumbers = Ranks
    /\ 0 \in Ranks
    /\ \A r \in Ranks : r < NProcs
  BY NProcsAssumption DEF Ranks, FileNumbers

LEMMA SetLength ==
    ASSUME conf \in Configurations
    PROVE  /\ conf.nOutFiles \in Nat \ {0} /\ conf.nOutFiles <= NProcs
           /\ LengthOfSet(conf.nOutFiles) \in Nat \ {0}
<1>1. conf.nOutFiles \in 1..NProcs
  BY DEF Configurations
<1> DEFINE n == conf.nOutFiles
           a == NProcs + n - 1
           l == a \div n
<1>2. n \in Nat \ {0} /\ n <= NProcs /\ a \in Nat /\ n <= a
  BY <1>1, NProcsAssumption
<1>3. l \in Nat /\ a % n \in 0 .. n - 1 /\ a = n * l + (a % n)
  BY <1>2, DivMod
<1>4. l # 0
  <2> SUFFICES ASSUME l = 0 PROVE FALSE
    OBVIOUS
  <2>1. n * l = 0
    BY <1>2
  <2> HIDE DEF l, a
  <2> QED
    BY <1>2, <1>3, <2>1
<1> QED
  BY <1>2, <1>3, <1>4 DEF LengthOfSet

\* Where a rank is: in which file and in which turn.
LEMMA Place ==
    ASSUME conf \in Configurations, NEW r \in Ranks
    PROVE  /\ FileNumber(r) \in FileNumbers
           /\ WhichSetPosition(r) \in Nat
<1>1. r \in Nat /\ r < NProcs
  BY RankNumbers
<1>2. CASE conf.groupSets
  <2>1. r % conf.nOutFiles \in 0 .. conf.nOutFiles - 1 /\ r \div conf.nOutFiles \in Nat
    BY <1>1, SetLength, DivMod
  <2> QED
    BY <1>2, <2>1, SetLength, NProcsAssumption DEF FileNumber, WhichSetPosition, FileNumbers
<1>3. CASE ~conf.groupSets
  <2> DEFINE l == LengthOfSet(conf.nOutFiles)
  <2>1. l \in Nat \ {0}
    BY SetLength
  <2> HIDE DEF l
  <2>2. r % l \in 0 .. l - 1 /\ r \div l \in Nat /\ r \div l <= r
    BY <1>1, <2>1, DivMod, DivLeq
  <2>3. FileNumber(r) = r \div l /\ WhichSetPosition(r) = r % l
    BY <1>3 DEF l, FileNumber, WhichSetPosition
  <2> QED
    BY <1>1, <2>1, <2>2, <2>3, NProcsAssumption DEF FileNumbers
<1> QED
  BY <1>2, <1>3

\* No two ranks have one turn at one file.
LEMMA PlaceUnique ==
    ASSUME conf \in Configurations, NEW r \in Ranks, NEW q \in Ranks,
           FileNumber(r) = FileNumber(q), WhichSetPosition(r) = WhichSetPosition(q)
    PROVE  r = q
<1>1. r \in Nat /\ q \in Nat
  BY RankNumbers
<1> DEFINE n == conf.nOutFiles
           l == LengthOfSet(conf.nOutFiles)
<1>2. n \in Nat \ {0} /\ l \in Nat \ {0}
  BY SetLength
<1>3. PICK b \in Nat \ {0} : r \div b = q \div b /\ r % b = q % b
  <2>1. CASE conf.groupSets
    BY <1>2, <2>1 DEF FileNumber, WhichSetPosition
  <2>2. CASE ~conf.groupSets
    BY <1>2, <2>2 DEF FileNumber, WhichSetPosition
  <2> QED
    BY <2>1, <2>2
<1>4. r = b * (r \div b) + (r % b) /\ q = b * (q \div b) + (q % b)
  BY <1>1, DivMod
<1> QED
  BY <1>3, <1>4

\* With static set selection the next rank of a set writes to the same file.
LEMMA SuccessorSameFile ==
    ASSUME conf \in Configurations, NEW r \in Ranks, Successor(r) < NProcs,
           WhichSetPosition(Successor(r)) > WhichSetPosition(r)
    PROVE  Successor(r) \in Ranks /\ FileNumber(Successor(r)) = FileNumber(r)
<1>1. r \in Nat
  BY RankNumbers
<1>2. CASE conf.groupSets
  <2> DEFINE n == conf.nOutFiles
  <2>1. n \in Nat \ {0}
    BY SetLength
  <2>2. r \div n \in Nat /\ r % n \in 0 .. n - 1 /\ r = n * (r \div n) + (r % n)
    BY <1>1, <2>1, DivMod
  <2> DEFINE q == r \div n
             m == r % n
  <2>3. Successor(r) = r + n /\ FileNumber(r) = m /\ FileNumber(r + n) = (r + n) % n
    BY <1>2 DEF Successor, FileNumber
  <2> HIDE DEF n, q, m
  <2>4. q \in Nat /\ m \in 0 .. n - 1 /\ r = n * q + m
    BY <2>2 DEF q, m
  <2>5. r + n = n * (q + 1) + m
    BY <2>1, <2>4, Z3
  <2>6. (r + n) % n = m
    <3> DEFINE k == q + 1
    <3>1. k \in Nat /\ r + n = n * k + m
      BY <2>4, <2>5
    <3> HIDE DEF k
    <3> QED
      BY <2>1, <2>4, <3>1, DivModUnique
  <2> QED
    BY <1>1, <2>1, <2>3, <2>6, NProcsAssumption DEF Ranks
<1>3. CASE ~conf.groupSets
  <2> DEFINE l == LengthOfSet(conf.nOutFiles)
  <2>1. l \in Nat \ {0}
    BY SetLength
  <2>2. Successor(r) = r + 1 /\ (r + 1) % l > r % l
        /\ FileNumber(r) = r \div l /\ FileNumber(r + 1) = (r + 1) \div l
    BY <1>3 DEF Successor, FileNumber, WhichSetPosition
  <2> HIDE DEF l
  <2> DEFINE q == r \div l
             m == r % l
  <2>3. q \in Nat /\ m \in 0 .. l - 1 /\ r = l * q + m
    BY <1>1, <2>1, DivMod
  <2>4. (r + 1) \div l = q
    <3> HIDE DEF q
    <3>0. m = r % l
      OBVIOUS
    <3> HIDE DEF m
    <3>1. CASE m + 1 < l
      <4>1. r + 1 = l * q + (m + 1) /\ m + 1 \in 0 .. l - 1
        BY <2>1, <2>3, <3>1
      <4> QED
        BY <2>1, <2>3, <4>1, DivModUnique
    <3>2. CASE m + 1 = l
      <4>1. r + 1 = l * (q + 1) + 0
        BY <2>1, <2>3, <3>2, Z3
      <4>2. (r + 1) % l = 0
        BY <2>1, <2>3, <4>1, DivModUnique
      <4> QED
        BY <2>1, <2>2, <2>3, <3>0, <4>2
    <3> QED
      BY <2>1, <2>3, <3>1, <3>2
  <2> QED
    BY <1>1, <2>1, <2>2, <2>4, NProcsAssumption DEF Ranks
<1> QED
  BY <1>2, <1>3

\* The sizes of the two sorts of ranks.
LEMMA SetSizes ==
    ASSUME conf \in Configurations
    PROVE  /\ IsFiniteSet(SetZeroProcs) /\ IsFiniteSet(AvailableDeciders)
           /\ Cardinality(SetZeroProcs) \in 1..NProcs
           /\ NProcs - Cardinality(SetZeroProcs) = Cardinality(AvailableDeciders)
           /\ Cardinality(AvailableDeciders) \in Nat
<1>1. IsFiniteSet(Ranks) /\ Cardinality(Ranks) = NProcs
  <2>1. 0 \in Int /\ NProcs - 1 \in Int
    BY NProcsAssumption
  <2>2. /\ IsFiniteSet(0 .. NProcs - 1)
        /\ Cardinality(0 .. NProcs - 1) = IF 0 > NProcs - 1 THEN 0 ELSE (NProcs - 1) - 0 + 1
    BY <2>1, FS_Interval
  <2> QED
    BY <2>2, NProcsAssumption DEF Ranks
<1>2. SetZeroProcs \subseteq Ranks /\ AvailableDeciders = Ranks \ SetZeroProcs
  BY DEF SetZeroProcs, AvailableDeciders
<1>3. /\ IsFiniteSet(SetZeroProcs) /\ Cardinality(SetZeroProcs) <= NProcs
      /\ IsFiniteSet(AvailableDeciders)
  BY <1>1, <1>2, FS_Subset
<1>4. WhichSetPosition(0) = 0
  <2>1. /\ 0 % LengthOfSet(conf.nOutFiles) = 0
        /\ 0 \div conf.nOutFiles = 0
    <3>1. ASSUME NEW b \in Nat \ {0} PROVE 0 % b = 0 /\ 0 \div b = 0
      BY Z3
    <3> QED
      BY <3>1, SetLength
  <2> QED
    BY <2>1 DEF WhichSetPosition
<1>5. Cardinality(SetZeroProcs) # 0
  <2>1. SetZeroProcs # {}
    BY <1>4, RankNumbers DEF SetZeroProcs
  <2> QED
    BY <2>1, <1>3, FS_EmptySet
<1>6. Cardinality(SetZeroProcs) \in Nat /\ Cardinality(AvailableDeciders) \in Nat
  BY <1>3, FS_CardinalityType
<1>7. Cardinality(Ranks) = Cardinality(AvailableDeciders) + Cardinality(SetZeroProcs)
  <2>1. Cardinality(AvailableDeciders) = Cardinality(Ranks) - Cardinality(Ranks \cap SetZeroProcs)
    BY <1>1, <1>2, FS_Difference
  <2>2. Ranks \cap SetZeroProcs = SetZeroProcs
    BY <1>2
  <2> QED
    BY <1>1, <1>6, <2>1, <2>2, NProcsAssumption
<1> QED
  BY <1>1, <1>3, <1>5, <1>6, <1>7

-----------------------------------------------------------------------------
(***************************************************************************)
(* Owners                                                                  *)
(***************************************************************************)
\* What depends only on the arguments does not change.
LEMMA PlacesKept ==
    ASSUME conf' = conf
    PROVE  /\ \A r : FileNumber(r)' = FileNumber(r) /\ WhichSetPosition(r)' = WhichSetPosition(r)
           /\ SetZeroProcs' = SetZeroProcs /\ AvailableDeciders' = AvailableDeciders
  BY DEF FileNumber, WhichSetPosition, SetZeroProcs, AvailableDeciders, LengthOfSet, Ranks

\* A step that gives no file to anybody.
LEMMA FewerOwners ==
    ASSUME OneOwner,
           \A q \in Ranks, f \in FileNumbers : Has(q, f)' => Has(q, f),
           \A m \in msgs', f \in FileNumbers : Carries(m, f)' => m \in msgs /\ Carries(m, f),
           availableFileNumbers' \subseteq availableFileNumbers
    PROVE  OneOwner'
  BY DEF OneOwner

\* A rank hands its file to a message.
LEMMA RankToMessage ==
    ASSUME OneOwner,
           NEW r \in Ranks, NEW g \in FileNumbers, NEW k, Has(r, g),
           \A f \in FileNumbers : ~Has(r, f)',
           \A q \in Ranks \ {r}, f \in FileNumbers : Has(q, f)' => Has(q, f),
           \A m \in msgs', f \in FileNumbers :
               Carries(m, f)' => (m \in msgs /\ Carries(m, f)) \/ (m = k /\ f = g),
           availableFileNumbers' \subseteq availableFileNumbers
    PROVE  OneOwner'
  BY DEF OneOwner

\* A rank takes a file from a message.
LEMMA MessageToRank ==
    ASSUME OneOwner,
           NEW r \in Ranks, NEW g \in FileNumbers, NEW k \in msgs, Carries(k, g),
           \A f \in FileNumbers : Has(r, f)' => f = g,
           \A q \in Ranks \ {r}, f \in FileNumbers : Has(q, f)' => Has(q, f),
           \A m \in msgs', f \in FileNumbers : Carries(m, f)' => m \in msgs \ {k} /\ Carries(m, f),
           availableFileNumbers' \subseteq availableFileNumbers
    PROVE  OneOwner'
  BY DEF OneOwner

\* The coordinator adds the file of a rank or of a message to its list, or takes one from
\* the list for a message.
LEMMA RankToList ==
    ASSUME OneOwner,
           NEW r \in Ranks, NEW g \in FileNumbers, Has(r, g),
           \A f \in FileNumbers : ~Has(r, f)',
           \A q \in Ranks \ {r}, f \in FileNumbers : Has(q, f)' => Has(q, f),
           \A m \in msgs', f \in FileNumbers : Carries(m, f)' => m \in msgs /\ Carries(m, f),
           availableFileNumbers' = {g}
    PROVE  OneOwner'
  BY DEF OneOwner

LEMMA MessageToList ==
    ASSUME OneOwner,
           NEW g \in FileNumbers, NEW k \in msgs, Carries(k, g),
           \A q \in Ranks, f \in FileNumbers : Has(q, f)' => Has(q, f),
           \A m \in msgs', f \in FileNumbers : Carries(m, f)' => m \in msgs \ {k} /\ Carries(m, f),
           availableFileNumbers' = availableFileNumbers \cup {g}
    PROVE  OneOwner'
  BY DEF OneOwner

LEMMA ListToMessage ==
    ASSUME OneOwner,
           NEW g \in availableFileNumbers, g \in FileNumbers, NEW k,
           \A q \in Ranks, f \in FileNumbers : Has(q, f)' => Has(q, f),
           \A m \in msgs', f \in FileNumbers :
               Carries(m, f)' => (m \in msgs /\ Carries(m, f)) \/ (m = k /\ f = g),
           availableFileNumbers' = availableFileNumbers \ {g}
    PROVE  OneOwner'
  BY DEF OneOwner

LEMMA HasKept ==
    ASSUME conf' = conf, NEW q \in Ranks, pc'[q] = pc[q], fileNumber'[q] = fileNumber[q]
    PROVE  \A f : Has(q, f)' <=> Has(q, f)
  BY PlacesKept DEF Has, At

LEMMA CarriesKept ==
    ASSUME conf' = conf
    PROVE  \A m, f : Carries(m, f)' <=> Carries(m, f)
  BY PlacesKept DEF Carries

\* A rank has one file, the one it has open or is to open.
LEMMA HasOwn ==
    ASSUME TypeOK, NEW r \in Ranks
    PROVE  /\ fileNumber[r] \in FileNumbers
           /\ \A f : Has(r, f) => f = fileNumber[r]
           /\ pc[r] \in {"writing", "written", "elect"} => Has(r, fileNumber[r])
  BY DEF TypeOK, Has

LEMMA EmptyContents ==
    ASSUME TypeOK, NEW f
    PROVE  [files EXCEPT ![f] = <<>>] \in [FileNumbers -> Seq(Ranks \cup {Old})]
<1>1. <<>> \in Seq(Ranks \cup {Old})
  OBVIOUS
<1> QED
  BY <1>1 DEF TypeOK

-----------------------------------------------------------------------------
(***************************************************************************)
(* Static set selection and sparse writes                                  *)
(***************************************************************************)
LEMMA StaticReadyKeeps ==
    ASSUME WriterIInv, NEW r \in Ranks, StaticReady(r), UNCHANGED <<minmax, header>>
    PROVE  WriterIInv'
<1>1. TypeOK /\ ModesKept /\ OneCoordinator /\ OneOwner
  BY DEF WriterIInv
<1>2. /\ conf' = conf /\ conf.mode = "static" /\ pc[r] = "start"
      /\ pc' = [pc EXCEPT ![r] = "writing"]
      /\ fileNumber' = [fileNumber EXCEPT ![r] = FileNumber(r)]
      /\ msgs' \subseteq msgs
      /\ UNCHANGED <<coordinatorProc, coordinating, unreadMessages>>
  BY DEF StaticReady, OpenTruncated, OpenAppending, Goto, At
<1>3. TypeOK'
  <2>1. FileNumber(r) \in FileNumbers
    BY <1>1, Place DEF TypeOK
  <2>2. files' \in [FileNumbers -> Seq(Ranks \cup {Old})]
    <3>1. files' = files \/ \E f \in FileNumbers : files' = [files EXCEPT ![f] = <<>>]
      BY <2>1 DEF StaticReady, OpenTruncated, OpenAppending
    <3>2. files \in [FileNumbers -> Seq(Ranks \cup {Old})]
      BY <1>1 DEF TypeOK
    <3> QED
      BY <1>1, <3>1, <3>2, EmptyContents
  <2> QED
    BY <1>1, <1>2, <2>1, <2>2, PlacesKept DEF TypeOK, coordinating
<1>4. ModesKept'
  BY <1>1, <1>2, PlacesKept DEF ModesKept, TypeOK, coordinating, At
<1>5. OneCoordinator'
  BY <1>1, <1>2 DEF OneCoordinator, ModesKept, TypeOK, coordinating, At, AvailableDeciders
<1>6. OneOwner'
  <2>1. /\ \A q \in Ranks \ {r}, f \in FileNumbers : Has(q, f)' => Has(q, f)
        /\ \A f \in FileNumbers : Has(r, f)' => f = FileNumber(r)
        /\ \A m, f : Carries(m, f)' <=> Carries(m, f)
        /\ FileNumber(r) \in FileNumbers
    <3>1. \A q \in Ranks \ {r} : pc'[q] = pc[q] /\ fileNumber'[q] = fileNumber[q]
      BY <1>1, <1>2 DEF TypeOK
    <3>2. \A f \in FileNumbers : Has(r, f)' => f = FileNumber(r)
      BY <1>1, <1>2 DEF TypeOK, Has
    <3> QED
      BY <1>1, <1>2, <3>1, <3>2, HasKept, CarriesKept, Place DEF TypeOK
  <2>2. CASE WhichSetPosition(r) = 0
    <3>1. Has(r, FileNumber(r))
      BY <1>1, <1>2, <2>2 DEF Has, ModesKept, At
    <3> QED
      BY <1>1, <1>2, <2>1, <3>1, FewerOwners DEF coordinating
  <2>3. CASE WhichSetPosition(r) # 0
    <3>1. PICK k \in Incoming(r, "stWrite") : msgs' = msgs \ {k}
      BY <2>3 DEF StaticReady
    <3>2. k \in msgs /\ Carries(k, FileNumber(r))
      BY <3>1 DEF Incoming, Carries
    <3> QED
      BY <1>1, <1>2, <2>1, <3>1, <3>2, MessageToRank DEF coordinating
  <2> QED
    BY <2>2, <2>3
<1> QED
  BY <1>3, <1>4, <1>5, <1>6 DEF WriterIInv

LEMMA StaticNextKeeps ==
    ASSUME WriterIInv, NEW r \in Ranks, StaticNext(r), UNCHANGED <<minmax, header>>
    PROVE  WriterIInv'
<1> DEFINE k == Message("stWrite", r, Successor(r), 0)
<1>1. TypeOK /\ ModesKept /\ OneCoordinator /\ OneOwner
  BY DEF WriterIInv
<1>2. /\ conf' = conf /\ conf.mode = "static" /\ pc[r] = "written"
      /\ pc' = [pc EXCEPT ![r] = "done"]
      /\ UNCHANGED <<files, fileNumber, coordinatorProc, coordinating, unreadMessages>>
  BY DEF StaticNext, Goto, At
<1>3. fileNumber[r] = FileNumber(r) /\ FileNumber(r) \in FileNumbers
  BY <1>1, <1>2, Place DEF ModesKept, TypeOK
<1>4. \A m \in msgs' : m \in msgs \/ (m = k /\ FileNumber(Successor(r)) = FileNumber(r))
  BY <1>1, SuccessorSameFile DEF StaticNext, TypeOK
<1>5. k.tag = "stWrite" /\ k.src = r /\ k.dst = Successor(r)
  BY DEF Message
<1> HIDE DEF k
<1>6. TypeOK'
  BY <1>1, <1>2, <1>4, <1>5, PlacesKept DEF TypeOK, coordinating
<1>7. ModesKept'
  BY <1>1, <1>2, PlacesKept DEF ModesKept, TypeOK, coordinating, At
<1>8. OneCoordinator'
  BY <1>1, <1>2, <1>4, <1>5 DEF OneCoordinator, ModesKept, TypeOK, coordinating, At,
        AvailableDeciders
<1>9. OneOwner'
  <2>1. Has(r, FileNumber(r))
    BY <1>2, <1>3 DEF Has
  <2>2. \A q \in Ranks \ {r} : pc'[q] = pc[q] /\ fileNumber'[q] = fileNumber[q]
    BY <1>1, <1>2 DEF TypeOK
  <2>3. \A f \in FileNumbers : ~Has(r, f)'
    BY <1>1, <1>2 DEF TypeOK, Has, At
  <2>4. \A m \in msgs', f \in FileNumbers :
            Carries(m, f)' => (m \in msgs /\ Carries(m, f)) \/ (m = k /\ f = FileNumber(r))
    BY <1>2, <1>4, <1>5, CarriesKept DEF Carries
  <2>5. availableFileNumbers' \subseteq availableFileNumbers
    BY <1>2 DEF coordinating
  <2> QED
    BY <1>1, <1>2, <1>3, <2>1, <2>2, <2>3, <2>4, <2>5, HasKept, RankToMessage
<1> QED
  BY <1>6, <1>7, <1>8, <1>9 DEF WriterIInv

LEMMA SparseReadyKeeps ==
    ASSUME WriterIInv, NEW r \in Ranks, SparseReady(r), UNCHANGED <<minmax, header>>
    PROVE  WriterIInv'
<1>1. TypeOK /\ ModesKept /\ OneCoordinator /\ OneOwner
  BY DEF WriterIInv
<1>2. /\ conf' = conf /\ conf.mode = "sparse" /\ pc[r] = "start"
      /\ \/ pc' = [pc EXCEPT ![r] = "writing"] /\ fileNumber' = [fileNumber EXCEPT ![r] = r]
         \/ pc' = [pc EXCEPT ![r] = "done"] /\ fileNumber' = fileNumber
      /\ UNCHANGED <<msgs, coordinatorProc, coordinating, unreadMessages>>
  BY DEF SparseReady, OpenTruncated, Goto, At
<1>3. TypeOK'
  <2>1. r \in FileNumbers
    BY RankNumbers
  <2>2. files' \in [FileNumbers -> Seq(Ranks \cup {Old})]
    <3>1. files' = files \/ \E f \in FileNumbers : files' = [files EXCEPT ![f] = <<>>]
      BY <2>1 DEF SparseReady, OpenTruncated
    <3>2. files \in [FileNumbers -> Seq(Ranks \cup {Old})]
      BY <1>1 DEF TypeOK
    <3> QED
      BY <1>1, <3>1, <3>2, EmptyContents
  <2>3. pc' \in [Ranks -> {"start", "signal", "writing", "written", "elect", "coordinate",
                            "await", "done", "cleanup", "gone"}]
        /\ fileNumber' \in [Ranks -> FileNumbers]
    <3>1. /\ pc \in [Ranks -> {"start", "signal", "writing", "written", "elect", "coordinate",
                                "await", "done", "cleanup", "gone"}]
          /\ fileNumber \in [Ranks -> FileNumbers]
      BY <1>1 DEF TypeOK
    <3>2. CASE pc' = [pc EXCEPT ![r] = "writing"] /\ fileNumber' = [fileNumber EXCEPT ![r] = r]
      BY <2>1, <3>1, <3>2
    <3>3. CASE pc' = [pc EXCEPT ![r] = "done"] /\ fileNumber' = fileNumber
      BY <3>1, <3>3
    <3> QED
      BY <1>2, <3>2, <3>3
  <2> QED
    BY <1>1, <1>2, <2>2, <2>3, PlacesKept DEF TypeOK, coordinating
<1>4. ModesKept'
  BY <1>1, <1>2, PlacesKept DEF ModesKept, TypeOK, coordinating, At
<1>5. OneCoordinator'
  BY <1>1, <1>2 DEF OneCoordinator, ModesKept, TypeOK, coordinating, At, AvailableDeciders
<1>6. OneOwner'
  <2>1. availableFileNumbers' = {} /\ \A m \in msgs' : \A f : ~Carries(m, f)'
    BY <1>1, <1>2 DEF ModesKept, coordinating, Carries
  <2>2. \A q \in Ranks : \A f : Has(q, f)' => f = q
    BY <1>2, <1>4 DEF ModesKept, Has, At
  <2> QED
    BY <2>1, <2>2 DEF OneOwner
<1> QED
  BY <1>3, <1>4, <1>5, <1>6 DEF WriterIInv

LEMMA SparseNextKeeps ==
    ASSUME WriterIInv, NEW r \in Ranks, SparseNext(r), UNCHANGED <<minmax, header>>
    PROVE  WriterIInv'
<1>1. TypeOK /\ ModesKept /\ OneCoordinator /\ OneOwner
  BY DEF WriterIInv
<1>2. /\ conf' = conf /\ conf.mode = "sparse" /\ pc[r] = "written"
      /\ pc' = [pc EXCEPT ![r] = "done"]
      /\ UNCHANGED <<msgs, files, fileNumber, coordinatorProc, coordinating, unreadMessages>>
  BY DEF SparseNext, Goto, At
<1>3. TypeOK'
  BY <1>1, <1>2, PlacesKept DEF TypeOK, coordinating
<1>4. ModesKept'
  BY <1>1, <1>2, PlacesKept DEF ModesKept, TypeOK, coordinating, At
<1>5. OneCoordinator'
  BY <1>1, <1>2 DEF OneCoordinator, ModesKept, TypeOK, coordinating, At, AvailableDeciders
<1>6. OneOwner'
  <2>1. \A q \in Ranks, f \in FileNumbers : Has(q, f)' => Has(q, f)
    BY <1>1, <1>2, HasKept DEF TypeOK, Has, At
  <2> QED
    BY <1>1, <1>2, <2>1, CarriesKept, FewerOwners DEF coordinating
<1> QED
  BY <1>3, <1>4, <1>5, <1>6 DEF WriterIInv

\* The loop body, in every mode.
LEMMA WriteKeeps ==
    ASSUME WriterIInv, NEW r \in Ranks, Write(r), UNCHANGED <<minmax, header>>
    PROVE  WriterIInv'
<1>1. TypeOK /\ ModesKept /\ OneCoordinator /\ OneOwner
  BY DEF WriterIInv
<1>2. /\ conf' = conf /\ pc[r] = "writing"
      /\ pc' = [pc EXCEPT ![r] = "written"]
      /\ files' = [files EXCEPT ![fileNumber[r]] = Append(@, r)]
      /\ UNCHANGED <<msgs, fileNumber, coordinatorProc, coordinating, unreadMessages>>
  BY DEF Write, Goto, At
<1>3. TypeOK'
  <2>1. files' \in [FileNumbers -> Seq(Ranks \cup {Old})]
    BY <1>1, <1>2 DEF TypeOK
  <2> QED
    BY <1>1, <1>2, <2>1, PlacesKept DEF TypeOK, coordinating
<1>4. ModesKept'
  BY <1>1, <1>2, PlacesKept DEF ModesKept, TypeOK, coordinating, At
<1>5. OneCoordinator'
  BY <1>1, <1>2 DEF OneCoordinator, ModesKept, TypeOK, coordinating, At, AvailableDeciders
<1>6. OneOwner'
  <2>1. \A q \in Ranks, f \in FileNumbers : Has(q, f)' => Has(q, f)
    BY <1>1, <1>2, HasKept DEF TypeOK, Has, At
  <2> QED
    BY <1>1, <1>2, <2>1, CarriesKept, FewerOwners DEF coordinating
<1> QED
  BY <1>3, <1>4, <1>5, <1>6 DEF WriterIInv

-----------------------------------------------------------------------------
(***************************************************************************)
(* Dynamic set selection                                                   *)
(***************************************************************************)
LEMMA OpenSetZeroKeeps ==
    ASSUME WriterIInv, NEW r \in Ranks, OpenSetZero(r), UNCHANGED <<minmax, header>>
    PROVE  WriterIInv'
<1>1. TypeOK /\ ModesKept /\ OneCoordinator /\ OneOwner
  BY DEF WriterIInv
<1>2. /\ conf' = conf /\ conf.mode = "dynamic" /\ pc[r] = "start" /\ WhichSetPosition(r) = 0
      /\ pc' = [pc EXCEPT ![r] = "writing"]
      /\ fileNumber' = [fileNumber EXCEPT ![r] = FileNumber(r)]
      /\ files' = [files EXCEPT ![FileNumber(r)] = <<>>]
      /\ UNCHANGED <<msgs, coordinatorProc, coordinating, unreadMessages>>
  BY DEF OpenSetZero, OpenTruncated, Goto, At
<1>3. FileNumber(r) \in FileNumbers
  BY <1>1, Place DEF TypeOK
<1>4. fileNumber' = fileNumber
  BY <1>1, <1>2 DEF TypeOK, ModesKept, At
<1>5. TypeOK'
  <2>1. files' \in [FileNumbers -> Seq(Ranks \cup {Old})]
    BY <1>1, <1>2, EmptyContents
  <2> QED
    BY <1>1, <1>2, <1>4, <2>1, PlacesKept DEF TypeOK, coordinating
<1>6. ModesKept'
  BY <1>1, <1>2, <1>4, PlacesKept DEF ModesKept, TypeOK, coordinating, At
<1>7. OneCoordinator'
  BY <1>1, <1>2 DEF OneCoordinator, ModesKept, TypeOK, coordinating, At, AvailableDeciders
<1>8. OneOwner'
  <2>1. \A q \in Ranks, f \in FileNumbers : Has(q, f)' => Has(q, f)
    BY <1>1, <1>2, <1>4, HasKept DEF TypeOK, Has, At
  <2> QED
    BY <1>1, <1>2, <2>1, CarriesKept, FewerOwners DEF coordinating
<1> QED
  BY <1>5, <1>6, <1>7, <1>8 DEF WriterIInv

\* The decider has not heard of a coordinator before.
LEMMA DecideKeeps ==
    ASSUME WriterIInv, NEW r \in Ranks, Decide(r), UNCHANGED <<minmax, header>>
    PROVE  WriterIInv'
<1>1. TypeOK /\ ModesKept /\ OneCoordinator /\ OneOwner
  BY DEF WriterIInv
<1>2. PICK k \in Incoming(r, "decider") :
          /\ coordinatorProc' = [coordinatorProc EXCEPT ![r] = k.val]
          /\ msgs' = (msgs \ {k}) \cup
                        {Message("coordinator", r, q, k.val) : q \in SetZeroProcs}
  BY DEF Decide
<1>3. /\ conf' = conf /\ conf.mode = "dynamic" /\ pc[r] = "start" /\ r = conf.deciderProc
      /\ pc' = [pc EXCEPT ![r] = "signal"]
      /\ unreadMessages' = [unreadMessages EXCEPT ![r] =
                              [tag |-> "decider", n |-> Cardinality(SetZeroProcs) - 1]]
      /\ UNCHANGED <<files, fileNumber, coordinating>>
  BY DEF Decide, Goto, At
<1>4. k \in msgs /\ k.tag = "decider" /\ k.val \in Ranks
  BY <1>1, <1>2 DEF Incoming, TypeOK
<1>5. \A m \in msgs' : m \in msgs \/ (m.tag = "coordinator" /\ m.src = r /\ m.val = k.val)
  BY <1>2 DEF Message
<1>6. TypeOK'
  <2>1. Cardinality(SetZeroProcs) - 1 \in 0..NProcs
    BY <1>1, SetSizes, NProcsAssumption DEF TypeOK
  <2>2. /\ unreadMessages' \in [Ranks -> [tag : {"none", "decider", "done"}, n : 0..NProcs]]
        /\ coordinatorProc' \in [Ranks -> Ranks]
    BY <1>1, <1>2, <1>3, <1>4, <2>1 DEF TypeOK
  <2>3. \A m \in msgs' : /\ m.src \in Ranks
                         /\ m.tag \in {"write", "done"} => m.val \in FileNumbers
                         /\ m.tag \in {"decider", "coordinator"} => m.val \in Ranks
    BY <1>1, <1>4, <1>5 DEF TypeOK
  <2> QED
    BY <1>1, <1>3, <2>2, <2>3, PlacesKept DEF TypeOK, coordinating
<1>7. ModesKept'
  BY <1>1, <1>3, PlacesKept DEF ModesKept, TypeOK, coordinating, At
<1>8. OneCoordinator'
  <2>1. /\ \A m \in msgs : m.tag # "coordinator" /\ m.tag # "write"
        /\ \A q \in Ranks : pc[q] \notin {"coordinate", "await"}
    BY <1>1, <1>3 DEF OneCoordinator
  <2>2. /\ \A q \in Ranks : pc'[q] \notin {"coordinate", "await"}
        /\ pc'[r] # "start" /\ coordinatorProc'[r] = k.val
    BY <1>1, <1>2, <1>3, <1>4, <2>1 DEF TypeOK
  <2> QED
    BY <1>3, <1>5, <2>1, <2>2 DEF OneCoordinator, At
<1>9. OneOwner'
  <2>1. \A q \in Ranks, f \in FileNumbers : Has(q, f)' => Has(q, f)
    BY <1>1, <1>3, HasKept DEF TypeOK, Has, At
  <2>2. \A m \in msgs', f \in FileNumbers : Carries(m, f)' => m \in msgs /\ Carries(m, f)
    BY <1>3, <1>5, CarriesKept DEF Carries
  <2> QED
    BY <1>1, <1>3, <2>1, <2>2, FewerOwners DEF coordinating
<1> QED
  BY <1>6, <1>7, <1>8, <1>9 DEF WriterIInv

LEMMA WaitForSignalKeeps ==
    ASSUME WriterIInv, NEW r \in Ranks, WaitForSignal(r), UNCHANGED <<minmax, header>>
    PROVE  WriterIInv'
<1>1. TypeOK /\ ModesKept /\ OneCoordinator /\ OneOwner
  BY DEF WriterIInv
<1>2. PICK k \in Incoming(r, "write") :
          /\ msgs' = msgs \ {k}
          /\ coordinatorProc' = [coordinatorProc EXCEPT ![r] = k.src]
          /\ pc' = [pc EXCEPT ![r] = "writing"]
          /\ fileNumber' = [fileNumber EXCEPT ![r] = k.val]
          /\ files' = files
  BY DEF WaitForSignal, OpenAppending, Goto
<1>3. /\ conf' = conf /\ conf.mode = "dynamic"
      /\ pc[r] = "start" => WhichSetPosition(r) # 0
      /\ pc[r] \in {"start", "signal"}
      /\ UNCHANGED <<coordinating, unreadMessages>>
  <2>1. WhichSetPosition(r) > 0 => WhichSetPosition(r) # 0
    BY <1>1, Place DEF TypeOK
  <2> QED
    BY <2>1 DEF WaitForSignal, At
<1>4. k \in msgs /\ k.tag = "write" /\ k.val \in FileNumbers /\ k.src \in Ranks
  BY <1>1, <1>2 DEF Incoming, TypeOK
<1>5. TypeOK'
  <2>1. fileNumber' \in [Ranks -> FileNumbers] /\ coordinatorProc' \in [Ranks -> Ranks]
    BY <1>1, <1>2, <1>4 DEF TypeOK
  <2> QED
    BY <1>1, <1>2, <1>3, <2>1, PlacesKept DEF TypeOK, coordinating
<1>6. ModesKept'
  BY <1>1, <1>2, <1>3, PlacesKept DEF ModesKept, TypeOK, coordinating, At
<1>7. OneCoordinator'
  <2>1. k.src = coordinatorProc[conf.deciderProc] /\ conf.deciderProc \in Ranks
    BY <1>1, <1>3, <1>4 DEF OneCoordinator, ModesKept, AvailableDeciders
  <2>2. coordinatorProc'[conf.deciderProc] = coordinatorProc[conf.deciderProc]
        /\ pc[conf.deciderProc] # "start" => pc'[conf.deciderProc] # "start"
    BY <1>1, <1>2, <2>1 DEF TypeOK
  <2> QED
    BY <1>1, <1>2, <1>3, <2>1, <2>2 DEF OneCoordinator, TypeOK, coordinating, At
<1>8. OneOwner'
  <2>1. \A q \in Ranks \ {r} : pc'[q] = pc[q] /\ fileNumber'[q] = fileNumber[q]
    BY <1>1, <1>2 DEF TypeOK
  <2>2. \A f \in FileNumbers : Has(r, f)' => f = k.val
    BY <1>1, <1>2 DEF TypeOK, Has
  <2>3. Carries(k, k.val)
    BY <1>4 DEF Carries
  <2>4. availableFileNumbers' \subseteq availableFileNumbers
    BY <1>3 DEF coordinating
  <2>5. /\ \A q \in Ranks \ {r}, f \in FileNumbers : Has(q, f)' => Has(q, f)
        /\ \A m \in msgs', f \in FileNumbers :
              Carries(m, f)' => m \in msgs \ {k} /\ Carries(m, f)
    BY <1>2, <1>3, <2>1, HasKept, CarriesKept
  <2> QED
    BY <1>1, <1>4, <2>2, <2>3, <2>4, <2>5, MessageToRank
<1> QED
  BY <1>5, <1>6, <1>7, <1>8 DEF WriterIInv

LEMMA TellDeciderKeeps ==
    ASSUME WriterIInv, NEW r \in Ranks, TellDecider(r), UNCHANGED <<minmax, header>>
    PROVE  WriterIInv'
<1> DEFINE k == Message("decider", r, conf.deciderProc, r)
<1>1. TypeOK /\ ModesKept /\ OneCoordinator /\ OneOwner
  BY DEF WriterIInv
<1>2. /\ conf' = conf /\ conf.mode = "dynamic" /\ pc[r] = "written" /\ WhichSetPosition(r) = 0
      /\ pc' = [pc EXCEPT ![r] = "elect"]
      /\ msgs' = msgs \cup {k}
      /\ UNCHANGED <<files, fileNumber, coordinatorProc, coordinating, unreadMessages>>
  BY DEF TellDecider, Goto, At
<1>3. k.tag = "decider" /\ k.src = r /\ k.val = r
  BY DEF Message
<1> HIDE DEF k
<1>4. TypeOK'
  BY <1>1, <1>2, <1>3, PlacesKept DEF TypeOK, coordinating
<1>5. ModesKept'
  BY <1>1, <1>2, PlacesKept DEF ModesKept, TypeOK, coordinating, At
<1>6. OneCoordinator'
  BY <1>1, <1>2, <1>3 DEF OneCoordinator, ModesKept, TypeOK, coordinating, At, AvailableDeciders
<1>7. OneOwner'
  <2>1. \A q \in Ranks, f \in FileNumbers : Has(q, f)' => Has(q, f)
    BY <1>1, <1>2, HasKept DEF TypeOK, Has, At
  <2>2. \A m \in msgs', f \in FileNumbers : Carries(m, f)' => m \in msgs /\ Carries(m, f)
    BY <1>2, <1>3, CarriesKept DEF Carries
  <2> QED
    BY <1>1, <1>2, <2>1, <2>2, FewerOwners DEF coordinating
<1> QED
  BY <1>4, <1>5, <1>6, <1>7 DEF WriterIInv

\* The rank that is named becomes the coordinator, and its file the first of the list; the
\* others send it theirs.
LEMMA LearnCoordinatorKeeps ==
    ASSUME WriterIInv, NEW r \in Ranks, LearnCoordinator(r), UNCHANGED <<minmax, header>>
    PROVE  WriterIInv'
<1> DEFINE g == fileNumber[r]
<1>1. TypeOK /\ ModesKept /\ OneCoordinator /\ OneOwner
  BY DEF WriterIInv
<1>2. PICK k \in Incoming(r, "coordinator") :
          /\ coordinatorProc' = [coordinatorProc EXCEPT ![r] = k.val]
          /\ IF k.val = r
             THEN msgs' = msgs \ {k} /\ BecomeCoordinator(r)
             ELSE /\ msgs' = (msgs \ {k}) \cup {Message("done", r, k.val, g)}
                  /\ Goto(r, "done")
                  /\ UNCHANGED coordinating
  BY DEF LearnCoordinator
<1>3. /\ conf' = conf /\ pc[r] = "elect" /\ conf.mode = "dynamic"
      /\ UNCHANGED <<files, fileNumber, unreadMessages>>
  BY <1>1 DEF LearnCoordinator, At, ModesKept
<1>4. k \in msgs /\ k.tag = "coordinator" /\ k.val \in Ranks
  BY <1>1, <1>2 DEF Incoming, TypeOK
<1>5. /\ conf.deciderProc \in Ranks /\ conf.deciderProc # r
      /\ pc[conf.deciderProc] # "start" /\ k.val = coordinatorProc[conf.deciderProc]
  BY <1>1, <1>3, <1>4 DEF OneCoordinator, ModesKept, AvailableDeciders, SetZeroProcs, At
<1>6. coordinatorProc'[conf.deciderProc] = coordinatorProc[conf.deciderProc]
      /\ coordinatorProc' \in [Ranks -> Ranks]
  BY <1>1, <1>2, <1>4, <1>5 DEF TypeOK
<1>7. g \in FileNumbers /\ Has(r, g) /\ (\A f : Has(r, f) => f = g)
  BY <1>1, <1>3, HasOwn
<1>8. CASE k.val = r
  <2>1. /\ msgs' = msgs \ {k}
        /\ pc' = [pc EXCEPT ![r] = "coordinate"]
        /\ availableFileNumbers' = {g}
        /\ remainingWriters' = NProcs - Cardinality(SetZeroProcs)
    BY <1>2, <1>8 DEF BecomeCoordinator, Goto
  <2>2. TypeOK'
    <3>1. remainingWriters' \in 0 .. Cardinality(AvailableDeciders)'
      <4>1. Cardinality(AvailableDeciders)' = Cardinality(AvailableDeciders)
        BY <1>3, PlacesKept
      <4> QED
        BY <1>1, <2>1, <4>1, SetSizes DEF TypeOK
    <3> QED
      BY <1>1, <1>3, <1>6, <1>7, <2>1, <3>1 DEF TypeOK
  <2>3. ModesKept'
    BY <1>1, <1>3, <2>1, PlacesKept DEF ModesKept, TypeOK, At
  <2>4. OneCoordinator'
    <3>1. \A q \in Ranks : pc'[q] \in {"coordinate", "await"} => q = r
      BY <1>1, <1>3, <1>5, <1>8, <2>1 DEF OneCoordinator, TypeOK
    <3>2. pc'[r] = "coordinate" /\ pc'[conf.deciderProc] = pc[conf.deciderProc]
      BY <1>1, <1>5, <2>1 DEF TypeOK
    <3> QED
      BY <1>1, <1>3, <1>5, <1>6, <1>8, <2>1, <3>1, <3>2 DEF OneCoordinator, At
  <2>5. OneOwner'
    <3>1. /\ \A q \in Ranks \ {r} : pc'[q] = pc[q] /\ fileNumber'[q] = fileNumber[q]
          /\ \A f \in FileNumbers : ~Has(r, f)'
      BY <1>1, <1>3, <2>1 DEF TypeOK, Has, At
    <3>2. \A q \in Ranks \ {r}, f \in FileNumbers : Has(q, f)' => Has(q, f)
      BY <1>3, <3>1, HasKept
    <3>3. \A m \in msgs', f \in FileNumbers : Carries(m, f)' => m \in msgs /\ Carries(m, f)
      BY <1>3, <2>1, CarriesKept
    <3> QED
      BY <1>1, <1>7, <2>1, <3>1, <3>2, <3>3, RankToList
  <2> QED
    BY <2>2, <2>3, <2>4, <2>5 DEF WriterIInv
<1>9. CASE k.val # r
  <2> DEFINE d == Message("done", r, k.val, g)
  <2>1. /\ msgs' = (msgs \ {k}) \cup {d}
        /\ pc' = [pc EXCEPT ![r] = "done"]
        /\ UNCHANGED coordinating
    BY <1>2, <1>9 DEF Goto
  <2>2. d.tag = "done" /\ d.src = r /\ d.val = g
    BY DEF Message
  <2> HIDE DEF d, g
  <2>3. TypeOK'
    <3>1. pc' \in [Ranks -> {"start", "signal", "writing", "written", "elect", "coordinate",
                             "await", "done", "cleanup", "gone"}]
      BY <1>1, <2>1 DEF TypeOK
    <3>2. \A m \in msgs' : /\ m.src \in Ranks
                           /\ m.tag \in {"write", "done"} => m.val \in FileNumbers
                           /\ m.tag \in {"decider", "coordinator"} => m.val \in Ranks
      BY <1>1, <1>7, <2>1, <2>2 DEF TypeOK
    <3> QED
      BY <1>1, <1>3, <1>6, <2>1, <3>1, <3>2, PlacesKept DEF TypeOK, coordinating
  <2>4. ModesKept'
    BY <1>1, <1>3, <2>1, <2>2, PlacesKept DEF ModesKept, TypeOK, coordinating, At
  <2>5. OneCoordinator'
    BY <1>1, <1>3, <1>5, <1>6, <2>1, <2>2 DEF OneCoordinator, TypeOK, coordinating, At
  <2>6. OneOwner'
    <3>1. /\ \A q \in Ranks \ {r} : pc'[q] = pc[q] /\ fileNumber'[q] = fileNumber[q]
          /\ \A f \in FileNumbers : ~Has(r, f)'
      BY <1>1, <1>3, <2>1 DEF TypeOK, Has, At
    <3>2. \A q \in Ranks \ {r}, f \in FileNumbers : Has(q, f)' => Has(q, f)
      BY <1>3, <3>1, HasKept
    <3>3. \A m \in msgs', f \in FileNumbers :
              Carries(m, f)' => (m \in msgs /\ Carries(m, f)) \/ (m = d /\ f = g)
      BY <1>3, <2>1, <2>2, CarriesKept DEF Carries
    <3>4. availableFileNumbers' \subseteq availableFileNumbers
      BY <2>1 DEF coordinating
    <3> QED
      BY <1>1, <1>7, <3>1, <3>2, <3>3, <3>4, RankToMessage
  <2> QED
    BY <2>3, <2>4, <2>5, <2>6 DEF WriterIInv
<1> QED
  BY <1>8, <1>9

\* The coordinator gives a file away, or finds that there is nobody to give one to.
LEMMA SignalKeeps ==
    ASSUME WriterIInv, NEW r \in Ranks, Signal(r), UNCHANGED <<minmax, header>>
    PROVE  WriterIInv'
<1> DEFINE g == Min(availableFileNumbers)
           d == Message("write", r, Head(procsToWrite[NextQueue(g)]), g)
<1>1. TypeOK /\ ModesKept /\ OneCoordinator /\ OneOwner
  BY DEF WriterIInv
<1>2. /\ conf' = conf /\ pc[r] = "coordinate" /\ remainingWriters > 0
      /\ availableFileNumbers' = availableFileNumbers \ {g}
      /\ UNCHANGED <<files, fileNumber, coordinatorProc, unreadMessages>>
  BY DEF Signal, At
<1>3. /\ conf.mode = "dynamic" /\ conf.deciderProc \in Ranks
      /\ pc[conf.deciderProc] # "start" /\ r = coordinatorProc[conf.deciderProc]
      /\ \A q \in Ranks : pc[q] \in {"coordinate", "await"} => q = r
  BY <1>1, <1>2 DEF OneCoordinator, ModesKept, AvailableDeciders
<1>4. \A q \in Ranks, f \in FileNumbers : pc'[q] = pc[q] => (Has(q, f)' => Has(q, f))
  BY <1>2, HasKept
<1>5. d.tag = "write" /\ d.src = r /\ d.val = g
  BY DEF Message
<1>6. CASE \A q \in FileNumbers : procsToWrite[q] = <<>>
  <2>1. /\ remainingWriters' = remainingWriters - 1
        /\ UNCHANGED <<pc, msgs, procsToWrite>>
    BY <1>6 DEF Signal
  <2> HIDE DEF g, d
  <2>2. TypeOK'
    BY <1>1, <1>2, <2>1, SetSizes, PlacesKept DEF TypeOK
  <2>3. ModesKept'
    BY <1>1, <1>2, <2>1, PlacesKept DEF ModesKept, At
  <2>4. OneCoordinator'
    BY <1>1, <1>2, <1>3, <1>6, <2>1 DEF OneCoordinator, At, FileNumbers
  <2>5. OneOwner'
    BY <1>1, <1>2, <1>4, <2>1, CarriesKept, FewerOwners
  <2> QED
    BY <2>2, <2>3, <2>4, <2>5 DEF WriterIInv
<1>7. CASE ~\A q \in FileNumbers : procsToWrite[q] = <<>>
  <2>1. /\ msgs' = msgs \cup {d}
        /\ pc' = [pc EXCEPT ![r] = "await"]
        /\ UNCHANGED remainingWriters
    BY <1>7 DEF Signal, Assign, Goto
  <2>2. g \in availableFileNumbers /\ g \in FileNumbers
    <3>1. availableFileNumbers # {} /\ availableFileNumbers \subseteq FileNumbers
      BY <1>1, <1>2, <1>7 DEF OneCoordinator, TypeOK, At
    <3>2. FileNumbers \subseteq Nat
      BY RankNumbers
    <3> QED
      BY <3>1, <3>2, MinOfNaturals
  <2> HIDE DEF g, d
  <2>3. TypeOK'
    BY <1>1, <1>2, <1>5, <2>1, <2>2, PlacesKept DEF TypeOK
  <2>4. ModesKept'
    BY <1>1, <1>2, <1>3, <1>5, <2>1, PlacesKept DEF ModesKept, TypeOK, At
  <2>5. OneCoordinator'
    BY <1>1, <1>2, <1>3, <1>5, <2>1 DEF OneCoordinator, TypeOK, At
  <2>6. OneOwner'
    <3>1. \A q \in Ranks, f \in FileNumbers : Has(q, f)' => Has(q, f)
      <4>1. \A f \in FileNumbers : ~Has(r, f)'
        BY <1>1, <2>1 DEF TypeOK, Has, At
      <4>2. \A q \in Ranks \ {r} : pc'[q] = pc[q]
        BY <1>1, <2>1 DEF TypeOK
      <4> QED
        BY <1>4, <4>1, <4>2
    <3>2. \A m \in msgs', f \in FileNumbers :
              Carries(m, f)' => (m \in msgs /\ Carries(m, f)) \/ (m = d /\ f = g)
      BY <1>2, <1>5, <2>1, CarriesKept DEF Carries
    <3> QED
      BY <1>1, <1>2, <2>2, <3>1, <3>2, ListToMessage
  <2> QED
    BY <2>3, <2>4, <2>5, <2>6 DEF WriterIInv
<1> QED
  BY <1>6, <1>7

LEMMA AwaitDoneKeeps ==
    ASSUME WriterIInv, NEW r \in Ranks, AwaitDone(r), UNCHANGED <<minmax, header>>
    PROVE  WriterIInv'
<1>1. TypeOK /\ ModesKept /\ OneCoordinator /\ OneOwner
  BY DEF WriterIInv
<1>2. PICK k \in Incoming(r, "done") :
          /\ msgs' = msgs \ {k}
          /\ availableFileNumbers' = availableFileNumbers \cup {k.val}
  BY DEF AwaitDone
<1>3. /\ conf' = conf /\ pc[r] = "await"
      /\ pc' = [pc EXCEPT ![r] = "coordinate"]
      /\ remainingWriters' = remainingWriters - 1
      /\ UNCHANGED <<files, fileNumber, coordinatorProc, procsToWrite, unreadMessages>>
  BY DEF AwaitDone, Goto, At
<1>4. k \in msgs /\ k.tag = "done" /\ k.val \in FileNumbers
  BY <1>1, <1>2 DEF Incoming, TypeOK
<1>5. /\ conf.mode = "dynamic" /\ conf.deciderProc \in Ranks
      /\ pc[conf.deciderProc] # "start" /\ r = coordinatorProc[conf.deciderProc]
      /\ \A q \in Ranks : pc[q] \in {"coordinate", "await"} => q = r
      /\ remainingWriters > 0
  BY <1>1, <1>3 DEF OneCoordinator, ModesKept, AvailableDeciders, At
<1>6. TypeOK'
  BY <1>1, <1>2, <1>3, <1>4, <1>5, SetSizes, PlacesKept DEF TypeOK
<1>7. ModesKept'
  BY <1>1, <1>2, <1>3, <1>5, PlacesKept DEF ModesKept, TypeOK, At
<1>8. OneCoordinator'
  BY <1>1, <1>2, <1>3, <1>5 DEF OneCoordinator, TypeOK, At
<1>9. OneOwner'
  <2>1. \A q \in Ranks, f \in FileNumbers : Has(q, f)' => Has(q, f)
    BY <1>1, <1>3, HasKept DEF TypeOK, Has, At
  <2>2. Carries(k, k.val)
    BY <1>4 DEF Carries
  <2>3. \A m \in msgs', f \in FileNumbers : Carries(m, f)' => m \in msgs \ {k} /\ Carries(m, f)
    BY <1>2, <1>3, CarriesKept
  <2> QED
    BY <1>1, <1>2, <1>4, <2>1, <2>2, <2>3, MessageToList
<1> QED
  BY <1>6, <1>7, <1>8, <1>9 DEF WriterIInv

LEMMA CoordinatedKeeps ==
    ASSUME WriterIInv, NEW r \in Ranks, Coordinated(r), UNCHANGED <<minmax, header>>
    PROVE  WriterIInv'
<1>1. TypeOK /\ ModesKept /\ OneCoordinator /\ OneOwner
  BY DEF WriterIInv
<1>2. /\ conf' = conf /\ pc[r] = "coordinate"
      /\ pc' = [pc EXCEPT ![r] = "done"]
      /\ unreadMessages' = [unreadMessages EXCEPT ![r] =
                              [tag |-> "done", n |-> Cardinality(SetZeroProcs) - 1]]
      /\ UNCHANGED <<msgs, files, fileNumber, coordinatorProc, coordinating>>
  BY DEF Coordinated, Goto, At
<1>3. TypeOK'
  <2>1. Cardinality(SetZeroProcs) - 1 \in 0..NProcs
    BY <1>1, SetSizes, NProcsAssumption DEF TypeOK
  <2>2. unreadMessages' \in [Ranks -> [tag : {"none", "decider", "done"}, n : 0..NProcs]]
    BY <1>1, <1>2, <2>1 DEF TypeOK
  <2> QED
    BY <1>1, <1>2, <2>2, PlacesKept DEF TypeOK, coordinating
<1>4. ModesKept'
  BY <1>1, <1>2, PlacesKept DEF ModesKept, TypeOK, coordinating, At
<1>5. OneCoordinator'
  BY <1>1, <1>2 DEF OneCoordinator, ModesKept, TypeOK, coordinating, At, AvailableDeciders
<1>6. OneOwner'
  <2>1. \A q \in Ranks, f \in FileNumbers : Has(q, f)' => Has(q, f)
    BY <1>1, <1>2, HasKept DEF TypeOK, Has, At
  <2> QED
    BY <1>1, <1>2, <2>1, CarriesKept, FewerOwners DEF coordinating
<1> QED
  BY <1>3, <1>4, <1>5, <1>6 DEF WriterIInv

LEMMA DynamicNextKeeps ==
    ASSUME WriterIInv, NEW r \in Ranks, DynamicNext(r), UNCHANGED <<minmax, header>>
    PROVE  WriterIInv'
<1> DEFINE g == fileNumber[r]
           d == Message("done", r, coordinatorProc[r], g)
<1>1. TypeOK /\ ModesKept /\ OneCoordinator /\ OneOwner
  BY DEF WriterIInv
<1>2. /\ conf' = conf /\ conf.mode = "dynamic" /\ pc[r] = "written"
      /\ pc' = [pc EXCEPT ![r] = "done"]
      /\ msgs' = msgs \cup {d}
      /\ UNCHANGED <<files, fileNumber, coordinatorProc, coordinating, unreadMessages>>
  BY DEF DynamicNext, Goto, At
<1>3. d.tag = "done" /\ d.src = r /\ d.val = g
  BY DEF Message
<1>4. g \in FileNumbers /\ Has(r, g)
  BY <1>1, <1>2, HasOwn
<1> HIDE DEF d, g
<1>5. TypeOK'
  BY <1>1, <1>2, <1>3, <1>4, PlacesKept DEF TypeOK, coordinating
<1>6. ModesKept'
  BY <1>1, <1>2, <1>3, PlacesKept DEF ModesKept, TypeOK, coordinating, At
<1>7. OneCoordinator'
  BY <1>1, <1>2, <1>3 DEF OneCoordinator, ModesKept, TypeOK, coordinating, At, AvailableDeciders
<1>8. OneOwner'
  <2>1. \A q \in Ranks \ {r} : pc'[q] = pc[q] /\ fileNumber'[q] = fileNumber[q]
    BY <1>1, <1>2 DEF TypeOK
  <2>2. \A f \in FileNumbers : ~Has(r, f)'
    BY <1>1, <1>2 DEF TypeOK, Has, At
  <2>3. \A m \in msgs', f \in FileNumbers :
            Carries(m, f)' => (m \in msgs /\ Carries(m, f)) \/ (m = d /\ f = g)
    BY <1>2, <1>3, CarriesKept DEF Carries
  <2>4. availableFileNumbers' \subseteq availableFileNumbers
    BY <1>2 DEF coordinating
  <2> QED
    BY <1>1, <1>2, <1>4, <2>1, <2>2, <2>3, <2>4, HasKept, RankToMessage
<1> QED
  BY <1>5, <1>6, <1>7, <1>8 DEF WriterIInv

-----------------------------------------------------------------------------
(***************************************************************************)
(* After the loop                                                          *)
(***************************************************************************)
\* The end of Write: the gather, the header and the destructor.
LeaveStep(r) == Contribute(r) \/ WriteHeader(r) \/ CleanUpMessages(r) \/ Destroyed(r)

LEMMA LeaveKeeps ==
    ASSUME WriterIInv, NEW r \in Ranks, LeaveStep(r)
    PROVE  WriterIInv'
<1>1. TypeOK /\ ModesKept /\ OneCoordinator /\ OneOwner
  BY DEF WriterIInv
<1>2. /\ UNCHANGED <<conf, files, fileNumber, coordinatorProc, coordinating>>
      /\ pc[r] \in {"done", "cleanup"}
      /\ \/ pc' = pc
         \/ pc' = [pc EXCEPT ![r] = "cleanup"]
         \/ pc' = [pc EXCEPT ![r] = "gone"]
      /\ \A m \in msgs' : m \in msgs \/ (m.tag = "gather" /\ m.src = r)
  <2>1. CASE Contribute(r)
    BY <2>1 DEF Contribute, At, Goto, Message
  <2>2. CASE WriteHeader(r)
    BY <2>2 DEF WriteHeader, At, Goto
  <2>3. CASE CleanUpMessages(r)
    BY <2>3 DEF CleanUpMessages, At
  <2>4. CASE Destroyed(r)
    BY <2>4 DEF Destroyed, At, Goto
  <2> QED
    BY <2>1, <2>2, <2>3, <2>4 DEF LeaveStep
<1>3. unreadMessages' \in [Ranks -> [tag : {"none", "decider", "done"}, n : 0..NProcs]]
  <2>1. unreadMessages' = unreadMessages \/ CleanUpMessages(r)
    BY DEF LeaveStep, Contribute, WriteHeader, Destroyed
  <2>2. ASSUME CleanUpMessages(r)
        PROVE  unreadMessages' \in [Ranks -> [tag : {"none", "decider", "done"}, n : 0..NProcs]]
    <3>1. /\ unreadMessages[r] \in [tag : {"none", "decider", "done"}, n : 0..NProcs]
          /\ unreadMessages[r].n > 0
          /\ unreadMessages' = [unreadMessages EXCEPT ![r].n = @ - 1]
      BY <1>1, <2>2 DEF TypeOK, CleanUpMessages
    <3>2. unreadMessages[r].n - 1 \in 0..NProcs
      BY <3>1, NProcsAssumption
    <3> QED
      BY <1>1, <3>1, <3>2 DEF TypeOK
  <2> QED
    BY <1>1, <2>1, <2>2 DEF TypeOK
<1>4. /\ pc' \in [Ranks -> {"start", "signal", "writing", "written", "elect", "coordinate",
                             "await", "done", "cleanup", "gone"}]
      /\ \A q \in Ranks : pc'[q] = pc[q] \/ (q = r /\ pc'[q] \in {"cleanup", "gone"})
  <2>1. pc \in [Ranks -> {"start", "signal", "writing", "written", "elect", "coordinate",
                          "await", "done", "cleanup", "gone"}]
    BY <1>1 DEF TypeOK
  <2> QED
    BY <1>2, <2>1
<1>5. TypeOK'
  <2>1. \A m \in msgs' : /\ m.src \in Ranks
                         /\ m.tag \in {"write", "done"} => m.val \in FileNumbers
                         /\ m.tag \in {"decider", "coordinator"} => m.val \in Ranks
    BY <1>1, <1>2 DEF TypeOK
  <2> QED
    BY <1>1, <1>2, <1>3, <1>4, <2>1, PlacesKept DEF TypeOK, coordinating
<1>6. ModesKept'
  BY <1>1, <1>2, <1>4, PlacesKept DEF ModesKept, coordinating, At
<1>7. OneCoordinator'
  BY <1>1, <1>2, <1>4 DEF OneCoordinator, ModesKept, coordinating, At, AvailableDeciders
<1>8. OneOwner'
  <2>1. \A q \in Ranks, f \in FileNumbers : Has(q, f)' => Has(q, f)
    BY <1>2, <1>4, HasKept DEF Has, At
  <2>2. \A m \in msgs', f \in FileNumbers : Carries(m, f)' => m \in msgs /\ Carries(m, f)
    BY <1>2, CarriesKept DEF Carries
  <2> QED
    BY <1>1, <1>2, <2>1, <2>2, FewerOwners DEF coordinating
<1> QED
  BY <1>5, <1>6, <1>7, <1>8 DEF WriterIInv

-----------------------------------------------------------------------------
(***************************************************************************)
(* The theorems                                                            *)
(***************************************************************************)
LEMMA InitOwners == Init => WriterIInv
<1> SUFFICES ASSUME Init PROVE WriterIInv
  OBVIOUS
<1>1. PICK c \in Configurations : NFilesInit(c)
  BY DEF Init
<1>2. /\ conf = c /\ conf \in Configurations
      /\ conf.mode = "dynamic" => conf.deciderProc \in AvailableDeciders
      /\ pc = [r \in Ranks |-> "start"]
      /\ msgs = {} /\ availableFileNumbers = {} /\ remainingWriters = 0
      /\ files = [f \in FileNumbers |-> <<Old>>]
      /\ fileNumber = [r \in Ranks |-> FileNumber(r)]
      /\ coordinatorProc = [r \in Ranks |-> IOProcessorNumber]
      /\ unreadMessages = [r \in Ranks |-> [tag |-> "none", n |-> 0]]
  BY <1>1 DEF NFilesInit
<1>3. TypeOK
  <2>1. \A r \in Ranks : FileNumber(r) \in FileNumbers
    BY <1>2, Place
  <2>2. IOProcessorNumber \in Ranks
    BY RankNumbers DEF IOProcessorNumber
  <2>3. files \in [FileNumbers -> Seq(Ranks \cup {Old})]
    <3>1. <<Old>> \in Seq(Ranks \cup {Old})
      OBVIOUS
    <3> QED
      BY <1>2, <3>1
  <2>4. remainingWriters \in 0 .. Cardinality(AvailableDeciders)
    BY <1>2, SetSizes
  <2>5. unreadMessages \in [Ranks -> [tag : {"none", "decider", "done"}, n : 0..NProcs]]
    BY <1>2, NProcsAssumption
  <2> QED
    BY <1>2, <2>1, <2>2, <2>3, <2>4, <2>5 DEF TypeOK
<1>4. ModesKept
  BY <1>2 DEF ModesKept, At
<1>5. OneCoordinator
  BY <1>2 DEF OneCoordinator, At
<1>6. OneOwner
  <2>1. \A r, q \in Ranks, f \in FileNumbers : Has(r, f) /\ Has(q, f) => r = q
    BY <1>2, PlaceUnique DEF Has, At
  <2> QED
    BY <1>2, <2>1 DEF OneOwner
<1> QED
  BY <1>3, <1>4, <1>5, <1>6 DEF WriterIInv

LEMMA StepOwners == WriterIInv /\ [Next]_vars => WriterIInv'
<1> SUFFICES ASSUME WriterIInv, [Next]_vars PROVE WriterIInv'
  OBVIOUS
<1>1. CASE Next
  <2>1. PICK r \in Ranks : RankStep(r)
    BY <1>1 DEF Next
  <2>2. CASE LeaveStep(r)
    BY <2>2, LeaveKeeps
  <2>3. CASE LoopStep(r) /\ UNCHANGED <<minmax, header>>
    BY <2>3, StaticReadyKeeps, SparseReadyKeeps, OpenSetZeroKeeps, DecideKeeps,
       WaitForSignalKeeps, WriteKeeps, StaticNextKeeps, SparseNextKeeps, TellDeciderKeeps,
       LearnCoordinatorKeeps, SignalKeeps, AwaitDoneKeeps, CoordinatedKeeps, DynamicNextKeeps
       DEF LoopStep
  <2> QED
    BY <2>1, <2>2, <2>3 DEF RankStep, LeaveStep
<1>2. CASE UNCHANGED vars
  <2>1. UNCHANGED <<nfivars>> /\ UNCHANGED coordinating
    BY <1>2 DEF vars, nfivars, coordinating
  <2>2. /\ TypeOK' /\ ModesKept' /\ OneCoordinator'
    BY <2>1, PlacesKept DEF WriterIInv, nfivars, TypeOK, ModesKept, OneCoordinator, At
  <2>3. OneOwner'
    BY <2>1, HasKept, CarriesKept, FewerOwners DEF WriterIInv, nfivars
  <2> QED
    BY <2>2, <2>3 DEF WriterIInv
<1> QED
  BY <1>1, <1>2

\* In every reachable state of VisMF::Write a file has one owner at a time, and there is
\* one coordinator.
THEOREM WriterInvariance == Spec => []WriterIInv
  BY InitOwners, StepOwners, PTL DEF Spec

THEOREM WriterTypeCorrect == Spec => []TypeOK
<1>1. WriterIInv => TypeOK
  BY DEF WriterIInv
<1> QED
  BY <1>1, WriterInvariance, PTL

\* Two ranks never have one file open, with any number of ranks and files and in all modes.
THEOREM OneWriterAlways == Spec => []OneWriter
<1>1. WriterIInv => OneWriter
  <2> SUFFICES ASSUME WriterIInv, NEW r \in Ranks, NEW q \in Ranks, r # q,
                      At(r, "writing"), At(q, "writing"), fileNumber[r] = fileNumber[q]
               PROVE  FALSE
    BY DEF OneWriter
  <2>1. /\ fileNumber[r] \in FileNumbers
        /\ Has(r, fileNumber[r]) /\ Has(q, fileNumber[r])
    BY HasOwn DEF At, WriterIInv
  <2> QED
    BY <2>1 DEF WriterIInv, OneOwner
<1> QED
  BY <1>1, WriterInvariance, PTL

-----------------------------------------------------------------------------
(***************************************************************************)
(* Queues                                                                  *)
(***************************************************************************)
\* Counting the smaller members of a finite set of numbers finds each place once.
LEMMA PlacesBelow ==
    ASSUME NEW S \in SUBSET Nat, IsFiniteSet(S)
    PROVE  LET Below(x) == Cardinality({q \in S : q < x})
               n == Cardinality(S)
           IN  /\ n \in Nat
               /\ \A x \in S : Below(x) \in 0 .. n - 1
               /\ \A x, y \in S : Below(x) = Below(y) => x = y
               /\ \A x, y \in S : x < y => Below(x) < Below(y)
               /\ \A k \in 0 .. n - 1 : \E x \in S : Below(x) = k
<1> DEFINE B(x) == {q \in S : q < x}
           Below(x) == Cardinality(B(x))
           n == Cardinality(S)
<1>1. n \in Nat
  BY FS_CardinalityType
<1>2. \A x \in S : IsFiniteSet(B(x)) /\ Below(x) \in Nat
  <2> TAKE x \in S
  <2>1. B(x) \in SUBSET S
    OBVIOUS
  <2>2. IsFiniteSet(B(x))
    BY <2>1, FS_Subset
  <2> QED
    BY <2>2, FS_CardinalityType
<1>3. \A x, y \in S : x < y => Below(x) < Below(y)
  <2> SUFFICES ASSUME NEW x \in S, NEW y \in S, x < y PROVE Below(x) < Below(y)
    OBVIOUS
  <2>1. x \in Nat /\ y \in Nat /\ \A q \in S : q \in Nat
    OBVIOUS
  <2>3. \A q \in S : q < x => q < y
    BY <2>1
  <2>4. B(x) \in SUBSET B(y) /\ x \in B(y) /\ x \notin B(x)
    <3>1. B(x) \subseteq B(y)
      BY <2>3
    <3>2. x \in B(y)
      OBVIOUS
    <3>3. x \notin B(x)
      BY <2>1
    <3> QED
      BY <3>1, <3>2, <3>3
  <2>2. Cardinality(B(x)) <= Cardinality(B(y)) /\ Cardinality(B(y)) # Cardinality(B(x))
    <3> HIDE DEF B
    <3> QED
      BY <1>2, <2>4, FS_Subset
  <2> QED
    BY <1>2, <2>2
<1>4. \A x, y \in S : Below(x) = Below(y) => x = y
  <2> SUFFICES ASSUME NEW x \in S, NEW y \in S, Below(x) = Below(y), x # y PROVE FALSE
    OBVIOUS
  <2>1. x < y \/ y < x
    OBVIOUS
  <2> HIDE DEF Below
  <2>2. Below(x) < Below(x)
    BY <1>3, <2>1
  <2>3. Below(x) \in Nat
    BY <1>2
  <2> QED
    BY <2>2, <2>3
<1>5. \A x \in S : Below(x) \in 0 .. n - 1
  <2> TAKE x \in S
  <2>1. B(x) \in SUBSET S /\ x \notin B(x)
    OBVIOUS
  <2>2. Cardinality(B(x)) <= Cardinality(S) /\ Cardinality(S) # Cardinality(B(x))
    <3> HIDE DEF B
    <3> QED
      BY <2>1, FS_Subset
  <2> QED
    BY <1>1, <1>2, <2>2
<1>6. \A k \in 0 .. n - 1 : \E x \in S : Below(x) = k
  <2> DEFINE T == 0 .. n - 1
             f == [x \in S |-> Below(x)]
  <2>1. IsFiniteSet(T) /\ Cardinality(T) = n
    <3>1. 0 \in Int /\ n - 1 \in Int
      BY <1>1
    <3>2. /\ IsFiniteSet(T)
          /\ Cardinality(T) = IF 0 > n - 1 THEN 0 ELSE (n - 1) - 0 + 1
      BY <3>1, FS_Interval
    <3> QED
      BY <1>1, <3>2
  <2> HIDE DEF Below
  <2>2. f \in Injection(S, T)
    BY <1>4, <1>5 DEF Injection, IsInjective
  <2> HIDE DEF f, T
  <2>3. f \in Surjection(S, T)
    BY <2>1, <2>2, FS_Injection
  <2>4. \A k \in T : \E x \in S : f[x] = k
    BY <2>3 DEF Surjection
  <2> QED
    BY <2>4 DEF f, T
<1> QED
  BY <1>1, <1>3, <1>4, <1>5, <1>6

\* Ascending lists the members of a set, each once.
LEMMA AscendingLists ==
    ASSUME NEW S \in SUBSET Nat, IsFiniteSet(S)
    PROVE  /\ Ascending(S) \in Seq(S)
           /\ \A i, j \in DOMAIN Ascending(S) : Ascending(S)[i] = Ascending(S)[j] => i = j
           /\ \A x \in S : \E i \in DOMAIN Ascending(S) : Ascending(S)[i] = x
           /\ \A i \in DOMAIN Ascending(S) : Ascending(S)[i] \in S
           /\ Len(Ascending(S)) = Cardinality(S)
           /\ Ascends(Ascending(S))
<1> DEFINE Below(x) == Cardinality({q \in S : q < x})
           n == Cardinality(S)
           s == Ascending(S)
<1>1. /\ n \in Nat
      /\ \A x \in S : Below(x) \in 0 .. n - 1
      /\ \A x, y \in S : Below(x) = Below(y) => x = y
      /\ \A x, y \in S : x < y => Below(x) < Below(y)
      /\ \A k \in 0 .. n - 1 : \E x \in S : Below(x) = k
  BY PlacesBelow
<1>2. s = [i \in 1..n |-> CHOOSE r \in S : Below(r) = i - 1]
  BY DEF Ascending
<1> HIDE DEF Below, n, s
<1>3. ASSUME NEW i \in 1..n PROVE s[i] \in S /\ Below(s[i]) = i - 1
  <2>1. i - 1 \in 0 .. n - 1
    BY <1>1
  <2> QED
    BY <1>1, <1>2, <2>1
<1>4. s \in Seq(S) /\ DOMAIN s = 1..n /\ Len(s) = n
  BY <1>1, <1>2, <1>3
<1>5. ASSUME NEW x \in S PROVE \E i \in 1..n : s[i] = x
  <2>1. Below(x) + 1 \in 1..n /\ Below(x) = (Below(x) + 1) - 1
    BY <1>1
  <2>2. s[Below(x) + 1] = x
    BY <1>1, <1>3, <2>1
  <2> QED
    BY <2>1, <2>2
<1>6. \A i, j \in 1..n : s[i] = s[j] => i = j
  BY <1>1, <1>3
<1>7. ASSUME NEW i \in 1..n, NEW j \in 1..n, i < j PROVE s[i] < s[j]
  <2>1. s[i] \in Nat /\ s[j] \in Nat /\ Below(s[i]) = i - 1 /\ Below(s[j]) = j - 1
    BY <1>3
  <2>2. CASE s[j] < s[i]
    <3>1. Below(s[j]) < Below(s[i])
      BY <1>1, <1>3, <2>2
    <3> QED
      BY <1>7, <2>1, <3>1
  <2>3. CASE s[i] = s[j]
    BY <1>7, <2>1, <2>3
  <2> QED
    BY <2>1, <2>2, <2>3
<1>8. Ascends(s)
  BY <1>4, <1>7 DEF Ascends
<1> QED
  BY <1>3, <1>4, <1>5, <1>6, <1>8 DEF s, n

\* The files that are used have the lowest numbers.
LEMMA FileNumberBelow ==
    ASSUME conf \in Configurations, NEW r \in Ranks
    PROVE  FileNumber(r) < conf.nOutFiles
<1> DEFINE n == conf.nOutFiles
           l == LengthOfSet(n)
<1>1. r \in Nat /\ r < NProcs /\ NProcs \in Nat \ {0}
  BY RankNumbers, NProcsAssumption
<1>2. n \in Nat \ {0} /\ l \in Nat \ {0}
  BY SetLength
<1>3. CASE conf.groupSets
  <2>1. r % n \in 0 .. n - 1
    BY <1>1, <1>2, DivMod
  <2> QED
    BY <1>2, <1>3, <2>1 DEF FileNumber
<1>4. CASE ~conf.groupSets
  <2> DEFINE a == NProcs + n - 1
             q == r \div l
  <2>1. a \in Nat /\ l = a \div n
    BY <1>1, <1>2 DEF LengthOfSet
  <2>2. FileNumber(r) = q
    BY <1>4 DEF FileNumber
  <2> HIDE DEF n, l
  <2>3. a % n \in 0 .. n - 1 /\ a = n * l + (a % n)
    BY <1>2, <2>1, DivMod
  <2>4. q \in Nat /\ r % l \in 0 .. l - 1 /\ r = l * q + (r % l)
    BY <1>1, <1>2, DivMod
  <2> HIDE DEF q
  <2>5. q < n
    <3> SUFFICES ASSUME q >= n PROVE FALSE
      BY <1>2, <2>4
    <3>1. l * q >= n * l /\ l * q \in Nat /\ n * l \in Nat
      BY <1>2, <2>4, Z3
    <3> DEFINE x == l * q
               y == n * l
    <3> HIDE DEF x, y
    <3>2. x >= y /\ x \in Nat /\ y \in Nat
      BY <3>1 DEF x, y
    <3>3. r = x + (r % l) /\ a = y + (a % n)
      BY <2>3, <2>4 DEF x, y
    <3>4. r % l >= 0 /\ a % n <= n - 1 /\ r % l \in Int /\ a % n \in Int
      BY <1>2, <2>3, <2>4
    <3> QED
      BY <1>1, <1>2, <3>2, <3>3, <3>4
  <2> QED
    BY <2>2, <2>5 DEF n
<1> QED
  BY <1>3, <1>4

\* The search in cyclic order meets every number.
LEMMA CyclicSearch ==
    ASSUME NEW n \in Nat \ {0}, NEW f \in Nat, NEW h \in 0 .. n - 1
    PROVE  \E k \in 0 .. n - 1 : (f + k) % n = h
<1> DEFINE q == f \div n
           m == f % n
           a == n * q
           p == q + 1
           b == n * p
<1>1. q \in Nat /\ m \in 0 .. n - 1 /\ f = a + m
  BY DivMod
<1> HIDE DEF q, m
<1>2. a \in Nat /\ b = a + n /\ p \in Nat
  BY <1>1, MulNat, Z3
<1>3. CASE m <= h
  <2> HIDE DEF a
  <2>1. f + (h - m) = a + h /\ h - m \in 0 .. n - 1
    BY <1>1, <1>2, <1>3
  <2>2. (n * q + h) % n = h
    BY <1>1, DivModUnique
  <2> QED
    BY <2>1, <2>2 DEF a
<1>4. CASE m > h
  <2> HIDE DEF a, b, p
  <2>1. f + (n + h - m) = b + h /\ n + h - m \in 0 .. n - 1
    BY <1>1, <1>2, <1>4
  <2>2. (n * p + h) % n = h
    BY <1>2, DivModUnique
  <2> QED
    BY <2>1, <2>2 DEF b
<1> QED
  BY <1>1, <1>3, <1>4

\* The queue the next rank is taken from has a rank in it.
LEMMA NextQueueFull ==
    ASSUME conf \in Configurations, NEW f \in FileNumbers,
           NEW h \in FileNumbers, procsToWrite[h] # <<>>, h < conf.nOutFiles
    PROVE  NextQueue(f) \in FileNumbers /\ procsToWrite[NextQueue(f)] # <<>>
<1> DEFINE n == conf.nOutFiles
           Queue(k) == (f + k) % n
           left == {k \in 0 .. n - 1 : procsToWrite[Queue(k)] # <<>>}
<1>1. n \in Nat \ {0} /\ n <= NProcs /\ f \in Nat /\ h \in 0 .. n - 1
  BY SetLength, RankNumbers
<1>2. PICK k \in 0 .. n - 1 : Queue(k) = h
  BY <1>1, CyclicSearch
<1>3. left # {} /\ left \in SUBSET Nat
  BY <1>1, <1>2
<1>4. Min(left) \in left
  <2> HIDE DEF left
  <2> QED
    BY <1>3, MinOfNaturals
<1>5. NextQueue(f) = Queue(Min(left))
  BY DEF NextQueue
<1> DEFINE j == Min(left)
<1>6. j \in 0 .. n - 1 /\ procsToWrite[Queue(j)] # <<>>
  BY <1>4
<1> HIDE DEF j
<1>7. Queue(j) \in 0 .. n - 1
  <2>1. f + j \in Nat
    BY <1>1, <1>6
  <2> QED
    BY <1>1, <2>1, DivMod
<1>8. NextQueue(f) = Queue(j)
  BY <1>5 DEF j
<1>9. Queue(j) \in FileNumbers
  BY <1>1, <1>7, NProcsAssumption DEF FileNumbers
<1> QED
  BY <1>6, <1>8, <1>9

-----------------------------------------------------------------------------
(***************************************************************************)
(* What a step leaves as it is                                             *)
(***************************************************************************)
\* A step of rank r alone, which is not the answer of the decider.
Moves(r) ==
    /\ conf' = conf /\ minmax' = minmax
    /\ \A q \in Ranks \ {r} : pc'[q] = pc[q] /\ coordinatorProc'[q] = coordinatorProc[q]
    /\ Root' = Root /\ (Decided' <=> Decided)

LEMMA RootIsRank == TypeOK => Root \in Ranks
  BY RankNumbers DEF TypeOK, Root, IOProcessorNumber, Configurations, AvailableDeciders

LEMMA DeciderIsRank ==
    ASSUME ModesKept, conf.mode = "dynamic"
    PROVE  conf.deciderProc \in AvailableDeciders /\ conf.deciderProc \in Ranks
  BY DEF ModesKept, AvailableDeciders

\* The two sorts of ranks.
LEMMA Sorts ==
    ASSUME conf \in Configurations
    PROVE  /\ SetZeroProcs \cup AvailableDeciders = Ranks
           /\ SetZeroProcs \cap AvailableDeciders = {}
           /\ \A r \in Ranks : /\ WhichSetPosition(r) = 0 <=> r \in SetZeroProcs
                               /\ WhichSetPosition(r) > 0 <=> r \in AvailableDeciders
<1>1. \A r \in Ranks : WhichSetPosition(r) \in Nat
  BY Place
<1> QED
  BY <1>1 DEF SetZeroProcs, AvailableDeciders

LEMMA MovesAlone ==
    ASSUME TypeOK, ModesKept, NEW r \in Ranks,
           conf' = conf, minmax' = minmax,
           \A q \in Ranks \ {r} : pc'[q] = pc[q] /\ coordinatorProc'[q] = coordinatorProc[q],
           conf.mode = "dynamic" /\ r = conf.deciderProc =>
               /\ coordinatorProc'[r] = coordinatorProc[r]
               /\ (pc'[r] = "start" <=> pc[r] = "start")
    PROVE  Moves(r)
<1>1. CASE conf.mode = "dynamic"
  <2>1. /\ coordinatorProc'[conf.deciderProc] = coordinatorProc[conf.deciderProc]
        /\ (pc'[conf.deciderProc] = "start" <=> pc[conf.deciderProc] = "start")
    BY <1>1, DeciderIsRank
  <2> QED
    BY <1>1, <2>1 DEF Moves, Root, Decided
<1>2. CASE conf.mode # "dynamic"
  BY <1>2 DEF Moves, Root, Decided
<1> QED
  BY <1>1, <1>2

LEMMA InTurnKept ==
    ASSUME InTurn, NEW r \in Ranks, conf' = conf,
           \A q \in Ranks \ {r} : pc'[q] = pc[q],
           InTransit("stWrite")' \subseteq InTransit("stWrite"),
           HasLeft(r) => HasLeft(r)',
           conf.mode = "static" => (At(r, "start") => At(r, "start")'),
           \A m \in msgs : m.src \in Ranks
    PROVE  InTurn'
<1>1. \A q : Successor(q)' = Successor(q) /\ (HandsOn(q)' <=> HandsOn(q))
  BY PlacesKept DEF Successor, HandsOn
<1>2. \A q \in Ranks : HandsOn(q) => Successor(q) \in Ranks /\ conf.mode = "static"
  BY DEF HandsOn
<1>3. \A q \in Ranks : HasLeft(q) => HasLeft(q)'
  BY DEF HasLeft
<1>4. \A q \in Ranks : conf.mode = "static" => (At(q, "start") => At(q, "start")')
  BY DEF At
<1> QED
  BY <1>1, <1>2, <1>3, <1>4 DEF InTurn, InTransit

LEMMA GatheredKept ==
    ASSUME TypeOK, Gathered, NEW r \in Ranks, Moves(r),
           HasLeft(r)' \/ conf.mode # "dynamic" => coordinatorProc'[r] = Root,
           pc[r] \in {"cleanup", "gone"} <=> pc'[r] \in {"cleanup", "gone"},
           InTransit("gather")' \subseteq InTransit("gather")
    PROVE  Gathered'
<1>1. \A q \in Ranks : pc[q] \in {"cleanup", "gone"} <=> pc'[q] \in {"cleanup", "gone"}
  BY DEF Moves
<1>2. \A q \in Ranks : HasLeft(q)' \/ conf.mode # "dynamic" => coordinatorProc'[q] = Root
  BY DEF Moves, Gathered, HasLeft
<1>3. Root \in Ranks /\ Root' = Root /\ minmax' = minmax /\ conf' = conf
  BY RootIsRank DEF Moves
<1>4. \A m \in InTransit("gather") : m.src \in Ranks
  BY DEF TypeOK, InTransit
<1> QED
  BY <1>1, <1>2, <1>3, <1>4 DEF Gathered

LEMMA SoundKept ==
    ASSUME TypeOK, ModesKept, NEW r \in Ranks, Moves(r), NEW m \in msgs, Sound(m),
           m.tag = "decider" /\ m.src = r => pc'[r] \notin {"start", "writing", "written"},
           m.tag = "coordinator" /\ m.dst = r => pc'[r] \in Early,
           m.tag = "write" /\ m.dst = r => pc'[r] \in {"start", "signal"}
    PROVE  Sound(m)'
<1>1. m.src \in Ranks /\ SetZeroProcs \subseteq Ranks /\ AvailableDeciders \subseteq Ranks
  BY DEF TypeOK, SetZeroProcs, AvailableDeciders
<1>2. /\ SetZeroProcs' = SetZeroProcs /\ AvailableDeciders' = AvailableDeciders
      /\ conf' = conf /\ Root' = Root /\ (Decided' <=> Decided)
  BY PlacesKept DEF Moves
<1>3. \A q \in Ranks \ {r} : pc'[q] = pc[q]
  BY DEF Moves
<1> QED
  BY <1>1, <1>2, <1>3 DEF Sound, Early

LEMMA UnreadKept ==
    ASSUME Unread, NEW r \in Ranks, Moves(r), unreadMessages' = unreadMessages,
           r = Root => (HasLeft(r)' <=> HasLeft(r)),
           pc'[r] # "gone"
    PROVE  Unread'
  BY DEF Unread, Moves, HasLeft, At

LEMMA QueuesKept ==
    ASSUME TypeOK, Queues, NEW r \in Ranks, Moves(r),
           InTransit("write")' \subseteq InTransit("write"),
           UNCHANGED <<procsToWrite, remainingWriters>>,
           r = Root => /\ pc'[r] \in Early => pc[r] \in Early
                       /\ pc'[r] \notin {"coordinate", "await"},
           \/ pc[r] \in {"start", "signal"} => pc'[r] \in {"start", "signal"}
           \/ r \in SetZeroProcs
           \/ \E m \in InTransit("write") : m.dst = r
    PROVE  Queues'
<1>1. /\ SetZeroProcs' = SetZeroProcs /\ AvailableDeciders' = AvailableDeciders
      /\ conf' = conf /\ Root' = Root /\ (Decided' <=> Decided) /\ Waiting' = Waiting
  BY PlacesKept DEF Moves, Waiting
<1>2. \A q \in Ranks \ {r} : pc'[q] = pc[q]
  BY DEF Moves
<1>3. Root \in Ranks /\ SetZeroProcs \cap AvailableDeciders = {} /\ AvailableDeciders \subseteq Ranks
  BY RootIsRank, Sorts DEF TypeOK, AvailableDeciders
<1>4. ASSUME Decided, pc'[Root] \in Early
      PROVE  InTransit("write")' = {} /\ \A q \in AvailableDeciders : pc'[q] \in {"start", "signal"}
  <2>1. pc[Root] \in Early
    BY <1>2, <1>3, <1>4
  <2>2. InTransit("write") = {} /\ \A q \in AvailableDeciders : pc[q] \in {"start", "signal"}
    BY <1>4, <2>1 DEF Queues
  <2> QED
    BY <1>2, <1>3, <2>2
<1>5. ASSUME pc'[Root] \in {"coordinate", "await"}
      PROVE  /\ r # Root /\ pc'[Root] = pc[Root]
             /\ \A q \in Waiting :
                   pc'[q] \in {"start", "signal"} /\ \A m \in InTransit("write")' : m.dst # q
  <2>1. r # Root /\ pc'[Root] = pc[Root]
    BY <1>2, <1>3, <1>5
  <2>2. /\ procsToWrite \in [FileNumbers -> Seq(AvailableDeciders)]
        /\ \A q \in Waiting :
              pc[q] \in {"start", "signal"} /\ \A m \in InTransit("write") : m.dst # q
    BY <1>5, <2>1 DEF Queues
  <2>3. Waiting \subseteq AvailableDeciders
    BY <2>2 DEF Waiting, Range
  <2> QED
    BY <1>2, <1>3, <2>1, <2>2, <2>3
<1> QED
  BY <1>1, <1>4, <1>5 DEF Queues, At

\* The counts of the messages to the decider and to the coordinator.
LEMMA DeciderCountKept ==
    ASSUME TypeOK, Balanced, NEW r \in Ranks, Moves(r), conf.mode = "dynamic",
           conf.deciderProc \in Ranks,
           InTransit("decider")' = InTransit("decider"),
           \/ r \notin SetZeroProcs
           \/ pc[r] \in {"start", "writing", "written"} <=> pc'[r] \in {"start", "writing", "written"},
           unreadMessages'[conf.deciderProc].n = unreadMessages[conf.deciderProc].n
    PROVE  Cardinality(InTransit("decider"))' + Cardinality(ToTell)' = DeciderExpects'
<1>1. /\ SetZeroProcs' = SetZeroProcs /\ conf' = conf /\ (Decided' <=> Decided)
      /\ \A q \in Ranks \ {r} : pc'[q] = pc[q]
  BY PlacesKept DEF Moves
<1>2. ToTell' = ToTell
  BY <1>1 DEF ToTell, SetZeroProcs
<1>3. DeciderExpects' = DeciderExpects
  BY <1>1 DEF DeciderExpects
<1>4. Cardinality(InTransit("decider"))' = Cardinality(InTransit("decider"))
  OBVIOUS
<1> QED
  BY <1>2, <1>3, <1>4 DEF Balanced

LEMMA ReportCountKept ==
    ASSUME TypeOK, Balanced, NEW r \in Ranks, Moves(r), Decided,
           InTransit("done")' = InTransit("done"),
           r # Root => (HasLeft(r)' <=> HasLeft(r)),
           CoordinatorExpects' = CoordinatorExpects
    PROVE  Cardinality(InTransit("done"))' + Cardinality(ToReport)' = CoordinatorExpects'
<1>1. Root' = Root /\ \A q \in Ranks \ {r} : pc'[q] = pc[q]
  BY DEF Moves
<1>2. ToReport' = ToReport
  BY <1>1 DEF ToReport, HasLeft
<1>3. Cardinality(InTransit("done"))' = Cardinality(InTransit("done"))
  OBVIOUS
<1> QED
  BY <1>2, <1>3 DEF Balanced

LEMMA ExpectsKept ==
    ASSUME TypeOK, NEW r \in Ranks, Moves(r),
           \/ r # Root
           \/ pc[r] \in Early /\ pc'[r] \in Early
           \/ HasLeft(r) /\ HasLeft(r)',
           unreadMessages'[Root].n = unreadMessages[Root].n,
           remainingWriters' = remainingWriters
    PROVE  CoordinatorExpects' = CoordinatorExpects
<1>1. /\ SetZeroProcs' = SetZeroProcs /\ AvailableDeciders' = AvailableDeciders /\ Root' = Root
      /\ \A q \in Ranks \ {r} : pc'[q] = pc[q]
  BY PlacesKept DEF Moves
<1>2. Root \in Ranks
  BY RootIsRank
<1>3. \/ pc'[Root] = pc[Root]
      \/ pc[Root] \in Early /\ pc'[Root] \in Early
      \/ HasLeft(Root) /\ HasLeft(Root)'
  BY <1>1, <1>2
<1> QED
  BY <1>1, <1>3 DEF CoordinatorExpects, HasLeft, Early

-----------------------------------------------------------------------------
(***************************************************************************)
(* Without the dynamic mode                                                *)
(***************************************************************************)
\* Only the messages of static mode and those of the gather are sent.
LEMMA Quiet ==
    ASSUME WriterIInv, WriterIInv', MessageIInv, conf.mode # "dynamic", conf' = conf,
           unreadMessages' = unreadMessages,
           IsFiniteSet(msgs'),
           \A m \in msgs' : m \in msgs \/ m.tag \in {"stWrite", "gather"}
    PROVE  Addressed' /\ Elected' /\ Queues' /\ Unread' /\ Balanced'
<1>1. conf'.mode # "dynamic" /\ ~Decided /\ ~Decided'
  BY DEF Decided
<1>2. \A m \in msgs' : m.tag \in {"stWrite", "gather"}
  <2>1. \A m \in msgs : m.tag \in {"stWrite", "gather"}
    BY <1>1 DEF MessageIInv, Addressed, Sound
  <2> QED
    BY <2>1
<1>3. Addressed'
  <2>1. \A m \in msgs' : Sound(m)'
    BY <1>2 DEF Sound
  <2>2. InTransit("write")' = {}
    BY <1>2 DEF InTransit
  <2> QED
    BY <2>1, <2>2 DEF Addressed
<1>4. Elected'
  BY <1>1 DEF Elected
<1>5. Queues'
  <2>1. \A q \in Ranks : pc'[q] \notin {"coordinate", "await"}
    BY <1>1 DEF WriterIInv, ModesKept
  <2>2. Root' \in Ranks
    BY RankNumbers, <1>1 DEF Root, IOProcessorNumber
  <2> QED
    BY <1>1, <2>1, <2>2 DEF Queues
<1>6. Unread'
  <2>1. \A q \in Ranks : unreadMessages[q].tag \in {"none", "decider", "done"}
    BY DEF WriterIInv, TypeOK
  <2>2. \A q \in Ranks : unreadMessages[q].tag = "none" /\ unreadMessages[q].n = 0
    BY <1>1, <2>1 DEF MessageIInv, Unread
  <2> QED
    BY <1>1, <2>2 DEF Unread
<1>7. Balanced'
  BY <1>1 DEF Balanced
<1> QED
  BY <1>3, <1>4, <1>5, <1>6, <1>7

\* No rank is the successor of two.
LEMMA SuccessorUnique ==
    ASSUME conf \in Configurations, NEW r \in Ranks, NEW q \in Ranks, Successor(r) = Successor(q)
    PROVE  r = q
<1>1. conf.nOutFiles \in Nat /\ r \in Nat /\ q \in Nat
  BY SetLength, RankNumbers
<1> QED
  BY <1>1 DEF Successor

LEMMA StaticReadyMessages ==
    ASSUME WriterIInv, WriterIInv', MessageIInv, NEW r \in Ranks, StaticReady(r),
           UNCHANGED <<minmax, header>>
    PROVE  MessageIInv'
<1>1. TypeOK /\ OneOwner /\ ModesKept /\ InTurn /\ Gathered /\ Balanced
  BY DEF WriterIInv, MessageIInv
<1>2. /\ conf' = conf /\ conf.mode = "static" /\ pc[r] = "start"
      /\ pc' = [pc EXCEPT ![r] = "writing"]
      /\ msgs' \subseteq msgs
      /\ WhichSetPosition(r) = 0 \/ \E m \in Incoming(r, "stWrite") : msgs' = msgs \ {m}
      /\ UNCHANGED <<coordinatorProc, unreadMessages>>
  BY DEF StaticReady, OpenTruncated, OpenAppending, Goto, At
<1>3. /\ \A q \in Ranks \ {r} : pc'[q] = pc[q] /\ coordinatorProc'[q] = coordinatorProc[q]
      /\ pc'[r] = "writing"
  BY <1>1, <1>2 DEF TypeOK
<1>4. Moves(r)
  BY <1>1, <1>2, <1>3, MovesAlone
<1>5. Gathered'
  <2>1. InTransit("gather")' \subseteq InTransit("gather")
    BY <1>2 DEF InTransit
  <2>3. coordinatorProc'[r] = Root
    BY <1>1, <1>2 DEF Gathered
  <2>2. ~HasLeft(r)' /\ (pc[r] \in {"cleanup", "gone"} <=> pc'[r] \in {"cleanup", "gone"})
    BY <1>2, <1>3 DEF HasLeft
  <2> QED
    BY <1>1, <1>4, <2>1, <2>2, <2>3, GatheredKept
<1>6. InTurn'
  <2>1. \A q : Successor(q)' = Successor(q) /\ (HandsOn(q)' <=> HandsOn(q))
    BY <1>2, PlacesKept DEF Successor, HandsOn
  <2>2. \A q \in Ranks : HasLeft(q)' <=> HasLeft(q)
    BY <1>2, <1>3 DEF HasLeft
  <2>3. \A m \in InTransit("stWrite") : m \in msgs /\ m.src \in Ranks /\ Carries(m, FileNumber(m.dst))
    BY <1>1 DEF InTransit, TypeOK, Carries
  <2>4. ASSUME NEW m \in InTransit("stWrite")' PROVE m.dst # r
    <3> SUFFICES ASSUME m.dst = r PROVE FALSE
      OBVIOUS
    <3>1. m \in InTransit("stWrite")
      BY <1>2 DEF InTransit
    <3>2. HandsOn(m.src) /\ m.dst = Successor(m.src)
      BY <1>1, <3>1 DEF InTurn
    <3>3. WhichSetPosition(m.src) \in Nat /\ WhichSetPosition(r) > WhichSetPosition(m.src)
      BY <1>1, <2>3, <3>1, <3>2, Place DEF HandsOn, TypeOK
    <3>4. WhichSetPosition(r) # 0
      BY <3>3
    <3>5. PICK k \in Incoming(r, "stWrite") : msgs' = msgs \ {k}
      BY <1>2, <3>4
    <3>6. k \in InTransit("stWrite") /\ k.dst = r
      BY <3>5 DEF Incoming, InTransit
    <3>7. FileNumber(r) \in FileNumbers
      BY <1>1, Place DEF TypeOK
    <3>8. m = k
      BY <1>1, <2>3, <3>1, <3>6, <3>7 DEF OneOwner
    <3> QED
      BY <3>5, <3>8 DEF InTransit
  <2>5. ASSUME NEW q \in Ranks, HandsOn(q), ~HasLeft(q) PROVE Successor(q) # r
    <3> SUFFICES ASSUME Successor(q) = r PROVE FALSE
      OBVIOUS
    <3>1. WhichSetPosition(q) \in Nat /\ WhichSetPosition(r) > WhichSetPosition(q)
      BY <1>1, <2>5, Place DEF HandsOn, TypeOK
    <3>2. WhichSetPosition(r) # 0
      BY <3>1
    <3>3. PICK k \in Incoming(r, "stWrite") : msgs' = msgs \ {k}
      BY <1>2, <3>2
    <3>4. k \in InTransit("stWrite") /\ k.dst = r
      BY <3>3 DEF Incoming, InTransit
    <3>5. HasLeft(k.src) /\ Successor(k.src) = r /\ k.src \in Ranks
      BY <1>1, <2>3, <3>4 DEF InTurn
    <3>6. q = k.src
      BY <1>1, <3>5, SuccessorUnique DEF TypeOK
    <3> QED
      BY <2>5, <3>5, <3>6
  <2>6. \A m \in InTransit("stWrite")' : m \in InTransit("stWrite")
    BY <1>2 DEF InTransit
  <2>7. \A q \in Ranks \ {r} : At(q, "start") => At(q, "start")'
    BY <1>3 DEF At
  <2>8. \A q \in Ranks : HandsOn(q) => Successor(q) \in Ranks
    BY DEF HandsOn
  <2>9. ASSUME NEW m \in InTransit("stWrite")'
        PROVE  (HandsOn(m.src) /\ HasLeft(m.src) /\ m.dst = Successor(m.src) /\ At(m.dst, "start"))'
    <3>1. m \in InTransit("stWrite") /\ m.dst # r /\ m.src \in Ranks
      BY <2>3, <2>4, <2>6
    <3>2. HandsOn(m.src) /\ HasLeft(m.src) /\ m.dst = Successor(m.src) /\ At(m.dst, "start")
      BY <1>1, <3>1 DEF InTurn
    <3> QED
      BY <2>1, <2>2, <2>7, <2>8, <3>1, <3>2
  <2>10. ASSUME NEW q \in Ranks, HandsOn(q)', ~HasLeft(q)'
         PROVE  At(Successor(q), "start")'
    <3>1. HandsOn(q) /\ ~HasLeft(q) /\ Successor(q) # r
      BY <2>1, <2>2, <2>5, <2>10
    <3>2. At(Successor(q), "start") /\ Successor(q) \in Ranks
      BY <1>1, <2>8, <3>1 DEF InTurn
    <3> QED
      BY <2>1, <2>7, <3>1, <3>2
  <2> QED
    BY <2>9, <2>10 DEF InTurn
<1>7. IsFiniteSet(msgs')
  BY <1>1, <1>2, FS_Subset DEF Balanced
<1>8. Addressed' /\ Elected' /\ Queues' /\ Unread' /\ Balanced'
  BY <1>2, <1>7, Quiet
<1> QED
  BY <1>5, <1>6, <1>8 DEF MessageIInv

LEMMA StaticNextMessages ==
    ASSUME WriterIInv, WriterIInv', MessageIInv, NEW r \in Ranks, StaticNext(r),
           UNCHANGED <<minmax, header>>
    PROVE  MessageIInv'
<1> DEFINE k == Message("stWrite", r, Successor(r), 0)
<1>1. TypeOK /\ OneOwner /\ ModesKept /\ InTurn /\ Gathered /\ Balanced
  BY DEF WriterIInv, MessageIInv
<1>2. /\ conf' = conf /\ conf.mode = "static" /\ pc[r] = "written"
      /\ pc' = [pc EXCEPT ![r] = "done"]
      /\ \/ msgs' = msgs
         \/ /\ msgs' = msgs \cup {k}
            /\ Successor(r) < NProcs /\ WhichSetPosition(Successor(r)) > WhichSetPosition(r)
      /\ UNCHANGED <<coordinatorProc, unreadMessages>>
  BY DEF StaticNext, Goto, At
<1>3. /\ \A q \in Ranks \ {r} : pc'[q] = pc[q] /\ coordinatorProc'[q] = coordinatorProc[q]
      /\ pc'[r] = "done"
  BY <1>1, <1>2 DEF TypeOK
<1>4. Moves(r)
  BY <1>1, <1>2, <1>3, MovesAlone
<1>5. k.tag = "stWrite" /\ k.src = r /\ k.dst = Successor(r)
  BY DEF Message
<1> HIDE DEF k
<1>6. Gathered'
  <2>1. InTransit("gather")' \subseteq InTransit("gather")
    BY <1>2, <1>5 DEF InTransit
  <2>2. pc[r] \in {"cleanup", "gone"} <=> pc'[r] \in {"cleanup", "gone"}
    BY <1>2, <1>3
  <2>3. coordinatorProc'[r] = Root
    BY <1>1, <1>2 DEF Gathered
  <2> QED
    BY <1>1, <1>4, <2>1, <2>2, <2>3, GatheredKept
<1>7. InTurn'
  <2>1. \A q : Successor(q)' = Successor(q) /\ (HandsOn(q)' <=> HandsOn(q))
    BY <1>2, PlacesKept DEF Successor, HandsOn
  <2>2. \A q \in Ranks : HasLeft(q) => HasLeft(q)'
    BY <1>2, <1>3 DEF HasLeft
  <2>3. \A q \in Ranks : At(q, "start") => At(q, "start")'
    BY <1>2, <1>3 DEF At
  <2>4. \A q \in Ranks : HandsOn(q) => Successor(q) \in Ranks
    BY DEF HandsOn
  <2>5. \A m \in InTransit("stWrite") : m.src \in Ranks
    BY <1>1 DEF InTransit, TypeOK
  <2>6. ASSUME k \in msgs'
        PROVE  \/ HandsOn(r) /\ HasLeft(r)' /\ At(Successor(r), "start")
               \/ k \in msgs
    <3>1. HasLeft(r)' /\ ~HasLeft(r)
      BY <1>2, <1>3 DEF HasLeft
    <3>2. ASSUME k \notin msgs PROVE HandsOn(r)
      BY <1>1, <1>2, <2>6, <3>2, SuccessorSameFile DEF HandsOn, TypeOK
    <3> QED
      BY <1>1, <3>1, <3>2 DEF InTurn
  <2>7. ASSUME NEW m \in InTransit("stWrite")'
        PROVE  (HandsOn(m.src) /\ HasLeft(m.src) /\ m.dst = Successor(m.src) /\ At(m.dst, "start"))'
    <3>1. CASE m \in msgs
      <4>1. m \in InTransit("stWrite")
        BY <3>1 DEF InTransit
      <4>2. HandsOn(m.src) /\ HasLeft(m.src) /\ m.dst = Successor(m.src) /\ At(m.dst, "start")
        BY <1>1, <4>1 DEF InTurn
      <4> QED
        BY <2>1, <2>2, <2>3, <2>4, <2>5, <4>1, <4>2
    <3>2. CASE m \notin msgs
      <4>1. m = k /\ k \in msgs'
        BY <1>2, <3>2 DEF InTransit
      <4>2. HandsOn(r) /\ HasLeft(r)' /\ At(Successor(r), "start")
        BY <2>6, <3>2, <4>1
      <4> QED
        BY <1>5, <2>1, <2>3, <2>4, <4>1, <4>2
    <3> QED
      BY <3>1, <3>2
  <2>8. ASSUME NEW q \in Ranks, HandsOn(q)', ~HasLeft(q)'
         PROVE  At(Successor(q), "start")'
    BY <1>1, <2>1, <2>2, <2>3, <2>4, <2>8 DEF InTurn
  <2> QED
    BY <2>7, <2>8 DEF InTurn
<1>8. IsFiniteSet(msgs')
  BY <1>1, <1>2, FS_AddElement DEF Balanced
<1>9. Addressed' /\ Elected' /\ Queues' /\ Unread' /\ Balanced'
  BY <1>2, <1>5, <1>8, Quiet
<1> QED
  BY <1>6, <1>7, <1>9 DEF MessageIInv

LEMMA SparseReadyMessages ==
    ASSUME WriterIInv, WriterIInv', MessageIInv, NEW r \in Ranks, SparseReady(r),
           UNCHANGED <<minmax, header>>
    PROVE  MessageIInv'
<1>1. TypeOK /\ ModesKept /\ InTurn /\ Gathered /\ Balanced
  BY DEF WriterIInv, MessageIInv
<1>2. /\ conf' = conf /\ conf.mode = "sparse" /\ pc[r] = "start"
      /\ \/ pc' = [pc EXCEPT ![r] = "writing"]
         \/ pc' = [pc EXCEPT ![r] = "done"]
      /\ UNCHANGED <<msgs, coordinatorProc, unreadMessages>>
  BY DEF SparseReady, OpenTruncated, Goto, At
<1>3. /\ \A q \in Ranks \ {r} : pc'[q] = pc[q] /\ coordinatorProc'[q] = coordinatorProc[q]
      /\ pc'[r] \in {"writing", "done"}
  BY <1>1, <1>2 DEF TypeOK
<1>4. Moves(r)
  BY <1>1, <1>2, <1>3, MovesAlone
<1>5. \A tag : InTransit(tag)' = InTransit(tag)
  BY <1>2 DEF InTransit
<1>6. Gathered'
  <2>1. coordinatorProc'[r] = Root
    BY <1>1, <1>2 DEF Gathered
  <2>2. pc[r] \in {"cleanup", "gone"} <=> pc'[r] \in {"cleanup", "gone"}
    BY <1>2, <1>3
  <2> QED
    BY <1>1, <1>4, <1>5, <2>1, <2>2, GatheredKept
<1>7. InTurn'
  BY <1>1, <1>2, <1>3, <1>5, InTurnKept DEF HasLeft, TypeOK
<1>8. Addressed' /\ Elected' /\ Queues' /\ Unread' /\ Balanced'
  BY <1>1, <1>2, Quiet DEF Balanced
<1> QED
  BY <1>6, <1>7, <1>8 DEF MessageIInv

LEMMA SparseNextMessages ==
    ASSUME WriterIInv, WriterIInv', MessageIInv, NEW r \in Ranks, SparseNext(r),
           UNCHANGED <<minmax, header>>
    PROVE  MessageIInv'
<1>1. TypeOK /\ ModesKept /\ InTurn /\ Gathered /\ Balanced
  BY DEF WriterIInv, MessageIInv
<1>2. /\ conf' = conf /\ conf.mode = "sparse" /\ pc[r] = "written"
      /\ pc' = [pc EXCEPT ![r] = "done"]
      /\ UNCHANGED <<msgs, coordinatorProc, unreadMessages>>
  BY DEF SparseNext, Goto, At
<1>3. /\ \A q \in Ranks \ {r} : pc'[q] = pc[q] /\ coordinatorProc'[q] = coordinatorProc[q]
      /\ pc'[r] = "done"
  BY <1>1, <1>2 DEF TypeOK
<1>4. Moves(r)
  BY <1>1, <1>2, <1>3, MovesAlone
<1>5. \A tag : InTransit(tag)' = InTransit(tag)
  BY <1>2 DEF InTransit
<1>6. Gathered'
  <2>1. coordinatorProc'[r] = Root
    BY <1>1, <1>2 DEF Gathered
  <2>2. pc[r] \in {"cleanup", "gone"} <=> pc'[r] \in {"cleanup", "gone"}
    BY <1>2, <1>3
  <2> QED
    BY <1>1, <1>4, <1>5, <2>1, <2>2, GatheredKept
<1>7. InTurn'
  BY <1>1, <1>2, <1>3, <1>5, InTurnKept DEF HasLeft, TypeOK
<1>8. Addressed' /\ Elected' /\ Queues' /\ Unread' /\ Balanced'
  BY <1>1, <1>2, Quiet DEF Balanced
<1> QED
  BY <1>6, <1>7, <1>8 DEF MessageIInv

-----------------------------------------------------------------------------
(***************************************************************************)
(* Steps that read and send nothing                                        *)
(***************************************************************************)
\* A rank opens the file of its set, or writes.
LEMMA SilentMessages ==
    ASSUME WriterIInv, WriterIInv', MessageIInv, NEW r \in Ranks,
           OpenSetZero(r) \/ Write(r), UNCHANGED <<minmax, header>>
    PROVE  MessageIInv'
<1>1. TypeOK /\ ModesKept /\ InTurn /\ Gathered /\ Addressed /\ Elected /\ Queues /\ Unread /\ Balanced
  BY DEF WriterIInv, MessageIInv
<1>2. /\ conf' = conf
      /\ \/ pc[r] = "start" /\ pc' = [pc EXCEPT ![r] = "writing"] /\ WhichSetPosition(r) = 0
            /\ conf.mode = "dynamic"
         \/ pc[r] = "writing" /\ pc' = [pc EXCEPT ![r] = "written"]
      /\ UNCHANGED <<msgs, coordinatorProc, procsToWrite, remainingWriters, unreadMessages>>
  BY DEF OpenSetZero, Write, OpenTruncated, Goto, At, coordinating
<1>3. /\ \A q \in Ranks \ {r} : pc'[q] = pc[q] /\ coordinatorProc'[q] = coordinatorProc[q]
      /\ pc'[r] \in {"writing", "written"} /\ pc[r] \in {"start", "writing"}
      /\ pc[r] = "start" => r \in SetZeroProcs /\ conf.mode = "dynamic"
  BY <1>1, <1>2, Sorts DEF TypeOK
<1>4. Moves(r)
  <2>1. conf.mode = "dynamic" /\ r = conf.deciderProc => r \in AvailableDeciders
    BY <1>1, DeciderIsRank
  <2>2. conf.mode = "dynamic" /\ r = conf.deciderProc => pc[r] # "start"
    BY <1>1, <1>3, <2>1, Sorts DEF TypeOK
  <2> QED
    BY <1>1, <1>2, <1>3, <2>2, MovesAlone
<1>5. \A tag : InTransit(tag)' = InTransit(tag)
  BY <1>2 DEF InTransit
<1>6. ~HasLeft(r) /\ ~HasLeft(r)'
  BY <1>3 DEF HasLeft
<1>7. Gathered'
  <2>1. conf.mode # "dynamic" => coordinatorProc'[r] = Root
    BY <1>1, <1>2 DEF Gathered
  <2>2. pc[r] \in {"cleanup", "gone"} <=> pc'[r] \in {"cleanup", "gone"}
    BY <1>3
  <2> QED
    BY <1>1, <1>4, <1>5, <1>6, <2>1, <2>2, GatheredKept
<1>8. InTurn'
  BY <1>1, <1>2, <1>3, <1>5, <1>6, InTurnKept DEF TypeOK, At
<1>9. CASE conf.mode # "dynamic"
  <2>1. Addressed' /\ Elected' /\ Queues' /\ Unread' /\ Balanced'
    BY <1>1, <1>2, <1>9, Quiet DEF Balanced
  <2> QED
    BY <1>7, <1>8, <2>1 DEF MessageIInv
<1>10. CASE conf.mode = "dynamic"
  <2>1. Addressed'
    <3>1. ASSUME NEW m \in msgs PROVE Sound(m)'
      <4>1. Sound(m)
        BY <1>1 DEF Addressed
      <4>2. m.tag = "decider" => m.src # r
        BY <1>3, <4>1 DEF Sound
      <4>3. m.tag = "coordinator" /\ m.dst = r => pc'[r] \in Early
        BY <1>3 DEF Early
      <4>4. m.tag = "write" => m.dst # r
        BY <1>1, <1>3, <4>1, Sorts DEF Sound, TypeOK
      <4> QED
        BY <1>1, <1>4, <4>1, <4>2, <4>3, <4>4, SoundKept
    <3> QED
      BY <1>1, <1>2, <1>5, <3>1 DEF Addressed
  <2>2. Elected'
    <3>1. SetZeroProcs' = SetZeroProcs /\ AvailableDeciders' = AvailableDeciders
      BY <1>2, PlacesKept
    <3>2. SetZeroProcs \subseteq Ranks /\ AvailableDeciders \subseteq Ranks
      BY DEF SetZeroProcs, AvailableDeciders
    <3>3. pc[r] = "start" => r \notin AvailableDeciders
      BY <1>1, <1>3, Sorts DEF TypeOK
    <3> QED
      BY <1>1, <1>2, <1>3, <1>4, <1>10, <3>1, <3>2, <3>3 DEF Elected, Moves, Early, At
  <2>3. Queues'
    <3>1. pc[r] \in {"start", "signal"} => r \in SetZeroProcs
      BY <1>3
    <3>2. pc'[r] \in Early /\ pc[r] \in Early /\ pc'[r] \notin {"coordinate", "await"}
      BY <1>3 DEF Early
    <3> QED
      BY <1>1, <1>2, <1>4, <1>5, <3>1, <3>2, QueuesKept
  <2>4. Unread'
    BY <1>1, <1>2, <1>3, <1>4, <1>6, UnreadKept
  <2>5. Balanced'
    <3>1. Cardinality(InTransit("decider"))' + Cardinality(ToTell)' = DeciderExpects'
      BY <1>1, <1>2, <1>3, <1>4, <1>5, <1>10, DeciderIsRank, DeciderCountKept
    <3>2. ASSUME Decided
          PROVE  Cardinality(InTransit("done"))' + Cardinality(ToReport)' = CoordinatorExpects'
      <4>1. CoordinatorExpects' = CoordinatorExpects
        <5>1. pc[r] \in Early /\ pc'[r] \in Early
          BY <1>3 DEF Early
        <5> QED
          BY <1>1, <1>2, <1>4, <5>1, ExpectsKept
      <4> QED
        BY <1>1, <1>4, <1>5, <1>6, <3>2, <4>1, ReportCountKept
    <3> QED
      BY <1>1, <1>2, <1>4, <3>1, <3>2 DEF Balanced, Moves
  <2> QED
    BY <1>7, <1>8, <2>1, <2>2, <2>3, <2>4, <2>5 DEF MessageIInv
<1> QED
  BY <1>9, <1>10

-----------------------------------------------------------------------------
(***************************************************************************)
(* The dynamic mode                                                        *)
(***************************************************************************)
LEMMA DynamicInTurn ==
    ASSUME InTurn, conf.mode = "dynamic", conf' = conf,
           InTransit("stWrite")' \subseteq InTransit("stWrite")
    PROVE  InTurn'
  BY DEF InTurn, HandsOn

LEMMA SortsKept ==
    ASSUME TypeOK, conf' = conf
    PROVE  /\ SetZeroProcs' = SetZeroProcs /\ AvailableDeciders' = AvailableDeciders
           /\ SetZeroProcs \subseteq Ranks /\ AvailableDeciders \subseteq Ranks
           /\ \A r \in SetZeroProcs : r \notin AvailableDeciders
           /\ \A r \in Ranks : r \in SetZeroProcs \/ r \in AvailableDeciders
           /\ \A r \in Ranks : /\ WhichSetPosition(r) = 0 <=> r \in SetZeroProcs
                               /\ WhichSetPosition(r) > 0 <=> r \in AvailableDeciders
           /\ IsFiniteSet(Ranks)
<1>1. IsFiniteSet(Ranks)
  <2>1. 0 \in Int /\ NProcs - 1 \in Int
    BY NProcsAssumption
  <2> QED
    BY <2>1, FS_Interval DEF Ranks
<1> QED
  BY <1>1, PlacesKept, Sorts DEF TypeOK

\* One message more, or one less; one rank less to wait for.
LEMMA OneMore ==
    ASSUME NEW k, NEW tag, IsFiniteSet(msgs), k \notin msgs, k.tag = tag,
           InTransit(tag)' = InTransit(tag) \cup {k}
    PROVE  Cardinality(InTransit(tag))' = Cardinality(InTransit(tag)) + 1
<1>1. InTransit(tag) \in SUBSET msgs /\ k \notin InTransit(tag)
  BY DEF InTransit
<1>2. IsFiniteSet(InTransit(tag))
  BY <1>1, FS_Subset
<1>3. Cardinality(InTransit(tag) \cup {k}) = Cardinality(InTransit(tag)) + 1
  BY <1>1, <1>2, FS_AddElement
<1> QED
  BY <1>3

LEMMA OneLess ==
    ASSUME NEW k, NEW tag, IsFiniteSet(msgs), k \in InTransit(tag),
           InTransit(tag)' = InTransit(tag) \ {k}
    PROVE  Cardinality(InTransit(tag))' = Cardinality(InTransit(tag)) - 1
<1>1. InTransit(tag) \in SUBSET msgs
  BY DEF InTransit
<1>2. IsFiniteSet(InTransit(tag))
  BY <1>1, FS_Subset
<1>3. Cardinality(InTransit(tag) \ {k}) = Cardinality(InTransit(tag)) - 1
  BY <1>2, FS_RemoveElement
<1> QED
  BY <1>3

LEMMA CountTypes ==
    ASSUME TypeOK, IsFiniteSet(msgs)
    PROVE  /\ \A tag : Cardinality(InTransit(tag)) \in Nat /\ IsFiniteSet(InTransit(tag))
           /\ Cardinality(ToTell) \in Nat /\ IsFiniteSet(ToTell)
           /\ Cardinality(ToReport) \in Nat /\ IsFiniteSet(ToReport)
           /\ Cardinality(SetZeroProcs) \in Nat /\ Cardinality(AvailableDeciders) \in Nat
           /\ remainingWriters \in Nat
           /\ \A r \in Ranks : unreadMessages[r].n \in Nat
<1>1. \A tag : InTransit(tag) \in SUBSET msgs
  BY DEF InTransit
<1>2. \A tag : Cardinality(InTransit(tag)) \in Nat /\ IsFiniteSet(InTransit(tag))
  BY <1>1, FS_Subset, FS_CardinalityType
<1>3. IsFiniteSet(Ranks) /\ ToTell \in SUBSET Ranks /\ ToReport \in SUBSET Ranks
  <2>1. 0 \in Int /\ NProcs - 1 \in Int
    BY NProcsAssumption
  <2> QED
    BY <2>1, FS_Interval DEF Ranks, ToTell, ToReport, SetZeroProcs
<1>4. /\ Cardinality(ToTell) \in Nat /\ IsFiniteSet(ToTell)
      /\ Cardinality(ToReport) \in Nat /\ IsFiniteSet(ToReport)
  BY <1>3, FS_Subset, FS_CardinalityType
<1>5. Cardinality(SetZeroProcs) \in Nat /\ Cardinality(AvailableDeciders) \in Nat
  BY SetSizes DEF TypeOK
<1>6. remainingWriters \in Nat /\ \A r \in Ranks : unreadMessages[r].n \in Nat
  BY <1>5, NProcsAssumption DEF TypeOK
<1> QED
  BY <1>2, <1>4, <1>5, <1>6

LEMMA TellDeciderMessages ==
    ASSUME WriterIInv, WriterIInv', MessageIInv, NEW r \in Ranks, TellDecider(r),
           UNCHANGED <<minmax, header>>
    PROVE  MessageIInv'
<1>0. PICK k : k = Message("decider", r, conf.deciderProc, r)
  OBVIOUS
<1>1. TypeOK /\ ModesKept /\ InTurn /\ Gathered /\ Addressed /\ Elected /\ Queues /\ Unread /\ Balanced
  BY DEF WriterIInv, MessageIInv
<1>2. /\ conf' = conf /\ conf.mode = "dynamic"
      /\ pc[r] = "written" /\ pc' = [pc EXCEPT ![r] = "elect"] /\ WhichSetPosition(r) = 0
      /\ msgs' = msgs \cup {k}
      /\ UNCHANGED <<coordinatorProc, procsToWrite, remainingWriters, unreadMessages>>
  BY <1>0 DEF TellDecider, Goto, At, coordinating
<1>3. /\ \A q \in Ranks \ {r} : pc'[q] = pc[q] /\ coordinatorProc'[q] = coordinatorProc[q]
      /\ pc'[r] = "elect" /\ r \in SetZeroProcs
  BY <1>1, <1>2, SortsKept DEF TypeOK
<1>4. Moves(r)
  <2>1. conf.deciderProc # r
    BY <1>1, <1>2, <1>3, DeciderIsRank, SortsKept
  <2> QED
    BY <1>1, <1>2, <1>3, <2>1, MovesAlone
<1>5. k.tag = "decider" /\ k.src = r /\ k.dst = conf.deciderProc /\ k.val = r
  BY <1>0 DEF Message
<1>6. k \notin msgs
  BY <1>1, <1>2, <1>5 DEF Addressed, Sound
<1>7. k = Message("decider", k.src, conf'.deciderProc, k.src)
  BY <1>0, <1>2, <1>5
<1>8. /\ \A tag : tag # "decider" => InTransit(tag)' = InTransit(tag)
      /\ InTransit("decider")' = InTransit("decider") \cup {k}
  BY <1>2, <1>5 DEF InTransit
<1>9. ~HasLeft(r) /\ ~HasLeft(r)'
  BY <1>2, <1>3 DEF HasLeft
<1>10. Gathered'
  <2>1. pc[r] \in {"cleanup", "gone"} <=> pc'[r] \in {"cleanup", "gone"}
    BY <1>2, <1>3
  <2> QED
    BY <1>1, <1>2, <1>4, <1>8, <1>9, <2>1, GatheredKept
<1>11. InTurn'
  BY <1>1, <1>2, <1>8, DynamicInTurn
<1>12. Addressed'
  <2>1. ASSUME NEW m \in msgs PROVE Sound(m)'
    <3>1. Sound(m)
      BY <1>1 DEF Addressed
    <3>2. m.tag = "coordinator" /\ m.dst = r => pc'[r] \in Early
      BY <1>3 DEF Early
    <3>3. m.tag = "write" => m.dst # r
      BY <1>1, <1>2, <1>3, <3>1, SortsKept DEF Sound
    <3> QED
      BY <1>1, <1>3, <1>4, <3>1, <3>2, <3>3, SoundKept
  <2>2. Sound(k)'
    BY <1>1, <1>2, <1>3, <1>5, <1>7, SortsKept DEF Sound
  <2> QED
    BY <1>1, <1>2, <1>8, <2>1, <2>2 DEF Addressed
<1>13. Elected'
  <2>1. pc'[r] \in Early
    BY <1>3 DEF Early
  <2> QED
    BY <1>1, <1>2, <1>3, <1>4, <2>1, SortsKept DEF Elected, Moves, At
<1>14. Queues'
  <2>1. pc'[r] \in Early /\ pc[r] \in Early /\ pc'[r] \notin {"coordinate", "await"}
    BY <1>2, <1>3 DEF Early
  <2> QED
    BY <1>1, <1>2, <1>3, <1>4, <1>8, <2>1, QueuesKept
<1>15. Unread'
  BY <1>1, <1>2, <1>3, <1>4, <1>9, UnreadKept
<1>16. Balanced'
  <2>1. Cardinality(InTransit("decider"))' + Cardinality(ToTell)' = DeciderExpects'
    <3>1. Cardinality(InTransit("decider"))' = Cardinality(InTransit("decider")) + 1
      BY <1>1, <1>5, <1>6, <1>8, OneMore DEF Balanced
    <3>2. ToTell' = ToTell \ {r} /\ r \in ToTell
      BY <1>1, <1>2, <1>3, SortsKept DEF ToTell
    <3>3. IsFiniteSet(ToTell) /\ Cardinality(ToTell) \in Nat /\ Cardinality(InTransit("decider")) \in Nat
      BY <1>1, CountTypes DEF Balanced
    <3>4. Cardinality(ToTell \ {r}) = Cardinality(ToTell) - 1
      BY <3>2, <3>3, FS_RemoveElement
    <3>5. DeciderExpects' = DeciderExpects
      BY <1>1, <1>2, <1>4, SortsKept DEF DeciderExpects, Moves
    <3>6. Cardinality(ToTell)' = Cardinality(ToTell) - 1
      BY <3>2, <3>4
    <3>7. Cardinality(InTransit("decider")) + Cardinality(ToTell) = DeciderExpects
      BY <1>1, <1>2 DEF Balanced
    <3> QED
      BY <3>1, <3>3, <3>5, <3>6, <3>7
  <2>2. ASSUME Decided
        PROVE  Cardinality(InTransit("done"))' + Cardinality(ToReport)' = CoordinatorExpects'
    <3>1. CoordinatorExpects' = CoordinatorExpects
      <4>1. pc[r] \in Early /\ pc'[r] \in Early
        BY <1>2, <1>3 DEF Early
      <4> QED
        BY <1>1, <1>2, <1>4, <4>1, ExpectsKept
    <3> QED
      BY <1>1, <1>4, <1>8, <1>9, <2>2, <3>1, ReportCountKept
  <2>3. IsFiniteSet(msgs')
    BY <1>1, <1>2, FS_AddElement DEF Balanced
  <2> QED
    BY <1>4, <2>1, <2>2, <2>3 DEF Balanced, Moves
<1> QED
  BY <1>10, <1>11, <1>12, <1>13, <1>14, <1>15, <1>16 DEF MessageIInv

\* A rank that has no more to do tells the coordinator which file is free.
LEMMA Reports ==
    ASSUME WriterIInv, MessageIInv, NEW r \in Ranks,
           conf' = conf, minmax' = minmax, conf.mode = "dynamic", Decided, r # Root,
           \/ pc[r] = "elect" /\ r \in SetZeroProcs
           \/ pc[r] = "written" /\ r \in AvailableDeciders,
           pc' = [pc EXCEPT ![r] = "done"],
           coordinatorProc' = [coordinatorProc EXCEPT ![r] = Root],
           UNCHANGED <<procsToWrite, remainingWriters, unreadMessages>>,
           NEW k, k.tag = "done", k.src = r, k.dst = Root, k.val = fileNumber[r],
           k \in msgs', msgs' \subseteq msgs \cup {k},
           \A m \in msgs : m.tag # "coordinator" => m \in msgs',
           \A m \in msgs' : m.tag = "coordinator" => m.dst # r
    PROVE  MessageIInv'
<1>1. /\ TypeOK /\ ModesKept /\ OneOwner
      /\ InTurn /\ Gathered /\ Addressed /\ Elected /\ Queues /\ Unread /\ Balanced
  BY DEF WriterIInv, MessageIInv
<1>2. /\ \A q \in Ranks \ {r} : pc'[q] = pc[q] /\ coordinatorProc'[q] = coordinatorProc[q]
      /\ pc'[r] = "done" /\ coordinatorProc'[r] = Root
  BY <1>1 DEF TypeOK
<1>3. Moves(r)
  <2>1. r = conf.deciderProc => coordinatorProc'[r] = coordinatorProc[r]
    BY <1>2 DEF Root
  <2>2. pc'[r] # "start" /\ pc[r] # "start"
    BY <1>2
  <2> QED
    BY <1>1, <1>2, <2>1, <2>2, MovesAlone
<1>4. k \notin msgs
  <2>1. Has(r, fileNumber[r]) /\ fileNumber[r] \in FileNumbers
    BY <1>1, HasOwn
  <2>2. Carries(k, fileNumber[r])
    BY DEF Carries
  <2> QED
    BY <1>1, <2>1, <2>2 DEF OneOwner
<1>5. /\ \A tag : tag \notin {"coordinator", "done"} => InTransit(tag)' = InTransit(tag)
      /\ InTransit("done")' = InTransit("done") \cup {k}
  BY DEF InTransit
<1>6. ~HasLeft(r) /\ HasLeft(r)'
  BY <1>2 DEF HasLeft
<1>7. Gathered'
  <2>1. pc[r] \in {"cleanup", "gone"} <=> pc'[r] \in {"cleanup", "gone"}
    BY <1>2
  <2> QED
    BY <1>1, <1>2, <1>3, <1>5, <2>1, GatheredKept
<1>8. InTurn'
  BY <1>1, <1>5, DynamicInTurn
<1>9. Addressed'
  <2>1. ASSUME NEW m \in msgs, m \in msgs' PROVE Sound(m)'
    <3>1. Sound(m)
      BY <1>1 DEF Addressed
    <3>2. m.tag = "write" => m.dst # r
      BY <3>1 DEF Sound
    <3> QED
      BY <1>1, <1>2, <1>3, <2>1, <3>1, <3>2, SoundKept
  <2>2. Sound(k)'
    BY <1>3 DEF Sound, Moves
  <2>3. \A m \in msgs' : Sound(m)'
    BY <2>1, <2>2
  <2> QED
    BY <1>1, <1>5, <2>3 DEF Addressed
<1>10. Elected'
  BY <1>1, <1>2, <1>3, SortsKept DEF Elected, Moves, At
<1>11. Queues'
  BY <1>1, <1>2, <1>3, <1>5, QueuesKept
<1>12. Unread'
  BY <1>1, <1>2, <1>3, UnreadKept
<1>13. Balanced'
  <2>1. Cardinality(InTransit("decider"))' + Cardinality(ToTell)' = DeciderExpects'
    <3>1. r \notin SetZeroProcs \/ (pc[r] \in {"start", "writing", "written"} <=>
                                     pc'[r] \in {"start", "writing", "written"})
      BY <1>1, <1>2, SortsKept
    <3> QED
      BY <1>1, <1>2, <1>3, <1>5, <3>1, DeciderIsRank, DeciderCountKept
  <2>2. Cardinality(InTransit("done"))' + Cardinality(ToReport)' = CoordinatorExpects'
    <3>1. CoordinatorExpects' = CoordinatorExpects
      BY <1>1, <1>3, ExpectsKept
    <3>2. Cardinality(InTransit("done"))' = Cardinality(InTransit("done")) + 1
      BY <1>1, <1>4, <1>5, OneMore DEF Balanced
    <3>3. ToReport' = ToReport \ {r} /\ r \in ToReport
      BY <1>2, <1>3, <1>6 DEF ToReport, HasLeft, Moves
    <3>4. IsFiniteSet(ToReport) /\ Cardinality(ToReport) \in Nat /\ Cardinality(InTransit("done")) \in Nat
      BY <1>1, CountTypes DEF Balanced
    <3>5. Cardinality(ToReport \ {r}) = Cardinality(ToReport) - 1
      BY <3>3, <3>4, FS_RemoveElement
    <3>6. Cardinality(ToReport)' = Cardinality(ToReport) - 1
      BY <3>3, <3>5
    <3>7. Cardinality(InTransit("done")) + Cardinality(ToReport) = CoordinatorExpects
      BY <1>1 DEF Balanced
    <3> QED
      BY <3>1, <3>2, <3>4, <3>6, <3>7
  <2>3. IsFiniteSet(msgs')
    <3>1. IsFiniteSet(msgs \cup {k})
      BY <1>1, FS_AddElement DEF Balanced
    <3> QED
      BY <3>1, FS_Subset
  <2> QED
    BY <2>1, <2>2, <2>3 DEF Balanced
<1> QED
  BY <1>7, <1>8, <1>9, <1>10, <1>11, <1>12, <1>13 DEF MessageIInv

LEMMA DynamicNextMessages ==
    ASSUME WriterIInv, WriterIInv', MessageIInv, NEW r \in Ranks, DynamicNext(r),
           UNCHANGED <<minmax, header>>
    PROVE  MessageIInv'
<1>1. TypeOK /\ ModesKept /\ Addressed /\ Elected
  BY DEF WriterIInv, MessageIInv
<1>2. PICK k : k = Message("done", r, coordinatorProc[r], fileNumber[r])
  OBVIOUS
<1>3. /\ conf' = conf /\ conf.mode = "dynamic"
      /\ pc[r] = "written" /\ pc' = [pc EXCEPT ![r] = "done"] /\ WhichSetPosition(r) > 0
      /\ msgs' = msgs \cup {k}
      /\ UNCHANGED <<coordinatorProc, procsToWrite, remainingWriters, unreadMessages>>
  BY <1>2 DEF DynamicNext, Goto, At, coordinating
<1>4. r \in AvailableDeciders /\ r \notin SetZeroProcs
  BY <1>1, <1>3, Sorts DEF TypeOK
<1>5. Decided /\ coordinatorProc[r] = Root /\ Root \in SetZeroProcs
  BY <1>1, <1>3, <1>4 DEF Elected, At
<1>6. k.tag = "done" /\ k.src = r /\ k.dst = Root /\ k.val = fileNumber[r]
  BY <1>2, <1>5 DEF Message
<1>7. coordinatorProc' = [coordinatorProc EXCEPT ![r] = Root]
  BY <1>1, <1>3, <1>5 DEF TypeOK
<1>8. \A m \in msgs' : m.tag = "coordinator" => m.dst # r
  BY <1>1, <1>3, <1>4, <1>6 DEF Addressed, Sound
<1> QED
  BY <1>3, <1>4, <1>5, <1>6, <1>7, <1>8, Reports

LEMMA LearnCoordinatorMessages ==
    ASSUME WriterIInv, WriterIInv', MessageIInv, NEW r \in Ranks, LearnCoordinator(r),
           UNCHANGED <<minmax, header>>
    PROVE  MessageIInv'
<1>1. /\ TypeOK /\ ModesKept /\ OneOwner
      /\ InTurn /\ Gathered /\ Addressed /\ Elected /\ Queues /\ Unread /\ Balanced
  BY DEF WriterIInv, MessageIInv
<1>2. PICK m \in Incoming(r, "coordinator") :
          /\ coordinatorProc' = [coordinatorProc EXCEPT ![r] = m.val]
          /\ IF m.val = r
             THEN msgs' = msgs \ {m} /\ BecomeCoordinator(r)
             ELSE /\ msgs' = (msgs \ {m}) \cup {Message("done", r, m.val, fileNumber[r])}
                  /\ Goto(r, "done")
                  /\ UNCHANGED coordinating
  BY DEF LearnCoordinator
<1>3. /\ conf' = conf /\ pc[r] = "elect" /\ conf.mode = "dynamic" /\ r \in SetZeroProcs
      /\ UNCHANGED <<fileNumber, unreadMessages>>
  BY <1>1, Sorts DEF LearnCoordinator, At, ModesKept, TypeOK
<1>4. m \in msgs /\ m.tag = "coordinator" /\ m.dst = r
  BY <1>2 DEF Incoming
<1>5. Decided /\ m = Message("coordinator", conf.deciderProc, r, Root) /\ m.val = Root
  BY <1>1, <1>4 DEF Addressed, Sound, Message
<1>6. \A j \in msgs : j.tag = "coordinator" /\ j.dst = r => j = m
  BY <1>1, <1>5 DEF Addressed, Sound
<1>7. CASE r # Root
  <2>1. PICK k : k = Message("done", r, Root, fileNumber[r])
    OBVIOUS
  <2>2. /\ msgs' = (msgs \ {m}) \cup {k}
        /\ pc' = [pc EXCEPT ![r] = "done"]
        /\ coordinatorProc' = [coordinatorProc EXCEPT ![r] = Root]
        /\ UNCHANGED <<procsToWrite, remainingWriters>>
    BY <1>2, <1>5, <1>7, <2>1 DEF Goto, coordinating
  <2>3. k.tag = "done" /\ k.src = r /\ k.dst = Root /\ k.val = fileNumber[r]
    BY <2>1 DEF Message
  <2>4. /\ k \in msgs' /\ msgs' \subseteq msgs \cup {k}
        /\ \A j \in msgs : j.tag # "coordinator" => j \in msgs'
        /\ \A j \in msgs' : j.tag = "coordinator" => j.dst # r
    BY <1>4, <1>6, <2>2, <2>3
  <2> QED
    BY <1>3, <1>5, <1>7, <2>2, <2>3, <2>4, Reports
<1>8. CASE r = Root
  <2>1. /\ msgs' = msgs \ {m}
        /\ coordinatorProc' = [coordinatorProc EXCEPT ![r] = r]
        /\ pc' = [pc EXCEPT ![r] = "coordinate"]
        /\ procsToWrite' = [f \in FileNumbers |->
                              Ascending({q \in AvailableDeciders : FileNumber(q) = f})]
        /\ remainingWriters' = NProcs - Cardinality(SetZeroProcs)
    BY <1>2, <1>5, <1>8 DEF BecomeCoordinator, Goto
  <2>2. /\ \A q \in Ranks \ {r} : pc'[q] = pc[q] /\ coordinatorProc'[q] = coordinatorProc[q]
        /\ pc'[r] = "coordinate" /\ coordinatorProc'[r] = Root
    BY <1>1, <1>8, <2>1 DEF TypeOK
  <2>3. r \notin AvailableDeciders /\ conf.deciderProc \in AvailableDeciders
    BY <1>1, <1>3, DeciderIsRank, Sorts DEF TypeOK
  <2>4. Moves(r)
    BY <1>1, <1>3, <2>2, <2>3, MovesAlone
  <2>5. /\ \A tag : tag # "coordinator" => InTransit(tag)' = InTransit(tag)
        /\ ~HasLeft(r) /\ ~HasLeft(r)'
    BY <1>3, <1>4, <2>1, <2>2 DEF InTransit, HasLeft
  <2>6. Gathered'
    <3>1. pc[r] \in {"cleanup", "gone"} <=> pc'[r] \in {"cleanup", "gone"}
      BY <1>3, <2>2
    <3> QED
      BY <1>1, <2>2, <2>4, <2>5, <3>1, GatheredKept
  <2>7. InTurn'
    BY <1>1, <1>3, <2>5, DynamicInTurn
  <2>8. Addressed'
    <3>1. ASSUME NEW j \in msgs' PROVE Sound(j)'
      <4>1. j \in msgs /\ Sound(j)
        BY <1>1, <2>1 DEF Addressed
      <4>2. j.tag = "write" => j.dst # r
        BY <1>3, <4>1 DEF Sound
      <4>3. j.tag = "coordinator" => j.dst # r
        BY <1>6, <2>1, <4>1
      <4> QED
        BY <1>1, <2>2, <2>4, <4>1, <4>2, <4>3, SoundKept
    <3> QED
      BY <1>1, <2>5, <3>1 DEF Addressed
  <2>9. Elected'
    BY <1>1, <1>3, <1>5, <2>2, <2>4, SortsKept DEF Elected, Moves, At
  <2>10. Unread'
    BY <1>1, <1>3, <2>2, <2>4, <2>5, UnreadKept
  <2>11. /\ InTransit("write") = {}
         /\ \A q \in AvailableDeciders : pc[q] \in {"start", "signal"}
    BY <1>1, <1>3, <1>5, <1>8 DEF Queues, Early
  <2>12. Queues'
    <3> DEFINE S(f) == {q \in AvailableDeciders : FileNumber(q) = f}
    <3>1. /\ AvailableDeciders \subseteq Ranks /\ AvailableDeciders \subseteq Nat
          /\ IsFiniteSet(AvailableDeciders)
      BY <1>1, SetSizes, RankNumbers DEF AvailableDeciders, TypeOK
    <3>2. ASSUME NEW f \in FileNumbers
          PROVE  /\ procsToWrite'[f] \in Seq(AvailableDeciders)
                 /\ \A i \in DOMAIN procsToWrite'[f] : procsToWrite'[f][i] \in S(f)
                 /\ \A i, j \in DOMAIN procsToWrite'[f] :
                       procsToWrite'[f][i] = procsToWrite'[f][j] => i = j
                 /\ \A q \in S(f) : \E i \in DOMAIN procsToWrite'[f] : procsToWrite'[f][i] = q
                 /\ procsToWrite'[f] # <<>> => f < conf.nOutFiles
      <4>1. S(f) \in SUBSET AvailableDeciders /\ S(f) \in SUBSET Nat
        BY <3>1
      <4>2. IsFiniteSet(S(f)) /\ procsToWrite'[f] = Ascending(S(f))
        BY <2>1, <3>1, <4>1, FS_Subset
      <4>3. S(f) # {} => f < conf.nOutFiles
        BY <1>1, <3>1, FileNumberBelow DEF TypeOK
      <4> HIDE DEF S
      <4>4. /\ procsToWrite'[f] \in Seq(S(f))
            /\ \A i, j \in DOMAIN procsToWrite'[f] :
                  procsToWrite'[f][i] = procsToWrite'[f][j] => i = j
            /\ \A q \in S(f) : \E i \in DOMAIN procsToWrite'[f] : procsToWrite'[f][i] = q
            /\ \A i \in DOMAIN procsToWrite'[f] : procsToWrite'[f][i] \in S(f)
        BY <4>1, <4>2, AscendingLists
      <4>5. procsToWrite'[f] \in Seq(AvailableDeciders)
        BY <4>1, <4>4
      <4>6. S(f) = {} => procsToWrite'[f] = <<>>
        BY <4>4
      <4> QED
        BY <4>3, <4>4, <4>5, <4>6
    <3>3. procsToWrite' \in [FileNumbers -> Seq(AvailableDeciders)]
      BY <2>1, <3>2
    <3>4. Waiting' = AvailableDeciders
      <4>1. ASSUME NEW q \in Waiting' PROVE q \in AvailableDeciders
        <5>1. PICK f \in FileNumbers : q \in Range(procsToWrite'[f])
          BY DEF Waiting
        <5>2. PICK i \in DOMAIN procsToWrite'[f] : q = procsToWrite'[f][i]
          BY <5>1 DEF Range
        <5> QED
          BY <3>2, <5>2
      <4>2. ASSUME NEW q \in AvailableDeciders PROVE q \in Waiting'
        <5>1. q \in S(FileNumber(q)) /\ FileNumber(q) \in FileNumbers
          BY <1>1, <3>1, Place DEF TypeOK
        <5> HIDE DEF S
        <5>2. PICK i \in DOMAIN procsToWrite'[FileNumber(q)] : procsToWrite'[FileNumber(q)][i] = q
          BY <3>2, <5>1
        <5> QED
          BY <5>1, <5>2 DEF Waiting, Range
      <4> QED
        BY <4>1, <4>2
    <3>5. \A f, g \in FileNumbers :
             \A i \in DOMAIN procsToWrite'[f], j \in DOMAIN procsToWrite'[g] :
                 procsToWrite'[f][i] = procsToWrite'[g][j] => f = g /\ i = j
      <4>1. \A f \in FileNumbers : \A i \in DOMAIN procsToWrite'[f] :
                FileNumber(procsToWrite'[f][i]) = f
        BY <3>2
      <4> HIDE DEF S
      <4> QED
        BY <3>2, <4>1
    <3>6. remainingWriters' = Cardinality(Waiting)' + 0
      <4>1. remainingWriters' = Cardinality(AvailableDeciders) /\ Cardinality(AvailableDeciders) \in Nat
        BY <1>1, <2>1, SetSizes DEF TypeOK
      <4>2. Cardinality(Waiting)' = Cardinality(AvailableDeciders)
        BY <3>4
      <4> QED
        BY <4>1, <4>2
    <3>7. \A q \in Waiting' :
             pc'[q] \in {"start", "signal"} /\ \A j \in InTransit("write")' : j.dst # q
      BY <2>2, <2>3, <2>5, <2>11, <3>1, <3>4
    <3>8. Root' = Root /\ conf' = conf /\ pc'[Root] = "coordinate" /\ pc'[Root] \notin Early
          /\ AvailableDeciders' = AvailableDeciders
      BY <1>1, <1>3, <1>8, <2>2, <2>4, SortsKept DEF Moves, Early
    <3>9. \A f \in FileNumbers : procsToWrite'[f] # <<>> => f < conf.nOutFiles
      BY <3>2
    <3> QED
      BY <3>3, <3>5, <3>6, <3>7, <3>8, <3>9 DEF Queues, At
  <2>13. Balanced'
    <3>1. Cardinality(InTransit("decider"))' + Cardinality(ToTell)' = DeciderExpects'
      BY <1>1, <1>3, <2>2, <2>4, <2>5, DeciderIsRank, DeciderCountKept
    <3>2. Cardinality(InTransit("done"))' + Cardinality(ToReport)' = CoordinatorExpects'
      <4>1. CoordinatorExpects = Cardinality(SetZeroProcs) - 1 + Cardinality(AvailableDeciders)
        BY <1>3, <1>8 DEF CoordinatorExpects, HasLeft
      <4>2. CoordinatorExpects' = Cardinality(SetZeroProcs)' - 1 + remainingWriters'
        BY <1>8, <2>2, <2>4 DEF CoordinatorExpects, HasLeft, Moves
      <4>3. Cardinality(SetZeroProcs)' = Cardinality(SetZeroProcs)
        BY <1>1, <1>3, SortsKept
      <4>4. remainingWriters' = Cardinality(AvailableDeciders)
        BY <1>1, <2>1, SetSizes DEF TypeOK
      <4>5. CoordinatorExpects' = CoordinatorExpects
        BY <4>1, <4>2, <4>3, <4>4
      <4> QED
        BY <1>1, <1>5, <1>8, <2>4, <2>5, <4>5, ReportCountKept
    <3>3. IsFiniteSet(msgs')
      BY <1>1, <2>1, FS_RemoveElement DEF Balanced
    <3> QED
      BY <3>1, <3>2, <3>3 DEF Balanced
  <2> QED
    BY <2>6, <2>7, <2>8, <2>9, <2>10, <2>12, <2>13 DEF MessageIInv
<1> QED
  BY <1>7, <1>8

LEMMA WaitForSignalMessages ==
    ASSUME WriterIInv, WriterIInv', MessageIInv, NEW r \in Ranks, WaitForSignal(r),
           UNCHANGED <<minmax, header>>
    PROVE  MessageIInv'
<1>1. /\ TypeOK /\ ModesKept
      /\ InTurn /\ Gathered /\ Addressed /\ Elected /\ Queues /\ Unread /\ Balanced
  BY DEF WriterIInv, MessageIInv
<1>2. PICK k \in Incoming(r, "write") :
          msgs' = msgs \ {k} /\ coordinatorProc' = [coordinatorProc EXCEPT ![r] = k.src]
  BY DEF WaitForSignal
<1>3. /\ conf' = conf /\ conf.mode = "dynamic" /\ pc' = [pc EXCEPT ![r] = "writing"]
      /\ \/ pc[r] = "start" /\ WhichSetPosition(r) > 0 /\ r # conf.deciderProc
         \/ pc[r] = "signal"
      /\ UNCHANGED <<procsToWrite, remainingWriters, unreadMessages>>
  BY DEF WaitForSignal, OpenAppending, Goto, At, coordinating
<1>4. k \in msgs /\ k.tag = "write" /\ k.dst = r
  BY <1>2 DEF Incoming
<1>5. Decided /\ k.src = Root /\ r \in AvailableDeciders /\ r \notin SetZeroProcs
  <2>1. Decided /\ k.src = Root /\ r \in AvailableDeciders
    BY <1>1, <1>4 DEF Addressed, Sound
  <2> QED
    BY <1>1, <2>1, Sorts DEF TypeOK
<1>6. /\ \A q \in Ranks \ {r} : pc'[q] = pc[q] /\ coordinatorProc'[q] = coordinatorProc[q]
      /\ pc'[r] = "writing" /\ coordinatorProc'[r] = Root
  BY <1>1, <1>2, <1>3, <1>5 DEF TypeOK
<1>7. r # Root
  BY <1>1, <1>3, <1>5 DEF Elected
<1>8. Moves(r)
  <2>1. r = conf.deciderProc => coordinatorProc'[r] = coordinatorProc[r]
    BY <1>3, <1>6 DEF Root
  <2>2. r = conf.deciderProc => pc'[r] # "start" /\ pc[r] # "start"
    BY <1>3, <1>6
  <2> QED
    BY <1>1, <1>3, <1>6, <2>1, <2>2, MovesAlone
<1>9. /\ \A tag : tag # "write" => InTransit(tag)' = InTransit(tag)
      /\ InTransit("write")' = InTransit("write") \ {k} /\ k \in InTransit("write")
      /\ ~HasLeft(r) /\ ~HasLeft(r)'
  BY <1>2, <1>3, <1>4, <1>6 DEF InTransit, HasLeft
<1>10. Gathered'
  <2>1. pc[r] \in {"cleanup", "gone"} <=> pc'[r] \in {"cleanup", "gone"}
    BY <1>3, <1>6
  <2> QED
    BY <1>1, <1>6, <1>8, <1>9, <2>1, GatheredKept
<1>11. InTurn'
  BY <1>1, <1>3, <1>9, DynamicInTurn
<1>12. Addressed'
  <2>1. ASSUME NEW m \in msgs' PROVE Sound(m)'
    <3>1. m \in msgs /\ Sound(m)
      BY <1>1, <1>2 DEF Addressed
    <3>2. m.tag = "write" => m.dst # r
      BY <1>1, <1>2, <1>4, <3>1, <2>1 DEF Addressed, InTransit
    <3>3. m.tag = "decider" => m.src # r
      BY <1>5, <3>1 DEF Sound
    <3>4. m.tag = "coordinator" => m.dst # r
      BY <1>5, <3>1 DEF Sound
    <3> QED
      BY <1>1, <1>8, <3>1, <3>2, <3>3, <3>4, SoundKept
  <2> QED
    BY <1>1, <1>9, <2>1 DEF Addressed
<1>13. Elected'
  BY <1>1, <1>3, <1>5, <1>6, <1>8, SortsKept DEF Elected, Moves, At
<1>14. Queues'
  BY <1>1, <1>3, <1>4, <1>7, <1>8, <1>9, QueuesKept
<1>15. Unread'
  BY <1>1, <1>3, <1>6, <1>8, <1>9, UnreadKept
<1>16. Balanced'
  <2>1. Cardinality(InTransit("decider"))' + Cardinality(ToTell)' = DeciderExpects'
    BY <1>1, <1>3, <1>5, <1>8, <1>9, DeciderIsRank, DeciderCountKept
  <2>2. Cardinality(InTransit("done"))' + Cardinality(ToReport)' = CoordinatorExpects'
    <3>1. CoordinatorExpects' = CoordinatorExpects
      BY <1>1, <1>3, <1>7, <1>8, ExpectsKept
    <3> QED
      BY <1>1, <1>5, <1>8, <1>9, <3>1, ReportCountKept
  <2>3. IsFiniteSet(msgs')
    BY <1>1, <1>2, FS_RemoveElement DEF Balanced
  <2> QED
    BY <2>1, <2>2, <2>3 DEF Balanced
<1> QED
  BY <1>10, <1>11, <1>12, <1>13, <1>14, <1>15, <1>16 DEF MessageIInv

\* The answer of the decider names the coordinator: until then nobody has left, and no
\* message but those to the decider is on its way.
LEMMA DecideMessages ==
    ASSUME WriterIInv, WriterIInv', MessageIInv, NEW r \in Ranks, Decide(r),
           UNCHANGED <<minmax, header>>
    PROVE  MessageIInv'
<1>1. /\ TypeOK /\ ModesKept
      /\ InTurn /\ Gathered /\ Addressed /\ Elected /\ Queues /\ Unread /\ Balanced
  BY DEF WriterIInv, MessageIInv
<1>2. PICK k \in Incoming(r, "decider") :
          /\ coordinatorProc' = [coordinatorProc EXCEPT ![r] = k.val]
          /\ msgs' = (msgs \ {k}) \cup
                        {Message("coordinator", r, q, k.val) : q \in SetZeroProcs}
  BY DEF Decide
<1>3. PICK c : c = k.val
  OBVIOUS
<1>4. PICK Answers : Answers = {Message("coordinator", r, q, c) : q \in SetZeroProcs}
  OBVIOUS
<1>5. /\ conf' = conf /\ minmax' = minmax /\ conf.mode = "dynamic" /\ r = conf.deciderProc
      /\ pc[r] = "start" /\ pc' = [pc EXCEPT ![r] = "signal"]
      /\ unreadMessages' = [unreadMessages EXCEPT ![r] =
                              [tag |-> "decider", n |-> Cardinality(SetZeroProcs) - 1]]
  BY DEF Decide, Goto, At
<1>6. k \in msgs /\ k.tag = "decider" /\ k.dst = r /\ c = k.src /\ c \in SetZeroProcs
  <2>1. k \in msgs /\ k.tag = "decider" /\ k.dst = r
    BY <1>2 DEF Incoming
  <2>2. k = Message("decider", k.src, conf.deciderProc, k.src) /\ k.src \in SetZeroProcs
    BY <1>1, <2>1 DEF Addressed, Sound
  <2>3. k.val = k.src
    BY <2>2 DEF Message
  <2> QED
    BY <1>3, <2>1, <2>2, <2>3
<1>7. /\ \A q \in Ranks \ {r} : pc'[q] = pc[q]
      /\ pc'[r] = "signal" /\ coordinatorProc'[r] = c
      /\ unreadMessages'[r] = [tag |-> "decider", n |-> Cardinality(SetZeroProcs) - 1]
      /\ \A q \in Ranks \ {r} : unreadMessages'[q] = unreadMessages[q]
      /\ msgs' = (msgs \ {k}) \cup Answers
  BY <1>1, <1>2, <1>3, <1>4, <1>5 DEF TypeOK
<1>8. ~Decided /\ Decided' /\ Root' = c
  BY <1>5, <1>7 DEF Decided, Root
<1>9. /\ \A q \in SetZeroProcs : pc[q] \in Early
      /\ \A q \in AvailableDeciders : pc[q] = "start"
      /\ r \in AvailableDeciders /\ r \notin SetZeroProcs
      /\ \A q \in Ranks : q \in SetZeroProcs \/ q \in AvailableDeciders
      /\ SetZeroProcs' = SetZeroProcs /\ AvailableDeciders' = AvailableDeciders
      /\ SetZeroProcs \subseteq Ranks /\ AvailableDeciders \subseteq Ranks
  BY <1>1, <1>5, <1>8, DeciderIsRank, SortsKept DEF Elected, At
<1>10. /\ \A q \in SetZeroProcs : pc'[q] \in Early /\ pc'[q] = pc[q]
       /\ \A q \in AvailableDeciders : pc'[q] \in {"start", "signal"}
       /\ \A q \in Ranks : ~HasLeft(q) /\ ~HasLeft(q)'
  <2>1. \A q \in SetZeroProcs : pc'[q] = pc[q] /\ pc'[q] \in Early
    BY <1>7, <1>9
  <2>2. \A q \in AvailableDeciders : pc'[q] \in {"start", "signal"}
    BY <1>7, <1>9
  <2> QED
    BY <1>7, <1>9, <2>1, <2>2 DEF HasLeft, Early
<1>11. \A m \in msgs : m.tag \in {"stWrite", "decider"} /\ m.src \in Ranks
  <2>1. \A m \in msgs : Sound(m) /\ m.src \in Ranks
    BY <1>1 DEF Addressed, TypeOK
  <2>2. \A m \in msgs : m.tag # "gather"
    BY <1>1, <1>10, <2>1 DEF Gathered, InTransit, HasLeft
  <2> QED
    BY <1>8, <2>1, <2>2 DEF Sound
<1>12. \A m \in Answers : \E q \in SetZeroProcs :
          /\ m = Message("coordinator", r, q, c)
          /\ m.tag = "coordinator" /\ m.dst = q
  BY <1>4 DEF Message
<1>13. /\ InTransit("decider")' = InTransit("decider") \ {k} /\ k \in InTransit("decider")
       /\ InTransit("stWrite")' = InTransit("stWrite")
       /\ InTransit("gather")' = {} /\ InTransit("write")' = {}
       /\ InTransit("done") = {} /\ InTransit("done")' = {}
  BY <1>6, <1>7, <1>11, <1>12 DEF InTransit
<1>14. Gathered'
  BY <1>5, <1>6, <1>8, <1>10, <1>13 DEF Gathered, Early
<1>15. InTurn'
  BY <1>1, <1>5, <1>13, DynamicInTurn
<1>16. Addressed'
  <2>1. ASSUME NEW m \in msgs, m \in msgs' PROVE Sound(m)'
    <3>1. Sound(m) /\ m.tag \in {"stWrite", "decider"}
      BY <1>1, <1>11 DEF Addressed
    <3>2. CASE m.tag = "decider"
      <4>1. /\ m = Message("decider", m.src, conf.deciderProc, m.src)
            /\ m.src \in SetZeroProcs /\ pc[m.src] \notin {"start", "writing", "written"}
        BY <3>1, <3>2 DEF Sound
      <4>2. pc'[m.src] = pc[m.src]
        BY <1>10, <4>1
      <4> QED
        BY <1>5, <1>9, <3>2, <4>1, <4>2 DEF Sound
    <3>3. CASE m.tag = "stWrite"
      BY <3>3 DEF Sound
    <3> QED
      BY <3>1, <3>2, <3>3
  <2>2. ASSUME NEW m \in Answers PROVE Sound(m)'
    <3>1. PICK q \in SetZeroProcs : m = Message("coordinator", r, q, c) /\ m.tag = "coordinator"
                                    /\ m.dst = q
      BY <1>12
    <3> QED
      BY <1>5, <1>8, <1>9, <1>10, <3>1 DEF Sound, Early
  <2>3. \A m \in msgs' : Sound(m)'
    BY <1>7, <2>1, <2>2
  <2> QED
    BY <1>13, <2>3 DEF Addressed
<1>17. Elected'
  <2>1. \A q \in Ranks : /\ pc'[q] = "signal" => q = r
                         /\ pc'[q] \notin {"coordinate", "await"}
                         /\ q \in AvailableDeciders => pc'[q] \notin {"writing", "written"}
    BY <1>1, <1>9, <1>10, <1>7 DEF Elected, Early
  <2> QED
    BY <1>5, <1>6, <1>8, <1>9, <2>1 DEF Elected, At
<1>18. Queues'
  BY <1>6, <1>8, <1>9, <1>10, <1>13 DEF Queues, Early
<1>19. Unread'
  <2>1. \A q \in Ranks : unreadMessages[q].tag \in {"none", "decider", "done"}
    BY <1>1 DEF TypeOK
  <2>2. \A q \in Ranks : unreadMessages[q].tag = "none" /\ unreadMessages[q].n = 0
    BY <1>1, <1>8, <2>1 DEF Unread
  <2>3. pc'[r] # "gone"
    BY <1>7
  <2> QED
    BY <1>5, <1>7, <1>8, <1>10, <2>2, <2>3 DEF Unread, At
<1>20. Balanced'
  <2>1. IsFiniteSet(msgs')
    <3>1. IsFiniteSet(SetZeroProcs)
      BY <1>1, SetSizes DEF TypeOK
    <3> DEFINE g == [q \in SetZeroProcs |-> Message("coordinator", r, q, c)]
    <3>2. g \in Surjection(SetZeroProcs, Answers)
      BY <1>4 DEF Surjection
    <3> HIDE DEF g
    <3>3. IsFiniteSet(Answers)
      BY <3>1, <3>2, FS_Surjection
    <3>4. IsFiniteSet(msgs \ {k})
      BY <1>1, FS_RemoveElement DEF Balanced
    <3> QED
      BY <1>7, <3>3, <3>4, FS_Union
  <2>2. Cardinality(InTransit("decider"))' + Cardinality(ToTell)' = DeciderExpects'
    <3>1. Cardinality(InTransit("decider"))' = Cardinality(InTransit("decider")) - 1
      BY <1>1, <1>13, OneLess DEF Balanced
    <3>2. ToTell' = ToTell
      BY <1>9, <1>10 DEF ToTell
    <3>3. Cardinality(ToTell)' = Cardinality(ToTell)
      BY <3>2
    <3>4. DeciderExpects' = Cardinality(SetZeroProcs) - 1
      BY <1>5, <1>7, <1>8 DEF DeciderExpects
    <3>5. Cardinality(InTransit("decider")) + Cardinality(ToTell) = Cardinality(SetZeroProcs)
      BY <1>1, <1>5, <1>8 DEF Balanced, DeciderExpects
    <3>6. Cardinality(ToTell) \in Nat /\ Cardinality(InTransit("decider")) \in Nat
      BY <1>1, CountTypes DEF Balanced
    <3> QED
      BY <3>1, <3>3, <3>4, <3>5, <3>6
  <2>3. Cardinality(InTransit("done"))' + Cardinality(ToReport)' = CoordinatorExpects'
    <3>1. Cardinality(InTransit("done"))' = 0
      BY <1>13, FS_EmptySet
    <3>2. ToReport' = Ranks \ {c}
      BY <1>8, <1>10 DEF ToReport, Ranks
    <3>3. IsFiniteSet(Ranks) /\ Cardinality(Ranks) = NProcs
      <4>1. 0 \in Int /\ NProcs - 1 \in Int
        BY NProcsAssumption
      <4>2. /\ IsFiniteSet(0 .. NProcs - 1)
            /\ Cardinality(0 .. NProcs - 1) = IF 0 > NProcs - 1 THEN 0 ELSE (NProcs - 1) - 0 + 1
        BY <4>1, FS_Interval
      <4> QED
        BY <4>2, NProcsAssumption DEF Ranks
    <3>4. Cardinality(Ranks \ {c}) = NProcs - 1
      BY <1>6, <1>9, <3>3, FS_RemoveElement
    <3>5. Cardinality(ToReport)' = NProcs - 1
      BY <3>2, <3>4
    <3>6. CoordinatorExpects' = Cardinality(SetZeroProcs)' - 1 + Cardinality(AvailableDeciders)'
      BY <1>6, <1>8, <1>9, <1>10 DEF CoordinatorExpects, Early, HasLeft
    <3>7. /\ Cardinality(SetZeroProcs)' = Cardinality(SetZeroProcs)
          /\ Cardinality(AvailableDeciders)' = Cardinality(AvailableDeciders)
      BY <1>9
    <3>8. /\ NProcs - Cardinality(SetZeroProcs) = Cardinality(AvailableDeciders)
          /\ Cardinality(SetZeroProcs) \in Int
      BY <1>1, SetSizes DEF TypeOK
    <3> QED
      BY <3>1, <3>5, <3>6, <3>7, <3>8, NProcsAssumption
  <2> QED
    BY <2>1, <2>2, <2>3 DEF Balanced
<1> QED
  BY <1>14, <1>15, <1>16, <1>17, <1>18, <1>19, <1>20 DEF MessageIInv

-----------------------------------------------------------------------------
(***************************************************************************)
(* The coordinator                                                         *)
(***************************************************************************)
\* Taking the head of a queue takes that rank out of the queues.
LEMMA WaitingLess ==
    ASSUME procsToWrite \in [FileNumbers -> Seq(AvailableDeciders)],
           \A f, g \in FileNumbers :
               \A i \in DOMAIN procsToWrite[f], j \in DOMAIN procsToWrite[g] :
                   procsToWrite[f][i] = procsToWrite[g][j] => f = g /\ i = j,
           NEW q \in FileNumbers, procsToWrite[q] # <<>>,
           procsToWrite' = [procsToWrite EXCEPT ![q] = Tail(@)]
    PROVE  /\ Head(procsToWrite[q]) \in Waiting
           /\ Waiting' = Waiting \ {Head(procsToWrite[q])}
           /\ procsToWrite' \in [FileNumbers -> Seq(AvailableDeciders)]
           /\ \A f \in FileNumbers : procsToWrite'[f] # <<>> => procsToWrite[f] # <<>>
           /\ \A f, g \in FileNumbers :
                 \A i \in DOMAIN procsToWrite'[f], j \in DOMAIN procsToWrite'[g] :
                     procsToWrite'[f][i] = procsToWrite'[g][j] => f = g /\ i = j
<1> DEFINE s == procsToWrite[q]
           a == AvailableDeciders
<1>1. s \in Seq(a) /\ s # <<>>
  OBVIOUS
<1>2. /\ Len(s) \in Nat \ {0} /\ DOMAIN s = 1..Len(s) /\ Head(s) = s[1]
      /\ Tail(s) \in Seq(a) /\ Len(Tail(s)) = Len(s) - 1 /\ DOMAIN Tail(s) = 1..(Len(s) - 1)
      /\ \A i \in 1..(Len(s) - 1) : Tail(s)[i] = s[i + 1]
  <2> HIDE DEF s, a
  <2> QED
    BY <1>1
<1>3. \A f \in FileNumbers : procsToWrite'[f] = IF f = q THEN Tail(s) ELSE procsToWrite[f]
  OBVIOUS
<1>4. procsToWrite' \in [FileNumbers -> Seq(AvailableDeciders)]
  BY <1>2
<1> DEFINE old(f, i) == procsToWrite[f][IF f = q THEN i + 1 ELSE i]
<1>5. ASSUME NEW f \in FileNumbers, NEW i \in DOMAIN procsToWrite'[f]
      PROVE  /\ (IF f = q THEN i + 1 ELSE i) \in DOMAIN procsToWrite[f]
             /\ procsToWrite'[f][i] = old(f, i)
             /\ f = q => i + 1 # 1 /\ i \in Nat
  <2>1. CASE f = q
    <3>1. i \in 1..(Len(s) - 1) /\ i + 1 \in 1..Len(s)
      BY <1>2, <1>3, <2>1
    <3> QED
      BY <1>2, <1>3, <2>1, <3>1
  <2>2. CASE f # q
    BY <1>3, <2>2
  <2> QED
    BY <2>1, <2>2
<1>6. \A f, g \in FileNumbers :
         \A i \in DOMAIN procsToWrite'[f], j \in DOMAIN procsToWrite'[g] :
             procsToWrite'[f][i] = procsToWrite'[g][j] => f = g /\ i = j
  <2> SUFFICES ASSUME NEW f \in FileNumbers, NEW g \in FileNumbers,
                      NEW i \in DOMAIN procsToWrite'[f], NEW j \in DOMAIN procsToWrite'[g],
                      procsToWrite'[f][i] = procsToWrite'[g][j]
               PROVE  f = g /\ i = j
    OBVIOUS
  <2>1. old(f, i) = old(g, j)
    BY <1>5
  <2>2. f = g /\ (IF f = q THEN i + 1 ELSE i) = (IF g = q THEN j + 1 ELSE j)
    BY <1>5, <2>1
  <2> QED
    BY <1>5, <2>2
<1>7. Head(s) \in Waiting
  BY <1>2 DEF Waiting, Range
<1>8. ASSUME NEW x \in Waiting' PROVE x \in Waiting \ {Head(s)}
  <2>1. PICK f \in FileNumbers : x \in Range(procsToWrite'[f])
    BY DEF Waiting
  <2>2. PICK i \in DOMAIN procsToWrite'[f] : x = procsToWrite'[f][i]
    BY <2>1 DEF Range
  <2>3. x = old(f, i) /\ (IF f = q THEN i + 1 ELSE i) \in DOMAIN procsToWrite[f]
    BY <1>5, <2>2
  <2>4. x \in Waiting
    BY <2>3 DEF Waiting, Range
  <2>5. x # Head(s)
    <3> SUFFICES ASSUME x = Head(s) PROVE FALSE
      OBVIOUS
    <3>1. x = procsToWrite[q][1] /\ 1 \in DOMAIN procsToWrite[q]
      BY <1>2
    <3>2. PICK p \in DOMAIN procsToWrite[f] :
              p = (IF f = q THEN i + 1 ELSE i) /\ procsToWrite[f][p] = x
      BY <2>3
    <3>3. f = q /\ p = 1
      BY <3>1, <3>2
    <3> QED
      BY <1>5, <3>2, <3>3
  <2> QED
    BY <2>4, <2>5
<1>9. ASSUME NEW x \in Waiting \ {Head(s)} PROVE x \in Waiting'
  <2>1. PICK f \in FileNumbers : x \in Range(procsToWrite[f])
    BY DEF Waiting
  <2>2. PICK i \in DOMAIN procsToWrite[f] : x = procsToWrite[f][i]
    BY <2>1 DEF Range
  <2>3. x \in Range(procsToWrite'[f])
    <3>1. CASE f = q
      <4>1. i \in 1..Len(s) /\ i # 1
        BY <1>2, <2>2, <3>1
      <4>2. i - 1 \in 1..(Len(s) - 1) /\ (i - 1) + 1 = i
        BY <1>2, <4>1
      <4>3. Tail(s)[i - 1] = s[i]
        BY <1>2, <4>2
      <4>4. i - 1 \in DOMAIN procsToWrite'[f] /\ procsToWrite'[f][i - 1] = x
        BY <1>2, <1>3, <2>2, <3>1, <4>2, <4>3
      <4> QED
        BY <4>4 DEF Range
    <3>2. CASE f # q
      BY <1>3, <2>2, <3>2 DEF Range
    <3> QED
      BY <3>1, <3>2
  <2> QED
    BY <2>3 DEF Waiting
<1>10. \A f \in FileNumbers : procsToWrite'[f] # <<>> => procsToWrite[f] # <<>>
  BY <1>3
<1> QED
  BY <1>4, <1>6, <1>7, <1>8, <1>9, <1>10

\* Who coordinates.
LEMMA CoordinatorIsRoot ==
    ASSUME OneCoordinator, NEW r \in Ranks, pc[r] \in {"coordinate", "await"}
    PROVE  Decided /\ r = Root
  BY DEF OneCoordinator, Decided, Root

\* The coordinator, which has ranks left to send, sends the next one to a free file.
LEMMA SignalGives ==
    ASSUME WriterIInv, MessageIInv, NEW r \in Ranks, Signal(r)
    PROVE  \E g \in availableFileNumbers, q \in FileNumbers, next \in AvailableDeciders :
              /\ g \in FileNumbers /\ procsToWrite[q] # <<>> /\ next = Head(procsToWrite[q])
              /\ pc' = [pc EXCEPT ![r] = "await"]
              /\ remainingWriters' = remainingWriters
              /\ procsToWrite' = [procsToWrite EXCEPT ![q] = Tail(@)]
              /\ fileNumbersWriteOrder' = [fileNumbersWriteOrder EXCEPT ![g] = Append(@, next)]
              /\ availableFileNumbers' = availableFileNumbers \ {g}
              /\ msgs' = msgs \cup {Message("write", r, next, g)}
<1>1. /\ TypeOK /\ ModesKept /\ OneCoordinator /\ Queues
  BY DEF WriterIInv, MessageIInv
<1>2. pc[r] = "coordinate" /\ remainingWriters > 0
  BY DEF Signal, At
<1>3. r = Root /\ Decided
  BY <1>1, <1>2, CoordinatorIsRoot
<1>4. /\ procsToWrite \in [FileNumbers -> Seq(AvailableDeciders)]
      /\ \A f \in FileNumbers : procsToWrite[f] # <<>> => f < conf.nOutFiles
      /\ remainingWriters = Cardinality(Waiting)
  <2>1. pc[Root] \in {"coordinate", "await"} /\ ~At(Root, "await")
    BY <1>2, <1>3 DEF At
  <2>2. remainingWriters = Cardinality(Waiting) + 0
    BY <1>1, <2>1 DEF Queues
  <2>3. /\ procsToWrite \in [FileNumbers -> Seq(AvailableDeciders)]
        /\ \A f \in FileNumbers : procsToWrite[f] # <<>> => f < conf.nOutFiles
    BY <1>1, <2>1 DEF Queues
  <2>4. Waiting \subseteq AvailableDeciders
    BY <2>3 DEF Waiting, Range
  <2>5. IsFiniteSet(Waiting)
    BY <1>1, <2>4, SetSizes, FS_Subset DEF TypeOK
  <2>6. Cardinality(Waiting) \in Nat
    BY <2>5, FS_CardinalityType
  <2> QED
    BY <2>2, <2>3, <2>6
<1>5. PICK h \in FileNumbers : procsToWrite[h] # <<>> /\ h < conf.nOutFiles
  <2>1. Waiting # {}
    <3>1. Cardinality(Waiting) > 0
      BY <1>2, <1>4
    <3>2. Waiting = {} => Cardinality(Waiting) = 0
      BY FS_EmptySet
    <3> QED
      BY <3>1, <3>2
  <2>2. PICK h \in FileNumbers : Range(procsToWrite[h]) # {}
    BY <2>1 DEF Waiting
  <2>3. procsToWrite[h] # <<>>
    BY <2>2 DEF Range
  <2> QED
    BY <1>4, <2>3
<1>6. PICK g : g = Min(availableFileNumbers)
  OBVIOUS
<1>7. g \in FileNumbers /\ g \in availableFileNumbers
  <2>1. availableFileNumbers # {} /\ availableFileNumbers \subseteq FileNumbers
    BY <1>1, <1>2, <1>5 DEF OneCoordinator, TypeOK, At
  <2>2. FileNumbers \subseteq Nat
    BY RankNumbers
  <2> QED
    BY <1>6, <2>1, <2>2, MinOfNaturals
<1>8. PICK q : q = NextQueue(g)
  OBVIOUS
<1>9. q \in FileNumbers /\ procsToWrite[q] # <<>>
  BY <1>1, <1>5, <1>7, <1>8, NextQueueFull DEF TypeOK
<1>10. PICK next : next = Head(procsToWrite[q])
  OBVIOUS
<1>11. /\ pc' = [pc EXCEPT ![r] = "await"]
       /\ remainingWriters' = remainingWriters
       /\ procsToWrite' = [procsToWrite EXCEPT ![q] = Tail(@)]
       /\ fileNumbersWriteOrder' = [fileNumbersWriteOrder EXCEPT ![g] = Append(@, next)]
       /\ availableFileNumbers' = availableFileNumbers \ {g}
       /\ msgs' = msgs \cup {Message("write", r, next, g)}
  <2>1. ~\A f \in FileNumbers : procsToWrite[f] = <<>>
    BY <1>5
  <2>2. /\ Assign(r, g) /\ Goto(r, "await") /\ UNCHANGED remainingWriters
        /\ availableFileNumbers' = availableFileNumbers \ {g}
    BY <1>6, <2>1 DEF Signal
  <2> QED
    BY <1>8, <1>10, <2>2 DEF Assign, Goto
<1>12. next \in AvailableDeciders
  BY <1>4, <1>9, <1>10
<1> QED
  BY <1>7, <1>9, <1>10, <1>11, <1>12

LEMMA SignalMessages ==
    ASSUME WriterIInv, WriterIInv', MessageIInv, NEW r \in Ranks, Signal(r),
           UNCHANGED <<minmax, header>>
    PROVE  MessageIInv'
<1>1. /\ TypeOK /\ ModesKept /\ OneCoordinator
      /\ InTurn /\ Gathered /\ Addressed /\ Elected /\ Queues /\ Unread /\ Balanced
  BY DEF WriterIInv, MessageIInv
<1>2. /\ conf' = conf /\ pc[r] = "coordinate" /\ remainingWriters > 0
      /\ UNCHANGED <<files, fileNumber, coordinatorProc, unreadMessages>>
  BY DEF Signal, At
<1>3. /\ Decided /\ r = Root /\ conf.mode = "dynamic" /\ Root \in SetZeroProcs
      /\ conf.deciderProc # r
  <2>1. Decided /\ r = Root /\ conf.mode = "dynamic"
    BY <1>1, <1>2, CoordinatorIsRoot DEF Decided
  <2>2. Root \in SetZeroProcs
    BY <1>1, <2>1 DEF Elected
  <2> QED
    BY <1>1, <1>2, <2>1, <2>2, DeciderIsRank, SortsKept
<1>4. /\ procsToWrite \in [FileNumbers -> Seq(AvailableDeciders)]
      /\ \A f \in FileNumbers : procsToWrite[f] # <<>> => f < conf.nOutFiles
      /\ \A f, g \in FileNumbers :
            \A i \in DOMAIN procsToWrite[f], j \in DOMAIN procsToWrite[g] :
                procsToWrite[f][i] = procsToWrite[g][j] => f = g /\ i = j
      /\ \A q \in Waiting :
            pc[q] \in {"start", "signal"} /\ \A m \in InTransit("write") : m.dst # q
      /\ remainingWriters = Cardinality(Waiting)
  <2>1. pc[Root] \in {"coordinate", "await"} /\ ~At(Root, "await")
    BY <1>2, <1>3 DEF At
  <2>2. remainingWriters = Cardinality(Waiting) + 0
    BY <1>1, <2>1 DEF Queues
  <2>3. /\ procsToWrite \in [FileNumbers -> Seq(AvailableDeciders)]
        /\ \A f \in FileNumbers : procsToWrite[f] # <<>> => f < conf.nOutFiles
        /\ \A f, g \in FileNumbers :
              \A i \in DOMAIN procsToWrite[f], j \in DOMAIN procsToWrite[g] :
                  procsToWrite[f][i] = procsToWrite[g][j] => f = g /\ i = j
        /\ \A q \in Waiting :
              pc[q] \in {"start", "signal"} /\ \A m \in InTransit("write") : m.dst # q
    BY <1>1, <2>1 DEF Queues
  <2>4. Waiting \subseteq AvailableDeciders
    BY <2>3 DEF Waiting, Range
  <2>5. IsFiniteSet(Waiting)
    BY <1>1, <2>4, SetSizes, FS_Subset DEF TypeOK
  <2>6. Cardinality(Waiting) \in Nat
    BY <2>5, FS_CardinalityType
  <2> QED
    BY <2>2, <2>3, <2>6
<1>5. Waiting \subseteq AvailableDeciders /\ IsFiniteSet(Waiting) /\ Cardinality(Waiting) \in Nat
  <2>1. Waiting \subseteq AvailableDeciders
    BY <1>4 DEF Waiting, Range
  <2>2. IsFiniteSet(Waiting)
    BY <1>1, <2>1, SetSizes, FS_Subset DEF TypeOK
  <2> QED
    BY <2>1, <2>2, FS_CardinalityType
<1>6. PICK g \in availableFileNumbers, q \in FileNumbers, next \in AvailableDeciders :
              /\ g \in FileNumbers /\ procsToWrite[q] # <<>> /\ next = Head(procsToWrite[q])
              /\ pc' = [pc EXCEPT ![r] = "await"]
              /\ remainingWriters' = remainingWriters
              /\ procsToWrite' = [procsToWrite EXCEPT ![q] = Tail(@)]
              /\ msgs' = msgs \cup {Message("write", r, next, g)}
  BY SignalGives
<1>10. q \in FileNumbers /\ procsToWrite[q] # <<>>
  BY <1>6
<1>11. next = Head(procsToWrite[q])
  BY <1>6
<1>12. PICK k : k = Message("write", r, next, g)
  OBVIOUS
<1>13. /\ pc' = [pc EXCEPT ![r] = "await"]
       /\ remainingWriters' = remainingWriters
       /\ procsToWrite' = [procsToWrite EXCEPT ![q] = Tail(@)]
       /\ msgs' = msgs \cup {k}
  BY <1>6, <1>12
<1>14. /\ next \in Waiting /\ Waiting' = Waiting \ {next}
       /\ procsToWrite' \in [FileNumbers -> Seq(AvailableDeciders)]
       /\ \A f \in FileNumbers : procsToWrite'[f] # <<>> => procsToWrite[f] # <<>>
       /\ \A f, h2 \in FileNumbers :
             \A i \in DOMAIN procsToWrite'[f], j \in DOMAIN procsToWrite'[h2] :
                 procsToWrite'[f][i] = procsToWrite'[h2][j] => f = h2 /\ i = j
  BY <1>4, <1>10, <1>11, <1>13, WaitingLess
<1>15. /\ \A x \in Ranks \ {r} : pc'[x] = pc[x] /\ coordinatorProc'[x] = coordinatorProc[x]
       /\ pc'[r] = "await" /\ coordinatorProc'[r] = Root
  BY <1>1, <1>2, <1>3, <1>13 DEF TypeOK, Elected
<1>16. Moves(r)
  BY <1>1, <1>2, <1>3, <1>15, MovesAlone
<1>17. k.tag = "write" /\ k.src = r /\ k.dst = next
  BY <1>12 DEF Message
<1>18. /\ \A tag : tag # "write" => InTransit(tag)' = InTransit(tag)
       /\ InTransit("write")' = InTransit("write") \cup {k}
       /\ ~HasLeft(r) /\ ~HasLeft(r)'
  BY <1>2, <1>13, <1>15, <1>17 DEF InTransit, HasLeft
<1>19. /\ next \in AvailableDeciders /\ next \in Ranks /\ next # r
       /\ pc[next] \in {"start", "signal"} /\ pc'[next] = pc[next]
       /\ \A m \in InTransit("write") : m.dst # next
  BY <1>1, <1>3, <1>4, <1>5, <1>14, <1>15, <1>2, SortsKept
<1>20. Gathered'
  <2>1. pc[r] \in {"cleanup", "gone"} <=> pc'[r] \in {"cleanup", "gone"}
    BY <1>2, <1>15
  <2> QED
    BY <1>1, <1>15, <1>16, <1>18, <2>1, GatheredKept
<1>21. InTurn'
  BY <1>1, <1>2, <1>3, <1>18, DynamicInTurn
<1>22. Addressed'
  <2>1. ASSUME NEW m \in msgs PROVE Sound(m)'
    <3>1. Sound(m)
      BY <1>1 DEF Addressed
    <3>2. m.tag = "write" => m.dst # r
      BY <1>2, <3>1 DEF Sound
    <3>3. m.tag = "coordinator" => m.dst # r
      BY <1>2, <3>1 DEF Sound, Early
    <3> QED
      BY <1>1, <1>15, <1>16, <3>1, <3>2, <3>3, SoundKept
  <2>2. Sound(k)'
    BY <1>1, <1>2, <1>3, <1>16, <1>17, <1>19, SortsKept DEF Sound, Moves
  <2>3. \A m \in msgs' : Sound(m)'
    BY <1>13, <2>1, <2>2
  <2>4. \A m, j \in InTransit("write")' : m.dst = j.dst => m = j
    BY <1>1, <1>17, <1>18, <1>19 DEF Addressed
  <2> QED
    BY <2>3, <2>4 DEF Addressed
<1>23. Elected'
  BY <1>1, <1>2, <1>3, <1>15, <1>16, SortsKept DEF Elected, Moves, At
<1>24. Unread'
  BY <1>1, <1>2, <1>15, <1>16, <1>18, UnreadKept
<1>25. Queues'
  <2>1. \A x \in Waiting' :
            pc'[x] \in {"start", "signal"} /\ \A m \in InTransit("write")' : m.dst # x
    <3>1. \A x \in Waiting' : x \in Waiting /\ x # next /\ x \in Ranks /\ x # r
      BY <1>1, <1>2, <1>4, <1>5, <1>14, SortsKept
    <3> QED
      BY <1>4, <1>15, <1>17, <1>18, <3>1
  <2>2. remainingWriters' = Cardinality(Waiting)' + 1
    <3>1. Cardinality(Waiting \ {next}) = Cardinality(Waiting) - 1
      BY <1>5, <1>14, FS_RemoveElement
    <3>2. Cardinality(Waiting)' = Cardinality(Waiting) - 1
      BY <1>14, <3>1
    <3> QED
      BY <1>4, <1>5, <1>13, <3>2
  <2>3. /\ Root' = r /\ conf' = conf /\ pc'[r] = "await" /\ pc'[r] \notin Early
        /\ AvailableDeciders' = AvailableDeciders
    BY <1>1, <1>2, <1>3, <1>15, <1>16, SortsKept DEF Moves, Early
  <2>4. \A f \in FileNumbers : procsToWrite'[f] # <<>> => f < conf.nOutFiles
    BY <1>4, <1>14
  <2> QED
    BY <1>14, <2>1, <2>2, <2>3, <2>4 DEF Queues, At
<1>26. Balanced'
  <2>1. Cardinality(InTransit("decider"))' + Cardinality(ToTell)' = DeciderExpects'
    BY <1>1, <1>2, <1>3, <1>15, <1>16, <1>18, DeciderIsRank, DeciderCountKept
  <2>2. Cardinality(InTransit("done"))' + Cardinality(ToReport)' = CoordinatorExpects'
    <3>1. CoordinatorExpects = Cardinality(SetZeroProcs) - 1 + remainingWriters
      BY <1>2, <1>3 DEF CoordinatorExpects, HasLeft
    <3>2. CoordinatorExpects' = Cardinality(SetZeroProcs)' - 1 + remainingWriters'
      BY <1>3, <1>15, <1>16 DEF CoordinatorExpects, HasLeft, Moves
    <3>3. Cardinality(SetZeroProcs)' = Cardinality(SetZeroProcs)
      BY <1>1, <1>2, SortsKept
    <3>4. CoordinatorExpects' = CoordinatorExpects
      BY <1>13, <3>1, <3>2, <3>3
    <3> QED
      BY <1>1, <1>3, <1>16, <1>18, <3>4, ReportCountKept
  <2>3. IsFiniteSet(msgs')
    BY <1>1, <1>13, FS_AddElement DEF Balanced
  <2> QED
    BY <2>1, <2>2, <2>3 DEF Balanced
<1> QED
  BY <1>20, <1>21, <1>22, <1>23, <1>24, <1>25, <1>26 DEF MessageIInv

LEMMA AwaitDoneMessages ==
    ASSUME WriterIInv, WriterIInv', MessageIInv, NEW r \in Ranks, AwaitDone(r),
           UNCHANGED <<minmax, header>>
    PROVE  MessageIInv'
<1>1. /\ TypeOK /\ ModesKept /\ OneCoordinator
      /\ InTurn /\ Gathered /\ Addressed /\ Elected /\ Queues /\ Unread /\ Balanced
  BY DEF WriterIInv, MessageIInv
<1>2. PICK k \in Incoming(r, "done") : msgs' = msgs \ {k}
  BY DEF AwaitDone
<1>3. /\ conf' = conf /\ pc[r] = "await"
      /\ pc' = [pc EXCEPT ![r] = "coordinate"]
      /\ remainingWriters' = remainingWriters - 1
      /\ UNCHANGED <<coordinatorProc, procsToWrite, unreadMessages>>
  BY DEF AwaitDone, Goto, At
<1>4. k \in msgs /\ k.tag = "done"
  BY <1>2 DEF Incoming
<1>5. /\ Decided /\ r = Root /\ conf.mode = "dynamic" /\ Root \in SetZeroProcs
      /\ conf.deciderProc # r
  <2>1. Decided /\ r = Root /\ conf.mode = "dynamic"
    BY <1>1, <1>3, CoordinatorIsRoot DEF Decided
  <2>2. Root \in SetZeroProcs
    BY <1>1, <2>1 DEF Elected
  <2> QED
    BY <1>1, <1>3, <2>1, <2>2, DeciderIsRank, SortsKept
<1>6. /\ \A q \in Ranks \ {r} : pc'[q] = pc[q] /\ coordinatorProc'[q] = coordinatorProc[q]
      /\ pc'[r] = "coordinate" /\ coordinatorProc'[r] = Root
  BY <1>1, <1>3, <1>5 DEF TypeOK, Elected
<1>7. Moves(r)
  BY <1>1, <1>3, <1>5, <1>6, MovesAlone
<1>8. /\ \A tag : tag # "done" => InTransit(tag)' = InTransit(tag)
      /\ InTransit("done")' = InTransit("done") \ {k} /\ k \in InTransit("done")
      /\ ~HasLeft(r) /\ ~HasLeft(r)'
  BY <1>2, <1>3, <1>4, <1>6 DEF InTransit, HasLeft
<1>9. Gathered'
  <2>1. pc[r] \in {"cleanup", "gone"} <=> pc'[r] \in {"cleanup", "gone"}
    BY <1>3, <1>6
  <2> QED
    BY <1>1, <1>6, <1>7, <1>8, <2>1, GatheredKept
<1>10. InTurn'
  BY <1>1, <1>3, <1>5, <1>8, DynamicInTurn
<1>11. Addressed'
  <2>1. ASSUME NEW m \in msgs' PROVE Sound(m)'
    <3>1. m \in msgs /\ Sound(m)
      BY <1>1, <1>2 DEF Addressed
    <3>2. m.tag = "write" => m.dst # r
      BY <1>3, <3>1 DEF Sound
    <3>3. m.tag = "coordinator" => m.dst # r
      BY <1>3, <3>1 DEF Sound, Early
    <3> QED
      BY <1>1, <1>6, <1>7, <3>1, <3>2, <3>3, SoundKept
  <2> QED
    BY <1>1, <1>8, <2>1 DEF Addressed
<1>12. Elected'
  BY <1>1, <1>3, <1>5, <1>6, <1>7, SortsKept DEF Elected, Moves, At
<1>13. Unread'
  BY <1>1, <1>3, <1>6, <1>7, <1>8, UnreadKept
<1>14. /\ procsToWrite \in [FileNumbers -> Seq(AvailableDeciders)]
       /\ \A f \in FileNumbers : procsToWrite[f] # <<>> => f < conf.nOutFiles
       /\ \A f, g \in FileNumbers :
             \A i \in DOMAIN procsToWrite[f], j \in DOMAIN procsToWrite[g] :
                 procsToWrite[f][i] = procsToWrite[g][j] => f = g /\ i = j
       /\ \A q \in Waiting :
             pc[q] \in {"start", "signal"} /\ \A m \in InTransit("write") : m.dst # q
       /\ remainingWriters = Cardinality(Waiting) + 1
  BY <1>1, <1>3, <1>5 DEF Queues, At
<1>15. Waiting \subseteq AvailableDeciders /\ Cardinality(Waiting) \in Nat
  <2>1. Waiting \subseteq AvailableDeciders
    BY <1>14 DEF Waiting, Range
  <2>2. IsFiniteSet(Waiting)
    BY <1>1, <2>1, SetSizes, FS_Subset DEF TypeOK
  <2> QED
    BY <2>1, <2>2, FS_CardinalityType
<1>16. Queues'
  <2>1. Waiting' = Waiting /\ InTransit("write")' = InTransit("write")
    BY <1>3, <1>8 DEF Waiting
  <2>2. \A q \in Waiting : pc'[q] \in {"start", "signal"}
    BY <1>1, <1>3, <1>6, <1>14, <1>15, SortsKept
  <2>3. remainingWriters' = Cardinality(Waiting)' + 0
    <3>1. Cardinality(Waiting)' = Cardinality(Waiting)
      BY <2>1
    <3> QED
      BY <1>3, <1>14, <1>15, <3>1
  <2>4. /\ Root' = r /\ pc'[r] = "coordinate" /\ pc'[r] \notin Early
        /\ AvailableDeciders' = AvailableDeciders
    BY <1>1, <1>3, <1>5, <1>6, <1>7, SortsKept DEF Moves, Early
  <2> QED
    BY <1>3, <1>14, <2>1, <2>2, <2>3, <2>4 DEF Queues, At
<1>17. Balanced'
  <2>1. Cardinality(InTransit("decider"))' + Cardinality(ToTell)' = DeciderExpects'
    BY <1>1, <1>3, <1>5, <1>6, <1>7, <1>8, DeciderIsRank, DeciderCountKept
  <2>2. Cardinality(InTransit("done"))' + Cardinality(ToReport)' = CoordinatorExpects'
    <3>1. CoordinatorExpects = Cardinality(SetZeroProcs) - 1 + remainingWriters
      BY <1>3, <1>5 DEF CoordinatorExpects, HasLeft
    <3>2. CoordinatorExpects' = Cardinality(SetZeroProcs)' - 1 + remainingWriters'
      BY <1>5, <1>6, <1>7 DEF CoordinatorExpects, HasLeft, Moves
    <3>3. Cardinality(SetZeroProcs)' = Cardinality(SetZeroProcs)
      BY <1>1, <1>3, SortsKept
    <3>4. Cardinality(InTransit("done"))' = Cardinality(InTransit("done")) - 1
      BY <1>1, <1>8, OneLess DEF Balanced
    <3>5. ToReport' = ToReport
      BY <1>5, <1>6, <1>7 DEF ToReport, HasLeft, Moves
    <3>6. Cardinality(ToReport)' = Cardinality(ToReport)
      BY <3>5
    <3>7. /\ Cardinality(ToReport) \in Nat /\ Cardinality(InTransit("done")) \in Nat
          /\ Cardinality(SetZeroProcs) \in Nat /\ remainingWriters \in Nat
      BY <1>1, CountTypes DEF Balanced
    <3>8. Cardinality(InTransit("done")) + Cardinality(ToReport) = CoordinatorExpects
      BY <1>1, <1>5 DEF Balanced
    <3> QED
      BY <1>3, <3>1, <3>2, <3>3, <3>4, <3>6, <3>7, <3>8
  <2>3. IsFiniteSet(msgs')
    BY <1>1, <1>2, FS_RemoveElement DEF Balanced
  <2> QED
    BY <2>1, <2>2, <2>3 DEF Balanced
<1> QED
  BY <1>9, <1>10, <1>11, <1>12, <1>13, <1>16, <1>17 DEF MessageIInv

LEMMA CoordinatedMessages ==
    ASSUME WriterIInv, WriterIInv', MessageIInv, NEW r \in Ranks, Coordinated(r),
           UNCHANGED <<minmax, header>>
    PROVE  MessageIInv'
<1>1. /\ TypeOK /\ ModesKept /\ OneCoordinator
      /\ InTurn /\ Gathered /\ Addressed /\ Elected /\ Queues /\ Unread /\ Balanced
  BY DEF WriterIInv, MessageIInv
<1>2. /\ conf' = conf /\ pc[r] = "coordinate" /\ remainingWriters = 0
      /\ pc' = [pc EXCEPT ![r] = "done"]
      /\ unreadMessages' = [unreadMessages EXCEPT ![r] =
                              [tag |-> "done", n |-> Cardinality(SetZeroProcs) - 1]]
      /\ UNCHANGED <<msgs, coordinatorProc, procsToWrite, remainingWriters>>
  BY DEF Coordinated, Goto, At, coordinating
<1>3. /\ Decided /\ r = Root /\ conf.mode = "dynamic" /\ Root \in SetZeroProcs
      /\ conf.deciderProc # r /\ conf.deciderProc \in Ranks
  <2>1. Decided /\ r = Root /\ conf.mode = "dynamic"
    BY <1>1, <1>2, CoordinatorIsRoot DEF Decided
  <2>2. Root \in SetZeroProcs
    BY <1>1, <2>1 DEF Elected
  <2> QED
    BY <1>1, <1>2, <2>1, <2>2, DeciderIsRank, SortsKept
<1>4. /\ \A q \in Ranks \ {r} : pc'[q] = pc[q] /\ coordinatorProc'[q] = coordinatorProc[q]
      /\ pc'[r] = "done" /\ coordinatorProc'[r] = Root
      /\ \A q \in Ranks \ {r} : unreadMessages'[q] = unreadMessages[q]
      /\ unreadMessages'[r].tag = "done" /\ unreadMessages'[r].n = Cardinality(SetZeroProcs) - 1
  BY <1>1, <1>2, <1>3 DEF TypeOK, Elected
<1>5. Moves(r)
  BY <1>1, <1>2, <1>3, <1>4, MovesAlone
<1>6. /\ \A tag : InTransit(tag)' = InTransit(tag)
      /\ ~HasLeft(r) /\ HasLeft(r)'
  BY <1>2, <1>4 DEF InTransit, HasLeft
<1>7. Gathered'
  <2>1. pc[r] \in {"cleanup", "gone"} <=> pc'[r] \in {"cleanup", "gone"}
    BY <1>2, <1>4
  <2> QED
    BY <1>1, <1>4, <1>5, <1>6, <2>1, GatheredKept
<1>8. InTurn'
  BY <1>1, <1>2, <1>3, <1>6, DynamicInTurn
<1>9. Addressed'
  <2>1. ASSUME NEW m \in msgs PROVE Sound(m)'
    <3>1. Sound(m)
      BY <1>1 DEF Addressed
    <3>2. m.tag = "write" => m.dst # r
      BY <1>2, <3>1 DEF Sound
    <3>3. m.tag = "coordinator" => m.dst # r
      BY <1>2, <3>1 DEF Sound, Early
    <3> QED
      BY <1>1, <1>4, <1>5, <3>1, <3>2, <3>3, SoundKept
  <2> QED
    BY <1>1, <1>2, <1>6, <2>1 DEF Addressed
<1>10. Elected'
  BY <1>1, <1>2, <1>3, <1>4, <1>5, SortsKept DEF Elected, Moves, At
<1>11. Queues'
  <2>1. pc'[r] \notin Early /\ pc'[r] \notin {"coordinate", "await"}
    BY <1>4 DEF Early
  <2> QED
    BY <1>1, <1>2, <1>3, <1>5, <1>6, <2>1, QueuesKept
<1>12. Unread'
  BY <1>1, <1>3, <1>4, <1>5, <1>6, <1>2 DEF Unread, Moves, At
<1>13. Balanced'
  <2>1. Cardinality(InTransit("decider"))' + Cardinality(ToTell)' = DeciderExpects'
    BY <1>1, <1>2, <1>3, <1>4, <1>5, <1>6, DeciderCountKept
  <2>2. Cardinality(InTransit("done"))' + Cardinality(ToReport)' = CoordinatorExpects'
    <3>1. CoordinatorExpects = Cardinality(SetZeroProcs) - 1 + remainingWriters
      BY <1>2, <1>3 DEF CoordinatorExpects, HasLeft
    <3>2. CoordinatorExpects' = Cardinality(SetZeroProcs) - 1
      BY <1>3, <1>4, <1>5, <1>6 DEF CoordinatorExpects, Moves
    <3>3. Cardinality(SetZeroProcs) \in Nat
      BY <1>1, CountTypes DEF Balanced
    <3>4. CoordinatorExpects' = CoordinatorExpects
      BY <1>2, <3>1, <3>2, <3>3
    <3> QED
      BY <1>1, <1>3, <1>5, <1>6, <3>4, ReportCountKept
  <2>3. IsFiniteSet(msgs')
    BY <1>1, <1>2 DEF Balanced
  <2> QED
    BY <2>1, <2>2, <2>3 DEF Balanced
<1> QED
  BY <1>7, <1>8, <1>9, <1>10, <1>11, <1>12, <1>13 DEF MessageIInv

-----------------------------------------------------------------------------
(***************************************************************************)
(* After the loop, the messages                                            *)
(***************************************************************************)
\* A rank that has left the loop, and reads no message of the loop, disturbs nothing.
LEMMA Leaves ==
    ASSUME WriterIInv, WriterIInv', MessageIInv, NEW r \in Ranks, HasLeft(r),
           NEW x \in {"cleanup", "gone"}, pc' = [pc EXCEPT ![r] = x],
           x = "gone" => unreadMessages[r].n = 0,
           UNCHANGED <<conf, coordinatorProc, procsToWrite, remainingWriters, unreadMessages,
                       minmax>>,
           IsFiniteSet(msgs'),
           \A m \in msgs' : m \in msgs \/ m.tag = "gather",
           \A m \in msgs : m.tag # "gather" => m \in msgs'
    PROVE  /\ Moves(r)
           /\ InTurn' /\ Addressed' /\ Elected' /\ Queues' /\ Unread' /\ Balanced'
<1>1. /\ TypeOK /\ ModesKept
      /\ InTurn /\ Gathered /\ Addressed /\ Elected /\ Queues /\ Unread /\ Balanced
  BY DEF WriterIInv, MessageIInv
<1>2. /\ \A q \in Ranks \ {r} : pc'[q] = pc[q] /\ coordinatorProc'[q] = coordinatorProc[q]
      /\ pc'[r] = x /\ pc[r] \in {"done", "cleanup", "gone"}
  BY <1>1 DEF TypeOK, HasLeft
<1>3. Moves(r)
  BY <1>1, <1>2, MovesAlone
<1>4. /\ \A tag : tag # "gather" => InTransit(tag)' = InTransit(tag)
      /\ HasLeft(r)'
  BY <1>2 DEF InTransit, HasLeft
<1>5. InTurn'
  <2>1. At(r, "start") => At(r, "start")'
    BY <1>2 DEF At
  <2>2. InTransit("stWrite")' \subseteq InTransit("stWrite")
    BY <1>4
  <2>3. \A m \in msgs : m.src \in Ranks
    BY <1>1 DEF TypeOK
  <2> QED
    BY <1>1, <1>2, <1>4, <2>1, <2>2, <2>3, InTurnKept
<1>6. CASE conf.mode # "dynamic"
  <2>1. Addressed' /\ Elected' /\ Queues' /\ Unread' /\ Balanced'
    BY <1>6, Quiet
  <2> QED
    BY <1>3, <1>5, <2>1
<1>7. CASE conf.mode = "dynamic"
  <2>1. Addressed'
    <3>1. ASSUME NEW m \in msgs' PROVE Sound(m)'
      <4>1. CASE m \in msgs
        <5>1. Sound(m)
          BY <1>1, <4>1 DEF Addressed
        <5>2. m.tag = "write" => m.dst # r
          BY <1>2, <5>1 DEF Sound
        <5>3. m.tag = "coordinator" => m.dst # r
          BY <1>2, <5>1 DEF Sound, Early
        <5> QED
          BY <1>1, <1>2, <1>3, <4>1, <5>1, <5>2, <5>3, SoundKept
      <4>2. CASE m.tag = "gather"
        BY <4>2 DEF Sound
      <4> QED
        BY <4>1, <4>2
    <3> QED
      BY <1>1, <1>4, <3>1 DEF Addressed
  <2>2. Elected'
    <3>1. Decided
      BY <1>1, <1>2, <1>7, SortsKept DEF Elected, Early, At
    <3> QED
      BY <1>1, <1>2, <1>3, <1>7, <3>1, SortsKept DEF Elected, Moves, At
  <2>3. Queues'
    <3>1. /\ pc'[r] \notin Early /\ pc'[r] \notin {"coordinate", "await"}
          /\ pc[r] \notin {"start", "signal"}
      BY <1>2 DEF Early
    <3> QED
      BY <1>1, <1>3, <1>4, <3>1, QueuesKept
  <2>4. Unread'
    BY <1>1, <1>2, <1>3, <1>4 DEF Unread, Moves, At, HasLeft
  <2>5. Balanced'
    <3>1. Cardinality(InTransit("decider"))' + Cardinality(ToTell)' = DeciderExpects'
      BY <1>1, <1>2, <1>3, <1>4, <1>7, DeciderIsRank, DeciderCountKept
    <3>2. ASSUME Decided
          PROVE  Cardinality(InTransit("done"))' + Cardinality(ToReport)' = CoordinatorExpects'
      <4>1. CoordinatorExpects' = CoordinatorExpects
        BY <1>1, <1>3, <1>4, ExpectsKept
      <4> QED
        BY <1>1, <1>3, <1>4, <3>2, <4>1, ReportCountKept
    <3> QED
      BY <1>3, <3>1, <3>2 DEF Balanced, Moves
  <2> QED
    BY <1>3, <1>5, <2>1, <2>2, <2>3, <2>4, <2>5
<1> QED
  BY <1>6, <1>7

LEMMA ContributeMessages ==
    ASSUME WriterIInv, WriterIInv', MessageIInv, NEW r \in Ranks, Contribute(r)
    PROVE  MessageIInv'
<1>1. TypeOK /\ Gathered /\ Balanced
  BY DEF WriterIInv, MessageIInv
<1>2. PICK k : k = Message("gather", r, coordinatorProc[r], r)
  OBVIOUS
<1>3. /\ pc[r] = "done" /\ pc' = [pc EXCEPT ![r] = "cleanup"] /\ r # coordinatorProc[r]
      /\ msgs' = msgs \cup (IF minmax THEN {k} ELSE {})
      /\ UNCHANGED <<conf, coordinatorProc, procsToWrite, remainingWriters, unreadMessages, minmax>>
  BY <1>2 DEF Contribute, At, Goto, coordinating
<1>4. HasLeft(r) /\ coordinatorProc[r] = Root /\ r # Root /\ Root \in Ranks
  BY <1>1, <1>3, RootIsRank DEF Gathered, HasLeft
<1>5. k.tag = "gather" /\ k.src = r /\ k.dst = Root
  BY <1>2, <1>4 DEF Message
<1>6. IsFiniteSet(msgs')
  <2>1. IsFiniteSet(msgs \cup {k}) /\ msgs \cup {} = msgs
    BY <1>1, FS_AddElement DEF Balanced
  <2> QED
    BY <1>1, <1>3, <2>1 DEF Balanced
<1>7. Moves(r) /\ InTurn' /\ Addressed' /\ Elected' /\ Queues' /\ Unread' /\ Balanced'
  <2>1. /\ \A m \in msgs' : m \in msgs \/ m.tag = "gather"
        /\ \A m \in msgs : m.tag # "gather" => m \in msgs'
    BY <1>3, <1>5
  <2> QED
    BY <1>3, <1>4, <1>6, <2>1, Leaves
<1>8. Gathered'
  <2>1. /\ \A q \in Ranks \ {r} : pc'[q] = pc[q]
        /\ pc'[r] = "cleanup" /\ Root' = Root
    BY <1>1, <1>3, <1>7 DEF TypeOK, Moves
  <2>2. \A q \in Ranks : HasLeft(q)' <=> HasLeft(q)
    BY <1>3, <2>1 DEF HasLeft
  <2>3. \A q \in Ranks : pc[q] \in {"cleanup", "gone"} => pc'[q] \in {"cleanup", "gone"}
    BY <2>1
  <2>4. pc'[Root] = pc[Root]
    BY <1>4, <2>1
  <2>5. minmax => pc[Root] \notin {"cleanup", "gone"}
    BY <1>1, <1>3 DEF Gathered
  <2>6. ASSUME NEW m \in InTransit("gather")'
        PROVE  /\ pc'[m.src] \in {"cleanup", "gone"} /\ m.dst = Root
               /\ pc'[Root] \notin {"cleanup", "gone"}
    <3>1. CASE m \in msgs
      <4>1. m \in InTransit("gather") /\ m.src \in Ranks
        BY <1>1, <3>1 DEF InTransit, TypeOK
      <4> QED
        BY <1>1, <2>3, <2>4, <4>1 DEF Gathered
    <3>2. CASE m \notin msgs
      <4>1. m = k /\ minmax
        BY <1>3, <3>2 DEF InTransit
      <4> QED
        BY <1>5, <2>1, <2>4, <2>5, <4>1
    <3> QED
      BY <3>1, <3>2
  <2>7. \A q \in Ranks : HasLeft(q)' \/ conf'.mode # "dynamic" => coordinatorProc'[q] = Root
    BY <1>1, <1>3, <2>2 DEF Gathered
  <2>8. minmax' => pc'[Root] \notin {"cleanup", "gone"}
    BY <1>3, <2>4, <2>5
  <2> QED
    BY <2>1, <2>6, <2>7, <2>8 DEF Gathered
<1> QED
  BY <1>7, <1>8 DEF MessageIInv

LEMMA WriteHeaderMessages ==
    ASSUME WriterIInv, WriterIInv', MessageIInv, NEW r \in Ranks, WriteHeader(r)
    PROVE  MessageIInv'
<1>1. TypeOK /\ Gathered /\ Balanced
  BY DEF WriterIInv, MessageIInv
<1>2. /\ pc[r] = "done" /\ pc' = [pc EXCEPT ![r] = "cleanup"] /\ r = coordinatorProc[r]
      /\ minmax => {m.src : m \in Incoming(r, "gather")} = Ranks \ {r}
      /\ msgs' = msgs \ Incoming(r, "gather")
      /\ UNCHANGED <<conf, coordinatorProc, procsToWrite, remainingWriters, unreadMessages, minmax>>
  BY DEF WriteHeader, At, Goto, coordinating
<1>3. HasLeft(r) /\ coordinatorProc[r] = Root /\ r = Root
  BY <1>1, <1>2 DEF Gathered, HasLeft
<1>4. IsFiniteSet(msgs')
  BY <1>1, <1>2, FS_Subset DEF Balanced
<1>5. Moves(r) /\ InTurn' /\ Addressed' /\ Elected' /\ Queues' /\ Unread' /\ Balanced'
  <2>1. /\ \A m \in msgs' : m \in msgs \/ m.tag = "gather"
        /\ \A m \in msgs : m.tag # "gather" => m \in msgs'
    BY <1>2 DEF Incoming
  <2> QED
    BY <1>2, <1>3, <1>4, <2>1, Leaves
<1>6. Gathered'
  <2>1. /\ \A q \in Ranks \ {r} : pc'[q] = pc[q]
        /\ pc'[r] = "cleanup" /\ Root' = Root
    BY <1>1, <1>2, <1>5 DEF TypeOK, Moves
  <2>2. \A q \in Ranks : HasLeft(q)' <=> HasLeft(q)
    BY <1>2, <2>1 DEF HasLeft
  <2>3. InTransit("gather")' = {}
    BY <1>1, <1>2, <1>3 DEF Gathered, InTransit, Incoming
  <2>4. ASSUME minmax, NEW q \in Ranks PROVE pc'[q] \in {"cleanup", "gone"}
    <3>1. CASE q = r
      BY <2>1, <3>1
    <3>2. CASE q # r
      <4>1. PICK m \in Incoming(r, "gather") : m.src = q
        BY <1>2, <2>4, <3>2
      <4>2. m \in InTransit("gather")
        BY <4>1 DEF Incoming, InTransit
      <4> QED
        BY <1>1, <2>1, <3>2, <4>1, <4>2 DEF Gathered
    <3> QED
      BY <3>1, <3>2
  <2>5. \A q \in Ranks : HasLeft(q)' \/ conf'.mode # "dynamic" => coordinatorProc'[q] = Root
    BY <1>1, <1>2, <2>2 DEF Gathered
  <2> QED
    BY <1>2, <2>1, <2>3, <2>4, <2>5 DEF Gathered
<1> QED
  BY <1>5, <1>6 DEF MessageIInv

LEMMA DestroyedMessages ==
    ASSUME WriterIInv, WriterIInv', MessageIInv, NEW r \in Ranks, Destroyed(r),
           UNCHANGED <<minmax, header>>
    PROVE  MessageIInv'
<1>1. TypeOK /\ Gathered /\ Balanced
  BY DEF WriterIInv, MessageIInv
<1>2. /\ pc[r] = "cleanup" /\ pc' = [pc EXCEPT ![r] = "gone"] /\ unreadMessages[r].n = 0
      /\ UNCHANGED <<conf, msgs, coordinatorProc, procsToWrite, remainingWriters,
                     unreadMessages, minmax>>
  BY DEF Destroyed, At, Goto, coordinating
<1>3. HasLeft(r)
  BY <1>2 DEF HasLeft
<1>4. Moves(r) /\ InTurn' /\ Addressed' /\ Elected' /\ Queues' /\ Unread' /\ Balanced'
  BY <1>1, <1>2, <1>3, Leaves DEF Balanced
<1>5. Gathered'
  <2>1. pc'[r] = "gone" /\ coordinatorProc'[r] = Root
    BY <1>1, <1>2, <1>3 DEF TypeOK, Gathered
  <2>2. InTransit("gather")' \subseteq InTransit("gather")
    BY <1>2 DEF InTransit
  <2> QED
    BY <1>1, <1>2, <1>4, <2>1, <2>2, GatheredKept
<1> QED
  BY <1>4, <1>5 DEF MessageIInv

LEMMA CleanUpMessagesKeeps ==
    ASSUME WriterIInv, WriterIInv', MessageIInv, NEW r \in Ranks, CleanUpMessages(r),
           UNCHANGED <<minmax, header>>
    PROVE  MessageIInv'
<1>1. /\ TypeOK /\ ModesKept
      /\ InTurn /\ Gathered /\ Addressed /\ Elected /\ Queues /\ Unread /\ Balanced
  BY DEF WriterIInv, MessageIInv
<1>2. PICK tag : tag = unreadMessages[r].tag
  OBVIOUS
<1>3. PICK k \in Incoming(r, tag) : msgs' = msgs \ {k}
  BY <1>2 DEF CleanUpMessages
<1>4. /\ pc[r] = "cleanup" /\ unreadMessages[r].n > 0 /\ minmax' = minmax
      /\ UNCHANGED <<conf, pc, coordinatorProc, procsToWrite, remainingWriters>>
      /\ unreadMessages' = [unreadMessages EXCEPT ![r].n = @ - 1]
  BY DEF CleanUpMessages, At, coordinating
<1>5. /\ k \in InTransit(tag) /\ InTransit(tag)' = InTransit(tag) \ {k}
      /\ \A t : t # tag => InTransit(t)' = InTransit(t)
      /\ \A t : InTransit(t)' \subseteq InTransit(t)
  BY <1>3 DEF Incoming, InTransit
<1>6. /\ unreadMessages'[r].tag = tag /\ unreadMessages'[r].n = unreadMessages[r].n - 1
      /\ unreadMessages[r].n \in Nat /\ unreadMessages'[r].n \in Nat
      /\ \A q \in Ranks \ {r} : unreadMessages'[q] = unreadMessages[q]
      /\ tag \in {"decider", "done"}
  <2>1. unreadMessages[r] \in [tag : {"none", "decider", "done"}, n : 0..NProcs]
    BY <1>1 DEF TypeOK
  <2>2. unreadMessages[r].n \in Nat
    BY <2>1, NProcsAssumption
  <2>3. tag # "none"
    BY <1>1, <1>2, <1>4 DEF Unread
  <2> QED
    BY <1>1, <1>2, <1>4, <2>1, <2>2, <2>3 DEF TypeOK
<1>7. /\ Decided /\ conf.mode = "dynamic"
      /\ tag = "decider" <=> r = conf.deciderProc
      /\ tag = "done" <=> r = Root
      /\ HasLeft(r) /\ HasLeft(r)'
  <2>1. tag = "decider" => Decided /\ r = conf.deciderProc
    BY <1>1, <1>2 DEF Unread
  <2>2. tag = "done" => Decided /\ r = Root
    BY <1>1, <1>2 DEF Unread
  <2>3. Decided /\ conf.mode = "dynamic"
    BY <1>6, <2>1, <2>2 DEF Decided
  <2>4. Root # conf.deciderProc
    BY <1>1, <1>4, <2>3, DeciderIsRank, SortsKept DEF Elected
  <2> QED
    BY <1>4, <1>6, <2>1, <2>2, <2>3, <2>4 DEF HasLeft
<1>8. Moves(r)
  BY <1>1, <1>4, MovesAlone
<1>9. Gathered'
  BY <1>1, <1>4, <1>5, <1>7, <1>8, GatheredKept DEF Gathered
<1>10. InTurn'
  BY <1>1, <1>4, <1>5, <1>7, DynamicInTurn
<1>11. Addressed'
  <2>1. ASSUME NEW m \in msgs' PROVE Sound(m)'
    <3>1. m \in msgs /\ Sound(m)
      BY <1>1, <1>3 DEF Addressed
    <3>2. m.tag = "write" => m.dst # r
      BY <1>4, <3>1 DEF Sound
    <3>3. m.tag = "coordinator" => m.dst # r
      BY <1>4, <3>1 DEF Sound, Early
    <3> QED
      BY <1>1, <1>4, <1>8, <3>1, <3>2, <3>3, SoundKept
  <2> QED
    BY <1>1, <1>5, <2>1 DEF Addressed
<1>12. Elected'
  BY <1>1, <1>4, <1>8, SortsKept DEF Elected, Moves, At
<1>13. Queues'
  <2>1. pc'[r] \notin Early /\ pc'[r] \notin {"coordinate", "await"} /\ pc[r] \notin {"start", "signal"}
    BY <1>4 DEF Early
  <2> QED
    BY <1>1, <1>4, <1>5, <1>8, <2>1, QueuesKept
<1>14. Unread'
  <2>1. \A q \in Ranks : unreadMessages'[q].tag = unreadMessages[q].tag
    BY <1>2, <1>6
  <2>2. pc' = pc /\ pc[r] # "gone" /\ unreadMessages'[r].tag # "none"
    BY <1>4, <1>6
  <2> QED
    BY <1>1, <1>6, <1>8, <2>1, <2>2 DEF Unread, Moves, At, HasLeft
<1>15. Balanced'
  <2>1. Cardinality(InTransit(tag))' = Cardinality(InTransit(tag)) - 1
    BY <1>1, <1>5, OneLess DEF Balanced
  <2>2. ToTell' = ToTell /\ ToReport' = ToReport
    BY <1>1, <1>4, <1>8, SortsKept DEF ToTell, ToReport, HasLeft, Moves
  <2>3. Cardinality(ToTell)' = Cardinality(ToTell) /\ Cardinality(ToReport)' = Cardinality(ToReport)
    BY <2>2
  <2>4. /\ Cardinality(InTransit("decider")) \in Nat /\ Cardinality(ToTell) \in Nat
        /\ Cardinality(InTransit("done")) \in Nat /\ Cardinality(ToReport) \in Nat
    BY <1>1, CountTypes DEF Balanced
  <2>5. /\ Cardinality(InTransit("decider")) + Cardinality(ToTell) = DeciderExpects
        /\ Cardinality(InTransit("done")) + Cardinality(ToReport) = CoordinatorExpects
    BY <1>1, <1>7 DEF Balanced
  <2>6. Cardinality(InTransit("decider"))' + Cardinality(ToTell)' = DeciderExpects'
    <3>1. CASE r = conf.deciderProc
      <4>1. DeciderExpects = unreadMessages[r].n /\ DeciderExpects' = unreadMessages'[r].n
        BY <1>4, <1>7, <1>8, <3>1 DEF DeciderExpects, Moves
      <4>2. tag = "decider"
        BY <1>7, <3>1
      <4> QED
        BY <1>6, <2>1, <2>3, <2>4, <2>5, <4>1, <4>2
    <3>2. CASE r # conf.deciderProc
      <4>1. InTransit("decider")' = InTransit("decider")
        BY <1>5, <1>6, <1>7, <3>2
      <4>2. unreadMessages'[conf.deciderProc].n = unreadMessages[conf.deciderProc].n
        BY <1>1, <1>6, <1>7, <3>2, DeciderIsRank
      <4> QED
        BY <1>1, <1>4, <1>7, <1>8, <4>1, <4>2, DeciderIsRank, DeciderCountKept
    <3> QED
      BY <3>1, <3>2
  <2>7. Cardinality(InTransit("done"))' + Cardinality(ToReport)' = CoordinatorExpects'
    <3>1. CASE r = Root
      <4>1. CoordinatorExpects = unreadMessages[r].n /\ CoordinatorExpects' = unreadMessages'[r].n
        BY <1>4, <1>7, <1>8, <3>1 DEF CoordinatorExpects, Moves, HasLeft
      <4>2. tag = "done"
        BY <1>7, <3>1
      <4> QED
        BY <1>6, <2>1, <2>3, <2>4, <2>5, <4>1, <4>2
    <3>2. CASE r # Root
      <4>1. InTransit("done")' = InTransit("done")
        BY <1>5, <1>6, <1>7, <3>2
      <4>2. unreadMessages'[Root].n = unreadMessages[Root].n
        BY <1>1, <1>6, <3>2, RootIsRank
      <4>3. CoordinatorExpects' = CoordinatorExpects
        BY <1>1, <1>4, <1>8, <3>2, <4>2, ExpectsKept
      <4> QED
        BY <1>1, <1>7, <1>8, <4>1, <4>3, ReportCountKept
    <3> QED
      BY <3>1, <3>2
  <2>8. IsFiniteSet(msgs')
    BY <1>1, <1>3, FS_RemoveElement DEF Balanced
  <2> QED
    BY <2>6, <2>7, <2>8 DEF Balanced
<1> QED
  BY <1>9, <1>10, <1>11, <1>12, <1>13, <1>14, <1>15 DEF MessageIInv

-----------------------------------------------------------------------------
(***************************************************************************)
(* The messages: the theorems                                              *)
(***************************************************************************)
LEMMA InitMessages == Init => MessageIInv
<1> SUFFICES ASSUME Init PROVE MessageIInv
  OBVIOUS
<1>1. PICK c \in Configurations : NFilesInit(c)
  BY DEF Init
<1>2. /\ conf \in Configurations
      /\ pc = [r \in Ranks |-> "start"] /\ msgs = {}
      /\ coordinatorProc = [r \in Ranks |-> IOProcessorNumber]
      /\ unreadMessages = [r \in Ranks |-> [tag |-> "none", n |-> 0]]
  BY <1>1 DEF NFilesInit
<1>3. TypeOK /\ ModesKept
  BY InitOwners DEF WriterIInv
<1>4. ~Decided /\ Root \in Ranks /\ \A tag : InTransit(tag) = {}
  <2>1. conf.mode = "dynamic" => conf.deciderProc \in Ranks
    BY <1>3, DeciderIsRank
  <2> QED
    BY <1>2, <1>3, <2>1, RootIsRank DEF Decided, InTransit
<1>5. SetZeroProcs \subseteq Ranks /\ AvailableDeciders \subseteq Ranks
  BY DEF SetZeroProcs, AvailableDeciders
<1>6. InTurn
  <2>1. \A r \in Ranks : HandsOn(r) => Successor(r) \in Ranks
    BY DEF HandsOn
  <2> QED
    BY <1>2, <1>4, <2>1 DEF InTurn, At
<1>7. Gathered
  <2>1. conf.mode # "dynamic" => Root = IOProcessorNumber
    BY DEF Root
  <2> QED
    BY <1>2, <1>4, <2>1 DEF Gathered, HasLeft
<1>8. Addressed
  BY <1>2, <1>4 DEF Addressed
<1>9. Elected
  BY <1>2, <1>4, <1>5 DEF Elected, Early, At
<1>10. Queues
  BY <1>2, <1>4 DEF Queues
<1>11. Unread
  BY <1>2, <1>4 DEF Unread, At
<1>12. Balanced
  <2>1. ToTell = SetZeroProcs
    BY <1>2, <1>5 DEF ToTell
  <2>2. Cardinality(InTransit("decider")) = 0
    BY <1>4, FS_EmptySet
  <2>3. Cardinality(SetZeroProcs) \in Nat /\ Cardinality(ToTell) = Cardinality(SetZeroProcs)
    BY <1>2, <2>1, SetSizes
  <2>4. DeciderExpects = Cardinality(SetZeroProcs)
    BY <1>4 DEF DeciderExpects
  <2> QED
    BY <1>2, <1>4, <2>2, <2>3, <2>4, FS_EmptySet DEF Balanced
<1> QED
  BY <1>6, <1>7, <1>8, <1>9, <1>10, <1>11, <1>12 DEF MessageIInv

LEMMA StepMessages == WriterIInv /\ WriterIInv' /\ MessageIInv /\ [Next]_vars => MessageIInv'
<1> SUFFICES ASSUME WriterIInv, WriterIInv', MessageIInv, [Next]_vars PROVE MessageIInv'
  OBVIOUS
<1>1. CASE Next
  <2>1. PICK r \in Ranks : RankStep(r)
    BY <1>1 DEF Next
  <2>2. CASE LoopStep(r) /\ UNCHANGED <<minmax, header>>
    BY <2>2, StaticReadyMessages, SparseReadyMessages, SilentMessages, DecideMessages,
       WaitForSignalMessages, StaticNextMessages, SparseNextMessages, TellDeciderMessages,
       LearnCoordinatorMessages, SignalMessages, AwaitDoneMessages, CoordinatedMessages,
       DynamicNextMessages
       DEF LoopStep
  <2>3. CASE Contribute(r)
    BY <2>3, ContributeMessages
  <2>4. CASE WriteHeader(r)
    BY <2>4, WriteHeaderMessages
  <2>5. CASE (CleanUpMessages(r) \/ Destroyed(r)) /\ UNCHANGED <<minmax, header>>
    BY <2>5, CleanUpMessagesKeeps, DestroyedMessages
  <2> QED
    BY <2>1, <2>2, <2>3, <2>4, <2>5 DEF RankStep
<1>2. CASE UNCHANGED vars
  <2>1. /\ UNCHANGED <<conf, pc, msgs, coordinatorProc, procsToWrite, remainingWriters,
                       unreadMessages, minmax>>
    BY <1>2 DEF vars, nfivars
  <2>2. /\ \A tag : InTransit(tag)' = InTransit(tag)
        /\ \A q : /\ (HandsOn(q)' <=> HandsOn(q)) /\ Successor(q)' = Successor(q)
                  /\ (HasLeft(q)' <=> HasLeft(q)) /\ \A x : At(q, x)' <=> At(q, x)
        /\ Root' = Root /\ (Decided' <=> Decided)
        /\ SetZeroProcs' = SetZeroProcs /\ AvailableDeciders' = AvailableDeciders
    BY <2>1, PlacesKept DEF InTransit, HandsOn, Successor, HasLeft, At, Root, Decided
  <2>3. InTurn' /\ Gathered'
    BY <2>1, <2>2 DEF MessageIInv, InTurn, Gathered
  <2>4. Addressed'
    <3>1. \A m : Sound(m)' <=> Sound(m)
      BY <2>1, <2>2 DEF Sound, Early
    <3> QED
      BY <2>1, <2>2, <3>1 DEF MessageIInv, Addressed
  <2>5. Elected' /\ Unread'
    BY <2>1, <2>2 DEF MessageIInv, Elected, Unread, Early
  <2>6. Queues'
    <3>1. Waiting' = Waiting
      BY <2>1 DEF Waiting
    <3> QED
      BY <2>1, <2>2, <3>1 DEF MessageIInv, Queues, Early, At
  <2>7. Balanced'
    <3>1. /\ ToTell' = ToTell /\ ToReport' = ToReport
          /\ DeciderExpects' = DeciderExpects /\ CoordinatorExpects' = CoordinatorExpects
      BY <2>1, <2>2 DEF ToTell, ToReport, DeciderExpects, CoordinatorExpects
    <3> QED
      BY <2>1, <2>2, <3>1 DEF MessageIInv, Balanced
  <2> QED
    BY <2>3, <2>4, <2>5, <2>6, <2>7 DEF MessageIInv
<1> QED
  BY <1>1, <1>2

\* In every reachable state of VisMF::Write each message in transit has a receiver that is
\* still to read it, and the counts of the decider and of the coordinator agree with what
\* the other ranks have sent and are to send.
THEOREM MessageInvariance == Spec => []MessageIInv
  BY InitOwners, StepOwners, InitMessages, StepMessages, PTL DEF Spec

\* When all ranks have destroyed their iterators no message is left, with any number of
\* ranks and files and in all modes.
THEOREM NoStrayMessagesAlways == Spec => []NoStrayMessages
<1>1. WriterIInv /\ MessageIInv => NoStrayMessages
  <2> SUFFICES ASSUME WriterIInv, MessageIInv, \A r \in Ranks : At(r, "gone"), NEW k \in msgs
               PROVE  FALSE
    BY DEF NoStrayMessages
  <2>1. /\ TypeOK /\ ModesKept
        /\ InTurn /\ Gathered /\ Addressed /\ Elected /\ Unread /\ Balanced
    BY DEF WriterIInv, MessageIInv
  <2>2. Sound(k) /\ Root \in Ranks /\ \A r \in Ranks : pc[r] = "gone"
    BY <2>1, RootIsRank DEF Addressed, At
  <2>3. k.tag # "stWrite"
    BY <2>1, <2>2 DEF InTurn, InTransit, HandsOn, At
  <2>4. k.tag # "gather"
    BY <2>1, <2>2 DEF Gathered, InTransit
  <2>5. Decided /\ conf.mode = "dynamic" /\ conf.deciderProc \in Ranks
    <3>1. conf.mode = "dynamic"
      BY <2>2, <2>3, <2>4 DEF Sound, Decided
    <3> QED
      BY <2>1, <2>2, <3>1, DeciderIsRank DEF Decided
  <2>6. k.tag \notin {"coordinator", "write"}
    BY <2>1, <2>2, <2>5, SortsKept DEF Sound, Early, SetZeroProcs, AvailableDeciders
  <2>7. /\ Cardinality(InTransit("decider")) = 0
        /\ Cardinality(InTransit("done")) = 0
    <3>1. DeciderExpects = 0 /\ CoordinatorExpects = 0
      BY <2>1, <2>2, <2>5 DEF DeciderExpects, CoordinatorExpects, Unread, HasLeft, At
    <3>2. /\ Cardinality(InTransit("decider")) + Cardinality(ToTell) = 0
          /\ Cardinality(InTransit("done")) + Cardinality(ToReport) = 0
      BY <2>1, <2>5, <3>1 DEF Balanced
    <3> QED
      BY <2>1, <3>2, CountTypes DEF Balanced
  <2>8. InTransit("decider") = {} /\ InTransit("done") = {}
    BY <2>1, <2>7, CountTypes, FS_EmptySet DEF Balanced
  <2> QED
    BY <2>2, <2>3, <2>4, <2>6, <2>8 DEF Sound, InTransit
<1> QED
  BY <1>1, WriterInvariance, MessageInvariance, PTL
-----------------------------------------------------------------------------
(***************************************************************************)
(* Sums                                                                    *)
(***************************************************************************)
\* A set that has 0 in it and the successors of its members goes up to N.
LEMMA UpTo ==
    ASSUME NEW N \in Nat, NEW T, 0 \in T, \A n \in 1 .. N : n - 1 \in T => n \in T
    PROVE  0 .. N \subseteq T
<1> DEFINE Bad == (0 .. N) \ T
<1> SUFFICES ASSUME Bad # {} PROVE FALSE
  OBVIOUS
<1>1. Bad \in SUBSET Nat
  OBVIOUS
<1>2. PICK n \in Bad : \A m \in Bad : n <= m
  BY <1>1, MinOfNaturals
<1>3. n \in 1 .. N /\ n - 1 \in 0 .. N
  BY <1>2
<1>4. n - 1 \notin Bad
  BY <1>2, <1>3
<1> QED
  BY <1>2, <1>3, <1>4

\* The recursion by which a loop adds up d.
Totals(g, N, d) ==
    /\ g \in [0 .. N -> Nat]
    /\ g[0] = 0
    /\ \A n \in 1 .. N : g[n] = g[n - 1] + d[n]

LEMMA TotalsExist ==
    ASSUME NEW N \in Nat, NEW d \in [1 .. N -> Nat]
    PROVE  \E g : Totals(g, N, d)
<1> DEFINE Good(m) == \E g \in [0 .. N -> Nat] : g[0] = 0 /\ \A n \in 1 .. m : g[n] = g[n - 1] + d[n]
           T == {m \in 0 .. N : Good(m)}
<1>1. 0 \in T
  <2> DEFINE o == [n \in 0 .. N |-> 0]
  <2>1. o \in [0 .. N -> Nat] /\ o[0] = 0 /\ \A n \in 1 .. 0 : o[n] = o[n - 1] + d[n]
    OBVIOUS
  <2> HIDE DEF o
  <2>2. Good(0)
    BY <2>1
  <2> QED
    BY <2>2
<1>2. ASSUME NEW m \in 1 .. N, m - 1 \in T PROVE m \in T
  <2>1. PICK g \in [0 .. N -> Nat] : g[0] = 0 /\ \A n \in 1 .. m - 1 : g[n] = g[n - 1] + d[n]
    BY <1>2
  <2> DEFINE h == [g EXCEPT ![m] = g[m - 1] + d[m]]
  <2>2. g[m - 1] + d[m] \in Nat
    OBVIOUS
  <2>3. /\ h \in [0 .. N -> Nat] /\ h[m] = g[m - 1] + d[m]
        /\ \A n \in 0 .. N : n # m => h[n] = g[n]
    BY <2>2
  <2> HIDE DEF h
  <2>4. \A n \in 1 .. m : n - 1 \in 0 .. N /\ n - 1 # m /\ (n # m => n \in 1 .. m - 1 /\ n \in 0 .. N)
    OBVIOUS
  <2>5. \A n \in 1 .. m : h[n] = h[n - 1] + d[n]
    BY <2>1, <2>3, <2>4
  <2>6. h[0] = 0
    BY <2>1, <2>3
  <2>7. h \in [0 .. N -> Nat] /\ h[0] = 0 /\ \A n \in 1 .. m : h[n] = h[n - 1] + d[n]
    BY <2>3, <2>5, <2>6
  <2>8. Good(m)
    BY <2>7
  <2>9. m \in 0 .. N
    OBVIOUS
  <2> HIDE DEF Good
  <2> QED
    BY <2>8, <2>9
<1>3. N \in T
  <2> HIDE DEF T
  <2>1. \A n \in 1 .. N : n - 1 \in T => n \in T
    BY <1>2
  <2>2. 0 .. N \subseteq T
    BY <1>1, <2>1, UpTo
  <2> QED
    BY <2>2
<1> QED
  BY <1>3 DEF Totals

\* Two of them agree as far as what they add does.
LEMMA TotalsAgree ==
    ASSUME NEW N \in Nat, NEW M \in Nat, M <= N, NEW d, NEW e, NEW g, NEW h,
           Totals(g, M, d), Totals(h, N, e), \A n \in 1 .. M : d[n] = e[n]
    PROVE  \A n \in 0 .. M : g[n] = h[n]
<1> DEFINE T == {n \in 0 .. M : g[n] = h[n]}
<1>1. 0 \in T
  BY DEF Totals
<1>2. ASSUME NEW n \in 1 .. M, n - 1 \in T PROVE n \in T
  <2>1. n \in 1 .. N /\ g[n - 1] = h[n - 1] /\ d[n] = e[n]
    BY <1>2
  <2> QED
    BY <2>1 DEF Totals
<1>3. 0 .. M \subseteq T
  <2> HIDE DEF T
  <2>1. \A n \in 1 .. M : n - 1 \in T => n \in T
    BY <1>2
  <2> QED
    BY <1>1, <2>1, UpTo
<1> QED
  BY <1>3

\* A function that satisfies the recursion is one.
LEMMA TotalsOf ==
    ASSUME NEW N \in Nat, NEW d \in [1 .. N -> Nat], NEW a,
           a = [n \in 0 .. N |-> IF n = 0 THEN 0 ELSE a[n - 1] + d[n]]
    PROVE  Totals(a, N, d)
<1> DEFINE T == {n \in 0 .. N : a[n] \in Nat}
<1>1. \A n \in 0 .. N : a[n] = IF n = 0 THEN 0 ELSE a[n - 1] + d[n]
  OBVIOUS
<1>2. 0 \in T
  BY <1>1
<1>3. ASSUME NEW n \in 1 .. N, n - 1 \in T PROVE n \in T
  <2>1. n \in 0 .. N /\ n # 0 /\ d[n] \in Nat
    OBVIOUS
  <2> QED
    BY <1>1, <1>3, <2>1
<1>4. 0 .. N \subseteq T
  <2> HIDE DEF T
  <2>1. \A n \in 1 .. N : n - 1 \in T => n \in T
    BY <1>3
  <2> QED
    BY <1>2, <2>1, UpTo
<1>5. a \in [0 .. N -> Nat]
  BY <1>4
<1>6. \A n \in 1 .. N : n \in 0 .. N /\ n # 0
  OBVIOUS
<1>7. 0 \in 0 .. N
  OBVIOUS
<1>8. a[0] = 0 /\ \A n \in 1 .. N : a[n] = a[n - 1] + d[n]
  BY <1>1, <1>6, <1>7
<1> QED
  BY <1>5, <1>8 DEF Totals

-----------------------------------------------------------------------------
(***************************************************************************)
(* Lengths and offsets                                                     *)
(***************************************************************************)
\* The length of a rank's data is a number.
LEMMA BytesType ==
    ASSUME NEW data, NEW r \in Ranks \cup {Old}
    PROVE  BytesOf(data, r) \in Nat
  BY RankNumbers, NProcsAssumption DEF BytesOf

\* The length of a sequence of data, by the recursion that defines it.
LEMMA LengthTotals ==
    ASSUME NEW data, NEW s \in Seq(Ranks \cup {Old})
    PROVE  \E g : /\ Totals(g, Len(s), [n \in 1 .. Len(s) |-> BytesOf(data, s[n])])
                  /\ Length(data, s) = g[Len(s)]
<1> DEFINE d == [n \in 1 .. Len(s) |-> BytesOf(data, s[n])]
           Value(g, n) == IF n = 0 THEN 0 ELSE g[n - 1] + BytesOf(data, s[n])
           length == CHOOSE g : g = [n \in 0 .. Len(s) |-> Value(g, n)]
<1>1. Len(s) \in Nat /\ \A n \in 1 .. Len(s) : s[n] \in Ranks \cup {Old}
  OBVIOUS
<1>2. d \in [1 .. Len(s) -> Nat]
  BY <1>1, BytesType
<1>3. PICK h : Totals(h, Len(s), d)
  <2> HIDE DEF d
  <2> QED
    BY <1>1, <1>2, TotalsExist
<1>4. \A g : [n \in 0 .. Len(s) |-> Value(g, n)]
              = [n \in 0 .. Len(s) |-> IF n = 0 THEN 0 ELSE g[n - 1] + d[n]]
  OBVIOUS
<1>5. h = [n \in 0 .. Len(s) |-> Value(h, n)]
  <2>1. h = [n \in 0 .. Len(s) |-> IF n = 0 THEN 0 ELSE h[n - 1] + d[n]]
    <3> HIDE DEF d
    <3> QED
      BY <1>1, <1>3 DEF Totals
  <2> HIDE DEF Value, d
  <2> QED
    BY <1>4, <2>1
<1>6. length = [n \in 0 .. Len(s) |-> Value(length, n)]
  <2> HIDE DEF Value
  <2> QED
    BY <1>5
<1>7. Length(data, s) = length[Len(s)]
  BY Zenon DEF Length
<1>8. Totals(length, Len(s), d)
  <2> HIDE DEF length
  <2>1. length = [n \in 0 .. Len(s) |-> IF n = 0 THEN 0 ELSE length[n - 1] + d[n]]
    <3> HIDE DEF Value, d
    <3> QED
      BY <1>4, <1>6
  <2> HIDE DEF d
  <2> QED
    BY <1>1, <1>2, <2>1, TotalsOf
<1> QED
  BY <1>7, <1>8

\* Within, by its recursion.
LEMMA WithinTotals ==
    ASSUME NEW f, NEW s \in Seq(Ranks), NEW n \in 0 .. Len(s)
    PROVE  Totals([k \in 0 .. n |-> Within(f, s, k)], n,
                  [k \in 1 .. n |-> IF WrittenFile(s[k]) = f THEN BytesOf(conf.data, s[k]) ELSE 0])
<1> DEFINE D(k) == IF WrittenFile(s[k]) = f THEN BytesOf(conf.data, s[k]) ELSE 0
           d(m) == [k \in 1 .. m |-> D(k)]
           Value(g, k) == IF k = 0 THEN 0 ELSE g[k - 1] + D(k)
<1>1. ASSUME NEW m \in 0 .. n PROVE \E g : Totals(g, m, d(m)) /\ Within(f, s, m) = g[m]
  <2>1. \A k \in 1 .. m : D(k) \in Nat
    BY BytesType
  <2>2. m \in Nat
    OBVIOUS
  <2> HIDE DEF D
  <2>3. d(m) \in [1 .. m -> Nat]
    BY <2>1
  <2> DEFINE e == d(m)
             added == CHOOSE g : g = [k \in 0 .. m |-> Value(g, k)]
  <2>4. PICK h : Totals(h, m, e)
    <3> HIDE DEF e
    <3> QED
      BY <2>2, <2>3, TotalsExist DEF e
  <2>5. \A g : [k \in 0 .. m |-> Value(g, k)] = [k \in 0 .. m |-> IF k = 0 THEN 0 ELSE g[k - 1] + e[k]]
    OBVIOUS
  <2>6. h = [k \in 0 .. m |-> IF k = 0 THEN 0 ELSE h[k - 1] + e[k]]
    <3> HIDE DEF e
    <3> QED
      BY <2>2, <2>4 DEF Totals
  <2>7. h = [k \in 0 .. m |-> Value(h, k)]
    <3> HIDE DEF Value, e
    <3> QED
      BY <2>5, <2>6
  <2>8. added = [k \in 0 .. m |-> Value(added, k)]
    <3> HIDE DEF Value
    <3> QED
      BY <2>7
  <2>9. Within(f, s, m) = added[m]
    BY Zenon DEF Within, D
  <2>10. Totals(added, m, e)
    <3> HIDE DEF added
    <3>1. added = [k \in 0 .. m |-> IF k = 0 THEN 0 ELSE added[k - 1] + e[k]]
      <4> HIDE DEF Value, e
      <4> QED
        BY <2>5, <2>8
    <3>2. e \in [1 .. m -> Nat]
      BY <2>3
    <3> HIDE DEF e
    <3> QED
      BY <2>2, <3>1, <3>2, TotalsOf
  <2> QED
    BY <2>9, <2>10
<1>2. PICK g : Totals(g, n, d(n)) /\ Within(f, s, n) = g[n]
  <2>1. n \in 0 .. n
    OBVIOUS
  <2> HIDE DEF d
  <2> QED
    BY <1>1, <2>1
<1>3. ASSUME NEW m \in 0 .. n PROVE Within(f, s, m) = g[m]
  <2>1. PICK h : Totals(h, m, d(m)) /\ Within(f, s, m) = h[m]
    BY <1>1
  <2>2. m \in Nat /\ n \in Nat /\ m <= n
    OBVIOUS
  <2> HIDE DEF D
  <2>3. \A k \in 1 .. m : d(m)[k] = d(n)[k]
    BY <2>2
  <2> DEFINE a == d(m)
             b == d(n)
  <2>4. Totals(h, m, a) /\ Totals(g, n, b) /\ \A k \in 1 .. m : a[k] = b[k]
    BY <1>2, <2>1, <2>3
  <2> HIDE DEF a, b
  <2>5. \A k \in 0 .. m : h[k] = g[k]
    BY <2>2, <2>4, TotalsAgree
  <2> QED
    BY <2>1, <2>2, <2>5
<1>4. [k \in 0 .. n |-> Within(f, s, k)] = g
  <2>1. g \in [0 .. n -> Nat]
    BY <1>2 DEF Totals
  <2> QED
    BY <1>3, <2>1
<1> QED
  BY <1>2, <1>4

\* Within a list whose ranks have f for their file it is the length of the prefix ...
LEMMA WithinIsLength ==
    ASSUME NEW f, NEW s \in Seq(Ranks), \A k \in 1 .. Len(s) : WrittenFile(s[k]) = f,
           NEW n \in 0 .. Len(s)
    PROVE  Within(f, s, n) = Length(conf.data, SubSeq(s, 1, n))
<1> DEFINE t == SubSeq(s, 1, n)
           g == [k \in 0 .. n |-> Within(f, s, k)]
           d == [k \in 1 .. n |-> IF WrittenFile(s[k]) = f THEN BytesOf(conf.data, s[k]) ELSE 0]
           e == [k \in 1 .. Len(t) |-> BytesOf(conf.data, t[k])]
<1>1. Totals(g, n, d)
  BY WithinTotals
<1>2. t \in Seq(Ranks) /\ Len(t) = n /\ n \in Nat /\ \A k \in 1 .. n : k \in 1 .. Len(s) /\ t[k] = s[k]
  OBVIOUS
<1>3. t \in Seq(Ranks \cup {Old})
  BY <1>2
<1>4. PICK h : Totals(h, Len(t), e) /\ Length(conf.data, t) = h[Len(t)]
  <2> HIDE DEF t
  <2> QED
    BY <1>3, LengthTotals
<1>5. \A k \in 1 .. n : d[k] = e[k]
  <2> HIDE DEF t
  <2> QED
    BY <1>2
<1>6. g[n] = Within(f, s, n)
  BY <1>2
<1> HIDE DEF t, g, d, e
<1>7. \A k \in 0 .. n : g[k] = h[k]
  BY <1>1, <1>2, <1>4, <1>5, TotalsAgree
<1> QED
  BY <1>2, <1>4, <1>6, <1>7 DEF t

\* ... and 0 within one where none has.
LEMMA WithinOthers ==
    ASSUME NEW f, NEW s \in Seq(Ranks), \A k \in 1 .. Len(s) : WrittenFile(s[k]) # f
    PROVE  Within(f, s, Len(s)) = 0
<1> DEFINE n == Len(s)
           g == [k \in 0 .. n |-> Within(f, s, k)]
           d == [k \in 1 .. n |-> IF WrittenFile(s[k]) = f THEN BytesOf(conf.data, s[k]) ELSE 0]
           z == [k \in 0 .. n |-> 0]
<1>1. n \in Nat /\ n \in 0 .. n
  OBVIOUS
<1>2. Totals(g, n, d)
  BY <1>1, WithinTotals
<1>3. d = [k \in 1 .. n |-> 0]
  OBVIOUS
<1>4. Totals(z, n, d)
  BY <1>1, <1>3 DEF Totals
<1>5. g[n] = Within(f, s, n) /\ z[n] = 0
  BY <1>1
<1> HIDE DEF g, d, z, n
<1>6. \A k \in 0 .. n : g[k] = z[k]
  BY <1>1, <1>2, <1>4, TotalsAgree
<1> QED
  BY <1>1, <1>5, <1>6 DEF n

\* Nothing is before a list if none of the lists before it has a rank of file f.
LEMMA NothingBefore ==
    ASSUME NEW f, NEW l \in Nat,
           \A k \in 1 .. l : Within(f, fileNumbersWriteOrder[k - 1], Len(fileNumbersWriteOrder[k - 1])) = 0
    PROVE  Before(f, l) = 0
<1> DEFINE W(k) == Within(f, fileNumbersWriteOrder[k - 1], Len(fileNumbersWriteOrder[k - 1]))
           Value(g, k) == IF k = 0 THEN 0 ELSE g[k - 1] + W(k)
           added == CHOOSE g : g = [k \in 0 .. l |-> Value(g, k)]
           z == [k \in 0 .. l |-> 0]
           d == [k \in 1 .. l |-> 0]
<1>1. Before(f, l) = added[l]
  BY Zenon DEF Before
<1>2. \A k \in 1 .. l : W(k) = 0
  OBVIOUS
<1> HIDE DEF W
<1>3. \A k \in 0 .. l : k # 0 => k \in 1 .. l /\ k - 1 \in 0 .. l
  OBVIOUS
<1>4. z = [k \in 0 .. l |-> Value(z, k)]
  BY <1>2, <1>3
<1>5. added = [k \in 0 .. l |-> Value(added, k)]
  <2> HIDE DEF Value, z
  <2> QED
    BY <1>4
<1> HIDE DEF added
<1>6. added = [k \in 0 .. l |-> IF k = 0 THEN 0 ELSE added[k - 1] + d[k]]
  BY <1>2, <1>3, <1>5
<1>7. d \in [1 .. l -> Nat]
  OBVIOUS
<1>8. Totals(z, l, d)
  BY DEF Totals
<1>9. z[l] = 0 /\ l \in 0 .. l
  OBVIOUS
<1> HIDE DEF d, z
<1>10. Totals(added, l, d)
  BY <1>6, <1>7, TotalsOf
<1>11. \A k \in 0 .. l : added[k] = z[k]
  BY <1>8, <1>10, TotalsAgree
<1> QED
  BY <1>1, <1>9, <1>11

\* FindOffsets gives what the record says, if it has all that have data, and the ranks of
\* a list one file that no other list has.
LEMMA FindOffsetsRight ==
    ASSUME RecordOnce, conf.data \subseteq Ranks,
           \A r \in conf.data : Listed(r),
           NEW W,
           \A f \in FileNumbers : \A i \in DOMAIN fileNumbersWriteOrder[f] :
               WrittenFile(fileNumbersWriteOrder[f][i]) = W[f],
           \A f, g \in FileNumbers : fileNumbersWriteOrder[f] # <<>> /\ fileNumbersWriteOrder[g] # <<>>
                                     /\ W[f] = W[g] => f = g
    PROVE  /\ DOMAIN FindOffsets = conf.data
           /\ \A f \in FileNumbers : \A i \in DOMAIN fileNumbersWriteOrder[f] :
                 fileNumbersWriteOrder[f][i] \in conf.data =>
                    FindOffsets[fileNumbersWriteOrder[f][i]] =
                       [file |-> W[f], offset |-> Length(conf.data, SubSeq(fileNumbersWriteOrder[f], 1, i - 1))]
<1> DEFINE order == fileNumbersWriteOrder
<1>1. DOMAIN FindOffsets = conf.data
  BY DEF FindOffsets
<1>2. SUFFICES ASSUME NEW f \in FileNumbers, NEW i \in DOMAIN order[f], order[f][i] \in conf.data
               PROVE  FindOffsets[order[f][i]] =
                       [file |-> W[f], offset |-> Length(conf.data, SubSeq(order[f], 1, i - 1))]
  BY <1>1
<1> DEFINE r == order[f][i]
           s == order[f]
<1>3. order \in [FileNumbers -> Seq(Ranks)]
      /\ \A k, g \in FileNumbers : \A x \in DOMAIN order[k], y \in DOMAIN order[g] :
            order[k][x] = order[g][y] => k = g /\ x = y
  BY DEF RecordOnce
<1> HIDE DEF order
<1>4. WrittenFile(r) = W[f] /\ s \in Seq(Ranks) /\ i \in 1 .. Len(s)
  BY <1>2, <1>3 DEF order
<1>5. FindOffsets[r] = [file |-> WrittenFile(r), offset |-> Offset(r)]
  <2> HIDE DEF r
  <2> QED
    BY <1>2 DEF FindOffsets, r
<1>6. (CHOOSE g \in FileNumbers : r \in Range(order[g])) = f
  <2>1. r \in Range(order[f])
    BY <1>2 DEF Range
  <2>2. \A g \in FileNumbers : r \in Range(order[g]) => g = f
    BY <1>2, <1>3 DEF Range
  <2> HIDE DEF r
  <2> QED
    BY <2>1, <2>2
<1>7. (CHOOSE k \in DOMAIN s : s[k] = r) = i
  <2>1. \A k \in DOMAIN s : s[k] = r => k = i
    BY <1>2, <1>3
  <2> QED
    BY <1>2, <2>1
<1>8. Offset(r) = Before(W[f], f) + Within(W[f], s, i - 1)
  <2> HIDE DEF r
  <2> QED
    BY <1>4, <1>6, <1>7 DEF Offset, order
<1>9. Within(W[f], s, i - 1) = Length(conf.data, SubSeq(s, 1, i - 1))
  <2>1. \A k \in 1 .. Len(s) : WrittenFile(s[k]) = W[f]
    BY <1>2, <1>4 DEF order
  <2> DEFINE w == W[f]
             n == i - 1
  <2>2. n \in 0 .. Len(s) /\ \A k \in 1 .. Len(s) : WrittenFile(s[k]) = w
    BY <1>4, <2>1
  <2> HIDE DEF w, s, n
  <2>3. Within(w, s, n) = Length(conf.data, SubSeq(s, 1, n))
    BY <1>4, <2>2, WithinIsLength
  <2> QED
    BY <2>3 DEF w, n
<1>10. Before(W[f], f) = 0
  <2>1. f \in Nat
    BY RankNumbers
  <2>2. ASSUME NEW k \in 1 .. f PROVE Within(W[f], order[k - 1], Len(order[k - 1])) = 0
    <3>1. k - 1 \in FileNumbers /\ k - 1 # f
      BY <1>2, <2>1, NProcsAssumption DEF FileNumbers
    <3> DEFINE t == order[k - 1]
               w == W[f]
    <3>2. t \in Seq(Ranks)
      BY <1>3, <3>1
    <3>3. ASSUME NEW x \in 1 .. Len(t) PROVE WrittenFile(t[x]) # w
      <4>1. t # <<>> /\ s # <<>> /\ x \in DOMAIN t
        BY <1>4, <3>2
      <4>2. WrittenFile(t[x]) = W[k - 1]
        BY <3>1, <4>1 DEF order
      <4>3. W[k - 1] # W[f]
        BY <3>1, <4>1 DEF order
      <4> QED
        BY <4>2, <4>3
    <3> HIDE DEF t, w
    <3>4. Within(w, t, Len(t)) = 0
      BY <3>2, <3>3, WithinOthers
    <3> QED
      BY <3>4 DEF t, w
  <2> DEFINE w == W[f]
  <2>3. \A k \in 1 .. f : Within(w, order[k - 1], Len(order[k - 1])) = 0
    BY <2>2
  <2> HIDE DEF w
  <2>4. Before(w, f) = 0
    BY <2>1, <2>3, NothingBefore DEF order
  <2> QED
    BY <2>4 DEF w
<1>11. Length(conf.data, SubSeq(s, 1, i - 1)) \in Nat
  <2> DEFINE t == SubSeq(s, 1, i - 1)
             e == [k \in 1 .. Len(t) |-> BytesOf(conf.data, t[k])]
  <2>1. t \in Seq(Ranks \cup {Old})
    BY <1>4
  <2> HIDE DEF t
  <2>2. PICK g : Totals(g, Len(t), e) /\ Length(conf.data, t) = g[Len(t)]
    BY <2>1, LengthTotals
  <2>3. Len(t) \in 0 .. Len(t)
    BY <2>1
  <2>4. g[Len(t)] \in Nat
    BY <2>2, <2>3 DEF Totals
  <2> QED
    BY <2>2, <2>4 DEF t
<1> QED
  BY <1>4, <1>5, <1>8, <1>9, <1>10, <1>11

-----------------------------------------------------------------------------
(***************************************************************************)
(* The order of the writes                                                 *)
(***************************************************************************)
\* Two ascending lists of the same numbers are one.
LEMMA AscendingEqual ==
    ASSUME NEW S \in SUBSET Nat, NEW s \in Seq(S), NEW t \in Seq(S),
           Ascends(s), Ascends(t), Range(s) = Range(t)
    PROVE  s = t
<1>1. /\ Len(s) \in Nat /\ Len(t) \in Nat
      /\ DOMAIN s = 1 .. Len(s) /\ DOMAIN t = 1 .. Len(t)
      /\ \A i \in 1 .. Len(s) : s[i] \in Nat
      /\ \A i \in 1 .. Len(t) : t[i] \in Nat
  <2>1. /\ \A i \in 1 .. Len(s) : s[i] \in S
        /\ \A i \in 1 .. Len(t) : t[i] \in S
    OBVIOUS
  <2>2. \A x \in S : x \in Nat
    OBVIOUS
  <2>3. /\ Len(s) \in Nat /\ Len(t) \in Nat
        /\ DOMAIN s = 1 .. Len(s) /\ DOMAIN t = 1 .. Len(t)
    OBVIOUS
  <2> QED
    BY <2>1, <2>2, <2>3
<1>2. /\ \A i \in 1 .. Len(s) : \E j \in 1 .. Len(t) : s[i] = t[j]
      /\ \A i \in 1 .. Len(t) : \E j \in 1 .. Len(s) : t[i] = s[j]
  BY <1>1 DEF Range
<1>3. /\ \A i, j \in 1 .. Len(s) : i < j => s[i] < s[j]
      /\ \A i, j \in 1 .. Len(t) : i < j => t[i] < t[j]
  BY <1>1 DEF Ascends
<1> DEFINE Same(i) == (i \in 1 .. Len(s) <=> i \in 1 .. Len(t)) /\ (i \in 1 .. Len(s) => s[i] = t[i])
           Bad == {i \in Nat \ {0} : ~Same(i)}
<1>4. Bad = {}
  <2> SUFFICES ASSUME Bad # {} PROVE FALSE
    OBVIOUS
  <2>1. PICK i \in Bad : \A j \in Bad : i <= j
    <3> Bad \in SUBSET Nat
      OBVIOUS
    <3> HIDE DEF Bad
    <3> QED
      BY MinOfNaturals
  <2>2. i \in Nat \ {0} /\ ~Same(i) /\ \A j \in 1 .. i - 1 : Same(j)
    BY <2>1
  <2>3. ASSUME i \in 1 .. Len(s) PROVE i \in 1 .. Len(t) /\ t[i] <= s[i]
    <3>1. PICK j \in 1 .. Len(t) : s[i] = t[j]
      BY <1>2, <2>3
    <3>2. ASSUME j < i PROVE FALSE
      <4>1. Same(j) /\ j \in 1 .. Len(s)
        BY <1>1, <2>2, <2>3, <3>2
      <4>2. s[j] < s[i] /\ s[j] = s[i]
        BY <1>3, <2>3, <3>1, <3>2, <4>1
      <4> QED
        BY <1>1, <2>3, <4>1, <4>2
    <3>3. i <= j
      BY <2>2, <3>2
    <3>4. i \in 1 .. Len(t)
      BY <1>1, <2>2, <3>3
    <3>5. CASE i = j
      BY <1>1, <3>1, <3>4, <3>5
    <3>6. CASE i < j
      BY <1>1, <1>3, <3>1, <3>4, <3>6
    <3> QED
      BY <3>3, <3>4, <3>5, <3>6
  <2>4. ASSUME i \in 1 .. Len(t) PROVE i \in 1 .. Len(s) /\ s[i] <= t[i]
    <3>1. PICK j \in 1 .. Len(s) : t[i] = s[j]
      BY <1>2, <2>4
    <3>2. ASSUME j < i PROVE FALSE
      <4>1. Same(j) /\ j \in 1 .. Len(t)
        BY <1>1, <2>2, <2>4, <3>2
      <4>2. t[j] < t[i] /\ t[j] = t[i]
        BY <1>3, <2>4, <3>1, <3>2, <4>1
      <4> QED
        BY <1>1, <2>4, <4>1, <4>2
    <3>3. i <= j
      BY <2>2, <3>2
    <3>4. i \in 1 .. Len(s)
      BY <1>1, <2>2, <3>3
    <3>5. CASE i = j
      BY <1>1, <3>1, <3>4, <3>5
    <3>6. CASE i < j
      BY <1>1, <1>3, <3>1, <3>4, <3>6
    <3> QED
      BY <3>3, <3>4, <3>5, <3>6
  <2> QED
    BY <1>1, <2>2, <2>3, <2>4
<1>5. \A i \in Nat \ {0} : Same(i)
  BY <1>4
<1>6. Len(s) = Len(t)
  <2> HIDE DEF Bad
  <2>1. Len(s) # 0 => Len(s) \in 1 .. Len(t)
    BY <1>1, <1>5
  <2>2. Len(t) # 0 => Len(t) \in 1 .. Len(s)
    BY <1>1, <1>5
  <2>3. Len(s) <= Len(t) /\ Len(t) <= Len(s)
    BY <1>1, <2>1, <2>2
  <2> DEFINE a == Len(s)
             b == Len(t)
  <2>4. a \in Nat /\ b \in Nat /\ a <= b /\ b <= a
    BY <1>1, <2>3
  <2> HIDE DEF a, b
  <2>5. a = b
    BY <2>4
  <2> QED
    BY <2>5 DEF a, b
<1>7. \A i \in 1 .. Len(s) : s[i] = t[i]
  BY <1>1, <1>5
<1> QED
  BY <1>6, <1>7

\* The ranks of a file have their turns in ascending order ...
LEMMA PlaceOrder ==
    ASSUME conf \in Configurations, NEW q \in Ranks, NEW r \in Ranks,
           FileNumber(q) = FileNumber(r), q < r
    PROVE  WhichSetPosition(q) < WhichSetPosition(r)
<1>1. r \in Nat /\ q \in Nat
  BY RankNumbers
<1> DEFINE n == conf.nOutFiles
           l == LengthOfSet(n)
<1>2. n \in Nat \ {0} /\ l \in Nat \ {0}
  BY SetLength
<1>3. CASE conf.groupSets
  <2>1. FileNumber(q) = q % n /\ FileNumber(r) = r % n
        /\ WhichSetPosition(q) = q \div n /\ WhichSetPosition(r) = r \div n
    BY <1>3 DEF FileNumber, WhichSetPosition
  <2> HIDE DEF n, l
  <2> DEFINE a == q \div n
             b == r \div n
             x == n * a
             y == n * b
  <2>2. a \in Nat /\ b \in Nat /\ q % n \in Nat /\ q = x + (q % n) /\ r = y + (r % n)
    <3>1. a \in Nat /\ q % n \in 0 .. n - 1 /\ q = x + (q % n)
      BY <1>1, <1>2, DivMod
    <3>2. b \in Nat /\ r = y + (r % n)
      BY <1>1, <1>2, DivMod
    <3> HIDE DEF a, b, x, y
    <3> QED
      BY <1>2, <3>1, <3>2
  <2>3. q % n = r % n
    BY <2>1
  <2> HIDE DEF a, b
  <2>4. x \in Nat /\ y \in Nat /\ (b <= a => y <= x)
    BY <1>2, <2>2, Z3
  <2> HIDE DEF x, y
  <2>5. ~(b <= a)
    BY <1>1, <2>2, <2>3, <2>4
  <2> QED
    BY <2>1, <2>2, <2>5 DEF a, b
<1>4. CASE ~conf.groupSets
  <2>1. FileNumber(q) = q \div l /\ FileNumber(r) = r \div l
        /\ WhichSetPosition(q) = q % l /\ WhichSetPosition(r) = r % l
    BY <1>4 DEF FileNumber, WhichSetPosition
  <2> HIDE DEF n, l
  <2> DEFINE x == l * (q \div l)
  <2>2. q % l \in Nat /\ r % l \in Nat /\ q \div l \in Nat /\ q = x + (q % l) /\ r = l * (r \div l) + (r % l)
    <3>1. q \div l \in Nat /\ q % l \in 0 .. l - 1 /\ q = x + (q % l)
      BY <1>1, <1>2, DivMod
    <3>2. r % l \in 0 .. l - 1 /\ r = l * (r \div l) + (r % l)
      BY <1>1, <1>2, DivMod
    <3> HIDE DEF x
    <3> QED
      BY <1>2, <3>1, <3>2
  <2>3. r = x + (r % l) /\ x \in Nat
    BY <1>2, <2>1, <2>2, MulNat
  <2> HIDE DEF x
  <2> QED
    BY <1>1, <2>1, <2>2, <2>3
<1> QED
  BY <1>3, <1>4

\* ... and a rank's successor is the next of them.
LEMMA SuccessorNext ==
    ASSUME conf \in Configurations, NEW r \in Ranks, NEW q \in Ranks, Successor(r) \in Ranks,
           FileNumber(q) = FileNumber(r), q < Successor(r)
    PROVE  q <= r
<1>1. r \in Nat /\ q \in Nat
  BY RankNumbers
<1> DEFINE n == conf.nOutFiles
<1>2. n \in Nat \ {0}
  BY SetLength
<1>3. CASE conf.groupSets
  <2>1. FileNumber(q) = q % n /\ FileNumber(r) = r % n /\ q < r + n
    BY <1>3 DEF FileNumber, Successor
  <2> HIDE DEF n
  <2> DEFINE a == q \div n
             b == r \div n
             x == n * a
             y == n * b
  <2>2. a \in Nat /\ b \in Nat /\ q % n \in Nat /\ q = x + (q % n) /\ r = y + (r % n)
    <3>1. a \in Nat /\ q % n \in 0 .. n - 1 /\ q = x + (q % n)
      BY <1>1, <1>2, DivMod
    <3>2. b \in Nat /\ r = y + (r % n)
      BY <1>1, <1>2, DivMod
    <3> HIDE DEF a, b, x, y
    <3> QED
      BY <1>2, <3>1, <3>2
  <2>3. q % n = r % n
    BY <2>1
  <2> HIDE DEF a, b
  <2>4. x \in Nat /\ y \in Nat /\ (b < a => y + n <= x) /\ (a <= b => x <= y)
    <3>1. x \in Nat /\ y \in Nat
      BY <1>2, <2>2, MulNat
    <3>2. ASSUME b < a PROVE y + n <= x
      <4>1. PICK k \in Nat : a = b + 1 + k
        <5>1. a - b - 1 \in Nat /\ a = b + 1 + (a - b - 1)
          BY <2>2, <3>2
        <5> QED
          BY <5>1
      <4>2. n * (b + 1 + k) = n * b + n + n * k /\ n * k \in Nat
        BY <1>2, <2>2, <4>1, Z3
      <4> QED
        BY <1>2, <3>1, <4>1, <4>2
    <3>3. ASSUME a <= b PROVE x <= y
      BY <1>2, <2>2, <3>3, Z3
    <3> QED
      BY <3>1, <3>2, <3>3
  <2> HIDE DEF x, y
  <2> QED
    BY <1>1, <1>2, <2>1, <2>2, <2>3, <2>4
<1>4. CASE ~conf.groupSets
  BY <1>1, <1>4 DEF Successor
<1> QED
  BY <1>3, <1>4

-----------------------------------------------------------------------------
(***************************************************************************)
(* The record in static mode and of sparse writes                          *)
(***************************************************************************)
\* A step that neither changes the record nor lets the root leave before the header.
LEMMA HeaderKept ==
    ASSUME HeaderFromRecord, conf' = conf,
           UNCHANGED <<fileNumbersWriteOrder, header>>,
           pc'[Root'] \in {"cleanup", "gone"} => pc[Root] \in {"cleanup", "gone"}
    PROVE  HeaderFromRecord'
  BY DEF HeaderFromRecord

LEMMA RecordKept ==
    ASSUME RecordOnce, UNCHANGED fileNumbersWriteOrder
    PROVE  RecordOnce' /\ \A r : Listed(r)' <=> Listed(r)
  BY DEF RecordOnce, Listed

\* The parts of the invariant that are about other modes.
LEMMA OtherModes ==
    ASSUME conf' = conf
    PROVE  /\ conf.mode # "static" => StaticRecord'
           /\ conf.mode # "sparse" => SparseRecord'
           /\ conf.mode # "dynamic" => DynamicRecord'
  BY DEF StaticRecord, SparseRecord, DynamicRecord

\* A step that writes nothing, and before which its rank had left the loop or written.
LEMMA StaticKept ==
    ASSUME StaticRecord, NEW r \in Ranks, conf' = conf,
           UNCHANGED <<fileNumbersWriteOrder, files>>,
           \A q \in Ranks \ {r} : pc'[q] = pc[q],
           Wrote(r), Wrote(r)', HasLeft(r) => HasLeft(r)'
    PROVE  StaticRecord'
<1> SUFFICES ASSUME conf.mode = "static" PROVE StaticRecord'
  BY DEF StaticRecord
<1>1. /\ \A q \in Ranks : /\ Wrote(q)' <=> Wrote(q)
                          /\ At(q, "start")' <=> At(q, "start")
                          /\ HasLeft(q) => HasLeft(q)'
      /\ \A q : FileNumber(q)' = FileNumber(q)
  BY PlacesKept DEF Wrote, At, HasLeft
<1>2. \A f \in FileNumbers :
         /\ Ascends(fileNumbersWriteOrder[f])
         /\ Range(fileNumbersWriteOrder[f]) = {q \in Ranks : FileNumber(q) = f}
         /\ (\E q \in Ranks : FileNumber(q) = f /\ ~At(q, "start")) =>
               /\ Ascends(files[f])
               /\ Range(files[f]) = {q \in Ranks : FileNumber(q) = f /\ Wrote(q)}
  BY DEF StaticRecord
<1>3. \A x, q \in Ranks : FileNumber(x) = FileNumber(q) /\ x < q /\ ~At(q, "start") => HasLeft(x)
  BY DEF StaticRecord
<1>4. \A f : /\ {q \in Ranks : FileNumber(q) = f}' = {q \in Ranks : FileNumber(q) = f}
             /\ {q \in Ranks : FileNumber(q) = f /\ Wrote(q)}'
                = {q \in Ranks : FileNumber(q) = f /\ Wrote(q)}
  BY <1>1
<1>5. \A x, q \in Ranks :
         FileNumber(x)' = FileNumber(q)' /\ x < q /\ ~At(q, "start")' => HasLeft(x)'
  BY <1>1, <1>3
<1>6. \A f \in FileNumbers :
         /\ Ascends(fileNumbersWriteOrder[f])'
         /\ (Range(fileNumbersWriteOrder[f]) = {q \in Ranks : FileNumber(q) = f})'
         /\ (\E q \in Ranks : FileNumber(q)' = f /\ ~At(q, "start")') =>
               /\ Ascends(files[f])'
               /\ (Range(files[f]) = {q \in Ranks : FileNumber(q) = f /\ Wrote(q)})'
  BY <1>1, <1>2, <1>4
<1> QED
  BY <1>5, <1>6 DEF StaticRecord

LEMMA SparseKept ==
    ASSUME SparseRecord, RecordOnce, TypeOK, NEW r \in Ranks, conf' = conf,
           UNCHANGED <<fileNumbersWriteOrder, files>>,
           \A q \in Ranks \ {r} : pc'[q] = pc[q],
           r \in conf.data => Wrote(r) /\ Wrote(r)'
    PROVE  SparseRecord'
<1>1. conf.data \subseteq Ranks
  BY DEF TypeOK, Configurations
<1>2. \A q \in conf.data : /\ Wrote(q)' <=> Wrote(q)
                           /\ At(q, "writing")' => At(q, "writing")
                           /\ Listed(q)' <=> Listed(q)
  BY <1>1, RecordKept DEF Wrote, At
<1> QED
  BY <1>2 DEF SparseRecord

\* The first rank of a file finds no rank of its file begun, and a later one those before
\* it gone.
LEMMA StaticBegins ==
    ASSUME TypeOK, ModesKept, InTurn, StaticRecord, NEW r \in Ranks, StaticReady(r)
    PROVE  /\ \A q \in Ranks : FileNumber(q) = FileNumber(r) /\ q < r => HasLeft(q)
           /\ \A q \in Ranks : FileNumber(q) = FileNumber(r) /\ r < q => At(q, "start")
           /\ IF WhichSetPosition(r) = 0
              THEN \A q \in Ranks : FileNumber(q) = FileNumber(r) => At(q, "start")
              ELSE \E q \in Ranks : FileNumber(q) = FileNumber(r) /\ ~At(q, "start")
<1>1. conf \in Configurations /\ conf.mode = "static" /\ At(r, "start")
  BY DEF TypeOK, StaticReady
<1>2. \A x, q \in Ranks : FileNumber(x) = FileNumber(q) /\ x < q /\ ~At(q, "start") => HasLeft(x)
  BY <1>1 DEF StaticRecord
<1>3. \A q \in Ranks : FileNumber(q) = FileNumber(r) /\ r < q => At(q, "start")
  BY <1>1, <1>2 DEF HasLeft, At
<1>4. Ranks \subseteq Nat /\ \A q \in Ranks : WhichSetPosition(q) \in Nat
  BY <1>1, RankNumbers, Place
<1>5. CASE WhichSetPosition(r) = 0
  <2>1. \A q \in Ranks : FileNumber(q) = FileNumber(r) => ~(q < r)
    BY <1>1, <1>4, <1>5, PlaceOrder
  <2>2. \A q \in Ranks : q < r \/ q = r \/ r < q
    BY <1>4
  <2> QED
    BY <1>1, <1>3, <1>5, <2>1, <2>2
<1>6. CASE WhichSetPosition(r) # 0
  <2>1. PICK m \in msgs : m.dst = r /\ m.tag = "stWrite"
    BY <1>6 DEF StaticReady, Incoming
  <2>2. /\ HandsOn(m.src) /\ HasLeft(m.src) /\ r = Successor(m.src) /\ m.src \in Ranks
    BY <2>1 DEF InTurn, InTransit, TypeOK
  <2> DEFINE p == m.src
  <2>3. p \in Ranks /\ HasLeft(p) /\ r = Successor(p) /\ ~At(p, "start")
        /\ WhichSetPosition(Successor(p)) > WhichSetPosition(p) /\ Successor(p) < NProcs
    BY <2>2, RankNumbers DEF HandsOn, HasLeft, At
  <2> HIDE DEF p
  <2>4. FileNumber(p) = FileNumber(r)
    BY <1>1, <2>3, SuccessorSameFile
  <2>5. ASSUME NEW q \in Ranks, FileNumber(q) = FileNumber(r), q < r PROVE HasLeft(q)
    <3>1. q <= p
      BY <1>1, <2>3, <2>4, <2>5, SuccessorNext
    <3>2. q = p \/ q < p
      BY <1>4, <2>3, <3>1
    <3> QED
      BY <1>2, <2>3, <2>4, <2>5, <3>2
  <2> QED
    BY <1>3, <1>6, <2>3, <2>4, <2>5
<1> QED
  BY <1>5, <1>6

LEMMA StaticReadyRecord ==
    ASSUME TypeOK, ModesKept, InTurn, StaticRecord, NEW r \in Ranks, StaticReady(r)
    PROVE  StaticRecord'
<1> DEFINE f == FileNumber(r)
<1>1. /\ conf' = conf /\ conf.mode = "static" /\ pc[r] = "start" /\ pc' = [pc EXCEPT ![r] = "writing"]
      /\ fileNumbersWriteOrder' = fileNumbersWriteOrder
      /\ files' = IF WhichSetPosition(r) = 0 THEN [files EXCEPT ![f] = <<>>] ELSE files
      /\ f \in FileNumbers /\ conf \in Configurations
  <2>1. WhichSetPosition(r) \in Nat /\ f \in FileNumbers
    BY Place DEF TypeOK
  <2>2. /\ conf' = conf /\ conf.mode = "static" /\ pc[r] = "start" /\ pc' = [pc EXCEPT ![r] = "writing"]
        /\ fileNumbersWriteOrder' = fileNumbersWriteOrder
    BY DEF StaticReady, OpenTruncated, OpenAppending, Goto, At, coordinating
  <2>3. CASE WhichSetPosition(r) = 0
    <3>1. OpenTruncated(r, f)
      BY <2>3 DEF StaticReady
    <3> QED
      BY <2>1, <2>2, <2>3, <3>1 DEF OpenTruncated, TypeOK
  <2>4. CASE WhichSetPosition(r) # 0
    <3>1. OpenAppending(r, f)
      BY <2>4 DEF StaticReady
    <3> QED
      BY <2>1, <2>2, <2>4, <3>1 DEF OpenAppending, TypeOK
  <2> QED
    BY <2>3, <2>4
<1>2. /\ \A q \in Ranks : FileNumber(q) = f /\ q < r => HasLeft(q)
      /\ \A q \in Ranks : FileNumber(q) = f /\ r < q => At(q, "start")
      /\ IF WhichSetPosition(r) = 0
         THEN \A q \in Ranks : FileNumber(q) = f => At(q, "start")
         ELSE \E q \in Ranks : FileNumber(q) = f /\ ~At(q, "start")
  BY StaticBegins
<1>3. /\ \A q \in Ranks \ {r} : pc'[q] = pc[q]
      /\ pc'[r] = "writing"
      /\ files \in [FileNumbers -> Seq(Ranks \cup {Old})]
      /\ \A q : FileNumber(q)' = FileNumber(q)
  BY <1>1, PlacesKept DEF TypeOK
<1>4. \A q \in Ranks : /\ Wrote(q)' <=> Wrote(q)
                       /\ At(q, "start")' <=> (At(q, "start") /\ q # r)
                       /\ HasLeft(q)' <=> HasLeft(q)
  BY <1>1, <1>3 DEF Wrote, At, HasLeft
<1>5. \A g \in FileNumbers :
         /\ Ascends(fileNumbersWriteOrder[g])
         /\ Range(fileNumbersWriteOrder[g]) = {q \in Ranks : FileNumber(q) = g}
         /\ (\E q \in Ranks : FileNumber(q) = g /\ ~At(q, "start")) =>
               /\ Ascends(files[g])
               /\ Range(files[g]) = {q \in Ranks : FileNumber(q) = g /\ Wrote(q)}
  BY <1>1 DEF StaticRecord
<1>6. \A x, q \in Ranks : FileNumber(x) = FileNumber(q) /\ x < q /\ ~At(q, "start") => HasLeft(x)
  BY <1>1 DEF StaticRecord
<1>7. \A g : /\ {q \in Ranks : FileNumber(q) = g}' = {q \in Ranks : FileNumber(q) = g}
             /\ {q \in Ranks : FileNumber(q) = g /\ Wrote(q)}'
                = {q \in Ranks : FileNumber(q) = g /\ Wrote(q)}
  BY <1>3, <1>4
<1>8. ASSUME NEW x \in Ranks, NEW q \in Ranks,
             FileNumber(x)' = FileNumber(q)', x < q, ~At(q, "start")'
      PROVE  HasLeft(x)'
  BY <1>2, <1>3, <1>4, <1>6, <1>8
<1>9. ASSUME NEW g \in FileNumbers, \E q \in Ranks : FileNumber(q)' = g /\ ~At(q, "start")'
      PROVE  /\ Ascends(files'[g])
             /\ Range(files'[g]) = {q \in Ranks : FileNumber(q) = g /\ Wrote(q)}
  <2>1. CASE g = f /\ WhichSetPosition(r) = 0
    <3>1. files'[g] = <<>>
      BY <1>1, <1>3, <2>1
    <3>2. Ascends(<<>>) /\ Range(<<>>) = {}
      BY DEF Ascends, Range
    <3>3. {q \in Ranks : FileNumber(q) = g /\ Wrote(q)} = {}
      BY <1>2, <2>1 DEF Wrote, At
    <3> QED
      BY <3>1, <3>2, <3>3
  <2>2. CASE ~(g = f /\ WhichSetPosition(r) = 0)
    <3>1. files'[g] = files[g]
      BY <1>1, <1>3, <2>2
    <3>2. \E q \in Ranks : FileNumber(q) = g /\ ~At(q, "start")
      BY <1>2, <1>3, <1>4, <1>9, <2>2
    <3> QED
      BY <1>5, <3>1, <3>2
  <2> QED
    BY <2>1, <2>2
<1>10. \A g \in FileNumbers :
         /\ Ascends(fileNumbersWriteOrder[g])'
         /\ (Range(fileNumbersWriteOrder[g]) = {q \in Ranks : FileNumber(q) = g})'
         /\ (\E q \in Ranks : FileNumber(q)' = g /\ ~At(q, "start")') =>
               /\ Ascends(files[g])'
               /\ (Range(files[g]) = {q \in Ranks : FileNumber(q) = g /\ Wrote(q)})'
  BY <1>1, <1>5, <1>7, <1>9
<1> QED
  BY <1>8, <1>10 DEF StaticRecord

\* A list with a greater number at its end.
LEMMA AscendsLonger ==
    ASSUME NEW S, NEW s \in Seq(S), NEW r, Ascends(s), \A x \in Range(s) : x < r
    PROVE  Ascends(Append(s, r)) /\ Range(Append(s, r)) = Range(s) \cup {r}
<1> DEFINE t == Append(s, r)
<1>1. /\ Len(s) \in Nat /\ DOMAIN s = 1 .. Len(s) /\ DOMAIN t = 1 .. Len(s) + 1
      /\ t[Len(s) + 1] = r /\ \A i \in 1 .. Len(s) : t[i] = s[i]
  OBVIOUS
<1> HIDE DEF t
<1>2. \A i \in 1 .. Len(s) : t[i] \in Range(s)
  BY <1>1 DEF Range
<1>3. Ascends(t)
  <2> SUFFICES ASSUME NEW i \in 1 .. Len(s) + 1, NEW j \in 1 .. Len(s) + 1, i < j
               PROVE  t[i] < t[j]
    BY <1>1 DEF Ascends
  <2>1. i \in 1 .. Len(s)
    BY <1>1
  <2>2. CASE j = Len(s) + 1
    BY <1>1, <1>2, <2>1, <2>2
  <2>3. CASE j # Len(s) + 1
    <3>1. j \in 1 .. Len(s)
      BY <1>1, <2>3
    <3> QED
      BY <1>1, <2>1, <3>1 DEF Ascends
  <2> QED
    BY <2>2, <2>3
<1>4. Range(t) = Range(s) \cup {r}
  <2>1. \A x : x \in Range(t) <=> \E i \in 1 .. Len(s) + 1 : x = t[i]
    BY <1>1 DEF Range
  <2>2. \A x : x \in Range(s) <=> \E i \in 1 .. Len(s) : x = s[i]
    BY <1>1 DEF Range
  <2>3. \A i : i \in 1 .. Len(s) + 1 <=> i \in 1 .. Len(s) \/ i = Len(s) + 1
    BY <1>1
  <2> QED
    BY <1>1, <2>1, <2>2, <2>3
<1> QED
  BY <1>3, <1>4 DEF t

\* The data go behind those of the smaller ranks of the file, which have left.
LEMMA StaticWriteRecord ==
    ASSUME TypeOK, ModesKept, StaticRecord, NEW r \in Ranks, Write(r), conf.mode = "static"
    PROVE  StaticRecord'
<1> DEFINE f == FileNumber(r)
<1>1. /\ conf' = conf /\ pc[r] = "writing" /\ pc' = [pc EXCEPT ![r] = "written"]
      /\ fileNumbersWriteOrder' = fileNumbersWriteOrder
      /\ files' = [files EXCEPT ![f] = Append(@, r)]
      /\ f \in FileNumbers /\ conf \in Configurations
  <2>1. fileNumber[r] = f
    BY DEF ModesKept
  <2>2. f \in FileNumbers
    BY Place DEF TypeOK
  <2> QED
    BY <2>1, <2>2 DEF Write, Goto, At, coordinating, TypeOK
<1>3. /\ \A q \in Ranks \ {r} : pc'[q] = pc[q]
      /\ pc'[r] = "written"
      /\ files \in [FileNumbers -> Seq(Ranks \cup {Old})]
      /\ \A q : FileNumber(q)' = FileNumber(q)
  BY <1>1, PlacesKept DEF TypeOK
<1>4. \A q \in Ranks : /\ Wrote(q)' <=> (Wrote(q) \/ q = r)
                       /\ At(q, "start")' <=> At(q, "start")
                       /\ HasLeft(q)' <=> HasLeft(q)
  BY <1>1, <1>3 DEF Wrote, At, HasLeft
<1>5. \A g \in FileNumbers :
         /\ Ascends(fileNumbersWriteOrder[g])
         /\ Range(fileNumbersWriteOrder[g]) = {q \in Ranks : FileNumber(q) = g}
         /\ (\E q \in Ranks : FileNumber(q) = g /\ ~At(q, "start")) =>
               /\ Ascends(files[g])
               /\ Range(files[g]) = {q \in Ranks : FileNumber(q) = g /\ Wrote(q)}
  BY <1>1 DEF StaticRecord, Write
<1>6. \A x, q \in Ranks : FileNumber(x) = FileNumber(q) /\ x < q /\ ~At(q, "start") => HasLeft(x)
  BY <1>1 DEF StaticRecord
<1>7. \A g : {q \in Ranks : FileNumber(q) = g}' = {q \in Ranks : FileNumber(q) = g}
  BY <1>3
<1>8. \A x, q \in Ranks :
         FileNumber(x)' = FileNumber(q)' /\ x < q /\ ~At(q, "start")' => HasLeft(x)'
  BY <1>3, <1>4, <1>6
<1>9. ASSUME NEW g \in FileNumbers, \E q \in Ranks : FileNumber(q)' = g /\ ~At(q, "start")'
      PROVE  /\ Ascends(files'[g])
             /\ Range(files'[g]) = {q \in Ranks : FileNumber(q)' = g /\ Wrote(q)'}
  <2>0. \E q \in Ranks : FileNumber(q) = g /\ ~At(q, "start")
    BY <1>3, <1>4, <1>9
  <2>1. CASE g = f
    <3>1. files'[g] = Append(files[g], r)
      BY <1>1, <1>3, <2>1
    <3>2. Range(files[g]) = {q \in Ranks : FileNumber(q) = g /\ Wrote(q)} /\ Ascends(files[g])
      BY <1>5, <2>0
    <3>3. \A x \in Range(files[g]) : x < r
      <4> SUFFICES ASSUME NEW x \in Range(files[g]) PROVE x < r
        OBVIOUS
      <4>1. x \in Ranks /\ FileNumber(x) = f /\ Wrote(x)
        BY <2>1, <3>2
      <4>2. x # r /\ ~At(x, "start")
        BY <1>1, <4>1 DEF Wrote, At
      <4>3. ~(r < x)
        BY <1>1, <1>6, <4>1, <4>2 DEF HasLeft
      <4> QED
        BY <4>1, <4>2, <4>3, RankNumbers
    <3>4. Ascends(Append(files[g], r)) /\ Range(Append(files[g], r)) = Range(files[g]) \cup {r}
      <4> DEFINE s == files[g]
                 S == Ranks \cup {Old}
      <4>1. s \in Seq(S) /\ Ascends(s) /\ \A x \in Range(s) : x < r
        BY <1>3, <3>2, <3>3
      <4> HIDE DEF s, S
      <4>2. Ascends(Append(s, r)) /\ Range(Append(s, r)) = Range(s) \cup {r}
        BY <4>1, AscendsLonger
      <4> QED
        BY <4>2 DEF s
    <3>5. {q \in Ranks : FileNumber(q)' = g /\ Wrote(q)'}
             = {q \in Ranks : FileNumber(q) = g /\ Wrote(q)} \cup {r}
      BY <1>3, <1>4, <2>1
    <3> QED
      BY <3>1, <3>2, <3>4, <3>5
  <2>2. CASE g # f
    <3>1. files'[g] = files[g]
      BY <1>1, <1>3, <2>2
    <3>2. {q \in Ranks : FileNumber(q)' = g /\ Wrote(q)'} = {q \in Ranks : FileNumber(q) = g /\ Wrote(q)}
      BY <1>3, <1>4, <2>2
    <3> QED
      BY <1>5, <2>0, <3>1, <3>2
  <2> QED
    BY <2>1, <2>2
<1>10. \A g \in FileNumbers :
         /\ Ascends(fileNumbersWriteOrder[g])'
         /\ (Range(fileNumbersWriteOrder[g]) = {q \in Ranks : FileNumber(q) = g})'
         /\ (\E q \in Ranks : FileNumber(q)' = g /\ ~At(q, "start")') =>
               /\ Ascends(files[g])'
               /\ (Range(files[g]) = {q \in Ranks : FileNumber(q) = g /\ Wrote(q)})'
  BY <1>1, <1>5, <1>7, <1>9
<1> QED
  BY <1>8, <1>10 DEF StaticRecord

LEMMA SparseReadyRecord ==
    ASSUME TypeOK, RecordOnce, SparseRecord, NEW r \in Ranks, SparseReady(r)
    PROVE  SparseRecord'
<1>1. /\ conf' = conf /\ conf.mode = "sparse" /\ pc[r] = "start"
      /\ fileNumbersWriteOrder' = fileNumbersWriteOrder
      /\ IF r \in conf.data
         THEN files' = [files EXCEPT ![r] = <<>>] /\ pc' = [pc EXCEPT ![r] = "writing"]
         ELSE files' = files /\ pc' = [pc EXCEPT ![r] = "done"]
      /\ conf.data \subseteq Ranks
      /\ files \in [Ranks -> Seq(Ranks \cup {Old})]
  BY RankNumbers DEF SparseReady, OpenTruncated, Goto, At, coordinating, TypeOK, Configurations
<1>2. \A q \in Ranks \ {r} : pc'[q] = pc[q] /\ files'[q] = files[q]
  BY <1>1 DEF TypeOK
<1>3. r \in conf.data => files'[r] = <<>> /\ pc'[r] = "writing"
  BY <1>1 DEF TypeOK
<1>4. \A q : Listed(q)' <=> Listed(q)
  BY <1>1, RecordKept
<1>5. ASSUME NEW q \in conf.data
      PROVE  /\ Listed(q)'
             /\ At(q, "writing")' => files'[q] = <<>>
             /\ Wrote(q)' => files'[q] = <<q>>
  <2>1. /\ Listed(q)
        /\ At(q, "writing") => files[q] = <<>>
        /\ Wrote(q) => files[q] = <<q>>
    BY <1>1 DEF SparseRecord
  <2>2. CASE q = r
    BY <1>3, <1>4, <2>1, <2>2 DEF Wrote
  <2>3. CASE q # r
    <3>1. pc'[q] = pc[q] /\ files'[q] = files[q]
      BY <1>1, <1>2, <2>3
    <3> QED
      BY <1>4, <2>1, <3>1 DEF Wrote, At
  <2> QED
    BY <2>2, <2>3
<1> QED
  BY <1>1, <1>5 DEF SparseRecord

LEMMA SparseWriteRecord ==
    ASSUME TypeOK, ModesKept, RecordOnce, SparseRecord, NEW r \in Ranks, Write(r), conf.mode = "sparse"
    PROVE  SparseRecord'
<1>1. /\ conf' = conf /\ pc[r] = "writing" /\ pc' = [pc EXCEPT ![r] = "written"]
      /\ fileNumbersWriteOrder' = fileNumbersWriteOrder
      /\ files' = [files EXCEPT ![r] = Append(@, r)]
      /\ conf.data \subseteq Ranks
      /\ files \in [Ranks -> Seq(Ranks \cup {Old})]
  <2>1. fileNumber[r] = r
    BY DEF ModesKept, Write, At
  <2> QED
    BY <2>1, RankNumbers DEF Write, Goto, At, coordinating, TypeOK, Configurations
<1>2. \A q \in Ranks \ {r} : pc'[q] = pc[q] /\ files'[q] = files[q]
  BY <1>1 DEF TypeOK
<1>3. files'[r] = Append(files[r], r) /\ pc'[r] = "written"
  BY <1>1 DEF TypeOK
<1>4. \A q : Listed(q)' <=> Listed(q)
  BY <1>1, RecordKept
<1>5. ASSUME NEW q \in conf.data
      PROVE  /\ Listed(q)'
             /\ At(q, "writing")' => files'[q] = <<>>
             /\ Wrote(q)' => files'[q] = <<q>>
  <2>1. /\ Listed(q)
        /\ At(q, "writing") => files[q] = <<>>
        /\ Wrote(q) => files[q] = <<q>>
    BY <1>1 DEF SparseRecord, Write
  <2>2. CASE q = r
    <3>1. files[q] = <<>>
      BY <1>1, <2>1, <2>2 DEF At
    <3>2. files'[q] = <<q>>
      BY <1>3, <2>2, <3>1
    <3> QED
      BY <1>3, <1>4, <2>1, <2>2, <3>2 DEF At
  <2>3. CASE q # r
    <3>1. pc'[q] = pc[q] /\ files'[q] = files[q]
      BY <1>1, <1>2, <2>3
    <3> QED
      BY <1>4, <2>1, <3>1 DEF Wrote, At
  <2> QED
    BY <2>2, <2>3
<1> QED
  BY <1>1, <1>5 DEF SparseRecord, Write

-----------------------------------------------------------------------------
(***************************************************************************)
(* The record in dynamic mode                                              *)
(***************************************************************************)
\* A rank that has to write to a file owns it, or a message that gives it to the rank does.
LEMMA ToWriteOwns ==
    ASSUME ModesKept, conf.mode = "dynamic", NEW r \in Ranks, NEW f \in FileNumbers, HasToWrite(r, f)
    PROVE  /\ Has(r, f) \/ \E m \in msgs : m.dst = r /\ m.tag = "write" /\ Carries(m, f)
           /\ Owned(f)
<1>1. CASE First(r) /\ FileNumber(r) = f
  BY <1>1 DEF ModesKept, First, Has, At, Owned
<1>2. CASE At(r, "writing") /\ fileNumber[r] = f
  BY <1>2 DEF Has, At, Owned
<1>3. CASE \E m \in InTransit("write") : m.dst = r /\ m.val = f
  BY <1>3 DEF InTransit, Carries, Owned
<1> QED
  BY <1>1, <1>2, <1>3 DEF HasToWrite

\* Only one rank has to write to a file, and none to one that is free or has been written
\* and not handed on.
LEMMA OneToWrite ==
    ASSUME ModesKept, OneOwner, conf.mode = "dynamic", NEW f \in FileNumbers
    PROVE  /\ \A r, q \in Ranks : HasToWrite(r, f) /\ HasToWrite(q, f) => r = q
           /\ \A r, q \in Ranks : HasToWrite(r, f) /\ Has(q, f) => r = q
           /\ \A r \in Ranks : HasToWrite(r, f) => f \notin availableFileNumbers
<1>1. /\ \A r, q \in Ranks : Has(r, f) /\ Has(q, f) => r = q
      /\ \A m, k \in msgs : Carries(m, f) /\ Carries(k, f) => m = k
      /\ \A r \in Ranks, m \in msgs : ~(Has(r, f) /\ Carries(m, f))
      /\ f \in availableFileNumbers =>
            (\A r \in Ranks : ~Has(r, f)) /\ (\A m \in msgs : ~Carries(m, f))
  BY DEF OneOwner
<1>2. \A r \in Ranks : HasToWrite(r, f) =>
          Has(r, f) \/ \E m \in msgs : m.dst = r /\ m.tag = "write" /\ Carries(m, f)
  BY ToWriteOwns
<1> QED
  BY <1>1, <1>2

\* A file that a step leaves alone.
LEMMA FileRecordKept ==
    ASSUME NEW f, FileRecord(f), conf' = conf,
           fileNumbersWriteOrder'[f] = fileNumbersWriteOrder[f], files'[f] = files[f],
           Owned(f)' => fileNumbersWriteOrder[f] # <<>>,
           \A r \in Ranks : HasToWrite(r, f)' <=> HasToWrite(r, f),
           \A r \in Ranks : HasToWrite(r, f) => (First(r)' <=> First(r))
    PROVE  FileRecord(f)'
<1>1. \A r \in Ranks : HasToWrite(r, f)' =>
          fileNumbersWriteOrder'[f] = IF First(r)' THEN <<r>> ELSE Append(files'[f], r)
  BY DEF FileRecord
<1>2. \/ fileNumbersWriteOrder'[f] \in {<<>>, files'[f]}
      \/ \E r \in Ranks : HasToWrite(r, f)'
  BY DEF FileRecord
<1>3. Owned(f)' => fileNumbersWriteOrder'[f] # <<>>
  OBVIOUS
<1> QED
  BY <1>1, <1>2, <1>3 DEF FileRecord

\* Before there is a coordinator only the ranks of set zero have begun.
LEMMA BeforeCoordinator ==
    ASSUME WriterIInv, MessageIInv, conf.mode = "dynamic", ~Coordinating
    PROVE  /\ pc[Root] \in Early
           /\ InTransit("write") = {}
           /\ \A r \in AvailableDeciders : pc[r] \in {"start", "signal"}
<1>1. TypeOK /\ Elected /\ Queues /\ Addressed /\ Root \in Ranks
  BY RootIsRank DEF WriterIInv, MessageIInv
<1>2. SetZeroProcs \cup AvailableDeciders = Ranks
  BY <1>1, Sorts DEF TypeOK
<1>3. CASE Decided
  BY <1>1, <1>3 DEF Coordinating, Queues
<1>4. CASE ~Decided
  <2>1. /\ \A r \in SetZeroProcs : pc[r] \in Early
        /\ \A r \in AvailableDeciders : pc[r] = "start"
    BY <1>1, <1>4 DEF Elected, At
  <2>2. pc[Root] \in Early
    BY <1>1, <1>2, <2>1 DEF Early
  <2>3. InTransit("write") = {}
    BY <1>1, <1>4 DEF Addressed, Sound, InTransit
  <2> QED
    BY <2>1, <2>2, <2>3
<1> QED
  BY <1>3, <1>4

\* Who is recorded: all but those that wait.
Recorded ==
    \A r \in Ranks : Listed(r) <=> ~(pc[Root] \in {"coordinate", "await"} /\ r \in Waiting)

LEMMA RecordedKept ==
    ASSUME Recorded, UNCHANGED <<fileNumbersWriteOrder, procsToWrite>>, Root' = Root,
           pc'[Root] \in {"coordinate", "await"} <=> pc[Root] \in {"coordinate", "await"}
    PROVE  Recorded'
<1>1. Waiting' = Waiting /\ \A r : Listed(r)' <=> Listed(r)
  BY DEF Waiting, Listed
<1> QED
  BY <1>1 DEF Recorded

\* A step of a rank that has had its turn, and remains so.
LEMMA QuietRecord ==
    ASSUME WriterIInv, MessageIInv, DynamicRecord, conf.mode = "dynamic", NEW r \in Ranks, Moves(r),
           UNCHANGED <<fileNumbersWriteOrder, files, fileNumber>>,
           pc[r] \notin {"start", "signal", "writing"},
           pc'[r] \notin {"start", "signal", "writing"},
           pc'[r] \in {"written", "elect"} => pc[r] \in {"written", "elect"},
           InTransit("write")' = InTransit("write"),
           \A m \in msgs' : \/ m \in msgs
                            \/ m.tag \notin {"stWrite", "write", "done"}
                            \/ m.tag = "done" /\ Has(r, m.val),
           \A f \in availableFileNumbers' :
               f \in availableFileNumbers \/ \E m \in msgs : Carries(m, f),
           Coordinating /\ Recorded => Recorded',
           pc'[Root] \in Early <=> pc[Root] \in Early
    PROVE  DynamicRecord'
<1>1. /\ TypeOK /\ ModesKept /\ conf' = conf /\ conf.mode = "dynamic"
      /\ \A q \in Ranks \ {r} : pc'[q] = pc[q]
      /\ Coordinating' <=> Coordinating
      /\ SetZeroProcs' = SetZeroProcs /\ \A q : FileNumber(q)' = FileNumber(q)
      /\ \A q : WhichSetPosition(q)' = WhichSetPosition(q)
      /\ SetZeroProcs \subseteq Ranks
  BY PlacesKept DEF WriterIInv, Moves, Coordinating, Early, SetZeroProcs
<1>2. /\ \A q \in SetZeroProcs : fileNumber[q] = FileNumber(q)
      /\ ~Coordinating => FirstRecord
      /\ Coordinating => Recorded /\ \A f \in FileNumbers : FileRecord(f)
  BY DEF DynamicRecord, Recorded
<1>3. ASSUME ~Coordinating PROVE FirstRecord'
  <2>1. \A q \in Ranks : pc[q] \in {"written", "elect"} => q \in SetZeroProcs
    BY <1>1, <1>3, BeforeCoordinator, SortsKept
  <2>2. \A q \in SetZeroProcs : /\ Wrote(q)' => Wrote(q)
                                /\ At(q, "writing")' => At(q, "writing")
    BY <1>1 DEF Wrote, At
  <2>3. ASSUME NEW m \in InTransit("done")' PROVE \E q \in SetZeroProcs : m.val = FileNumber(q)
    <3>1. m \in msgs' /\ m.tag = "done"
      BY <2>3 DEF InTransit
    <3>2. CASE m \in msgs
      BY <1>2, <1>3, <3>1, <3>2 DEF FirstRecord, InTransit
    <3>3. CASE Has(r, m.val)
      <4>1. pc[r] \in {"written", "elect"} /\ m.val = fileNumber[r]
        BY <3>3 DEF Has, At
      <4> QED
        BY <1>2, <2>1, <4>1
    <3> QED
      BY <3>1, <3>2, <3>3
  <2> QED
    BY <1>1, <1>2, <1>3, <2>2, <2>3 DEF FirstRecord
<1>4. ASSUME Coordinating, NEW f \in FileNumbers PROVE FileRecord(f)'
  <2>1. \A q \in Ranks : /\ Has(q, f)' => Has(q, f)
                         /\ First(q)' <=> First(q)
                         /\ HasToWrite(q, f)' <=> HasToWrite(q, f)
    BY <1>1 DEF Has, First, HasToWrite, At
  <2>2. \A m : Carries(m, f)' <=> Carries(m, f)
    BY <1>1, CarriesKept
  <2>3. Owned(f)' => Owned(f)
    <3>1. ASSUME f \in availableFileNumbers' PROVE Owned(f)
      BY <3>1 DEF Owned
    <3>2. ASSUME NEW m \in msgs', Carries(m, f) PROVE Owned(f)
      <4>1. m.tag = "done" => m.val = f
        BY <3>2 DEF Carries
      <4>2. m.tag \in {"stWrite", "write", "done"}
        BY <3>2 DEF Carries
      <4> QED
        BY <3>2, <4>1, <4>2 DEF Owned
    <3> QED
      BY <2>1, <2>2, <3>1, <3>2 DEF Owned
  <2>4. FileRecord(f)
    BY <1>2, <1>4
  <2>5. Owned(f)' => fileNumbersWriteOrder[f] # <<>>
    BY <2>3, <2>4 DEF FileRecord
  <2> QED
    BY <1>1, <2>1, <2>4, <2>5, FileRecordKept
<1>5. \A q \in SetZeroProcs : fileNumber'[q] = FileNumber(q)'
  BY <1>1, <1>2
<1> QED
  BY <1>1, <1>2, <1>3, <1>4, <1>5 DEF DynamicRecord, Recorded

LEMMA OpenSetZeroRecord ==
    ASSUME WriterIInv, MessageIInv, DynamicRecord, NEW r \in Ranks, OpenSetZero(r), UNCHANGED minmax
    PROVE  DynamicRecord'
<1> DEFINE f == FileNumber(r)
<1>1. /\ TypeOK /\ ModesKept /\ OneOwner
      /\ conf' = conf /\ conf.mode = "dynamic" /\ pc[r] = "start" /\ WhichSetPosition(r) = 0
      /\ f \in FileNumbers /\ r \in SetZeroProcs
      /\ UNCHANGED <<msgs, coordinatorProc, fileNumbersWriteOrder, procsToWrite, availableFileNumbers>>
      /\ fileNumber[r] = f
  BY Place DEF WriterIInv, OpenSetZero, At, coordinating, TypeOK, SetZeroProcs, ModesKept
<1>2. /\ pc' = [pc EXCEPT ![r] = "writing"]
      /\ files' = [files EXCEPT ![f] = <<>>]
      /\ fileNumber' = [fileNumber EXCEPT ![r] = f]
  BY DEF OpenSetZero, OpenTruncated, Goto
<1>3. /\ \A q \in Ranks \ {r} : pc'[q] = pc[q]
      /\ pc'[r] = "writing" /\ fileNumber' = fileNumber
      /\ files'[f] = <<>> /\ \A g \in FileNumbers \ {f} : files'[g] = files[g]
  BY <1>1, <1>2 DEF TypeOK
<1>4. Moves(r)
  <2>1. r # conf.deciderProc
    BY <1>1, DeciderIsRank, SortsKept
  <2> QED
    BY <1>1, <1>3, <2>1, MovesAlone
<1>5. /\ Root \in Ranks /\ Root' = Root /\ (pc'[Root] \in Early <=> pc[Root] \in Early)
      /\ Coordinating' <=> Coordinating
      /\ SetZeroProcs' = SetZeroProcs /\ \A q : FileNumber(q)' = FileNumber(q)
      /\ \A q : WhichSetPosition(q)' = WhichSetPosition(q)
      /\ SetZeroProcs \subseteq Ranks
      /\ \A tag : InTransit(tag)' = InTransit(tag)
      /\ \A q \in SetZeroProcs : WhichSetPosition(q) = 0
  <2>1. Root \in Ranks /\ Root' = Root /\ (Decided' <=> Decided)
    BY <1>1, <1>4, RootIsRank DEF Moves
  <2>2. pc'[Root] \in Early <=> pc[Root] \in Early
    BY <1>1, <1>3, <2>1 DEF Early
  <2> QED
    BY <1>1, <2>1, <2>2, PlacesKept DEF Coordinating, Early, SetZeroProcs, InTransit
<1>6. /\ \A q \in SetZeroProcs : fileNumber[q] = FileNumber(q)
      /\ ~Coordinating => FirstRecord
      /\ Coordinating => Recorded /\ \A g \in FileNumbers : FileRecord(g)
  BY <1>1 DEF DynamicRecord, Recorded
<1>7. ASSUME ~Coordinating PROVE FirstRecord'
  <2>1. ASSUME NEW q \in SetZeroProcs
        PROVE  /\ At(q, "writing")' => files'[FileNumber(q)] = <<>>
               /\ Wrote(q)' => files'[FileNumber(q)] = <<q>>
    <3>1. CASE q = r
      BY <1>3, <3>1 DEF Wrote
    <3>2. CASE q # r
      <4>1. FileNumber(q) \in FileNumbers \ {f}
        BY <1>1, <1>5, <3>2, Place, PlaceUnique DEF TypeOK
      <4>2. files'[FileNumber(q)] = files[FileNumber(q)] /\ pc'[q] = pc[q]
        BY <1>3, <1>5, <3>2, <4>1
      <4> QED
        BY <1>6, <1>7, <4>2 DEF FirstRecord, At, Wrote
    <3> QED
      BY <3>1, <3>2
  <2>2. \A m \in InTransit("done")' : \E q \in SetZeroProcs : m.val = FileNumber(q)
    BY <1>5, <1>6, <1>7 DEF FirstRecord
  <2> QED
    BY <1>5, <2>1, <2>2 DEF FirstRecord
<1>8. ASSUME Coordinating, NEW g \in FileNumbers PROVE FileRecord(g)'
  <2>1. \A q \in Ranks : Has(q, g)' => Has(q, g)
    BY <1>1, <1>3, <1>5 DEF Has, At
  <2>2. \A m : Carries(m, g)' <=> Carries(m, g)
    BY <1>1, CarriesKept
  <2>3. Owned(g)' => Owned(g)
    BY <1>1, <2>1, <2>2 DEF Owned
  <2>4. FileRecord(g)
    BY <1>6, <1>8
  <2>5. Owned(g)' => fileNumbersWriteOrder[g] # <<>>
    BY <2>3, <2>4 DEF FileRecord
  <2>6. CASE g # f
    <3>1. \A q \in Ranks : HasToWrite(q, g)' <=> HasToWrite(q, g)
      BY <1>1, <1>3, <1>5, <2>6 DEF HasToWrite, First, At
    <3>2. \A q \in Ranks : HasToWrite(q, g) => (First(q)' <=> First(q))
      <4>1. ~HasToWrite(r, g) \/ First(r)
        BY <1>1 DEF First, At
      <4>2. HasToWrite(r, g) => \E m \in InTransit("write") : m.dst = r
        BY <1>1, <2>6 DEF HasToWrite, First, At
      <4>3. \A m \in InTransit("write") : m.dst # r
        BY <1>1, SortsKept DEF MessageIInv, Addressed, Sound, InTransit
      <4> QED
        BY <1>3, <1>5, <4>2, <4>3 DEF First, At
    <3>3. files'[g] = files[g]
      BY <1>3, <2>6
    <3> QED
      BY <1>1, <2>4, <2>5, <3>1, <3>2, <3>3, FileRecordKept
  <2>7. CASE g = f
    <3>1. HasToWrite(r, g) /\ First(r)
      BY <1>1, <2>7 DEF HasToWrite, First, At
    <3>2. fileNumbersWriteOrder[g] = <<r>>
      BY <2>4, <3>1 DEF FileRecord
    <3>3. HasToWrite(r, g)' /\ ~First(r)'
      <4>1. At(r, "writing")' /\ ~At(r, "start")' /\ (fileNumber[r] = g)'
        BY <1>1, <1>3, <2>7 DEF At
      <4> QED
        BY <4>1 DEF HasToWrite, First
    <3>4. ASSUME NEW q \in Ranks, HasToWrite(q, g)' PROVE q = r
      <4>1. q # r => HasToWrite(q, g)
        BY <1>1, <1>3, <1>5, <3>4 DEF HasToWrite, First, At
      <4> QED
        BY <1>1, <3>1, <4>1, OneToWrite
    <3>5. fileNumbersWriteOrder'[g] = Append(files'[g], r)
      BY <1>1, <1>3, <2>7, <3>2
    <3>6. \A q \in Ranks : HasToWrite(q, g)' =>
             fileNumbersWriteOrder'[g] = IF First(q)' THEN <<q>> ELSE Append(files'[g], q)
      BY <3>3, <3>4, <3>5
    <3>7. Owned(g)' => fileNumbersWriteOrder'[g] # <<>>
      BY <1>1, <2>5
    <3>8. \E q \in Ranks : HasToWrite(q, g)'
      BY <3>3
    <3> QED
      BY <3>6, <3>7, <3>8 DEF FileRecord
  <2> QED
    BY <2>6, <2>7
<1>9. Coordinating => Recorded'
  <2>1. Coordinating => r # Root
    BY <1>1 DEF Coordinating, Early
  <2> QED
    BY <1>1, <1>3, <1>5, <1>6, <2>1, RecordedKept
<1>10. \A q \in SetZeroProcs : fileNumber'[q] = FileNumber(q)'
  BY <1>3, <1>5, <1>6
<1> QED
  BY <1>5, <1>7, <1>8, <1>9, <1>10 DEF DynamicRecord, Recorded

\* What the steps that open or write a file in dynamic mode have in common.
LEMMA DynamicFrame ==
    ASSUME TypeOK, ModesKept, conf.mode = "dynamic", NEW r \in Ranks, Moves(r),
           pc'[Root] \in Early <=> pc[Root] \in Early
    PROVE  /\ Coordinating' <=> Coordinating
           /\ conf' = conf /\ Root' = Root /\ Root \in Ranks
           /\ \A q \in Ranks \ {r} : pc'[q] = pc[q]
           /\ SetZeroProcs' = SetZeroProcs /\ SetZeroProcs \subseteq Ranks
           /\ \A q : FileNumber(q)' = FileNumber(q)
           /\ \A q : WhichSetPosition(q)' = WhichSetPosition(q)
<1>1. Root \in Ranks /\ Root' = Root /\ conf' = conf /\ (Decided' <=> Decided)
      /\ \A q \in Ranks \ {r} : pc'[q] = pc[q]
  BY RootIsRank DEF Moves
<1> QED
  BY <1>1, PlacesKept DEF Coordinating, Early, SetZeroProcs

\* A rank of set zero has its own file.
LEMMA DynamicParts ==
    ASSUME DynamicRecord, conf.mode = "dynamic"
    PROVE  /\ \A q \in SetZeroProcs : fileNumber[q] = FileNumber(q)
           /\ ~Coordinating => FirstRecord
           /\ Coordinating => Recorded /\ \A g \in FileNumbers : FileRecord(g)
  BY DEF DynamicRecord, Recorded

LEMMA WriteRecord ==
    ASSUME WriterIInv, MessageIInv, DynamicRecord, NEW r \in Ranks, Write(r), conf.mode = "dynamic",
           UNCHANGED minmax
    PROVE  DynamicRecord'
<1>1. PICK f : f = fileNumber[r]
  OBVIOUS
<1>2. /\ TypeOK /\ ModesKept /\ OneOwner
      /\ conf' = conf /\ pc[r] = "writing" /\ f \in FileNumbers
      /\ UNCHANGED <<msgs, coordinatorProc, fileNumbersWriteOrder, procsToWrite,
                     availableFileNumbers, fileNumber>>
  BY <1>1 DEF WriterIInv, Write, At, coordinating, TypeOK
<1>3. /\ \A q \in Ranks \ {r} : pc'[q] = pc[q]
      /\ pc'[r] = "written"
      /\ files'[f] = Append(files[f], r) /\ \A g \in FileNumbers \ {f} : files'[g] = files[g]
  BY <1>1, <1>2 DEF TypeOK, Write, Goto
<1>4. Moves(r)
  BY <1>2, <1>3, MovesAlone
<1>5. r # Root \/ pc[Root] = "writing"
  BY <1>2
<1>6. pc'[Root] \in Early <=> pc[Root] \in Early
  BY <1>2, <1>3, <1>4, RootIsRank DEF Early, Moves
<1>7. /\ Coordinating' <=> Coordinating
      /\ Root' = Root /\ Root \in Ranks
      /\ SetZeroProcs' = SetZeroProcs /\ SetZeroProcs \subseteq Ranks
      /\ \A q : FileNumber(q)' = FileNumber(q)
      /\ \A q : WhichSetPosition(q)' = WhichSetPosition(q)
      /\ \A tag : InTransit(tag)' = InTransit(tag)
  BY <1>2, <1>4, <1>6, DynamicFrame DEF InTransit
<1>8. /\ \A q \in SetZeroProcs : fileNumber[q] = FileNumber(q)
      /\ ~Coordinating => FirstRecord
      /\ Coordinating => Recorded /\ \A g \in FileNumbers : FileRecord(g)
  BY DynamicParts
<1>9. ASSUME ~Coordinating PROVE FirstRecord'
  <2>1. r \in SetZeroProcs /\ FileNumber(r) = f
    <3>1. r \in SetZeroProcs
      BY <1>2, <1>9, BeforeCoordinator, SortsKept
    <3> QED
      BY <1>1, <1>8, <3>1
  <2>2. ASSUME NEW q \in SetZeroProcs
        PROVE  /\ At(q, "writing")' => files'[FileNumber(q)] = <<>>
               /\ Wrote(q)' => files'[FileNumber(q)] = <<q>>
    <3>1. CASE q = r
      <4>1. files[f] = <<>>
        BY <1>2, <1>8, <1>9, <2>1 DEF FirstRecord, At
      <4> QED
        BY <1>3, <2>1, <3>1, <4>1 DEF At
    <3>2. CASE q # r
      <4>1. FileNumber(q) \in FileNumbers \ {f}
        <5>1. WhichSetPosition(q) = 0 /\ WhichSetPosition(r) = 0
          BY <2>1 DEF SetZeroProcs
        <5> QED
          BY <1>2, <1>7, <2>1, <3>2, <5>1, Place, PlaceUnique DEF TypeOK
      <4>2. files'[FileNumber(q)] = files[FileNumber(q)] /\ pc'[q] = pc[q]
        BY <1>3, <1>7, <3>2, <4>1
      <4> QED
        BY <1>8, <1>9, <4>2 DEF FirstRecord, At, Wrote
    <3> QED
      BY <3>1, <3>2
  <2>3. \A m \in InTransit("done")' : \E q \in SetZeroProcs : m.val = FileNumber(q)
    BY <1>7, <1>8, <1>9 DEF FirstRecord
  <2> QED
    BY <1>7, <2>2, <2>3 DEF FirstRecord
<1>10. ASSUME Coordinating, NEW g \in FileNumbers PROVE FileRecord(g)'
  <2>1. \A q \in Ranks : Has(q, g)' => Has(q, g)
    BY <1>2, <1>3, <1>7 DEF Has, At
  <2>2. \A m : Carries(m, g)' <=> Carries(m, g)
    BY <1>2, CarriesKept
  <2>3. Owned(g)' => Owned(g)
    BY <1>2, <2>1, <2>2 DEF Owned
  <2>4. FileRecord(g)
    BY <1>8, <1>10
  <2>5. Owned(g)' => fileNumbersWriteOrder[g] # <<>>
    BY <2>3, <2>4 DEF FileRecord
  <2>6. \A q \in Ranks : First(q)' <=> First(q)
    BY <1>2, <1>3, <1>7 DEF First, At
  <2>7. CASE g # f
    <3>1. \A q \in Ranks : HasToWrite(q, g)' <=> HasToWrite(q, g)
      BY <1>1, <1>2, <1>3, <1>7, <2>6, <2>7 DEF HasToWrite, At
    <3>2. files'[g] = files[g]
      BY <1>3, <2>7
    <3> QED
      BY <1>2, <2>4, <2>5, <2>6, <3>1, <3>2, FileRecordKept
  <2>8. CASE g = f
    <3>1. HasToWrite(r, g) /\ ~First(r)
      BY <1>1, <1>2, <2>8 DEF HasToWrite, First, At
    <3>2. fileNumbersWriteOrder[g] = Append(files[g], r)
      BY <2>4, <3>1 DEF FileRecord
    <3>3. Has(r, g)
      BY <1>1, <1>2, <2>8 DEF Has
    <3>4. \A q \in Ranks : ~HasToWrite(q, g)'
      <4> SUFFICES ASSUME NEW q \in Ranks, HasToWrite(q, g)' PROVE FALSE
        OBVIOUS
      <4>1. CASE q = r
        <5>1. \E m \in InTransit("write") : m.dst = r /\ m.val = g
          BY <1>3, <1>7, <4>1 DEF HasToWrite, First, At
        <5>2. PICK m \in msgs : Carries(m, g)
          BY <5>1 DEF InTransit, Carries
        <5> QED
          BY <1>2, <3>3, <5>2 DEF OneOwner
      <4>2. CASE q # r
        <5>1. HasToWrite(q, g)
          BY <1>2, <1>3, <1>7, <4>2, <2>6 DEF HasToWrite, At
        <5> QED
          BY <1>2, <3>1, <4>2, <5>1, OneToWrite
      <4> QED
        BY <4>1, <4>2
    <3>5. fileNumbersWriteOrder'[g] = files'[g]
      BY <1>2, <1>3, <2>8, <3>2
    <3>6. Owned(g)' => fileNumbersWriteOrder'[g] # <<>>
      BY <1>2, <2>5
    <3> QED
      BY <3>4, <3>5, <3>6 DEF FileRecord
  <2> QED
    BY <2>7, <2>8
<1>11. Coordinating => Recorded'
  <2>1. Coordinating => r # Root
    BY <1>2 DEF Coordinating, Early
  <2> QED
    BY <1>2, <1>3, <1>7, <1>8, <2>1, RecordedKept
<1>12. \A q \in SetZeroProcs : fileNumber'[q] = FileNumber(q)'
  BY <1>2, <1>7, <1>8
<1> QED
  BY <1>7, <1>9, <1>10, <1>11, <1>12 DEF DynamicRecord, Recorded

LEMMA WaitForSignalRecord ==
    ASSUME WriterIInv, MessageIInv, DynamicRecord, NEW r \in Ranks, WaitForSignal(r), UNCHANGED minmax
    PROVE  DynamicRecord' /\ Root' = Root /\ pc'[Root] = pc[Root]
<1>1. PICK k \in Incoming(r, "write") :
          /\ msgs' = msgs \ {k}
          /\ coordinatorProc' = [coordinatorProc EXCEPT ![r] = k.src]
          /\ OpenAppending(r, k.val)
  BY DEF WaitForSignal
<1>2. PICK f : f = k.val
  OBVIOUS
<1>3. /\ TypeOK /\ ModesKept /\ OneOwner /\ Addressed /\ Elected
      /\ conf' = conf /\ conf.mode = "dynamic"
      /\ k \in msgs /\ k.tag = "write" /\ k.dst = r /\ f \in FileNumbers
      /\ k.src = Root /\ r \in AvailableDeciders /\ pc[r] \in {"start", "signal"} /\ Decided
      /\ UNCHANGED <<fileNumbersWriteOrder, procsToWrite, availableFileNumbers>>
  <2>1. /\ TypeOK /\ ModesKept /\ OneOwner /\ Addressed /\ Elected
        /\ conf' = conf /\ conf.mode = "dynamic"
        /\ UNCHANGED <<fileNumbersWriteOrder, procsToWrite, availableFileNumbers>>
    BY DEF WriterIInv, MessageIInv, WaitForSignal, coordinating
  <2>2. k \in msgs /\ k.tag = "write" /\ k.dst = r
    BY <1>1 DEF Incoming
  <2>3. Sound(k) /\ f \in FileNumbers
    BY <1>2, <2>1, <2>2 DEF Addressed, TypeOK
  <2> QED
    BY <2>1, <2>2, <2>3 DEF Sound
<1>4. /\ \A q \in Ranks \ {r} : /\ pc'[q] = pc[q] /\ fileNumber'[q] = fileNumber[q]
                                /\ coordinatorProc'[q] = coordinatorProc[q]
      /\ pc'[r] = "writing" /\ fileNumber'[r] = f /\ coordinatorProc'[r] = Root
      /\ files' = files
  BY <1>1, <1>2, <1>3 DEF TypeOK, OpenAppending, Goto
<1>5. r \notin SetZeroProcs /\ WhichSetPosition(r) # 0
  BY <1>3, SortsKept DEF AvailableDeciders, SetZeroProcs
<1>6. Root' = Root /\ (Decided' <=> Decided)
  <2>1. conf.deciderProc \in Ranks
    BY <1>3, DeciderIsRank
  <2>2. Root = coordinatorProc[conf.deciderProc] /\ Root' = coordinatorProc'[conf.deciderProc]
    BY <1>3 DEF Root
  <2>3. pc'[conf.deciderProc] # "start"
    BY <1>3, <1>4, <2>1 DEF Decided
  <2> QED
    BY <1>3, <1>4, <2>1, <2>2, <2>3 DEF Decided
<1>7. Coordinating
  BY <1>3, BeforeCoordinator DEF InTransit
<1>8. /\ Root \in Ranks /\ Root # r /\ pc'[Root] = pc[Root] /\ Coordinating'
      /\ SetZeroProcs' = SetZeroProcs /\ SetZeroProcs \subseteq Ranks
      /\ \A q : FileNumber(q)' = FileNumber(q)
      /\ \A q : WhichSetPosition(q)' = WhichSetPosition(q)
  <2>1. Root \in Ranks /\ Root # r
    BY <1>3, <1>5, RootIsRank DEF Elected
  <2> QED
    BY <1>3, <1>4, <1>6, <1>7, <2>1, PlacesKept DEF Coordinating, Early, SetZeroProcs
<1>9. /\ \A q \in SetZeroProcs : fileNumber[q] = FileNumber(q)
      /\ Recorded /\ \A g \in FileNumbers : FileRecord(g)
  BY <1>3, <1>7, DynamicParts
<1>10. /\ InTransit("write")' = InTransit("write") \ {k} /\ k \in InTransit("write")
       /\ \A m \in InTransit("write") : m.dst = r => m = k
  BY <1>1, <1>3 DEF InTransit, Addressed
<1>11. ASSUME NEW g \in FileNumbers PROVE FileRecord(g)'
  <2>1. \A q \in Ranks : First(q)' <=> First(q)
    BY <1>3, <1>4, <1>5, <1>8 DEF First, At
  <2>2. \A q \in Ranks : HasToWrite(q, g)' <=> HasToWrite(q, g)
    <3>1. HasToWrite(r, g)' <=> g = f
      <4>1. \A m \in InTransit("write")' : m.dst # r
        BY <1>10
      <4> QED
        BY <1>3, <1>4, <1>5, <1>8, <4>1 DEF HasToWrite, First, At
    <3>2. HasToWrite(r, g) <=> g = f
      <4>1. (\E m \in InTransit("write") : m.dst = r /\ m.val = g) <=> g = f
        BY <1>2, <1>3, <1>10
      <4> QED
        BY <1>3, <1>5, <4>1 DEF HasToWrite, First, At
    <3>3. ASSUME NEW q \in Ranks, q # r PROVE HasToWrite(q, g)' <=> HasToWrite(q, g)
      <4>1. (\E m \in InTransit("write")' : m.dst = q /\ m.val = g)
               <=> (\E m \in InTransit("write") : m.dst = q /\ m.val = g)
        BY <1>3, <1>10, <3>3
      <4> QED
        BY <1>4, <1>8, <2>1, <3>3, <4>1 DEF HasToWrite, At
    <3> QED
      BY <3>1, <3>2, <3>3
  <2>3. \A m : Carries(m, g)' <=> Carries(m, g)
    BY <1>3, CarriesKept
  <2>4. Owned(g)' => Owned(g)
    <3>1. \A q \in Ranks : Has(q, g)' => Has(q, g) \/ (q = r /\ g = f)
      BY <1>3, <1>4, <1>8 DEF Has, At
    <3>2. Carries(k, f) /\ k \in msgs
      BY <1>2, <1>3 DEF Carries
    <3> QED
      BY <1>1, <1>3, <2>3, <3>1, <3>2 DEF Owned
  <2>5. FileRecord(g)
    BY <1>9
  <2>6. Owned(g)' => fileNumbersWriteOrder[g] # <<>>
    BY <2>4, <2>5 DEF FileRecord
  <2> QED
    BY <1>3, <1>4, <2>1, <2>2, <2>5, <2>6, FileRecordKept
<1>12. Recorded'
  BY <1>3, <1>6, <1>8, <1>9, RecordedKept
<1>13. \A q \in SetZeroProcs : fileNumber'[q] = FileNumber(q)'
  BY <1>4, <1>5, <1>8, <1>9
<1> QED
  BY <1>6, <1>8, <1>11, <1>12, <1>13 DEF DynamicRecord, Recorded

LEMMA DecideRecord ==
    ASSUME WriterIInv, MessageIInv, DynamicRecord, NEW r \in Ranks, Decide(r)
    PROVE  DynamicRecord' /\ pc'[Root'] \in Early
<1>1. PICK k \in Incoming(r, "decider") :
          /\ coordinatorProc' = [coordinatorProc EXCEPT ![r] = k.val]
          /\ msgs' = (msgs \ {k}) \cup
                        {Message("coordinator", r, q, k.val) : q \in SetZeroProcs}
  BY DEF Decide
<1>2. PICK c : c = k.val
  OBVIOUS
<1>3. /\ TypeOK /\ ModesKept /\ Elected /\ Addressed
      /\ conf' = conf /\ conf.mode = "dynamic" /\ r = conf.deciderProc /\ pc[r] = "start"
      /\ pc' = [pc EXCEPT ![r] = "signal"]
      /\ UNCHANGED <<files, fileNumber, fileNumbersWriteOrder>>
  BY DEF WriterIInv, MessageIInv, Decide, Goto, At, coordinating
<1>4. c \in SetZeroProcs
  <2>1. k \in msgs /\ k.tag = "decider"
    BY <1>1 DEF Incoming
  <2>2. k = Message("decider", k.src, conf.deciderProc, k.src) /\ k.src \in SetZeroProcs
    BY <1>3, <2>1 DEF Addressed, Sound
  <2>3. k.val = k.src
    BY <2>2 DEF Message
  <2> QED
    BY <1>2, <2>2, <2>3
<1>5. /\ ~Decided /\ r \notin SetZeroProcs /\ SetZeroProcs' = SetZeroProcs /\ SetZeroProcs \subseteq Ranks
      /\ \A q : FileNumber(q)' = FileNumber(q)
  BY <1>3, DeciderIsRank, SortsKept, PlacesKept DEF Decided
<1>6. /\ \A q \in SetZeroProcs : pc'[q] = pc[q] /\ pc[q] \in Early
      /\ Root' = c
  <2>1. \A q \in SetZeroProcs : pc'[q] = pc[q] /\ pc[q] \in Early
    BY <1>3, <1>5 DEF TypeOK, Elected
  <2>2. coordinatorProc'[r] = c
    BY <1>1, <1>2, <1>3 DEF TypeOK
  <2> QED
    BY <1>3, <2>1, <2>2 DEF Root
<1>7. ~Coordinating /\ ~Coordinating' /\ pc'[Root'] \in Early
  BY <1>4, <1>5, <1>6 DEF Coordinating, Early
<1>8. FirstRecord /\ \A q \in SetZeroProcs : fileNumber[q] = FileNumber(q)
  BY <1>3, <1>7, DynamicParts
<1>9. FirstRecord'
  <2>1. InTransit("done")' \subseteq InTransit("done")
    BY <1>1 DEF InTransit, Message
  <2>2. \A q \in SetZeroProcs : /\ Wrote(q)' => Wrote(q)
                                /\ At(q, "writing")' => At(q, "writing")
    BY <1>6 DEF Wrote, At
  <2> QED
    BY <1>3, <1>5, <1>8, <2>1, <2>2 DEF FirstRecord
<1> QED
  BY <1>3, <1>5, <1>7, <1>8, <1>9 DEF DynamicRecord

\* The list of the only member of a set.
LEMMA SingleList ==
    ASSUME NEW S \in SUBSET Nat, \A x, y \in S : x = y
    PROVE  IF S = {} THEN Ascending(S) = <<>> ELSE \A x \in S : Ascending(S) = <<x>>
<1>1. CASE S = {}
  <2>1. Cardinality(S) = 0
    BY <1>1, FS_EmptySet
  <2>2. Ascending(S) = <<>>
    BY <2>1 DEF Ascending
  <2> QED
    BY <1>1, <2>2
<1>2. ASSUME NEW x \in S PROVE Ascending(S) = <<x>>
  <2>1. S = {x}
    BY <1>2
  <2>2. IsFiniteSet(S) /\ Cardinality(S) = 1
    BY <2>1, FS_Singleton
  <2> DEFINE s == Ascending(S)
  <2>3. s \in Seq(S) /\ Len(s) = 1 /\ \A i \in DOMAIN s : s[i] \in S
    BY <2>2, AscendingLists
  <2> HIDE DEF s
  <2>4. DOMAIN s = 1 .. 1 /\ s[1] = x
    BY <2>1, <2>3
  <2> QED
    BY <2>3, <2>4 DEF s
<1> QED
  BY <1>1, <1>2

\* The record begins with the first rank of every file.
LEMMA BecomeCoordinatorRecord ==
    ASSUME WriterIInv, MessageIInv, DynamicRecord, NEW r \in Ranks, LearnCoordinator(r), r = Root,
           UNCHANGED minmax
    PROVE  RecordOnce' /\ DynamicRecord' /\ pc'[Root'] = "coordinate"
<1>1. PICK k \in Incoming(r, "coordinator") :
          /\ coordinatorProc' = [coordinatorProc EXCEPT ![r] = k.val]
          /\ IF k.val = r
             THEN msgs' = msgs \ {k} /\ BecomeCoordinator(r)
             ELSE /\ msgs' = (msgs \ {k}) \cup {Message("done", r, k.val, fileNumber[r])}
                  /\ Goto(r, "done")
                  /\ UNCHANGED coordinating
  BY DEF LearnCoordinator
<1>2. /\ TypeOK /\ ModesKept /\ Elected /\ Addressed /\ Gathered
      /\ conf' = conf /\ conf.mode = "dynamic" /\ pc[r] = "elect"
      /\ UNCHANGED <<files, fileNumber>>
      /\ Decided /\ k \in msgs /\ k.tag = "coordinator" /\ k.val = r
      /\ conf \in Configurations
  <2>1. /\ TypeOK /\ ModesKept /\ Elected /\ Addressed /\ Gathered
        /\ conf' = conf /\ pc[r] = "elect"
        /\ UNCHANGED <<files, fileNumber>>
    BY DEF WriterIInv, MessageIInv, LearnCoordinator, At
  <2>2. k \in msgs /\ k.tag = "coordinator"
    BY <1>1 DEF Incoming
  <2>3. Decided /\ k = Message("coordinator", conf.deciderProc, k.dst, Root)
    BY <2>1, <2>2 DEF Addressed, Sound
  <2>4. k.val = r
    BY <2>3 DEF Message
  <2> QED
    BY <2>1, <2>2, <2>3, <2>4 DEF Decided, TypeOK
<1>3. msgs' = msgs \ {k} /\ BecomeCoordinator(r)
  BY <1>1, <1>2
<1>4. /\ \A q \in Ranks \ {r} : pc'[q] = pc[q] /\ coordinatorProc'[q] = coordinatorProc[q]
      /\ pc'[r] = "coordinate" /\ coordinatorProc'[r] = r
      /\ availableFileNumbers' = {fileNumber[r]}
  BY <1>1, <1>2, <1>3 DEF TypeOK, BecomeCoordinator, Goto
<1>5. r \in SetZeroProcs /\ r # conf.deciderProc
  <2>1. r \in SetZeroProcs
    BY <1>2 DEF Elected
  <2> QED
    BY <1>2, <2>1, DeciderIsRank, SortsKept
<1>6. Moves(r)
  BY <1>2, <1>4, <1>5, MovesAlone
<1>7. /\ Root' = r /\ Coordinating' /\ ~Coordinating
      /\ SetZeroProcs' = SetZeroProcs /\ SetZeroProcs \subseteq Ranks
      /\ AvailableDeciders' = AvailableDeciders /\ AvailableDeciders \subseteq Ranks
      /\ \A q \in Ranks : q \in SetZeroProcs <=> q \notin AvailableDeciders
      /\ \A q : FileNumber(q)' = FileNumber(q)
      /\ \A q : WhichSetPosition(q)' = WhichSetPosition(q)
      /\ \A q \in Ranks : WhichSetPosition(q) = 0 <=> q \in SetZeroProcs
  BY <1>2, <1>4, <1>6, SortsKept, PlacesKept DEF Coordinating, Moves, Early
<1>8. /\ \A q \in SetZeroProcs : fileNumber[q] = FileNumber(q)
      /\ FirstRecord
  BY <1>2, <1>7, DynamicParts
<1>9. /\ InTransit("write") = {}
      /\ \A q \in AvailableDeciders : pc[q] \in {"start", "signal"}
      /\ \A q \in Ranks : pc[q] = "signal" => q \in AvailableDeciders
  BY <1>2, <1>7, BeforeCoordinator, DeciderIsRank DEF Elected, At
<1>10. ASSUME NEW f \in FileNumbers
       PROVE  /\ \A q \in SetZeroProcs : FileNumber(q) = f => fileNumbersWriteOrder'[f] = <<q>>
              /\ (\A q \in SetZeroProcs : FileNumber(q) # f) => fileNumbersWriteOrder'[f] = <<>>
  <2> DEFINE S == {q \in SetZeroProcs : FileNumber(q) = f}
  <2>1. fileNumbersWriteOrder'[f] = Ascending(S)
    BY <1>3 DEF BecomeCoordinator
  <2>2. \A x, y \in S : x = y
    <3> SUFFICES ASSUME NEW x \in S, NEW y \in S PROVE x = y
      OBVIOUS
    <3>1. /\ x \in Ranks /\ y \in Ranks /\ FileNumber(x) = FileNumber(y)
          /\ WhichSetPosition(x) = WhichSetPosition(y)
      BY DEF SetZeroProcs
    <3> QED
      BY <1>2, <3>1, PlaceUnique
  <2>3. S \in SUBSET Nat
    BY <1>7, RankNumbers
  <2>4. PICK T : T = S
    OBVIOUS
  <2>5. IF T = {} THEN Ascending(T) = <<>> ELSE \A x \in T : Ascending(T) = <<x>>
    BY <2>2, <2>3, <2>4, SingleList
  <2>6. fileNumbersWriteOrder'[f] = Ascending(T)
    BY <2>1, <2>4
  <2>7. /\ \A q \in SetZeroProcs : FileNumber(q) = f => q \in T
        /\ (\A q \in SetZeroProcs : FileNumber(q) # f) => T = {}
    BY <2>4
  <2> QED
    BY <2>5, <2>6, <2>7
<1>11. ASSUME NEW f \in FileNumbers
       PROVE  \/ fileNumbersWriteOrder'[f] = <<>>
              \/ \E q \in SetZeroProcs : FileNumber(q) = f /\ fileNumbersWriteOrder'[f] = <<q>>
  BY <1>10
<1>12. RecordOnce'
  <2>1. ASSUME NEW f \in FileNumbers PROVE fileNumbersWriteOrder'[f] \in Seq(Ranks)
    <3>1. CASE fileNumbersWriteOrder'[f] = <<>>
      BY <3>1
    <3>2. CASE fileNumbersWriteOrder'[f] # <<>>
      <4>1. PICK q \in SetZeroProcs : fileNumbersWriteOrder'[f] = <<q>>
        BY <1>11, <3>2
      <4>2. q \in Ranks
        BY <1>7
      <4> QED
        BY <4>1, <4>2
    <3> QED
      BY <3>1, <3>2
  <2>2. fileNumbersWriteOrder' \in [FileNumbers -> Seq(Ranks)]
    BY <1>3, <2>1 DEF BecomeCoordinator
  <2>3. ASSUME NEW f \in FileNumbers, NEW i \in DOMAIN fileNumbersWriteOrder'[f]
        PROVE  i = 1 /\ FileNumber(fileNumbersWriteOrder'[f][i]) = f
    <3>1. PICK q \in SetZeroProcs : FileNumber(q) = f /\ fileNumbersWriteOrder'[f] = <<q>>
      BY <1>11
    <3> QED
      BY <3>1
  <2> QED
    BY <2>2, <2>3 DEF RecordOnce
<1>13. \A q \in Ranks : Listed(q)' <=> q \in SetZeroProcs
  <2> TAKE q \in Ranks
  <2>1. ASSUME Listed(q)' PROVE q \in SetZeroProcs
    <3>1. PICK f \in FileNumbers : q \in Range(fileNumbersWriteOrder'[f])
      BY <2>1 DEF Listed
    <3>2. PICK p \in SetZeroProcs : fileNumbersWriteOrder'[f] = <<p>>
      BY <1>11, <3>1 DEF Range
    <3> QED
      BY <3>1, <3>2 DEF Range
  <2>2. ASSUME q \in SetZeroProcs PROVE Listed(q)'
    <3>1. FileNumber(q) \in FileNumbers
      BY <1>2, Place
    <3>2. PICK f \in FileNumbers : fileNumbersWriteOrder'[f] = <<q>>
      BY <1>10, <2>2, <3>1
    <3>3. q \in Range(fileNumbersWriteOrder'[f])
      BY <3>2 DEF Range
    <3> QED
      BY <3>3 DEF Listed
  <2> QED
    BY <2>1, <2>2
<1>14. Waiting' = AvailableDeciders
  <2> DEFINE S(f) == {q \in AvailableDeciders : FileNumber(q) = f}
  <2>1. \A f \in FileNumbers : procsToWrite'[f] = Ascending(S(f))
    BY <1>3 DEF BecomeCoordinator
  <2>2. ASSUME NEW f \in FileNumbers PROVE Range(procsToWrite'[f]) = S(f)
    <3>1. PICK T : T = S(f)
      OBVIOUS
    <3>2. T \in SUBSET Nat /\ IsFiniteSet(T)
      <4>1. T \subseteq Ranks /\ IsFiniteSet(Ranks)
        BY <1>2, <1>7, <3>1, SortsKept
      <4> QED
        BY <4>1, RankNumbers, FS_Subset
    <3> DEFINE s == Ascending(T)
    <3>3. /\ \A x \in T : \E i \in DOMAIN s : s[i] = x
          /\ \A i \in DOMAIN s : s[i] \in T
      BY <3>2, AscendingLists
    <3> HIDE DEF s
    <3>4. Range(s) = T
      BY <3>3 DEF Range
    <3> QED
      BY <2>1, <3>1, <3>4 DEF s
  <2>3. \A q \in AvailableDeciders : FileNumber(q) \in FileNumbers
    BY <1>2, <1>7, Place
  <2> QED
    BY <2>2, <2>3 DEF Waiting
<1>15. Recorded'
  BY <1>4, <1>7, <1>13, <1>14 DEF Recorded
<1>16. ASSUME NEW f \in FileNumbers PROVE FileRecord(f)'
  <2>1. \A q \in Ranks : First(q)' <=> First(q)
    BY <1>2, <1>4, <1>7 DEF First, At
  <2>2. InTransit("write")' = {}
    BY <1>3, <1>9 DEF InTransit
  <2>3. \A q \in Ranks : First(q) => q \in SetZeroProcs
    BY <1>7 DEF First
  <2>4. \A q \in Ranks : pc'[q] = "writing" => q \in SetZeroProcs /\ pc[q] = "writing" /\ q # r
    BY <1>4, <1>7, <1>9
  <2>5. \A q \in Ranks : HasToWrite(q, f)' =>
            /\ q \in SetZeroProcs /\ FileNumber(q) = f
            /\ ~First(q) => pc[q] = "writing"
    BY <1>2, <1>7, <1>8, <2>1, <2>2, <2>3, <2>4 DEF HasToWrite, At
  <2>6. ASSUME NEW q \in Ranks, HasToWrite(q, f)'
        PROVE  fileNumbersWriteOrder'[f] = IF First(q)' THEN <<q>> ELSE Append(files'[f], q)
    <3>1. fileNumbersWriteOrder'[f] = <<q>>
      BY <1>10, <2>5, <2>6
    <3>2. ~First(q) => files[f] = <<>>
      BY <1>8, <2>5, <2>6 DEF FirstRecord, At
    <3>3. CASE First(q)
      BY <2>1, <3>1, <3>3
    <3>4. CASE ~First(q)
      <4>1. files'[f] = <<>> /\ Append(<<>>, q) = <<q>>
        BY <1>2, <3>2, <3>4
      <4> QED
        BY <2>1, <3>1, <3>4, <4>1
    <3> QED
      BY <3>3, <3>4
  <2>7. \/ fileNumbersWriteOrder'[f] \in {<<>>, files'[f]}
        \/ \E q \in Ranks : HasToWrite(q, f)'
    <3>1. CASE fileNumbersWriteOrder'[f] = <<>>
      BY <3>1
    <3>2. CASE \E q \in SetZeroProcs : FileNumber(q) = f /\ fileNumbersWriteOrder'[f] = <<q>>
      <4>1. PICK q \in SetZeroProcs : FileNumber(q) = f /\ fileNumbersWriteOrder'[f] = <<q>>
        BY <3>2
      <4>2. q \in Ranks /\ pc[q] # "signal" /\ WhichSetPosition(q) = 0
        BY <1>7, <1>9
      <4>3. CASE pc[q] = "start"
        BY <1>2, <1>4, <1>7, <4>1, <4>2, <4>3 DEF HasToWrite, First, At
      <4>4. CASE pc[q] = "writing"
        <5>1. pc'[q] = "writing" /\ fileNumber'[q] = f
          BY <1>2, <1>4, <1>8, <4>1, <4>2, <4>4
        <5> QED
          BY <4>2, <5>1 DEF HasToWrite, At
      <4>5. CASE pc[q] \notin {"start", "writing"}
        <5>1. files[f] = <<q>>
          BY <1>8, <4>1, <4>2, <4>5 DEF FirstRecord, Wrote
        <5> QED
          BY <1>2, <4>1, <5>1
      <4> QED
        BY <4>3, <4>4, <4>5
    <3> QED
      BY <1>11, <3>1, <3>2
  <2>8. ASSUME Owned(f)' PROVE \E q \in SetZeroProcs : FileNumber(q) = f
    <3>1. CASE f \in availableFileNumbers'
      BY <1>4, <1>5, <1>8, <3>1
    <3>2. CASE \E q \in Ranks : Has(q, f)'
      <4>1. PICK q \in Ranks : Has(q, f)'
        BY <3>2
      <4>2. q \in SetZeroProcs
        BY <1>4, <1>7, <1>9, <4>1 DEF Has, At
      <4> QED
        BY <1>2, <1>8, <4>1, <4>2 DEF Has
    <3>3. CASE \E m \in msgs' : Carries(m, f)'
      <4>1. PICK m \in msgs' : Carries(m, f)'
        BY <3>3
      <4>2. m \in msgs /\ Carries(m, f)
        BY <1>2, <1>3, <4>1, CarriesKept
      <4>3. m.tag # "stWrite"
        BY <1>2, <4>2 DEF MessageIInv, InTurn, InTransit, HandsOn
      <4>4. m.tag = "done" /\ m.val = f
        BY <1>9, <4>2, <4>3 DEF Carries, InTransit
      <4> QED
        BY <1>8, <4>2, <4>4 DEF FirstRecord, InTransit
    <3> QED
      BY <2>8, <3>1, <3>2, <3>3 DEF Owned
  <2>9. Owned(f)' => fileNumbersWriteOrder'[f] # <<>>
    BY <1>10, <2>8
  <2> QED
    BY <2>6, <2>7, <2>9 DEF FileRecord
<1>17. \A q \in SetZeroProcs : fileNumber'[q] = FileNumber(q)'
  BY <1>2, <1>7, <1>8
<1> QED
  BY <1>4, <1>7, <1>12, <1>15, <1>16, <1>17 DEF DynamicRecord, Recorded

\* The rank that is sent to a free file is recorded behind what the file holds.
LEMMA SignalRecord ==
    ASSUME WriterIInv, MessageIInv, RecordOnce, DynamicRecord, NEW r \in Ranks, Signal(r),
           UNCHANGED minmax
    PROVE  RecordOnce' /\ DynamicRecord' /\ pc'[Root'] = "await"
<1>1. PICK g \in availableFileNumbers, q \in FileNumbers, next \in AvailableDeciders :
              /\ g \in FileNumbers /\ procsToWrite[q] # <<>> /\ next = Head(procsToWrite[q])
              /\ pc' = [pc EXCEPT ![r] = "await"]
              /\ procsToWrite' = [procsToWrite EXCEPT ![q] = Tail(@)]
              /\ fileNumbersWriteOrder' = [fileNumbersWriteOrder EXCEPT ![g] = Append(@, next)]
              /\ availableFileNumbers' = availableFileNumbers \ {g}
              /\ msgs' = msgs \cup {Message("write", r, next, g)}
  BY SignalGives
<1>2. PICK k : k = Message("write", r, next, g)
  OBVIOUS
<1>3. /\ TypeOK /\ ModesKept /\ OneCoordinator /\ OneOwner /\ Queues /\ Elected /\ Addressed
      /\ conf' = conf /\ pc[r] = "coordinate"
      /\ UNCHANGED <<files, fileNumber, coordinatorProc>>
      /\ k.tag = "write" /\ k.dst = next /\ k.val = g /\ msgs' = msgs \cup {k}
  BY <1>1, <1>2 DEF WriterIInv, MessageIInv, Signal, At, Message
<1>4. Decided /\ r = Root /\ conf.mode = "dynamic" /\ r \in SetZeroProcs /\ r # conf.deciderProc
  <2>1. Decided /\ r = Root /\ conf.mode = "dynamic"
    BY <1>3, CoordinatorIsRoot DEF Decided
  <2>2. r \in SetZeroProcs
    BY <1>3, <2>1 DEF Elected
  <2> QED
    BY <1>3, <2>1, <2>2, DeciderIsRank, SortsKept
<1>5. /\ procsToWrite \in [FileNumbers -> Seq(AvailableDeciders)]
      /\ \A f, h \in FileNumbers :
            \A i \in DOMAIN procsToWrite[f], j \in DOMAIN procsToWrite[h] :
                procsToWrite[f][i] = procsToWrite[h][j] => f = h /\ i = j
      /\ \A x \in Waiting : \A m \in InTransit("write") : m.dst # x
  BY <1>3, <1>4 DEF Queues
<1>6. next \in Waiting /\ Waiting' = Waiting \ {next}
  BY <1>1, <1>5, WaitingLess
<1>7. /\ \A x \in Ranks \ {r} : pc'[x] = pc[x]
      /\ pc'[r] = "await"
      /\ fileNumbersWriteOrder \in [FileNumbers -> Seq(Ranks)]
      /\ fileNumbersWriteOrder'[g] = Append(fileNumbersWriteOrder[g], next)
      /\ \A f \in FileNumbers \ {g} : fileNumbersWriteOrder'[f] = fileNumbersWriteOrder[f]
  BY <1>1, <1>3 DEF TypeOK, RecordOnce
<1>8. Moves(r)
  BY <1>3, <1>4, <1>7, MovesAlone
<1>9. /\ Coordinating /\ Coordinating' /\ Root' = r
      /\ SetZeroProcs' = SetZeroProcs /\ SetZeroProcs \subseteq Ranks
      /\ AvailableDeciders \subseteq Ranks
      /\ \A x : FileNumber(x)' = FileNumber(x)
      /\ \A x : WhichSetPosition(x)' = WhichSetPosition(x)
  BY <1>3, <1>4, <1>7, <1>8, PlacesKept, SortsKept DEF Coordinating, Early, Moves
<1>10. /\ \A x \in SetZeroProcs : fileNumber[x] = FileNumber(x)
       /\ Recorded /\ \A f \in FileNumbers : FileRecord(f)
  BY <1>4, <1>9, DynamicParts
<1>11. next \in AvailableDeciders /\ next \in Ranks /\ next # r /\ ~Listed(next) /\ ~First(next)
  <2>1. next \in AvailableDeciders
    BY <1>5, <1>6 DEF Waiting, Range
  <2>2. next \in Ranks /\ next # r /\ WhichSetPosition(next) # 0
    BY <1>3, <1>4, <2>1, SortsKept
  <2> QED
    BY <1>3, <1>4, <1>6, <1>10, <2>1, <2>2 DEF Recorded, First
<1>12. /\ Len(fileNumbersWriteOrder[g]) \in Nat
       /\ DOMAIN fileNumbersWriteOrder[g] = 1 .. Len(fileNumbersWriteOrder[g])
       /\ DOMAIN fileNumbersWriteOrder'[g] = 1 .. Len(fileNumbersWriteOrder[g]) + 1
       /\ fileNumbersWriteOrder'[g][Len(fileNumbersWriteOrder[g]) + 1] = next
       /\ \A i \in DOMAIN fileNumbersWriteOrder[g] :
             fileNumbersWriteOrder'[g][i] = fileNumbersWriteOrder[g][i]
       /\ fileNumbersWriteOrder'[g] \in Seq(Ranks)
  <2> DEFINE s == fileNumbersWriteOrder[g]
  <2>1. s \in Seq(Ranks)
    BY <1>1, <1>7
  <2> HIDE DEF s
  <2>2. /\ Len(s) \in Nat /\ DOMAIN s = 1 .. Len(s)
        /\ DOMAIN Append(s, next) = 1 .. Len(s) + 1
        /\ Append(s, next)[Len(s) + 1] = next
        /\ \A i \in DOMAIN s : Append(s, next)[i] = s[i]
        /\ Append(s, next) \in Seq(Ranks)
    BY <1>11, <2>1
  <2> QED
    BY <1>7, <2>2 DEF s
<1>13. ASSUME NEW f \in FileNumbers, NEW i \in DOMAIN fileNumbersWriteOrder'[f]
       PROVE  \/ f = g /\ i = Len(fileNumbersWriteOrder[g]) + 1 /\ fileNumbersWriteOrder'[f][i] = next
              \/ /\ i \in DOMAIN fileNumbersWriteOrder[f]
                 /\ fileNumbersWriteOrder'[f][i] = fileNumbersWriteOrder[f][i]
                 /\ fileNumbersWriteOrder'[f][i] # next
  <2>1. ASSUME i \in DOMAIN fileNumbersWriteOrder[f],
               fileNumbersWriteOrder'[f][i] = fileNumbersWriteOrder[f][i]
        PROVE  fileNumbersWriteOrder'[f][i] # next
    BY <1>11, <2>1 DEF Listed, Range
  <2>2. CASE f = g
    <3>1. i = Len(fileNumbersWriteOrder[g]) + 1 \/ i \in DOMAIN fileNumbersWriteOrder[f]
      BY <1>12, <2>2
    <3> QED
      BY <1>12, <2>1, <2>2, <3>1
  <2>3. CASE f # g
    BY <1>7, <2>1, <2>3
  <2> QED
    BY <2>2, <2>3
<1>14. RecordOnce'
  <2>1. fileNumbersWriteOrder' \in [FileNumbers -> Seq(Ranks)]
    BY <1>1, <1>7, <1>12
  <2>2. ASSUME NEW f \in FileNumbers, NEW h \in FileNumbers,
               NEW i \in DOMAIN fileNumbersWriteOrder'[f], NEW j \in DOMAIN fileNumbersWriteOrder'[h],
               fileNumbersWriteOrder'[f][i] = fileNumbersWriteOrder'[h][j]
        PROVE  f = h /\ i = j
    <3>1. CASE fileNumbersWriteOrder'[f][i] = next
      <4>1. f = g /\ i = Len(fileNumbersWriteOrder[g]) + 1
        BY <1>13, <3>1
      <4>2. fileNumbersWriteOrder'[h][j] = next
        BY <2>2, <3>1
      <4>3. h = g /\ j = Len(fileNumbersWriteOrder[g]) + 1
        BY <1>13, <4>2
      <4> QED
        BY <4>1, <4>3
    <3>2. CASE fileNumbersWriteOrder'[f][i] # next
      <4>1. /\ i \in DOMAIN fileNumbersWriteOrder[f] /\ j \in DOMAIN fileNumbersWriteOrder[h]
            /\ fileNumbersWriteOrder[f][i] = fileNumbersWriteOrder[h][j]
        BY <1>13, <2>2, <3>2
      <4> QED
        BY <4>1 DEF RecordOnce
    <3> QED
      BY <3>1, <3>2
  <2> QED
    BY <2>1, <2>2 DEF RecordOnce
<1>15. Recorded'
  <2>1. ASSUME NEW x \in Ranks PROVE Listed(x)' <=> (Listed(x) \/ x = next)
    <3>1. ASSUME Listed(x)' PROVE Listed(x) \/ x = next
      <4>1. PICK f \in FileNumbers : x \in Range(fileNumbersWriteOrder'[f])
        BY <3>1 DEF Listed
      <4>2. PICK i \in DOMAIN fileNumbersWriteOrder'[f] : x = fileNumbersWriteOrder'[f][i]
        BY <4>1 DEF Range
      <4> QED
        BY <1>13, <4>2 DEF Listed, Range
    <3>2. Listed(next)'
      <4>1. next \in Range(fileNumbersWriteOrder'[g])
        BY <1>12 DEF Range
      <4> QED
        BY <1>1, <4>1 DEF Listed
    <3>3. ASSUME Listed(x) PROVE Listed(x)'
      <4>0. PICK f \in FileNumbers : x \in Range(fileNumbersWriteOrder[f])
        BY <3>3 DEF Listed
      <4>1. PICK i \in DOMAIN fileNumbersWriteOrder[f] : x = fileNumbersWriteOrder[f][i]
        BY <4>0 DEF Range
      <4>2. i \in DOMAIN fileNumbersWriteOrder'[f] /\ x = fileNumbersWriteOrder'[f][i]
        <5>1. CASE f = g
          BY <1>12, <4>1, <5>1
        <5>2. CASE f # g
          BY <1>7, <4>1, <5>2
        <5> QED
          BY <5>1, <5>2
      <4>3. x \in Range(fileNumbersWriteOrder'[f])
        BY <4>2 DEF Range
      <4> QED
        BY <4>3 DEF Listed
    <3> QED
      BY <3>1, <3>2, <3>3
  <2>2. \A x \in Ranks : Listed(x) <=> x \notin Waiting
    BY <1>3, <1>4, <1>10 DEF Recorded
  <2> QED
    BY <1>6, <1>7, <1>9, <2>1, <2>2 DEF Recorded
<1>16. InTransit("write")' = InTransit("write") \cup {k} /\ k \in msgs'
  BY <1>3 DEF InTransit
<1>17. \A x \in Ranks : First(x)' <=> First(x)
  BY <1>3, <1>7, <1>9 DEF First, At
<1>18. ASSUME NEW f \in FileNumbers, NEW x \in Ranks
       PROVE  HasToWrite(x, f)' <=> HasToWrite(x, f) \/ (x = next /\ f = g)
  <2>1. (\E m \in InTransit("write")' : m.dst = x /\ m.val = f)
           <=> (\E m \in InTransit("write") : m.dst = x /\ m.val = f) \/ (x = next /\ f = g)
    BY <1>3, <1>16
  <2>2. At(x, "writing")' <=> At(x, "writing")
    BY <1>3, <1>7 DEF At
  <2> QED
    BY <1>3, <1>9, <1>17, <2>1, <2>2 DEF HasToWrite
<1>19. ASSUME NEW f \in FileNumbers PROVE FileRecord(f)'
  <2>1. FileRecord(f)
    BY <1>10
  <2>2. \A x \in Ranks : Has(x, f)' => Has(x, f)
    BY <1>3, <1>7, <1>9 DEF Has, At
  <2>3. \A m : Carries(m, f)' <=> Carries(m, f)
    BY <1>3, CarriesKept
  <2>4. CASE f # g
    <3>1. Owned(f)' => Owned(f)
      <4>1. ~Carries(k, f)
        BY <1>3, <2>4 DEF Carries
      <4> QED
        BY <1>1, <1>3, <2>2, <2>3, <4>1 DEF Owned
    <3>2. Owned(f)' => fileNumbersWriteOrder[f] # <<>>
      BY <2>1, <3>1 DEF FileRecord
    <3>3. \A x \in Ranks : HasToWrite(x, f)' <=> HasToWrite(x, f)
      BY <1>18, <2>4
    <3>4. fileNumbersWriteOrder'[f] = fileNumbersWriteOrder[f] /\ files'[f] = files[f]
      BY <1>3, <1>7, <2>4
    <3> QED
      BY <1>3, <1>17, <2>1, <3>2, <3>3, <3>4, FileRecordKept
  <2>5. CASE f = g
    <3>1. \A x \in Ranks : ~HasToWrite(x, f)
      BY <1>1, <1>3, <1>4, <2>5, OneToWrite
    <3>2. fileNumbersWriteOrder[f] = files[f]
      <4>1. Owned(f)
        BY <1>1, <2>5 DEF Owned
      <4> QED
        BY <2>1, <3>1, <4>1 DEF FileRecord
    <3>3. fileNumbersWriteOrder'[f] = Append(files'[f], next)
      BY <1>3, <1>7, <2>5, <3>2
    <3>4. \A x \in Ranks : HasToWrite(x, f)' <=> x = next
      BY <1>18, <2>5, <3>1
    <3>5. fileNumbersWriteOrder'[f] # <<>>
      <4>1. DOMAIN fileNumbersWriteOrder'[f] # {}
        BY <1>12, <2>5
      <4> QED
        BY <4>1
    <3>6. \A x \in Ranks : HasToWrite(x, f)' =>
             fileNumbersWriteOrder'[f] = IF First(x)' THEN <<x>> ELSE Append(files'[f], x)
      BY <1>11, <1>17, <3>3, <3>4
    <3>7. \E x \in Ranks : HasToWrite(x, f)'
      BY <1>11, <3>4
    <3> QED
      BY <3>5, <3>6, <3>7 DEF FileRecord
  <2> QED
    BY <2>4, <2>5
<1>20. \A x \in SetZeroProcs : fileNumber'[x] = FileNumber(x)'
  BY <1>3, <1>9, <1>10
<1> QED
  BY <1>7, <1>9, <1>14, <1>15, <1>19, <1>20 DEF DynamicRecord, Recorded

\* A step of a rank in the loop does not let the root leave.
LEMMA InLoop ==
    ASSUME HeaderFromRecord, TypeOK, NEW r \in Ranks, Moves(r), pc'[r] \notin {"cleanup", "gone"},
           UNCHANGED <<fileNumbersWriteOrder, header>>
    PROVE  HeaderFromRecord'
<1>1. Root' = Root /\ conf' = conf /\ Root \in Ranks /\ \A q \in Ranks \ {r} : pc'[q] = pc[q]
  BY RootIsRank DEF Moves
<1> QED
  BY <1>1, HeaderKept

LEMMA TellDeciderRecord ==
    ASSUME WriterIInv, MessageIInv, DynamicRecord, NEW r \in Ranks, TellDecider(r), UNCHANGED minmax
    PROVE  DynamicRecord' /\ Moves(r)
<1>1. PICK k : k = Message("decider", r, conf.deciderProc, r)
  OBVIOUS
<1>2. /\ TypeOK /\ ModesKept /\ conf' = conf /\ conf.mode = "dynamic" /\ pc[r] = "written"
      /\ k.tag = "decider" /\ msgs' = msgs \cup {k} /\ pc' = [pc EXCEPT ![r] = "elect"]
      /\ UNCHANGED <<files, fileNumber, coordinatorProc, fileNumbersWriteOrder, procsToWrite,
                     availableFileNumbers>>
  BY <1>1 DEF WriterIInv, TellDecider, At, Goto, coordinating, Message
<1>3. pc'[r] = "elect" /\ \A q \in Ranks \ {r} : pc'[q] = pc[q]
  BY <1>2 DEF TypeOK
<1>4. Moves(r)
  BY <1>2, <1>3, MovesAlone
<1>5. Root \in Ranks /\ Root' = Root
  BY <1>2, <1>4, RootIsRank DEF Moves
<1>6. /\ pc'[Root] \in Early <=> pc[Root] \in Early
      /\ pc'[Root] \in {"coordinate", "await"} <=> pc[Root] \in {"coordinate", "await"}
  BY <1>2, <1>3, <1>5 DEF Early
<1>7. Recorded => Recorded'
  BY <1>2, <1>5, <1>6, RecordedKept
<1>8. InTransit("write")' = InTransit("write")
  BY <1>2 DEF InTransit
<1> QED
  BY <1>2, <1>3, <1>4, <1>6, <1>7, <1>8, QuietRecord

\* A rank of set zero, not the coordinator, gives its file to the coordinator.
LEMMA LearnCoordinatorRecord ==
    ASSUME WriterIInv, MessageIInv, DynamicRecord, NEW r \in Ranks, LearnCoordinator(r), r # Root,
           UNCHANGED minmax
    PROVE  DynamicRecord' /\ Moves(r) /\ UNCHANGED fileNumbersWriteOrder /\ pc'[r] = "done"
<1>1. PICK m \in Incoming(r, "coordinator") :
          /\ coordinatorProc' = [coordinatorProc EXCEPT ![r] = m.val]
          /\ IF m.val = r
             THEN msgs' = msgs \ {m} /\ BecomeCoordinator(r)
             ELSE /\ msgs' = (msgs \ {m}) \cup {Message("done", r, m.val, fileNumber[r])}
                  /\ Goto(r, "done")
                  /\ UNCHANGED coordinating
  BY DEF LearnCoordinator
<1>2. /\ TypeOK /\ ModesKept /\ Addressed /\ conf' = conf /\ pc[r] = "elect"
      /\ conf.mode = "dynamic" /\ r \in SetZeroProcs
      /\ UNCHANGED <<files, fileNumber>>
  BY Sorts DEF WriterIInv, MessageIInv, LearnCoordinator, At, ModesKept, TypeOK
<1>3. m \in msgs /\ m.tag = "coordinator" /\ m.val = Root
  <2>1. m \in msgs /\ m.tag = "coordinator"
    BY <1>1 DEF Incoming
  <2>2. m = Message("coordinator", conf.deciderProc, m.dst, Root)
    BY <1>2, <2>1 DEF Addressed, Sound
  <2> QED
    BY <2>1, <2>2 DEF Message
<1>4. PICK k : k = Message("done", r, m.val, fileNumber[r])
  OBVIOUS
<1>5. /\ k.tag = "done" /\ k.val = fileNumber[r] /\ msgs' = (msgs \ {m}) \cup {k}
      /\ pc' = [pc EXCEPT ![r] = "done"]
      /\ UNCHANGED <<fileNumbersWriteOrder, procsToWrite, availableFileNumbers>>
  BY <1>1, <1>3, <1>4 DEF Goto, coordinating, Message
<1>6. pc'[r] = "done" /\ \A q \in Ranks \ {r} : pc'[q] = pc[q] /\ coordinatorProc'[q] = coordinatorProc[q]
  BY <1>1, <1>2, <1>5 DEF TypeOK
<1>7. Moves(r)
  <2>1. r # conf.deciderProc
    BY <1>2, DeciderIsRank, SortsKept
  <2> QED
    BY <1>2, <1>6, <2>1, MovesAlone
<1>8. Root \in Ranks /\ Root' = Root /\ pc'[Root] = pc[Root]
  BY <1>2, <1>6, <1>7, RootIsRank DEF Moves
<1>9. Recorded => Recorded'
  BY <1>5, <1>8, RecordedKept
<1>10. InTransit("write")' = InTransit("write")
  BY <1>3, <1>5 DEF InTransit
<1>11. \A j \in msgs' : j \in msgs \/ (j.tag = "done" /\ Has(r, j.val))
  BY <1>2, <1>5 DEF Has
<1> QED
  BY <1>2, <1>5, <1>6, <1>7, <1>8, <1>9, <1>10, <1>11, QuietRecord

LEMMA DynamicNextRecord ==
    ASSUME WriterIInv, MessageIInv, DynamicRecord, NEW r \in Ranks, DynamicNext(r), UNCHANGED minmax
    PROVE  DynamicRecord' /\ Moves(r)
<1>1. PICK k : k = Message("done", r, coordinatorProc[r], fileNumber[r])
  OBVIOUS
<1>2. /\ TypeOK /\ ModesKept /\ Elected /\ conf' = conf /\ conf.mode = "dynamic" /\ pc[r] = "written"
      /\ WhichSetPosition(r) > 0
      /\ k.tag = "done" /\ k.val = fileNumber[r] /\ msgs' = msgs \cup {k}
      /\ pc' = [pc EXCEPT ![r] = "done"]
      /\ UNCHANGED <<files, fileNumber, coordinatorProc, fileNumbersWriteOrder, procsToWrite,
                     availableFileNumbers>>
  BY <1>1 DEF WriterIInv, MessageIInv, DynamicNext, At, Goto, coordinating, Message
<1>3. pc'[r] = "done" /\ \A q \in Ranks \ {r} : pc'[q] = pc[q]
  BY <1>2 DEF TypeOK
<1>4. Moves(r)
  BY <1>2, <1>3, MovesAlone
<1>5. Root \in Ranks /\ Root' = Root /\ r # Root
  <2>1. r \in AvailableDeciders /\ r \notin SetZeroProcs
    BY <1>2, SortsKept
  <2>2. Root \in SetZeroProcs
    BY <1>2, <2>1 DEF Elected, At
  <2> QED
    BY <1>2, <1>4, <2>1, <2>2, RootIsRank DEF Moves
<1>6. pc'[Root] = pc[Root]
  BY <1>3, <1>5
<1>7. Recorded => Recorded'
  BY <1>2, <1>5, <1>6, RecordedKept
<1>8. InTransit("write")' = InTransit("write")
  BY <1>2 DEF InTransit
<1>9. \A j \in msgs' : j \in msgs \/ (j.tag = "done" /\ Has(r, j.val))
  BY <1>2 DEF Has
<1> QED
  BY <1>2, <1>3, <1>4, <1>6, <1>7, <1>8, <1>9, QuietRecord

\* The coordinator gets a file back that a message carried.
LEMMA AwaitDoneRecord ==
    ASSUME WriterIInv, MessageIInv, DynamicRecord, NEW r \in Ranks, AwaitDone(r), UNCHANGED minmax
    PROVE  DynamicRecord' /\ Moves(r)
<1>1. PICK k \in Incoming(r, "done") :
          /\ msgs' = msgs \ {k}
          /\ availableFileNumbers' = availableFileNumbers \cup {k.val}
  BY DEF AwaitDone
<1>2. /\ TypeOK /\ ModesKept /\ OneCoordinator /\ conf' = conf /\ pc[r] = "await"
      /\ pc' = [pc EXCEPT ![r] = "coordinate"]
      /\ k \in msgs /\ k.tag = "done"
      /\ UNCHANGED <<files, fileNumber, coordinatorProc, fileNumbersWriteOrder, procsToWrite>>
  BY <1>1 DEF WriterIInv, AwaitDone, At, Goto, Incoming
<1>3. Decided /\ r = Root /\ conf.mode = "dynamic"
  BY <1>2, CoordinatorIsRoot DEF Decided
<1>4. pc'[r] = "coordinate" /\ \A q \in Ranks \ {r} : pc'[q] = pc[q]
  BY <1>2 DEF TypeOK
<1>5. Moves(r)
  BY <1>2, <1>4, MovesAlone
<1>6. Root' = Root
  BY <1>5 DEF Moves
<1>7. Recorded => Recorded'
  BY <1>2, <1>3, <1>4, <1>6, RecordedKept
<1>8. InTransit("write")' = InTransit("write")
  BY <1>1, <1>2 DEF InTransit
<1>9. \A f \in availableFileNumbers' :
          f \in availableFileNumbers \/ \E m \in msgs : Carries(m, f)
  BY <1>1, <1>2 DEF Carries
<1>10. pc'[Root] \in Early <=> pc[Root] \in Early
  BY <1>2, <1>3, <1>4 DEF Early
<1>11. \A m \in msgs' : m \in msgs
  BY <1>1
<1> QED
  BY <1>2, <1>3, <1>4, <1>5, <1>7, <1>8, <1>9, <1>10, <1>11, QuietRecord

\* When the coordinator is done, nobody waits, and all ranks are recorded.
LEMMA CoordinatedRecord ==
    ASSUME WriterIInv, MessageIInv, DynamicRecord, NEW r \in Ranks, Coordinated(r), UNCHANGED minmax
    PROVE  DynamicRecord' /\ Moves(r)
<1>1. /\ TypeOK /\ ModesKept /\ OneCoordinator /\ Queues /\ conf' = conf
      /\ pc[r] = "coordinate" /\ remainingWriters = 0
      /\ pc' = [pc EXCEPT ![r] = "done"]
      /\ UNCHANGED <<msgs, files, fileNumber, coordinatorProc, fileNumbersWriteOrder, procsToWrite,
                     availableFileNumbers>>
  BY DEF WriterIInv, MessageIInv, Coordinated, At, Goto, coordinating
<1>2. Decided /\ r = Root /\ conf.mode = "dynamic"
  BY <1>1, CoordinatorIsRoot DEF Decided
<1>3. pc'[r] = "done" /\ \A q \in Ranks \ {r} : pc'[q] = pc[q]
  BY <1>1 DEF TypeOK
<1>4. Moves(r)
  BY <1>1, <1>3, MovesAlone
<1>5. Root' = Root
  BY <1>4 DEF Moves
<1>6. Waiting = {}
  <2>1. /\ procsToWrite \in [FileNumbers -> Seq(AvailableDeciders)]
        /\ remainingWriters = Cardinality(Waiting) + 0
    BY <1>1, <1>2 DEF Queues, At
  <2>2. Waiting \subseteq Ranks /\ IsFiniteSet(Ranks)
    <3>1. AvailableDeciders \subseteq Ranks /\ IsFiniteSet(Ranks)
      BY <1>1, SortsKept
    <3> QED
      BY <2>1, <3>1 DEF Waiting, Range
  <2>3. IsFiniteSet(Waiting)
    BY <2>2, FS_Subset
  <2>4. Cardinality(Waiting) = 0
    BY <1>1, <2>1, <2>3, FS_CardinalityType
  <2> QED
    BY <2>3, <2>4, FS_EmptySet
<1>7. Recorded => Recorded'
  <2>1. \A q : Listed(q)' <=> Listed(q)
    BY <1>1 DEF Listed
  <2> QED
    BY <1>2, <1>3, <1>5, <1>6, <2>1 DEF Recorded
<1>8. InTransit("write")' = InTransit("write")
  BY <1>1 DEF InTransit
<1>9. pc'[Root] \in Early <=> pc[Root] \in Early
  BY <1>1, <1>2, <1>3 DEF Early
<1> QED
  BY <1>1, <1>2, <1>3, <1>4, <1>7, <1>8, <1>9, QuietRecord

\* After the loop nothing is written, and the record stays.
LEMMA LeaveRecord ==
    ASSUME WriterIInv, MessageIInv, RecordOnce, StaticRecord, SparseRecord, DynamicRecord,
           NEW r \in Ranks, HasLeft(r), pc'[r] \in {"done", "cleanup", "gone"},
           \A q \in Ranks \ {r} : pc'[q] = pc[q],
           UNCHANGED <<conf, files, fileNumber, coordinatorProc, fileNumbersWriteOrder, procsToWrite,
                       availableFileNumbers, minmax>>,
           InTransit("write")' = InTransit("write"),
           \A m \in msgs' : m \in msgs \/ m.tag = "gather"
    PROVE  /\ RecordOnce' /\ StaticRecord' /\ SparseRecord' /\ DynamicRecord'
           /\ Moves(r)
<1>1. TypeOK /\ ModesKept /\ pc[r] \in {"done", "cleanup", "gone"}
  BY DEF WriterIInv, HasLeft
<1>2. Moves(r)
  BY <1>1, MovesAlone
<1>3. RecordOnce'
  BY RecordKept
<1>4. Wrote(r) /\ Wrote(r)' /\ HasLeft(r)'
  BY <1>1 DEF Wrote, HasLeft
<1>5. StaticRecord'
  BY <1>4, StaticKept
<1>6. SparseRecord'
  BY <1>1, <1>4, SparseKept
<1>7. DynamicRecord'
  <2>1. CASE conf.mode # "dynamic"
    BY <2>1, OtherModes
  <2>2. CASE conf.mode = "dynamic"
    <3>1. Root \in Ranks /\ Root' = Root
      BY <1>1, <1>2, RootIsRank DEF Moves
    <3>2. /\ pc'[Root] \in Early <=> pc[Root] \in Early
          /\ pc'[Root] \in {"coordinate", "await"} <=> pc[Root] \in {"coordinate", "await"}
      BY <1>1, <3>1 DEF Early
    <3>3. Recorded => Recorded'
      BY <3>1, <3>2, RecordedKept
    <3>4. pc[r] \notin {"start", "signal", "writing"} /\ pc'[r] \notin {"start", "signal", "writing"}
          /\ pc'[r] \notin {"written", "elect"}
      BY <1>1
    <3> QED
      BY <1>2, <2>2, <3>2, <3>3, <3>4, QuietRecord
  <2> QED
    BY <2>1, <2>2
<1> QED
  BY <1>2, <1>3, <1>5, <1>6, <1>7

\* When the loops are over the record has all data in it, and each rank's in the list of
\* its file.
LEMMA AllRecorded ==
    ASSUME WriterIInv, MessageIInv, RecordOnce, StaticRecord, SparseRecord, DynamicRecord,
           HasLeft(Root)
    PROVE  /\ conf.data \subseteq Ranks
           /\ \A q \in conf.data : Listed(q)
<1>1. conf \in Configurations /\ conf.data \subseteq Ranks
  BY DEF WriterIInv, TypeOK, Configurations
<1>2. ASSUME NEW q \in conf.data PROVE Listed(q)
  <2>1. CASE conf.mode = "static"
    <3>1. FileNumber(q) \in FileNumbers
      BY <1>1, Place
    <3>2. Range(fileNumbersWriteOrder[FileNumber(q)]) = {x \in Ranks : FileNumber(x) = FileNumber(q)}
      BY <2>1, <3>1 DEF StaticRecord
    <3>3. q \in Range(fileNumbersWriteOrder[FileNumber(q)])
      BY <1>1, <3>2
    <3> QED
      BY <3>1, <3>3 DEF Listed
  <2>2. CASE conf.mode = "sparse"
    BY <2>2 DEF SparseRecord
  <2>3. CASE conf.mode = "dynamic"
    <3>1. Coordinating
      BY <2>3, BeforeCoordinator DEF HasLeft, Early
    <3>2. Recorded
      BY <2>3, <3>1, DynamicParts
    <3> QED
      BY <1>1, <3>2 DEF Recorded, HasLeft
  <2> QED
    BY <1>1, <2>1, <2>2, <2>3 DEF Configurations
<1> QED
  BY <1>1, <1>2

\* The header that FindOffsets makes of the record.
LEMMA OffsetsFromRecord ==
    ASSUME WriterIInv, MessageIInv, RecordOnce, StaticRecord, SparseRecord, DynamicRecord,
           HasLeft(Root)
    PROVE  /\ DOMAIN FindOffsets = conf.data
           /\ \A q \in conf.data :
                 \E f \in FileNumbers : \E i \in DOMAIN fileNumbersWriteOrder[f] :
                    /\ fileNumbersWriteOrder[f][i] = q
                    /\ FindOffsets[q] =
                          [file |-> IF conf.mode = "sparse" THEN q ELSE f,
                           offset |-> Length(conf.data, SubSeq(fileNumbersWriteOrder[f], 1, i - 1))]
<1>1. /\ conf \in Configurations /\ conf.data \subseteq Ranks
      /\ \A q \in conf.data : Listed(q)
      /\ fileNumbersWriteOrder \in [FileNumbers -> Seq(Ranks)]
      /\ \A f, g \in FileNumbers :
            \A i \in DOMAIN fileNumbersWriteOrder[f], j \in DOMAIN fileNumbersWriteOrder[g] :
                fileNumbersWriteOrder[f][i] = fileNumbersWriteOrder[g][j] => f = g /\ i = j
  BY AllRecorded DEF WriterIInv, TypeOK, RecordOnce
<1>2. PICK W : W = [f \in FileNumbers |->
                      IF conf.mode = "sparse" THEN fileNumbersWriteOrder[f][1] ELSE f]
  OBVIOUS
<1>3. ASSUME conf.mode = "sparse", NEW f \in FileNumbers
      PROVE  \A i \in DOMAIN fileNumbersWriteOrder[f] : i = 1
  <2>1. Len(fileNumbersWriteOrder[f]) <= 1
    BY <1>3 DEF SparseRecord
  <2>2. fileNumbersWriteOrder[f] \in Seq(Ranks)
    BY <1>1
  <2> QED
    BY <2>1, <2>2
<1>4. ASSUME NEW f \in FileNumbers, NEW i \in DOMAIN fileNumbersWriteOrder[f]
      PROVE  WrittenFile(fileNumbersWriteOrder[f][i]) = W[f]
  <2>1. PICK x : x = fileNumbersWriteOrder[f][i]
    OBVIOUS
  <2>2. x \in Range(fileNumbersWriteOrder[f])
    BY <2>1 DEF Range
  <2>3. CASE conf.mode = "static"
    <3>1. FileNumber(x) = f
      BY <2>2, <2>3 DEF StaticRecord
    <3> QED
      BY <1>2, <2>1, <2>3, <3>1 DEF WrittenFile
  <2>4. CASE conf.mode = "sparse"
    BY <1>2, <1>3, <2>1, <2>4 DEF WrittenFile
  <2>5. CASE conf.mode = "dynamic"
    <3>1. ASSUME NEW g \in FileNumbers, x \in Range(fileNumbersWriteOrder[g]) PROVE g = f
      <4>1. PICK j \in DOMAIN fileNumbersWriteOrder[g] : fileNumbersWriteOrder[g][j] = x
        BY <3>1 DEF Range
      <4> QED
        BY <1>1, <2>1, <4>1
    <3>2. (CHOOSE g \in FileNumbers : x \in Range(fileNumbersWriteOrder[g])) = f
      BY <2>2, <3>1
    <3> QED
      BY <1>2, <2>1, <2>5, <3>2 DEF WrittenFile
  <2> QED
    BY <1>1, <2>3, <2>4, <2>5 DEF Configurations
<1>5. ASSUME NEW f \in FileNumbers, NEW g \in FileNumbers,
             fileNumbersWriteOrder[f] # <<>>, fileNumbersWriteOrder[g] # <<>>, W[f] = W[g]
      PROVE  f = g
  <2>1. CASE conf.mode = "sparse"
    <3>1. 1 \in DOMAIN fileNumbersWriteOrder[f] /\ 1 \in DOMAIN fileNumbersWriteOrder[g]
      BY <1>1, <1>5
    <3>2. fileNumbersWriteOrder[f][1] = fileNumbersWriteOrder[g][1]
      BY <1>2, <1>5, <2>1
    <3> QED
      BY <1>1, <3>1, <3>2
  <2>2. CASE conf.mode # "sparse"
    BY <1>2, <1>5, <2>2
  <2> QED
    BY <2>1, <2>2
<1>6. /\ DOMAIN FindOffsets = conf.data
      /\ \A f \in FileNumbers : \A i \in DOMAIN fileNumbersWriteOrder[f] :
            fileNumbersWriteOrder[f][i] \in conf.data =>
               FindOffsets[fileNumbersWriteOrder[f][i]] =
                  [file |-> W[f], offset |-> Length(conf.data, SubSeq(fileNumbersWriteOrder[f], 1, i - 1))]
  BY <1>1, <1>4, <1>5, FindOffsetsRight
<1>7. ASSUME NEW q \in conf.data
      PROVE  \E f \in FileNumbers : \E i \in DOMAIN fileNumbersWriteOrder[f] :
                /\ fileNumbersWriteOrder[f][i] = q
                /\ FindOffsets[q] =
                      [file |-> IF conf.mode = "sparse" THEN q ELSE f,
                       offset |-> Length(conf.data, SubSeq(fileNumbersWriteOrder[f], 1, i - 1))]
  <2>1. PICK f \in FileNumbers : q \in Range(fileNumbersWriteOrder[f])
    BY <1>1 DEF Listed
  <2>2. PICK i \in DOMAIN fileNumbersWriteOrder[f] : fileNumbersWriteOrder[f][i] = q
    BY <2>1 DEF Range
  <2>3. W[f] = IF conf.mode = "sparse" THEN q ELSE f
    BY <1>2, <1>3, <2>2
  <2>4. FindOffsets[q] =
           [file |-> W[f], offset |-> Length(conf.data, SubSeq(fileNumbersWriteOrder[f], 1, i - 1))]
    BY <1>6, <2>2
  <2> QED
    BY <2>2, <2>3, <2>4
<1> QED
  BY <1>6, <1>7

LEMMA WriteHeaderRecord ==
    ASSUME WriterIInv, MessageIInv, HeaderIInv, NEW r \in Ranks, WriteHeader(r)
    PROVE  HeaderIInv'
<1>1. /\ TypeOK /\ Gathered /\ RecordOnce /\ StaticRecord /\ SparseRecord /\ DynamicRecord
      /\ pc[r] = "done" /\ pc' = [pc EXCEPT ![r] = "cleanup"] /\ r = coordinatorProc[r]
      /\ msgs' = msgs \ Incoming(r, "gather") /\ header' = FindOffsets
      /\ UNCHANGED <<conf, files, fileNumber, coordinatorProc, fileNumbersWriteOrder, procsToWrite,
                     availableFileNumbers, minmax>>
  BY DEF WriterIInv, MessageIInv, HeaderIInv, WriteHeader, At, Goto, coordinating
<1>2. HasLeft(r) /\ r = Root
  BY <1>1 DEF Gathered, HasLeft
<1>3. pc'[r] = "cleanup" /\ \A q \in Ranks \ {r} : pc'[q] = pc[q]
  BY <1>1 DEF TypeOK
<1>4. /\ InTransit("write")' = InTransit("write")
      /\ \A m \in msgs' : m \in msgs
  BY <1>1 DEF InTransit, Incoming
<1>5. RecordOnce' /\ StaticRecord' /\ SparseRecord' /\ DynamicRecord'
  BY <1>1, <1>2, <1>3, <1>4, LeaveRecord
<1>6. /\ DOMAIN FindOffsets = conf.data
      /\ \A q \in conf.data :
            \E f \in FileNumbers : \E i \in DOMAIN fileNumbersWriteOrder[f] :
               /\ fileNumbersWriteOrder[f][i] = q
               /\ FindOffsets[q] =
                     [file |-> IF conf.mode = "sparse" THEN q ELSE f,
                      offset |-> Length(conf.data, SubSeq(fileNumbersWriteOrder[f], 1, i - 1))]
  BY <1>1, <1>2, OffsetsFromRecord
<1>7. HeaderFromRecord'
  BY <1>1, <1>6 DEF HeaderFromRecord
<1> QED
  BY <1>5, <1>7 DEF HeaderIInv

LEMMA ContributeRecord ==
    ASSUME WriterIInv, MessageIInv, HeaderIInv, NEW r \in Ranks, Contribute(r)
    PROVE  HeaderIInv'
<1>1. PICK k : k = Message("gather", r, coordinatorProc[r], r)
  OBVIOUS
<1>2. /\ TypeOK /\ Gathered /\ RecordOnce /\ StaticRecord /\ SparseRecord /\ DynamicRecord
      /\ HeaderFromRecord
      /\ pc[r] = "done" /\ pc' = [pc EXCEPT ![r] = "cleanup"] /\ r # coordinatorProc[r]
      /\ k.tag = "gather"
      /\ msgs' = msgs \cup (IF minmax THEN {k} ELSE {})
      /\ UNCHANGED <<conf, files, fileNumber, coordinatorProc, fileNumbersWriteOrder, procsToWrite,
                     availableFileNumbers, minmax, header>>
  BY <1>1 DEF WriterIInv, MessageIInv, HeaderIInv, Contribute, At, Goto, coordinating, Message
<1>3. HasLeft(r) /\ r # Root /\ Root \in Ranks
  BY <1>2, RootIsRank DEF Gathered, HasLeft
<1>4. pc'[r] = "cleanup" /\ \A q \in Ranks \ {r} : pc'[q] = pc[q]
  BY <1>2 DEF TypeOK
<1>5. /\ InTransit("write")' = InTransit("write")
      /\ \A m \in msgs' : m \in msgs \/ m.tag = "gather"
  BY <1>2 DEF InTransit
<1>6. RecordOnce' /\ StaticRecord' /\ SparseRecord' /\ DynamicRecord' /\ Moves(r)
  BY <1>2, <1>3, <1>4, <1>5, LeaveRecord
<1>7. Root' = Root /\ pc'[Root] = pc[Root]
  BY <1>3, <1>4, <1>6 DEF Moves
<1>8. HeaderFromRecord'
  BY <1>2, <1>7, HeaderKept
<1> QED
  BY <1>6, <1>8 DEF HeaderIInv

LEMMA DestructorRecord ==
    ASSUME WriterIInv, MessageIInv, HeaderIInv, NEW r \in Ranks, CleanUpMessages(r) \/ Destroyed(r),
           UNCHANGED <<minmax, header>>
    PROVE  HeaderIInv'
<1>1. /\ TypeOK /\ RecordOnce /\ StaticRecord /\ SparseRecord /\ DynamicRecord
      /\ HeaderFromRecord /\ pc[r] = "cleanup"
      /\ UNCHANGED <<conf, files, fileNumber, coordinatorProc, fileNumbersWriteOrder, procsToWrite,
                     availableFileNumbers>>
  BY DEF WriterIInv, HeaderIInv, CleanUpMessages, Destroyed, At, coordinating
<1>2. /\ pc'[r] \in {"cleanup", "gone"}
      /\ \A q \in Ranks \ {r} : pc'[q] = pc[q]
  BY <1>1 DEF TypeOK, CleanUpMessages, Destroyed, Goto
<1>3. /\ InTransit("write")' = InTransit("write")
      /\ \A m \in msgs' : m \in msgs
  <2>1. CASE CleanUpMessages(r)
    <3>1. PICK k \in Incoming(r, unreadMessages[r].tag) : msgs' = msgs \ {k}
      BY <2>1 DEF CleanUpMessages
    <3>2. k.tag # "write"
      <4>1. unreadMessages[r].tag \in {"none", "decider", "done"}
        BY <1>1 DEF TypeOK
      <4> QED
        BY <3>1, <4>1 DEF Incoming
    <3> QED
      BY <3>1, <3>2 DEF InTransit
  <2>2. CASE Destroyed(r)
    BY <2>2 DEF Destroyed, InTransit
  <2> QED
    BY <2>1, <2>2
<1>4. HasLeft(r)
  BY <1>1 DEF HasLeft
<1>5. RecordOnce' /\ StaticRecord' /\ SparseRecord' /\ DynamicRecord' /\ Moves(r)
  BY <1>1, <1>2, <1>3, <1>4, LeaveRecord
<1>6. Root' = Root /\ Root \in Ranks
      /\ (pc'[Root] \in {"cleanup", "gone"} => pc[Root] \in {"cleanup", "gone"})
  BY <1>1, <1>2, <1>5, RootIsRank DEF Moves
<1>7. HeaderFromRecord'
  BY <1>1, <1>6, HeaderKept
<1> QED
  BY <1>5, <1>7 DEF HeaderIInv

-----------------------------------------------------------------------------
(***************************************************************************)
(* The header                                                              *)
(***************************************************************************)
\* A step of the loop in static mode or of sparse writes.
LEMMA OtherLoopRecord ==
    ASSUME WriterIInv, MessageIInv, HeaderIInv, NEW r \in Ranks, conf.mode # "dynamic",
           LoopStep(r), UNCHANGED <<minmax, header>>
    PROVE  HeaderIInv'
<1>1. /\ TypeOK /\ ModesKept /\ OneCoordinator /\ InTurn
      /\ RecordOnce /\ StaticRecord /\ SparseRecord /\ DynamicRecord /\ HeaderFromRecord
  BY DEF WriterIInv, MessageIInv, HeaderIInv
<1>2. \/ StaticReady(r) \/ SparseReady(r) \/ Write(r)
      \/ StaticNext(r) \/ SparseNext(r)
  <2>1. pc[r] \notin {"elect", "coordinate", "await"}
    BY <1>1 DEF ModesKept
  <2> QED
    BY <2>1 DEF LoopStep, OpenSetZero, Decide, WaitForSignal, TellDecider, LearnCoordinator,
                Signal, AwaitDone, Coordinated, DynamicNext, At
<1>3. /\ conf' = conf /\ pc'[r] \notin {"cleanup", "gone"}
      /\ UNCHANGED <<coordinatorProc, fileNumbersWriteOrder>>
      /\ \A q \in Ranks \ {r} : pc'[q] = pc[q]
  BY <1>1, <1>2 DEF StaticReady, SparseReady, Write, StaticNext, SparseNext, OpenTruncated,
                    OpenAppending, Goto, coordinating, TypeOK
<1>4. Moves(r)
  BY <1>1, <1>3, MovesAlone
<1>5. RecordOnce' /\ HeaderFromRecord'
  BY <1>1, <1>3, <1>4, RecordKept, InLoop
<1>6. DynamicRecord'
  BY <1>3, OtherModes
<1>7. CASE conf.mode = "static"
  <2>1. StaticReady(r) \/ Write(r) \/ StaticNext(r)
    BY <1>2, <1>7 DEF SparseReady, SparseNext
  <2>2. ASSUME StaticNext(r) PROVE StaticRecord'
    <3>1. pc[r] = "written" /\ pc'[r] = "done" /\ files' = files
      BY <1>1, <2>2 DEF StaticNext, At, Goto, TypeOK
    <3>2. Wrote(r) /\ Wrote(r)' /\ HasLeft(r)'
      BY <3>1 DEF Wrote, HasLeft
    <3> QED
      BY <1>1, <1>3, <3>1, <3>2, StaticKept
  <2>3. StaticRecord'
    BY <1>1, <1>7, <2>1, <2>2, StaticReadyRecord, StaticWriteRecord
  <2>4. SparseRecord'
    BY <1>3, <1>7, OtherModes
  <2> QED
    BY <1>5, <1>6, <2>3, <2>4 DEF HeaderIInv
<1>8. CASE conf.mode = "sparse"
  <2>1. SparseReady(r) \/ Write(r) \/ SparseNext(r)
    BY <1>2, <1>8 DEF StaticReady, StaticNext
  <2>2. ASSUME SparseNext(r) PROVE SparseRecord'
    <3>1. pc[r] = "written" /\ pc'[r] = "done" /\ files' = files
      BY <1>1, <2>2 DEF SparseNext, At, Goto, TypeOK
    <3>2. Wrote(r) /\ Wrote(r)'
      BY <3>1 DEF Wrote
    <3> QED
      BY <1>1, <1>3, <3>1, <3>2, SparseKept
  <2>3. SparseRecord'
    BY <1>1, <1>8, <2>1, <2>2, SparseReadyRecord, SparseWriteRecord
  <2>4. StaticRecord'
    BY <1>3, <1>8, OtherModes
  <2> QED
    BY <1>5, <1>6, <2>3, <2>4 DEF HeaderIInv
<1> QED
  BY <1>1, <1>7, <1>8 DEF TypeOK, Configurations

\* A step of the loop in dynamic mode.
LEMMA DynamicLoopRecord ==
    ASSUME WriterIInv, MessageIInv, HeaderIInv, NEW r \in Ranks, conf.mode = "dynamic",
           LoopStep(r), UNCHANGED <<minmax, header>>
    PROVE  HeaderIInv'
<1>1. /\ TypeOK /\ ModesKept /\ OneCoordinator
      /\ RecordOnce /\ DynamicRecord /\ HeaderFromRecord
  BY DEF WriterIInv, HeaderIInv
<1>2. conf' = conf
  BY DEF LoopStep, StaticReady, SparseReady, OpenSetZero, Decide, WaitForSignal, Write, StaticNext,
         SparseNext, TellDecider, LearnCoordinator, Signal, AwaitDone, Coordinated, DynamicNext
<1>3. StaticRecord' /\ SparseRecord'
  BY <1>2, OtherModes
<1>4. SUFFICES RecordOnce' /\ DynamicRecord' /\ HeaderFromRecord'
  BY <1>3 DEF HeaderIInv
<1>5. /\ UNCHANGED fileNumbersWriteOrder => RecordOnce'
      /\ UNCHANGED fileNumbersWriteOrder /\ Moves(r) /\ pc'[r] \notin {"cleanup", "gone"}
            => HeaderFromRecord'
  BY <1>1, RecordKept, InLoop
<1>6. CASE OpenSetZero(r)
  <2>1. /\ pc[r] = "start" /\ pc'[r] = "writing" /\ WhichSetPosition(r) = 0
        /\ UNCHANGED <<fileNumbersWriteOrder, coordinatorProc>>
        /\ \A q \in Ranks \ {r} : pc'[q] = pc[q]
    BY <1>1, <1>6 DEF OpenSetZero, OpenTruncated, Goto, At, coordinating, TypeOK
  <2>2. r # conf.deciderProc
    BY <1>1, <1>2, <2>1, DeciderIsRank, SortsKept
  <2>3. Moves(r)
    BY <1>1, <1>2, <2>1, <2>2, MovesAlone
  <2> QED
    BY <1>1, <1>5, <1>6, <2>1, <2>3, OpenSetZeroRecord
<1>7. CASE Decide(r)
  <2>1. DynamicRecord' /\ pc'[Root'] \in Early
    BY <1>1, <1>7, DecideRecord
  <2>2. UNCHANGED fileNumbersWriteOrder
    BY <1>7 DEF Decide, coordinating
  <2>3. HeaderFromRecord'
    BY <2>1 DEF HeaderFromRecord, Early
  <2> QED
    BY <1>5, <2>1, <2>2, <2>3
<1>8. CASE WaitForSignal(r)
  <2>1. DynamicRecord' /\ Root' = Root /\ pc'[Root] = pc[Root]
    BY <1>1, <1>8, WaitForSignalRecord
  <2>2. UNCHANGED fileNumbersWriteOrder
    BY <1>8 DEF WaitForSignal, coordinating
  <2>3. HeaderFromRecord'
    BY <1>1, <1>2, <2>1, <2>2, HeaderKept
  <2> QED
    BY <1>5, <2>1, <2>2, <2>3
<1>9. CASE Write(r)
  <2>1. /\ pc[r] = "writing" /\ pc'[r] = "written"
        /\ UNCHANGED <<fileNumbersWriteOrder, coordinatorProc>>
        /\ \A q \in Ranks \ {r} : pc'[q] = pc[q]
    BY <1>1, <1>9 DEF Write, Goto, At, coordinating, TypeOK
  <2>2. Moves(r)
    BY <1>1, <1>2, <2>1, MovesAlone
  <2> QED
    BY <1>1, <1>5, <1>9, <2>1, <2>2, WriteRecord
<1>10. CASE TellDecider(r)
  <2>1. DynamicRecord' /\ Moves(r)
    BY <1>1, <1>10, TellDeciderRecord
  <2>2. UNCHANGED fileNumbersWriteOrder /\ pc'[r] = "elect"
    BY <1>1, <1>10 DEF TellDecider, coordinating, Goto, TypeOK
  <2> QED
    BY <1>5, <2>1, <2>2
<1>11. CASE LearnCoordinator(r)
  <2>1. CASE r = Root
    <3>1. RecordOnce' /\ DynamicRecord' /\ pc'[Root'] = "coordinate"
      BY <1>1, <1>11, <2>1, BecomeCoordinatorRecord
    <3>2. HeaderFromRecord'
      BY <3>1 DEF HeaderFromRecord
    <3> QED
      BY <3>1, <3>2
  <2>2. CASE r # Root
    <3>1. DynamicRecord' /\ Moves(r) /\ UNCHANGED fileNumbersWriteOrder /\ pc'[r] = "done"
      BY <1>1, <1>11, <2>2, LearnCoordinatorRecord
    <3> QED
      BY <1>5, <3>1
  <2> QED
    BY <2>1, <2>2
<1>12. CASE Signal(r)
  <2>1. RecordOnce' /\ DynamicRecord' /\ pc'[Root'] = "await"
    BY <1>1, <1>12, SignalRecord
  <2>2. HeaderFromRecord'
    BY <2>1 DEF HeaderFromRecord
  <2> QED
    BY <2>1, <2>2
<1>13. CASE AwaitDone(r)
  <2>1. DynamicRecord' /\ Moves(r)
    BY <1>1, <1>13, AwaitDoneRecord
  <2>2. UNCHANGED fileNumbersWriteOrder /\ pc'[r] = "coordinate"
    BY <1>1, <1>13 DEF AwaitDone, Goto, TypeOK
  <2> QED
    BY <1>5, <2>1, <2>2
<1>14. CASE Coordinated(r)
  <2>1. DynamicRecord' /\ Moves(r)
    BY <1>1, <1>14, CoordinatedRecord
  <2>2. UNCHANGED fileNumbersWriteOrder /\ pc'[r] = "done"
    BY <1>1, <1>14 DEF Coordinated, coordinating, Goto, TypeOK
  <2> QED
    BY <1>5, <2>1, <2>2
<1>15. CASE DynamicNext(r)
  <2>1. DynamicRecord' /\ Moves(r)
    BY <1>1, <1>15, DynamicNextRecord
  <2>2. UNCHANGED fileNumbersWriteOrder /\ pc'[r] = "done"
    BY <1>1, <1>15 DEF DynamicNext, coordinating, Goto, TypeOK
  <2> QED
    BY <1>5, <2>1, <2>2
<1>16. ~StaticReady(r) /\ ~SparseReady(r) /\ ~StaticNext(r) /\ ~SparseNext(r)
  BY DEF StaticReady, SparseReady, StaticNext, SparseNext
<1> QED
  BY <1>6, <1>7, <1>8, <1>9, <1>10, <1>11, <1>12, <1>13, <1>14, <1>15, <1>16 DEF LoopStep

LEMMA StepRecord == WriterIInv /\ MessageIInv /\ HeaderIInv /\ [Next]_vars => HeaderIInv'
<1> SUFFICES ASSUME WriterIInv, MessageIInv, HeaderIInv, [Next]_vars PROVE HeaderIInv'
  OBVIOUS
<1>1. CASE Next
  <2>1. PICK r \in Ranks : RankStep(r)
    BY <1>1 DEF Next
  <2>2. CASE LoopStep(r) /\ UNCHANGED <<minmax, header>>
    BY <2>2, OtherLoopRecord, DynamicLoopRecord
  <2>3. CASE Contribute(r)
    BY <2>3, ContributeRecord
  <2>4. CASE WriteHeader(r)
    BY <2>4, WriteHeaderRecord
  <2>5. CASE (CleanUpMessages(r) \/ Destroyed(r)) /\ UNCHANGED <<minmax, header>>
    BY <2>5, DestructorRecord
  <2> QED
    BY <2>1, <2>2, <2>3, <2>4, <2>5 DEF RankStep
<1>2. CASE UNCHANGED vars
  <2>1. /\ UNCHANGED <<conf, pc, msgs, files, fileNumber, coordinatorProc, fileNumbersWriteOrder,
                       procsToWrite, availableFileNumbers, remainingWriters, minmax, header>>
    BY <1>2 DEF vars, nfivars, coordinating
  <2>2. /\ RecordOnce /\ StaticRecord /\ SparseRecord /\ DynamicRecord /\ HeaderFromRecord
        /\ conf \in Configurations
    BY DEF WriterIInv, TypeOK, HeaderIInv
  <2>3. /\ \A q : /\ FileNumber(q)' = FileNumber(q) /\ WhichSetPosition(q)' = WhichSetPosition(q)
                  /\ (HasLeft(q)' <=> HasLeft(q)) /\ (Wrote(q)' <=> Wrote(q))
                  /\ (Listed(q)' <=> Listed(q)) /\ (First(q)' <=> First(q))
                  /\ \A x : At(q, x)' <=> At(q, x)
        /\ \A tag : InTransit(tag)' = InTransit(tag)
        /\ Root' = Root /\ (Decided' <=> Decided) /\ SetZeroProcs' = SetZeroProcs
        /\ Waiting' = Waiting
    BY <2>1, PlacesKept DEF InTransit, HasLeft, Wrote, Listed, First, At, Root, Decided, Waiting
  <2>4. RecordOnce'
    BY <2>1, <2>2, RecordKept
  <2>5. HeaderFromRecord'
    BY <2>1, <2>2, <2>3, HeaderKept
  <2>6. SparseRecord'
    BY <2>1, <2>2, <2>3 DEF SparseRecord
  <2>7. StaticRecord'
    <3>1. \A f : /\ {q \in Ranks : FileNumber(q) = f}' = {q \in Ranks : FileNumber(q) = f}
                 /\ {q \in Ranks : FileNumber(q) = f /\ Wrote(q)}'
                       = {q \in Ranks : FileNumber(q) = f /\ Wrote(q)}
      BY <2>3
    <3> QED
      BY <2>1, <2>2, <2>3, <3>1 DEF StaticRecord
  <2>8. DynamicRecord'
    <3>1. (Coordinating' <=> Coordinating) /\ (FirstRecord' <=> FirstRecord)
      BY <2>1, <2>3 DEF Coordinating, FirstRecord, Early
    <3>2. ASSUME NEW f \in FileNumbers, FileRecord(f) PROVE FileRecord(f)'
      <4>1. /\ \A q : Has(q, f)' <=> Has(q, f)
            /\ \A m : Carries(m, f)' <=> Carries(m, f)
            /\ \A q : HasToWrite(q, f)' <=> HasToWrite(q, f)
        BY <2>1, <2>3 DEF Has, Carries, HasToWrite
      <4>2. Owned(f)' <=> Owned(f)
        BY <2>1, <4>1 DEF Owned
      <4>3. Owned(f)' => fileNumbersWriteOrder[f] # <<>>
        BY <3>2, <4>2 DEF FileRecord
      <4> QED
        BY <2>1, <2>3, <3>2, <4>1, <4>3, FileRecordKept
    <3> QED
      BY <2>1, <2>2, <2>3, <3>1, <3>2 DEF DynamicRecord
  <2> QED
    BY <2>4, <2>5, <2>6, <2>7, <2>8 DEF HeaderIInv
<1> QED
  BY <1>1, <1>2

\* The record that the constructor makes: of all ranks, of those with data, or none.
LEMMA InitRecord == Init => HeaderIInv
<1> SUFFICES ASSUME Init PROVE HeaderIInv
  OBVIOUS
<1>1. PICK c \in Configurations : NFilesInit(c)
  BY DEF Init
<1>2. /\ conf \in Configurations
      /\ pc = [r \in Ranks |-> "start"] /\ msgs = {}
      /\ fileNumber = [r \in Ranks |-> FileNumber(r)]
      /\ conf.mode = "static" => fileNumbersWriteOrder = StaticOrder
      /\ conf.mode = "sparse" => fileNumbersWriteOrder = SparseOrder(conf.data)
      /\ conf.mode = "dynamic" => fileNumbersWriteOrder = NoOrder
  BY <1>1 DEF NFilesInit
<1>3. conf.mode \in {"static", "sparse", "dynamic"} /\ conf.data \subseteq Ranks
  BY <1>2 DEF Configurations
<1>4. TypeOK /\ ModesKept /\ Root \in Ranks
  BY InitOwners, RootIsRank DEF WriterIInv
<1>5. \A r \in Ranks : pc[r] = "start"
  BY <1>2
<1>6. Ranks \subseteq Nat /\ IsFiniteSet(Ranks) /\ FileNumbers = Ranks /\ Cardinality(Ranks) = NProcs
  <2>1. 0 \in Int /\ NProcs - 1 \in Int /\ 0 <= NProcs - 1
    BY NProcsAssumption
  <2>2. IsFiniteSet(Ranks) /\ Cardinality(Ranks) = NProcs - 1 - 0 + 1
    BY <2>1, FS_Interval DEF Ranks
  <2> QED
    BY <2>2, NProcsAssumption, RankNumbers DEF Ranks, FileNumbers
<1>7. ASSUME NEW S \in SUBSET Ranks
      PROVE  /\ Ascending(S) \in Seq(S) /\ Ascending(S) \in Seq(Ranks)
             /\ DOMAIN Ascending(S) = 1 .. Cardinality(S)
             /\ \A i, j \in DOMAIN Ascending(S) : Ascending(S)[i] = Ascending(S)[j] => i = j
             /\ \A x \in S : \E i \in DOMAIN Ascending(S) : Ascending(S)[i] = x
             /\ \A i \in DOMAIN Ascending(S) : Ascending(S)[i] \in S
             /\ Ascends(Ascending(S))
             /\ Range(Ascending(S)) = S
             /\ IsFiniteSet(S) /\ Cardinality(S) \in Nat /\ Cardinality(S) <= NProcs
  <2>1. S \in SUBSET Nat /\ IsFiniteSet(S) /\ Cardinality(S) <= Cardinality(Ranks)
    BY <1>6, FS_Subset
  <2>2. /\ Ascending(S) \in Seq(S)
        /\ \A i, j \in DOMAIN Ascending(S) : Ascending(S)[i] = Ascending(S)[j] => i = j
        /\ \A x \in S : \E i \in DOMAIN Ascending(S) : Ascending(S)[i] = x
        /\ \A i \in DOMAIN Ascending(S) : Ascending(S)[i] \in S
        /\ Ascends(Ascending(S))
    BY <2>1, AscendingLists
  <2>3. PICK s : s = Ascending(S)
    OBVIOUS
  <2>4. s \in Seq(Ranks)
    BY <2>2, <2>3
  <2>5. Range(s) = S
    BY <2>2, <2>3 DEF Range
  <2>6. DOMAIN Ascending(S) = 1 .. Cardinality(S)
    BY DEF Ascending
  <2> QED
    BY <1>6, <2>1, <2>2, <2>3, <2>4, <2>5, <2>6, FS_CardinalityType
<1>8. CASE conf.mode = "static"
  <2> DEFINE S(f) == {r \in Ranks : FileNumber(r) = f}
  <2>1. \A f \in FileNumbers : fileNumbersWriteOrder[f] = Ascending(S(f)) /\ S(f) \in SUBSET Ranks
    BY <1>2, <1>8 DEF StaticOrder
  <2>2. \A f \in FileNumbers :
           /\ fileNumbersWriteOrder[f] \in Seq(Ranks)
           /\ \A i, j \in DOMAIN fileNumbersWriteOrder[f] :
                 fileNumbersWriteOrder[f][i] = fileNumbersWriteOrder[f][j] => i = j
           /\ \A i \in DOMAIN fileNumbersWriteOrder[f] : fileNumbersWriteOrder[f][i] \in S(f)
           /\ Ascends(fileNumbersWriteOrder[f])
           /\ Range(fileNumbersWriteOrder[f]) = S(f)
    <3> HIDE DEF S
    <3> QED
      BY <1>7, <2>1
  <2>3. RecordOnce
    <3>1. fileNumbersWriteOrder \in [FileNumbers -> Seq(Ranks)]
      BY <1>2, <1>8, <2>2 DEF StaticOrder
    <3>2. ASSUME NEW f \in FileNumbers, NEW g \in FileNumbers,
                 NEW i \in DOMAIN fileNumbersWriteOrder[f], NEW j \in DOMAIN fileNumbersWriteOrder[g],
                 fileNumbersWriteOrder[f][i] = fileNumbersWriteOrder[g][j]
          PROVE  f = g /\ i = j
      <4>1. fileNumbersWriteOrder[f][i] \in S(f) /\ fileNumbersWriteOrder[g][j] \in S(g)
        BY <2>2
      <4>2. f = g
        BY <3>2, <4>1
      <4> QED
        BY <2>2, <3>2, <4>2
    <3> QED
      BY <3>1, <3>2 DEF RecordOnce
  <2>4. StaticRecord
    BY <1>5, <2>2 DEF StaticRecord, At
  <2> QED
    BY <1>4, <1>5, <1>8, <2>3, <2>4 DEF HeaderIInv, SparseRecord, DynamicRecord, HeaderFromRecord
<1>9. CASE conf.mode = "sparse"
  <2>1. PICK s : s = Ascending(conf.data)
    OBVIOUS
  <2>2. PICK n : n = Cardinality(conf.data)
    OBVIOUS
  <2>3. /\ s \in Seq(Ranks) /\ DOMAIN s = 1 .. n /\ n \in Nat /\ n <= NProcs
        /\ \A i, j \in DOMAIN s : s[i] = s[j] => i = j
        /\ \A x \in conf.data : \E i \in DOMAIN s : s[i] = x
        /\ \A i \in DOMAIN s : s[i] \in Ranks
    BY <1>3, <1>7, <2>1, <2>2
  <2>4. fileNumbersWriteOrder = [f \in FileNumbers |-> IF f < n THEN <<s[f + 1]>> ELSE <<>>]
    BY <1>2, <1>9, <2>1, <2>2 DEF SparseOrder
  <2>5. ASSUME NEW f \in FileNumbers
        PROVE  /\ f \in Nat
               /\ \/ f < n /\ f + 1 \in DOMAIN s /\ fileNumbersWriteOrder[f] = <<s[f + 1]>>
                  \/ fileNumbersWriteOrder[f] = <<>>
    <3>1. f \in Nat
      BY <1>6
    <3>2. f < n => f + 1 \in DOMAIN s
      BY <2>3, <3>1
    <3> QED
      BY <2>4, <3>1, <3>2
  <2>6. ASSUME NEW f \in FileNumbers
        PROVE  fileNumbersWriteOrder[f] \in Seq(Ranks) /\ Len(fileNumbersWriteOrder[f]) <= 1
    <3>1. CASE fileNumbersWriteOrder[f] = <<>>
      BY <3>1
    <3>2. CASE fileNumbersWriteOrder[f] # <<>>
      <4>1. PICK x : x = s[f + 1]
        OBVIOUS
      <4>2. x \in Ranks /\ fileNumbersWriteOrder[f] = <<x>>
        BY <2>3, <2>5, <3>2, <4>1
      <4> QED
        BY <4>2
    <3> QED
      BY <3>1, <3>2
  <2>7. ASSUME NEW f \in FileNumbers, NEW i \in DOMAIN fileNumbersWriteOrder[f]
        PROVE  i = 1 /\ f \in Nat /\ f + 1 \in DOMAIN s /\ fileNumbersWriteOrder[f][i] = s[f + 1]
    BY <2>5
  <2>8. RecordOnce
    <3>1. fileNumbersWriteOrder \in [FileNumbers -> Seq(Ranks)]
      BY <2>4, <2>6
    <3>2. ASSUME NEW f \in FileNumbers, NEW g \in FileNumbers,
                 NEW i \in DOMAIN fileNumbersWriteOrder[f], NEW j \in DOMAIN fileNumbersWriteOrder[g],
                 fileNumbersWriteOrder[f][i] = fileNumbersWriteOrder[g][j]
          PROVE  f = g /\ i = j
      <4>1. /\ i = 1 /\ f \in Nat /\ f + 1 \in DOMAIN s /\ fileNumbersWriteOrder[f][i] = s[f + 1]
            /\ j = 1 /\ g \in Nat /\ g + 1 \in DOMAIN s /\ fileNumbersWriteOrder[g][j] = s[g + 1]
        BY <2>7
      <4>2. f + 1 = g + 1
        BY <2>3, <3>2, <4>1
      <4> QED
        BY <4>1, <4>2
    <3> QED
      BY <3>1, <3>2 DEF RecordOnce
  <2>9. ASSUME NEW x \in conf.data PROVE Listed(x)
    <3>1. PICK i \in DOMAIN s : s[i] = x
      BY <2>3
    <3>2. PICK f : f = i - 1
      OBVIOUS
    <3>3. f \in FileNumbers /\ f < n /\ f + 1 = i
      BY <2>3, <3>2, NProcsAssumption DEF FileNumbers
    <3>4. fileNumbersWriteOrder[f] = <<x>>
      BY <2>4, <3>1, <3>3
    <3>5. x \in Range(fileNumbersWriteOrder[f])
      BY <3>4 DEF Range
    <3> QED
      BY <3>3, <3>5 DEF Listed
  <2>10. SparseRecord
    BY <1>3, <1>5, <2>6, <2>9 DEF SparseRecord, At, Wrote
  <2> QED
    BY <1>4, <1>5, <1>9, <2>8, <2>10 DEF HeaderIInv, StaticRecord, DynamicRecord, HeaderFromRecord
<1>10. CASE conf.mode = "dynamic"
  <2>1. \A f \in FileNumbers : fileNumbersWriteOrder[f] = <<>>
    BY <1>2, <1>10 DEF NoOrder
  <2>2. RecordOnce
    <3>1. fileNumbersWriteOrder \in [FileNumbers -> Seq(Ranks)]
      <4>1. <<>> \in Seq(Ranks)
        OBVIOUS
      <4> QED
        BY <1>2, <1>10, <4>1 DEF NoOrder
    <3>2. \A f \in FileNumbers : DOMAIN fileNumbersWriteOrder[f] = {}
      BY <2>1
    <3> QED
      BY <3>1, <3>2 DEF RecordOnce
  <2>3. SetZeroProcs \subseteq Ranks /\ ~Coordinating
    BY <1>4, <1>5 DEF SetZeroProcs, Coordinating, Early
  <2>4. FirstRecord
    BY <1>2, <1>5, <2>3 DEF FirstRecord, At, Wrote, InTransit
  <2>5. \A r \in SetZeroProcs : fileNumber[r] = FileNumber(r)
    BY <1>2, <2>3
  <2>6. DynamicRecord
    BY <2>3, <2>4, <2>5 DEF DynamicRecord
  <2> QED
    BY <1>4, <1>5, <1>10, <2>2, <2>6 DEF HeaderIInv, StaticRecord, SparseRecord, HeaderFromRecord
<1> QED
  BY <1>3, <1>8, <1>9, <1>10

\* In every reachable state of VisMF::Write the record of the writes agrees with the files,
\* as far as they are written, and the header with the record.
THEOREM HeaderInvariance == Spec => []HeaderIInv
  BY WriterInvariance, MessageInvariance, InitRecord, StepRecord, PTL DEF Spec

\* At the end, in all modes, what the record says of a file is what is in it.
LEMMA RecordIsFiles ==
    ASSUME WriterIInv, MessageIInv, HeaderIInv, msgs = {}, \A r \in Ranks : At(r, "gone"),
           NEW f \in FileNumbers, NEW i \in DOMAIN fileNumbersWriteOrder[f],
           fileNumbersWriteOrder[f][i] \in conf.data
    PROVE  files[IF conf.mode = "sparse" THEN fileNumbersWriteOrder[f][i] ELSE f]
              = fileNumbersWriteOrder[f]
<1>1. PICK x : x = fileNumbersWriteOrder[f][i]
  OBVIOUS
<1>2. /\ TypeOK /\ ModesKept /\ OneOwner
      /\ RecordOnce /\ StaticRecord /\ SparseRecord /\ DynamicRecord
      /\ conf.mode \in {"static", "sparse", "dynamic"}
      /\ x \in Ranks /\ Root \in Ranks /\ Ranks \subseteq Nat
      /\ fileNumbersWriteOrder[f] \in Seq(Ranks) /\ files[f] \in Seq(Ranks \cup {Old})
      /\ \A r \in Ranks : pc[r] = "gone"
      /\ x \in Range(fileNumbersWriteOrder[f])
  BY <1>1, RootIsRank, RankNumbers
     DEF WriterIInv, TypeOK, HeaderIInv, RecordOnce, Configurations, At, Range
<1>3. CASE conf.mode = "static"
  <2>1. /\ Ascends(fileNumbersWriteOrder[f])
        /\ Range(fileNumbersWriteOrder[f]) = {r \in Ranks : FileNumber(r) = f}
        /\ (\E r \in Ranks : FileNumber(r) = f /\ ~At(r, "start")) =>
              /\ Ascends(files[f])
              /\ Range(files[f]) = {r \in Ranks : FileNumber(r) = f /\ Wrote(r)}
    BY <1>2, <1>3 DEF StaticRecord
  <2>2. FileNumber(x) = f /\ ~At(x, "start")
    BY <1>2, <2>1 DEF At
  <2>3. {r \in Ranks : FileNumber(r) = f /\ Wrote(r)} = {r \in Ranks : FileNumber(r) = f}
    BY <1>2 DEF Wrote
  <2>4. Ascends(files[f]) /\ Range(files[f]) = Range(fileNumbersWriteOrder[f])
    BY <1>2, <2>1, <2>2, <2>3
  <2>5. files[f] \in Seq(Ranks)
    <3>1. \A j \in DOMAIN files[f] : files[f][j] \in Ranks
      BY <2>1, <2>4 DEF Range
    <3> QED
      BY <1>2, <3>1
  <2>6. files[f] = fileNumbersWriteOrder[f]
    BY <1>2, <2>1, <2>4, <2>5, AscendingEqual
  <2> QED
    BY <1>3, <2>6
<1>4. CASE conf.mode = "sparse"
  <2>1. files[x] = <<x>>
    BY <1>1, <1>2, <1>4 DEF SparseRecord, Wrote
  <2>2. Len(fileNumbersWriteOrder[f]) <= 1
    BY <1>4, <1>2 DEF SparseRecord
  <2>3. fileNumbersWriteOrder[f] = <<x>>
    BY <1>1, <1>2, <2>2
  <2> QED
    BY <1>1, <1>4, <2>1, <2>3
<1>5. CASE conf.mode = "dynamic"
  <2>1. Coordinating
    BY <1>2, <1>5, BeforeCoordinator DEF Early
  <2>2. FileRecord(f)
    BY <1>2, <1>5, <2>1, DynamicParts
  <2>3. \A r \in Ranks : ~HasToWrite(r, f)
    BY <1>2 DEF HasToWrite, First, At, InTransit
  <2>4. fileNumbersWriteOrder[f] # <<>>
    BY <1>2
  <2>5. files[f] = fileNumbersWriteOrder[f]
    BY <2>2, <2>3, <2>4 DEF FileRecord
  <2> QED
    BY <1>5, <2>5
<1> QED
  BY <1>2, <1>3, <1>4, <1>5

\* When all ranks have gone, the header names for every rank's data a file that holds them
\* at the offset it gives, with any number of ranks and files, in all modes and whatever
\* the order of the writes and of the messages was.
THEOREM HeaderTrueAlways == Spec => []HeaderTrue
<1>1. WriterIInv /\ MessageIInv /\ HeaderIInv /\ NoStrayMessages => HeaderTrue
  <2> SUFFICES ASSUME WriterIInv, MessageIInv, HeaderIInv, NoStrayMessages,
                      \A r \in Ranks : At(r, "gone")
               PROVE  /\ DOMAIN header = conf.data
                      /\ \A r \in conf.data :
                            LET s == files[header[r].file]
                            IN  \E i \in DOMAIN s :
                                   s[i] = r /\ Length(conf.data, SubSeq(s, 1, i - 1)) = header[r].offset
    BY DEF HeaderTrue
  <2>1. msgs = {} /\ pc[Root] = "gone"
    BY RootIsRank DEF NoStrayMessages, At, WriterIInv
  <2>2. /\ DOMAIN header = conf.data
        /\ \A r \in conf.data :
              \E f \in FileNumbers : \E i \in DOMAIN fileNumbersWriteOrder[f] :
                 /\ fileNumbersWriteOrder[f][i] = r
                 /\ header[r] = [file |-> IF conf.mode = "sparse" THEN r ELSE f,
                                 offset |-> Length(conf.data, SubSeq(fileNumbersWriteOrder[f], 1, i - 1))]
    BY <2>1 DEF HeaderIInv, HeaderFromRecord
  <2>3. ASSUME NEW r \in conf.data
        PROVE  \E i \in DOMAIN files[header[r].file] :
                  /\ files[header[r].file][i] = r
                  /\ Length(conf.data, SubSeq(files[header[r].file], 1, i - 1)) = header[r].offset
    <3>1. PICK f \in FileNumbers :
             \E i \in DOMAIN fileNumbersWriteOrder[f] :
                 /\ fileNumbersWriteOrder[f][i] = r
                 /\ header[r] = [file |-> IF conf.mode = "sparse" THEN r ELSE f,
                                 offset |-> Length(conf.data, SubSeq(fileNumbersWriteOrder[f], 1, i - 1))]
      BY <2>2
    <3>2. PICK i \in DOMAIN fileNumbersWriteOrder[f] :
             /\ fileNumbersWriteOrder[f][i] = r
             /\ header[r] = [file |-> IF conf.mode = "sparse" THEN r ELSE f,
                             offset |-> Length(conf.data, SubSeq(fileNumbersWriteOrder[f], 1, i - 1))]
      BY <3>1
    <3>3. files[header[r].file] = fileNumbersWriteOrder[f]
      <4>1. files[IF conf.mode = "sparse" THEN fileNumbersWriteOrder[f][i] ELSE f]
               = fileNumbersWriteOrder[f]
        BY <2>1, <3>2, RecordIsFiles
      <4>2. header[r].file = IF conf.mode = "sparse" THEN r ELSE f
        BY <3>2
      <4> QED
        BY <3>2, <4>1, <4>2
    <3>4. header[r].offset = Length(conf.data, SubSeq(fileNumbersWriteOrder[f], 1, i - 1))
      BY <3>2
    <3> QED
      BY <3>2, <3>3, <3>4
  <2> QED
    BY <2>2, <2>3
<1> QED
  BY <1>1, WriterInvariance, MessageInvariance, NoStrayMessagesAlways, HeaderInvariance, PTL
=============================================================================

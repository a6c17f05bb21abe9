-------------------------- MODULE AsyncWriteProofs --------------------------
(***************************************************************************)
(* Proofs about AsyncWrite, for any number of ranks, files and writes.     *)
(* The turns rest on a count: the barriers a rank has entered are fixed by *)
(* the job it runs and by where it is in it, so a rank that has had its    *)
(* turn knows how far the others of its file have come.  That the files a  *)
(* rank shares are those of GetWriteInfo, and that no two ranks of a file  *)
(* have one spot, is arithmetic.  The offsets of the header are sums over  *)
(* a file's ranks, equal to the lengths of what is written before a rank   *)
(* because both grow by the same amounts in the same order.                *)
(***************************************************************************)
EXTENDS AsyncWrite, SequenceTheorems, WellFoundedInduction, TLAPS

-----------------------------------------------------------------------------
(***************************************************************************)
(* Arithmetic                                                              *)
(***************************************************************************)

\* Division by a positive number.
LEMMA DivMod ==
    ASSUME NEW a \in Nat, NEW b \in Nat \ {0}
    PROVE  /\ a \div b \in Nat
           /\ a % b \in 0 .. b - 1
           /\ a = b * (a \div b) + (a % b)
  BY Z3

\* Multiplication is monotone.
LEMMA MulMono ==
    ASSUME NEW a \in Nat, NEW b \in Nat, NEW c \in Nat, a <= b
    PROVE  c * a <= c * b
  BY Z3

LEMMA MulNat == ASSUME NEW a \in Nat, NEW b \in Nat PROVE a * b \in Nat
  BY Z3

LEMMA DivBelow ==
    ASSUME NEW a \in Nat, NEW b \in Nat \ {0}, NEW c \in Nat, a < b * c
    PROVE  a \div b < c
<1>1. SUFFICES ASSUME c <= a \div b PROVE FALSE
  BY DivMod
<1>2. b * c <= b * (a \div b)
  BY <1>1, DivMod, MulMono
<1>3. b * (a \div b) \in Nat /\ b * c \in Nat
  BY DivMod, MulNat
<1> QED
  BY <1>2, <1>3, DivMod

-----------------------------------------------------------------------------
(***************************************************************************)
(* GetWriteInfo                                                            *)
(***************************************************************************)
\* nfull files of nmaxspots ranks, and the others of one less, have room for all.
LEMMA Grid ==
    ASSUME s_noutfiles \in Files
    PROVE  /\ s_noutfiles \in Nat \ {0}
           /\ nmaxspots \in Nat \ {0}
           /\ nfull \in 1 .. s_noutfiles
           /\ NProcs = nfull * nmaxspots + (s_noutfiles - nfull) * (nmaxspots - 1)
<1> DEFINE s == s_noutfiles
           a == NProcs + s - 1
           n == nmaxspots
<1>1. NProcs \in Nat \ {0} /\ s \in 1..NProcs
  BY CountsAssumption
<1>2. a \in Nat /\ s \in Nat \ {0} /\ s <= a /\ n = a \div s
  BY <1>1 DEF nmaxspots
<1>3. n \in Nat /\ a % s \in 0 .. s - 1 /\ a = s * n + (a % s)
  BY <1>2, DivMod
<1>4. n # 0
  BY <1>2, <1>3
<1>5. nfull = (a % s) + 1
  <2>1. nfull = s + NProcs - n * s
    BY DEF nfull
  <2> HIDE DEF n, a
  <2>2. n * s = s * n /\ s * n \in Nat
    BY <1>2, <1>3, MulNat
  <2>3. a = NProcs + s - 1
    BY DEF a
  <2> QED
    BY <1>1, <1>3, <2>1, <2>2, <2>3
<1>6. nfull \in 1 .. s
  <2> HIDE DEF a, s
  <2> QED
    BY <1>2, <1>3, <1>5
<1>7. NProcs = nfull * n + (s - nfull) * (n - 1)
  <2>1. nfull = s + NProcs - n * s
    BY DEF nfull
  <2> HIDE DEF n
  <2>3. ASSUME NEW u \in Int, NEW v \in Int, NEW w \in Int, NEW f \in Int, f = v + u - w * v
        PROVE  u = f * w + (v - f) * (w - 1)
    BY <2>3, Z3
  <2> QED
    BY <1>1, <1>3, <1>6, <2>1, <2>3
<1> QED
  BY <1>1, <1>3, <1>4, <1>6, <1>7

\* Where a rank is in the grid, and that it can be found back from there.
LEMMA Place ==
    ASSUME s_noutfiles \in Files, NEW r \in Ranks
    PROVE  /\ File(r) \in FileNumbers
           /\ Spots(r) \in Nat
           /\ Spot(r) \in 0 .. Spots(r) - 1
           /\ \/ /\ File(r) < nfull
                 /\ Spots(r) = nmaxspots
                 /\ r = nmaxspots * File(r) + Spot(r)
              \/ /\ File(r) >= nfull
                 /\ Spots(r) = nmaxspots - 1
                 /\ r = nfull * nmaxspots + (nmaxspots - 1) * (File(r) - nfull) + Spot(r)
<1> DEFINE s == s_noutfiles
           n == nmaxspots
           f == nfull
           q == r - f * n
<1>1. /\ NProcs \in Nat \ {0} /\ s \in Nat \ {0} /\ n \in Nat \ {0} /\ f \in 1 .. s
      /\ NProcs = f * n + (s - f) * (n - 1)
  BY Grid, CountsAssumption
<1>2. r \in Nat /\ r < NProcs
  BY <1>1 DEF Ranks
<1>3. CASE r < f * n
  <2>1. File(r) = r \div n /\ Spot(r) = r % n /\ Spots(r) = n
    BY <1>3 DEF File, Spot, Spots, GetWriteInfo
  <2> HIDE DEF n, f, s
  <2>2. r \div n \in Nat /\ r % n \in 0 .. n - 1 /\ r = n * (r \div n) + (r % n)
    BY <1>1, <1>2, DivMod
  <2>3. r < n * f
    BY <1>1, <1>3
  <2>4. r \div n < f
    BY <1>1, <1>2, <2>3, DivBelow
  <2>5. r \div n \in 0 .. s - 1
    BY <1>1, <2>2, <2>4
  <2> QED
    BY <1>1, <2>1, <2>2, <2>4, <2>5 DEF FileNumbers, n, f, s
<1>4. CASE ~(r < f * n)
  <2>1. File(r) = f + q \div (n - 1) /\ Spot(r) = q % (n - 1) /\ Spots(r) = n - 1
    BY <1>4 DEF File, Spot, Spots, GetWriteInfo
  <2>2. f * n \in Nat /\ (s - f) * (n - 1) \in Nat
    BY <1>1, MulNat
  <2> HIDE DEF n, f, s
  <2>3. q \in Nat /\ r = f * n + q /\ q < (s - f) * (n - 1)
    BY <1>1, <1>2, <1>4, <2>2
  <2>4. n - 1 \in Nat \ {0}
    <3>1. SUFFICES ASSUME n - 1 = 0 PROVE FALSE
      BY <1>1
    <3>2. (s - f) * (n - 1) = 0
      BY <1>1, <3>1
    <3> QED
      BY <2>3, <3>2
  <2> HIDE DEF q
  <2>5. q \div (n - 1) \in Nat /\ q % (n - 1) \in 0 .. (n - 1) - 1
        /\ q = (n - 1) * (q \div (n - 1)) + (q % (n - 1))
    BY <2>3, <2>4, DivMod
  <2>6. s - f \in Nat /\ q < (n - 1) * (s - f)
    BY <1>1, <2>3
  <2>7. q \div (n - 1) < s - f
    BY <2>3, <2>4, <2>6, DivBelow
  <2>8. File(r) \in 0 .. s - 1 /\ File(r) >= f /\ File(r) - f = q \div (n - 1)
    BY <1>1, <2>1, <2>5, <2>7
  <2>9. r = f * n + (n - 1) * (File(r) - f) + Spot(r)
    BY <1>1, <2>1, <2>2, <2>3, <2>5, <2>8
  <2> QED
    BY <1>1, <2>1, <2>4, <2>5, <2>8, <2>9 DEF FileNumbers, n, f, s
<1> QED
  BY <1>3, <1>4

\* The ranks of a file have as many spots, and no two the same one.
LEMMA Places ==
    ASSUME s_noutfiles \in Files, NEW r \in Ranks, NEW q \in Ranks, File(r) = File(q)
    PROVE  /\ Spots(r) = Spots(q)
           /\ Spot(r) = Spot(q) => r = q
<1>1. nfull \in Nat /\ nmaxspots \in Nat /\ File(r) \in Nat
  BY Grid, Place DEF FileNumbers
<1>2. CASE File(r) < nfull
  <2>1. r = nmaxspots * File(r) + Spot(r) /\ q = nmaxspots * File(r) + Spot(q)
    BY <1>1, <1>2, Place
  <2> QED
    BY <1>1, <1>2, <2>1, Place
<1>3. CASE ~(File(r) < nfull)
  <2>1. /\ r = nfull * nmaxspots + (nmaxspots - 1) * (File(r) - nfull) + Spot(r)
        /\ q = nfull * nmaxspots + (nmaxspots - 1) * (File(r) - nfull) + Spot(q)
    BY <1>1, <1>3, Place
  <2> QED
    BY <1>1, <1>3, <2>1, Place
<1> QED
  BY <1>2, <1>3

\* Quotient and remainder are determined.
LEMMA DivModUnique ==
    ASSUME NEW b \in Nat \ {0}, NEW q \in Nat, NEW r \in 0 .. b - 1
    PROVE  (b * q + r) \div b = q /\ (b * q + r) % b = r
  BY Z3

\* In a file the ranks follow each other as their spots do.
LEMMA InRow ==
    ASSUME s_noutfiles \in Files, NEW r \in Ranks
    PROVE  /\ r = 0 => Spot(r) = 0
           /\ \A q \in Ranks : File(q) = File(r) => r - q = Spot(r) - Spot(q)
           /\ Spot(r) > 0 => r - 1 \in Ranks /\ File(r - 1) = File(r)
<1> DEFINE n == nmaxspots
           f == nfull
<1>1. n \in Nat \ {0} /\ f \in Nat \ {0} /\ NProcs \in Nat
  BY Grid, CountsAssumption
<1>2. /\ File(r) \in Nat /\ Spot(r) \in Nat /\ r \in Nat
      /\ \A q \in Ranks : Spot(q) \in Nat /\ q \in Nat
  BY <1>1, Place DEF Ranks, FileNumbers
<1>3. CASE File(r) < nfull
  <2>1. r = n * File(r) + Spot(r) /\ Spots(r) = n /\ Spot(r) \in 0 .. n - 1
    BY <1>1, <1>2, <1>3, Place
  <2>2. n * File(r) \in Nat
    BY <1>1, <1>2, MulNat
  <2>3. ASSUME NEW q \in Ranks, File(q) = File(r) PROVE q = n * File(r) + Spot(q)
    BY <1>1, <1>2, <1>3, <2>3, Place
  <2>4. ASSUME Spot(r) > 0 PROVE r - 1 \in Ranks /\ File(r - 1) = File(r)
    <3> DEFINE p == Spot(r) - 1
    <3>1. p \in 0 .. n - 1 /\ r - 1 = n * File(r) + p /\ r - 1 \in Ranks
      BY <1>1, <1>2, <2>1, <2>2, <2>4 DEF Ranks
    <3> HIDE DEF p, n
    <3>2. (r - 1) \div n = File(r)
      BY <1>1, <1>2, <3>1, DivModUnique
    <3>3. n * (File(r) + 1) <= n * f /\ n * (File(r) + 1) = n * File(r) + n /\ n * f = f * n
      <4>1. File(r) + 1 \in Nat /\ File(r) + 1 <= f
        BY <1>1, <1>2, <1>3 DEF f
      <4>2. \A a, b \in Nat : a * (b + 1) = a * b + a /\ a * b = b * a
        BY Z3
      <4> QED
        BY <1>1, <1>2, <4>1, <4>2, MulMono
    <3>4. r - 1 < f * n
      <4>1. n * File(r) \in Nat /\ f * n \in Nat
        BY <1>1, <1>2, MulNat
      <4> QED
        BY <1>1, <3>1, <3>3, <4>1
    <3> QED
      BY <3>1, <3>2, <3>4 DEF File, GetWriteInfo, n, f
  <2> HIDE DEF n, f
  <2> QED
    BY <1>1, <1>2, <2>1, <2>2, <2>3, <2>4
<1>4. CASE ~(File(r) < nfull)
  <2> DEFINE g == File(r) - nfull
             c == f * n + (n - 1) * g
  <2>1. r = c + Spot(r) /\ Spots(r) = n - 1 /\ Spot(r) \in 0 .. (n - 1) - 1 /\ n - 1 \in Nat \ {0}
    BY <1>1, <1>2, <1>4, Place
  <2>2. g \in Nat /\ f * n \in Nat \ {0} /\ (n - 1) * g \in Nat
    <3>1. g \in Nat
      BY <1>1, <1>2, <1>4
    <3>2. \A a, b \in Nat \ {0} : a * b \in Nat \ {0}
      BY Z3
    <3> QED
      BY <1>1, <2>1, <3>1, <3>2, MulNat
  <2>3. ASSUME NEW q \in Ranks, File(q) = File(r) PROVE q = c + Spot(q)
    BY <1>1, <1>2, <1>4, <2>3, Place
  <2>4. ASSUME Spot(r) > 0 PROVE r - 1 \in Ranks /\ File(r - 1) = File(r)
    <3> DEFINE p == Spot(r) - 1
    <3> HIDE DEF g, n, f
    <3>1. /\ p \in 0 .. (n - 1) - 1 /\ (r - 1) - f * n = (n - 1) * g + p /\ r - 1 \in Ranks
          /\ ~(r - 1 < f * n)
      BY <1>1, <1>2, <2>1, <2>2, <2>4 DEF Ranks
    <3> HIDE DEF p
    <3>2. ((r - 1) - f * n) \div (n - 1) = g
      BY <2>1, <2>2, <3>1, DivModUnique
    <3>3. File(r - 1) = f + ((r - 1) - f * n) \div (n - 1)
      BY <3>1 DEF File, GetWriteInfo, n, f
    <3> QED
      BY <1>1, <1>2, <3>1, <3>2, <3>3 DEF g, f
  <2> HIDE DEF n, f, g
  <2> QED
    BY <1>1, <1>2, <2>1, <2>2, <2>3, <2>4
<1> QED
  BY <1>3, <1>4

\* The files and the ranks' places in them do not change.
LEMMA SamePlaces ==
    ASSUME UNCHANGED conf
    PROVE  /\ s_noutfiles' = s_noutfiles /\ layout' = layout
           /\ FileNumbers' = FileNumbers
           /\ \A r \in Ranks : /\ File(r)' = File(r)
                              /\ Spot(r)' = Spot(r)
                              /\ Spots(r)' = Spots(r)
                              /\ Comm(r)' = Comm(r)
<1>1. s_noutfiles' = s_noutfiles /\ layout' = layout
  BY DEF conf
<1>2. nmaxspots' = nmaxspots /\ nfull' = nfull
  BY <1>1 DEF nmaxspots, nfull
<1>3. \A r \in Ranks : GetWriteInfo(r)' = GetWriteInfo(r)
  BY <1>2 DEF GetWriteInfo
<1>4. \A r \in Ranks : File(r)' = File(r) /\ Spot(r)' = Spot(r) /\ Spots(r)' = Spots(r)
  BY <1>3 DEF File, Spot, Spots
<1>5. \A r \in Ranks : Comm(r)' = Comm(r)
  BY <1>4 DEF Comm
<1> QED
  BY <1>1, <1>4, <1>5 DEF FileNumbers

-----------------------------------------------------------------------------
(***************************************************************************)
(* Offsets and lengths.  Both are defined by a recursion that starts again *)
(* at some places and elsewhere adds something to the value before.        *)
(***************************************************************************)
\* A set of natural numbers has a least member.
LEMMA LeastNumber ==
    ASSUME NEW T \in SUBSET Nat, T # {}
    PROVE  \E n \in T : \A m \in T : n <= m
<1> DEFINE Less == OpToRel(<, Nat)
<1>1. IsWellFoundedOn(Less, Nat)
  BY NatLessThanWellFounded
<1> HIDE DEF Less
<1>2. PICK n \in T : \A m \in T : ~(<<m, n>> \in Less)
  BY <1>1, WFMin
<1>3. ASSUME NEW m \in T, m < n PROVE FALSE
  <2>1. <<m, n>> \in Less
    BY <1>3 DEF Less, OpToRel
  <2> QED
    BY <1>2, <2>1
<1> QED
  BY <1>3

\* What holds at 0, and at a number if it holds at the one before, holds up to N.
LEMMA UpTo ==
    ASSUME NEW N \in Nat, NEW T, 0 \in T, \A n \in 1 .. N : n - 1 \in T => n \in T
    PROVE  0 .. N \subseteq T
<1> DEFINE Bad == (0 .. N) \ T
<1> SUFFICES ASSUME Bad # {} PROVE FALSE
  OBVIOUS
<1>1. Bad \in SUBSET Nat
  OBVIOUS
<1>2. PICK n \in Bad : \A m \in Bad : n <= m
  BY <1>1, LeastNumber
<1>3. n \in 1 .. N /\ n - 1 \in 0 .. N
  BY <1>2
<1>4. n - 1 \notin Bad
  BY <1>2, <1>3
<1> QED
  BY <1>2, <1>3, <1>4

\* Sums is such a recursion: it starts at the numbers in z and adds d.
Sums(g, N, z, d) ==
    /\ g \in [0 .. N -> Nat]
    /\ \A n \in 0 .. N : g[n] = IF n \in z THEN 0 ELSE g[n - 1] + d[n]

LEMMA SumsExist ==
    ASSUME NEW N \in Nat, NEW z, 0 \in z, NEW d \in [0 .. N -> Nat]
    PROVE  \E g : Sums(g, N, z, d)
<1> DEFINE Value(g, n) == IF n \in z THEN 0 ELSE g[n - 1] + d[n]
           Good(m) == \E g \in [0 .. N -> Nat] : \A n \in 0 .. m : g[n] = Value(g, n)
           T == {m \in 0 .. N : Good(m)}
<1>1. 0 \in T
  <2>1. [n \in 0 .. N |-> 0] \in [0 .. N -> Nat]
    OBVIOUS
  <2>2. \A n \in 0 .. 0 : [i \in 0 .. N |-> 0][n] = Value([i \in 0 .. N |-> 0], n)
    OBVIOUS
  <2>3. Good(0)
    BY <2>1, <2>2
  <2> QED
    BY <2>3
<1>2. ASSUME NEW m \in 1 .. N, m - 1 \in T PROVE m \in T
  <2>1. PICK g \in [0 .. N -> Nat] : \A n \in 0 .. m - 1 : g[n] = Value(g, n)
    BY <1>2
  <2> DEFINE h == [g EXCEPT ![m] = Value(g, m)]
  <2>2. Value(g, m) \in Nat
    OBVIOUS
  <2>3. h \in [0 .. N -> Nat] /\ h[m] = Value(g, m) /\ \A n \in 0 .. N : n # m => h[n] = g[n]
    BY <2>2
  <2> HIDE DEF h
  <2>4. \A n \in 0 .. m : n \notin z => n - 1 \in 0 .. N /\ n - 1 # m
    OBVIOUS
  <2>5. \A n \in 0 .. m : Value(h, n) = Value(g, n)
    BY <2>3, <2>4
  <2>6. \A n \in 0 .. m : n # m => n \in 0 .. m - 1
    OBVIOUS
  <2>7. \A n \in 0 .. m : h[n] = Value(h, n)
    BY <2>1, <2>3, <2>5, <2>6
  <2> HIDE DEF Value
  <2>8. Good(m) /\ m \in 0 .. N
    BY <2>3, <2>7
  <2> QED
    BY <2>8
<1>3. N \in T
  <2> HIDE DEF T
  <2>1. \A n \in 1 .. N : n - 1 \in T => n \in T
    BY <1>2
  <2>2. 0 .. N \subseteq T
    BY <1>1, <2>1, UpTo
  <2> QED
    BY <2>2
<1>4. PICK g \in [0 .. N -> Nat] : \A n \in 0 .. N : g[n] = Value(g, n)
  BY <1>3
<1> QED
  BY <1>4 DEF Sums

\* Two of them agree as far as what they add does.
LEMMA SumsAgree ==
    ASSUME NEW N \in Nat, NEW M \in Nat, M <= N, NEW z, 0 \in z, NEW d, NEW e, NEW g, NEW h,
           Sums(g, M, z, d), Sums(h, N, z, e), \A n \in 1 .. M : d[n] = e[n]
    PROVE  \A n \in 0 .. M : g[n] = h[n]
<1> DEFINE T == {n \in 0 .. M : g[n] = h[n]}
<1>1. 0 \in T
  BY DEF Sums
<1>2. ASSUME NEW n \in 1 .. M, n - 1 \in T PROVE n \in T
  <2>1. n \in 0 .. M /\ n \in 0 .. N /\ g[n - 1] = h[n - 1] /\ d[n] = e[n]
    BY <1>2
  <2> QED
    BY <2>1 DEF Sums
<1>3. 0 .. M \subseteq T
  <2> HIDE DEF T
  <2>1. \A n \in 1 .. M : n - 1 \in T => n \in T
    BY <1>2
  <2> QED
    BY <1>1, <2>1, UpTo
<1> QED
  BY <1>3

\* The length of a rank's data is a number.
LEMMA BytesType ==
    ASSUME s_noutfiles \in Files, layout \in [Writes -> Layouts], NEW w \in Writes, NEW r \in Ranks
    PROVE  BytesOf(w, r) \in Nat
  BY CountsAssumption DEF BytesOf, Ranks

\* The length of a sequence of data, by the recursion that defines it.
LEMMA LengthSums ==
    ASSUME NEW w, NEW s \in Seq(Ranks), \A r \in Ranks : BytesOf(w, r) \in Nat
    PROVE  \E g : /\ Sums(g, Len(s), {0}, [n \in 0 .. Len(s) |-> IF n = 0 THEN 0 ELSE BytesOf(w, s[n])])
                  /\ Length(w, s) = g[Len(s)]
<1> DEFINE d == [n \in 0 .. Len(s) |-> IF n = 0 THEN 0 ELSE BytesOf(w, s[n])]
           Value(g, n) == IF n = 0 THEN 0 ELSE g[n - 1] + BytesOf(w, s[n])
           length == CHOOSE g : g = [n \in 0 .. Len(s) |-> Value(g, n)]
<1>1. Len(s) \in Nat /\ \A n \in 1 .. Len(s) : s[n] \in Ranks
  OBVIOUS
<1>2. d \in [0 .. Len(s) -> Nat]
  BY <1>1
<1>3. PICK h : Sums(h, Len(s), {0}, d)
  <2> HIDE DEF d
  <2> QED
    BY <1>1, <1>2, SumsExist
<1>4. h = [n \in 0 .. Len(s) |-> Value(h, n)]
  BY <1>3 DEF Sums
<1>5. length = [n \in 0 .. Len(s) |-> Value(length, n)]
  <2> HIDE DEF Value
  <2> QED
    BY <1>4
<1>6. Length(w, s) = length[Len(s)]
  BY Zenon DEF Length
<1>7. Sums(length, Len(s), {0}, d)
  <2> HIDE DEF length
  <2> DEFINE T == {n \in 0 .. Len(s) : length[n] \in Nat}
  <2>1. 0 \in T
    BY <1>1, <1>5
  <2>2. ASSUME NEW n \in 1 .. Len(s), n - 1 \in T PROVE n \in T
    <3>1. n \in 0 .. Len(s) /\ n # 0 /\ BytesOf(w, s[n]) \in Nat
      BY <1>1
    <3>2. length[n] = Value(length, n)
      <4> HIDE DEF Value
      <4> QED
        BY <1>5, <3>1
    <3> QED
      BY <2>2, <3>1, <3>2
  <2>3. 0 .. Len(s) \subseteq T
    <3> HIDE DEF T
    <3>1. \A n \in 1 .. Len(s) : n - 1 \in T => n \in T
      BY <2>2
    <3> QED
      BY <1>1, <2>1, <3>1, UpTo
  <2>4. length \in [0 .. Len(s) -> Nat]
    <3> HIDE DEF Value
    <3> QED
      BY <1>5, <2>3
  <2>5. \A n \in 0 .. Len(s) : length[n] = IF n \in {0} THEN 0 ELSE length[n - 1] + d[n]
    BY <1>5
  <2> QED
    BY <2>4, <2>5 DEF Sums
<1> QED
  BY <1>6, <1>7

\* It is 0 at first, and grows by what is appended.
LEMMA LengthOfPrefix ==
    ASSUME NEW w, NEW s \in Seq(Ranks), \A r \in Ranks : BytesOf(w, r) \in Nat
    PROVE  /\ Length(w, SubSeq(s, 1, 0)) = 0
           /\ \A k \in 1 .. Len(s) :
                 Length(w, SubSeq(s, 1, k)) = Length(w, SubSeq(s, 1, k - 1)) + BytesOf(w, s[k])
<1> DEFINE d(t) == [n \in 0 .. Len(t) |-> IF n = 0 THEN 0 ELSE BytesOf(w, t[n])]
<1>1. PICK g : Sums(g, Len(s), {0}, d(s))
  BY LengthSums
<1>2. ASSUME NEW k \in 0 .. Len(s) PROVE Length(w, SubSeq(s, 1, k)) = g[k]
  <2> DEFINE t == SubSeq(s, 1, k)
  <2>1. t \in Seq(Ranks) /\ Len(t) = k /\ \A n \in 1 .. k : t[n] = s[n]
    OBVIOUS
  <2> HIDE DEF t
  <2>2. PICK h : Sums(h, Len(t), {0}, d(t)) /\ Length(w, t) = h[Len(t)]
    BY <2>1, LengthSums
  <2>3. k \in Nat /\ Len(s) \in Nat /\ k <= Len(s)
    OBVIOUS
  <2>4. \A n \in 1 .. k : d(t)[n] = d(s)[n]
    BY <2>1, <2>3
  <2> HIDE DEF d
  <2>5. Sums(h, k, {0}, d(t))
    BY <2>1, <2>2
  <2>6. \A n \in 0 .. k : h[n] = g[n]
    <3> DEFINE a == d(s)
               b == d(t)
               z == {0}
    <3>1. Sums(g, Len(s), z, a) /\ Sums(h, k, z, b) /\ 0 \in z /\ \A n \in 1 .. k : b[n] = a[n]
      BY <1>1, <2>4, <2>5
    <3> HIDE DEF a, b, z
    <3> QED
      BY <2>3, <3>1, SumsAgree
  <2>7. Length(w, t) = g[k]
    BY <2>1, <2>2, <2>3, <2>6
  <2> QED
    BY <2>7 DEF t
<1>3. ASSUME NEW k \in 1 .. Len(s) PROVE g[k] = g[k - 1] + BytesOf(w, s[k])
  BY <1>1 DEF Sums
<1>4. g[0] = 0
  BY <1>1 DEF Sums
<1>5. \A k \in 1 .. Len(s) : k \in 0 .. Len(s) /\ k - 1 \in 0 .. Len(s)
  OBVIOUS
<1> HIDE DEF d
<1> QED
  BY <1>2, <1>3, <1>4, <1>5

-----------------------------------------------------------------------------
(***************************************************************************)
(* The inductive invariant                                                 *)
(***************************************************************************)
\* The barriers a rank has entered: those of the jobs it has done, and of the job it
\* runs those before its turn, or all of them.
Counting ==
    \A r \in Ranks :
        /\ stage[r] # "idle" => job[r] >= 1
        /\ stage[r] \in {"wait", "write"} =>
              entered[r] = (job[r] - 1) * (Spots(r) - 1) + Spot(r)
        /\ stage[r] \in {"notify", "idle"} => entered[r] = job[r] * (Spots(r) - 1)

HadTurn(r, w) == w < job[r] \/ (w = job[r] /\ stage[r] # "wait")

\* A rank that has had its turn in a write waited for all ranks of its file to enter
\* as many barriers as it had.
TurnCame ==
    \A r \in Ranks : \A w \in Writes : HadTurn(r, w) =>
        \A q \in Comm(r) : entered[q] >= (w - 1) * (Spots(r) - 1) + Spot(r)

\* A file holds the data of its ranks, and only of those that have written.
OfFile ==
    \A w \in Writes : \A f \in FileNumbers : \A i \in DOMAIN files[w][f] :
        \A r \in Ranks : files[w][f][i] = r => (File(r) = f /\ HasWritten(r, w))

\* A rank that has finished has done its jobs, and one that reads has waited for all.
Finishing ==
    \A r \in Ranks :
        /\ finish[r] # "writing" => job[r] = NWrites /\ stage[r] = "idle"
        /\ finish[r] = "reading" => \A q \in Ranks : finish[q] # "writing"

IInv == TypeOK /\ Counting /\ TurnCame /\ OfFile /\ InOrder /\ Kept /\ Finishing

\* A rank that has had its turn in a write comes before one of the same file that has
\* not written yet.
LEMMA TurnOrder ==
    ASSUME TypeOK, Counting, TurnCame, NEW w \in Writes, NEW r \in Ranks, NEW q \in Ranks,
           File(r) = File(q), HadTurn(r, w), ~HasWritten(q, w)
    PROVE  Spot(r) <= Spot(q)
<1> DEFINE n == Spots(q) - 1
<1>1. s_noutfiles \in Files /\ job[q] \in Nat /\ w \in Nat \ {0}
      /\ stage[q] \in {"idle", "wait", "write", "notify"}
  BY CountsAssumption DEF TypeOK, Writes
<1>2. Spots(r) = Spots(q) /\ n \in Nat /\ Spot(r) \in 0 .. n /\ Spot(q) \in 0 .. n
  BY <1>1, Place, Places
<1>3. q \in Comm(r)
  BY DEF Comm
<1>4. entered[q] >= (w - 1) * n + Spot(r)
  BY <1>2, <1>3 DEF TurnCame
<1>5. CASE stage[q] \in {"notify", "idle"}
  <2>1. job[q] <= w - 1
    BY <1>1, <1>5 DEF HasWritten
  <2>2. entered[q] = job[q] * n
    BY <1>5 DEF Counting
  <2> HIDE DEF n
  <2>3. n * job[q] <= n * (w - 1)
    BY <1>1, <1>2, <2>1, MulMono
  <2> QED
    BY <1>1, <1>2, <1>4, <2>2, <2>3, Z3
<1>6. CASE stage[q] \in {"wait", "write"}
  <2>1. job[q] \in 1 .. w
    BY <1>1, <1>6 DEF HasWritten, Counting
  <2>2. entered[q] = (job[q] - 1) * n + Spot(q)
    BY <1>6 DEF Counting
  <2> HIDE DEF n
  <2>3. n * (job[q] - 1) <= n * (w - 1)
    BY <1>1, <1>2, <2>1, MulMono
  <2> QED
    BY <1>1, <1>2, <1>4, <2>1, <2>2, <2>3, Z3
<1> QED
  BY <1>1, <1>5, <1>6

\* Two ranks of a file never write at a time.
LEMMA OneWriterFollows == IInv => OneWriter
<1>1. SUFFICES ASSUME IInv, NEW r \in Ranks, NEW q \in Ranks, r # q, File(r) = File(q),
                      job[r] = job[q], stage[r] = "write", stage[q] = "write"
               PROVE  FALSE
  BY DEF OneWriter
<1>2. job[r] \in Writes
  BY <1>1, CountsAssumption DEF IInv, TypeOK, Counting, Writes
<1>3. /\ HadTurn(r, job[r]) /\ HadTurn(q, job[r])
      /\ ~HasWritten(r, job[r]) /\ ~HasWritten(q, job[r])
  BY <1>1, <1>2 DEF HadTurn, HasWritten, Writes
<1>4. Spot(r) <= Spot(q) /\ Spot(q) <= Spot(r)
  BY <1>1, <1>2, <1>3, TurnOrder DEF IInv
<1>5. Spot(r) \in Int /\ Spot(q) \in Int /\ s_noutfiles \in Files
  BY <1>1, Place DEF IInv, TypeOK
<1> QED
  BY <1>1, <1>4, <1>5, Places

-----------------------------------------------------------------------------
(***************************************************************************)
(* The steps preserve the invariant                                        *)
(***************************************************************************)
LEMMA InitInv == Init => IInv
<1>1. SUFFICES ASSUME Init PROVE IInv
  OBVIOUS
<1>2. \A r \in Ranks : Spots(r) - 1 \in Nat
  BY <1>1, Place DEF Init
<1>3. NWrites \in Nat \ {0} /\ Writes = 1..NWrites
  BY CountsAssumption DEF Writes
<1>4. TypeOK
  <2>1. \A r \in Ranks : NWrites * (Spots(r) - 1) \in Nat
    BY <1>2, <1>3, MulNat
  <2>2. files \in [Writes -> [FileNumbers -> Seq(Ranks)]]
    BY <1>1 DEF Init
  <2> QED
    BY <1>1, <1>3, <2>1, <2>2 DEF Init, TypeOK
<1>5. Counting
  BY <1>1, <1>2 DEF Init, Counting
<1>6. TurnCame
  BY <1>1, <1>3 DEF Init, TurnCame, HadTurn
<1>7. \A w \in Writes : \A f \in FileNumbers : DOMAIN files[w][f] = {}
  BY <1>1 DEF Init
<1>8. OfFile /\ InOrder
  BY <1>7 DEF OfFile, InOrder
<1>9. Kept
  <2>1. \A r \in Ranks : \A w \in Writes : ~HasWritten(r, w)
    BY <1>1, <1>3 DEF Init, HasWritten
  <2>2. \A w \in Writes : layout[w] \subseteq Ranks
    BY <1>1, LayoutsAssumption DEF Init
  <2> QED
    BY <2>1, <2>2 DEF Kept
<1>10. Finishing
  BY <1>1 DEF Init, Finishing
<1> QED
  BY <1>4, <1>5, <1>6, <1>8, <1>9, <1>10 DEF IInv

\* The bound on the barriers follows from the count.
LEMMA EnteredBound ==
    ASSUME s_noutfiles \in Files, job \in [Ranks -> 0..NWrites],
           stage \in [Ranks -> {"idle", "wait", "write", "notify"}], Counting, NEW r \in Ranks
    PROVE  entered[r] \in Nat /\ entered[r] <= NWrites * (Spots(r) - 1)
<1> DEFINE n == Spots(r) - 1
<1>1. n \in Nat /\ Spot(r) \in 0 .. n /\ job[r] \in 0 .. NWrites /\ NWrites \in Nat
  BY Place, CountsAssumption
<1>2. /\ stage[r] # "idle" => job[r] >= 1
      /\ stage[r] \in {"wait", "write"} => entered[r] = (job[r] - 1) * n + Spot(r)
      /\ stage[r] \in {"notify", "idle"} => entered[r] = job[r] * n
  BY DEF Counting
<1> SUFFICES entered[r] \in Nat /\ entered[r] <= NWrites * n
  OBVIOUS
<1> HIDE DEF n
<1>3. job[r] * n <= NWrites * n /\ job[r] * n \in Nat /\ NWrites * n \in Nat
  <2>1. n * job[r] <= n * NWrites
    BY <1>1, MulMono
  <2>2. n * job[r] = job[r] * n /\ n * NWrites = NWrites * n
    BY <1>1
  <2> QED
    BY <1>1, <2>1, <2>2, MulNat
<1>4. CASE stage[r] \in {"notify", "idle"}
  BY <1>1, <1>2, <1>3, <1>4
<1>5. CASE stage[r] \in {"wait", "write"}
  <2>1. job[r] - 1 \in Nat /\ entered[r] = (job[r] - 1) * n + Spot(r)
    BY <1>1, <1>2, <1>5
  <2>2. (job[r] - 1) * n \in Nat /\ (job[r] - 1) * n + n = job[r] * n
    BY <1>1, <2>1, MulNat
  <2> QED
    BY <1>1, <1>3, <2>1, <2>2
<1>6. stage[r] \in {"notify", "idle"} \/ stage[r] \in {"wait", "write"}
  <2>1. stage[r] \in {"idle", "wait", "write", "notify"}
    OBVIOUS
  <2> QED
    BY <2>1
<1> QED
  BY <1>4, <1>5, <1>6

CountedTypes ==
    /\ s_noutfiles \in Files
    /\ job \in [Ranks -> 0..NWrites]
    /\ stage \in [Ranks -> {"idle", "wait", "write", "notify"}]
    /\ Counting

BarrierBound == \A r \in Ranks : entered[r] <= NWrites * (Spots(r) - 1)

\* The same, of the next state.
LEMMA EnteredBoundNext == CountedTypes' => BarrierBound'
<1>1. CountedTypes => BarrierBound
  BY EnteredBound DEF CountedTypes, BarrierBound
<1> QED
  BY <1>1, PTL

\* A step that lets no rank have its turn, and only adds to the barriers entered.
LEMMA TurnCameKept ==
    ASSUME TypeOK, TurnCame, UNCHANGED conf,
           \A r \in Ranks : entered'[r] \in Nat /\ entered'[r] >= entered[r],
           \A r \in Ranks : \A w \in Writes : HadTurn(r, w)' => HadTurn(r, w)
    PROVE  TurnCame'
<1>1. SUFFICES ASSUME NEW r \in Ranks, NEW w \in Writes, HadTurn(r, w)', NEW q \in Comm(r)'
               PROVE  entered'[q] >= (w - 1) * (Spots(r)' - 1) + Spot(r)'
  BY DEF TurnCame
<1>2. q \in Comm(r) /\ q \in Ranks /\ Spots(r)' = Spots(r) /\ Spot(r)' = Spot(r)
  BY <1>1, SamePlaces DEF Comm
<1>3. entered[q] >= (w - 1) * (Spots(r) - 1) + Spot(r)
  BY <1>1, <1>2 DEF TurnCame
<1>4. (w - 1) * (Spots(r) - 1) \in Nat /\ Spot(r) \in Nat
  <2>1. w - 1 \in Nat /\ Spots(r) - 1 \in Nat /\ Spot(r) \in Nat
    BY Place, CountsAssumption DEF TypeOK, Writes
  <2> QED
    BY <2>1, MulNat
<1>5. entered[q] \in Nat /\ entered'[q] \in Nat /\ entered'[q] >= entered[q]
  BY <1>2 DEF TypeOK
<1> HIDE DEF conf
<1> QED
  BY <1>2, <1>3, <1>4, <1>5

\* A step in which nobody writes.
LEMMA FilesKept ==
    ASSUME TypeOK, OfFile, InOrder, Kept, UNCHANGED conf, UNCHANGED files,
           \A r \in Ranks : \A w \in Writes : HasWritten(r, w)' <=> HasWritten(r, w)
    PROVE  OfFile' /\ InOrder' /\ Kept'
<1>1. /\ layout' = layout /\ files' = files /\ FileNumbers' = FileNumbers
      /\ \A r \in Ranks : File(r)' = File(r) /\ Spot(r)' = Spot(r)
  BY SamePlaces
<1>2. OfFile'
  BY <1>1 DEF OfFile
<1>3. InOrder'
  BY <1>1 DEF InOrder
<1>4. Kept'
  <2>1. \A w \in Writes : layout[w] \subseteq Ranks
    BY LayoutsAssumption DEF TypeOK
  <2> QED
    BY <1>1, <2>1 DEF Kept
<1> QED
  BY <1>2, <1>3, <1>4

\* A step of the main thread does not touch the protocol.
LEMMA MainInv == ASSUME IInv, NEW r \in Ranks, MainStep(r) PROVE IInv'
<1>1. /\ UNCHANGED conf /\ UNCHANGED <<job, stage, entered, files>>
      /\ s_noutfiles' = s_noutfiles /\ layout' = layout /\ FileNumbers' = FileNumbers
      /\ \A q \in Ranks : Spots(q)' = Spots(q) /\ Spot(q)' = Spot(q)
  <2>1. UNCHANGED conf /\ UNCHANGED <<job, stage, entered, files>>
    BY DEF MainStep, Gather, Submit, Finish, Barrier
  <2> QED
    BY <2>1, SamePlaces
<1>2. TypeOK'
  <2>1. TypeOK /\ NWrites \in Nat
    BY CountsAssumption DEF IInv
  <2>2. /\ gathered' \in [Ranks -> 0..NWrites]
        /\ submitted' \in [Ranks -> 0..NWrites]
        /\ finish' \in [Ranks -> {"writing", "finished", "reading"}]
        /\ \A q \in Ranks : job'[q] <= submitted'[q] /\ submitted'[q] <= gathered'[q]
    <3>1. CASE Gather(r)
      BY <2>1, <3>1, <1>1 DEF Gather, TypeOK
    <3>2. CASE Submit(r)
      BY <2>1, <3>2, <1>1 DEF Submit, TypeOK
    <3>3. CASE Finish(r)
      BY <2>1, <3>3, <1>1 DEF Finish, TypeOK
    <3>4. CASE Barrier(r)
      BY <2>1, <3>4, <1>1 DEF Barrier, TypeOK
    <3> QED
      BY <3>1, <3>2, <3>3, <3>4 DEF MainStep
  <2> QED
    BY <1>1, <2>1, <2>2 DEF TypeOK
<1>3. Counting'
  BY <1>1 DEF IInv, Counting
<1>4. TurnCame'
  <2>1. \A q \in Ranks : \A w \in Writes : HadTurn(q, w)' => HadTurn(q, w)
    BY <1>1 DEF HadTurn
  <2>2. \A q \in Ranks : entered'[q] \in Nat /\ entered'[q] >= entered[q]
    BY <1>1 DEF IInv, TypeOK
  <2> QED
    BY <1>1, <2>1, <2>2, TurnCameKept DEF IInv
<1>5. OfFile' /\ InOrder' /\ Kept'
  <2>1. \A q \in Ranks : \A w \in Writes : HasWritten(q, w)' <=> HasWritten(q, w)
    BY <1>1 DEF HasWritten
  <2> QED
    BY <1>1, <2>1, FilesKept DEF IInv
<1>6. Finishing'
  <2>1. Finishing /\ TypeOK
    BY DEF IInv
  <2>2. CASE Gather(r) \/ Submit(r)
    BY <1>1, <2>1, <2>2 DEF Gather, Submit, Finishing
  <2>3. CASE Finish(r)
    BY <1>1, <2>1, <2>3 DEF Finish, Finishing, TypeOK
  <2>4. CASE Barrier(r)
    BY <1>1, <2>1, <2>4 DEF Barrier, Finishing, TypeOK
  <2> QED
    BY <2>2, <2>3, <2>4 DEF MainStep
<1> QED
  BY <1>2, <1>3, <1>4, <1>5, <1>6 DEF IInv

\* What the steps of the thread have in common.
LEMMA ThreadFrame ==
    ASSUME IInv, NEW r \in Ranks, ThreadStep(r)
    PROVE  /\ UNCHANGED conf /\ UNCHANGED <<gathered, submitted, finish>>
           /\ s_noutfiles' = s_noutfiles /\ layout' = layout /\ FileNumbers' = FileNumbers
           /\ \A q \in Ranks : /\ File(q)' = File(q) /\ Spots(q)' = Spots(q)
                              /\ Spot(q)' = Spot(q) /\ Comm(q)' = Comm(q)
           /\ \A q \in Ranks : /\ Spots(q) \in Nat /\ Spot(q) \in 0 .. Spots(q) - 1
                               /\ File(q) \in FileNumbers
           /\ Finishing'
<1>1. UNCHANGED conf /\ UNCHANGED <<gathered, submitted, finish>>
  BY DEF ThreadStep, StartJob, Open, WriteAndNotify, EndJob
<1>2. \A q \in Ranks : q # r => job'[q] = job[q] /\ stage'[q] = stage[q]
  BY DEF ThreadStep, StartJob, Open, WriteAndNotify, EndJob, IInv, TypeOK
<1>3. finish[r] = "writing"
  <2>1. TypeOK /\ Finishing /\ NWrites \in Nat
    BY CountsAssumption DEF IInv
  <2>2. job[r] < NWrites \/ stage[r] # "idle"
    BY <2>1 DEF ThreadStep, StartJob, Open, WriteAndNotify, EndJob, TypeOK
  <2> QED
    BY <2>1, <2>2 DEF Finishing, TypeOK
<1>4. Finishing'
  BY <1>1, <1>2, <1>3 DEF IInv, Finishing
<1>5. \A q \in Ranks : /\ Spots(q) \in Nat /\ Spot(q) \in 0 .. Spots(q) - 1
                       /\ File(q) \in FileNumbers
  BY Place DEF IInv, TypeOK
<1> QED
  BY <1>1, <1>4, <1>5, SamePlaces

LEMMA StartJobInv == ASSUME IInv, NEW r \in Ranks, StartJob(r) PROVE IInv'
<1>1. /\ stage[r] = "idle" /\ job[r] < submitted[r] /\ files' = files
      /\ job' = [job EXCEPT ![r] = @ + 1]
      /\ entered' = [entered EXCEPT ![r] = @ + Spot(r)]
      /\ stage' = [stage EXCEPT ![r] = "wait"]
  BY DEF StartJob
<1>2. /\ UNCHANGED conf /\ UNCHANGED <<gathered, submitted, finish>>
      /\ s_noutfiles' = s_noutfiles /\ layout' = layout /\ FileNumbers' = FileNumbers
      /\ \A q \in Ranks : Spots(q)' = Spots(q) /\ Spot(q)' = Spot(q)
      /\ \A q \in Ranks : Spot(q) \in 0 .. Spots(q) - 1
      /\ Finishing'
  BY ThreadFrame DEF ThreadStep
<1>3. TypeOK /\ NWrites \in Nat /\ Writes = 1..NWrites
  BY CountsAssumption DEF IInv, Writes
<1>4. /\ job' \in [Ranks -> 0..NWrites]
      /\ stage' \in [Ranks -> {"idle", "wait", "write", "notify"}]
      /\ \A q \in Ranks : job'[q] <= submitted[q] /\ submitted[q] <= gathered[q]
  BY <1>1, <1>3 DEF TypeOK
<1>5. entered' \in [Ranks -> Nat]
  BY <1>1, <1>2, <1>3 DEF TypeOK
<1>6. Counting'
  <2>1. SUFFICES ASSUME NEW q \in Ranks
                 PROVE  /\ stage'[q] # "idle" => job'[q] >= 1
                        /\ stage'[q] \in {"wait", "write"} =>
                              entered'[q] = (job'[q] - 1) * (Spots(q) - 1) + Spot(q)
                        /\ stage'[q] \in {"notify", "idle"} =>
                              entered'[q] = job'[q] * (Spots(q) - 1)
    BY <1>2 DEF Counting
  <2>2. CASE q = r
    <3>1. entered[r] = job[r] * (Spots(r) - 1)
      BY <1>1 DEF IInv, Counting
    <3>2. entered'[r] = entered[r] + Spot(r) /\ job'[r] = job[r] + 1 /\ stage'[r] = "wait"
      BY <1>1, <1>3 DEF TypeOK
    <3>3. job[r] \in Nat
      BY <1>3 DEF TypeOK
    <3>4. job'[r] - 1 = job[r] /\ job'[r] >= 1
      BY <3>2, <3>3
    <3> QED
      BY <2>2, <3>1, <3>2, <3>4
  <2>3. CASE q # r
    BY <1>1, <1>3, <2>3 DEF IInv, Counting, TypeOK
  <2> QED
    BY <2>2, <2>3
<1>7. TypeOK'
  <2>1. \A q \in Ranks : entered'[q] <= NWrites * (Spots(q)' - 1)
    <3>1. CountedTypes'
      BY <1>2, <1>3, <1>4, <1>6 DEF TypeOK, CountedTypes
    <3> QED
      BY <3>1, EnteredBoundNext DEF BarrierBound
  <2> QED
    BY <1>1, <1>2, <1>3, <1>4, <1>5, <2>1 DEF TypeOK
<1>8. TurnCame'
  <2>1. \A q \in Ranks : \A w \in Writes : HadTurn(q, w)' => HadTurn(q, w)
    BY <1>1, <1>3 DEF HadTurn, TypeOK
  <2>2. \A q \in Ranks : entered'[q] \in Nat /\ entered'[q] >= entered[q]
    BY <1>1, <1>2, <1>3 DEF TypeOK
  <2> QED
    BY <1>2, <1>3, <2>1, <2>2, TurnCameKept DEF IInv
<1>9. OfFile' /\ InOrder' /\ Kept'
  <2>1. \A q \in Ranks : \A w \in Writes : HasWritten(q, w)' <=> HasWritten(q, w)
    BY <1>1, <1>3 DEF HasWritten, TypeOK
  <2> QED
    BY <1>1, <1>2, <2>1, FilesKept DEF IInv
<1> QED
  BY <1>2, <1>6, <1>7, <1>8, <1>9 DEF IInv

LEMMA EndJobInv == ASSUME IInv, NEW r \in Ranks, EndJob(r) PROVE IInv'
<1>1. /\ stage[r] = "notify" /\ UNCHANGED <<job, entered, files>>
      /\ stage' = [stage EXCEPT ![r] = "idle"]
  BY DEF EndJob
<1>2. /\ UNCHANGED conf /\ UNCHANGED <<gathered, submitted, finish>>
      /\ s_noutfiles' = s_noutfiles /\ layout' = layout /\ FileNumbers' = FileNumbers
      /\ \A q \in Ranks : /\ File(q)' = File(q) /\ Spots(q)' = Spots(q)
                         /\ Spot(q)' = Spot(q) /\ Comm(q)' = Comm(q)
      /\ \A q \in Ranks : /\ Spots(q) \in Nat /\ Spot(q) \in 0 .. Spots(q) - 1
                          /\ File(q) \in FileNumbers
      /\ Finishing'
  BY ThreadFrame DEF ThreadStep
<1>3. TypeOK /\ NWrites \in Nat /\ Writes = 1..NWrites
  BY CountsAssumption DEF IInv, Writes
<1>4. stage' \in [Ranks -> {"idle", "wait", "write", "notify"}]
  BY <1>1, <1>3 DEF TypeOK
<1>5. TypeOK'
  BY <1>1, <1>2, <1>3, <1>4 DEF TypeOK
<1>6. Counting'
  BY <1>1, <1>2, <1>3 DEF IInv, Counting, TypeOK
<1>7. TurnCame'
  <2>1. \A q \in Ranks : \A w \in Writes : HadTurn(q, w)' => HadTurn(q, w)
    BY <1>1, <1>3 DEF HadTurn, TypeOK
  <2>2. \A q \in Ranks : entered'[q] \in Nat /\ entered'[q] >= entered[q]
    BY <1>1, <1>3 DEF TypeOK
  <2> QED
    BY <1>2, <1>3, <2>1, <2>2, TurnCameKept DEF IInv
<1>8. OfFile' /\ InOrder' /\ Kept'
  <2>1. \A q \in Ranks : \A w \in Writes : HasWritten(q, w)' <=> HasWritten(q, w)
    BY <1>1, <1>3 DEF HasWritten, TypeOK
  <2> QED
    BY <1>1, <1>2, <2>1, FilesKept DEF IInv
<1> QED
  BY <1>2, <1>5, <1>6, <1>7, <1>8 DEF IInv

\* The first rank of a file truncates it before anybody has written to it.
LEMMA NothingToTruncate ==
    ASSUME IInv, NEW r \in Ranks, NEW w \in Writes, Spot(r) = 0, ~HasWritten(r, w)
    PROVE  files[w][File(r)] = <<>>
<1>1. /\ TypeOK /\ s_noutfiles \in Files /\ File(r) \in FileNumbers
      /\ files[w][File(r)] \in Seq(Ranks)
  BY Place DEF IInv, TypeOK
<1>2. SUFFICES ASSUME NEW i \in DOMAIN files[w][File(r)] PROVE FALSE
  <2>1. ASSUME NEW s \in Seq(Ranks), s # <<>> PROVE 1 \in DOMAIN s
    BY <2>1
  <2> QED
    BY <1>1, <2>1
<1>3. PICK q \in Ranks : files[w][File(r)][i] = q
  BY <1>1, <1>2
<1>4. File(q) = File(r) /\ HasWritten(q, w)
  BY <1>1, <1>2, <1>3 DEF IInv, OfFile
<1>5. HadTurn(q, w)
  BY <1>4 DEF HadTurn, HasWritten
<1>6. Spot(q) <= Spot(r)
  BY <1>4, <1>5, TurnOrder DEF IInv
<1>7. Spot(q) \in Nat
  BY <1>1, Place
<1>8. q = r
  BY <1>1, <1>4, <1>6, <1>7, Places
<1> QED
  BY <1>4, <1>8

LEMMA OpenInv == ASSUME IInv, NEW r \in Ranks, Open(r) PROVE IInv'
<1> DEFINE w == job[r]
<1>1. /\ stage[r] = "wait" /\ BarriersComplete(r) /\ UNCHANGED <<job, entered>>
      /\ stage' = [stage EXCEPT ![r] = "write"]
      /\ files' = IF r \in layout[w] /\ Spot(r) = 0
                  THEN [files EXCEPT ![w][File(r)] = <<>>] ELSE files
  BY DEF Open
<1>2. /\ UNCHANGED conf /\ UNCHANGED <<gathered, submitted, finish>>
      /\ s_noutfiles' = s_noutfiles /\ layout' = layout /\ FileNumbers' = FileNumbers
      /\ \A q \in Ranks : /\ File(q)' = File(q) /\ Spots(q)' = Spots(q)
                         /\ Spot(q)' = Spot(q) /\ Comm(q)' = Comm(q)
      /\ \A q \in Ranks : /\ Spots(q) \in Nat /\ Spot(q) \in 0 .. Spots(q) - 1
                          /\ File(q) \in FileNumbers
      /\ Finishing'
  BY ThreadFrame DEF ThreadStep
<1>3. TypeOK /\ NWrites \in Nat /\ Writes = 1..NWrites
  BY CountsAssumption DEF IInv, Writes
<1>4. w \in Writes /\ ~HasWritten(r, w)
  BY <1>1, <1>3 DEF IInv, Counting, TypeOK, HasWritten
<1>5. files' = files
  <2>1. CASE Spot(r) = 0
    <3>1. files[w][File(r)] = <<>>
      BY <1>4, <2>1, NothingToTruncate
    <3>2. files \in [Writes -> [FileNumbers -> Seq(Ranks)]] /\ File(r) \in FileNumbers
      BY <1>2, <1>3 DEF TypeOK
    <3>3. [files EXCEPT ![w][File(r)] = <<>>] = files
      BY <1>4, <3>1, <3>2
    <3> QED
      BY <1>1, <3>3
  <2>2. CASE Spot(r) # 0
    BY <1>1, <2>2
  <2> QED
    BY <2>1, <2>2
<1>6. stage' \in [Ranks -> {"idle", "wait", "write", "notify"}]
  BY <1>1, <1>3 DEF TypeOK
<1>7. TypeOK'
  BY <1>1, <1>2, <1>3, <1>5, <1>6 DEF TypeOK
<1>8. Counting'
  BY <1>1, <1>2, <1>3 DEF IInv, Counting, TypeOK
<1>9. TurnCame'
  <2>1. SUFFICES ASSUME NEW p \in Ranks, NEW v \in Writes, HadTurn(p, v)', NEW q \in Comm(p)
                 PROVE  entered[q] >= (v - 1) * (Spots(p) - 1) + Spot(p)
    BY <1>1, <1>2 DEF TurnCame
  <2>2. CASE HadTurn(p, v)
    BY <2>1, <2>2 DEF IInv, TurnCame
  <2>3. CASE ~HadTurn(p, v)
    <3>1. p = r /\ v = w
      BY <1>1, <1>3, <2>1, <2>3 DEF HadTurn, TypeOK
    <3>2. entered[q] >= entered[r]
      BY <1>1, <2>1, <3>1 DEF BarriersComplete
    <3>3. entered[r] = (w - 1) * (Spots(r) - 1) + Spot(r)
      BY <1>1 DEF IInv, Counting
    <3> QED
      BY <3>1, <3>2, <3>3
  <2> QED
    BY <2>2, <2>3
<1>10. OfFile' /\ InOrder' /\ Kept'
  <2>1. \A q \in Ranks : \A v \in Writes : HasWritten(q, v)' <=> HasWritten(q, v)
    BY <1>1, <1>3 DEF HasWritten, TypeOK
  <2> QED
    BY <1>2, <1>5, <2>1, FilesKept DEF IInv
<1> QED
  BY <1>2, <1>7, <1>8, <1>9, <1>10 DEF IInv

LEMMA WriteAndNotifyInv == ASSUME IInv, NEW r \in Ranks, WriteAndNotify(r) PROVE IInv'
<1> DEFINE w == job[r]
           n == Spots(r) - 1
<1>1. /\ stage[r] = "write" /\ UNCHANGED job
      /\ files' = IF r \in layout[w]
                  THEN [files EXCEPT ![w][File(r)] = Append(@, r)] ELSE files
      /\ entered' = [entered EXCEPT ![r] = @ + (n - Spot(r))]
      /\ stage' = [stage EXCEPT ![r] = "notify"]
  BY DEF WriteAndNotify
<1>2. /\ UNCHANGED conf /\ UNCHANGED <<gathered, submitted, finish>>
      /\ s_noutfiles' = s_noutfiles /\ layout' = layout /\ FileNumbers' = FileNumbers
      /\ \A q \in Ranks : /\ File(q)' = File(q) /\ Spots(q)' = Spots(q)
                         /\ Spot(q)' = Spot(q) /\ Comm(q)' = Comm(q)
      /\ \A q \in Ranks : /\ Spots(q) \in Nat /\ Spot(q) \in 0 .. Spots(q) - 1
                          /\ File(q) \in FileNumbers
      /\ Finishing'
  BY ThreadFrame DEF ThreadStep
<1>3. TypeOK /\ NWrites \in Nat /\ Writes = 1..NWrites
  BY CountsAssumption DEF IInv, Writes
<1>4. stage' \in [Ranks -> {"idle", "wait", "write", "notify"}]
  BY <1>1, <1>3 DEF TypeOK
<1>5. entered' \in [Ranks -> Nat] /\ \A q \in Ranks : entered'[q] >= entered[q]
  <2>1. n - Spot(r) \in Nat
    BY <1>2
  <2>2. entered \in [Ranks -> Nat]
    BY <1>3 DEF TypeOK
  <2> HIDE DEF n
  <2> QED
    BY <1>1, <2>1, <2>2
<1>6. Counting'
  <2>1. SUFFICES ASSUME NEW q \in Ranks
                 PROVE  /\ stage'[q] # "idle" => job[q] >= 1
                        /\ stage'[q] \in {"wait", "write"} =>
                              entered'[q] = (job[q] - 1) * (Spots(q) - 1) + Spot(q)
                        /\ stage'[q] \in {"notify", "idle"} =>
                              entered'[q] = job[q] * (Spots(q) - 1)
    BY <1>1, <1>2 DEF Counting
  <2>2. CASE q = r
    <3>1. entered[r] = (job[r] - 1) * n + Spot(r) /\ job[r] >= 1
      BY <1>1 DEF IInv, Counting
    <3>2. entered'[r] = entered[r] + (n - Spot(r)) /\ stage'[r] = "notify"
      BY <1>1, <1>3 DEF TypeOK
    <3>3. job[r] \in Nat /\ n \in Nat /\ Spot(r) \in Nat
      BY <1>2, <1>3 DEF TypeOK
    <3>4. (job[r] - 1) * n + n = job[r] * n /\ (job[r] - 1) * n \in Nat
      <4> HIDE DEF n
      <4>1. job[r] - 1 \in Nat
        BY <3>1, <3>3
      <4> QED
        BY <3>3, <4>1, MulNat
    <3>5. entered'[r] = job[r] * n
      <4> HIDE DEF n
      <4> QED
        BY <3>1, <3>2, <3>3, <3>4
    <3> QED
      BY <2>2, <3>1, <3>2, <3>5
  <2>3. CASE q # r
    BY <1>1, <1>3, <2>3 DEF IInv, Counting, TypeOK
  <2> QED
    BY <2>2, <2>3
<1>7. w \in Writes /\ ~HasWritten(r, w)
  BY <1>1, <1>3 DEF IInv, Counting, TypeOK, HasWritten
<1>8. files' \in [Writes -> [FileNumbers -> Seq(Ranks)]]
  <2>1. files \in [Writes -> [FileNumbers -> Seq(Ranks)]] /\ File(r) \in FileNumbers
    BY <1>2, <1>3 DEF TypeOK
  <2>2. Append(files[w][File(r)], r) \in Seq(Ranks)
    BY <1>7, <2>1
  <2> QED
    BY <1>1, <1>7, <2>1, <2>2
<1>9. TypeOK'
  <2>1. CountedTypes'
    BY <1>1, <1>2, <1>3, <1>4, <1>6 DEF TypeOK, CountedTypes
  <2>2. \A q \in Ranks : entered'[q] <= NWrites * (Spots(q)' - 1)
    BY <2>1, EnteredBoundNext DEF BarrierBound
  <2> QED
    BY <1>1, <1>2, <1>3, <1>4, <1>5, <1>8, <2>2 DEF TypeOK
<1>10. TurnCame'
  <2>1. \A q \in Ranks : \A v \in Writes : HadTurn(q, v)' => HadTurn(q, v)
    BY <1>1, <1>3 DEF HadTurn, TypeOK
  <2> QED
    BY <1>2, <1>3, <1>5, <2>1, TurnCameKept DEF IInv
<1>11. \A q \in Ranks : \A v \in Writes :
          HasWritten(q, v)' <=> (HasWritten(q, v) \/ (q = r /\ v = w))
  BY <1>1, <1>3 DEF HasWritten, TypeOK
<1> DEFINE s == files[w][File(r)]
<1>12. /\ s \in Seq(Ranks)
       /\ \A v \in Writes : \A f \in FileNumbers :
             (v # w \/ f # File(r) \/ r \notin layout[w]) => files'[v][f] = files[v][f]
       /\ r \in layout[w] => files'[w][File(r)] = Append(s, r)
  <2>1. files \in [Writes -> [FileNumbers -> Seq(Ranks)]] /\ File(r) \in FileNumbers
    BY <1>2, <1>3 DEF TypeOK
  <2> QED
    BY <1>1, <1>7, <2>1
<1>13. /\ DOMAIN Append(s, r) = 1 .. Len(s) + 1 /\ DOMAIN s = 1 .. Len(s) /\ Len(s) \in Nat
       /\ \A i \in DOMAIN s : Append(s, r)[i] = s[i]
       /\ Append(s, r)[Len(s) + 1] = r
  <2> HIDE DEF s
  <2> QED
    BY <1>12
<1>14. OfFile'
  <2>1. SUFFICES ASSUME NEW v \in Writes, NEW f \in FileNumbers, NEW i \in DOMAIN files'[v][f],
                        NEW q \in Ranks, files'[v][f][i] = q
                 PROVE  File(q) = f /\ HasWritten(q, v)'
    BY <1>2 DEF OfFile
  <2>2. CASE files'[v][f] = files[v][f]
    BY <1>11, <2>1, <2>2 DEF IInv, OfFile
  <2>3. CASE files'[v][f] # files[v][f]
    <3>1. v = w /\ f = File(r) /\ files'[v][f] = Append(s, r)
      BY <1>12, <2>3
    <3>2. CASE i \in DOMAIN s
      <4>1. s[i] = q
        BY <1>13, <2>1, <3>1, <3>2
      <4> QED
        <5>1. files[w][File(r)][i] = q /\ i \in DOMAIN files[w][File(r)]
          BY <3>2, <4>1
        <5>2. File(q) = File(r) /\ HasWritten(q, w)
          BY <1>2, <1>7, <5>1 DEF IInv, OfFile
        <5> QED
          BY <1>11, <3>1, <5>2
    <3>3. CASE i \notin DOMAIN s
      <4>1. q = r
        BY <1>13, <2>1, <3>1, <3>3
      <4> QED
        BY <1>11, <3>1, <4>1
    <3> QED
      BY <3>2, <3>3
  <2> QED
    BY <2>2, <2>3
<1>15. InOrder'
  <2>1. SUFFICES ASSUME NEW v \in Writes, NEW f \in FileNumbers,
                        NEW p \in Ranks, NEW q \in Ranks,
                        NEW i \in DOMAIN files'[v][f], NEW j \in DOMAIN files'[v][f],
                        i < j, files'[v][f][i] = p, files'[v][f][j] = q
                 PROVE  Spot(p) < Spot(q)
    BY <1>2 DEF InOrder
  <2>2. CASE files'[v][f] = files[v][f]
    BY <2>1, <2>2 DEF IInv, InOrder
  <2>3. CASE files'[v][f] # files[v][f]
    <3>1. v = w /\ f = File(r) /\ files'[v][f] = Append(s, r)
      BY <1>12, <2>3
    <3>2. i \in DOMAIN s /\ s[i] = p
      <4>1. i \in 1 .. Len(s) + 1 /\ j \in 1 .. Len(s) + 1
        BY <1>13, <3>1
      <4> HIDE DEF s
      <4> QED
        BY <1>13, <2>1, <3>1, <4>1
    <3>3. CASE j \in DOMAIN s
      <4>1. s[j] = q
        BY <1>13, <2>1, <3>1, <3>3
      <4> QED
        BY <1>2, <1>7, <2>1, <3>2, <3>3, <4>1 DEF IInv, InOrder
    <3>4. CASE j \notin DOMAIN s
      <4>1. q = r
        BY <1>13, <2>1, <3>1, <3>4
      <4>2. File(p) = File(r) /\ HasWritten(p, w)
        BY <1>2, <1>7, <3>2 DEF IInv, OfFile
      <4>3. HadTurn(p, w)
        BY <4>2 DEF HadTurn, HasWritten
      <4>4. Spot(p) <= Spot(r)
        BY <1>7, <4>2, <4>3, TurnOrder DEF IInv
      <4>5. Spot(p) # Spot(r)
        BY <1>3, <1>7, <4>2, Places DEF TypeOK
      <4> QED
        BY <1>2, <4>1, <4>4, <4>5
    <3> QED
      BY <3>3, <3>4
  <2> QED
    BY <2>2, <2>3
<1>16. Kept'
  <2>1. SUFFICES ASSUME NEW v \in Writes, NEW q \in layout[v], HasWritten(q, v)'
                 PROVE  \E i \in DOMAIN files'[v][File(q)] : files'[v][File(q)][i] = q
    <3>1. layout' = layout /\ \A v \in Writes : layout[v] \subseteq Ranks
      BY <1>2, <1>3, LayoutsAssumption DEF TypeOK
    <3> QED
      BY <1>2, <3>1 DEF Kept
  <2>2. q \in Ranks /\ File(q) \in FileNumbers
    BY <1>2, <1>3, LayoutsAssumption DEF TypeOK
  <2>3. CASE q = r /\ v = w
    <3>1. files'[v][File(q)] = Append(s, r)
      BY <1>12, <2>1, <2>3
    <3>2. Len(s) + 1 \in DOMAIN Append(s, r)
      <4> HIDE DEF s
      <4> QED
        BY <1>13
    <3> QED
      BY <1>13, <2>3, <3>1, <3>2
  <2>4. CASE ~(q = r /\ v = w)
    <3>1. PICK i \in DOMAIN files[v][File(q)] : files[v][File(q)][i] = q
      BY <1>11, <2>1, <2>2, <2>4 DEF IInv, Kept
    <3>2. CASE files'[v][File(q)] = files[v][File(q)]
      BY <3>1, <3>2
    <3>3. CASE files'[v][File(q)] # files[v][File(q)]
      <4>1. v = w /\ File(q) = File(r) /\ files'[v][File(q)] = Append(s, r)
        BY <1>12, <2>2, <3>3
      <4>2. i \in DOMAIN s /\ s[i] = q
        BY <3>1, <4>1
      <4>3. i \in DOMAIN Append(s, r) /\ Append(s, r)[i] = q
        <5> HIDE DEF s
        <5> QED
          BY <1>13, <4>2
      <4> QED
        BY <4>1, <4>3
    <3> QED
      BY <3>2, <3>3
  <2> QED
    BY <2>3, <2>4
<1> QED
  BY <1>2, <1>6, <1>9, <1>10, <1>14, <1>15, <1>16 DEF IInv

-----------------------------------------------------------------------------
(***************************************************************************)
(* The theorems                                                            *)
(***************************************************************************)
LEMMA NextInv == IInv /\ [Next]_vars => IInv'
<1>1. SUFFICES ASSUME IInv, [Next]_vars PROVE IInv'
  OBVIOUS
<1>2. CASE Next
  <2>1. PICK r \in Ranks : MainStep(r) \/ ThreadStep(r)
    BY <1>2 DEF Next
  <2>2. CASE MainStep(r)
    BY <1>1, <2>2, MainInv
  <2>3. CASE StartJob(r)
    BY <1>1, <2>3, StartJobInv
  <2>4. CASE Open(r)
    BY <1>1, <2>4, OpenInv
  <2>5. CASE WriteAndNotify(r)
    BY <1>1, <2>5, WriteAndNotifyInv
  <2>6. CASE EndJob(r)
    BY <1>1, <2>6, EndJobInv
  <2> QED
    BY <2>1, <2>2, <2>3, <2>4, <2>5, <2>6 DEF ThreadStep
<1>3. CASE UNCHANGED vars
  <2>1. /\ UNCHANGED conf /\ UNCHANGED <<gathered, submitted, job, stage, entered, files, finish>>
    BY <1>3 DEF vars, conf
  <2>2. /\ s_noutfiles' = s_noutfiles /\ layout' = layout /\ FileNumbers' = FileNumbers
        /\ \A q \in Ranks : Spots(q)' = Spots(q) /\ Spot(q)' = Spot(q)
    BY <2>1, SamePlaces
  <2>3. TypeOK'
    BY <1>1, <2>1, <2>2 DEF IInv, TypeOK
  <2>4. Counting'
    BY <1>1, <2>1, <2>2 DEF IInv, Counting
  <2>5. TurnCame'
    <3>1. \A q \in Ranks : \A w \in Writes : HadTurn(q, w)' => HadTurn(q, w)
      BY <2>1 DEF HadTurn
    <3>2. \A q \in Ranks : entered'[q] \in Nat /\ entered'[q] >= entered[q]
      BY <1>1, <2>1 DEF IInv, TypeOK
    <3> QED
      BY <1>1, <2>1, <3>1, <3>2, TurnCameKept DEF IInv
  <2>6. OfFile' /\ InOrder' /\ Kept'
    <3>1. \A q \in Ranks : \A w \in Writes : HasWritten(q, w)' <=> HasWritten(q, w)
      BY <2>1 DEF HasWritten
    <3> QED
      BY <1>1, <2>1, <3>1, FilesKept DEF IInv
  <2>7. Finishing'
    BY <1>1, <2>1 DEF IInv, Finishing
  <2> QED
    BY <2>3, <2>4, <2>5, <2>6, <2>7 DEF IInv
<1> QED
  BY <1>1, <1>2, <1>3

\* The invariant holds of every behaviour of the ranks' main and background threads.
THEOREM Invariance == Spec => []IInv
<1> QED
  BY InitInv, NextInv, PTL DEF Spec

\* The counts of barriers, jobs and files stay in their bounds, for any number of ranks.
THEOREM TypeCorrect == Spec => []TypeOK
<1>1. IInv => TypeOK
  BY DEF IInv
<1> QED
  BY <1>1, Invariance, PTL

\* AsyncOut::Wait lets one rank at a time write to a file.
THEOREM OneWriterAlways == Spec => []OneWriter
<1> QED
  BY OneWriterFollows, Invariance, PTL

\* The ranks of a file write in the order of their spots, as the header assumes.
THEOREM AlwaysInOrder == Spec => []InOrder
<1>1. IInv => InOrder
  BY DEF IInv
<1> QED
  BY <1>1, Invariance, PTL

\* Opening a file never destroys data that have been written to it.
THEOREM NothingLost == Spec => []Kept
<1>1. IInv => Kept
  BY DEF IInv
<1> QED
  BY <1>1, Invariance, PTL

\* A rank that reads finds the data of every rank and every write in the files.
AllThere ==
    \A p \in Ranks : finish[p] = "reading" =>
        \A w \in Writes : \A r \in layout[w] :
            \E i \in DOMAIN files[w][File(r)] : files[w][File(r)][i] = r

\* AsyncOut::Finish and a barrier are enough before the files are read.
THEOREM ReadersFindAll == Spec => []AllThere
<1>1. IInv => AllThere
  <2>1. SUFFICES ASSUME IInv, NEW p \in Ranks, finish[p] = "reading",
                        NEW w \in Writes, NEW r \in layout[w]
                 PROVE  \E i \in DOMAIN files[w][File(r)] : files[w][File(r)][i] = r
    BY DEF AllThere
  <2>2. r \in Ranks
    BY <2>1, LayoutsAssumption DEF IInv, TypeOK
  <2>3. job[r] = NWrites /\ stage[r] = "idle"
    BY <2>1, <2>2 DEF IInv, Finishing
  <2>4. HasWritten(r, w)
    BY <2>3, CountsAssumption DEF HasWritten, Writes
  <2> QED
    BY <2>1, <2>4 DEF IInv, Kept
<1> QED
  BY <1>1, Invariance, PTL

-----------------------------------------------------------------------------
(***************************************************************************)
(* What the header says                                                    *)
(***************************************************************************)
\* o gives the offsets of the ranks' data in their files: it starts again in every file.
OffsetsOf(w, o) ==
    Sums(o, NProcs - 1, {r \in Ranks : Spot(r) = 0},
         [r \in 0 .. NProcs - 1 |-> IF r = 0 THEN 0 ELSE BytesOf(w, r - 1)])

\* The header of a write whose job the last rank has begun gives them, and nothing but
\* the data of a write's layout is in its files.
Headed ==
    /\ header = [w \in Writes |-> header[w]]
    /\ \A w \in Writes :
          /\ \A f \in FileNumbers : \A i \in DOMAIN files[w][f] : files[w][f][i] \in layout[w]
          /\ job[IoProc] >= w =>
                \E o : /\ OffsetsOf(w, o)
                       /\ header[w] = [r \in layout[w] |-> [file |-> File(r), offset |-> o[r]]]

\* The recursion of the code gives such offsets.
LEMMA OffsetsSums ==
    ASSUME s_noutfiles \in Files, layout \in [Writes -> Layouts], NEW w \in Writes
    PROVE  OffsetsOf(w, Offsets(w))
<1> DEFINE N == NProcs - 1
           z == {r \in Ranks : Spot(r) = 0}
           d == [r \in 0 .. N |-> IF r = 0 THEN 0 ELSE BytesOf(w, r - 1)]
           Value(g, r) == IF Spot(r) = 0 THEN 0 ELSE g[r - 1] + BytesOf(w, r - 1)
           offset == CHOOSE g : g = [r \in Ranks |-> Value(g, r)]
<1>1. N \in Nat /\ Ranks = 0 .. N /\ \A r \in 1 .. N : r \in Ranks /\ r - 1 \in Ranks
  BY CountsAssumption DEF Ranks
<1>2. Spot(0) = 0 /\ 0 \in z
  BY <1>1, InRow
<1>3. \A r \in 1 .. N : BytesOf(w, r - 1) \in Nat
  BY <1>1, BytesType
<1>4. d \in [0 .. N -> Nat]
  BY <1>1, <1>3
<1>5. PICK h : Sums(h, N, z, d)
  <2> HIDE DEF d, z, N
  <2> QED
    BY <1>1, <1>2, <1>4, SumsExist
<1>6. ASSUME NEW r \in Ranks PROVE r \in z <=> Spot(r) = 0
  BY <1>6
<1>7. h = [r \in Ranks |-> Value(h, r)]
  <2>1. h = [r \in Ranks |-> h[r]]
    BY <1>1, <1>5 DEF Sums
  <2>2. ASSUME NEW r \in Ranks PROVE h[r] = Value(h, r)
    <3>1. h[r] = IF r \in z THEN 0 ELSE h[r - 1] + d[r]
      <4> HIDE DEF d, z, N
      <4> QED
        BY <1>1, <1>5 DEF Sums
    <3>2. Spot(r) # 0 => r # 0 /\ d[r] = BytesOf(w, r - 1)
      BY <1>1, <1>2
    <3> HIDE DEF d, z
    <3> QED
      BY <1>6, <3>1, <3>2
  <2> HIDE DEF Value
  <2> QED
    BY <2>1, <2>2
<1>8. offset = [r \in Ranks |-> Value(offset, r)]
  <2> HIDE DEF Value
  <2> QED
    BY <1>7
<1>9. Offsets(w) = offset
  BY Zenon DEF Offsets
<1>10. Sums(offset, N, z, d)
  <2> HIDE DEF offset
  <2> DEFINE T == {r \in 0 .. N : offset[r] \in Nat}
  <2>1. 0 \in T
    BY <1>1, <1>2, <1>8
  <2>2. ASSUME NEW r \in 1 .. N, r - 1 \in T PROVE r \in T
    <3>1. offset[r] = Value(offset, r)
      <4> HIDE DEF Value
      <4> QED
        BY <1>1, <1>8
    <3> QED
      BY <1>1, <1>3, <2>2, <3>1
  <2>3. 0 .. N \subseteq T
    <3> HIDE DEF T, N
    <3>1. \A r \in 1 .. N : r - 1 \in T => r \in T
      BY <2>2
    <3> QED
      BY <1>1, <2>1, <3>1, UpTo
  <2>4. offset \in [0 .. N -> Nat]
    <3> HIDE DEF Value, N
    <3> QED
      BY <1>1, <1>8, <2>3
  <2>5. ASSUME NEW r \in 0 .. N PROVE offset[r] = IF r \in z THEN 0 ELSE offset[r - 1] + d[r]
    <3>1. offset[r] = Value(offset, r) /\ r \in Ranks
      <4> HIDE DEF Value
      <4> QED
        BY <1>1, <1>8
    <3>2. Spot(r) # 0 => r # 0 /\ d[r] = BytesOf(w, r - 1)
      BY <1>1, <1>2
    <3> HIDE DEF d, z
    <3> QED
      BY <1>6, <3>1, <3>2
  <2> HIDE DEF d, z, N
  <2> QED
    BY <2>4, <2>5 DEF Sums
<1> QED
  BY <1>9, <1>10 DEF OffsetsOf

\* The offsets do not change.
LEMMA SameOffsets ==
    ASSUME UNCHANGED conf, NEW w, NEW o, OffsetsOf(w, o)
    PROVE  OffsetsOf(w, o)'
<1>1. \A r : BytesOf(w, r)' = BytesOf(w, r)
  BY SamePlaces DEF BytesOf
<1>2. {r \in Ranks : Spot(r) = 0}' = {r \in Ranks : Spot(r) = 0}
  BY SamePlaces DEF Ranks
<1>3. [r \in 0 .. NProcs - 1 |-> IF r = 0 THEN 0 ELSE BytesOf(w, r - 1)]'
      = [r \in 0 .. NProcs - 1 |-> IF r = 0 THEN 0 ELSE BytesOf(w, r - 1)]
  BY <1>1
<1> QED
  BY <1>2, <1>3 DEF OffsetsOf, Sums

LEMMA InitHeaded == Init => Headed
<1>1. SUFFICES ASSUME Init PROVE Headed
  OBVIOUS
<1>2. IoProc \in Ranks
  BY CountsAssumption DEF IoProc, Ranks
<1>3. \A w \in Writes : ~(job[IoProc] >= w)
  BY <1>1, <1>2 DEF Init, Writes
<1>4. \A w \in Writes : \A f \in FileNumbers : \A i \in DOMAIN files[w][f] : files[w][f][i] \in layout[w]
  BY <1>1 DEF Init
<1>5. header = [w \in Writes |-> header[w]]
  BY <1>1 DEF Init
<1> QED
  BY <1>3, <1>4, <1>5 DEF Headed

\* A step that begins no job of the last rank and puts nothing foreign into a file.
LEMMA HeadedKept ==
    ASSUME Headed, UNCHANGED <<conf, header>>, job'[IoProc] = job[IoProc],
           \A w \in Writes : \A f \in FileNumbers : \A i \in DOMAIN files'[w][f] :
               files'[w][f][i] \in layout[w]
    PROVE  Headed'
<1>1. layout' = layout /\ FileNumbers' = FileNumbers /\ header' = header
  BY SamePlaces
<1>2. ASSUME NEW w \in Writes, job[IoProc] >= w
      PROVE  \E o : /\ OffsetsOf(w, o)'
                    /\ header'[w] = [r \in layout'[w] |-> [file |-> File(r)', offset |-> o[r]]]
  <2>1. PICK o : /\ OffsetsOf(w, o)
                 /\ header[w] = [r \in layout[w] |-> [file |-> File(r), offset |-> o[r]]]
    BY <1>2 DEF Headed
  <2>2. OffsetsOf(w, o)'
    BY <2>1, SameOffsets
  <2>3. \A r : File(r)' = File(r)
    BY SamePlaces DEF File, GetWriteInfo, nmaxspots, nfull
  <2> QED
    BY <1>1, <2>1, <2>2, <2>3
<1>3. (header = [w \in Writes |-> header[w]])'
  BY <1>1 DEF Headed
<1>4. (\A w \in Writes : \A f \in FileNumbers : \A i \in DOMAIN files[w][f] : files[w][f][i] \in layout[w])'
  BY <1>1
<1>5. (\A w \in Writes : job[IoProc] >= w =>
           \E o : /\ OffsetsOf(w, o)
                  /\ header[w] = [r \in layout[w] |-> [file |-> File(r), offset |-> o[r]]])'
  BY <1>2
<1> QED
  BY <1>3, <1>4, <1>5 DEF Headed
LEMMA NextHeaded == IInv /\ Headed /\ [Next]_vars => Headed'
<1>1. SUFFICES ASSUME IInv, Headed, [Next]_vars PROVE Headed'
  OBVIOUS
<1>2. /\ s_noutfiles \in Files /\ layout \in [Writes -> Layouts]
      /\ files \in [Writes -> [FileNumbers -> Seq(Ranks)]] /\ job \in [Ranks -> 0..NWrites]
  BY <1>1 DEF IInv, TypeOK
<1>3. IoProc \in Ranks
  BY CountsAssumption DEF IoProc, Ranks
<1>4. \A w \in Writes : \A f \in FileNumbers : \A i \in DOMAIN files[w][f] : files[w][f][i] \in layout[w]
  BY <1>1 DEF Headed
<1>5. CASE UNCHANGED vars
  <2>1. UNCHANGED <<conf, header>> /\ job' = job /\ files' = files
    BY <1>5 DEF vars, conf
  <2> QED
    BY <1>1, <1>4, <2>1, HeadedKept
<1>6. ASSUME NEW r \in Ranks, MainStep(r) PROVE Headed'
  <2>1. UNCHANGED <<conf, header>> /\ job' = job /\ files' = files
    BY <1>6 DEF MainStep, Gather, Submit, Finish, Barrier
  <2> QED
    BY <1>1, <1>4, <2>1, HeadedKept
<1>7. ASSUME NEW r \in Ranks, StartJob(r) PROVE Headed'
  <2> DEFINE k == job[r] + 1
  <2>1. UNCHANGED conf /\ files' = files /\ job' = [job EXCEPT ![r] = k]
        /\ header' = IF r = IoProc THEN [header EXCEPT ![k] = Header(k)] ELSE header
    BY <1>7 DEF StartJob
  <2>2. CASE r # IoProc
    <3>1. job'[IoProc] = job[IoProc]
      BY <1>2, <1>3, <2>1, <2>2
    <3> QED
      BY <1>1, <1>4, <2>1, <2>2, <3>1, HeadedKept
  <2>3. CASE r = IoProc
    <3>1. k \in Writes /\ job[r] \in Nat
      <4>1. job[r] < submitted[r] /\ submitted[r] \in 0..NWrites /\ job[r] \in 0..NWrites
        BY <1>1, <1>7 DEF StartJob, IInv, TypeOK
      <4> QED
        BY <4>1, CountsAssumption DEF Writes
    <3>2. layout' = layout /\ FileNumbers' = FileNumbers
      BY <2>1, SamePlaces
    <3>3. header' = [header EXCEPT ![k] = Header(k)] /\ job'[IoProc] = k
      BY <1>2, <1>3, <2>1, <2>3
    <3>4. \A q : File(q)' = File(q)
      BY <2>1, SamePlaces DEF File, GetWriteInfo, nmaxspots, nfull
    <3> HIDE DEF k
    <3>5. (header = [w \in Writes |-> header[w]])'
      BY <1>1, <3>3 DEF Headed
    <3>6. (\A w \in Writes : \A f \in FileNumbers : \A i \in DOMAIN files[w][f] : files[w][f][i] \in layout[w])'
      BY <1>4, <2>1, <3>2
    <3>7. ASSUME NEW w \in Writes, job'[IoProc] >= w
          PROVE  \E o : /\ OffsetsOf(w, o)'
                        /\ header'[w] = [q \in layout'[w] |-> [file |-> File(q)', offset |-> o[q]]]
      <4>1. CASE w = k
        <5>1. OffsetsOf(w, Offsets(w))
          BY <1>2, OffsetsSums
        <5> PICK o : o = Offsets(w)
          OBVIOUS
        <5>2. header'[w] = [q \in layout[w] |-> [file |-> File(q), offset |-> o[q]]]
          BY <1>1, <3>1, <3>3, <4>1 DEF Headed, Header
        <5>3. OffsetsOf(w, o)
          BY <5>1
        <5>4. OffsetsOf(w, o)'
          BY <2>1, <5>3, SameOffsets
        <5> QED
          BY <3>2, <3>4, <5>2, <5>4
      <4>2. CASE w # k
        <5>1. job[IoProc] >= w
          BY <2>3, <3>1, <3>3, <3>7, <4>2 DEF Writes, k
        <5>2. PICK o : /\ OffsetsOf(w, o)
                       /\ header[w] = [q \in layout[w] |-> [file |-> File(q), offset |-> o[q]]]
          BY <1>1, <5>1 DEF Headed
        <5>3. header'[w] = header[w]
          BY <1>1, <3>3, <4>2 DEF Headed
        <5>4. OffsetsOf(w, o)'
          BY <2>1, <5>2, SameOffsets
        <5> QED
          BY <3>2, <3>4, <5>2, <5>3, <5>4
      <4> QED
        BY <4>1, <4>2
    <3>8. (\A w \in Writes : job[IoProc] >= w =>
             \E o : /\ OffsetsOf(w, o)
                    /\ header[w] = [q \in layout[w] |-> [file |-> File(q), offset |-> o[q]]])'
      BY <3>7
    <3> QED
      BY <3>5, <3>6, <3>8 DEF Headed
  <2> QED
    BY <2>2, <2>3
<1>8. ASSUME NEW r \in Ranks, Open(r) PROVE Headed'
  <2>1. UNCHANGED <<conf, header>> /\ job' = job
    BY <1>8 DEF Open
  <2>2. files' = files \/ files' = [files EXCEPT ![job[r]][File(r)] = <<>>]
    BY <1>8 DEF Open
  <2>3. ASSUME NEW w \in Writes, NEW f \in FileNumbers, NEW i \in DOMAIN files'[w][f]
        PROVE  files'[w][f][i] \in layout[w]
    <3>1. files'[w][f] = files[w][f] \/ files'[w][f] = <<>>
      <4>1. CASE files' = files
        BY <4>1
      <4>2. CASE files' = [files EXCEPT ![job[r]][File(r)] = <<>>]
        <5>1. CASE w = job[r] /\ f = File(r)
          BY <1>2, <4>2, <5>1
        <5>2. CASE ~(w = job[r] /\ f = File(r))
          BY <1>2, <4>2, <5>2
        <5> QED
          BY <5>1, <5>2
      <4> QED
        BY <2>2, <4>1, <4>2
    <3> QED
      BY <1>4, <2>3, <3>1
  <2> QED
    BY <1>1, <2>1, <2>3, HeadedKept
<1>9. ASSUME NEW r \in Ranks, WriteAndNotify(r) PROVE Headed'
  <2>1. UNCHANGED <<conf, header>> /\ job' = job
    BY <1>9 DEF WriteAndNotify
  <2>2. \/ files' = files
        \/ r \in layout[job[r]] /\ files' = [files EXCEPT ![job[r]][File(r)] = Append(@, r)]
    BY <1>9 DEF WriteAndNotify
  <2>3. ASSUME NEW w \in Writes, NEW f \in FileNumbers, NEW i \in DOMAIN files'[w][f]
        PROVE  files'[w][f][i] \in layout[w]
    <3>1. files[w][f] \in Seq(Ranks)
      BY <1>2
    <3>2. CASE files'[w][f] = files[w][f]
      BY <1>4, <3>2
    <3>3. CASE w = job[r] /\ r \in layout[w] /\ files'[w][f] = Append(files[w][f], r)
      BY <1>4, <3>1, <3>3
    <3>4. CASE files' = files
      BY <3>2, <3>4
    <3>5. CASE /\ r \in layout[job[r]]
               /\ files' = [files EXCEPT ![job[r]][File(r)] = Append(@, r)]
      <4>1. CASE w = job[r] /\ f = File(r)
        <5>1. files'[w][f] = Append(files[w][f], r)
          BY <1>2, <3>5, <4>1
        <5> QED
          BY <3>3, <3>5, <4>1, <5>1
      <4>2. CASE ~(w = job[r] /\ f = File(r))
        <5>1. files'[w][f] = files[w][f]
          BY <1>2, <3>5, <4>2
        <5> QED
          BY <3>2, <5>1
      <4> QED
        BY <4>1, <4>2
    <3> QED
      BY <2>2, <3>4, <3>5
  <2> QED
    BY <1>1, <2>1, <2>3, HeadedKept
<1>10. ASSUME NEW r \in Ranks, EndJob(r) PROVE Headed'
  <2>1. UNCHANGED <<conf, header>> /\ job' = job /\ files' = files
    BY <1>10 DEF EndJob
  <2> QED
    BY <1>1, <1>4, <2>1, HeadedKept
<1> QED
  BY <1>1, <1>5, <1>6, <1>7, <1>8, <1>9, <1>10 DEF Next, ThreadStep

\* In a file with the data of some ranks, all of them and in their order, the data of a
\* rank begin where the offsets say.
LEMMA DataAtOffset ==
    ASSUME s_noutfiles \in Files, layout \in [Writes -> Layouts],
           NEW w \in Writes, NEW f \in FileNumbers, NEW s \in Seq(Ranks),
           NEW o, OffsetsOf(w, o),
           \A i \in DOMAIN s : s[i] \in layout[w] /\ File(s[i]) = f,
           \A i, j \in DOMAIN s : i < j => Spot(s[i]) < Spot(s[j]),
           \A r \in layout[w] : r \in Ranks /\ File(r) = f => \E i \in DOMAIN s : s[i] = r,
           NEW i \in DOMAIN s
    PROVE  Length(w, SubSeq(s, 1, i - 1)) = o[s[i]]
<1> DEFINE Before(q, k) == /\ \A j \in DOMAIN s : j <= k => s[j] < q
                           /\ \A j \in DOMAIN s : j > k => s[j] >= q
           Right(q) == \A k \in 0 .. Len(s) :
                          Before(q, k) => Length(w, SubSeq(s, 1, k)) = o[q]
           T == {q \in Ranks : File(q) = f => Right(q)}
<1>1. /\ Len(s) \in Nat /\ DOMAIN s = 1 .. Len(s)
      /\ \A j \in DOMAIN s : s[j] \in Ranks
      /\ Ranks = 0 .. NProcs - 1 /\ NProcs - 1 \in Nat
  BY CountsAssumption DEF Ranks
<1>2. \A r \in Ranks : BytesOf(w, r) \in Nat
  BY BytesType
<1>3. /\ Length(w, SubSeq(s, 1, 0)) = 0
      /\ \A k \in 1 .. Len(s) :
            Length(w, SubSeq(s, 1, k)) = Length(w, SubSeq(s, 1, k - 1)) + BytesOf(w, s[k])
  BY <1>2, LengthOfPrefix
<1>4. \A j, k \in DOMAIN s : j < k => s[j] < s[k]
  <2>1. SUFFICES ASSUME NEW j \in DOMAIN s, NEW k \in DOMAIN s, j < k PROVE s[j] < s[k]
    OBVIOUS
  <2>2. s[j] - s[k] = Spot(s[j]) - Spot(s[k]) /\ Spot(s[j]) < Spot(s[k])
    BY <1>1, <2>1, InRow
  <2>3. s[j] \in Int /\ s[k] \in Int /\ Spot(s[j]) \in Int /\ Spot(s[k]) \in Int
    BY <1>1, Place
  <2> QED
    BY <2>2, <2>3
<1>5. ASSUME NEW q \in Ranks
      PROVE  o[q] = IF Spot(q) = 0 THEN 0 ELSE o[q - 1] + BytesOf(w, q - 1)
  <2> DEFINE z == {r \in Ranks : Spot(r) = 0}
             d == [r \in 0 .. NProcs - 1 |-> IF r = 0 THEN 0 ELSE BytesOf(w, r - 1)]
  <2>1. o[q] = IF q \in z THEN 0 ELSE o[q - 1] + d[q]
    <3>1. Sums(o, NProcs - 1, z, d)
      BY DEF OffsetsOf
    <3> HIDE DEF z, d
    <3> QED
      BY <1>1, <3>1 DEF Sums
  <2>2. Spot(q) # 0 => q # 0 /\ d[q] = BytesOf(w, q - 1)
    BY <1>1, InRow
  <2>3. q \in z <=> Spot(q) = 0
    OBVIOUS
  <2> HIDE DEF z, d
  <2> QED
    BY <2>1, <2>2, <2>3
<1>6. ASSUME NEW q \in Ranks, File(q) = f, Spot(q) = 0 PROVE Right(q)
  <2>1. SUFFICES ASSUME NEW k \in 0 .. Len(s), Before(q, k) PROVE k = 0
    BY <1>3, <1>5, <1>6
  <2>2. SUFFICES ASSUME k # 0 PROVE FALSE
    OBVIOUS
  <2>3. k \in DOMAIN s /\ s[k] < q
    BY <1>1, <2>1, <2>2
  <2>4. s[k] - q = Spot(s[k]) - Spot(q) /\ Spot(s[k]) \in Nat /\ s[k] \in Int /\ q \in Int
    BY <1>1, <1>6, <2>3, InRow, Place
  <2> QED
    BY <1>6, <2>3, <2>4
<1>7. ASSUME NEW q \in Ranks, File(q) = f, Spot(q) # 0, q - 1 \in T PROVE Right(q)
  <2>1. q - 1 \in Ranks /\ File(q - 1) = f /\ q \in Int
    <3>1. Spot(q) \in Nat
      BY Place
    <3> QED
      BY <1>1, <1>7, <3>1, InRow
  <2>2. Right(q - 1)
    BY <1>7, <2>1
  <2>3. SUFFICES ASSUME NEW k \in 0 .. Len(s), Before(q, k)
                 PROVE  Length(w, SubSeq(s, 1, k)) = o[q - 1] + BytesOf(w, q - 1)
    BY <1>5, <1>7
  <2>4. CASE q - 1 \in layout[w]
    <3>1. PICK j \in DOMAIN s : s[j] = q - 1
      BY <2>1, <2>4
    <3>2. j \in Int /\ j <= k
      BY <1>1, <2>1, <2>3, <3>1
    <3>3. j = k
      <4>1. SUFFICES ASSUME j < k PROVE FALSE
        BY <3>2
      <4>2. k \in DOMAIN s /\ k <= k
        BY <1>1, <3>1, <3>2, <4>1
      <4>3. s[k] < q /\ s[j] < s[k] /\ s[k] \in Int
        BY <1>1, <1>4, <2>3, <4>1, <4>2
      <4> QED
        BY <2>1, <3>1, <4>3
    <3>4. k - 1 \in 0 .. Len(s) /\ Before(q - 1, k - 1)
      <4>1. k \in 1 .. Len(s) /\ k - 1 \in 0 .. Len(s)
        BY <1>1, <3>3
      <4>2. ASSUME NEW l \in DOMAIN s, l <= k - 1 PROVE s[l] < q - 1
        BY <1>1, <1>4, <3>1, <3>3, <4>1, <4>2
      <4>3. ASSUME NEW l \in DOMAIN s, l > k - 1 PROVE s[l] >= q - 1
        <5>1. CASE l = k
          BY <1>1, <2>1, <3>1, <3>3, <5>1
        <5>2. CASE l > k
          <6>1. s[l] >= q /\ s[l] \in Int
            BY <1>1, <2>3, <5>2
          <6> QED
            BY <2>1, <6>1
        <5> QED
          BY <1>1, <4>1, <4>3, <5>1, <5>2
      <4> QED
        BY <4>1, <4>2, <4>3
    <3>5. Length(w, SubSeq(s, 1, k - 1)) = o[q - 1]
      BY <2>2, <3>4
    <3> QED
      BY <1>1, <1>3, <3>1, <3>3, <3>5
  <2>5. CASE q - 1 \notin layout[w]
    <3>1. Before(q - 1, k)
      <4>1. ASSUME NEW l \in DOMAIN s, l <= k PROVE s[l] < q - 1
        <5>1. s[l] < q /\ s[l] \in Int /\ s[l] # q - 1
          BY <1>1, <2>3, <2>5, <4>1
        <5> QED
          BY <2>1, <5>1
      <4>2. ASSUME NEW l \in DOMAIN s, l > k PROVE s[l] >= q - 1
        <5>1. s[l] >= q /\ s[l] \in Int
          BY <1>1, <2>3, <4>2
        <5> QED
          BY <2>1, <5>1
      <4> QED
        BY <4>1, <4>2
    <3>2. Length(w, SubSeq(s, 1, k)) = o[q - 1]
      BY <2>2, <3>1
    <3>3. BytesOf(w, q - 1) = 0
      BY <2>5 DEF BytesOf
    <3>4. o[q - 1] \in Nat
      BY <1>1, <2>1 DEF OffsetsOf, Sums
    <3> QED
      BY <3>2, <3>3, <3>4
  <2> QED
    BY <2>4, <2>5
<1>8. Ranks \subseteq T
  <2> HIDE DEF Right
  <2>1. 0 \in T
    BY <1>1, <1>6, InRow
  <2>2. ASSUME NEW q \in 1 .. NProcs - 1, q - 1 \in T PROVE q \in T
    BY <1>1, <1>6, <1>7, <2>2
  <2>3. 0 .. NProcs - 1 \subseteq T
    <3> HIDE DEF T
    <3>1. \A q \in 1 .. NProcs - 1 : q - 1 \in T => q \in T
      BY <2>2
    <3> QED
      BY <1>1, <2>1, <3>1, UpTo
  <2> QED
    BY <1>1, <2>3
<1>9. s[i] \in Ranks /\ File(s[i]) = f /\ i - 1 \in 0 .. Len(s)
  BY <1>1
<1>10. Right(s[i])
  BY <1>8, <1>9
<1>11. Before(s[i], i - 1)
  <2>1. ASSUME NEW j \in DOMAIN s, j <= i - 1 PROVE s[j] < s[i]
    BY <1>1, <1>4, <2>1
  <2>2. ASSUME NEW j \in DOMAIN s, j > i - 1 PROVE s[j] >= s[i]
    <3>1. j = i \/ i < j
      BY <1>1, <2>2
    <3>2. s[i] \in Int /\ s[j] \in Int
      BY <1>1
    <3> QED
      BY <1>4, <3>1, <3>2
  <2> QED
    BY <2>1, <2>2
<1> QED
  BY <1>9, <1>10, <1>11

LEMMA ReadTrueFollows == IInv /\ Headed => ReadTrue
<1>1. SUFFICES ASSUME IInv, Headed, NEW p \in Ranks, finish[p] = "reading", NEW w \in Writes
               PROVE  /\ DOMAIN header[w] = layout[w]
                      /\ \A r \in layout[w] :
                            LET s == files[w][header[w][r].file]
                            IN  \E i \in DOMAIN s :
                                   s[i] = r /\ Length(w, SubSeq(s, 1, i - 1)) = header[w][r].offset
  BY DEF ReadTrue
<1>2. /\ s_noutfiles \in Files /\ layout \in [Writes -> Layouts] /\ layout[w] \subseteq Ranks
      /\ files \in [Writes -> [FileNumbers -> Seq(Ranks)]]
      /\ NWrites \in Nat /\ w \in Nat /\ w <= NWrites /\ IoProc \in Ranks
  <2>1. /\ s_noutfiles \in Files /\ layout \in [Writes -> Layouts]
        /\ files \in [Writes -> [FileNumbers -> Seq(Ranks)]]
    BY <1>1 DEF IInv, TypeOK
  <2>2. layout[w] \subseteq Ranks
    BY <2>1, LayoutsAssumption
  <2>3. NWrites \in Nat /\ w \in Nat /\ w <= NWrites /\ IoProc \in Ranks
    BY CountsAssumption DEF Writes, IoProc, Ranks
  <2> QED
    BY <2>1, <2>2, <2>3
<1>3. \A q \in Ranks : job[q] = NWrites /\ stage[q] = "idle"
  BY <1>1 DEF IInv, Finishing
<1>4. \A q \in Ranks : HasWritten(q, w)
  BY <1>2, <1>3 DEF HasWritten
<1>5. PICK o : /\ OffsetsOf(w, o)
               /\ header[w] = [r \in layout[w] |-> [file |-> File(r), offset |-> o[r]]]
  BY <1>1, <1>2, <1>3 DEF Headed
<1>6. ASSUME NEW r \in layout[w]
      PROVE  \E i \in DOMAIN files[w][File(r)] :
                /\ files[w][File(r)][i] = r
                /\ Length(w, SubSeq(files[w][File(r)], 1, i - 1)) = o[r]
  <2> DEFINE f == File(r)
             s == files[w][f]
  <2>1. r \in Ranks /\ f \in FileNumbers
    BY <1>2, Place
  <2>2. s \in Seq(Ranks)
    BY <1>2, <2>1
  <2>3. \A i \in DOMAIN s : s[i] \in layout[w] /\ s[i] \in Ranks /\ File(s[i]) = f
    <3>1. \A i \in DOMAIN s : s[i] \in layout[w]
      BY <1>1, <2>1 DEF Headed
    <3>2. \A i \in DOMAIN s : s[i] \in Ranks => File(s[i]) = f
      BY <1>1, <2>1 DEF IInv, OfFile
    <3> QED
      BY <1>2, <3>1, <3>2
  <2>4. \A i, j \in DOMAIN s : i < j => Spot(s[i]) < Spot(s[j])
    BY <1>1, <2>1, <2>3 DEF IInv, InOrder
  <2>5. \A q \in layout[w] : q \in Ranks /\ File(q) = f => \E i \in DOMAIN s : s[i] = q
    BY <1>1, <1>4 DEF IInv, Kept
  <2>6. PICK i \in DOMAIN s : s[i] = r
    BY <2>1, <2>5
  <2> HIDE DEF s, f
  <2>7. Length(w, SubSeq(s, 1, i - 1)) = o[s[i]]
    <3>1. s_noutfiles \in Files /\ layout \in [Writes -> Layouts] /\ OffsetsOf(w, o)
      BY <1>2, <1>5
    <3>2. \A j \in DOMAIN s : s[j] \in layout[w] /\ File(s[j]) = f
      BY <2>3
    <3> HIDE DEF OffsetsOf
    <3> QED
      BY <2>1, <2>2, <2>4, <2>5, <2>6, <3>1, <3>2, DataAtOffset
  <2> QED
    BY <2>6, <2>7 DEF s, f
<1> QED
  BY <1>5, <1>6

\* When a rank reads, the offsets in the header, which the last rank computes before
\* anything is written, are those of the data in the files, in every layout.
THEOREM ReadTrueAlways == Spec => []ReadTrue
<1>1. Spec => [](IInv /\ Headed)
  BY InitInv, NextInv, InitHeaded, NextHeaded, PTL DEF Spec
<1> QED
  BY <1>1, ReadTrueFollows, PTL
=============================================================================

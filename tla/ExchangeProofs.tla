--------------------------- MODULE ExchangeProofs ---------------------------
(***************************************************************************)
(* Exchange for any ranks, communicators, programs and range of tags: what *)
(* MPI gives to a receive was sent for it.                                 *)
(*                                                                         *)
(* The place and the tag of a frame at a call are determined by those at   *)
(* the call before on the same communicator (Chained), so two ranks that   *)
(* have both made the n-th call on it made it with the same tag (Agree).   *)
(* What a rank has sent on a channel, or posted, is in the order of the    *)
(* calls, and is all that its calls so far ask for (Ordered).  Two such    *)
(* sequences cannot differ first at some place: the smaller of the two     *)
(* entries would be missing from the other sequence.                       *)
(***************************************************************************)
EXTENDS Exchange, TLAPS

Ids == Nat \X Nat
Entries == [pos : Nat, tag : Tags]

Draws(c, i) == program[c][i].op = "nowait" /\ ~Alone(c)

After(c, e) == IF Draws(c, e.pos) THEN get_inc_mpi_tag(e.tag) ELSE e.tag

First == [pos |-> 1, tag |-> MinTag]

Following(c, e) ==
    IF e.pos = Len(program[c]) THEN First ELSE [pos |-> e.pos + 1, tag |-> After(c, e)]

Chained ==
    \A r \in Ranks, c \in Comms : \A n \in DOMAIN made[r][c] :
        /\ made[r][c][n].pos \in 1 .. Len(program[c])
        /\ made[r][c][n] = IF n = 1 THEN First ELSE Following(c, made[r][c][n - 1])

Agree ==
    \A a, b \in Ranks, c \in Comms : \A n \in DOMAIN made[a][c] \cap DOMAIN made[b][c] :
        made[a][c][n] = made[b][c][n]

Between(r, c) ==
    made[r][c] # <<>> => made[r][c][Len(made[r][c])].pos = Len(program[c])

\* A frame continues the calls on its communicator or starts them again.
Linked(r, f) ==
    /\ f.pos <= Len(program[f.comm])
    /\ f.pos = 0 => f.tag = MinTag /\ Between(r, f.comm)
    /\ f.pos > 0 =>
           /\ made[r][f.comm] # <<>>
           /\ made[r][f.comm][Len(made[r][f.comm])].pos = f.pos
           /\ f.tag = After(f.comm, made[r][f.comm][Len(made[r][f.comm])])

FramedIn(st) ==
    \A r \in Ranks :
        /\ \A i \in DOMAIN st[r] : Linked(r, st[r][i])
        /\ \A i, j \in DOMAIN st[r] : i < j => st[r][i].comm < st[r][j].comm
        /\ \A c \in Comms : (\A i \in DOMAIN st[r] : st[r][i].comm # c) => Between(r, c)

Framed == FramedIn(stack)

\* An exchange in flight is that of a call the rank made, the last one if it is
\* still inside it.
Carried(r, a, d) ==
    /\ d.call \in DOMAIN made[r][d.comm]
    /\ LET e == made[r][d.comm][d.call]
           k == program[d.comm][e.pos]
       IN  /\ k.op = "nowait" /\ ~Alone(d.comm)
           /\ k.array = a /\ d.pairs = k.pairs /\ d.passes = k.passes
           /\ d.tag = e.tag
    /\ d.pass \in 1 .. d.passes
    /\ d.pass < d.passes => d.call = Len(made[r][d.comm])

Flying == \A r \in Ranks, a \in Arrays : data[r][a] # NoData => Carried(r, a, data[r][a])

Less(x, y) == x[1] < y[1] \/ (x[1] = y[1] /\ x[2] < y[2])

\* The passes a rank with the calls L has to send or receive on a channel, ...
Has(L, ch, id) ==
    /\ id[1] \in DOMAIN L
    /\ LET k == program[ch.comm][L[id[1]].pos]
       IN  /\ k.op = "nowait" /\ ~Alone(ch.comm)
           /\ <<ch.from, ch.to>> \in k.pairs
           /\ id[2] \in 1 .. k.passes
    /\ L[id[1]].tag = ch.tag

\* ... and those it has come to, with the exchanges D in flight.
DoneIn(D, c, id) ==
    \A a \in Arrays : D[a] # NoData /\ D[a].comm = c /\ D[a].call = id[1] => id[2] <= D[a].pass

Reached(L, D, ch, id) == Has(L, ch, id) /\ DoneIn(D, ch.comm, id)

Ordered(L, D, ch, q) ==
    /\ \A i, j \in DOMAIN q : i < j => Less(q[i], q[j])
    /\ \A id \in Ids : Reached(L, D, ch, id) <=> \E i \in DOMAIN q : q[i] = id

Queued ==
    \A ch \in Channels :
        /\ Ordered(made[ch.from][ch.comm], data[ch.from], ch, sent[ch])
        /\ Ordered(made[ch.to][ch.comm], data[ch.to], ch, posted[ch])

IInv == TypeOK /\ Chained /\ Agree /\ Framed /\ Flying /\ Queued /\ RightData

-----------------------------------------------------------------------------

\* What TypeOK and the assumption give at a call.
LEMMA PutInSeq ==
    ASSUME NEW S, NEW s \in Seq(S), NEW i \in DOMAIN s, NEW x \in S
    PROVE  [s EXCEPT ![i] = x] \in Seq(S) /\ Len([s EXCEPT ![i] = x]) = Len(s)
  OBVIOUS

LEMMA IncTag == ASSUME NEW t \in Tags PROVE get_inc_mpi_tag(t) \in Tags
  BY ExchangeAssumption DEF ExchangeAssumption, Tags, get_inc_mpi_tag

LEMMA TopIsFrame ==
    ASSUME TypeOK, NEW r \in Ranks, stack[r] # <<>>
    PROVE  /\ stack[r] \in Seq(Frames)
           /\ Len(stack[r]) \in DOMAIN stack[r] /\ Len(stack[r]) \in Nat \ {0}
           /\ Top(r) \in Frames /\ Top(r) = stack[r][Len(stack[r])]
           /\ Top(r).comm \in Comms /\ Top(r).pos \in Nat /\ Top(r).tag \in Tags
  <1>1. stack[r] \in Seq(Frames)
    BY DEF TypeOK
  <1>2. Len(stack[r]) \in DOMAIN stack[r] /\ Len(stack[r]) \in Nat \ {0}
    BY <1>1
  <1>3. Top(r) \in Frames
    BY <1>1, <1>2 DEF Top
  <1> QED
    BY <1>1, <1>2, <1>3 DEF Frames, Top

LEMMA ProgramCalls ==
    ASSUME TypeOK, NEW c \in Comms
    PROVE  /\ program[c] \in Seq(Calls)
           /\ \A i \in DOMAIN program[c] : program[c][i] \in Calls
           /\ \A i \in DOMAIN program[c] :
                  program[c][i].op = "push" => \A k \in program[c][i].comms : k > c
           /\ \A i \in DOMAIN program[c] : program[c][i].op = "nowait" =>
                  /\ program[c][i].array \in Arrays
                  /\ program[c][i].pairs \in SUBSET (Ranks \X Ranks)
                  /\ program[c][i].passes \in Nat \ {0}
           /\ \A i \in DOMAIN program[c] : program[c][i].op = "finish" => program[c][i].array \in Arrays
           /\ \A i \in DOMAIN program[c] : program[c][i].op = "push" => program[c][i].comms \in SUBSET Comms
  <1>1. program \in Programs
    BY DEF TypeOK
  <1>2. program[c] \in Seq(Calls)
    BY <1>1, ExchangeAssumption DEF ExchangeAssumption
  <1>3. \A i \in DOMAIN program[c] : program[c][i] \in Calls
    BY <1>2
  <1>4. \A k \in Calls :
           /\ k.op = "nowait" => k.array \in Arrays /\ k.pairs \in SUBSET (Ranks \X Ranks) /\ k.passes \in Nat \ {0}
           /\ k.op = "finish" => k.array \in Arrays
           /\ k.op = "push" => k.comms \in SUBSET Comms
    BY DEF Calls
  <1> QED
    BY <1>1, <1>2, <1>3, <1>4, ExchangeAssumption DEF ExchangeAssumption

\* A call: its place, and the entry it adds to the history.
LEMMA CallFacts ==
    ASSUME TypeOK, NEW r \in Ranks, NEW op, AtCall(r, op)
    PROVE  /\ stack[r] # <<>> /\ ~Copying(r)
           /\ Top(r).pos + 1 \in DOMAIN program[Top(r).comm]
           /\ Top(r).pos + 1 \in 1 .. Len(program[Top(r).comm])
           /\ NextCall(r) = program[Top(r).comm][Top(r).pos + 1]
           /\ NextCall(r) \in Calls /\ NextCall(r).op = op
           /\ [pos |-> Top(r).pos + 1, tag |-> Top(r).tag] \in Entries
  <1>1. stack[r] # <<>> /\ ~Copying(r)
    BY DEF AtCall, Idle
  <1>2. Top(r).pos < Len(program[Top(r).comm]) /\ program[Top(r).comm][Top(r).pos + 1].op = op
    BY DEF AtCall
  <1>3. Top(r).comm \in Comms /\ Top(r).pos \in Nat /\ Top(r).tag \in Tags
    BY <1>1, TopIsFrame
  <1>4. program[Top(r).comm] \in Seq(Calls)
    BY <1>3, ProgramCalls
  <1> QED
    BY <1>1, <1>2, <1>3, <1>4 DEF NextCall, Entries

LEMMA LogFacts ==
    ASSUME TypeOK, NEW r \in Ranks, NEW op, AtCall(r, op), Log(r)
    PROVE  /\ made' \in [Ranks -> [Comms -> Seq(Entries)]]
           /\ made'[r][Top(r).comm] =
                  Append(made[r][Top(r).comm], [pos |-> Top(r).pos + 1, tag |-> Top(r).tag])
           /\ \A q \in Ranks, c \in Comms :
                  q # r \/ c # Top(r).comm => made'[q][c] = made[q][c]
           /\ \A q \in Ranks, c \in Comms : made[q][c] \in Seq(Entries) /\ made'[q][c] \in Seq(Entries)
  <1>1. made \in [Ranks -> [Comms -> Seq(Entries)]]
    BY DEF TypeOK, Entries
  <1>2. Top(r).comm \in Comms /\ [pos |-> Top(r).pos + 1, tag |-> Top(r).tag] \in Entries
    BY CallFacts, TopIsFrame
  <1> DEFINE e == [pos |-> Top(r).pos + 1, tag |-> Top(r).tag]
             c0 == Top(r).comm
  <1>3. made' = [made EXCEPT ![r][c0] = Append(made[r][c0], e)]
    BY DEF Log
  <1>4. Append(made[r][c0], e) \in Seq(Entries)
    BY <1>1, <1>2
  <1> HIDE DEF e, c0
  <1>5. c0 \in Comms
    BY <1>2 DEF c0
  <1>6. made' \in [Ranks -> [Comms -> Seq(Entries)]]
    BY <1>1, <1>3, <1>4, <1>5
  <1>7. made'[r][c0] = Append(made[r][c0], e)
    BY <1>1, <1>3, <1>5
  <1>8. \A q \in Ranks, c \in Comms : q # r \/ c # c0 => made'[q][c] = made[q][c]
    BY <1>1, <1>3, <1>5
  <1> QED
    BY <1>1, <1>6, <1>7, <1>8 DEF e, c0

LEMMA ReturnedFacts ==
    ASSUME TypeOK, NEW r \in Ranks, NEW op, AtCall(r, op), NEW t \in Tags
    PROVE  /\ Returned(r, t) \in [Ranks -> Seq(Frames)]
           /\ Len(Returned(r, t)[r]) = Len(stack[r])
           /\ Returned(r, t)[r][Len(stack[r])] =
                  [comm |-> Top(r).comm, pos |-> Top(r).pos + 1, tag |-> t]
           /\ \A i \in DOMAIN stack[r] : i # Len(stack[r]) => Returned(r, t)[r][i] = stack[r][i]
           /\ \A q \in Ranks : q # r => Returned(r, t)[q] = stack[q]
  <1> DEFINE f == [comm |-> Top(r).comm, pos |-> Top(r).pos + 1, tag |-> t]
             n == Len(stack[r])
  <1>1. stack[r] # <<>>
    BY CallFacts
  <1>a. Top(r).comm \in Comms /\ Top(r).pos + 1 \in Nat
    BY <1>1, TopIsFrame
  <1>b. f \in Frames
    BY <1>a DEF Frames
  <1>2. f \in Frames /\ n \in DOMAIN stack[r] /\ stack[r] \in Seq(Frames)
    BY <1>1, <1>b, TopIsFrame
  <1>3. Returned(r, t) = [stack EXCEPT ![r] = [stack[r] EXCEPT ![n] = f]]
    BY DEF Returned
  <1> HIDE DEF f, n
  <1>4. [stack[r] EXCEPT ![n] = f] \in Seq(Frames) /\ Len([stack[r] EXCEPT ![n] = f]) = Len(stack[r])
    BY <1>2, PutInSeq
  <1>5. stack \in [Ranks -> Seq(Frames)]
    BY DEF TypeOK
  <1>6. Returned(r, t)[r] = [stack[r] EXCEPT ![n] = f]
    BY <1>3, <1>5
  <1>7. Returned(r, t)[r][n] = f /\ \A i \in DOMAIN stack[r] : i # n => Returned(r, t)[r][i] = stack[r][i]
    BY <1>6, <1>2
  <1>8. Returned(r, t) \in [Ranks -> Seq(Frames)] /\ \A q \in Ranks : q # r => Returned(r, t)[q] = stack[q]
    BY <1>3, <1>4, <1>5
  <1> QED
    BY <1>4, <1>6, <1>7, <1>8 DEF f, n

-----------------------------------------------------------------------------

\* The history of calls.
LEMMA NewEntry ==
    ASSUME TypeOK, Framed, NEW r \in Ranks, NEW op, AtCall(r, op)
    PROVE  LET c == Top(r).comm
               L == made[r][c]
           IN  [pos |-> Top(r).pos + 1, tag |-> Top(r).tag] =
                   IF L = <<>> THEN First ELSE Following(c, L[Len(L)])
  <1> DEFINE f == Top(r)
             L == made[r][f.comm]
  <1>1. stack[r] # <<>>
    BY CallFacts
  <1>2. Len(stack[r]) \in DOMAIN stack[r] /\ f = stack[r][Len(stack[r])]
    BY <1>1, TopIsFrame
  <1>3. Linked(r, f)
    BY <1>2 DEF Framed, FramedIn
  <1>4. f.comm \in Comms /\ f.pos \in Nat /\ f.tag \in Tags
    BY <1>1, TopIsFrame
  <1>5. L \in Seq(Entries) /\ program[f.comm] \in Seq(Calls)
    BY <1>4, ProgramCalls DEF TypeOK, Entries
  <1>6. f.pos + 1 \in 1 .. Len(program[f.comm])
    BY CallFacts
  <1> HIDE DEF f
  <1>7. CASE f.pos = 0
    <2>1. f.tag = MinTag /\ Between(r, f.comm)
      BY <1>3, <1>7 DEF Linked
    <2>2. L # <<>> => L[Len(L)].pos = Len(program[f.comm])
      BY <2>1 DEF Between
    <2>3. L # <<>> => Following(f.comm, L[Len(L)]) = First
      BY <2>2 DEF Following
    <2> QED
      BY <2>1, <2>3, <1>7 DEF First, f
  <1>8. CASE f.pos > 0
    <2>1. L # <<>> /\ L[Len(L)].pos = f.pos /\ f.tag = After(f.comm, L[Len(L)])
      BY <1>3, <1>8 DEF Linked
    <2>2. L[Len(L)].pos # Len(program[f.comm])
      BY <2>1, <1>4, <1>5, <1>6
    <2> QED
      BY <2>1, <2>2 DEF Following, f
  <1> QED
    BY <1>4, <1>7, <1>8

LEMMA HistoryStep ==
    ASSUME TypeOK, Chained, Agree, Framed, NEW r \in Ranks, NEW op, AtCall(r, op), Log(r),
           UNCHANGED program
    PROVE  Chained' /\ Agree'
  <1> DEFINE c0 == Top(r).comm
             L == made[r][c0]
             e == [pos |-> Top(r).pos + 1, tag |-> Top(r).tag]
  <1>1. /\ made'[r][c0] = Append(L, e)
        /\ \A q \in Ranks, c \in Comms : q # r \/ c # c0 => made'[q][c] = made[q][c]
        /\ \A q \in Ranks, c \in Comms : made[q][c] \in Seq(Entries) /\ made'[q][c] \in Seq(Entries)
    BY LogFacts
  <1>2. c0 \in Comms /\ e \in Entries /\ e.pos \in 1 .. Len(program[c0])
    BY CallFacts, TopIsFrame
  <1>3. e = IF L = <<>> THEN First ELSE Following(c0, L[Len(L)])
    BY NewEntry
  <1> HIDE DEF c0, e
  <1>4. L \in Seq(Entries)
    BY <1>1, <1>2
  <1>5. /\ DOMAIN Append(L, e) = 1 .. Len(L) + 1
        /\ \A n \in 1 .. Len(L) : Append(L, e)[n] = L[n]
        /\ Append(L, e)[Len(L) + 1] = e
        /\ Len(L) \in Nat /\ DOMAIN L = 1 .. Len(L) /\ (L = <<>> <=> Len(L) = 0)
    BY <1>4, <1>2
  <1>6. Chained'
    <2> SUFFICES ASSUME NEW q \in Ranks, NEW c \in Comms, NEW n \in DOMAIN made'[q][c]
                 PROVE  /\ made'[q][c][n].pos \in 1 .. Len(program[c])
                        /\ made'[q][c][n] = IF n = 1 THEN First ELSE Following(c, made'[q][c][n - 1])
      BY DEF Chained, Following, First, After, Draws
    <2>1. CASE q # r \/ c # c0
      BY <2>1, <1>1 DEF Chained
    <2>2. CASE q = r /\ c = c0 /\ n \in 1 .. Len(L)
      <3>1. /\ L[n].pos \in 1 .. Len(program[c])
            /\ L[n] = IF n = 1 THEN First ELSE Following(c, L[n - 1])
        BY <2>2, <1>5 DEF Chained
      <3>2. n # 1 => n - 1 \in 1 .. Len(L)
        BY <2>2, <1>5
      <3> QED
        BY <2>2, <3>1, <3>2, <1>1, <1>5
    <2>3. CASE q = r /\ c = c0 /\ n = Len(L) + 1
      BY <2>3, <1>1, <1>2, <1>3, <1>5
    <2> QED
      BY <2>1, <2>2, <2>3, <1>1, <1>5
  <1>7. Agree'
    <2>1. ASSUME NEW b \in Ranks, b # r, NEW n \in DOMAIN made'[r][c0] \cap DOMAIN made'[b][c0]
          PROVE  made'[r][c0][n] = made'[b][c0][n]
      <3>1. made'[b][c0] = made[b][c0] /\ made[b][c0] \in Seq(Entries)
        BY <2>1, <1>1, <1>2
      <3>2. CASE n \in 1 .. Len(L)
        BY <3>1, <3>2, <1>1, <1>2, <1>5, <2>1 DEF Agree
      <3>3. CASE n = Len(L) + 1
        <4>1. made[b][c0][n] = IF n = 1 THEN First ELSE Following(c0, made[b][c0][n - 1])
          BY <3>1, <2>1, <1>2 DEF Chained
        <4>2. n # 1 => n - 1 = Len(L) /\ n - 1 \in DOMAIN L /\ n - 1 \in DOMAIN made[b][c0]
          BY <3>1, <3>3, <2>1, <1>5
        <4>3. n # 1 => L[Len(L)] = made[b][c0][n - 1]
          BY <4>2, <1>2 DEF Agree
        <4> QED
          BY <4>1, <4>2, <4>3, <3>1, <3>3, <1>1, <1>3, <1>5
      <3> QED
        BY <3>2, <3>3, <2>1, <1>1, <1>5
    <2>2. ASSUME NEW a \in Ranks, NEW b \in Ranks, NEW c \in Comms,
                 NEW n \in DOMAIN made'[a][c] \cap DOMAIN made'[b][c]
          PROVE  made'[a][c][n] = made'[b][c][n]
      <3>1. CASE c # c0 \/ (a # r /\ b # r)
        BY <3>1, <2>2, <1>1 DEF Agree
      <3>2. CASE c = c0 /\ a = r /\ b # r
        BY <3>2, <2>1, <2>2
      <3>3. CASE c = c0 /\ b = r /\ a # r
        BY <3>3, <2>1, <2>2
      <3> QED
        BY <3>1, <3>2, <3>3
    <2> QED
      BY <2>2 DEF Agree
  <1> QED
    BY <1>6, <1>7

-----------------------------------------------------------------------------

\* The frames.
LEMMA BetweenKept ==
    ASSUME TypeOK, NEW r \in Ranks, NEW op, AtCall(r, op), Log(r), UNCHANGED program,
           NEW q \in Ranks, NEW c \in Comms, q # r \/ c # Top(r).comm
    PROVE  Between(q, c)' <=> Between(q, c)
  <1>1. made'[q][c] = made[q][c]
    BY LogFacts
  <1> QED
    BY <1>1 DEF Between

LEMMA LinkKept ==
    ASSUME TypeOK, NEW r \in Ranks, NEW op, AtCall(r, op), Log(r), UNCHANGED program,
           NEW q \in Ranks, NEW f \in Frames, q # r \/ f.comm # Top(r).comm, Linked(q, f)
    PROVE  Linked(q, f)'
  <1>1. f.comm \in Comms
    BY DEF Frames
  <1>2. made'[q][f.comm] = made[q][f.comm]
    BY <1>1, LogFacts
  <1> QED
    BY <1>2 DEF Linked, Between, After, Draws

LEMMA LinkNew ==
    ASSUME TypeOK, Framed, NEW r \in Ranks, NEW op, AtCall(r, op), Log(r), UNCHANGED program,
           NEW f \in Frames, f.comm = Top(r).comm, f.pos = Top(r).pos + 1,
           f.tag = IF Draws(f.comm, f.pos) THEN get_inc_mpi_tag(Top(r).tag) ELSE Top(r).tag
    PROVE  Linked(r, f)'
  <1>1. PICK e \in Entries : e = [pos |-> Top(r).pos + 1, tag |-> Top(r).tag]
    BY CallFacts
  <1>2. f.comm \in Comms /\ f.pos \in Nat
    BY DEF Frames
  <1>3. f.pos \in 1 .. Len(program[f.comm])
    BY CallFacts
  <1>4. made[r][f.comm] \in Seq(Entries) /\ made'[r][f.comm] = Append(made[r][f.comm], e)
    BY <1>1, <1>2, LogFacts
  <1>5. made'[r][f.comm] # <<>> /\ made'[r][f.comm][Len(made'[r][f.comm])] = e
    BY <1>1, <1>4
  <1>6. e.pos = f.pos /\ e.tag = Top(r).tag
    BY <1>1
  <1>7. f.tag = After(f.comm, e)
    BY <1>6 DEF After
  <1>8. f.tag = After(f.comm, e)'
    BY <1>7 DEF After, Draws
  <1> QED
    BY <1>3, <1>5, <1>6, <1>8 DEF Linked, After, Draws

\* A call after which the same frames are there.
LEMMA FramesReturned ==
    ASSUME TypeOK, Framed, NEW r \in Ranks, NEW op, AtCall(r, op), Log(r), UNCHANGED program,
           NEW t \in Tags, NEW st, st = Returned(r, t),
           t = IF Draws(Top(r).comm, Top(r).pos + 1) THEN get_inc_mpi_tag(Top(r).tag) ELSE Top(r).tag
    PROVE  FramedIn(st)'
  <1>1. PICK n \in DOMAIN stack[r] : n = Len(stack[r]) /\ Top(r) = stack[r][n]
    BY CallFacts, TopIsFrame
  <1>2. /\ st[r] \in Seq(Frames) /\ DOMAIN st[r] = DOMAIN stack[r]
        /\ st[r][n] = [comm |-> Top(r).comm, pos |-> Top(r).pos + 1, tag |-> t]
        /\ \A i \in DOMAIN stack[r] : i # n => st[r][i] = stack[r][i]
        /\ \A q \in Ranks : q # r => st[q] = stack[q]
        /\ \A q \in Ranks : stack[q] \in Seq(Frames)
    <2>1. stack \in [Ranks -> Seq(Frames)]
      BY DEF TypeOK
    <2>2. st \in [Ranks -> Seq(Frames)] /\ Len(st[r]) = Len(stack[r])
      BY ReturnedFacts
    <2>3. DOMAIN st[r] = DOMAIN stack[r]
      BY <2>1, <2>2
    <2> QED
      BY <1>1, <2>1, <2>2, <2>3, ReturnedFacts
  <1>3. st[r][n] \in Frames
    BY <1>2
  <1>4. \A i \in DOMAIN stack[r] : st[r][i].comm = stack[r][i].comm
    <2>1. st[r][n].comm = Top(r).comm
      BY <1>2
    <2> QED
      BY <2>1, <1>1, <1>2
  <1>5. Linked(r, st[r][n])'
    <2>1. PICK f \in Frames : f = st[r][n]
      BY <1>3
    <2>2. Linked(r, f)'
      BY <2>1, <1>2, LinkNew
    <2> QED
      BY <2>1, <2>2
  <1>6. (\A q \in Ranks : \A i \in DOMAIN st[q] : Linked(q, st[q][i]))'
    <2> SUFFICES ASSUME NEW q \in Ranks, NEW i \in DOMAIN st[q], q # r \/ i # n
                 PROVE  Linked(q, st[q][i])'
      BY <1>5
    <2>1. PICK f \in Frames : f = st[q][i] /\ f = stack[q][i] /\ i \in DOMAIN stack[q]
      BY <1>2
    <2>2. Linked(q, f)
      BY <2>1 DEF Framed, FramedIn
    <2>3. q # r \/ f.comm # Top(r).comm
      <3>1. CASE q = r
        <4>1. i < n /\ n \in DOMAIN stack[r] /\ i \in DOMAIN stack[r]
          <5>1. stack[r] \in Seq(Frames) /\ i \in DOMAIN stack[r] /\ i # n
            BY <3>1, <2>1, <1>2
          <5> QED
            BY <5>1, <1>1
        <4>2. stack[r][i].comm < stack[r][n].comm
          BY <4>1 DEF Framed, FramedIn
        <4>3. f.comm \in Nat /\ Top(r).comm \in Nat
          BY CallFacts, TopIsFrame, ExchangeAssumption DEF ExchangeAssumption, Frames
        <4> QED
          BY <3>1, <4>2, <4>3, <2>1, <1>1
      <3> QED
        BY <3>1
    <2>4. Linked(q, f)'
      BY <2>2, <2>3, LinkKept
    <2> QED
      BY <2>1, <2>4
  <1>7. \A q \in Ranks : \A i, j \in DOMAIN st[q] : i < j => st[q][i].comm < st[q][j].comm
    BY <1>2, <1>4 DEF Framed, FramedIn
  <1>8. ASSUME NEW q \in Ranks, NEW c \in Comms, \A i \in DOMAIN st[q] : st[q][i].comm # c
        PROVE  Between(q, c)'
    <2>1. \A i \in DOMAIN stack[q] : stack[q][i].comm # c
      <3>1. CASE q = r
        BY <3>1, <1>8, <1>2, <1>4
      <3>2. CASE q # r
        BY <3>2, <1>8, <1>2
      <3> QED
        BY <3>1, <3>2
    <2>2. Between(q, c) /\ (q # r \/ c # Top(r).comm)
      BY <2>1, <1>1 DEF Framed, FramedIn
    <2> QED
      BY <2>2, BetweenKept
  <1> QED
    BY <1>6, <1>7, <1>8 DEF FramedIn

\* ... and one that pushes a frame, whose communicator is none of those below.
LEMMA FramesPushed ==
    ASSUME TypeOK, Framed, NEW r \in Ranks, Push(r)
    PROVE  Framed'
  <1>1. AtCall(r, "push") /\ Log(r) /\ UNCHANGED program
    BY DEF Push
  <1>2. /\ NextCall(r) = program[Top(r).comm][Top(r).pos + 1] /\ NextCall(r).op = "push"
        /\ Top(r).pos + 1 \in DOMAIN program[Top(r).comm]
        /\ stack[r] # <<>>
    BY <1>1, CallFacts
  <1>3. Top(r).comm \in Comms /\ Top(r).tag \in Tags /\ Comms \subseteq Nat /\ MinTag \in Tags
    BY <1>2, TopIsFrame, ExchangeAssumption DEF ExchangeAssumption, Tags
  <1>4. \A k \in NextCall(r).comms : k > Top(r).comm /\ k \in Comms
    BY <1>2, <1>3, ProgramCalls
  <1>5. ~Draws(Top(r).comm, Top(r).pos + 1)
    BY <1>2 DEF Draws
  <1>6. PICK st : st = Returned(r, Top(r).tag)
    OBVIOUS
  <1>7. FramedIn(st)'
    BY <1>1, <1>3, <1>5, <1>6, FramesReturned
  <1>8. CASE \A c \in NextCall(r).comms : r \notin Members[c]
    <2>1. stack' = st
      BY <1>6, <1>8 DEF Push
    <2> QED
      BY <1>7, <2>1 DEF Framed
  <1>9. ASSUME NEW c \in NextCall(r).comms,
               stack' = [stack EXCEPT ![r] = Append(Returned(r, Top(r).tag)[r], [comm |-> c, pos |-> 0, tag |-> MinTag])]
        PROVE  Framed'
    <2>1. PICK f : f = [comm |-> c, pos |-> 0, tag |-> MinTag]
      OBVIOUS
    <2>2. c \in Comms /\ c > Top(r).comm /\ f \in Frames
      BY <1>3, <1>4, <2>1 DEF Frames
    <2>3. /\ st \in [Ranks -> Seq(Frames)] /\ stack \in [Ranks -> Seq(Frames)]
          /\ \A q \in Ranks : q # r => st[q] = stack[q]
      BY <1>1, <1>3, <1>6, ReturnedFacts DEF TypeOK
    <2>4. stack'[r] = Append(st[r], f) /\ \A q \in Ranks : q # r => stack'[q] = st[q]
      BY <1>6, <1>9, <2>1, <2>3
    <2>5. /\ DOMAIN Append(st[r], f) = 1 .. Len(st[r]) + 1 /\ DOMAIN st[r] = 1 .. Len(st[r])
          /\ \A i \in DOMAIN st[r] : Append(st[r], f)[i] = st[r][i]
          /\ Append(st[r], f)[Len(st[r]) + 1] = f
          /\ Len(st[r]) \in Nat
      BY <2>2, <2>3
    <2>6. \A i \in DOMAIN st[r] : st[r][i].comm < c
      <3>1. PICK n \in DOMAIN stack[r] : n = Len(stack[r])
        BY <1>2, TopIsFrame
      <3>2. Len(st[r]) = n /\ st[r][n] = [comm |-> Top(r).comm, pos |-> Top(r).pos + 1, tag |-> Top(r).tag]
        BY <1>1, <1>3, <1>6, <3>1, ReturnedFacts
      <3>3. st[r][n].comm = Top(r).comm
        BY <3>2
      <3>4. \A i \in DOMAIN st[r] : st[r][i].comm \in Nat
        <4>1. \A i \in DOMAIN st[r] : st[r][i] \in Frames
          BY <2>3
        <4> QED
          BY <4>1, <1>3 DEF Frames
      <3>5. \A i \in DOMAIN st[r] : i # n => st[r][i].comm < Top(r).comm
        BY <1>7, <2>5, <3>2, <3>3 DEF FramedIn
      <3>6. c \in Nat /\ Top(r).comm \in Nat
        BY <1>3, <2>2
      <3> SUFFICES ASSUME NEW i \in DOMAIN st[r] PROVE st[r][i].comm < c
        OBVIOUS
      <3>7. st[r][i].comm \in Nat /\ (i = n \/ st[r][i].comm < Top(r).comm)
        BY <3>4, <3>5
      <3> QED
        BY <2>2, <3>3, <3>6, <3>7
    <2>7. Linked(r, f)'
      <3>1. \A i \in DOMAIN st[r] : st[r][i].comm # c
        BY <2>6, <2>2, <2>3, <1>3 DEF Frames
      <3>2. Between(r, c)'
        BY <1>7, <2>2, <3>1 DEF FramedIn
      <3>3. Len(program'[c]) \in Nat
        BY <1>1, <2>2, ProgramCalls
      <3> QED
        BY <2>1, <3>2, <3>3 DEF Linked
    <2>8. ASSUME NEW q \in Ranks
          PROVE  /\ (\A i \in DOMAIN stack[q] : Linked(q, stack[q][i]))'
                 /\ \A i, j \in DOMAIN stack'[q] : i < j => stack'[q][i].comm < stack'[q][j].comm
                 /\ \A k \in Comms : (\A i \in DOMAIN stack'[q] : stack'[q][i].comm # k) => Between(q, k)'
      <3>1. CASE q # r
        BY <3>1, <1>7, <2>4 DEF FramedIn
      <3>2. CASE q = r
        <4>1. (\A i \in DOMAIN stack[q] : Linked(q, stack[q][i]))'
          BY <3>2, <1>7, <2>4, <2>5, <2>7 DEF FramedIn
        <4>2. \A i, j \in DOMAIN stack'[q] : i < j => stack'[q][i].comm < stack'[q][j].comm
          <5> SUFFICES ASSUME NEW i \in DOMAIN stack'[r], NEW j \in DOMAIN stack'[r], i < j
                       PROVE  stack'[r][i].comm < stack'[r][j].comm
            BY <3>2
          <5>1. i \in DOMAIN st[r] /\ i \in Nat /\ j \in Nat
            BY <2>4, <2>5
          <5>2. CASE j \in DOMAIN st[r]
            BY <5>1, <5>2, <1>7, <2>4, <2>5 DEF FramedIn
          <5>3. CASE j = Len(st[r]) + 1
            <6>1. f.comm = c
              BY <2>1
            <6> QED
              BY <5>1, <5>3, <6>1, <2>4, <2>5, <2>6
          <5> QED
            BY <5>2, <5>3, <2>4, <2>5
        <4>3. \A k \in Comms : (\A i \in DOMAIN stack'[q] : stack'[q][i].comm # k) => Between(q, k)'
          <5> SUFFICES ASSUME NEW k \in Comms, \A i \in DOMAIN stack'[r] : stack'[r][i].comm # k
                       PROVE  Between(r, k)'
            BY <3>2
          <5>1. \A i \in DOMAIN st[r] : st[r][i].comm # k
            BY <2>4, <2>5
          <5> QED
            BY <5>1, <1>7 DEF FramedIn
        <4> QED
          BY <4>1, <4>2, <4>3
      <3> QED
        BY <3>1, <3>2
    <2> QED
      BY <2>8 DEF Framed, FramedIn
  <1> QED
    BY <1>8, <1>9 DEF Push

LEMMA FramesPopped ==
    ASSUME TypeOK, Framed, NEW r \in Ranks, Pop(r)
    PROVE  Framed'
  <1>1. /\ stack' = [stack EXCEPT ![r] = SubSeq(stack[r], 1, Len(stack[r]) - 1)]
        /\ UNCHANGED <<program, made>> /\ stack[r] # <<>>
        /\ Top(r).pos = Len(program[Top(r).comm])
    BY DEF Pop, Idle
  <1>2. stack \in [Ranks -> Seq(Frames)]
    BY DEF TypeOK
  <1>3. PICK n \in DOMAIN stack[r] : n = Len(stack[r]) /\ Top(r) = stack[r][n] /\ n \in Nat \ {0}
    BY <1>1, TopIsFrame
  <1>4. /\ DOMAIN stack[r] = 1 .. n /\ DOMAIN stack'[r] = 1 .. n - 1
        /\ \A i \in 1 .. n - 1 : stack'[r][i] = stack[r][i]
        /\ \A q \in Ranks : q # r => stack'[q] = stack[q]
    <2>1. stack'[r] = SubSeq(stack[r], 1, n - 1) /\ \A q \in Ranks : q # r => stack'[q] = stack[q]
      BY <1>1, <1>2, <1>3
    <2> QED
      BY <2>1, <1>2, <1>3
  <1>5. \A q \in Ranks : \A i \in DOMAIN stack'[q] : i \in DOMAIN stack[q] /\ stack'[q][i] = stack[q][i]
    BY <1>3, <1>4
  <1>6. (\A q \in Ranks : \A i \in DOMAIN stack[q] : Linked(q, stack[q][i]))'
    <2> SUFFICES ASSUME NEW q \in Ranks, NEW i \in DOMAIN stack'[q]
                 PROVE  Linked(q, stack[q][i])'
      OBVIOUS
    <2>1. PICK f : f = stack'[q][i] /\ f = stack[q][i] /\ i \in DOMAIN stack[q]
      BY <1>5
    <2>2. Linked(q, f)
      BY <2>1 DEF Framed, FramedIn
    <2>3. Linked(q, f)'
      BY <2>2, <1>1 DEF Linked, Between, After, Draws
    <2> QED
      BY <2>1, <2>3
  <1>7. \A q \in Ranks : \A i, j \in DOMAIN stack'[q] : i < j => stack'[q][i].comm < stack'[q][j].comm
    BY <1>5 DEF Framed, FramedIn
  <1>8. ASSUME NEW q \in Ranks, NEW c \in Comms, \A i \in DOMAIN stack'[q] : stack'[q][i].comm # c
        PROVE  Between(q, c)'
    <2>1. CASE \A i \in DOMAIN stack[q] : stack[q][i].comm # c
      BY <2>1, <1>1 DEF Framed, FramedIn, Between
    <2>2. CASE ~(\A i \in DOMAIN stack[q] : stack[q][i].comm # c)
      <3>1. q = r /\ stack[r][n].comm = c
        BY <2>2, <1>8, <1>3, <1>4
      <3>2. Linked(r, Top(r)) /\ Top(r).comm = c /\ Top(r).pos \in Nat
        BY <3>1, <1>1, <1>3, TopIsFrame DEF Framed, FramedIn
      <3>3. Between(r, c)
        BY <3>2, <1>1 DEF Linked, Between
      <3> QED
        BY <3>1, <3>3, <1>1 DEF Between
    <2> QED
      BY <2>1, <2>2
  <1> QED
    BY <1>6, <1>7, <1>8 DEF Framed, FramedIn

-----------------------------------------------------------------------------

\* Two ordered sequences of passes.
LEMMA LessOrders ==
    ASSUME NEW x \in Ids, NEW y \in Ids
    PROVE  /\ ~(Less(x, y) /\ Less(y, x)) /\ ~Less(x, x)
           /\ x = y \/ Less(x, y) \/ Less(y, x)
  <1>1. PICK a \in Nat, b \in Nat : x = <<a, b>>
    BY DEF Ids
  <1>2. PICK c \in Nat, d \in Nat : y = <<c, d>>
    BY DEF Ids
  <1> QED
    BY <1>1, <1>2 DEF Less

\* What one of two ranks has come to, the other has too unless it is beyond all
\* it has come to.
LEMMA ReachedBoth ==
    ASSUME TypeOK, Agree, Flying, NEW ch \in Channels, NEW a \in Ranks, NEW b \in Ranks,
           NEW x \in Ids, NEW y \in Ids, Less(x, y),
           Reached(made[a][ch.comm], data[a], ch, x),
           Reached(made[b][ch.comm], data[b], ch, y)
    PROVE  Reached(made[b][ch.comm], data[b], ch, x)
  <1> DEFINE c == ch.comm
  <1>1. c \in Comms
    BY DEF Channels
  <1>2. made[a][c] \in Seq(Entries) /\ made[b][c] \in Seq(Entries)
    BY <1>1 DEF TypeOK, Entries
  <1>3. /\ x[1] \in Nat /\ x[2] \in Nat /\ y[1] \in Nat /\ y[2] \in Nat
        /\ x[1] <= y[1] /\ (x[1] = y[1] => x[2] < y[2])
    BY DEF Less, Ids
  <1>4. /\ Has(made[a][c], ch, x) /\ Has(made[b][c], ch, y) /\ DoneIn(data[b], c, y)
    BY DEF Reached
  <1>5. x[1] \in DOMAIN made[a][c] /\ y[1] \in DOMAIN made[b][c]
    BY <1>4 DEF Has
  <1>6. x[1] \in DOMAIN made[b][c] /\ y[1] <= Len(made[b][c])
    BY <1>2, <1>3, <1>5
  <1>7. made[b][c][x[1]] = made[a][c][x[1]]
    BY <1>1, <1>5, <1>6 DEF Agree
  <1>8. Has(made[b][c], ch, x)
    BY <1>4, <1>6, <1>7 DEF Has
  <1>9. DoneIn(data[b], c, x)
    <2> SUFFICES ASSUME NEW z \in Arrays, data[b][z] # NoData, data[b][z].comm = c, data[b][z].call = x[1]
                 PROVE  x[2] <= data[b][z].pass
      BY DEF DoneIn
    <2>1. data[b][z] \in InFlight
      BY DEF TypeOK
    <2>2. Carried(b, z, data[b][z])
      BY DEF Flying
    <2>3. data[b][z].pass \in Nat /\ data[b][z].passes \in Nat
      BY <2>1 DEF InFlight
    <2>4. CASE x[1] = y[1]
      <3>1. y[2] <= data[b][z].pass
        BY <2>4, <1>4 DEF DoneIn
      <3> QED
        BY <3>1, <2>3, <2>4, <1>3
    <2>5. CASE x[1] # y[1]
      <3>1. x[1] # Len(made[b][c])
        BY <2>5, <1>2, <1>3, <1>6
      <3>2. data[b][z].pass >= data[b][z].passes
        <4>1. data[b][z].pass < data[b][z].passes => data[b][z].call = Len(made[b][data[b][z].comm])
          BY <2>2 DEF Carried
        <4> QED
          BY <4>1, <3>1, <2>3
      <3>3. x[2] <= data[b][z].passes
        <4>1. data[b][z].passes = program[c][made[b][c][x[1]].pos].passes
          BY <2>2 DEF Carried
        <4>2. x[2] \in 1 .. program[c][made[b][c][x[1]].pos].passes
          BY <1>8 DEF Has
        <4>3. x[2] \in 1 .. data[b][z].passes
          BY <4>1, <4>2, Zenon
        <4> QED
          BY <4>3, <2>3, <1>3
      <3> QED
        BY <3>2, <3>3, <2>3, <1>3
    <2> QED
      BY <2>4, <2>5
  <1> QED
    BY <1>8, <1>9 DEF Reached

LEMMA NotFirst ==
    ASSUME NEW s \in Seq(Ids), NEW p \in Seq(Ids), NEW i \in DOMAIN s \cap DOMAIN p,
           \A j \in DOMAIN s \cap DOMAIN p : j < i => s[j] = p[j],
           \A j, k \in DOMAIN s : j < k => Less(s[j], s[k]),
           \A j, k \in DOMAIN p : j < k => Less(p[j], p[k]),
           Less(s[i], p[i])
    PROVE  ~ \E j \in DOMAIN p : p[j] = s[i]
  <1> SUFFICES ASSUME NEW j \in DOMAIN p, p[j] = s[i] PROVE FALSE
    OBVIOUS
  <1>1. i \in Nat /\ j \in Nat /\ s[i] \in Ids /\ p[i] \in Ids /\ i \in DOMAIN s /\ i \in DOMAIN p
    OBVIOUS
  <1>2. ~Less(p[i], p[j]) /\ p[j] # p[i]
    BY <1>1, LessOrders
  <1>3. j < i
    BY <1>1, <1>2
  <1>4. j \in DOMAIN s
    BY <1>1, <1>3
  <1>5. s[j] = s[i] /\ Less(s[j], s[i])
    BY <1>1, <1>3, <1>4
  <1> QED
    BY <1>1, <1>5, LessOrders

LEMMA NeverApart ==
    TypeOK /\ Agree /\ Flying /\ Queued =>
        \A ch \in Channels : \A i \in Met(ch) :
            (\A j \in Met(ch) : j < i => sent[ch][j] = posted[ch][j]) => sent[ch][i] = posted[ch][i]
  <1> SUFFICES ASSUME TypeOK, Agree, Flying, Queued, NEW ch \in Channels, NEW i \in Met(ch),
                      \A j \in Met(ch) : j < i => sent[ch][j] = posted[ch][j],
                      sent[ch][i] # posted[ch][i]
               PROVE  FALSE
    OBVIOUS
  <1> DEFINE s == sent[ch]
             p == posted[ch]
  <1>1. s \in Seq(Ids) /\ p \in Seq(Ids)
    BY DEF TypeOK, Ids
  <1>2. ch.from \in Ranks /\ ch.to \in Ranks
    BY DEF Channels
  <1>3. /\ Ordered(made[ch.from][ch.comm], data[ch.from], ch, s)
        /\ Ordered(made[ch.to][ch.comm], data[ch.to], ch, p)
    BY DEF Queued
  <1>4. i \in DOMAIN s \cap DOMAIN p /\ \A j \in DOMAIN s \cap DOMAIN p : j < i => s[j] = p[j]
    BY DEF Met
  <1>5. s[i] \in Ids /\ p[i] \in Ids
    BY <1>1, <1>4
  <1>6. /\ Reached(made[ch.from][ch.comm], data[ch.from], ch, s[i])
        /\ Reached(made[ch.to][ch.comm], data[ch.to], ch, p[i])
    BY <1>3, <1>4, <1>5 DEF Ordered
  <1>7. /\ \A j, k \in DOMAIN s : j < k => Less(s[j], s[k])
        /\ \A j, k \in DOMAIN p : j < k => Less(p[j], p[k])
    BY <1>3 DEF Ordered
  <1>8. CASE Less(s[i], p[i])
    <2>1. Reached(made[ch.to][ch.comm], data[ch.to], ch, s[i])
      BY <1>2, <1>5, <1>6, <1>8, ReachedBoth
    <2>2. \E j \in DOMAIN p : p[j] = s[i]
      BY <2>1, <1>3, <1>5 DEF Ordered
    <2> HIDE DEF s, p
    <2> QED
      BY <2>2, <1>1, <1>4, <1>7, <1>8, NotFirst
  <1>9. CASE Less(p[i], s[i])
    <2>1. Reached(made[ch.from][ch.comm], data[ch.from], ch, p[i])
      BY <1>2, <1>5, <1>6, <1>9, ReachedBoth
    <2>2. \E j \in DOMAIN s : s[j] = p[i]
      BY <2>1, <1>3, <1>5 DEF Ordered
    <2>3. i \in DOMAIN p \cap DOMAIN s /\ \A j \in DOMAIN p \cap DOMAIN s : j < i => p[j] = s[j]
      BY <1>4
    <2> HIDE DEF s, p
    <2> QED
      BY <2>2, <2>3, <1>1, <1>7, <1>9, NotFirst
  <1> QED
    BY <1>5, <1>8, <1>9, LessOrders

LEMMA NeverApartNext ==
    TypeOK' /\ Agree' /\ Flying' /\ Queued' =>
        (\A ch \in Channels : \A i \in Met(ch) :
            (\A j \in Met(ch) : j < i => sent[ch][j] = posted[ch][j]) => sent[ch][i] = posted[ch][i])'
  BY NeverApart, PTL

-----------------------------------------------------------------------------

\* The messages of one pass.
LEMMA OrderedAppend ==
    ASSUME NEW L, NEW D, NEW L2, NEW D2, NEW ch, NEW q \in Seq(Ids), NEW x \in Ids,
           Ordered(L, D, ch, q),
           \A id \in Ids : Reached(L2, D2, ch, id) <=> Reached(L, D, ch, id) \/ id = x,
           \A id \in Ids : Reached(L, D, ch, id) => Less(id, x)
    PROVE  Ordered(L2, D2, ch, Append(q, x)) /\ Append(q, x) \in Seq(Ids)
  <1>1. /\ DOMAIN Append(q, x) = 1 .. Len(q) + 1 /\ DOMAIN q = 1 .. Len(q) /\ Len(q) \in Nat
        /\ \A i \in DOMAIN q : Append(q, x)[i] = q[i] /\ q[i] \in Ids
        /\ Append(q, x)[Len(q) + 1] = x
        /\ Append(q, x) \in Seq(Ids)
    OBVIOUS
  <1>2. \A i \in DOMAIN q : Less(q[i], x)
    BY <1>1 DEF Ordered
  <1>3. \A i, j \in DOMAIN Append(q, x) : i < j => Less(Append(q, x)[i], Append(q, x)[j])
    <2> SUFFICES ASSUME NEW i \in DOMAIN Append(q, x), NEW j \in DOMAIN Append(q, x), i < j
                 PROVE  Less(Append(q, x)[i], Append(q, x)[j])
      OBVIOUS
    <2>1. i \in DOMAIN q
      BY <1>1
    <2>2. CASE j \in DOMAIN q
      BY <2>1, <2>2, <1>1 DEF Ordered
    <2>3. CASE j = Len(q) + 1
      BY <2>1, <2>3, <1>1, <1>2
    <2> QED
      BY <2>2, <2>3, <1>1
  <1>4. \A id \in Ids : Reached(L2, D2, ch, id) <=> \E i \in DOMAIN Append(q, x) : Append(q, x)[i] = id
    <2> SUFFICES ASSUME NEW id \in Ids
                 PROVE  Reached(L2, D2, ch, id) <=> \E i \in DOMAIN Append(q, x) : Append(q, x)[i] = id
      OBVIOUS
    <2>1. Reached(L, D, ch, id) <=> \E i \in DOMAIN q : q[i] = id
      BY DEF Ordered
    <2>2. (\E i \in DOMAIN Append(q, x) : Append(q, x)[i] = id) <=> ((\E i \in DOMAIN q : q[i] = id) \/ id = x)
      BY <1>1
    <2> QED
      BY <2>1, <2>2
  <1> QED
    BY <1>1, <1>3, <1>4 DEF Ordered

LEMMA OrderedSame ==
    ASSUME NEW L, NEW D, NEW L2, NEW D2, NEW ch, NEW q, Ordered(L, D, ch, q),
           \A id \in Ids : Reached(L2, D2, ch, id) <=> Reached(L, D, ch, id)
    PROVE  Ordered(L2, D2, ch, q)
  BY DEF Ordered

LEMMA PostFacts ==
    ASSUME TypeOK, NEW r \in Ranks, NEW d \in InFlight, PostRcvs(r, d), PostSnds(r, d)
    PROVE  /\ sent' \in [Channels -> Seq(Ids)] /\ posted' \in [Channels -> Seq(Ids)]
           /\ \A ch \in Channels :
                  /\ sent'[ch] = IF ch \in SndTags(r, d) THEN Append(sent[ch], <<d.call, d.pass>>) ELSE sent[ch]
                  /\ posted'[ch] = IF ch \in RcvTags(r, d) THEN Append(posted[ch], <<d.call, d.pass>>) ELSE posted[ch]
                  /\ ch \in SndTags(r, d) => ch.from = r /\ ch \notin RcvTags(r, d)
                  /\ ch \in RcvTags(r, d) => ch.to = r /\ ch \notin SndTags(r, d)
  <1>1. sent \in [Channels -> Seq(Ids)] /\ posted \in [Channels -> Seq(Ids)]
    BY DEF TypeOK, Ids
  <1>2. <<d.call, d.pass>> \in Ids
    BY DEF InFlight, Ids
  <1>3. \A ch \in Channels : Append(sent[ch], <<d.call, d.pass>>) \in Seq(Ids)
                                /\ Append(posted[ch], <<d.call, d.pass>>) \in Seq(Ids)
    BY <1>1, <1>2
  <1>4. \A ch \in Channels : ch.from # ch.to
    BY DEF Channels
  <1>5. /\ \A ch \in Channels :
               sent'[ch] = IF ch \in SndTags(r, d) THEN Append(sent[ch], <<d.call, d.pass>>) ELSE sent[ch]
        /\ sent' \in [Channels -> Seq(Ids)]
    BY <1>1, <1>3 DEF PostSnds
  <1>6. /\ \A ch \in Channels :
               posted'[ch] = IF ch \in RcvTags(r, d) THEN Append(posted[ch], <<d.call, d.pass>>) ELSE posted[ch]
        /\ posted' \in [Channels -> Seq(Ids)]
    BY <1>1, <1>3 DEF PostRcvs
  <1>7. \A ch \in SndTags(r, d) : ch.from = r
    BY DEF SndTags
  <1>8. \A ch \in RcvTags(r, d) : ch.to = r
    BY DEF RcvTags
  <1> QED
    BY <1>4, <1>5, <1>6, <1>7, <1>8

\* Nothing more is matched at a time than one message or one receive.
LEMMA RightDataStep ==
    ASSUME TypeOK, RightData, TypeOK', Agree', Flying', Queued',
           \A ch \in Channels :
               \/ sent'[ch] = sent[ch] /\ (posted'[ch] = posted[ch] \/ \E x \in Ids : posted'[ch] = Append(posted[ch], x))
               \/ posted'[ch] = posted[ch] /\ \E x \in Ids : sent'[ch] = Append(sent[ch], x)
    PROVE  RightData'
  <1> SUFFICES ASSUME NEW ch \in Channels, NEW i \in Met(ch)'
               PROVE  sent'[ch][i] = posted'[ch][i]
    BY DEF RightData
  <1>1. i \in DOMAIN sent'[ch] \cap DOMAIN posted'[ch]
    BY DEF Met
  <1>2. sent[ch] \in Seq(Ids) /\ posted[ch] \in Seq(Ids)
    BY DEF TypeOK, Ids
  <1>3. ASSUME NEW j \in DOMAIN sent[ch] \cap DOMAIN posted[ch]
        PROVE  sent'[ch][j] = posted'[ch][j]
    <2>1. sent[ch][j] = posted[ch][j]
      BY DEF RightData, Met
    <2>2. sent'[ch][j] = sent[ch][j] /\ posted'[ch][j] = posted[ch][j]
      BY <1>2
    <2> QED
      BY <2>1, <2>2
  <1>4. CASE i \in DOMAIN sent[ch] \cap DOMAIN posted[ch]
    BY <1>3, <1>4
  <1>5. CASE i \notin DOMAIN sent[ch] \cap DOMAIN posted[ch]
    <2>1. \A j \in DOMAIN sent'[ch] \cap DOMAIN posted'[ch] : j < i => j \in DOMAIN sent[ch] \cap DOMAIN posted[ch]
      BY <1>1, <1>2, <1>5
    <2>2. (\A j \in Met(ch) : j < i => sent[ch][j] = posted[ch][j])'
      BY <2>1, <1>3 DEF Met
    <2> QED
      BY <2>2, NeverApartNext
  <1> QED
    BY <1>4, <1>5

-----------------------------------------------------------------------------

\* What a call adds to what a rank has to send and receive.
LEMMA HasCall ==
    ASSUME TypeOK, NEW r \in Ranks, NEW op, AtCall(r, op), Log(r),
           NEW ch \in Channels, NEW id \in Ids
    PROVE  Has(made'[r][ch.comm], ch, id) <=>
               \/ Has(made[r][ch.comm], ch, id)
               \/ /\ ch.comm = Top(r).comm /\ id[1] = Len(made[r][ch.comm]) + 1
                  /\ op = "nowait" /\ ~Alone(ch.comm) /\ ch.tag = Top(r).tag
                  /\ <<ch.from, ch.to>> \in NextCall(r).pairs
                  /\ id[2] \in 1 .. NextCall(r).passes
  <1> DEFINE L == made[r][ch.comm]
             L2 == made'[r][ch.comm]
  <1>1. ch.comm \in Comms
    BY DEF Channels
  <1>2. L \in Seq(Entries) /\ L2 \in Seq(Entries)
    BY <1>1, LogFacts
  <1>3. CASE ch.comm # Top(r).comm
    BY <1>1, <1>3, LogFacts
  <1>4. CASE ch.comm = Top(r).comm
    <2>1. PICK e \in Entries : e = [pos |-> Top(r).pos + 1, tag |-> Top(r).tag]
      BY CallFacts
    <2>2. L2 = Append(L, e)
      BY <2>1, <1>4, LogFacts
    <2>3. /\ DOMAIN L2 = 1 .. Len(L) + 1 /\ DOMAIN L = 1 .. Len(L) /\ Len(L) \in Nat
          /\ \A i \in DOMAIN L : L2[i] = L[i]
          /\ L2[Len(L) + 1] = e
      BY <2>2, <1>2
    <2>4. program[ch.comm][e.pos] = NextCall(r) /\ NextCall(r).op = op /\ e.tag = Top(r).tag
      BY <2>1, <1>4, CallFacts
    <2> HIDE DEF L, L2
    <2>5. CASE id[1] \in DOMAIN L
      <3>1. L2[id[1]] = L[id[1]] /\ id[1] \in DOMAIN L2 /\ id[1] # Len(L) + 1
        BY <2>3, <2>5
      <3>2. Has(L2, ch, id) <=> Has(L, ch, id)
        BY <3>1, <2>5 DEF Has
      <3> QED
        BY <3>1, <3>2 DEF L, L2
    <2>6. CASE id[1] = Len(L) + 1
      <3>1. ~Has(L, ch, id)
        BY <2>3, <2>6 DEF Has
      <3>2. id[1] \in DOMAIN L2 /\ L2[id[1]] = e
        BY <2>3, <2>6
      <3>3. Has(L2, ch, id) <=> /\ op = "nowait" /\ ~Alone(ch.comm) /\ Top(r).tag = ch.tag
                                /\ <<ch.from, ch.to>> \in NextCall(r).pairs
                                /\ id[2] \in 1 .. NextCall(r).passes
        BY <3>2, <2>4 DEF Has
      <3> QED
        BY <3>1, <3>3, <2>6, <1>4 DEF L, L2
    <2>7. CASE id[1] \notin DOMAIN L /\ id[1] # Len(L) + 1
      <3>1. ~Has(L, ch, id) /\ ~Has(L2, ch, id)
        BY <2>3, <2>7 DEF Has
      <3> QED
        BY <3>1, <2>7 DEF L, L2
    <2> QED
      BY <2>5, <2>6, <2>7
  <1> QED
    BY <1>3, <1>4

\* Outside a copy of several passes, a rank has come to all passes of its calls.
LEMMA AllPasses ==
    ASSUME TypeOK, Flying, NEW r \in Ranks, ~Copying(r), NEW ch \in Channels, NEW id \in Ids,
           Has(made[r][ch.comm], ch, id)
    PROVE  DoneIn(data[r], ch.comm, id)
  <1> SUFFICES ASSUME NEW a \in Arrays, data[r][a] # NoData, data[r][a].comm = ch.comm, data[r][a].call = id[1]
               PROVE  id[2] <= data[r][a].pass
    BY DEF DoneIn
  <1>1. data[r][a] \in InFlight
    BY DEF TypeOK
  <1>2. data[r][a].pass \in Nat /\ data[r][a].passes \in Nat /\ id[2] \in Nat
    BY <1>1 DEF InFlight, Ids
  <1>3. Carried(r, a, data[r][a])
    BY DEF Flying
  <1>4. data[r][a].passes = program[ch.comm][made[r][ch.comm][id[1]].pos].passes
    BY <1>3 DEF Carried
  <1>5. id[2] \in 1 .. program[ch.comm][made[r][ch.comm][id[1]].pos].passes
    BY DEF Has
  <1>6. id[2] \in 1 .. data[r][a].passes
    BY <1>4, <1>5, Zenon
  <1>7. ~(data[r][a].pass < data[r][a].passes)
    BY DEF Copying
  <1> QED
    BY <1>2, <1>6, <1>7

\* A call without messages on a channel, with an exchange it may have finished.
LEMMA ReachedCall ==
    ASSUME TypeOK, Flying, NEW r \in Ranks, NEW op, AtCall(r, op), Log(r),
           NEW ch \in Channels, NEW id \in Ids,
           NEW D2, \A a \in Arrays : D2[a] = data[r][a] \/ D2[a] = NoData,
           ~(op = "nowait" /\ ~Alone(Top(r).comm) /\ <<ch.from, ch.to>> \in NextCall(r).pairs)
    PROVE  Reached(made'[r][ch.comm], D2, ch, id) <=> Reached(made[r][ch.comm], data[r], ch, id)
  <1>1. Has(made'[r][ch.comm], ch, id) <=> Has(made[r][ch.comm], ch, id)
    BY HasCall
  <1>2. DoneIn(data[r], ch.comm, id) => DoneIn(D2, ch.comm, id)
    BY DEF DoneIn
  <1>3. Has(made[r][ch.comm], ch, id) => DoneIn(data[r], ch.comm, id)
    BY CallFacts, AllPasses
  <1> QED
    BY <1>1, <1>2, <1>3 DEF Reached

\* An exchange: its first pass.
LEMMA ReachedNowait ==
    ASSUME TypeOK, Flying, NEW r \in Ranks, AtCall(r, "nowait"), Log(r), ~Alone(Top(r).comm),
           NEW ch \in Channels, NEW id \in Ids, NEW z \in Arrays, data[r][z] = NoData,
           NEW d \in InFlight, d.comm = Top(r).comm, d.call = Len(made[r][Top(r).comm]) + 1,
           d.pairs = NextCall(r).pairs, d.passes = NextCall(r).passes, d.tag = Top(r).tag, d.pass = 1,
           NEW D2, \A a \in Arrays : D2[a] = IF a = z THEN d ELSE data[r][a]
    PROVE  /\ Reached(made'[r][ch.comm], D2, ch, id) <=>
                  \/ Reached(made[r][ch.comm], data[r], ch, id)
                  \/ /\ id = <<d.call, d.pass>> /\ ch.comm = d.comm /\ ch.tag = d.tag
                     /\ <<ch.from, ch.to>> \in d.pairs
           /\ Reached(made[r][ch.comm], data[r], ch, id) /\ ch.comm = d.comm => Less(id, <<d.call, d.pass>>)
  <1>1. ch.comm \in Comms /\ id[1] \in Nat /\ id[2] \in Nat /\ id = <<id[1], id[2]>>
    BY DEF Channels, Ids
  <1>2. made[r][ch.comm] \in Seq(Entries)
    BY <1>1, LogFacts
  <1>3. NextCall(r).passes \in Nat \ {0}
    <2>1. Top(r).comm \in Comms /\ NextCall(r).op = "nowait"
      BY CallFacts, TopIsFrame
    <2>2. /\ NextCall(r) = program[Top(r).comm][Top(r).pos + 1]
          /\ Top(r).pos + 1 \in DOMAIN program[Top(r).comm]
      BY CallFacts
    <2> QED
      BY <2>1, <2>2, ProgramCalls
  <1>4. Has(made[r][ch.comm], ch, id) => id[1] \in 1 .. Len(made[r][ch.comm])
    BY <1>2 DEF Has
  <1>5. ASSUME NEW a \in Arrays, data[r][a] # NoData
        PROVE  data[r][a].call \in 1 .. Len(made[r][data[r][a].comm])
    <2>1. Carried(r, a, data[r][a]) /\ data[r][a] \in InFlight
      BY <1>5 DEF Flying, TypeOK
    <2>2. data[r][a].comm \in Comms /\ data[r][a].call \in DOMAIN made[r][data[r][a].comm]
      BY <2>1 DEF Carried, InFlight
    <2>3. made[r][data[r][a].comm] \in Seq(Entries)
      BY <2>2, LogFacts
    <2> QED
      BY <2>2, <2>3
  <1>6. CASE ch.comm = d.comm /\ id[1] = d.call
    <2>1. ~Has(made[r][ch.comm], ch, id)
      BY <1>2, <1>4, <1>6
    <2>2. Has(made'[r][ch.comm], ch, id) <=>
              ch.tag = d.tag /\ <<ch.from, ch.to>> \in d.pairs /\ id[2] \in 1 .. d.passes
      BY <2>1, <1>6, HasCall
    <2>3. DoneIn(D2, ch.comm, id) <=> id[2] <= 1
      <3>1. \A a \in Arrays : data[r][a] # NoData /\ data[r][a].comm = ch.comm => data[r][a].call # id[1]
        BY <1>2, <1>5, <1>6
      <3>2. d # NoData
        BY ExchangeAssumption DEF ExchangeAssumption
      <3> QED
        BY <3>1, <3>2, <1>6 DEF DoneIn
    <2>4. id = <<d.call, d.pass>> <=> id[2] = 1
      BY <1>1, <1>6
    <2> QED
      BY <2>1, <2>2, <2>3, <2>4, <1>1, <1>3, <1>6 DEF Reached
  <1>7. CASE ~(ch.comm = d.comm /\ id[1] = d.call)
    <2>1. Has(made'[r][ch.comm], ch, id) <=> Has(made[r][ch.comm], ch, id)
      BY <1>7, HasCall
    <2>2. DoneIn(D2, ch.comm, id) <=> DoneIn(data[r], ch.comm, id)
      BY <1>7 DEF DoneIn
    <2>3. id # <<d.call, d.pass>> \/ ch.comm # d.comm
      BY <1>7
    <2>4. Has(made[r][ch.comm], ch, id) /\ ch.comm = d.comm => id[1] < d.call
      BY <1>1, <1>2, <1>4
    <2> QED
      BY <2>1, <2>2, <2>3, <2>4 DEF Reached, Less
  <1> QED
    BY <1>6, <1>7

\* The next pass of a copy.
LEMMA ReachedPass ==
    ASSUME TypeOK, Flying, NEW r \in Ranks, NEW z \in Arrays, data[r][z] # NoData,
           data[r][z].pass < data[r][z].passes,
           NEW ch \in Channels, NEW id \in Ids,
           NEW d \in InFlight, d.comm = data[r][z].comm, d.call = data[r][z].call,
           d.pairs = data[r][z].pairs, d.passes = data[r][z].passes, d.tag = data[r][z].tag,
           d.pass = data[r][z].pass + 1,
           NEW D2, \A a \in Arrays : D2[a] = IF a = z THEN d ELSE data[r][a]
    PROVE  /\ Reached(made[r][ch.comm], D2, ch, id) <=>
                  \/ Reached(made[r][ch.comm], data[r], ch, id)
                  \/ /\ id = <<d.call, d.pass>> /\ ch.comm = d.comm /\ ch.tag = d.tag
                     /\ <<ch.from, ch.to>> \in d.pairs
           /\ Reached(made[r][ch.comm], data[r], ch, id) /\ ch.comm = d.comm => Less(id, <<d.call, d.pass>>)
  <1> DEFINE o == data[r][z]
             L == made[r][ch.comm]
  <1>1. /\ ch.comm \in Comms /\ id[1] \in Nat /\ id[2] \in Nat /\ id = <<id[1], id[2]>>
        /\ L \in Seq(Entries)
    <2>1. ch.comm \in Comms /\ id[1] \in Nat /\ id[2] \in Nat /\ id = <<id[1], id[2]>>
      BY DEF Channels, Ids
    <2> QED
      BY <2>1 DEF TypeOK, Entries
  <1>2. o \in InFlight /\ Carried(r, z, o)
    BY DEF Flying, TypeOK
  <1>3. /\ d.comm = o.comm /\ d.call = o.call /\ d.pairs = o.pairs /\ d.tag = o.tag
        /\ d.passes = o.passes /\ d.pass = o.pass + 1
        /\ o.pass \in Nat /\ o.passes \in Nat /\ o.call \in Nat /\ o.comm \in Comms
    BY <1>2 DEF InFlight
  <1>4. /\ o.call \in DOMAIN made[r][o.comm] /\ o.call = Len(made[r][o.comm]) /\ o.pass \in 1 .. o.passes
        /\ program[o.comm][made[r][o.comm][o.call].pos].op = "nowait" /\ ~Alone(o.comm)
        /\ o.pairs = program[o.comm][made[r][o.comm][o.call].pos].pairs
        /\ o.passes = program[o.comm][made[r][o.comm][o.call].pos].passes
        /\ o.tag = made[r][o.comm][o.call].tag
    BY <1>2 DEF Carried
  <1>5. ASSUME NEW a \in Arrays, a # z, data[r][a] # NoData, data[r][a].comm = o.comm
        PROVE  data[r][a].call # o.call
    <2>1. Carried(r, a, data[r][a]) /\ Carried(r, z, o)
      BY <1>5, <1>2 DEF Flying
    <2>2. /\ program[data[r][a].comm][made[r][data[r][a].comm][data[r][a].call].pos].array = a
          /\ program[o.comm][made[r][o.comm][o.call].pos].array = z
      BY <2>1 DEF Carried
    <2> QED
      BY <2>2, <1>5
  <1>6. d # NoData
    BY ExchangeAssumption DEF ExchangeAssumption
  <1>7. CASE ch.comm = d.comm /\ id[1] = d.call
    <2>1. Has(L, ch, id) <=> ch.tag = d.tag /\ <<ch.from, ch.to>> \in d.pairs /\ id[2] \in 1 .. d.passes
      <3>1. /\ ch.comm = o.comm /\ id[1] = o.call /\ id[1] \in DOMAIN L
            /\ L[id[1]] = made[r][o.comm][o.call]
        BY <1>3, <1>4, <1>7
      <3>2. Has(L, ch, id) <=> /\ <<ch.from, ch.to>> \in program[o.comm][made[r][o.comm][o.call].pos].pairs
                               /\ id[2] \in 1 .. program[o.comm][made[r][o.comm][o.call].pos].passes
                               /\ made[r][o.comm][o.call].tag = ch.tag
        BY <3>1, <1>4, Zenon DEF Has
      <3>3. Has(L, ch, id) <=> <<ch.from, ch.to>> \in o.pairs /\ id[2] \in 1 .. o.passes /\ o.tag = ch.tag
        BY <3>2, <1>4, Zenon
      <3> QED
        BY <3>3, <1>3, Zenon
    <2>2. DoneIn(D2, ch.comm, id) <=> id[2] <= d.pass
      BY <1>3, <1>5, <1>6, <1>7 DEF DoneIn
    <2>3. DoneIn(data[r], ch.comm, id) <=> id[2] <= o.pass
      BY <1>3, <1>5, <1>7 DEF DoneIn
    <2>4. id = <<d.call, d.pass>> <=> id[2] = d.pass
      BY <1>1, <1>7
    <2>5. d.pass \in 1 .. d.passes /\ (id[2] <= d.pass <=> id[2] <= o.pass \/ id[2] = d.pass)
      <3>1. o.pass < o.passes /\ o.pass \in Nat /\ o.passes \in Nat /\ id[2] \in Nat
        BY <1>1, <1>3
      <3>2. d.pass = o.pass + 1 /\ d.passes = o.passes
        BY <1>3
      <3> HIDE DEF o
      <3> QED
        BY <3>1, <3>2
    <2>6. id[2] <= o.pass => Less(id, <<d.call, d.pass>>)
      BY <1>1, <1>3, <1>7 DEF Less
    <2> HIDE DEF L, o
    <2> QED
      BY <2>1, <2>2, <2>3, <2>4, <2>5, <2>6, <1>7 DEF Reached, L
  <1>8. CASE ~(ch.comm = d.comm /\ id[1] = d.call)
    <2>1. DoneIn(D2, ch.comm, id) <=> DoneIn(data[r], ch.comm, id)
      BY <1>3, <1>8, <1>6 DEF DoneIn
    <2>2. id # <<d.call, d.pass>> \/ ch.comm # d.comm
      BY <1>8
    <2>3. Has(L, ch, id) /\ ch.comm = d.comm => id[1] < d.call
      <3>1. Has(L, ch, id) => id[1] \in DOMAIN L
        BY DEF Has
      <3>2. ch.comm = d.comm => d.call = Len(L)
        BY <1>3, <1>4
      <3> HIDE DEF L
      <3> QED
        BY <3>1, <3>2, <1>1, <1>8
    <2> QED
      BY <2>1, <2>2, <2>3 DEF Reached, Less
  <1> QED
    BY <1>7, <1>8

-----------------------------------------------------------------------------

\* The steps.
LEMMA CarriedLog ==
    ASSUME TypeOK, NEW r \in Ranks, NEW op, AtCall(r, op), Log(r), UNCHANGED program,
           NEW q \in Ranks, NEW a \in Arrays, NEW d \in InFlight, Carried(q, a, d),
           q = r => ~(d.pass < d.passes)
    PROVE  Carried(q, a, d)'
  <1>1. d.comm \in Comms /\ d.call \in DOMAIN made[q][d.comm]
    BY DEF Carried, InFlight
  <1>2. made[q][d.comm] \in Seq(Entries) /\ made'[q][d.comm] \in Seq(Entries)
    BY <1>1, LogFacts
  <1>3. CASE q # r \/ d.comm # Top(r).comm
    <2>1. made'[q][d.comm] = made[q][d.comm]
      BY <1>1, <1>3, LogFacts
    <2> QED
      BY <2>1 DEF Carried, Alone
  <1>4. CASE q = r /\ d.comm = Top(r).comm
    <2>a. PICK e \in Entries : e = [pos |-> Top(r).pos + 1, tag |-> Top(r).tag]
      BY CallFacts
    <2>1. made'[q][d.comm] = Append(made[q][d.comm], e)
      BY <1>4, <2>a, LogFacts
    <2>2. d.call \in DOMAIN made'[q][d.comm] /\ made'[q][d.comm][d.call] = made[q][d.comm][d.call]
      BY <1>1, <1>2, <2>1
    <2> QED
      BY <2>2, <1>4 DEF Carried, Alone
  <1> QED
    BY <1>3, <1>4

LEMMA OrderedNext ==
    ASSUME UNCHANGED program, NEW L, NEW D, NEW ch, NEW q, Ordered(L, D, ch, q)
    PROVE  Ordered(L, D, ch, q)'
  BY DEF Ordered, Reached, Has, DoneIn, Alone

LEMMA QueuedNext ==
    ASSUME UNCHANGED program,
           \A ch \in Channels :
               /\ Ordered(made'[ch.from][ch.comm], data'[ch.from], ch, sent'[ch])
               /\ Ordered(made'[ch.to][ch.comm], data'[ch.to], ch, posted'[ch])
    PROVE  Queued'
  <1> SUFFICES ASSUME NEW ch \in Channels
               PROVE  /\ Ordered(made[ch.from][ch.comm], data[ch.from], ch, sent[ch])'
                      /\ Ordered(made[ch.to][ch.comm], data[ch.to], ch, posted[ch])'
    BY DEF Queued
  <1>1. PICK L, D, q : L = made'[ch.from][ch.comm] /\ D = data'[ch.from] /\ q = sent'[ch]
    OBVIOUS
  <1>2. PICK L2, D2, q2 : L2 = made'[ch.to][ch.comm] /\ D2 = data'[ch.to] /\ q2 = posted'[ch]
    OBVIOUS
  <1>3. Ordered(L, D, ch, q) /\ Ordered(L2, D2, ch, q2)
    BY <1>1, <1>2
  <1>4. Ordered(L, D, ch, q)' /\ Ordered(L2, D2, ch, q2)'
    BY <1>3, OrderedNext
  <1> QED
    BY <1>1, <1>2, <1>4

LEMMA QuietData ==
    ASSUME IInv, NEW r \in Ranks, NEW op, AtCall(r, op), Log(r), UNCHANGED <<program, sent, posted>>,
           data' \in [Ranks -> [Arrays -> InFlight \cup {NoData}]],
           \A q \in Ranks : q # r => data'[q] = data[q],
           \A a \in Arrays : data'[r][a] = data[r][a] \/ data'[r][a] = NoData,
           op = "nowait" => Alone(Top(r).comm) \/ ~Concerns(r, NextCall(r).pairs)
    PROVE  Chained' /\ Agree' /\ Flying' /\ Queued' /\ RightData'
  <1>1. TypeOK /\ Chained /\ Agree /\ Framed /\ Flying /\ Queued /\ RightData
    BY DEF IInv
  <1>2. Chained' /\ Agree'
    BY <1>1, HistoryStep
  <1>3. Flying'
    <2> SUFFICES ASSUME NEW q \in Ranks, NEW a \in Arrays, data'[q][a] # NoData
                 PROVE  Carried(q, a, data[q][a])'
      BY DEF Flying
    <2>1. PICK d \in InFlight : d = data'[q][a] /\ d = data[q][a]
      OBVIOUS
    <2>2. Carried(q, a, d)
      BY <1>1, <2>1, ExchangeAssumption DEF Flying, ExchangeAssumption
    <2>3. q = r => ~(d.pass < d.passes)
      <3>1. ~Copying(r)
        BY <1>1, CallFacts
      <3>2. d # NoData
        BY ExchangeAssumption DEF ExchangeAssumption
      <3> QED
        BY <2>1, <3>1, <3>2 DEF Copying
    <2>4. Carried(q, a, d)'
      BY <1>1, <2>2, <2>3, CarriedLog
    <2> QED
      BY <2>1, <2>4
  <1>4. ASSUME NEW ch \in Channels, NEW q \in {ch.from, ch.to}, NEW s,
               Ordered(made[q][ch.comm], data[q], ch, s)
        PROVE  Ordered(made'[q][ch.comm], data'[q], ch, s)
    <2>1. ch.comm \in Comms /\ ch.from \in Ranks /\ ch.to \in Ranks /\ q \in Ranks
      BY DEF Channels
    <2>2. CASE q # r
      <3>1. made'[q][ch.comm] = made[q][ch.comm] /\ data'[q] = data[q]
        BY <2>1, <2>2, <1>1, LogFacts
      <3> QED
        BY <3>1, <1>4
    <2>3. CASE q = r
      <3>1. ~(op = "nowait" /\ ~Alone(Top(r).comm) /\ <<ch.from, ch.to>> \in NextCall(r).pairs)
        BY <2>1, <2>3 DEF Concerns
      <3>2. \A id \in Ids : Reached(made'[r][ch.comm], data'[r], ch, id) <=> Reached(made[r][ch.comm], data[r], ch, id)
        BY <3>1, <1>1, ReachedCall
      <3> QED
        BY <3>2, <2>3, <1>4, OrderedSame
    <2> QED
      BY <2>2, <2>3
  <1>5. Queued'
    <2>1. \A ch \in Channels :
              /\ Ordered(made'[ch.from][ch.comm], data'[ch.from], ch, sent[ch])
              /\ Ordered(made'[ch.to][ch.comm], data'[ch.to], ch, posted[ch])
      BY <1>1, <1>4 DEF Queued
    <2> QED
      BY <2>1, QueuedNext
  <1>6. RightData'
    BY <1>1 DEF RightData, Met
  <1> QED
    BY <1>2, <1>3, <1>5, <1>6

\* The same, with the frames.
LEMMA QuietStep ==
    ASSUME IInv, NEW r \in Ranks, NEW op, AtCall(r, op), Log(r), UNCHANGED <<program, sent, posted>>,
           data' \in [Ranks -> [Arrays -> InFlight \cup {NoData}]],
           \A q \in Ranks : q # r => data'[q] = data[q],
           \A a \in Arrays : data'[r][a] = data[r][a] \/ data'[r][a] = NoData,
           op = "nowait" => Alone(Top(r).comm) \/ ~Concerns(r, NextCall(r).pairs),
           stack' \in [Ranks -> Seq(Frames)], Framed'
    PROVE  IInv'
  <1>1. TypeOK
    BY DEF IInv
  <1>2. made' \in [Ranks -> [Comms -> Seq([pos : Nat, tag : Tags])]]
    BY <1>1, LogFacts DEF Entries
  <1>3. TypeOK'
    BY <1>1, <1>2 DEF TypeOK
  <1>4. Chained' /\ Agree' /\ Flying' /\ Queued' /\ RightData'
    BY QuietData
  <1> QED
    BY <1>3, <1>4 DEF IInv

LEMMA NextTag ==
    ASSUME IInv, NEW r \in Ranks, NEW op, AtCall(r, op), Log(r), UNCHANGED program, NEW t,
           t = IF op = "nowait" /\ ~Alone(Top(r).comm) THEN get_inc_mpi_tag(Top(r).tag) ELSE Top(r).tag,
           stack' = Returned(r, t)
    PROVE  stack' \in [Ranks -> Seq(Frames)] /\ Framed'
  <1>1. TypeOK /\ Framed
    BY DEF IInv
  <1>2. Top(r).tag \in Tags /\ program[Top(r).comm][Top(r).pos + 1].op = op
    BY <1>1, CallFacts, TopIsFrame
  <1>3. t \in Tags
    BY <1>2, IncTag
  <1>4. t = IF Draws(Top(r).comm, Top(r).pos + 1) THEN get_inc_mpi_tag(Top(r).tag) ELSE Top(r).tag
    BY <1>2 DEF Draws
  <1>5. PICK st : st = Returned(r, t)
    OBVIOUS
  <1>6. FramedIn(st)'
    BY <1>1, <1>3, <1>4, <1>5, FramesReturned
  <1>7. stack' = st /\ st \in [Ranks -> Seq(Frames)]
    BY <1>1, <1>3, <1>5, ReturnedFacts
  <1> QED
    BY <1>6, <1>7 DEF Framed

LEMMA CallSteps ==
    ASSUME IInv, NEW r \in Ranks,
           NowaitAlone(r) \/ NowaitNothing(r) \/ Finish(r) \/ Collective(r) \/ Push(r)
    PROVE  IInv'
  <1>1. TypeOK /\ Framed /\ data \in [Ranks -> [Arrays -> InFlight \cup {NoData}]]
    BY DEF IInv, TypeOK
  <1>2. CASE NowaitAlone(r)
    <2>1. AtCall(r, "nowait") /\ Log(r) /\ stack' = Returned(r, Top(r).tag) /\ Alone(Top(r).comm)
          /\ UNCHANGED <<program, data, sent, posted>>
      BY <1>2 DEF NowaitAlone
    <2>2. stack' \in [Ranks -> Seq(Frames)] /\ Framed'
      BY <2>1, NextTag
    <2> QED
      BY <1>1, <2>1, <2>2, QuietStep
  <1>3. CASE NowaitNothing(r)
    <2>1. /\ AtCall(r, "nowait") /\ Log(r) /\ stack' = Returned(r, get_inc_mpi_tag(Top(r).tag))
          /\ ~Alone(Top(r).comm) /\ ~Concerns(r, NextCall(r).pairs)
          /\ UNCHANGED <<program, data, sent, posted>>
      BY <1>3 DEF NowaitNothing
    <2>2. stack' \in [Ranks -> Seq(Frames)] /\ Framed'
      BY <2>1, NextTag
    <2> QED
      BY <1>1, <2>1, <2>2, QuietStep
  <1>4. CASE Finish(r)
    <2>1. /\ AtCall(r, "finish") /\ Log(r) /\ stack' = Returned(r, Top(r).tag)
          /\ data' = [data EXCEPT ![r][NextCall(r).array] = NoData]
          /\ UNCHANGED <<program, sent, posted>>
      BY <1>4 DEF Finish
    <2>2. stack' \in [Ranks -> Seq(Frames)] /\ Framed'
      BY <2>1, NextTag
    <2>3. /\ data' \in [Ranks -> [Arrays -> InFlight \cup {NoData}]]
          /\ \A q \in Ranks : q # r => data'[q] = data[q]
          /\ \A a \in Arrays : data'[r][a] = data[r][a] \/ data'[r][a] = NoData
      BY <1>1, <2>1
    <2> QED
      BY <2>1, <2>2, <2>3, QuietStep
  <1>5. CASE Collective(r)
    <2>1. /\ AtCall(r, "collective") /\ Log(r) /\ stack' = Returned(r, Top(r).tag)
          /\ UNCHANGED <<program, data, sent, posted>>
      BY <1>5 DEF Collective
    <2>2. stack' \in [Ranks -> Seq(Frames)] /\ Framed'
      BY <2>1, NextTag
    <2> QED
      BY <1>1, <2>1, <2>2, QuietStep
  <1>6. CASE Push(r)
    <2>1. AtCall(r, "push") /\ Log(r) /\ UNCHANGED <<program, data, sent, posted>>
      BY <1>6 DEF Push
    <2>2. Framed'
      BY <1>1, <1>6, FramesPushed
    <2>3. Returned(r, Top(r).tag) \in [Ranks -> Seq(Frames)] /\ MinTag \in Tags
      <3>1. Top(r).tag \in Tags
        BY <1>1, <2>1, CallFacts, TopIsFrame
      <3>2. Returned(r, Top(r).tag) \in [Ranks -> Seq(Frames)]
        BY <3>1, <1>1, <2>1, ReturnedFacts
      <3> QED
        BY <3>2, ExchangeAssumption DEF ExchangeAssumption, Tags
    <2>4. NextCall(r).comms \in SUBSET Comms
      <3>1. /\ NextCall(r) = program[Top(r).comm][Top(r).pos + 1] /\ NextCall(r).op = "push"
            /\ Top(r).pos + 1 \in DOMAIN program[Top(r).comm] /\ Top(r).comm \in Comms
        BY <1>1, <2>1, CallFacts, TopIsFrame
      <3> QED
        BY <3>1, <1>1, ProgramCalls
    <2>5. stack' \in [Ranks -> Seq(Frames)]
      <3>1. CASE stack' = Returned(r, Top(r).tag)
        BY <3>1, <2>3
      <3>2. ASSUME NEW c \in NextCall(r).comms,
                   stack' = [stack EXCEPT ![r] = Append(Returned(r, Top(r).tag)[r], [comm |-> c, pos |-> 0, tag |-> MinTag])]
            PROVE  stack' \in [Ranks -> Seq(Frames)]
        <4>1. [comm |-> c, pos |-> 0, tag |-> MinTag] \in Frames
          BY <2>3, <2>4 DEF Frames
        <4>2. Append(Returned(r, Top(r).tag)[r], [comm |-> c, pos |-> 0, tag |-> MinTag]) \in Seq(Frames)
          BY <4>1, <2>3
        <4>3. stack \in [Ranks -> Seq(Frames)]
          BY <1>1 DEF TypeOK
        <4> QED
          BY <4>2, <4>3, <3>2
      <3> QED
        BY <3>1, <3>2, <1>6 DEF Push
    <2> QED
      BY <1>1, <2>1, <2>2, <2>5, QuietStep
  <1> QED
    BY <1>2, <1>3, <1>4, <1>5, <1>6

\* The messages of a pass that the rank has come to.
LEMMA PostsStep ==
    ASSUME TypeOK, Queued, NEW r \in Ranks, NEW d \in InFlight, PostRcvs(r, d), PostSnds(r, d),
           UNCHANGED program,
           \A q \in Ranks : q # r => data'[q] = data[q] /\ \A c \in Comms : made'[q][c] = made[q][c],
           \A ch \in Channels, id \in Ids :
               /\ Reached(made'[r][ch.comm], data'[r], ch, id) <=>
                      \/ Reached(made[r][ch.comm], data[r], ch, id)
                      \/ /\ id = <<d.call, d.pass>> /\ ch.comm = d.comm /\ ch.tag = d.tag
                         /\ <<ch.from, ch.to>> \in d.pairs
               /\ Reached(made[r][ch.comm], data[r], ch, id) /\ ch.comm = d.comm =>
                      Less(id, <<d.call, d.pass>>)
    PROVE  /\ Queued'
           /\ \A ch \in Channels :
                  \/ /\ sent'[ch] = sent[ch]
                     /\ posted'[ch] = posted[ch] \/ \E x \in Ids : posted'[ch] = Append(posted[ch], x)
                  \/ posted'[ch] = posted[ch] /\ \E x \in Ids : sent'[ch] = Append(sent[ch], x)
  <1>1. PICK x \in Ids : x = <<d.call, d.pass>>
    BY DEF InFlight, Ids
  <1>2. ASSUME NEW ch \in Channels
        PROVE  /\ sent[ch] \in Seq(Ids) /\ posted[ch] \in Seq(Ids)
               /\ ch.comm \in Comms /\ ch.from \in Ranks /\ ch.to \in Ranks /\ ch.from # ch.to
               /\ ch \in SndTags(r, d) <=> ch.from = r /\ ch.comm = d.comm /\ ch.tag = d.tag
                                           /\ <<ch.from, ch.to>> \in d.pairs
               /\ ch \in RcvTags(r, d) <=> ch.to = r /\ ch.comm = d.comm /\ ch.tag = d.tag
                                           /\ <<ch.from, ch.to>> \in d.pairs
    <2>1. sent \in [Channels -> Seq(Ids)] /\ posted \in [Channels -> Seq(Ids)]
      BY DEF TypeOK, Ids
    <2>2. ch.comm \in Comms /\ ch.from \in Ranks /\ ch.to \in Ranks /\ ch.from # ch.to
      BY DEF Channels
    <2>3. /\ ch \in SndTags(r, d) <=> ch.from = r /\ ch.comm = d.comm /\ ch.tag = d.tag
                                      /\ <<ch.from, ch.to>> \in d.pairs
          /\ ch \in RcvTags(r, d) <=> ch.to = r /\ ch.comm = d.comm /\ ch.tag = d.tag
                                      /\ <<ch.from, ch.to>> \in d.pairs
      BY DEF SndTags, RcvTags
    <2> QED
      BY <2>1, <2>2, <2>3
  <1>3. \A ch \in Channels :
            /\ sent'[ch] = IF ch \in SndTags(r, d) THEN Append(sent[ch], x) ELSE sent[ch]
            /\ posted'[ch] = IF ch \in RcvTags(r, d) THEN Append(posted[ch], x) ELSE posted[ch]
            /\ ch \in SndTags(r, d) => ch.from = r /\ ch \notin RcvTags(r, d)
            /\ ch \in RcvTags(r, d) => ch.to = r /\ ch \notin SndTags(r, d)
    BY <1>1, PostFacts
  \* The sequence of a rank of the channel, with or without the entry.
  <1>4. ASSUME NEW ch \in Channels, NEW q \in Ranks, NEW s \in Seq(Ids),
               Ordered(made[q][ch.comm], data[q], ch, s), NEW s2,
               s2 = IF q = r /\ ch.comm = d.comm /\ ch.tag = d.tag /\ <<ch.from, ch.to>> \in d.pairs
                    THEN Append(s, x) ELSE s
        PROVE  Ordered(made'[q][ch.comm], data'[q], ch, s2)
    <2>1. CASE q # r
      <3>1. made'[q][ch.comm] = made[q][ch.comm] /\ data'[q] = data[q]
        BY <2>1, <1>2
      <3> QED
        BY <3>1, <2>1, <1>4
    <2>2. CASE q = r /\ ch.comm = d.comm /\ ch.tag = d.tag /\ <<ch.from, ch.to>> \in d.pairs
      <3>1. \A id \in Ids :
                /\ Reached(made'[r][ch.comm], data'[r], ch, id) <=>
                       Reached(made[r][ch.comm], data[r], ch, id) \/ id = x
                /\ Reached(made[r][ch.comm], data[r], ch, id) => Less(id, x)
        BY <2>2, <1>1
      <3> QED
        BY <3>1, <2>2, <1>4, OrderedAppend
    <2>3. CASE q = r /\ ~(ch.comm = d.comm /\ ch.tag = d.tag /\ <<ch.from, ch.to>> \in d.pairs)
      <3>1. \A id \in Ids :
                Reached(made'[r][ch.comm], data'[r], ch, id) <=> Reached(made[r][ch.comm], data[r], ch, id)
        BY <2>3
      <3> QED
        BY <3>1, <2>3, <1>4, OrderedSame
    <2> QED
      BY <2>1, <2>2, <2>3
  <1>5. ASSUME NEW ch \in Channels
        PROVE  /\ Ordered(made'[ch.from][ch.comm], data'[ch.from], ch, sent'[ch])
               /\ Ordered(made'[ch.to][ch.comm], data'[ch.to], ch, posted'[ch])
    <2>1. /\ Ordered(made[ch.from][ch.comm], data[ch.from], ch, sent[ch])
          /\ Ordered(made[ch.to][ch.comm], data[ch.to], ch, posted[ch])
      BY DEF Queued
    <2>2. /\ sent'[ch] = IF ch.from = r /\ ch.comm = d.comm /\ ch.tag = d.tag /\ <<ch.from, ch.to>> \in d.pairs
                         THEN Append(sent[ch], x) ELSE sent[ch]
          /\ posted'[ch] = IF ch.to = r /\ ch.comm = d.comm /\ ch.tag = d.tag /\ <<ch.from, ch.to>> \in d.pairs
                           THEN Append(posted[ch], x) ELSE posted[ch]
      BY <1>2, <1>3
    <2>3. sent[ch] \in Seq(Ids) /\ posted[ch] \in Seq(Ids) /\ ch.from \in Ranks /\ ch.to \in Ranks
      BY <1>2
    <2>4. Ordered(made'[ch.from][ch.comm], data'[ch.from], ch, sent'[ch])
      BY <2>1, <2>2, <2>3, <1>4
    <2>5. Ordered(made'[ch.to][ch.comm], data'[ch.to], ch, posted'[ch])
      BY <2>1, <2>2, <2>3, <1>4
    <2> QED
      BY <2>4, <2>5
  <1>6. Queued'
    BY <1>5, QueuedNext
  <1> QED
    BY <1>3, <1>6

LEMMA NowaitStep ==
    ASSUME IInv, NEW r \in Ranks, Nowait(r)
    PROVE  IInv'
  <1>1. TypeOK /\ Chained /\ Agree /\ Framed /\ Flying /\ Queued /\ RightData
    BY DEF IInv
  <1>2. AtCall(r, "nowait") /\ Log(r) /\ ~Alone(Top(r).comm) /\ UNCHANGED program
        /\ stack' = Returned(r, get_inc_mpi_tag(Top(r).tag))
    BY DEF Nowait
  <1>3. /\ Top(r).comm \in Comms /\ Top(r).tag \in Tags /\ NextCall(r) = program[Top(r).comm][Top(r).pos + 1]
        /\ Top(r).pos + 1 \in DOMAIN program[Top(r).comm] /\ NextCall(r).op = "nowait"
    BY <1>1, <1>2, CallFacts, TopIsFrame
  <1>4. /\ NextCall(r).array \in Arrays /\ NextCall(r).pairs \in SUBSET (Ranks \X Ranks)
        /\ NextCall(r).passes \in Nat \ {0}
    BY <1>1, <1>3, ProgramCalls
  <1>5. made[r][Top(r).comm] \in Seq(Entries)
    BY <1>1, <1>2, <1>3, LogFacts
  <1>6. PICK d : d = [comm |-> Top(r).comm, call |-> Len(made[r][Top(r).comm]) + 1, pairs |-> NextCall(r).pairs,
                      passes |-> NextCall(r).passes, tag |-> Top(r).tag, pass |-> 1]
    OBVIOUS
  <1>7. PICK z \in Arrays : z = NextCall(r).array
    BY <1>4
  <1>8. /\ data[r][z] = NoData /\ data' = [data EXCEPT ![r][z] = d]
        /\ PostRcvs(r, d) /\ PostSnds(r, d)
    BY <1>6, <1>7 DEF Nowait
  <1>9. d \in InFlight
    <2>1. Len(made[r][Top(r).comm]) + 1 \in Nat
      BY <1>5
    <2> QED
      BY <2>1, <1>3, <1>4, <1>6 DEF InFlight
  <1>10. /\ d.comm = Top(r).comm /\ d.call = Len(made[r][Top(r).comm]) + 1
         /\ d.pairs = NextCall(r).pairs /\ d.passes = NextCall(r).passes /\ d.tag = Top(r).tag /\ d.pass = 1
    BY <1>6
  <1>11. /\ data' \in [Ranks -> [Arrays -> InFlight \cup {NoData}]]
         /\ \A q \in Ranks : q # r => data'[q] = data[q]
         /\ \A a \in Arrays : data'[r][a] = IF a = z THEN d ELSE data[r][a]
    <2>1. data \in [Ranks -> [Arrays -> InFlight \cup {NoData}]]
      BY <1>1 DEF TypeOK
    <2> QED
      BY <2>1, <1>8, <1>9
  <1>12. Chained' /\ Agree'
    BY <1>1, <1>2, HistoryStep
  <1>13. stack' \in [Ranks -> Seq(Frames)] /\ Framed'
    BY <1>2, NextTag
  <1>14. made' \in [Ranks -> [Comms -> Seq([pos : Nat, tag : Tags])]]
    BY <1>1, <1>2, LogFacts DEF Entries
  <1>15. sent' \in [Channels -> Seq(Nat \X Nat)] /\ posted' \in [Channels -> Seq(Nat \X Nat)]
    BY <1>1, <1>8, <1>9, PostFacts DEF Ids
  <1>16. TypeOK'
    BY <1>1, <1>2, <1>11, <1>13, <1>14, <1>15 DEF TypeOK
  <1>17. Carried(r, z, d)'
    <2>1. PICK e \in Entries : e = [pos |-> Top(r).pos + 1, tag |-> Top(r).tag]
      BY <1>1, <1>2, CallFacts
    <2>2. made'[r][d.comm] = Append(made[r][Top(r).comm], e)
      BY <2>1, <1>1, <1>2, <1>10, LogFacts
    <2>3. /\ d.call \in DOMAIN made'[r][d.comm] /\ made'[r][d.comm][d.call] = e
          /\ d.call = Len(made'[r][d.comm])
      BY <2>2, <1>5, <1>10
    <2>4. program[d.comm][e.pos] = NextCall(r) /\ e.tag = d.tag
      BY <2>1, <1>3, <1>10
    <2>5. program'[d.comm][e.pos] = NextCall(r)
      BY <2>4, <1>2
    <2>6. d.pass \in 1 .. d.passes
      BY <1>4, <1>10
    <2> QED
      BY <2>3, <2>4, <2>5, <2>6, <1>2, <1>3, <1>7, <1>10 DEF Carried, Alone
  <1>18. Flying'
    <2> SUFFICES ASSUME NEW q \in Ranks, NEW a \in Arrays, data'[q][a] # NoData, q # r \/ a # z
                 PROVE  Carried(q, a, data[q][a])'
      BY <1>11, <1>17 DEF Flying
    <2>1. PICK o \in InFlight : o = data'[q][a] /\ o = data[q][a]
      BY <1>11
    <2>2. Carried(q, a, o)
      BY <1>1, <2>1, ExchangeAssumption DEF Flying, ExchangeAssumption
    <2>3. q = r => ~(o.pass < o.passes)
      <3>1. ~Copying(r)
        BY <1>1, <1>2, CallFacts
      <3>2. o # NoData
        BY ExchangeAssumption DEF ExchangeAssumption
      <3> QED
        BY <2>1, <3>1, <3>2 DEF Copying
    <2>4. Carried(q, a, o)'
      BY <1>1, <1>2, <2>2, <2>3, CarriedLog
    <2> QED
      BY <2>1, <2>4
  <1>19. ASSUME NEW ch \in Channels, NEW id \in Ids
         PROVE  /\ Reached(made'[r][ch.comm], data'[r], ch, id) <=>
                       \/ Reached(made[r][ch.comm], data[r], ch, id)
                       \/ /\ id = <<d.call, d.pass>> /\ ch.comm = d.comm /\ ch.tag = d.tag
                          /\ <<ch.from, ch.to>> \in d.pairs
                /\ Reached(made[r][ch.comm], data[r], ch, id) /\ ch.comm = d.comm =>
                       Less(id, <<d.call, d.pass>>)
    <2>1. PICK D2 : D2 = data'[r]
      OBVIOUS
    <2>2. /\ Reached(made'[r][ch.comm], D2, ch, id) <=>
                 \/ Reached(made[r][ch.comm], data[r], ch, id)
                 \/ /\ id = <<d.call, d.pass>> /\ ch.comm = d.comm /\ ch.tag = d.tag
                    /\ <<ch.from, ch.to>> \in d.pairs
          /\ Reached(made[r][ch.comm], data[r], ch, id) /\ ch.comm = d.comm =>
                 Less(id, <<d.call, d.pass>>)
      <3>1. \A a \in Arrays : D2[a] = IF a = z THEN d ELSE data[r][a]
        BY <1>11, <2>1
      <3> QED
        BY <3>1, <1>1, <1>2, <1>8, <1>9, <1>10, ReachedNowait
    <2> QED
      BY <2>1, <2>2
  <1>20. \A q \in Ranks : q # r => data'[q] = data[q] /\ \A c \in Comms : made'[q][c] = made[q][c]
    BY <1>1, <1>2, <1>11, LogFacts
  <1>21. /\ Queued'
         /\ \A ch \in Channels :
                \/ /\ sent'[ch] = sent[ch]
                   /\ posted'[ch] = posted[ch] \/ \E x \in Ids : posted'[ch] = Append(posted[ch], x)
                \/ posted'[ch] = posted[ch] /\ \E x \in Ids : sent'[ch] = Append(sent[ch], x)
    BY <1>1, <1>2, <1>8, <1>9, <1>19, <1>20, PostsStep
  <1>22. RightData'
    BY <1>1, <1>12, <1>16, <1>18, <1>21, RightDataStep
  <1> QED
    BY <1>12, <1>13, <1>16, <1>18, <1>21, <1>22 DEF IInv

\* Frames, with the history and the programs unchanged.
LEMMA SameFrames ==
    ASSUME Framed, UNCHANGED <<program, stack, made>>
    PROVE  Framed'
  <1>1. program' = program /\ stack' = stack /\ made' = made
    OBVIOUS
  <1>2. ASSUME NEW q \in Ranks, NEW f, Linked(q, f)
        PROVE  Linked(q, f)'
    <2>1. ASSUME NEW e PROVE After(f.comm, e)' = After(f.comm, e)
      BY <1>1 DEF After, Draws, Alone
    <2>2. PICK e : e = made[q][f.comm][Len(made[q][f.comm])]
      OBVIOUS
    <2>3. After(f.comm, e)' = After(f.comm, e)
      BY <2>1
    <2> QED
      BY <1>1, <1>2, <2>2, <2>3 DEF Linked, Between
  <1>3. ASSUME NEW q \in Ranks, NEW i \in DOMAIN stack[q]
        PROVE  Linked(q, stack[q][i])'
    <2>1. PICK f : f = stack[q][i]
      OBVIOUS
    <2>2. Linked(q, f)
      BY <2>1 DEF Framed, FramedIn
    <2>3. Linked(q, f)'
      BY <2>2, <1>2
    <2> QED
      BY <2>1, <2>3, <1>1
  <1>4. \A q \in Ranks, c \in Comms : Between(q, c) => Between(q, c)'
    BY <1>1 DEF Between
  <1> QED
    BY <1>1, <1>3, <1>4 DEF Framed, FramedIn

LEMMA NextPassStep ==
    ASSUME IInv, NEW r \in Ranks, NEW z \in Arrays, NextPass(r, z)
    PROVE  IInv'
  <1>1. TypeOK /\ Chained /\ Agree /\ Framed /\ Flying /\ Queued /\ RightData
    BY DEF IInv
  <1>2. data[r][z] # NoData /\ data[r][z].pass < data[r][z].passes /\ UNCHANGED <<program, stack, made>>
    BY DEF NextPass
  <1>3. PICK o \in InFlight : o = data[r][z]
    BY <1>1, <1>2 DEF TypeOK
  <1>4. PICK d : d = [o EXCEPT !.pass = @ + 1]
    OBVIOUS
  <1>5. data' = [data EXCEPT ![r][z] = d] /\ PostRcvs(r, d) /\ PostSnds(r, d)
    BY <1>3, <1>4 DEF NextPass
  <1>6. /\ d.comm = o.comm /\ d.call = o.call /\ d.pairs = o.pairs /\ d.tag = o.tag
        /\ d.passes = o.passes /\ d.pass = o.pass + 1
        /\ o.pass \in Nat /\ o.passes \in Nat /\ d \in InFlight
    BY <1>3, <1>4 DEF InFlight
  <1>7. Carried(r, z, o)
    BY <1>1, <1>2, <1>3 DEF Flying
  <1>8. /\ data' \in [Ranks -> [Arrays -> InFlight \cup {NoData}]]
        /\ \A q \in Ranks : q # r => data'[q] = data[q]
        /\ \A a \in Arrays : data'[r][a] = IF a = z THEN d ELSE data[r][a]
    <2>1. data \in [Ranks -> [Arrays -> InFlight \cup {NoData}]]
      BY <1>1 DEF TypeOK
    <2> QED
      BY <2>1, <1>5, <1>6
  <1>9. sent' \in [Channels -> Seq(Nat \X Nat)] /\ posted' \in [Channels -> Seq(Nat \X Nat)]
    BY <1>1, <1>5, <1>6, PostFacts DEF Ids
  <1>10. TypeOK'
    BY <1>1, <1>2, <1>8, <1>9 DEF TypeOK
  <1>11. Chained' /\ Agree'
    BY <1>1, <1>2 DEF Chained, Agree, First, Following, After, Draws, Alone
  <1>12. Framed'
    BY <1>1, <1>2, SameFrames
  <1>13. ASSUME NEW q \in Ranks, NEW a \in Arrays, NEW x, Carried(q, a, x)
         PROVE  Carried(q, a, x)'
    BY <1>2, <1>13 DEF Carried, Alone
  <1>14. Carried(r, z, d)
    <2>1. o.pass \in 1 .. o.passes /\ o.call = Len(made[r][o.comm])
      BY <1>2, <1>3, <1>7 DEF Carried
    <2>2. d.pass \in 1 .. d.passes
      <3>1. o.pass < o.passes
        BY <1>2, <1>3
      <3> QED
        BY <3>1, <1>6
    <2> QED
      BY <2>1, <2>2, <1>6, <1>7 DEF Carried
  <1>15. Flying'
    <2> SUFFICES ASSUME NEW q \in Ranks, NEW a \in Arrays, data'[q][a] # NoData
                 PROVE  Carried(q, a, data[q][a])'
      BY DEF Flying
    <2>1. PICK x : x = data'[q][a]
      OBVIOUS
    <2>2. Carried(q, a, x)
      <3>1. CASE q = r /\ a = z
        BY <3>1, <2>1, <1>8, <1>14
      <3>2. CASE q # r \/ a # z
        BY <3>2, <2>1, <1>1, <1>8 DEF Flying
      <3> QED
        BY <3>1, <3>2
    <2>3. Carried(q, a, x)'
      BY <2>2, <1>13
    <2> QED
      BY <2>1, <2>3
  <1>16. ASSUME NEW ch \in Channels, NEW id \in Ids
         PROVE  /\ Reached(made'[r][ch.comm], data'[r], ch, id) <=>
                       \/ Reached(made[r][ch.comm], data[r], ch, id)
                       \/ /\ id = <<d.call, d.pass>> /\ ch.comm = d.comm /\ ch.tag = d.tag
                          /\ <<ch.from, ch.to>> \in d.pairs
                /\ Reached(made[r][ch.comm], data[r], ch, id) /\ ch.comm = d.comm =>
                       Less(id, <<d.call, d.pass>>)
    <2>1. /\ d.comm = data[r][z].comm /\ d.call = data[r][z].call /\ d.pairs = data[r][z].pairs
          /\ d.passes = data[r][z].passes /\ d.tag = data[r][z].tag /\ d.pass = data[r][z].pass + 1
          /\ d \in InFlight
      BY <1>3, <1>6
    <2>2. PICK D2 : D2 = data'[r]
      OBVIOUS
    <2>3. /\ Reached(made[r][ch.comm], D2, ch, id) <=>
                 \/ Reached(made[r][ch.comm], data[r], ch, id)
                 \/ /\ id = <<d.call, d.pass>> /\ ch.comm = d.comm /\ ch.tag = d.tag
                    /\ <<ch.from, ch.to>> \in d.pairs
          /\ Reached(made[r][ch.comm], data[r], ch, id) /\ ch.comm = d.comm =>
                 Less(id, <<d.call, d.pass>>)
      <3>1. \A a \in Arrays : D2[a] = IF a = z THEN d ELSE data[r][a]
        BY <1>8, <2>2
      <3> QED
        BY <3>1, <1>1, <1>2, <2>1, ReachedPass
    <2> QED
      BY <2>2, <2>3, <1>2
  <1>17. \A q \in Ranks : q # r => data'[q] = data[q] /\ \A c \in Comms : made'[q][c] = made[q][c]
    BY <1>2, <1>8
  <1>18. /\ Queued'
         /\ \A ch \in Channels :
                \/ /\ sent'[ch] = sent[ch]
                   /\ posted'[ch] = posted[ch] \/ \E x \in Ids : posted'[ch] = Append(posted[ch], x)
                \/ posted'[ch] = posted[ch] /\ \E x \in Ids : sent'[ch] = Append(sent[ch], x)
    BY <1>1, <1>2, <1>5, <1>6, <1>16, <1>17, PostsStep
  <1>19. RightData'
    BY <1>1, <1>10, <1>11, <1>15, <1>18, RightDataStep
  <1> QED
    BY <1>10, <1>11, <1>12, <1>15, <1>18, <1>19 DEF IInv

\* Steps that leave the history, the messages and the exchanges alone.
LEMMA SameCalls ==
    ASSUME IInv, UNCHANGED <<program, data, sent, posted, made>>,
           stack' \in [Ranks -> Seq(Frames)], Framed'
    PROVE  IInv'
  <1>1. TypeOK /\ Chained /\ Agree /\ Flying /\ Queued /\ RightData
    BY DEF IInv
  <1>2. program' = program /\ data' = data /\ sent' = sent /\ posted' = posted /\ made' = made
    OBVIOUS
  <1>3. TypeOK'
    BY <1>1, <1>2 DEF TypeOK
  <1>4. Chained' /\ Agree'
    <2>1. \A c, e : Following(c, e)' = Following(c, e)
      BY <1>2 DEF First, Following, After, Draws, Alone
    <2>2. Chained'
      <3> SUFFICES ASSUME NEW q \in Ranks, NEW c \in Comms, NEW n \in DOMAIN made'[q][c]
                   PROVE  /\ made'[q][c][n].pos \in 1 .. Len(program'[c])
                          /\ made'[q][c][n] = IF n = 1 THEN First ELSE Following(c, made[q][c][n - 1])'
        BY DEF Chained, First
      <3>1. PICK e : e = made[q][c][n - 1]
        OBVIOUS
      <3>2. Following(c, e)' = Following(c, e)
        BY <2>1
      <3> QED
        BY <1>1, <1>2, <3>1, <3>2 DEF Chained
    <2>3. Agree'
      BY <1>1, <1>2 DEF Agree
    <2> QED
      BY <2>2, <2>3
  <1>5. Flying'
    <2> SUFFICES ASSUME NEW q \in Ranks, NEW a \in Arrays, data'[q][a] # NoData
                 PROVE  Carried(q, a, data[q][a])'
      BY DEF Flying
    <2>1. PICK x : x = data[q][a] /\ x = data'[q][a]
      BY <1>2
    <2>2. Carried(q, a, x)
      BY <1>1, <2>1 DEF Flying
    <2>3. Carried(q, a, x)'
      BY <1>2, <2>2 DEF Carried, Alone
    <2> QED
      BY <2>1, <2>3
  <1>6. Queued'
    <2>1. \A ch \in Channels :
              /\ Ordered(made'[ch.from][ch.comm], data'[ch.from], ch, sent'[ch])
              /\ Ordered(made'[ch.to][ch.comm], data'[ch.to], ch, posted'[ch])
      BY <1>1, <1>2 DEF Queued
    <2> QED
      BY <1>2, <2>1, QueuedNext
  <1>7. RightData'
    BY <1>1, <1>2 DEF RightData, Met
  <1> QED
    BY <1>3, <1>4, <1>5, <1>6, <1>7 DEF IInv

LEMMA PopStep ==
    ASSUME IInv, NEW r \in Ranks, Pop(r)
    PROVE  IInv'
  <1>1. TypeOK /\ Framed
    BY DEF IInv
  <1>2. stack' = [stack EXCEPT ![r] = SubSeq(@, 1, Len(@) - 1)] /\ stack[r] # <<>>
        /\ UNCHANGED <<program, data, sent, posted, made>>
    BY DEF Pop, Idle
  <1>3. stack \in [Ranks -> Seq(Frames)]
    BY <1>1 DEF TypeOK
  <1>4. SubSeq(stack[r], 1, Len(stack[r]) - 1) \in Seq(Frames)
    BY <1>2, <1>3
  <1>5. stack' \in [Ranks -> Seq(Frames)]
    BY <1>2, <1>3, <1>4
  <1>6. Framed'
    BY <1>1, FramesPopped
  <1> QED
    BY <1>2, <1>5, <1>6, SameCalls

LEMMA StutterInv == IInv /\ UNCHANGED vars => IInv'
  <1> SUFFICES ASSUME IInv, UNCHANGED vars PROVE IInv'
    OBVIOUS
  <1>1. UNCHANGED <<program, stack, data, sent, posted, made>>
    BY DEF vars
  <1>2. stack' \in [Ranks -> Seq(Frames)]
    BY <1>1 DEF IInv, TypeOK
  <1>3. Framed
    BY DEF IInv
  <1>4. Framed'
    BY <1>1, <1>3, SameFrames
  <1> QED
    BY <1>1, <1>2, <1>4, SameCalls

LEMMA InitInv == Init => IInv
  <1> SUFFICES ASSUME Init PROVE IInv
    OBVIOUS
  <1>1. /\ program \in Programs
        /\ stack = [r \in Ranks |-> <<[comm |-> World, pos |-> 0, tag |-> MinTag]>>]
        /\ data = [r \in Ranks |-> [a \in Arrays |-> NoData]]
        /\ sent = [ch \in Channels |-> <<>>] /\ posted = [ch \in Channels |-> <<>>]
        /\ made = [r \in Ranks |-> [c \in Comms |-> <<>>]]
    BY DEF Init
  <1>2. World \in Comms /\ MinTag \in Tags /\ program \in [Comms -> Seq(Calls)]
    BY <1>1, ExchangeAssumption DEF ExchangeAssumption, Tags
  <1>3. PICK f \in Frames : f = [comm |-> World, pos |-> 0, tag |-> MinTag]
    BY <1>2 DEF Frames
  <1>4. <<f>> \in Seq(Frames) /\ DOMAIN <<f>> = {1} /\ <<f>>[1] = f
    OBVIOUS
  <1>5. stack \in [Ranks -> Seq(Frames)] /\ \A r \in Ranks : stack[r] = <<f>>
    BY <1>1, <1>3, <1>4
  <1>6. TypeOK
    BY <1>1, <1>5 DEF TypeOK
  <1>7. Chained /\ Agree
    BY <1>1 DEF Chained, Agree
  <1>8. \A r \in Ranks, c \in Comms : Between(r, c)
    BY <1>1 DEF Between
  <1>9. \A r \in Ranks : Linked(r, f)
    <2>1. f.comm = World /\ f.pos = 0 /\ f.tag = MinTag
      BY <1>3
    <2>2. Len(program[World]) \in Nat
      BY <1>2
    <2> SUFFICES ASSUME NEW r \in Ranks PROVE Linked(r, f)
      OBVIOUS
    <2>3. Between(r, f.comm)
      BY <2>1, <1>2, <1>8
    <2>4. f.pos <= Len(program[f.comm]) /\ ~(f.pos > 0)
      BY <2>1, <2>2
    <2> QED
      BY <2>1, <2>3, <2>4 DEF Linked
  <1>10. Framed
    <2>1. \A r \in Ranks : DOMAIN stack[r] = {1} /\ stack[r][1] = f
      BY <1>4, <1>5
    <2>2. \A r \in Ranks : \A i, j \in DOMAIN stack[r] : ~(i < j)
      BY <2>1
    <2> QED
      BY <2>1, <2>2, <1>8, <1>9 DEF Framed, FramedIn
  <1>11. Flying
    BY <1>1 DEF Flying
  <1>12. Queued
    <2>1. ASSUME NEW ch \in Channels, NEW q \in Ranks, ch.comm \in Comms
          PROVE  Ordered(made[q][ch.comm], data[q], ch, <<>>)
      BY <1>1, <2>1 DEF Ordered, Reached, Has
    <2>2. \A ch \in Channels : ch.comm \in Comms /\ ch.from \in Ranks /\ ch.to \in Ranks
      BY DEF Channels
    <2> QED
      BY <2>1, <2>2, <1>1 DEF Queued
  <1>13. RightData
    BY <1>1 DEF RightData, Met
  <1> QED
    BY <1>6, <1>7, <1>10, <1>11, <1>12, <1>13 DEF IInv

-----------------------------------------------------------------------------

\* The calls, the messages and the frames of all ranks stay in step.
THEOREM Invariance == Spec => []IInv
  <1>1. IInv /\ [Next]_vars => IInv'
    <2> SUFFICES ASSUME IInv, [Next]_vars PROVE IInv'
      OBVIOUS
    <2>1. ASSUME NEW r \in Ranks, Step(r) PROVE IInv'
      <3>1. CASE NowaitAlone(r) \/ NowaitNothing(r) \/ Finish(r) \/ Collective(r) \/ Push(r)
        BY <3>1, CallSteps
      <3>2. CASE Nowait(r)
        BY <3>2, NowaitStep
      <3>3. CASE \E a \in Arrays : NextPass(r, a)
        BY <3>3, NextPassStep
      <3>4. CASE Pop(r)
        BY <3>4, PopStep
      <3> QED
        BY <2>1, <3>1, <3>2, <3>3, <3>4 DEF Step
    <2> QED
      BY <2>1, StutterInv DEF Next
  <1> QED
    BY InitInv, <1>1, PTL DEF Spec

\* Frames, requests and messages have their types, whatever the programs: the
\* tag of a frame (ParallelContext::Frame::get_inc_mpi_tag) stays in its range.
THEOREM TypeCorrect == Spec => []TypeOK
  <1>1. IInv => TypeOK
    BY DEF IInv
  <1> QED
    BY <1>1, Invariance, PTL

\* What MPI gives to a receive of FillBoundary or ParallelCopy was sent in the
\* same call and the same pass of it, for any number of ranks, communicators,
\* arrays and tags and any programs that all ranks of a frame have in common.
THEOREM RightDataAlways == Spec => []RightData
  <1>1. IInv => RightData
    BY DEF IInv
  <1> QED
    BY <1>1, Invariance, PTL

=============================================================================

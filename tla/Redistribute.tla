---------------------------- MODULE Redistribute ----------------------------
(***************************************************************************)
(* ParticleContainer::Redistribute on the ranks of a program: every rank   *)
(* finds the particles that have left their tile, the ranks agree on who   *)
(* sends to whom (doHandShake, in three variants), exchange what is coming *)
(* (buildMPIStart, buildMPIFinish) and then the particles                  *)
(* (communicateParticlesStart, unpackBuffer, unpackRemotes).               *)
(*                                                                         *)
(* A tile stands for a level, grid and tile index and tiles are numbered   *)
(* in their order; the grids are a row, so that tiles are neighbours when  *)
(* their numbers are.  A particle's record in a buffer has size 1, and the *)
(* buffers of different ranks start at multiples of Align.  The program    *)
(* says how each call is made, which rank owns which tile then and where   *)
(* every particle is at each call; Outside is beyond the domain.           *)
(*                                                                         *)
(* MPI (external) gives a receive the first message of its source, or of   *)
(* any source, with its tag, once the receive is posted.                   *)
(***************************************************************************)
EXTENDS Integers, Sequences, FiniteSets, Functions, SequencesExt

CONSTANTS NumProcs, NumTiles, Particles, Align, MinTag, MaxTag, Programs, None

VARIABLES
    program,  \* how Redistribute is called, and where the particles are
    done,     \* number of calls each rank has completed
    pc,       \* where each rank is in a call
    tag,      \* the tag counter of each rank's communicator frame
    bufferMap,\* m_buffer_map: the owners of the tiles when it was defined
    tiles,    \* m_particles of each rank
    copies,   \* ParticleCopyOp: the particles to move, by the tile they go to
    boxes,    \* ParticleCopyPlan: m_rcv_box_counts, _ids and _pids
    net,      \* messages on their way, in order, by source and destination
    posted,   \* receives that have no message yet: their tag and sources
    got,      \* messages received in this part of the call, by source
    numRcvs,  \* num_rcvs of doHandShakeReduceScatter
    window,   \* m_particle_handshake_window's buffer on each rank
    fences    \* number of MPI_Win_fence each rank has entered

vars == <<program, done, pc, tag, bufferMap, tiles, copies, boxes, net, posted, got, numRcvs, window, fences>>

Ranks == 0 .. NumProcs - 1
Tiles == 1 .. NumTiles
Outside == 0
Tags == MinTag .. MaxTag

Owners == [Tiles -> Ranks]
Calls == [local : BOOLEAN, owner : Owners]

Boxes == Seq([n : Nat \ {0}, tile : Tiles, pid : Ranks])
Messages == [tag : Tags, count : Nat, boxes : Boxes, data : Seq(Particles)]
Receives == [tag : Tags, from : SUBSET Ranks, any : Nat]

\* A local call may only follow when the owners are the same and no particle has
\* gone further than the next tile; a particle outside is removed for good.
LegalProgram(p) ==
    /\ p.oneSided \in BOOLEAN
    /\ p.calls \in Seq(Calls)
    /\ p.start \in Owners
    /\ p.path \in [Particles -> Seq(Tiles \cup {Outside})]
    /\ \A x \in Particles :
           /\ Len(p.path[x]) = Len(p.calls) + 1
           /\ p.path[x][1] # Outside
           /\ \A k \in DOMAIN p.calls : p.path[x][k] = Outside => p.path[x][k + 1] = Outside
    /\ \A k \in DOMAIN p.calls :
           p.calls[k].local =>
               /\ p.calls[k].owner = IF k = 1 THEN p.start ELSE p.calls[k - 1].owner
               /\ \A x \in Particles :
                      p.path[x][k + 1] \in {p.path[x][k] + d : d \in -1 .. 1} \cup {Outside}

RedistributeAssumption ==
    /\ NumProcs \in Nat /\ NumProcs >= 2
    /\ NumTiles \in Nat \ {0}
    /\ Align \in Nat \ {0}
    /\ MinTag \in Nat /\ MaxTag \in Nat /\ MinTag <= MaxTag
    /\ \A p \in Programs : LegalProgram(p)

ASSUME RedistributeAssumption

-----------------------------------------------------------------------------

\* The call a rank is in, or makes next.
Call(r) == program.calls[done[r] + 1]

\* Index and ParticleLocData: the tile a particle is in at that call.
Where(r, x) == program.path[x][done[r] + 2]

get_inc_mpi_tag(t) == IF t < MaxTag THEN t + 1 ELSE MinTag

Sum(f, S) == FoldFunctionOnSet(+, 0, f, S)

aligned_size(n) == ((n + Align - 1) \div Align) * Align

isValid(r) == bufferMap[r] # <<>> /\ bufferMap[r] = Call(r).owner

procID(r, t) == bufferMap[r][t]

\* Mutant: the processes in the order in which their grids are met.
NeighborProcs_Unsorted(r) ==
    LET mine == {t \in Tiles : Call(r).owner[t] = r}
        meet(procs, t) ==
            IF (\E m \in mine : t - m \in -1 .. 1) /\ ~Contains(procs, Call(r).owner[t])
            THEN Append(procs, Call(r).owner[t]) ELSE procs
    IN  IF Call(r).local
        THEN FoldLeft(meet, <<>>, [t \in Tiles |-> t])
        ELSE [i \in 1 .. NumProcs |-> i - 1]

\* m_neighbor_procs, in increasing order: RemoveDuplicates sorts.
NeighborProcs(r) ==
    LET mine == {t \in Tiles : Call(r).owner[t] = r}
        near == {Call(r).owner[t] : t \in {u \in Tiles : \E m \in mine : u - m \in -1 .. 1}}
        all == [i \in 1 .. NumProcs |-> i - 1]
    IN  IF Call(r).local THEN SelectSeq(all, LAMBDA i : i \in near) ELSE all

Neighbors(r) == ToSet(NeighborProcs(r))

\* Buckets are sorted by rank and then by tile.
Before(r, t, u) ==
    procID(r, t) < procID(r, u) \/ (procID(r, t) = procID(r, u) /\ t < u)

BoxCounts(r) == [t \in Tiles |-> Len(copies[r][t])]

BoxOffset(r, t) == Sum(BoxCounts(r), {u \in Tiles : Before(r, u, t)})

OnProc(r, i) == {t \in Tiles : procID(r, t) = i}

SndNumParticles(r) ==
    [i \in Ranks |-> IF i \in Neighbors(r) THEN Sum(BoxCounts(r), OnProc(r, i)) ELSE 0]

\* What a rank announces to another one: counts and tiles.
SndData(r, i) ==
    LET going == SelectSeq([t \in Tiles |-> t], LAMBDA t : procID(r, t) = i /\ copies[r][t] # <<>>)
    IN  IF i = r \/ i \notin Neighbors(r) THEN <<>>
        ELSE [k \in DOMAIN going |-> [n |-> Len(copies[r][going[k]]), tile |-> going[k], pid |-> r]]

\* m_Snds: a count of bytes in the code, of announcements here.
Snds(r, i) == Len(SndData(r, i))

SndOffset(r, i) ==
    FoldLeft(LAMBDA n, k : aligned_size(n + SndNumParticles(r)[k]), 0, [k \in 1 .. i |-> k - 1])

\* Mutant: the correction of the rank before.
PadCorrection_Before(r, i) ==
    IF i = 0 THEN 0
    ELSE SndOffset(r, i - 1) - Sum(SndNumParticles(r), 0 .. i - 2)

PadCorrection(r, i) == SndOffset(r, i) - Sum(SndNumParticles(r), 0 .. i - 1)

\* GetSendBufferOffset: where the j-th particle for a tile is in the send buffer.
BufferPlace(r, t, j) == BoxOffset(r, t) + j - 1 + PadCorrection(r, procID(r, t))

SndBuffer(r, n) ==
    LET here == {tj \in Tiles \X (1 .. Cardinality(Particles)) :
                    tj[2] <= Len(copies[r][tj[1]]) /\ BufferPlace(r, tj[1], tj[2]) = n}
    IN  IF here = {} THEN None ELSE LET tj == CHOOSE tj \in here : TRUE IN copies[r][tj[1]][tj[2]]

SndParticles(r, i) == [k \in 1 .. SndNumParticles(r)[i] |-> SndBuffer(r, SndOffset(r, i) + k - 1)]

-----------------------------------------------------------------------------

Message(t, n, bs, ps) == [tag |-> t, count |-> n, boxes |-> bs, data |-> ps]

\* A rank posts its receives, then sends m[i] to each rank i in the domain of m.
Communicate(r, receives, m) ==
    /\ posted' = [posted EXCEPT ![r] = receives]
    /\ got' = [got EXCEPT ![r] = [i \in Ranks |-> None]]
    /\ net' = [net EXCEPT ![r] = [i \in Ranks |-> IF i \in DOMAIN m THEN Append(@[i], m[i]) ELSE @[i]]]

Receive(t, from) == [tag |-> t, from |-> from, any |-> 0]

\* Waitall on receives.  A wait for sends may end at once or only when they are
\* taken, as MPI buffers what it likes: progress is owed only to the latter.
Received(r) == posted[r].from = {} /\ posted[r].any = 0

SendsTaken(r) == \A i \in Ranks : net[r][i] = <<>>

Rcvs(r, i) == IF got[r][i] = None THEN 0 ELSE got[r][i].count

DrawTag(r) == tag' = [tag EXCEPT ![r] = get_inc_mpi_tag(@)]

Goto(r, where) == pc' = [pc EXCEPT ![r] = where]

-----------------------------------------------------------------------------

Init ==
    /\ program \in Programs
    /\ done = [r \in Ranks |-> 0]
    /\ pc = [r \in Ranks |-> "idle"]
    /\ tag = [r \in Ranks |-> MinTag]
    /\ bufferMap = [r \in Ranks |-> <<>>]
    /\ tiles = [r \in Ranks |-> [t \in Tiles |->
           IF program.start[t] = r
           THEN SetToSeq({x \in Particles : program.path[x][1] = t}) ELSE <<>>]]
    /\ copies = [r \in Ranks |-> [t \in Tiles |-> <<>>]]
    /\ boxes = [r \in Ranks |-> <<>>]
    /\ net = [r \in Ranks |-> [i \in Ranks |-> <<>>]]
    /\ posted = [r \in Ranks |-> Receive(MinTag, {})]
    /\ got = [r \in Ranks |-> [i \in Ranks |-> None]]
    /\ numRcvs = [r \in Ranks |-> 0]
    /\ window = [r \in Ranks |-> [i \in Ranks |-> 0]]
    /\ fences = [r \in Ranks |-> 0]

\* defineBufferMap
DefinedMap(r) == IF isValid(r) THEN bufferMap[r] ELSE Call(r).owner

\* The last condition of hostPartitionTile, negated.
Stays(r, t, x) == Where(r, x) = t /\ DefinedMap(r)[t] = r

\* defineBufferMap, hostPartitionTile on every tile and the counts of build: particles
\* outside the domain are removed, the others stay or are copied for another tile.
Partition(r) ==
    /\ pc[r] = "idle"
    /\ done[r] < Len(program.calls)
    /\ bufferMap' = [bufferMap EXCEPT ![r] = DefinedMap(r)]
    /\ tiles' = [tiles EXCEPT ![r] =
           [t \in Tiles |-> SelectSeq(@[t], LAMBDA x : Stays(r, t, x))]]
    /\ copies' = [copies EXCEPT ![r] = [u \in Tiles |->
           FlattenSeq([t \in Tiles |->
               SelectSeq(tiles[r][t], LAMBDA x : Where(r, x) = u /\ ~Stays(r, t, x))])]]
    /\ Goto(r, IF Call(r).local THEN "local" ELSE IF program.oneSided THEN "window" ELSE "reduce")
    /\ UNCHANGED <<program, done, tag, boxes, net, posted, got, numRcvs, window, fences>>

\* doHandShakeLocal: a count to and from every neighbour, the rank itself included.
DoHandShakeLocal(r) ==
    /\ pc[r] = "local"
    /\ DrawTag(r)
    /\ Communicate(r, Receive(tag[r], Neighbors(r)),
                   [i \in Neighbors(r) |-> Message(tag[r], Snds(r, i), <<>>, <<>>)])
    /\ Goto(r, "counts")
    /\ UNCHANGED <<program, done, bufferMap, tiles, copies, boxes, numRcvs, window, fences>>

\* doHandShakeReduceScatter: MPI_Reduce_scatter tells each rank how many others send
\* to it, once all ranks have called it.
ReduceScatter ==
    /\ \A r \in Ranks : pc[r] = "reduce"
    /\ numRcvs' = [r \in Ranks |-> Cardinality({q \in Ranks : Snds(q, r) > 0})]
    /\ pc' = [r \in Ranks |-> "connect"]
    /\ UNCHANGED <<program, done, tag, bufferMap, tiles, copies, boxes, net, posted, got, window, fences>>

\* ... and the counts then come from any source, in any order.
Connect(r) ==
    /\ pc[r] = "connect"
    /\ DrawTag(r)
    /\ Communicate(r, [tag |-> tag[r], from |-> {}, any |-> numRcvs[r]],
                   [i \in {j \in Ranks : Snds(r, j) > 0} |-> Message(tag[r], Snds(r, i), <<>>, <<>>)])
    /\ Goto(r, "counts")
    /\ UNCHANGED <<program, done, bufferMap, tiles, copies, boxes, numRcvs, window, fences>>

\* doHandShakeOneSided: the buffer is cleared before the first fence ...
ClearWindow(r) ==
    /\ pc[r] = "window"
    /\ window' = [window EXCEPT ![r] = [i \in Ranks |-> 0]]
    /\ fences' = [fences EXCEPT ![r] = @ + 1]
    /\ Goto(r, "put")
    /\ UNCHANGED <<program, done, tag, bufferMap, tiles, copies, boxes, net, posted, got, numRcvs>>

FencePassed(r) == \A q \in Ranks : fences[q] >= fences[r]

\* Mutant: the buffer is cleared after the fence.
PutCounts_ClearLate(r) ==
    /\ pc[r] = "put"
    /\ FencePassed(r)
    /\ window' = [i \in Ranks |->
           IF i = r THEN [q \in Ranks |-> 0]
           ELSE IF Snds(r, i) > 0 THEN [window[i] EXCEPT ![r] = Snds(r, i)] ELSE window[i]]
    /\ fences' = [fences EXCEPT ![r] = @ + 1]
    /\ Goto(r, "read")
    /\ UNCHANGED <<program, done, tag, bufferMap, tiles, copies, boxes, net, posted, got, numRcvs>>

\* ... the counts are put into the buffers of the others between the fences ...
PutCounts(r) ==
    /\ pc[r] = "put"
    /\ FencePassed(r)
    /\ window' = [i \in Ranks |->
           IF i # r /\ Snds(r, i) > 0 THEN [window[i] EXCEPT ![r] = Snds(r, i)] ELSE window[i]]
    /\ fences' = [fences EXCEPT ![r] = @ + 1]
    /\ Goto(r, "read")
    /\ UNCHANGED <<program, done, tag, bufferMap, tiles, copies, boxes, net, posted, got, numRcvs>>

\* ... and its own buffer is read after the second.
ReadWindow(r) ==
    /\ pc[r] = "read"
    /\ FencePassed(r)
    /\ got' = [got EXCEPT ![r] = [i \in Ranks |->
           IF window[r][i] > 0 THEN Message(tag[r], window[r][i], <<>>, <<>>) ELSE None]]
    /\ Goto(r, "counts")
    /\ UNCHANGED <<program, done, tag, bufferMap, tiles, copies, boxes, net, posted, numRcvs, window, fences>>

\* buildMPIStart after the handshake.  The early return of a rank with nothing to
\* send or to receive is the case without messages: the tag has been drawn before.
ExchangeBoxes(r) ==
    /\ pc[r] = "counts"
    /\ Received(r)
    /\ DrawTag(r)
    /\ Communicate(r, Receive(tag[r], {i \in Neighbors(r) : Rcvs(r, i) > 0}),
                   [i \in {j \in Neighbors(r) : Snds(r, j) > 0} |-> Message(tag[r], 0, SndData(r, i), <<>>)])
    /\ Goto(r, "boxes")
    /\ UNCHANGED <<program, done, bufferMap, tiles, copies, boxes, numRcvs, window, fences>>

\* buildMPIFinish: the announcements, in the order of the neighbours.
RcvData(r) ==
    FlattenSeq([k \in DOMAIN NeighborProcs(r) |->
        LET i == NeighborProcs(r)[k] IN IF got[r][i] = None THEN <<>> ELSE got[r][i].boxes])

RcvNumParticles(r, i) ==
    IF got[r][i] = None THEN 0
    ELSE FoldLeft(LAMBDA n, b : n + b.n, 0, got[r][i].boxes)

\* packBuffer, buildMPIFinish, communicateParticlesStart, and unpackBuffer for the
\* particles that go to another tile of the same rank.
ExchangeParticles(r) ==
    /\ pc[r] = "boxes"
    /\ Received(r)
    /\ boxes' = [boxes EXCEPT ![r] = RcvData(r)]
    /\ DrawTag(r)
    /\ Communicate(r, Receive(tag[r], {i \in Ranks : RcvNumParticles(r, i) > 0}),
                   [i \in {j \in Ranks \ {r} : SndNumParticles(r)[j] > 0} |->
                       Message(tag[r], 0, <<>>, SndParticles(r, i))])
    /\ tiles' = [tiles EXCEPT ![r] = [t \in Tiles |->
           IF procID(r, t) = r
           THEN @[t] \o [j \in DOMAIN copies[r][t] |-> SndBuffer(r, BufferPlace(r, t, j))]
           ELSE @[t]]]
    /\ copies' = [copies EXCEPT ![r] = [t \in Tiles |-> <<>>]]
    /\ Goto(r, "particles")
    /\ UNCHANGED <<program, done, bufferMap, numRcvs, window, fences>>

\* The receive buffer: particles in the order of the ranks they come from.
RcvBuffer(r) ==
    FlattenSeq([k \in 1 .. NumProcs |-> IF got[r][k - 1] = None THEN <<>> ELSE got[r][k - 1].data])

\* m_rcv_box_offsets
RcvBoxOffset(r, k) == FoldLeft(LAMBDA n, b : n + b.n, 0, SubSeq(boxes[r], 1, k - 1))

\* communicateParticlesFinish and unpackRemotes.
UnpackRemotes(r) ==
    /\ pc[r] = "particles"
    /\ Received(r)
    /\ LET slice(k) == SubSeq(RcvBuffer(r), RcvBoxOffset(r, k) + 1, RcvBoxOffset(r, k) + boxes[r][k].n)
       IN  tiles' = [tiles EXCEPT ![r] = [t \in Tiles |->
               @[t] \o FlattenSeq([k \in DOMAIN boxes[r] |->
                          IF boxes[r][k].tile = t THEN slice(k) ELSE <<>>])]]
    /\ boxes' = [boxes EXCEPT ![r] = <<>>]
    /\ got' = [got EXCEPT ![r] = [i \in Ranks |-> None]]
    /\ done' = [done EXCEPT ![r] = @ + 1]
    /\ Goto(r, "idle")
    /\ UNCHANGED <<program, tag, bufferMap, copies, net, posted, numRcvs, window, fences>>

\* MPI: the first message of a source with the tag of a receive that is posted.
Deliver(s, r) ==
    \E k \in DOMAIN net[s][r] :
        LET m == net[s][r][k] IN
        /\ m.tag = posted[r].tag
        /\ \A j \in 1 .. k - 1 : net[s][r][j].tag # m.tag
        /\ \/ /\ s \in posted[r].from
              /\ posted' = [posted EXCEPT ![r].from = @ \ {s}]
           \/ /\ posted[r].any > 0
              /\ posted' = [posted EXCEPT ![r].any = @ - 1]
        /\ got' = [got EXCEPT ![r][s] = m]
        /\ net' = [net EXCEPT ![s][r] = RemoveAt(@, k)]
        /\ UNCHANGED <<program, done, pc, tag, bufferMap, tiles, copies, boxes, numRcvs, window, fences>>

Step(r) ==
    \/ Partition(r)
    \/ DoHandShakeLocal(r)
    \/ Connect(r)
    \/ ClearWindow(r) \/ PutCounts(r) \/ ReadWindow(r)
    \/ ExchangeBoxes(r) \/ ExchangeParticles(r) \/ UnpackRemotes(r)

Next ==
    \/ \E r \in Ranks : Step(r)
    \/ ReduceScatter
    \/ \E s, r \in Ranks : Deliver(s, r)

Spec ==
    /\ Init /\ [][Next]_vars
    /\ \A r \in Ranks : WF_vars(SendsTaken(r) /\ Step(r))
    /\ WF_vars(ReduceScatter)
    /\ \A s, r \in Ranks : WF_vars(Deliver(s, r))

-----------------------------------------------------------------------------

Places ==
    {"idle", "local", "reduce", "connect", "window", "put", "read", "counts", "boxes", "particles"}

\* Every rank's plan, buffers and requests are what they should be; tags keep
\* their range, and nothing but particles is ever unpacked into a tile.
TypeOK ==
    /\ program \in Programs
    /\ done \in [Ranks -> Nat]
    /\ pc \in [Ranks -> Places]
    /\ tag \in [Ranks -> Tags]
    /\ bufferMap \in [Ranks -> Owners \cup {<<>>}]
    /\ tiles \in [Ranks -> [Tiles -> Seq(Particles)]]
    /\ copies \in [Ranks -> [Tiles -> Seq(Particles)]]
    /\ boxes \in [Ranks -> Boxes]
    /\ net \in [Ranks -> [Ranks -> Seq(Messages)]]
    /\ posted \in [Ranks -> Receives]
    /\ got \in [Ranks -> [Ranks -> Messages \cup {None}]]
    /\ numRcvs \in [Ranks -> Nat]
    /\ window \in [Ranks -> [Ranks -> Nat]]
    /\ fences \in [Ranks -> Nat]

Occurrences(x, s) == {k \in DOMAIN s : s[k] = x}

OnTheWay(r, i) == FlattenSeq([k \in DOMAIN net[r][i] |-> net[r][i][k].data])

\* Where a particle's record is: in a tile, about to be packed, on its way, or received.
Records(x) ==
    LET inTiles == UNION {{<<r, t, k>> : k \in Occurrences(x, tiles[r][t])} : <<r, t>> \in Ranks \X Tiles}
        toPack == UNION {{<<r, t, k>> : k \in Occurrences(x, copies[r][t])} : <<r, t>> \in Ranks \X Tiles}
        sent == UNION {{<<r, i, k>> : k \in Occurrences(x, OnTheWay(r, i))} : <<r, i>> \in Ranks \X Ranks}
        received == UNION {{<<r, i, k>> : k \in Occurrences(x, got[r][i].data)} :
                              <<r, i>> \in {ri \in Ranks \X Ranks : got[ri[1]][ri[2]] # None}}
    IN  ({"tile"} \X inTiles) \cup ({"copy"} \X toPack) \cup ({"net"} \X sent) \cup ({"got"} \X received)

\* Some rank has begun a call in which the particle is outside the domain.
Leaves(x) ==
    \E r \in Ranks :
        program.path[x][done[r] + IF pc[r] = "idle" THEN 1 ELSE 2] = Outside

\* No particle is lost or doubled, whatever the ranks and the messages do when: it
\* has exactly one record until it is removed for having left the domain.
Conserved ==
    \A x \in Particles :
        Cardinality(Records(x)) = 1 \/ (Cardinality(Records(x)) = 0 /\ Leaves(x))

\* When a rank returns from a call every particle it holds is in the tile in which it
\* is at that call, and the tile is one of the rank's: the assertion that ends the
\* function, for the owner of the tile as well as for its cells.
Placed ==
    \A r \in Ranks : (pc[r] = "idle" /\ done[r] > 0) =>
        \A t \in Tiles : \A x \in Range(tiles[r][t]) :
            program.path[x][done[r] + 1] = t /\ program.calls[done[r]].owner[t] = r

\* Every rank returns from all its calls and no message is left behind.
Ended ==
    /\ \A r \in Ranks : pc[r] = "idle" /\ done[r] = Len(program.calls)
    /\ \A r, i \in Ranks : net[r][i] = <<>>

AllDone == <>Ended
=============================================================================

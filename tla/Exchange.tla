------------------------------ MODULE Exchange ------------------------------
(***************************************************************************)
(* Exchanges of ghost cells and parallel copies on the ranks of a program, *)
(* with the stack of communicator frames that gives them their tags        *)
(* (Src/Base/AMReX_FabArrayCommI.H, AMReX_ParallelContext, AMReX_ForkJoin, *)
(* MLMG::actualBottomSolve).                                               *)
(*                                                                         *)
(* All ranks of a frame make the same calls, each at its own pace: program *)
(* is, for each communicator, the calls made while its frame is on top.    *)
(* Messages are identified by the call they belong to and the pass of that *)
(* call, not by what they carry.  MPI (external) matches the i-th message  *)
(* sent from one rank to another with a tag on a communicator to the i-th  *)
(* receive posted for it; nothing here receives from any rank or any tag.  *)
(*                                                                         *)
(* A communicator made of another has a larger number.  One that several   *)
(* calls push is MLMG's bottom communicator; one that a single call pushes *)
(* is that of a ForkJoin's task, made by the collective before.            *)
(***************************************************************************)
EXTENDS Integers, Sequences

CONSTANTS Ranks, Arrays, Comms, World, Members, MinTag, MaxTag, Programs, NoData

VARIABLES
    program,  \* the calls of each communicator's frame
    stack,    \* ParallelContext::frames of each rank
    data,     \* fbd or pcd of each rank's part of each array
    sent,     \* messages sent, in order, by channel
    posted,   \* receives posted, in order, by channel
    made      \* history: place and tag of the frame at each call on a communicator

vars == <<program, stack, data, sent, posted, made>>

Tags == MinTag .. MaxTag

\* FillBoundary_nowait is an exchange of one pass, ParallelCopy_nowait one of as
\* many as its components need.  A pair <<r, r>> is local work of r.
Calls ==
    [op : {"nowait"}, array : Arrays, pairs : SUBSET (Ranks \X Ranks), passes : Nat \ {0}]
        \cup [op : {"finish"}, array : Arrays]
        \cup [op : {"push"}, comms : SUBSET Comms]
        \cup [op : {"collective"}]

Channels ==
    {ch \in [comm : Comms, from : Ranks, to : Ranks, tag : Tags] :
        ch.from # ch.to /\ ch.from \in Members[ch.comm] /\ ch.to \in Members[ch.comm]}

Frames == [comm : Comms, pos : Nat, tag : Tags]
InFlight == [comm : Comms, call : Nat, pairs : SUBSET (Ranks \X Ranks),
             passes : Nat, tag : Tags, pass : Nat]

ExchangeAssumption ==
    /\ Comms \subseteq Nat
    /\ World \in Comms
    /\ Members \in [Comms -> SUBSET Ranks]
    /\ MinTag \in Int /\ MaxTag \in Int /\ MinTag <= MaxTag
    /\ NoData \notin InFlight
    /\ \A p \in Programs :
           /\ p \in [Comms -> Seq(Calls)]
           /\ \A c \in Comms : \A i \in DOMAIN p[c] :
                  p[c][i].op = "push" => \A k \in p[c][i].comms : k > c

ASSUME ExchangeAssumption

-----------------------------------------------------------------------------

Top(r) == stack[r][Len(stack[r])]

\* NProcsSub() == 1
Alone(c) == \E r \in Ranks : Members[c] = {r}

\* A call that waits in the middle: a copy of several passes before its last
\* one, a collective that some rank of the frame has not reached.
Copying(r) == \E a \in Arrays : data[r][a] # NoData /\ data[r][a].pass < data[r][a].passes

Collecting(r) ==
    LET f == Top(r) IN
    /\ f.pos > 0
    /\ program[f.comm][f.pos].op = "collective"
    /\ \E m \in Members[f.comm] : Len(made[m][f.comm]) < Len(made[r][f.comm])

Idle(r) == stack[r] # <<>> /\ ~Copying(r) /\ ~Collecting(r)

AtCall(r, op) ==
    /\ Idle(r)
    /\ Top(r).pos < Len(program[Top(r).comm])
    /\ program[Top(r).comm][Top(r).pos + 1].op = op

NextCall(r) == program[Top(r).comm][Top(r).pos + 1]

Returned(r, tag) ==
    [stack EXCEPT ![r][Len(stack[r])] = [comm |-> Top(r).comm, pos |-> Top(r).pos + 1, tag |-> tag]]

Log(r) ==
    made' = [made EXCEPT ![r][Top(r).comm] =
                 Append(@, [pos |-> Top(r).pos + 1, tag |-> Top(r).tag])]

\* Mutant: the tag goes past the largest one before it wraps around.
get_inc_mpi_tag_Past(tag) == IF tag <= MaxTag THEN tag + 1 ELSE MinTag

get_inc_mpi_tag(tag) == IF tag < MaxTag THEN tag + 1 ELSE MinTag

\* The channels a rank receives from and sends to in an exchange.
RcvTags(r, d) ==
    {ch \in Channels : ch.comm = d.comm /\ ch.tag = d.tag /\ ch.to = r /\ <<ch.from, r>> \in d.pairs}

SndTags(r, d) ==
    {ch \in Channels : ch.comm = d.comm /\ ch.tag = d.tag /\ ch.from = r /\ <<r, ch.to>> \in d.pairs}

PostRcvs(r, d) ==
    posted' = [ch \in Channels |->
        IF ch \in RcvTags(r, d) THEN Append(posted[ch], <<d.call, d.pass>>) ELSE posted[ch]]

PostSnds(r, d) ==
    sent' = [ch \in Channels |->
        IF ch \in SndTags(r, d) THEN Append(sent[ch], <<d.call, d.pass>>) ELSE sent[ch]]

Concerns(r, pairs) == \E x \in Ranks : <<r, x>> \in pairs \/ <<x, r>> \in pairs

\* The two Waitalls: the messages for a pass are here, those it sent are taken.
Met(ch) == DOMAIN sent[ch] \cap DOMAIN posted[ch]

Received(r, d) ==
    \A ch \in RcvTags(r, d) : \E i \in Met(ch) : posted[ch][i] = <<d.call, d.pass>>

Taken(r, d) ==
    \A ch \in SndTags(r, d) : \E i \in Met(ch) : sent[ch][i] = <<d.call, d.pass>>

-----------------------------------------------------------------------------

Init ==
    /\ program \in Programs
    /\ stack = [r \in Ranks |-> <<[comm |-> World, pos |-> 0, tag |-> MinTag]>>]
    /\ data = [r \in Ranks |-> [a \in Arrays |-> NoData]]
    /\ sent = [ch \in Channels |-> <<>>]
    /\ posted = [ch \in Channels |-> <<>>]
    /\ made = [r \in Ranks |-> [c \in Comms |-> <<>>]]

\* With one rank in the frame there is local work only, and no tag is drawn.
NowaitAlone(r) ==
    /\ AtCall(r, "nowait")
    /\ Alone(Top(r).comm)
    /\ stack' = Returned(r, Top(r).tag)
    /\ Log(r)
    /\ UNCHANGED <<program, data, sent, posted>>

\* Mutant: a rank with nothing to do returns before it draws a tag.
NowaitNothingEarly(r) ==
    /\ AtCall(r, "nowait")
    /\ ~Alone(Top(r).comm)
    /\ ~Concerns(r, NextCall(r).pairs)
    /\ stack' = Returned(r, Top(r).tag)
    /\ Log(r)
    /\ UNCHANGED <<program, data, sent, posted>>

\* The tag is drawn before the early return of a rank with nothing to do.
NowaitNothing(r) ==
    /\ AtCall(r, "nowait")
    /\ ~Alone(Top(r).comm)
    /\ ~Concerns(r, NextCall(r).pairs)
    /\ stack' = Returned(r, get_inc_mpi_tag(Top(r).tag))
    /\ Log(r)
    /\ UNCHANGED <<program, data, sent, posted>>

\* The guard on data is the assertion that no exchange of the array is in flight.
Nowait(r) ==
    /\ AtCall(r, "nowait")
    /\ ~Alone(Top(r).comm)
    /\ Concerns(r, NextCall(r).pairs)
    /\ LET c == NextCall(r)
           d == [comm |-> Top(r).comm, call |-> Len(made[r][Top(r).comm]) + 1, pairs |-> c.pairs,
                 passes |-> c.passes, tag |-> Top(r).tag, pass |-> 1]
       IN  /\ data[r][c.array] = NoData
           /\ data' = [data EXCEPT ![r][c.array] = d]
           /\ PostRcvs(r, d)
           /\ PostSnds(r, d)
    /\ stack' = Returned(r, get_inc_mpi_tag(Top(r).tag))
    /\ Log(r)
    /\ UNCHANGED program

\* ParallelCopy_finish between two passes, and the messages of the next one.
NextPass(r, a) ==
    /\ data[r][a] # NoData
    /\ data[r][a].pass < data[r][a].passes
    /\ Received(r, data[r][a])
    /\ LET d == [data[r][a] EXCEPT !.pass = @ + 1]
       IN  /\ data' = [data EXCEPT ![r][a] = d]
           /\ PostRcvs(r, d)
           /\ PostSnds(r, d)
    /\ UNCHANGED <<program, stack, made>>

\* FillBoundary_finish and ParallelCopy_finish, in whatever frame is on top.
Finish(r) ==
    /\ AtCall(r, "finish")
    /\ LET a == NextCall(r).array
       IN  /\ data[r][a] # NoData => Received(r, data[r][a])
           /\ data' = [data EXCEPT ![r][a] = NoData]
    /\ stack' = Returned(r, Top(r).tag)
    /\ Log(r)
    /\ UNCHANGED <<program, sent, posted>>

\* push, on the ranks of a task or of the bottom solve; other ranks go on.
Push(r) ==
    /\ AtCall(r, "push")
    /\ \/ \E c \in NextCall(r).comms :
              /\ r \in Members[c]
              /\ stack' = [stack EXCEPT ![r] =
                     Append(Returned(r, Top(r).tag)[r], [comm |-> c, pos |-> 0, tag |-> MinTag])]
       \/ /\ \A c \in NextCall(r).comms : r \notin Members[c]
          /\ stack' = Returned(r, Top(r).tag)
    /\ Log(r)
    /\ UNCHANGED <<program, data, sent, posted>>

\* MPI_Comm_split and the reductions: Idle holds the rank until all are there.
Collective(r) ==
    /\ AtCall(r, "collective")
    /\ stack' = Returned(r, Top(r).tag)
    /\ Log(r)
    /\ UNCHANGED <<program, data, sent, posted>>

\* Mutant: one tag counter for the program, which a frame hands back when it ends.
PopKeepTag(r) ==
    /\ Idle(r)
    /\ Top(r).pos = Len(program[Top(r).comm])
    /\ stack' = [stack EXCEPT ![r] =
           IF Len(@) = 1 THEN <<>>
           ELSE [SubSeq(@, 1, Len(@) - 1) EXCEPT ![Len(@) - 1].tag = Top(r).tag]]
    /\ UNCHANGED <<program, data, sent, posted, made>>

Pop(r) ==
    /\ Idle(r)
    /\ Top(r).pos = Len(program[Top(r).comm])
    /\ stack' = [stack EXCEPT ![r] = SubSeq(@, 1, Len(@) - 1)]
    /\ UNCHANGED <<program, data, sent, posted, made>>

Ended == \A r \in Ranks : stack[r] = <<>>

Step(r) ==
    \/ NowaitAlone(r) \/ NowaitNothing(r) \/ Nowait(r)
    \/ \E a \in Arrays : NextPass(r, a)
    \/ Finish(r) \/ Push(r) \/ Collective(r) \/ Pop(r)

Next == \E r \in Ranks : Step(r)

\* A wait for sends may end at once or only when the receives have been posted:
\* MPI buffers what it likes.  Progress is owed only to the latter.
Awaits(r, a) ==
    /\ data[r][a] # NoData
    /\ \/ data[r][a].pass < data[r][a].passes
       \/ AtCall(r, "finish") /\ NextCall(r).array = a

SendsTaken(r) == \A a \in Arrays : Awaits(r, a) => Taken(r, data[r][a])

Spec == Init /\ [][Next]_vars /\ \A r \in Ranks : WF_vars(SendsTaken(r) /\ Step(r))

-----------------------------------------------------------------------------

\* Frames, requests and channels are what they should be; in particular a tag
\* stays in the range MPI allows however many exchanges a frame has seen.
TypeOK ==
    /\ program \in Programs
    /\ stack \in [Ranks -> Seq(Frames)]
    /\ data \in [Ranks -> [Arrays -> InFlight \cup {NoData}]]
    /\ sent \in [Channels -> Seq(Nat \X Nat)]
    /\ posted \in [Channels -> Seq(Nat \X Nat)]
    /\ made \in [Ranks -> [Comms -> Seq([pos : Nat, tag : Tags])]]

\* The message that MPI gives to a receive was sent in the same call and the
\* same pass of it: nothing is unpacked into another exchange of the same or
\* of another array, although tags wrap around, ranks without work take no part,
\* ranks outside a bottom solve skip its calls and ranks run ahead.
RightData == \A ch \in Channels : \A i \in Met(ch) : sent[ch][i] = posted[ch][i]

\* Every rank gets through its calls: nobody waits for a message with a tag
\* nobody uses, or for a send nobody receives.
AllDone == <>Ended
=============================================================================

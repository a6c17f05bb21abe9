----------------------------- MODULE NFilesIter -----------------------------
(***************************************************************************)
(* amrex::NFilesIter (Src/Base/AMReX_NFiles.cpp): all ranks write to a few *)
(* files, one rank at a time to a file.  With static set selection a rank  *)
(* hands its file on to a fixed successor; with dynamic set selection the  *)
(* first rank to finish becomes the coordinator, and sends the other ranks *)
(* to whatever file is free; with sparse writes a rank has a file of its   *)
(* own.  One iterator is modelled, from its constructor to its destructor, *)
(* on every rank.                                                          *)
(*                                                                         *)
(* A message is identified by its tag, sender and receiver; each pair of   *)
(* ranks uses a tag once.  MPI_Send is taken to return at once: these      *)
(* messages are single integers, which the MPI library buffers.            *)
(***************************************************************************)
EXTENDS Integers, FiniteSets, SequencesExt

CONSTANTS
    NProcs,     \* the number of ranks
    Old         \* what the files hold before: an earlier run's data

ASSUME NProcsAssumption == NProcs \in Nat \ {0}

Ranks == 0 .. NProcs - 1
IOProcessorNumber == 0

ASSUME OldAssumption == Old \notin Ranks

VARIABLES
    conf,               \* the arguments of the iterator, see Configurations
    pc,                 \* where a rank is
    msgs,               \* the messages in transit: [tag, src, dst, val]
    files,              \* the contents of a file: the ranks in the order they wrote
    fileNumber,         \* the file a rank has open, or had
    coordinatorProc,
    fileNumbersWriteOrder,  \* on the coordinator
    procsToWrite,           \* locals of the coordinator: the ranks still to write,
    availableFileNumbers,   \* the files nobody has open
    remainingWriters,
    unreadMessages      \* messages a rank has to receive in its destructor

nfivars == <<conf, pc, msgs, files, fileNumber, coordinatorProc, fileNumbersWriteOrder,
             procsToWrite, availableFileNumbers, remainingWriters, unreadMessages>>

coordinating == <<fileNumbersWriteOrder, procsToWrite, availableFileNumbers, remainingWriters>>

-----------------------------------------------------------------------------
(***************************************************************************)
(* Sets and files                                                          *)
(***************************************************************************)
LengthOfSet(n) == (NProcs + n - 1) \div n

WhichSetPosition(r) ==
    IF conf.groupSets THEN r \div conf.nOutFiles ELSE r % LengthOfSet(conf.nOutFiles)

FileNumber(r) ==
    IF conf.groupSets THEN r % conf.nOutFiles ELSE r \div LengthOfSet(conf.nOutFiles)

\* Mutant: the next rank, also when the sets are grouped.
SuccessorUngrouped(r) == r + 1

\* The rank that may write to r's file after r, with static set selection.
Successor(r) == IF conf.groupSets THEN r + conf.nOutFiles ELSE r + 1

SetZeroProcs == {r \in Ranks : WhichSetPosition(r) = 0}
AvailableDeciders == Ranks \ SetZeroProcs

FileNumbers == 0 .. NProcs - 1

\* The ranks of S in ascending order: before the i-th there are i - 1.  (SortSeq, of which
\* SetToSortSeq is made, has no definition a proof could use.)
Ascending(S) ==
    [i \in 1..Cardinality(S) |-> CHOOSE r \in S : Cardinality({q \in S : q < r}) = i - 1]

\* The ranks in the order of their turns, with static set selection.
StaticOrder == [f \in FileNumbers |-> Ascending({r \in Ranks : FileNumber(r) = f})]
NoOrder == [f \in FileNumbers |-> <<>>]

\* SetSparseFPP: the ranks that write, each to the file of its own number.
SparseOrder(S) ==
    [f \in FileNumbers |-> IF f < Cardinality(S) THEN <<Ascending(S)[f + 1]>> ELSE <<>>]

-----------------------------------------------------------------------------
(***************************************************************************)
(* Messages and files                                                      *)
(***************************************************************************)
Message(tag, src, dst, val) == [tag |-> tag, src |-> src, dst |-> dst, val |-> val]
Incoming(r, tag) == {m \in msgs : m.dst = r /\ m.tag = tag}

At(r, label) == pc[r] = label
Goto(r, label) == pc' = [pc EXCEPT ![r] = label]

OpenTruncated(r, f) ==
    /\ files' = [files EXCEPT ![f] = <<>>]
    /\ fileNumber' = [fileNumber EXCEPT ![r] = f]
    /\ Goto(r, "writing")

OpenAppending(r, f) ==
    /\ files' = files
    /\ fileNumber' = [fileNumber EXCEPT ![r] = f]
    /\ Goto(r, "writing")

\* The user's loop body: the rank's data go to the end of the file.
Write(r) ==
    /\ At(r, "writing")
    /\ files' = [files EXCEPT ![fileNumber[r]] = Append(@, r)]
    /\ Goto(r, "written")
    /\ UNCHANGED <<conf, msgs, fileNumber, coordinatorProc, coordinating, unreadMessages>>

-----------------------------------------------------------------------------
(***************************************************************************)
(* Static set selection and sparse writes                                  *)
(***************************************************************************)
\* ReadyToWrite: wait for the predecessor, unless first in the file.
StaticReady(r) ==
    /\ conf.mode = "static"
    /\ At(r, "start")
    /\ \/ /\ WhichSetPosition(r) = 0
          /\ OpenTruncated(r, FileNumber(r))
          /\ UNCHANGED msgs
       \/ /\ WhichSetPosition(r) > 0
          /\ \E m \in Incoming(r, "stWrite") : msgs' = msgs \ {m}
          /\ OpenAppending(r, FileNumber(r))
    /\ UNCHANGED <<conf, coordinatorProc, coordinating, unreadMessages>>

\* operator++: hand the file on.
StaticNext(r) ==
    /\ conf.mode = "static"
    /\ At(r, "written")
    /\ msgs' = msgs \cup
         IF Successor(r) < NProcs /\ WhichSetPosition(Successor(r)) > WhichSetPosition(r)
         THEN {Message("stWrite", r, Successor(r), 0)}
         ELSE {}
    /\ Goto(r, "done")
    /\ UNCHANGED <<conf, files, fileNumber, coordinatorProc, coordinating, unreadMessages>>

SparseReady(r) ==
    /\ conf.mode = "sparse"
    /\ At(r, "start")
    /\ IF r \in conf.data
       THEN OpenTruncated(r, r)
       ELSE Goto(r, "done") /\ UNCHANGED <<files, fileNumber>>
    /\ UNCHANGED <<conf, msgs, coordinatorProc, coordinating, unreadMessages>>

SparseNext(r) ==
    /\ conf.mode = "sparse"
    /\ At(r, "written")
    /\ Goto(r, "done")
    /\ UNCHANGED <<conf, msgs, files, fileNumber, coordinatorProc, coordinating, unreadMessages>>

-----------------------------------------------------------------------------
(***************************************************************************)
(* Dynamic set selection                                                   *)
(***************************************************************************)
OpenSetZero(r) ==
    /\ conf.mode = "dynamic"
    /\ At(r, "start")
    /\ WhichSetPosition(r) = 0
    /\ OpenTruncated(r, FileNumber(r))
    /\ UNCHANGED <<conf, msgs, coordinatorProc, coordinating, unreadMessages>>

\* The first rank that tells the decider it has written becomes the coordinator; the
\* other messages of this kind are left for the destructor.
Decide(r) ==
    /\ conf.mode = "dynamic"
    /\ At(r, "start")
    /\ r = conf.deciderProc
    /\ \E m \in Incoming(r, "decider") :
          /\ coordinatorProc' = [coordinatorProc EXCEPT ![r] = m.val]
          /\ msgs' = (msgs \ {m}) \cup
                        {Message("coordinator", r, q, m.val) : q \in SetZeroProcs}
    /\ unreadMessages' =
          [unreadMessages EXCEPT ![r] = [tag |-> "decider", n |-> Cardinality(SetZeroProcs) - 1]]
    /\ Goto(r, "signal")
    /\ UNCHANGED <<conf, files, fileNumber, coordinating>>

\* A rank that is not in set zero waits for the coordinator to give it a file.
WaitForSignal(r) ==
    /\ conf.mode = "dynamic"
    /\ \/ At(r, "start") /\ WhichSetPosition(r) > 0 /\ r # conf.deciderProc
       \/ At(r, "signal")
    /\ \E m \in Incoming(r, "write") :
          /\ msgs' = msgs \ {m}
          /\ coordinatorProc' = [coordinatorProc EXCEPT ![r] = m.src]
          /\ OpenAppending(r, m.val)
    /\ UNCHANGED <<conf, coordinating, unreadMessages>>

\* operator++ of a rank in set zero: tell the decider, and wait for its answer.
TellDecider(r) ==
    /\ conf.mode = "dynamic"
    /\ At(r, "written")
    /\ WhichSetPosition(r) = 0
    /\ msgs' = msgs \cup {Message("decider", r, conf.deciderProc, r)}
    /\ Goto(r, "elect")
    /\ UNCHANGED <<conf, files, fileNumber, coordinatorProc, coordinating, unreadMessages>>

BecomeCoordinator(r) ==
    /\ fileNumbersWriteOrder' = [f \in FileNumbers |->
                                   Ascending({q \in SetZeroProcs : FileNumber(q) = f})]
    /\ procsToWrite' = [f \in FileNumbers |->
                          Ascending({q \in AvailableDeciders : FileNumber(q) = f})]
    /\ availableFileNumbers' = {fileNumber[r]}
    /\ remainingWriters' = NProcs - Cardinality(SetZeroProcs)
    /\ Goto(r, "coordinate")

LearnCoordinator(r) ==
    /\ At(r, "elect")
    /\ \E m \in Incoming(r, "coordinator") :
          /\ coordinatorProc' = [coordinatorProc EXCEPT ![r] = m.val]
          /\ IF m.val = r
             THEN msgs' = msgs \ {m} /\ BecomeCoordinator(r)
             ELSE /\ msgs' = (msgs \ {m}) \cup {Message("done", r, m.val, fileNumber[r])}
                  /\ Goto(r, "done")
                  /\ UNCHANGED coordinating
    /\ UNCHANGED <<conf, files, fileNumber, unreadMessages>>

\* The queue the next rank is taken from: that of file f, or of the next file in
\* cyclic order that has ranks left.
NextQueue(f) ==
    LET Queue(k) == (f + k) % conf.nOutFiles
        left == {k \in 0 .. conf.nOutFiles - 1 : procsToWrite[Queue(k)] # <<>>}
    IN  Queue(Min(left))

\* Mutant: the file is noted down under the number of the queue.
AssignQueueFile(r, f) ==
    LET q == NextQueue(f)
        next == Head(procsToWrite[q])
    IN  /\ procsToWrite' = [procsToWrite EXCEPT ![q] = Tail(@)]
        /\ fileNumbersWriteOrder' = [fileNumbersWriteOrder EXCEPT ![q] = Append(@, next)]
        /\ msgs' = msgs \cup {Message("write", r, next, f)}

\* The rank at the head of the queue is sent to file f.
Assign(r, f) ==
    LET q == NextQueue(f)
        next == Head(procsToWrite[q])
    IN  /\ procsToWrite' = [procsToWrite EXCEPT ![q] = Tail(@)]
        /\ fileNumbersWriteOrder' = [fileNumbersWriteOrder EXCEPT ![f] = Append(@, next)]
        /\ msgs' = msgs \cup {Message("write", r, next, f)}

\* Mutant: the file stays in the list of free files.
SignalKeepsFile(r) ==
    /\ At(r, "coordinate")
    /\ remainingWriters > 0
    /\ LET f == Min(availableFileNumbers)
       IN  /\ availableFileNumbers' = availableFileNumbers
           /\ IF \A q \in FileNumbers : procsToWrite[q] = <<>>
              THEN /\ remainingWriters' = remainingWriters - 1
                   /\ UNCHANGED <<pc, msgs, procsToWrite, fileNumbersWriteOrder>>
              ELSE Assign(r, f) /\ Goto(r, "await") /\ UNCHANGED remainingWriters
    /\ UNCHANGED <<conf, files, fileNumber, coordinatorProc, unreadMessages>>

\* The coordinator gives the lowest file that is free to a rank that has not written.
Signal(r) ==
    /\ At(r, "coordinate")
    /\ remainingWriters > 0
    /\ LET f == Min(availableFileNumbers)
       IN  /\ availableFileNumbers' = availableFileNumbers \ {f}
           /\ IF \A q \in FileNumbers : procsToWrite[q] = <<>>
              THEN /\ remainingWriters' = remainingWriters - 1
                   /\ UNCHANGED <<pc, msgs, procsToWrite, fileNumbersWriteOrder>>
              ELSE Assign(r, f) /\ Goto(r, "await") /\ UNCHANGED remainingWriters
    /\ UNCHANGED <<conf, files, fileNumber, coordinatorProc, unreadMessages>>

\* Then it waits until some rank, of set zero or not, has done with its file.
AwaitDone(r) ==
    /\ At(r, "await")
    /\ \E m \in Incoming(r, "done") :
          /\ msgs' = msgs \ {m}
          /\ availableFileNumbers' = availableFileNumbers \cup {m.val}
    /\ remainingWriters' = remainingWriters - 1
    /\ Goto(r, "coordinate")
    /\ UNCHANGED <<conf, files, fileNumber, coordinatorProc, fileNumbersWriteOrder,
                   procsToWrite, unreadMessages>>

\* Mutant: what set zero has sent is forgotten.
CoordinatedForgets(r) ==
    /\ At(r, "coordinate")
    /\ remainingWriters = 0
    /\ Goto(r, "done")
    /\ UNCHANGED <<conf, msgs, files, fileNumber, coordinatorProc, coordinating, unreadMessages>>

Coordinated(r) ==
    /\ At(r, "coordinate")
    /\ remainingWriters = 0
    /\ unreadMessages' =
          [unreadMessages EXCEPT ![r] = [tag |-> "done", n |-> Cardinality(SetZeroProcs) - 1]]
    /\ Goto(r, "done")
    /\ UNCHANGED <<conf, msgs, files, fileNumber, coordinatorProc, coordinating>>

\* operator++ of the other ranks.
DynamicNext(r) ==
    /\ conf.mode = "dynamic"
    /\ At(r, "written")
    /\ WhichSetPosition(r) > 0
    /\ msgs' = msgs \cup {Message("done", r, coordinatorProc[r], fileNumber[r])}
    /\ Goto(r, "done")
    /\ UNCHANGED <<conf, files, fileNumber, coordinatorProc, coordinating, unreadMessages>>

\* The destructor receives one of the messages nobody has read.
CleanUpMessages(r) ==
    /\ At(r, "cleanup")
    /\ unreadMessages[r].n > 0
    /\ \E m \in Incoming(r, unreadMessages[r].tag) : msgs' = msgs \ {m}
    /\ unreadMessages' = [unreadMessages EXCEPT ![r].n = @ - 1]
    /\ UNCHANGED <<conf, pc, files, fileNumber, coordinatorProc, coordinating>>

Destroyed(r) ==
    /\ At(r, "cleanup")
    /\ unreadMessages[r].n = 0
    /\ Goto(r, "gone")
    /\ UNCHANGED <<conf, msgs, files, fileNumber, coordinatorProc, coordinating, unreadMessages>>

-----------------------------------------------------------------------------
\* SetDynamic falls back on static selection when every rank has a file.
Configurations ==
    {c \in [nOutFiles : 1..NProcs, groupSets : BOOLEAN, data : SUBSET Ranks,
            mode : {"static", "dynamic", "sparse"}, deciderProc : Ranks \cup {-1}] :
        /\ c.mode = "sparse" => Cardinality(c.data) \in 1..c.nOutFiles
        /\ c.mode = "dynamic" <=> c.deciderProc # -1
        /\ c.mode = "dynamic" => c.nOutFiles < NProcs}

NFilesInit(c) ==
    /\ conf = c
    /\ c.mode = "dynamic" => c.deciderProc \in AvailableDeciders
    /\ pc = [r \in Ranks |-> "start"]
    /\ msgs = {}
    /\ files = [f \in FileNumbers |-> <<Old>>]
    /\ fileNumber = [r \in Ranks |-> FileNumber(r)]
    /\ coordinatorProc = [r \in Ranks |-> IOProcessorNumber]
    /\ fileNumbersWriteOrder =
          CASE c.mode = "static" -> StaticOrder
            [] c.mode = "sparse" -> SparseOrder(c.data)
            [] c.mode = "dynamic" -> NoOrder
    /\ procsToWrite = NoOrder
    /\ availableFileNumbers = {}
    /\ remainingWriters = 0
    /\ unreadMessages = [r \in Ranks |-> [tag |-> "none", n |-> 0]]

\* One step of the loop "for( ; nfi.ReadyToWrite(); ++nfi)" on rank r.
LoopStep(r) ==
    \/ StaticReady(r) \/ SparseReady(r) \/ OpenSetZero(r) \/ Decide(r) \/ WaitForSignal(r)
    \/ Write(r)
    \/ StaticNext(r) \/ SparseNext(r) \/ TellDecider(r) \/ LearnCoordinator(r)
    \/ Signal(r) \/ AwaitDone(r) \/ Coordinated(r) \/ DynamicNext(r)
=============================================================================

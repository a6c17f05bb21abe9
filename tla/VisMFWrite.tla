----------------------------- MODULE VisMFWrite -----------------------------
(***************************************************************************)
(* VisMF::Write (Src/Base/AMReX_VisMF.cpp): the fabs of all ranks go to a  *)
(* few files through NFilesIter, and one rank, the coordinator, writes a   *)
(* header that says in which file and at which offset every fab is.  The   *)
(* header is computed from the coordinator's record of the order of the    *)
(* writes, not from the files, and by default is written after a gather to *)
(* the coordinator of the extrema of the data.                             *)
(*                                                                         *)
(* The fabs of a rank, which are contiguous in its file, are one item.     *)
(* The text formats, whose offsets are gathered, are left out.             *)
(***************************************************************************)
EXTENDS NFilesIter

CONSTANT
    Layouts     \* the sets of ranks that may have data

ASSUME LayoutsAssumption == Layouts \subseteq (SUBSET Ranks) \ {{}}

VARIABLES
    minmax,     \* the header version has the extrema in it
    header      \* what the header says: the file and the offset of a rank's data

vars == <<nfivars, minmax, header>>

\* The length of a rank's data; those of an earlier run.
BytesOf(data, x) == IF x = Old THEN NProcs + 1 ELSE IF x \in data THEN x + 1 ELSE 0

Length(data, s) ==
    LET length[n \in 0 .. Len(s)] == IF n = 0 THEN 0 ELSE length[n - 1] + BytesOf(data, s[n])
    IN  length[Len(s)]

-----------------------------------------------------------------------------
(***************************************************************************)
(* FindOffsets                                                             *)
(***************************************************************************)
WrittenFile(r) ==
    CASE conf.mode = "static" -> FileNumber(r)
      [] conf.mode = "sparse" -> r
      [] conf.mode = "dynamic" ->
            CHOOSE f \in FileNumbers : r \in Range(fileNumbersWriteOrder[f])

\* What the first n ranks of a list add to currentOffset[f] ...
Within(f, s, n) ==
    LET added[k \in 0 .. n] ==
            IF k = 0 THEN 0
            ELSE added[k - 1] + IF WrittenFile(s[k]) = f THEN BytesOf(conf.data, s[k]) ELSE 0
    IN  added[n]

\* ... and what the first n lists of fileNumbersWriteOrder do.
Before(f, n) ==
    LET added[k \in 0 .. n] ==
            IF k = 0 THEN 0
            ELSE added[k - 1] + Within(f, fileNumbersWriteOrder[k - 1], Len(fileNumbersWriteOrder[k - 1]))
    IN  added[n]

\* currentOffset when the loops come to r.
Offset(r) ==
    LET l == CHOOSE g \in FileNumbers : r \in Range(fileNumbersWriteOrder[g])
        s == fileNumbersWriteOrder[l]
        i == CHOOSE k \in DOMAIN s : s[k] = r
    IN  Before(WrittenFile(r), l) + Within(WrittenFile(r), s, i - 1)

Listed(r) == \E f \in FileNumbers : r \in Range(fileNumbersWriteOrder[f])

FindOffsets ==
    [r \in {q \in conf.data : Listed(q)} |-> [file |-> WrittenFile(r), offset |-> Offset(r)]]

-----------------------------------------------------------------------------
(***************************************************************************)
(* Write                                                                   *)
(***************************************************************************)
\* The gather of CalculateMinMax, on a rank that is not its root.
Contribute(r) ==
    /\ At(r, "done")
    /\ r # coordinatorProc[r]
    /\ msgs' = msgs \cup IF minmax THEN {Message("gather", r, coordinatorProc[r], r)} ELSE {}
    /\ Goto(r, "cleanup")
    /\ UNCHANGED <<conf, files, fileNumber, coordinatorProc, coordinating, unreadMessages,
                   minmax, header>>

\* On the root, which then writes the header.
WriteHeader(r) ==
    /\ At(r, "done")
    /\ r = coordinatorProc[r]
    /\ minmax => {m.src : m \in Incoming(r, "gather")} = Ranks \ {r}
    /\ msgs' = msgs \ Incoming(r, "gather")
    /\ header' = FindOffsets
    /\ Goto(r, "cleanup")
    /\ UNCHANGED <<conf, files, fileNumber, coordinatorProc, coordinating, unreadMessages,
                   minmax>>

\* Sparse writes are chosen when fewer ranks have data than there are files.
Init ==
    /\ \E c \in Configurations :
          /\ c.data \in Layouts
          /\ c.mode = "sparse" => Cardinality(c.data) < c.nOutFiles
          /\ NFilesInit(c)
    /\ minmax \in BOOLEAN
    /\ header = [r \in {} |-> 0]

RankStep(r) ==
    \/ LoopStep(r) /\ UNCHANGED <<minmax, header>>
    \/ Contribute(r)
    \/ WriteHeader(r)
    \/ (CleanUpMessages(r) \/ Destroyed(r)) /\ UNCHANGED <<minmax, header>>

Next == \E r \in Ranks : RankStep(r)

Spec == Init /\ [][Next]_vars /\ \A r \in Ranks : WF_vars(RankStep(r))

-----------------------------------------------------------------------------
(***************************************************************************)
(* Properties                                                              *)
(***************************************************************************)
TypeOK ==
    /\ conf \in Configurations
    /\ pc \in [Ranks -> {"start", "signal", "writing", "written", "elect", "coordinate",
                         "await", "done", "cleanup", "gone"}]
    /\ files \in [FileNumbers -> Seq(Ranks \cup {Old})]
    /\ fileNumber \in [Ranks -> FileNumbers]
    /\ coordinatorProc \in [Ranks -> Ranks]
    /\ availableFileNumbers \subseteq FileNumbers
    /\ remainingWriters \in 0..Cardinality(AvailableDeciders)
    /\ \A m \in msgs :
          /\ m.src \in Ranks
          /\ m.tag \in {"write", "done"} => m.val \in FileNumbers
          /\ m.tag \in {"decider", "coordinator"} => m.val \in Ranks
    /\ unreadMessages \in [Ranks -> [tag : {"none", "decider", "done"}, n : 0..NProcs]]

\* Two ranks never have one file open, although nobody but the coordinator knows who
\* writes to what.
OneWriter ==
    \A r, q \in Ranks : (r # q /\ At(r, "writing") /\ At(q, "writing")) =>
        fileNumber[r] # fileNumber[q]

\* How OneWriter comes about: a file has one owner at a time.  It is a rank, from before
\* it opens the file to when it hands it on, ...
Has(r, f) ==
    /\ f = fileNumber[r]
    /\ \/ pc[r] \in {"writing", "written", "elect"}
       \/ At(r, "start") /\ conf.mode # "sparse" /\ WhichSetPosition(r) = 0

\* ... a message that hands it on, ...
Carries(m, f) ==
    \/ m.tag = "stWrite" /\ f = FileNumber(m.dst)
    \/ m.tag \in {"write", "done"} /\ f = m.val

\* ... or the coordinator's list of free files.
OneOwner ==
    \A f \in FileNumbers :
        /\ \A r, q \in Ranks : Has(r, f) /\ Has(q, f) => r = q
        /\ \A m, k \in msgs : Carries(m, f) /\ Carries(k, f) => m = k
        /\ \A r \in Ranks, m \in msgs : ~(Has(r, f) /\ Carries(m, f))
        /\ f \in availableFileNumbers =>
              (\A r \in Ranks : ~Has(r, f)) /\ (\A m \in msgs : ~Carries(m, f))

\* Which file a rank has to open, and what each mode never does.
ModesKept ==
    /\ \A r \in Ranks :
          /\ conf.mode = "static" \/ At(r, "start") => fileNumber[r] = FileNumber(r)
          /\ conf.mode = "sparse" /\ pc[r] \in {"writing", "written"} => fileNumber[r] = r
          /\ pc[r] \in {"signal", "elect", "coordinate", "await"} => conf.mode = "dynamic"
          /\ At(r, "elect") => WhichSetPosition(r) = 0
    /\ conf.mode = "sparse" =>
          availableFileNumbers = {} /\ \A m \in msgs : m.tag = "gather"
    /\ conf.mode = "dynamic" => conf.deciderProc \in AvailableDeciders

\* There is one coordinator, the one its decider names, and whenever it looks for a free
\* file for somebody there is one.
OneCoordinator ==
    LET Chosen(r) ==
            /\ conf.mode = "dynamic"
            /\ pc[conf.deciderProc] # "start"
            /\ r = coordinatorProc[conf.deciderProc]
    IN  /\ \A m \in msgs : /\ m.tag = "coordinator" => Chosen(m.val)
                           /\ m.tag = "write" => Chosen(m.src)
        /\ \A r \in Ranks :
              /\ pc[r] \in {"coordinate", "await"} => Chosen(r)
              /\ At(r, "coordinate") =>
                    \/ availableFileNumbers # {}
                    \/ \A q \in FileNumbers : procsToWrite[q] = <<>>
              /\ At(r, "await") => remainingWriters > 0

WriterIInv == TypeOK /\ ModesKept /\ OneCoordinator /\ OneOwner

\* At the end the header finds every rank's data: the file it names holds them, at the
\* offset it gives, whatever the files held before and in whatever order ranks wrote.
HeaderTrue ==
    (\A r \in Ranks : At(r, "gone")) =>
        /\ DOMAIN header = conf.data
        /\ \A r \in conf.data :
              LET s == files[header[r].file]
              IN  \E i \in DOMAIN s : s[i] = r /\ Length(conf.data, SubSeq(s, 1, i - 1)) = header[r].offset

\* No message outlives the iterator: tags are used again after the largest one.
NoStrayMessages == (\A r \in Ranks : At(r, "gone")) => msgs = {}

\* How NoStrayMessages comes about.  A rank has left the loop; the decider has answered;
\* the rank that the others report to, and that is the root of the gather.
HasLeft(r) == pc[r] \in {"done", "cleanup", "gone"}
Decided == conf.mode = "dynamic" /\ pc[conf.deciderProc] # "start"
Root == IF conf.mode = "dynamic" THEN coordinatorProc[conf.deciderProc] ELSE IOProcessorNumber
Early == {"start", "writing", "written", "elect"}
InTransit(tag) == {m \in msgs : m.tag = tag}

\* In static mode the successor of a rank that has not handed its file on has not begun.
HandsOn(r) ==
    /\ conf.mode = "static"
    /\ Successor(r) \in Ranks /\ WhichSetPosition(Successor(r)) > WhichSetPosition(r)

InTurn ==
    /\ \A m \in InTransit("stWrite") :
          HandsOn(m.src) /\ HasLeft(m.src) /\ m.dst = Successor(m.src) /\ At(m.dst, "start")
    /\ \A r \in Ranks : HandsOn(r) /\ ~HasLeft(r) => At(Successor(r), "start")

\* The root of the gather has the messages of all others before it leaves.
Gathered ==
    /\ \A r \in Ranks : HasLeft(r) \/ conf.mode # "dynamic" => coordinatorProc[r] = Root
    /\ \A m \in InTransit("gather") :
          pc[m.src] \in {"cleanup", "gone"} /\ m.dst = Root /\ pc[Root] \notin {"cleanup", "gone"}
    /\ minmax /\ pc[Root] \in {"cleanup", "gone"} =>
          \A r \in Ranks : pc[r] \in {"cleanup", "gone"}

\* What a message of the dynamic mode says of its sender and its receiver.
Sound(m) ==
    /\ m.tag \in {"stWrite", "gather", "decider", "coordinator", "write", "done"}
    /\ m.tag = "decider" =>
          /\ conf.mode = "dynamic" /\ m = Message("decider", m.src, conf.deciderProc, m.src)
          /\ m.src \in SetZeroProcs /\ pc[m.src] \notin {"start", "writing", "written"}
    /\ m.tag \in {"coordinator", "write", "done"} => Decided
    /\ m.tag = "coordinator" =>
          /\ m = Message("coordinator", conf.deciderProc, m.dst, Root)
          /\ m.dst \in SetZeroProcs /\ pc[m.dst] \in Early
    /\ m.tag = "write" =>
          m.src = Root /\ m.dst \in AvailableDeciders /\ pc[m.dst] \in {"start", "signal"}
    /\ m.tag = "done" => m.dst = Root

Addressed ==
    /\ \A m \in msgs : Sound(m)
    /\ \A m, k \in InTransit("write") : m.dst = k.dst => m = k

\* Where the ranks are in dynamic mode, and whom they take for the coordinator.
Elected ==
    conf.mode = "dynamic" =>
        /\ ~Decided => /\ \A r \in SetZeroProcs : pc[r] \in Early
                       /\ \A r \in AvailableDeciders : At(r, "start")
        /\ Decided => Root \in SetZeroProcs
        /\ \A r \in Ranks :
              /\ At(r, "signal") => r = conf.deciderProc
              /\ pc[r] \in {"coordinate", "await"} => coordinatorProc[r] = Root
              /\ r \in AvailableDeciders /\ pc[r] \in {"writing", "written"} =>
                    coordinatorProc[r] = Root

\* The queues of the coordinator: each rank that it has not sent to a file is in one of
\* them, once.
Waiting == UNION {Range(procsToWrite[f]) : f \in FileNumbers}

Queues ==
    /\ Decided /\ pc[Root] \in Early =>
          InTransit("write") = {} /\ \A r \in AvailableDeciders : pc[r] \in {"start", "signal"}
    /\ pc[Root] \in {"coordinate", "await"} =>
          /\ procsToWrite \in [FileNumbers -> Seq(AvailableDeciders)]
          /\ \A f \in FileNumbers : procsToWrite[f] # <<>> => f < conf.nOutFiles
          /\ \A f, g \in FileNumbers :
                \A i \in DOMAIN procsToWrite[f], j \in DOMAIN procsToWrite[g] :
                    procsToWrite[f][i] = procsToWrite[g][j] => f = g /\ i = j
          /\ \A r \in Waiting :
                pc[r] \in {"start", "signal"} /\ \A m \in InTransit("write") : m.dst # r
          /\ remainingWriters = Cardinality(Waiting) + (IF At(Root, "await") THEN 1 ELSE 0)

\* What has been sent and is to be sent is what is still to be received: by the decider, ...
ToTell == {r \in SetZeroProcs : pc[r] \in {"start", "writing", "written"}}
DeciderExpects ==
    IF Decided THEN unreadMessages[conf.deciderProc].n ELSE Cardinality(SetZeroProcs)

\* ... and by the coordinator.
ToReport == {r \in Ranks \ {Root} : ~HasLeft(r)}
CoordinatorExpects ==
    CASE HasLeft(Root) -> unreadMessages[Root].n
      [] pc[Root] \in {"coordinate", "await"} -> Cardinality(SetZeroProcs) - 1 + remainingWriters
      [] OTHER -> Cardinality(SetZeroProcs) - 1 + Cardinality(AvailableDeciders)

Unread ==
    \A r \in Ranks :
        /\ unreadMessages[r].tag = "none" \/ At(r, "gone") => unreadMessages[r].n = 0
        /\ unreadMessages[r].tag = "decider" <=> Decided /\ r = conf.deciderProc
        /\ unreadMessages[r].tag = "done" <=> Decided /\ r = Root /\ HasLeft(r)

Balanced ==
    /\ IsFiniteSet(msgs)
    /\ conf.mode = "dynamic" =>
          Cardinality(InTransit("decider")) + Cardinality(ToTell) = DeciderExpects
    /\ Decided =>
          Cardinality(InTransit("done")) + Cardinality(ToReport) = CoordinatorExpects

MessageIInv == InTurn /\ Gathered /\ Addressed /\ Elected /\ Queues /\ Unread /\ Balanced

\* How HeaderTrue comes about.  The record of the writes has no rank twice.
RecordOnce ==
    /\ fileNumbersWriteOrder \in [FileNumbers -> Seq(Ranks)]
    /\ \A f, g \in FileNumbers :
          \A i \in DOMAIN fileNumbersWriteOrder[f], j \in DOMAIN fileNumbersWriteOrder[g] :
              fileNumbersWriteOrder[f][i] = fileNumbersWriteOrder[g][j] => f = g /\ i = j

Wrote(r) == pc[r] \notin {"start", "signal", "writing"}
Ascends(s) == \A i, j \in DOMAIN s : i < j => s[i] < s[j]

\* In static mode it is made beforehand, and the ranks of a file write in ascending order.
StaticRecord ==
    conf.mode = "static" =>
        /\ \A f \in FileNumbers :
              /\ Ascends(fileNumbersWriteOrder[f])
              /\ Range(fileNumbersWriteOrder[f]) = {r \in Ranks : FileNumber(r) = f}
              /\ (\E r \in Ranks : FileNumber(r) = f /\ ~At(r, "start")) =>
                    /\ Ascends(files[f])
                    /\ Range(files[f]) = {r \in Ranks : FileNumber(r) = f /\ Wrote(r)}
        /\ \A r, q \in Ranks :
              FileNumber(r) = FileNumber(q) /\ r < q /\ ~At(q, "start") => HasLeft(r)

\* In sparse mode too, and a rank that writes is alone in its file.
SparseRecord ==
    conf.mode = "sparse" =>
        /\ \A f \in FileNumbers : Len(fileNumbersWriteOrder[f]) <= 1
        /\ \A r \in conf.data :
              /\ Listed(r)
              /\ At(r, "writing") => files[r] = <<>>
              /\ Wrote(r) => files[r] = <<r>>

\* In dynamic mode the coordinator makes it as it goes.  A rank has a file and has not
\* written to it yet:
First(r) == At(r, "start") /\ WhichSetPosition(r) = 0

HasToWrite(r, f) ==
    \/ First(r) /\ FileNumber(r) = f
    \/ At(r, "writing") /\ fileNumber[r] = f
    \/ \E m \in InTransit("write") : m.dst = r /\ m.val = f

Owned(f) ==
    \/ f \in availableFileNumbers
    \/ \E r \in Ranks : Has(r, f)
    \/ \E m \in msgs : Carries(m, f)

\* Before there is a coordinator only the first rank of a file may have written.
FirstRecord ==
    /\ \A r \in SetZeroProcs :
          /\ At(r, "writing") => files[FileNumber(r)] = <<>>
          /\ Wrote(r) => files[FileNumber(r)] = <<r>>
    /\ \A m \in InTransit("done") : \E r \in SetZeroProcs : m.val = FileNumber(r)

\* After that the record is the file's contents and the rank that has to write to it.
FileRecord(f) ==
    /\ Owned(f) => fileNumbersWriteOrder[f] # <<>>
    /\ \A r \in Ranks : HasToWrite(r, f) =>
          fileNumbersWriteOrder[f] = IF First(r) THEN <<r>> ELSE Append(files[f], r)
    /\ \/ fileNumbersWriteOrder[f] \in {<<>>, files[f]}
       \/ \E r \in Ranks : HasToWrite(r, f)

Coordinating == Decided /\ pc[Root] \notin Early

DynamicRecord ==
    conf.mode = "dynamic" =>
        /\ \A r \in SetZeroProcs : fileNumber[r] = FileNumber(r)
        /\ ~Coordinating => FirstRecord
        /\ Coordinating =>
              /\ \A r \in Ranks :
                    Listed(r) <=> ~(pc[Root] \in {"coordinate", "await"} /\ r \in Waiting)
              /\ \A f \in FileNumbers : FileRecord(f)

\* The header, once it is written, gives the offsets in the record.
HeaderFromRecord ==
    pc[Root] \in {"cleanup", "gone"} =>
        /\ DOMAIN header = conf.data
        /\ \A r \in conf.data :
              \E f \in FileNumbers : \E i \in DOMAIN fileNumbersWriteOrder[f] :
                 /\ fileNumbersWriteOrder[f][i] = r
                 /\ header[r] = [file |-> IF conf.mode = "sparse" THEN r ELSE f,
                                 offset |-> Length(conf.data, SubSeq(fileNumbersWriteOrder[f], 1, i - 1))]

HeaderIInv == RecordOnce /\ StaticRecord /\ SparseRecord /\ DynamicRecord /\ HeaderFromRecord

\* Every rank gets its turn and leaves: nobody waits for a message nobody will send.
AllLeave == <>[](\A r \in Ranks : At(r, "gone"))
=============================================================================

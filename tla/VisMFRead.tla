----------------------------- MODULE VisMFRead -----------------------------
(***************************************************************************)
(* VisMF::Read (Src/Base/AMReX_VisMF.cpp): the ranks read the fabs of a    *)
(* MultiFab back from its files, and no more than nOpensPerFile of them    *)
(* are to have one file open.  Synchronous reads cut the readers of a file *)
(* into chains, in which NFilesIter hands the file from rank to rank.      *)
(* Otherwise a coordinator gives the files out: it sends a rank the fabs   *)
(* it is to read of one file, at most one file at a time, reads its own    *)
(* fabs between, and takes a file back when its reader reports.            *)
(*                                                                         *)
(* Files are numbered in the order of the loops over them, and fabs in the *)
(* order of their offsets in a file.  The header, the conversion of the    *)
(* data and, after synchronous reads, the copy from file order to the      *)
(* MultiFab's own distribution are left out.                               *)
(***************************************************************************)
EXTENDS Integers, FiniteSetsExt, SequencesExt

CONSTANTS
    NProcs,     \* the number of ranks
    NFabs,      \* the number of fabs
    FilesOf,    \* the maps of fabs to files considered
    Streams     \* the values of nMFFileInStreams considered

Ranks == 0 .. NProcs - 1
Fabs == 1..NFabs
ioProcNum == 0

ASSUME ReadAssumption ==
    /\ NProcs \in Nat \ {0} /\ NFabs \in Nat \ {0}
    /\ Streams \subseteq 1..NProcs
    /\ \A m \in FilesOf : DOMAIN m = Fabs /\ Range(m) = 1 .. Cardinality(Range(m))

VARIABLES
    conf,           \* the files, the owners of the fabs, the limit and the branch taken
    toRead,         \* synchronous reads: the fabs of a file each rank is to read
    streamSet,      \* synchronous reads: the chain of a file each rank is in
    pc,             \* where a rank is
    file,           \* the file a rank has open, or had; 0 for none
    vReads,         \* the fabs a rank is to read of it
    nReqs,          \* the fabs a rank still waits for
    msgs,           \* the messages in transit: [tag, rank, file]
    copies,         \* the ranks that have read a fab
    allReads,       \* the reads the coordinator has not given out: [file, rank]
    availableFiles, \* how often a file may still be opened
    busyProcs,
    totalIOReqs,
    reqsPending

coordinating == <<allReads, availableFiles, busyProcs, totalIOReqs, reqsPending>>
plan == <<conf, toRead, streamSet>>
vars == <<plan, pc, file, vReads, nReqs, msgs, copies, coordinating>>

Files == Range(conf.file)
InFile(f) == {k \in Fabs : conf.file[k] = f}
Owned(f, r) == {k \in InFile(f) : conf.owner[k] = r}

At(r, label) == pc[r] = label
Goto(r, label) == pc' = [pc EXCEPT ![r] = label]
Message(tag, r, f) == [tag |-> tag, rank |-> r, file |-> f]
StartReading(r, f, S) ==
    file' = [file EXCEPT ![r] = f] /\ vReads' = [vReads EXCEPT ![r] = S]
Read(r, S) == copies' = [k \in Fabs |-> IF k \in S THEN Append(copies[k], r) ELSE copies[k]]

-----------------------------------------------------------------------------
(***************************************************************************)
(* Synchronous reads                                                       *)
(***************************************************************************)
NItemsPerBin(totalItems, bins) ==
    [i \in 1..bins |-> totalItems \div bins + (IF i <= totalItems % bins THEN 1 ELSE 0)]

SumBelow(counts, i) == MapThenSumSet(LAMBDA j : counts[j], 1 .. i - 1)

\* Mutant: the counts as they come, zero if there are more files than ranks.
RanksPerFileAny == NItemsPerBin(NProcs, Cardinality(Files))

\* Every file has a reader, also when there are more files than ranks.
nRanksPerFile ==
    [f \in Files |-> Max({1, NItemsPerBin(NProcs, Cardinality(Files))[f]})]

\* The place of a fab in its file, from 1.
Place(k) == Cardinality({j \in InFile(conf.file[k]) : j <= k})

\* The fabs of file f that rank r is to read: ranks are taken in turn over all files.
RankToRead(f, r) ==
    LET nBoxesPerRank == NItemsPerBin(Cardinality(InFile(f)), nRanksPerFile[f])
        rank(i) == (SumBelow(nRanksPerFile, f) + i - 1) % NProcs
    IN  {k \in InFile(f) : \E i \in 1 .. nRanksPerFile[f] :
            /\ rank(i) = r
            /\ SumBelow(nBoxesPerRank, i) < Place(k)
            /\ Place(k) <= SumBelow(nBoxesPerRank, i + 1)}

ReadFileRanks(f) == {r \in Ranks : toRead[f][r] # {}}

\* The chain r is in: the readers of f are split into as many streams as may be open.
StreamSet(f, r) ==
    LET readers == ReadFileRanks(f)
        nStreams == Min({Cardinality(readers), conf.nOpensPerFile})
        stream(q) == Min({nStreams - 1, Cardinality({p \in readers : p < q})
                                          \div (Cardinality(readers) \div nStreams)})
    IN  {q \in readers : stream(q) = stream(r)}

Before(f, r) == {q \in streamSet[f][r] : q < r}
After(f, r) == {q \in streamSet[f][r] : q > r}

FilesLeft(r) == {f \in Files : f > file[r] /\ toRead[f][r] # {}}

\* NFilesIter::ReadyToRead: wait for the rank before this one in the chain.
ReadyToRead(r) ==
    /\ conf.sync
    /\ At(r, "ready")
    /\ FilesLeft(r) # {}
    /\ LET f == Min(FilesLeft(r))
       IN  /\ IF Before(f, r) = {} THEN UNCHANGED msgs
              ELSE Message("handoff", r, f) \in msgs /\ msgs' = msgs \ {Message("handoff", r, f)}
           /\ StartReading(r, f, toRead[f][r])
    /\ Goto(r, "reading")
    /\ UNCHANGED <<plan, nReqs, copies, coordinating>>

\* The loop body and NFilesIter::operator++.
ReadAndHandOn(r) ==
    /\ conf.sync
    /\ At(r, "reading")
    /\ Read(r, vReads[r])
    /\ LET f == file[r]
       IN  msgs' = msgs \cup (IF After(f, r) = {} THEN {}
                              ELSE {Message("handoff", Min(After(f, r)), f)})
    /\ vReads' = [vReads EXCEPT ![r] = {}]
    /\ Goto(r, "ready")
    /\ UNCHANGED <<plan, file, nReqs, coordinating>>

LeaveChains(r) ==
    /\ conf.sync
    /\ At(r, "ready")
    /\ FilesLeft(r) = {}
    /\ Goto(r, "done")
    /\ UNCHANGED <<plan, file, vReads, nReqs, msgs, copies, coordinating>>

-----------------------------------------------------------------------------
(***************************************************************************)
(* Reads by the leave of the coordinator: the other ranks                  *)
(***************************************************************************)
Receive(r) ==
    /\ ~conf.sync /\ r # ioProcNum
    /\ At(r, "ready")
    /\ nReqs[r] > 0
    /\ \E m \in msgs :
          /\ m.tag = "read" /\ m.rank = r
          /\ msgs' = msgs \ {m}
          /\ StartReading(r, m.file, Owned(m.file, r))
    /\ Goto(r, "reading")
    /\ UNCHANGED <<plan, nReqs, copies, coordinating>>

\* The fabs are read one after another, and the coordinator is told.
ReadAndReport(r) ==
    /\ ~conf.sync /\ r # ioProcNum
    /\ At(r, "reading")
    /\ Read(r, vReads[r])
    /\ nReqs' = [nReqs EXCEPT ![r] = @ - Cardinality(vReads[r])]
    /\ vReads' = [vReads EXCEPT ![r] = {}]
    /\ msgs' = msgs \cup {Message("done", r, file[r])}
    /\ Goto(r, "ready")
    /\ UNCHANGED <<plan, file, coordinating>>

Leave(r) ==
    /\ ~conf.sync /\ r # ioProcNum
    /\ At(r, "ready")
    /\ nReqs[r] = 0
    /\ Goto(r, "done")
    /\ UNCHANGED <<plan, file, vReads, nReqs, msgs, copies, coordinating>>

-----------------------------------------------------------------------------
(***************************************************************************)
(* The coordinator                                                         *)
(***************************************************************************)
Idle(f) == {a \in allReads : a.file = f /\ a.rank \notin busyProcs}
Assignable == {f \in Files : availableFiles[f] > 0 /\ Idle(f) # {}}

\* The scan drops the files it passes that nobody is to read any more.
Scanned(S) ==
    [f \in Files |-> IF f \in S /\ \A a \in allReads : a.file # f THEN 0 ELSE availableFiles[f]]

\* Mutant: the file given out stays available.
GivenOutKept(f) == Scanned({g \in Files : g < f})

GivenOut(f) == [Scanned({g \in Files : g < f}) EXCEPT ![f] = @ - 1]

\* The lowest file that is available and has a reader who is not busy goes to the
\* lowest such rank, which may be the coordinator.
Give ==
    /\ At(ioProcNum, "ready")
    /\ totalIOReqs > 0
    /\ Assignable # {}
    /\ LET f == Min(Assignable)
           r == Min({a.rank : a \in Idle(f)})
       IN  /\ busyProcs' = busyProcs \cup {r}
           /\ allReads' = allReads \ {[file |-> f, rank |-> r]}
           /\ availableFiles' = GivenOut(f)
           /\ IF r = ioProcNum
              THEN /\ StartReading(r, f, Owned(f, r))
                   /\ UNCHANGED <<msgs, reqsPending>>
              ELSE /\ msgs' = msgs \cup {Message("read", r, f)}
                   /\ reqsPending' = reqsPending + 1
                   /\ UNCHANGED <<file, vReads>>
    /\ UNCHANGED <<plan, pc, nReqs, copies, totalIOReqs>>

NothingToGive ==
    /\ At(ioProcNum, "ready")
    /\ totalIOReqs > 0
    /\ Assignable = {}
    /\ availableFiles' = Scanned(Files)
    /\ Goto(ioProcNum, IF vReads[ioProcNum] = {} THEN "await" ELSE "reading")
    /\ UNCHANGED <<plan, file, vReads, nReqs, msgs, copies, allReads, busyProcs, totalIOReqs,
                   reqsPending>>

\* One of its own fabs; after it, the coordinator may find that a rank has reported
\* and leave the rest for later.
ReadOwn ==
    LET k == Min(vReads[ioProcNum])
        left == vReads[ioProcNum] \ {k}
        f == file[ioProcNum]
    IN
    /\ At(ioProcNum, "reading")
    /\ Read(ioProcNum, {k})
    /\ vReads' = [vReads EXCEPT ![ioProcNum] = left]
    /\ totalIOReqs' = totalIOReqs - 1
    /\ availableFiles' = IF left = {} THEN [availableFiles EXCEPT ![f] = @ + 1] ELSE availableFiles
    /\ busyProcs' = IF left = {} THEN busyProcs \ {ioProcNum} ELSE busyProcs
    /\ \/ left = {} /\ Goto(ioProcNum, "await")
       \/ left # {} /\ UNCHANGED pc
       \/ left # {} /\ (\E m \in msgs : m.tag = "done") /\ Goto(ioProcNum, "await")
    /\ UNCHANGED <<plan, file, nReqs, msgs, allReads, reqsPending>>

\* Mutant: every report is counted as one fab.
ReportedOne(m) == 1

\* The number of fabs a rank reports.
Reported(m) == Cardinality(Owned(m.file, m.rank))

\* The coordinator waits for a report from any rank, unless none is to come.
TakeReport ==
    /\ At(ioProcNum, "await")
    /\ reqsPending > 0
    /\ \E m \in msgs :
          /\ m.tag = "done"
          /\ msgs' = msgs \ {m}
          /\ totalIOReqs' = totalIOReqs - Reported(m)
          /\ reqsPending' = reqsPending - 1
          /\ busyProcs' = busyProcs \ {m.rank}
          /\ availableFiles' = [availableFiles EXCEPT ![m.file] = @ + 1]
    /\ Goto(ioProcNum, "ready")
    /\ UNCHANGED <<plan, file, vReads, nReqs, copies, allReads>>

NoReport ==
    /\ At(ioProcNum, "await")
    /\ reqsPending = 0
    /\ Goto(ioProcNum, "ready")
    /\ UNCHANGED <<plan, file, vReads, nReqs, msgs, copies, coordinating>>

AllReported ==
    /\ At(ioProcNum, "ready")
    /\ totalIOReqs = 0
    /\ Goto(ioProcNum, "done")
    /\ UNCHANGED <<plan, file, vReads, nReqs, msgs, copies, coordinating>>

Coordinate ==
    /\ ~conf.sync
    /\ Give \/ NothingToGive \/ ReadOwn \/ TakeReport \/ NoReport \/ AllReported

-----------------------------------------------------------------------------
Init ==
    /\ conf \in [file : FilesOf, owner : [Fabs -> Ranks], nOpensPerFile : Streams, sync : BOOLEAN]
    /\ conf.sync => conf.owner = [k \in Fabs |-> 0]   \* synchronous reads ignore the owners
    /\ toRead = [f \in Files |-> [r \in Ranks |-> RankToRead(f, r)]]
    /\ streamSet = [f \in Files |-> [r \in Ranks |-> StreamSet(f, r)]]
    /\ pc = [r \in Ranks |-> "ready"]
    /\ file = [r \in Ranks |-> 0]
    /\ vReads = [r \in Ranks |-> {}]
    /\ nReqs = [r \in Ranks |-> Cardinality({k \in Fabs : conf.owner[k] = r})]
    /\ msgs = {}
    /\ copies = [k \in Fabs |-> <<>>]
    /\ allReads = {[file |-> conf.file[k], rank |-> conf.owner[k]] : k \in Fabs}
    /\ availableFiles = [f \in Files |-> conf.nOpensPerFile]
    /\ busyProcs = {}
    /\ totalIOReqs = NFabs
    /\ reqsPending = 0

ChainStep(r) == ReadyToRead(r) \/ ReadAndHandOn(r) \/ LeaveChains(r)
ReaderStep(r) == Receive(r) \/ ReadAndReport(r) \/ Leave(r)

Next == Coordinate \/ \E r \in Ranks : ChainStep(r) \/ ReaderStep(r)

\* Every rank goes on when it can.
Spec ==
    /\ Init /\ [][Next]_vars
    /\ WF_vars(Coordinate)
    /\ \A r \in Ranks : WF_vars(ChainStep(r) \/ ReaderStep(r))

-----------------------------------------------------------------------------
(***************************************************************************)
(* Properties                                                              *)
(***************************************************************************)
NotGiven(k) == [file |-> conf.file[k], rank |-> conf.owner[k]] \in allReads

\* The coordinator has given file f to rank r, and has not heard that it is done with it.
Given(r, f) ==
    /\ r \in busyProcs
    /\ \/ r # ioProcNum /\ Message("read", r, f) \in msgs
       \/ file[r] = f /\ \A m \in msgs : ~(m.tag = "read" /\ m.rank = r)

\* Another rank has been told to read the fab, and the coordinator has not heard of it.
NotReported(k) == conf.owner[k] # ioProcNum /\ Given(conf.owner[k], conf.file[k])

\* The state is well formed, and the coordinator's accounts are exact: it waits for
\* the reads of the ranks that are busy, and counts the fabs of all reads that are
\* not given out, or are given out and not reported.
TypeOK ==
    /\ pc \in [Ranks -> {"ready", "reading", "await", "done"}]
    /\ file \in [Ranks -> Files \cup {0}]
    /\ vReads \in [Ranks -> SUBSET Fabs]
    /\ nReqs \in [Ranks -> 0..NFabs]
    /\ msgs \subseteq [tag : {"handoff", "read", "done"}, rank : Ranks, file : Files]
    /\ copies \in [Fabs -> Seq(Ranks)]
    /\ availableFiles \in [Files -> 0..conf.nOpensPerFile]
    /\ reqsPending = Cardinality(busyProcs \ {ioProcNum})
    /\ totalIOReqs = Cardinality({k \in Fabs : NotGiven(k) \/ k \in vReads[ioProcNum] \/ NotReported(k)})

\* The ranks that have file f open.
Open(f) == {r \in Ranks : file[r] = f /\ vReads[r] # {}}

\* "This limits the number of concurrent readers per file": whichever ranks are slow
\* and in whatever order they report, or hand a file on.
OpensLimited == \A f \in Files : Cardinality(Open(f)) <= conf.nOpensPerFile

\* What TypeOK and OpensLimited rest on.  First, the plan: the readers of a file are in
\* no more chains than the file may be open, and the members of a chain agree on it.
PlanOK ==
    /\ conf \in [file : FilesOf, owner : [Fabs -> Ranks], nOpensPerFile : Streams, sync : BOOLEAN]
    /\ \A f \in Files, r \in Ranks : toRead[f][r] \subseteq Fabs
    /\ \A f \in Files : \A r, q \in ReadFileRanks(f) :
          /\ r \in streamSet[f][r] /\ streamSet[f][r] \subseteq ReadFileRanks(f)
          /\ q \in streamSet[f][r] => streamSet[f][q] = streamSet[f][r]
    /\ \A f \in Files :
          Cardinality({streamSet[f][r] : r \in ReadFileRanks(f)}) <= conf.nOpensPerFile

\* A rank has done with a file: it has it open no more, or is at a later one.
Passed(r, f) == file[r] > f \/ (file[r] = f /\ vReads[r] = {})

\* Whoever has opened a file, or been handed it, follows all ranks before it in the chain.
InChains ==
    /\ \A r \in Ranks, f \in Files :
          file[r] >= f /\ toRead[f][r] # {} => \A q \in Before(f, r) : Passed(q, f)
    /\ \A m \in msgs :
          /\ m.tag = "handoff" /\ toRead[m.file][m.rank] # {}
          /\ \A q \in Before(m.file, m.rank) : Passed(q, m.file)
    /\ \A r \in Ranks :
          /\ At(r, "reading") <=> vReads[r] # {}
          /\ At(r, "reading") => file[r] \in Files /\ toRead[file[r]][r] # {}
    /\ busyProcs = {} /\ \A k \in Fabs : NotGiven(k)

\* A busy rank has a message on its way to it, or reads, or has a message on its way back.
OneErrand ==
    \A m \in msgs :
        /\ m.tag \in {"read", "done"} /\ m.rank # ioProcNum /\ m.rank \in busyProcs
        /\ vReads[m.rank] = {} /\ Owned(m.file, m.rank) # {}
        /\ m.tag = "done" => m.file = file[m.rank]
        /\ \A n \in msgs : n.rank = m.rank => n = m

\* What a rank reads it has been given, and is all it owns of the file unless the
\* coordinator itself has begun with it.
OwnReads ==
    \A r \in Ranks :
        /\ At(r, "reading") => vReads[r] # {}
        /\ vReads[r] # {} =>
              /\ r \in busyProcs /\ \A m \in msgs : m.rank # r
              /\ vReads[r] \subseteq Owned(file[r], r)

\* A rank waits for the fabs it is still to be given, to be told of, or to read.
Awaited(r) ==
    {k \in Fabs : conf.owner[k] = r /\
        (NotGiven(k) \/ Message("read", r, conf.file[k]) \in msgs \/ k \in vReads[r])}

ByLeave ==
    /\ OneErrand /\ OwnReads
    /\ \A a \in allReads : \E k \in Fabs : a = [file |-> conf.file[k], rank |-> conf.owner[k]]
    /\ \A f \in Files, r \in Ranks : Given(r, f) => [file |-> f, rank |-> r] \notin allReads
    /\ \A r \in Ranks \ {ioProcNum} : nReqs[r] = Cardinality(Awaited(r))
    /\ \A f \in Files :
          availableFiles[f] + Cardinality({r \in Ranks : Given(r, f)}) <= conf.nOpensPerFile

ReadIInv ==
    /\ PlanOK /\ TypeOK /\ busyProcs \subseteq Ranks
    /\ IF conf.sync THEN InChains ELSE ByLeave

\* Every rank leaves Read, and by then each fab has been read once: with synchronous
\* reads by one rank, else by the rank that owns it.
AllRead ==
    <>(\A r \in Ranks : At(r, "done")
          /\ \A k \in Fabs : Len(copies[k]) = 1 /\ (conf.sync \/ copies[k][1] = conf.owner[k]))
=============================================================================

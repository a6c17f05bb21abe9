----------------------------- MODULE AsyncWrite -----------------------------
(***************************************************************************)
(* VisMF::AsyncWrite over amrex::AsyncOut (Src/Base/AMReX_VisMF.cpp and    *)
(* AMReX_AsyncOut.cpp): every rank submits a job to its background thread, *)
(* and the jobs of the ranks that share a file take turns by nonblocking   *)
(* barriers on the communicator of the file.  A rank enters as many        *)
(* barriers before its turn as there are ranks before it, and the rest     *)
(* after it, so that the k-th barrier of a write completes when the first  *)
(* k ranks have written.                                                   *)
(*                                                                         *)
(* The threads run their jobs one at a time in the order of submission,    *)
(* which is what FifoExecutor promises of BackgroundThread.  The header is *)
(* written by the last rank's job from sizes gathered before any job runs. *)
(* Each write has files of its own, in a directory just created.  After    *)
(* its last write a rank calls AsyncOut::Finish, and all of them a         *)
(* barrier, before any file is read.                                       *)
(***************************************************************************)
EXTENDS Integers, SequencesExt

CONSTANTS
    NProcs,     \* the number of ranks
    Files,      \* the values of amrex.async_out_nfiles considered
    NWrites,    \* bound: the number of calls of AsyncWrite
    Layouts     \* the sets of ranks that may have data

ASSUME CountsAssumption ==
    /\ NProcs \in Nat \ {0}
    /\ NWrites \in Nat \ {0}
    /\ Files \subseteq 1..NProcs

Ranks == 0 .. NProcs - 1
Writes == 1..NWrites
IoProc == NProcs - 1

ASSUME LayoutsAssumption == Layouts \subseteq SUBSET Ranks

VARIABLES
    s_noutfiles,    \* the number of files of a write
    layout,         \* the ranks with data, for each write
    gathered,       \* the calls of AsyncWrite whose sizes a rank has contributed
    submitted,      \* the jobs a rank's background thread has been given
    job,            \* the job it runs, or has run
    stage,          \* where the thread is in it
    entered,        \* the barriers a rank has entered on its file's communicator
    files,          \* the contents of the files: [write][file] |-> ranks
    header,         \* the headers: [write] |-> file and offset of each rank's data
    finish          \* where the rank's main thread is after its last write

vars == <<s_noutfiles, layout, gathered, submitted, job, stage, entered, files, header, finish>>

conf == <<s_noutfiles, layout>>

-----------------------------------------------------------------------------
(***************************************************************************)
(* GetWriteInfo                                                            *)
(***************************************************************************)
nmaxspots == (NProcs + s_noutfiles - 1) \div s_noutfiles
nfull == s_noutfiles + NProcs - nmaxspots * s_noutfiles

\* The file a rank writes to, its place among the ranks of the file, and their number.
\* The first nfull files take one rank more than the others.
GetWriteInfo(r) ==
    IF r < nfull * nmaxspots
    THEN [ifile |-> r \div nmaxspots, ispot |-> r % nmaxspots, nspots |-> nmaxspots]
    ELSE LET q == r - nfull * nmaxspots
         IN  [ifile |-> nfull + q \div (nmaxspots - 1), ispot |-> q % (nmaxspots - 1),
              nspots |-> nmaxspots - 1]

File(r) == GetWriteInfo(r).ifile
Spot(r) == GetWriteInfo(r).ispot
Spots(r) == GetWriteInfo(r).nspots

FileNumbers == 0 .. s_noutfiles - 1

\* The ranks of the communicator MPI_Comm_split makes for r's file.
Comm(r) == {q \in Ranks : File(q) = File(r)}

-----------------------------------------------------------------------------
(***************************************************************************)
(* AsyncWriteDoit, on the main thread                                      *)
(***************************************************************************)
\* The sizes go to the last rank.
Gather(r) ==
    /\ gathered[r] = submitted[r]
    /\ gathered[r] < NWrites
    /\ gathered' = [gathered EXCEPT ![r] = @ + 1]
    /\ UNCHANGED <<conf, submitted, job, stage, entered, files, header, finish>>

\* The root of the gather waits for all; then the job is submitted.
Submit(r) ==
    /\ submitted[r] < gathered[r]
    /\ r = IoProc => \A q \in Ranks : gathered[q] >= gathered[r]
    /\ submitted' = [submitted EXCEPT ![r] = @ + 1]
    /\ UNCHANGED <<conf, gathered, job, stage, entered, files, header, finish>>

-----------------------------------------------------------------------------
(***************************************************************************)
(* The job                                                                 *)
(***************************************************************************)
\* The length of a rank's data.
BytesOf(w, r) == IF r \in layout[w] THEN r + 1 ELSE 0
Length(w, s) ==
    LET length[n \in 0 .. Len(s)] == IF n = 0 THEN 0 ELSE length[n - 1] + BytesOf(w, s[n])
    IN  length[Len(s)]

\* Where a rank's data begin: after those of the ranks before it in the file.
Offsets(w) ==
    LET offset[r \in Ranks] == IF Spot(r) = 0 THEN 0 ELSE offset[r - 1] + BytesOf(w, r - 1)
    IN  offset

Header(w) == [r \in layout[w] |-> [file |-> File(r), offset |-> Offsets(w)[r]]]

\* Mutant: Wait enters a barrier for every other rank.
StartJobOneMore(r) ==
    /\ stage[r] = "idle"
    /\ job[r] < submitted[r]
    /\ job' = [job EXCEPT ![r] = @ + 1]
    /\ header' = IF r = IoProc THEN [header EXCEPT ![job[r] + 1] = Header(job[r] + 1)] ELSE header
    /\ entered' = [entered EXCEPT ![r] = @ + Spots(r) - 1]
    /\ stage' = [stage EXCEPT ![r] = "wait"]
    /\ UNCHANGED <<conf, gathered, submitted, files, finish>>

\* The job begins: the last rank writes the header, and AsyncOut::Wait enters a
\* barrier for every rank before this one.
StartJob(r) ==
    /\ stage[r] = "idle"
    /\ job[r] < submitted[r]
    /\ job' = [job EXCEPT ![r] = @ + 1]
    /\ header' = IF r = IoProc THEN [header EXCEPT ![job[r] + 1] = Header(job[r] + 1)] ELSE header
    /\ entered' = [entered EXCEPT ![r] = @ + Spot(r)]
    /\ stage' = [stage EXCEPT ![r] = "wait"]
    /\ UNCHANGED <<conf, gathered, submitted, files, finish>>

\* The barriers r has entered have all completed.
BarriersComplete(r) == \A q \in Comm(r) : entered[q] >= entered[r]

\* Mutant: the barriers are entered and not waited for.
OpenAtOnce(r) ==
    /\ stage[r] = "wait"
    /\ files' = IF r \in layout[job[r]] /\ Spot(r) = 0
                THEN [files EXCEPT ![job[r]][File(r)] = <<>>]
                ELSE files
    /\ stage' = [stage EXCEPT ![r] = "write"]
    /\ UNCHANGED <<conf, gathered, submitted, job, entered, header, finish>>

\* It is this rank's turn: the file is opened, by the first one truncated.  A rank
\* without data does not open it.
Open(r) ==
    /\ stage[r] = "wait"
    /\ BarriersComplete(r)
    /\ files' = IF r \in layout[job[r]] /\ Spot(r) = 0
                THEN [files EXCEPT ![job[r]][File(r)] = <<>>]
                ELSE files
    /\ stage' = [stage EXCEPT ![r] = "write"]
    /\ UNCHANGED <<conf, gathered, submitted, job, entered, header, finish>>

\* The data are written, and AsyncOut::Notify enters a barrier for every rank after
\* this one.
WriteAndNotify(r) ==
    /\ stage[r] = "write"
    /\ files' = IF r \in layout[job[r]]
                THEN [files EXCEPT ![job[r]][File(r)] = Append(@, r)]
                ELSE files
    /\ entered' = [entered EXCEPT ![r] = @ + (Spots(r) - 1 - Spot(r))]
    /\ stage' = [stage EXCEPT ![r] = "notify"]
    /\ UNCHANGED <<conf, gathered, submitted, job, header, finish>>

\* Notify returns when these barriers have completed, and the job is done.
EndJob(r) ==
    /\ stage[r] = "notify"
    /\ BarriersComplete(r)
    /\ stage' = [stage EXCEPT ![r] = "idle"]
    /\ UNCHANGED <<conf, gathered, submitted, job, entered, files, header, finish>>

-----------------------------------------------------------------------------
(***************************************************************************)
(* Finish, and the barrier before the files are read                       *)
(***************************************************************************)
Finish(r) ==
    /\ finish[r] = "writing"
    /\ submitted[r] = NWrites
    /\ job[r] = NWrites /\ stage[r] = "idle"
    /\ finish' = [finish EXCEPT ![r] = "finished"]
    /\ UNCHANGED <<conf, gathered, submitted, job, stage, entered, files, header>>

\* Mutant: the files are read after Finish.
ReadAtOnce(r) ==
    /\ finish[r] = "finished"
    /\ finish' = [finish EXCEPT ![r] = "reading"]
    /\ UNCHANGED <<conf, gathered, submitted, job, stage, entered, files, header>>

Barrier(r) ==
    /\ finish[r] = "finished"
    /\ \A q \in Ranks : finish[q] # "writing"
    /\ finish' = [finish EXCEPT ![r] = "reading"]
    /\ UNCHANGED <<conf, gathered, submitted, job, stage, entered, files, header>>

-----------------------------------------------------------------------------
Init ==
    /\ s_noutfiles \in Files
    /\ layout \in [Writes -> Layouts]
    /\ gathered = [r \in Ranks |-> 0]
    /\ submitted = [r \in Ranks |-> 0]
    /\ job = [r \in Ranks |-> 0]
    /\ stage = [r \in Ranks |-> "idle"]
    /\ entered = [r \in Ranks |-> 0]
    /\ files = [w \in Writes |-> [f \in FileNumbers |-> <<>>]]
    /\ header = [w \in Writes |-> [r \in {} |-> 0]]
    /\ finish = [r \in Ranks |-> "writing"]

MainStep(r) == Gather(r) \/ Submit(r) \/ Finish(r) \/ Barrier(r)
ThreadStep(r) == StartJob(r) \/ Open(r) \/ WriteAndNotify(r) \/ EndJob(r)

Next == \E r \in Ranks : MainStep(r) \/ ThreadStep(r)

Fairness == \A r \in Ranks : WF_vars(MainStep(r)) /\ WF_vars(ThreadStep(r))

Spec == Init /\ [][Next]_vars /\ Fairness

-----------------------------------------------------------------------------
(***************************************************************************)
(* Properties                                                              *)
(***************************************************************************)
TypeOK ==
    /\ s_noutfiles \in Files
    /\ layout \in [Writes -> Layouts]
    /\ gathered \in [Ranks -> 0..NWrites]
    /\ submitted \in [Ranks -> 0..NWrites]
    /\ job \in [Ranks -> 0..NWrites]
    /\ stage \in [Ranks -> {"idle", "wait", "write", "notify"}]
    /\ entered \in [Ranks -> Nat]
    /\ \A r \in Ranks : entered[r] <= NWrites * (Spots(r) - 1)
    /\ files \in [Writes -> [FileNumbers -> Seq(Ranks)]]
    /\ finish \in [Ranks -> {"writing", "finished", "reading"}]
    /\ \A r \in Ranks : job[r] <= submitted[r] /\ submitted[r] <= gathered[r]

\* The threads of two ranks never have one file of one write open, though a fast rank
\* may already be in the next write's barriers while a slow one writes.
OneWriter ==
    \A r, q \in Ranks :
        (r # q /\ File(r) = File(q) /\ job[r] = job[q]) =>
            ~(stage[r] = "write" /\ stage[q] = "write")

\* The ranks of a file have written in the order of their spots, the only order in
\* which the offsets of the header are right.
InOrder ==
    \A w \in Writes : \A f \in FileNumbers :
        \A r, q \in Ranks : \A i, j \in DOMAIN files[w][f] :
            (i < j /\ files[w][f][i] = r /\ files[w][f][j] = q) => Spot(r) < Spot(q)

HasWritten(r, w) == job[r] > w \/ (job[r] = w /\ stage[r] \in {"notify", "idle"})

\* What a rank has written stays in its file, whoever opens it later.
Kept ==
    \A w \in Writes : \A r \in layout[w] :
        HasWritten(r, w) => \E i \in DOMAIN files[w][File(r)] : files[w][File(r)][i] = r

\* When a rank reads, the header of every write finds the data of every rank in it.
ReadTrue ==
    (\E r \in Ranks : finish[r] = "reading") =>
        \A w \in Writes :
            /\ DOMAIN header[w] = layout[w]
            /\ \A r \in layout[w] :
                  LET s == files[w][header[w][r].file]
                  IN  \E i \in DOMAIN s :
                         s[i] = r /\ Length(w, SubSeq(s, 1, i - 1)) = header[w][r].offset

\* Every rank gets to read: no thread waits for a barrier that cannot complete.
AllRead == <>(\A r \in Ranks : finish[r] = "reading")
=============================================================================

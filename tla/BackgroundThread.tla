-------------------------- MODULE BackgroundThread --------------------------
(***************************************************************************)
(* amrex::BackgroundThread (Src/Base/AMReX_BackgroundThread.cpp): a queue  *)
(* of jobs served by one worker thread, with a mutex, two condition        *)
(* variables and two plain bools.                                          *)
(*                                                                         *)
(* Granularity: what the code does while it holds m_mutx is one action,    *)
(* for nothing else can run under that mutex; everything the worker does   *)
(* after it unlocks (running the job, testing m_clearing, notifying,       *)
(* testing m_finalizing) is an action of its own.  m_clearing is written   *)
(* by the worker without the mutex and by Finish with it, a data race on a *)
(* bool: the interleavings of those single accesses are all allowed here.  *)
(*                                                                         *)
(* A queue entry carries, besides its kind, the number of user jobs        *)
(* submitted up to and including it.  The code keeps no such number: it    *)
(* names the job, and lets the properties speak of "before".               *)
(***************************************************************************)
EXTENDS Integers, Sequences

CONSTANTS Finishers,   \* the threads that call Finish
          MaxJobs,     \* bound: user jobs ever submitted
          MaxFinish    \* bound: calls of Finish

ASSUME BoundsAssumption == MaxJobs \in Nat /\ MaxFinish \in Nat

VARIABLES
    func,         \* m_func, oldest entry first
    clearing,     \* m_clearing
    finalizing,   \* m_finalizing
    wpc,          \* where the worker is in do_job
    job,          \* f: the entry the worker popped last
    pc,           \* pc[c]: where thread c is in Finish
    dtor,         \* where the owner is in the destructor
    submitted,    \* history: number of user jobs submitted
    ran,          \* history: user jobs completed, in order
    need,         \* history: number of user jobs submitted before c's last call of Finish
    calls         \* history: number of calls of Finish, to bound it

vars == <<func, clearing, finalizing, wpc, job, pc, dtor, submitted, ran, need, calls>>

Kinds == {"user", "clear", "final"}
Entry(kind, n) == [kind |-> kind, n |-> n]

Init ==
    /\ func = <<>>
    /\ clearing = FALSE
    /\ finalizing = FALSE
    /\ wpc = "wait"
    /\ job = Entry("final", 0)
    /\ pc = [c \in Finishers |-> "out"]
    /\ dtor = "no"
    /\ submitted = 0
    /\ ran = <<>>
    /\ need = [c \in Finishers |-> 0]
    /\ calls = 0
-----------------------------------------------------------------------------
\* notify_one on m_job_cond: only the worker ever waits on it.
NotifyWorker == wpc' = IF wpc = "asleep" THEN "wait" ELSE wpc

\* Mutant: the job is queued but m_job_cond is not notified.
SubmitNoNotify ==
    /\ dtor = "no"
    /\ submitted < MaxJobs
    /\ submitted' = submitted + 1
    /\ func' = Append(func, Entry("user", submitted + 1))
    /\ UNCHANGED <<clearing, finalizing, wpc, job, pc, dtor, ran, need, calls>>

\* Submit(f) of a user job, from any thread, before the destructor.
Submit ==
    /\ dtor = "no"
    /\ submitted < MaxJobs
    /\ submitted' = submitted + 1
    /\ func' = Append(func, Entry("user", submitted + 1))
    /\ NotifyWorker
    /\ UNCHANGED <<clearing, finalizing, job, pc, dtor, ran, need, calls>>

\* Finish, first part: Submit([this] () { m_clearing = true; }).
FinishSubmit(c) ==
    /\ dtor = "no"
    /\ pc[c] = "out"
    /\ calls < MaxFinish
    /\ calls' = calls + 1
    /\ func' = Append(func, Entry("clear", submitted))
    /\ NotifyWorker
    /\ pc' = [pc EXCEPT ![c] = "test"]
    /\ need' = [need EXCEPT ![c] = submitted]
    /\ UNCHANGED <<clearing, finalizing, job, dtor, submitted, ran>>

\* Mutant: m_done_cond is waited on without a predicate.
FinishReturnUntested(c) ==
    /\ pc[c] = "test"
    /\ clearing' = FALSE
    /\ pc' = [pc EXCEPT ![c] = "out"]
    /\ UNCHANGED <<func, finalizing, wpc, job, dtor, submitted, ran, need, calls>>

\* The predicate of m_done_cond.wait is true: Finish resets m_clearing and returns.
FinishReturn(c) ==
    /\ pc[c] = "test"
    /\ func = <<>>
    /\ clearing' = FALSE
    /\ pc' = [pc EXCEPT ![c] = "out"]
    /\ UNCHANGED <<func, finalizing, wpc, job, dtor, submitted, ran, need, calls>>

\* The predicate is false: the caller sleeps on m_done_cond.
FinishSleep(c) ==
    /\ pc[c] = "test"
    /\ func # <<>>
    /\ pc' = [pc EXCEPT ![c] = "asleep"]
    /\ UNCHANGED <<func, clearing, finalizing, wpc, job, dtor, submitted, ran, need, calls>>

\* ~BackgroundThread, first part.  No other member may be running by then.
DestroySubmit ==
    /\ dtor = "no"
    /\ \A c \in Finishers : pc[c] = "out"
    /\ dtor' = "join"
    /\ func' = Append(func, Entry("final", submitted))
    /\ NotifyWorker
    /\ UNCHANGED <<clearing, finalizing, job, pc, submitted, ran, need, calls>>

\* m_thread->join() returns.
DestroyJoin ==
    /\ dtor = "join"
    /\ wpc = "exited"
    /\ dtor' = "joined"
    /\ UNCHANGED <<func, clearing, finalizing, wpc, job, pc, submitted, ran, need, calls>>
-----------------------------------------------------------------------------
\* do_job: the predicate of m_job_cond.wait is false.
WorkerSleep ==
    /\ wpc = "wait"
    /\ func = <<>>
    /\ wpc' = "asleep"
    /\ UNCHANGED <<func, clearing, finalizing, job, pc, dtor, submitted, ran, need, calls>>

\* do_job: pop the front of the queue and unlock.
WorkerPop ==
    /\ wpc = "wait"
    /\ func # <<>>
    /\ job' = Head(func)
    /\ func' = Tail(func)
    /\ wpc' = "run"
    /\ UNCHANGED <<clearing, finalizing, pc, dtor, submitted, ran, need, calls>>

\* do_job: f(), outside the mutex.
WorkerRun ==
    /\ wpc = "run"
    /\ wpc' = "notify"
    /\ ran' = IF job.kind = "user" THEN Append(ran, job.n) ELSE ran
    /\ clearing' = (clearing \/ job.kind = "clear")
    /\ finalizing' = (finalizing \/ job.kind = "final")
    /\ UNCHANGED <<func, job, pc, dtor, submitted, need, calls>>

\* Mutant: only the clearing job itself notifies, not the jobs after it.
WorkerNotifyOnce ==
    /\ wpc = "notify"
    /\ wpc' = "next"
    /\ LET sleeping == {c \in Finishers : pc[c] = "asleep"}
       IN  IF job.kind = "clear" /\ sleeping # {}
           THEN \E c \in sleeping : pc' = [pc EXCEPT ![c] = "test"]
           ELSE pc' = pc
    /\ UNCHANGED <<func, clearing, finalizing, job, dtor, submitted, ran, need, calls>>

\* do_job: if (m_clearing) m_done_cond.notify_one(), still outside the mutex.
\* One sleeping caller, whichever, goes back to test its predicate.
WorkerNotify ==
    /\ wpc = "notify"
    /\ wpc' = "next"
    /\ LET sleeping == {c \in Finishers : pc[c] = "asleep"}
       IN  IF clearing /\ sleeping # {}
           THEN \E c \in sleeping : pc' = [pc EXCEPT ![c] = "test"]
           ELSE pc' = pc
    /\ UNCHANGED <<func, clearing, finalizing, job, dtor, submitted, ran, need, calls>>

\* Mutant: the test of m_finalizing is missing.
WorkerNextForever ==
    /\ wpc = "next"
    /\ wpc' = "wait"
    /\ UNCHANGED <<func, clearing, finalizing, job, pc, dtor, submitted, ran, need, calls>>

\* do_job: if (m_finalizing) break, else the next turn of the loop.
WorkerNext ==
    /\ wpc = "next"
    /\ wpc' = IF finalizing THEN "exited" ELSE "wait"
    /\ UNCHANGED <<func, clearing, finalizing, job, pc, dtor, submitted, ran, need, calls>>

\* A wait on a condition variable may return without a notification.
SpuriousWake ==
    /\ \/ /\ wpc = "asleep"
          /\ wpc' = "wait"
          /\ pc' = pc
       \/ \E c \in Finishers :
              /\ pc[c] = "asleep"
              /\ pc' = [pc EXCEPT ![c] = "test"]
              /\ wpc' = wpc
    /\ UNCHANGED <<func, clearing, finalizing, job, dtor, submitted, ran, need, calls>>

\* The object is gone: nothing more happens.
Gone == dtor = "joined" /\ UNCHANGED vars

Worker == WorkerSleep \/ WorkerPop \/ WorkerRun \/ WorkerNotify \/ WorkerNext
FinishWait(c) == FinishReturn(c) \/ FinishSleep(c)

Next ==
    \/ Submit
    \/ Worker
    \/ DestroySubmit
    \/ DestroyJoin
    \/ \E c \in Finishers : FinishSubmit(c) \/ FinishWait(c)
    \/ SpuriousWake
    \/ Gone

Spec == Init /\ [][Next]_vars

\* The operating system runs every runnable thread; nobody is obliged to
\* submit, to call Finish or to destroy, and no spurious wake-up is owed.
FairSpec ==
    /\ Spec
    /\ WF_vars(Worker)
    /\ WF_vars(DestroyJoin)
    /\ \A c \in Finishers : WF_vars(FinishWait(c))
-----------------------------------------------------------------------------
\* The state is well formed; in particular no job completes twice, so the log of
\* completed jobs never outgrows the number of jobs submitted.
TypeOK ==
    /\ func \in Seq([kind : Kinds, n : Nat])
    /\ clearing \in BOOLEAN
    /\ finalizing \in BOOLEAN
    /\ wpc \in {"wait", "asleep", "run", "notify", "next", "exited"}
    /\ job \in [kind : Kinds, n : Nat]
    /\ pc \in [Finishers -> {"out", "test", "asleep"}]
    /\ dtor \in {"no", "join", "joined"}
    /\ submitted \in 0..MaxJobs
    /\ ran \in Seq(Nat)
    /\ Len(ran) <= submitted
    /\ need \in [Finishers -> Nat]
    /\ calls \in 0..MaxFinish

\* The worker does not sleep while a job is queued: Submit notifies under the
\* mutex the worker tests its predicate under, so no notification is lost.
NoLostJob == func # <<>> => wpc # "asleep"

\* The executor keeps its documented promise: jobs complete one at a time in
\* submission order; "Block the caller until all queued jobs have completed", so
\* Finish is a barrier although it tests only that the queue is empty, when a
\* popped job may still be running; the destructor drains "any queued work".
Promise == INSTANCE FifoExecutor WITH
    barrier <- [c \in Finishers |-> IF pc[c] = "out" THEN -1 ELSE need[c]],
    alive <- (dtor # "joined")
Refinement == Promise!Spec

\* "Block the caller until all queued jobs have completed": every call of Finish
\* eventually returns, whoever else calls it.  It does not hold with two callers:
\* one may reset m_clearing after the other's clearing job has run and before a
\* notification reached it.
FinishReturns == \A c \in Finishers : (pc[c] # "out") ~> (pc[c] = "out")

\* A caller of Finish is never inside it together with another one.
Alone(c) == [](pc[c] = "out" \/ \A d \in Finishers \ {c} : pc[d] = "out")

\* A thread that never shares Finish with another always gets out of it, although
\* earlier calls of other threads have left m_clearing and the queue as they are,
\* whatever is submitted meanwhile: the worker's unlocked test of m_clearing is safe.
FinishReturnsAlone ==
    \A c \in Finishers : Alone(c) => ((pc[c] # "out") ~> (pc[c] = "out"))

\* The destructor, once entered, eventually returns.
DestroyReturns == (dtor = "join") ~> (dtor = "joined")
-----------------------------------------------------------------------------
(***************************************************************************)
(* The inductive invariant behind Refinement.  The user jobs not yet run   *)
(* are, in order, the one the worker holds (if any) and those in the       *)
(* queue, numbered without a gap up to submitted; and a caller inside      *)
(* Finish either sees its clearing entry still queued or has had all its   *)
(* jobs completed.                                                         *)
(***************************************************************************)
IsUser(e) == IF e.kind = "user" THEN 1 ELSE 0

\* The number of user jobs that have left the queue.
Popped == Len(ran) + (IF wpc = "run" THEN IsUser(job) ELSE 0)

Numbered ==
    /\ \A i \in 1..Len(ran) : ran[i] = i
    /\ wpc = "run" => job.n = Popped
    /\ func = <<>> => submitted = Popped
    /\ func # <<>> => /\ func[1].n = Popped + IsUser(func[1])
                     /\ func[Len(func)].n = submitted
    /\ \A i \in 1..(Len(func) - 1) : func[i + 1].n = func[i].n + IsUser(func[i + 1])
    /\ \A i, j \in 1..Len(func) : i <= j => func[i].n <= func[j].n

Covered ==
    \A c \in Finishers :
        pc[c] # "out" =>
            \/ need[c] <= Len(ran)
            \/ \E i \in 1..Len(func) : func[i].kind = "clear" /\ func[i].n = need[c]

Closing ==
    /\ dtor # "no" => \A c \in Finishers : pc[c] = "out"
    /\ finalizing => dtor # "no" /\ func = <<>> /\ Len(ran) = submitted
    /\ wpc = "run" /\ job.kind = "final" => dtor # "no" /\ func = <<>>
    /\ \A i \in 1..Len(func) : func[i].kind = "final" => dtor # "no" /\ i = Len(func)
    /\ wpc = "exited" => finalizing
    /\ dtor = "joined" => wpc = "exited"

IInv == TypeOK /\ NoLostJob /\ Numbered /\ Covered /\ Closing
=============================================================================

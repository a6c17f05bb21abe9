---------------------------- MODULE FifoExecutor ----------------------------
(***************************************************************************)
(* What a background executor promises its callers                         *)
(* (the documentation of amrex::BackgroundThread): submitted jobs run one  *)
(* at a time in the order of their submission, Finish blocks its caller    *)
(* until every job queued before the call has completed, and the           *)
(* destructor drains the queue before it returns.                          *)
(***************************************************************************)
EXTENDS Naturals, Sequences

CONSTANTS Finishers,   \* the threads that call Finish
          MaxJobs      \* bound: number of user jobs ever submitted

VARIABLES submitted,   \* number of user jobs submitted so far; job n is the n-th
          ran,         \* the jobs completed, in the order of completion
          barrier,     \* barrier[c]: the call of Finish c is blocked in covers
                       \* the jobs 1..barrier[c]; -1 when c is not in Finish
          alive        \* FALSE once the destructor has returned

vars == <<submitted, ran, barrier, alive>>

NotWaiting == 0 - 1

Init ==
    /\ submitted = 0
    /\ ran = <<>>
    /\ barrier = [c \in Finishers |-> NotWaiting]
    /\ alive = TRUE

Submit ==
    /\ alive
    /\ submitted < MaxJobs
    /\ submitted' = submitted + 1
    /\ UNCHANGED <<ran, barrier, alive>>

\* The oldest job that has not run completes.
Complete ==
    /\ Len(ran) < submitted
    /\ ran' = Append(ran, Len(ran) + 1)
    /\ UNCHANGED <<submitted, barrier, alive>>

FinishCall(c) ==
    /\ alive
    /\ barrier[c] = NotWaiting
    /\ barrier' = [barrier EXCEPT ![c] = submitted]
    /\ UNCHANGED <<submitted, ran, alive>>

FinishReturn(c) ==
    /\ barrier[c] # NotWaiting
    /\ barrier[c] <= Len(ran)
    /\ barrier' = [barrier EXCEPT ![c] = NotWaiting]
    /\ UNCHANGED <<submitted, ran, alive>>

Destroy ==
    /\ alive
    /\ Len(ran) = submitted
    /\ \A c \in Finishers : barrier[c] = NotWaiting
    /\ alive' = FALSE
    /\ UNCHANGED <<submitted, ran, barrier>>

Next ==
    \/ Submit
    \/ Complete
    \/ Destroy
    \/ \E c \in Finishers : FinishCall(c) \/ FinishReturn(c)

Spec == Init /\ [][Next]_vars
=============================================================================

----------------------- MODULE BackgroundThreadProofs -----------------------
(***************************************************************************)
(* The executor keeps its promise for every number of threads, jobs and    *)
(* calls: IInv is inductive, and with it every step of BackgroundThread is *)
(* a step of FifoExecutor or a stutter.                                    *)
(***************************************************************************)
EXTENDS BackgroundThread, SequenceTheorems, TLAPS


\* What popping the front of a queue does to it.
LEMMA PopFacts ==
    ASSUME NEW S, NEW s \in Seq(S), s # <<>>
    PROVE  /\ Head(s) = s[1]
           /\ Head(s) \in S
           /\ Tail(s) \in Seq(S)
           /\ Len(s) \in Nat \ {0}
           /\ Len(Tail(s)) = Len(s) - 1
           /\ \A i \in 1..Len(Tail(s)) : Tail(s)[i] = s[i + 1]
           /\ (Tail(s) = <<>>) <=> (Len(s) = 1)
  <1>1. Len(s) \in Nat \ {0}
    BY EmptySeq
  <1>2. /\ Head(s) \in S /\ Tail(s) \in Seq(S) /\ Len(Tail(s)) = Len(s) - 1
        /\ \A i \in 1..Len(Tail(s)) : Tail(s)[i] = s[i + 1]
    BY HeadTailProperties
  <1>3. (Tail(s) = <<>>) <=> (Len(Tail(s)) = 0)
    BY <1>2, EmptySeq
  <1> QED
    BY <1>1, <1>2, <1>3

LEMMA EmptyIsLenZero ==
    ASSUME NEW S, NEW s \in Seq(S)
    PROVE  /\ Len(s) \in Nat
           /\ (s = <<>>) <=> (Len(s) = 0)
  BY EmptySeq, LenProperties

\* The entries of the queue carry natural numbers.
LEMMA EntryNumbers ==
    ASSUME NEW s \in Seq([kind : Kinds, n : Nat])
    PROVE  \A i \in 1..Len(s) : s[i] \in [kind : Kinds, n : Nat] /\ s[i].n \in Nat
  <1> TAKE i \in 1..Len(s)
  <1>1. s[i] \in [kind : Kinds, n : Nat]
    BY ElementOfSeq
  <1> QED
    BY <1>1

\* IInv holds initially.
LEMMA InitIInv == Init => IInv
  <1> SUFFICES ASSUME Init PROVE IInv
    OBVIOUS
  <1>1. TypeOK
    <2>1. job \in [kind : Kinds, n : Nat]
      BY DEF Init, Entry, Kinds
    <2>2. func \in Seq([kind : Kinds, n : Nat]) /\ ran \in Seq(Nat) /\ Len(ran) <= submitted
      BY DEF Init
    <2>3. submitted \in 0..MaxJobs /\ calls \in 0..MaxFinish
      BY BoundsAssumption DEF Init
    <2>4. clearing \in BOOLEAN /\ finalizing \in BOOLEAN
      BY DEF Init
    <2>5. /\ wpc = "wait" /\ dtor = "no"
          /\ pc \in [Finishers -> {"out", "test", "asleep"}]
          /\ need \in [Finishers -> Nat]
      BY DEF Init
    <2> QED
      BY <2>1, <2>2, <2>3, <2>4, <2>5 DEF TypeOK
  <1>2. NoLostJob /\ Numbered /\ Covered /\ Closing
    BY DEF Init, NoLostJob, Numbered, Covered, Closing, Popped, IsUser, Entry
  <1> QED
    BY <1>1, <1>2 DEF IInv

\* An entry appended to the queue keeps the numbering when it is numbered as
\* Submit, Finish and the destructor number it.
LEMMA AppendKeepsNumbering ==
    ASSUME IInv, NEW e \in [kind : Kinds, n : Nat],
           func' = Append(func, e),
           e.n = submitted + IsUser(e), submitted' = e.n,
           wpc # "exited",
           wpc' = IF wpc = "asleep" THEN "wait" ELSE wpc,
           ran' = ran, job' = job
    PROVE  Numbered' /\ NoLostJob' /\ func' \in Seq([kind : Kinds, n : Nat])
  <1> DEFINE T == [kind : Kinds, n : Nat]
  <1>1. /\ func \in Seq(T) /\ Len(func) \in Nat /\ submitted \in Nat
        /\ (func = <<>>) <=> (Len(func) = 0)
    BY EmptyIsLenZero, BoundsAssumption DEF IInv, TypeOK
  <1>2. /\ func' \in Seq(T) /\ func' # <<>> /\ Len(func') = Len(func) + 1
        /\ \A i \in 1..Len(func) : func'[i] = func[i]
        /\ func'[Len(func) + 1] = e
    BY <1>1, AppendProperties
  <1>3. Popped' = Popped
    BY DEF Popped, IInv, TypeOK
  <1>4. CASE func = <<>>
    <2>1. submitted = Popped
      BY <1>4 DEF IInv, Numbered
    <2>2. Len(func') = 1 /\ func'[1] = e /\ e.n \in Nat
      BY <1>1, <1>2, <1>4
    <2>3. NoLostJob'
      BY DEF NoLostJob
    <2> QED
      BY <1>2, <1>3, <2>1, <2>2, <2>3 DEF Numbered, IInv
  <1>5. CASE func # <<>>
    <2>1. Len(func) >= 1
      BY <1>1, <1>5
    <2>2. func'[1] = func[1] /\ func[1].n = Popped + IsUser(func[1])
      BY <1>2, <1>5, <2>1 DEF IInv, Numbered
    <2>3. func'[Len(func')].n = submitted'
      BY <1>2
    <2>4. ASSUME NEW i \in 1..(Len(func') - 1)
          PROVE  func'[i + 1].n = func'[i].n + IsUser(func'[i + 1])
      <3>1. CASE i = Len(func)
        BY <3>1, <1>2, <1>5, <2>1, <1>1 DEF IInv, Numbered
      <3>2. CASE i < Len(func)
        BY <3>2, <1>1, <1>2, <2>1 DEF IInv, Numbered
      <3> QED
        BY <3>1, <3>2, <1>1, <1>2
    <2>5. ASSUME NEW i \in 1..Len(func'), NEW j \in 1..Len(func'), i <= j
          PROVE  func'[i].n <= func'[j].n
      <3>1. /\ \A k \in 1..Len(func) : func[k].n \in Nat
            /\ \A k \in 1..Len(func) : func[k].n <= submitted
            /\ submitted <= e.n
        <4>1. \A k \in 1..Len(func) : func[k].n \in Nat
          BY <1>1, EntryNumbers
        <4>2. \A k \in 1..Len(func) : func[k].n <= func[Len(func)].n
          BY <1>1, <2>1 DEF IInv, Numbered
        <4> QED
          BY <4>1, <4>2, <1>1, <1>5 DEF IInv, Numbered, IsUser
      <3>2. CASE j = Len(func) + 1
        BY <2>5, <3>1, <3>2, <1>1, <1>2
      <3>3. CASE j <= Len(func)
        BY <2>5, <3>3, <1>1, <1>2 DEF IInv, Numbered
      <3> QED
        BY <3>2, <3>3, <1>1, <1>2
    <2>6. NoLostJob'
      BY DEF NoLostJob
    <2>7. ran' = ran /\ Numbered
      BY DEF IInv
    <2> QED
      BY <1>2, <1>3, <2>2, <2>3, <2>4, <2>5, <2>6, <2>7 DEF Numbered
  <1> QED
    BY <1>4, <1>5

\* Every step keeps IInv.
LEMMA NextIInv == IInv /\ [Next]_vars => IInv'
  <1> SUFFICES ASSUME IInv, [Next]_vars PROVE IInv'
    OBVIOUS
  <1> DEFINE T == [kind : Kinds, n : Nat]
  <1>t. TypeOK /\ NoLostJob /\ Numbered /\ Covered /\ Closing
    BY DEF IInv
  <1>l. /\ Len(func) \in Nat /\ Len(ran) \in Nat /\ submitted \in Nat
        /\ (func = <<>>) <=> (Len(func) = 0)
    BY <1>t, EmptyIsLenZero, BoundsAssumption DEF TypeOK
  <1>1. CASE Submit
    <2> DEFINE e == Entry("user", submitted + 1)
    <2>1. e \in T /\ IsUser(e) = 1 /\ e.n = submitted + 1 /\ e.kind = "user"
      BY <1>l DEF Entry, Kinds, IsUser
    <2>2. wpc # "exited" /\ wpc' = IF wpc = "asleep" THEN "wait" ELSE wpc
      BY <1>1, <1>t DEF Submit, NotifyWorker, Closing
    <2>3. Numbered' /\ NoLostJob' /\ func' \in Seq(T)
      BY <1>1, <2>1, <2>2, AppendKeepsNumbering DEF Submit
    <2>4. /\ Len(func') = Len(func) + 1
          /\ \A i \in 1..Len(func) : func'[i] = func[i]
          /\ func'[Len(func) + 1] = e
      BY <1>1, <1>t, <2>1, AppendProperties DEF Submit, TypeOK
    <2>5. TypeOK'
      BY <1>1, <1>t, <2>2, <2>3, BoundsAssumption DEF Submit, TypeOK
    <2>6. Covered'
      BY <1>1, <1>t, <1>l, <2>4 DEF Submit, Covered
    <2>7. ~finalizing /\ (wpc = "run" => job.kind # "final")
          /\ \A i \in 1..Len(func) : func[i].kind # "final"
      BY <1>1, <1>t DEF Submit, Closing
    <2>8. Closing'
      BY <1>1, <1>t, <1>l, <2>1, <2>2, <2>4, <2>7 DEF Submit, Closing, TypeOK
    <2> QED
      BY <2>3, <2>5, <2>6, <2>8 DEF IInv
  <1>2. ASSUME NEW c \in Finishers, FinishSubmit(c) PROVE IInv'
    <2> DEFINE e == Entry("clear", submitted)
    <2>1. e \in T /\ IsUser(e) = 0 /\ e.n = submitted /\ e.kind = "clear"
      BY <1>l DEF Entry, Kinds, IsUser
    <2>2. wpc # "exited" /\ wpc' = IF wpc = "asleep" THEN "wait" ELSE wpc
      BY <1>2, <1>t DEF FinishSubmit, NotifyWorker, Closing
    <2>a. /\ func' = Append(func, e) /\ e.n = submitted + IsUser(e) /\ submitted' = e.n
          /\ ran' = ran /\ job' = job
      BY <1>2, <1>l, <2>1 DEF FinishSubmit
    <2>3. Numbered' /\ NoLostJob' /\ func' \in Seq(T)
      BY <2>a, <2>1, <2>2, AppendKeepsNumbering
    <2>4. /\ Len(func') = Len(func) + 1
          /\ \A i \in 1..Len(func) : func'[i] = func[i]
          /\ func'[Len(func) + 1] = e
      BY <1>2, <1>t, <2>1, AppendProperties DEF FinishSubmit, TypeOK
    <2>5. TypeOK'
      BY <1>2, <1>t, <1>l, <2>2, <2>3, BoundsAssumption DEF FinishSubmit, TypeOK
    <2>6. Covered'
      <3> SUFFICES ASSUME NEW d \in Finishers, pc'[d] # "out"
                   PROVE  \/ need'[d] <= Len(ran')
                          \/ \E i \in 1..Len(func') : func'[i].kind = "clear" /\ func'[i].n = need'[d]
        BY DEF Covered
      <3>1. CASE d = c
        BY <3>1, <1>2, <1>t, <1>l, <2>1, <2>4 DEF FinishSubmit, TypeOK
      <3>2. CASE d # c
        <4>1. pc[d] # "out" /\ need'[d] = need[d] /\ ran' = ran
          BY <3>2, <1>2, <1>t DEF FinishSubmit, TypeOK
        <4>2. CASE need[d] <= Len(ran)
          BY <4>1, <4>2
        <4>3. CASE \E i \in 1..Len(func) : func[i].kind = "clear" /\ func[i].n = need[d]
          BY <4>1, <4>3, <1>l, <2>4
        <4> QED
          BY <4>1, <4>2, <4>3, <1>t DEF Covered
      <3> QED
        BY <3>1, <3>2
    <2>7. ~finalizing /\ (wpc = "run" => job.kind # "final")
          /\ \A i \in 1..Len(func) : func[i].kind # "final"
      BY <1>2, <1>t DEF FinishSubmit, Closing
    <2>8. Closing'
      BY <1>2, <1>t, <1>l, <2>1, <2>2, <2>4, <2>7 DEF FinishSubmit, Closing, TypeOK
    <2> QED
      BY <2>3, <2>5, <2>6, <2>8 DEF IInv
  <1>3. ASSUME NEW c \in Finishers, FinishReturn(c) PROVE IInv'
    <2>1. TypeOK' /\ NoLostJob' /\ Numbered'
      BY <1>3, <1>t DEF FinishReturn, TypeOK, NoLostJob, Numbered, Popped
    <2>2. Covered'
      BY <1>3, <1>t DEF FinishReturn, TypeOK, Covered
    <2>3. Closing'
      BY <1>3, <1>t DEF FinishReturn, TypeOK, Closing
    <2> QED
      BY <2>1, <2>2, <2>3 DEF IInv
  <1>4. ASSUME NEW c \in Finishers, FinishSleep(c) PROVE IInv'
    <2>1. TypeOK' /\ NoLostJob' /\ Numbered'
      BY <1>4, <1>t DEF FinishSleep, TypeOK, NoLostJob, Numbered, Popped
    <2>2. Covered'
      BY <1>4, <1>t DEF FinishSleep, TypeOK, Covered
    <2>3. Closing'
      BY <1>4, <1>t DEF FinishSleep, TypeOK, Closing
    <2> QED
      BY <2>1, <2>2, <2>3 DEF IInv
  <1>5. CASE DestroySubmit
    <2> DEFINE e == Entry("final", submitted)
    <2>1. e \in T /\ IsUser(e) = 0 /\ e.n = submitted /\ e.kind = "final"
      BY <1>l DEF Entry, Kinds, IsUser
    <2>2. wpc # "exited" /\ wpc' = IF wpc = "asleep" THEN "wait" ELSE wpc
      BY <1>5, <1>t DEF DestroySubmit, NotifyWorker, Closing
    <2>a. /\ func' = Append(func, e) /\ e.n = submitted + IsUser(e) /\ submitted' = e.n
          /\ ran' = ran /\ job' = job
      BY <1>5, <1>l, <2>1 DEF DestroySubmit
    <2>3. Numbered' /\ NoLostJob' /\ func' \in Seq(T)
      BY <2>a, <2>1, <2>2, AppendKeepsNumbering
    <2>4. /\ Len(func') = Len(func) + 1
          /\ \A i \in 1..Len(func) : func'[i] = func[i]
          /\ func'[Len(func) + 1] = e
      BY <1>5, <1>t, <2>1, AppendProperties DEF DestroySubmit, TypeOK
    <2>5. TypeOK'
      BY <1>5, <1>t, <2>2, <2>3 DEF DestroySubmit, TypeOK
    <2>6. Covered'
      BY <1>5, <1>t DEF DestroySubmit, Covered
    <2>7. ~finalizing /\ (wpc = "run" => job.kind # "final")
          /\ \A i \in 1..Len(func) : func[i].kind # "final"
      BY <1>5, <1>t DEF DestroySubmit, Closing
    <2>8. Closing'
      BY <1>5, <1>t, <1>l, <2>1, <2>2, <2>4, <2>7 DEF DestroySubmit, Closing, TypeOK
    <2> QED
      BY <2>3, <2>5, <2>6, <2>8 DEF IInv
  <1>6. CASE DestroyJoin
    BY <1>6, <1>t DEF DestroyJoin, IInv, TypeOK, NoLostJob, Numbered, Popped, Covered, Closing
  <1>7. CASE WorkerSleep
    BY <1>7, <1>t DEF WorkerSleep, IInv, TypeOK, NoLostJob, Numbered, Popped, Covered, Closing
  <1>8. CASE WorkerPop
    <2>1. /\ job' = func[1] /\ job' \in T /\ func' \in Seq(T)
          /\ Len(func) \in Nat \ {0} /\ Len(func') = Len(func) - 1
          /\ \A i \in 1..Len(func') : func'[i] = func[i + 1]
          /\ (func' = <<>>) <=> (Len(func) = 1)
      BY <1>8, <1>t, PopFacts DEF WorkerPop, TypeOK
    <2>2. Popped = Len(ran) /\ Popped' = Len(ran) + IsUser(job')
      BY <1>8, <1>l DEF WorkerPop, Popped
    <2>3. TypeOK'
      BY <1>8, <1>t, <2>1 DEF WorkerPop, TypeOK
    <2>4. job'.n = Popped'
      BY <1>8, <1>t, <2>1, <2>2 DEF WorkerPop, Numbered
    <2>5. func' # <<>> => /\ func'[1].n = Popped' + IsUser(func'[1])
                          /\ func'[Len(func')].n = submitted'
      BY <1>8, <1>t, <2>1, <2>4 DEF WorkerPop, Numbered
    <2>6. func' = <<>> => submitted' = Popped'
      BY <1>8, <1>t, <2>1, <2>4 DEF WorkerPop, Numbered
    <2>7. \A i \in 1..(Len(func') - 1) : func'[i + 1].n = func'[i].n + IsUser(func'[i + 1])
      <3> TAKE i \in 1..(Len(func') - 1)
      <3>1. /\ i + 1 \in 1..(Len(func) - 1) /\ i \in 1..Len(func') /\ i + 1 \in 1..Len(func')
            /\ func'[i] = func[i + 1] /\ func'[i + 1] = func[(i + 1) + 1]
        BY <2>1
      <3>2. func[(i + 1) + 1].n = func[i + 1].n + IsUser(func[(i + 1) + 1])
        BY <3>1, <1>t DEF Numbered
      <3> QED
        BY <3>1, <3>2
    <2>b. \A i, j \in 1..Len(func') : i <= j => func'[i].n <= func'[j].n
      <3> TAKE i, j \in 1..Len(func')
      <3>1. /\ i + 1 \in 1..Len(func) /\ j + 1 \in 1..Len(func)
            /\ func'[i] = func[i + 1] /\ func'[j] = func[j + 1]
            /\ i <= j => i + 1 <= j + 1
        BY <2>1
      <3> QED
        BY <3>1, <1>t DEF Numbered
    <2>8. Numbered'
      BY <1>8, <1>t, <2>4, <2>5, <2>6, <2>7, <2>b DEF WorkerPop, Numbered
    <2>9. Covered'
      <3> SUFFICES ASSUME NEW d \in Finishers, pc'[d] # "out"
                   PROVE  \/ need'[d] <= Len(ran')
                          \/ \E i \in 1..Len(func') : func'[i].kind = "clear" /\ func'[i].n = need'[d]
        BY DEF Covered
      <3>1. CASE need[d] <= Len(ran)
        BY <3>1, <1>8 DEF WorkerPop
      <3>2. CASE \E i \in 1..Len(func) : func[i].kind = "clear" /\ func[i].n = need[d]
        <4> PICK i \in 1..Len(func) : func[i].kind = "clear" /\ func[i].n = need[d]
          BY <3>2
        <4>1. CASE i = 1
          BY <4>1, <1>8, <1>l, <2>1, <2>2, <2>4 DEF WorkerPop, IsUser
        <4>2. CASE i > 1
          <5>1. i - 1 \in 1..Len(func') /\ func'[i - 1] = func[i]
            BY <4>2, <2>1
          <5> QED
            BY <5>1, <1>8 DEF WorkerPop
        <4> QED
          BY <4>1, <4>2
      <3> QED
        BY <3>1, <3>2, <1>8, <1>t DEF WorkerPop, Covered
    <2>10. Closing'
      <3>1. ~finalizing
        BY <1>8, <1>t DEF WorkerPop, Closing
      <3>2. job'.kind = "final" => dtor # "no" /\ func' = <<>>
        BY <1>t, <2>1 DEF Closing
      <3>3. \A i \in 1..Len(func') : func'[i].kind = "final" => dtor # "no" /\ i = Len(func')
        <4> TAKE i \in 1..Len(func')
        <4>1. i + 1 \in 1..Len(func) /\ func'[i] = func[i + 1]
          BY <2>1
        <4>2. func[i + 1].kind = "final" => dtor # "no" /\ i + 1 = Len(func)
          BY <4>1, <1>t DEF Closing
        <4> QED
          BY <4>1, <4>2, <2>1
      <3> QED
        BY <1>8, <1>t, <3>1, <3>2, <3>3 DEF WorkerPop, Closing
    <2> QED
      BY <1>8, <2>3, <2>8, <2>9, <2>10 DEF IInv, NoLostJob, WorkerPop
  <1>9. CASE WorkerRun
    <2>1. job.n = Popped /\ Popped = Len(ran) + IsUser(job)
      BY <1>9, <1>t DEF WorkerRun, Numbered, Popped
    <2>2. /\ Len(ran') = Popped /\ ran' \in Seq(Nat)
          /\ \A i \in 1..Len(ran') : ran'[i] = i
      <3>1. CASE job.kind = "user"
        <4>1. /\ Append(ran, job.n) \in Seq(Nat)
              /\ Len(Append(ran, job.n)) = Len(ran) + 1
              /\ \A i \in 1..Len(ran) : Append(ran, job.n)[i] = ran[i]
              /\ Append(ran, job.n)[Len(ran) + 1] = job.n
          BY <1>t, AppendProperties DEF TypeOK
        <4>2. ran' = Append(ran, job.n) /\ job.n = Len(ran) + 1
          BY <1>9, <3>1, <1>l, <2>1 DEF WorkerRun, IsUser
        <4> QED
          BY <4>1, <4>2, <2>1, <1>t, <1>l DEF Numbered
      <3>2. CASE job.kind # "user"
        BY <3>2, <1>9, <1>t, <1>l, <2>1 DEF WorkerRun, IsUser, Numbered, TypeOK
      <3> QED
        BY <3>1, <3>2
    <2>3. Popped' = Popped
      BY <1>9, <1>l, <2>1, <2>2 DEF WorkerRun, Popped, IsUser
    <2>4. Popped <= submitted
      <3>1. CASE func = <<>>
        BY <3>1, <1>t, <1>l DEF Numbered
      <3>2. CASE func # <<>>
        <4>1. Len(func) \in Nat \ {0} /\ func[Len(func)].n = submitted
          BY <3>2, <1>t, <1>l DEF Numbered
        <4>2. \A i \in 1..Len(func) : func[i].n \in Nat
          BY <1>t, EntryNumbers DEF TypeOK
        <4>a. func[1].n \in Nat /\ func[Len(func)].n \in Nat
          BY <4>1, <4>2
        <4>b. Popped \in Nat
          BY <2>1, <1>l DEF IsUser
        <4>c. func[1].n = Popped + IsUser(func[1])
          BY <3>2, <1>t DEF Numbered
        <4>3. Popped <= func[1].n
          BY <4>a, <4>b, <4>c DEF IsUser
        <4>4. func[1].n <= func[Len(func)].n
          BY <4>1, <1>t DEF Numbered
        <4> QED
          BY <4>1, <4>a, <4>b, <4>3, <4>4
      <3> QED
        BY <3>1, <3>2
    <2>5. TypeOK'
      <3>1. clearing' \in BOOLEAN /\ finalizing' \in BOOLEAN
        BY <1>9 DEF WorkerRun
      <3>2. Len(ran') <= submitted' /\ ran' \in Seq(Nat)
        BY <1>9, <2>2, <2>4 DEF WorkerRun
      <3> QED
        BY <1>9, <1>t, <3>1, <3>2 DEF WorkerRun, TypeOK
    <2>6. Numbered'
      BY <1>9, <1>t, <2>2, <2>3 DEF WorkerRun, Numbered
    <2>7. Covered'
      <3>1. Len(ran) <= Len(ran') /\ Len(ran') \in Nat
        BY <1>l, <2>1, <2>2 DEF IsUser
      <3> SUFFICES ASSUME NEW d \in Finishers, pc'[d] # "out"
                   PROVE  \/ need'[d] <= Len(ran')
                          \/ \E i \in 1..Len(func') : func'[i].kind = "clear" /\ func'[i].n = need'[d]
        BY DEF Covered
      <3>2. need[d] \in Nat
        BY <1>t DEF TypeOK
      <3> QED
        BY <3>1, <3>2, <1>9, <1>t, <1>l DEF WorkerRun, Covered
    <2>8. Closing'
      <3>1. finalizing' => dtor' # "no" /\ func' = <<>> /\ Len(ran') = submitted'
        <4>1. CASE finalizing
          BY <4>1, <1>9, <1>t, <1>l, <2>1, <2>2, <2>4 DEF WorkerRun, Closing, IsUser
        <4>2. CASE job.kind = "final"
          BY <4>2, <1>9, <1>t, <1>l, <2>1, <2>2 DEF WorkerRun, Closing, Numbered
        <4> QED
          BY <4>1, <4>2, <1>9 DEF WorkerRun
      <3>2. wpc' = "notify" /\ dtor' = dtor /\ func' = func /\ pc' = pc /\ dtor # "joined"
        BY <1>9, <1>t DEF WorkerRun, Closing
      <3> QED
        BY <3>1, <3>2, <1>t DEF Closing
    <2> QED
      BY <1>9, <2>5, <2>6, <2>7, <2>8 DEF IInv, NoLostJob, WorkerRun
  <1>10. CASE WorkerNotify
    <2>1. /\ pc' \in [Finishers -> {"out", "test", "asleep"}]
          /\ \A c \in Finishers : pc'[c] = "out" <=> pc[c] = "out"
      BY <1>10, <1>t DEF WorkerNotify, TypeOK
    <2>2. /\ wpc = "notify" /\ wpc' = "next"
          /\ UNCHANGED <<func, clearing, finalizing, job, dtor, submitted, ran, need, calls>>
      BY <1>10 DEF WorkerNotify
    <2>3. TypeOK' /\ NoLostJob'
      BY <1>t, <2>1, <2>2 DEF TypeOK, NoLostJob
    <2>4. Numbered' /\ Covered'
      BY <1>t, <2>1, <2>2 DEF Numbered, Popped, Covered
    <2>5. Closing'
      BY <1>t, <2>1, <2>2 DEF Closing
    <2> QED
      BY <2>3, <2>4, <2>5 DEF IInv
  <1>11. CASE WorkerNext
    <2>1. TypeOK' /\ NoLostJob'
      BY <1>11, <1>t DEF WorkerNext, TypeOK, NoLostJob
    <2>2. Numbered' /\ Covered'
      BY <1>11, <1>t DEF WorkerNext, Numbered, Popped, Covered
    <2>3. Closing'
      BY <1>11, <1>t DEF WorkerNext, Closing
    <2> QED
      BY <2>1, <2>2, <2>3 DEF IInv
  <1>12. CASE SpuriousWake
    <2>1. /\ pc' \in [Finishers -> {"out", "test", "asleep"}]
          /\ \A c \in Finishers : pc'[c] = "out" <=> pc[c] = "out"
          /\ wpc' = wpc \/ (wpc = "asleep" /\ wpc' = "wait")
      BY <1>12, <1>t DEF SpuriousWake, TypeOK
    <2>2. UNCHANGED <<func, clearing, finalizing, job, dtor, submitted, ran, need, calls>>
      BY <1>12 DEF SpuriousWake
    <2>3. TypeOK' /\ NoLostJob'
      BY <1>t, <2>1, <2>2 DEF TypeOK, NoLostJob
    <2>4. Numbered' /\ Covered'
      BY <1>t, <2>1, <2>2 DEF Numbered, Popped, Covered
    <2>5. Closing'
      BY <1>t, <2>1, <2>2 DEF Closing
    <2> QED
      BY <2>3, <2>4, <2>5 DEF IInv
  <1>13. CASE UNCHANGED vars
    <2>1. TypeOK' /\ NoLostJob'
      BY <1>13, <1>t DEF vars, TypeOK, NoLostJob
    <2>2. Numbered' /\ Covered'
      BY <1>13, <1>t DEF vars, Numbered, Popped, Covered
    <2>3. Closing'
      BY <1>13, <1>t DEF vars, Closing
    <2> QED
      BY <2>1, <2>2, <2>3 DEF IInv
  <1> QED
    BY <1>1, <1>2, <1>3, <1>4, <1>5, <1>6, <1>7, <1>8, <1>9, <1>10, <1>11, <1>12, <1>13
       DEF Next, Worker, FinishWait, Gone

\* The invariant holds in every reachable state.
THEOREM Invariance == Spec => []IInv
  BY InitIInv, NextIInv, PTL DEF Spec

\* The state is well formed, for every number of callers, jobs and calls.
THEOREM TypeCorrect == Spec => []TypeOK
  <1>1. IInv => TypeOK
    BY DEF IInv
  <1> QED
    BY <1>1, Invariance, PTL

\* The worker never sleeps on a job: no notification of Submit is lost.
THEOREM NeverLostJob == Spec => []NoLostJob
  <1>1. IInv => NoLostJob
    BY DEF IInv
  <1> QED
    BY <1>1, Invariance, PTL

\* The barrier Promise sees: what the refinement mapping substitutes.
barrierBar == [c \in Finishers |-> IF pc[c] = "out" THEN -1 ELSE need[c]]
aliveBar == dtor # "joined"

\* Every step of BackgroundThread is a step of FifoExecutor or a stutter.
LEMMA StepRefinement ==
    IInv /\ IInv' /\ [Next]_vars => [Promise!Next]_(Promise!vars)
  <1> SUFFICES ASSUME IInv, IInv', [Next]_vars
               PROVE  Promise!Next \/ UNCHANGED <<submitted, ran, barrierBar, aliveBar>>
    BY DEF Promise!vars, barrierBar, aliveBar
  <1>t. TypeOK /\ Numbered /\ Covered /\ Closing
    BY DEF IInv
  <1>l. Len(func) \in Nat /\ Len(ran) \in Nat /\ submitted \in Nat /\ ((func = <<>>) <=> (Len(func) = 0))
    BY <1>t, EmptyIsLenZero, BoundsAssumption DEF TypeOK
  <1>b. ASSUME pc' \in [Finishers -> {"out", "test", "asleep"}], need' = need,
               \A c \in Finishers : pc'[c] = "out" <=> pc[c] = "out"
        PROVE  barrierBar' = barrierBar
    BY <1>b DEF barrierBar
  <1>1. CASE Submit
    BY <1>1, <1>t DEF Submit, barrierBar, Promise!Next, Promise!Submit
  <1>2. ASSUME NEW c \in Finishers, FinishSubmit(c) PROVE Promise!FinishCall(c)
    <2>1. barrierBar[c] = 0 - 1 /\ barrierBar' = [barrierBar EXCEPT ![c] = submitted]
      <3>1. \A d \in Finishers : /\ pc'[d] = IF d = c THEN "test" ELSE pc[d]
                                 /\ need'[d] = IF d = c THEN submitted ELSE need[d]
        BY <1>2, <1>t DEF FinishSubmit, TypeOK
      <3>2. pc[c] = "out"
        BY <1>2 DEF FinishSubmit
      <3>3. barrierBar[c] = 0 - 1
        BY <3>2 DEF barrierBar
      <3>4. \A d \in Finishers : barrierBar'[d] = [barrierBar EXCEPT ![c] = submitted][d]
        BY <3>1 DEF barrierBar
      <3>5. barrierBar' = [barrierBar EXCEPT ![c] = submitted]
        BY <3>4 DEF barrierBar
      <3> QED
        BY <3>3, <3>5
    <2> QED
      BY <1>2, <2>1 DEF FinishSubmit, barrierBar, Promise!FinishCall, Promise!NotWaiting
  <1>3. ASSUME NEW c \in Finishers, FinishReturn(c) PROVE Promise!FinishReturn(c)
    <2>1. need[c] <= Len(ran) /\ need[c] \in Nat
      BY <1>3, <1>t, <1>l DEF FinishReturn, Covered, TypeOK
    <2>2. barrierBar[c] = need[c] /\ barrierBar' = [barrierBar EXCEPT ![c] = 0 - 1]
      <3>1. \A d \in Finishers : pc'[d] = IF d = c THEN "out" ELSE pc[d]
        BY <1>3, <1>t DEF FinishReturn, TypeOK
      <3>2. pc[c] = "test" /\ need' = need
        BY <1>3 DEF FinishReturn
      <3>3. barrierBar[c] = need[c]
        BY <3>2 DEF barrierBar
      <3>4. \A d \in Finishers : barrierBar'[d] = [barrierBar EXCEPT ![c] = 0 - 1][d]
        BY <3>1, <3>2 DEF barrierBar
      <3>5. barrierBar' = [barrierBar EXCEPT ![c] = 0 - 1]
        BY <3>4 DEF barrierBar
      <3> QED
        BY <3>3, <3>5
    <2>3. barrierBar[c] # 0 - 1 /\ barrierBar[c] <= Len(ran)
      BY <2>1, <2>2
    <2> QED
      BY <1>3, <2>2, <2>3 DEF FinishReturn, barrierBar, Promise!FinishReturn, Promise!NotWaiting
  <1>4. ASSUME NEW c \in Finishers, FinishSleep(c) PROVE barrierBar' = barrierBar
    BY <1>4, <1>t DEF FinishSleep, TypeOK, barrierBar
  <1>5. CASE DestroySubmit
    BY <1>5 DEF DestroySubmit, barrierBar, aliveBar
  <1>6. CASE DestroyJoin
    <2>1. Len(ran) = submitted /\ \A c \in Finishers : pc[c] = "out"
      BY <1>6, <1>t DEF DestroyJoin, Closing
    <2>2. Promise!Destroy
      BY <1>6, <2>1 DEF DestroyJoin, Promise!Destroy, Promise!NotWaiting
    <2> QED
      BY <2>2 DEF Promise!Next
  <1>7. CASE WorkerSleep \/ WorkerPop \/ WorkerNext
    BY <1>7 DEF WorkerSleep, WorkerPop, WorkerNext, barrierBar, aliveBar
  <1>8. CASE WorkerRun
    <2>1. CASE job.kind = "user"
      <3>1. job.n = Len(ran) + 1
        BY <2>1, <1>8, <1>t, <1>l DEF WorkerRun, Numbered, Popped, IsUser
      <3>2. ran' = Append(ran, Len(ran) + 1) /\ submitted' = submitted
        BY <2>1, <3>1, <1>8 DEF WorkerRun
      <3>3. Len(ran') = Len(ran) + 1 /\ Len(ran') <= submitted
        BY <3>2, <1>t, AppendProperties DEF IInv, TypeOK
      <3>4. Promise!Complete
        BY <3>2, <3>3, <1>l, <1>8 DEF WorkerRun, Promise!Complete
      <3> QED
        BY <3>4 DEF Promise!Next
    <2>2. CASE job.kind # "user"
      BY <2>2, <1>8 DEF WorkerRun, barrierBar, aliveBar
    <2> QED
      BY <2>1, <2>2
  <1>9. CASE WorkerNotify
    <2>1. /\ pc' \in [Finishers -> {"out", "test", "asleep"}]
          /\ \A c \in Finishers : pc'[c] = "out" <=> pc[c] = "out"
          /\ UNCHANGED <<dtor, submitted, ran, need>>
      BY <1>9, <1>t DEF WorkerNotify, TypeOK
    <2> QED
      BY <2>1, <1>b DEF aliveBar
  <1>10. CASE SpuriousWake
    <2>1. /\ pc' \in [Finishers -> {"out", "test", "asleep"}]
          /\ \A c \in Finishers : pc'[c] = "out" <=> pc[c] = "out"
          /\ UNCHANGED <<dtor, submitted, ran, need>>
      BY <1>10, <1>t DEF SpuriousWake, TypeOK
    <2> QED
      BY <2>1, <1>b DEF aliveBar
  <1>11. CASE UNCHANGED vars
    BY <1>11 DEF vars, barrierBar, aliveBar
  <1> QED
    <2>1. ASSUME NEW c \in Finishers, FinishSleep(c)
          PROVE  UNCHANGED <<submitted, ran, barrierBar, aliveBar>>
      BY <2>1, <1>4 DEF FinishSleep, aliveBar
    <2> QED
      BY <1>1, <1>2, <1>3, <2>1, <1>5, <1>6, <1>7, <1>8, <1>9, <1>10, <1>11
         DEF Next, Worker, FinishWait, Gone, Promise!Next

\* BackgroundThread implements FifoExecutor: jobs complete one at a time in the
\* order of their submission, Finish is a barrier for every job submitted before
\* it, and the destructor returns only when all have completed.
THEOREM ImplementsPromise == Spec => Refinement
  <1>1. Init => Promise!Init
    BY DEF Init, Promise!Init, Promise!NotWaiting
  <1>2. IInv /\ IInv' /\ [Next]_vars => [Promise!Next]_(Promise!vars)
    BY StepRefinement
  <1> QED
    BY <1>1, <1>2, Invariance, PTL DEF Spec, Refinement, Promise!Spec
=============================================================================

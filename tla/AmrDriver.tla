------------------------------ MODULE AmrDriver ------------------------------
(***************************************************************************)
(* amrex::Amr (Src/Amr/AMReX_Amr.cpp): the recursive time stepping of the  *)
(* hierarchy, with the regrids before and after the advance of a level.    *)
(*                                                                         *)
(* The recursion of timeStep is the sequence stack: frame l + 1 is the     *)
(* call for level l.  Times and time steps are integers (ticks), chosen so *)
(* that every division by n_cycle is exact; the relative tolerances of     *)
(* StateData then play no part.  Grids are abstracted to whether a level   *)
(* exists and whether a regrid redefines it.  Every rank makes the same    *)
(* calls in the same order, so one sequential process is modelled.         *)
(*                                                                         *)
(* The methods of the class derived from AmrLevel (advance, init, the      *)
(* choice of dt) are those of Tests/Amr/Advection_AmrLevel, which never    *)
(* asks for a regrid after its advance.  PostStep TRUE is a class that     *)
(* does.  Amr::regrid leaves it to init what data the redefined levels     *)
(* get, so two such classes are modelled: with HandlesPostStep FALSE init  *)
(* is still AmrLevelAdv's, which gives a new level its parent's current    *)
(* time and no redefined level old data; with TRUE a new level starts at   *)
(* the parent's previous time, where the recursion goes on, and init(old)  *)
(* keeps the old data that regrid spares.  Nothing in Amr asks for the     *)
(* latter: PostStepHandled is what the properties about times assume.      *)
(*                                                                         *)
(* AmrLevel::okToRegrid, true unless overridden, is left out.              *)
(***************************************************************************)
EXTENDS Integers, Sequences

CONSTANTS
    MaxLevel,       \* largest max_level
    RegridInt,      \* RegridInt[l]: amr.regrid_int of level l, negative for never
    Dts,            \* the coarse time steps an application may choose, in ticks
    NewDtOnRegrid,  \* amr.compute_new_dt_on_regrid
    Efficient,      \* amr.use_efficient_regrid
    PostStep,       \* may the application ask for a post-step regrid?
    HandlesPostStep,\* are its init methods made for one?
    Inputs,         \* the inputs a run may start with: [maxl, ncyc]
    MaxTime,        \* bound: no coarse step starts at or after this time
    None            \* no old data, or no level

Levels == 0..MaxLevel

ASSUME LevelsAssumption == MaxLevel \in Nat \ {0} /\ None \notin Int
ASSUME RegridIntAssumption == RegridInt \in [Levels -> Int \ {0}]
ASSUME DtAssumption ==
    /\ Dts \subseteq Nat \ {0} /\ MaxTime \in Nat
    /\ \E m \in Dts : \A d \in Dts : d <= m
ASSUME FlagsAssumption ==
    {NewDtOnRegrid, Efficient, PostStep, HandlesPostStep} \subseteq BOOLEAN
ASSUME InputsAssumption ==
    \A inp \in Inputs : /\ inp.maxl \in Levels \ {0}
                        /\ inp.ncyc \in [Levels -> Nat \ {0}]
                        /\ inp.ncyc[0] = 1

VARIABLES
    max_level,      \* from the inputs
    n_cycle,        \* from the inputs
    finest_level,
    cumtime,
    dt_level,
    level_steps,
    level_count,
    newt,           \* newt[l]: new_time of level l's StateData, None if there is no level l
    oldt,           \* oldt[l]: old_time of level l's StateData, None if it has no old_data
    psr,            \* psr[l]: post_step_regrid of level l
    being,          \* which_level_being_advanced
    stack,          \* the active calls of timeStep
    mode,           \* "idle", "step" inside timeStep, "end" after it
    since           \* history: steps of level l since the grids above it were last computed

inputvars == <<max_level, n_cycle>>
datavars == <<newt, oldt, psr>>
vars == <<inputvars, finest_level, cumtime, dt_level, level_steps, level_count,
          datavars, being, stack, mode, since>>

Min2(a, b) == IF a <= b THEN a ELSE b
\* An application that asks for regrids after an advance has init methods for them.
PostStepHandled == PostStep => HandlesPostStep

MaxDt == CHOOSE m \in Dts : \A d \in Dts : d <= m

\* The call timeStep(l, time, iteration, ...), about to enter its regrid loop.
Call(l, time, iteration) ==
    [time |-> time, iteration |-> iteration, phase |-> "regrid",
     i |-> l, lev_top |-> Min2(finest_level, max_level - 1), next |-> 1]

Top == Len(stack) - 1            \* the level whose call is active
Frame == stack[Len(stack)]
Active(phase) == mode = "step" /\ Frame.phase = phase
SetFrame(f) == stack' = [stack EXCEPT ![Len(stack)] = f]

\* dt_level[l] = dt_level[l-1] / n_cycle[l] for the levels l in a..b.
Divided(d, a, b) == \A l \in a..b : d[l] * n_cycle[l] = d[l - 1]

\* computeInitialDt and computeNewDt: a new dt_level for the levels 0..top.
NewDts(d, top) ==
    /\ d[0] \in Dts
    /\ Divided(d, 1, top)
    /\ \A l \in Levels : l > top => d[l] = dt_level[l]

\* Mutant: a new level keeps the time step its number last had.
AddedDtsStale(d, old_finest, top) == \A l \in Levels : d[l] = dt_level[l]

\* timeStep and bldFineLevels: the dt_level of levels that did not exist before.
AddedDts(d, old_finest, top) ==
    /\ Divided(d, old_finest + 1, top)
    /\ \A l \in Levels : l <= old_finest \/ l > top => d[l] = dt_level[l]

DtVectors == [Levels -> 0..MaxDt]

\* FinalizeInit: the first grids, f levels above the base, all at time 0.
Init ==
    /\ \E inp \in Inputs : max_level = inp.maxl /\ n_cycle = inp.ncyc
    /\ finest_level \in 0..max_level
    /\ cumtime = 0
    /\ dt_level \in DtVectors
    /\ dt_level[0] \in Dts
    /\ Divided(dt_level, 1, finest_level)
    /\ \A l \in Levels : l > finest_level => dt_level[l] = 0    \* 1e200, never read
    /\ level_steps = [l \in Levels |-> 0]
    /\ level_count = [l \in Levels |-> 0]
    /\ newt = [l \in Levels |-> IF l <= finest_level THEN 0 ELSE None]
    /\ oldt = [l \in Levels |-> None]
    /\ psr = [l \in Levels |-> FALSE]
    /\ being = -1
    /\ stack = <<>>
    /\ mode = "idle"
    /\ since = [l \in Levels |-> 0]
-----------------------------------------------------------------------------
(* Amr::regrid(lbase, ...), up to the new level's dt, which its callers set.  *)
(* The time passed to regrid goes to the gridding only.                       *)

\* Mutant: the parent's current time, also after the parent's advance.
InitAtCurrent(lbase, post, l) == newt[l - 1]

\* AmrLevel::init(), for a level l that did not exist: AmrLevelAdv's takes the parent's
\* current time; one made for a regrid after the advance of the parent the previous.
InitTime(lbase, post, l) ==
    IF post /\ HandlesPostStep /\ l = lbase + 1 THEN oldt[l - 1] ELSE newt[l - 1]

\* Mutant: in a regrid after the advance of lbase its own old data is reclaimed too.
RedefineFromBase(lbase, post, new_finest, start) ==
    /\ finest_level' = new_finest
    /\ newt' = [l \in Levels |->
           IF l > new_finest THEN None
           ELSE IF l <= finest_level THEN newt[l]
           ELSE InitTime(lbase, post, l)]
    /\ oldt' = [l \in Levels |->
           IF l > new_finest \/ l >= lbase THEN None ELSE oldt[l]]
    /\ psr' = [l \in Levels |-> psr[l] /\ l < start]
    /\ level_steps' = [l \in Levels |->
           IF l > finest_level /\ l <= new_finest THEN level_steps[l - 1] * n_cycle[l]
           ELSE level_steps[l]]

\* The grids of the levels above lbase are computed again, up to level
\* new_finest; the levels from start on are redefined (regrid_level_zero makes
\* start 0).  post: called after the advance of lbase.
Redefine(lbase, post, new_finest, start) ==
    /\ finest_level' = new_finest
    /\ newt' = [l \in Levels |->
           IF l > new_finest THEN None
           ELSE IF l <= finest_level THEN newt[l]
           ELSE InitTime(lbase, post, l)]
    /\ oldt' = [l \in Levels |->
           IF l > new_finest \/ (l >= start /\ ~(psr[l] /\ HandlesPostStep)) THEN None ELSE oldt[l]]
    /\ psr' = [l \in Levels |-> psr[l] /\ l < start]
    /\ level_steps' = [l \in Levels |->
           IF l > finest_level /\ l <= new_finest THEN level_steps[l - 1] * n_cycle[l]
           ELSE level_steps[l]]

Regrid(lbase, post) ==
    IF lbase > Min2(finest_level, max_level - 1)
    THEN UNCHANGED <<finest_level, datavars, level_steps, since>>
    ELSE /\ since' = [l \in Levels |-> IF l >= lbase THEN 0 ELSE since[l]]
         /\ \/ Efficient /\ UNCHANGED <<finest_level, datavars, level_steps>>
            \/ \E new_finest \in lbase..Min2(finest_level + 1, max_level),
                  start \in IF lbase = 0 THEN {0, 1} ELSE {lbase + 1} :
                   Redefine(lbase, post, new_finest, start)
-----------------------------------------------------------------------------
\* coarseTimeStep: compute dt and call timeStep(0, cumtime, 1, 1).
CoarseBegin ==
    /\ mode = "idle"
    /\ cumtime < MaxTime
    /\ mode' = "step"
    /\ dt_level' \in DtVectors
    /\ NewDts(dt_level', finest_level)
    /\ stack' = <<Call(0, cumtime, 1)>>
    /\ being' = 0
    /\ psr' = [psr EXCEPT ![0] = FALSE]
    /\ UNCHANGED <<inputvars, finest_level, cumtime, level_steps, level_count, newt, oldt, since>>

okToRegrid(l) == RegridInt[l] >= 0 /\ level_count[l] >= RegridInt[l]

\* Mutant: the loop does not move on.
SkipRegridForever ==
    /\ Active("regrid")
    /\ Frame.i <= Frame.lev_top
    /\ ~okToRegrid(Frame.i)
    /\ UNCHANGED vars

\* The regrid loop of timeStep passes over level i.
SkipRegrid ==
    /\ Active("regrid")
    /\ Frame.i <= Frame.lev_top
    /\ ~okToRegrid(Frame.i)
    /\ SetFrame([Frame EXCEPT !.i = @ + 1])
    /\ UNCHANGED <<inputvars, finest_level, cumtime, dt_level, level_steps, level_count,
                   datavars, being, mode, since>>

\* Mutant: the counters of the coarser levels are reset too.
RegridBeforeAllCounts ==
    /\ Active("regrid")
    /\ Frame.i <= Frame.lev_top
    /\ okToRegrid(Frame.i)
    /\ Regrid(Frame.i, FALSE)
    /\ level_count' = [l \in Levels |-> IF l <= finest_level' THEN 0 ELSE level_count[l]]
    /\ dt_level' \in DtVectors
    /\ IF NewDtOnRegrid /\ Frame.i = 0
       THEN NewDts(dt_level', finest_level')
       ELSE AddedDts(dt_level', finest_level, finest_level')
    /\ SetFrame([Frame EXCEPT !.i = @ + 1,
                              !.lev_top = IF finest_level > finest_level'
                                          THEN Min2(finest_level', max_level - 1) ELSE @])
    /\ UNCHANGED <<inputvars, cumtime, being, mode>>

\* The regrid loop of timeStep regrids with base i.
RegridBefore ==
    /\ Active("regrid")
    /\ Frame.i <= Frame.lev_top
    /\ okToRegrid(Frame.i)
    /\ Regrid(Frame.i, FALSE)
    /\ level_count' = [l \in Levels |->
           IF l >= Frame.i /\ l <= finest_level' THEN 0 ELSE level_count[l]]
    /\ dt_level' \in DtVectors
    /\ IF NewDtOnRegrid /\ Frame.i = 0
       THEN NewDts(dt_level', finest_level')
       ELSE AddedDts(dt_level', finest_level, finest_level')
    /\ SetFrame([Frame EXCEPT !.i = @ + 1,
                              !.lev_top = IF finest_level > finest_level'
                                          THEN Min2(finest_level', max_level - 1) ELSE @])
    /\ UNCHANGED <<inputvars, cumtime, being, mode>>

\* AmrLevel::advance, with allocOldData and swapTimeLevels, and the counters.
Advance ==
    LET l == Top IN
    /\ Active("regrid")
    /\ Frame.i > Frame.lev_top
    /\ oldt' = [oldt EXCEPT ![l] = newt[l]]
    /\ newt' = [newt EXCEPT ![l] = @ + dt_level[l]]
    /\ level_steps' = [level_steps EXCEPT ![l] = @ + 1]
    /\ level_count' = [level_count EXCEPT ![l] = @ + 1]
    /\ since' = [since EXCEPT ![l] = @ + 1]
    /\ \E ask \in {FALSE, PostStep} :
          /\ psr' = [psr EXCEPT ![l] = ask]
          /\ SetFrame([Frame EXCEPT !.phase = IF ask THEN "post-step" ELSE "fine"])
    /\ UNCHANGED <<inputvars, finest_level, cumtime, dt_level, being, mode>>

\* The level asked for a regrid after its advance.
RegridAfter ==
    /\ Active("post-step")
    /\ Regrid(Top, TRUE)
    /\ dt_level' \in DtVectors
    /\ AddedDts(dt_level', finest_level, finest_level')
    /\ SetFrame([Frame EXCEPT !.phase = "fine"])
    /\ UNCHANGED <<inputvars, cumtime, level_count, being, mode>>

\* The next of the n_cycle calls for level Top + 1.
SubStep ==
    LET f == Top + 1 IN
    /\ Active("fine")
    /\ f <= finest_level
    /\ Frame.next <= n_cycle[f]
    /\ stack' = Append([stack EXCEPT ![Len(stack)].next = @ + 1],
                       Call(f, Frame.time + (Frame.next - 1) * dt_level[f], Frame.next))
    /\ being' = f
    /\ psr' = [psr EXCEPT ![f] = FALSE]
    /\ UNCHANGED <<inputvars, finest_level, cumtime, dt_level, level_steps, level_count,
                   newt, oldt, mode, since>>

\* The finer levels are done: post_timestep, and timeStep returns.
Return ==
    /\ Active("fine")
    /\ Top + 1 <= finest_level => Frame.next > n_cycle[Top + 1]
    /\ stack' = SubSeq(stack, 1, Len(stack) - 1)
    /\ being' = -1
    /\ mode' = IF Top = 0 THEN "end" ELSE mode
    /\ UNCHANGED <<inputvars, finest_level, cumtime, dt_level, level_steps, level_count,
                   datavars, since>>

\* coarseTimeStep, after timeStep(0, ...): the new time.  syncNewTimeLevel only
\* removes rounding errors of less than a thousandth of a step.
CoarseEnd ==
    /\ mode = "end"
    /\ mode' = "idle"
    /\ cumtime' = cumtime + dt_level[0]
    /\ UNCHANGED <<inputvars, finest_level, dt_level, level_steps, level_count,
                   datavars, being, stack, since>>

\* The run is over.
Done == mode = "idle" /\ cumtime >= MaxTime /\ UNCHANGED vars

TimeStep ==
    SkipRegrid \/ RegridBefore \/ Advance \/ RegridAfter \/ SubStep \/ Return \/ CoarseEnd

Next == CoarseBegin \/ TimeStep \/ Done

Spec == Init /\ [][Next]_vars

\* The code is sequential: a coarse step that can go on does.
FairSpec == Spec /\ WF_vars(TimeStep)
-----------------------------------------------------------------------------
\* The state is well formed: in particular exactly the levels up to finest_level
\* exist, and each of them has a time step.
Frames == [time : Int, iteration : Nat, phase : {"regrid", "post-step", "fine"},
           i : Nat, lev_top : Levels, next : Nat]

StateOK ==
    /\ max_level \in Levels \ {0}
    /\ n_cycle \in [Levels -> Nat \ {0}]
    /\ finest_level \in 0..max_level
    /\ cumtime \in Nat
    /\ dt_level \in DtVectors /\ \A l \in 0..finest_level : dt_level[l] > 0
    /\ level_steps \in [Levels -> Nat]
    /\ level_count \in [Levels -> Nat]
    /\ newt \in [Levels -> Int \cup {None}] /\ \A l \in Levels : newt[l] = None <=> l > finest_level
    /\ oldt \in [Levels -> Int \cup {None}]
    /\ psr \in [Levels -> BOOLEAN]
    /\ being \in Levels \cup {-1}
    /\ stack \in Seq(Frames)
    /\ since \in [Levels -> Nat]

TypeOK == StateOK /\ mode \in {"idle", "step", "end"}

\* The hierarchy keeps the subcycling contract: fine steps lie inside their
\* parent's step and start where the parent has data to interpolate, whatever
\* levels the regrids create and destroy, in the middle of a step too where
\* PostStepHandled.
S == INSTANCE Subcycling WITH hi <- newt, lo <- oldt
Contract == S!Spec

\* The time timeStep computes from the recursion and the time the level's data
\* carries agree: a call starts at the data's time, and after the advance the
\* data has moved on by dt_level from there.  Where PostStepHandled.
StepTime ==
    \A k \in 1..Len(stack) :
        LET l == k - 1 IN
        IF stack[k].phase = "regrid"
        THEN newt[l] = stack[k].time
        ELSE newt[l] = stack[k].time + dt_level[l] /\ oldt[l] = stack[k].time

\* Between coarse steps every level is at cumtime, so that the synchronisation
\* of the state data times has nothing but rounding to remove.  Where
\* PostStepHandled.
Synced == mode = "idle" => \A l \in 0..finest_level : newt[l] = cumtime

\* No level that may have a finer one takes more than regrid_int steps on fine
\* grids computed from older data, though the counters are also reset by the
\* regrids of coarser levels and the level may vanish and come back.
RegridInTime ==
    \A l \in 0..(max_level - 1) :
        l <= finest_level /\ RegridInt[l] > 0 => since[l] <= RegridInt[l]

\* The parts of the inductive invariant.
\* The calls of timeStep: one for each level from 0 to Top, each but the last at the
\* point where it has called the next one.
Recursion ==
    /\ mode # "step" => stack = <<>>
    /\ mode = "step" =>
          /\ stack # <<>> /\ Top <= finest_level /\ stack[1].time = cumtime
          /\ Divided(dt_level, 1, finest_level)
    /\ \A k \in 1..(Len(stack) - 1) :
          /\ stack[k].phase = "fine"
          /\ stack[k].next \in 2..(n_cycle[k] + 1)
          /\ stack[k + 1].time = stack[k].time + (stack[k].next - 2) * dt_level[k]

\* The active call, by its phase.
ActiveCall ==
    mode = "step" =>
        /\ Frame.phase = "regrid" =>
              /\ Frame.i >= Top
              /\ Frame.lev_top \in Min2(Top, max_level - 1)..Min2(finest_level, max_level - 1)
              /\ (Frame.i > Top /\ RegridInt[Top] > 0 /\ Top < max_level)
                    => level_count[Top] < RegridInt[Top]
        /\ Frame.phase = "post-step" => PostStep /\ psr[Top] /\ oldt[Top] # None
        /\ Frame.phase # "fine" => Frame.next = 1
        /\ Frame.phase = "fine" => Frame.next >= 1
        /\ (Frame.phase = "fine" /\ Top < finest_level) => Frame.next <= n_cycle[Top + 1] + 1

\* All levels finer than that of the active call have made the same number of the
\* steps of the next one.
FinerTimes ==
    mode = "step" => \A m \in (Top + 1)..finest_level :
        newt[m] = Frame.time + IF Frame.phase = "fine" THEN (Frame.next - 1) * dt_level[Top + 1] ELSE 0

AtRest ==
    mode # "step" => \A l \in 0..finest_level :
        newt[l] = cumtime + IF mode = "end" THEN dt_level[0] ELSE 0

\* Counted steps, whether or not the level exists.
CountsOK ==
    \A l \in 0..(max_level - 1) :
        /\ since[l] <= level_count[l]
        /\ RegridInt[l] > 0 => since[l] <= RegridInt[l]

\* What the times are, if the application's init methods see to it.
ClocksOK == StepTime /\ FinerTimes /\ AtRest

HierarchyOK == Recursion /\ ActiveCall /\ CountsOK /\ (PostStepHandled => ClocksOK)

IInv == TypeOK /\ HierarchyOK

\* Every coarse step ends.
StepEnds == (mode = "step") ~> (mode = "idle")
=============================================================================

---------------------------- MODULE AmrCheckpoint ----------------------------
(***************************************************************************)
(* Checkpoints and restarts of amrex::Amr (checkPoint and restart in       *)
(* Src/Amr/AMReX_Amr.cpp), composed with the time stepping of AmrDriver.   *)
(*                                                                         *)
(* A checkpoint is written between two coarse steps into a directory of a  *)
(* temporary name, first the Header, then the levels one after another,    *)
(* and renamed when everything is in it (without AsyncOut).  The program   *)
(* may crash at any time, also in the middle of a write, and is started    *)
(* again by hand from a directory with a checkpoint's name, possibly with  *)
(* another max_level or n_cycle in the inputs.                             *)
(***************************************************************************)
EXTENDS AmrDriver

CONSTANTS
    RegridOnRestart,  \* the values amr.regrid_on_restart may have in the inputs
    MaxCrashes,       \* bound: number of crashes
    MaxSteps          \* bound: coarse steps after which checkpoints are written

ASSUME RestartAssumption ==
    /\ RegridOnRestart \subseteq BOOLEAN /\ MaxCrashes \in Nat /\ MaxSteps \in Nat
    /\ TRUE \in RegridOnRestart => RegridInt[0] > 0

VARIABLES
    disk,      \* disk[n]: the directory named for step n, None if there is none
    olds,      \* the directories renamed out of the way
    temp,      \* the directory of temporary name being filled, None if there is none
    crashes    \* history: number of crashes

diskvars == <<disk, olds, temp>>
allvars == <<vars, diskvars, crashes>>

\* What checkPoint writes of the driver and of the levels 0..finest_level.
Header ==
    [cumtime |-> cumtime, max_level |-> max_level, finest_level |-> finest_level,
     dt_level |-> dt_level, n_cycle |-> n_cycle, level_steps |-> level_steps,
     level_count |-> level_count, since |-> since,
     newt |-> newt, oldt |-> oldt, written |-> {}]

\* The directories a restart may be given.
Dirs == olds \cup ({disk[n] : n \in 0..MaxSteps} \ {None})
Whole(d) == d.written = 0..d.finest_level

CheckpointInit ==
    /\ Init
    /\ disk = [n \in 0..MaxSteps |-> None]
    /\ olds = {}
    /\ temp = None
    /\ crashes = 0

\* The steps of the driver, while no checkpoint is being written.
Driver ==
    /\ CoarseBegin \/ TimeStep
    /\ UNCHANGED <<diskvars, crashes>>

\* Mutant: a directory of the same name is overwritten.
CheckpointBeginOverwrite ==
    /\ mode = "idle"
    /\ level_steps[0] <= MaxSteps
    /\ mode' = "write"
    /\ disk' = [disk EXCEPT ![level_steps[0]] = None]
    /\ temp' = Header
    /\ UNCHANGED <<inputvars, finest_level, cumtime, dt_level, level_steps, level_count,
                   datavars, being, stack, since, olds, crashes>>

\* checkPoint, first part: a directory of the same name is moved out of the way,
\* a temporary one is created empty, and the Header is written in it.
CheckpointBegin ==
    /\ mode = "idle"
    /\ level_steps[0] <= MaxSteps
    /\ mode' = "write"
    /\ olds' = IF disk[level_steps[0]] = None THEN olds ELSE olds \cup {disk[level_steps[0]]}
    /\ disk' = [disk EXCEPT ![level_steps[0]] = None]
    /\ temp' = Header
    /\ UNCHANGED <<inputvars, finest_level, cumtime, dt_level, level_steps, level_count,
                   datavars, being, stack, since, crashes>>

\* The data of the next level.
CheckpointLevel ==
    /\ mode = "write"
    /\ ~Whole(temp)
    /\ \E l \in 0..finest_level :
          /\ temp.written = 0..(l - 1)
          /\ temp' = [temp EXCEPT !.written = @ \cup {l}]
    /\ UNCHANGED <<vars, disk, olds, crashes>>

\* Mutant: the rename does not wait for the levels.
CheckpointRenameEarly ==
    /\ mode = "write"
    /\ mode' = "idle"
    /\ disk' = [disk EXCEPT ![level_steps[0]] = temp]
    /\ temp' = None
    /\ UNCHANGED <<inputvars, finest_level, cumtime, dt_level, level_steps, level_count,
                   datavars, being, stack, since, olds, crashes>>

\* The temporary directory gets its name.
CheckpointRename ==
    /\ mode = "write"
    /\ Whole(temp)
    /\ mode' = "idle"
    /\ disk' = [disk EXCEPT ![level_steps[0]] = temp]
    /\ temp' = None
    /\ UNCHANGED <<inputvars, finest_level, cumtime, dt_level, level_steps, level_count,
                   datavars, being, stack, since, olds, crashes>>

\* The program dies: nothing but the disk remains, and the variables of the
\* driver are those of a program that has not read anything yet.
Crash ==
    /\ crashes < MaxCrashes
    /\ crashes' = crashes + 1
    /\ mode' = "down"
    /\ stack' = <<>>
    /\ being' = -1
    /\ finest_level' = 0
    /\ cumtime' = 0
    /\ dt_level' = [l \in Levels |-> 0]
    /\ level_steps' = [l \in Levels |-> 0]
    /\ level_count' = [l \in Levels |-> 0]
    /\ since' = [l \in Levels |-> 0]
    /\ newt' = [l \in Levels |-> None]
    /\ oldt' = [l \in Levels |-> None]
    /\ psr' = [l \in Levels |-> FALSE]
    /\ temp' = None
    /\ UNCHANGED <<inputvars, disk, olds>>

\* The steps of the levels after a restart: those of the file up to level kept, and
\* for the levels above as many as their parents' steps make.
RestartSteps(file, kept, maxl, ncyc) ==
    LET steps[l \in Levels] ==
            IF l <= kept THEN file[l]
            ELSE IF l <= maxl THEN ncyc[l] * steps[l - 1] ELSE 0
    IN  steps

\* restart, from directory d with the inputs inp: a program that has just been
\* started reads the Header and the data of the levels 0..top.  file: how many of
\* its per-level counters come from the file, kept levels or fewer.  A level above
\* finest_level has no dt, so its dt_level is 0 whatever the file says.  A changed
\* n_cycle sets level_count[0], which is then overwritten from the file.
Resume(d, inp, regrid_on_restart, top, file) ==
    LET more == inp.maxl >= d.max_level
        kept == Min2(d.max_level, inp.maxl)
        ncyc == [l \in Levels |-> IF ~more /\ l <= kept THEN d.n_cycle[l] ELSE inp.ncyc[l]]
        counts == [l \in Levels |->
            CASE l = 0 /\ regrid_on_restart -> RegridInt[0]
              [] l < file -> d.level_count[l]
              [] OTHER -> 0]
    IN
    /\ mode = "down"
    /\ mode' = "idle"
    /\ max_level' = inp.maxl
    /\ n_cycle' = ncyc
    /\ finest_level' = top
    /\ cumtime' = d.cumtime
    /\ dt_level' = [l \in Levels |-> IF l <= top THEN d.dt_level[l] ELSE 0]
    /\ level_steps' = RestartSteps(d.level_steps, kept, inp.maxl, ncyc)
    /\ level_count' = counts
    /\ since' = [l \in Levels |-> IF l < d.max_level THEN d.since[l] ELSE 0]
    /\ newt' = [l \in Levels |-> IF l <= top THEN d.newt[l] ELSE None]
    /\ oldt' = [l \in Levels |-> IF l <= top THEN d.oldt[l] ELSE None]
    /\ psr' = [l \in Levels |-> FALSE]
    /\ being' = -1
    /\ stack' = <<>>
    /\ UNCHANGED <<diskvars, crashes>>

\* Mutant: max_level + 1 levels are read whether the file has them or not.
RestartAllLevels(d, inp, regrid_on_restart) ==
    Resume(d, inp, regrid_on_restart, inp.maxl, Min2(d.max_level, inp.maxl) + 1)

\* restart: as many levels as the file has and max_level allows.
Restart(d, inp, regrid_on_restart) ==
    Resume(d, inp, regrid_on_restart, Min2(inp.maxl, d.finest_level), Min2(d.max_level, inp.maxl) + 1)

\* There is nothing to restart from: the run is lost.
Lost == mode = "down" /\ Dirs = {} /\ UNCHANGED allvars

CheckpointNext ==
    \/ Driver
    \/ CheckpointBegin
    \/ CheckpointLevel
    \/ CheckpointRename
    \/ Crash
    \/ \E inp \in Inputs, regrid_on_restart \in RegridOnRestart :
          \E d \in Dirs : Restart(d, inp, regrid_on_restart)
    \/ Lost
    \/ Done /\ UNCHANGED <<diskvars, crashes>>

CheckpointSpec == CheckpointInit /\ [][CheckpointNext]_allvars
-----------------------------------------------------------------------------
\* A directory with a checkpoint's name, or moved out of its way, holds a whole
\* checkpoint of a synchronised hierarchy, whenever the program died.  Where
\* PostStepHandled.
WholeCheckpoints ==
    \A d \in Dirs :
        /\ Whole(d)
        /\ \A l \in 0..d.finest_level : d.newt[l] = d.cumtime

\* What a restart relies on in a directory, which may lack the data of some levels.
Checkpoints ==
    [cumtime : Nat, max_level : Levels \ {0}, finest_level : Levels,
     dt_level : DtVectors, n_cycle : [Levels -> Nat \ {0}],
     level_steps : [Levels -> Nat], level_count : [Levels -> Nat], since : [Levels -> Nat],
     newt : [Levels -> Int \cup {None}], oldt : [Levels -> Int \cup {None}],
     written : SUBSET Levels]

HeaderOK(d) ==
    /\ d \in Checkpoints
    /\ d.finest_level <= d.max_level
    /\ \A l \in 0..d.finest_level : d.dt_level[l] > 0 /\ d.newt[l] # None
    /\ PostStepHandled => \A l \in 0..d.finest_level : d.newt[l] = d.cumtime
    /\ \A l \in 0..(d.max_level - 1) :
          /\ d.since[l] <= d.level_count[l]
          /\ RegridInt[l] > 0 => d.since[l] <= RegridInt[l]

\* The disk: a directory with a checkpoint's name is whole, and while one of temporary
\* name is filled the name it will get is not taken.
DiskOK ==
    /\ \A d \in Dirs : HeaderOK(d) /\ Whole(d)
    /\ mode = "write" =>
          /\ HeaderOK(temp)
          /\ level_steps[0] <= MaxSteps /\ disk[level_steps[0]] = None

\* The inductive invariant.
CheckpointIInv ==
    /\ mode \in {"idle", "step", "end", "write", "down"}
    /\ mode # "down" => StateOK /\ HierarchyOK
    /\ disk = [n \in 0..MaxSteps |-> disk[n]]
    /\ DiskOK

\* A checkpoint, once whole, is never lost: not when the run that follows a
\* restart writes the same step again and dies in the middle of it.
NothingLost == [][Dirs \subseteq Dirs']_allvars
=============================================================================

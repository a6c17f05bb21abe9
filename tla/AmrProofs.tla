----------------------------- MODULE AmrProofs -----------------------------
(***************************************************************************)
(* For any number of levels, any n_cycle, any regrid intervals and any     *)
(* choices of time steps: the driver keeps the times of the levels as the  *)
(* subcycling contract wants them, regrids in time, and its checkpoints,   *)
(* whatever crashes happen, are whole and never lost.                      *)
(*                                                                         *)
(* Core is the invariant without the mode, to which checkpoints add their  *)
(* own.  Each step of the driver preserves it, in a plain run and in one   *)
(* that writes checkpoints and is restarted from them.                     *)
(***************************************************************************)
EXTENDS AmrCheckpoint, SequenceTheorems, NaturalsInduction, WellFoundedInduction, TLAPS

Core == StateOK /\ HierarchyOK

-----------------------------------------------------------------------------
(***************************************************************************)
(* Numbers and sequences                                                   *)
(***************************************************************************)
LEMMA Products ==
    ASSUME NEW a \in Nat, NEW b \in Nat
    PROVE  a * b \in Nat
  OBVIOUS

LEMMA PositiveFactor ==
    ASSUME NEW a \in Nat, NEW b \in Nat, a * b > 0
    PROVE  a > 0
  OBVIOUS

LEMMA PartOfProduct ==
    ASSUME NEW k \in Nat, NEW n \in Nat, NEW d \in Nat, k <= n
    PROVE  k * d <= n * d
  <1> DEFINE e == n - k
  <1>1. e \in Nat /\ n = k + e
    OBVIOUS
  <1>2. (k + e) * d = k * d + e * d
    BY <1>1
  <1>3. e * d \in Nat /\ k * d \in Nat
    BY <1>1, Products
  <1> HIDE DEF e
  <1> QED
    BY <1>1, <1>2, <1>3

LEMMA OneMore ==
    ASSUME NEW k \in Int, NEW d \in Int
    PROVE  (k - 1) * d + d = k * d
  OBVIOUS

LEMMA LeastNumber ==
    ASSUME NEW T \in SUBSET Nat, T # {}
    PROVE  \E n \in T : \A m \in T : n <= m
  <1> DEFINE Less == OpToRel(<, Nat)
  <1>1. IsWellFoundedOn(Less, Nat)
    BY NatLessThanWellFounded
  <1> HIDE DEF Less
  <1>2. PICK n \in T : \A m \in T : ~(<<m, n>> \in Less)
    BY <1>1, WFMin
  <1>3. ASSUME NEW m \in T, m < n PROVE FALSE
    <2>1. <<m, n>> \in Less
      BY <1>3 DEF Less, OpToRel
    <2> QED
      BY <1>2, <2>1
  <1> QED
    BY <1>3

\* A time step divided into positive numbers of parts stays positive.
LEMMA DividedPositive ==
    ASSUME NEW d \in [Levels -> Nat], NEW c \in [Levels -> Nat \ {0}],
           NEW a \in Levels, NEW b \in Levels, d[a] > 0,
           \A l \in (a + 1)..b : d[l] * c[l] = d[l - 1]
    PROVE  \A l \in a..b : d[l] > 0
  <1> DEFINE T == {l \in a..b : ~(d[l] > 0)}
  <1> SUFFICES ASSUME T # {} PROVE FALSE
    OBVIOUS
  <1>1. T \in SUBSET Nat
    BY DEF Levels
  <1>2. PICK n \in T : \A m \in T : n <= m
    BY <1>1, LeastNumber
  <1>3. n \in (a + 1)..b /\ n - 1 \in a..b /\ n - 1 \notin T
    BY <1>1, <1>2 DEF Levels
  <1>4. d[n - 1] > 0 /\ d[n] * c[n] = d[n - 1]
    BY <1>3
  <1>5. n \in Levels /\ n \in Nat /\ d[n] = 0 /\ c[n] \in Nat /\ d[n] \in Nat
    BY <1>2, <1>3, LevelsAssumption DEF Levels
  <1> QED
    BY <1>4, <1>5

LEMMA LevelNumbers ==
    /\ Levels \subseteq Nat
    /\ \A l \in Levels : 0..l \subseteq Levels
    /\ 0 \in Levels /\ MaxLevel \in Levels /\ MaxLevel \in Nat \ {0}
  BY LevelsAssumption DEF Levels

LEMMA DtNumbers ==
    ASSUME NEW d \in DtVectors
    PROVE  d \in [Levels -> Nat]
  BY DEF DtVectors

-----------------------------------------------------------------------------
(***************************************************************************)
(* What a regrid with base b does                                          *)
(***************************************************************************)
RegridTypes ==
    /\ finest_level' \in 0..max_level
    /\ newt' \in [Levels -> Int \cup {None}] /\ \A l \in Levels : newt'[l] = None <=> l > finest_level'
    /\ oldt' \in [Levels -> Int \cup {None}]
    /\ psr' \in [Levels -> BOOLEAN]
    /\ level_steps' \in [Levels -> Nat]
    /\ since' \in [Levels -> Nat]

\* The levels that survive keep their times; at most one level is new, and starts
\* where init puts it.
RegridTimes(b, post) ==
    /\ finest_level' \in b..(finest_level + 1)
    /\ \A l \in Levels : l <= finest_level /\ l <= finest_level' => newt'[l] = newt[l]
    /\ finest_level' > finest_level =>
          newt'[finest_level'] = IF post /\ HandlesPostStep /\ finest_level = b
                                 THEN oldt[b] ELSE newt[finest_level]
    /\ \A l \in Levels : oldt'[l] \in {oldt[l], None}
    /\ \A l \in Levels : l < b \/ (l = b /\ psr[b] /\ HandlesPostStep) => oldt'[l] = oldt[l]

LEMMA RedefineEffects ==
    ASSUME StateOK, NEW b \in Levels, b <= finest_level, NEW post \in BOOLEAN,
           post => oldt[b] # None,
           NEW new_finest \in b..Min2(finest_level + 1, max_level),
           NEW start \in IF b = 0 THEN {0, 1} ELSE {b + 1},
           Redefine(b, post, new_finest, start)
    PROVE  /\ finest_level' \in 0..max_level
           /\ newt' \in [Levels -> Int \cup {None}]
           /\ \A l \in Levels : newt'[l] = None <=> l > finest_level'
           /\ oldt' \in [Levels -> Int \cup {None}]
           /\ psr' \in [Levels -> BOOLEAN]
           /\ level_steps' \in [Levels -> Nat]
           /\ RegridTimes(b, post)
  <1>1. /\ b \in Nat /\ finest_level \in Nat /\ max_level \in Nat /\ finest_level \in Levels
        /\ max_level \in Levels /\ finest_level <= max_level
    BY LevelsAssumption DEF StateOK, Levels
  <1>2. /\ new_finest \in Nat /\ b <= new_finest /\ new_finest <= finest_level + 1
        /\ new_finest <= max_level /\ finest_level' = new_finest /\ start \in Nat
        /\ b > 0 => start = b + 1
    BY <1>1 DEF Redefine, Min2
  <1>3. \A l \in Levels : newt'[l] =
           IF l > new_finest THEN None
           ELSE IF l <= finest_level THEN newt[l]
           ELSE IF post /\ HandlesPostStep /\ l = b + 1 THEN oldt[l - 1] ELSE newt[l - 1]
    BY DEF Redefine, InitTime
  <1>4. \A l \in Levels : oldt'[l] =
           IF l > new_finest \/ (l >= start /\ ~(psr[l] /\ HandlesPostStep)) THEN None ELSE oldt[l]
    BY DEF Redefine
  <1>5. /\ newt \in [Levels -> Int \cup {None}] /\ oldt \in [Levels -> Int \cup {None}]
        /\ psr \in [Levels -> BOOLEAN] /\ level_steps \in [Levels -> Nat]
        /\ n_cycle \in [Levels -> Nat \ {0}]
        /\ \A l \in Levels : newt[l] = None <=> l > finest_level
    BY DEF StateOK
  <1>6. \A l \in Levels : l \in Nat /\ (l > 0 => l - 1 \in Levels)
    BY LevelsAssumption DEF Levels
  <1>7. \A l \in Levels : l > new_finest => newt'[l] = None
    BY <1>3
  <1>8. ASSUME NEW l \in Levels, l <= new_finest
        PROVE  newt'[l] \in Int
    <2>1. CASE l <= finest_level
      BY <1>1, <1>2, <1>3, <1>5, <1>6, <1>8, <2>1
    <2>2. CASE l > finest_level
      <3>1. l = finest_level + 1 /\ l - 1 = finest_level /\ newt[finest_level] \in Int
        BY <1>1, <1>2, <1>5, <1>6, <1>8, <2>2
      <3>2. post => oldt[b] \in Int
        BY <1>5
      <3> QED
        BY <1>1, <1>2, <1>3, <1>6, <1>8, <2>2, <3>1, <3>2
    <2> QED
      BY <1>1, <1>6, <2>1, <2>2
  <1>9. \A l \in Levels : newt'[l] \in Int \cup {None} /\ (newt'[l] = None <=> l > finest_level')
    BY <1>2, <1>6, <1>7, <1>8, LevelsAssumption
  <1>10. newt' \in [Levels -> Int \cup {None}]
    BY <1>9 DEF Redefine
  <1>11. oldt' \in [Levels -> Int \cup {None}] /\ psr' \in [Levels -> BOOLEAN]
    BY <1>5 DEF Redefine
  <1>12. level_steps' \in [Levels -> Nat]
    <2>1. ASSUME NEW l \in Levels, l > finest_level
          PROVE  level_steps[l - 1] * n_cycle[l] \in Nat
      <3>1. level_steps[l - 1] \in Nat /\ n_cycle[l] \in Nat
        BY <1>1, <1>5, <1>6, <2>1
      <3> QED
        BY <3>1, Products
    <2> QED
      BY <1>2, <1>5, <2>1 DEF Redefine
  <1>13. RegridTimes(b, post)
    <2>1. ASSUME NEW l \in Levels, l <= finest_level, l <= finest_level'
          PROVE  newt'[l] = newt[l]
      <3>1. ~(l > new_finest)
        BY <1>2, <1>6, <2>1
      <3> QED
        BY <1>3, <2>1, <3>1
    <2>2. finest_level' > finest_level =>
             newt'[finest_level'] = IF post /\ HandlesPostStep /\ finest_level = b
                                    THEN oldt[b] ELSE newt[finest_level]
      <3> SUFFICES ASSUME new_finest > finest_level
                   PROVE  newt'[new_finest] =
                             IF post /\ HandlesPostStep /\ finest_level = b
                             THEN oldt[b] ELSE newt[finest_level]
        BY <1>2
      <3>1. new_finest = finest_level + 1 /\ new_finest - 1 = finest_level /\ new_finest \in Levels
        BY <1>1, <1>2, LevelsAssumption DEF Levels
      <3> QED
        BY <1>1, <1>3, <3>1
    <2>3. \A l \in Levels : oldt'[l] \in {oldt[l], None}
      BY <1>4
    <2>4. \A l \in Levels : l < b \/ (l = b /\ psr[b] /\ HandlesPostStep) => oldt'[l] = oldt[l]
      BY <1>1, <1>2, <1>4, <1>6
    <2> QED
      BY <1>1, <1>2, <2>1, <2>2, <2>3, <2>4 DEF RegridTimes
  <1> QED
    BY <1>1, <1>2, <1>9, <1>10, <1>11, <1>12, <1>13

LEMMA RegridEffects ==
    ASSUME StateOK, NEW b \in Levels, b <= finest_level, NEW post \in BOOLEAN,
           post => oldt[b] # None,
           Regrid(b, post)
    PROVE  /\ RegridTypes
           /\ RegridTimes(b, post)
           /\ \A l \in Levels : since'[l] =
                 IF l >= b /\ b <= Min2(finest_level, max_level - 1) THEN 0 ELSE since[l]
  <1>1. b \in Nat /\ finest_level \in Nat /\ max_level \in Nat /\ finest_level \in 0..max_level
    BY LevelsAssumption DEF StateOK, Levels
  <1>2. since \in [Levels -> Nat]
    BY DEF StateOK
  <1> DEFINE regridded == b <= Min2(finest_level, max_level - 1)
             changed == /\ finest_level' \in 0..max_level
                        /\ newt' \in [Levels -> Int \cup {None}]
                        /\ \A l \in Levels : newt'[l] = None <=> l > finest_level'
                        /\ oldt' \in [Levels -> Int \cup {None}]
                        /\ psr' \in [Levels -> BOOLEAN]
                        /\ level_steps' \in [Levels -> Nat]
                        /\ RegridTimes(b, post)
  <1>3. ASSUME UNCHANGED <<finest_level, datavars, level_steps>> PROVE changed
    <2>1. UNCHANGED <<finest_level, newt, oldt, psr, level_steps>>
      BY <1>3 DEF datavars
    <2>2. RegridTimes(b, post)
      BY <1>1, <2>1 DEF RegridTimes
    <2> QED
      BY <2>1, <2>2 DEF StateOK
  <1>4. b > Min2(finest_level, max_level - 1) <=> ~regridded
    BY <1>1 DEF Min2
  <1>5. CASE ~regridded
    <2>1. UNCHANGED <<finest_level, datavars, level_steps, since>>
      BY <1>4, <1>5 DEF Regrid
    <2> QED
      BY <1>2, <1>3, <1>5, <2>1 DEF RegridTypes
  <1>6. CASE regridded
    <2>1. since' = [l \in Levels |-> IF l >= b THEN 0 ELSE since[l]]
      BY <1>4, <1>6 DEF Regrid
    <2>2. changed
      <3>1. \/ UNCHANGED <<finest_level, datavars, level_steps>>
            \/ \E new_finest \in b..Min2(finest_level + 1, max_level),
                  start \in IF b = 0 THEN {0, 1} ELSE {b + 1} :
                   Redefine(b, post, new_finest, start)
        BY <1>4, <1>6 DEF Regrid
      <3> HIDE DEF regridded, changed
      <3>2. ASSUME NEW new_finest \in b..Min2(finest_level + 1, max_level),
                   NEW start \in IF b = 0 THEN {0, 1} ELSE {b + 1},
                   Redefine(b, post, new_finest, start)
            PROVE  changed
        BY <3>2, RedefineEffects DEF changed
      <3> QED
        BY <1>3, <3>1, <3>2
    <2>3. /\ since' \in [Levels -> Nat]
          /\ \A l \in Levels : since'[l] = IF l >= b /\ regridded THEN 0 ELSE since[l]
      BY <1>2, <1>6, <2>1
    <2> QED
      BY <2>2, <2>3 DEF RegridTypes
  <1> QED
    BY <1>5, <1>6

-----------------------------------------------------------------------------
(***************************************************************************)
(* The active call                                                         *)
(***************************************************************************)
LEMMA ActiveFacts ==
    ASSUME Core, mode = "step"
    PROVE  /\ stack \in Seq(Frames) /\ Len(stack) \in Nat \ {0}
           /\ Frame \in Frames /\ Frame = stack[Top + 1]
           /\ Top \in Nat /\ Top + 1 = Len(stack)
           /\ Top <= finest_level /\ finest_level <= max_level /\ max_level <= MaxLevel
           /\ finest_level \in Nat /\ max_level \in Nat \ {0} /\ MaxLevel \in Nat
           /\ Top \in Levels /\ finest_level \in Levels
           /\ Divided(dt_level, 1, finest_level)
           /\ \A l \in 0..finest_level : l \in Levels /\ newt[l] \in Int
           /\ \A l \in Levels : dt_level[l] \in Nat /\ l \in Nat
  <1>1. stack \in Seq(Frames) /\ stack # <<>> /\ Top <= finest_level
                           /\ Divided(dt_level, 1, finest_level)
    BY DEF Core, StateOK, HierarchyOK, Recursion
  <1>2. Len(stack) \in Nat \ {0} /\ stack[Len(stack)] \in Frames
    BY <1>1, EmptySeq, ElementOfSeq
  <1>3. Top \in Nat /\ Top + 1 = Len(stack) /\ Frame = stack[Top + 1]
    BY <1>2 DEF Top, Frame
  <1>4. /\ finest_level <= max_level /\ max_level <= MaxLevel
        /\ finest_level \in Nat /\ max_level \in Nat \ {0} /\ MaxLevel \in Nat
    BY LevelsAssumption DEF Core, StateOK, Levels
  <1>5. Top \in Levels /\ finest_level \in Levels
    BY <1>1, <1>3, <1>4 DEF Levels
  <1>6. ASSUME NEW l \in 0..finest_level PROVE l \in Levels /\ newt[l] \in Int
    <2>1. l \in Levels /\ ~(l > finest_level)
      BY <1>4, <1>6 DEF Levels
    <2> QED
      BY <2>1 DEF Core, StateOK
  <1>7. \A l \in Levels : dt_level[l] \in Nat /\ l \in Nat
    BY LevelNumbers, DtNumbers DEF Core, StateOK
  <1> QED
    BY <1>1, <1>2, <1>3, <1>4, <1>5, <1>6, <1>7 DEF Frame

LEMMA SetFrameFacts ==
    ASSUME Core, mode = "step", NEW f \in Frames, SetFrame(f)
    PROVE  /\ stack' \in Seq(Frames) /\ stack' # <<>>
           /\ Len(stack') = Len(stack) /\ Top' = Top /\ Frame' = f
           /\ \A k \in 1..(Len(stack) - 1) : stack'[k] = stack[k]
           /\ f.time = Frame.time => \A k \in 1..Len(stack) : stack'[k].time = stack[k].time
  <1>1. stack \in Seq(Frames) /\ Len(stack) \in Nat \ {0} /\ Frame = stack[Len(stack)]
    BY ActiveFacts DEF Frame
  <1>2. stack' = [stack EXCEPT ![Len(stack)] = f]
    BY DEF SetFrame
  <1>3. /\ stack' \in Seq(Frames) /\ Len(stack') = Len(stack)
        /\ \A k \in 1..Len(stack) : stack'[k] = IF k = Len(stack) THEN f ELSE stack[k]
    BY <1>1, <1>2, ExceptSeq
  <1>4. stack' # <<>>
    BY <1>1, <1>3, EmptySeq
  <1>5. Top' = Top /\ Frame' = f
    BY <1>1, <1>3 DEF Top, Frame
  <1> QED
    BY <1>1, <1>3, <1>4, <1>5

\* A step that replaces the active frame keeps what concerns the calls below it.
LEMMA FrameStep ==
    ASSUME Core, mode = "step", NEW f \in Frames, SetFrame(f), f.time = Frame.time,
           UNCHANGED <<inputvars, cumtime, mode>>, being' \in Levels \cup {-1},
           RegridTypes, level_count' \in [Levels -> Nat],
           dt_level' \in DtVectors, \A l \in 0..finest_level' : dt_level'[l] > 0,
           Divided(dt_level', 1, finest_level'),
           Top <= finest_level',
           \A l \in 0..(Top - 1) :
              newt'[l] = newt[l] /\ oldt'[l] = oldt[l] /\ dt_level'[l] = dt_level[l],
           Top > 0 => dt_level'[Top] = dt_level[Top],
           PostStepHandled => IF f.phase = "regrid" THEN newt'[Top] = f.time
                              ELSE newt'[Top] = f.time + dt_level'[Top] /\ oldt'[Top] = f.time,
           PostStepHandled => FinerTimes',
           ActiveCall', CountsOK'
    PROVE  Core'
  <1>1. /\ stack' \in Seq(Frames) /\ stack' # <<>>
        /\ Len(stack') = Len(stack) /\ Top' = Top /\ Frame' = f
        /\ \A k \in 1..(Len(stack) - 1) : stack'[k] = stack[k]
        /\ \A k \in 1..Len(stack) : stack'[k].time = stack[k].time
    BY SetFrameFacts
  <1>2. Top \in Nat /\ Top + 1 = Len(stack) /\ Frame = stack[Top + 1]
    BY ActiveFacts
  <1>3. UNCHANGED <<max_level, n_cycle, cumtime, mode>>
    BY DEF inputvars
  <1>4. StateOK'
    BY <1>1, <1>3 DEF StateOK, Core, RegridTypes
  <1>5. Recursion /\ (PostStepHandled => StepTime)
    BY DEF Core, HierarchyOK, ClocksOK
  <1>6. Recursion'
    <2>1. stack'[1].time = cumtime'
      BY <1>1, <1>2, <1>3, <1>5 DEF Recursion
    <2>2. Divided(dt_level, 1, finest_level)'
      BY <1>3 DEF Divided
    <2>3. ASSUME NEW k \in 1..(Len(stack) - 1)
          PROVE  /\ stack'[k].phase = "fine"
                 /\ stack'[k].next \in 2..(n_cycle'[k] + 1)
                 /\ stack'[k + 1].time = stack'[k].time + (stack'[k].next - 2) * dt_level'[k]
      <3>1. k \in 1..Top /\ k + 1 \in 1..Len(stack)
        BY <1>2
      <3>2. dt_level'[k] = dt_level[k]
        BY <1>2, <3>1
      <3>3. stack'[k + 1].time = stack[k + 1].time /\ stack'[k] = stack[k]
        BY <1>1, <3>1
      <3> QED
        BY <1>3, <1>5, <3>2, <3>3 DEF Recursion
    <2> QED
      BY <1>1, <1>3, <2>1, <2>2, <2>3 DEF Recursion
  <1>7. ASSUME PostStepHandled PROVE StepTime'
    <2>1. ASSUME NEW k \in 1..(Len(stack) - 1)
          PROVE  /\ stack'[k].phase = "fine" /\ newt'[k - 1] = stack'[k].time + dt_level'[k - 1]
                 /\ oldt'[k - 1] = stack'[k].time
      <3>1. k - 1 \in 0..(Top - 1) /\ k \in 1..Len(stack)
        BY <1>2
      <3>2. stack'[k] = stack[k] /\ stack[k].phase = "fine"
        BY <1>1, <1>5 DEF Recursion
      <3>3. newt[k - 1] = stack[k].time + dt_level[k - 1] /\ oldt[k - 1] = stack[k].time
        BY <1>5, <1>7, <3>1, <3>2 DEF StepTime
      <3> QED
        BY <3>1, <3>2, <3>3
    <2>2. stack'[Len(stack)] = f /\ Len(stack) - 1 = Top
      BY <1>1, <1>2 DEF Frame
    <2>3. ASSUME NEW k \in 1..Len(stack')
          PROVE  IF stack'[k].phase = "regrid"
                 THEN newt'[k - 1] = stack'[k].time
                 ELSE newt'[k - 1] = stack'[k].time + dt_level'[k - 1] /\ oldt'[k - 1] = stack'[k].time
      <3>1. CASE k = Len(stack)
        BY <1>7, <2>2, <3>1
      <3>2. CASE k # Len(stack)
        <4>1. k \in 1..(Len(stack) - 1)
          BY <1>1, <1>2, <3>2
        <4> QED
          BY <2>1, <4>1
      <3> QED
        BY <3>1, <3>2
    <2> QED
      BY <2>3 DEF StepTime
  <1>8. AtRest'
    BY <1>3 DEF AtRest
  <1> QED
    BY <1>4, <1>6, <1>7, <1>8 DEF Core, HierarchyOK, ClocksOK

-----------------------------------------------------------------------------
(***************************************************************************)
(* The time steps of a hierarchy up to level top                           *)
(***************************************************************************)
LEMMA NewDtsOK ==
    ASSUME StateOK, NEW d \in DtVectors, NEW top \in 0..max_level, NewDts(d, top)
    PROVE  Divided(d, 1, top) /\ \A l \in 0..top : d[l] > 0
  <1>1. d[0] \in Dts /\ Divided(d, 1, top)
    BY DEF NewDts
  <1>2. d[0] > 0
    <2>1. Dts \subseteq Nat \ {0}
      BY DtAssumption
    <2>2. d[0] \in Nat \ {0}
      BY <1>1, <2>1
    <2> QED
      BY <2>2
  <1>5. d \in [Levels -> Nat] /\ n_cycle \in [Levels -> Nat \ {0}]
    BY DtNumbers DEF StateOK
  <1>3. 0 \in Levels /\ top \in Levels
    BY LevelNumbers DEF StateOK, Levels
  <1>4. \A l \in (0 + 1)..top : d[l] * n_cycle[l] = d[l - 1]
    BY <1>1 DEF Divided
  <1> QED
    BY <1>1, <1>2, <1>5, <1>3, <1>4, DividedPositive

LEMMA AddedDtsOK ==
    ASSUME StateOK, Divided(dt_level, 1, finest_level), NEW d \in DtVectors,
           NEW top \in 0..max_level, top <= finest_level + 1,
           AddedDts(d, finest_level, top)
    PROVE  /\ Divided(d, 1, top) /\ \A l \in 0..top : d[l] > 0
           /\ \A l \in 0..finest_level : d[l] = dt_level[l]
  <1>1. /\ finest_level \in Nat /\ top \in Nat /\ max_level \in Nat /\ max_level <= MaxLevel
        /\ finest_level <= max_level /\ top <= max_level /\ MaxLevel \in Nat
    BY LevelsAssumption DEF StateOK, Levels
  <1>2. ASSUME NEW l \in 0..finest_level PROVE d[l] = dt_level[l]
    <2>1. l \in Levels /\ l <= finest_level
      BY <1>1 DEF Levels
    <2> QED
      BY <2>1 DEF AddedDts
  <1>3. ASSUME NEW l \in 1..top PROVE d[l] * n_cycle[l] = d[l - 1]
    <2>1. CASE l <= finest_level
      <3>1. l \in 1..finest_level /\ l \in 0..finest_level /\ l - 1 \in 0..finest_level
        BY <1>1, <2>1
      <3>2. dt_level[l] * n_cycle[l] = dt_level[l - 1]
        BY <3>1 DEF Divided
      <3> QED
        BY <1>2, <3>1, <3>2
    <2>2. CASE l > finest_level
      <3>1. l \in (finest_level + 1)..top
        BY <1>1, <2>2
      <3> QED
        BY <3>1 DEF AddedDts, Divided
    <2> QED
      BY <1>1, <2>1, <2>2
  <1>4. d[0] > 0
    BY <1>1, <1>2 DEF StateOK
  <1>5. d \in [Levels -> Nat] /\ n_cycle \in [Levels -> Nat \ {0}]
    BY DtNumbers DEF StateOK
  <1>7. 0 \in Levels /\ top \in Levels
    BY <1>1 DEF Levels
  <1>6. \A l \in 0..top : d[l] > 0
    BY <1>3, <1>4, <1>5, <1>7, DividedPositive
  <1> QED
    BY <1>2, <1>3, <1>6 DEF Divided

-----------------------------------------------------------------------------
(***************************************************************************)
(* The steps of the driver                                                 *)
(***************************************************************************)
LEMMA InitCore ==
    ASSUME Init
    PROVE  Core
  <1>1. PICK inp \in Inputs : max_level = inp.maxl /\ n_cycle = inp.ncyc
    BY DEF Init
  <1>2. max_level \in Levels \ {0} /\ n_cycle \in [Levels -> Nat \ {0}]
    BY <1>1, InputsAssumption
  <1>3. finest_level \in Nat /\ finest_level \in 0..max_level /\ max_level \in Nat /\ max_level <= MaxLevel
    BY <1>2, LevelNumbers DEF Init, Levels
  <1>4. dt_level \in [Levels -> Nat] /\ dt_level[0] > 0 /\ 0 \in Levels /\ finest_level \in Levels
    BY <1>3, DtNumbers, DtAssumption, LevelNumbers DEF Init, Levels
  <1>5. \A l \in (0 + 1)..finest_level : dt_level[l] * n_cycle[l] = dt_level[l - 1]
    BY DEF Init, Divided
  <1>6. \A l \in 0..finest_level : dt_level[l] > 0
    BY <1>2, <1>4, <1>5, DividedPositive
  <1>7. stack = <<>> /\ Len(stack) = 0 /\ stack \in Seq(Frames)
    BY DEF Init
  <1>8. /\ newt \in [Levels -> Int \cup {None}] /\ oldt \in [Levels -> Int \cup {None}]
        /\ \A l \in Levels : newt[l] = None <=> l > finest_level
        /\ \A l \in 0..finest_level : newt[l] = 0
    <2>1. \A l \in Levels : newt[l] = IF l <= finest_level THEN 0 ELSE None
      BY DEF Init
    <2>2. newt \in [Levels -> Int \cup {None}] /\ oldt \in [Levels -> Int \cup {None}]
      BY DEF Init
    <2>3. \A l \in Levels : l \in Nat
      BY LevelNumbers
    <2>4. \A l \in 0..finest_level : l \in Levels /\ l <= finest_level
      BY <1>3, LevelNumbers DEF Levels
    <2> QED
      BY <1>3, <2>1, <2>2, <2>3, <2>4, LevelsAssumption
  <1>9. StateOK
    BY <1>2, <1>3, <1>6, <1>7, <1>8 DEF Init, StateOK
  <1>10. Recursion /\ StepTime
    BY <1>7 DEF Init, Recursion, StepTime
  <1>11. ActiveCall /\ FinerTimes
    BY DEF Init, ActiveCall, FinerTimes
  <1>12. AtRest
    BY <1>8 DEF Init, AtRest
  <1>13. CountsOK
    <2>1. ASSUME NEW l \in 0..(max_level - 1)
          PROVE  since[l] = 0 /\ level_count[l] = 0 /\ RegridInt[l] \in Int
      <3>1. l \in Levels
        BY <1>2, <1>3, LevelNumbers DEF Levels
      <3> QED
        BY <3>1, RegridIntAssumption DEF Init
    <2> QED
      BY <2>1 DEF CountsOK
  <1> QED
    BY <1>9, <1>10, <1>11, <1>12, <1>13 DEF Core, HierarchyOK, ClocksOK

LEMMA StateTypes ==
    ASSUME StateOK
    PROVE  /\ n_cycle \in [Levels -> Nat \ {0}]
           /\ \A l \in Levels : n_cycle[l] \in Nat \ {0}
           /\ level_steps \in [Levels -> Nat] /\ level_count \in [Levels -> Nat]
           /\ since \in [Levels -> Nat] /\ psr \in [Levels -> BOOLEAN]
           /\ newt \in [Levels -> Int \cup {None}] /\ oldt \in [Levels -> Int \cup {None}]
           /\ being \in Levels \cup {-1} /\ dt_level \in [Levels -> Nat]
  <1>1. /\ n_cycle \in [Levels -> Nat \ {0}]
        /\ level_steps \in [Levels -> Nat] /\ level_count \in [Levels -> Nat]
        /\ since \in [Levels -> Nat] /\ psr \in [Levels -> BOOLEAN]
        /\ newt \in [Levels -> Int \cup {None}] /\ oldt \in [Levels -> Int \cup {None}]
        /\ being \in Levels \cup {-1} /\ dt_level \in DtVectors
    BY DEF StateOK
  <1>2. dt_level \in [Levels -> Nat]
    BY <1>1, DtNumbers
  <1>3. \A l \in Levels : n_cycle[l] \in Nat \ {0}
    BY <1>1
  <1> QED
    BY <1>1, <1>2, <1>3

\* What the recursion computes for the time of the active call.
LEMMA ActiveTime ==
    ASSUME Core, PostStepHandled, mode = "step"
    PROVE  IF Frame.phase = "regrid"
           THEN newt[Top] = Frame.time
           ELSE newt[Top] = Frame.time + dt_level[Top] /\ oldt[Top] = Frame.time
  <1>1. Top + 1 \in 1..Len(stack) /\ Frame = stack[Top + 1] /\ (Top + 1) - 1 = Top
    BY ActiveFacts
  <1>2. \A k \in 1..Len(stack) :
           IF stack[k].phase = "regrid"
           THEN newt[k - 1] = stack[k].time
           ELSE newt[k - 1] = stack[k].time + dt_level[k - 1] /\ oldt[k - 1] = stack[k].time
    BY DEF Core, HierarchyOK, ClocksOK, StepTime
  <1> QED
    BY <1>1, <1>2

\* A regrid by the active call leaves all finer levels where the call started.
LEMMA RegridLevels ==
    ASSUME Core, PostStepHandled, mode = "step",
           NEW b \in Levels, Top <= b, b <= finest_level, NEW post \in BOOLEAN,
           RegridTypes, RegridTimes(b, post),
           IF post THEN Frame.phase = "post-step" /\ b = Top ELSE Frame.phase = "regrid"
    PROVE  /\ \A m \in (Top + 1)..finest_level' : newt'[m] = Frame.time
           /\ newt'[Top] = newt[Top]
  <1>1. /\ Frame \in Frames /\ Top \in Nat /\ Top <= finest_level /\ finest_level \in Nat
        /\ finest_level <= max_level /\ max_level \in Nat /\ max_level <= MaxLevel
        /\ MaxLevel \in Nat /\ Top \in Levels
    BY ActiveFacts
  <1>2. b \in Nat /\ Frame.time \in Int
    BY <1>1, LevelNumbers DEF Frames
  <1>3. /\ finest_level' \in Nat /\ finest_level' <= max_level /\ b <= finest_level'
        /\ finest_level' <= finest_level + 1
    BY <1>1, <1>2 DEF RegridTypes, RegridTimes
  <1>4. newt'[Top] = newt[Top]
    BY <1>1, <1>2, <1>3 DEF RegridTimes
  <1>5. \A m \in (Top + 1)..finest_level : newt[m] = Frame.time
    <2>1. FinerTimes /\ Frame.phase # "fine"
      BY DEF Core, HierarchyOK, ClocksOK
    <2> QED
      BY <1>2, <2>1 DEF FinerTimes
  <1>6. ASSUME NEW m \in (Top + 1)..finest_level' PROVE newt'[m] = Frame.time
    <2>1. m \in Levels /\ m \in Nat
      BY <1>1, <1>3 DEF Levels
    <2>2. CASE m <= finest_level
      BY <1>1, <1>3, <1>5, <2>1, <2>2 DEF RegridTimes
    <2>3. CASE m > finest_level
      <3>1. /\ m = finest_level'
            /\ newt'[m] = IF post /\ HandlesPostStep /\ finest_level = b
                          THEN oldt[b] ELSE newt[finest_level]
        BY <1>1, <1>3, <2>1, <2>3 DEF RegridTimes
      <3>2. CASE finest_level = Top
        <4>1. post => oldt[Top] = Frame.time /\ HandlesPostStep
          <5>1. post => PostStep
            BY DEF Core, HierarchyOK, ActiveCall
          <5> QED
            BY <5>1, ActiveTime DEF PostStepHandled
        <4>2. ~post => newt[Top] = Frame.time
          BY ActiveTime
        <4>3. b = finest_level
          BY <1>1, <1>2, <3>2
        <4> QED
          BY <3>1, <3>2, <4>1, <4>2, <4>3
      <3>3. CASE finest_level # Top
        <4>1. finest_level \in (Top + 1)..finest_level
          BY <1>1, <3>3
        <4> QED
          BY <1>5, <3>1, <4>1
      <3> QED
        BY <3>2, <3>3
    <2> QED
      BY <1>1, <2>1, <2>2, <2>3
  <1> QED
    BY <1>4, <1>6

\* What CountsOK says of a level, with the types the comparisons need.
LEMMA CountFacts ==
    ASSUME StateOK, NEW l \in 0..(max_level - 1)
    PROVE  l \in Levels /\ since[l] \in Nat /\ level_count[l] \in Nat /\ RegridInt[l] \in Int \ {0}
  <1>1. l \in Levels
    BY LevelsAssumption DEF StateOK, Levels
  <1> QED
    BY <1>1, RegridIntAssumption DEF StateOK

\* timeStep looks at the next level, or has looked at them all.
LEMMA SkipRegridCore ==
    ASSUME Core, SkipRegrid
    PROVE  Core'
  <1> DEFINE f == [Frame EXCEPT !.i = @ + 1]
  <1>1. mode = "step" /\ Frame.phase = "regrid" /\ Frame.i <= Frame.lev_top /\ ~okToRegrid(Frame.i)
    BY DEF SkipRegrid, Active
  <1>2. /\ Frame \in Frames /\ Top \in Nat /\ Top <= finest_level /\ finest_level \in Nat
        /\ finest_level <= max_level /\ max_level \in Nat /\ Top \in Levels
        /\ Divided(dt_level, 1, finest_level)
    BY <1>1, ActiveFacts
  <1>3. /\ f \in Frames /\ f.time = Frame.time /\ f.phase = "regrid" /\ f.i = Frame.i + 1
        /\ f.lev_top = Frame.lev_top /\ f.next = Frame.next
    BY <1>1, <1>2 DEF Frames
  <1>4. SetFrame(f)
    BY DEF SkipRegrid
  <1>5. /\ UNCHANGED <<max_level, n_cycle, finest_level, cumtime, dt_level, level_steps, level_count,
                       newt, oldt, psr, being, mode, since>>
    BY DEF SkipRegrid, inputvars, datavars
  <1>6. Top' = Top /\ Frame' = f
    BY <1>1, <1>3, <1>4, SetFrameFacts
  <1>7. ActiveCall /\ (PostStepHandled => FinerTimes) /\ CountsOK /\ StateOK
    BY DEF Core, HierarchyOK, ClocksOK
  <1>8. PostStepHandled => newt[Top] = Frame.time
    BY <1>1, ActiveTime
  <1>9. ActiveCall'
    <2>1. Frame.i \in Nat /\ level_count[Top] \in Nat /\ RegridInt[Top] \in Int
      BY <1>2, <1>7, RegridIntAssumption DEF Frames, StateOK
    <2>2. ASSUME RegridInt[Top] > 0, Top < max_level
          PROVE  level_count[Top] < RegridInt[Top]
      <3>1. CASE Frame.i = Top
        BY <1>1, <2>1, <2>2, <3>1 DEF okToRegrid
      <3>2. CASE Frame.i # Top
        BY <1>1, <1>2, <1>7, <2>1, <2>2, <3>2 DEF ActiveCall
      <3> QED
        BY <3>1, <3>2
    <2>3. /\ Frame.i >= Top /\ Frame.next = 1
          /\ Frame.lev_top \in Min2(Top, max_level - 1)..Min2(finest_level, max_level - 1)
      BY <1>1, <1>7 DEF ActiveCall
    <2>4. f.i >= Top
      BY <1>2, <1>3, <2>1, <2>3
    <2> QED
      BY <1>3, <1>5, <1>6, <2>2, <2>3, <2>4 DEF ActiveCall, Min2
  <1>10. PostStepHandled => FinerTimes'
    BY <1>1, <1>3, <1>5, <1>6, <1>7 DEF FinerTimes
  <1>11. CountsOK'
    BY <1>5, <1>7 DEF CountsOK
  <1>12. RegridTypes
    BY <1>5, <1>7 DEF RegridTypes, StateOK
  <1>13. /\ dt_level' \in DtVectors /\ \A l \in 0..finest_level' : dt_level'[l] > 0
         /\ Divided(dt_level', 1, finest_level') /\ level_count' \in [Levels -> Nat]
         /\ being' \in Levels \cup {-1} /\ Top <= finest_level'
         /\ UNCHANGED <<inputvars, cumtime, mode>>
    BY <1>2, <1>5, <1>7 DEF StateOK, inputvars
  <1> QED
    BY <1>1, <1>3, <1>4, <1>5, <1>8, <1>9, <1>10, <1>11, <1>12, <1>13, FrameStep

LEMMA NewBounds ==
    ASSUME NEW g \in Frames, NEW i \in Nat, NEW t \in Levels
    PROVE  [g EXCEPT !.i = i, !.lev_top = t] \in Frames
  BY DEF Frames

\* timeStep regrids before the advance of the level.
LEMMA RegridBeforeCore ==
    ASSUME Core, RegridBefore
    PROVE  Core'
  <1> DEFINE b == Frame.i
             f == [Frame EXCEPT !.i = @ + 1,
                                !.lev_top = IF finest_level > finest_level'
                                            THEN Min2(finest_level', max_level - 1) ELSE @]
  <1>1. mode = "step" /\ Frame.phase = "regrid" /\ b <= Frame.lev_top /\ okToRegrid(b)
    BY DEF RegridBefore, Active
  <1>2. /\ Frame \in Frames /\ Top \in Nat /\ Top <= finest_level /\ finest_level \in Nat
        /\ finest_level <= max_level /\ max_level \in Nat \ {0} /\ max_level <= MaxLevel
        /\ MaxLevel \in Nat /\ Top \in Levels /\ finest_level \in Levels
        /\ Divided(dt_level, 1, finest_level)
    BY <1>1, ActiveFacts
  <1>3. ActiveCall /\ CountsOK /\ StateOK
    BY DEF Core, HierarchyOK
  <1>4. /\ b >= Top /\ Frame.next = 1
        /\ Frame.lev_top \in Min2(Top, max_level - 1)..Min2(finest_level, max_level - 1)
        /\ (b > Top /\ RegridInt[Top] > 0 /\ Top < max_level) => level_count[Top] < RegridInt[Top]
    BY <1>1, <1>3 DEF ActiveCall
  <1>5. /\ b \in Nat /\ Frame.lev_top \in Nat /\ Frame.time \in Int /\ Frame.iteration \in Nat
        /\ Frame.next \in Nat
    BY <1>2, LevelNumbers DEF Frames
  <1>6. b <= Min2(finest_level, max_level - 1) /\ b <= finest_level /\ b \in Levels
    BY <1>1, <1>2, <1>4, <1>5 DEF Min2, Levels
  <1>7. Regrid(b, FALSE)
    BY DEF RegridBefore
  <1>8. /\ RegridTypes
        /\ RegridTimes(b, FALSE)
        /\ \A l \in Levels : since'[l] = IF l >= b THEN 0 ELSE since[l]
    BY <1>3, <1>5, <1>6, <1>7, RegridEffects
  <1>9. /\ finest_level' \in Nat /\ finest_level' <= max_level /\ b <= finest_level'
        /\ finest_level' <= finest_level + 1 /\ finest_level' \in Levels
    BY <1>2, <1>5, <1>8 DEF RegridTypes, RegridTimes, Levels
  <1>10. /\ f.time = Frame.time /\ f.phase = "regrid" /\ f.i = b + 1 /\ f.next = 1
         /\ f.lev_top = IF finest_level > finest_level'
                        THEN Min2(finest_level', max_level - 1) ELSE Frame.lev_top
    BY <1>1, <1>2, <1>4 DEF Frames
  <1>11. /\ f.lev_top \in Min2(Top, max_level - 1)..Min2(finest_level', max_level - 1)
         /\ f.lev_top \in Levels
    BY <1>2, <1>4, <1>5, <1>9, <1>10 DEF Min2, Levels
  <1>12. f \in Frames
    <2> DEFINE top == IF finest_level > finest_level'
                      THEN Min2(finest_level', max_level - 1) ELSE Frame.lev_top
    <2>1. top \in Levels /\ b + 1 \in Nat
      BY <1>5, <1>10, <1>11
    <2>2. f = [Frame EXCEPT !.i = b + 1, !.lev_top = top]
      OBVIOUS
    <2> HIDE DEF top, f, b
    <2> QED
      BY <1>2, <2>1, <2>2, NewBounds
  <1>13. SetFrame(f)
    BY DEF RegridBefore
  <1>14. /\ UNCHANGED <<max_level, n_cycle, cumtime, mode, being>>
         /\ level_count' = [l \in Levels |->
               IF l >= b /\ l <= finest_level' THEN 0 ELSE level_count[l]]
         /\ dt_level' \in DtVectors
    BY DEF RegridBefore, inputvars
  <1>15. Top' = Top /\ Frame' = f
    BY <1>1, <1>12, <1>13, SetFrameFacts
  <1> HIDE DEF f, b
  <1>16. ASSUME PostStepHandled
         PROVE  /\ newt'[Top] = Frame.time
                /\ \A m \in (Top + 1)..finest_level' : newt'[m] = Frame.time
    <2>1. newt[Top] = Frame.time
      BY <1>1, <1>16, ActiveTime
    <2> QED
      BY <1>1, <1>4, <1>6, <1>8, <1>16, <2>1, RegridLevels
  <1>17. ASSUME NEW l \in 0..(Top - 1)
         PROVE  newt'[l] = newt[l] /\ oldt'[l] = oldt[l] /\ l < b /\ l \in 0..finest_level
    <2>1. l \in Levels /\ l < b /\ l <= finest_level /\ l <= finest_level' /\ l \in 0..finest_level
      BY <1>2, <1>4, <1>5, <1>9 DEF Levels
    <2> QED
      BY <1>8, <2>1 DEF RegridTimes
  <1>18. /\ Divided(dt_level', 1, finest_level') /\ \A l \in 0..finest_level' : dt_level'[l] > 0
         /\ Top > 0 => \A l \in 0..finest_level : dt_level'[l] = dt_level[l]
    <2>1. CASE NewDtOnRegrid /\ b = 0
      <3>1. NewDts(dt_level', finest_level')
        BY <2>1 DEF RegridBefore, b
      <3>2. ~(Top > 0)
        BY <1>2, <1>4, <2>1
      <3> QED
        BY <1>3, <1>8, <1>14, <3>1, <3>2, NewDtsOK DEF RegridTypes
    <2>2. CASE ~(NewDtOnRegrid /\ b = 0)
      <3>1. AddedDts(dt_level', finest_level, finest_level')
        BY <2>2 DEF RegridBefore, b
      <3> QED
        BY <1>2, <1>3, <1>8, <1>9, <1>14, <3>1, AddedDtsOK DEF RegridTypes
    <2> QED
      BY <2>1, <2>2
  <1>19. /\ \A l \in 0..(Top - 1) : dt_level'[l] = dt_level[l]
         /\ Top > 0 => dt_level'[Top] = dt_level[Top]
    BY <1>2, <1>17, <1>18
  <1>20. ActiveCall'
    <2>1. level_count[Top] \in Nat /\ RegridInt[Top] \in Int
      BY <1>2, <1>3, RegridIntAssumption DEF StateOK
    <2>2. ASSUME RegridInt[Top] > 0, Top < max_level
          PROVE  level_count'[Top] < RegridInt[Top]
      <3>1. CASE b = Top
        BY <1>2, <1>9, <1>14, <2>1, <2>2, <3>1
      <3>2. CASE b # Top
        <4>1. b > Top /\ level_count'[Top] = level_count[Top]
          BY <1>2, <1>4, <1>5, <1>14, <3>2
        <4> QED
          BY <1>4, <2>2, <4>1
      <3> QED
        BY <3>1, <3>2
    <2>3. f.i >= Top
      BY <1>2, <1>4, <1>5, <1>10
    <2> QED
      BY <1>10, <1>11, <1>14, <1>15, <2>2, <2>3 DEF ActiveCall, Min2
  <1>21. PostStepHandled => FinerTimes'
    BY <1>5, <1>10, <1>15, <1>16 DEF FinerTimes
  <1>22. CountsOK'
    <2>1. ASSUME NEW l \in 0..(max_level - 1)
          PROVE  since'[l] <= level_count'[l] /\ (RegridInt[l] > 0 => since'[l] <= RegridInt[l])
      <3>1. l \in Levels /\ since[l] \in Nat /\ level_count[l] \in Nat /\ RegridInt[l] \in Int
        BY <1>3, CountFacts
      <3>2. since[l] <= level_count[l] /\ (RegridInt[l] > 0 => since[l] <= RegridInt[l])
        BY <1>3 DEF CountsOK
      <3>3. since'[l] = IF l >= b THEN 0 ELSE since[l]
        BY <1>8, <3>1
      <3>4. level_count'[l] = IF l >= b /\ l <= finest_level' THEN 0 ELSE level_count[l]
        BY <1>14, <3>1
      <3> QED
        BY <3>1, <3>2, <3>3, <3>4
    <2> QED
      BY <1>14, <2>1 DEF CountsOK
  <1>23. level_count' \in [Levels -> Nat] /\ being' \in Levels \cup {-1} /\ Top <= finest_level'
    <2>1. level_count' \in [Levels -> Nat]
      BY <1>3, <1>14 DEF StateOK
    <2>2. being' \in Levels \cup {-1}
      BY <1>3, <1>14 DEF StateOK
    <2> QED
      BY <1>2, <1>4, <1>5, <1>9, <2>1, <2>2
  <1>24. UNCHANGED <<inputvars, cumtime, mode>>
    BY <1>14 DEF inputvars
  <1> QED
    BY <1>1, <1>8, <1>10, <1>12, <1>13, <1>14, <1>16, <1>17, <1>18, <1>19, <1>20, <1>21, <1>22,
       <1>23, <1>24, FrameStep

\* The advance of the active level.
LEMMA AdvanceCore ==
    ASSUME Core, Advance
    PROVE  Core'
  <1>1. mode = "step" /\ Frame.phase = "regrid" /\ Frame.i > Frame.lev_top
    BY DEF Advance, Active
  <1>2. /\ Frame \in Frames /\ Top \in Nat /\ Top <= finest_level /\ finest_level \in Nat
        /\ finest_level <= max_level /\ max_level \in Nat \ {0} /\ max_level <= MaxLevel
        /\ MaxLevel \in Nat /\ Top \in Levels /\ finest_level \in Levels
        /\ Divided(dt_level, 1, finest_level) /\ dt_level[Top] \in Nat /\ newt[Top] \in Int
    BY <1>1, ActiveFacts
  <1>3. ActiveCall /\ (PostStepHandled => FinerTimes) /\ CountsOK /\ StateOK
    BY DEF Core, HierarchyOK, ClocksOK
  <1>4. /\ Frame.i >= Top /\ Frame.next = 1
        /\ Frame.lev_top \in Min2(Top, max_level - 1)..Min2(finest_level, max_level - 1)
        /\ (Frame.i > Top /\ RegridInt[Top] > 0 /\ Top < max_level)
              => level_count[Top] < RegridInt[Top]
    BY <1>1, <1>3 DEF ActiveCall
  <1>5. /\ Frame.i \in Nat /\ Frame.lev_top \in Nat /\ Frame.time \in Int
    BY <1>2, LevelNumbers DEF Frames
  <1>6. /\ oldt' = [oldt EXCEPT ![Top] = newt[Top]]
        /\ newt' = [newt EXCEPT ![Top] = @ + dt_level[Top]]
        /\ level_steps' = [level_steps EXCEPT ![Top] = @ + 1]
        /\ level_count' = [level_count EXCEPT ![Top] = @ + 1]
        /\ since' = [since EXCEPT ![Top] = @ + 1]
        /\ UNCHANGED <<max_level, n_cycle, finest_level, cumtime, dt_level, being, mode>>
    BY DEF Advance, inputvars
  <1>7. PICK ask \in {FALSE, PostStep} :
          /\ psr' = [psr EXCEPT ![Top] = ask]
          /\ SetFrame([Frame EXCEPT !.phase = IF ask THEN "post-step" ELSE "fine"])
    BY DEF Advance
  <1> DEFINE f == [Frame EXCEPT !.phase = IF ask THEN "post-step" ELSE "fine"]
  <1>8. ask \in BOOLEAN /\ (ask => PostStep)
    <2>1. PostStep \in BOOLEAN
      BY FlagsAssumption
    <2>2. ask = FALSE \/ ask = PostStep
      BY <1>7
    <2>3. CASE ask = FALSE
      BY <2>3
    <2>4. CASE ask = PostStep
      BY <2>1, <2>4, Zenon
    <2> QED
      BY <2>2, <2>3, <2>4
  <1>9. /\ f \in Frames /\ f.time = Frame.time /\ f.next = 1
        /\ f.phase = IF ask THEN "post-step" ELSE "fine"
    BY <1>2, <1>4 DEF Frames
  <1>10. SetFrame(f)
    BY <1>7
  <1> HIDE DEF f
  <1>11. Top' = Top /\ Frame' = f
    BY <1>1, <1>9, <1>10, SetFrameFacts
  <1>12. PostStepHandled => newt[Top] = Frame.time
    BY <1>1, ActiveTime
  <1>13. /\ newt'[Top] = newt[Top] + dt_level[Top] /\ oldt'[Top] = newt[Top]
         /\ \A l \in Levels : l # Top => newt'[l] = newt[l] /\ oldt'[l] = oldt[l]
    BY <1>2, <1>3, <1>6 DEF StateOK
  <1>14. RegridTypes
    <2>1. newt' \in [Levels -> Int \cup {None}] /\ oldt' \in [Levels -> Int \cup {None}]
      BY <1>2, <1>3, <1>6, StateTypes
    <2>2. level_steps' \in [Levels -> Nat] /\ since' \in [Levels -> Nat] /\ psr' \in [Levels -> BOOLEAN]
      BY <1>2, <1>3, <1>6, <1>7, <1>8, StateTypes
    <2>3. \A l \in Levels : newt'[l] = None <=> l > finest_level'
      <3>1. newt'[Top] \in Int /\ ~(Top > finest_level)
        BY <1>2, <1>13
      <3> QED
        BY <1>3, <1>6, <1>13, <3>1, LevelsAssumption DEF StateOK
    <2> QED
      BY <1>3, <1>6, <2>1, <2>2, <2>3 DEF RegridTypes, StateOK
  <1>15. ActiveCall'
    <2>1. psr'[Top] = ask
      BY <1>2, <1>3, <1>7 DEF StateOK
    <2>2. Top < finest_level => n_cycle[Top + 1] \in Nat
      <3>1. Top < finest_level => Top + 1 \in Levels
        BY <1>2 DEF Levels
      <3> QED
        BY <1>3, <3>1, StateTypes
    <2>3. Top < finest_level => 1 <= n_cycle[Top + 1] + 1
      BY <2>2
    <2>4. oldt'[Top] # None
      BY <1>2, <1>13, LevelsAssumption
    <2>5. f.phase = "post-step" => ask
      BY <1>9
    <2> QED
      BY <1>6, <1>8, <1>9, <1>11, <2>1, <2>3, <2>4, <2>5 DEF ActiveCall
  <1>16. ASSUME PostStepHandled PROVE FinerTimes'
    <2>1. ASSUME NEW m \in (Top + 1)..finest_level
          PROVE  newt'[m] = Frame.time /\ (1 - 1) * dt_level[Top + 1] = 0
      <3>1. m \in Levels /\ m # Top /\ Top + 1 \in Levels
        BY <1>2 DEF Levels
      <3>2. newt[m] = Frame.time
        BY <1>1, <1>3, <1>5, <1>16 DEF FinerTimes
      <3>3. dt_level[Top + 1] \in Nat
        BY <1>1, <3>1, ActiveFacts
      <3> QED
        BY <1>13, <3>1, <3>2, <3>3
    <2> QED
      BY <1>5, <1>6, <1>9, <1>11, <2>1 DEF FinerTimes
  <1>17. CountsOK'
    <2>1. ASSUME NEW l \in 0..(max_level - 1)
          PROVE  since'[l] <= level_count'[l] /\ (RegridInt[l] > 0 => since'[l] <= RegridInt[l])
      <3>1. /\ l \in Levels /\ since[l] \in Nat /\ level_count[l] \in Nat /\ RegridInt[l] \in Int
            /\ l <= max_level - 1
        BY <1>2, <1>3, CountFacts
      <3>2. since[l] <= level_count[l] /\ (RegridInt[l] > 0 => since[l] <= RegridInt[l])
        BY <1>3 DEF CountsOK
      <3>3. CASE l = Top
        <4>1. since'[l] = since[l] + 1 /\ level_count'[l] = level_count[l] + 1
          BY <1>2, <1>3, <1>6, <3>3 DEF StateOK
        <4>2. Frame.i > Top /\ Top < max_level
          BY <1>1, <1>2, <1>4, <1>5, <3>1, <3>3 DEF Min2
        <4> QED
          BY <1>4, <3>1, <3>2, <3>3, <4>1, <4>2
      <3>4. CASE l # Top
        <4>1. since'[l] = since[l] /\ level_count'[l] = level_count[l]
          BY <1>2, <1>3, <1>6, <3>1, <3>4 DEF StateOK
        <4> QED
          BY <3>2, <4>1
      <3> QED
        BY <3>3, <3>4
    <2> QED
      BY <1>6, <2>1 DEF CountsOK
  <1>18. ASSUME NEW l \in 0..(Top - 1)
         PROVE  newt'[l] = newt[l] /\ oldt'[l] = oldt[l] /\ dt_level'[l] = dt_level[l]
    <2>1. l \in Levels /\ l # Top
      BY <1>2 DEF Levels
    <2> QED
      BY <1>6, <1>13, <2>1
  <1>19. level_count' \in [Levels -> Nat] /\ being' \in Levels \cup {-1}
    BY <1>2, <1>3, <1>6, StateTypes
  <1>20. /\ dt_level' \in DtVectors /\ \A l \in 0..finest_level' : dt_level'[l] > 0
         /\ Divided(dt_level', 1, finest_level') /\ Top <= finest_level'
         /\ Top > 0 => dt_level'[Top] = dt_level[Top]
         /\ UNCHANGED <<inputvars, cumtime, mode>>
    BY <1>2, <1>3, <1>6 DEF StateOK, inputvars
  <1>21. /\ f.phase # "regrid"
         /\ PostStepHandled => newt'[Top] = f.time + dt_level'[Top] /\ oldt'[Top] = f.time
    BY <1>6, <1>9, <1>12, <1>13
  <1> QED
    BY <1>1, <1>9, <1>10, <1>14, <1>15, <1>16, <1>17, <1>18, <1>19, <1>20, <1>21, FrameStep

\* The regrid the active level asked for after its advance.
LEMMA RegridAfterCore ==
    ASSUME Core, RegridAfter
    PROVE  Core'
  <1> DEFINE f == [Frame EXCEPT !.phase = "fine"]
  <1>1. mode = "step" /\ Frame.phase = "post-step"
    BY DEF RegridAfter, Active
  <1>2. /\ Frame \in Frames /\ Top \in Nat /\ Top <= finest_level /\ finest_level \in Nat
        /\ finest_level <= max_level /\ max_level \in Nat \ {0} /\ max_level <= MaxLevel
        /\ MaxLevel \in Nat /\ Top \in Levels /\ finest_level \in Levels
        /\ Divided(dt_level, 1, finest_level)
    BY <1>1, ActiveFacts
  <1>3. ActiveCall /\ CountsOK /\ StateOK
    BY DEF Core, HierarchyOK
  <1>4. Frame.next = 1 /\ PostStep /\ psr[Top] /\ oldt[Top] # None
    BY <1>1, <1>3 DEF ActiveCall
  <1>5. f \in Frames /\ f.time = Frame.time /\ f.next = 1 /\ f.phase = "fine" /\ Frame.time \in Int
    BY <1>2, <1>4 DEF Frames
  <1>6. SetFrame(f) /\ Regrid(Top, TRUE)
    BY DEF RegridAfter
  <1> HIDE DEF f
  <1>7. /\ UNCHANGED <<max_level, n_cycle, cumtime, level_count, being, mode>>
        /\ dt_level' \in DtVectors /\ AddedDts(dt_level', finest_level, finest_level')
    BY DEF RegridAfter, inputvars
  <1>8. /\ RegridTypes
        /\ RegridTimes(Top, TRUE)
        /\ \A l \in Levels : since'[l] \in {0, since[l]}
    BY <1>2, <1>3, <1>4, <1>6, RegridEffects
  <1>9. /\ finest_level' \in Nat /\ finest_level' <= max_level /\ Top <= finest_level'
        /\ finest_level' <= finest_level + 1 /\ finest_level' \in Levels
    BY <1>2, <1>8 DEF RegridTypes, RegridTimes, Levels
  <1>10. Top' = Top /\ Frame' = f
    BY <1>1, <1>5, <1>6, SetFrameFacts
  <1>11. PostStepHandled => newt[Top] = Frame.time + dt_level[Top] /\ oldt[Top] = Frame.time
    BY <1>1, ActiveTime
  <1>12. newt'[Top] = newt[Top] /\ (PostStepHandled => oldt'[Top] = oldt[Top])
    BY <1>2, <1>4, <1>8, <1>9 DEF RegridTimes, PostStepHandled
  <1>13. ASSUME NEW l \in 0..(Top - 1)
         PROVE  newt'[l] = newt[l] /\ oldt'[l] = oldt[l] /\ l \in 0..finest_level
    <2>1. l \in Levels /\ l < Top /\ l <= finest_level /\ l <= finest_level' /\ l \in 0..finest_level
      BY <1>2, <1>9 DEF Levels
    <2> QED
      BY <1>8, <2>1 DEF RegridTimes
  <1>14. /\ Divided(dt_level', 1, finest_level') /\ \A l \in 0..finest_level' : dt_level'[l] > 0
         /\ \A l \in 0..finest_level : dt_level'[l] = dt_level[l]
    BY <1>2, <1>3, <1>7, <1>8, <1>9, AddedDtsOK DEF RegridTypes
  <1>15. ActiveCall'
    <2>1. Top < finest_level' => n_cycle[Top + 1] \in Nat
      <3>1. Top < finest_level' => Top + 1 \in Levels
        BY <1>2, <1>9 DEF Levels
      <3> QED
        BY <1>3, <3>1, StateTypes
    <2>2. Top < finest_level' => 1 <= n_cycle[Top + 1] + 1
      BY <2>1
    <2> QED
      BY <1>5, <1>7, <1>10, <2>2 DEF ActiveCall
  <1>16. ASSUME PostStepHandled PROVE FinerTimes'
    <2>1. ASSUME NEW m \in (Top + 1)..finest_level'
          PROVE  newt'[m] = Frame.time + (1 - 1) * dt_level'[Top + 1]
      <3>1. m \in Levels /\ Top + 1 \in Levels
        BY <1>2, <1>9 DEF Levels
      <3>2. dt_level'[Top + 1] \in Nat
        BY <1>7, <3>1, DtNumbers
      <3>3. (1 - 1) * dt_level'[Top + 1] = 0
        BY <3>2
      <3>4. newt'[m] = Frame.time
        <4>1. Top <= Top /\ TRUE \in BOOLEAN
          BY <1>2
        <4>2. IF TRUE THEN Frame.phase = "post-step" /\ Top = Top ELSE Frame.phase = "regrid"
          BY <1>1
        <4> QED
          BY <1>1, <1>2, <1>8, <1>16, <4>1, <4>2, RegridLevels
      <3> QED
        BY <1>5, <3>3, <3>4
    <2> QED
      BY <1>5, <1>10, <2>1 DEF FinerTimes
  <1>17. CountsOK'
    <2>1. ASSUME NEW l \in 0..(max_level - 1)
          PROVE  since'[l] <= level_count[l] /\ (RegridInt[l] > 0 => since'[l] <= RegridInt[l])
      <3>1. l \in Levels /\ since[l] \in Nat /\ level_count[l] \in Nat /\ RegridInt[l] \in Int
        BY <1>3, CountFacts
      <3>2. since[l] <= level_count[l] /\ (RegridInt[l] > 0 => since[l] <= RegridInt[l])
        BY <1>3 DEF CountsOK
      <3>3. since'[l] = 0 \/ since'[l] = since[l]
        BY <1>8, <3>1
      <3> QED
        BY <3>1, <3>2, <3>3
    <2> QED
      BY <1>7, <2>1 DEF CountsOK
  <1>18. level_count' \in [Levels -> Nat] /\ being' \in Levels \cup {-1}
    BY <1>3, <1>7 DEF StateOK
  <1>19. /\ UNCHANGED <<inputvars, cumtime, mode>>
         /\ dt_level'[Top] = dt_level[Top]
         /\ \A l \in 0..(Top - 1) : dt_level'[l] = dt_level[l]
    BY <1>2, <1>7, <1>13, <1>14 DEF inputvars
  <1>20. PostStepHandled => newt'[Top] = f.time + dt_level'[Top] /\ oldt'[Top] = f.time
    BY <1>5, <1>11, <1>12, <1>19
  <1> QED
    BY <1>1, <1>5, <1>6, <1>7, <1>8, <1>9, <1>13, <1>14, <1>15, <1>16, <1>17, <1>18, <1>19, <1>20,
       FrameStep

\* The call for a level whose data is at time t.
LEMMA CallFacts ==
    ASSUME StateOK, NEW l \in Levels, NEW t \in Int, NEW k \in Nat
    PROVE  /\ Call(l, t, k) \in Frames /\ Call(l, t, k).time = t
           /\ Call(l, t, k).phase = "regrid" /\ Call(l, t, k).i = l /\ Call(l, t, k).next = 1
           /\ Call(l, t, k).lev_top = Min2(finest_level, max_level - 1)
  <1>1. Min2(finest_level, max_level - 1) \in Levels
    BY LevelsAssumption DEF StateOK, Levels, Min2
  <1>2. l \in Nat
    BY LevelNumbers
  <1> QED
    BY <1>1, <1>2 DEF Call, Frames

LEMMA NextFacts ==
    ASSUME NEW r \in Frames
    PROVE  LET g == [r EXCEPT !.next = r.next + 1]
           IN  /\ g \in Frames /\ g.time = r.time /\ g.phase = r.phase /\ g.next = r.next + 1
  BY DEF Frames

\* The call of timeStep for the next finer level.
LEMMA SubStepCore ==
    ASSUME Core, SubStep
    PROVE  Core'
  <1> DEFINE f == Top + 1
             t == Frame.time + (Frame.next - 1) * dt_level[f]
             new == Call(f, t, Frame.next)
             g == [Frame EXCEPT !.next = @ + 1]
             low == [stack EXCEPT ![Len(stack)] = g]
  <1>1. mode = "step" /\ Frame.phase = "fine" /\ f <= finest_level /\ Frame.next <= n_cycle[f]
    BY DEF SubStep, Active
  <1>2. /\ Frame \in Frames /\ Top \in Nat /\ Top + 1 = Len(stack) /\ finest_level \in Nat
        /\ stack \in Seq(Frames) /\ Len(stack) \in Nat \ {0} /\ Frame = stack[Top + 1]
        /\ finest_level <= max_level /\ max_level \in Nat \ {0} /\ max_level <= MaxLevel
        /\ MaxLevel \in Nat /\ Top \in Levels /\ finest_level \in Levels
    BY <1>1, ActiveFacts
  <1>3. /\ Recursion /\ ActiveCall /\ CountsOK /\ StateOK
        /\ PostStepHandled => FinerTimes /\ StepTime
    BY DEF Core, HierarchyOK, ClocksOK
  <1>4. f \in Levels /\ f \in Nat /\ Frame.time \in Int /\ Frame.next \in Nat /\ Frame.next >= 1
    BY <1>1, <1>2, <1>3 DEF Levels, Frames, ActiveCall
  <1>5. dt_level[f] \in Nat /\ n_cycle[f] \in Nat
    BY <1>3, <1>4, StateTypes
  <1>6. t \in Int
    <2>1. Frame.next - 1 \in Nat
      BY <1>4
    <2>2. (Frame.next - 1) * dt_level[f] \in Nat
      BY <1>5, <2>1, Products
    <2> QED
      BY <1>4, <2>2
  <1>7. /\ stack' = Append(low, new) /\ being' = f /\ psr' = [psr EXCEPT ![f] = FALSE]
        /\ UNCHANGED <<max_level, n_cycle, finest_level, cumtime, dt_level, level_steps, level_count,
                       newt, oldt, mode, since>>
    <2>1. stack' = Append([stack EXCEPT ![Len(stack)].next = @ + 1], new)
      BY DEF SubStep
    <2>2. [stack EXCEPT ![Len(stack)].next = @ + 1] = low
      BY DEF Frame
    <2> QED
      BY <2>1, <2>2 DEF SubStep, inputvars
  <1>8. /\ new \in Frames /\ new.time = t /\ new.phase = "regrid" /\ new.i = f /\ new.next = 1
        /\ new.lev_top = Min2(finest_level, max_level - 1)
    BY <1>3, <1>4, <1>6, CallFacts
  <1>9. g \in Frames /\ g.time = Frame.time /\ g.phase = "fine" /\ g.next = Frame.next + 1
    BY <1>1, <1>2, NextFacts
  <1> HIDE DEF new, g
  <1>10. /\ low \in Seq(Frames) /\ Len(low) = Len(stack)
         /\ \A k \in 1..Len(stack) : low[k] = IF k = Len(stack) THEN g ELSE stack[k]
    BY <1>2, <1>9, ExceptSeq
  <1> HIDE DEF low
  <1>11. /\ stack' \in Seq(Frames) /\ stack' # <<>> /\ Len(stack') = Len(stack) + 1
         /\ \A k \in 1..Len(stack) : stack'[k] = low[k]
         /\ stack'[Len(stack) + 1] = new
    BY <1>7, <1>8, <1>10, AppendProperties
  <1>12. Top' = f /\ Frame' = new
    BY <1>2, <1>11 DEF Top, Frame
  <1>13. \A k \in 1..(Len(stack) - 1) : stack'[k] = stack[k]
    BY <1>2, <1>10, <1>11
  <1>14. stack'[Len(stack)] = g
    BY <1>2, <1>10, <1>11
  <1>15. \A k \in 1..Len(stack) : stack'[k].time = stack[k].time
    BY <1>2, <1>9, <1>13, <1>14
  <1>16. StateOK'
    <2>1. psr' \in [Levels -> BOOLEAN]
      BY <1>3, <1>7, StateTypes
    <2> QED
      BY <1>3, <1>4, <1>7, <1>11, <2>1 DEF StateOK
  <1>17. Recursion'
    <2>1. Top' <= finest_level' /\ stack'[1].time = cumtime'
      BY <1>1, <1>2, <1>3, <1>7, <1>12, <1>15 DEF Recursion
    <2>2. Divided(dt_level, 1, finest_level)'
      BY <1>1, <1>3, <1>7 DEF Recursion, Divided
    <2>3. ASSUME NEW k \in 1..(Len(stack') - 1)
          PROVE  /\ stack'[k].phase = "fine"
                 /\ stack'[k].next \in 2..(n_cycle[k] + 1)
                 /\ stack'[k + 1].time = stack'[k].time + (stack'[k].next - 2) * dt_level[k]
      <3>1. CASE k = Len(stack)
        <4>1. k = f /\ stack'[k] = g /\ stack'[k + 1] = new
          BY <1>2, <1>11, <1>14, <3>1
        <4>2. g.next \in 2..(n_cycle[f] + 1) /\ g.next - 2 = Frame.next - 1
          BY <1>1, <1>4, <1>5, <1>9
        <4> QED
          BY <1>8, <1>9, <4>1, <4>2
      <3>2. CASE k # Len(stack)
        <4>1. k \in 1..(Len(stack) - 1) /\ k + 1 \in 1..Len(stack) /\ k \in 1..Len(stack)
          BY <1>2, <1>11, <3>2
        <4>2. /\ stack[k].phase = "fine" /\ stack[k].next \in 2..(n_cycle[k] + 1)
              /\ stack[k + 1].time = stack[k].time + (stack[k].next - 2) * dt_level[k]
          BY <1>3, <4>1 DEF Recursion
        <4> QED
          BY <1>13, <1>15, <4>1, <4>2
      <3> QED
        BY <3>1, <3>2
    <2> QED
      BY <1>1, <1>7, <1>11, <2>1, <2>2, <2>3 DEF Recursion
  <1>18. ASSUME PostStepHandled PROVE newt[f] = t
    <2>1. f \in (Top + 1)..finest_level
      BY <1>1, <1>2
    <2> QED
      BY <1>1, <1>3, <1>18, <2>1 DEF FinerTimes
  <1>19. ASSUME PostStepHandled PROVE StepTime'
    <2>1. ASSUME NEW k \in 1..Len(stack')
          PROVE  IF stack'[k].phase = "regrid"
                 THEN newt[k - 1] = stack'[k].time
                 ELSE newt[k - 1] = stack'[k].time + dt_level[k - 1] /\ oldt[k - 1] = stack'[k].time
      <3>1. CASE k = Len(stack) + 1
        <4>1. k - 1 = f /\ stack'[k] = new
          BY <1>2, <1>11, <3>1
        <4> QED
          BY <1>8, <1>18, <1>19, <4>1
      <3>2. CASE k # Len(stack) + 1
        <4>1. k \in 1..Len(stack)
          BY <1>2, <1>11, <3>2
        <4>2. stack'[k].time = stack[k].time /\ stack'[k].phase = stack[k].phase
          BY <1>1, <1>2, <1>9, <1>13, <1>14, <4>1
        <4> QED
          BY <1>3, <1>19, <4>1, <4>2 DEF StepTime
      <3> QED
        BY <3>1, <3>2
    <2> QED
      BY <1>7, <2>1 DEF StepTime
  <1>20. ActiveCall'
    <2>1. new.lev_top \in Min2(f, max_level - 1)..Min2(finest_level, max_level - 1)
      BY <1>1, <1>2, <1>4, <1>8 DEF Min2
    <2> QED
      BY <1>4, <1>7, <1>8, <1>12, <2>1 DEF ActiveCall, Min2
  <1>21. ASSUME PostStepHandled PROVE FinerTimes'
    <2>1. ASSUME NEW m \in (f + 1)..finest_level PROVE newt[m] = t
      <3>1. m \in (Top + 1)..finest_level
        BY <1>2, <1>4
      <3> QED
        BY <1>1, <1>3, <1>21, <3>1 DEF FinerTimes
    <2>2. t = new.time + 0
      BY <1>6, <1>8
    <2> QED
      BY <1>7, <1>8, <1>12, <2>1, <2>2 DEF FinerTimes
  <1>22. AtRest' /\ CountsOK'
    BY <1>1, <1>3, <1>7 DEF AtRest, CountsOK
  <1> QED
    BY <1>16, <1>17, <1>19, <1>20, <1>21, <1>22 DEF Core, HierarchyOK, ClocksOK

\* The return of timeStep, to the call for the coarser level or to coarseTimeStep.
LEMMA ReturnCore ==
    ASSUME Core, Return
    PROVE  Core'
  <1>1. /\ mode = "step" /\ Frame.phase = "fine"
        /\ Top + 1 <= finest_level => Frame.next > n_cycle[Top + 1]
    BY DEF Return, Active
  <1>2. /\ Frame \in Frames /\ Top \in Nat /\ Top + 1 = Len(stack) /\ finest_level \in Nat
        /\ stack \in Seq(Frames) /\ Len(stack) \in Nat \ {0} /\ Frame = stack[Top + 1]
        /\ finest_level <= max_level /\ max_level \in Nat \ {0} /\ max_level <= MaxLevel
        /\ MaxLevel \in Nat /\ Top \in Levels /\ finest_level \in Levels /\ Top <= finest_level
        /\ Divided(dt_level, 1, finest_level)
    BY <1>1, ActiveFacts
  <1>3. /\ Recursion /\ ActiveCall /\ CountsOK /\ StateOK
        /\ PostStepHandled => FinerTimes /\ StepTime
    BY DEF Core, HierarchyOK, ClocksOK
  <1>4. /\ stack' = SubSeq(stack, 1, Len(stack) - 1) /\ being' = -1
        /\ mode' = IF Top = 0 THEN "end" ELSE mode
        /\ UNCHANGED <<max_level, n_cycle, finest_level, cumtime, dt_level, level_steps, level_count,
                       newt, oldt, psr, since>>
    BY DEF Return, inputvars, datavars
  <1>5. /\ stack' \in Seq(Frames) /\ Len(stack') = Top
        /\ \A k \in 1..Top : stack'[k] = stack[k]
    <2>1. Len(stack) - 1 = Top /\ \A k \in 1..Top : stack[k] \in Frames
      BY <1>2, ElementOfSeq
    <2> QED
      BY <1>2, <1>4, <2>1, SubSeqProperties
  <1>6. /\ Frame.time \in Int /\ Frame.next \in Nat /\ dt_level[Top] \in Nat
        /\ PostStepHandled => newt[Top] = Frame.time + dt_level[Top]
    BY <1>1, <1>2, <1>3, ActiveTime, StateTypes DEF Frames
  <1>7. ASSUME PostStepHandled, NEW m \in Top..finest_level
        PROVE  newt[m] = Frame.time + dt_level[Top]
    <2>1. CASE m = Top
      BY <1>6, <1>7, <2>1
    <2>2. CASE m # Top
      <3>1. m \in (Top + 1)..finest_level /\ Top + 1 \in 1..finest_level /\ Top + 1 \in Levels
            /\ Top < finest_level
        BY <1>2, <2>2 DEF Levels
      <3>2. newt[m] = Frame.time + (Frame.next - 1) * dt_level[Top + 1]
        BY <1>1, <1>3, <1>7, <3>1 DEF FinerTimes
      <3>3. n_cycle[Top + 1] \in Nat /\ dt_level[Top + 1] \in Nat
        BY <1>3, <3>1, StateTypes
      <3>4. Frame.next - 1 = n_cycle[Top + 1]
        <4>1. Frame.next <= n_cycle[Top + 1] + 1
          BY <1>1, <1>3, <3>1 DEF ActiveCall
        <4> QED
          BY <1>1, <1>2, <1>6, <3>1, <3>3, <4>1
      <3>5. dt_level[Top + 1] * n_cycle[Top + 1] = dt_level[Top]
        <4>1. (Top + 1) - 1 = Top
          BY <1>2
        <4> QED
          BY <1>2, <3>1, <4>1 DEF Divided
      <3> QED
        BY <3>2, <3>3, <3>4, <3>5
    <2> QED
      BY <2>1, <2>2
  <1>8. StateOK'
    BY <1>3, <1>4, <1>5 DEF StateOK
  <1>9. CountsOK'
    BY <1>3, <1>4 DEF CountsOK
  <1>10. PostStepHandled => StepTime'
    <2>1. \A k \in 1..Top : k \in 1..Len(stack)
      BY <1>2
    <2> QED
      BY <1>3, <1>4, <1>5, <2>1 DEF StepTime
  <1>11. CASE Top = 0
    <2>1. stack' = <<>> /\ mode' = "end" /\ Len(stack') = 0
      BY <1>4, <1>5, <1>11, EmptySeq
    <2>2. Recursion'
      BY <2>1 DEF Recursion
    <2>3. ActiveCall' /\ FinerTimes'
      BY <2>1 DEF ActiveCall, FinerTimes
    <2>4. ASSUME PostStepHandled PROVE AtRest'
      <3>1. Frame.time = cumtime
        BY <1>1, <1>2, <1>3, <1>11 DEF Recursion
      <3> QED
        BY <1>4, <1>7, <1>11, <2>1, <2>4, <3>1 DEF AtRest
    <2> QED
      BY <1>8, <1>9, <1>10, <2>2, <2>3, <2>4 DEF Core, HierarchyOK, ClocksOK
  <1>12. CASE Top # 0
    <2> DEFINE p == stack[Top]
    <2>1. /\ Top \in 1..(Len(stack) - 1) /\ Top \in 1..Len(stack) /\ stack' # <<>>
          /\ mode' = "step" /\ 1 \in 1..Top /\ Top - 1 \in Nat
      <3>1. Top \in 1..(Len(stack) - 1) /\ Top \in 1..Len(stack) /\ 1 \in 1..Top /\ Top - 1 \in Nat
        BY <1>2, <1>12
      <3>2. stack' # <<>>
        BY <1>5, <1>12, EmptySeq
      <3> QED
        BY <1>1, <1>4, <1>12, <3>1, <3>2
    <2>2. /\ p.phase = "fine" /\ p.next \in 2..(n_cycle[Top] + 1)
          /\ Frame.time = p.time + (p.next - 2) * dt_level[Top]
      BY <1>2, <1>3, <2>1 DEF Recursion
    <2>3. Top' = Top - 1 /\ Frame' = p
      BY <1>2, <1>5, <1>12, <2>1 DEF Top, Frame
    <2>4. n_cycle[Top] \in Nat /\ p.time \in Int /\ p.next \in Nat
      <3>1. p \in Frames
        BY <1>2, <2>1, ElementOfSeq
      <3> QED
        BY <1>2, <1>3, <3>1, StateTypes DEF Frames
    <2>5. Recursion'
      <3>1. stack'[1].time = cumtime' /\ Top' <= finest_level'
        BY <1>1, <1>2, <1>3, <1>4, <1>5, <2>1, <2>3 DEF Recursion
      <3>2. Divided(dt_level, 1, finest_level)'
        BY <1>2, <1>4 DEF Divided
      <3>3. \A k \in 1..(Top - 1) : k \in 1..(Len(stack) - 1) /\ k \in 1..Top /\ k + 1 \in 1..Top
        BY <1>2
      <3> QED
        BY <1>3, <1>4, <1>5, <2>1, <3>1, <3>2, <3>3 DEF Recursion
    <2>6. ActiveCall'
      <3>1. Top' + 1 = Top /\ p.next >= 1 /\ p.next <= n_cycle[Top] + 1
        BY <1>2, <2>2, <2>3, <2>4
      <3> QED
        BY <1>4, <2>1, <2>2, <2>3, <3>1 DEF ActiveCall
    <2>7. ASSUME PostStepHandled PROVE FinerTimes'
      <3>1. Top' + 1 = Top
        BY <1>2, <2>3
      <3>2. (p.next - 2) * dt_level[Top] + dt_level[Top] = (p.next - 1) * dt_level[Top]
        <4>1. p.next - 1 \in Int /\ p.next - 2 = (p.next - 1) - 1
          BY <2>4
        <4> QED
          BY <1>6, <4>1, OneMore
      <3>3. (p.next - 2) * dt_level[Top] \in Nat
        <4>1. p.next - 2 \in Nat
          BY <2>2, <2>4
        <4> QED
          BY <1>6, <4>1, Products
      <3>4. Frame.time + dt_level[Top] = p.time + (p.next - 1) * dt_level[Top]
        BY <1>6, <2>2, <2>4, <3>2, <3>3
      <3> QED
        BY <1>4, <1>7, <2>1, <2>2, <2>3, <2>7, <3>1, <3>4 DEF FinerTimes
    <2>8. AtRest'
      BY <2>1 DEF AtRest
    <2> QED
      BY <1>8, <1>9, <1>10, <2>5, <2>6, <2>7, <2>8 DEF Core, HierarchyOK, ClocksOK
  <1> QED
    BY <1>11, <1>12

\* coarseTimeStep, before timeStep.
LEMMA CoarseBeginCore ==
    ASSUME Core, CoarseBegin
    PROVE  Core'
  <1> DEFINE new == Call(0, cumtime, 1)
  <1>1. Recursion /\ (PostStepHandled => AtRest) /\ CountsOK /\ StateOK
    BY DEF Core, HierarchyOK, ClocksOK
  <1>2. /\ mode = "idle" /\ mode' = "step" /\ stack' = <<new>> /\ being' = 0
        /\ psr' = [psr EXCEPT ![0] = FALSE] /\ dt_level' \in DtVectors
        /\ NewDts(dt_level', finest_level)
        /\ UNCHANGED <<max_level, n_cycle, finest_level, cumtime, level_steps, level_count,
                       newt, oldt, since>>
    BY DEF CoarseBegin, inputvars
  <1>3. /\ finest_level \in 0..max_level /\ cumtime \in Nat /\ 0 \in Levels
        /\ max_level \in Nat \ {0}
    BY <1>1, LevelNumbers DEF StateOK
  <1>4. /\ new \in Frames /\ new.time = cumtime /\ new.phase = "regrid" /\ new.i = 0 /\ new.next = 1
        /\ new.lev_top = Min2(finest_level, max_level - 1)
    BY <1>1, <1>3, CallFacts
  <1> HIDE DEF new
  <1>5. Divided(dt_level', 1, finest_level) /\ \A l \in 0..finest_level : dt_level'[l] > 0
    BY <1>1, <1>2, <1>3, NewDtsOK
  <1>6. stack' \in Seq(Frames) /\ Len(stack') = 1 /\ stack'[1] = new /\ stack' # <<>>
    BY <1>2, <1>4
  <1>7. Top' = 0 /\ Frame' = new
    BY <1>6 DEF Top, Frame
  <1>8. PostStepHandled => \A l \in 0..finest_level : newt[l] = cumtime
    BY <1>1, <1>2, <1>3 DEF AtRest
  <1>9. StateOK'
    <2>1. psr' \in [Levels -> BOOLEAN]
      BY <1>1, <1>2, StateTypes
    <2> QED
      BY <1>1, <1>2, <1>3, <1>5, <1>6, <2>1 DEF StateOK
  <1>10. Recursion'
    <2>1. Divided(dt_level, 1, finest_level)'
      BY <1>2, <1>5 DEF Divided
    <2> QED
      BY <1>2, <1>3, <1>4, <1>6, <1>7, <2>1 DEF Recursion
  <1>11. ActiveCall'
    <2>1. new.lev_top \in Min2(0, max_level - 1)..Min2(finest_level, max_level - 1)
      BY <1>3, <1>4 DEF Min2
    <2> QED
      BY <1>2, <1>4, <1>7, <2>1 DEF ActiveCall, Min2
  <1>12. ASSUME PostStepHandled PROVE StepTime'
    <2>1. \A k \in 1..1 : k = 1 /\ k - 1 = 0
      OBVIOUS
    <2>2. newt'[0] = new.time
      BY <1>2, <1>3, <1>4, <1>8, <1>12
    <2> QED
      BY <1>4, <1>6, <2>1, <2>2 DEF StepTime
  <1>13. ASSUME PostStepHandled PROVE FinerTimes'
    <2>1. ASSUME NEW m \in 1..finest_level PROVE newt[m] = new.time + 0
      BY <1>3, <1>4, <1>8, <1>13
    <2> QED
      BY <1>2, <1>4, <1>7, <2>1 DEF FinerTimes
  <1>14. AtRest' /\ CountsOK'
    BY <1>1, <1>2 DEF AtRest, CountsOK
  <1> QED
    BY <1>9, <1>10, <1>11, <1>12, <1>13, <1>14 DEF Core, HierarchyOK, ClocksOK

\* Of the invariant, only this is left when the driver is in no call of timeStep.
LEMMA RestCore ==
    ASSUME StateOK', CountsOK', PostStepHandled => AtRest', stack' = <<>>, mode' # "step"
    PROVE  Core'
  <1>1. Len(stack') = 0
    OBVIOUS
  <1>2. Recursion' /\ StepTime'
    BY <1>1 DEF Recursion, StepTime
  <1>3. ActiveCall' /\ FinerTimes'
    BY DEF ActiveCall, FinerTimes
  <1> QED
    BY <1>2, <1>3 DEF Core, HierarchyOK, ClocksOK

LEMMA CoarseEndCore ==
    ASSUME Core, CoarseEnd
    PROVE  Core'
  <1>1. Recursion /\ (PostStepHandled => AtRest) /\ CountsOK /\ StateOK
    BY DEF Core, HierarchyOK, ClocksOK
  <1>2. /\ mode = "end" /\ mode' = "idle" /\ cumtime' = cumtime + dt_level[0]
        /\ UNCHANGED <<max_level, n_cycle, finest_level, dt_level, level_steps, level_count,
                       newt, oldt, psr, being, stack, since>>
    BY DEF CoarseEnd, inputvars, datavars
  <1>3. cumtime \in Nat /\ dt_level[0] \in Nat
    BY <1>1, StateTypes, LevelNumbers DEF StateOK
  <1>4. StateOK'
    <2>1. cumtime' \in Nat
      BY <1>2, <1>3
    <2> QED
      BY <1>1, <1>2, <2>1 DEF StateOK
  <1>5. CountsOK' /\ stack' = <<>>
    BY <1>1, <1>2 DEF CountsOK, Recursion
  <1>6. PostStepHandled => AtRest'
    BY <1>1, <1>2, <1>3 DEF AtRest
  <1>7. mode' # "step"
    BY <1>2
  <1> QED
    BY <1>4, <1>5, <1>6, <1>7, RestCore

LEMMA StutterCore ==
    ASSUME Core, UNCHANGED vars
    PROVE  Core'
  <1>1. UNCHANGED <<max_level, n_cycle, finest_level, cumtime, dt_level, level_steps, level_count,
                    newt, oldt, psr, being, stack, mode, since>>
    BY DEF vars, inputvars, datavars
  <1>2. Top' = Top /\ Frame' = Frame
    BY <1>1 DEF Top, Frame
  <1>3. Recursion' /\ ActiveCall' /\ CountsOK'
    BY <1>1, <1>2 DEF Core, HierarchyOK, Recursion, ActiveCall, CountsOK, Divided
  <1>5. ASSUME PostStepHandled PROVE ClocksOK'
    BY <1>1, <1>2, <1>5 DEF Core, HierarchyOK, ClocksOK, StepTime, FinerTimes, AtRest
  <1>4. StateOK'
    BY <1>1 DEF Core, StateOK
  <1> QED
    BY <1>3, <1>4, <1>5 DEF Core, HierarchyOK

\* Every step of the driver.
LEMMA DriverCore ==
    ASSUME Core, CoarseBegin \/ TimeStep
    PROVE  Core'
  BY SkipRegridCore, RegridBeforeCore, AdvanceCore, RegridAfterCore, SubStepCore, ReturnCore,
     CoarseBeginCore, CoarseEndCore DEF TimeStep

\* Which modes the driver's steps lead to.
LEMMA DriverModes ==
    ASSUME CoarseBegin \/ TimeStep
    PROVE  mode \in {"idle", "step", "end"} /\ mode' \in {"idle", "step", "end"}
  BY DEF CoarseBegin, TimeStep, SkipRegrid, RegridBefore, Advance, RegridAfter, SubStep, Return,
         CoarseEnd, Active

-----------------------------------------------------------------------------
(***************************************************************************)
(* The driver                                                              *)
(***************************************************************************)
\* The inductive invariant of the time stepping, for any application: each call of
\* timeStep is made from its parent's, no count of steps is below the steps made on
\* the level's fine grids, and, if the application's init methods are made for the
\* regrids it asks for, all finer levels are where the recursion says.
THEOREM DriverInvariance == Spec => []IInv
  <1>1. Init => IInv
    <2>1. Init => mode = "idle"
      BY DEF Init
    <2> QED
      BY <2>1, InitCore DEF IInv, TypeOK, Core
  <1>2. IInv /\ [Next]_vars => IInv'
    <2> SUFFICES ASSUME IInv, [Next]_vars PROVE IInv'
      OBVIOUS
    <2>1. Core /\ mode \in {"idle", "step", "end"}
      BY DEF IInv, TypeOK, Core
    <2>2. CASE CoarseBegin \/ TimeStep
      <3>1. Core' /\ mode' \in {"idle", "step", "end"}
        BY <2>1, <2>2, DriverCore, DriverModes
      <3> QED
        BY <3>1 DEF IInv, TypeOK, Core
    <2>3. CASE UNCHANGED vars
      <3>1. Core' /\ mode' = mode
        BY <2>1, <2>3, StutterCore DEF vars
      <3> QED
        BY <2>1, <3>1 DEF IInv, TypeOK, Core
    <2> QED
      BY <2>2, <2>3 DEF Next, Done
  <1> QED
    BY <1>1, <1>2, PTL DEF Spec

\* The state of the driver is well formed: exactly the levels up to finest_level have
\* data, and each of them a time step.
THEOREM DriverTypeCorrect == Spec => []TypeOK
  <1>1. IInv => TypeOK
    BY DEF IInv
  <1> QED
    BY <1>1, DriverInvariance, PTL

\* The time timeStep computes from the recursion and the time of the level's data
\* agree, if the application never asks for a regrid after an advance or has init
\* methods made for one.
THEOREM StepTimeAlways ==
    ASSUME PostStepHandled
    PROVE  Spec => []StepTime
  <1>1. IInv => StepTime
    BY DEF IInv, HierarchyOK, ClocksOK
  <1> QED
    BY <1>1, DriverInvariance, PTL

\* No level takes more than regrid_int steps on fine grids computed from older data.
THEOREM RegridInTimeAlways == Spec => []RegridInTime
  <1>1. IInv => RegridInTime
    BY DEF IInv, HierarchyOK, CountsOK, RegridInTime
  <1> QED
    BY <1>1, DriverInvariance, PTL

LEMMA RestSynced ==
    ASSUME PostStepHandled, Core
    PROVE  Synced
  <1> SUFFICES ASSUME mode = "idle", NEW l \in 0..finest_level PROVE newt[l] = cumtime
    BY DEF Synced
  <1>1. cumtime \in Nat
    BY DEF Core, StateOK
  <1>2. newt[l] = cumtime
    BY <1>1 DEF Core, HierarchyOK, ClocksOK, AtRest
  <1> QED
    BY <1>2

-----------------------------------------------------------------------------
(***************************************************************************)
(* The driver implements the subcycling contract                           *)
(***************************************************************************)
LEMMA InitContract ==
    ASSUME Init
    PROVE  S!Init
  <1>1. Core
    BY InitCore
  <1>2. /\ newt \in [Levels -> Int \cup {None}] /\ \A l \in Levels : newt[l] = None \/ newt[l] = 0
        /\ oldt = [l \in Levels |-> None]
    BY <1>1, StateTypes DEF Init, Core
  <1>3. newt[0] # None
    BY <1>1, LevelNumbers DEF Core, StateOK
  <1>4. S!Levels = Levels
    BY DEF S!Levels, Levels
  <1> QED
    BY <1>2, <1>3, <1>4, LevelNumbers DEF S!Init, S!Exists, S!CaughtUp

\* The parent's step contains that of the active call.
LEMMA WithinParent ==
    ASSUME Core, PostStepHandled, mode = "step", Frame.phase = "regrid", Top > 0
    PROVE  /\ S!Covers(Top - 1, newt[Top])
           /\ newt[Top] + dt_level[Top] <= newt[Top - 1]
  <1> DEFINE p == stack[Top]
             n == n_cycle[Top]
             d == dt_level[Top]
             k == p.next - 2
  <1>1. /\ Top \in Nat /\ Top + 1 = Len(stack) /\ stack \in Seq(Frames) /\ Frame = stack[Top + 1]
        /\ Top <= finest_level /\ finest_level \in Nat /\ Top \in Levels
        /\ Divided(dt_level, 1, finest_level)
    BY ActiveFacts
  <1>2. Top \in 1..(Len(stack) - 1) /\ Top \in 1..Len(stack) /\ Top \in 1..finest_level
        /\ Top - 1 \in Levels
    <2>1. Top - 1 \in 0..Top
      BY <1>1
    <2>2. Top - 1 \in Levels
      BY <1>1, <2>1, LevelNumbers
    <2> QED
      BY <1>1, <2>2
  <1>3. p \in Frames
    BY <1>1, <1>2, ElementOfSeq
  <1>4. /\ n \in Nat /\ d \in Nat /\ dt_level[Top - 1] \in Nat
        /\ p.time \in Int /\ p.next \in Nat
    BY <1>1, <1>2, <1>3, StateTypes DEF Core, Frames
  <1>5. /\ p.phase = "fine" /\ p.next \in 2..(n + 1)
        /\ Frame.time = p.time + k * d
    BY <1>1, <1>2 DEF Core, HierarchyOK, Recursion
  <1>6. newt[Top - 1] = p.time + dt_level[Top - 1] /\ oldt[Top - 1] = p.time
    BY <1>2, <1>5 DEF Core, HierarchyOK, ClocksOK, StepTime
  <1>7. d * n = dt_level[Top - 1]
    BY <1>1, <1>2 DEF Divided
  <1>8. newt[Top] = Frame.time
    BY ActiveTime
  <1> HIDE DEF p, n, d
  <1>9. k \in Nat /\ k + 1 \in Nat /\ k + 1 <= n
    BY <1>4, <1>5
  <1> HIDE DEF k
  <1>10. (k + 1) * d <= n * d /\ k * d \in Nat /\ n * d = d * n
    BY <1>4, <1>9, PartOfProduct, Products
  <1>11. k * d + d = (k + 1) * d
    BY <1>4, <1>9
  <1>12. (k + 1) * d \in Nat
    BY <1>4, <1>9, Products
  <1>13. newt[Top] + d <= newt[Top - 1]
    BY <1>4, <1>5, <1>6, <1>7, <1>8, <1>10, <1>11, <1>12
  <1>14. S!Covers(Top - 1, newt[Top])
    <2>1. p.time <= newt[Top] /\ newt[Top] <= newt[Top - 1]
      BY <1>4, <1>5, <1>6, <1>8, <1>10, <1>13
    <2>2. oldt[Top - 1] # None
      BY <1>4, <1>6, LevelsAssumption
    <2> QED
      BY <1>6, <2>1, <2>2 DEF S!Covers
  <1> QED
    BY <1>13, <1>14 DEF d

LEMMA AdvanceContract ==
    ASSUME Core, PostStepHandled, Advance
    PROVE  S!Step(Top)
  <1>1. mode = "step" /\ Frame.phase = "regrid"
    BY DEF Advance, Active
  <1>2. /\ Top \in Nat /\ Top <= finest_level /\ finest_level \in Nat /\ Top \in Levels
        /\ newt[Top] \in Int /\ Frame \in Frames
    BY <1>1, ActiveFacts
  <1>3. dt_level[Top] \in Nat /\ dt_level[Top] > 0
    <2>1. Top \in 0..finest_level /\ StateOK
      BY <1>2 DEF Core
    <2>2. dt_level[Top] > 0
      BY <2>1 DEF StateOK
    <2> QED
      BY <1>2, <2>1, <2>2, StateTypes
  <1>4. /\ newt' = [newt EXCEPT ![Top] = @ + dt_level[Top]]
        /\ oldt' = [oldt EXCEPT ![Top] = newt[Top]]
    BY DEF Advance
  <1>5. newt \in [Levels -> Int \cup {None}] /\ S!Levels = Levels
    BY StateTypes DEF Core, S!Levels, Levels
  <1>6. newt'[Top] = newt[Top] + dt_level[Top]
    BY <1>2, <1>4, <1>5
  <1>7. S!Exists(Top)
    BY <1>2, LevelsAssumption DEF S!Exists
  <1>8. S!CaughtUp(Top)
    <2> SUFFICES ASSUME NEW m \in Levels, m > Top, newt[m] # None PROVE newt[m] = newt[Top]
      BY <1>5 DEF S!CaughtUp, S!Exists
    <2>1. m \in (Top + 1)..finest_level
      <3>1. m \in Nat /\ ~(m > finest_level)
        BY LevelNumbers DEF Core, StateOK
      <3> QED
        BY <1>2, <3>1
    <2>2. newt[m] = Frame.time + 0 /\ newt[Top] = Frame.time
      BY <1>1, <2>1, ActiveTime DEF Core, HierarchyOK, ClocksOK, FinerTimes
    <2> QED
      BY <1>2, <2>2 DEF Frames
  <1>9. newt'[Top] \in Int /\ newt'[Top] > newt[Top]
    BY <1>2, <1>3, <1>6
  <1>10. Top > 0 => S!Covers(Top - 1, newt[Top]) /\ newt'[Top] <= newt[Top - 1]
    BY <1>1, <1>6, WithinParent
  <1>11. newt' = [newt EXCEPT ![Top] = newt'[Top]]
    BY <1>4, <1>6
  <1> QED
    BY <1>4, <1>7, <1>8, <1>9, <1>10, <1>11 DEF S!Step

LEMMA RegridContract ==
    ASSUME Core, PostStepHandled, mode = "step",
           NEW b \in Levels, Top <= b, b <= finest_level, NEW post \in BOOLEAN,
           RegridTypes, RegridTimes(b, post),
           IF post THEN Frame.phase = "post-step" /\ b = Top ELSE Frame.phase = "regrid"
    PROVE  finest_level' \in Levels /\ S!Regrid(b, finest_level')
  <1> DEFINE f == finest_level'
  <1>1. /\ Frame \in Frames /\ Top \in Nat /\ Top <= finest_level /\ finest_level \in Nat
        /\ finest_level <= max_level /\ max_level \in Nat /\ max_level <= MaxLevel
        /\ MaxLevel \in Nat /\ Top \in Levels
    BY ActiveFacts
  <1>2. b \in Nat /\ Frame.time \in Int
    BY <1>1, LevelNumbers DEF Frames
  <1>3. /\ f \in Nat /\ f <= max_level /\ b <= f /\ f <= finest_level + 1 /\ f \in Levels
    BY <1>1, <1>2 DEF RegridTypes, RegridTimes, Levels
  <1>4. S!Levels = Levels
    BY DEF S!Levels, Levels
  <1>5. \A l \in Levels : newt[l] # None <=> l <= finest_level
    <2>1. \A l \in Levels : newt[l] = None <=> l > finest_level
      BY DEF Core, StateOK
    <2> QED
      BY <1>1, <2>1, LevelNumbers
  <1>6. \A l \in Levels : newt'[l] # None <=> l <= f
    BY <1>3, LevelNumbers DEF RegridTypes
  <1>7. /\ \A m \in (Top + 1)..f : newt'[m] = Frame.time
        /\ newt'[Top] = newt[Top]
    BY RegridLevels
  <1>8. ~post => newt[Top] = Frame.time
    BY ActiveTime
  <1>9. post => /\ newt[Top] = Frame.time + dt_level[Top] /\ oldt'[Top] = oldt[Top]
                /\ oldt[Top] = Frame.time /\ dt_level[Top] \in Nat
    <2> SUFFICES ASSUME post PROVE /\ newt[Top] = Frame.time + dt_level[Top]
                                   /\ oldt[Top] = Frame.time /\ dt_level[Top] \in Nat
                                   /\ oldt'[Top] = oldt[Top]
      OBVIOUS
    <2>1. psr[Top] /\ HandlesPostStep
      BY DEF Core, HierarchyOK, ActiveCall, PostStepHandled
    <2>2. oldt'[Top] = oldt[Top]
      BY <1>1, <2>1 DEF RegridTimes
    <2> QED
      BY <1>1, <2>2, ActiveTime, StateTypes DEF Core
  <1>10. ASSUME NEW l \in Levels, l <= f, l > finest_level
         PROVE  S!Covers(l - 1, newt[l])'
    <2>1. l = f /\ l - 1 = finest_level /\ l \in (Top + 1)..f /\ newt'[l] = Frame.time
      BY <1>1, <1>3, <1>7, <1>10, LevelNumbers
    <2>2. CASE finest_level = Top /\ post
      <3>1. newt'[l - 1] = Frame.time + dt_level[Top] /\ oldt'[l - 1] = Frame.time
        BY <1>7, <1>9, <2>1, <2>2
      <3>2. oldt'[l - 1] # None /\ oldt'[l - 1] <= newt'[l] /\ newt'[l] <= newt'[l - 1]
        BY <1>2, <1>9, <2>1, <2>2, <3>1, LevelsAssumption
      <3> QED
        BY <3>2 DEF S!Covers
    <2>3. CASE ~(finest_level = Top /\ post)
      <3>1. newt'[finest_level] = Frame.time
        <4>1. CASE finest_level = Top
          BY <1>7, <1>8, <2>3, <4>1
        <4>2. CASE finest_level # Top
          <5>1. finest_level \in (Top + 1)..f
            BY <1>1, <1>3, <2>1, <4>2
          <5> QED
            BY <1>7, <5>1
        <4> QED
          BY <4>1, <4>2
      <3> QED
        BY <2>1, <3>1 DEF S!Covers
    <2> QED
      BY <2>2, <2>3
  <1>11. ASSUME NEW l \in Levels, l <= f, oldt'[l] # oldt[l]
         PROVE  S!CaughtUp(l)'
    <2>1. l \in Nat /\ l >= b /\ (post => l > Top)
      <3>1. ~(l < b) /\ (post => l # Top)
        BY <1>9, <1>11 DEF RegridTimes
      <3> QED
        BY <1>1, <1>2, <3>1, LevelNumbers
    <2>2. newt'[l] = Frame.time
      <3>1. l = Top \/ l \in (Top + 1)..f
        BY <1>1, <1>2, <1>3, <1>11, <2>1
      <3> QED
        BY <1>1, <1>7, <1>8, <2>1, <3>1
    <2> SUFFICES ASSUME NEW m \in Levels, m > l, newt'[m] # None PROVE newt'[m] = newt'[l]
      BY <1>4 DEF S!CaughtUp, S!Exists
    <2>3. m \in (Top + 1)..f
      BY <1>1, <1>2, <1>3, <1>6, <2>1, LevelNumbers
    <2> QED
      BY <1>7, <2>2, <2>3
  <1>12. ASSUME NEW l \in Levels, l <= f, l <= finest_level
         PROVE  newt'[l] = newt[l] /\ oldt'[l] \in {oldt[l], None}
    BY <1>12 DEF RegridTimes
  <1>13. ASSUME NEW l \in Levels
         PROVE  /\ S!Exists(l)' <=> l <= f
                /\ (l <= f /\ S!Exists(l)) => newt'[l] = newt[l] /\ oldt'[l] \in {oldt[l], None}
                /\ (l <= f /\ ~S!Exists(l)) => S!Covers(l - 1, newt[l])'
                /\ (l <= f /\ oldt'[l] # oldt[l]) => S!CaughtUp(l)'
    <2>1. S!Exists(l)' <=> l <= f
      BY <1>6 DEF S!Exists
    <2>2. S!Exists(l) <=> l <= finest_level
      BY <1>5 DEF S!Exists
    <2>3. l <= finest_level \/ l > finest_level
      BY <1>1, LevelNumbers
    <2> QED
      BY <1>10, <1>11, <1>12, <2>1, <2>2, <2>3
  <1>14. S!Exists(b)
    BY <1>5 DEF S!Exists
  <1> QED
    BY <1>3, <1>4, <1>13, <1>14 DEF S!Regrid

LEMMA StepContract ==
    ASSUME Core, PostStepHandled, [Next]_vars
    PROVE  [S!Next]_(S!vars)
  <1>1. S!Levels = Levels
    BY DEF S!Levels, Levels
  <1>2. ASSUME UNCHANGED <<newt, oldt>> PROVE [S!Next]_(S!vars)
    BY <1>2 DEF S!vars
  <1>3. CASE Advance
    <2>1. mode = "step"
      BY <1>3 DEF Advance, Active
    <2>2. Top \in Levels
      BY <2>1, ActiveFacts
    <2> QED
      BY <1>1, <1>3, <2>2, AdvanceContract DEF S!Next
  <1>4. CASE RegridBefore
    <2> DEFINE b == Frame.i
    <2>1. /\ mode = "step" /\ Frame.phase = "regrid" /\ b <= Frame.lev_top
          /\ Regrid(b, FALSE)
      BY <1>4 DEF RegridBefore, Active
    <2>2. /\ Frame \in Frames /\ Top \in Nat /\ finest_level \in Nat /\ finest_level <= max_level
          /\ max_level \in Nat \ {0} /\ max_level <= MaxLevel /\ MaxLevel \in Nat
      BY <2>1, ActiveFacts
    <2>3. b \in Nat /\ Frame.time \in Int /\ Frame.lev_top \in Nat
      BY <2>2, LevelNumbers DEF Frames
    <2>4. b >= Top /\ Frame.lev_top <= Min2(finest_level, max_level - 1)
      BY <2>1, <2>2, <2>3 DEF Core, HierarchyOK, ActiveCall, Min2
    <2>5. Top <= b /\ b <= finest_level /\ b \in Levels
      BY <2>1, <2>2, <2>3, <2>4 DEF Min2, Levels
    <2>6. StateOK
      BY DEF Core
    <2> HIDE DEF b
    <2>7. RegridTypes /\ RegridTimes(b, FALSE)
      BY <2>1, <2>5, <2>6, RegridEffects
    <2> QED
      BY <1>1, <2>1, <2>5, <2>7, RegridContract DEF S!Next
  <1>5. CASE RegridAfter
    <2>1. mode = "step" /\ Frame.phase = "post-step" /\ Regrid(Top, TRUE)
      BY <1>5 DEF RegridAfter, Active
    <2>2. Frame \in Frames /\ Top \in Levels /\ Top \in Nat /\ Top <= finest_level
      BY <2>1, ActiveFacts
    <2>3. StateOK /\ oldt[Top] # None
      BY <2>1 DEF Core, HierarchyOK, ActiveCall
    <2>4. RegridTypes /\ RegridTimes(Top, TRUE)
      BY <2>1, <2>2, <2>3, RegridEffects
    <2>5. Top <= Top /\ TRUE \in BOOLEAN
      BY <2>2
    <2>6. IF TRUE THEN Frame.phase = "post-step" /\ Top = Top ELSE Frame.phase = "regrid"
      BY <2>1
    <2>7. finest_level' \in Levels /\ S!Regrid(Top, finest_level')
      BY <2>1, <2>2, <2>4, <2>5, <2>6, RegridContract
    <2> QED
      BY <1>1, <2>2, <2>7 DEF S!Next
  <1>6. CASE SkipRegrid \/ SubStep \/ Return \/ CoarseBegin \/ CoarseEnd \/ Done \/ UNCHANGED vars
    <2>1. UNCHANGED <<newt, oldt>>
      BY <1>6 DEF SkipRegrid, SubStep, Return, CoarseBegin, CoarseEnd, Done, vars, datavars
    <2> QED
      BY <1>2, <2>1
  <1> QED
    BY <1>3, <1>4, <1>5, <1>6 DEF Next, TimeStep

\* Every step of the driver, whatever levels its regrids create and destroy, is a step
\* of the subcycling contract or leaves the times of the levels alone, if the
\* application never asks for a regrid after an advance or has init methods made for
\* one.
THEOREM ImplementsSubcycling ==
    ASSUME PostStepHandled
    PROVE  Spec => Contract
  <1>1. Init => S!Init
    BY InitContract
  <1>2. IInv /\ [Next]_vars => [S!Next]_(S!vars)
    BY StepContract DEF IInv, TypeOK, Core
  <1> QED
    BY <1>1, <1>2, DriverInvariance, PTL DEF Spec, Contract, S!Spec

-----------------------------------------------------------------------------
(***************************************************************************)
(* Restarts                                                                *)
(***************************************************************************)
\* The counters of a restart are determined, and numbers, for any number of levels.
LEMMA RestartStepsType ==
    ASSUME NEW file \in [Levels -> Nat], NEW kept \in Nat, NEW maxl \in Nat,
           NEW ncyc \in [Levels -> Nat \ {0}]
    PROVE  RestartSteps(file, kept, maxl, ncyc) \in [Levels -> Nat]
  <1> DEFINE Value(g, l) == IF l <= kept THEN file[l]
                            ELSE IF l <= maxl THEN ncyc[l] * g[l - 1] ELSE 0
             Good(n) == \E g \in [Levels -> Nat] : \A l \in 0..n : g[l] = Value(g, l)
             steps == CHOOSE g : g = [l \in Levels |-> Value(g, l)]
  <1>1. ASSUME NEW g \in [Levels -> Nat], NEW l \in Levels
        PROVE  Value(g, l) \in Nat /\ (l > 0 => l - 1 \in Levels)
    <2>1. l \in Nat /\ (l > 0 => l - 1 \in Levels) /\ file[l] \in Nat
      BY LevelsAssumption DEF Levels
    <2>2. ASSUME l > kept PROVE ncyc[l] * g[l - 1] \in Nat
      <3>1. ncyc[l] \in Nat /\ g[l - 1] \in Nat
        BY <2>1, <2>2
      <3> QED
        BY <3>1, Products
    <2> QED
      BY <2>1, <2>2
  <1>2. Good(MaxLevel)
    <2> DEFINE Bad == {n \in Levels : ~Good(n)}
    <2> SUFFICES ASSUME Bad # {} PROVE FALSE
      BY LevelNumbers
    <2>1. Bad \in SUBSET Nat
      BY LevelNumbers
    <2>2. PICK n \in Bad : \A m \in Bad : n <= m
      BY <2>1, LeastNumber
    <2>3. n \in Levels /\ n \in Nat /\ ~Good(n)
      BY <2>2, LevelNumbers
    <2>4. CASE n = 0
      <3>1. file[0] \in Nat /\ file = [l \in Levels |-> file[l]]
        BY LevelNumbers
      <3>2. \A l \in 0..n : file[l] = Value(file, l)
        BY <2>4
      <3> QED
        BY <2>3, <3>2
    <2>5. CASE n # 0
      <3>1. n - 1 \in Levels /\ n - 1 \in Nat /\ n - 1 < n
        BY <2>3, <2>5, LevelsAssumption DEF Levels
      <3>2. Good(n - 1)
        BY <2>2, <2>3, <3>1
      <3>3. PICK g \in [Levels -> Nat] : \A l \in 0..(n - 1) : g[l] = Value(g, l)
        BY <3>2
      <3> DEFINE h == [g EXCEPT ![n] = Value(g, n)]
      <3>4. Value(g, n) \in Nat
        BY <1>1, <2>3
      <3> HIDE DEF Value
      <3>5. h \in [Levels -> Nat] /\ h[n] = Value(g, n) /\ \A l \in Levels : l # n => h[l] = g[l]
        BY <2>3, <3>4
      <3> HIDE DEF h
      <3>6. ASSUME NEW l \in 0..n PROVE Value(h, l) = Value(g, l) /\ l \in Levels
        <4>1. l \in Nat /\ l \in Levels /\ (l > 0 => l - 1 \in Levels /\ l - 1 # n)
          BY <2>3, LevelsAssumption DEF Levels
        <4>2. l > 0 => h[l - 1] = g[l - 1]
          BY <3>5, <4>1
        <4> QED
          BY <4>1, <4>2 DEF Value
      <3>7. ASSUME NEW l \in 0..n PROVE h[l] = Value(h, l)
        <4>1. CASE l = n
          BY <3>5, <3>6, <4>1
        <4>2. CASE l # n
          <5>1. l \in 0..(n - 1)
            BY <2>3, <4>2
          <5> QED
            BY <3>3, <3>5, <3>6, <4>2, <5>1
        <4> QED
          BY <4>1, <4>2
      <3> QED
        BY <2>3, <3>5, <3>7
    <2> QED
      BY <2>4, <2>5
  <1>3. PICK g \in [Levels -> Nat] : \A l \in 0..MaxLevel : g[l] = Value(g, l)
    BY <1>2
  <1>4. g = [l \in Levels |-> Value(g, l)]
    BY <1>3 DEF Levels
  <1>5. steps = [l \in Levels |-> Value(steps, l)]
    BY <1>4
  <1>6. steps \in [Levels -> Nat]
    <2> DEFINE Bad == {n \in Levels : steps[n] \notin Nat}
    <2> HIDE DEF steps
    <2> SUFFICES ASSUME Bad # {} PROVE FALSE
      BY <1>5
    <2>1. Bad \in SUBSET Nat
      BY LevelNumbers
    <2>2. PICK n \in Bad : \A m \in Bad : n <= m
      BY <2>1, LeastNumber
    <2>3. n \in Levels /\ n \in Nat /\ steps[n] \notin Nat /\ steps[n] = Value(steps, n)
      BY <1>5, <2>2, LevelNumbers
    <2>4. n > kept /\ n <= maxl /\ steps[n] = ncyc[n] * steps[n - 1]
      BY <2>3
    <2>5. n - 1 \in Levels /\ n - 1 < n
      BY <2>3, <2>4, LevelsAssumption DEF Levels
    <2>6. steps[n - 1] \in Nat
      BY <2>2, <2>3, <2>5
    <2>7. ncyc[n] \in Nat
      BY <2>3
    <2> QED
      BY <2>3, <2>4, <2>6, <2>7, Products
  <1>7. RestartSteps(file, kept, maxl, ncyc) = steps
    BY Zenon DEF RestartSteps
  <1> QED
    BY <1>6, <1>7

LEMMA InputFacts ==
    ASSUME NEW inp \in Inputs
    PROVE  /\ inp.maxl \in Levels \ {0} /\ inp.maxl \in Nat \ {0} /\ inp.maxl <= MaxLevel
           /\ inp.ncyc \in [Levels -> Nat \ {0}]
  BY InputsAssumption, LevelsAssumption DEF Levels

LEMMA ZeroDt == 0 \in 0..MaxDt
  <1>1. \E m \in Dts : \A d \in Dts : d <= m
    BY DtAssumption
  <1>2. MaxDt \in Dts
    BY <1>1 DEF MaxDt
  <1>3. Dts \subseteq Nat \ {0}
    BY DtAssumption
  <1>4. MaxDt \in Nat
    BY <1>2, <1>3
  <1> QED
    BY <1>4

LEMMA CheckpointFacts ==
    ASSUME NEW d, HeaderOK(d)
    PROVE  /\ d.cumtime \in Nat /\ d.max_level \in Levels \ {0} /\ d.finest_level \in Levels
           /\ d.max_level \in Nat \ {0} /\ d.finest_level \in Nat
           /\ d.dt_level \in DtVectors /\ d.n_cycle \in [Levels -> Nat \ {0}]
           /\ d.level_steps \in [Levels -> Nat] /\ d.level_count \in [Levels -> Nat]
           /\ d.since \in [Levels -> Nat]
           /\ d.newt \in [Levels -> Int \cup {None}] /\ d.oldt \in [Levels -> Int \cup {None}]
  BY LevelNumbers DEF HeaderOK, Checkpoints

\* A restart brings a hierarchy at rest, whatever the inputs say now.
LEMMA RestartCore ==
    ASSUME NEW d, HeaderOK(d), NEW inp \in Inputs, NEW ror \in RegridOnRestart,
           Restart(d, inp, ror)
    PROVE  Core' /\ mode' = "idle"
  <1> DEFINE top == Min2(inp.maxl, d.finest_level)
             kept == Min2(d.max_level, inp.maxl)
             more == inp.maxl >= d.max_level
             ncyc == [l \in Levels |-> IF ~more /\ l <= kept THEN d.n_cycle[l] ELSE inp.ncyc[l]]
             counts == [l \in Levels |->
                           CASE l = 0 /\ ror -> RegridInt[0]
                             [] l < kept + 1 -> d.level_count[l]
                             [] OTHER -> 0]
  <1>1. /\ inp.maxl \in Levels \ {0} /\ inp.maxl \in Nat \ {0} /\ inp.maxl <= MaxLevel
        /\ inp.ncyc \in [Levels -> Nat \ {0}]
    BY InputFacts
  <1>2. /\ d.cumtime \in Nat /\ d.max_level \in Levels \ {0} /\ d.finest_level \in Levels
        /\ d.max_level \in Nat \ {0} /\ d.finest_level \in Nat
        /\ d.dt_level \in DtVectors /\ d.n_cycle \in [Levels -> Nat \ {0}]
        /\ d.level_steps \in [Levels -> Nat] /\ d.level_count \in [Levels -> Nat]
        /\ d.since \in [Levels -> Nat]
        /\ d.newt \in [Levels -> Int \cup {None}] /\ d.oldt \in [Levels -> Int \cup {None}]
    BY CheckpointFacts
  <1>3. /\ mode' = "idle" /\ max_level' = inp.maxl /\ n_cycle' = ncyc
        /\ finest_level' = top /\ cumtime' = d.cumtime
        /\ dt_level' = [l \in Levels |-> IF l <= top THEN d.dt_level[l] ELSE 0]
        /\ level_steps' = RestartSteps(d.level_steps, kept, inp.maxl, ncyc)
        /\ level_count' = counts
        /\ since' = [l \in Levels |-> IF l < d.max_level THEN d.since[l] ELSE 0]
        /\ newt' = [l \in Levels |-> IF l <= top THEN d.newt[l] ELSE None]
        /\ oldt' = [l \in Levels |-> IF l <= top THEN d.oldt[l] ELSE None]
        /\ psr' = [l \in Levels |-> FALSE] /\ being' = -1 /\ stack' = <<>>
    BY DEF Restart, Resume
  <1>4. /\ top \in Nat /\ top <= inp.maxl /\ top <= d.finest_level
        /\ kept \in Nat /\ kept <= d.max_level /\ kept <= inp.maxl
        /\ kept = d.max_level \/ kept = inp.maxl
    BY <1>1, <1>2 DEF Min2
  <1>5. ncyc \in [Levels -> Nat \ {0}]
    BY <1>1, <1>2
  <1> HIDE DEF top, kept, ncyc
  <1>6. \A l \in Levels : l \in Nat
    BY LevelNumbers
  <1>7. /\ \A l \in 0..d.finest_level : d.dt_level[l] > 0 /\ d.newt[l] # None
        /\ PostStepHandled => \A l \in 0..d.finest_level : d.newt[l] = d.cumtime
    BY DEF HeaderOK
  <1>8. \A l \in Levels : l <= top => l \in 0..d.finest_level
    BY <1>2, <1>4, <1>6
  <1>9. \A l \in 0..top : l \in Levels /\ l <= top
    <2>1. MaxLevel \in Nat /\ top <= MaxLevel
      BY <1>1, <1>4, LevelNumbers
    <2> QED
      BY <1>4, <2>1 DEF Levels
  <1>10. dt_level' \in DtVectors /\ \A l \in 0..top : dt_level'[l] > 0
    <2>1. d.dt_level \in [Levels -> 0..MaxDt]
      BY <1>2 DEF DtVectors
    <2>2. dt_level' \in [Levels -> 0..MaxDt]
      BY <1>3, <2>1, ZeroDt
    <2>3. \A l \in 0..top : dt_level'[l] > 0
      BY <1>3, <1>7, <1>8, <1>9
    <2> QED
      BY <2>2, <2>3 DEF DtVectors
  <1>11. newt' \in [Levels -> Int \cup {None}] /\ oldt' \in [Levels -> Int \cup {None}]
    BY <1>2, <1>3
  <1>12. \A l \in Levels : newt'[l] = None <=> l > top
    <2>1. ASSUME NEW l \in Levels, l <= top PROVE newt'[l] # None
      BY <1>3, <1>7, <1>8, <2>1
    <2> QED
      BY <1>3, <1>4, <1>6, <2>1
  <1>13. level_steps' \in [Levels -> Nat]
    BY <1>1, <1>2, <1>3, <1>4, <1>5, RestartStepsType
  <1>14. ror => RegridInt[0] > 0 /\ RegridInt[0] \in Nat
    BY RestartAssumption, RegridIntAssumption, LevelNumbers
  <1>15. ror \in BOOLEAN
    BY RestartAssumption
  <1>16. /\ level_count' \in [Levels -> Nat]
         /\ \A l \in Levels : level_count'[l] = IF l = 0 /\ ror THEN RegridInt[0]
                                                ELSE IF l < kept + 1 THEN d.level_count[l] ELSE 0
    <2>1. \A l \in Levels : level_count'[l] = IF l = 0 /\ ror THEN RegridInt[0]
                                               ELSE IF l < kept + 1 THEN d.level_count[l] ELSE 0
      BY <1>3
    <2>2. level_count' = [l \in Levels |-> level_count'[l]]
      BY <1>3
    <2>3. \A l \in Levels : d.level_count[l] \in Nat
      BY <1>2
    <2>4. \A l \in Levels : level_count'[l] \in Nat
      BY <1>14, <2>1, <2>3
    <2> HIDE DEF counts
    <2> QED
      BY <2>1, <2>2, <2>4
  <1>17. since' \in [Levels -> Nat]
    BY <1>2, <1>3
  <1>18. psr' \in [Levels -> BOOLEAN] /\ being' \in Levels \cup {-1} /\ stack' \in Seq(Frames)
    BY <1>3
  <1>19. max_level' \in Levels \ {0} /\ finest_level' \in 0..max_level' /\ cumtime' \in Nat
    BY <1>1, <1>2, <1>3, <1>4
  <1>20. StateOK'
    BY <1>3, <1>5, <1>10, <1>11, <1>12, <1>13, <1>16, <1>17, <1>18, <1>19 DEF StateOK
  <1>21. PostStepHandled => AtRest'
    BY <1>2, <1>3, <1>7, <1>8, <1>9 DEF AtRest
  <1>22. CountsOK'
    <2> SUFFICES ASSUME NEW l \in 0..(inp.maxl - 1)
                 PROVE  /\ since'[l] <= level_count'[l]
                        /\ RegridInt[l] > 0 => since'[l] <= RegridInt[l]
      BY <1>3 DEF CountsOK
    <2>1. /\ l \in Levels /\ l \in Nat /\ l < inp.maxl /\ RegridInt[l] \in Int
          /\ level_count'[l] \in Nat /\ d.since[l] \in Nat
      <3>1. l \in Levels /\ l \in Nat /\ l < inp.maxl
        BY <1>1, LevelNumbers DEF Levels
      <3> HIDE DEF counts
      <3> QED
        BY <1>2, <1>16, <3>1, RegridIntAssumption
    <2>2. CASE l < d.max_level
      <3>1. d.since[l] <= d.level_count[l] /\ (RegridInt[l] > 0 => d.since[l] <= RegridInt[l])
        BY <1>2, <2>1, <2>2 DEF HeaderOK
      <3>2. since'[l] = d.since[l] /\ l < kept + 1
        BY <1>3, <1>4, <2>1, <2>2
      <3> QED
        BY <1>14, <1>16, <2>1, <3>1, <3>2
    <2>3. CASE ~(l < d.max_level)
      <3>1. since'[l] = 0
        BY <1>3, <2>1, <2>3
      <3> QED
        BY <2>1, <3>1
    <2> QED
      BY <2>2, <2>3
  <1> QED
    BY <1>3, <1>20, <1>21, <1>22, RestCore

-----------------------------------------------------------------------------
(***************************************************************************)
(* Checkpoints                                                             *)
(***************************************************************************)
\* A step that leaves the hierarchy alone while no call of timeStep is active.
LEMMA SameHierarchy ==
    ASSUME Core, mode \notin {"step", "end"}, mode' \notin {"step", "end"},
           UNCHANGED <<inputvars, finest_level, cumtime, dt_level, level_steps, level_count,
                       datavars, being, stack, since>>
    PROVE  Core'
  <1>1. UNCHANGED <<max_level, n_cycle, finest_level, cumtime, dt_level, level_steps, level_count,
                    newt, oldt, psr, being, stack, since>>
    BY DEF inputvars, datavars
  <1>2. StateOK' /\ CountsOK' /\ stack' = <<>>
    BY <1>1 DEF Core, HierarchyOK, StateOK, CountsOK, Recursion
  <1>3. ASSUME PostStepHandled PROVE AtRest'
    BY <1>1, <1>3 DEF Core, HierarchyOK, ClocksOK, AtRest
  <1> QED
    BY <1>2, <1>3, RestCore

\* The Header of a hierarchy at rest.
LEMMA NewHeader ==
    ASSUME Core, mode = "idle"
    PROVE  HeaderOK(Header) /\ Header.finest_level = finest_level
  <1>1. StateOK /\ CountsOK /\ (PostStepHandled => AtRest)
    BY DEF Core, HierarchyOK, ClocksOK
  <1>2. /\ max_level \in Levels \ {0} /\ finest_level \in 0..max_level /\ finest_level \in Levels
        /\ finest_level <= max_level /\ cumtime \in Nat /\ dt_level \in DtVectors
        /\ \A l \in 0..finest_level : dt_level[l] > 0
    BY <1>1, LevelsAssumption DEF StateOK, Levels
  <1>3. Header \in Checkpoints
    BY <1>1, <1>2, StateTypes DEF Header, Checkpoints
  <1>4. PostStepHandled => \A l \in 0..finest_level : newt[l] = cumtime
    BY <1>1, <1>2 DEF AtRest
  <1>5. ASSUME NEW l \in 0..finest_level PROVE newt[l] # None
    <2>1. l \in Levels /\ ~(l > finest_level)
      BY <1>2, LevelsAssumption DEF Levels
    <2> QED
      BY <1>1, <2>1 DEF StateOK
  <1> QED
    BY <1>1, <1>2, <1>3, <1>4, <1>5 DEF HeaderOK, Header, CountsOK

LEMMA CheckpointInitOK ==
    ASSUME CheckpointInit
    PROVE  CheckpointIInv
  <1>1. Core /\ mode = "idle"
    BY InitCore DEF CheckpointInit, Init
  <1>2. disk = [n \in 0..MaxSteps |-> None] /\ olds = {}
    BY DEF CheckpointInit
  <1>3. Dirs = {}
    BY <1>2 DEF Dirs
  <1>4. disk = [n \in 0..MaxSteps |-> disk[n]]
    BY <1>2
  <1> QED
    BY <1>1, <1>3, <1>4 DEF CheckpointIInv, DiskOK, Core

LEMMA DriverStep ==
    ASSUME CheckpointIInv, Driver
    PROVE  CheckpointIInv' /\ Dirs \subseteq Dirs'
  <1>1. mode \in {"idle", "step", "end"} /\ mode' \in {"idle", "step", "end"}
    BY DriverModes DEF Driver
  <1>2. Core'
    BY <1>1, DriverCore DEF CheckpointIInv, Core, Driver
  <1>3. disk' = disk /\ olds' = olds
    BY DEF Driver, diskvars
  <1>4. Dirs' = Dirs
    BY <1>3 DEF Dirs
  <1>5. DiskOK'
    BY <1>1, <1>4 DEF CheckpointIInv, DiskOK
  <1> QED
    BY <1>1, <1>2, <1>3, <1>4, <1>5 DEF CheckpointIInv, Core

LEMMA CheckpointBeginStep ==
    ASSUME CheckpointIInv, CheckpointBegin
    PROVE  CheckpointIInv' /\ Dirs \subseteq Dirs'
  <1> DEFINE s == level_steps[0]
  <1>1. /\ mode = "idle" /\ s <= MaxSteps /\ mode' = "write"
        /\ olds' = IF disk[s] = None THEN olds ELSE olds \cup {disk[s]}
        /\ disk' = [disk EXCEPT ![s] = None] /\ temp' = Header
        /\ UNCHANGED <<inputvars, finest_level, cumtime, dt_level, level_steps, level_count,
                       datavars, being, stack, since>>
    BY DEF CheckpointBegin
  <1>2. Core
    BY <1>1 DEF CheckpointIInv, Core
  <1>3. s \in 0..MaxSteps
    BY <1>1, <1>2, StateTypes, LevelNumbers, RestartAssumption DEF Core
  <1>4. Core'
    BY <1>1, <1>2, SameHierarchy
  <1>5. HeaderOK(temp')
    BY <1>1, <1>2, NewHeader
  <1>6. disk = [n \in 0..MaxSteps |-> disk[n]]
    BY DEF CheckpointIInv
  <1> HIDE DEF s
  <1>7. /\ disk' = [n \in 0..MaxSteps |-> disk'[n]]
        /\ disk'[s] = None /\ \A n \in 0..MaxSteps : n # s => disk'[n] = disk[n]
    BY <1>1, <1>3, <1>6
  <1>8. Dirs' = Dirs
    BY <1>1, <1>3, <1>7 DEF Dirs
  <1>9. DiskOK'
    <2>1. level_steps'[0] = s
      BY <1>1 DEF s
    <2>2. HeaderOK(temp)'
      BY <1>5 DEF HeaderOK
    <2>3. \A d \in Dirs' : HeaderOK(d) /\ Whole(d)
      BY <1>8 DEF CheckpointIInv, DiskOK
    <2> QED
      BY <1>1, <1>7, <2>1, <2>2, <2>3 DEF DiskOK
  <1> QED
    BY <1>1, <1>4, <1>7, <1>8, <1>9 DEF CheckpointIInv, Core

LEMMA CheckpointLevelStep ==
    ASSUME CheckpointIInv, CheckpointLevel
    PROVE  CheckpointIInv' /\ Dirs \subseteq Dirs'
  <1>1. mode = "write" /\ UNCHANGED <<vars, disk, olds>>
    BY DEF CheckpointLevel
  <1>2. PICK l \in 0..finest_level : temp' = [temp EXCEPT !.written = @ \cup {l}]
    BY DEF CheckpointLevel
  <1>3. Core
    BY <1>1 DEF CheckpointIInv, Core
  <1>4. Core' /\ mode' = mode /\ level_steps' = level_steps
    BY <1>1, <1>3, StutterCore DEF vars
  <1>5. Dirs' = Dirs
    BY <1>1 DEF Dirs
  <1>6. l \in Levels
    BY <1>3, LevelsAssumption DEF Core, StateOK, Levels
  <1>7. HeaderOK(temp)
    BY <1>1 DEF CheckpointIInv, DiskOK
  <1>8. HeaderOK(temp)'
    <2>1. temp \in Checkpoints
      BY <1>7 DEF HeaderOK
    <2>2. /\ temp' \in Checkpoints /\ temp'.cumtime = temp.cumtime
          /\ temp'.max_level = temp.max_level /\ temp'.finest_level = temp.finest_level
          /\ temp'.dt_level = temp.dt_level /\ temp'.newt = temp.newt /\ temp'.since = temp.since
          /\ temp'.level_count = temp.level_count
      BY <1>2, <1>6, <2>1 DEF Checkpoints
    <2> QED
      BY <1>7, <2>2 DEF HeaderOK
  <1>9. DiskOK'
    BY <1>1, <1>4, <1>5, <1>8 DEF CheckpointIInv, DiskOK
  <1> QED
    BY <1>1, <1>4, <1>5, <1>9 DEF CheckpointIInv, Core

LEMMA CheckpointRenameStep ==
    ASSUME CheckpointIInv, CheckpointRename
    PROVE  CheckpointIInv' /\ Dirs \subseteq Dirs'
  <1> DEFINE s == level_steps[0]
  <1>1. /\ mode = "write" /\ Whole(temp) /\ mode' = "idle" /\ olds' = olds
        /\ disk' = [disk EXCEPT ![s] = temp]
        /\ UNCHANGED <<inputvars, finest_level, cumtime, dt_level, level_steps, level_count,
                       datavars, being, stack, since>>
    BY DEF CheckpointRename
  <1>2. Core /\ HeaderOK(temp) /\ s <= MaxSteps /\ disk[s] = None
    BY <1>1 DEF CheckpointIInv, DiskOK, Core
  <1>3. s \in 0..MaxSteps
    BY <1>2, StateTypes, LevelNumbers, RestartAssumption DEF Core
  <1>4. Core'
    BY <1>1, <1>2, SameHierarchy
  <1>5. disk = [n \in 0..MaxSteps |-> disk[n]]
    BY DEF CheckpointIInv
  <1> HIDE DEF s
  <1>6. /\ disk' = [n \in 0..MaxSteps |-> disk'[n]]
        /\ disk'[s] = temp /\ \A n \in 0..MaxSteps : n # s => disk'[n] = disk[n]
    BY <1>1, <1>3, <1>5
  <1>7. Dirs \subseteq Dirs' /\ Dirs' \subseteq Dirs \cup {temp}
    BY <1>1, <1>2, <1>3, <1>6 DEF Dirs
  <1>8. \A d \in Dirs' : HeaderOK(d) /\ Whole(d)
    BY <1>1, <1>2, <1>7 DEF CheckpointIInv, DiskOK
  <1>9. DiskOK'
    BY <1>1, <1>8 DEF DiskOK
  <1> QED
    BY <1>1, <1>4, <1>6, <1>7, <1>9 DEF CheckpointIInv, Core

LEMMA CrashStep ==
    ASSUME CheckpointIInv, Crash
    PROVE  CheckpointIInv' /\ Dirs \subseteq Dirs'
  <1>1. mode' = "down" /\ disk' = disk /\ olds' = olds
    BY DEF Crash
  <1>2. Dirs' = Dirs
    BY <1>1 DEF Dirs
  <1> QED
    BY <1>1, <1>2 DEF CheckpointIInv, DiskOK

LEMMA RestartStep ==
    ASSUME CheckpointIInv, NEW inp \in Inputs, NEW ror \in RegridOnRestart, NEW d \in Dirs,
           Restart(d, inp, ror)
    PROVE  CheckpointIInv' /\ Dirs \subseteq Dirs'
  <1>1. HeaderOK(d)
    BY DEF CheckpointIInv, DiskOK
  <1>2. Core' /\ mode' = "idle"
    BY <1>1, RestartCore
  <1>3. disk' = disk /\ olds' = olds
    BY DEF Restart, Resume, diskvars
  <1>4. Dirs' = Dirs
    BY <1>3 DEF Dirs
  <1> QED
    BY <1>2, <1>3, <1>4 DEF CheckpointIInv, DiskOK, Core

LEMMA SameDisk ==
    ASSUME CheckpointIInv, UNCHANGED vars, UNCHANGED diskvars
    PROVE  CheckpointIInv' /\ Dirs \subseteq Dirs'
  <1>1. disk' = disk /\ olds' = olds /\ temp' = temp /\ mode' = mode /\ level_steps' = level_steps
    BY DEF vars, diskvars
  <1>2. Dirs' = Dirs
    BY <1>1 DEF Dirs
  <1>3. mode # "down" => Core'
    BY StutterCore DEF CheckpointIInv, Core
  <1>4. DiskOK'
    BY <1>1, <1>2 DEF CheckpointIInv, DiskOK
  <1> QED
    BY <1>1, <1>2, <1>3, <1>4 DEF CheckpointIInv, Core

LEMMA CheckpointStep ==
    ASSUME CheckpointIInv, [CheckpointNext]_allvars
    PROVE  CheckpointIInv' /\ Dirs \subseteq Dirs'
  <1>1. CASE Lost \/ UNCHANGED allvars
    BY <1>1, SameDisk DEF Lost, allvars
  <1>2. CASE Done /\ UNCHANGED <<diskvars, crashes>>
    BY <1>2, SameDisk DEF Done
  <1> QED
    BY <1>1, <1>2, DriverStep, CheckpointBeginStep, CheckpointLevelStep, CheckpointRenameStep,
       CrashStep, RestartStep DEF CheckpointNext

\* With checkpoints, crashes and restarts: the inductive invariant.
THEOREM CheckpointInvariance == CheckpointSpec => []CheckpointIInv
  <1>1. CheckpointInit => CheckpointIInv
    BY CheckpointInitOK
  <1>2. CheckpointIInv /\ [CheckpointNext]_allvars => CheckpointIInv'
    BY CheckpointStep
  <1> QED
    BY <1>1, <1>2, PTL DEF CheckpointSpec

\* A directory with a checkpoint's name, or moved out of its way, holds a whole
\* checkpoint of a synchronised hierarchy, whenever the program died, if the
\* application has init methods made for the regrids it asks for.
THEOREM CheckpointsWhole ==
    ASSUME PostStepHandled
    PROVE  CheckpointSpec => []WholeCheckpoints
  <1>1. CheckpointIInv => WholeCheckpoints
    BY DEF CheckpointIInv, DiskOK, HeaderOK, WholeCheckpoints
  <1> QED
    BY <1>1, CheckpointInvariance, PTL

\* Between coarse steps every level is at the driver's time, also after a restart
\* with another max_level or other n_cycle than the run that wrote the checkpoint, if
\* the application has init methods made for the regrids it asks for.
THEOREM RestartSynced ==
    ASSUME PostStepHandled
    PROVE  CheckpointSpec => []Synced
  <1>1. CheckpointIInv => Synced
    <2>1. mode = "idle" /\ CheckpointIInv => Core
      BY DEF CheckpointIInv, Core
    <2> QED
      BY <2>1, RestSynced DEF Synced
  <1> QED
    BY <1>1, CheckpointInvariance, PTL

\* A checkpoint, once whole, is never lost: a run that writes the same step again
\* moves it out of the way first, and whatever it dies of leaves it there.
THEOREM NothingIsLost == CheckpointSpec => NothingLost
  <1>1. CheckpointIInv /\ [CheckpointNext]_allvars => [Dirs \subseteq Dirs']_allvars
    BY CheckpointStep
  <1> QED
    BY <1>1, CheckpointInvariance, PTL DEF CheckpointSpec, NothingLost
=============================================================================

----------------------------- MODULE Subcycling -----------------------------
(***************************************************************************)
(* What the level time stepping of an AMR hierarchy promises, whatever     *)
(* grids come and go.  Each existing level l holds data at time hi[l] and, *)
(* unless lo[l] is None, also at the earlier time lo[l], so that a finer   *)
(* level may interpolate from it at any time in between.                   *)
(*  - A level steps only when every finer level has caught up with it.     *)
(*  - A fine step starts at a time its parent holds data for and does not  *)
(*    run past its parent.                                                 *)
(*  - A regrid moves no clock of a level that survives it; a level it      *)
(*    creates starts at a time its parent holds data for; and no level     *)
(*    loses its earlier data while a finer level is behind it.             *)
(***************************************************************************)
EXTENDS Integers

CONSTANTS MaxLevel,   \* finest level ever allowed
          None        \* no data, or no level

VARIABLES hi, lo

Levels == 0..MaxLevel
vars == <<hi, lo>>

Exists(l) == hi[l] # None
CaughtUp(l) == \A m \in Levels : m > l /\ Exists(m) => hi[m] = hi[l]

\* Level l holds data for time t: at one of its two times or between them.
Covers(l, t) == hi[l] = t \/ (lo[l] # None /\ lo[l] <= t /\ t <= hi[l])

Init ==
    /\ Exists(0)
    /\ CaughtUp(0)
    /\ lo = [l \in Levels |-> None]

Step(l) ==
    /\ Exists(l)
    /\ CaughtUp(l)
    /\ hi'[l] \in Int /\ hi'[l] > hi[l]
    /\ l > 0 => Covers(l - 1, hi[l]) /\ hi'[l] <= hi[l - 1]
    /\ hi' = [hi EXCEPT ![l] = hi'[l]]
    /\ lo' = [lo EXCEPT ![l] = hi[l]]

\* The levels above b are redefined, up to level f.
Regrid(b, f) ==
    /\ Exists(b)
    /\ b <= f
    /\ \A l \in Levels :
          /\ Exists(l)' <=> l <= f
          /\ (l <= f /\ Exists(l)) => hi'[l] = hi[l] /\ lo'[l] \in {lo[l], None}
          /\ (l <= f /\ ~Exists(l)) => Covers(l - 1, hi[l])'
          /\ (l <= f /\ lo'[l] # lo[l]) => CaughtUp(l)'

Next ==
    \/ \E l \in Levels : Step(l)
    \/ \E b, f \in Levels : Regrid(b, f)

Spec == Init /\ [][Next]_vars
=============================================================================

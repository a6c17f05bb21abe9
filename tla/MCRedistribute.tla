--------------------------- MODULE MCRedistribute ---------------------------
(***************************************************************************)
(* Three ranks and a row of four tiles.  Two calls, with tiles that change *)
(* hands, a rank without tiles, and neighbours whose tiles are not in the  *)
(* order of their ranks.                                                   *)
(***************************************************************************)
EXTENDS Redistribute

\* The neighbours of rank 1 are met in the order 1, 2, 0 in the first of these.
Between == <<1, 2, 1, 0>>
Spread == <<2, 1, 0, 0>>
Swapped == <<0, 1, 2, 0>>
Idling == <<0, 0, 1, 1>>

LocalCalls(o) == <<[local |-> TRUE, owner |-> o], [local |-> TRUE, owner |-> o]>>
GlobalCalls(o, u) == <<[local |-> FALSE, owner |-> o], [local |-> FALSE, owner |-> u]>>
MixedCalls(o, u) == <<[local |-> FALSE, owner |-> o], [local |-> TRUE, owner |-> o], [local |-> FALSE, owner |-> u]>>

Program(start, calls, path, oneSided) ==
    [start |-> start, calls |-> calls, path |-> path, oneSided |-> oneSided]

Routes(n) == IF n = 3
    THEN { <<<<1, 2, 3>>, <<3, 2, 2>>, <<2, 3, 4>>>>,
           <<<<1, 2, 2>>, <<3, 2, 1>>, <<4, 4, 0>>>>,
           <<<<2, 1, 0>>, <<2, 3, 3>>, <<2, 2, 2>>>>,
           <<<<2, 1, 2>>, <<3, 4, 4>>, <<4, 3, 4>>>> }
    ELSE { <<<<1, 4, 3, 1>>, <<3, 2, 2, 4>>, <<2, 2, 1, 3>>>> }

Far == { <<<<1, 4, 2>>, <<2, 4, 1>>, <<3, 1, 0>>>>, <<<<1, 3, 3>>, <<1, 3, 1>>, <<4, 0, 0>>>> }

MCPrograms ==
    {Program(o, LocalCalls(o), p, FALSE) : o \in {Between, Swapped, Idling}, p \in Routes(3)}
    \cup {Program(s, GlobalCalls(o, u), p, b) :
            s \in {Spread}, o \in {Spread, Idling}, u \in {Swapped, Idling}, p \in Routes(3) \cup Far, b \in BOOLEAN}
    \cup {Program(Idling, MixedCalls(Spread, u), p, FALSE) : u \in {Swapped, Spread}, p \in Routes(4)}
=============================================================================

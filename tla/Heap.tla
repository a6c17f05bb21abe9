-------------------------------- MODULE Heap --------------------------------
(***************************************************************************)
(* What an arena promises the program that allocates from it: the blocks   *)
(* it has handed out and not taken back never overlap, each lies wholly in *)
(* memory the system has granted and the arena has not released, and a     *)
(* call touches no block but the one it was given.                         *)
(***************************************************************************)
EXTENDS Naturals

VARIABLES live,      \* the blocks in the hands of the program: [p, size]
          granted    \* the regions of memory the arena may hand out from: [p, size]

vars == <<live, granted>>

Apart(r, s) == r.p + r.size <= s.p \/ s.p + s.size <= r.p
Within(r, s) == s.p <= r.p /\ r.p + r.size <= s.p + s.size

Init == live = {} /\ granted = {}

\* A new block, clear of every live one.
Alloc ==
    \E r \in live' :
        /\ live' = live \cup {r}
        /\ \A s \in live : Apart(r, s)

\* A live block shrinks, or grows over memory that is nobody's.
Resize ==
    \E r \in live : \E new \in live' :
        /\ live' = (live \ {r}) \cup {new}
        /\ new.p = r.p
        /\ \A s \in live \ {r} : Apart(new, s)
        /\ UNCHANGED granted

Free == \E r \in live : live' = live \ {r} /\ UNCHANGED granted

\* The arena gets or releases memory, never memory that carries a live block.
Trade == UNCHANGED live

Next ==
    /\ Alloc \/ Resize \/ Free \/ Trade
    /\ \A r \in live' : \E g \in granted' : Within(r, g)
    /\ \A g, h \in granted' : g # h => Apart(g, h)

Spec == Init /\ [][Next]_vars
=============================================================================

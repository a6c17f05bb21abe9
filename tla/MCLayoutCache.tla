--------------------------- MODULE MCLayoutCache ---------------------------
(***************************************************************************)
(* LayoutCache on a small instance.                                        *)
(***************************************************************************)
EXTENDS LayoutCache, TLC

CONSTANTS a1, a2, r1, r2, r3, r4, NoSpace

\* The same boxes on other ranks, which comparing the boxes does not tell apart.
MCLayouts == {[boxes |-> 1, procs |-> 1], [boxes |-> 1, procs |-> 2]}

MCViews == {[typ |-> "cell", ratio |-> 1], [typ |-> "cell", ratio |-> 2]}

\* The most that is kept at a time.
SmallCaches ==
    Cardinality(tables.kept) + Cardinality(Objects(tables.CPCache))
        + Cardinality(Objects(tables.FillPatchCache)) <= 2

Symmetry == Permutations({a1, a2}) \cup Permutations({r1, r2, r3, r4})

=============================================================================

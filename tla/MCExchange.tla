----------------------------- MODULE MCExchange -----------------------------
(***************************************************************************)
(* Three ranks; communicator 0 of all, 1 and 2 of the tasks of a ForkJoin, *)
(* 3 of the bottom solve, which is pushed twice.                           *)
(***************************************************************************)
EXTENDS Exchange

MCMembers == [c \in Comms |-> CASE c = 0 -> Ranks [] c = 1 -> {1, 2} [] c = 2 -> {3} [] c = 3 -> {1, 2}]

Nowaits(a, ps, n) == [op |-> "nowait", array |-> a, pairs |-> ps, passes |-> n]
Finishes(a) == [op |-> "finish", array |-> a]
Pushes(cs) == [op |-> "push", comms |-> cs]
All == [op |-> "collective"]

Pair == {<<1, 2>>, <<2, 1>>}
Ring == {<<1, 2>>, <<2, 3>>, <<3, 1>>}
Far == {<<2, 3>>, <<1, 1>>}

Schedule(c, world, bottom) ==
    IF c = 0 THEN world ELSE IF c = 3 THEN bottom ELSE
    <<Nowaits("b", {<<1, 2>>, <<3, 3>>}, 1), Finishes("b"), All>>

\* Two arrays in flight at once, and one across a bottom solve or a fork.
Worlds(p, q, n) ==
    { <<Nowaits("a", p, 1), Nowaits("b", q, n), Finishes("a"), Nowaits("a", q, 1), Finishes("b"), Finishes("a")>>,
      <<Nowaits("a", p, n), Pushes({3}), Finishes("a"), Nowaits("a", q, 1), Pushes({3}), Finishes("a")>>,
      <<Nowaits("a", p, n), All, Pushes({1, 2}), Finishes("a"), Nowaits("b", q, 1), Finishes("b")>> }

Bottoms == { <<Nowaits("b", Pair, 2), Finishes("b"), Nowaits("b", {<<1, 2>>}, 1), Finishes("b")>>,
             <<Finishes("a"), Nowaits("b", {<<2, 1>>}, 1), Finishes("b")>> }

MCPrograms ==
    UNION { { [c \in Comms |-> Schedule(c, w, b)] : w \in Worlds(p, q, n), b \in Bottoms } :
            p \in {Pair, Ring, Far}, q \in {Pair, Ring, Far}, n \in {1, 2} }
=============================================================================

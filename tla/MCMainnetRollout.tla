-------------------------- MODULE MCMainnetRollout --------------------------
(***************************************************************************)
(* One fixture on one day, its final score, and two ways to prove it: the  *)
(* rehearsed arguments and an outsider's with one predicate more.          *)
(***************************************************************************)
EXTENDS MainnetRollout, TLC

CONSTANTS fixture, day

MCDailyScoresPda == 1 :> day

MCCommitted ==
    [root : {day}, fixture : {fixture}, ts : {1}, event : {1}, key : {1, 2},
     period : {100}, value : {3}]

Is(i, v) == [index |-> i, threshold |-> v, comparison |-> "EqualTo"]
Positive == [index |-> 0, threshold |-> 0, comparison |-> "GreaterThan"]

MCInput ==
    [fixture |-> fixture, ts |-> 1, minTs |-> 1, event |-> 1,
     stats |-> <<[key |-> 1, period |-> 100, value |-> 3],
                 [key |-> 2, period |-> 100, value |-> 3]>>]

MCGolden == [input |-> MCInput, strategy |-> {Is(0, 3), Is(1, 3)}]

MCArgs == {MCGolden, [input |-> MCInput, strategy |-> {Is(0, 3), Is(1, 3), Positive}]}

=============================================================================

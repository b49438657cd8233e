-------------------------- MODULE MCSolanaAdapter --------------------------
(***************************************************************************)
(* Two fixtures on two days, their final scores and one non-final event,   *)
(* and the arguments of the unit tests in verify_outcome.rs: good ones, a  *)
(* second strategy for the same proof, and arguments with one defect each. *)
(* Whoever configures the adapter names the bridge, a program that takes   *)
(* the call and posts nothing, or the system program, which fails.         *)
(***************************************************************************)
EXTENDS SolanaAdapter, TLC

CONSTANTS f1, f2, dayOne, dayTwo, impostor

MCDailyScoresPda == (1 :> dayOne) @@ (2 :> dayTwo)

Leaf(r, f, t, e, k, p, v) ==
    [root |-> r, fixture |-> f, ts |-> t, event |-> e, key |-> k, period |-> p, value |-> v]

\* 2:1 in the end; the event before it had 1:1 and six corners (key 7).
MCCommitted ==
    {Leaf(dayOne, f1, 1, 0, 1, 4, 1), Leaf(dayOne, f1, 1, 0, 2, 4, 1)}
    \union {Leaf(dayOne, f1, 1, 1, 1, 100, 2), Leaf(dayOne, f1, 1, 1, 2, 100, 1),
            Leaf(dayOne, f1, 1, 1, 7, 100, 3)}
    \union {Leaf(dayTwo, f1, 2, 1, 1, 100, 2), Leaf(dayTwo, f1, 2, 1, 2, 100, 1)}
    \union {Leaf(dayTwo, f2, 2, 1, 1, 100, 0), Leaf(dayTwo, f2, 2, 1, 2, 100, 0)}
    \* the root of another day commits to another score for the same time
    \union {Leaf(dayTwo, f2, 1, 1, 1, 100, 3), Leaf(dayTwo, f2, 1, 1, 2, 100, 0)}

S(k, p, v) == [key |-> k, period |-> p, value |-> v]
P(i, v, c) == [index |-> i, threshold |-> v, comparison |-> c]
Is(i, v) == P(i, v, "EqualTo")

MCInput(f, t, m, e, stats) ==
    [fixture |-> f, ts |-> t, minTs |-> m, event |-> e, stats |-> stats]

A(input, strategy) == [input |-> input, strategy |-> strategy]

Final(v1, v2) == <<S(1, 100, v1), S(2, 100, v2)>>

GoodArgs ==
    { A(MCInput(f1, 1, 1, 1, Final(2, 1)), {Is(0, 2), Is(1, 1)}),
      A(MCInput(f1, 1, 1, 1, Final(2, 1)), {Is(0, 2), Is(1, 1), P(0, 0, "GreaterThan")}),
      A(MCInput(f1, 2, 2, 1, Final(2, 1)), {Is(0, 2), Is(1, 1)}),
      A(MCInput(f2, 2, 2, 1, Final(0, 0)), {Is(0, 0), Is(1, 0)}) }

DefectiveArgs ==
    { \* bounds, not equalities
      A(MCInput(f1, 1, 1, 1, Final(1, 1)), {P(0, 1, "GreaterThan"), Is(1, 1)}),
      \* untrue
      A(MCInput(f1, 1, 1, 1, Final(3, 1)), {Is(0, 3), Is(1, 1)}),
      A(MCInput(f2, 1, 1, 1, Final(3, 0)), {Is(0, 3), Is(1, 0)}),
      \* not final, and for another time
      A(MCInput(f1, 1, 1, 0, <<S(1, 4, 1), S(2, 4, 1)>>), {Is(0, 1), Is(1, 1)}),
      A(MCInput(f1, 1, 2, 1, Final(2, 1)), {Is(0, 2), Is(1, 1)}),
      \* participant 1 listed twice
      A(MCInput(f1, 1, 1, 1, <<S(1, 100, 2), S(2, 100, 1), S(1, 100, 2)>>),
        {Is(0, 2), Is(1, 1)}),
      \* participant 1 beyond the last index: 3 narrows to 0, the corners
      A(MCInput(f1, 1, 1, 1, <<S(7, 100, 3), S(2, 100, 1), S(9, 100, 0), S(1, 100, 3)>>),
        {Is(0, 3), Is(1, 1)}) }

MCArgs == GoodArgs \union DefectiveArgs

=============================================================================

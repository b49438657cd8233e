-------------------------- MODULE MCMainnetAttestor --------------------------
(***************************************************************************)
(* Two sequence numbers with different results; records and proofs that    *)
(* are right, wrong, incomplete or not usable, a proof whose request names *)
(* one sequence number and whose body proves the event of the other, and a *)
(* record of another fixture in the capture's directory.                   *)
(***************************************************************************)
EXTENDS MainnetAttestor

CONSTANTS noScore, none, watched, other

MCCommitted == << [fixture |-> watched, seq |-> 1, score |-> <<1, 0>>],
                  [fixture |-> watched, seq |-> 2, score |-> <<1, 1>>] >>

MCRecords == {[fixture |-> watched, seq |-> 2, score |-> noScore],
              [fixture |-> watched, seq |-> 2, score |-> <<1, 1>>],
              [fixture |-> other, seq |-> 1, score |-> noScore]}

Line(seq, event, score) ==
    [seq |-> seq, usable |-> TRUE, event |-> event, fixture |-> watched, score |-> score]

MCProofs == {Line(2, 2, <<1, 1>>), Line(2, 2, <<0, 1>>), Line(2, 1, <<1, 0>>),
             Line(1, 1, <<1, 0>>), [Line(2, 2, noScore) EXCEPT !.usable = FALSE]}

=============================================================================

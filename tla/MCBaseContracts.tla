-------------------------- MODULE MCBaseContracts --------------------------
(***************************************************************************)
(* A small deployment: two fixtures (one of them the market's), two proof  *)
(* bundles for the first, and the deliveries of the contract tests: the    *)
(* canonical outcome, a second bundle, a reused sequence, and VAAs each    *)
(* with one defect.                                                        *)
(***************************************************************************)
EXTENDS BaseContracts

CONSTANTS f1, f2, b1, b2, emitter, impostor, solana, elsewhere, base, ethereum

MCIds == {emitter, impostor} \X {f1, f2} \X {b1, b2}

MCResults == 0 .. 4

\* A bundle proves one result, whoever reports it.
ResultOf(b) == IF b = b1 THEN 1 ELSE 3

Body(seq, nonce, f, b) ==
    [chain |-> solana, emitter |-> emitter, sequence |-> seq, nonce |-> nonce,
     wellFormed |-> TRUE, destination |-> base, fixture |-> f, bundle |-> b,
     result |-> ResultOf(b)]

Signed(body) == [signed |-> TRUE, body |-> body]

Canonical == Body(1, 0, f1, b1)

GoodVaas ==
    { Signed(Canonical),
      Signed(Body(1, 1, f1, b1)),    \* reused sequence, another nonce
      Signed(Body(2, 0, f1, b1)),    \* the same outcome published twice
      Signed(Body(3, 0, f1, b2)),    \* a second, different outcome
      Signed(Body(3, 0, f2, b1)),    \* its sequence on the other fixture
      Signed(Body(4, 0, f2, b1)) }

DefectiveVaas ==
    { [signed |-> FALSE, body |-> Body(5, 0, f1, b1)],
      Signed([Body(5, 0, f1, b1) EXCEPT !.chain = elsewhere]),
      Signed([Body(5, 0, f1, b1) EXCEPT !.emitter = impostor]),
      Signed([Body(5, 0, f1, b1) EXCEPT !.wellFormed = FALSE]),
      Signed([Body(5, 0, f1, b2) EXCEPT !.destination = ethereum]) }

MCVaas == GoodVaas \union DefectiveVaas

CREReport(f, id, result) == [fixture |-> f, id |-> id, result |-> result]

MCReports ==
    { CREReport(f1, Compute(emitter, f1, b1), 1),
      CREReport(f1, Compute(emitter, f1, b2), 3),
      CREReport(f1, Compute(emitter, f1, b1), 0),   \* InvalidResult
      CREReport(f2, Compute(emitter, f2, b1), 1),
      CREReport(f2, Compute(emitter, f1, b2), 3) }  \* a digest of the other fixture

ASSUME MCConsistent ==
    \A v \in MCVaas : v.body.result = ResultOf(v.body.bundle)

=============================================================================

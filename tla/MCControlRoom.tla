-------------------------- MODULE MCControlRoom ---------------------------
(***************************************************************************)
(* The instance TLC checks.  Undisturbed, a run may be told to its end,    *)
(* captured and replayed under the other id; after one mishap fewer events *)
(* are recorded.                                                           *)
(***************************************************************************)
EXTENDS ControlRoom

MCMaxEvents == <<12, 6>>

=============================================================================

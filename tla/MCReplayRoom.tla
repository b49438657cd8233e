---------------------------- MODULE MCReplayRoom ----------------------------
(***************************************************************************)
(* Three recordings: the bundled demo run, which has a derivation; and two *)
(* captured ones, which have none: a run whose attestor was stopped by a   *)
(* provider, then found no quorum, was started again and spoke only after  *)
(* the market settled, and a run that stopped before the VAA was there,    *)
(* its source lane having been started over.  The live run is the second.  *)
(***************************************************************************)
EXTENDS ReplayRoom

Failed(stage) == [type |-> "RUN_FAILED", stage |-> stage]

Answers == <<Answer("a", TRUE), Answer("b", TRUE), Answer("c", TRUE)>>

Retried ==
    Numbered(<<Says("FINAL_RECORD_OBSERVED"), Says("PROOF_AVAILABLE"), Says("PROOF_STAGED"),
               Says("SOLANA_VERIFY_SUBMITTED"), Answer("a", TRUE), Says("HEARTBEAT"),
               Answer("a", TRUE), Answer("b", FALSE), Answer("c", FALSE), Failed("level3-attestor"),
               Says("HEARTBEAT"), Says("TXLINE_CPI_VERIFIED")>>
        \o Answers
        \o <<Says("WORMHOLE_MESSAGE_PUBLISHED"), Signed, Says("LEVEL4_BASE_SUBMITTED"),
             Says("BASE_VAA_VERIFIED"), Says("DUAL_FINALITY_REACHED"), Says("CONSUMER_SETTLED"),
             Says("LEVEL3_BASE_FINALIZED")>>)

Stopped ==
    Numbered(<<Says("FINAL_RECORD_OBSERVED"), Says("PROOF_AVAILABLE"), Failed("source-dispatch"),
               Says("HEARTBEAT"), Says("FINAL_RECORD_OBSERVED"), Says("PROOF_AVAILABLE"),
               Says("PROOF_STAGED"), Says("SOLANA_VERIFY_SUBMITTED")>>
        \o Answers
        \o <<Says("TXLINE_CPI_VERIFIED"), Says("WORMHOLE_MESSAGE_PUBLISHED"),
             Failed("vaa-executor")>>)

MCRecordings == {DemoRun, Captured(Retried), Captured(Stopped)}

=============================================================================

------------------------- MODULE MCRelayPipeline -------------------------
\* One market, three providers and a match that ends 1:0 on the day of the root
\* account; days last 10, the second has a root as well and the third has none.
EXTENDS RelayPipeline, TLC

CONSTANTS emitter, rpc1, rpc2, rpc3

MCDailyRoot == 0 :> "root" @@ 1 :> "next root"

\* TxLINE's live event and its bare finalisation.
Goal(seq) ==
    [action |-> "goal", gameState |-> "live", statusId |-> None, period |-> None,
     score1 |-> 1, score2 |-> 0, seq |-> seq, time |-> 5]

Finalised(seq, home, away, time) ==
    [action |-> "game_finalised", gameState |-> "scheduled", statusId |-> None,
     period |-> None, score1 |-> home, score2 |-> away, seq |-> seq, time |-> time]

\* A later finalisation with another result must not count.
MCFinal == {Goal(1), Finalised(2, 1, 0, 9), Finalised(3, 1, 1, 9)}

\* In play; final; final without a score and final on the next day.
MCFeeds ==
    { {Goal(1)}, MCFinal, {Finalised(2, None, None, 9)}, {Finalised(2, 1, 0, 12)} }

MCOneFeed == {MCFinal}

MCIds == {ReportOf(v).id : v \in Versions}

MCReports == {ReportOf(v) : v \in Versions}

MCVaas == {VaaOf(v) : v \in Versions}

\* The report of a run that read the final record without its score.
MCRivals == {FindFinalRecord(FetchFixtureState({Finalised(2, None, None, 9)}))}

\* A provider whose simulation fails.
Errs == [RecordedSimulateResponse EXCEPT !.err = TRUE]

\* Two of three agree.
MCQuorum ==
    {[p \in Providers |-> IF p = rpc1 THEN Errs ELSE RecordedSimulateResponse]}

\* No quorum; one does not answer.
MCBehaviours ==
    MCQuorum \union
    { [p \in Providers |-> IF p = rpc1 THEN RecordedSimulateResponse ELSE Errs],
      [p \in Providers |-> IF p = rpc1 THEN None ELSE RecordedSimulateResponse] }

MCAllAgree == {[p \in Providers |-> RecordedSimulateResponse]}

==========================================================================

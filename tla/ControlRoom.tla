---------------------------- MODULE ControlRoom ----------------------------
(***************************************************************************)
(* What the audience sees: the coordinator records the events that the     *)
(* three workflows post, appends them to the run's file and streams them   *)
(* to a live control room, which folds them into its state; a manifest     *)
(* assembled from the file is replayed through the same fold, or posted    *)
(* again, event by event, under another id.                                *)
(*                                                                         *)
(* The coordinator is one thread: a request is one step.  It may be        *)
(* restarted, a run may be registered again, the stream may break and be   *)
(* reopened, a workflow may be killed and repeat what it said.             *)
(*                                                                         *)
(* Only events that change the steps, the finality or a lane's status are  *)
(* here; module ReplayRoom has the others, and what the screen makes of    *)
(* the state.                                                              *)
(***************************************************************************)
EXTENDS RoomState

CONSTANTS
    Runs,               \* run ids
    NoRun,
    NoManifest,
    NoReplay,
    MaxRegistrations,   \* bound: POST /runs
    MaxEvents           \* bound: MaxEvents[m] events recorded, in all files, when
                        \* m - 1 mishaps (restarts, breaks, failures, kills) happened

ASSUME RoomAssumption ==
    /\ NoRun \notin Runs
    /\ MaxRegistrations \in Nat
    /\ MaxEvents \in Seq(Nat) \ {<<>>}

VARIABLES
    run,             \* EventStore.run: the id of the active run
    events,          \* EventStore.run.events
    file,            \* file[r]: events.ndjson of run r
    manifest,        \* manifest[r]: the events of manifest.json of run r
    registrations,   \* registrations[r]: how often r was registered
    relay,           \* the run registered last: who registered it is at work
    replay,          \* replay-run: what it read and the event it posts next
    position,        \* position[r][w]: how much of its script w has gone through
    outcomes,        \* outcomes[r]: what its workflows left for each other
    mode,            \* of the control room; "replay" is any but live
    stream,          \* its event stream: open or closed
    wire,            \* what was written to the stream and not yet received
    live,            \* liveEvents
    mishaps,         \* restarts, breaks, failures and kills so far
    mixed            \* history: a run was registered under a view that showed one

storeVars == <<run, events, file, manifest, registrations, relay>>
workflowVars == <<replay, position, outcomes>>
clientVars == <<mode, stream, wire, live, mixed>>
vars == <<storeVars, workflowVars, clientVars, mishaps>>

-----------------------------------------------------------------------------

\* The events that change the steps, the finality or a lane's status.
Event ==
    [type : DOMAIN Completes \union {"LEVEL3_BASE_FINALIZED", "DUAL_FINALITY_REACHED"},
     stage : {"none"}, signatures : {{}}]
        \union [type : {"RUN_FAILED"}, stage : Stages]

\* What the control room shows, its cursor being on the last live event.
State == ReplayTo(live, IF live = <<>> THEN -1 ELSE Last(live).seq)

-----------------------------------------------------------------------------
\* The coordinator.

\* Bug variant: the file is written, not appended to.
WriteToFile(f, re) == <<re>>

AppendToFile(f, re) == Append(f, re)

Sum(n, m) == n + m

Registrations == FoldFunction(Sum, 0, registrations)

Recorded == FoldFunction(Sum, 0, [r \in Runs |-> Len(file[r])])

\* Something goes wrong.
Mishap ==
    /\ mishaps < Len(MaxEvents) - 1 /\ Recorded < MaxEvents[mishaps + 2]
    /\ mishaps' = mishaps + 1

\* EventStore.startRun: POST /runs.  One relay is at work at a time: who
\* registers a run has stopped the one before.
Register(r) ==
    /\ Registrations < MaxRegistrations
    /\ run' = r /\ relay' = r /\ events' = <<>>
    /\ registrations' = [registrations EXCEPT ![r] = @ + 1]
    /\ mixed' = (mixed \/ (mode = "live" /\ (live # <<>> \/ wire # <<>>)))
    /\ UNCHANGED <<file, manifest, position, outcomes, mode, stream, wire, live, mishaps>>

\* relay-fixture registers the run and starts its workflows.
StartRun(r) == Register(r) /\ replay' = NoReplay

\* EventStore.record and SseHub.send: POST /events.  Without an active run the
\* request fails; the event goes to the workflow's stdout and is not recorded.
Record(e) ==
    \/ /\ run # NoRun /\ Recorded < MaxEvents[mishaps + 1]
       /\ LET re == [seq |-> Len(events), event |-> e]
          IN  /\ events' = Append(events, re)
              /\ file' = [file EXCEPT ![run] = AppendToFile(@, re)]
              /\ wire' = IF stream = "open" THEN Append(wire, re) ELSE wire
       /\ UNCHANGED <<run, manifest, registrations, relay, mode, stream, live, mixed>>
    \/ /\ run = NoRun
       /\ UNCHANGED <<storeVars, clientVars>>

\* Bug variant: the order is not looked at.
ValidManifestAnyOrder(evs) == evs # <<>>

\* validateManifest: sequence numbers strictly increase; no events, no manifest.
ValidManifest(evs) ==
    evs # <<>> /\ \A k \in 2 .. Len(evs) : evs[k].seq > evs[k - 1].seq

\* EventStore.finalize: POST /runs/finalize, the last request of replay-run.
Finalize ==
    /\ replay # NoReplay /\ replay.next > Len(replay.of)
    /\ run # NoRun /\ ValidManifest(events)
    /\ manifest' = [manifest EXCEPT ![run] = events]
    /\ UNCHANGED <<run, events, file, registrations, relay,
                   workflowVars, clientVars, mishaps>>

\* capture-run, once both lanes have written their reports: from the file; it
\* throws if the manifest would be invalid.
Capture(r) ==
    /\ {"handoff", "attested", "delivered"} \subseteq outcomes[r]
    /\ ValidManifest(file[r])
    /\ manifest' = [manifest EXCEPT ![r] = file[r]]
    /\ UNCHANGED <<run, events, file, registrations, relay,
                   workflowVars, clientVars, mishaps>>

\* The process ends and a new one starts: it has no run and no clients.
Restart ==
    /\ Mishap
    /\ run' = NoRun /\ events' = <<>>
    /\ stream' = "closed" /\ wire' = <<>>
    /\ UNCHANGED <<file, manifest, registrations, relay, workflowVars, mode, live, mixed>>

-----------------------------------------------------------------------------
\* The workflows, as far as they are heard.

\* What each does in turn: the events it posts, and what it leaves for another.
Script ==
    [source |-> <<"FINAL_RECORD_OBSERVED", "PROOF_AVAILABLE", "handoff">>,
     level3 |-> <<"attested", "LEVEL3_BASE_FINALIZED">>,
     level4 |-> <<"TXLINE_CPI_VERIFIED", "VAA_READY", "BASE_VAA_VERIFIED",
                  "DUAL_FINALITY_REACHED", "CONSUMER_SETTLED">>]

Outcomes == {"handoff", "attested", "delivered"}

Workflows == DOMAIN Script

StageOf == [source |-> "source-dispatch", level3 |-> "level3-attestor",
            level4 |-> "vaa-executor"]

\* Where a check may fail: before the handoff; before the attestation; before
\* the VAA is at hand, or on comparing its digest with Level 3's, as sim mode does.
FailsAt == [source |-> {2}, level3 |-> {0}, level4 |-> {0, 1, 3}]

At(w) == position[relay][w]

\* The lanes wait for the handoff, dual finality for Level 3's attestation.
MayAct(w) ==
    /\ relay # NoRun /\ replay = NoReplay
    /\ At(w) < Len(Script[w])
    /\ w # "source" => "handoff" \in outcomes[relay]
    /\ w = "level4" /\ At(w) = 3 => "attested" \in outcomes[relay]

Reach(w, n) == position' = [position EXCEPT ![relay][w] = n]

\* It posts its next event.
Speak(w) ==
    /\ MayAct(w)
    /\ Script[w][At(w) + 1] \notin Outcomes
    /\ Record([type |-> Script[w][At(w) + 1], stage |-> "none", signatures |-> {}])
    /\ Reach(w, At(w) + 1)
    /\ UNCHANGED <<outcomes, replay, mishaps>>

\* It writes handoff.json, or its attestation is on Base and level3-report.json
\* is written.
Leave(w) ==
    /\ MayAct(w)
    /\ Script[w][At(w) + 1] \in Outcomes
    /\ outcomes' = [outcomes EXCEPT ![relay] = @ \union {Script[w][At(w) + 1]}]
    /\ Reach(w, At(w) + 1)
    /\ UNCHANGED <<replay, storeVars, clientVars, mishaps>>

\* The executor writes level4-report.json, whether or not it saw dual finality
\* and settled.
Deliver ==
    /\ relay # NoRun /\ replay = NoReplay
    /\ At("level4") >= 3 /\ "delivered" \notin outcomes[relay]
    /\ outcomes' = [outcomes EXCEPT ![relay] = @ \union {"delivered"}]
    /\ UNCHANGED <<position, replay, storeVars, clientVars, mishaps>>

\* Its check fails; a later start reads its state file and tries again.
Fail(w) ==
    /\ Mishap
    /\ MayAct(w) /\ At(w) \in FailsAt[w]
    /\ Record([type |-> "RUN_FAILED", stage |-> StageOf[w]])
    /\ Reach(w, IF w = "source" THEN 1 ELSE 0)
    /\ UNCHANGED <<outcomes, replay>>

\* Where a workflow may go on, from what its state file says.
ResumesAt(w) ==
    [source |-> {0, 1},
     level3 |-> {0},
     level4 |-> {0} \union (IF "delivered" \in outcomes[relay] THEN {3} ELSE {})][w]

\* Killed before its state file said where it was, it repeats itself.
Kill(w) ==
    /\ Mishap
    /\ relay # NoRun /\ replay = NoReplay
    /\ \E n \in ResumesAt(w) : n < At(w) /\ Reach(w, n)
    /\ UNCHANGED <<outcomes, replay, storeVars, clientVars>>

\* replay-run reads a manifest and registers a fresh run id.
StartReplay(r, s) ==
    /\ manifest[r] # NoManifest /\ registrations[s] = 0
    /\ Register(s)
    /\ replay' = [of |-> manifest[r], next |-> 1]

\* It posts the next event; it throws if the coordinator has no run.
Replay ==
    /\ replay # NoReplay /\ replay.next <= Len(replay.of)
    /\ run # NoRun
    /\ Record(replay.of[replay.next].event)
    /\ replay' = [replay EXCEPT !.next = @ + 1]
    /\ UNCHANGED <<position, outcomes, mishaps>>

-----------------------------------------------------------------------------
\* The control room.

\* SseHub.attach: the backlog of the active run, then what comes.
Attach == stream' = "open" /\ wire' = events

\* Bug variant: what an earlier live view showed is kept.
GoLiveKeeping ==
    /\ mode = "replay"
    /\ mode' = "live" /\ mixed' = FALSE
    /\ Attach
    /\ UNCHANGED <<live, storeVars, workflowVars, mishaps>>

GoLive ==
    /\ mode = "replay"
    /\ mode' = "live" /\ live' = <<>> /\ mixed' = FALSE
    /\ Attach
    /\ UNCHANGED <<storeVars, workflowVars, mishaps>>

LeaveLive ==
    /\ mode = "live"
    /\ mode' = "replay"
    /\ stream' = "closed" /\ wire' = <<>>
    /\ UNCHANGED <<live, mixed, storeVars, workflowVars, mishaps>>

Break ==
    /\ stream = "open"
    /\ Mishap
    /\ stream' = "closed" /\ wire' = <<>>
    /\ UNCHANGED <<mode, live, mixed, storeVars, workflowVars>>

\* EventSource opens a broken stream again.
Reconnect ==
    /\ mode = "live" /\ stream = "closed"
    /\ Attach
    /\ UNCHANGED <<mode, live, mixed, storeVars, workflowVars, mishaps>>

\* onmessage: a sequence number already there is dropped.
Take(evs, re) ==
    IF \E k \in DOMAIN evs : evs[k].seq = re.seq THEN evs ELSE Append(evs, re)

Receive ==
    /\ wire # <<>>
    /\ live' = Take(live, Head(wire))
    /\ wire' = Tail(wire)
    /\ UNCHANGED <<mode, stream, mixed, storeVars, workflowVars, mishaps>>

-----------------------------------------------------------------------------

Init ==
    /\ run = NoRun /\ events = <<>> /\ relay = NoRun
    /\ file = [r \in Runs |-> <<>>]
    /\ manifest = [r \in Runs |-> NoManifest]
    /\ registrations = [r \in Runs |-> 0]
    /\ replay = NoReplay
    /\ position = [r \in Runs |-> [w \in Workflows |-> 0]]
    /\ outcomes = [r \in Runs |-> {}]
    /\ mode = "replay" /\ stream = "closed" /\ wire = <<>> /\ live = <<>>
    /\ mishaps = 0 /\ mixed = FALSE

Next ==
    \/ \E r \in Runs : StartRun(r) \/ Capture(r)
    \/ \E r, s \in Runs : StartReplay(r, s)
    \/ Replay \/ Finalize \/ Restart
    \/ \E w \in Workflows : Speak(w) \/ Leave(w) \/ Fail(w) \/ Kill(w)
    \/ Deliver
    \/ GoLive \/ LeaveLive \/ Break \/ Reconnect \/ Receive

Spec == Init /\ [][Next]_vars

-----------------------------------------------------------------------------
\* Properties.

\* A live view has every sequence number up to its last once and in order,
\* whatever was sent twice by backlogs, restarts and new runs: the cursor and the
\* fold rely on it.  Unless another run was registered under it, it shows a prefix
\* of the active run, and with what is on its way to it all of the run: nothing
\* is lost between the backlog and the first event sent, or across a break.
LiveViewIsRun ==
    /\ \A k \in DOMAIN live : live[k].seq = k - 1
    /\ mode = "live" /\ ~mixed /\ run # NoRun =>
           /\ IsPrefix(live, events)
           /\ stream = "open" =>
                  \E n \in 0 .. Len(live) : wire = SubSeq(events, n + 1, Len(events))

\* The manifest of a run is one recording of it from the first event on, also
\* when the run was registered twice and its file holds two.
ManifestIsOneRecording ==
    \A r \in Runs : manifest[r] # NoManifest =>
        \A k \in DOMAIN manifest[r] : manifest[r][k].seq = k - 1

\* The manifest of a run registered once tells what was shown live, also when the
\* coordinator was restarted in between: one is the beginning of the other.  And
\* what replay-run leaves is what it read, event for event and with the same
\* numbers, though the coordinator numbers them again.
ReplayTellsTheSame ==
    \A r \in Runs : registrations[r] = 1 /\ relay = r /\ manifest[r] # NoManifest =>
        /\ mode = "live" /\ ~mixed => IsPrefix(live, manifest[r]) \/ IsPrefix(manifest[r], live)
        /\ replay # NoReplay => manifest[r] = replay.of

Rank == [Unknown |-> 0, CREAttested |-> 1, WormholeVerified |-> 1, DualFinalized |-> 2]

\* The finality a view shows never falls back, as events arrive or as one scrubs
\* forward, in whichever order the lanes are heard and whatever they repeat.
FinalityNeverFallsBack ==
    live # <<>> =>
        Rank[ReplayTo(live, Last(live).seq - 1).finality] <= Rank[State.finality]

=============================================================================

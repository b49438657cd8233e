----------------------------- MODULE ReplayRoom -----------------------------
(***************************************************************************)
(* The control room as its audience uses it: a recorded run is played on a *)
(* timer, paused, scrubbed, stopped at verification boundaries; a live run *)
(* takes its place and gives it back; and the panels show what the visible *)
(* events fold to (module RoomState).                                      *)
(*                                                                         *)
(* A click and the effects React runs after it are one step, and so is the *)
(* timer's callback.  How long the timer waits (the recorded gap, cut to   *)
(* 2.5 s, by the speed chosen) is left out.                                *)
(***************************************************************************)
EXTENDS RoomState

CONSTANTS
    Recordings,      \* the manifests that may be bundled, with a derivation or without
    LiveRun,         \* the events the coordinator streams
    LiveAvailable,   \* a coordinator is configured
    Quorum,          \* signatures the ring asks for
    NoManifest,
    MaxClicks        \* bound: clicks of the audience

\* validateManifest has seen every manifest.
ASSUME ReplayAssumption ==
    /\ \A m \in Recordings :
           /\ m.events \in Seq(ToSet(m.events)) /\ m.events # <<>>
           /\ \A k \in DOMAIN m.events : m.events[k].seq \in Nat
           /\ \A k \in 2 .. Len(m.events) : m.events[k].seq > m.events[k - 1].seq
    /\ LiveRun \in Seq(ToSet(LiveRun))
    /\ \A k \in DOMAIN LiveRun : LiveRun[k].seq = k - 1
    /\ NoManifest \notin Recordings
    /\ MaxClicks \in Nat

Runs == {m.events : m \in Recordings} \union {LiveRun}

\* The providers a list of events has answers of.
Heard(evs) ==
    {re.event.provider : re \in {r \in ToSet(evs) : r.event.type = "LEVEL3_RPC_RESULT"}}

\* What the lanes put into an event: the attestor asks three providers, and a VAA the
\* executor found carries a quorum.
ASSUME RecordingAssumption ==
    /\ Quorum \in Nat \ {0}
    /\ \A evs \in Runs :
           /\ IsFiniteSet(Heard(evs)) /\ Cardinality(Heard(evs)) <= 3
           /\ \A re \in ToSet(evs) : re.event.type = "VAA_READY" =>
                  Cardinality(re.event.signatures) >= Quorum

\* The event the lanes post before one, for those that light the proof rail.
Follows ==
    [TXLINE_CPI_VERIFIED |-> "PROOF_AVAILABLE", VAA_READY |-> "TXLINE_CPI_VERIFIED",
     BASE_VAA_VERIFIED |-> "VAA_READY"]

\* No event was lost on its way to the coordinator: each run tells a lane's events
\* in the lane's order, and the report after all answers.
ASSUME LosslessAssumption ==
    \A evs \in Runs : \A k \in DOMAIN evs :
        LET type == evs[k].event.type
            earlier == SubSeq(evs, 1, k - 1)
        IN  /\ type \in DOMAIN Follows =>
                   \E re \in ToSet(earlier) : re.event.type = Follows[type]
            /\ type = "LEVEL3_BASE_FINALIZED" => Cardinality(Heard(earlier)) = 3

VARIABLES
    manifest,        \* what /runs has, NoManifest before it is fetched or if it fails
    fetched,         \* the fetch has ended
    mode,            \* "replay", "inspect" or "live"
    cursor,          \* index into the manifest's events, -1 before the first
    playing,
    boundaryPause,   \* "boundaries" is ticked
    boundaryNote,    \* the boundary the replay stopped at, "none" if none
    liveEvents,
    clicks           \* clicks so far

vars == <<manifest, fetched, mode, cursor, playing, boundaryPause, boundaryNote,
          liveEvents, clicks>>

-----------------------------------------------------------------------------
\* Recordings.

Says(type) == [type |-> type]
Answer(provider, agreed) ==
    [type |-> "LEVEL3_RPC_RESULT", provider |-> provider, agreed |-> agreed]
Signed == [type |-> "VAA_READY", signatures |-> 0 .. 12]

Numbered(evs) == [k \in DOMAIN evs |-> [seq |-> k - 1, event |-> evs[k]]]

\* The demonstration bundled with the web application.
DemoEvents ==
    Numbered(<<Says("HEARTBEAT"), Says("FINAL_RECORD_OBSERVED"), Says("PROOF_AVAILABLE"),
               Answer("RPC-A", TRUE), Answer("RPC-B", TRUE), Answer("RPC-C", TRUE),
               Says("LEVEL3_BASE_FINALIZED"), Says("PROOF_STAGED"),
               Says("SOLANA_VERIFY_SUBMITTED"), Says("TXLINE_CPI_VERIFIED"),
               Says("WORMHOLE_MESSAGE_PUBLISHED"), Signed, Says("LEVEL4_BASE_SUBMITTED"),
               Says("BASE_VAA_VERIFIED"), Says("DUAL_FINALITY_REACHED"),
               Says("CONSUMER_SETTLED")>>)

\* The one manifest that has a derivation.
DemoRun == [events |-> DemoEvents, derivation |-> TRUE]

\* capture-run writes none.
Captured(evs) == [events |-> evs, derivation |-> FALSE]

-----------------------------------------------------------------------------
\* The player.

VerificationBoundaries ==
    {"PROOF_AVAILABLE", "TXLINE_CPI_VERIFIED", "WORMHOLE_MESSAGE_PUBLISHED", "VAA_READY",
     "BASE_VAA_VERIFIED", "CONSUMER_SETTLED"}

Recorded == IF manifest = NoManifest THEN <<>> ELSE manifest.events

AllEvents == IF mode = "live" THEN liveEvents ELSE Recorded

EffectiveCursor == IF mode = "live" THEN Len(liveEvents) - 1 ELSE cursor

\* Bug variant: the last event but one counts as the last.
AtEndEarly(c, evs) == c >= Len(evs) - 2

AtEnd(c, evs) == c >= Len(evs) - 1

\* The scheduler's effect ends the playing of a replay that is at its end.
Scheduled(p, c, m) == p /\ (m = "live" \/ ~AtEnd(c, Recorded))

\* The bundled run plays by itself once it is there.
Load ==
    /\ ~fetched
    /\ fetched' = TRUE
    /\ manifest' \in Recordings \union {NoManifest}
    /\ playing' = (manifest' # NoManifest /\ ~AtEnd(cursor, manifest'.events))
    /\ UNCHANGED <<mode, cursor, boundaryPause, boundaryNote, liveEvents, clicks>>

\* The timer's callback.  It is set only while a replay plays.
Tick ==
    /\ playing /\ mode # "live" /\ ~AtEnd(cursor, Recorded)
    /\ cursor' = cursor + 1
    /\ LET type == Recorded[cursor + 2].event.type
       IN  IF boundaryPause /\ type \in VerificationBoundaries
           THEN playing' = FALSE /\ boundaryNote' = type
           ELSE playing' = Scheduled(TRUE, cursor', mode) /\ UNCHANGED boundaryNote
    /\ UNCHANGED <<manifest, fetched, mode, boundaryPause, liveEvents, clicks>>

\* The stream's next event; module ControlRoom has what may happen to it.
Receive ==
    /\ mode = "live" /\ Len(liveEvents) < Len(LiveRun)
    /\ liveEvents' = Append(liveEvents, LiveRun[Len(liveEvents) + 1])
    /\ UNCHANGED <<manifest, fetched, mode, cursor, playing, boundaryPause, boundaryNote, clicks>>

\* Without a manifest there is nothing to click on.
Click ==
    /\ manifest # NoManifest
    /\ clicks < MaxClicks
    /\ clicks' = clicks + 1
    /\ UNCHANGED <<manifest, fetched>>

\* In live mode it goes by the live events, and rewinds the replay if they are few.
Play ==
    /\ boundaryNote' = "none"
    /\ cursor' = IF AtEnd(cursor, AllEvents) THEN -1 ELSE cursor
    /\ playing' = Scheduled(TRUE, cursor', mode)
    /\ UNCHANGED <<mode, boundaryPause, liveEvents>>

Pause ==
    /\ playing' = FALSE
    /\ UNCHANGED <<mode, cursor, boundaryPause, boundaryNote, liveEvents>>

Restart ==
    /\ boundaryNote' = "none" /\ cursor' = -1 /\ playing' = TRUE
    /\ UNCHANGED <<mode, boundaryPause, liveEvents>>

\* Bug variant: the note stays.
ScrubToKeeping(i) ==
    /\ playing' = FALSE
    /\ cursor' = Max({-1, Min({i, Len(AllEvents) - 1})})
    /\ UNCHANGED <<mode, boundaryPause, boundaryNote, liveEvents>>

ScrubTo(i) ==
    /\ playing' = FALSE /\ boundaryNote' = "none"
    /\ cursor' = Max({-1, Min({i, Len(AllEvents) - 1})})
    /\ UNCHANGED <<mode, boundaryPause, liveEvents>>

\* The live effect starts with no events; the note and the cursor stay.
SetMode(m) ==
    /\ m = "live" => LiveAvailable
    /\ mode' = m
    /\ playing' = (m # "inspect" /\ Scheduled(playing, cursor, m))
    /\ liveEvents' = IF m = "live" /\ mode # "live" THEN <<>> ELSE liveEvents
    /\ UNCHANGED <<cursor, boundaryPause, boundaryNote>>

SetBoundaryPause ==
    /\ boundaryPause' = ~boundaryPause
    /\ UNCHANGED <<mode, cursor, playing, boundaryNote, liveEvents>>

\* The transport bar: the replay's controls are hidden in live mode, the note and
\* its "continue" are not.
Transport ==
    /\ Click
    /\ \/ mode # "live" /\ (IF playing THEN Pause ELSE Play)
       \/ mode # "live" /\ Restart
       \/ mode # "live" /\ \E i \in -1 .. Len(AllEvents) - 1 : ScrubTo(i)
       \/ \E m \in {"replay", "inspect", "live"} : SetMode(m)
       \/ SetBoundaryPause
       \/ boundaryNote # "none" /\ Play

-----------------------------------------------------------------------------
\* The panels.

Visible == SubSeq(AllEvents, 1, EffectiveCursor + 1)

State ==
    ReplayTo(AllEvents, IF EffectiveCursor >= 0 THEN AllEvents[EffectiveCursor + 1].seq ELSE -1)

Station(label, on, active) == [label |-> label, on |-> on, active |-> active]

\* Where the packets are, in hundredths of their path; the fast one in thirds of
\* that, as it has three providers to hear.
FastTarget(s) ==
    IF "level3.baseTxHash" \in s.known THEN 300 ELSE 62 * Cardinality(DOMAIN s.rpcResults)

Reaches == [proof |-> 22, verifiedSlot |-> 50, vaaHash |-> 74, baseVerifiedBlock |-> 100]

ProofTarget(s) == Max({0} \union {Reaches[field] : field \in s.known \intersect DOMAIN Reaches})

\* Bug variant: the report's station stays active when it is lit.
FastStationsStayActive(s) ==
    LET n == Cardinality(DOMAIN s.rpcResults)
        reported == "level3.baseTxHash" \in s.known
    IN  << Station("RPC-A", n >= 1, s.level3 = "in_progress" /\ n = 0),
           Station("RPC-B", n >= 2, n = 1),
           Station("RPC-C", n >= 3, n = 2),
           Station("CRE-report", reported, n >= 3) >>

\* A result counts whether or not the provider agreed.
FastStations(s) ==
    LET n == Cardinality(DOMAIN s.rpcResults)
        reported == "level3.baseTxHash" \in s.known
    IN  << Station("RPC-A", n >= 1, s.level3 = "in_progress" /\ n = 0),
           Station("RPC-B", n >= 2, n = 1),
           Station("RPC-C", n >= 3, n = 2),
           Station("CRE-report", reported, n >= 3 /\ ~reported) >>

ProofStations(s) ==
    LET Has(field) == field \in s.known
    IN  << Station("TxLINE-proof", Has("proof"), ~Has("proof") /\ Has("finalRecord")),
           Station("Solana-CPI", Has("verifiedSlot"), Has("proof") /\ ~Has("verifiedSlot")),
           Station("Wormhole-VAA", Has("vaaHash"), Has("verifiedSlot") /\ ~Has("vaaHash")),
           Station("Base-Core", Has("baseVerifiedBlock"),
                   Has("vaaHash") /\ ~Has("baseVerifiedBlock")) >>

\* The rows of the derivation that show their value, which is the manifest's, in live
\* mode too; without a derivation there is no row.
Revealed(s) ==
    IF manifest = NoManifest \/ ~manifest.derivation
    THEN {}
    ELSE (IF "proof" \in s.known THEN {"proof-bundle-hash"} ELSE {})
             \union (IF "verifiedSlot" \in s.known THEN {"validation-instruction-hash"} ELSE {})
             \union (IF s.finality = "DualFinalized" THEN {"attestation-id"} ELSE {})

RootStamped(s) == "verifiedSlot" \in s.known

QuorumReached(s) == Cardinality(s.signatures) >= Quorum

\* Everything that is lit.
Lights(s) ==
    {st.label : st \in {t \in ToSet(FastStations(s)) \union ToSet(ProofStations(s)) : t.on}}
        \union Revealed(s)
        \union (IF RootStamped(s) THEN {"daily-root"} ELSE {})
        \union (IF QuorumReached(s) THEN {"quorum"} ELSE {})
        \union (IF s.finality = "DualFinalized" THEN {"seal"} ELSE {})
        \union (IF "settledTxHash" \in s.known THEN {"market"} ELSE {})

\* The gates of the checklist.
Gate(s, i) ==
    CASE s.steps[i] = "done" -> "pass"
      [] s.steps[i] = "failed" -> "fail"
      [] s.steps[i] = "active" -> "none"
      [] OTHER -> "skipped"

\* The evidence chain, by the places of its events; the caption explains its last.
Chain == {k \in DOMAIN Visible : Visible[k].event.type # "HEARTBEAT"}

Caption == IF Chain = {} THEN "none" ELSE Visible[Max(Chain)].event.type

-----------------------------------------------------------------------------

Init ==
    /\ manifest = NoManifest /\ fetched = FALSE
    /\ mode = "replay" /\ cursor = -1 /\ playing = FALSE
    /\ boundaryPause = FALSE /\ boundaryNote = "none"
    /\ liveEvents = <<>> /\ clicks = 0

Next == Load \/ Tick \/ Receive \/ Transport

Spec == Init /\ [][Next]_vars

\* The fetch ends and a timer that is set fires.
FairSpec == Spec /\ WF_vars(Load) /\ WF_vars(Tick)

-----------------------------------------------------------------------------
\* Properties.

\* The lights that one event lights, and the row of the derivation it reveals.
LitBy ==
    [PROOF_AVAILABLE |-> {"TxLINE-proof"},
     TXLINE_CPI_VERIFIED |-> {"Solana-CPI", "daily-root"},
     VAA_READY |-> {"Wormhole-VAA", "quorum"},
     BASE_VAA_VERIFIED |-> {"Base-Core"},
     LEVEL3_BASE_FINALIZED |-> {"CRE-report"},
     DUAL_FINALITY_REACHED |-> {"seal"},
     CONSUMER_SETTLED |-> {"market"}]

RowOf ==
    [PROOF_AVAILABLE |-> "proof-bundle-hash",
     TXLINE_CPI_VERIFIED |-> "validation-instruction-hash",
     DUAL_FINALITY_REACHED |-> "attestation-id"]

\* Every lit node corresponds to an event that is visible, and every event lights
\* its nodes, wherever the audience scrubs, in whichever mode it looks, and
\* whatever a lane repeats after a failure (page.tsx:5); as many RPC stations are
\* lit as providers were heard.  A row of the derivation is revealed by its event if
\* the manifest has a derivation, and by nothing otherwise (page.tsx:206-230).  A
\* gate that passes has its event or a later one's.
LitExactly ==
    LET lit == Lights(State)
        seen == {re.event.type : re \in ToSet(Visible)}
    IN  /\ \A type \in DOMAIN LitBy : \A light \in LitBy[type] :
               light \in lit <=> type \in seen
        /\ \A type \in DOMAIN RowOf :
               RowOf[type] \in lit <=>
                   type \in seen /\ manifest # NoManifest /\ manifest.derivation
        /\ Cardinality(lit \intersect {"RPC-A", "RPC-B", "RPC-C"}) =
               Cardinality(Heard(Visible))
        /\ \A i \in 1 .. 6 : Gate(State, i) = "pass" =>
               \E type \in seen \intersect DOMAIN Completes : Completes[type] >= i

\* On both rails the stations light one after the other, only the next one is
\* active, and the packet is past the lit stations and no other.
RailsFillInOrder ==
    LET s == State
        lit(stations) == Cardinality({k \in DOMAIN stations : stations[k].on})
        InOrder(stations) ==
            \A k \in DOMAIN stations :
                /\ stations[k].on <=> k <= lit(stations)
                /\ stations[k].active => k = lit(stations) + 1
    IN  /\ InOrder(FastStations(s)) /\ InOrder(ProofStations(s))
        /\ FastTarget(s) = <<0, 62, 124, 186, 300>>[lit(FastStations(s)) + 1]
        /\ ProofTarget(s) = <<0, 22, 50, 74, 100>>[lit(ProofStations(s)) + 1]

\* A boundary note tells why the replay stands still, and is about the event the
\* caption is about: whatever is clicked, the replay does not go on under a note,
\* nor stand elsewhere.
NoteTellsWhy ==
    boundaryNote # "none" /\ mode # "live" => ~playing /\ Caption = boundaryNote

\* Somebody who touches nothing sees the full run (run-engine.tsx:77-78).
AutoplayShowsAll ==
    <>(\/ clicks > 0
       \/ fetched /\ manifest = NoManifest
       \/ manifest # NoManifest /\ Visible = manifest.events /\ ~playing)

=============================================================================

------------------------- MODULE ControlRoom_proofs -------------------------
(***************************************************************************)
(* Proofs about the control room and the coordinator, for any set of runs  *)
(* and any number of registrations, events and mishaps.                    *)
(*                                                                         *)
(* Everything rests on the sequence numbers: the store starts at 0 with    *)
(* every recording, a view drops what it has, a manifest's must increase.  *)
(* The fold is reasoned about by induction on the number of events.        *)
(***************************************************************************)
EXTENDS ControlRoom, TLAPS, WellFoundedInduction

RecordedEvent == [seq : Nat, event : Event]

\* Every variable holds a value of its type.
RoomTypeOK ==
    /\ run \in Runs \union {NoRun} /\ relay \in Runs \union {NoRun}
    /\ events \in Seq(RecordedEvent)
    /\ file \in [Runs -> Seq(RecordedEvent)]
    /\ manifest \in [Runs -> Seq(RecordedEvent) \union {NoManifest}]
    /\ registrations \in [Runs -> Nat]
    /\ replay \in [of : Seq(RecordedEvent), next : Nat \ {0}] \union {NoReplay}
    /\ position \in [Runs -> [Workflows -> Nat]]
    /\ outcomes \in [Runs -> SUBSET Outcomes]
    /\ mode \in {"replay", "live"} /\ stream \in {"open", "closed"}
    /\ wire \in Seq(RecordedEvent) /\ live \in Seq(RecordedEvent)
    /\ mishaps \in Nat /\ mixed \in BOOLEAN

\* One recording: numbered from 0 on.
Recording(evs) == \A k \in 1 .. Len(evs) : evs[k].seq = k - 1

\* s is what t begins with; what t ends with.
Begins(s, t) == Len(s) <= Len(t) /\ \A k \in 1 .. Len(s) : s[k] = t[k]
Ends(s, t) == Len(s) <= Len(t) /\ \A k \in 1 .. Len(s) : s[k] = t[Len(t) - Len(s) + k]

\* The event k of a file belongs to a recording in it.
Belongs(f, k) == \E s \in 1 .. k : \A j \in s .. k : f[j].seq = j - s

\* A run's file is one recording after the other, the store's being the last.
FileInv ==
    /\ \A r \in Runs : \A k \in 1 .. Len(file[r]) : Belongs(file[r], k)
    /\ run # NoRun => Ends(events, file[run])
    /\ \A r \in Runs : registrations[r] = 1 /\ run = r => events = file[r]

StoreInv ==
    /\ run \in {relay, NoRun}
    /\ run = NoRun => events = <<>>
    /\ relay # NoRun => registrations[relay] > 0
    /\ Recording(events)
    /\ \A r \in Runs : registrations[r] = 0 =>
           file[r] = <<>> /\ outcomes[r] = {} /\ manifest[r] = NoManifest
    /\ FileInv

\* What is kept of a run is the beginning of its first recording.
ManifestInv ==
    \A r \in Runs : manifest[r] # NoManifest =>
        /\ Recording(manifest[r])
        /\ registrations[r] = 1 => Begins(manifest[r], file[r])

\* A view of n events misses none of those in w, nor the next after m.
Reachable(w, n) ==
    \A j \in 1 .. Len(w) :
        w[j].seq <= n \/ \E i \in 1 .. j - 1 : w[i].seq = w[j].seq - 1

Reaches(w, n, m) == m <= n \/ \E i \in 1 .. Len(w) : w[i].seq = m - 1

\* The view has every number once, and none is left out on the way to it.
ViewInv ==
    /\ Recording(live)
    /\ stream = "closed" \/ run = NoRun => wire = <<>>
    /\ mode = "replay" => stream = "closed"
    /\ Reachable(wire, Len(live))
    /\ stream = "open" => Reaches(wire, Len(live), Len(events))

\* An undisturbed view: a prefix of the run, the rest of it on its way.
OwnRunInv ==
    mode = "live" /\ ~mixed =>
        /\ run # NoRun => Begins(live, events)
        /\ run # NoRun /\ stream = "open" =>
               \E n \in 0 .. Len(live) :
                   /\ n + Len(wire) = Len(events)
                   /\ \A k \in 1 .. Len(wire) : wire[k] = events[n + k]
        /\ relay # NoRun /\ registrations[relay] = 1 => Begins(live, file[relay])
        /\ relay = NoRun => live = <<>>

\* replay-run posts the manifest it read, to a run nobody else works for.
ReplayInv ==
    replay # NoReplay =>
        /\ Recording(replay.of) /\ replay.next \in 1 .. Len(replay.of) + 1
        /\ relay # NoRun /\ registrations[relay] = 1 /\ outcomes[relay] = {}
        /\ run # NoRun => /\ Len(events) = replay.next - 1
                          /\ \A k \in 1 .. Len(events) : events[k] = replay.of[k]
        /\ manifest[relay] # NoManifest => manifest[relay] = replay.of

RoomInv == RoomTypeOK /\ StoreInv /\ ManifestInv /\ ViewInv /\ OwnRunInv /\ ReplayInv

-----------------------------------------------------------------------------
\* Induction over the natural numbers, as a fact about sets.
LEMMA Induction ==
    ASSUME NEW S, 0 \in S, \A n \in Nat : n \in S => n + 1 \in S
    PROVE  Nat \subseteq S
<1> SUFFICES ASSUME Nat \ S # {} PROVE FALSE
  OBVIOUS
<1> DEFINE R == {ss \in Nat \X Nat : ss[1] < ss[2]}
<1>1. IsWellFoundedOn(R, Nat)
  BY NatLessThanWellFounded DEF OpToRel
<1> HIDE DEF R
<1>2. PICK n \in Nat \ S : \A m \in Nat \ S : ~ (<<m, n>> \in R)
  BY <1>1, WFMin
<1>3. n # 0 /\ n - 1 \in Nat /\ n = (n - 1) + 1
  BY <1>2
<1>4. <<n - 1, n>> \in R
  BY <1>2, <1>3 DEF R
<1>5. QED BY <1>2, <1>3, <1>4

\* The states of a fold, up to a number of events, exist.
LEMMA StatesExist ==
    ASSUME NEW evs, Len(evs) \in Nat
    PROVE  States(evs) =
             [n \in 0 .. Len(evs) |->
                 IF n = 0 THEN InitialState ELSE ApplyEvent(States(evs)[n - 1], evs[n])]
<1> DEFINE Ok(g, m) ==
             g = [n \in 0 .. m |->
                     IF n = 0 THEN InitialState ELSE ApplyEvent(g[n - 1], evs[n])]
           S == {m \in Nat : \E g : Ok(g, m)}
<1>1. 0 \in S
  <2>1. Ok([n \in 0 .. 0 |-> InitialState], 0)
    OBVIOUS
  <2>2. QED BY <2>1
<1>2. ASSUME NEW m \in Nat, m \in S
      PROVE  m + 1 \in S
  <2>1. PICK g : Ok(g, m)
    BY <1>2
  <2> DEFINE h == [n \in 0 .. m + 1 |->
                     IF n = m + 1 THEN ApplyEvent(g[m], evs[n]) ELSE g[n]]
  <2>2. ASSUME NEW n \in 0 .. m + 1
        PROVE  h[n] = IF n = 0 THEN InitialState ELSE ApplyEvent(h[n - 1], evs[n])
    <3>1. CASE n = m + 1
      <4>1. n # 0 /\ n - 1 = m /\ h[m] = g[m]
        BY <3>1
      <4>2. QED BY <3>1, <4>1
    <3>2. CASE n = 0
      BY <2>1, <3>2
    <3>3. CASE n \in 1 .. m
      <4>1. h[n] = g[n] /\ h[n - 1] = g[n - 1]
        BY <3>3
      <4>2. g[n] = ApplyEvent(g[n - 1], evs[n])
        BY <2>1, <3>3
      <4>3. QED BY <3>3, <4>1, <4>2
    <3>4. QED BY <3>1, <3>2, <3>3
  <2>3. Ok(h, m + 1)
    BY <2>2
  <2>4. \E gg : Ok(gg, m + 1)
    <3> HIDE DEF h, Ok
    <3>1. QED BY <2>3
  <2>5. QED BY <2>4
<1>3. Len(evs) \in S
  <2> HIDE DEF S
  <2>1. QED BY <1>1, <1>2, Induction
<1>4. \E g : Ok(g, Len(evs))
  BY <1>3
<1>5. Ok(CHOOSE g : Ok(g, Len(evs)), Len(evs))
  BY <1>4
<1>6. States(evs) = CHOOSE g : Ok(g, Len(evs))
  BY DEF States
<1>7. QED BY <1>5, <1>6

\* One event more, one application more.
LEMMA StatesStep ==
    ASSUME NEW evs, Len(evs) \in Nat
    PROVE  /\ States(evs)[0] = InitialState
           /\ \A n \in 1 .. Len(evs) :
                 States(evs)[n] = ApplyEvent(States(evs)[n - 1], evs[n])
<1> DEFINE st == States(evs)
<1>1. st = [n \in 0 .. Len(evs) |->
               IF n = 0 THEN InitialState ELSE ApplyEvent(st[n - 1], evs[n])]
  BY StatesExist
<1> HIDE DEF st
<1>2. QED BY <1>1 DEF st

\* An event never takes finality back.
LEMMA FinalityClimbs ==
    ASSUME NEW s, NEW re, s.finality \in DOMAIN Rank
    PROVE  /\ ApplyEvent(s, re).finality \in DOMAIN Rank
           /\ Rank[s.finality] <= Rank[ApplyEvent(s, re).finality]
<1>1. ApplyEvent(s, re).finality = FinalityAfter(s, re.event)
  BY DEF ApplyEvent
<1>2. QED BY <1>1 DEF FinalityAfter, Rank

\* Every state of a fold has one of the four finalities.
LEMMA FinalityInStates ==
    ASSUME NEW evs, Len(evs) \in Nat, NEW n \in 0 .. Len(evs)
    PROVE  States(evs)[n].finality \in DOMAIN Rank
<1> DEFINE S == {m \in Nat : m <= Len(evs) => States(evs)[m].finality \in DOMAIN Rank}
<1>1. 0 \in S
  <2>1. InitialState.finality = "Unknown"
    BY DEF InitialState
  <2>2. "Unknown" \in DOMAIN Rank
    BY DEF Rank
  <2>3. States(evs)[0].finality \in DOMAIN Rank
    BY <2>1, <2>2, StatesStep
  <2>4. QED BY <2>3
<1>2. ASSUME NEW m \in Nat, m \in S
      PROVE  m + 1 \in S
  <2> SUFFICES ASSUME m + 1 <= Len(evs)
               PROVE  States(evs)[m + 1].finality \in DOMAIN Rank
    OBVIOUS
  <2>1. States(evs)[m].finality \in DOMAIN Rank
    BY <1>2
  <2>2. States(evs)[m + 1] = ApplyEvent(States(evs)[m], evs[m + 1])
    BY StatesStep
  <2>3. QED BY <2>1, <2>2, FinalityClimbs
<1> HIDE DEF S
<1>3. n \in S
  BY <1>1, <1>2, Induction
<1>4. QED BY <1>3 DEF S

\* Replaying a recording stops after as many events as the cursor says.
LEMMA ReplayRecording ==
    ASSUME NEW T, NEW evs \in Seq(T), Recording(evs), evs # <<>>
    PROVE  /\ ReplayTo(evs, Last(evs).seq) = States(evs)[Len(evs)]
           /\ ReplayTo(evs, Last(evs).seq - 1) = States(evs)[Len(evs) - 1]
<1>1. Len(evs) \in Nat \ {0} /\ DOMAIN evs = 1 .. Len(evs)
  OBVIOUS
<1>2. Last(evs).seq = Len(evs) - 1
  BY <1>1 DEF Last, Recording
<1>3. {k \in DOMAIN evs : evs[k].seq > Len(evs) - 1} = {}
  BY <1>1 DEF Recording
<1>4. {k \in DOMAIN evs : evs[k].seq > Len(evs) - 2} = {Len(evs)}
  BY <1>1 DEF Recording
<1>5. Min({Len(evs)}) = Len(evs)
  BY <1>1 DEF Min
<1>6. Last(evs).seq - 1 = Len(evs) - 2
  BY <1>1, <1>2
<1>7. QED BY <1>2, <1>3, <1>4, <1>5, <1>6 DEF ReplayTo

\* Along a gapless recording the finality shown does not fall back.
LEMMA FinalityStands ==
    ASSUME RoomTypeOK, Recording(live)
    PROVE  FinalityNeverFallsBack
<1> SUFFICES ASSUME live # <<>>
             PROVE  Rank[ReplayTo(live, Last(live).seq - 1).finality] <= Rank[State.finality]
  BY DEF FinalityNeverFallsBack
<1>1. live \in Seq(RecordedEvent) /\ Len(live) \in Nat \ {0}
  BY DEF RoomTypeOK
<1>2. State = States(live)[Len(live)]
  BY <1>1, ReplayRecording DEF State
<1>3. ReplayTo(live, Last(live).seq - 1) = States(live)[Len(live) - 1]
  BY <1>1, ReplayRecording
<1>4. States(live)[Len(live)] = ApplyEvent(States(live)[Len(live) - 1], live[Len(live)])
  BY <1>1, StatesStep
<1>5. States(live)[Len(live) - 1].finality \in DOMAIN Rank
  BY <1>1, FinalityInStates
<1>6. QED BY <1>2, <1>3, <1>4, <1>5, FinalityClimbs

-----------------------------------------------------------------------------
\* The steps by what they change.

\* A run is registered: by relay-fixture, or by replay-run with a manifest.
Registers(r) ==
    /\ Register(r)
    /\ \/ replay' = NoReplay
       \/ /\ registrations[r] = 0
          /\ \E q \in Runs : manifest[q] # NoManifest
                              /\ replay' = [of |-> manifest[q], next |-> 1]

\* The active run takes an event.
TakesIn(e) ==
    /\ run # NoRun
    /\ events' = Append(events, [seq |-> Len(events), event |-> e])
    /\ file' = [file EXCEPT ![run] = Append(@, [seq |-> Len(events), event |-> e])]
    /\ wire' = IF stream = "open" THEN Append(wire, [seq |-> Len(events), event |-> e])
               ELSE wire
    /\ UNCHANGED <<run, manifest, registrations, relay, mode, stream, live, mixed>>

\* From a workflow, or replay-run's next.
Records ==
    \E e \in Event :
        /\ TakesIn(e)
        /\ UNCHANGED outcomes
        /\ \/ replay = NoReplay /\ replay' = NoReplay
           \/ /\ replay # NoReplay /\ replay.next <= Len(replay.of)
              /\ e = replay.of[replay.next].event
              /\ replay' = [replay EXCEPT !.next = @ + 1]

\* The coordinator hears nothing.
Unheard ==
    /\ UNCHANGED <<storeVars, clientVars, replay>>
    /\ \/ UNCHANGED outcomes
       \/ /\ relay # NoRun /\ replay = NoReplay
          /\ \E o \in Outcomes : outcomes' = [outcomes EXCEPT ![relay] = @ \union {o}]

Keeps == Finalize \/ \E r \in Runs : Capture(r)

Looks == GoLive \/ LeaveLive \/ Break \/ Reconnect \/ Receive

Progresses == position' \in [Runs -> [Workflows -> Nat]] /\ mishaps' \in Nat

\* What a workflow posts is an event of the model.
LEMMA ScriptFacts ==
    ASSUME NEW w \in Workflows
    PROVE  /\ Len(Script[w]) \in Nat
           /\ \A n \in 1 .. Len(Script[w]) : Script[w][n] \notin Outcomes =>
                 [type |-> Script[w][n], stage |-> "none", signatures |-> {}] \in Event
           /\ [type |-> "RUN_FAILED", stage |-> StageOf[w]] \in Event
           /\ FailsAt[w] \subseteq Nat /\ ResumesAt(w) \subseteq Nat
<1>1. w \in {"source", "level3", "level4"}
  BY DEF Workflows, Script
<1>2. DOMAIN Completes =
        {"FINAL_RECORD_OBSERVED", "PROOF_AVAILABLE", "TXLINE_CPI_VERIFIED", "VAA_READY",
         "BASE_VAA_VERIFIED", "CONSUMER_SETTLED"}
  BY DEF Completes
<1>3. CASE w = "source"
  <2>1. Script[w] = <<"FINAL_RECORD_OBSERVED", "PROOF_AVAILABLE", "handoff">>
    BY <1>3 DEF Script
  <2>2. QED BY <1>2, <1>3, <2>1 DEF Event, Outcomes, Stages, StageOf, FailsAt, ResumesAt
<1>4. CASE w = "level3"
  <2>1. Script[w] = <<"attested", "LEVEL3_BASE_FINALIZED">>
    BY <1>4 DEF Script
  <2>2. QED BY <1>2, <1>4, <2>1 DEF Event, Outcomes, Stages, StageOf, FailsAt, ResumesAt
<1>5. CASE w = "level4"
  <2>1. Script[w] = <<"TXLINE_CPI_VERIFIED", "VAA_READY", "BASE_VAA_VERIFIED",
                      "DUAL_FINALITY_REACHED", "CONSUMER_SETTLED">>
    BY <1>5 DEF Script
  <2>2. QED BY <1>2, <1>5, <2>1 DEF Event, Outcomes, Stages, StageOf, FailsAt, ResumesAt
<1>6. QED BY <1>1, <1>3, <1>4, <1>5

\* A workflow that moves on leaves the positions of the others.
LEMMA ReachFacts ==
    ASSUME RoomTypeOK, NEW w \in Workflows, NEW n \in Nat, Reach(w, n)
    PROVE  position' \in [Runs -> [Workflows -> Nat]]
BY DEF RoomTypeOK, Reach

\* An event posted is recorded and sent, or, without an active run, unheard.
LEMMA RecordFacts ==
    ASSUME NEW e \in Event, Record(e), UNCHANGED outcomes, replay = NoReplay, UNCHANGED replay
    PROVE  Records \/ Unheard
BY DEF Record, Records, TakesIn, Unheard, AppendToFile, storeVars, clientVars

\* Every step is one of these.
LEMMA RoomStep ==
    ASSUME RoomTypeOK, [Next]_vars
    PROVE  /\ Progresses
           /\ \/ \E r \in Runs : Registers(r) /\ UNCHANGED outcomes
              \/ Records \/ Unheard \/ Keeps \/ Restart \/ Looks
<1>1. ASSUME NEW r \in Runs, StartRun(r)
      PROVE  Registers(r) /\ UNCHANGED outcomes /\ Progresses
  BY <1>1 DEF StartRun, Register, Registers, Progresses, RoomTypeOK
<1>2. ASSUME NEW r \in Runs, NEW s \in Runs, StartReplay(r, s)
      PROVE  Registers(s) /\ UNCHANGED outcomes /\ Progresses
  BY <1>2 DEF StartReplay, Register, Registers, Progresses, RoomTypeOK
<1>3. ASSUME Replay
      PROVE  Records /\ Progresses
  <2> DEFINE e == replay.of[replay.next].event
  <2>1. replay.of \in Seq(RecordedEvent) /\ replay.next \in 1 .. Len(replay.of)
    BY <1>3 DEF Replay, RoomTypeOK
  <2>2. replay.of[replay.next] \in RecordedEvent
    BY <2>1
  <2>3. e \in Event
    BY <2>2 DEF RecordedEvent
  <2> HIDE DEF e
  <2>4. TakesIn(e) /\ UNCHANGED outcomes /\ replay # NoReplay
           /\ replay.next <= Len(replay.of) /\ replay' = [replay EXCEPT !.next = @ + 1]
    BY <1>3 DEF Replay, Record, TakesIn, AppendToFile, e
  <2>5. Records
    BY <2>3, <2>4 DEF Records, e
  <2>6. Progresses
    BY <1>3 DEF Replay, Progresses, RoomTypeOK
  <2>7. QED BY <2>5, <2>6
<1>4. ASSUME NEW w \in Workflows, Speak(w)
      PROVE  (Records \/ Unheard) /\ Progresses
  <2>1. At(w) \in Nat
    BY <1>4 DEF Speak, MayAct, At, RoomTypeOK
  <2>2. At(w) + 1 \in 1 .. Len(Script[w])
    BY <1>4, <2>1, ScriptFacts DEF Speak, MayAct
  <2>3. [type |-> Script[w][At(w) + 1], stage |-> "none", signatures |-> {}] \in Event
    BY <1>4, <2>2, ScriptFacts DEF Speak
  <2>4. Records \/ Unheard
    BY <1>4, <2>3, RecordFacts DEF Speak, MayAct
  <2>5. Progresses
    BY <1>4, <2>1, ReachFacts DEF Speak, Progresses, RoomTypeOK
  <2>6. QED BY <2>4, <2>5
<1>5. ASSUME NEW w \in Workflows, Leave(w)
      PROVE  Unheard /\ Progresses
  <2>1. At(w) + 1 \in Nat
    BY <1>5 DEF Leave, MayAct, At, RoomTypeOK
  <2>2. Progresses
    <3>1. position' \in [Runs -> [Workflows -> Nat]]
      BY <1>5, <2>1, ReachFacts DEF Leave
    <3>2. QED BY <1>5, <3>1 DEF Leave, Progresses, RoomTypeOK
  <2>3. Unheard
    BY <1>5 DEF Leave, MayAct, Unheard
  <2>4. QED BY <2>2, <2>3
<1>6. ASSUME NEW w \in Workflows, Fail(w)
      PROVE  (Records \/ Unheard) /\ Progresses
  <2>1. Records \/ Unheard
    BY <1>6, ScriptFacts, RecordFacts DEF Fail, MayAct
  <2>2. position' \in [Runs -> [Workflows -> Nat]]
    BY <1>6, ReachFacts DEF Fail
  <2>3. QED BY <1>6, <2>1, <2>2 DEF Fail, Mishap, Progresses, RoomTypeOK
<1>7. ASSUME NEW w \in Workflows, Kill(w)
      PROVE  Unheard /\ Progresses
  <2>1. position' \in [Runs -> [Workflows -> Nat]]
    BY <1>7, ScriptFacts, ReachFacts DEF Kill
  <2>2. QED BY <1>7, <2>1 DEF Kill, Mishap, Unheard, Progresses, RoomTypeOK
<1>8. ASSUME Deliver
      PROVE  Unheard /\ Progresses
  BY <1>8 DEF Deliver, Unheard, Outcomes, clientVars, Progresses, RoomTypeOK
<1>9. ASSUME Keeps \/ Restart \/ Looks
      PROVE  Progresses
  BY <1>9 DEF Keeps, Finalize, Capture, Restart, Looks, GoLive, LeaveLive, Break, Reconnect,
     Receive, Mishap, Progresses, workflowVars, RoomTypeOK
<1>10. ASSUME UNCHANGED vars
       PROVE  Unheard /\ Progresses
  BY <1>10 DEF vars, Unheard, Progresses, workflowVars, RoomTypeOK
<1>11. QED
  BY <1>1, <1>2, <1>3, <1>4, <1>5, <1>6, <1>7, <1>8, <1>9, <1>10 DEF Next, Keeps, Looks

-----------------------------------------------------------------------------
\* The room starts in the invariant.
LEMMA InitRoom == Init => RoomInv
<1> SUFFICES ASSUME Init PROVE RoomInv
  OBVIOUS
<1> USE RoomAssumption
<1>1. RoomTypeOK
  <2>1. <<>> \in Seq(RecordedEvent) /\ FALSE \in BOOLEAN /\ 0 \in Nat
    OBVIOUS
  <2>2. /\ run \in Runs \union {NoRun} /\ relay \in Runs \union {NoRun}
        /\ events \in Seq(RecordedEvent)
        /\ file \in [Runs -> Seq(RecordedEvent)]
        /\ manifest \in [Runs -> Seq(RecordedEvent) \union {NoManifest}]
        /\ registrations \in [Runs -> Nat]
    BY <2>1 DEF Init
  <2>3. /\ replay \in [of : Seq(RecordedEvent), next : Nat \ {0}] \union {NoReplay}
        /\ position \in [Runs -> [Workflows -> Nat]]
        /\ outcomes \in [Runs -> SUBSET Outcomes]
    BY <2>1 DEF Init
  <2>4. /\ mode \in {"replay", "live"} /\ stream \in {"open", "closed"}
        /\ wire \in Seq(RecordedEvent) /\ live \in Seq(RecordedEvent)
        /\ mishaps \in Nat /\ mixed \in BOOLEAN
    BY <2>1 DEF Init
  <2>5. QED BY <2>2, <2>3, <2>4 DEF RoomTypeOK
<1>2. StoreInv
  BY DEF Init, StoreInv, FileInv, Recording, Belongs
<1>3. ManifestInv
  BY DEF Init, ManifestInv
<1>4. ViewInv
  BY DEF Init, ViewInv, Recording, Reachable
<1>5. OwnRunInv
  BY DEF Init, OwnRunInv
<1>6. ReplayInv
  BY DEF Init, ReplayInv
<1>7. QED BY <1>1, <1>2, <1>3, <1>4, <1>5, <1>6 DEF RoomInv

\* What the coordinator takes is an event with a number.
LEMMA TakenIn ==
    ASSUME RoomTypeOK, NEW e \in Event, TakesIn(e)
    PROVE  \E re \in RecordedEvent :
             /\ re.seq = Len(events) /\ re.event = e
             /\ run \in Runs
             /\ events' = Append(events, re)
             /\ file' \in [Runs -> Seq(RecordedEvent)]
             /\ file'[run] = Append(file[run], re)
             /\ \A r \in Runs \ {run} : file'[r] = file[r]
             /\ wire' = IF stream = "open" THEN Append(wire, re) ELSE wire
             /\ UNCHANGED <<run, manifest, registrations, relay, mode, stream, live, mixed>>
<1> DEFINE re == [seq |-> Len(events), event |-> e]
<1>1. /\ run \in Runs /\ events \in Seq(RecordedEvent)
      /\ file \in [Runs -> Seq(RecordedEvent)] /\ file[run] \in Seq(RecordedEvent)
  BY DEF RoomTypeOK, TakesIn
<1>2. re \in RecordedEvent /\ re.seq = Len(events) /\ re.event = e
  BY <1>1 DEF RecordedEvent
<1>3. /\ events' = Append(events, re)
      /\ file' = [file EXCEPT ![run] = Append(@, re)]
      /\ wire' = IF stream = "open" THEN Append(wire, re) ELSE wire
      /\ UNCHANGED <<run, manifest, registrations, relay, mode, stream, live, mixed>>
  BY DEF TakesIn
<1> HIDE DEF re
<1>4. Append(file[run], re) \in Seq(RecordedEvent)
  BY <1>1, <1>2
<1>5. file' \in [Runs -> Seq(RecordedEvent)] /\ file'[run] = Append(file[run], re)
        /\ \A r \in Runs \ {run} : file'[r] = file[r]
  BY <1>1, <1>3, <1>4
<1>6. QED BY <1>1, <1>2, <1>3, <1>5

\* Every step keeps types.
LEMMA NextType ==
    ASSUME RoomTypeOK, [Next]_vars
    PROVE  RoomTypeOK'
<1> USE RoomAssumption
<1> DEFINE Replays == [of : Seq(RecordedEvent), next : Nat \ {0}] \union {NoReplay}
<1>0. <<>> \in Seq(RecordedEvent)
  OBVIOUS
<1>1. ASSUME NEW r \in Runs, Registers(r), UNCHANGED outcomes, Progresses
      PROVE  RoomTypeOK'
  <2>1. replay' \in Replays
    BY <1>1 DEF Registers, RoomTypeOK
  <2>2. registrations' \in [Runs -> Nat]
    BY <1>1 DEF Registers, Register, RoomTypeOK
  <2>3. mixed' \in BOOLEAN
    BY <1>1 DEF Registers, Register
  <2>4. /\ run' \in Runs /\ relay' \in Runs /\ events' = <<>>
        /\ UNCHANGED <<file, manifest, mode, stream, wire, live>>
    BY <1>1 DEF Registers, Register
  <2>5. QED BY <1>0, <1>1, <2>1, <2>2, <2>3, <2>4 DEF Progresses, RoomTypeOK
<1>2. ASSUME Records, Progresses
      PROVE  RoomTypeOK'
  <2>1. PICK e \in Event : /\ TakesIn(e) /\ UNCHANGED outcomes
                           /\ \/ replay' = replay
                              \/ /\ replay # NoReplay
                                 /\ replay' = [replay EXCEPT !.next = @ + 1]
    BY <1>2 DEF Records
  <2>2. PICK re \in RecordedEvent :
             /\ events' = Append(events, re)
             /\ file' \in [Runs -> Seq(RecordedEvent)]
             /\ wire' = IF stream = "open" THEN Append(wire, re) ELSE wire
             /\ UNCHANGED <<run, manifest, registrations, relay, mode, stream, live, mixed>>
    BY <2>1, TakenIn
  <2>3. replay' \in Replays
    <3>1. replay \in Replays
      BY DEF RoomTypeOK
    <3>2. ASSUME replay # NoReplay, replay' = [replay EXCEPT !.next = @ + 1]
          PROVE  replay' \in Replays
      <4>1. replay \in [of : Seq(RecordedEvent), next : Nat \ {0}]
        BY <3>1, <3>2
      <4>2. replay.next + 1 \in Nat \ {0}
        BY <4>1
      <4>3. replay' \in [of : Seq(RecordedEvent), next : Nat \ {0}]
        BY <3>2, <4>1, <4>2
      <4>4. QED BY <4>3
    <3> HIDE DEF Replays
    <3>3. QED BY <2>1, <3>1, <3>2
  <2>4. events' \in Seq(RecordedEvent) /\ wire' \in Seq(RecordedEvent)
    <3>1. events \in Seq(RecordedEvent) /\ wire \in Seq(RecordedEvent)
      BY DEF RoomTypeOK
    <3>2. QED BY <2>2, <3>1
  <2>5. QED BY <1>2, <2>1, <2>2, <2>3, <2>4 DEF Progresses, RoomTypeOK
<1>3. ASSUME Unheard, Progresses
      PROVE  RoomTypeOK'
  <2>1. outcomes' \in [Runs -> SUBSET Outcomes]
    <3>1. outcomes \in [Runs -> SUBSET Outcomes] /\ relay \in Runs \union {NoRun}
      BY DEF RoomTypeOK
    <3>2. QED BY <1>3, <3>1 DEF Unheard
  <2>2. QED BY <1>3, <2>1 DEF Unheard, Progresses, storeVars, clientVars, RoomTypeOK
<1>4. ASSUME Keeps, Progresses
      PROVE  RoomTypeOK'
  <2>1. manifest' \in [Runs -> Seq(RecordedEvent) \union {NoManifest}]
    BY <1>4 DEF Keeps, Finalize, Capture, RoomTypeOK
  <2>2. QED
    BY <1>4, <2>1 DEF Keeps, Finalize, Capture, Progresses, workflowVars, clientVars, RoomTypeOK
<1>5. ASSUME Restart, Progresses
      PROVE  RoomTypeOK'
  BY <1>0, <1>5 DEF Restart, Progresses, workflowVars, RoomTypeOK
<1>6. ASSUME Looks, Progresses
      PROVE  RoomTypeOK'
  <2>1. UNCHANGED <<storeVars, replay, outcomes>>
    BY <1>6 DEF Looks, GoLive, LeaveLive, Break, Reconnect, Receive, workflowVars
  <2>2. mode' \in {"replay", "live"} /\ stream' \in {"open", "closed"} /\ mixed' \in BOOLEAN
    BY <1>6 DEF Looks, GoLive, LeaveLive, Break, Reconnect, Receive, Attach, RoomTypeOK
  <2>3. wire' \in Seq(RecordedEvent) /\ live' \in Seq(RecordedEvent)
    <3>1. /\ events \in Seq(RecordedEvent) /\ wire \in Seq(RecordedEvent)
          /\ live \in Seq(RecordedEvent)
      BY DEF RoomTypeOK
    <3>2. CASE GoLive \/ LeaveLive \/ Break \/ Reconnect
      BY <1>0, <3>1, <3>2 DEF GoLive, LeaveLive, Break, Reconnect, Attach
    <3>3. CASE Receive
      <4>1. Head(wire) \in RecordedEvent /\ Tail(wire) \in Seq(RecordedEvent)
        BY <3>1, <3>3 DEF Receive
      <4>2. QED BY <3>1, <3>3, <4>1 DEF Receive, Take
    <3>4. QED BY <1>6, <3>2, <3>3 DEF Looks
  <2>4. QED BY <1>6, <2>1, <2>2, <2>3 DEF Progresses, storeVars, RoomTypeOK
<1>7. QED BY <1>1, <1>2, <1>3, <1>4, <1>5, <1>6, RoomStep

\* What a registration changes for the run and leaves of the others.
LEMMA RegisterFacts ==
    ASSUME RoomTypeOK, StoreInv, NEW r \in Runs, Register(r)
    PROVE  /\ run' = r /\ relay' = r /\ events' = <<>>
           /\ registrations' \in [Runs -> Nat] /\ registrations'[r] = registrations[r] + 1
           /\ \A q \in Runs \ {r} : registrations'[q] = registrations[q]
           /\ registrations'[r] = 1 =>
                 file[r] = <<>> /\ outcomes[r] = {} /\ manifest[r] = NoManifest
                    /\ r \notin {run, relay}
<1>1. registrations \in [Runs -> Nat]
  BY DEF RoomTypeOK
<1>2. /\ run' = r /\ relay' = r /\ events' = <<>>
      /\ registrations' = [registrations EXCEPT ![r] = @ + 1]
  BY DEF Register
<1>3. registrations' \in [Runs -> Nat] /\ registrations'[r] = registrations[r] + 1
        /\ \A q \in Runs \ {r} : registrations'[q] = registrations[q]
  BY <1>1, <1>2
<1>4. registrations[r] = 0 =>
        file[r] = <<>> /\ outcomes[r] = {} /\ manifest[r] = NoManifest
           /\ r \notin {run, relay}
  BY RoomAssumption DEF StoreInv
<1>5. QED BY <1>1, <1>2, <1>3, <1>4

\* The store and the files.
LEMMA NextStore ==
    ASSUME RoomTypeOK, StoreInv, [Next]_vars
    PROVE  StoreInv'
<1>1. ASSUME NEW r \in Runs, Registers(r), UNCHANGED outcomes
      PROVE  StoreInv'
  <2>1. Register(r) /\ UNCHANGED <<file, manifest, outcomes>>
    BY <1>1 DEF Registers, Register
  <2>2. r # NoRun
    BY RoomAssumption
  <2>3. Recording(<<>>) /\ Ends(<<>>, file[r])
    <3>1. file[r] \in Seq(RecordedEvent)
      BY DEF RoomTypeOK
    <3>2. QED BY <3>1 DEF Recording, Ends
  <2>4. FileInv'
    BY <2>1, <2>2, <2>3, RegisterFacts DEF FileInv, StoreInv
  <2>5. \A q \in Runs : registrations'[q] = 0 =>
           file[q] = <<>> /\ outcomes[q] = {} /\ manifest[q] = NoManifest
    BY <2>1, RegisterFacts DEF StoreInv, RoomTypeOK
  <2>6. registrations'[r] > 0
    BY <2>1, RegisterFacts DEF RoomTypeOK
  <2>7. QED BY <2>1, <2>2, <2>3, <2>4, <2>5, <2>6, RegisterFacts DEF StoreInv
<1>2. ASSUME Records
      PROVE  StoreInv'
  <2>1. PICK e \in Event : TakesIn(e) /\ UNCHANGED outcomes
    BY <1>2 DEF Records
  <2>2. PICK re \in RecordedEvent :
             /\ re.seq = Len(events) /\ run \in Runs
             /\ events' = Append(events, re)
             /\ file'[run] = Append(file[run], re)
             /\ \A r \in Runs \ {run} : file'[r] = file[r]
             /\ UNCHANGED <<run, manifest, registrations, relay>>
    BY <2>1, TakenIn
  <2>3. events \in Seq(RecordedEvent) /\ file[run] \in Seq(RecordedEvent)
    BY <2>2 DEF RoomTypeOK
  <2> DEFINE F == file[run]
             G == file'[run]
             d == Len(F) - Len(events)
  <2>4. /\ Len(F) \in Nat /\ Len(events) \in Nat /\ d \in Nat
        /\ \A k \in 1 .. Len(events) : events[k] = F[d + k] /\ events[k].seq = k - 1
    BY <2>2, <2>3, RoomAssumption DEF StoreInv, FileInv, Ends, Recording
  <2>5. /\ Len(G) = Len(F) + 1 /\ G[Len(F) + 1] = re
        /\ \A k \in 1 .. Len(F) : G[k] = F[k]
    BY <2>2, <2>3
  <2>6. /\ Len(events') = Len(events) + 1 /\ events'[Len(events) + 1] = re
        /\ \A k \in 1 .. Len(events) : events'[k] = events[k]
    BY <2>2, <2>3
  <2> HIDE DEF F, G, d
  <2>7. Recording(events')
    BY <2>2, <2>4, <2>6 DEF Recording
  <2>8. Ends(events', G)
    <3>1. Len(G) - Len(events') = d /\ Len(events') <= Len(G)
      BY <2>4, <2>5, <2>6 DEF d
    <3>2. ASSUME NEW k \in 1 .. Len(events')
          PROVE  events'[k] = G[d + k]
      <4>1. CASE k \in 1 .. Len(events)
        <5>1. d + k \in 1 .. Len(F)
          BY <2>4, <4>1 DEF d
        <5>2. QED BY <2>4, <2>5, <2>6, <4>1, <5>1
      <4>2. CASE k = Len(events) + 1
        <5>1. d + k = Len(F) + 1
          BY <2>4, <4>2 DEF d
        <5>2. QED BY <2>5, <2>6, <4>2, <5>1
      <4>3. QED BY <2>4, <2>6, <4>1, <4>2
    <3>3. QED BY <3>1, <3>2 DEF Ends
  <2>9. ASSUME NEW k \in 1 .. Len(G)
        PROVE  Belongs(G, k)
    <3>1. CASE k \in 1 .. Len(F)
      <4>1. Belongs(F, k)
        BY <2>2, <3>1 DEF StoreInv, FileInv, F
      <4>2. PICK s \in 1 .. k : \A j \in s .. k : F[j].seq = j - s
        BY <4>1 DEF Belongs
      <4>3. ASSUME NEW j \in s .. k
            PROVE  G[j].seq = j - s
        <5>1. j \in 1 .. Len(F)
          BY <2>4, <3>1
        <5>2. G[j] = F[j]
          BY <2>5, <5>1
        <5>3. QED BY <4>2, <5>2
      <4>4. QED BY <4>3 DEF Belongs
    <3>2. CASE k = Len(F) + 1
      <4>1. d + 1 \in 1 .. k
        BY <2>4, <3>2 DEF d
      <4>2. ASSUME NEW j \in d + 1 .. k
            PROVE  G[j].seq = j - (d + 1)
        <5>1. CASE j = k
          BY <2>2, <2>4, <2>5, <3>2, <5>1 DEF d
        <5>2. CASE j # k
          <6>1. j - d \in 1 .. Len(events) /\ j \in 1 .. Len(F) /\ d + (j - d) = j
            BY <2>4, <3>2, <4>2, <5>2 DEF d
          <6>2. events[j - d] = F[j] /\ events[j - d].seq = (j - d) - 1
            BY <2>4, <6>1
          <6>3. QED BY <2>4, <2>5, <6>1, <6>2
        <5>3. QED BY <5>1, <5>2
      <4>3. QED BY <4>1, <4>2 DEF Belongs
    <3>3. QED BY <2>4, <2>5, <3>1, <3>2
  <2>10. \A r \in Runs : \A k \in 1 .. Len(file'[r]) : Belongs(file'[r], k)
    BY <2>2, <2>9 DEF StoreInv, FileInv, G
  <2>11. registrations[run] = 1 => events' = file'[run]
    BY <2>2 DEF StoreInv, FileInv
  <2>12. FileInv'
    BY <2>2, <2>8, <2>10, <2>11 DEF FileInv, G
  <2>13. run # NoRun /\ relay = run /\ registrations[run] > 0 /\ registrations[run] # 0
    BY <2>2, RoomAssumption DEF StoreInv, RoomTypeOK
  <2>14. \A r \in Runs : registrations[r] = 0 =>
            file'[r] = <<>> /\ outcomes[r] = {} /\ manifest[r] = NoManifest
    BY <2>2, <2>13 DEF StoreInv
  <2>15. QED BY <2>1, <2>2, <2>7, <2>12, <2>13, <2>14 DEF StoreInv
<1>3. ASSUME Unheard
      PROVE  StoreInv'
  <2>1. UNCHANGED <<run, relay, events, file, manifest, registrations>>
    BY <1>3 DEF Unheard, storeVars
  <2>2. \A r \in Runs : registrations[r] = 0 => outcomes'[r] = outcomes[r]
    <3>1. relay \in Runs \union {NoRun} /\ outcomes \in [Runs -> SUBSET Outcomes]
      BY DEF RoomTypeOK
    <3>2. \A r \in Runs : registrations[r] = 0 => r # relay
      BY RoomAssumption DEF StoreInv
    <3>3. QED BY <1>3, <3>1, <3>2 DEF Unheard
  <2>3. FileInv'
    BY <2>1 DEF FileInv, StoreInv
  <2>4. QED BY <2>1, <2>2, <2>3 DEF StoreInv
<1>4. ASSUME Keeps
      PROVE  StoreInv'
  <2>1. UNCHANGED <<run, relay, events, file, registrations, outcomes>>
    BY <1>4 DEF Keeps, Finalize, Capture, workflowVars
  <2>2. PICK r \in Runs : /\ r = run \/ file[r] # <<>>
                         /\ \A q \in Runs \ {r} : manifest'[q] = manifest[q]
    BY <1>4 DEF Keeps, Finalize, Capture, ValidManifest, RoomTypeOK
  <2>3. registrations[r] # 0
    BY <2>2, RoomAssumption DEF StoreInv
  <2>4. FileInv'
    BY <2>1 DEF FileInv, StoreInv
  <2>5. QED BY <2>1, <2>2, <2>3, <2>4 DEF StoreInv
<1>5. ASSUME Restart
      PROVE  StoreInv'
  <2>1. /\ run' = NoRun /\ events' = <<>>
        /\ UNCHANGED <<relay, file, manifest, registrations, outcomes>>
    BY <1>5 DEF Restart, workflowVars
  <2>2. FileInv'
    BY <2>1, RoomAssumption DEF FileInv, StoreInv
  <2>3. QED BY <2>1, <2>2 DEF StoreInv, Recording
<1>6. ASSUME Looks
      PROVE  StoreInv'
  <2>1. UNCHANGED <<run, relay, events, file, manifest, registrations, outcomes>>
    BY <1>6 DEF Looks, GoLive, LeaveLive, Break, Reconnect, Receive, storeVars, workflowVars
  <2>2. FileInv'
    BY <2>1 DEF FileInv, StoreInv
  <2>3. QED BY <2>1, <2>2 DEF StoreInv
<1>7. QED BY <1>1, <1>2, <1>3, <1>4, <1>5, <1>6, RoomStep

\* A file that counts upwards throughout is one recording: the second one in it
\* would have to start above 0.
LEMMA CountsUpwards ==
    ASSUME NEW T, NEW f \in Seq(T), ValidManifest(f),
           \A k \in 1 .. Len(f) : Belongs(f, k), \A k \in 1 .. Len(f) : f[k].seq \in Nat
    PROVE  Recording(f)
<1> SUFFICES ASSUME NEW k \in 1 .. Len(f) PROVE f[k].seq = k - 1
  BY DEF Recording
<1>1. PICK s \in 1 .. k : \A j \in s .. k : f[j].seq = j - s
  BY DEF Belongs
<1>2. f[s].seq = 0
  BY <1>1
<1>3. s > 1 => f[s].seq > f[s - 1].seq /\ f[s - 1].seq \in Nat
  BY DEF ValidManifest
<1>4. s = 1
  BY <1>2, <1>3
<1>5. QED BY <1>1, <1>4

\* What is kept of a run.
LEMMA NextManifest ==
    ASSUME RoomTypeOK, StoreInv, ManifestInv, [Next]_vars
    PROVE  ManifestInv'
<1>1. ASSUME NEW r \in Runs, Registers(r)
      PROVE  ManifestInv'
  <2>1. Register(r) /\ UNCHANGED <<file, manifest>>
    BY <1>1 DEF Registers, Register
  <2>2. QED BY <2>1, RegisterFacts DEF ManifestInv
<1>2. ASSUME Records
      PROVE  ManifestInv'
  <2>1. PICK e \in Event : TakesIn(e)
    BY <1>2 DEF Records
  <2>2. PICK re \in RecordedEvent :
             /\ run \in Runs
             /\ file'[run] = Append(file[run], re)
             /\ \A r \in Runs \ {run} : file'[r] = file[r]
             /\ UNCHANGED <<manifest, registrations>>
    BY <2>1, TakenIn
  <2>3. \A r \in Runs : file[r] \in Seq(RecordedEvent)
    BY DEF RoomTypeOK
  <2>4. Len(file'[run]) = Len(file[run]) + 1 /\ \A k \in 1 .. Len(file[run]) : file'[run][k] = file[run][k]
    BY <2>2, <2>3
  <2>5. ASSUME NEW s, Len(s) \in Nat, Begins(s, file[run])
        PROVE  Begins(s, file'[run])
    BY <2>2, <2>3, <2>4, <2>5 DEF Begins
  <2>6. ASSUME NEW r \in Runs, manifest[r] # NoManifest
        PROVE  Recording(manifest[r]) /\ (registrations[r] = 1 => Begins(manifest[r], file'[r]))
    <3>1. Len(manifest[r]) \in Nat
      BY <2>6 DEF RoomTypeOK
    <3>2. QED BY <2>2, <2>5, <2>6, <3>1 DEF ManifestInv
  <2>7. QED BY <2>2, <2>6 DEF ManifestInv
<1>3. ASSUME Unheard \/ Restart \/ Looks
      PROVE  ManifestInv'
  <2>1. UNCHANGED <<file, manifest, registrations>>
    BY <1>3 DEF Unheard, Restart, Looks, GoLive, LeaveLive, Break, Reconnect, Receive, storeVars
  <2>2. QED BY <2>1 DEF ManifestInv
<1>4. ASSUME Keeps
      PROVE  ManifestInv'
  <2>1. UNCHANGED <<run, events, file, registrations>>
    BY <1>4 DEF Keeps, Finalize, Capture
  <2>2. \A q \in Runs : Begins(file[q], file[q])
    BY DEF Begins, RoomTypeOK
  <2>3. CASE Finalize
    <3>1. run \in Runs /\ manifest' = [manifest EXCEPT ![run] = events]
      BY <2>3 DEF Finalize, RoomTypeOK
    <3>2. Recording(events) /\ (registrations[run] = 1 => events = file[run])
      BY <3>1 DEF StoreInv, FileInv
    <3>3. QED BY <2>1, <2>2, <3>1, <3>2 DEF ManifestInv, RoomTypeOK
  <2>4. ASSUME NEW r \in Runs, Capture(r)
        PROVE  ManifestInv'
    <3>1. manifest' = [manifest EXCEPT ![r] = file[r]] /\ ValidManifest(file[r])
      BY <2>4 DEF Capture
    <3>2. file[r] \in Seq(RecordedEvent) /\ \A k \in 1 .. Len(file[r]) : Belongs(file[r], k)
      BY DEF RoomTypeOK, StoreInv, FileInv
    <3>3. \A k \in 1 .. Len(file[r]) : file[r][k].seq \in Nat
      <4>1. \A k \in 1 .. Len(file[r]) : file[r][k] \in RecordedEvent
        BY <3>2
      <4>2. \A re \in RecordedEvent : re.seq \in Nat
        BY DEF RecordedEvent
      <4>3. QED BY <4>1, <4>2
    <3>4. Recording(file[r])
      BY <3>1, <3>2, <3>3, CountsUpwards
    <3>5. QED BY <2>1, <2>2, <3>1, <3>4 DEF ManifestInv, RoomTypeOK
  <2>5. QED BY <1>4, <2>3, <2>4 DEF Keeps
<1>5. QED BY <1>1, <1>2, <1>3, <1>4, RoomStep

\* A recording knows its numbers, and no others.
LEMMA NumbersOf ==
    ASSUME NEW T, NEW evs \in Seq(T), Recording(evs), NEW n \in Nat
    PROVE  (\E k \in DOMAIN evs : evs[k].seq = n) <=> n < Len(evs)
<1>1. DOMAIN evs = 1 .. Len(evs) /\ Len(evs) \in Nat
  OBVIOUS
<1>2. ASSUME n < Len(evs)
      PROVE  \E k \in DOMAIN evs : evs[k].seq = n
  <2>1. n + 1 \in DOMAIN evs /\ evs[n + 1].seq = n
    BY <1>1, <1>2 DEF Recording
  <2>2. QED BY <2>1
<1>3. ASSUME NEW k \in DOMAIN evs, evs[k].seq = n
      PROVE  n < Len(evs)
  BY <1>1, <1>3 DEF Recording
<1>4. QED BY <1>2, <1>3

\* What a view does with the next event, of whichever run.
LEMMA TakeFacts ==
    ASSUME RoomTypeOK, Recording(live), NEW h \in RecordedEvent, h.seq <= Len(live)
    PROVE  /\ h.seq < Len(live) => Take(live, h) = live
           /\ h.seq = Len(live) => Take(live, h) = Append(live, h)
           /\ Recording(Take(live, h))
           /\ Len(Take(live, h)) > h.seq /\ Len(Take(live, h)) >= Len(live)
<1>1. live \in Seq(RecordedEvent) /\ h.seq \in Nat
  BY DEF RoomTypeOK, RecordedEvent
<1>2. (\E k \in DOMAIN live : live[k].seq = h.seq) <=> h.seq < Len(live)
  BY <1>1, NumbersOf
<1>3. /\ h.seq < Len(live) => Take(live, h) = live
      /\ h.seq = Len(live) => Take(live, h) = Append(live, h)
  BY <1>1, <1>2 DEF Take
<1>4. /\ Len(live) \in Nat /\ Len(Append(live, h)) = Len(live) + 1
      /\ Append(live, h)[Len(live) + 1] = h
      /\ \A k \in 1 .. Len(live) : Append(live, h)[k] = live[k]
  BY <1>1
<1> DEFINE v == Append(live, h)
<1>5. ASSUME h.seq = Len(live), NEW k \in 1 .. Len(v)
      PROVE  v[k].seq = k - 1
  <2>1. CASE k = Len(live) + 1
    BY <1>4, <1>5, <2>1
  <2>2. CASE k \in 1 .. Len(live)
    BY <1>4, <2>2 DEF Recording
  <2>3. QED BY <1>4, <2>1, <2>2
<1>6. h.seq = Len(live) => Recording(v)
  BY <1>5 DEF Recording
<1>7. Len(v) = Len(live) + 1
  BY <1>4
<1> HIDE DEF v
<1>8. CASE h.seq < Len(live)
  <2>1. Take(live, h) = live
    BY <1>3, <1>8
  <2>2. QED BY <1>1, <1>3, <1>4, <1>8, <2>1
<1>9. CASE h.seq = Len(live)
  <2>1. Take(live, h) = v
    BY <1>3, <1>9 DEF v
  <2>2. QED BY <1>3, <1>4, <1>6, <1>7, <1>9, <2>1
<1>10. QED BY <1>1, <1>4, <1>8, <1>9

\* The front of what is on its way, and the rest.
LEMMA WireFacts ==
    ASSUME RoomTypeOK, wire # <<>>
    PROVE  /\ Len(wire) \in Nat \ {0}
           /\ Head(wire) = wire[1] /\ wire[1] \in RecordedEvent
           /\ Len(Tail(wire)) = Len(wire) - 1
           /\ \A j \in 1 .. Len(wire) - 1 : Tail(wire)[j] = wire[j + 1]
           /\ \A j \in 1 .. Len(wire) : wire[j].seq \in Nat
<1>1. wire \in Seq(RecordedEvent)
  BY DEF RoomTypeOK
<1>2. \A re \in RecordedEvent : re.seq \in Nat
  BY DEF RecordedEvent
<1>3. \A j \in 1 .. Len(wire) : wire[j] \in RecordedEvent
  BY <1>1
<1>4. QED BY <1>1, <1>2, <1>3

\* A whole recording, sent at once.
LEMMA BacklogReaches ==
    ASSUME NEW T, NEW evs \in Seq(T), Recording(evs), NEW n \in Nat
    PROVE  Reachable(evs, n) /\ Reaches(evs, n, Len(evs))
<1>1. Len(evs) \in Nat
  OBVIOUS
<1>2. ASSUME NEW j \in 1 .. Len(evs)
      PROVE  evs[j].seq <= n \/ \E i \in 1 .. j - 1 : evs[i].seq = evs[j].seq - 1
  <2>1. evs[j].seq = j - 1
    BY DEF Recording
  <2>2. CASE j = 1
    BY <2>1, <2>2
  <2>3. CASE j # 1
    <3>1. j - 1 \in 1 .. j - 1 /\ j - 1 \in 1 .. Len(evs)
      BY <1>1, <2>3
    <3>2. evs[j - 1].seq = (j - 1) - 1
      BY <3>1 DEF Recording
    <3>3. QED BY <2>1, <3>1, <3>2
  <2>4. QED BY <2>2, <2>3
<1>3. Reaches(evs, n, Len(evs))
  <2>1. CASE Len(evs) = 0
    BY <2>1 DEF Reaches
  <2>2. CASE Len(evs) # 0
    <3>1. Len(evs) \in 1 .. Len(evs) /\ evs[Len(evs)].seq = Len(evs) - 1
      BY <1>1, <2>2 DEF Recording
    <3>2. QED BY <3>1 DEF Reaches
  <2>3. QED BY <2>1, <2>2
<1>4. QED BY <1>2, <1>3 DEF Reachable

\* One event more on its way.
LEMMA SentReaches ==
    ASSUME NEW T, NEW w \in Seq(T), NEW re \in T, NEW n \in Nat, NEW m \in Nat,
           Reachable(w, n), Reaches(w, n, m), re.seq = m
    PROVE  Reachable(Append(w, re), n) /\ Reaches(Append(w, re), n, m + 1)
<1> DEFINE v == Append(w, re)
<1>1. /\ Len(w) \in Nat /\ Len(v) = Len(w) + 1 /\ v[Len(w) + 1] = re
      /\ \A j \in 1 .. Len(w) : v[j] = w[j]
  OBVIOUS
<1> HIDE DEF v
<1>2. ASSUME NEW j \in 1 .. Len(v)
      PROVE  v[j].seq <= n \/ \E i \in 1 .. j - 1 : v[i].seq = v[j].seq - 1
  <2>1. CASE j \in 1 .. Len(w)
    BY <1>1, <2>1 DEF Reachable
  <2>2. CASE j = Len(w) + 1
    BY <1>1, <2>2 DEF Reaches
  <2>3. QED BY <1>1, <2>1, <2>2
<1>3. Reaches(v, n, m + 1)
  <2>1. Len(v) \in 1 .. Len(v) /\ v[Len(v)].seq = (m + 1) - 1
    BY <1>1
  <2>2. QED BY <2>1 DEF Reaches
<1>4. QED BY <1>2, <1>3 DEF Reachable, v

\* The first one arrives.
LEMMA ReceivedReaches ==
    ASSUME RoomTypeOK, wire # <<>>, NEW n \in Nat, NEW p \in Nat, NEW m \in Nat,
           Reachable(wire, n), Reaches(wire, n, m), p >= n, p > wire[1].seq
    PROVE  Reachable(Tail(wire), p) /\ Reaches(Tail(wire), p, m)
<1> DEFINE w == wire
           v == Tail(wire)
<1>1. /\ Len(w) \in Nat \ {0} /\ Len(v) = Len(w) - 1
      /\ \A j \in 1 .. Len(v) : v[j] = w[j + 1]
      /\ \A j \in 1 .. Len(w) : w[j].seq \in Nat
  BY WireFacts
<1>2. /\ \A j \in 1 .. Len(w) : w[j].seq <= n \/ \E i \in 1 .. j - 1 : w[i].seq = w[j].seq - 1
      /\ m <= n \/ \E i \in 1 .. Len(w) : w[i].seq = m - 1
      /\ p > w[1].seq
  BY DEF Reachable, Reaches
<1> HIDE DEF w, v
<1>3. ASSUME NEW j \in 1 .. Len(v)
      PROVE  v[j].seq <= p \/ \E i \in 1 .. j - 1 : v[i].seq = v[j].seq - 1
  <2>1. v[j] = w[j + 1] /\ j + 1 \in 1 .. Len(w) /\ w[j + 1].seq \in Nat
    BY <1>1
  <2>2. CASE w[j + 1].seq <= n
    BY <2>1, <2>2
  <2>3. ASSUME NEW i \in 1 .. j, w[i].seq = w[j + 1].seq - 1
        PROVE  v[j].seq <= p \/ \E k \in 1 .. j - 1 : v[k].seq = v[j].seq - 1
    <3>1. CASE i = 1
      BY <1>1, <1>2, <2>1, <2>3, <3>1
    <3>2. CASE i # 1
      <4>1. i - 1 \in 1 .. j - 1 /\ i - 1 \in 1 .. Len(v) /\ (i - 1) + 1 = i
        BY <1>1, <3>2
      <4>2. v[i - 1] = w[i]
        BY <1>1, <4>1
      <4>3. QED BY <2>1, <2>3, <4>1, <4>2
    <3>3. QED BY <3>1, <3>2
  <2>4. (j + 1) - 1 = j
    OBVIOUS
  <2>5. QED BY <1>2, <2>1, <2>2, <2>3, <2>4
<1>4. m <= p \/ \E i \in 1 .. Len(v) : v[i].seq = m - 1
  <2>1. ASSUME NEW i \in 1 .. Len(w), w[i].seq = m - 1, ~ (m <= p)
        PROVE  \E k \in 1 .. Len(v) : v[k].seq = m - 1
    <3>1. i # 1
      BY <1>1, <1>2, <2>1
    <3>2. i - 1 \in 1 .. Len(v) /\ v[i - 1] = w[(i - 1) + 1] /\ (i - 1) + 1 = i
      BY <1>1, <3>1
    <3>3. QED BY <2>1, <3>2
  <2>2. QED BY <1>2, <2>1
<1>5. QED BY <1>3, <1>4 DEF Reachable, Reaches, v

\* Whatever breaks or is registered, the view misses nothing.
LEMMA NextView ==
    ASSUME RoomTypeOK, StoreInv, ViewInv, [Next]_vars
    PROVE  ViewInv'
<1>0. /\ Len(live) \in Nat /\ Len(events) \in Nat
      /\ wire \in Seq(RecordedEvent) /\ events \in Seq(RecordedEvent)
  BY DEF RoomTypeOK
<1> DEFINE n == Len(live)
<1>1. ASSUME NEW n0 \in Nat
      PROVE  Reachable(<<>>, n0) /\ Reaches(<<>>, n0, 0) /\ Len(<<>>) = 0 /\ Recording(<<>>)
  BY DEF Reachable, Reaches, Recording
<1>2. ASSUME NEW r \in Runs, Registers(r)
      PROVE  ViewInv'
  <2>1. /\ run' = r /\ events' = <<>> /\ UNCHANGED <<mode, stream, wire, live>>
    BY <1>2 DEF Registers, Register
  <2>2. run = NoRun => wire = <<>>
    BY DEF ViewInv
  <2>3. Reaches(wire, n, Len(<<>>))
    BY <1>0, <1>1 DEF Reaches
  <2>4. r # NoRun
    BY RoomAssumption
  <2>5. QED BY <2>1, <2>3, <2>4 DEF ViewInv
<1>3. ASSUME Records
      PROVE  ViewInv'
  <2>1. PICK e \in Event : TakesIn(e)
    BY <1>3 DEF Records
  <2>2. PICK re \in RecordedEvent :
             /\ re.seq = Len(events) /\ run \in Runs
             /\ events' = Append(events, re)
             /\ wire' = IF stream = "open" THEN Append(wire, re) ELSE wire
             /\ UNCHANGED <<run, mode, stream, live>>
    BY <2>1, TakenIn
  <2>3. run # NoRun
    BY <2>2, RoomAssumption
  <2>4. CASE stream = "open"
    <3>1. Reachable(wire, n) /\ Reaches(wire, n, Len(events))
      BY <2>4 DEF ViewInv
    <3>2. Reachable(wire', n) /\ Reaches(wire', n, Len(events) + 1)
      BY <1>0, <2>2, <2>4, <3>1, SentReaches
    <3>3. Len(events') = Len(events) + 1
      BY <1>0, <2>2
    <3>4. QED BY <2>2, <2>3, <2>4, <3>2, <3>3 DEF ViewInv
  <2>5. CASE stream # "open"
    BY <2>2, <2>3, <2>5 DEF ViewInv
  <2>6. QED BY <2>4, <2>5
<1>4. ASSUME Unheard \/ Keeps
      PROVE  ViewInv'
  <2>1. UNCHANGED <<run, events, mode, stream, wire, live>>
    BY <1>4 DEF Unheard, Keeps, Finalize, Capture, storeVars, clientVars
  <2>2. QED BY <2>1 DEF ViewInv
<1>5. ASSUME Restart \/ LeaveLive \/ Break
      PROVE  ViewInv'
  <2>1. stream' = "closed" /\ wire' = <<>> /\ live' = live
    BY <1>5 DEF Restart, LeaveLive, Break
  <2>2. QED BY <1>0, <1>1, <2>1 DEF ViewInv
<1>6. ASSUME GoLive \/ Reconnect
      PROVE  ViewInv'
  <2>1. /\ UNCHANGED <<run, events>> /\ stream' = "open" /\ wire' = events /\ mode' = "live"
        /\ live' = <<>> \/ live' = live
    BY <1>6 DEF GoLive, Reconnect, Attach, storeVars
  <2>2. Len(live') \in Nat /\ Recording(live')
    BY <1>0, <1>1, <2>1 DEF ViewInv
  <2>3. Reachable(events, Len(live')) /\ Reaches(events, Len(live'), Len(events))
    BY <1>0, <2>2, BacklogReaches DEF StoreInv
  <2>4. QED BY <2>1, <2>2, <2>3 DEF ViewInv, StoreInv
<1>7. ASSUME Receive
      PROVE  ViewInv'
  <2>1. /\ wire # <<>> /\ live' = Take(live, Head(wire)) /\ wire' = Tail(wire)
        /\ UNCHANGED <<mode, stream, run, events>>
    BY <1>7 DEF Receive, storeVars
  <2>2. /\ Head(wire) = wire[1] /\ wire[1] \in RecordedEvent /\ 1 \in 1 .. Len(wire)
        /\ wire[1].seq \in Nat
    BY <2>1, WireFacts
  <2>3. wire[1].seq <= Len(live)
    BY <2>2 DEF ViewInv, Reachable
  <2>4. Recording(live') /\ Len(live') > wire[1].seq /\ Len(live') >= Len(live)
    BY <2>1, <2>2, <2>3, TakeFacts DEF ViewInv
  <2>5. Len(live') \in Nat
    BY <1>7, NextType DEF RoomTypeOK
  <2>6. stream = "open" /\ Reachable(wire, n) /\ Reaches(wire, n, Len(events)) /\ run # NoRun
    BY <2>1 DEF ViewInv, RoomTypeOK
  <2>7. Reachable(wire', Len(live')) /\ Reaches(wire', Len(live'), Len(events))
    BY <1>0, <2>1, <2>4, <2>5, <2>6, ReceivedReaches
  <2>8. QED BY <2>1, <2>4, <2>6, <2>7 DEF ViewInv
<1>8. QED BY <1>2, <1>3, <1>4, <1>5, <1>6, <1>7, RoomStep DEF Looks

\* Beginnings of sequences.
LEMMA BeginsFacts ==
    ASSUME NEW T, NEW s \in Seq(T), NEW t \in Seq(T), NEW x \in T, Begins(s, t)
    PROVE  /\ Begins(s, Append(t, x))
           /\ Len(s) < Len(t) /\ x = t[Len(s) + 1] => Begins(Append(s, x), t)
<1> DEFINE v == Append(t, x)
           u == Append(s, x)
<1>1. /\ Len(s) \in Nat /\ Len(t) \in Nat /\ Len(s) <= Len(t)
      /\ Len(v) = Len(t) + 1 /\ \A k \in 1 .. Len(t) : v[k] = t[k]
      /\ Len(u) = Len(s) + 1 /\ u[Len(s) + 1] = x /\ \A k \in 1 .. Len(s) : u[k] = s[k]
      /\ \A k \in 1 .. Len(s) : s[k] = t[k]
  BY DEF Begins
<1> HIDE DEF u, v
<1>2. Begins(s, v)
  BY <1>1 DEF Begins
<1>3. ASSUME Len(s) < Len(t), x = t[Len(s) + 1]
      PROVE  Begins(u, t)
  <2>1. \A k \in 1 .. Len(u) : u[k] = t[k]
    BY <1>1, <1>3
  <2>2. QED BY <1>1, <1>3, <2>1 DEF Begins
<1>4. QED BY <1>2, <1>3 DEF u, v

\* What is on its way to an undisturbed view is the rest of its run.
Rest == \E n \in 0 .. Len(live) :
            /\ n + Len(wire) = Len(events)
            /\ \A k \in 1 .. Len(wire) : wire[k] = events[n + k]

\* An undisturbed view stays a view of its run.
LEMMA NextOwnRun ==
    ASSUME RoomTypeOK, StoreInv, ViewInv, OwnRunInv, [Next]_vars
    PROVE  OwnRunInv'
<1>0. /\ live \in Seq(RecordedEvent) /\ events \in Seq(RecordedEvent)
      /\ wire \in Seq(RecordedEvent)
      /\ Len(live) \in Nat /\ Len(events) \in Nat /\ Len(wire) \in Nat
      /\ \A r \in Runs : file[r] \in Seq(RecordedEvent)
      /\ run \in Runs \union {NoRun} /\ relay \in Runs \union {NoRun} /\ NoRun \notin Runs
  BY RoomAssumption DEF RoomTypeOK
<1>1. ASSUME NEW T, NEW t \in Seq(T)
      PROVE  Begins(<<>>, t)
  BY DEF Begins
<1>2. ASSUME NEW r \in Runs, Registers(r), mode' = "live", ~mixed'
      PROVE  OwnRunInv'
  <2>1. /\ Register(r) /\ run' = r /\ relay' = r /\ events' = <<>>
        /\ UNCHANGED <<file, mode, stream, wire, live>>
    BY <1>2 DEF Registers, Register
  <2>2. live = <<>> /\ wire = <<>>
    BY <1>2, <2>1 DEF Register
  <2>3. Rest'
    <3>1. 0 \in 0 .. Len(<<>>) /\ 0 + Len(<<>>) = Len(<<>>)
      OBVIOUS
    <3>2. QED BY <2>1, <2>2, <3>1 DEF Rest
  <2>4. Begins(<<>>, <<>>) /\ Begins(<<>>, file[r])
    <3>1. <<>> \in Seq(RecordedEvent)
      OBVIOUS
    <3>2. QED BY <1>0, <1>1, <3>1
  <2>5. QED BY <1>0, <2>1, <2>2, <2>3, <2>4 DEF OwnRunInv, Rest
<1>3. ASSUME Records, mode' = "live", ~mixed'
      PROVE  OwnRunInv'
  <2>1. PICK e \in Event : TakesIn(e)
    BY <1>3 DEF Records
  <2>2. PICK re \in RecordedEvent :
             /\ run \in Runs
             /\ events' = Append(events, re)
             /\ file'[run] = Append(file[run], re)
             /\ wire' = IF stream = "open" THEN Append(wire, re) ELSE wire
             /\ UNCHANGED <<run, relay, registrations, mode, stream, live, mixed>>
    BY <2>1, TakenIn
  <2>3. run = relay /\ run # NoRun
    BY <1>0, <2>2 DEF StoreInv
  <2>4. Begins(live, events')
    BY <1>0, <1>3, <2>2, <2>3, BeginsFacts DEF OwnRunInv
  <2>5. registrations[relay] = 1 => Begins(live, file'[relay])
    BY <1>0, <1>3, <2>2, <2>3, BeginsFacts DEF OwnRunInv
  <2>6. ASSUME stream = "open"
        PROVE  Rest'
    <3>1. PICK n \in 0 .. Len(live) :
              /\ n + Len(wire) = Len(events)
              /\ \A k \in 1 .. Len(wire) : wire[k] = events[n + k]
      BY <1>3, <2>2, <2>3, <2>6 DEF OwnRunInv
    <3>2. /\ Len(wire') = Len(wire) + 1 /\ Len(events') = Len(events) + 1
          /\ wire'[Len(wire) + 1] = re /\ events'[Len(events) + 1] = re
          /\ \A k \in 1 .. Len(wire) : wire'[k] = wire[k]
          /\ \A k \in 1 .. Len(events) : events'[k] = events[k]
      BY <1>0, <2>2, <2>6
    <3>3. n + Len(wire') = Len(events')
      <4>1. n \in Int /\ n + Len(wire) = Len(events) /\ Len(wire') = Len(wire) + 1
               /\ Len(events') = Len(events) + 1 /\ Len(wire) \in Int
        BY <1>0, <3>1, <3>2
      <4>2. QED BY <4>1
    <3>4. ASSUME NEW k \in 1 .. Len(wire')
          PROVE  wire'[k] = events'[n + k]
      <4>1. CASE k \in 1 .. Len(wire)
        <5>1. n + k \in 1 .. Len(events)
          BY <1>0, <3>1, <4>1
        <5>2. QED BY <3>1, <3>2, <4>1, <5>1
      <4>2. CASE k = Len(wire) + 1
        <5>1. n + k = Len(events) + 1
          BY <1>0, <3>1, <4>2
        <5>2. QED BY <3>2, <4>2, <5>1
      <4>3. QED BY <1>0, <3>2, <4>1, <4>2
    <3>5. QED BY <2>2, <3>1, <3>3, <3>4 DEF Rest
  <2>7. QED BY <2>2, <2>3, <2>4, <2>5, <2>6 DEF OwnRunInv, Rest
<1>4. ASSUME Unheard \/ Keeps
      PROVE  OwnRunInv'
  <2>1. UNCHANGED <<run, relay, events, file, registrations, mode, stream, wire, live, mixed>>
    BY <1>4 DEF Unheard, Keeps, Finalize, Capture, storeVars, clientVars
  <2>2. QED BY <2>1 DEF OwnRunInv
<1>5. ASSUME Restart
      PROVE  OwnRunInv'
  <2>1. /\ run' = NoRun /\ UNCHANGED <<relay, file, registrations, mode, live, mixed>>
    BY <1>5 DEF Restart
  <2>2. QED BY <2>1 DEF OwnRunInv
<1>6. ASSUME LeaveLive
      PROVE  OwnRunInv'
  BY <1>6 DEF LeaveLive, OwnRunInv
<1>7. ASSUME Break
      PROVE  OwnRunInv'
  <2>1. /\ stream' = "closed"
        /\ UNCHANGED <<run, relay, events, file, registrations, mode, live, mixed>>
    BY <1>7 DEF Break, storeVars
  <2>2. QED BY <2>1 DEF OwnRunInv
<1>8. ASSUME GoLive \/ Reconnect
      PROVE  OwnRunInv'
  <2>1. /\ UNCHANGED <<run, relay, events, file, registrations>> /\ wire' = events
        /\ live' = <<>> \/ (live' = live /\ mode = "live" /\ mixed' = mixed)
    BY <1>8 DEF GoLive, Reconnect, Attach, storeVars
  <2>2. Rest'
    <3>1. 0 \in 0 .. Len(live') /\ 0 + Len(events) = Len(events)
             /\ \A k \in 1 .. Len(events) : 0 + k = k
      BY <1>0, <2>1
    <3>2. QED BY <2>1, <3>1 DEF Rest
  <2>3. CASE live' = <<>>
    <3>1. \A r \in Runs : Begins(<<>>, file[r])
      BY <1>0, <1>1
    <3>2. Begins(<<>>, events)
      BY <1>0, <1>1
    <3>3. relay # NoRun => relay \in Runs
      BY <1>0
    <3>4. QED BY <2>1, <2>2, <2>3, <3>1, <3>2, <3>3 DEF OwnRunInv, Rest
  <2>4. CASE live' = live /\ mode = "live" /\ mixed' = mixed
    BY <2>1, <2>2, <2>4 DEF OwnRunInv, Rest
  <2>5. QED BY <2>1, <2>3, <2>4
<1>9. ASSUME Receive, mode' = "live", ~mixed'
      PROVE  OwnRunInv'
  <2>1. /\ wire # <<>> /\ live' = Take(live, Head(wire)) /\ wire' = Tail(wire)
        /\ UNCHANGED <<run, relay, events, file, registrations, mode, stream, mixed>>
    BY <1>9 DEF Receive, storeVars
  <2>2. /\ run # NoRun /\ stream = "open" /\ run = relay
    BY <2>1 DEF ViewInv, StoreInv, RoomTypeOK
  <2>3. /\ Len(wire) \in Nat \ {0} /\ Head(wire) = wire[1] /\ wire[1] \in RecordedEvent
        /\ Len(wire') = Len(wire) - 1
        /\ \A j \in 1 .. Len(wire) - 1 : wire'[j] = wire[j + 1]
    BY <2>1, WireFacts
  <2>4. PICK n \in 0 .. Len(live) :
            /\ n + Len(wire) = Len(events)
            /\ \A k \in 1 .. Len(wire) : wire[k] = events[n + k]
    BY <1>9, <2>1, <2>2 DEF OwnRunInv
  <2>5. Begins(live, events)
    BY <1>9, <2>1, <2>2 DEF OwnRunInv
  <2>6. n + 1 \in 1 .. Len(events) /\ wire[1] = events[n + 1] /\ wire[1].seq = n
    BY <1>0, <2>3, <2>4 DEF StoreInv, Recording
  <2>7. /\ n < Len(live) => live' = live
        /\ n = Len(live) => live' = Append(live, wire[1])
    BY <1>0, <2>1, <2>3, <2>4, <2>6, TakeFacts DEF ViewInv
  <2>8. Begins(live', events)
    <3>1. CASE n < Len(live)
      BY <2>5, <2>7, <3>1
    <3>2. CASE n = Len(live)
      <4>1. Len(live) < Len(events) /\ wire[1] = events[Len(live) + 1]
        BY <1>0, <2>6, <3>2
      <4>2. Begins(Append(live, wire[1]), events)
        BY <1>0, <2>3, <2>5, <4>1, BeginsFacts
      <4>3. QED BY <2>7, <3>2, <4>2
    <3>3. QED BY <1>0, <2>4, <3>1, <3>2
  <2>9. n + 1 \in 0 .. Len(live')
    <3>1. CASE n < Len(live)
      BY <1>0, <2>4, <2>7, <3>1
    <3>2. CASE n = Len(live)
      <4>1. Len(Append(live, wire[1])) = Len(live) + 1
        BY <1>0, <2>3
      <4>2. QED BY <1>0, <2>7, <3>2, <4>1
    <3>3. QED BY <1>0, <2>4, <3>1, <3>2
  <2>10. Rest'
    <3>1. (n + 1) + Len(wire') = Len(events)
      <4>1. /\ n \in Int /\ n + Len(wire) = Len(events) /\ Len(wire') = Len(wire) - 1
            /\ Len(wire) \in Int
        BY <1>0, <2>3, <2>4
      <4>2. QED BY <4>1
    <3>2. ASSUME NEW k \in 1 .. Len(wire')
          PROVE  wire'[k] = events[(n + 1) + k]
      <4>1. k \in 1 .. Len(wire) - 1 /\ k + 1 \in 1 .. Len(wire) /\ n + (k + 1) = (n + 1) + k
        BY <1>0, <2>3, <2>4
      <4>2. QED BY <2>3, <2>4, <4>1
    <3>3. QED BY <2>1, <2>9, <3>1, <3>2 DEF Rest
  <2>11. registrations[relay] = 1 => events = file[relay]
    BY <1>0, <2>2 DEF StoreInv, FileInv
  <2>12. QED BY <2>1, <2>2, <2>8, <2>10, <2>11 DEF OwnRunInv, Rest
<1>10. mode' # "live" \/ mixed' => OwnRunInv'
  BY DEF OwnRunInv
<1>11. QED BY <1>2, <1>3, <1>4, <1>5, <1>6, <1>7, <1>8, <1>9, <1>10, RoomStep DEF Looks

\* Nobody but replay-run posts to the run it registered, and it posts what it read.
LEMMA NextReplay ==
    ASSUME RoomTypeOK, StoreInv, ManifestInv, ReplayInv, [Next]_vars
    PROVE  ReplayInv'
<1>0. /\ run \in Runs \union {NoRun} /\ relay \in Runs \union {NoRun} /\ NoRun \notin Runs
      /\ registrations \in [Runs -> Nat] /\ events \in Seq(RecordedEvent)
      /\ \A r \in Runs : manifest[r] # NoManifest => manifest[r] \in Seq(RecordedEvent)
  BY RoomAssumption DEF RoomTypeOK
<1>1. ASSUME NEW r \in Runs, Registers(r), UNCHANGED outcomes, replay' # NoReplay
      PROVE  ReplayInv'
  <2>1. PICK q \in Runs : /\ registrations[r] = 0 /\ manifest[q] # NoManifest
                          /\ replay' = [of |-> manifest[q], next |-> 1]
    BY <1>1 DEF Registers
  <2>2. Register(r) /\ UNCHANGED <<manifest, outcomes>>
    BY <1>1 DEF Registers, Register
  <2>3. /\ run' = r /\ relay' = r /\ events' = <<>> /\ registrations'[r] = 1
        /\ outcomes[r] = {} /\ manifest[r] = NoManifest
    BY <2>1, <2>2, RegisterFacts
  <2>4. replay'.of = manifest[q] /\ replay'.next = 1
    BY <2>1
  <2>5. Recording(replay'.of) /\ Len(manifest[q]) \in Nat
    BY <1>0, <2>1, <2>4 DEF ManifestInv
  <2>6. Len(<<>>) = 0 /\ 1 .. 0 = {} /\ 1 - 1 = 0
    OBVIOUS
  <2>7. replay'.next \in 1 .. Len(replay'.of) + 1
    BY <2>4, <2>5
  <2>8. Len(events') = replay'.next - 1 /\ \A k \in 1 .. Len(events') : events'[k] = replay'.of[k]
    BY <2>3, <2>4, <2>6
  <2>9. QED BY <1>0, <2>2, <2>3, <2>5, <2>7, <2>8 DEF ReplayInv
<1>2. ASSUME Records, replay' # NoReplay
      PROVE  ReplayInv'
  <2>1. PICK e \in Event :
            /\ TakesIn(e) /\ UNCHANGED outcomes
            /\ replay # NoReplay /\ replay.next <= Len(replay.of)
            /\ e = replay.of[replay.next].event
            /\ replay' = [replay EXCEPT !.next = @ + 1]
    BY <1>2 DEF Records
  <2>2. PICK re \in RecordedEvent :
             /\ re.seq = Len(events) /\ re.event = e
             /\ run \in Runs
             /\ events' = Append(events, re)
             /\ UNCHANGED <<run, manifest, relay, registrations>>
    BY <2>1, TakenIn
  <2>3. /\ replay \in [of : Seq(RecordedEvent), next : Nat \ {0}]
        /\ Len(replay.of) \in Nat
    BY <2>1 DEF RoomTypeOK
  <2> DEFINE of == replay.of
             n == replay.next
  <2>4. replay'.of = of /\ replay'.next = n + 1
    BY <2>1, <2>3
  <2>5. /\ Recording(of) /\ n \in 1 .. Len(of)
        /\ Len(events) = n - 1 /\ \A k \in 1 .. Len(events) : events[k] = of[k]
        /\ relay # NoRun /\ registrations[relay] = 1 /\ outcomes[relay] = {}
        /\ manifest[relay] # NoManifest => manifest[relay] = of
    BY <1>0, <2>1, <2>2, <2>3 DEF ReplayInv
  <2>6. of[n] \in RecordedEvent /\ of[n].seq = n - 1
    BY <2>3, <2>5 DEF Recording
  <2> HIDE DEF of, n
  <2>7. re = of[n]
    <3>1. re.seq = of[n].seq /\ re.event = of[n].event
      BY <2>1, <2>2, <2>5, <2>6 DEF of, n
    <3>2. QED BY <2>2, <2>6, <3>1 DEF RecordedEvent
  <2>8. /\ Len(events') = Len(events) + 1 /\ events'[Len(events) + 1] = re
        /\ \A k \in 1 .. Len(events) : events'[k] = events[k]
    BY <1>0, <2>2
  <2>9. Len(events') = n /\ \A k \in 1 .. Len(events') : events'[k] = of[k]
    BY <2>5, <2>7, <2>8
  <2>10. n + 1 \in 1 .. Len(of) + 1 /\ (n + 1) - 1 = n
    BY <2>5
  <2>11. QED BY <2>1, <2>2, <2>4, <2>5, <2>9, <2>10 DEF ReplayInv
<1>3. ASSUME Unheard, replay' # NoReplay
      PROVE  ReplayInv'
  <2>1. UNCHANGED <<run, relay, events, registrations, manifest, replay, outcomes>>
    BY <1>3 DEF Unheard, storeVars
  <2>2. QED BY <2>1 DEF ReplayInv
<1>4. ASSUME Keeps, replay' # NoReplay
      PROVE  ReplayInv'
  <2>1. UNCHANGED <<run, relay, events, registrations, replay, outcomes>>
    BY <1>4 DEF Keeps, Finalize, Capture, workflowVars
  <2>2. manifest'[relay] # NoManifest => manifest'[relay] = replay.of
    <3>1. /\ relay \in Runs /\ outcomes[relay] = {}
          /\ manifest[relay] # NoManifest => manifest[relay] = replay.of
      BY <1>0, <1>4, <2>1 DEF ReplayInv
    <3>2. CASE Finalize
      <4>1. /\ run = relay /\ replay.next > Len(replay.of)
            /\ manifest' = [manifest EXCEPT ![run] = events]
        BY <1>0, <3>2 DEF Finalize, StoreInv
      <4>2. /\ replay.next \in 1 .. Len(replay.of) + 1 /\ Len(events) = replay.next - 1
            /\ \A k \in 1 .. Len(events) : events[k] = replay.of[k]
        BY <1>0, <1>4, <2>1, <3>1, <4>1 DEF ReplayInv
      <4>3. replay.of \in Seq(RecordedEvent) /\ Len(replay.of) \in Nat
        BY <1>4, <2>1 DEF RoomTypeOK
      <4>4. Len(events) = Len(replay.of)
        BY <4>1, <4>2, <4>3
      <4>5. events = replay.of
        BY <1>0, <4>2, <4>3, <4>4
      <4>6. manifest \in [Runs -> Seq(RecordedEvent) \union {NoManifest}]
        BY DEF RoomTypeOK
      <4>7. QED BY <3>1, <4>1, <4>5, <4>6
    <3>3. ASSUME NEW r \in Runs, Capture(r)
          PROVE  manifest'[relay] # NoManifest => manifest'[relay] = replay.of
      <4>1. r # relay /\ manifest' = [manifest EXCEPT ![r] = file[r]]
        BY <3>1, <3>3 DEF Capture
      <4>2. manifest'[relay] = manifest[relay]
        BY <3>1, <4>1 DEF RoomTypeOK
      <4>3. QED BY <3>1, <4>2
    <3>4. QED BY <1>4, <3>2, <3>3 DEF Keeps
  <2>3. QED BY <2>1, <2>2 DEF ReplayInv
<1>5. ASSUME Restart, replay' # NoReplay
      PROVE  ReplayInv'
  <2>1. run' = NoRun /\ UNCHANGED <<relay, registrations, manifest, replay, outcomes>>
    BY <1>5 DEF Restart, workflowVars
  <2>2. QED BY <2>1 DEF ReplayInv
<1>6. ASSUME Looks, replay' # NoReplay
      PROVE  ReplayInv'
  <2>1. UNCHANGED <<run, relay, events, registrations, manifest, replay, outcomes>>
    BY <1>6 DEF Looks, GoLive, LeaveLive, Break, Reconnect, Receive, storeVars, workflowVars
  <2>2. QED BY <2>1 DEF ReplayInv
<1>7. replay' = NoReplay => ReplayInv'
  BY DEF ReplayInv
<1>8. QED BY <1>1, <1>2, <1>3, <1>4, <1>5, <1>6, <1>7, RoomStep

-----------------------------------------------------------------------------
\* The inductive invariant holds of every reachable state.
THEOREM RoomInvariant == Spec => []RoomInv
<1>1. RoomInv /\ [Next]_vars => RoomInv'
  BY NextType, NextStore, NextManifest, NextView, NextOwnRun, NextReplay DEF RoomInv
<1>2. QED BY InitRoom, <1>1, PTL DEF Spec

\* Every variable of the coordinator, the workflows and the view keeps its type.
THEOREM RoomTypeCorrect == Spec => []RoomTypeOK
<1>1. RoomInv => RoomTypeOK
  BY DEF RoomInv
<1>2. QED BY RoomInvariant, <1>1, PTL

\* Two beginnings of the same file: one begins the other.
LEMMA BeginningsAgree ==
    ASSUME NEW T, NEW s \in Seq(T), NEW t \in Seq(T), NEW f \in Seq(T),
           Begins(s, f), Begins(t, f)
    PROVE  IsPrefix(s, t) \/ IsPrefix(t, s)
<1>1. /\ Len(s) \in Nat /\ Len(t) \in Nat
      /\ \A k \in 1 .. Len(s) : s[k] = f[k]
      /\ \A k \in 1 .. Len(t) : t[k] = f[k]
  BY DEF Begins
<1>2. CASE Len(s) <= Len(t)
  <2>1. SubSeq(s, 1, Len(s)) = SubSeq(t, 1, Len(s))
    BY <1>1, <1>2
  <2>2. QED BY <1>2, <2>1 DEF IsPrefix
<1>3. CASE Len(t) <= Len(s)
  <2>1. SubSeq(t, 1, Len(t)) = SubSeq(s, 1, Len(t))
    BY <1>1, <1>3
  <2>2. QED BY <1>3, <2>1 DEF IsPrefix
<1>4. QED BY <1>1, <1>2, <1>3

\* A sequence that another begins with is a prefix of it.
LEMMA BeginsIsPrefix ==
    ASSUME NEW T, NEW s \in Seq(T), NEW t \in Seq(T), Begins(s, t)
    PROVE  IsPrefix(s, t)
<1>1. SubSeq(s, 1, Len(s)) = SubSeq(t, 1, Len(s))
  BY DEF Begins
<1>2. QED BY <1>1 DEF Begins, IsPrefix

\* A live view has every number once and in order, and unless another run was
\* registered under it, it shows its run: for any number of breaks, restarts and
\* registrations.
THEOREM LiveViewCorrect == Spec => []LiveViewIsRun
<1>1. RoomInv => LiveViewIsRun
  <2> SUFFICES ASSUME RoomInv PROVE LiveViewIsRun
    OBVIOUS
  <2>1. /\ live \in Seq(RecordedEvent) /\ events \in Seq(RecordedEvent)
        /\ wire \in Seq(RecordedEvent)
    BY DEF RoomInv, RoomTypeOK
  <2>2. \A k \in DOMAIN live : live[k].seq = k - 1
    BY <2>1 DEF RoomInv, ViewInv, Recording
  <2>3. ASSUME mode = "live", ~mixed, run # NoRun
        PROVE  IsPrefix(live, events)
    BY <2>1, <2>3, BeginsIsPrefix DEF RoomInv, OwnRunInv
  <2>4. ASSUME mode = "live", ~mixed, run # NoRun, stream = "open"
        PROVE  \E n \in 0 .. Len(live) : wire = SubSeq(events, n + 1, Len(events))
    <3>1. PICK n \in 0 .. Len(live) :
              /\ n + Len(wire) = Len(events)
              /\ \A k \in 1 .. Len(wire) : wire[k] = events[n + k]
      BY <2>4 DEF RoomInv, OwnRunInv
    <3>2. wire = SubSeq(events, n + 1, Len(events))
      BY <2>1, <3>1
    <3>3. QED BY <3>2
  <2>5. QED BY <2>2, <2>3, <2>4 DEF LiveViewIsRun
<1>2. QED BY RoomInvariant, <1>1, PTL

\* A manifest never mixes two recordings, although files do.
THEOREM ManifestCorrect == Spec => []ManifestIsOneRecording
<1>1. RoomInv => ManifestIsOneRecording
  <2> SUFFICES ASSUME RoomInv, NEW r \in Runs, manifest[r] # NoManifest,
                      NEW k \in DOMAIN manifest[r]
               PROVE  manifest[r][k].seq = k - 1
    BY DEF ManifestIsOneRecording
  <2>1. manifest[r] \in Seq(RecordedEvent) /\ Recording(manifest[r])
    BY DEF RoomInv, RoomTypeOK, ManifestInv
  <2>2. QED BY <2>1 DEF Recording
<1>2. QED BY RoomInvariant, <1>1, PTL

\* The recorded run is what was shown live, and what is replayed is what was
\* recorded.
THEOREM ReplayCorrect == Spec => []ReplayTellsTheSame
<1>1. RoomInv => ReplayTellsTheSame
  <2> SUFFICES ASSUME RoomInv, NEW r \in Runs, registrations[r] = 1, relay = r,
                      manifest[r] # NoManifest
               PROVE  /\ mode = "live" /\ ~mixed =>
                            IsPrefix(live, manifest[r]) \/ IsPrefix(manifest[r], live)
                      /\ replay # NoReplay => manifest[r] = replay.of
    BY DEF ReplayTellsTheSame
  <2>1. /\ live \in Seq(RecordedEvent) /\ manifest[r] \in Seq(RecordedEvent)
        /\ file[r] \in Seq(RecordedEvent) /\ r # NoRun
    BY RoomAssumption DEF RoomInv, RoomTypeOK
  <2>2. Begins(manifest[r], file[r])
    BY DEF RoomInv, ManifestInv
  <2>3. ASSUME mode = "live", ~mixed
        PROVE  Begins(live, file[r])
    BY <2>1, <2>3 DEF RoomInv, OwnRunInv
  <2>4. QED BY <2>1, <2>2, <2>3, BeginningsAgree DEF RoomInv, ReplayInv
<1>2. QED BY RoomInvariant, <1>1, PTL

\* The finality a view shows never falls back, whatever it is shown and in
\* whichever order.
THEOREM FinalityCorrect == Spec => []FinalityNeverFallsBack
<1>1. RoomInv => FinalityNeverFallsBack
  BY FinalityStands DEF RoomInv, ViewInv
<1>2. QED BY RoomInvariant, <1>1, PTL

=============================================================================

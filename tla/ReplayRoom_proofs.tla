-------------------------- MODULE ReplayRoom_proofs --------------------------
(***************************************************************************)
(* Proofs about the replay, for any recordings that validateManifest lets  *)
(* through, any live run and any number of clicks.                         *)
(*                                                                         *)
(* Two facts carry them: wherever the audience clicks, the panels show the *)
(* fold of the events that are visible; and after every event the fold is  *)
(* a function of which events there were, but for the steps that a failing *)
(* stage marks.                                                            *)
(***************************************************************************)
EXTENDS ReplayRoom, TLAPS, FiniteSetTheorems, WellFoundedInduction

\* Every variable holds a value of its type.
PlayerTypeOK ==
    /\ manifest \in Recordings \union {NoManifest} /\ fetched \in BOOLEAN
    /\ mode \in {"replay", "inspect", "live"}
    /\ cursor \in Int /\ playing \in BOOLEAN /\ boundaryPause \in BOOLEAN
    /\ liveEvents \in Seq(ToSet(LiveRun)) /\ clicks \in 0 .. MaxClicks

\* The cursor is on an event of the recording, or before the first.
CursorInv ==
    /\ ~fetched => manifest = NoManifest
    /\ cursor \in -1 .. Len(Recorded) - 1

\* The live events are the run's first ones.
LiveInv ==
    /\ Len(liveEvents) <= Len(LiveRun)
    /\ \A k \in 1 .. Len(liveEvents) : liveEvents[k] = LiveRun[k]

\* Under a note the replay stands still on the boundary it names, in any mode.
NoteInv ==
    boundaryNote # "none" =>
        /\ manifest # NoManifest /\ ~playing
        /\ cursor \in 0 .. Len(manifest.events) - 1
        /\ manifest.events[cursor + 1].event.type = boundaryNote
        /\ boundaryNote \in VerificationBoundaries

PlayerInv == PlayerTypeOK /\ CursorInv /\ LiveInv /\ NoteInv

-----------------------------------------------------------------------------
\* The player.

\* A recording is a sequence with an event in it.
LEMMA RecordedFacts ==
    ASSUME PlayerTypeOK
    PROVE  /\ Recorded \in Seq(ToSet(Recorded)) /\ Len(Recorded) \in Nat
           /\ DOMAIN Recorded = 1 .. Len(Recorded)
           /\ manifest # NoManifest => Recorded = manifest.events /\ Len(Recorded) > 0
           /\ manifest = NoManifest => Len(Recorded) = 0
<1>1. CASE manifest = NoManifest
  <2>1. Recorded = <<>>
    BY <1>1 DEF Recorded
  <2>2. QED BY <1>1, <2>1
<1>2. CASE manifest # NoManifest
  <2>1. Recorded = manifest.events /\ manifest \in Recordings
    BY <1>2 DEF Recorded, PlayerTypeOK
  <2>2. Recorded \in Seq(ToSet(Recorded)) /\ Recorded # <<>>
    BY <2>1, ReplayAssumption
  <2>3. QED BY <1>2, <2>1, <2>2
<1>3. QED BY <1>1, <1>2

\* The larger and the smaller of two numbers.
LEMMA OfTwo ==
    ASSUME NEW a \in Int, NEW b \in Int
    PROVE  /\ Max({a, b}) = IF a >= b THEN a ELSE b
           /\ Min({a, b}) = IF a <= b THEN a ELSE b
  BY DEF Max, Min

\* The player starts in order.
LEMMA PlayerStarts == Init => PlayerInv
<1> SUFFICES ASSUME Init PROVE PlayerInv
  OBVIOUS
<1>1. <<>> \in Seq(ToSet(LiveRun)) /\ Len(<<>>) = 0 /\ Len(LiveRun) \in Nat
  BY ReplayAssumption
<1>2. PlayerTypeOK
  <2>1. liveEvents \in Seq(ToSet(LiveRun))
    BY <1>1 DEF Init
  <2>2. clicks \in 0 .. MaxClicks
    BY ReplayAssumption DEF Init
  <2>3. /\ manifest \in Recordings \union {NoManifest} /\ fetched \in BOOLEAN
        /\ playing \in BOOLEAN /\ boundaryPause \in BOOLEAN
    BY DEF Init
  <2>4. mode \in {"replay", "inspect", "live"} /\ cursor \in Int
    BY DEF Init
  <2>5. QED BY <2>1, <2>2, <2>3, <2>4 DEF PlayerTypeOK
<1>3. Recorded = <<>>
  BY DEF Init, Recorded
<1>4. QED BY <1>1, <1>2, <1>3 DEF Init, PlayerInv, CursorInv, LiveInv, NoteInv

\* Whatever the audience clicks, the timer does or the stream brings, a note stays
\* true and the cursor stays on the recording.
LEMMA PlayerSteps == PlayerInv /\ [Next]_vars => PlayerInv'
<1> SUFFICES ASSUME PlayerInv, [Next]_vars PROVE PlayerInv'
  OBVIOUS
<1> USE DEF PlayerInv
<1>a. /\ Recorded \in Seq(ToSet(Recorded)) /\ Len(Recorded) \in Nat
      /\ manifest # NoManifest => Recorded = manifest.events /\ Len(Recorded) > 0
      /\ manifest = NoManifest => Len(Recorded) = 0
  BY RecordedFacts
<1>b. LiveRun \in Seq(ToSet(LiveRun)) /\ Len(LiveRun) \in Nat /\ MaxClicks \in Nat
  BY ReplayAssumption
<1>1. CASE UNCHANGED vars
  BY <1>1 DEF vars, PlayerTypeOK, CursorInv, LiveInv, NoteInv, Recorded
<1>2. CASE Load
  <2>1. manifest = NoManifest /\ cursor = -1
    BY <1>2, <1>a DEF Load, CursorInv
  <2>2. PlayerTypeOK'
    BY <1>2 DEF Load, PlayerTypeOK
  <2>3. Len(Recorded') \in Nat
    <3>1. CASE manifest' = NoManifest
      BY <3>1 DEF Recorded
    <3>2. CASE manifest' # NoManifest
      BY <1>2, <3>2, ReplayAssumption DEF Recorded, Load
    <3>3. QED BY <3>1, <3>2
  <2>4. CursorInv'
    BY <1>2, <2>1, <2>3 DEF Load, CursorInv
  <2>5. boundaryNote' = "none"
    BY <1>2, <2>1 DEF Load, NoteInv
  <2>6. QED BY <1>2, <2>2, <2>4, <2>5 DEF Load, LiveInv, NoteInv
<1>3. CASE Tick
  <2>1. /\ playing /\ manifest # NoManifest /\ cursor \in -1 .. Len(Recorded) - 2
        /\ boundaryNote = "none"
    BY <1>3, <1>a DEF Tick, AtEnd, CursorInv, NoteInv, PlayerTypeOK
  <2>2. cursor' = cursor + 1 /\ UNCHANGED <<manifest, fetched, mode, boundaryPause, liveEvents, clicks>>
    BY <1>3 DEF Tick
  <2>3. /\ playing' \in BOOLEAN
        /\ \/ /\ ~playing' /\ boundaryNote' = Recorded[cursor + 2].event.type
              /\ boundaryNote' \in VerificationBoundaries
           \/ boundaryNote' = "none"
    BY <1>3, <2>1 DEF Tick, Scheduled, PlayerTypeOK
  <2>4. Recorded' = Recorded
    BY <2>2 DEF Recorded
  <2>5. PlayerTypeOK' /\ CursorInv' /\ LiveInv'
    BY <2>1, <2>2, <2>3, <2>4, <1>a DEF PlayerTypeOK, CursorInv, LiveInv
  <2>6. cursor' \in 0 .. Len(Recorded) - 1 /\ cursor' + 1 = cursor + 2
    BY <2>1, <2>2, <1>a
  <2>7. NoteInv'
    BY <2>1, <2>2, <2>3, <2>6, <1>a DEF NoteInv
  <2>8. QED BY <2>5, <2>7
<1>4. CASE Receive
  <2>1. /\ Len(liveEvents) \in Nat /\ Len(liveEvents) < Len(LiveRun)
        /\ liveEvents' = Append(liveEvents, LiveRun[Len(liveEvents) + 1])
        /\ UNCHANGED <<manifest, fetched, mode, cursor, playing, boundaryPause,
                       boundaryNote, clicks>>
    BY <1>4 DEF Receive, PlayerTypeOK
  <2>2. LiveRun[Len(liveEvents) + 1] \in ToSet(LiveRun)
    BY <2>1, <1>b DEF ToSet
  <2>3. /\ liveEvents' \in Seq(ToSet(LiveRun)) /\ Len(liveEvents') = Len(liveEvents) + 1
        /\ \A k \in 1 .. Len(liveEvents) : liveEvents'[k] = liveEvents[k]
        /\ liveEvents'[Len(liveEvents) + 1] = LiveRun[Len(liveEvents) + 1]
    BY <2>1, <2>2 DEF PlayerTypeOK
  <2>4. LiveInv'
    BY <2>1, <2>3, <1>b DEF LiveInv
  <2>5. QED BY <2>1, <2>3, <2>4 DEF PlayerTypeOK, CursorInv, NoteInv, Recorded
<1>5. CASE Transport
  <2>1. /\ manifest # NoManifest /\ clicks' \in 0 .. MaxClicks
        /\ UNCHANGED <<manifest, fetched>> /\ Recorded' = Recorded
    BY <1>5, <1>b DEF Transport, Click, Recorded, PlayerTypeOK
  <2>2. ASSUME /\ UNCHANGED <<mode, boundaryPause, liveEvents>>
               /\ boundaryNote' = "none" /\ playing' \in BOOLEAN
               /\ cursor' \in -1 .. Len(Recorded) - 1
        PROVE  PlayerInv'
    BY <2>1, <2>2, <1>a DEF PlayerTypeOK, CursorInv, LiveInv, NoteInv
  <2>3. ASSUME /\ UNCHANGED <<cursor, boundaryNote>>
               /\ mode' \in {"replay", "inspect", "live"} /\ boundaryPause' \in BOOLEAN
               /\ playing' \in BOOLEAN /\ (playing' => playing)
               /\ liveEvents' = liveEvents \/ liveEvents' = <<>>
        PROVE  PlayerInv'
    <3>1. liveEvents' \in Seq(ToSet(LiveRun))
      <4>1. <<>> \in Seq(ToSet(LiveRun))
        OBVIOUS
      <4>2. QED BY <2>3, <4>1 DEF PlayerTypeOK
    <3>2. LiveInv'
      <4>1. CASE liveEvents' = liveEvents
        BY <4>1 DEF LiveInv
      <4>2. CASE liveEvents' = <<>>
        BY <4>2, <1>b DEF LiveInv
      <4>3. QED BY <2>3, <4>1, <4>2
    <3>3. QED BY <2>1, <2>3, <3>1, <3>2 DEF PlayerTypeOK, CursorInv, NoteInv
  <2>4. CASE Play
    <3>1. cursor' \in -1 .. Len(Recorded) - 1
      BY <2>4, <1>a DEF Play, CursorInv
    <3>2. QED BY <2>2, <2>4, <3>1 DEF Play, Scheduled, PlayerTypeOK
  <2>5. CASE Pause
    BY <2>3, <2>5 DEF Pause, PlayerTypeOK
  <2>6. CASE Restart
    BY <2>2, <2>6, <1>a DEF Restart
  <2>7. ASSUME mode # "live", NEW i \in -1 .. Len(AllEvents) - 1, ScrubTo(i)
        PROVE  PlayerInv'
    <3>1. AllEvents = Recorded
      BY <2>7 DEF AllEvents
    <3>2. /\ i \in Int /\ -1 \in Int /\ Len(Recorded) - 1 \in Int
          /\ i >= -1 /\ i <= Len(Recorded) - 1
      BY <2>7, <3>1, <1>a
    <3>3. Min({i, Len(AllEvents) - 1}) = i
      BY <3>1, <3>2, OfTwo
    <3>4. Max({-1, i}) = i
      BY <3>2, OfTwo
    <3>5. cursor' = i
      BY <2>7, <3>3, <3>4 DEF ScrubTo
    <3>6. cursor' \in -1 .. Len(Recorded) - 1
      BY <3>2, <3>5
    <3>7. /\ UNCHANGED <<mode, boundaryPause, liveEvents>>
          /\ boundaryNote' = "none" /\ playing' \in BOOLEAN
      BY <2>7 DEF ScrubTo
    <3>8. QED BY <2>2, <3>6, <3>7
  <2>8. ASSUME NEW m \in {"replay", "inspect", "live"}, SetMode(m)
        PROVE  PlayerInv'
    BY <2>3, <2>8 DEF SetMode, Scheduled, PlayerTypeOK
  <2>9. CASE SetBoundaryPause
    BY <2>3, <2>9 DEF SetBoundaryPause, PlayerTypeOK
  <2>10. QED BY <1>5, <2>4, <2>5, <2>6, <2>7, <2>8, <2>9 DEF Transport
<1>6. QED BY <1>1, <1>2, <1>3, <1>4, <1>5 DEF Next

\* The player's invariant, for any recordings and any number of clicks.
THEOREM PlayerInvariant == Spec => []PlayerInv
<1>1. QED BY PlayerStarts, PlayerSteps, PTL DEF Spec

\* Every variable of the control room's player keeps its type, and the cursor is on
\* an event of the recording or before its first.
THEOREM PlayerTypeCorrect == Spec => [](PlayerTypeOK /\ CursorInv)
<1>1. PlayerInv => PlayerTypeOK /\ CursorInv
  BY DEF PlayerInv
<1>2. QED BY <1>1, PlayerInvariant, PTL

-----------------------------------------------------------------------------
\* What is visible.

\* A beginning of a sequence.
LEMMA Beginning ==
    ASSUME NEW T, NEW evs \in Seq(T), NEW n \in 0 .. Len(evs)
    PROVE  /\ Len(SubSeq(evs, 1, n)) = n /\ DOMAIN SubSeq(evs, 1, n) = 1 .. n
           /\ \A k \in 1 .. n : SubSeq(evs, 1, n)[k] = evs[k]
  OBVIOUS

\* The panels have the first events of what the mode looks at.
LEMMA VisibleIs ==
    ASSUME PlayerInv
    PROVE  /\ AllEvents \in Seq(ToSet(AllEvents)) /\ Len(AllEvents) \in Nat
           /\ EffectiveCursor + 1 \in 0 .. Len(AllEvents)
           /\ Len(Visible) = EffectiveCursor + 1 /\ DOMAIN Visible = 1 .. EffectiveCursor + 1
           /\ \A k \in 1 .. EffectiveCursor + 1 : Visible[k] = AllEvents[k]
<1>1. /\ AllEvents \in Seq(ToSet(AllEvents)) /\ Len(AllEvents) \in Nat
      /\ EffectiveCursor + 1 \in 0 .. Len(AllEvents)
  <2>1. CASE mode = "live"
    <3>1. liveEvents \in Seq(ToSet(LiveRun)) /\ Len(liveEvents) \in Nat
      BY DEF PlayerInv, PlayerTypeOK
    <3>2. liveEvents \in Seq(ToSet(liveEvents))
      BY <3>1 DEF ToSet
    <3>3. QED BY <2>1, <3>1, <3>2 DEF AllEvents, EffectiveCursor
  <2>2. CASE mode # "live"
    <3>1. Recorded \in Seq(ToSet(Recorded)) /\ Len(Recorded) \in Nat
      BY RecordedFacts DEF PlayerInv
    <3>2. cursor + 1 \in 0 .. Len(Recorded)
      BY <3>1 DEF PlayerInv, CursorInv
    <3>3. QED BY <2>2, <3>1, <3>2 DEF AllEvents, EffectiveCursor
  <2>3. QED BY <2>1, <2>2
<1>2. QED BY <1>1, Beginning DEF Visible

\* The largest of a set that has a largest.
LEMMA MaxIs ==
    ASSUME NEW S \in SUBSET Int, NEW m \in S, \A n \in S : n <= m
    PROVE  Max(S) = m
<1>1. \E x \in S : \A y \in S : x >= y
  <2>1. \A y \in S : m >= y
    OBVIOUS
  <2>2. QED BY <2>1
<1>2. Max(S) \in S /\ \A y \in S : Max(S) >= y
  BY <1>1 DEF Max
<1>3. Max(S) \in Int /\ m \in Int /\ Max(S) >= m /\ Max(S) <= m
  BY <1>2
<1>4. QED BY <1>3

\* A note names the event the caption is about.
LEMMA NoteExplains == PlayerInv => NoteTellsWhy
<1> SUFFICES ASSUME PlayerInv, boundaryNote # "none", mode # "live"
             PROVE  ~playing /\ Caption = boundaryNote
  BY DEF NoteTellsWhy
<1>1. /\ manifest # NoManifest /\ ~playing
      /\ cursor \in 0 .. Len(manifest.events) - 1
      /\ manifest.events[cursor + 1].event.type = boundaryNote
      /\ boundaryNote # "HEARTBEAT"
  BY DEF PlayerInv, NoteInv, VerificationBoundaries
<1>2. AllEvents = manifest.events /\ EffectiveCursor = cursor
  BY <1>1 DEF AllEvents, EffectiveCursor, Recorded
<1>3. cursor + 1 \in Nat /\ cursor + 1 \in 1 .. cursor + 1
  BY <1>1
<1>4. DOMAIN Visible = 1 .. cursor + 1 /\ Visible[cursor + 1].event.type = boundaryNote
  BY <1>1, <1>2, <1>3, VisibleIs
<1>5. cursor + 1 \in Chain /\ Chain \in SUBSET Int /\ \A n \in Chain : n <= cursor + 1
  BY <1>1, <1>3, <1>4 DEF Chain
<1>6. Max(Chain) = cursor + 1
  BY <1>5, MaxIs
<1>7. QED BY <1>1, <1>4, <1>5, <1>6 DEF Caption

\* A boundary note tells why the replay stands still: whatever is clicked, the replay
\* does not go on under a note, nor stand elsewhere.
THEOREM NoteCorrect == Spec => []NoteTellsWhy
<1>1. QED BY NoteExplains, PlayerInvariant, PTL

-----------------------------------------------------------------------------
\* Induction over the natural numbers, as a fact about sets.
LEMMA Induction ==
    ASSUME NEW S, 0 \in S, \A n \in Nat : n \in S => n + 1 \in S
    PROVE  Nat \subseteq S
<1> SUFFICES ASSUME Nat \ S # {} PROVE FALSE
  OBVIOUS
<1> DEFINE R == {ss \in Nat \X Nat : ss[1] < ss[2]}
<1>1. IsWellFoundedOn(R, Nat)
  BY NatLessThanWellFounded DEF OpToRel
<1> HIDE DEF R
<1>2. PICK n \in Nat \ S : \A m \in Nat \ S : ~ (<<m, n>> \in R)
  BY <1>1, WFMin
<1>3. n # 0 /\ n - 1 \in Nat /\ n = (n - 1) + 1
  BY <1>2
<1>4. <<n - 1, n>> \in R
  BY <1>2, <1>3 DEF R
<1>5. QED BY <1>2, <1>3, <1>4

\* The states of a fold, up to a number of events, exist.
LEMMA StatesExist ==
    ASSUME NEW evs, Len(evs) \in Nat
    PROVE  States(evs) =
             [n \in 0 .. Len(evs) |->
                 IF n = 0 THEN InitialState ELSE ApplyEvent(States(evs)[n - 1], evs[n])]
<1> DEFINE Ok(g, m) ==
             g = [n \in 0 .. m |->
                     IF n = 0 THEN InitialState ELSE ApplyEvent(g[n - 1], evs[n])]
           S == {m \in Nat : \E g : Ok(g, m)}
<1>1. 0 \in S
  <2>1. Ok([n \in 0 .. 0 |-> InitialState], 0)
    OBVIOUS
  <2>2. QED BY <2>1
<1>2. ASSUME NEW m \in Nat, m \in S
      PROVE  m + 1 \in S
  <2>1. PICK g : Ok(g, m)
    BY <1>2
  <2> DEFINE h == [n \in 0 .. m + 1 |->
                     IF n = m + 1 THEN ApplyEvent(g[m], evs[n]) ELSE g[n]]
  <2>2. ASSUME NEW n \in 0 .. m + 1
        PROVE  h[n] = IF n = 0 THEN InitialState ELSE ApplyEvent(h[n - 1], evs[n])
    <3>1. CASE n = m + 1
      <4>1. n # 0 /\ n - 1 = m /\ h[m] = g[m]
        BY <3>1
      <4>2. QED BY <3>1, <4>1
    <3>2. CASE n = 0
      BY <2>1, <3>2
    <3>3. CASE n \in 1 .. m
      <4>1. h[n] = g[n] /\ h[n - 1] = g[n - 1]
        BY <3>3
      <4>2. g[n] = ApplyEvent(g[n - 1], evs[n])
        BY <2>1, <3>3
      <4>3. QED BY <3>3, <4>1, <4>2
    <3>4. QED BY <3>1, <3>2, <3>3
  <2>3. Ok(h, m + 1)
    BY <2>2
  <2>4. \E gg : Ok(gg, m + 1)
    <3> HIDE DEF h, Ok
    <3>1. QED BY <2>3
  <2>5. QED BY <2>4
<1>3. Len(evs) \in S
  <2> HIDE DEF S
  <2>1. QED BY <1>1, <1>2, Induction
<1>4. \E g : Ok(g, Len(evs))
  BY <1>3
<1>5. Ok(CHOOSE g : Ok(g, Len(evs)), Len(evs))
  BY <1>4
<1>6. States(evs) = CHOOSE g : Ok(g, Len(evs))
  BY DEF States
<1>7. QED BY <1>5, <1>6

\* One event more, one application more.
LEMMA StatesStep ==
    ASSUME NEW evs, Len(evs) \in Nat
    PROVE  /\ States(evs)[0] = InitialState
           /\ \A n \in 1 .. Len(evs) :
                 States(evs)[n] = ApplyEvent(States(evs)[n - 1], evs[n])
<1> DEFINE st == States(evs)
<1>1. st = [n \in 0 .. Len(evs) |->
               IF n = 0 THEN InitialState ELSE ApplyEvent(st[n - 1], evs[n])]
  BY StatesExist
<1> HIDE DEF st
<1>2. QED BY <1>1 DEF st

\* What validateManifest asks of the numbers.
Ordered(evs) ==
    /\ \A k \in 1 .. Len(evs) : evs[k].seq \in Nat
    /\ \A k \in 2 .. Len(evs) : evs[k].seq > evs[k - 1].seq

\* Later events have higher numbers.
LEMMA Increasing ==
    ASSUME NEW evs, Len(evs) \in Nat, Ordered(evs)
    PROVE  \A j \in 1 .. Len(evs) : \A i \in 1 .. j - 1 : evs[i].seq < evs[j].seq
<1> DEFINE S == {j \in Nat : j \in 1 .. Len(evs) => \A i \in 1 .. j - 1 : evs[i].seq < evs[j].seq}
<1>1. 0 \in S
  OBVIOUS
<1>2. ASSUME NEW j \in Nat, j \in S
      PROVE  j + 1 \in S
  <2> SUFFICES ASSUME j + 1 \in 1 .. Len(evs), NEW i \in 1 .. j
               PROVE  evs[i].seq < evs[j + 1].seq
    OBVIOUS
  <2>1. j \in 1 .. Len(evs) /\ j + 1 \in 2 .. Len(evs) /\ (j + 1) - 1 = j
    OBVIOUS
  <2>2. evs[j].seq < evs[j + 1].seq /\ evs[j].seq \in Nat /\ evs[j + 1].seq \in Nat
    BY <2>1 DEF Ordered
  <2>3. CASE i = j
    BY <2>2, <2>3
  <2>4. CASE i # j
    <3>1. i \in 1 .. j - 1 /\ i \in 1 .. Len(evs)
      BY <2>1, <2>4
    <3>2. evs[i].seq < evs[j].seq /\ evs[i].seq \in Nat
      BY <1>2, <2>1, <3>1 DEF Ordered
    <3>3. QED BY <2>2, <3>2
  <2>5. QED BY <2>3, <2>4
<1> HIDE DEF S
<1>3. Nat \subseteq S
  BY <1>1, <1>2, Induction
<1>4. QED BY <1>3 DEF S

\* Replaying up to an event's number stops right after it; up to -1, before the first.
LEMMA ReplayStops ==
    ASSUME NEW T, NEW evs \in Seq(T), NEW n \in 0 .. Len(evs), Ordered(evs)
    PROVE  ReplayTo(evs, IF n >= 1 THEN evs[n].seq ELSE -1) = States(evs)[n]
<1> DEFINE at == IF n >= 1 THEN evs[n].seq ELSE -1
           beyond == {k \in DOMAIN evs : evs[k].seq > at}
<1>1. Len(evs) \in Nat /\ DOMAIN evs = 1 .. Len(evs)
  OBVIOUS
<1>2. \A j \in 1 .. Len(evs) : \A i \in 1 .. j - 1 : evs[i].seq < evs[j].seq
  BY <1>1, Increasing
<1>3. ASSUME NEW k \in 1 .. Len(evs)
      PROVE  evs[k].seq > at <=> k > n
  <2>0. evs[k].seq \in Nat /\ n \in Nat
    BY <1>1 DEF Ordered
  <2>1. CASE n = 0
    <3>1. at = -1 /\ k > n
      BY <2>1
    <3>2. QED BY <2>0, <3>1
  <2>2. CASE n >= 1 /\ k < n
    <3>1. n \in 1 .. Len(evs) /\ k \in 1 .. n - 1
      BY <2>2
    <3>2. evs[k].seq < evs[n].seq /\ evs[k].seq \in Nat /\ evs[n].seq \in Nat
      BY <1>2, <3>1 DEF Ordered
    <3>3. QED BY <2>2, <3>2
  <2>3. CASE n >= 1 /\ k = n
    <3>1. at = evs[k].seq
      BY <2>3
    <3>2. QED BY <2>0, <2>3, <3>1
  <2>4. CASE n >= 1 /\ k > n
    <3>1. n \in 1 .. Len(evs) /\ n \in 1 .. k - 1
      BY <2>4
    <3>2. evs[n].seq < evs[k].seq /\ evs[k].seq \in Nat /\ evs[n].seq \in Nat
      BY <1>2, <3>1 DEF Ordered
    <3>3. QED BY <2>4, <3>2
  <2>5. QED BY <2>0, <2>1, <2>2, <2>3, <2>4
<1>4. beyond = n + 1 .. Len(evs)
  BY <1>1, <1>3
<1> HIDE DEF at
<1>5. CASE n = Len(evs)
  <2>1. beyond = {}
    BY <1>1, <1>4, <1>5
  <2>2. QED BY <1>5, <2>1 DEF ReplayTo, at
<1>6. CASE n < Len(evs)
  <2>1. beyond # {} /\ Min(beyond) = n + 1
    BY <1>1, <1>4, <1>6 DEF Min
  <2>2. Min(beyond) - 1 = n
    BY <2>1
  <2>3. QED BY <2>1, <2>2 DEF ReplayTo, at
<1>7. n = Len(evs) \/ n < Len(evs)
  <2>1. Len(evs) \in Nat
    OBVIOUS
  <2>2. QED BY <2>1
<1>8. QED BY <1>5, <1>6, <1>7

\* The panels show the fold of the visible events.
LEMMA StateIs ==
    ASSUME PlayerInv
    PROVE  State = States(AllEvents)[EffectiveCursor + 1]
<1> DEFINE n == EffectiveCursor + 1
<1>1. /\ AllEvents \in Seq(ToSet(AllEvents)) /\ Len(AllEvents) \in Nat
      /\ n \in 0 .. Len(AllEvents)
  BY VisibleIs
<1>2. Ordered(AllEvents)
  <2>1. CASE mode = "live"
    <3>1. AllEvents = liveEvents /\ Len(liveEvents) \in Nat /\ Len(LiveRun) \in Nat
      BY <1>1, <2>1, ReplayAssumption DEF AllEvents
    <3>2. \A k \in 1 .. Len(liveEvents) : liveEvents[k].seq = k - 1
      BY <3>1, ReplayAssumption DEF PlayerInv, LiveInv
    <3>3. QED BY <3>1, <3>2 DEF Ordered
  <2>2. CASE mode # "live"
    <3>1. AllEvents = Recorded /\ PlayerTypeOK
      BY <2>2 DEF AllEvents, PlayerInv
    <3>2. CASE manifest = NoManifest
      BY <3>1, <3>2, RecordedFacts DEF Ordered
    <3>3. CASE manifest # NoManifest
      <4>1. manifest \in Recordings /\ AllEvents = manifest.events
        BY <3>1, <3>3 DEF PlayerTypeOK, Recorded
      <4>2. QED BY <1>1, <4>1, ReplayAssumption DEF Ordered
    <3>4. QED BY <3>2, <3>3
  <2>3. QED BY <2>1, <2>2
<1>3. EffectiveCursor \in Int /\ (EffectiveCursor >= 0 <=> n >= 1)
  <2>1. EffectiveCursor \in Int
    BY <1>1 DEF PlayerInv, PlayerTypeOK, EffectiveCursor, AllEvents
  <2>2. QED BY <2>1
<1>4. State = ReplayTo(AllEvents, IF n >= 1 THEN AllEvents[n].seq ELSE -1)
  BY <1>3 DEF State
<1> HIDE DEF n
<1>5. State = States(AllEvents)[n]
  BY <1>1, <1>2, <1>4, ReplayStops
<1>6. QED BY <1>5 DEF n

-----------------------------------------------------------------------------
\* What the fold tells.

\* The types of the first n events, and the providers they bring answers of.
Seen(evs, n) == {evs[k].event.type : k \in 1 .. n}

HeardBy(evs, n) ==
    {evs[k].event.provider : k \in {j \in 1 .. n : evs[j].event.type = "LEVEL3_RPC_RESULT"}}

\* An event completed step i or a later one.
Reached(evs, n) ==
    {i \in Int : \E type \in Seen(evs, n) \intersect DOMAIN Completes : Completes[type] >= i}

StepStates == {"pending", "active", "done", "failed"}

\* A step is done, or the next one active, for an event.
Backed(steps, R) ==
    /\ steps \in [1 .. 6 -> StepStates]
    /\ \A i \in 1 .. 6 : /\ steps[i] = "done" => i \in R
                         /\ steps[i] = "active" => i = 1 \/ i - 1 \in R

\* What state s, after n events, says of them.
Tells(s, evs, n) ==
    /\ \A type \in DOMAIN Sets : Sets[type] \in s.known <=> type \in Seen(evs, n)
    /\ s.finality = "DualFinalized" <=> "DUAL_FINALITY_REACHED" \in Seen(evs, n)
    /\ DOMAIN s.rpcResults = HeardBy(evs, n)
    /\ IF "VAA_READY" \in Seen(evs, n)
       THEN \E k \in 1 .. n : /\ evs[k].event.type = "VAA_READY"
                              /\ s.signatures = evs[k].event.signatures
       ELSE s.signatures = {}
    /\ Backed(s.steps, Reached(evs, n))

\* A set of numbers has a least one.
LEMMA MinIs ==
    ASSUME NEW S \in SUBSET Nat, S # {}
    PROVE  Min(S) \in S /\ \A n \in S : Min(S) <= n
<1> DEFINE R == {ss \in Nat \X Nat : ss[1] < ss[2]}
<1>1. IsWellFoundedOn(R, Nat)
  BY NatLessThanWellFounded DEF OpToRel
<1> HIDE DEF R
<1>2. PICK m \in S : \A n \in S : ~ (<<n, m>> \in R)
  BY <1>1, WFMin
<1>3. \A n \in S : m <= n
  <2> SUFFICES ASSUME NEW n \in S PROVE m <= n
    OBVIOUS
  <2>1. ~ (n < m)
    BY <1>2 DEF R
  <2>2. QED BY <2>1
<1>4. QED BY <1>2, <1>3 DEF Min

\* Setting a step keeps the steps backed, if what is set and what comes before is.
LEMMA SetStepBacked ==
    ASSUME NEW R \in SUBSET Int, \A i \in R : \A j \in Int : j <= i => j \in R,
           NEW steps, Backed(steps, R), NEW id \in 1 .. 6, NEW state \in StepStates,
           id = 1 \/ id - 1 \in R, state = "done" => id \in R
    PROVE  Backed(SetStep(steps, id, state), R)
<1> DEFINE new == SetStep(steps, id, state)
<1>1. \A i \in 1 .. 6 : steps[i] \in StepStates
  BY DEF Backed
<1>2. new = [i \in 1 .. 6 |->
                IF i = id THEN state
                ELSE IF i < id /\ steps[i] # "failed" THEN "done" ELSE steps[i]]
  BY DEF SetStep
<1> HIDE DEF new
<1>3. new \in [1 .. 6 -> StepStates]
  BY <1>1, <1>2 DEF StepStates
<1>4. ASSUME NEW i \in 1 .. 6
      PROVE  /\ new[i] = "done" => i \in R
             /\ new[i] = "active" => i = 1 \/ i - 1 \in R
  <2>1. CASE i = id
    BY <1>2, <2>1
  <2>2. CASE i < id
    <3>1. i \in R
      BY <2>2
    <3>2. new[i] = "done" \/ new[i] = "failed"
      BY <1>2, <2>2
    <3>3. QED BY <3>1, <3>2
  <2>3. CASE i > id
    <3>1. new[i] = steps[i]
      BY <1>2, <2>3
    <3>2. QED BY <3>1 DEF Backed
  <2>4. QED BY <2>1, <2>2, <2>3
<1>5. QED BY <1>3, <1>4 DEF Backed, new

\* Completing a step and failing the active one keep the steps backed.
LEMMA StepsBacked ==
    ASSUME NEW R \in SUBSET Int, \A i \in R : \A j \in Int : j <= i => j \in R,
           NEW steps, Backed(steps, R)
    PROVE  /\ \A id \in 1 .. 6 : id \in R => Backed(CompleteStep(steps, id), R)
           /\ Backed(FailStep(steps), R)
<1>1. ASSUME NEW id \in 1 .. 6, id \in R
      PROVE  Backed(CompleteStep(steps, id), R)
  <2>1. id - 1 \in R
    BY <1>1
  <2>2. "done" \in StepStates /\ "active" \in StepStates
    BY DEF StepStates
  <2>3. Backed(SetStep(steps, id, "done"), R)
    BY <1>1, <2>1, <2>2, SetStepBacked
  <2>4. CASE id = 6
    BY <2>3, <2>4 DEF CompleteStep
  <2>5. CASE id # 6
    <3>1. id + 1 \in 1 .. 6 /\ (id + 1) - 1 \in R
      BY <1>1, <2>5
    <3>2. Backed(SetStep(SetStep(steps, id, "done"), id + 1, "active"), R)
      BY <2>2, <2>3, <3>1, SetStepBacked
    <3>3. QED BY <2>5, <3>2 DEF CompleteStep
  <2>6. QED BY <2>4, <2>5
<1>2. Backed(FailStep(steps), R)
  <2> DEFINE active == {i \in 1 .. 6 : steps[i] = "active"}
  <2>1. CASE active = {}
    BY <2>1 DEF FailStep
  <2>2. CASE active # {}
    <3>1. Min(active) \in active
      BY <2>2, MinIs
    <3>2. /\ Min(active) \in 1 .. 6
          /\ Min(active) = 1 \/ Min(active) - 1 \in R
      BY <3>1 DEF Backed
    <3>3. "failed" \in StepStates
      BY DEF StepStates
    <3>4. Backed(SetStep(steps, Min(active), "failed"), R)
      BY <3>2, <3>3, SetStepBacked
    <3>5. QED BY <2>2, <3>4 DEF FailStep
  <2>3. QED BY <2>1, <2>2
<1>3. QED BY <1>1, <1>2

\* The initial state tells of nothing.
LEMMA TellsNothing == ASSUME NEW evs PROVE Tells(InitialState, evs, 0)
<1>1. Seen(evs, 0) = {} /\ HeardBy(evs, 0) = {}
  BY DEF Seen, HeardBy
<1>2. /\ InitialState.known = {} /\ InitialState.finality = "Unknown"
      /\ InitialState.rpcResults = <<>> /\ InitialState.signatures = {}
      /\ InitialState.steps = [i \in 1 .. 6 |-> IF i = 1 THEN "active" ELSE "pending"]
  BY DEF InitialState
<1>3. Backed(InitialState.steps, Reached(evs, 0))
  BY <1>2 DEF Backed, StepStates
<1>4. DOMAIN InitialState.rpcResults = {}
  BY <1>2
<1>5. QED BY <1>1, <1>2, <1>3, <1>4 DEF Tells

\* Each field has its event.
LEMMA OwnField == \A t, u \in DOMAIN Sets : Sets[t] = Sets[u] => t = u
  BY DEF Sets

\* One event more tells of one event more.
LEMMA TellsOneMore ==
    ASSUME NEW evs, NEW n \in Nat, NEW s, Tells(s, evs, n)
    PROVE  Tells(ApplyEvent(s, evs[n + 1]), evs, n + 1)
<1> DEFINE e == evs[n + 1].event
           new == ApplyEvent(s, evs[n + 1])
<1>1. /\ new.steps = StepsAfter(s, e) /\ new.finality = FinalityAfter(s, e)
      /\ new.known = IF e.type \in DOMAIN Sets THEN s.known \union {Sets[e.type]} ELSE s.known
      /\ new.rpcResults = RpcResultsAfter(s, e)
      /\ new.signatures = IF e.type = "VAA_READY" THEN e.signatures ELSE s.signatures
  BY DEF ApplyEvent
<1> HIDE DEF new
<1>2. Seen(evs, n + 1) = Seen(evs, n) \union {e.type}
  <2>1. \A k : k \in 1 .. n + 1 <=> k \in 1 .. n \/ k = n + 1
    OBVIOUS
  <2>2. QED BY <2>1 DEF Seen
<1>3. HeardBy(evs, n + 1) =
          HeardBy(evs, n) \union (IF e.type = "LEVEL3_RPC_RESULT" THEN {e.provider} ELSE {})
  <2>1. \A k : k \in 1 .. n + 1 <=> k \in 1 .. n \/ k = n + 1
    OBVIOUS
  <2>2. QED BY <2>1 DEF HeardBy
<1>4. Reached(evs, n) \subseteq Reached(evs, n + 1)
  BY <1>2 DEF Reached
<1>5. e.type \in DOMAIN Completes =>
          Completes[e.type] \in 1 .. 6 /\ Completes[e.type] \in Reached(evs, n + 1)
  <2>1. \A type \in DOMAIN Completes : Completes[type] \in 1 .. 6
    BY DEF Completes
  <2>2. QED BY <1>2, <2>1 DEF Reached
<1>6. /\ Reached(evs, n + 1) \in SUBSET Int
      /\ \A i \in Reached(evs, n + 1) : \A j \in Int : j <= i => j \in Reached(evs, n + 1)
  <2>1. \A type \in DOMAIN Completes : Completes[type] \in Int
    BY DEF Completes
  <2>2. QED BY <2>1 DEF Reached
<1>a. Tells(s, evs, n)
  OBVIOUS
<1> HIDE DEF e
<1>7. ASSUME NEW type \in DOMAIN Sets
      PROVE  Sets[type] \in new.known <=> type \in Seen(evs, n + 1)
  <2>1. Sets[type] \in s.known <=> type \in Seen(evs, n)
    BY <1>a DEF Tells
  <2>2. QED BY <1>1, <1>2, <2>1, OwnField
<1>8. new.finality = "DualFinalized" <=> "DUAL_FINALITY_REACHED" \in Seen(evs, n + 1)
  <2>1. s.finality = "DualFinalized" <=> "DUAL_FINALITY_REACHED" \in Seen(evs, n)
    BY <1>a DEF Tells
  <2>2. CASE e.type = "DUAL_FINALITY_REACHED"
    BY <1>1, <1>2, <2>2 DEF FinalityAfter
  <2>3. CASE e.type # "DUAL_FINALITY_REACHED"
    BY <1>1, <1>2, <2>1, <2>3 DEF FinalityAfter
  <2>4. QED BY <2>2, <2>3
<1>9. DOMAIN new.rpcResults = HeardBy(evs, n + 1)
  <2>1. DOMAIN s.rpcResults = HeardBy(evs, n)
    BY <1>a DEF Tells
  <2>2. CASE e.type = "LEVEL3_RPC_RESULT"
    <3>1. DOMAIN new.rpcResults = DOMAIN s.rpcResults \union {e.provider}
      BY <1>1, <2>2 DEF RpcResultsAfter
    <3>2. QED BY <1>3, <2>1, <2>2, <3>1
  <2>3. CASE e.type # "LEVEL3_RPC_RESULT"
    BY <1>1, <1>3, <2>1, <2>3 DEF RpcResultsAfter
  <2>4. QED BY <2>2, <2>3
<1>10. IF "VAA_READY" \in Seen(evs, n + 1)
       THEN \E k \in 1 .. n + 1 : /\ evs[k].event.type = "VAA_READY"
                                  /\ new.signatures = evs[k].event.signatures
       ELSE new.signatures = {}
  <2>1. CASE e.type = "VAA_READY"
    <3>1. /\ "VAA_READY" \in Seen(evs, n + 1) /\ n + 1 \in 1 .. n + 1
          /\ new.signatures = evs[n + 1].event.signatures
          /\ evs[n + 1].event.type = "VAA_READY"
      BY <1>1, <1>2, <2>1 DEF e
    <3>2. QED BY <3>1
  <2>2. CASE e.type # "VAA_READY"
    <3>1. /\ "VAA_READY" \in Seen(evs, n + 1) <=> "VAA_READY" \in Seen(evs, n)
          /\ new.signatures = s.signatures
      BY <1>1, <1>2, <2>2
    <3>2. CASE "VAA_READY" \in Seen(evs, n)
      <4>1. PICK k \in 1 .. n : /\ evs[k].event.type = "VAA_READY"
                                /\ s.signatures = evs[k].event.signatures
        BY <1>a, <3>2 DEF Tells
      <4>2. k \in 1 .. n + 1
        OBVIOUS
      <4>3. QED BY <3>1, <3>2, <4>1, <4>2
    <3>3. CASE "VAA_READY" \notin Seen(evs, n)
      BY <1>a, <3>1, <3>3 DEF Tells
    <3>4. QED BY <3>2, <3>3
  <2>3. QED BY <2>1, <2>2
<1>11. Backed(new.steps, Reached(evs, n + 1))
  <2>1. Backed(s.steps, Reached(evs, n + 1))
    BY <1>a, <1>4 DEF Tells, Backed
  <2>2. QED BY <1>1, <1>5, <1>6, <2>1, StepsBacked DEF StepsAfter
<1>12. Tells(new, evs, n + 1)
  BY <1>7, <1>8, <1>9, <1>10, <1>11 DEF Tells
<1>13. QED BY <1>12 DEF new

\* After every event the state tells what there was.
LEMMA FoldTells ==
    ASSUME NEW evs, Len(evs) \in Nat, NEW n \in 0 .. Len(evs)
    PROVE  Tells(States(evs)[n], evs, n)
<1> DEFINE S == {m \in Nat : m <= Len(evs) => Tells(States(evs)[m], evs, m)}
<1>1. 0 \in S
  BY TellsNothing, StatesStep
<1>2. ASSUME NEW m \in Nat, m \in S
      PROVE  m + 1 \in S
  <2> SUFFICES ASSUME m + 1 <= Len(evs)
               PROVE  Tells(States(evs)[m + 1], evs, m + 1)
    OBVIOUS
  <2>1. Tells(States(evs)[m], evs, m)
    BY <1>2
  <2>2. States(evs)[m + 1] = ApplyEvent(States(evs)[m], evs[m + 1])
    BY StatesStep
  <2>3. QED BY <2>1, <2>2, TellsOneMore
<1> HIDE DEF S
<1>3. n \in S
  BY <1>1, <1>2, Induction
<1>4. QED BY <1>3 DEF S

-----------------------------------------------------------------------------
\* The lights.

\* Types and providers of a beginning, by the places of the events.
LEMMA OfBeginning ==
    ASSUME NEW evs, NEW n \in Nat, NEW first, DOMAIN first = 1 .. n,
           \A k \in 1 .. n : first[k] = evs[k]
    PROVE  /\ {re.event.type : re \in ToSet(first)} = Seen(evs, n)
           /\ Heard(first) = HeardBy(evs, n)
<1>1. \A re : re \in ToSet(first) <=> \E k \in 1 .. n : re = evs[k]
  BY DEF ToSet
<1>2. {re.event.type : re \in ToSet(first)} = Seen(evs, n)
  BY <1>1 DEF Seen
<1>3. Heard(first) = HeardBy(evs, n)
  <2>1. ASSUME NEW p, p \in Heard(first)
        PROVE  p \in HeardBy(evs, n)
    BY <1>1, <2>1 DEF Heard, HeardBy
  <2>2. ASSUME NEW p, p \in HeardBy(evs, n)
        PROVE  p \in Heard(first)
    <3>1. PICK k \in 1 .. n : evs[k].event.type = "LEVEL3_RPC_RESULT" /\ p = evs[k].event.provider
      BY <2>2 DEF HeardBy
    <3>2. evs[k] \in {r \in ToSet(first) : r.event.type = "LEVEL3_RPC_RESULT"}
      BY <1>1, <3>1
    <3>3. QED BY <3>1, <3>2 DEF Heard
  <2>3. QED BY <2>1, <2>2
<1>4. QED BY <1>2, <1>3

\* The panels' events begin a recording or the live run.
LEMMA BeginsRun ==
    ASSUME PlayerInv
    PROVE  \E r \in Runs : /\ r \in Seq(ToSet(r)) /\ Len(AllEvents) <= Len(r)
                           /\ \A k \in 1 .. Len(AllEvents) : AllEvents[k] = r[k]
<1>1. LiveRun \in Runs /\ LiveRun \in Seq(ToSet(LiveRun)) /\ Len(LiveRun) \in Nat
  BY ReplayAssumption DEF Runs
<1>2. CASE mode = "live"
  BY <1>1, <1>2 DEF AllEvents, PlayerInv, LiveInv
<1>3. CASE mode # "live" /\ manifest = NoManifest
  <2>1. Len(AllEvents) = 0
    BY <1>3, RecordedFacts DEF AllEvents, PlayerInv
  <2>2. QED BY <1>1, <2>1
<1>4. CASE mode # "live" /\ manifest # NoManifest
  <2>1. /\ manifest \in Recordings /\ AllEvents = manifest.events
        /\ AllEvents \in Seq(ToSet(AllEvents)) /\ Len(AllEvents) \in Nat
    BY <1>4, RecordedFacts DEF AllEvents, PlayerInv, PlayerTypeOK
  <2>2. AllEvents \in Runs
    BY <2>1 DEF Runs
  <2>3. QED BY <2>1, <2>2
<1>5. QED BY <1>2, <1>3, <1>4

\* At most three providers are heard, and what a VAA carries is a quorum.
LEMMA LaneFacts ==
    ASSUME PlayerInv, NEW n \in 0 .. Len(AllEvents)
    PROVE  /\ IsFiniteSet(HeardBy(AllEvents, n)) /\ Cardinality(HeardBy(AllEvents, n)) \in 0 .. 3
           /\ \A k \in 1 .. n : AllEvents[k].event.type = "VAA_READY" =>
                  Cardinality(AllEvents[k].event.signatures) >= Quorum
<1>1. PICK r \in Runs : /\ r \in Seq(ToSet(r)) /\ Len(AllEvents) <= Len(r)
                        /\ \A k \in 1 .. Len(AllEvents) : AllEvents[k] = r[k]
  BY BeginsRun
<1>2. Len(AllEvents) \in Nat /\ Len(r) \in Nat /\ DOMAIN r = 1 .. Len(r) /\ n \in Nat /\ n <= Len(r)
  BY <1>1, VisibleIs
<1>3. ASSUME NEW k \in 1 .. n
      PROVE  AllEvents[k] = r[k] /\ r[k] \in ToSet(r)
  <2>1. k \in 1 .. Len(AllEvents) /\ k \in DOMAIN r
    BY <1>2
  <2>2. QED BY <1>1, <2>1 DEF ToSet
<1>4. IsFiniteSet(Heard(r)) /\ Cardinality(Heard(r)) <= 3
  BY <1>1, RecordingAssumption
<1>5. HeardBy(AllEvents, n) \subseteq Heard(r)
  BY <1>3 DEF HeardBy, Heard
<1>6. IsFiniteSet(HeardBy(AllEvents, n)) /\ Cardinality(HeardBy(AllEvents, n)) <= Cardinality(Heard(r))
  BY <1>4, <1>5, FS_Subset
<1>7. Cardinality(HeardBy(AllEvents, n)) \in Nat /\ Cardinality(Heard(r)) \in Nat
  BY <1>4, <1>6, FS_CardinalityType
<1>8. Cardinality(HeardBy(AllEvents, n)) \in 0 .. 3
  BY <1>4, <1>6, <1>7
<1>9. \A k \in 1 .. n : AllEvents[k].event.type = "VAA_READY" =>
          Cardinality(AllEvents[k].event.signatures) >= Quorum
  BY <1>1, <1>3, RecordingAssumption
<1>10. QED BY <1>6, <1>8, <1>9

\* The ring is full when a VAA was there.
LEMMA QuorumTold ==
    ASSUME PlayerInv, NEW n \in 0 .. Len(AllEvents), NEW s, Tells(s, AllEvents, n)
    PROVE  QuorumReached(s) <=> "VAA_READY" \in Seen(AllEvents, n)
<1>1. CASE "VAA_READY" \in Seen(AllEvents, n)
  <2>1. PICK k \in 1 .. n : /\ AllEvents[k].event.type = "VAA_READY"
                            /\ s.signatures = AllEvents[k].event.signatures
    BY <1>1 DEF Tells
  <2>2. Cardinality(AllEvents[k].event.signatures) >= Quorum
    BY <2>1, LaneFacts
  <2>3. QED BY <1>1, <2>1, <2>2 DEF QuorumReached
<1>2. CASE "VAA_READY" \notin Seen(AllEvents, n)
  <2>1. s.signatures = {}
    BY <1>2 DEF Tells
  <2>2. Cardinality(s.signatures) = 0
    BY <2>1, FS_EmptySet
  <2>3. QED BY <1>2, <2>2, RecordingAssumption DEF QuorumReached
<1>3. QED BY <1>1, <1>2

\* The members of a list of four.
LEMMA FourMembers ==
    ASSUME NEW a, NEW b, NEW c, NEW d
    PROVE  ToSet(<<a, b, c, d>>) = {a, b, c, d}
  BY DEF ToSet

\* The stations that are lit.
LEMMA StationsLit ==
    ASSUME NEW s, NEW label
    PROVE  label \in {st.label : st \in {t \in ToSet(FastStations(s)) \union ToSet(ProofStations(s)) : t.on}}
           <=> \/ label = "RPC-A" /\ Cardinality(DOMAIN s.rpcResults) >= 1
               \/ label = "RPC-B" /\ Cardinality(DOMAIN s.rpcResults) >= 2
               \/ label = "RPC-C" /\ Cardinality(DOMAIN s.rpcResults) >= 3
               \/ label = "CRE-report" /\ "level3.baseTxHash" \in s.known
               \/ label = "TxLINE-proof" /\ "proof" \in s.known
               \/ label = "Solana-CPI" /\ "verifiedSlot" \in s.known
               \/ label = "Wormhole-VAA" /\ "vaaHash" \in s.known
               \/ label = "Base-Core" /\ "baseVerifiedBlock" \in s.known
<1> DEFINE n == Cardinality(DOMAIN s.rpcResults)
           reported == "level3.baseTxHash" \in s.known
           Has(field) == field \in s.known
<1> DEFINE f1 == Station("RPC-A", n >= 1, s.level3 = "in_progress" /\ n = 0)
           f2 == Station("RPC-B", n >= 2, n = 1)
           f3 == Station("RPC-C", n >= 3, n = 2)
           f4 == Station("CRE-report", reported, n >= 3 /\ ~reported)
           p1 == Station("TxLINE-proof", Has("proof"), ~Has("proof") /\ Has("finalRecord"))
           p2 == Station("Solana-CPI", Has("verifiedSlot"), Has("proof") /\ ~Has("verifiedSlot"))
           p3 == Station("Wormhole-VAA", Has("vaaHash"), Has("verifiedSlot") /\ ~Has("vaaHash"))
           p4 == Station("Base-Core", Has("baseVerifiedBlock"),
                         Has("vaaHash") /\ ~Has("baseVerifiedBlock"))
<1>1. FastStations(s) = <<f1, f2, f3, f4>> /\ ProofStations(s) = <<p1, p2, p3, p4>>
  BY DEF FastStations, ProofStations
<1>2. /\ f1.label = "RPC-A" /\ f1.on = (n >= 1)
      /\ f2.label = "RPC-B" /\ f2.on = (n >= 2)
      /\ f3.label = "RPC-C" /\ f3.on = (n >= 3)
      /\ f4.label = "CRE-report" /\ f4.on = reported
      /\ p1.label = "TxLINE-proof" /\ p1.on = Has("proof")
      /\ p2.label = "Solana-CPI" /\ p2.on = Has("verifiedSlot")
      /\ p3.label = "Wormhole-VAA" /\ p3.on = Has("vaaHash")
      /\ p4.label = "Base-Core" /\ p4.on = Has("baseVerifiedBlock")
  BY DEF Station
<1> HIDE DEF f1, f2, f3, f4, p1, p2, p3, p4
<1>a. /\ ToSet(<<f1, f2, f3, f4>>) = {f1, f2, f3, f4}
      /\ ToSet(<<p1, p2, p3, p4>>) = {p1, p2, p3, p4}
  BY FourMembers
<1>3. /\ ToSet(FastStations(s)) = {f1, f2, f3, f4}
      /\ ToSet(ProofStations(s)) = {p1, p2, p3, p4}
  BY <1>1, <1>a
<1> HIDE DEF n, reported, Has
<1>4. label \in {st.label : st \in {t \in ToSet(FastStations(s)) \union ToSet(ProofStations(s)) : t.on}}
      <=> \E t \in {f1, f2, f3, f4, p1, p2, p3, p4} : t.on /\ label = t.label
  BY <1>3
<1>5. QED BY <1>2, <1>4 DEF n, reported, Has

\* The manifest has a derivation.
Derived == manifest # NoManifest /\ manifest.derivation

\* What is lit, light by light.
LEMMA LightsMean ==
    ASSUME NEW s
    PROVE  LET L == Lights(s) IN
           /\ "RPC-A" \in L <=> Cardinality(DOMAIN s.rpcResults) >= 1
           /\ "RPC-B" \in L <=> Cardinality(DOMAIN s.rpcResults) >= 2
           /\ "RPC-C" \in L <=> Cardinality(DOMAIN s.rpcResults) >= 3
           /\ "CRE-report" \in L <=> "level3.baseTxHash" \in s.known
           /\ "TxLINE-proof" \in L <=> "proof" \in s.known
           /\ "Solana-CPI" \in L <=> "verifiedSlot" \in s.known
           /\ "Wormhole-VAA" \in L <=> "vaaHash" \in s.known
           /\ "Base-Core" \in L <=> "baseVerifiedBlock" \in s.known
           /\ "proof-bundle-hash" \in L <=> Derived /\ "proof" \in s.known
           /\ "validation-instruction-hash" \in L <=> Derived /\ "verifiedSlot" \in s.known
           /\ "attestation-id" \in L <=> Derived /\ s.finality = "DualFinalized"
           /\ "daily-root" \in L <=> "verifiedSlot" \in s.known
           /\ "quorum" \in L <=> QuorumReached(s)
           /\ "seal" \in L <=> s.finality = "DualFinalized"
           /\ "market" \in L <=> "settledTxHash" \in s.known
<1> DEFINE stations ==
             {st.label : st \in {t \in ToSet(FastStations(s)) \union ToSet(ProofStations(s)) : t.on}}
           others == Revealed(s) \union (IF RootStamped(s) THEN {"daily-root"} ELSE {})
                         \union (IF QuorumReached(s) THEN {"quorum"} ELSE {})
                         \union (IF s.finality = "DualFinalized" THEN {"seal"} ELSE {})
                         \union (IF "settledTxHash" \in s.known THEN {"market"} ELSE {})
<1>1. Lights(s) = stations \union others
  BY DEF Lights
<1>2. ASSUME NEW label
      PROVE  label \in others
             <=> \/ label = "proof-bundle-hash" /\ Derived /\ "proof" \in s.known
                 \/ label = "validation-instruction-hash" /\ Derived /\ "verifiedSlot" \in s.known
                 \/ label = "attestation-id" /\ Derived /\ s.finality = "DualFinalized"
                 \/ label = "daily-root" /\ "verifiedSlot" \in s.known
                 \/ label = "quorum" /\ QuorumReached(s)
                 \/ label = "seal" /\ s.finality = "DualFinalized"
                 \/ label = "market" /\ "settledTxHash" \in s.known
  <2>1. Revealed(s) = IF Derived
                      THEN (IF "proof" \in s.known THEN {"proof-bundle-hash"} ELSE {})
                             \union (IF "verifiedSlot" \in s.known
                                     THEN {"validation-instruction-hash"} ELSE {})
                             \union (IF s.finality = "DualFinalized"
                                     THEN {"attestation-id"} ELSE {})
                      ELSE {}
    BY DEF Revealed, Derived
  <2> HIDE DEF Derived
  <2>2. QED BY <2>1 DEF RootStamped
<1> HIDE DEF stations, others
<1>3. ASSUME NEW label
      PROVE  label \in Lights(s) <=> label \in stations \/ label \in others
  BY <1>1
<1>4. ASSUME NEW label
      PROVE  label \in stations
             <=> \/ label = "RPC-A" /\ Cardinality(DOMAIN s.rpcResults) >= 1
                 \/ label = "RPC-B" /\ Cardinality(DOMAIN s.rpcResults) >= 2
                 \/ label = "RPC-C" /\ Cardinality(DOMAIN s.rpcResults) >= 3
                 \/ label = "CRE-report" /\ "level3.baseTxHash" \in s.known
                 \/ label = "TxLINE-proof" /\ "proof" \in s.known
                 \/ label = "Solana-CPI" /\ "verifiedSlot" \in s.known
                 \/ label = "Wormhole-VAA" /\ "vaaHash" \in s.known
                 \/ label = "Base-Core" /\ "baseVerifiedBlock" \in s.known
  BY StationsLit DEF stations
<1>5. QED BY <1>2, <1>3, <1>4

\* As many stations of the fast rail are lit as providers were heard.
LEMMA ProvidersLit ==
    ASSUME NEW L, NEW n \in 0 .. 3,
           "RPC-A" \in L <=> n >= 1, "RPC-B" \in L <=> n >= 2, "RPC-C" \in L <=> n >= 3
    PROVE  Cardinality(L \intersect {"RPC-A", "RPC-B", "RPC-C"}) = n
<1> DEFINE lit == L \intersect {"RPC-A", "RPC-B", "RPC-C"}
<1>1. CASE n = 0
  <2>1. lit = {}
    BY <1>1
  <2>2. QED BY <1>1, <2>1, FS_EmptySet
<1>2. CASE n = 1
  <2>1. lit = {"RPC-A"}
    BY <1>2
  <2>2. QED BY <1>2, <2>1, FS_Singleton
<1>3. CASE n = 2
  <2>1. lit = {"RPC-A"} \union {"RPC-B"}
    BY <1>3
  <2>2. IsFiniteSet({"RPC-A"}) /\ Cardinality({"RPC-A"}) = 1 /\ "RPC-B" \notin {"RPC-A"}
    BY FS_Singleton
  <2>3. Cardinality({"RPC-A"} \union {"RPC-B"}) = 2
    BY <2>2, FS_AddElement
  <2>4. QED BY <1>3, <2>1, <2>3
<1>4. CASE n = 3
  <2>1. lit = ({"RPC-A"} \union {"RPC-B"}) \union {"RPC-C"}
    BY <1>4
  <2>2. IsFiniteSet({"RPC-A"}) /\ Cardinality({"RPC-A"}) = 1 /\ "RPC-B" \notin {"RPC-A"}
    BY FS_Singleton
  <2>3. /\ IsFiniteSet({"RPC-A"} \union {"RPC-B"})
        /\ Cardinality({"RPC-A"} \union {"RPC-B"}) = 2
        /\ "RPC-C" \notin {"RPC-A"} \union {"RPC-B"}
    BY <2>2, FS_AddElement
  <2>4. Cardinality(({"RPC-A"} \union {"RPC-B"}) \union {"RPC-C"}) = 3
    BY <2>3, FS_AddElement
  <2>5. QED BY <1>4, <2>1, <2>4
<1>5. n = 0 \/ n = 1 \/ n = 2 \/ n = 3
  OBVIOUS
<1>6. QED BY <1>1, <1>2, <1>3, <1>4, <1>5

\* Wherever the player is, what is lit is what was seen.
LEMMA LitAsSeen == PlayerInv => LitExactly
<1> SUFFICES ASSUME PlayerInv PROVE LitExactly
  OBVIOUS
<1> DEFINE n == EffectiveCursor + 1
           s == State
           lit == Lights(s)
           seen == Seen(AllEvents, n)
<1>1. /\ AllEvents \in Seq(ToSet(AllEvents)) /\ Len(AllEvents) \in Nat
      /\ n \in 0 .. Len(AllEvents) /\ n \in Nat
      /\ DOMAIN Visible = 1 .. n /\ \A k \in 1 .. n : Visible[k] = AllEvents[k]
  BY VisibleIs
<1>2. s = States(AllEvents)[n]
  BY StateIs
<1>3. Tells(s, AllEvents, n)
  BY <1>1, <1>2, FoldTells
<1> HIDE DEF n, s
<1>4. /\ {re.event.type : re \in ToSet(Visible)} = seen
      /\ Heard(Visible) = HeardBy(AllEvents, n)
  BY <1>1, OfBeginning
<1>5. /\ "proof" \in s.known <=> "PROOF_AVAILABLE" \in seen
      /\ "verifiedSlot" \in s.known <=> "TXLINE_CPI_VERIFIED" \in seen
      /\ "vaaHash" \in s.known <=> "VAA_READY" \in seen
      /\ "baseVerifiedBlock" \in s.known <=> "BASE_VAA_VERIFIED" \in seen
      /\ "level3.baseTxHash" \in s.known <=> "LEVEL3_BASE_FINALIZED" \in seen
      /\ "settledTxHash" \in s.known <=> "CONSUMER_SETTLED" \in seen
  <2>1. \A type \in DOMAIN Sets : Sets[type] \in s.known <=> type \in seen
    BY <1>3 DEF Tells
  <2> HIDE DEF seen
  <2>2. QED BY <2>1 DEF Sets
<1>6. /\ s.finality = "DualFinalized" <=> "DUAL_FINALITY_REACHED" \in seen
      /\ DOMAIN s.rpcResults = HeardBy(AllEvents, n)
      /\ QuorumReached(s) <=> "VAA_READY" \in seen
  BY <1>1, <1>3, QuorumTold DEF Tells
<1>7. Cardinality(HeardBy(AllEvents, n)) \in 0 .. 3
  BY <1>1, LaneFacts
<1> HIDE DEF seen, lit
<1>8. ASSUME NEW type \in DOMAIN LitBy, NEW light \in LitBy[type]
      PROVE  light \in lit <=> type \in seen
  <2>1. /\ "CRE-report" \in lit <=> "LEVEL3_BASE_FINALIZED" \in seen
        /\ "TxLINE-proof" \in lit <=> "PROOF_AVAILABLE" \in seen
        /\ "Solana-CPI" \in lit <=> "TXLINE_CPI_VERIFIED" \in seen
        /\ "Wormhole-VAA" \in lit <=> "VAA_READY" \in seen
        /\ "Base-Core" \in lit <=> "BASE_VAA_VERIFIED" \in seen
        /\ "daily-root" \in lit <=> "TXLINE_CPI_VERIFIED" \in seen
        /\ "quorum" \in lit <=> "VAA_READY" \in seen
        /\ "seal" \in lit <=> "DUAL_FINALITY_REACHED" \in seen
        /\ "market" \in lit <=> "CONSUMER_SETTLED" \in seen
    BY <1>5, <1>6, LightsMean DEF lit
  <2>2. QED BY <2>1 DEF LitBy
<1>r. ASSUME NEW type \in DOMAIN RowOf
      PROVE  RowOf[type] \in lit <=> type \in seen /\ Derived
  <2>1. /\ "proof-bundle-hash" \in lit <=> Derived /\ "PROOF_AVAILABLE" \in seen
        /\ "validation-instruction-hash" \in lit <=> Derived /\ "TXLINE_CPI_VERIFIED" \in seen
        /\ "attestation-id" \in lit <=> Derived /\ "DUAL_FINALITY_REACHED" \in seen
    BY <1>5, <1>6, LightsMean DEF lit
  <2>2. QED BY <2>1 DEF RowOf
<1>9. Cardinality(lit \intersect {"RPC-A", "RPC-B", "RPC-C"}) = Cardinality(Heard(Visible))
  <2> DEFINE heard == Cardinality(HeardBy(AllEvents, n))
  <2>1. /\ "RPC-A" \in lit <=> heard >= 1
        /\ "RPC-B" \in lit <=> heard >= 2
        /\ "RPC-C" \in lit <=> heard >= 3
    BY <1>6, LightsMean DEF lit
  <2>2. heard \in 0 .. 3
    BY <1>7
  <2> HIDE DEF heard
  <2>3. Cardinality(lit \intersect {"RPC-A", "RPC-B", "RPC-C"}) = heard
    BY <2>1, <2>2, ProvidersLit
  <2>4. QED BY <1>4, <2>3 DEF heard
<1>10. ASSUME NEW i \in 1 .. 6, Gate(s, i) = "pass"
       PROVE  \E type \in seen \intersect DOMAIN Completes : Completes[type] >= i
  <2>1. s.steps[i] = "done"
    BY <1>10 DEF Gate
  <2>2. i \in Reached(AllEvents, n)
    BY <1>3, <2>1 DEF Tells, Backed
  <2>3. QED BY <2>2 DEF Reached, seen
<1>11. QED BY <1>4, <1>8, <1>r, <1>9, <1>10 DEF LitExactly, lit, s, Derived

\* Every lit node corresponds to an event that is visible, and every event lights its
\* nodes, wherever the audience scrubs, in whichever mode it looks, and whatever a
\* lane repeats after a failure; and the derivation's rows are there only if the
\* manifest has a derivation.
THEOREM LitCorrect == Spec => []LitExactly
<1>1. QED BY LitAsSeen, PlayerInvariant, PTL

-----------------------------------------------------------------------------
\* The rails.

\* In a run of which no event was lost, what lights a station comes after what lights
\* the one before it.
LEMMA SeenInOrder ==
    ASSUME PlayerInv, NEW n \in 0 .. Len(AllEvents)
    PROVE  /\ "TXLINE_CPI_VERIFIED" \in Seen(AllEvents, n)
                  => "PROOF_AVAILABLE" \in Seen(AllEvents, n)
           /\ "VAA_READY" \in Seen(AllEvents, n)
                  => "TXLINE_CPI_VERIFIED" \in Seen(AllEvents, n)
           /\ "BASE_VAA_VERIFIED" \in Seen(AllEvents, n)
                  => "VAA_READY" \in Seen(AllEvents, n)
           /\ "LEVEL3_BASE_FINALIZED" \in Seen(AllEvents, n)
                  => Cardinality(HeardBy(AllEvents, n)) = 3
<1>1. PICK r \in Runs : /\ r \in Seq(ToSet(r)) /\ Len(AllEvents) <= Len(r)
                        /\ \A k \in 1 .. Len(AllEvents) : AllEvents[k] = r[k]
  BY BeginsRun
<1>2. Len(AllEvents) \in Nat /\ Len(r) \in Nat /\ DOMAIN r = 1 .. Len(r) /\ n \in Nat
  BY <1>1, VisibleIs
<1>3. ASSUME NEW k \in 1 .. n
      PROVE  LET type == AllEvents[k].event.type IN
             /\ type \in DOMAIN Follows => Follows[type] \in Seen(AllEvents, n)
             /\ type = "LEVEL3_BASE_FINALIZED" => Cardinality(HeardBy(AllEvents, n)) = 3
  <2> DEFINE earlier == SubSeq(r, 1, k - 1)
             type == AllEvents[k].event.type
  <2>1. /\ k \in 1 .. Len(AllEvents) /\ k \in DOMAIN r /\ k - 1 \in Nat /\ k - 1 \in 0 .. Len(r)
        /\ \A j \in 1 .. k - 1 : j \in 1 .. n /\ j \in 1 .. Len(AllEvents)
    BY <1>1, <1>2
  <2>2. AllEvents[k] = r[k]
    BY <1>1, <2>1
  <2>3. DOMAIN earlier = 1 .. k - 1 /\ \A j \in 1 .. k - 1 : earlier[j] = r[j]
    BY <1>1, <2>1, Beginning
  <2>4. \A j \in 1 .. k - 1 : earlier[j] = AllEvents[j]
    BY <1>1, <2>1, <2>3
  <2>5. /\ type \in DOMAIN Follows =>
               \E re \in ToSet(earlier) : re.event.type = Follows[type]
        /\ type = "LEVEL3_BASE_FINALIZED" => Cardinality(Heard(earlier)) = 3
    BY <1>1, <2>1, <2>2, LosslessAssumption
  <2> HIDE DEF earlier, type
  <2>6. /\ {re.event.type : re \in ToSet(earlier)} = Seen(AllEvents, k - 1)
        /\ Heard(earlier) = HeardBy(AllEvents, k - 1)
    BY <2>1, <2>3, <2>4, OfBeginning
  <2>7. /\ Seen(AllEvents, k - 1) \subseteq Seen(AllEvents, n)
        /\ HeardBy(AllEvents, k - 1) \subseteq HeardBy(AllEvents, n)
    BY <2>1 DEF Seen, HeardBy
  <2>8. type \in DOMAIN Follows => Follows[type] \in Seen(AllEvents, n)
    BY <2>5, <2>6, <2>7
  <2>9. ASSUME type = "LEVEL3_BASE_FINALIZED"
        PROVE  Cardinality(HeardBy(AllEvents, n)) = 3
    <3>1. /\ IsFiniteSet(HeardBy(AllEvents, n)) /\ Cardinality(HeardBy(AllEvents, n)) \in 0 .. 3
      BY LaneFacts
    <3>2. Cardinality(HeardBy(AllEvents, k - 1)) = 3
      BY <2>5, <2>6, <2>9
    <3>3. Cardinality(HeardBy(AllEvents, k - 1)) <= Cardinality(HeardBy(AllEvents, n))
      BY <2>7, <3>1, FS_Subset
    <3>4. QED BY <3>1, <3>2, <3>3
  <2>10. QED BY <2>8, <2>9 DEF type
<1>4. ASSUME NEW t \in Seen(AllEvents, n)
      PROVE  /\ t \in DOMAIN Follows => Follows[t] \in Seen(AllEvents, n)
             /\ t = "LEVEL3_BASE_FINALIZED" => Cardinality(HeardBy(AllEvents, n)) = 3
  <2>1. PICK k \in 1 .. n : t = AllEvents[k].event.type
    BY <1>4 DEF Seen
  <2>2. QED BY <1>3, <2>1
<1>5. /\ DOMAIN Follows = {"TXLINE_CPI_VERIFIED", "VAA_READY", "BASE_VAA_VERIFIED"}
      /\ Follows["TXLINE_CPI_VERIFIED"] = "PROOF_AVAILABLE"
      /\ Follows["VAA_READY"] = "TXLINE_CPI_VERIFIED"
      /\ Follows["BASE_VAA_VERIFIED"] = "VAA_READY"
  BY DEF Follows
<1>6. QED BY <1>4, <1>5

\* So many stations of a rail are lit.
LitOn(stations) == Cardinality({k \in DOMAIN stations : stations[k].on})

\* A rail whose first m stations are lit.
LEMMA RailLit ==
    ASSUME NEW a, NEW b, NEW c, NEW d, NEW m \in 0 .. 4,
           a.on <=> m >= 1, b.on <=> m >= 2, c.on <=> m >= 3, d.on <=> m >= 4,
           a.active => m = 0, b.active => m = 1, c.active => m = 2, d.active => m = 3
    PROVE  LET stations == <<a, b, c, d>> IN
           /\ LitOn(stations) = m
           /\ \A k \in DOMAIN stations : /\ stations[k].on <=> k <= m
                                         /\ stations[k].active => k = m + 1
<1> DEFINE stations == <<a, b, c, d>>
<1>1. /\ DOMAIN stations = 1 .. 4 /\ stations[1] = a /\ stations[2] = b
      /\ stations[3] = c /\ stations[4] = d
  OBVIOUS
<1> HIDE DEF stations
<1>2. ASSUME NEW k \in 1 .. 4
      PROVE  /\ stations[k].on <=> k <= m
             /\ stations[k].active => k = m + 1
  <2>1. k = 1 \/ k = 2 \/ k = 3 \/ k = 4
    OBVIOUS
  <2>2. QED BY <1>1, <2>1
<1>3. {k \in DOMAIN stations : stations[k].on} = 1 .. m
  BY <1>1, <1>2
<1>4. Cardinality(1 .. m) = m
  <2>1. Cardinality(1 .. m) = IF 1 > m THEN 0 ELSE m - 1 + 1
    BY FS_Interval
  <2>2. QED BY <2>1
<1>5. QED BY <1>1, <1>2, <1>3, <1>4 DEF LitOn, stations

\* The fast rail, for a state in which a report comes after three answers.
LEMMA FastRail ==
    ASSUME NEW s, Cardinality(DOMAIN s.rpcResults) \in 0 .. 3,
           "level3.baseTxHash" \in s.known => Cardinality(DOMAIN s.rpcResults) = 3
    PROVE  \E m \in 0 .. 4 :
             /\ LitOn(FastStations(s)) = m
             /\ \A k \in DOMAIN FastStations(s) :
                   /\ FastStations(s)[k].on <=> k <= m
                   /\ FastStations(s)[k].active => k = m + 1
             /\ FastTarget(s) = <<0, 62, 124, 186, 300>>[m + 1]
<1> DEFINE n == Cardinality(DOMAIN s.rpcResults)
           reported == "level3.baseTxHash" \in s.known
           m == IF reported THEN 4 ELSE n
           f1 == Station("RPC-A", n >= 1, s.level3 = "in_progress" /\ n = 0)
           f2 == Station("RPC-B", n >= 2, n = 1)
           f3 == Station("RPC-C", n >= 3, n = 2)
           f4 == Station("CRE-report", reported, n >= 3 /\ ~reported)
<1>1. FastStations(s) = <<f1, f2, f3, f4>>
  BY DEF FastStations
<1>2. FastTarget(s) = IF reported THEN 300 ELSE 62 * n
  BY DEF FastTarget
<1>3. n \in 0 .. 3 /\ (reported => n = 3)
  OBVIOUS
<1> HIDE DEF n, reported
<1>4. m \in 0 .. 4
  BY <1>3
<1>5. /\ f1.on <=> m >= 1
      /\ f2.on <=> m >= 2
      /\ f3.on <=> m >= 3
      /\ f4.on <=> m >= 4
      /\ f1.active => m = 0
      /\ f2.active => m = 1
      /\ f3.active => m = 2
      /\ f4.active => m = 3
  <2>1. /\ f1.on = (n >= 1) /\ f2.on = (n >= 2) /\ f3.on = (n >= 3) /\ f4.on = reported
        /\ f1.active = (s.level3 = "in_progress" /\ n = 0)
        /\ f2.active = (n = 1) /\ f3.active = (n = 2) /\ f4.active = (n >= 3 /\ ~reported)
    BY DEF Station
  <2> HIDE DEF f1, f2, f3, f4
  <2>2. /\ m >= 1 <=> n >= 1
        /\ m >= 2 <=> n >= 2
        /\ m >= 3 <=> n >= 3
        /\ m >= 4 <=> reported
        /\ n = 0 => m = 0
        /\ n = 1 => m = 1
        /\ n = 2 => m = 2
        /\ n >= 3 /\ ~reported => m = 3
    BY <1>3
  <2> HIDE DEF m
  <2>3. QED BY <2>1, <2>2
<1>6. FastTarget(s) = <<0, 62, 124, 186, 300>>[m + 1]
  <2>1. CASE reported
    BY <1>2, <2>1
  <2>2. CASE ~reported
    <3>1. n = 0 \/ n = 1 \/ n = 2 \/ n = 3
      BY <1>3
    <3>2. QED BY <1>2, <2>2, <3>1
  <2>3. QED BY <2>1, <2>2
<1> HIDE DEF m, f1, f2, f3, f4
<1>7. /\ LitOn(<<f1, f2, f3, f4>>) = m
      /\ \A k \in DOMAIN <<f1, f2, f3, f4>> :
            /\ <<f1, f2, f3, f4>>[k].on <=> k <= m
            /\ <<f1, f2, f3, f4>>[k].active => k = m + 1
  BY <1>4, <1>5, RailLit
<1>8. QED BY <1>1, <1>4, <1>6, <1>7

\* How far the proof rail's packet goes.
LEMMA ProofPacket ==
    ASSUME NEW s,
           "verifiedSlot" \in s.known => "proof" \in s.known,
           "vaaHash" \in s.known => "verifiedSlot" \in s.known,
           "baseVerifiedBlock" \in s.known => "vaaHash" \in s.known
    PROVE  ProofTarget(s) = IF "baseVerifiedBlock" \in s.known THEN 100
                            ELSE IF "vaaHash" \in s.known THEN 74
                            ELSE IF "verifiedSlot" \in s.known THEN 50
                            ELSE IF "proof" \in s.known THEN 22
                            ELSE 0
<1> DEFINE S == {0} \union {Reaches[field] : field \in s.known \intersect DOMAIN Reaches}
<1>1. ProofTarget(s) = Max(S)
  BY DEF ProofTarget
<1>2. \A x : x \in S <=> \/ x = 0
                         \/ x = 22 /\ "proof" \in s.known
                         \/ x = 50 /\ "verifiedSlot" \in s.known
                         \/ x = 74 /\ "vaaHash" \in s.known
                         \/ x = 100 /\ "baseVerifiedBlock" \in s.known
  <2>1. /\ DOMAIN Reaches = {"proof", "verifiedSlot", "vaaHash", "baseVerifiedBlock"}
        /\ Reaches["proof"] = 22 /\ Reaches["verifiedSlot"] = 50
        /\ Reaches["vaaHash"] = 74 /\ Reaches["baseVerifiedBlock"] = 100
    BY DEF Reaches
  <2>2. QED BY <2>1
<1> HIDE DEF S
<1>3. S \in SUBSET Int
  BY <1>2
<1>4. CASE "baseVerifiedBlock" \in s.known
  <2>1. 100 \in S /\ \A x \in S : x <= 100
    BY <1>2, <1>4
  <2>2. QED BY <1>1, <1>3, <1>4, <2>1, MaxIs
<1>5. CASE "baseVerifiedBlock" \notin s.known /\ "vaaHash" \in s.known
  <2>1. 74 \in S /\ \A x \in S : x <= 74
    BY <1>2, <1>5
  <2>2. QED BY <1>1, <1>3, <1>5, <2>1, MaxIs
<1>6. CASE "vaaHash" \notin s.known /\ "verifiedSlot" \in s.known
  <2>1. 50 \in S /\ \A x \in S : x <= 50
    BY <1>2, <1>6
  <2>2. QED BY <1>1, <1>3, <1>6, <2>1, MaxIs
<1>7. CASE "verifiedSlot" \notin s.known /\ "proof" \in s.known
  <2>1. 22 \in S /\ \A x \in S : x <= 22
    BY <1>2, <1>7
  <2>2. QED BY <1>1, <1>3, <1>7, <2>1, MaxIs
<1>8. CASE "proof" \notin s.known
  <2>1. 0 \in S /\ \A x \in S : x <= 0
    BY <1>2, <1>8
  <2>2. QED BY <1>1, <1>3, <1>8, <2>1, MaxIs
<1>9. QED BY <1>4, <1>5, <1>6, <1>7, <1>8

\* The proof rail, for a state in which each field comes after the one before it.
LEMMA ProofRail ==
    ASSUME NEW s,
           "verifiedSlot" \in s.known => "proof" \in s.known,
           "vaaHash" \in s.known => "verifiedSlot" \in s.known,
           "baseVerifiedBlock" \in s.known => "vaaHash" \in s.known
    PROVE  \E m \in 0 .. 4 :
             /\ LitOn(ProofStations(s)) = m
             /\ \A k \in DOMAIN ProofStations(s) :
                   /\ ProofStations(s)[k].on <=> k <= m
                   /\ ProofStations(s)[k].active => k = m + 1
             /\ ProofTarget(s) = <<0, 22, 50, 74, 100>>[m + 1]
<1> DEFINE Has(field) == field \in s.known
           m == IF Has("baseVerifiedBlock") THEN 4
                ELSE IF Has("vaaHash") THEN 3
                ELSE IF Has("verifiedSlot") THEN 2
                ELSE IF Has("proof") THEN 1 ELSE 0
           p1 == Station("TxLINE-proof", Has("proof"), ~Has("proof") /\ Has("finalRecord"))
           p2 == Station("Solana-CPI", Has("verifiedSlot"), Has("proof") /\ ~Has("verifiedSlot"))
           p3 == Station("Wormhole-VAA", Has("vaaHash"), Has("verifiedSlot") /\ ~Has("vaaHash"))
           p4 == Station("Base-Core", Has("baseVerifiedBlock"),
                         Has("vaaHash") /\ ~Has("baseVerifiedBlock"))
<1>1. ProofStations(s) = <<p1, p2, p3, p4>>
  BY DEF ProofStations
<1>2. m \in 0 .. 4
  OBVIOUS
<1>3. ProofTarget(s) = <<0, 22, 50, 74, 100>>[m + 1]
  BY ProofPacket
<1>4. /\ Has("verifiedSlot") => Has("proof")
      /\ Has("vaaHash") => Has("verifiedSlot")
      /\ Has("baseVerifiedBlock") => Has("vaaHash")
  OBVIOUS
<1>5. /\ p1.on <=> m >= 1
      /\ p2.on <=> m >= 2
      /\ p3.on <=> m >= 3
      /\ p4.on <=> m >= 4
      /\ p1.active => m = 0
      /\ p2.active => m = 1
      /\ p3.active => m = 2
      /\ p4.active => m = 3
  <2>1. /\ p1.on = Has("proof") /\ p2.on = Has("verifiedSlot")
        /\ p3.on = Has("vaaHash") /\ p4.on = Has("baseVerifiedBlock")
        /\ p1.active = (~Has("proof") /\ Has("finalRecord"))
        /\ p2.active = (Has("proof") /\ ~Has("verifiedSlot"))
        /\ p3.active = (Has("verifiedSlot") /\ ~Has("vaaHash"))
        /\ p4.active = (Has("vaaHash") /\ ~Has("baseVerifiedBlock"))
    BY DEF Station
  <2> HIDE DEF p1, p2, p3, p4, Has
  <2>2. /\ m >= 1 <=> Has("proof")
        /\ m >= 2 <=> Has("verifiedSlot")
        /\ m >= 3 <=> Has("vaaHash")
        /\ m >= 4 <=> Has("baseVerifiedBlock")
        /\ ~Has("proof") => m = 0
        /\ Has("proof") /\ ~Has("verifiedSlot") => m = 1
        /\ Has("verifiedSlot") /\ ~Has("vaaHash") => m = 2
        /\ Has("vaaHash") /\ ~Has("baseVerifiedBlock") => m = 3
    BY <1>4
  <2> HIDE DEF m
  <2>3. QED BY <2>1, <2>2
<1> HIDE DEF m, p1, p2, p3, p4
<1>6. /\ LitOn(<<p1, p2, p3, p4>>) = m
      /\ \A k \in DOMAIN <<p1, p2, p3, p4>> :
            /\ <<p1, p2, p3, p4>>[k].on <=> k <= m
            /\ <<p1, p2, p3, p4>>[k].active => k = m + 1
  BY <1>2, <1>5, RailLit
<1>7. QED BY <1>1, <1>2, <1>3, <1>6

\* Wherever the player is, the rails are filled from their start.
LEMMA RailsAsSeen == PlayerInv => RailsFillInOrder
<1> SUFFICES ASSUME PlayerInv PROVE RailsFillInOrder
  OBVIOUS
<1> DEFINE n == EffectiveCursor + 1
           s == State
           seen == Seen(AllEvents, n)
<1>1. Len(AllEvents) \in Nat /\ n \in 0 .. Len(AllEvents)
  BY VisibleIs
<1>2. s = States(AllEvents)[n]
  BY StateIs
<1>3. Tells(s, AllEvents, n)
  BY <1>1, <1>2, FoldTells
<1> HIDE DEF n, s
<1>4. /\ "proof" \in s.known <=> "PROOF_AVAILABLE" \in seen
      /\ "verifiedSlot" \in s.known <=> "TXLINE_CPI_VERIFIED" \in seen
      /\ "vaaHash" \in s.known <=> "VAA_READY" \in seen
      /\ "baseVerifiedBlock" \in s.known <=> "BASE_VAA_VERIFIED" \in seen
      /\ "level3.baseTxHash" \in s.known <=> "LEVEL3_BASE_FINALIZED" \in seen
  <2>1. \A type \in DOMAIN Sets : Sets[type] \in s.known <=> type \in seen
    BY <1>3 DEF Tells
  <2> HIDE DEF seen
  <2>2. QED BY <2>1 DEF Sets
<1>5. DOMAIN s.rpcResults = HeardBy(AllEvents, n)
  BY <1>3 DEF Tells
<1>6. /\ Cardinality(DOMAIN s.rpcResults) \in 0 .. 3
      /\ "level3.baseTxHash" \in s.known => Cardinality(DOMAIN s.rpcResults) = 3
  BY <1>1, <1>4, <1>5, LaneFacts, SeenInOrder
<1>7. /\ "verifiedSlot" \in s.known => "proof" \in s.known
      /\ "vaaHash" \in s.known => "verifiedSlot" \in s.known
      /\ "baseVerifiedBlock" \in s.known => "vaaHash" \in s.known
  BY <1>1, <1>4, SeenInOrder
<1>8. PICK m \in 0 .. 4 :
          /\ LitOn(FastStations(s)) = m
          /\ \A k \in DOMAIN FastStations(s) :
                /\ FastStations(s)[k].on <=> k <= m
                /\ FastStations(s)[k].active => k = m + 1
          /\ FastTarget(s) = <<0, 62, 124, 186, 300>>[m + 1]
  BY <1>6, FastRail
<1>9. PICK l \in 0 .. 4 :
          /\ LitOn(ProofStations(s)) = l
          /\ \A k \in DOMAIN ProofStations(s) :
                /\ ProofStations(s)[k].on <=> k <= l
                /\ ProofStations(s)[k].active => k = l + 1
          /\ ProofTarget(s) = <<0, 22, 50, 74, 100>>[l + 1]
  BY <1>7, ProofRail
<1>10. /\ \A k \in DOMAIN FastStations(s) :
             /\ FastStations(s)[k].on <=> k <= LitOn(FastStations(s))
             /\ FastStations(s)[k].active => k = LitOn(FastStations(s)) + 1
       /\ FastTarget(s) = <<0, 62, 124, 186, 300>>[LitOn(FastStations(s)) + 1]
  BY <1>8
<1>11. /\ \A k \in DOMAIN ProofStations(s) :
             /\ ProofStations(s)[k].on <=> k <= LitOn(ProofStations(s))
             /\ ProofStations(s)[k].active => k = LitOn(ProofStations(s)) + 1
       /\ ProofTarget(s) = <<0, 22, 50, 74, 100>>[LitOn(ProofStations(s)) + 1]
  BY <1>9
<1>12. QED BY <1>10, <1>11, Zenon DEF RailsFillInOrder, LitOn, s

\* On both rails the stations light one after the other, only the next one is active,
\* and the packet is past the lit stations and no other.
THEOREM RailsCorrect == Spec => []RailsFillInOrder
<1>1. QED BY RailsAsSeen, PlayerInvariant, PTL

=============================================================================

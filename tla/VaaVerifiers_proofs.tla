------------------------ MODULE VaaVerifiers_proofs ------------------------
(***************************************************************************)
(* Proofs about the judges of a VAA, for every guardian set, quorum, set   *)
(* of bodies and signatures, any byte strings and any edits of the files.  *)
(*                                                                         *)
(* First the guardian-quorum loop on its own.  Then the three programs:    *)
(* Base runs the loop of module GuardianQuorum, so its theorems carry      *)
(* over; while the loop runs, what it has seen so far is what the tamper   *)
(* lab's operator says of the same signatures, so that at its end both     *)
(* name the same fault.                                                    *)
(***************************************************************************)
EXTENDS VaaVerifiers, FiniteSetTheorems, SequenceTheorems, TLAPS

\* Signature k of VAA v was made by the guardian of its slot over v's body.
GoodSignature(v, k) ==
    /\ v.signatures[k].guardianIndex \in Slots
    /\ v.signatures[k].over = v.body
    /\ v.signatures[k].key = guardianSet[v.signatures[k].guardianIndex]

\* Loop invariant: the first i signatures are good and strictly ascending.
LoopInv ==
    /\ HasQuorum(vaa)
    /\ lastIndex = IF i = 0 THEN -1 ELSE vaa.signatures[i].guardianIndex
    /\ \A k \in 1 .. i : GoodSignature(vaa, k)
    /\ \A j, k \in 1 .. i :
           j < k => vaa.signatures[j].guardianIndex < vaa.signatures[k].guardianIndex

IInv ==
    /\ TypeOK
    /\ pc # "idle" => vaa \in Vaas
    /\ pc \in {"idle", "called"} => i = 0 /\ lastIndex = -1
    /\ pc = "loop" => LoopInv

\* What is known of the VAA being verified.
LEMMA VaaFacts ==
    ASSUME NEW v \in Vaas
    PROVE  /\ v.body \in Bodies
           /\ v.signatures \in Seq([guardianIndex : Nat, key : Keys, over : Bodies])
           /\ Len(v.signatures) \in Nat
           /\ \A k \in 1 .. Len(v.signatures) :
                 /\ v.signatures[k].guardianIndex \in Nat
                 /\ v.signatures[k].key \in Keys
                 /\ <<v.signatures[k].key, v.signatures[k].over>> \in Signed
<1>1. v \in Vaa
  BY QuorumAssumption
<1>2. /\ v.body \in Bodies
      /\ v.signatures \in Seq([guardianIndex : Nat, key : Keys, over : Bodies])
  BY <1>1 DEF Vaa
<1>3. \A k \in 1 .. Len(v.signatures) :
         v.signatures[k].guardianIndex \in Nat /\ v.signatures[k].key \in Keys
  <2> DEFINE Sig == [guardianIndex : Nat, key : Keys, over : Bodies]
             sigs == v.signatures
  <2>1. \A x \in Sig : x.guardianIndex \in Nat /\ x.key \in Keys
    OBVIOUS
  <2>2. sigs \in Seq(Sig)
    BY <1>2
  <2> HIDE DEF Sig, sigs
  <2>3. \A k \in 1 .. Len(sigs) : sigs[k] \in Sig
    BY <2>2
  <2>4. \A k \in 1 .. Len(sigs) : sigs[k].guardianIndex \in Nat /\ sigs[k].key \in Keys
    BY <2>1, <2>3
  <2>5. QED BY <2>4 DEF sigs
<1>4. Len(v.signatures) \in Nat
  BY <1>2
<1>5. \A k \in 1 .. Len(v.signatures) :
         <<v.signatures[k].key, v.signatures[k].over>> \in Signed
  BY QuorumAssumption
<1>6. QED BY <1>2, <1>3, <1>4, <1>5

\* A guardian's check is the three facts of a good signature.
LEMMA SignatureChecks ==
    ASSUME NEW v \in Vaas, NEW k \in 1 .. Len(v.signatures)
    PROVE  GoodSignature(v, k) <=>
               /\ v.signatures[k].guardianIndex < Guardians
               /\ SignedByGuardian(v.body, v.signatures[k])
<1>1. v.signatures[k].guardianIndex \in Nat /\ v.signatures[k].key \in Keys
  BY VaaFacts
<1>2. v.signatures[k].guardianIndex \in Slots <=> v.signatures[k].guardianIndex < Guardians
  BY <1>1, QuorumAssumption DEF Slots
<1>3. ASSUME v.signatures[k].guardianIndex \in Slots
      PROVE  SignedByGuardian(v.body, v.signatures[k]) <=>
                 /\ v.signatures[k].over = v.body
                 /\ v.signatures[k].key = guardianSet[v.signatures[k].guardianIndex]
  <2>1. guardianSet[v.signatures[k].guardianIndex] # NoSigner
    BY <1>3, QuorumAssumption
  <2>2. v.signatures[k].key # NoSigner
    BY <1>1, QuorumAssumption
  <2>3. QED BY <2>1, <2>2 DEF SignedByGuardian, Ecrecover
<1>4. QED BY <1>2, <1>3 DEF GoodSignature

\* Well signed is: long enough, ascending, every signature good.
LEMMA WellSignedIs ==
    ASSUME NEW v
    PROVE  WellSigned(v) <=>
               /\ HasQuorum(v)
               /\ \A j, k \in 1 .. Len(v.signatures) : j < k =>
                      v.signatures[j].guardianIndex < v.signatures[k].guardianIndex
               /\ \A k \in 1 .. Len(v.signatures) : GoodSignature(v, k)
BY DEF WellSigned, HasQuorum, GoodSignature

\* One iteration that goes on extends the checked prefix by one signature.
LEMMA LoopStep ==
    ASSUME IInv, pc = "loop", i < Len(vaa.signatures),
           InOrder(vaa.signatures[i + 1]),
           vaa.signatures[i + 1].guardianIndex < Guardians,
           SignedByGuardian(vaa.body, vaa.signatures[i + 1]),
           i' = i + 1, lastIndex' = vaa.signatures[i + 1].guardianIndex,
           UNCHANGED <<pc, vaa, reason, certified>>
    PROVE  IInv'
<1>1. vaa \in Vaas /\ LoopInv /\ i \in 0 .. Len(vaa.signatures)
  BY DEF IInv, TypeOK
<1>2. Len(vaa.signatures) \in Nat
  BY <1>1, VaaFacts
<1>3. i + 1 \in 1 .. Len(vaa.signatures) /\ i \in Nat
  BY <1>1, <1>2
<1>4. GoodSignature(vaa, i + 1)
  BY <1>1, <1>3, SignatureChecks
<1>5. \A k \in 1 .. Len(vaa.signatures) : vaa.signatures[k].guardianIndex \in Nat
  BY <1>1, VaaFacts
<1>6. \A k \in 1 .. i + 1 : GoodSignature(vaa, k)
  BY <1>1, <1>3, <1>4 DEF LoopInv
<1>7. \A j, k \in 1 .. i + 1 :
         j < k => vaa.signatures[j].guardianIndex < vaa.signatures[k].guardianIndex
  <2>1. SUFFICES ASSUME NEW j \in 1 .. i + 1, NEW k \in 1 .. i + 1, j < k
                 PROVE  vaa.signatures[j].guardianIndex < vaa.signatures[k].guardianIndex
    OBVIOUS
  <2>2. CASE k \in 1 .. i
    BY <1>1, <1>3, <2>1, <2>2 DEF LoopInv
  <2>3. CASE k = i + 1
    <3>1. i \in 1 .. i /\ j \in 1 .. i /\ i # 0
      BY <1>3, <2>1, <2>3
    <3>2. lastIndex = vaa.signatures[i].guardianIndex
      BY <1>1, <3>1 DEF LoopInv
    <3>3. vaa.signatures[i].guardianIndex < vaa.signatures[k].guardianIndex
      BY <2>3, <3>2, <1>3, <1>5, <3>1 DEF InOrder
    <3>4. j = i \/ vaa.signatures[j].guardianIndex < vaa.signatures[i].guardianIndex
      BY <1>1, <1>3, <3>1 DEF LoopInv
    <3>5. /\ vaa.signatures[j].guardianIndex \in Nat
          /\ vaa.signatures[i].guardianIndex \in Nat
          /\ vaa.signatures[k].guardianIndex \in Nat
      BY <1>2, <1>3, <1>5, <3>1, <2>3
    <3> DEFINE index(l) == vaa.signatures[l].guardianIndex
    <3>6. /\ index(j) \in Nat /\ index(i) \in Nat /\ index(k) \in Nat
          /\ index(i) < index(k) /\ (j = i \/ index(j) < index(i))
      BY <3>3, <3>4, <3>5
    <3> HIDE DEF index
    <3>7. index(j) < index(k)
      BY <3>6
    <3>8. QED BY <3>7 DEF index
  <2>4. QED BY <1>3, <2>2, <2>3
<1>8. LoopInv'
  <2>1. i' # 0
    BY <1>3
  <2>2. QED BY <1>1, <1>6, <1>7, <2>1 DEF LoopInv, HasQuorum, GoodSignature
<1>9. vaa.signatures[i + 1].guardianIndex \in Nat
  BY <1>3, <1>5
<1>10. TypeOK'
  <2>1. i' \in 0 .. Len(vaa'.signatures)
    BY <1>2, <1>3
  <2>2. QED BY <1>1, <1>9, <2>1 DEF IInv, TypeOK
<1>11. QED BY <1>1, <1>8, <1>10 DEF IInv

\* A call that returns leaves no locals behind.
LEMMA ReturnInv ==
    ASSUME IInv, NEW why \in Failures \union {""}, Return(why), certified' \subseteq Bodies
    PROVE  IInv'
BY DEF IInv, TypeOK, Return

\* One iteration returns, or extends the checked prefix.
LEMMA CheckSignatureCases ==
    ASSUME CheckSignature
    PROVE  \/ \E why \in Failures : Return(why)
           \/ /\ InOrder(vaa.signatures[i + 1])
              /\ vaa.signatures[i + 1].guardianIndex < Guardians
              /\ SignedByGuardian(vaa.body, vaa.signatures[i + 1])
              /\ i' = i + 1 /\ lastIndex' = vaa.signatures[i + 1].guardianIndex
              /\ UNCHANGED <<pc, vaa, reason>>
BY DEF CheckSignature, Failures

\* The loop's invariant is inductive.
LEMMA StepInv == IInv /\ [Next]_vars => IInv'
<1> SUFFICES ASSUME IInv, [Next]_vars PROVE IInv'
  OBVIOUS
<1>1. ASSUME NEW v \in Vaas, Call(v)
      PROVE  IInv'
  <2>1. v \in Vaa /\ Len(v.signatures) \in Nat
    BY VaaFacts, QuorumAssumption
  <2>2. /\ pc = "idle" /\ pc' = "called" /\ vaa' = v /\ reason' = ""
        /\ i = 0 /\ lastIndex = -1
        /\ UNCHANGED <<i, lastIndex, certified>>
    BY <1>1 DEF Call, IInv
  <2>3. i' \in 0 .. Len(vaa'.signatures)
    <3>1. 0 \in 0 .. Len(v.signatures)
      BY <2>1
    <3>2. i' = 0 /\ vaa' = v
      BY <2>2
    <3>3. QED BY <3>1, <3>2
  <2>4. TypeOK'
    BY <2>1, <2>2, <2>3 DEF IInv, TypeOK
  <2>5. QED BY <2>2, <2>4 DEF IInv
<1>2. CASE NoQuorum
  BY <1>2, ReturnInv DEF NoQuorum, Failures, IInv, TypeOK
<1>3. CASE EnterLoop
  <2>1. LoopInv'
    BY <1>3 DEF EnterLoop, IInv, LoopInv, HasQuorum, GoodSignature
  <2>2. QED BY <1>3, <2>1 DEF EnterLoop, IInv, TypeOK
<1>4. CASE CheckSignature
  <2>1. pc = "loop" /\ i < Len(vaa.signatures) /\ certified' = certified
    BY <1>4 DEF CheckSignature
  <2>2. ASSUME NEW why \in Failures, Return(why)
        PROVE  IInv'
    BY <2>1, <2>2, ReturnInv DEF IInv, TypeOK
  <2>3. QED BY <1>4, <2>1, <2>2, CheckSignatureCases, LoopStep
<1>5. CASE Accept
  <2>1. vaa \in Vaas
    BY <1>5 DEF Accept, IInv
  <2>2. certified' \subseteq Bodies
    BY <1>5, <2>1, VaaFacts DEF Accept, IInv, TypeOK
  <2>3. QED BY <1>5, <2>2, ReturnInv DEF Accept
<1>6. CASE UNCHANGED vars
  BY <1>6 DEF vars, IInv, TypeOK, LoopInv, HasQuorum, GoodSignature
<1>7. QED BY <1>1, <1>2, <1>3, <1>4, <1>5, <1>6 DEF Next

\* The loop's invariant holds of every call of every VAA.
THEOREM LoopInvariant == Spec => []IInv
<1>1. Init => IInv
  BY DEF Init, IInv, TypeOK
<1>2. QED BY <1>1, StepInv, PTL DEF Spec

\* The loop's variables keep their types for every guardian set and quorum.
THEOREM QuorumTypeCorrect == Spec => []TypeOK
<1>1. IInv => TypeOK BY DEF IInv
<1>2. QED BY <1>1, LoopInvariant, PTL

-----------------------------------------------------------------------------
\* What an accepted VAA proves.

\* The guardians that signed a body can be counted.
LEMMA SupportersFinite ==
    ASSUME NEW b
    PROVE  /\ IsFiniteSet(Slots) /\ Cardinality(Slots) = Guardians
           /\ IsFiniteSet(Supporters(b)) /\ Cardinality(Supporters(b)) \in Nat
<1>1. IsFiniteSet(Slots) /\ Cardinality(Slots) = Guardians
  <2>1. Guardians \in Nat
    BY QuorumAssumption
  <2>2. /\ IsFiniteSet(0 .. (Guardians - 1))
        /\ Cardinality(0 .. (Guardians - 1)) =
               IF 0 > Guardians - 1 THEN 0 ELSE (Guardians - 1) - 0 + 1
    BY <2>1, FS_Interval
  <2>3. QED BY <2>1, <2>2 DEF Slots
<1>2. Supporters(b) \in SUBSET Slots
  BY DEF Supporters
<1>3. QED BY <1>1, <1>2, FS_Subset, FS_CardinalityType

\* Ascending good signatures are as many supporters of the body.
LEMMA WellSignedHasQuorum ==
    ASSUME NEW v \in Vaas, WellSigned(v)
    PROVE  Cardinality(Supporters(v.body)) >= Quorum
<1> DEFINE n == Len(v.signatures)
           g == [k \in 1 .. n |-> v.signatures[k].guardianIndex]
<1>1. n \in Nat
  BY VaaFacts
<1>2. \A k \in 1 .. n : GoodSignature(v, k)
  BY WellSignedIs
<1>3. \A k \in 1 .. n : v.signatures[k].guardianIndex \in Supporters(v.body)
  <2>1. SUFFICES ASSUME NEW k \in 1 .. n
                 PROVE  v.signatures[k].guardianIndex \in Supporters(v.body)
    OBVIOUS
  <2>2. GoodSignature(v, k) /\ <<v.signatures[k].key, v.signatures[k].over>> \in Signed
    BY <1>2, VaaFacts
  <2>3. QED BY <2>2 DEF GoodSignature, Supporters
<1>4. \A j, k \in 1 .. n : j < k => v.signatures[j].guardianIndex < v.signatures[k].guardianIndex
  BY WellSignedIs
<1>5. \A k \in 1 .. n : v.signatures[k].guardianIndex \in Nat
  BY VaaFacts
<1>6. \A j, k \in 1 .. n : g[j] = g[k] => j = k
  <2>1. SUFFICES ASSUME NEW j \in 1 .. n, NEW k \in 1 .. n, g[j] = g[k]
                 PROVE  j = k
    OBVIOUS
  <2>2. g[j] \in Nat /\ g[k] \in Nat
    BY <1>5
  <2>3. ~(j < k) /\ ~(k < j)
    BY <1>4, <2>1, <2>2
  <2>4. QED BY <1>1, <2>3
<1>7. g \in Injection(1 .. n, Supporters(v.body))
  BY <1>3, <1>6 DEF Injection, IsInjective
<1>8. /\ IsFiniteSet(1 .. n) /\ Cardinality(1 .. n) = n
  BY <1>1, FS_Interval
<1>9. Cardinality(1 .. n) <= Cardinality(Supporters(v.body))
  <2> HIDE DEF g, n
  <2>1. QED BY <1>7, SupportersFinite, FS_Injection
<1>10. n >= Quorum
  BY WellSignedIs DEF HasQuorum
<1>11. QED BY <1>1, <1>8, <1>9, <1>10, SupportersFinite, QuorumAssumption

\* When the loop ends, the VAA is well signed.
LEMMA AcceptWellSigned ==
    ASSUME IInv, Accept
    PROVE  vaa \in Vaas /\ WellSigned(vaa)
BY WellSignedIs DEF IInv, Accept, LoopInv

\* A body counts as signed only when a quorum of different guardians signed
\* it: for every guardian set, quorum, and arrangement of the signatures.
THEOREM QuorumSoundCorrect == Spec => []QuorumSound
<1>1. Init => QuorumSound
  BY DEF Init, QuorumSound
<1>2. IInv /\ QuorumSound /\ [Next]_vars => QuorumSound'
  <2> SUFFICES ASSUME IInv, QuorumSound, [Next]_vars PROVE QuorumSound'
    OBVIOUS
  <2>1. ASSUME certified' = certified
        PROVE  QuorumSound'
    BY <2>1 DEF QuorumSound, Supporters
  <2>2. CASE Accept
    <3>1. certified' = certified \union {vaa.body}
      BY <2>2 DEF Accept
    <3>2. Cardinality(Supporters(vaa.body)) >= Quorum
      BY <2>2, AcceptWellSigned, WellSignedHasQuorum
    <3>3. \A b \in certified' : Cardinality(Supporters(b)) >= Quorum
      BY <3>1, <3>2 DEF QuorumSound
    <3>4. QED BY <3>3 DEF QuorumSound, Supporters
  <2>3. CASE UNCHANGED vars
    BY <2>1, <2>3 DEF vars
  <2>4. CASE \E v \in Vaas : Call(v)
    BY <2>1, <2>4 DEF Call
  <2>5. CASE NoQuorum \/ EnterLoop \/ CheckSignature
    BY <2>1, <2>5 DEF NoQuorum, EnterLoop, CheckSignature
  <2>6. QED BY <2>2, <2>3, <2>4, <2>5 DEF Next
<1>3. QED BY <1>1, <1>2, LoopInvariant, PTL DEF Spec

\* A call returns "" exactly for the well-signed VAAs.
THEOREM VerdictExactCorrect == Spec => VerdictExact
<1> DEFINE Exact == pc # "idle" /\ pc' = "idle" => (reason' = "" <=> WellSigned(vaa))
<1>1. IInv /\ [Next]_vars => [Exact]_vars
  <2> SUFFICES ASSUME IInv, Next, pc # "idle", pc' = "idle"
               PROVE  reason' = "" <=> WellSigned(vaa)
    OBVIOUS
  <2>1. vaa \in Vaas
    BY DEF IInv
  <2>2. CASE NoQuorum
    BY <2>2, WellSignedIs DEF NoQuorum, Return
  <2>3. CASE Accept
    BY <2>3, AcceptWellSigned DEF Accept, Return
  <2>4. CASE CheckSignature
    <3>1. pc = "loop" /\ LoopInv /\ i \in 0 .. Len(vaa.signatures) /\ i < Len(vaa.signatures)
      BY <2>4 DEF CheckSignature, IInv, TypeOK
    <3>2. i \in Nat /\ i + 1 \in 1 .. Len(vaa.signatures)
      BY <2>1, <3>1, VaaFacts
    <3>3. /\ reason' \in Failures
          /\ \/ ~InOrder(vaa.signatures[i + 1])
             \/ vaa.signatures[i + 1].guardianIndex >= Guardians
             \/ ~SignedByGuardian(vaa.body, vaa.signatures[i + 1])
      BY <2>4, <3>1 DEF CheckSignature, Return, Failures
    <3>4. reason' # ""
      BY <3>3 DEF Failures
    <3>5. vaa.signatures[i + 1].guardianIndex \in Nat
      BY <2>1, <3>2, VaaFacts
    <3>6. CASE ~InOrder(vaa.signatures[i + 1])
      <4>1. i # 0
        BY <3>1, <3>5, <3>6 DEF InOrder, LoopInv
      <4>2. i \in 1 .. Len(vaa.signatures) /\ i < i + 1
        BY <3>1, <3>2, <4>1
      <4>3. ~(vaa.signatures[i].guardianIndex < vaa.signatures[i + 1].guardianIndex)
        BY <3>1, <3>6, <4>1 DEF InOrder, LoopInv
      <4>4. ~WellSigned(vaa)
        BY <3>2, <4>2, <4>3, WellSignedIs
      <4>5. QED BY <3>4, <4>4
    <3>7. CASE ~(/\ vaa.signatures[i + 1].guardianIndex < Guardians
                 /\ SignedByGuardian(vaa.body, vaa.signatures[i + 1]))
      <4>1. ~GoodSignature(vaa, i + 1)
        BY <2>1, <3>2, <3>7, SignatureChecks
      <4>2. ~WellSigned(vaa)
        BY <3>2, <4>1, WellSignedIs
      <4>3. QED BY <3>4, <4>2
    <3>8. ASSUME vaa.signatures[i + 1].guardianIndex >= Guardians
          PROVE  ~(vaa.signatures[i + 1].guardianIndex < Guardians)
      BY <3>5, <3>8, QuorumAssumption
    <3>9. QED BY <3>3, <3>6, <3>7, <3>8
  <2>5. ASSUME NEW v \in Vaas, Call(v)
        PROVE  FALSE
    BY <2>5 DEF Call
  <2>6. CASE EnterLoop
    BY <2>6 DEF EnterLoop
  <2>7. QED BY <2>2, <2>3, <2>4, <2>5, <2>6 DEF Next
<1>2. QED BY <1>1, LoopInvariant, PTL DEF Spec, VerdictExact

-----------------------------------------------------------------------------
\* The order in which a judge looks for faults.

\* A set of numbers has a least one.
LEMMA MinIs ==
    ASSUME NEW S \in SUBSET Nat, S # {}
    PROVE  Min(S) \in S /\ \A n \in S : Min(S) <= n
<1> DEFINE R == {ss \in Nat \X Nat : ss[1] < ss[2]}
<1>1. IsWellFoundedOn(R, Nat)
  BY NatLessThanWellFounded DEF OpToRel
<1> HIDE DEF R
<1>2. PICK m \in S : \A n \in S : ~ (<<n, m>> \in R)
  BY <1>1, WFMin
<1>3. \A n \in S : m <= n
  <2> SUFFICES ASSUME NEW n \in S PROVE m <= n
    OBVIOUS
  <2>1. ~ (n < m)
    BY <1>2 DEF R
  <2>2. QED BY <2>1
<1>4. QED BY <1>2, <1>3 DEF Min

\* FirstOf names the fault of the first check that fails, and nothing when none
\* does.
LEMMA FirstOfCases ==
    ASSUME NEW n \in Nat, NEW order, DOMAIN order = 1 .. n, NEW faults
    PROVE  \/ /\ FirstOf(order, faults) = ""
              /\ \A j \in 1 .. n : order[j] \notin faults
           \/ \E k \in 1 .. n :
                 /\ FirstOf(order, faults) = order[k] /\ order[k] \in faults
                 /\ \A j \in 1 .. k - 1 : order[j] \notin faults
<1> DEFINE F == {j \in DOMAIN order : order[j] \in faults}
<1>1. CASE F = {}
  BY <1>1 DEF FirstOf
<1>2. CASE F # {}
  <2>1. FirstOf(order, faults) = order[Min(F)]
    BY <1>2 DEF FirstOf
  <2>2. F \in SUBSET Nat /\ \A j \in F : j \in 1 .. n /\ order[j] \in faults
    OBVIOUS
  <2>3. \A j \in 1 .. n : j \notin F => order[j] \notin faults
    OBVIOUS
  <2> HIDE DEF F
  <2>4. Min(F) \in F /\ \A j \in F : Min(F) <= j
    BY <1>2, <2>2, MinIs
  <2>5. Min(F) \in 1 .. n /\ \A j \in 1 .. Min(F) - 1 : j \in 1 .. n /\ j \notin F
    <3>1. Min(F) \in 1 .. n
      BY <2>2, <2>4
    <3>2. SUFFICES ASSUME NEW j \in 1 .. Min(F) - 1
                   PROVE  j \in 1 .. n /\ j \notin F
      BY <3>1
    <3>3. j \in 1 .. n /\ ~ (Min(F) <= j)
      BY <3>1
    <3>4. QED BY <3>3, <2>4
  <2>6. \A j \in 1 .. Min(F) - 1 : order[j] \notin faults
    BY <2>3, <2>5
  <2>7. QED BY <2>1, <2>2, <2>4, <2>5, <2>6
<1>3. QED BY <1>1, <1>2

\* The orders, check by check: the lab's nine checks are the receiver's first
\* nine.
LEMMA Orders ==
    /\ DOMAIN PayloadOrder = 1 .. 5
    /\ PayloadOrder[1] = "length" /\ PayloadOrder[2] = "magic" /\ PayloadOrder[3] = "version"
    /\ PayloadOrder[4] = "type" /\ PayloadOrder[5] = "result"
    /\ DOMAIN LabOrder = 1 .. 9
    /\ LabOrder[1] = "WrongEmitterChain" /\ LabOrder[2] = "WrongEmitter"
    /\ LabOrder[3] = "length" /\ LabOrder[4] = "magic" /\ LabOrder[5] = "version"
    /\ LabOrder[6] = "type" /\ LabOrder[7] = "result"
    /\ LabOrder[8] = "WrongDestinationChain" /\ LabOrder[9] = "VaaAlreadyConsumed"
    /\ DOMAIN ReceiverOrder = 1 .. 11
    /\ \A k \in 1 .. 9 : ReceiverOrder[k] = LabOrder[k]
    /\ ReceiverOrder[10] = "SequenceAlreadyConsumed"
    /\ ReceiverOrder[11] = "DuplicateOutcome"
<1>1. /\ DOMAIN PayloadOrder = 1 .. 5
      /\ PayloadOrder[1] = "length" /\ PayloadOrder[2] = "magic" /\ PayloadOrder[3] = "version"
      /\ PayloadOrder[4] = "type" /\ PayloadOrder[5] = "result"
  BY DEF PayloadOrder
<1> DEFINE S == PayloadFaults \union
                  {"WrongEmitterChain", "WrongEmitter", "WrongDestinationChain",
                   "VaaAlreadyConsumed"}
           front == <<"WrongEmitterChain", "WrongEmitter">>
           back == <<"WrongDestinationChain", "VaaAlreadyConsumed">>
<1>2. PayloadOrder \in Seq(S) /\ Len(PayloadOrder) = 5
  <2>1. "length" \in S /\ "magic" \in S /\ "version" \in S /\ "type" \in S /\ "result" \in S
    BY DEF PayloadFaults
  <2> HIDE DEF S
  <2>2. QED BY <2>1 DEF PayloadOrder
<1>3. /\ front \in Seq(S) /\ Len(front) = 2
      /\ front[1] = "WrongEmitterChain" /\ front[2] = "WrongEmitter"
  <2>1. "WrongEmitterChain" \in S /\ "WrongEmitter" \in S
    OBVIOUS
  <2> HIDE DEF S
  <2>2. QED BY <2>1
<1>4. /\ back \in Seq(S) /\ Len(back) = 2
      /\ back[1] = "WrongDestinationChain" /\ back[2] = "VaaAlreadyConsumed"
  <2>1. "WrongDestinationChain" \in S /\ "VaaAlreadyConsumed" \in S
    OBVIOUS
  <2> HIDE DEF S
  <2>2. QED BY <2>1
<1> DEFINE middle == front \o PayloadOrder
<1>5. LabOrder = middle \o back
  BY DEF LabOrder
<1> HIDE DEF S, front, back
<1>6. /\ middle \in Seq(S) /\ Len(middle) = 7
      /\ \A k \in 1 .. 7 : middle[k] = IF k <= 2 THEN front[k] ELSE PayloadOrder[k - 2]
  <2>1. /\ front \o PayloadOrder \in Seq(S)
        /\ Len(front \o PayloadOrder) = Len(front) + Len(PayloadOrder)
        /\ \A k \in 1 .. Len(front) + Len(PayloadOrder) : (front \o PayloadOrder)[k] =
               IF k <= Len(front) THEN front[k] ELSE PayloadOrder[k - Len(front)]
    BY <1>2, <1>3, ConcatProperties
  <2>2. Len(front) = 2 /\ Len(PayloadOrder) = 5
    BY <1>2, <1>3
  <2>3. QED BY <2>1, <2>2 DEF middle
<1> HIDE DEF middle
<1>6a. /\ LabOrder \in Seq(S) /\ Len(LabOrder) = 9
      /\ \A k \in 1 .. 9 : LabOrder[k] = IF k <= 7 THEN middle[k] ELSE back[k - 7]
  <2>1. /\ middle \o back \in Seq(S)
        /\ Len(middle \o back) = Len(middle) + Len(back)
        /\ \A k \in 1 .. Len(middle) + Len(back) : (middle \o back)[k] =
               IF k <= Len(middle) THEN middle[k] ELSE back[k - Len(middle)]
    BY <1>4, <1>6, ConcatProperties
  <2>2. Len(middle) = 7 /\ Len(back) = 2
    BY <1>4, <1>6
  <2>3. QED BY <2>1, <2>2, <1>5
<1>7. DOMAIN LabOrder = 1 .. 9
  BY <1>6a
<1>8. /\ DOMAIN ReceiverOrder = 1 .. 11
      /\ ReceiverOrder[1] = "WrongEmitterChain" /\ ReceiverOrder[2] = "WrongEmitter"
      /\ ReceiverOrder[3] = "length" /\ ReceiverOrder[4] = "magic"
      /\ ReceiverOrder[5] = "version" /\ ReceiverOrder[6] = "type"
      /\ ReceiverOrder[7] = "result" /\ ReceiverOrder[8] = "WrongDestinationChain"
      /\ ReceiverOrder[9] = "VaaAlreadyConsumed" /\ ReceiverOrder[10] = "SequenceAlreadyConsumed"
      /\ ReceiverOrder[11] = "DuplicateOutcome"
  BY DEF ReceiverOrder
<1>9. /\ LabOrder[1] = "WrongEmitterChain" /\ LabOrder[2] = "WrongEmitter"
      /\ LabOrder[3] = "length" /\ LabOrder[4] = "magic" /\ LabOrder[5] = "version"
      /\ LabOrder[6] = "type" /\ LabOrder[7] = "result"
      /\ LabOrder[8] = "WrongDestinationChain" /\ LabOrder[9] = "VaaAlreadyConsumed"
  <2>1. /\ middle[1] = front[1] /\ middle[2] = front[2] /\ middle[3] = PayloadOrder[1]
        /\ middle[4] = PayloadOrder[2] /\ middle[5] = PayloadOrder[3]
        /\ middle[6] = PayloadOrder[4] /\ middle[7] = PayloadOrder[5]
    BY <1>6
  <2>2. /\ LabOrder[1] = middle[1] /\ LabOrder[2] = middle[2] /\ LabOrder[3] = middle[3]
        /\ LabOrder[4] = middle[4] /\ LabOrder[5] = middle[5] /\ LabOrder[6] = middle[6]
        /\ LabOrder[7] = middle[7] /\ LabOrder[8] = back[1] /\ LabOrder[9] = back[2]
    BY <1>6a
  <2>3. QED BY <2>1, <2>2, <1>1, <1>3, <1>4
<1>10. \A k \in 1 .. 9 : ReceiverOrder[k] = LabOrder[k]
  <2>1. \A k \in 1 .. 9 : k \in {1, 2, 3, 4, 5, 6, 7, 8, 9}
    OBVIOUS
  <2>2. QED BY <2>1, <1>8, <1>9
<1>11. QED BY <1>1, <1>7, <1>8, <1>9, <1>10

\* decodeMatchOutcomeV1 complains when something is wrong, and then of that.
LEMMA DecodeIs ==
    ASSUME NEW payload, payload.malformed \subseteq PayloadFaults
    PROVE  \/ Decode(payload) = "" /\ payload.malformed = {}
           \/ \E k \in 1 .. 5 :
                 /\ Decode(payload) = PayloadOrder[k] /\ PayloadOrder[k] \in payload.malformed
                 /\ \A j \in 1 .. k - 1 : PayloadOrder[j] \notin payload.malformed
<1>1. CASE \A j \in 1 .. 5 : PayloadOrder[j] \notin payload.malformed
  <2>1. payload.malformed = {}
    BY <1>1, Orders DEF PayloadFaults
  <2>2. {k \in DOMAIN PayloadOrder : PayloadOrder[k] \in payload.malformed} = {}
    BY <2>1
  <2>3. QED BY <2>1, <2>2 DEF Decode, FirstOf
<1>2. CASE \E j \in 1 .. 5 : PayloadOrder[j] \in payload.malformed
  BY <1>2, Orders, FirstOfCases DEF Decode
<1>3. QED BY <1>1, <1>2

\* The receiver's fault, if any, is that it has body b, its sequence or its
\* attestation.
Replayed(b, error) ==
    \/ error = ""
    \/ error = "VaaAlreadyConsumed" /\ b \in spent
    \/ error = "SequenceAlreadyConsumed" /\ \E c \in spent : c.sequence = b.sequence
    \/ error = "DuplicateOutcome" /\ IdOf(b) \in stored

\* Whichever checks fail together, the lab names the one the receiver names, and
\* what it does not look at the receiver looks at last.
LEMMA SameFault ==
    ASSUME NEW w \in Wire, NEW consumed, \A v \in consumed : v.vaa.body \in spent
    PROVE  LET lab == FirstOf(LabOrder, LabFaults(w, consumed))
               base == FirstOf(ReceiverOrder, Faults(w.vaa.body))
           IN  /\ lab # "" => base = lab
               /\ lab = "" => w \notin consumed /\ Replayed(w.vaa.body, base)
<1> DEFINE b == w.vaa.body
           payload == b.payload
           L == LabFaults(w, consumed)
           F == Faults(b)
           lab == FirstOf(LabOrder, L)
           base == FirstOf(ReceiverOrder, F)
<1>1. payload.malformed \subseteq PayloadFaults
  <2>1. w.vaa \in Vaas
    BY DEF Wire
  <2>2. QED BY <2>1, VerifierAssumption
<1>2. /\ "WrongEmitterChain" \in F <=> b.chain # SourceChain
      /\ "WrongEmitter" \in F <=> b.emitter # RegisteredEmitter
      /\ "WrongDestinationChain" \in F <=> payload.destination # OurChain
      /\ "VaaAlreadyConsumed" \in F <=> b \in spent
      /\ "SequenceAlreadyConsumed" \in F <=> \E c \in spent : c.sequence = b.sequence
      /\ "DuplicateOutcome" \in F <=> IdOf(b) \in stored
      /\ \A x \in PayloadFaults : x \in F <=> x \in payload.malformed
  BY <1>1 DEF Faults, OriginFaults, ReplayFaults, PayloadFaults
<1>3. Decode(payload) \in PayloadFaults \union {""}
  BY <1>1, DecodeIs
<1>4. /\ "WrongEmitterChain" \in L <=> b.chain # SourceChain
      /\ "WrongEmitter" \in L <=> b.emitter # RegisteredEmitter
      /\ "WrongDestinationChain" \in L <=> payload.destination # OurChain
      /\ "VaaAlreadyConsumed" \in L <=> w \in consumed
      /\ \A x \in PayloadFaults : x \in L <=> x = Decode(payload)
  BY <1>3 DEF LabFaults, PayloadFaults
<1>5. w \in consumed => b \in spent
  OBVIOUS
<1> HIDE DEF L, F, b
<1>6. \A k \in 1 .. 5 : PayloadOrder[k] \in PayloadFaults /\ LabOrder[k + 2] = PayloadOrder[k]
  <2>1. \A k \in 1 .. 5 : k \in {1, 2, 3, 4, 5}
    OBVIOUS
  <2>2. QED BY <2>1, Orders DEF PayloadFaults
<1>7. \A k \in 1 .. 9 : k \in 3 .. 7 \/ k \in {1, 2, 8, 9}
  OBVIOUS
\* Before the lab's verdict the two lists of faults agree.
<1>8. ASSUME NEW k \in 1 .. 9, LabOrder[k] \in L, \A j \in 1 .. k - 1 : LabOrder[j] \notin L
      PROVE  ReceiverOrder[k] \in F /\ \A j \in 1 .. k - 1 : ReceiverOrder[j] \notin F
  <2>1. ReceiverOrder[k] \in F
    <3>1. CASE k \in {1, 2, 8, 9}
      BY <1>2, <1>4, <1>5, <1>8, <3>1, Orders
    <3>2. CASE k \in 3 .. 7
      <4>1. k - 2 \in 1 .. 5 /\ k = (k - 2) + 2
        BY <3>2
      <4>2. LabOrder[k] = PayloadOrder[k - 2] /\ LabOrder[k] \in PayloadFaults
        BY <4>1, <1>6
      <4>3. LabOrder[k] = Decode(payload)
        BY <4>2, <1>4, <1>8
      <4>4. LabOrder[k] \in payload.malformed
        BY <4>2, <4>3, <1>1, DecodeIs DEF PayloadFaults
      <4>5. QED BY <4>2, <4>4, <1>2, Orders
    <3>3. QED BY <3>1, <3>2, <1>7
  <2>2. ASSUME NEW j \in 1 .. k - 1
        PROVE  LabOrder[j] \notin F
    <3>1. j \in 1 .. 8 /\ LabOrder[j] \notin L
      BY <1>8
    <3>2. CASE j \in {1, 2, 8}
      BY <1>2, <1>4, <3>1, <3>2, Orders
    <3>3. CASE j \in 3 .. 7
      <4>1. j - 2 \in 1 .. 5 /\ j = (j - 2) + 2
        BY <3>3
      <4>2. LabOrder[j] = PayloadOrder[j - 2] /\ LabOrder[j] \in PayloadFaults
        BY <4>1, <1>6
      <4>3. SUFFICES ASSUME LabOrder[j] \in payload.malformed PROVE FALSE
        BY <4>2, <1>2
      \* The first thing wrong would have been the lab's verdict before.
      <4>4. PICK d \in 1 .. 5 :
                /\ Decode(payload) = PayloadOrder[d]
                /\ \A e \in 1 .. d - 1 : PayloadOrder[e] \notin payload.malformed
        BY <4>3, <1>1, DecodeIs
      <4>5. d + 2 <= j
        <5>1. ~ (j - 2 \in 1 .. d - 1)
          BY <4>2, <4>3, <4>4
        <5>2. QED BY <5>1, <4>1
      <4>6. d + 2 \in 1 .. k - 1
        BY <4>5, <3>3
      <4>7. LabOrder[d + 2] \in L
        BY <4>4, <1>4, <1>6
      <4>8. QED BY <4>6, <4>7, <1>8
    <3>4. QED BY <3>1, <3>2, <3>3
  <2>3. \A j \in 1 .. k - 1 : j \in 1 .. 9
    OBVIOUS
  <2>4. QED BY <2>1, <2>2, <2>3, Orders
<1>9. 9 \in Nat /\ DOMAIN LabOrder = 1 .. 9 /\ 11 \in Nat /\ DOMAIN ReceiverOrder = 1 .. 11
  BY Orders
<1>10. \/ lab = "" /\ \A j \in 1 .. 9 : LabOrder[j] \notin L
      \/ \E k \in 1 .. 9 : /\ lab = LabOrder[k] /\ LabOrder[k] \in L
                            /\ \A j \in 1 .. k - 1 : LabOrder[j] \notin L
  BY <1>9, FirstOfCases
<1>11. CASE lab # ""
  <2>1. PICK k \in 1 .. 9 : /\ lab = LabOrder[k] /\ LabOrder[k] \in L
                            /\ \A j \in 1 .. k - 1 : LabOrder[j] \notin L
    BY <1>11, <1>10
  <2>2. /\ k \in 1 .. 11 /\ ReceiverOrder[k] \in F
        /\ \A j \in 1 .. k - 1 : ReceiverOrder[j] \notin F
    BY <2>1, <1>8
  <2>3. base = ReceiverOrder[k]
    <3>1. PICK m \in 1 .. 11 : /\ base = ReceiverOrder[m] /\ ReceiverOrder[m] \in F
                               /\ \A j \in 1 .. m - 1 : ReceiverOrder[j] \notin F
      BY <2>2, <1>9, FirstOfCases
    <3>2. ~ (k \in 1 .. m - 1) /\ ~ (m \in 1 .. k - 1)
      BY <2>2, <3>1
    <3>3. m = k
      BY <3>2
    <3>4. QED BY <3>1, <3>3
  <2>4. base = lab
    BY <2>1, <2>3, Orders
  <2>5. QED BY <2>4, <1>11 DEF L, F, b
<1>12. CASE lab = ""
  <2>1. \A j \in 1 .. 9 : LabOrder[j] \notin L
    <3>1. \A k \in 1 .. 9 : LabOrder[k] # ""
      <4>1. SUFFICES ASSUME NEW k \in 1 .. 9 PROVE LabOrder[k] # ""
        OBVIOUS
      <4>2. CASE k \in {1, 2, 8, 9}
        BY <4>2, Orders
      <4>3. CASE k \in 3 .. 7
        <5>1. k - 2 \in 1 .. 5 /\ k = (k - 2) + 2
          BY <4>3
        <5>2. LabOrder[k] \in PayloadFaults
          BY <5>1, <1>6
        <5>3. QED BY <5>2 DEF PayloadFaults
      <4>4. QED BY <4>2, <4>3, <1>7
    <3>2. QED BY <3>1, <1>12, <1>10
  <2>2. payload.malformed = {}
    <3>1. SUFFICES ASSUME payload.malformed # {} PROVE FALSE
      OBVIOUS
    <3>2. PICK d \in 1 .. 5 : Decode(payload) = PayloadOrder[d]
      BY <3>1, <1>1, DecodeIs
    <3>3. LabOrder[d + 2] \in L /\ d + 2 \in 1 .. 9
      BY <3>2, <1>4, <1>6
    <3>4. QED BY <3>3, <2>1
  <2>3. \A j \in 1 .. 8 : ReceiverOrder[j] \notin F
    <3>1. SUFFICES ASSUME NEW j \in 1 .. 8 PROVE LabOrder[j] \notin F
      BY Orders
    <3>2. CASE j \in {1, 2, 8}
      BY <1>2, <1>4, <2>1, <3>2, Orders
    <3>3. CASE j \in 3 .. 7
      <4>1. j - 2 \in 1 .. 5 /\ j = (j - 2) + 2
        BY <3>3
      <4>2. LabOrder[j] \in PayloadFaults
        BY <4>1, <1>6
      <4>3. QED BY <4>2, <1>2, <2>2
    <3>4. QED BY <3>2, <3>3
  <2>4. base = "" \/ \E k \in 1 .. 11 : base = ReceiverOrder[k] /\ ReceiverOrder[k] \in F
    BY <1>9, FirstOfCases
  <2>5. \A k \in 1 .. 11 : k \in 1 .. 8 \/ k \in {9, 10, 11}
    OBVIOUS
  <2>6. Replayed(b, base)
    <3>1. SUFFICES ASSUME NEW k \in 1 .. 11, base = ReceiverOrder[k], ReceiverOrder[k] \in F
                   PROVE  Replayed(b, base)
      BY <2>4 DEF Replayed
    <3>2. k \in {9, 10, 11}
      BY <2>3, <2>5, <3>1
    <3>3. base \in {"VaaAlreadyConsumed", "SequenceAlreadyConsumed", "DuplicateOutcome"}
          /\ base \in F
      <4>1. /\ ReceiverOrder[9] = "VaaAlreadyConsumed"
            /\ ReceiverOrder[10] = "SequenceAlreadyConsumed"
            /\ ReceiverOrder[11] = "DuplicateOutcome"
        BY Orders
      <4>2. base = ReceiverOrder[k]
        BY <3>1
      <4> HIDE DEF base
      <4>3. QED BY <3>1, <3>2, <4>1, <4>2
    <3> HIDE DEF base
    <3>4. QED BY <3>3, <1>2 DEF Replayed
  <2>7. w \notin consumed
    BY <2>1, <1>4, Orders
  <2>8. QED BY <2>6, <2>7, <1>12 DEF L, F, b
<1>13. QED BY <1>11, <1>12

-----------------------------------------------------------------------------
\* The files of a run.

\* A run always has all its files, each of its kind.
FilesInv ==
    /\ files = [file \in RunFiles |-> files[file]]
    /\ \A file \in RunFiles : Readable(file, files[file])

\* An edit puts a file of the same kind in a file's place.
LEMMA FilesStep == FilesInv /\ [VerifierNext]_allVars => FilesInv'
<1> SUFFICES ASSUME FilesInv, [VerifierNext]_allVars PROVE FilesInv'
  OBVIOUS
<1>1. CASE UNCHANGED files
  BY <1>1 DEF FilesInv
<1>2. CASE Edit
  <2>1. PICK e \in Edits : files' = [files EXCEPT ![e.file] = e.content]
    BY <1>2 DEF Edit
  <2>2. e.file \in RunFiles /\ Readable(e.file, e.content)
    BY VerifierAssumption
  <2>3. files' = [file \in RunFiles |-> IF file = e.file THEN e.content ELSE files[file]]
    BY <2>1 DEF FilesInv
  <2>4. \A file \in RunFiles :
            files'[file] = IF file = e.file THEN e.content ELSE files[file]
    BY <2>3
  <2>5. files' = [file \in RunFiles |-> files'[file]]
    BY <2>3
  <2>6. \A file \in RunFiles : Readable(file, files'[file])
    BY <2>2, <2>4 DEF FilesInv
  <2>7. QED BY <2>5, <2>6 DEF FilesInv
<1>3. CASE UNCHANGED allVars
  BY <1>3, <1>1 DEF allVars
<1>4. ASSUME NEW w, CallBase(w)
      PROVE  UNCHANGED files
  BY <1>4 DEF CallBase
<1>5. Unparsed \/ CoreStep \/ Consume \/ SetReporters => UNCHANGED files
  BY DEF Unparsed, CoreStep, Consume, SetReporters
<1>6. ASSUME NEW report, ReportLevel3(report)
      PROVE  UNCHANGED files
  BY <1>6 DEF ReportLevel3
<1>7. QED BY <1>1, <1>2, <1>3, <1>4, <1>5, <1>6 DEF VerifierNext

\* Two score records of which only the times might differ are one record when
\* their times are the same.
LEMMA SameRecord ==
    ASSUME NEW r, NEW s,
           r = [field \in ScoreRecordFields |-> r[field]],
           s = [field \in ScoreRecordFields |-> s[field]],
           [r EXCEPT !.time = None] = [s EXCEPT !.time = None],
           r.time = s.time
    PROVE  r = s
<1>1. \A field \in ScoreRecordFields : field # "time" =>
          [r EXCEPT !.time = None][field] = r[field] /\ [s EXCEPT !.time = None][field] = s[field]
  OBVIOUS
<1>2. \A field \in ScoreRecordFields : r[field] = s[field]
  BY <1>1
<1>3. QED BY <1>2

\* What verify-evidence passes has the record, the proof, the instruction and the
\* payload that the vector was made from.
LEMMA EvidenceIsRecorded ==
    ASSUME FilesInv, EvidencePasses(files)
    PROVE  /\ files.record = Recorded.record /\ files.proof = Recorded.proof
           /\ files.instruction = Recorded.instruction
           /\ files.vaa.vaa.body.payload = Vector.payload
<1> DEFINE p == Vector.payload
<1>1. /\ files.vaa.vaa.body.payload = p
      /\ BundleHash(files.record, files.proof) = p.bundleHash
      /\ InstructionHash(files.proof, files.instruction) = p.instructionHash
      /\ p.time = files.record.time
  BY DEF EvidencePasses, PayloadMatches
<1>2. /\ p.bundleHash = BundleHash(Recorded.record, Recorded.proof)
      /\ p.instructionHash = InstructionHash(Recorded.proof, Recorded.instruction)
      /\ p.time = Recorded.record.time
  BY DEF Vector, Encode
<1> HIDE DEF p
<1>3. /\ files.proof = Recorded.proof /\ files.instruction = Recorded.instruction
      /\ [files.record EXCEPT !.time = None] = [Recorded.record EXCEPT !.time = None]
  BY <1>1, <1>2 DEF BundleHash, InstructionHash
<1>4. /\ files.record = [field \in ScoreRecordFields |-> files.record[field]]
      /\ Recorded.record = [field \in ScoreRecordFields |-> Recorded.record[field]]
  <2>1. Readable("record", files["record"]) /\ Readable("record", Recorded["record"])
    BY VerifierAssumption DEF FilesInv, RunFiles
  <2>2. QED BY <2>1 DEF Readable
<1>5. files.record.time = Recorded.record.time
  BY <1>1, <1>2
<1>6. files.record = Recorded.record
  BY <1>3, <1>4, <1>5, SameRecord
<1>7. QED BY <1>1, <1>3, <1>6 DEF p

\* No edit of a run's files, however many are changed together, passes
\* verify-evidence and tells another story than the recorded one.
THEOREM ForgeryCorrect == VerifierSpec => []ForgeryIsNoticed
<1>1. VerifierInit => FilesInv
  BY VerifierAssumption DEF VerifierInit, FilesInv
<1>2. FilesInv => ForgeryIsNoticed
  <2> SUFFICES ASSUME FilesInv, EvidencePasses(files) PROVE ForgeryIsNoticed
    BY DEF ForgeryIsNoticed
  <2>1. files.level3.id = files.level4.id
    BY DEF EvidencePasses
  <2>2. QED BY <2>1, EvidenceIsRecorded, VectorAssumption DEF ForgeryIsNoticed
<1>3. QED BY <1>1, <1>2, FilesStep, PTL DEF VerifierSpec

-----------------------------------------------------------------------------
\* Base's call, next to the lab.

\* A parsed VAA is in the loop; what the loop has seen is what the lab says.
CallInv ==
    /\ submitted # None => submitted \in Wire
    /\ pc # "idle" => verdict = "running"
    /\ verdict = "unparsed" /\ submitted # None =>
           submitted.defect # "none" \/ submitted.garbled # 0
    /\ verdict = "running" =>
           /\ submitted \in Wire /\ submitted.defect = "none" /\ submitted.garbled = 0
           /\ pc # "idle" => vaa = submitted.vaa
           /\ pc = "loop" => /\ HasQuorum(submitted.vaa)
                             /\ \A k \in 1 .. i : LabSignature(submitted, k) = ""
           /\ pc = "idle" => reason = LabCore(submitted)

\* What Base took is used up, and nothing else is, nor stored.
HistoryInv ==
    /\ \A w \in delivered : w.vaa.body \in spent
    /\ \A b \in spent : \E w \in delivered : w.vaa.body = b
    /\ \A id \in stored : \E w \in delivered : IdOf(w.vaa.body) = id

VInv == IInv /\ FilesInv /\ CallInv /\ HistoryInv

\* Shape of a byte string.
LEMMA WireFacts ==
    ASSUME NEW w \in Wire
    PROVE  /\ w # None
           /\ w.defect \in Defects /\ w.vaa \in Vaas
           /\ Len(w.vaa.signatures) \in Nat
           /\ DOMAIN w.vaa.signatures = 1 .. Len(w.vaa.signatures)
           /\ w.garbled \in 0 .. Len(w.vaa.signatures)
<1>1. w \in [defect : Defects, garbled : Nat, vaa : Vaas]
      /\ w.garbled \in 0 .. Len(w.vaa.signatures)
  BY DEF Wire
<1>2. w.defect \in Defects /\ w.vaa \in Vaas
  BY <1>1
<1>3. w.vaa.signatures \in Seq([guardianIndex : Nat, key : Keys, over : Bodies])
  BY <1>2, VaaFacts
<1>4. QED BY <1>1, <1>2, <1>3, VerifierAssumption

\* What the lab says of the signatures together, from what it says of each.
LEMMA LabCoreIs ==
    ASSUME NEW w \in Wire
    PROVE  /\ ~HasQuorum(w.vaa) => LabCore(w) = "no quorum"
           /\ HasQuorum(w.vaa)
                /\ (\A k \in 1 .. Len(w.vaa.signatures) : LabSignature(w, k) = "") =>
              LabCore(w) = ""
           /\ \A k \in 1 .. Len(w.vaa.signatures) :
                 HasQuorum(w.vaa) /\ LabSignature(w, k) # ""
                   /\ (\A j \in 1 .. k - 1 : LabSignature(w, j) = "") =>
                 LabCore(w) = LabSignature(w, k)
           /\ \A k \in 1 .. Len(w.vaa.signatures) :
                 LabSignature(w, k) # "" => LabCore(w) # ""
<1> DEFINE n == Len(w.vaa.signatures)
           bad == {k \in DOMAIN w.vaa.signatures : LabSignature(w, k) # ""}
<1>1. n \in Nat /\ DOMAIN w.vaa.signatures = 1 .. n
  BY WireFacts
<1>2. HasQuorum(w.vaa) <=> ~ (n < Quorum)
  BY <1>1, QuorumAssumption DEF HasQuorum
<1>3. LabCore(w) = IF n < Quorum THEN "no quorum"
                   ELSE IF bad # {} THEN LabSignature(w, Min(bad)) ELSE ""
  BY DEF LabCore
<1> HIDE DEF n
<1>4. bad = {k \in 1 .. n : LabSignature(w, k) # ""}
  BY <1>1
<1>5. bad # {} => Min(bad) \in bad /\ \A k \in bad : Min(bad) <= k
  <2>1. n \in Nat
    BY <1>1
  <2>2. \A k \in 1 .. n : k \in Nat
    BY <2>1
  <2>3. \A k \in bad : k \in 1 .. n
    BY <1>4
  <2> HIDE DEF bad
  <2>4. bad \in SUBSET Nat
    BY <2>2, <2>3
  <2>5. QED BY <2>4, MinIs
<1> HIDE DEF bad
<1>6. ~HasQuorum(w.vaa) => LabCore(w) = "no quorum"
  BY <1>2, <1>3
<1>7. HasQuorum(w.vaa) /\ (\A k \in 1 .. n : LabSignature(w, k) = "") => LabCore(w) = ""
  BY <1>2, <1>3, <1>4
<1>8. ASSUME NEW k \in 1 .. n, HasQuorum(w.vaa), LabSignature(w, k) # "",
             \A j \in 1 .. k - 1 : LabSignature(w, j) = ""
      PROVE  LabCore(w) = LabSignature(w, k)
  <2>1. k \in bad
    BY <1>4, <1>8
  <2>2. Min(bad) \in 1 .. n /\ Min(bad) <= k
    BY <2>1, <1>4, <1>5
  <2>3. LabSignature(w, Min(bad)) # ""
    BY <2>1, <1>4, <1>5
  <2>4. ~ (Min(bad) \in 1 .. k - 1)
    BY <2>3, <1>8
  <2> DEFINE m == Min(bad)
  <2>5. n \in Nat
    BY <1>1
  <2> HIDE DEF m
  <2>6. m = k
    <3>1. m \in 1 .. n /\ m <= k /\ ~ (m \in 1 .. k - 1)
      BY <2>2, <2>4 DEF m
    <3>2. QED BY <3>1, <2>5
  <2>7. QED BY <2>1, <2>6, <1>2, <1>3, <1>8 DEF m
<1>9. ASSUME NEW k \in 1 .. n, LabSignature(w, k) # ""
      PROVE  LabCore(w) # ""
  <2>1. k \in bad
    BY <1>4, <1>9
  <2>2. LabSignature(w, Min(bad)) # ""
    BY <2>1, <1>4, <1>5
  <2>3. QED BY <2>1, <2>2, <1>3
<1>10. QED BY <1>6, <1>7, <1>8, <1>9 DEF n

\* One iteration of the loop agrees with the lab on the next signature.
LEMMA LabLooksAlike ==
    ASSUME IInv, CallInv, verdict = "running", CheckSignature
    PROVE  \/ /\ LabSignature(submitted, i + 1) = ""
              /\ i' = i + 1 /\ UNCHANGED <<pc, vaa, reason>>
           \/ /\ LabSignature(submitted, i + 1) # ""
              /\ Return(LabSignature(submitted, i + 1))
<1> DEFINE w == submitted
           sigs == w.vaa.signatures
           sig == sigs[i + 1]
           index == sig.guardianIndex
           lab == LabSignature(w, i + 1)
<1>1. /\ pc = "loop" /\ vaa = w.vaa /\ w \in Wire /\ w.garbled = 0
      /\ i < Len(sigs) /\ LoopInv /\ i \in 0 .. Len(sigs)
  BY DEF CallInv, CheckSignature, IInv, TypeOK
<1>2. w.vaa \in Vaas /\ Len(sigs) \in Nat
  BY <1>1, WireFacts
<1>3. i \in Nat /\ i + 1 \in 1 .. Len(sigs) /\ (i # 0 => i \in 1 .. Len(sigs)) /\ (i + 1) - 1 = i
  BY <1>1, <1>2
<1>4. \A k \in 1 .. Len(sigs) : sigs[k].guardianIndex \in Nat
  BY <1>2, VaaFacts
<1>5. lastIndex = IF i = 0 THEN -1 ELSE sigs[i].guardianIndex
  BY <1>1 DEF LoopInv
<1>6. InOrder(sig) <=> ~ (i + 1 > 1 /\ sigs[i + 1].guardianIndex <= sigs[(i + 1) - 1].guardianIndex)
  <2>1. index \in Nat
    BY <1>3, <1>4
  <2>2. CASE i = 0
    BY <2>1, <2>2, <1>5 DEF InOrder
  <2>3. CASE i # 0
    <3>1. sigs[i].guardianIndex \in Nat
      BY <2>3, <1>3, <1>4
    <3>2. lastIndex = sigs[(i + 1) - 1].guardianIndex /\ i + 1 > 1
      BY <2>3, <1>3, <1>5
    <3>3. lastIndex \in Nat
      BY <3>1, <2>3, <1>5
    <3>4. InOrder(sig) <=> ~ (index <= lastIndex)
      BY <3>3, <2>1 DEF InOrder
    <3>5. QED BY <3>2, <3>4
  <2>4. QED BY <2>2, <2>3
<1>7. index >= Guardians <=> ~ (index < Guardians)
  BY <1>3, <1>4, QuorumAssumption
<1>8. index < Guardians =>
          (SignedByGuardian(w.vaa.body, sig) <=>
             sig.over = w.vaa.body /\ sig.key = guardianSet[index])
  <2>1. index < Guardians => index \in Slots
    BY <1>3, <1>4, QuorumAssumption DEF Slots
  <2>2. GoodSignature(w.vaa, i + 1) <=>
            index < Guardians /\ SignedByGuardian(w.vaa.body, sig)
    BY <1>2, <1>3, SignatureChecks
  <2>3. QED BY <2>1, <2>2 DEF GoodSignature
<1>9. i + 1 # w.garbled
  BY <1>1, <1>3
<1>10. lab = IF ~InOrder(sig) THEN "signature indices out of order"
             ELSE IF ~ (index < Guardians) THEN "guardian index out of bounds"
             ELSE IF sig.over # w.vaa.body \/ sig.key # guardianSet[index]
             THEN "VM signature invalid"
             ELSE ""
  BY <1>6, <1>7, <1>9 DEF LabSignature
<1>11. \/ ~InOrder(sig) /\ Return("signature indices out of order")
       \/ InOrder(sig) /\ ~ (index < Guardians) /\ Return("guardian index out of bounds")
       \/ /\ InOrder(sig) /\ index < Guardians /\ ~SignedByGuardian(w.vaa.body, sig)
          /\ Return("VM signature invalid")
       \/ /\ InOrder(sig) /\ index < Guardians /\ SignedByGuardian(w.vaa.body, sig)
          /\ i' = i + 1 /\ UNCHANGED <<pc, vaa, reason>>
  BY <1>1, <1>7 DEF CheckSignature
<1> HIDE DEF sig, index, lab
<1>12. QED
  <2>1. CASE ~InOrder(sig) /\ Return("signature indices out of order")
    <3>1. lab = "signature indices out of order"
      BY <2>1, <1>10
    <3>2. QED BY <2>1, <3>1 DEF lab
  <2>2. CASE InOrder(sig) /\ ~ (index < Guardians) /\ Return("guardian index out of bounds")
    <3>1. lab = "guardian index out of bounds"
      BY <2>2, <1>10
    <3>2. QED BY <2>2, <3>1 DEF lab
  <2>3. CASE /\ InOrder(sig) /\ index < Guardians /\ ~SignedByGuardian(w.vaa.body, sig)
             /\ Return("VM signature invalid")
    <3>1. lab = "VM signature invalid"
      BY <2>3, <1>8, <1>10
    <3>2. QED BY <2>3, <3>1 DEF lab
  <2>4. CASE /\ InOrder(sig) /\ index < Guardians /\ SignedByGuardian(w.vaa.body, sig)
             /\ i' = i + 1 /\ UNCHANGED <<pc, vaa, reason>>
    <3>1. lab = ""
      BY <2>4, <1>8, <1>10
    <3>2. QED BY <2>4, <3>1 DEF lab
  <2>5. QED BY <1>11, <2>1, <2>2, <2>3, <2>4

\* Base's call is a call of GuardianQuorum, or nothing of its concern.
LEMMA QuorumStep ==
    ASSUME FilesInv, [VerifierNext]_allVars
    PROVE  [Next]_vars
<1>1. files.vaa \in Wire
  <2>1. Readable("vaa", files["vaa"])
    BY DEF FilesInv, RunFiles
  <2>2. QED BY <2>1 DEF Readable
<1>2. ASSUME NEW w \in Submittable, CallBase(w)
      PROVE  [Next]_vars
  <2>1. w \in Wire
    BY <1>1, VerifierAssumption DEF Submittable
  <2>2. w.vaa \in Vaas
    BY <2>1, WireFacts
  <2>3. QED BY <1>2, <2>2 DEF CallBase, Next
<1>3. CASE Unparsed
  BY <1>3 DEF Unparsed
<1>4. CASE CoreStep
  BY <1>4 DEF CoreStep, Next
<1>5. CASE Consume
  BY <1>5 DEF Consume
<1>6. CASE Edit
  BY <1>6 DEF Edit
<1>7. CASE SetReporters
  BY <1>7 DEF SetReporters
<1>8. ASSUME NEW report, ReportLevel3(report)
      PROVE  [Next]_vars
  BY <1>8 DEF ReportLevel3
<1>9. CASE UNCHANGED allVars
  BY <1>9 DEF allVars
<1>10. QED BY <1>2, <1>3, <1>4, <1>5, <1>6, <1>7, <1>8, <1>9 DEF VerifierNext

\* How the registry refuses a report.
LEMMA RefusalIs ==
    ASSUME NEW report
    PROVE  Refusal(report) \in {"", "NotReporter", "FixtureFrozen", "FixtureFinalized",
                                "DuplicateReport"}
<1> DEFINE F == RegistryFaults(report)
<1>1. 4 \in Nat /\ DOMAIN RegistryOrder = 1 .. 4
  BY DEF RegistryOrder
<1>2. \A k \in 1 .. 4 : RegistryOrder[k] \in {"NotReporter", "FixtureFrozen",
                                              "FixtureFinalized", "DuplicateReport"}
  <2>1. \A k \in 1 .. 4 : k \in {1, 2, 3, 4}
    OBVIOUS
  <2>2. QED BY <2>1 DEF RegistryOrder
<1> HIDE DEF F
<1>3. \/ FirstOf(RegistryOrder, F) = ""
      \/ \E k \in 1 .. 4 : FirstOf(RegistryOrder, F) = RegistryOrder[k] /\ RegistryOrder[k] \in F
  BY <1>1, FirstOfCases
<1>4. FirstOf(RegistryOrder, F) \in {"", "NotReporter", "FixtureFrozen", "FixtureFinalized",
                                     "DuplicateReport"}
  BY <1>2, <1>3
<1>5. QED BY <1>4 DEF Refusal, F

\* What the lab says of signatures goes by the VAA alone.
LEMMA CallStep ==
    ASSUME IInv, FilesInv, CallInv, [VerifierNext]_allVars
    PROVE  CallInv'
<1>1. None \notin Wire
  BY VerifierAssumption
<1>2. verdict = "running" => submitted # None
  BY <1>1 DEF CallInv
<1>3. ASSUME NEW w \in Submittable, CallBase(w)
      PROVE  CallInv'
  <2>1. w \in Wire
    <3>1. Readable("vaa", files["vaa"])
      BY DEF FilesInv, RunFiles
    <3>2. QED BY <3>1, VerifierAssumption DEF Readable, Submittable
  <2>2. submitted = None /\ submitted' = w
    BY <1>3 DEF CallBase
  <2>3. pc = "idle"
    BY <2>2, <1>2 DEF CallInv
  <2>4. CASE w.defect = "none" /\ w.garbled = 0
    <3>1. verdict' = "running" /\ pc' = "called" /\ vaa' = w.vaa
      BY <1>3, <2>4 DEF CallBase, Call
    <3>2. QED BY <2>1, <2>2, <2>4, <3>1 DEF CallInv
  <2>5. CASE ~ (w.defect = "none" /\ w.garbled = 0)
    <3>1. verdict' = "unparsed" /\ pc' = "idle"
      BY <1>3, <2>3, <2>5 DEF CallBase, vars
    <3>2. QED BY <2>1, <2>2, <2>5, <3>1 DEF CallInv
  <2>6. QED BY <2>4, <2>5
<1>4. CASE Unparsed
  <2>1. submitted' = None /\ pc' = pc /\ verdict' \in {"BadVaa", "Panic"} /\ verdict = "unparsed"
    BY <1>4 DEF Unparsed, vars
  <2>2. pc = "idle"
    BY <2>1 DEF CallInv
  <2>3. QED BY <2>1, <2>2 DEF CallInv
<1>5. CASE CoreStep
  <2> DEFINE w == submitted
             sigs == w.vaa.signatures
  <2>1. /\ verdict = "running" /\ verdict' = "running" /\ pc # "idle" /\ submitted' = submitted
        /\ w \in Wire /\ w.defect = "none" /\ w.garbled = 0 /\ vaa = w.vaa
    BY <1>5 DEF CoreStep, CallInv, receiverVars
  <2>2. LabCore(w)' = LabCore(w) /\ \A k : LabSignature(w, k)' = LabSignature(w, k)
    BY <2>1 DEF LabCore, LabSignature
  <2>3. Len(sigs) \in Nat
    BY <2>1, WireFacts
  <2>4. HasQuorum(w.vaa)' = HasQuorum(w.vaa)
    BY <2>1 DEF HasQuorum
  <2>5. ASSUME Return(LabCore(w))
        PROVE  CallInv'
    <3>1. pc' = "idle" /\ reason' = LabCore(w)'
      BY <2>2, <2>5 DEF Return
    <3>2. QED BY <2>1, <3>1 DEF CallInv
  <2>6. CASE NoQuorum
    <3>1. LabCore(w) = "no quorum"
      BY <2>1, <2>6, LabCoreIs DEF NoQuorum
    <3>2. QED BY <2>5, <2>6, <3>1 DEF NoQuorum
  <2>7. CASE EnterLoop
    <3>1. pc' = "loop" /\ vaa' = vaa /\ i' = i /\ HasQuorum(w.vaa) /\ i = 0
      BY <2>1, <2>7 DEF EnterLoop, IInv
    <3>2. QED BY <2>1, <2>4, <3>1 DEF CallInv
  <2>8. CASE CheckSignature
    <3>1. /\ pc = "loop" /\ i \in 0 .. Len(sigs) /\ i < Len(sigs) /\ HasQuorum(w.vaa)
          /\ \A k \in 1 .. i : LabSignature(w, k) = ""
      BY <2>1, <2>8 DEF CheckSignature, CallInv, IInv, TypeOK
    <3>2. i \in Nat /\ i + 1 \in 1 .. Len(sigs) /\ i = (i + 1) - 1
      <4>1. i \in 0 .. Len(sigs) /\ i < Len(sigs)
        BY <3>1
      <4> HIDE DEF sigs
      <4>2. QED BY <4>1, <2>3
    <3>3. CASE /\ LabSignature(w, i + 1) = "" /\ i' = i + 1 /\ UNCHANGED <<pc, vaa, reason>>
      <4>1. \A k \in 1 .. i + 1 : LabSignature(w, k) = ""
        <5>1. \A k \in 1 .. i + 1 : k \in 1 .. i \/ k = i + 1
          BY <3>2
        <5>2. QED BY <5>1, <3>1, <3>3
      <4>2. \A k \in 1 .. i' : LabSignature(w, k)' = ""
        BY <4>1, <3>3, <2>2
      <4>3. HasQuorum(w.vaa)' /\ pc' = "loop" /\ vaa' = w.vaa
        BY <3>1, <3>3, <2>1, <2>4
      <4>4. QED BY <2>1, <4>2, <4>3 DEF CallInv
    <3>4. CASE /\ LabSignature(w, i + 1) # "" /\ Return(LabSignature(w, i + 1))
      <4>1. \A j \in 1 .. (i + 1) - 1 : LabSignature(w, j) = ""
        BY <3>1, <3>2
      <4>2. LabCore(w) = LabSignature(w, i + 1)
        BY <2>1, <3>1, <3>2, <3>4, <4>1, LabCoreIs
      <4>3. QED BY <2>5, <3>4, <4>2
    <3>5. QED BY <2>1, <2>8, <3>3, <3>4, LabLooksAlike
  <2>9. CASE Accept
    <3>1. /\ i = Len(sigs) /\ HasQuorum(w.vaa) /\ Return("")
          /\ \A k \in 1 .. i : LabSignature(w, k) = ""
      BY <2>1, <2>9 DEF Accept, CallInv
    <3>2. LabCore(w) = ""
      BY <2>1, <3>1, LabCoreIs
    <3>3. QED BY <2>5, <3>1, <3>2
  <2>10. QED BY <1>5, <2>6, <2>7, <2>8, <2>9 DEF CoreStep
<1>6. CASE Consume
  <2>1. submitted' = None /\ pc = "idle" /\ pc' = "idle" /\ verdict = "running"
    BY <1>6 DEF Consume, vars
  <2>2. verdict' # "running"
    <3>1. \/ verdict' = reason
          \/ verdict' = FirstOf(ReceiverOrder, Faults(submitted.vaa.body))
          \/ verdict' = Refusal(Level4Report(submitted.vaa.body))
      BY <1>6 DEF Consume
    <3>2. reason # "running"
      BY DEF IInv, TypeOK, Failures
    <3>3. FirstOf(ReceiverOrder, Faults(submitted.vaa.body)) # "running"
      <4>1. \A k \in 1 .. 11 : ReceiverOrder[k] # "running"
        <5>1. \A k \in 1 .. 11 : k \in {1, 2, 3, 4, 5, 6, 7, 8, 9, 10, 11}
          OBVIOUS
        <5>2. QED BY <5>1 DEF ReceiverOrder
      <4>2. 11 \in Nat /\ DOMAIN ReceiverOrder = 1 .. 11
        BY Orders
      <4> DEFINE F == Faults(submitted.vaa.body)
      <4> HIDE DEF F
      <4>3. \/ FirstOf(ReceiverOrder, F) = ""
            \/ \E k \in 1 .. 11 : FirstOf(ReceiverOrder, F) = ReceiverOrder[k] /\ ReceiverOrder[k] \in F
        BY <4>2, FirstOfCases
      <4>4. FirstOf(ReceiverOrder, F) # "running"
        BY <4>1, <4>3
      <4>5. QED BY <4>4 DEF F
    <3>4. Refusal(Level4Report(submitted.vaa.body)) # "running"
      BY RefusalIs
    <3>5. QED BY <3>1, <3>2, <3>3, <3>4
  <2>3. QED BY <2>1, <2>2 DEF CallInv
<1>7. CASE Edit
  <2>1. submitted = None /\ submitted' = None /\ pc' = pc /\ verdict' = ""
    BY <1>7 DEF Edit, vars
  <2>2. pc = "idle"
    BY <2>1, <1>2 DEF CallInv
  <2>3. QED BY <2>1, <2>2 DEF CallInv
<1>8. CASE UNCHANGED <<submitted, receiverVars, vars>>
  <2>1. UNCHANGED <<submitted, verdict, pc, vaa, i, reason>>
    BY <1>8 DEF vars, receiverVars
  <2>2. LabCore(submitted)' = LabCore(submitted)
        /\ \A k : LabSignature(submitted, k)' = LabSignature(submitted, k)
        /\ HasQuorum(submitted.vaa)' = HasQuorum(submitted.vaa)
    BY <2>1 DEF LabCore, LabSignature, HasQuorum
  <2>3. QED BY <2>1, <2>2 DEF CallInv
<1>9. SetReporters \/ UNCHANGED allVars => UNCHANGED <<submitted, receiverVars, vars>>
  BY DEF SetReporters, allVars
<1>10. ASSUME NEW report, ReportLevel3(report)
       PROVE  UNCHANGED <<submitted, receiverVars, vars>>
  BY <1>10 DEF ReportLevel3
<1>11. QED BY <1>3, <1>4, <1>5, <1>6, <1>7, <1>8, <1>9, <1>10 DEF VerifierNext

\* Only a consumption changes what is used up, and it stores the attestation only
\* of what it uses up.
LEMMA HistoryStep ==
    ASSUME HistoryInv, [VerifierNext]_allVars
    PROVE  HistoryInv'
<1>1. CASE UNCHANGED <<spent, stored, delivered>>
  BY <1>1 DEF HistoryInv, IdOf, AttestationId
<1>2. CASE Consume
  <2> DEFINE b == submitted.vaa.body
  <2>1. \/ UNCHANGED <<spent, stored, delivered>>
        \/ /\ spent' = spent \union {b} /\ delivered' = delivered \union {submitted}
           /\ stored' \subseteq stored \union {IdOf(b)}
    BY <1>2 DEF Consume
  <2>2. CASE /\ spent' = spent \union {b} /\ delivered' = delivered \union {submitted}
             /\ stored' \subseteq stored \union {IdOf(b)}
    <3>1. \A w \in delivered' : w.vaa.body \in spent'
      BY <2>2 DEF HistoryInv
    <3>2. \A c \in spent' : \E w \in delivered' : w.vaa.body = c
      BY <2>2 DEF HistoryInv
    <3>3. \A id \in stored' : \E w \in delivered' : IdOf(w.vaa.body) = id
      BY <2>2 DEF HistoryInv
    <3>4. QED BY <3>1, <3>2, <3>3 DEF HistoryInv, IdOf, AttestationId
  <2>3. QED BY <2>1, <2>2, <1>1
<1>3. ASSUME NEW w, CallBase(w)
      PROVE  UNCHANGED <<spent, stored, delivered>>
  BY <1>3 DEF CallBase
<1>4. Unparsed \/ CoreStep \/ Edit \/ SetReporters => UNCHANGED <<spent, stored, delivered>>
  BY DEF Unparsed, CoreStep, Edit, SetReporters, receiverVars
<1>5. ASSUME NEW report, ReportLevel3(report)
      PROVE  UNCHANGED <<spent, stored, delivered>>
  BY <1>5 DEF ReportLevel3, receiverVars
<1>6. UNCHANGED allVars => UNCHANGED <<spent, stored, delivered>>
  BY DEF allVars, receiverVars
<1>7. QED BY <1>1, <1>2, <1>3, <1>4, <1>5, <1>6 DEF VerifierNext

\* The loop's invariant, the files', the call's and the history's hold together.
THEOREM VerifierInvariant == VerifierSpec => []VInv
<1>1. VerifierInit => VInv
  <2> SUFFICES ASSUME VerifierInit PROVE VInv
    OBVIOUS
  <2>1. IInv
    BY DEF VerifierInit, Init, IInv, TypeOK
  <2>2. FilesInv
    BY VerifierAssumption DEF VerifierInit, FilesInv
  <2>3. CallInv /\ HistoryInv
    BY DEF VerifierInit, Init, CallInv, HistoryInv
  <2>4. QED BY <2>1, <2>2, <2>3 DEF VInv
<1>2. VInv /\ [VerifierNext]_allVars => VInv'
  BY FilesStep, QuorumStep, StepInv, CallStep, HistoryStep DEF VInv
<1>3. QED BY <1>1, <1>2, PTL DEF VerifierSpec

\* Base's verdict comes out of the guardian-quorum loop: whatever that loop is
\* proved to do, it does here, among malformed byte strings, the receiver's own
\* checks and edited files.
THEOREM VerifierImplementsQuorum == VerifierSpec => Spec
<1>1. VerifierInit => Init
  BY DEF VerifierInit
<1>2. VInv /\ [VerifierNext]_allVars => [Next]_vars
  BY QuorumStep DEF VInv
<1>3. QED BY <1>1, <1>2, VerifierInvariant, PTL DEF VerifierSpec, Spec

\* How a call ends.
LEMMA ReturnCases ==
    ASSUME VInv, [VerifierNext]_allVars, Returns
    PROVE  \/ Unparsed
           \/ /\ Consume /\ submitted \in Wire
              /\ submitted.defect = "none" /\ submitted.garbled = 0
              /\ reason = LabCore(submitted)
<1>1. submitted # None /\ submitted' = None
  BY DEF Returns
<1>2. ASSUME NEW w, CallBase(w)
      PROVE  FALSE
  BY <1>1, <1>2 DEF CallBase
<1>3. ~CoreStep /\ ~UNCHANGED allVars
  BY <1>1 DEF CoreStep, allVars
<1>4. ~Edit /\ ~SetReporters
  BY <1>1 DEF Edit, SetReporters
<1>5. ASSUME NEW report, ReportLevel3(report)
      PROVE  FALSE
  BY <1>1, <1>5 DEF ReportLevel3
<1>6. CASE Consume
  BY <1>6 DEF Consume, VInv, CallInv
<1>7. QED BY <1>2, <1>3, <1>4, <1>5, <1>6 DEF VerifierNext

\* The verdict of the receiver, and of its registry when it has nothing to object.
LEMMA ConsumeVerdict ==
    ASSUME Consume
    PROVE  LET b == submitted.vaa.body
               fault == FirstOf(ReceiverOrder, Faults(b))
           IN  verdict' = IF reason # "" THEN reason
                          ELSE IF fault # "" THEN fault
                          ELSE Refusal(Level4Report(b))
BY DEF Consume

\* The lab sees a recovery byte that Base cannot even add 27 to.
LEMMA GarbledIsSeen ==
    ASSUME NEW w \in Wire, w.garbled # 0
    PROVE  LabCore(w) # ""
<1> DEFINE g == w.garbled
<1>1. Len(w.vaa.signatures) \in Nat /\ g \in 0 .. Len(w.vaa.signatures)
  BY WireFacts
<1>2. g \in 1 .. Len(w.vaa.signatures)
  BY <1>1
<1>3. LabSignature(w, g) # ""
  BY DEF LabSignature
<1>4. QED BY <1>2, <1>3, LabCoreIs

\* Whenever a call returns, lab and Base agree as far as they promise.
LEMMA LabMirrors ==
    ASSUME VInv, [VerifierNext]_allVars, Returns
    PROVE  LET b == submitted.vaa.body
               lab == VerifyLikeBase(submitted, delivered)
               parses == submitted.defect = "none" /\ submitted.garbled = 0
           IN  /\ lab # "" => verdict' # "" /\ (parses => verdict' = lab)
               /\ lab = "" =>
                      \/ verdict' = Refusal(Level4Report(b))
                      \/ \E d \in delivered \ {submitted} :
                            ReplayedBy(b, d.vaa.body, verdict')
<1> DEFINE b == submitted.vaa.body
           lab == VerifyLikeBase(submitted, delivered)
           parses == submitted.defect = "none" /\ submitted.garbled = 0
           refusal == Refusal(Level4Report(b))
           Seen(error) == \E d \in delivered \ {submitted} : ReplayedBy(b, d.vaa.body, error)
           Agrees == /\ lab # "" => verdict' # "" /\ (parses => verdict' = lab)
                     /\ lab = "" => verdict' = refusal \/ Seen(verdict')
<1> SUFFICES Agrees
  OBVIOUS
<1>1. CASE Unparsed
  <2>1. submitted \in Wire /\ ~parses /\ verdict' \in {"BadVaa", "Panic"}
    BY <1>1 DEF Unparsed, VInv, CallInv
  <2>2. lab # ""
    <3>1. CASE submitted.defect # "none"
      BY <2>1, <3>1, WireFacts DEF VerifyLikeBase, Defects
    <3>2. CASE submitted.defect = "none"
      <4>1. LabCore(submitted) # ""
        BY <2>1, <3>2, GarbledIsSeen
      <4>2. QED BY <3>2, <4>1 DEF VerifyLikeBase
    <3>3. QED BY <3>1, <3>2
  <2>3. verdict' # ""
    BY <2>1
  <2> HIDE DEF lab, parses, refusal, Seen
  <2>4. QED BY <2>1, <2>2, <2>3
<1>2. CASE /\ Consume /\ submitted \in Wire /\ parses /\ reason = LabCore(submitted)
  <2>1. lab = IF LabCore(submitted) # "" THEN LabCore(submitted)
              ELSE FirstOf(LabOrder, LabFaults(submitted, delivered))
    BY <1>2 DEF VerifyLikeBase
  <2> DEFINE first == FirstOf(LabOrder, LabFaults(submitted, delivered))
             base == FirstOf(ReceiverOrder, Faults(b))
  <2>2. /\ first # "" => base = first
        /\ first = "" => submitted \notin delivered /\ Replayed(b, base)
    <3>1. \A v \in delivered : v.vaa.body \in spent
      BY DEF VInv, HistoryInv
    <3>2. QED BY <1>2, <3>1, SameFault
  <2>3. first = "" => base = "" \/ Seen(base)
    <3>1. ASSUME first = "", base # ""
          PROVE  \E d \in delivered : ReplayedBy(b, d.vaa.body, base)
      <4> HIDE DEF first, base, b
      <4>1. CASE base = "VaaAlreadyConsumed" /\ b \in spent
        BY <4>1 DEF ReplayedBy, VInv, HistoryInv
      <4>2. CASE base = "SequenceAlreadyConsumed" /\ \E c \in spent : c.sequence = b.sequence
        BY <4>2 DEF ReplayedBy, VInv, HistoryInv
      <4>3. CASE base = "DuplicateOutcome" /\ IdOf(b) \in stored
        BY <4>3 DEF ReplayedBy, VInv, HistoryInv
      <4>4. QED BY <2>2, <3>1, <4>1, <4>2, <4>3 DEF Replayed
    <3> HIDE DEF first, base, b
    <3>2. QED BY <2>2, <3>1
  <2>4. verdict' = IF reason # "" THEN reason ELSE IF base # "" THEN base ELSE refusal
    BY <1>2, ConsumeVerdict
  <2> HIDE DEF lab, parses, first, base, refusal, Seen
  <2>5. CASE LabCore(submitted) # ""
    BY <1>2, <2>1, <2>4, <2>5
  <2>6. CASE LabCore(submitted) = ""
    <3>1. lab = first /\ verdict' = IF base # "" THEN base ELSE refusal
      BY <1>2, <2>1, <2>4, <2>6 DEF first
    <3>2. CASE first # ""
      BY <3>1, <3>2, <2>2
    <3>3. CASE first = ""
      BY <3>1, <3>3, <2>3
    <3>4. QED BY <3>2, <3>3
  <2>7. QED BY <2>5, <2>6
<1>3. QED BY <1>1, <1>2, ReturnCases

\* The lab promises to be Base's mirror: whatever is submitted in whatever order,
\* and whatever the other lane reports, it refuses nothing Base takes and names
\* Base's own error; what it lets through Base refuses only for having taken it
\* before in another form, or because the registry refuses the report.
THEOREM LabCorrect == VerifierSpec => LabAgreesWithBase
<1> DEFINE b == submitted.vaa.body
           lab == VerifyLikeBase(submitted, delivered)
           parses == submitted.defect = "none" /\ submitted.garbled = 0
           Agrees == /\ lab # "" => verdict' # "" /\ (parses => verdict' = lab)
                     /\ lab = "" =>
                            \/ verdict' = Refusal(Level4Report(b))
                            \/ \E d \in delivered \ {submitted} :
                                  ReplayedBy(b, d.vaa.body, verdict')
<1>1. VInv /\ [VerifierNext]_allVars => [Returns => Agrees]_allVars
  BY LabMirrors
<1>2. QED BY <1>1, VerifierInvariant, PTL DEF VerifierSpec, LabAgreesWithBase

\* A run that verify-evidence passes is good for Base: a fresh receiver has nothing
\* to say against its VAA but of the source chain, and passes it to the registry.
THEOREM EvidenceCorrect == VerifierSpec => EvidenceIsAcceptable
<1> DEFINE Evidence == submitted = files.vaa /\ EvidencePasses(files) /\ spent = {}
           Acceptable(error) ==
               error \in {"WrongEmitterChain", Refusal(Level4Report(submitted.vaa.body))}
<1>1. ASSUME VInv, [VerifierNext]_allVars, Returns, Evidence
      PROVE  Acceptable(verdict')
  <2> DEFINE b == submitted.vaa.body
  <2>1. LabCore(submitted) = "" /\ submitted.defect = "none"
    BY <1>1 DEF EvidencePasses, SignaturesVerified
  <2>2. ~Unparsed
    <3>1. SUFFICES ASSUME Unparsed PROVE FALSE
      OBVIOUS
    <3>2. submitted \in Wire /\ submitted.garbled # 0
      BY <1>1, <2>1, <3>1 DEF Unparsed, VInv, CallInv
    <3>3. QED BY <2>1, <3>2, GarbledIsSeen
  <2>3. Consume /\ submitted \in Wire /\ reason = ""
    BY <1>1, <2>1, <2>2, ReturnCases
  <2>4. b.emitter = RegisteredEmitter /\ b.payload = Vector.payload
    BY <1>1 DEF EvidencePasses, Vector
  <2>5. b.payload.malformed = {} /\ b.payload.destination = OurChain
    BY <2>4 DEF Vector, Encode
  <2>6. spent = {} /\ stored = {}
    BY <1>1 DEF VInv, HistoryInv
  <2>7. Faults(b) \subseteq {"WrongEmitterChain"}
    BY <2>4, <2>5, <2>6 DEF Faults, OriginFaults, ReplayFaults
  <2> DEFINE refusal == Refusal(Level4Report(b))
  <2>8. verdict' = IF FirstOf(ReceiverOrder, Faults(b)) # "" THEN FirstOf(ReceiverOrder, Faults(b))
                   ELSE refusal
    BY <2>3, ConsumeVerdict
  <2>9. 11 \in Nat /\ DOMAIN ReceiverOrder = 1 .. 11
    BY Orders
  <2> DEFINE F == Faults(b)
             fault == FirstOf(ReceiverOrder, F)
  <2>10. F \subseteq {"WrongEmitterChain"} /\ verdict' = IF fault # "" THEN fault ELSE refusal
    BY <2>7, <2>8
  <2> HIDE DEF F, refusal
  <2>11. \/ fault = ""
         \/ \E k \in 1 .. 11 : fault = ReceiverOrder[k] /\ ReceiverOrder[k] \in F
    BY <2>9, FirstOfCases
  <2>12. verdict' \in {"WrongEmitterChain", refusal}
    BY <2>10, <2>11
  <2>13. QED BY <2>12 DEF refusal
<1>2. VInv /\ [VerifierNext]_allVars => [Returns /\ Evidence => Acceptable(verdict')]_allVars
  BY <1>1
<1>3. QED BY <1>2, VerifierInvariant, PTL DEF VerifierSpec, EvidenceIsAcceptable

-----------------------------------------------------------------------------
\* The lab's scenarios.

\* Induction over the natural numbers, as a fact about sets.
LEMMA Induction ==
    ASSUME NEW S, 0 \in S, \A n \in Nat : n \in S => n + 1 \in S
    PROVE  Nat \subseteq S
<1> DEFINE Left == {n \in Nat : n \notin S}
<1>1. SUFFICES ASSUME Left # {} PROVE FALSE
  OBVIOUS
<1>2. Left \in SUBSET Nat
  OBVIOUS
<1> HIDE DEF Left
<1>3. Min(Left) \in Left /\ \A n \in Left : Min(Left) <= n
  BY <1>1, <1>2, MinIs
<1> DEFINE m == Min(Left)
<1>4. m \in Nat /\ m \notin S
  BY <1>3 DEF Left
<1>5. m # 0 /\ m - 1 \in Nat /\ (m - 1) + 1 = m
  BY <1>4
<1>6. m - 1 \in Left
  BY <1>4, <1>5 DEF Left
<1>7. m <= m - 1
  BY <1>3, <1>6
<1>8. QED BY <1>4, <1>7

\* A set of guardians has a last one.
LEMMA MaxIs ==
    ASSUME NEW T \in SUBSET Slots, T # {}
    PROVE  Max(T) \in T /\ \A g \in T : g <= Max(T)
<1> DEFINE D == {Guardians - g : g \in T}
<1>1. Guardians \in Nat /\ \A g \in T : g \in Nat /\ g < Guardians
  BY QuorumAssumption DEF Slots
<1>2. D \in SUBSET Nat /\ D # {}
  BY <1>1
<1>3. Min(D) \in D /\ \A d \in D : Min(D) <= d
  BY <1>2, MinIs
<1>4. PICK m \in T : Min(D) = Guardians - m
  BY <1>3
<1>5. ASSUME NEW g \in T
      PROVE  g <= m
  <2>1. Guardians - m <= Guardians - g
    BY <1>3, <1>4
  <2>2. QED BY <2>1, <1>1
<1>6. \A g \in T : m >= g
  BY <1>1, <1>5
<1>7. Max(T) \in T /\ \A g \in T : Max(T) >= g
  BY <1>6 DEF Max
<1>8. QED BY <1>1, <1>7

\* Signers can be put in order: the last one behind the others, which are fewer.
LEMMA AscendingIs ==
    ASSUME NEW T \in SUBSET Slots
    PROVE  /\ Cardinality(T) \in Nat
           /\ Ascending(T) \in [1 .. Cardinality(T) -> T]
           /\ \A j, k \in 1 .. Cardinality(T) : j < k => Ascending(T)[j] < Ascending(T)[k]
<1> DEFINE Ordered(U, s) == \A j, k \in 1 .. Cardinality(U) : j < k => s[j] < s[k]
           Good(U) == \E s \in [1 .. Cardinality(U) -> U] : Ordered(U, s)
           N == {n \in Nat : \A U \in SUBSET Slots : Cardinality(U) = n => Good(U)}
<1>1. \A U \in SUBSET Slots : IsFiniteSet(U) /\ Cardinality(U) \in Nat
  <2>1. 0 \in Int /\ Guardians - 1 \in Int
    BY QuorumAssumption
  <2>2. IsFiniteSet(Slots)
    BY <2>1, FS_Interval DEF Slots
  <2>3. QED BY <2>2, FS_Subset, FS_CardinalityType
<1>2. 0 \in N
  <2> SUFFICES ASSUME NEW U \in SUBSET Slots, Cardinality(U) = 0
               PROVE  Good(U)
    OBVIOUS
  <2>1. [k \in 1 .. 0 |-> 0] \in [1 .. Cardinality(U) -> U]
    OBVIOUS
  <2>2. Ordered(U, [k \in 1 .. 0 |-> 0])
    OBVIOUS
  <2>3. QED BY <2>1, <2>2
<1>3. ASSUME NEW n \in Nat, n \in N
      PROVE  n + 1 \in N
  <2> SUFFICES ASSUME NEW U \in SUBSET Slots, Cardinality(U) = n + 1
               PROVE  Good(U)
    OBVIOUS
  <2> DEFINE m == Max(U)
             V == U \ {m}
  <2>1. U # {}
    BY FS_EmptySet
  <2>2. m \in U /\ \A g \in U : g <= m
    BY <2>1, MaxIs
  <2>3. Cardinality(V) = n /\ V \in SUBSET Slots
    <3>1. IsFiniteSet(U) /\ Cardinality(U) = n + 1 /\ m \in U
      BY <1>1, <2>2
    <3>2. Cardinality(U \ {m}) = Cardinality(U) - 1
      BY <3>1, FS_RemoveElement
    <3> HIDE DEF m
    <3>3. QED BY <3>1, <3>2
  <2>4. PICK s \in [1 .. n -> V] : Ordered(V, s)
    BY <1>3, <2>3
  <2> DEFINE t == [k \in 1 .. n + 1 |-> IF k <= n THEN s[k] ELSE m]
  <2>5. t \in [1 .. n + 1 -> U]
    <3> SUFFICES ASSUME NEW k \in 1 .. n + 1
                 PROVE  (IF k <= n THEN s[k] ELSE m) \in U
      OBVIOUS
    <3>1. k <= n => k \in 1 .. n
      OBVIOUS
    <3>2. k <= n => s[k] \in U
      BY <3>1, <2>4
    <3>3. QED BY <3>2, <2>2
  <2>6. ASSUME NEW j \in 1 .. n + 1, NEW k \in 1 .. n + 1, j < k
        PROVE  t[j] < t[k]
    <3>1. j \in 1 .. n /\ t[j] = s[j]
      BY <2>6
    <3>2. CASE k <= n
      <4>1. k \in 1 .. n /\ t[k] = s[k]
        BY <3>2
      <4>2. QED BY <2>3, <2>4, <2>6, <3>1, <4>1
    <3>3. CASE ~ (k <= n)
      <4>1. t[k] = m
        BY <3>3
      <4>2. s[j] \in U /\ s[j] # m
        BY <3>1, <2>4
      <4>3. s[j] \in Nat /\ m \in Nat /\ s[j] <= m
        <5>1. \A g \in Slots : g \in Nat
          BY QuorumAssumption DEF Slots
        <5>2. QED BY <5>1, <4>2, <2>2
      <4>4. QED BY <3>1, <4>1, <4>2, <4>3
    <3>4. QED BY <3>2, <3>3
  <2> HIDE DEF t
  <2>7. Ordered(U, t)
    BY <2>6
  <2>8. QED BY <2>5, <2>7
<1>4. Good(T)
  <2> HIDE DEF N
  <2>1. Nat \subseteq N
    BY <1>2, <1>3, Induction
  <2> USE DEF N
  <2>2. QED BY <2>1, <1>1
<1>5. \A s \in [1 .. Cardinality(T) -> T] : DOMAIN s = 1 .. Cardinality(T)
  OBVIOUS
<1>6. \E s \in [1 .. Cardinality(T) -> T] : \A j, k \in DOMAIN s : j < k => s[j] < s[k]
  BY <1>4, <1>5
<1>7. /\ Ascending(T) \in [1 .. Cardinality(T) -> T]
      /\ \A j, k \in DOMAIN Ascending(T) : j < k => Ascending(T)[j] < Ascending(T)[k]
  BY <1>6 DEF Ascending
<1>8. QED BY <1>1, <1>5, <1>7

\* What the development guardians sign: every signature good, and in order.
LEMMA SignedIs ==
    ASSUME NEW b, NEW T \in SUBSET Slots
    PROVE  LET w == SignVaa(b, T)
               sigs == w.vaa.signatures
           IN  /\ w.defect = "none" /\ w.garbled = 0 /\ w.vaa.body = b
               /\ Cardinality(T) \in Nat /\ DOMAIN sigs = 1 .. Cardinality(T)
               /\ \A k \in 1 .. Cardinality(T) :
                     /\ sigs[k].guardianIndex \in T /\ sigs[k].over = b
                     /\ sigs[k].key = guardianSet[sigs[k].guardianIndex]
               /\ \A j, k \in 1 .. Cardinality(T) :
                     j < k => sigs[j].guardianIndex < sigs[k].guardianIndex
<1> DEFINE n == Cardinality(T)
           order == Ascending(T)
           sigs == [k \in DOMAIN order |->
                      [guardianIndex |-> order[k], key |-> guardianSet[order[k]], over |-> b]]
<1>1. /\ n \in Nat /\ order \in [1 .. n -> T]
      /\ \A j, k \in 1 .. n : j < k => order[j] < order[k]
  BY AscendingIs
<1>2. SignVaa(b, T) = [defect |-> "none", garbled |-> 0,
                       vaa |-> [body |-> b, signatures |-> sigs]]
  BY DEF SignVaa
<1> HIDE DEF n, order
<1>3. DOMAIN sigs = 1 .. n /\ \A k \in 1 .. n :
          /\ sigs[k].guardianIndex = order[k] /\ sigs[k].over = b
          /\ sigs[k].key = guardianSet[order[k]] /\ order[k] \in T
  BY <1>1
<1> HIDE DEF sigs
<1>4. /\ SignVaa(b, T).defect = "none" /\ SignVaa(b, T).garbled = 0
      /\ SignVaa(b, T).vaa.body = b /\ SignVaa(b, T).vaa.signatures = sigs
  BY <1>2
<1>5. \A j, k \in 1 .. n : j < k => sigs[j].guardianIndex < sigs[k].guardianIndex
  BY <1>1, <1>3
<1>6. QED BY <1>1, <1>3, <1>4, <1>5 DEF n

\* The lab finds nothing wrong with the signatures of a whole quorum, and no
\* quorum in fewer.
LEMMA LabTakesSigned ==
    ASSUME NEW b, NEW T \in SUBSET Slots, SignVaa(b, T) \in Wire
    PROVE  /\ Len(SignVaa(b, T).vaa.signatures) = Cardinality(T)
           /\ Cardinality(T) >= Quorum => LabCore(SignVaa(b, T)) = ""
           /\ Cardinality(T) < Quorum => LabCore(SignVaa(b, T)) = "no quorum"
<1> DEFINE w == SignVaa(b, T)
           sigs == w.vaa.signatures
           n == Cardinality(T)
<1>1. /\ w.garbled = 0 /\ w.vaa.body = b /\ n \in Nat /\ DOMAIN sigs = 1 .. n
      /\ \A k \in 1 .. n : /\ sigs[k].guardianIndex \in T /\ sigs[k].over = b
                           /\ sigs[k].key = guardianSet[sigs[k].guardianIndex]
      /\ \A j, k \in 1 .. n : j < k => sigs[j].guardianIndex < sigs[k].guardianIndex
  BY SignedIs
<1>2. Len(sigs) \in Nat /\ DOMAIN sigs = 1 .. Len(sigs) /\ w \in Wire
  BY WireFacts
<1> HIDE DEF w, sigs, n
<1>3. Len(sigs) = n
  <2> DEFINE l == Len(sigs)
  <2>1. l \in Nat /\ n \in Nat /\ 1 .. l = 1 .. n
    BY <1>1, <1>2
  <2> HIDE DEF l
  <2>2. (n \in 1 .. n <=> n \in 1 .. l) /\ (l \in 1 .. l <=> l \in 1 .. n)
    BY <2>1
  <2>3. l = n
    BY <2>1, <2>2
  <2>4. QED BY <2>3 DEF l
<1>4. \A g \in T : g \in Nat /\ ~ (g >= Guardians)
  BY QuorumAssumption DEF Slots
<1>5. ASSUME NEW k \in 1 .. n
      PROVE  LabSignature(w, k) = ""
  <2>1. ~ (k > 1 /\ sigs[k].guardianIndex <= sigs[k - 1].guardianIndex)
    <3>1. SUFFICES ASSUME k > 1
                   PROVE  ~ (sigs[k].guardianIndex <= sigs[k - 1].guardianIndex)
      OBVIOUS
    <3>2. k - 1 \in 1 .. n /\ k - 1 < k
      BY <1>1, <3>1
    <3>3. sigs[k - 1].guardianIndex < sigs[k].guardianIndex
      BY <1>1, <3>2
    <3>4. sigs[k - 1].guardianIndex \in Nat /\ sigs[k].guardianIndex \in Nat
      BY <1>1, <1>4, <3>2
    <3>5. QED BY <3>3, <3>4
  <2>2. ~ (sigs[k].guardianIndex >= Guardians)
    BY <1>1, <1>4
  <2>3. k # w.garbled
    BY <1>1
  <2>4. QED BY <2>1, <2>2, <2>3, <1>1 DEF LabSignature, sigs
<1>6. HasQuorum(w.vaa) <=> n >= Quorum
  BY <1>3 DEF HasQuorum, sigs
<1>7. n < Quorum => ~ (n >= Quorum)
  BY <1>1, QuorumAssumption
<1>8. n >= Quorum => LabCore(w) = ""
  BY <1>2, <1>3, <1>5, <1>6, LabCoreIs DEF sigs
<1>9. n < Quorum => LabCore(w) = "no quorum"
  BY <1>2, <1>6, <1>7, LabCoreIs
<1>10. QED BY <1>3, <1>8, <1>9 DEF w, sigs, n

\* One fault is named, and none if there is none.
LEMMA OnlyFault ==
    ASSUME NEW n \in Nat, NEW order, DOMAIN order = 1 .. n
    PROVE  /\ FirstOf(order, {}) = ""
           /\ \A k \in 1 .. n : FirstOf(order, {order[k]}) = order[k]
<1>1. FirstOf(order, {}) = ""
  <2>1. {k \in DOMAIN order : order[k] \in {}} = {}
    OBVIOUS
  <2>2. QED BY <2>1 DEF FirstOf
<1>2. ASSUME NEW k \in 1 .. n
      PROVE  FirstOf(order, {order[k]}) = order[k]
  <2> DEFINE F == {order[k]}
  <2>1. order[k] \in F /\ \A x \in F : x = order[k]
    OBVIOUS
  <2> HIDE DEF F
  <2>2. FirstOf(order, F) = order[k]
    BY <2>1, FirstOfCases
  <2>3. QED BY <2>2 DEF F
<1>3. QED BY <1>1, <1>2

\* The body of the demo run's VAA has no fault of its own.
LEMMA DemoFacts ==
    ASSUME DemoConforms
    PROVE  /\ DemoBody.chain = SourceChain /\ DemoBody.emitter = RegisteredEmitter
           /\ DemoBody.payload.malformed = {} /\ DemoBody.payload.destination = OurChain
           /\ DemoBody.payload.score # <<3, 1>>
           /\ Decode(DemoBody.payload) = ""
<1>1. /\ DemoBody.chain = SourceChain /\ DemoBody.emitter = RegisteredEmitter
      /\ DemoBody.payload = Encode(Recorded.record, Recorded.proof, Recorded.instruction)
  BY DEF DemoBody, Vector
<1>2. /\ DemoBody.payload.malformed = {} /\ DemoBody.payload.destination = OurChain
      /\ DemoBody.payload.score = Recorded.record.score
  BY <1>1 DEF Encode
<1>3. Decode(DemoBody.payload) = ""
  <2>1. 5 \in Nat /\ DOMAIN PayloadOrder = 1 .. 5
    BY Orders
  <2>2. FirstOf(PayloadOrder, {}) = ""
    BY <2>1, OnlyFault
  <2>3. QED BY <2>2, <1>2 DEF Decode
<1>4. QED BY <1>1, <1>2, <1>3, DemoAssumption

\* The lab sees of the demo run's VAA only whether it was there before.
LEMMA LabOnDemo ==
    ASSUME DemoConforms, DemoVaa \in Wire
    PROVE  /\ LabCore(DemoVaa) = ""
           /\ VerifyLikeBase(DemoVaa, {}) = ""
           /\ VerifyLikeBase(DemoVaa, {DemoVaa}) = "VaaAlreadyConsumed"
<1>1. DefaultGuardians \in SUBSET Slots /\ Cardinality(DefaultGuardians) = Quorum /\ Quorum \in Nat
  BY VerifierAssumption, DemoAssumption, QuorumAssumption
<1>2. DemoVaa.defect = "none" /\ DemoVaa.vaa.body = DemoBody
  BY <1>1, SignedIs DEF DemoVaa
<1>3. LabCore(DemoVaa) = ""
  <2>1. Cardinality(DefaultGuardians) >= Quorum
    BY <1>1
  <2>2. QED BY <1>1, <2>1, LabTakesSigned DEF DemoVaa
<1>4. \A consumed : VerifyLikeBase(DemoVaa, consumed) = FirstOf(LabOrder, LabFaults(DemoVaa, consumed))
  BY <1>2, <1>3 DEF VerifyLikeBase
<1>5. LabFaults(DemoVaa, {}) = {} /\ LabFaults(DemoVaa, {DemoVaa}) = {"VaaAlreadyConsumed"}
  BY <1>2, DemoFacts DEF LabFaults
<1>6. /\ FirstOf(LabOrder, {}) = ""
      /\ FirstOf(LabOrder, {"VaaAlreadyConsumed"}) = "VaaAlreadyConsumed"
  <2>1. 9 \in Nat /\ 9 \in 1 .. 9 /\ DOMAIN LabOrder = 1 .. 9 /\ LabOrder[9] = "VaaAlreadyConsumed"
    BY Orders
  <2>2. QED BY <2>1, OnlyFault
<1>7. QED BY <1>3, <1>4, <1>5, <1>6

\* A score raised behind the guardians' back: the first signature is over another
\* body.
LEMMA LabOnTampered ==
    ASSUME DemoConforms, Tampered \in Wire
    PROVE  /\ Tampered.defect = "none" /\ Tampered.garbled = 0
           /\ \A consumed : VerifyLikeBase(Tampered, consumed) = "VM signature invalid"
<1> DEFINE sigs == DemoVaa.vaa.signatures
           n == Cardinality(DefaultGuardians)
<1>1. DefaultGuardians \in SUBSET Slots /\ n = Quorum /\ Quorum \in Nat /\ Quorum > 0
  BY VerifierAssumption, DemoAssumption, QuorumAssumption
<1>2. /\ DemoVaa.defect = "none" /\ DemoVaa.garbled = 0 /\ DemoVaa.vaa.body = DemoBody
      /\ DOMAIN sigs = 1 .. n
      /\ \A k \in 1 .. n : sigs[k].guardianIndex \in DefaultGuardians /\ sigs[k].over = DemoBody
  BY <1>1, SignedIs DEF DemoVaa
<1>3. /\ Tampered.defect = "none" /\ Tampered.garbled = 0
      /\ Tampered.vaa.signatures = sigs
      /\ Tampered.vaa.body.payload.score = <<3, 1>>
  BY <1>2 DEF Tampered, DemoVaa, SignVaa, DemoBody, Vector, Encode
<1>4. Tampered.vaa.body # DemoBody
  BY <1>3, DemoFacts
<1> HIDE DEF sigs, n
<1>5. 1 \in 1 .. n
  BY <1>1
<1>6. LabSignature(Tampered, 1) = "VM signature invalid"
  <2>1. sigs[1].guardianIndex \in Slots /\ sigs[1].over # Tampered.vaa.body
    BY <1>1, <1>2, <1>4, <1>5
  <2>2. ~ (sigs[1].guardianIndex >= Guardians) /\ ~ (1 > 1)
    BY <2>1, QuorumAssumption DEF Slots
  <2>3. QED BY <2>1, <2>2, <1>3 DEF LabSignature
<1>7. Len(Tampered.vaa.signatures) = n
  <2> DEFINE l == Len(Tampered.vaa.signatures)
  <2>1. l \in Nat /\ 1 .. l = 1 .. n /\ n \in Nat
    BY <1>1, <1>2, <1>3, WireFacts
  <2> HIDE DEF l
  <2>2. (n \in 1 .. n <=> n \in 1 .. l) /\ (l \in 1 .. l <=> l \in 1 .. n)
    BY <2>1
  <2>3. l = n
    BY <2>1, <2>2
  <2>4. QED BY <2>3 DEF l
<1>8. HasQuorum(Tampered.vaa)
  BY <1>1, <1>7 DEF HasQuorum
<1>9. LabCore(Tampered) = "VM signature invalid"
  <2>1. \A j \in 1 .. 1 - 1 : LabSignature(Tampered, j) = ""
    <3>1. \A j \in 1 .. 1 - 1 : FALSE
      OBVIOUS
    <3>2. QED BY <3>1
  <2>2. LabSignature(Tampered, 1) # "" /\ 1 \in 1 .. Len(Tampered.vaa.signatures)
    BY <1>5, <1>6, <1>7
  <2>3. LabCore(Tampered) = LabSignature(Tampered, 1)
    BY <2>1, <2>2, <1>8, LabCoreIs
  <2>4. QED BY <2>3, <1>6
<1>10. QED BY <1>3, <1>9 DEF VerifyLikeBase

\* All signers but the last: one too few.
LEMMA LabOnFewer ==
    LET fewer == SignVaa(DemoBody, DefaultGuardians \ {Max(DefaultGuardians)})
    IN  fewer \in Wire =>
            /\ fewer.defect = "none" /\ fewer.garbled = 0
            /\ \A consumed : VerifyLikeBase(fewer, consumed) = "no quorum"
<1> DEFINE m == Max(DefaultGuardians)
           T == DefaultGuardians \ {m}
           fewer == SignVaa(DemoBody, T)
<1>1. SUFFICES ASSUME fewer \in Wire
               PROVE  /\ fewer.defect = "none" /\ fewer.garbled = 0
                      /\ \A consumed : VerifyLikeBase(fewer, consumed) = "no quorum"
  OBVIOUS
<1>2. DefaultGuardians \in SUBSET Slots /\ Cardinality(DefaultGuardians) = Quorum
      /\ Quorum \in Nat /\ Quorum > 0
  BY VerifierAssumption, DemoAssumption, QuorumAssumption
<1>3. IsFiniteSet(DefaultGuardians)
  <2>1. 0 \in Int /\ Guardians - 1 \in Int
    BY QuorumAssumption
  <2>2. IsFiniteSet(Slots)
    BY <2>1, FS_Interval DEF Slots
  <2>3. QED BY <1>2, <2>2, FS_Subset
<1>4. DefaultGuardians # {}
  BY <1>2, FS_EmptySet
<1>5. m \in DefaultGuardians
  BY <1>2, <1>4, MaxIs
<1>6. T \in SUBSET Slots
  BY <1>2
<1>7. Cardinality(T) < Quorum
  <2>1. Cardinality(T) = Cardinality(DefaultGuardians) - 1
    BY <1>3, <1>5, FS_RemoveElement
  <2>2. QED BY <2>1, <1>2
<1> HIDE DEF T
<1>8. LabCore(fewer) = "no quorum"
  BY <1>1, <1>6, <1>7, LabTakesSigned
<1>9. fewer.defect = "none" /\ fewer.garbled = 0
  BY <1>6, SignedIs
<1>10. QED BY <1>8, <1>9 DEF VerifyLikeBase

\* Well signed, and from somebody else.
LEMMA LabOnForeign ==
    ASSUME DemoConforms
    PROVE  LET foreign == SignVaa([DemoBody EXCEPT !.emitter = None], DefaultGuardians)
           IN  foreign \in Wire =>
                   /\ foreign.defect = "none" /\ foreign.garbled = 0
                   /\ VerifyLikeBase(foreign, {}) = "WrongEmitter"
<1> DEFINE b == [DemoBody EXCEPT !.emitter = None]
           foreign == SignVaa(b, DefaultGuardians)
<1>1. SUFFICES ASSUME foreign \in Wire
               PROVE  /\ foreign.defect = "none" /\ foreign.garbled = 0
                      /\ VerifyLikeBase(foreign, {}) = "WrongEmitter"
  OBVIOUS
<1>2. /\ DefaultGuardians \in SUBSET Slots /\ Cardinality(DefaultGuardians) >= Quorum
  BY VerifierAssumption, DemoAssumption, QuorumAssumption
<1>3. b.chain = DemoBody.chain /\ b.payload = DemoBody.payload /\ b.emitter = None
  BY DEF DemoBody
<1> HIDE DEF b
<1>4. foreign.defect = "none" /\ foreign.garbled = 0 /\ foreign.vaa.body = b
  BY <1>2, SignedIs
<1>5. LabCore(foreign) = ""
  BY <1>1, <1>2, LabTakesSigned
<1> HIDE DEF foreign
<1>6. LabFaults(foreign, {}) = {"WrongEmitter"}
  BY <1>3, <1>4, DemoFacts, DemoAssumption DEF LabFaults
<1>7. FirstOf(LabOrder, {"WrongEmitter"}) = "WrongEmitter"
  <2>1. 9 \in Nat /\ 2 \in 1 .. 9 /\ DOMAIN LabOrder = 1 .. 9 /\ LabOrder[2] = "WrongEmitter"
    BY Orders
  <2>2. QED BY <2>1, OnlyFault
<1>8. QED BY <1>4, <1>5, <1>6, <1>7 DEF VerifyLikeBase

\* In the lab every scenario ends as its card announces; only the original VAA, on
\* a fresh receiver, ends well.
LEMMA LabOnScenarios ==
    ASSUME NEW s \in BuildScenarios, s.vaa \in Wire
    PROVE  /\ s.vaa.defect = "none" /\ s.vaa.garbled = 0
           /\ VerifyLikeBase(s.vaa, s.consumed) = s.expected
           /\ s.expected = "" => s.vaa = DemoVaa /\ s.consumed = {} /\ DemoConforms
<1> DEFINE fewer == SignVaa(DemoBody, DefaultGuardians \ {Max(DefaultGuardians)})
           foreign == SignVaa([DemoBody EXCEPT !.emitter = None], DefaultGuardians)
<1>1. /\ DemoConforms
      /\ \/ s.vaa = DemoVaa /\ s.consumed = {} /\ s.expected = ""
         \/ s.vaa = Tampered /\ s.consumed = {} /\ s.expected = "VM signature invalid"
         \/ s.vaa = fewer /\ s.consumed = {} /\ s.expected = "no quorum"
         \/ s.vaa = foreign /\ s.consumed = {} /\ s.expected = "WrongEmitter"
         \/ s.vaa = DemoVaa /\ s.consumed = {DemoVaa} /\ s.expected = "VaaAlreadyConsumed"
  <2>1. DemoConforms
    BY DEF BuildScenarios
  <2>2. s \in { Scenario(DemoVaa, {}, ""), Scenario(Tampered, {}, "VM signature invalid"),
               Scenario(fewer, {}, "no quorum"), Scenario(foreign, {}, "WrongEmitter"),
               Scenario(DemoVaa, {DemoVaa}, "VaaAlreadyConsumed") }
    BY <2>1 DEF BuildScenarios
  <2>3. \A w, c, e : s = Scenario(w, c, e) => s.vaa = w /\ s.consumed = c /\ s.expected = e
    BY DEF Scenario
  <2> HIDE DEF fewer, foreign
  <2>4. \/ s = Scenario(DemoVaa, {}, "")
        \/ s = Scenario(Tampered, {}, "VM signature invalid")
        \/ s = Scenario(fewer, {}, "no quorum")
        \/ s = Scenario(foreign, {}, "WrongEmitter")
        \/ s = Scenario(DemoVaa, {DemoVaa}, "VaaAlreadyConsumed")
    BY <2>2
  <2>5. QED BY <2>1, <2>3, <2>4
<1>2. DemoVaa.defect = "none" /\ DemoVaa.garbled = 0
  BY SignedIs, VerifierAssumption DEF DemoVaa
<1>3. CASE s.vaa = DemoVaa /\ s.consumed = {} /\ s.expected = ""
  BY <1>1, <1>2, <1>3, LabOnDemo
<1>4. CASE s.vaa = Tampered /\ s.consumed = {} /\ s.expected = "VM signature invalid"
  BY <1>1, <1>4, LabOnTampered
<1>5. CASE s.vaa = fewer /\ s.consumed = {} /\ s.expected = "no quorum"
  BY <1>1, <1>5, LabOnFewer
<1>6. CASE s.vaa = foreign /\ s.consumed = {} /\ s.expected = "WrongEmitter"
  BY <1>1, <1>6, LabOnForeign
<1>7. CASE s.vaa = DemoVaa /\ s.consumed = {DemoVaa} /\ s.expected = "VaaAlreadyConsumed"
  BY <1>1, <1>2, <1>7, LabOnDemo
<1>8. QED BY <1>1, <1>3, <1>4, <1>5, <1>6, <1>7

\* The cards of the tamper lab tell the truth about Base: submitted in the state
\* it simulates, every scenario ends there as announced, for any guardian set and
\* quorum, if the registry has no objection; and so it does in the lab.
THEOREM ScenariosCorrect == VerifierSpec => ScenariosAsAnnounced
<1> DEFINE refusal == Refusal(Level4Report(submitted.vaa.body))
           Announced(s) == /\ verdict' = IF s.expected # "" THEN s.expected ELSE refusal
                           /\ VerifyLikeBase(s.vaa, s.consumed) = s.expected
           lab == VerifyLikeBase(submitted, delivered)
           parses == submitted.defect = "none" /\ submitted.garbled = 0
<1>1. ASSUME VInv, [VerifierNext]_allVars, Returns,
             NEW s \in BuildScenarios, s.vaa = submitted, s.consumed = delivered
      PROVE  Announced(s)
  <2>1. submitted \in Wire
    BY <1>1 DEF Returns, VInv, CallInv
  <2>2. /\ parses /\ lab = s.expected
        /\ s.expected = "" => submitted = DemoVaa /\ delivered = {} /\ DemoConforms
    BY <1>1, <2>1, LabOnScenarios
  <2>3. CASE s.expected # ""
    <3>1. lab # "" => (parses => verdict' = lab)
      BY <1>1, LabMirrors
    <3> HIDE DEF lab, parses, refusal
    <3>2. verdict' = s.expected
      BY <2>2, <2>3, <3>1
    <3>3. VerifyLikeBase(s.vaa, s.consumed) = s.expected
      BY <2>2, <1>1 DEF lab
    <3>4. QED BY <3>2, <3>3, <2>3
  <2>4. CASE s.expected = ""
    <3>1. submitted = DemoVaa /\ DemoConforms /\ spent = {} /\ stored = {}
      BY <1>1, <2>2, <2>4 DEF VInv, HistoryInv
    <3>2. Consume /\ reason = LabCore(submitted)
      <4>1. ~Unparsed
        BY <1>1, <2>2 DEF Unparsed, VInv, CallInv
      <4>2. QED BY <4>1, <1>1, ReturnCases
    <3>3. submitted.vaa.body = DemoBody
      BY <3>1, SignedIs, VerifierAssumption DEF DemoVaa
    <3>4. Faults(DemoBody) = {}
      BY <3>1, DemoFacts DEF Faults, OriginFaults, ReplayFaults
    <3>5. verdict' = IF reason # "" THEN reason
                     ELSE IF FirstOf(ReceiverOrder, {}) # "" THEN FirstOf(ReceiverOrder, {})
                     ELSE refusal
      BY <3>2, <3>3, <3>4, ConsumeVerdict
    <3>6. reason = ""
      BY <3>1, <3>2, <2>1, LabOnDemo
    <3>7. FirstOf(ReceiverOrder, {}) = ""
      <4>1. 11 \in Nat /\ DOMAIN ReceiverOrder = 1 .. 11
        BY Orders
      <4>2. QED BY <4>1, OnlyFault
    <3>8. verdict' = refusal
      BY <3>5, <3>6, <3>7
    <3> HIDE DEF refusal
    <3>9. QED BY <3>8, <2>2, <2>4, <1>1
  <2>5. QED BY <2>3, <2>4
<1>2. VInv /\ [VerifierNext]_allVars =>
          [Returns => \A s \in BuildScenarios :
              s.vaa = submitted /\ s.consumed = delivered => Announced(s)]_allVars
  BY <1>1
<1>3. QED BY <1>2, VerifierInvariant, PTL DEF VerifierSpec, ScenariosAsAnnounced

=============================================================================

--------------------------- MODULE GuardianQuorum ---------------------------
(***************************************************************************)
(* MockWormholeCore.parseAndVerifyVM: the loop that decides whether a VAA  *)
(* carries a guardian quorum (field "signed" of a VAA in BaseContracts).   *)
(* The loop is modelled iteration by iteration, one VAA after another.     *)
(*                                                                         *)
(* The signed digest keccak256(keccak256(body)) stands for the body.       *)
(* ecrecover is external: it returns the key that made the signature when  *)
(* the signature is over this digest, and otherwise an address nobody      *)
(* holds, taken to be NoSigner.                                            *)
(***************************************************************************)
EXTENDS Integers, Sequences, FiniteSets

CONSTANTS
    Guardians,     \* slots of the guardian set (19)
    Quorum,        \* quorum, a constructor argument (13)
    guardianSet,   \* guardianSet[i]: the address in slot i
    Keys,          \* addresses whose private key exists
    NoSigner,      \* address(0)
    Bodies,        \* VAA bodies
    Signed,        \* <<key, body>>: the signatures that were ever made
    Vaas,          \* the VAAs somebody may submit
    NoVaa          \* no call is running

Slots == 0 .. Guardians - 1

\* What _parseVM returns, as far as the signatures go.
Vaa == [body : Bodies, signatures : Seq([guardianIndex : Nat, key : Keys, over : Bodies])]

\* Nobody forges: a signature in a VAA is one that its key made.
ASSUME QuorumAssumption ==
    /\ Guardians \in Nat /\ Quorum \in Nat
    /\ guardianSet \in [Slots -> Keys]
    /\ NoSigner \notin Keys /\ NoVaa \notin Vaas
    /\ Vaas \subseteq Vaa
    /\ \A v \in Vaas : \A k \in 1 .. Len(v.signatures) :
           <<v.signatures[k].key, v.signatures[k].over>> \in Signed

VARIABLES
    pc,          \* "idle", "called", or "loop" inside the verification loop
    vaa,         \* argument of the call, NoVaa when idle
    i,           \* loop counter
    lastIndex,   \* guardian index of the previous signature, -1 before the first
    reason,      \* what the last call returned: "" for a valid VAA
    certified    \* history: the bodies some call found valid

vars == <<pc, vaa, i, lastIndex, reason, certified>>

-----------------------------------------------------------------------------

Failures ==
    {"no quorum", "signature indices out of order",
     "guardian index out of bounds", "VM signature invalid"}

Ecrecover(body, sig) == IF sig.over = body THEN sig.key ELSE NoSigner

\* Bug variant: a guardian index may repeat.
InOrderWeak(sig) == sig.guardianIndex >= lastIndex

\* Strictly ascending guardian indices: no duplicate signers.
InOrder(sig) == sig.guardianIndex > lastIndex

SignedByGuardian(body, sig) ==
    /\ Ecrecover(body, sig) # NoSigner
    /\ Ecrecover(body, sig) = guardianSet[sig.guardianIndex]

-----------------------------------------------------------------------------

Init ==
    /\ pc = "idle"
    /\ vaa = NoVaa
    /\ i = 0
    /\ lastIndex = -1
    /\ reason = ""
    /\ certified = {}

Call(v) ==
    /\ pc = "idle"
    /\ pc' = "called"
    /\ vaa' = v
    /\ reason' = ""
    /\ UNCHANGED <<i, lastIndex, certified>>

\* The call returns and its locals are gone.
Return(why) ==
    /\ pc' = "idle"
    /\ vaa' = NoVaa
    /\ i' = 0
    /\ lastIndex' = -1
    /\ reason' = why

HasQuorum(v) == Len(v.signatures) >= Quorum

NoQuorum ==
    /\ pc = "called"
    /\ ~HasQuorum(vaa)
    /\ Return("no quorum")
    /\ UNCHANGED certified

EnterLoop ==
    /\ pc = "called"
    /\ HasQuorum(vaa)
    /\ pc' = "loop"
    /\ UNCHANGED <<vaa, i, lastIndex, reason, certified>>

\* One iteration of the loop.
CheckSignature ==
    /\ pc = "loop" /\ i < Len(vaa.signatures)
    /\ LET sig == vaa.signatures[i + 1]
       IN  \/ ~InOrder(sig) /\ Return("signature indices out of order")
           \/ /\ InOrder(sig) /\ sig.guardianIndex >= Guardians
              /\ Return("guardian index out of bounds")
           \/ /\ InOrder(sig) /\ sig.guardianIndex < Guardians
              /\ ~SignedByGuardian(vaa.body, sig)
              /\ Return("VM signature invalid")
           \/ /\ InOrder(sig) /\ sig.guardianIndex < Guardians
              /\ SignedByGuardian(vaa.body, sig)
              /\ i' = i + 1
              /\ lastIndex' = sig.guardianIndex
              /\ UNCHANGED <<pc, vaa, reason>>
    /\ UNCHANGED certified

\* The loop ran to its end.
Accept ==
    /\ pc = "loop" /\ i = Len(vaa.signatures)
    /\ Return("")
    /\ certified' = certified \union {vaa.body}

Next ==
    \/ \E v \in Vaas : Call(v)
    \/ NoQuorum \/ EnterLoop
    \/ CheckSignature
    \/ Accept

Spec == Init /\ [][Next]_vars

-----------------------------------------------------------------------------

TypeOK ==
    /\ pc \in {"idle", "called", "loop"}
    /\ IF pc = "idle" THEN vaa = NoVaa /\ i = 0
                      ELSE vaa \in Vaa /\ i \in 0 .. Len(vaa.signatures)
    /\ lastIndex \in Nat \union {-1}
    /\ reason \in Failures \union {""}
    /\ certified \subseteq Bodies

\* The guardians that signed a body.
Supporters(body) == {g \in Slots : <<guardianSet[g], body>> \in Signed}

\* A body counts as signed only when a quorum of different guardians signed
\* exactly this body, however the signatures of the VAA are arranged.
QuorumSound == \A b \in certified : Cardinality(Supporters(b)) >= Quorum

\* The definition the loop is checked against: no index twice, every signature
\* made by the guardian of its slot over this body.
WellSigned(v) ==
    LET sigs == v.signatures
    IN  /\ Len(sigs) >= Quorum
        /\ \A j, k \in 1 .. Len(sigs) : j < k => sigs[j].guardianIndex < sigs[k].guardianIndex
        /\ \A k \in 1 .. Len(sigs) :
               /\ sigs[k].guardianIndex \in Slots
               /\ sigs[k].over = v.body
               /\ sigs[k].key = guardianSet[sigs[k].guardianIndex]

\* Nothing well signed is refused and nothing else is accepted, although the
\* loop compares neighbouring indices only and stops at the first fault.
VerdictExact ==
    [][ pc # "idle" /\ pc' = "idle" => (reason' = "" <=> WellSigned(vaa)) ]_vars

=============================================================================

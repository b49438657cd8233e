---------------------------- MODULE DualFinality ----------------------------
(***************************************************************************)
(* What dual finality promises, with nothing of how a contract keeps it.   *)
(*                                                                         *)
(* Two lanes make claims about a fixture; a claim is the digest            *)
(* (attestation id) a lane stands for.  The verdict on a fixture is a      *)
(* function of the SET of its claims, so neither the order of the lanes    *)
(* nor a repeated claim can change it, and once it is DualFinalized or     *)
(* Conflict no claim is taken any more.  contracts/base/src/               *)
(* FinalityRegistry.sol decides incrementally, from the two stored records *)
(* and a status byte; module FinalityRegistry is shown to implement this.  *)
(***************************************************************************)

CONSTANTS
    Fixtures,        \* fixture ids
    AttestationIds   \* digests

VARIABLES
    claims,   \* claims[f]: the claims taken for fixture f
    verdict   \* verdict[f]: the public status of fixture f

vars == <<claims, verdict>>

-----------------------------------------------------------------------------

\* The two verification lanes.
Lanes == {"level3", "level4"}

Claim == [lane : Lanes, id : AttestationIds]

\* The enum FinalityStatus of the registry.
Statuses ==
    {"Unknown", "CREAttested", "WormholeVerified", "DualFinalized", "Conflict"}

Terminal == {"DualFinalized", "Conflict"}

\* Lane l has made some claim in the set C.
Heard(C, l) == \E c \in C : c.lane = l

\* What a set of claims amounts to.
Verdict(C) ==
    CASE C = {}                                 -> "Unknown"
      [] \E c, d \in C : c.id # d.id            -> "Conflict"
      [] /\ C # {}
         /\ \A c, d \in C : c.id = d.id
         /\ Heard(C, "level3")
         /\ Heard(C, "level4")                  -> "DualFinalized"
      [] /\ \A c, d \in C : c.id = d.id
         /\ Heard(C, "level3")
         /\ ~Heard(C, "level4")                 -> "CREAttested"
      [] /\ \A c, d \in C : c.id = d.id
         /\ ~Heard(C, "level3")
         /\ Heard(C, "level4")                  -> "WormholeVerified"

-----------------------------------------------------------------------------

Init ==
    /\ claims = [f \in Fixtures |-> {}]
    /\ verdict = [f \in Fixtures |-> "Unknown"]

\* A new claim on an undecided fixture.
Take(f, c) ==
    /\ verdict[f] \notin Terminal
    /\ c \notin claims[f]
    /\ claims' = [claims EXCEPT ![f] = @ \union {c}]
    /\ verdict' = [verdict EXCEPT ![f] = Verdict(claims[f] \union {c})]

Next == \E f \in Fixtures, c \in Claim : Take(f, c)

Spec == Init /\ [][Next]_vars

=============================================================================

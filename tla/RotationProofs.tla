--------------------------- MODULE RotationProofs ---------------------------
(***************************************************************************)
(* Zero downtime for any fleet, any set of applications and any number of  *)
(* rotations.  SealsOpen is not inductive: what a replica runs with and    *)
(* what a seal is sealed to must be tied to the phase of the runbook.      *)
(***************************************************************************)
EXTENDS Rotation, TLAPS

\* The key a seal may still be sealed to when the fleet is rolled to a new one.
Old == manifest.previous

\* During a rotation the previous key is the one before the current.
ManifestInv ==
    IF phase \in {"steady", "dropping"} THEN manifest.previous = NoKey
    ELSE manifest.key > 0 /\ manifest.previous = manifest.key - 1

\* A replica that is up runs the manifest or what came before it.
RunningInv ==
    \A r \in Replicas : running[r].up =>
        LET ring == running[r].keys
        IN  /\ phase \in {"steady", "resealing"} => ring = manifest
            /\ phase = "dropping" => ring.key = manifest.key
            /\ phase = "rolling" => ring = manifest \/ ring.key = Old

\* A seal in use that was not made too late fits every replica of the phase.
SealsInv ==
    \A a \in Apps \ late :
        /\ phase \in {"steady", "dropping"} => sealedTo[a] = manifest.key
        /\ phase \in {"rolling", "resealing"} => sealedTo[a] \in {Old, manifest.key}
        /\ phase = "resealing" /\ heard[a] = "primary" => sealedTo[a] = manifest.key

IInv == TypeOK /\ ManifestInv /\ RunningInv /\ SealsInv

----------------------------------------------------------------------------

\* NoKey is a number, and not that of a keypair.
LEMMA NoKeyFacts == NoKey \in Nat /\ NoKey \notin Keys /\ 0 \in Keys
BY MaxKeyAssumption DEF NoKey, Keys

\* A fleet begins with one key everywhere.
LEMMA InitInv == Init => IInv
<1> SUFFICES ASSUME Init PROVE IInv
    OBVIOUS
<1>1. TypeOK
    BY NoKeyFacts DEF Init, TypeOK, Keyrings, Keyring, Up
<1>2. ManifestInv
    BY DEF Init, ManifestInv, Keyring
<1>3. RunningInv
    BY DEF Init, RunningInv, Up
<1>4. SealsInv
    BY DEF Init, SealsInv, Keyring
<1> QED
    BY <1>1, <1>2, <1>3, <1>4 DEF IInv

\* Replicas stop and start at any time; only what they run with changes.
LEMMA ReplicaStep ==
    ASSUME IInv, NEW r \in Replicas, Stop(r) \/ Start(r)
    PROVE  IInv'
<1>1. TypeOK'
    <2>1. running' \in [Replicas -> [up : BOOLEAN, keys : Keyrings]]
        <3>1. CASE Stop(r)
            BY <3>1 DEF IInv, TypeOK, Stop
        <3>2. CASE Start(r)
            BY <3>2 DEF IInv, TypeOK, Start, Up
        <3> QED
            BY <3>1, <3>2
    <2> QED
        BY <2>1 DEF IInv, TypeOK, Stop, Start
<1>2. ManifestInv'
    BY DEF IInv, ManifestInv, Stop, Start
<1>3. RunningInv'
    <2> SUFFICES ASSUME NEW q \in Replicas, running'[q].up
                 PROVE  \/ running[q].up /\ running'[q].keys = running[q].keys
                        \/ running'[q].keys = manifest
        BY DEF IInv, TypeOK, RunningInv, Stop, Start, Old, Keyrings
    <2>1. CASE Stop(r)
        BY <2>1 DEF IInv, TypeOK, Stop
    <2>2. CASE Start(r)
        BY <2>2 DEF IInv, TypeOK, Start, Up
    <2> QED
        BY <2>1, <2>2
<1>4. SealsInv'
    BY DEF IInv, SealsInv, Old, Stop, Start
<1> QED
    BY <1>1, <1>2, <1>3, <1>4 DEF IInv

\* A request changes only how its application was last heard; while the seals
\* are renewed it is heard on the private key only when that opens its seal.
LEMMA ForwardStep ==
    ASSUME IInv, NEW a \in Apps, NEW r \in Replicas, Forward(a, r)
    PROVE  IInv'
<1>1. TypeOK'
    BY DEF IInv, TypeOK, Forward
<1>2. ManifestInv' /\ RunningInv'
    BY DEF IInv, ManifestInv, RunningInv, Old, Forward
<1>3. SealsInv'
    <2>1. ASSUME phase = "resealing", heard'[a] = "primary"
          PROVE  sealedTo[a] = manifest.key
        <3>1. running[r].keys = manifest
            BY <2>1 DEF IInv, RunningInv, Forward
        <3>2. Opens(sealedTo[a], manifest) /\ ~ UsedFallback(sealedTo[a], manifest)
            BY <2>1, <3>1 DEF IInv, TypeOK, Forward
        <3> QED
            BY <3>2 DEF Opens, UsedFallback
    <2> QED
        BY <2>1 DEF IInv, TypeOK, SealsInv, Old, Forward
<1> QED
    BY <1>1, <1>2, <1>3 DEF IInv

\* The seal command gets the key of a replica and seals with it, in time or too
\* late.
LEMMA SealStep ==
    ASSUME IInv, NEW a \in Apps,
           SealAndDeploy(a) \/ \E r \in Replicas : FetchKey(a, r)
    PROVE  IInv'
<1>1. CASE SealAndDeploy(a)
    <2>1. TypeOK'
        BY <1>1 DEF IInv, TypeOK, SealAndDeploy
    <2>2. ManifestInv' /\ RunningInv'
        BY <1>1 DEF IInv, ManifestInv, RunningInv, Old, SealAndDeploy
    <2>3. /\ fetched[a] # NoKey /\ manifest' = manifest /\ phase' = phase /\ heard' = heard
          /\ sealedTo'[a] = fetched[a]
          /\ \A b \in Apps : b # a => sealedTo'[b] = sealedTo[b] /\ (b \in late' <=> b \in late)
          /\ (a \in late' <=> TooLate(a))
        BY <1>1 DEF IInv, TypeOK, SealAndDeploy
    <2>4. ~ TooLate(a) =>
            /\ fetched[a] \in {manifest.key, manifest.previous}
            /\ phase = "resealing" /\ heard[a] = "primary" => fetched[a] = manifest.key
        BY DEF TooLate
    <2>5. phase \in {"steady", "dropping"} => manifest.previous = NoKey
        BY DEF IInv, ManifestInv
    <2>6. SealsInv'
        <3> SUFFICES ASSUME NEW b \in Apps, b \notin late'
                     PROVE  /\ phase \in {"steady", "dropping"} => sealedTo'[b] = manifest.key
                            /\ phase \in {"rolling", "resealing"} =>
                                 sealedTo'[b] \in {manifest.previous, manifest.key}
                            /\ phase = "resealing" /\ heard[b] = "primary" =>
                                 sealedTo'[b] = manifest.key
            BY <2>3 DEF SealsInv, Old
        <3>1. CASE b = a
            BY <2>3, <2>4, <2>5, <3>1
        <3>2. CASE b # a
            BY <2>3, <3>2 DEF IInv, SealsInv, Old
        <3> QED
            BY <3>1, <3>2
    <2> QED
        BY <2>1, <2>2, <2>6 DEF IInv
<1>2. ASSUME NEW r \in Replicas, FetchKey(a, r)
      PROVE  IInv'
    <2>1. running[r].keys.key \in Keys
        BY DEF IInv, TypeOK, Keyrings
    <2>2. TypeOK'
        BY <1>2, <2>1 DEF IInv, TypeOK, FetchKey, PublishedKey
    <2>3. ManifestInv' /\ RunningInv'
        BY <1>2 DEF IInv, ManifestInv, RunningInv, Old, FetchKey
    <2>4. SealsInv'
        BY <1>2 DEF IInv, SealsInv, Old, FetchKey
    <2> QED
        BY <2>2, <2>3, <2>4 DEF IInv
<1> QED
    BY <1>1, <1>2

\* The operator moves on when the fleet, and then the signal, is ready for it.
LEMMA OperatorStep ==
    ASSUME IInv, Provision \/ Reseal \/ DropPrevious \/ Settle
    PROVE  IInv'
<1> USE NoKeyFacts, MaxKeyAssumption DEF IInv
<1>1. CASE Provision
    <2>1. manifest.key \in Nat /\ manifest.key + 1 \in Keys /\ manifest.key \in Keys
        BY <1>1 DEF TypeOK, Keyrings, Keys, Provision
    <2>2. manifest'.key = manifest.key + 1 /\ manifest'.previous = manifest.key
        BY <1>1 DEF Provision, Keyring
    <2>3. TypeOK'
        BY <1>1, <2>1 DEF TypeOK, Keyrings, Keyring, Provision
    <2>4. ManifestInv'
        BY <1>1, <2>1, <2>2 DEF ManifestInv, Provision
    <2>5. RunningInv'
        BY <1>1, <2>2 DEF RunningInv, Old, Provision
    <2>6. SealsInv'
        BY <1>1, <2>2 DEF SealsInv, Old, Provision
    <2> QED
        BY <2>3, <2>4, <2>5, <2>6
<1>2. CASE Reseal
    <2>1. TypeOK' /\ ManifestInv'
        BY <1>2 DEF TypeOK, ManifestInv, Reseal
    <2>2. RunningInv'
        BY <1>2 DEF RunningInv, Old, Reseal, Rolled
    <2>3. SealsInv'
        BY <1>2 DEF SealsInv, Old, Reseal
    <2> QED
        BY <2>1, <2>2, <2>3
<1>3. CASE DropPrevious
    <2>1. manifest'.key = manifest.key /\ manifest'.previous = NoKey
        BY <1>3 DEF DropPrevious, Keyring
    <2>2. TypeOK'
        BY <1>3 DEF TypeOK, Keyrings, Keyring, DropPrevious
    <2>3. ManifestInv'
        BY <1>3, <2>1 DEF ManifestInv, DropPrevious
    <2>4. RunningInv'
        BY <1>3, <2>1 DEF RunningInv, Old, DropPrevious
    <2>5. SealsInv'
        BY <1>3, <2>1 DEF SealsInv, Old, DropPrevious
    <2> QED
        BY <2>2, <2>3, <2>4, <2>5
<1>4. CASE Settle
    <2>1. TypeOK' /\ ManifestInv'
        BY <1>4 DEF TypeOK, ManifestInv, Settle
    <2>2. RunningInv'
        BY <1>4 DEF RunningInv, Old, Settle, Rolled
    <2>3. SealsInv'
        BY <1>4 DEF SealsInv, Old, Settle
    <2> QED
        BY <2>1, <2>2, <2>3
<1> QED
    BY <1>1, <1>2, <1>3, <1>4

\* A step in which nothing changes.
LEMMA StutterStep == ASSUME IInv, UNCHANGED vars PROVE IInv'
BY DEF IInv, TypeOK, ManifestInv, RunningInv, SealsInv, Old, Opens, vars

\* The invariant that ties replicas and seals to the phase of the rotation.
THEOREM RotationInvariant == Spec => []IInv
<1>1. IInv /\ [Next]_vars => IInv'
    BY ReplicaStep, ForwardStep, SealStep, OperatorStep, StutterStep DEF Next
<1> QED
    BY InitInv, <1>1, PTL DEF Spec

\* What a replica tries at Open covers every seal the phase allows.
LEMMA InvOpens == IInv => SealsOpen
<1> SUFFICES ASSUME IInv, NEW a \in Apps \ late, NEW r \in Replicas, running[r].up,
                    sealedTo[a] <= running[r].keys.key
             PROVE  Opens(sealedTo[a], running[r].keys)
    BY DEF SealsOpen
<1> DEFINE ring == running[r].keys
<1>1. phase \in {"rolling", "resealing"} => Old # NoKey
    BY NoKeyFacts, MaxKeyAssumption DEF IInv, TypeOK, Keyrings, Keys, NoKey, ManifestInv, Old
<1>2. CASE phase \in {"steady", "dropping"}
    BY <1>2 DEF IInv, RunningInv, SealsInv, Opens
<1>3. CASE phase = "rolling"
    <2>1. manifest.key \in Nat /\ Old = manifest.key - 1
        BY <1>3 DEF IInv, TypeOK, Keyrings, Keys, ManifestInv, Old
    <2> QED
        BY <1>1, <1>3, <2>1 DEF IInv, RunningInv, SealsInv, Opens, Old
<1>4. CASE phase = "resealing"
    BY <1>1, <1>4 DEF IInv, RunningInv, SealsInv, Opens, Old
<1> QED
    BY <1>2, <1>3, <1>4 DEF IInv, TypeOK

\* Zero downtime: at every moment of every rotation each seal in use opens at
\* every replica that is up, but for a seal of a key that the fleet accepts no
\* more or the replica not yet (handleForward with seal.Open's fallback).
THEOREM SealsAlwaysOpen == Spec => []SealsOpen
BY RotationInvariant, InvOpens, PTL

\* An application heard without seal_opened_via_previous_key since the roll
\* has a seal that the previous key may be dropped for.
THEOREM SilenceIsReliable == Spec => []SilentMeansResealed
<1>1. IInv => SilentMeansResealed
    BY MaxKeyAssumption DEF IInv, TypeOK, Keyrings, Keys, NoKey, ManifestInv, SealsInv,
       SilentMeansResealed
<1> QED
    BY RotationInvariant, <1>1, PTL

\* The types of the fleet's state.
THEOREM RotationTypes == Spec => []TypeOK
BY RotationInvariant, PTL DEF IInv

=============================================================================

------------------------------ MODULE Rotation ------------------------------
(***************************************************************************)
(* A fleet of replicas through rotations of the private key: what a        *)
(* replica loads when it starts (runServe), the key it publishes           *)
(* (handlePublicKey), the seal command that fetches that key and seals     *)
(* with it a while later (runSeal), seal.Open with the previous key as     *)
(* fallback, and the seal_opened_via_previous_key signal (handleForward).  *)
(* Replicas stop, crash and start at any time.                             *)
(*                                                                         *)
(* The operator is the environment.  It follows the runbook: provision the *)
(* new keypair with the old key as the previous one, roll, re-seal, and    *)
(* drop the previous key once the signal is silent, which the runbook      *)
(* leaves open and is taken strictly: every application was heard on its   *)
(* current key since that roll.  A seal command may run at any time and    *)
(* take any time, over several rotations even.                             *)
(*                                                                         *)
(* Keypairs are numbered in the order they are generated.                  *)
(***************************************************************************)
EXTENDS Naturals

CONSTANTS
    Replicas,       \* instances of secret-proxy serve
    Apps,           \* applications, each with one seal in use
    MaxKey          \* bound on how many keypairs are generated

ASSUME MaxKeyAssumption == MaxKey \in Nat

VARIABLES
    phase,      \* of the runbook: steady, rolling, resealing, dropping
    manifest,   \* the keys a replica gets when it starts
    running,    \* replica -> the keys it runs with; up is FALSE when it is down
    sealedTo,   \* application -> the key its seal is sealed to
    fetched,    \* application -> the key its seal command fetched, or NoKey
    heard,      \* application -> how its last seal opened since the last roll
    late        \* history: applications that were given a seal too late

vars == <<phase, manifest, running, sealedTo, fetched, heard, late>>

NoKey == MaxKey + 1
Keys == 0..MaxKey
Keyring(key, previous) == [key |-> key, previous |-> previous]
Up(keys) == [up |-> TRUE, keys |-> keys]

Init ==
    /\ phase = "steady"
    /\ manifest = Keyring(0, NoKey)
    /\ running = [r \in Replicas |-> Up(manifest)]
    /\ sealedTo = [a \in Apps |-> 0]
    /\ fetched = [a \in Apps |-> NoKey]
    /\ heard = [a \in Apps |-> "nothing"]
    /\ late = {}

----------------------------------------------------------------------------
(* seal.Open                                                               *)

\* Mutant of Opens: only the private key is tried.
OpensPrimary(seal, ring) == seal = ring.key

Opens(seal, ring) == seal = ring.key \/ (ring.previous # NoKey /\ seal = ring.previous)

\* Mutant of UsedFallback: which key opened the seal is not told.
UsedFallbackNever(seal, ring) == FALSE

UsedFallback(seal, ring) == seal # ring.key /\ ring.previous # NoKey /\ seal = ring.previous

----------------------------------------------------------------------------
(* Replicas                                                                *)

\* A replica that stops or crashes forgets everything.
Stop(r) ==
    /\ running[r].up
    /\ running' = [running EXCEPT ![r].up = FALSE]
    /\ UNCHANGED <<phase, manifest, sealedTo, fetched, heard, late>>

\* runServe loads the keys of the manifest.
Start(r) ==
    /\ ~ running[r].up
    /\ running' = [running EXCEPT ![r] = Up(manifest)]
    /\ UNCHANGED <<phase, manifest, sealedTo, fetched, heard, late>>

\* handleForward on the seal of a: refused, or opened and perhaps signalled.
Forward(a, r) ==
    /\ running[r].up
    /\ heard' = [heard EXCEPT ![a] =
                    IF ~ Opens(sealedTo[a], running[r].keys) THEN "refusal"
                    ELSE IF UsedFallback(sealedTo[a], running[r].keys) THEN "fallback" ELSE "primary"]
    /\ UNCHANGED <<phase, manifest, running, sealedTo, fetched, late>>

\* handlePublicKey: the public half of the private key, never of the previous.
PublishedKey(ring) == ring.key

----------------------------------------------------------------------------
(* The seal command, with --public-key-url at any replica                  *)

FetchKey(a, r) ==
    /\ running[r].up
    /\ fetched[a] = NoKey
    /\ fetched' = [fetched EXCEPT ![a] = PublishedKey(running[r].keys)]
    /\ UNCHANGED <<phase, manifest, running, sealedTo, heard, late>>

\* The key that was fetched is no longer one the fleet goes on accepting: it
\* was replaced before the last roll, or it is the previous one and the operator
\* has heard already that the application needs that no more.
TooLate(a) ==
    \/ fetched[a] \notin {manifest.key, manifest.previous}
    \/ fetched[a] = manifest.previous /\ phase = "resealing" /\ heard[a] = "primary"

\* Seal, and the application is given the new seal.
SealAndDeploy(a) ==
    /\ fetched[a] # NoKey
    /\ sealedTo' = [sealedTo EXCEPT ![a] = fetched[a]]
    /\ fetched' = [fetched EXCEPT ![a] = NoKey]
    /\ late' = IF TooLate(a) THEN late \cup {a} ELSE late \ {a}
    /\ UNCHANGED <<phase, manifest, running, heard>>

----------------------------------------------------------------------------
(* The operator                                                            *)

\* Every replica that is up runs the manifest.
Rolled == \A r \in Replicas : running[r].up => running[r].keys = manifest

Provision ==
    /\ phase = "steady" /\ manifest.key < MaxKey
    /\ phase' = "rolling"
    /\ manifest' = Keyring(manifest.key + 1, manifest.key)
    /\ UNCHANGED <<running, sealedTo, fetched, heard, late>>

Reseal ==
    /\ phase = "rolling" /\ Rolled
    /\ phase' = "resealing"
    /\ heard' = [a \in Apps |-> "nothing"]
    /\ UNCHANGED <<manifest, running, sealedTo, fetched, late>>

DropPrevious ==
    /\ phase = "resealing"
    /\ \A a \in Apps : heard[a] = "primary"
    /\ phase' = "dropping"
    /\ manifest' = Keyring(manifest.key, NoKey)
    /\ UNCHANGED <<running, sealedTo, fetched, heard, late>>

Settle ==
    /\ phase = "dropping" /\ Rolled
    /\ phase' = "steady"
    /\ UNCHANGED <<manifest, running, sealedTo, fetched, heard, late>>

Next ==
    \/ \E r \in Replicas : Stop(r) \/ Start(r)
    \/ \E a \in Apps, r \in Replicas : Forward(a, r) \/ FetchKey(a, r)
    \/ \E a \in Apps : SealAndDeploy(a)
    \/ Provision \/ Reseal \/ DropPrevious \/ Settle

Spec == Init /\ [][Next]_vars

----------------------------------------------------------------------------

Keyrings == [key : Keys, previous : Keys \cup {NoKey}]

\* Types of the fleet's state.
TypeOK ==
    /\ phase \in {"steady", "rolling", "resealing", "dropping"}
    /\ manifest \in Keyrings
    /\ running \in [Replicas -> [up : BOOLEAN, keys : Keyrings]]
    /\ sealedTo \in [Apps -> Keys]
    /\ fetched \in [Apps -> Keys \cup {NoKey}]
    /\ heard \in [Apps -> {"nothing", "refusal", "fallback", "primary"}]
    /\ late \subseteq Apps

\* Zero downtime: at every moment of a rotation, with replicas restarting in
\* any order and seal commands under way, every seal in use opens at every
\* replica that is up.  Two seals are excepted, that no key of the replica can
\* open: one made too late, until the application is given the next, and one
\* made with a key the replica has not been rolled to yet.
SealsOpen ==
    \A a \in Apps \ late, r \in Replicas :
        running[r].up /\ sealedTo[a] <= running[r].keys.key =>
            Opens(sealedTo[a], running[r].keys)

\* The signal can be trusted: in the re-sealing phase an application that was
\* last heard without it, and was not given a seal too late since, has no seal
\* that needs the previous key.
SilentMeansResealed ==
    phase = "resealing" =>
        \A a \in Apps \ late : heard[a] = "primary" => sealedTo[a] # manifest.previous

=============================================================================

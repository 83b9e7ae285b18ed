----------------------------- MODULE MCReleases -----------------------------
(***************************************************************************)
(* What a node does with releases and with the state it trusts: layered    *)
(* installs, swaps with their hooks, the registry of installed             *)
(* applications, the chain of certificates behind a launch, the security   *)
(* epoch and the secret vault.  They share no state; `part' says which of  *)
(* them a behaviour exercises.                                             *)
(***************************************************************************)
EXTENDS Integers, Sequences, FiniteSets, TLC, ReleaseSwap, Layering, SecurityEpoch,
        AppRegistry, TrustChain, VaultStore

\* Two actors that differ in nothing: processes that swap, setters of the epoch,
\* savers of the vault, and the arpm processes, each of the application of its
\* name.
CONSTANTS u1, u2

Actors == {u1, u2}
Interchangeable == Permutations(Actors)

VARIABLE part

(***************************************************************************)
(* Two installers of different releases over one that is installed; its    *)
(* first file may be written by anybody.                                   *)
(***************************************************************************)
Listed(data, exec) == [data |-> data, exec |-> exec]

InstalledIndex == <<Listed(1, FALSE), Listed(1, TRUE), Listed(2, FALSE)>>
TargetIndexes ==
  [i1 |-> <<Listed(1, FALSE), Listed(2, TRUE), Listed(2, FALSE), Listed(1, FALSE)>>,
   i2 |-> <<Listed(1, TRUE), Listed(1, TRUE)>>]
PayloadFiles == <<1, 2, 2, 1>>

(***************************************************************************)
(* Three applications for a registry of two, an arpm for two of them; a    *)
(* file that is no package (version 3), although the checksum admits it.   *)
(***************************************************************************)
Admitted == [x \in Apps |-> {1, 3}]
ServedBy == [x \in Actors |-> {x}]

(***************************************************************************)
(* Certificates that expire while the clock runs; a period of validity     *)
(* that wraps around; a package with both signatures and one of the old    *)
(* format, made elsewhere.                                                 *)
(***************************************************************************)
SignedBody == [profile |-> "sovereign", ring |-> "sovereign", pqc |-> TRUE, issued |-> 1,
               expires |-> 3, data |-> 1, sha |-> 1]
BothSigned == [profile |-> "sovereign", ring |-> "sovereign", pqc |-> TRUE, issued |-> 1,
               expires |-> 3, data |-> 1, sha |-> 1, legacy |-> FALSE,
               ed |-> {[by |-> 3, of |-> SignedBody]}, pq |-> {[by |-> 0, of |-> SignedBody]}]
OldFormat == [BothSigned EXCEPT !.legacy = TRUE, !.ed = {}, !.pq = {}]

DeliveredPackages == {BothSigned}
InstalledPackages == {OldFormat}
Expiry == [root |-> 2, intermediate |-> 3, leaf |-> 3]

(***************************************************************************)
(* Four stores: raw key and passphrase, short and long, one whose value    *)
(* has two lines, one that does not parse.                                 *)
(***************************************************************************)
Raw(id) == [raw |-> TRUE, id |-> id]
Phrase(id) == [raw |-> FALSE, id |-> id]
Sealing(material, iterations) == [material |-> material, iterations |-> iterations]
Secret(app, key, value) == [app |-> app, key |-> key, lines |-> <<<<key, value>>>>, fault |-> "none"]
TwoLines == [Secret("app", "k1", 1) EXCEPT !.lines = <<<<"k1", 1>>, <<"k2", 9>>>>]
Comment == [Secret("app", "k1", 7) EXCEPT !.fault = "comment"]
Unparsable == [Secret("app", "k1", 1) EXCEPT !.fault = "name"]

StoredTexts ==
  <<[json |-> FALSE,
     entries |-> <<Comment, Secret("app", "k1", 1), Secret("other", "k1", 2), Secret("app", "k2", 3)>>,
     blocks |-> 2, sealing |-> Sealing(Raw(1), 0)],
    [json |-> TRUE, entries |-> <<Secret("app", "k2", 4)>>, blocks |-> 1,
     sealing |-> Sealing(Phrase(2), 0)],
    [json |-> TRUE, entries |-> <<TwoLines>>, blocks |-> 2, sealing |-> Sealing(Phrase(2), 5)],
    [json |-> FALSE, entries |-> <<Secret("app", "k2", 4), Unparsable>>, blocks |-> 2,
     sealing |-> Sealing(Raw(1), 0)]>>
SecretRequests == {[app |-> "app", keys |-> {}, material |-> Raw(1)],
                   [app |-> "app", keys |-> {"k1"}, material |-> Raw(1)],
                   [app |-> "app", keys |-> {"k2"}, material |-> Phrase(2)],
                   [app |-> "noapp", keys |-> {}, material |-> Raw(1)]}

(***************************************************************************)
(* The parts side by side                                                  *)
(***************************************************************************)
releaseVars == <<part, layerVars, swapVars, registryVars, trustVars, epochVars, vaultVars>>

\* A part that a behaviour does not exercise stays as it is at first, in one of
\* its initial states.
LayerOff == LayerInit
SwapOff == SwapInit
RegistryOff == RegistryInit /\ apps = <<>> /\ own = [x \in Apps |-> NoFile]
TrustOff == TrustInit /\ artifact = {} /\ certFile = [r \in Roles |-> {FirstCert(r)}]
EpochOff == EpochInit /\ realtime = 1 /\ ~ provisioned
VaultOff == VaultInit

ReleasesInit ==
  \/ part = "layer" /\ LayerInit
     /\ SwapOff /\ RegistryOff /\ TrustOff /\ EpochOff /\ VaultOff
  \/ part = "swap" /\ SwapInit
     /\ LayerOff /\ RegistryOff /\ TrustOff /\ EpochOff /\ VaultOff
  \/ part = "registry" /\ RegistryInit
     /\ LayerOff /\ SwapOff /\ TrustOff /\ EpochOff /\ VaultOff
  \/ part = "trust" /\ TrustInit
     /\ LayerOff /\ SwapOff /\ RegistryOff /\ EpochOff /\ VaultOff
  \/ part = "epoch" /\ EpochInit
     /\ LayerOff /\ SwapOff /\ RegistryOff /\ TrustOff /\ VaultOff
  \/ part = "vault" /\ VaultInit
     /\ LayerOff /\ SwapOff /\ RegistryOff /\ TrustOff /\ EpochOff

ReleasesNext ==
  \/ /\ part = "layer" /\ LayerNext
     /\ UNCHANGED <<part, swapVars, registryVars, trustVars, epochVars, vaultVars>>
  \/ /\ part = "swap" /\ SwapNext
     /\ UNCHANGED <<part, layerVars, registryVars, trustVars, epochVars, vaultVars>>
  \/ /\ part = "registry" /\ RegistryNext
     /\ UNCHANGED <<part, layerVars, swapVars, trustVars, epochVars, vaultVars>>
  \/ /\ part = "trust" /\ TrustNext
     /\ UNCHANGED <<part, layerVars, swapVars, registryVars, epochVars, vaultVars>>
  \/ /\ part = "epoch" /\ EpochNext /\ UNCHANGED provisioned
     /\ UNCHANGED <<part, layerVars, swapVars, registryVars, trustVars, vaultVars>>
  \/ /\ part = "vault" /\ VaultNext
     /\ UNCHANGED <<part, layerVars, swapVars, registryVars, trustVars, epochVars>>

ReleasesSpec == ReleasesInit /\ [][ReleasesNext]_releaseVars
=============================================================================

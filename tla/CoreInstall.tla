---------------------------- MODULE CoreInstall ----------------------------
(***************************************************************************)
(* Installing a Mihomo core: requests download an asset, verify it and run *)
(* it once in a staging directory, rename the binary into the directory of *)
(* its version and then write current.json.  Requests may overlap, and     *)
(* simplusd may crash between any two steps.                               *)
(***************************************************************************)
EXTENDS Naturals

CONSTANTS
  Installers,   \* requests
  CoreVersions, \* releases the candidate may be of
  NoCore,
  MaxCoreFaults \* bound: failing writes and crashes

VARIABLES
  binaries,   \* versions/<version>/mihomo that exist
  currentCore,    \* the version current.json names
  installing, \* what each request is doing, with which version
  everCurrent, \* history: versions current.json named
  doubled,    \* history: versions two requests moved into place
  stranded,   \* history: versions a crash left without a current.json
  coreFaults

coreVars == <<binaries, currentCore, installing, everCurrent, doubled, stranded,
              coreFaults>>

CoreAssumption == NoCore \notin CoreVersions /\ MaxCoreFaults \in Nat
ASSUME CoreAssumption

NoInstall == [at |-> "idle"]

CoreTypeOK ==
  /\ binaries \subseteq CoreVersions /\ currentCore \in CoreVersions \cup {NoCore}
  /\ installing \in [Installers ->
       {NoInstall} \cup [at : {"staged", "checked", "moved"}, version : CoreVersions]]
  /\ everCurrent \subseteq CoreVersions /\ doubled \subseteq CoreVersions
  /\ stranded \subseteq CoreVersions
  /\ coreFaults \in 0 .. MaxCoreFaults

CoreInit ==
  /\ binaries = {} /\ currentCore = NoCore
  /\ installing = [i \in Installers |-> NoInstall]
  /\ everCurrent = {} /\ doubled = {} /\ stranded = {} /\ coreFaults = 0

Installs(i, where) == installing' = [installing EXCEPT ![i].at = where]
Ends(i) == installing' = [installing EXCEPT ![i] = NoInstall]

(* Size, digest and the reported version agree with the release; anything  *)
(* else ends the request with nothing but a staging file.                  *)
Stage(i, v) ==
  /\ installing[i] = NoInstall
  /\ installing' = [installing EXCEPT ![i] = [at |-> "staged", version |-> v]]
  /\ UNCHANGED <<binaries, currentCore, everCurrent, doubled, stranded, coreFaults>>

(* A version that is in place is not installed again.                      *)
CheckVersion(i) ==
  /\ installing[i].at = "staged"
  /\ IF installing[i].version \in binaries THEN Ends(i) ELSE Installs(i, "checked")
  /\ UNCHANGED <<binaries, currentCore, everCurrent, doubled, stranded, coreFaults>>

MoveBinary(i) ==
  /\ installing[i].at = "checked" /\ Installs(i, "moved")
  /\ binaries' = binaries \cup {installing[i].version}
  /\ doubled' = doubled \cup ({installing[i].version} \cap binaries)
  /\ UNCHANGED <<currentCore, everCurrent, stranded, coreFaults>>

WriteStatus(i) ==
  /\ installing[i].at = "moved" /\ Ends(i)
  /\ currentCore' = installing[i].version
  /\ everCurrent' = everCurrent \cup {installing[i].version}
  /\ UNCHANGED <<binaries, doubled, stranded, coreFaults>>

MutantTakenBack(i) == binaries
TakenBack(i) == binaries \ {installing[i].version}

StatusFails(i) ==
  /\ installing[i].at = "moved" /\ Ends(i)
  /\ coreFaults < MaxCoreFaults /\ coreFaults' = coreFaults + 1
  /\ binaries' = TakenBack(i)
  /\ UNCHANGED <<currentCore, everCurrent, doubled, stranded>>

CoreCrashes ==
  /\ coreFaults < MaxCoreFaults /\ coreFaults' = coreFaults + 1
  /\ stranded' = stranded \cup
       {installing[i].version : i \in {j \in Installers : installing[j].at = "moved"}}
  /\ installing' = [i \in Installers |-> NoInstall]
  /\ UNCHANGED <<binaries, currentCore, everCurrent, doubled>>

CoreNext ==
  \/ \E i \in Installers :
       \/ \E v \in CoreVersions : Stage(i, v)
       \/ CheckVersion(i) \/ MoveBinary(i) \/ WriteStatus(i) \/ StatusFails(i)
  \/ CoreCrashes

CoreSpec == CoreInit /\ [][CoreNext]_coreVars

(* current.json names a binary that is there, unless two requests moved    *)
(* the same version into place and the second took it back.                *)
CurrentIsThere == currentCore \notin doubled \cup {NoCore} => currentCore \in binaries

(* A version whose installation failed can be installed again: a binary    *)
(* in place was recorded or is about to be, unless a crash struck between. *)
FailedCanBeRepeated ==
  \A v \in binaries :
    \/ v \in everCurrent \cup stranded \cup doubled
    \/ \E i \in Installers : installing[i].at = "moved" /\ installing[i].version = v

CoreIsSafe == CoreTypeOK /\ CurrentIsThere /\ FailedCanBeRepeated
=============================================================================

---------------------------- MODULE ReleaseUpdate ----------------------------
(***************************************************************************)
(* `ballet update`: VerifiedReleaseUpdater looks up the latest release,      *)
(* downloads it, verifies checksum and attestation, and installs it - with   *)
(* Homebrew when the running executable is Homebrew's, otherwise as a bundle *)
(* of its own that one rename of the executable's link makes current.        *)
(*                                                                          *)
(* Any step may throw, and the process may be killed between two steps.      *)
(* Bundle 0 is the one installed before; a download is "genuine", damaged on *)
(* the way (its checksum differs) or not made by the release workflow (its   *)
(* attestation fails).                                                       *)
(***************************************************************************)
EXTENDS Integers, FiniteSets, FiniteSetsExt

CONSTANTS MaxBundles        \* bound: bundles ever created

ASSUME UpdateAssumption == MaxBundles \in Nat

VARIABLES
    link,           \* the bundle <prefix>/bin/ballet points to
    bundle,         \* libexec/ballet/versions: the state of each bundle
    upd             \* the updater: its step, its download, its new bundle

updVars == <<link, bundle, upd>>

BundleId == 0..MaxBundles
Download == {"none", "genuine", "damaged", "forged"}
UpdateStep == {"idle", "download", "checksum", "attest", "extract", "create", "copy",
               "verify", "link", "done", "failed"}

UpdateTypeOK ==
    /\ link \in BundleId
    /\ bundle \in [BundleId -> {"absent", "partial", "complete", "unverified"}]
    /\ upd \in [step : UpdateStep, got : Download, new : BundleId]

NoUpdate == [step |-> "idle", got |-> "none", new |-> 0]

UpdateInit ==
    /\ link = 0
    /\ bundle = [b \in BundleId |-> IF b = 0 THEN "complete" ELSE "absent"]
    /\ upd = NoUpdate

Fresh == {b \in BundleId : bundle[b] = "absent"}

At(step) == upd.step = step
Go(step) == upd' = [upd EXCEPT !.step = step]

(* The release exists and names this machine's asset and checksums.txt.      *)
FetchRelease(d) ==
    /\ At("download")
    /\ upd' = [upd EXCEPT !.step = "checksum", !.got = d]
    /\ UNCHANGED <<link, bundle>>

VerifyChecksum ==
    /\ At("checksum") /\ upd.got # "damaged"
    /\ Go("attest")
    /\ UNCHANGED <<link, bundle>>

Attested == upd.got = "genuine"

VerifyAttestation ==
    /\ At("attest") /\ Attested
    /\ Go("extract")
    /\ UNCHANGED <<link, bundle>>

(* Homebrew replaces its own bundle; the updater only compares versions.     *)
BrewUpgrade(b) ==
    /\ At("extract")
    /\ b \in Fresh
    /\ bundle' = [bundle EXCEPT ![b] = "complete"]
    /\ link' = b
    /\ Go("done") \/ Go("failed")

(* The extracted runtime is there, of this architecture, and loads SQLite.   *)
CheckExtracted ==
    /\ At("extract")
    /\ Go("create")
    /\ UNCHANGED <<link, bundle>>

FixedDirectory == {1}

(* mkdtemp: a directory no earlier or concurrent install has.                *)
BundleDirectory == Fresh

CreateBundle ==
    /\ At("create")
    /\ \E b \in BundleDirectory :
         /\ bundle' = [bundle EXCEPT ![b] = "partial"]
         /\ upd' = [upd EXCEPT !.step = "copy", !.new = b]
    /\ UNCHANGED link

CopyBundle ==
    /\ At("copy")
    /\ bundle' = [bundle EXCEPT ![upd.new] = "unverified"]
    /\ Go("verify")
    /\ UNCHANGED link

(* The installed copy reports the release's version and loads SQLite.        *)
CheckBundle ==
    /\ At("verify")
    /\ bundle' = [bundle EXCEPT ![upd.new] = "complete"]
    /\ Go("link")
    /\ UNCHANGED link

(* A symbolic link beside the executable, renamed over it.                   *)
Activate ==
    /\ At("link")
    /\ link' = upd.new
    /\ Go("done")
    /\ UNCHANGED bundle

(* A step throws: the bundle under construction is removed, then the         *)
(* temporary directory.                                                      *)
UpdateFails ==
    /\ upd.step \notin {"idle", "done", "failed"}
    /\ bundle' = IF upd.step \in {"copy", "verify", "link"}
                 THEN [bundle EXCEPT ![upd.new] = "absent"] ELSE bundle
    /\ upd' = [NoUpdate EXCEPT !.step = "failed"]
    /\ UNCHANGED link

UpdateNext ==
    \/ \E d \in Download \ {"none"} : FetchRelease(d)
    \/ VerifyChecksum \/ VerifyAttestation \/ CheckExtracted
    \/ \E b \in BundleId : BrewUpgrade(b)
    \/ CreateBundle \/ CopyBundle \/ CheckBundle \/ Activate \/ UpdateFails

-----------------------------------------------------------------------------
(* ExecutableWorks: whatever step of whatever update fails or is killed, the  *)
(* executable leads to a bundle that was copied whole and checked, and every *)
(* bundle it ever led to was made from a genuine release                     *)
(* (VerifiedReleaseUpdater.installDirectBundle).                             *)
ExecutableWorks ==
    /\ bundle[link] = "complete"
    /\ upd.new # 0 => upd.got = "genuine"
=============================================================================

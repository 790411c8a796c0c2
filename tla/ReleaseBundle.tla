---------------------------- MODULE ReleaseBundle ----------------------------
(***************************************************************************)
(* catalog_release.py: a publication bundle is a directory of members and  *)
(* an index of their digests.  It is written into a staging directory,     *)
(* loaded back, and exchanged with the bundle published before by two      *)
(* renames, with the old one as a backup in between.                       *)
(*                                                                         *)
(* A bundle is the release it holds, which of its members are as the index *)
(* says, and whether they belong together.                                 *)
(***************************************************************************)
EXTENDS Naturals, FiniteSets

CONSTANTS
  Releases,       \* the releases an operator publishes: [catalog, signed, preflight]
  MaxBundleFaults \* bound on kills and I/O errors

ASSUME ReleaseAssumption == MaxBundleFaults \in Nat

Members == {"catalog-bootstrap.json", "catalog.signed.json", "publication-preflight.json", "manifests"}

VARIABLES
  bpc, rel,   \* the step of the writer, the release it publishes
  target,     \* the published directory, or NoBundle
  staging,    \* the members that were written so far, or NoBundle
  backup,     \* the old bundle while it is out of the way, or NoBundle
  litter,     \* bundles left beside the target by killed writers
  published,  \* some bundle was put in place
  bfaults

bundleVars == <<bpc, rel, target, staging, backup, litter, published, bfaults>>

NoBundle == [of |-> "none", members |-> {}]
Bundle(r, m) == [of |-> r, members |-> m]

\* verify_catalog_publication_bundle(): the catalog verifies under the trust root
\* of the bootstrap, and the manifests are exactly the ones it names.
VerifiedInputs(r) == Releases[r].signed /\ Releases[r].manifests = "exact"

\* verify_catalog_publication_preflight_report(): the report is the one these
\* inputs give.
PreflightMatches(r) == Releases[r].preflight = "matching"

\* load_catalog_publication_bundle(): all members and no others, each with its
\* digest, and documents that belong together.
Loads(b) == /\ b # NoBundle /\ b.members = Members
            /\ VerifiedInputs(b.of) /\ PreflightMatches(b.of)

BundleInit ==
  /\ bpc = "idle" /\ rel = "none" /\ target = NoBundle /\ staging = NoBundle
  /\ backup = NoBundle /\ litter = {} /\ published = FALSE /\ bfaults = 0

\* Without force an existing bundle stays; with it, it must load itself.
BeginBundle ==
  /\ bpc = "idle"
  /\ \E r \in DOMAIN Releases, force \in BOOLEAN :
       /\ VerifiedInputs(r) /\ (target # NoBundle => force /\ Loads(target))
       /\ rel' = r
  /\ bpc' = "stage" /\ staging' = Bundle(rel', {})
  /\ UNCHANGED <<target, backup, litter, published, bfaults>>

StageMember ==
  /\ bpc = "stage"
  /\ \E m \in Members \ staging.members : staging' = [staging EXCEPT !.members = @ \cup {m}]
  /\ UNCHANGED <<bpc, rel, target, backup, litter, published, bfaults>>

\* The staged bundle is loaded back before anything is replaced.
CheckStaged ==
  /\ bpc = "stage" /\ staging.members = Members
  /\ IF Loads(staging) THEN bpc' = "swap" /\ UNCHANGED <<rel, staging>>
     ELSE bpc' = "idle" /\ rel' = "none" /\ staging' = NoBundle
  /\ UNCHANGED <<target, backup, litter, published, bfaults>>

SetAside ==
  /\ bpc = "swap" /\ target # NoBundle /\ backup = NoBundle
  /\ backup' = target /\ target' = NoBundle
  /\ UNCHANGED <<bpc, rel, staging, litter, published, bfaults>>

PutInPlace ==
  /\ bpc = "swap" /\ target = NoBundle
  /\ target' = staging /\ staging' = NoBundle /\ backup' = NoBundle /\ bpc' = "idle" /\ rel' = "none"
  /\ published' = TRUE /\ UNCHANGED <<litter, bfaults>>

\* Mutant: nobody puts the backup back.
BundleIoFailsBare ==
  /\ bpc # "idle" /\ bfaults < MaxBundleFaults /\ bfaults' = bfaults + 1
  /\ backup' = NoBundle /\ staging' = NoBundle /\ bpc' = "idle" /\ rel' = "none"
  /\ UNCHANGED <<target, litter, published>>

\* The second rename fails: the backup goes back.  An error before it leaves the
\* target alone.
BundleIoFails ==
  /\ bpc # "idle" /\ bfaults < MaxBundleFaults /\ bfaults' = bfaults + 1
  /\ target' = IF backup # NoBundle /\ target = NoBundle THEN backup ELSE target
  /\ backup' = NoBundle /\ staging' = NoBundle /\ bpc' = "idle" /\ rel' = "none"
  /\ UNCHANGED <<litter, published>>

\* The writer is killed: staging and backup directories stay where they are.
KillWriter ==
  /\ bpc # "idle" /\ bfaults < MaxBundleFaults /\ bfaults' = bfaults + 1
  /\ litter' = litter \cup ({staging, backup} \ {NoBundle})
  /\ backup' = NoBundle /\ staging' = NoBundle /\ bpc' = "idle" /\ rel' = "none"
  /\ UNCHANGED <<target, published>>

BundleNext == BeginBundle \/ StageMember \/ CheckStaged \/ SetAside \/ PutInPlace
              \/ BundleIoFails \/ KillWriter

BundleSpec == BundleInit /\ [][BundleNext]_bundleVars

BundleTypeOK ==
  /\ bpc \in {"idle", "stage", "swap"} /\ rel \in DOMAIN Releases \cup {"none"}
  /\ \A b \in {target, staging, backup} \cup litter : b.members \subseteq Members

\* What is published loads, whatever failed or was killed; and once a bundle was
\* published, one that loads is at the target or, when the writer is between its
\* two renames or was killed there, beside it.
PublishedLoads ==
  /\ target # NoBundle => Loads(target)
  /\ published => \E b \in {target, backup} \cup litter : Loads(b)
=============================================================================

--------------------------- MODULE MCQualification ---------------------------
(***************************************************************************)
(* The release-qualification tools side by side: one behaviour is about    *)
(* the paid cloud run, the spend ledger, the Fly recovery gate, the run of *)
(* the packaged application on a clean host, the document a host writes by *)
(* hand, or the download of a package.  They share no state; the           *)
(* authorization that the ledger guards is an input of the paid ones.      *)
(***************************************************************************)
\* Instance of the qualification tools: a fleet over two regions, three runs
\* whose maxima (67, 26 and 10 USD) do not fit under the ceiling together.
EXTENDS CloudLifecycle, CostGuard, FlyQualification, PackagedLifecycle

MCFleetRegions == <<"primary", "fallback">>

MCProposal ==
  [r \in Runs |->
     CASE r = "a" -> [workload |-> "fleet", hours |-> 13, manual |-> None, split |-> TRUE, shape |-> "g2-l4"]
       [] r = "b" -> [workload |-> "route", hours |-> 14, manual |-> None, split |-> FALSE, shape |-> "g2-l4"]
       [] r = "c" -> [workload |-> "cache", hours |-> 6, manual |-> None, split |-> FALSE, shape |-> "n1-t4"]]

\* The prices the release records state for the two fleet shapes and the route.
ASSUME PricesAsRecorded ==
  GcpCost(14, FALSE, "n1-t4") = 70 /\ PublicRouteCost(14) = 26

-----------------------------------------------------------------------------

CONSTANT Tools   \* those that have behaviours
VARIABLE tool

packageVars == <<pkVars, ldVars, pdVars>>
qualVars == <<tool, cloudVars, ledgerVars, flyVars, packageVars>>

QualInit ==
  /\ tool \in Tools
  /\ CloudInit /\ LedgerInit /\ FlyInit /\ PkInit /\ DocumentInit /\ DownloadInit
  /\ tool # "cloud" => work = CHOOSE w \in Workloads : TRUE
  /\ tool # "fly" => \A r \in Resources : box[r] = "none"
  /\ tool # "package" => pkConfig = [kind |-> "upgrade", version |-> "newer", catalog |-> "same"]

QualNext ==
  /\ UNCHANGED tool
  /\ \/ tool = "cloud" /\ CloudNext /\ UNCHANGED <<ledgerVars, flyVars, packageVars>>
     \/ tool = "ledger" /\ LedgerNext /\ UNCHANGED <<cloudVars, flyVars, packageVars>>
     \/ tool = "fly" /\ FlyNext /\ UNCHANGED <<cloudVars, ledgerVars, packageVars>>
     \/ /\ tool = "package" /\ PkNext
        /\ UNCHANGED <<cloudVars, ledgerVars, flyVars, ldVars, pdVars>>
     \/ /\ tool = "document" /\ DocumentNext
        /\ UNCHANGED <<cloudVars, ledgerVars, flyVars, pkVars, pdVars>>
     \/ /\ tool = "download" /\ DownloadNext
        /\ UNCHANGED <<cloudVars, ledgerVars, flyVars, pkVars, ldVars>>

\* The cloud tool keeps going, the provider enforces the maximum run duration
\* and carries out or drops what it was asked; the packaged run is one thread, and
\* its worker follows the sharing switch.  Nothing is assumed of the rest.
QualSpec ==
  /\ QualInit /\ [][QualNext]_qualVars
  /\ WF_cloudVars(tool = "cloud" /\ Tool)
  /\ WF_cloudVars(tool = "cloud" /\ \E r \in Instances : Expire(r))
  /\ WF_cloudVars(tool = "cloud" /\ \E r \in inflight : Land(r))
  /\ WF_pkVars(tool = "package" /\ PkRun)
  /\ WF_pkVars(tool = "package" /\ WorkerFollows)

\* Types of the four modules that a run of one tool is in: the cloud run, the ledger,
\* the Fly gate and the packaged run.
QualTypeOK == CloudTypeOK /\ LedgerTypeOK /\ FlyTypeOK /\ PkTypeOK

\* The order of a paid run: the cleanup suffices from every prefix of the creates,
\* and the fleet has one host at a time (gcp_public_route_lifecycle.py's plans).
QualSound == QualTypeOK /\ CleanupSuffices /\ OneHostAtATime

\* What the evidence of a paid run says of absence is true, and a run that passed
\* left no credential and nothing that costs money.
CloudClean == VerifiedMeansGone /\ PassedIsClean

\* The Fly gate passed only over a real recovery, and cleaned means destroyed.
FlyRecovers == CleanedMeansDestroyed /\ PassedRecovered

\* The packaged run leaves nothing behind that it does not report, and no process
\* of one of its phases survives into another.
HostLeftClean == EndedClean /\ NothingUnowned

\* A document and a package are what they are taken for.
EvidenceExact == DocumentProves /\ PackageExact

\* Whatever fails, the kill of the tool included, in the end a paid run is over and
\* no host of it is running; and the packaged run ends with an answer.
PaidRunsEnd == tool = "cloud" => <>[](pc = "done" /\ Instances = {})
RunsEnd == PaidRunsEnd /\ (tool = "package" => LifecycleEnds)
=============================================================================

--------------------------- MODULE AutomaticPlacement ---------------------------
(***************************************************************************)
(* The automatic worker of a node: the planner that chooses a model and a  *)
(* range of blocks from coverage and demand (contribution_planner.py), the *)
(* reconcile thread that announces the choice and changes the worker's     *)
(* launch (cli/run_node.py), and the control requests that change the      *)
(* policy and start or pause the worker meanwhile.                         *)
(* Bounds: changes of coverage and demand (MaxObservations), requests to   *)
(* the control API (MaxRequests) and lost announcements (MaxLost).         *)
(***************************************************************************)
EXTENDS Integers, FiniteSets

CONSTANTS
  Offers,           \* the manifested models the policy admits
  StaticScore,      \* preference, priority and dispersion of each, below one replica step
  MaxObservations, MaxRequests, MaxLost

ASSUME PlacementAssumption ==
  /\ StaticScore \in [Offers -> 0..61]
  /\ MaxObservations \in Nat /\ MaxRequests \in Nat /\ MaxLost \in Nat

VARIABLES
  apSharing,    \* the config file's sharing_enabled
  apCoverage,   \* discovery's snapshot of each model, "unknown" or the least-covered range and its deficit
  apDemand,     \* points of the route observations of each model
  apStep,       \* where reconcile() is
  apRead,       \* the sharing switch reconcile() has loaded
  apProposal,   \* the planner's proposal
  apRegistry,   \* the placement registry
  apPlanner,    \* the planner's committed decision, and whether residency or cooldown holds it
  apLease,      \* the decision the local lease is for
  apIntents,    \* decisions that were announced
  apLaunch,     \* the worker's launch
  apWorker,     \* its process, desired_running and operator_paused
  apNext,       \* the launch to install and the start argument
  apPut,        \* the policy update under way
  apUsed        \* how much of the bounds is used

apVars == <<apSharing, apCoverage, apDemand, apStep, apRead, apProposal, apRegistry, apPlanner,
            apLease, apIntents, apLaunch, apWorker, apNext, apPut, apUsed>>
apWorld == <<apCoverage, apDemand, apUsed>>
apPlans == <<apRegistry, apPlanner, apLease, apIntents>>
apRound == <<apStep, apRead, apProposal, apNext>>
apService == <<apLaunch, apWorker>>

Ranges == {1, 2}
Nowhere == [model |-> "none", range |-> 0]
Unmeasured == [range |-> 0, deficit |-> 0]
Decisions == [model : Offers, range : Ranges]
NoNext == [launch |-> [decision |-> Nowhere, admitted |-> FALSE], start |-> FALSE]
Idle == [sharing |-> FALSE, launch |-> NoNext.launch, busy |-> FALSE]

PlacementInit ==
  /\ apSharing \in BOOLEAN
  /\ apCoverage = [m \in Offers |-> Unmeasured] /\ apDemand = [m \in Offers |-> 0]
  /\ apStep = "idle" /\ apRead = FALSE /\ apProposal = Nowhere
  /\ apRegistry = Nowhere
  /\ apPlanner = [current |-> Nowhere, held |-> FALSE]
  /\ apLease = Nowhere /\ apIntents = {}
  /\ apLaunch = NoNext.launch
  /\ apWorker = [running |-> FALSE, desired |-> FALSE, paused |-> FALSE]
  /\ apNext = NoNext /\ apPut = Idle
  /\ apUsed = [observations |-> 0, requests |-> 0, lost |-> 0]

Use(what, max) == apUsed[what] < max /\ apUsed' = [apUsed EXCEPT ![what] = @ + 1]

--------------------------------------------------------------------------------
\* Discovery and the route outcomes. A lookup that fails makes the status unknown at
\* once; demand is worth at most eight points.
ObserveOffer(m) ==
  /\ Use("observations", MaxObservations)
  /\ \/ /\ apCoverage' = [apCoverage EXCEPT ![m] = Unmeasured]
        /\ UNCHANGED apDemand
     \/ /\ \E r \in Ranges, d \in {0, 1} :
             apCoverage' = [apCoverage EXCEPT ![m] = [range |-> r, deficit |-> d]]
        /\ UNCHANGED apDemand
     \/ /\ \E points \in {0, 8} : apDemand' = [apDemand EXCEPT ![m] = points]
        /\ UNCHANGED apCoverage
  /\ UNCHANGED <<apSharing, apRound, apPlans, apService, apPut>>

\* The quarter of an hour of residency and the five minutes of cooldown have passed.
ResidencyEnds ==
  /\ apPlanner.held /\ apPlanner' = [apPlanner EXCEPT !.held = FALSE]
  /\ UNCHANGED <<apSharing, apWorld, apRound, apRegistry, apLease, apIntents, apService, apPut>>

--------------------------------------------------------------------------------
\* The planner.
Eligible == {m \in Offers : apCoverage[m] # Unmeasured}
Evaluate(m) == [model |-> m, range |-> apCoverage[m].range]
Score(m) == 100 * apCoverage[m].deficit + StaticScore[m] + apDemand[m]

\* The best model and its least-covered range; the committed decision while it is
\* held, or while a better model does not exceed it by the switch margin of ten.
Propose ==
  IF ~apRead \/ Eligible = {} THEN {Nowhere}
  ELSE LET best == CHOOSE m \in Eligible : \A o \in Eligible : Score(m) >= Score(o)
           current == apPlanner.current.model
           stays == /\ current \in Eligible
                    /\ apPlanner.held \/ (best # current /\ Score(best) < Score(current) + 10)
       IN {IF stays THEN apPlanner.current ELSE Evaluate(best)}

CommitDecision(decision) ==
  apPlanner' = [current |-> decision,
                held |-> IF decision # apPlanner.current THEN TRUE ELSE apPlanner.held]

--------------------------------------------------------------------------------
\* reconcile(): the steps between two calls to something another thread changes.
LoadConfig ==
  /\ apStep = "idle" /\ apStep' = "loaded"
  /\ apRead' = apSharing
  /\ UNCHANGED <<apSharing, apWorld, apProposal, apPlans, apService, apNext, apPut>>

ProposePlacement ==
  /\ apStep = "loaded"
  /\ apProposal' \in Propose
  /\ apStep' = IF apProposal' = Nowhere THEN "planned" ELSE "publish"
  /\ UNCHANGED <<apSharing, apWorld, apRead, apPlans, apService, apNext, apPut>>

\* Mutant: the planner commits before it knows whether the lease was published.
PublishIntentCommitted ==
  /\ apStep = "publish" /\ apStep' = "planned" /\ CommitDecision(apProposal)
  /\ \/ /\ apLease = apProposal
        /\ UNCHANGED <<apProposal, apLease, apIntents, apUsed>>
     \/ /\ apLease' = apProposal /\ apIntents' = apIntents \cup {apProposal}
        /\ UNCHANGED <<apProposal, apUsed>>
     \/ /\ Use("lost", MaxLost) /\ UNCHANGED <<apProposal, apLease, apIntents>>
  /\ UNCHANGED <<apSharing, apCoverage, apDemand, apRead, apRegistry, apService, apNext, apPut>>

\* publish_intent: nothing to do while the lease of this decision is fresh; otherwise a
\* signed lease goes to a remote peer, and only then the planner commits. When that
\* fails the plan of the round before stays.
PublishIntent ==
  /\ apStep = "publish" /\ apStep' = "planned"
  /\ \/ /\ apLease = apProposal
        /\ CommitDecision(apProposal) /\ UNCHANGED <<apProposal, apLease, apIntents, apUsed>>
     \/ /\ apLease' = apProposal
        /\ apIntents' = apIntents \cup {apProposal}
        /\ CommitDecision(apProposal)
        /\ UNCHANGED <<apProposal, apUsed>>
     \/ /\ Use("lost", MaxLost)
        /\ apProposal' = apRegistry
        /\ UNCHANGED <<apPlanner, apLease, apIntents>>
  /\ UNCHANGED <<apSharing, apCoverage, apDemand, apRead, apRegistry, apService, apNext, apPut>>

\* What the settings make of a plan under a policy.
LaunchFor(plan, sharing) == [decision |-> plan, admitted |-> sharing /\ plan # Nowhere]

\* registry.replace, the settings of the loaded config, and the comparison with the
\* launch the supervisor has now.
Compare ==
  /\ apStep = "planned"
  /\ apRegistry' = apProposal
  /\ LET launch == LaunchFor(apProposal, apRead)
     IN IF launch = apLaunch
          THEN apStep' = "idle" /\ apNext' = NoNext
          ELSE /\ apStep' = IF apWorker.desired \/ apWorker.running THEN "pause" ELSE "replace"
               /\ \E start \in BOOLEAN :
                    /\ start = (~apWorker.paused /\ (~apLaunch.admitted \/ apWorker.desired))
                    /\ apNext' = [launch |-> launch, start |-> start]
  /\ apRead' = FALSE /\ apProposal' = Nowhere
  /\ UNCHANGED <<apSharing, apWorld, apPlanner, apLease, apIntents, apService, apPut>>

PauseForReconfiguration ==
  /\ apStep = "pause" /\ apStep' = "replace"
  /\ apWorker' = [apWorker EXCEPT !.running = FALSE, !.desired = FALSE]
  /\ UNCHANGED <<apSharing, apWorld, apRead, apProposal, apPlans, apLaunch, apNext, apPut>>

\* replace_launch: refused when the worker has been started meanwhile; an operator's
\* pause that came after the comparison counts.
ReplaceAutomatic ==
  /\ apStep = "replace" /\ apStep' = "idle" /\ apNext' = NoNext
  /\ IF apWorker.desired \/ apWorker.running
       THEN UNCHANGED apService
       ELSE LET go == apNext.start /\ ~apWorker.paused /\ apNext.launch.admitted
            IN /\ apLaunch' = apNext.launch
               /\ apWorker' = [apWorker EXCEPT !.running = go, !.desired = go]
  /\ UNCHANGED <<apSharing, apWorld, apRead, apProposal, apPlans, apPut>>

Reconcile ==
  LoadConfig \/ ProposePlacement \/ PublishIntent \/ Compare \/ PauseForReconfiguration \/ ReplaceAutomatic

--------------------------------------------------------------------------------
\* The control API. A policy update prepares its settings from the registry, and is
\* written and applied under the supervisor's lock, when no worker runs or is to run.
PutPrepare(sharing) ==
  /\ ~apPut.busy /\ sharing # apSharing /\ Use("requests", MaxRequests)
  /\ apPut' = [busy |-> TRUE, sharing |-> sharing, launch |-> LaunchFor(apRegistry, sharing)]
  /\ UNCHANGED <<apSharing, apCoverage, apDemand, apRound, apPlans, apService>>

PutApply ==
  /\ apPut.busy /\ apPut' = Idle
  /\ IF apWorker.desired \/ apWorker.running
       THEN UNCHANGED <<apSharing, apLaunch>>
       ELSE apSharing' = apPut.sharing /\ apLaunch' = apPut.launch
  /\ UNCHANGED <<apWorld, apRound, apPlans, apWorker>>

StartAutomatic ==
  /\ Use("requests", MaxRequests) /\ apLaunch.admitted
  /\ apWorker' = [running |-> TRUE, desired |-> TRUE, paused |-> FALSE]
  /\ UNCHANGED <<apSharing, apCoverage, apDemand, apRound, apPlans, apLaunch, apPut>>

PauseAutomatic ==
  /\ Use("requests", MaxRequests)
  /\ apWorker' = [running |-> FALSE, desired |-> FALSE, paused |-> TRUE]
  /\ UNCHANGED <<apSharing, apCoverage, apDemand, apRound, apPlans, apLaunch, apPut>>

PlacementNext ==
  \/ Reconcile \/ ResidencyEnds \/ PutApply \/ StartAutomatic \/ PauseAutomatic
  \/ \E m \in Offers : ObserveOffer(m)
  \/ \E s \in BOOLEAN : PutPrepare(s)

PlacementSpec == PlacementInit /\ [][PlacementNext]_apVars

--------------------------------------------------------------------------------
PlacementTypeOK ==
  /\ apStep \in {"idle", "loaded", "publish", "planned", "pause", "replace"}
  /\ apProposal \in Decisions \cup {Nowhere} /\ apRegistry \in Decisions \cup {Nowhere}
  /\ apLease \in Decisions \cup {Nowhere} /\ apIntents \subseteq Decisions
  /\ apLaunch \in [decision : Decisions \cup {Nowhere}, admitted : BOOLEAN]

\* A worker serves only what a peer has been told it will: its running launch is
\* admitted and its decision was announced, however rounds, lost announcements, policy
\* updates and operator actions interleave (publish_intent before commit and the kept
\* plan, cli/run_node.py:769-784).
ServesAnnounced ==
  /\ apWorker.running => apLaunch.admitted /\ apLaunch.decision \in apIntents
  /\ apPlanner.current # Nowhere => apPlanner.current \in apIntents

\* With sharing off no worker runs and none is admitted, and the worker's launch is
\* the one the registered plan asks for: where the node comes to when the control API
\* falls silent (reconcile, cli/run_node.py:741-813).
SharingSettled ==
  /\ ~apSharing => ~apWorker.running /\ ~apLaunch.admitted
  /\ apStep = "idle" /\ ~apPut.busy => apLaunch = LaunchFor(apRegistry, apSharing)

\* What the policy says of automatic starts: no process starts while the config file
\* says that sharing is off (docs/REVIVAL.md:986).
NoStartWhileOff == [][~apWorker.running /\ apWorker'.running => apSharing]_apVars

================================================================================

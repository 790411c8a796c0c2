---------------------------- MODULE DesktopWindow ----------------------------
(***************************************************************************)
(* The desktop's window and what it asks its node for: the refresh timer,  *)
(* the tasks of the thread pool, the sharing buttons, the policy form and  *)
(* the key dialogs (pyside_shell.py), the requests they send one after     *)
(* another (controller.py, client.py), and what the node's control API     *)
(* does with them (node/server.py over the supervisor and the stores).     *)
(* A dialog runs an event loop of its own, so the timer fires and results  *)
(* arrive while it is open; somebody else may use the control API too.     *)
(* A policy is the number of its revision.  Schedules and resource limits  *)
(* admit everything here.  Bounds: clicks (MaxClicks), acts of others      *)
(* (MaxOthers), failed or unanswered requests (MaxLostRequests), tasks at  *)
(* a time (Slots).                                                         *)
(***************************************************************************)
EXTENDS Integers, FiniteSets

CONSTANTS Shares, ClientKeys, FirstKey, Slots, MaxClicks, MaxOthers, MaxLostRequests

ASSUME WindowAssumption ==
  /\ IsFiniteSet(ClientKeys) /\ FirstKey \in ClientKeys /\ Slots # {}
  /\ MaxClicks \in Nat /\ MaxOthers \in Nat /\ MaxLostRequests \in Nat

VARIABLES
  dwTasks,      \* the task of each slot: submitted, under way or with its result to deliver
  dwController, \* self._controller is set
  dwShown,      \* self._snapshot, and what the window renders of it
  dwChecked,    \* the models' checkboxes that are ticked
  dwOnline,     \* the connection banner
  dwDialog,     \* the dialog that is open and what it was opened with
  dwMessage,    \* the message with a new key's secret is open
  nodePolicy,   \* the policy in force: revision and the workers it admits
  nodeWants,    \* workers with desired_running
  nodeProcess,  \* their processes
  nodeKeys,     \* the key store
  nodeAge,      \* how often what a snapshot shows of them has changed
  dwCounts      \* clicks, acts of others and lost requests so far

view == <<dwShown, dwChecked>>
window == <<dwController, view, dwOnline, dwDialog, dwMessage>>
nodeState == <<nodePolicy, nodeWants, nodeProcess, nodeKeys, nodeAge>>
dwVars == <<dwTasks, window, nodeState, dwCounts>>

Blank ==
  [age |-> 0, policy |-> [revision |-> 0, admits |-> {}], wants |-> {},
   keys |-> [k \in ClientKeys |-> "none"], live |-> FALSE]
NoTask ==
  [op |-> "none", step |-> "none", ids |-> {}, now |-> {}, on |-> FALSE, key |-> FirstKey,
   seen |-> 0, expected |-> 0, admits |-> {}, view |-> Blank]
NoDialog == [kind |-> "none", revision |-> 0, key |-> FirstKey]

Task(op) == [NoTask EXCEPT !.op = op, !.step = "ask"]
AnySlot == CHOOSE s \in Slots : TRUE
Submitted == {s \in Slots : dwTasks[s].op # "none"}
FreeSlot == CHOOSE s \in Slots \ Submitted : TRUE
Counts(what) == dwCounts' = [dwCounts EXCEPT ![what] = @ + 1]
Loses == dwCounts.lost < MaxLostRequests /\ Counts("lost")

WindowInit ==
  /\ dwController = FALSE /\ dwShown = Blank /\ dwChecked = {} /\ dwOnline = FALSE
  \* The refresh() of the constructor; only self-tests start with a controller.
  /\ dwTasks = [s \in Slots |-> IF s = AnySlot THEN Task("connect") ELSE NoTask]
  /\ dwDialog = NoDialog /\ dwMessage = FALSE
  /\ nodePolicy = [revision |-> 1, admits |-> Shares]
  /\ nodeWants = {} /\ nodeProcess = [w \in Shares |-> "none"]
  /\ nodeKeys = [k \in ClientKeys |-> IF k = FirstKey THEN "active" ELSE "none"]
  /\ nodeAge = 1
  /\ dwCounts = [clicks |-> 0, others |-> 0, lost |-> 0]

-----------------------------------------------------------------------------
(* The node: one operation of its control API each.                        *)

Changed == nodeAge' = nodeAge + 1

\* Mutant: the policy is replaced under workers that are on their way down.
AcceptsPolicyStopping(expected) == expected = nodePolicy.revision /\ nodeWants = {}

\* reconfigure() wants every worker paused, and update() the current revision.
AcceptsPolicy(expected) ==
  expected = nodePolicy.revision /\ nodeWants = {} /\ \A w \in Shares : nodeProcess[w] = "none"
PutPolicy(admits) ==
  /\ nodePolicy' = [revision |-> nodePolicy.revision + 1, admits |-> admits] /\ Changed
  /\ UNCHANGED <<nodeWants, nodeProcess, nodeKeys>>

\* A process that is still being stopped is left alone; the monitor starts it again.
StartShare(w) ==
  /\ nodeWants' = nodeWants \cup {w} /\ Changed
  /\ nodeProcess' = [nodeProcess EXCEPT ![w] = IF @ = "none" THEN "alive" ELSE @]
  /\ UNCHANGED <<nodePolicy, nodeKeys>>

PauseShare(w) ==
  /\ nodeWants' = nodeWants \ {w} /\ Changed
  /\ nodeProcess' = [nodeProcess EXCEPT ![w] = IF @ = "alive" THEN "stopping" ELSE @]
  /\ UNCHANGED <<nodePolicy, nodeKeys>>

ActiveKeys == {k \in ClientKeys : nodeKeys[k] = "active"}
CanRevoke(k) == nodeKeys[k] = "revoked" \/ Cardinality(ActiveKeys) > 1
SetKey(k, to) ==
  /\ nodeKeys' = [nodeKeys EXCEPT ![k] = to] /\ Changed
  /\ UNCHANGED <<nodePolicy, nodeWants, nodeProcess>>

StopEnds(w) ==
  /\ nodeProcess[w] = "stopping"
  /\ nodeProcess' = [nodeProcess EXCEPT ![w] = "none"]
  /\ UNCHANGED <<dwTasks, window, nodePolicy, nodeWants, nodeKeys, nodeAge, dwCounts>>

MonitorStarts(w) ==
  /\ w \in nodeWants /\ nodeProcess[w] = "none"
  /\ nodeProcess' = [nodeProcess EXCEPT ![w] = "alive"]
  /\ UNCHANGED <<dwTasks, window, nodePolicy, nodeWants, nodeKeys, nodeAge, dwCounts>>

\* Another client of the control API: the policy, a worker or a key.
OthersAct ==
  /\ dwCounts.others < MaxOthers /\ Counts("others")
  /\ \/ AcceptsPolicy(nodePolicy.revision) /\ \E a \in {{}, Shares} : PutPolicy(a)
     \/ \E w \in nodePolicy.admits : StartShare(w)
     \/ \E w \in nodeWants : PauseShare(w)
     \/ \E k \in ActiveKeys : CanRevoke(k) /\ SetKey(k, "revoked")
  /\ UNCHANGED <<dwTasks, window>>

-----------------------------------------------------------------------------
(* The pool's threads: each step of a task is one request.                 *)

Becomes(s, task) == dwTasks' = [dwTasks EXCEPT ![s] = task]
EndsTask(s, step) == Becomes(s, [NoTask EXCEPT !.op = dwTasks[s].op, !.step = step])
At(s, op, step) == dwTasks[s].op = op /\ dwTasks[s].step = step

Connect(s) ==
  /\ At(s, "connect", "ask")
  /\ \/ EndsTask(s, "ok") /\ UNCHANGED dwCounts
     \/ EndsTask(s, "error") /\ Loses
  /\ UNCHANGED <<window, nodeState>>

\* A snapshot is made of two answers: the status, and then the list of keys.
GetStatus(s) ==
  /\ At(s, "snapshot", "ask")
  /\ \/ /\ Becomes(s, [dwTasks[s] EXCEPT !.step = "keys",
              !.view = [Blank EXCEPT !.age = nodeAge, !.policy = nodePolicy, !.wants = nodeWants]])
        /\ UNCHANGED dwCounts
     \/ EndsTask(s, "error") /\ Loses
  /\ UNCHANGED <<window, nodeState>>

GetKeys(s) ==
  /\ At(s, "snapshot", "keys")
  /\ \/ /\ Becomes(s, [dwTasks[s] EXCEPT !.step = "ok", !.view.keys = nodeKeys])
        /\ UNCHANGED dwCounts
     \/ EndsTask(s, "error") /\ Loses
  /\ UNCHANGED <<window, nodeState>>

UserOps == {"policy", "share", "create", "rename", "revoke"}

\* A user's task asks self._controller, which a failed snapshot may have taken away. A
\* request that gets no answer may or may not have been carried out.
Asks(s, op) == At(s, op, "ask") /\ dwController
NotConnected(s) ==
  /\ dwTasks[s].op \in UserOps /\ dwTasks[s].step = "ask"
  /\ ~dwController /\ EndsTask(s, "error")
  /\ UNCHANGED <<window, nodeState, dwCounts>>
RequestLost(s) ==
  /\ dwTasks[s].op \in UserOps /\ dwTasks[s].step = "ask"
  /\ dwController /\ EndsTask(s, "error") /\ Loses
  /\ UNCHANGED <<window, nodeState>>
Answered(s, answer) ==
  \/ EndsTask(s, answer) /\ UNCHANGED dwCounts
  \/ EndsTask(s, "error") /\ Loses

AskPolicy(s) ==
  /\ Asks(s, "policy")
  /\ IF AcceptsPolicy(dwTasks[s].expected)
       THEN PutPolicy(dwTasks[s].admits) /\ Answered(s, "ok")
       ELSE EndsTask(s, "error") /\ UNCHANGED <<nodeState, dwCounts>>
  /\ UNCHANGED window

\* set_workers_enabled(): a request for each worker, and none after one that failed.
AskStart(s) ==
  /\ Asks(s, "share") /\ dwTasks[s].on
  /\ IF dwTasks[s].ids = {}
       THEN EndsTask(s, "ok") /\ UNCHANGED <<nodeState, dwCounts>>
       ELSE \E w \in dwTasks[s].ids :
              IF w \in nodePolicy.admits
                THEN /\ StartShare(w) /\ UNCHANGED dwCounts
                     /\ Becomes(s, [dwTasks[s] EXCEPT !.ids = @ \ {w}])
                ELSE /\ nodeWants' = nodeWants \ {w} /\ Changed
                     /\ EndsTask(s, "error") /\ UNCHANGED <<nodePolicy, nodeProcess, nodeKeys, dwCounts>>
  /\ UNCHANGED window

\* A pause is answered when the process has ended, for which the client may not wait.
AskPause(s) ==
  /\ Asks(s, "share") /\ ~dwTasks[s].on
  /\ IF dwTasks[s].ids = {}
       THEN EndsTask(s, "ok") /\ UNCHANGED nodeState
       ELSE \E w \in dwTasks[s].ids :
              PauseShare(w) /\ Becomes(s, [dwTasks[s] EXCEPT !.step = "pausing", !.ids = @ \ {w}, !.now = {w}])
  /\ UNCHANGED <<window, dwCounts>>

PauseAnswered(s) ==
  /\ At(s, "share", "pausing")
  /\ \E w \in dwTasks[s].now :
       IF nodeProcess[w] = "stopping"
         THEN EndsTask(s, "error")
         ELSE Becomes(s, [dwTasks[s] EXCEPT !.step = "ask", !.now = {}])
  /\ UNCHANGED <<window, nodeState, dwCounts>>

AskCreate(s) ==
  /\ Asks(s, "create")
  /\ \E k \in ClientKeys : nodeKeys[k] = "none" /\ SetKey(k, "active")
  /\ Answered(s, "ok") /\ UNCHANGED window

\* A label is not told apart, only that it is a new one.
AskRename(s) ==
  /\ Asks(s, "rename") /\ SetKey(dwTasks[s].key, nodeKeys[dwTasks[s].key])
  /\ Answered(s, "ok") /\ UNCHANGED window

AskRevoke(s) ==
  /\ Asks(s, "revoke")
  /\ IF CanRevoke(dwTasks[s].key)
       THEN SetKey(dwTasks[s].key, "revoked") /\ Answered(s, "ok")
       ELSE EndsTask(s, "error") /\ UNCHANGED <<nodeState, dwCounts>>
  /\ UNCHANGED window

PoolStep(s) ==
  \/ Connect(s) \/ GetStatus(s) \/ GetKeys(s) \/ NotConnected(s) \/ AskPolicy(s)
  \/ RequestLost(s) \/ AskStart(s) \/ AskPause(s) \/ PauseAnswered(s) \/ AskCreate(s) \/ AskRename(s)
  \/ AskRevoke(s)

-----------------------------------------------------------------------------
(* The window: one event at a time.                                        *)

\* Mutant: a refresh whenever a thread of the pool is free.
MayRefreshBusy(others) == others # Slots
\* refresh() submits nothing while a task is under way.
MayRefresh(others) == others = {}

\* refresh() in slot s, which is free, with the tasks of the others under way.
Refreshing(s, others, controller) ==
  Becomes(s, IF MayRefresh(others) THEN Task(IF controller THEN "snapshot" ELSE "connect") ELSE NoTask)

\* An action of the user: no modal dialog or message is in the way.
Clicks == dwCounts.clicks < MaxClicks /\ Counts("clicks") /\ ~dwMessage
Opens(kind, key) ==
  /\ Clicks /\ dwController /\ dwDialog = NoDialog
  /\ dwDialog' = [kind |-> kind, revision |-> dwShown.policy.revision, key |-> key]
  /\ UNCHANGED <<dwTasks, dwController, view, dwOnline, dwMessage, nodeState>>
Submits(task) ==
  /\ Submitted # Slots /\ Becomes(FreeSlot, task)
  /\ UNCHANGED <<dwController, view, dwOnline, dwMessage, nodeState>>
DialogCloses(kind) == dwDialog.kind = kind /\ ~dwMessage /\ dwDialog' = NoDialog

RefreshTimer ==
  /\ Submitted # Slots /\ MayRefresh(Submitted) /\ Refreshing(FreeSlot, Submitted, dwController)
  /\ UNCHANGED <<window, nodeState, dwCounts>>

OpenPolicyForm ==
  /\ Submitted = {} /\ dwShown.policy.revision # 0 /\ dwShown.wants = {}
  /\ Opens("policy", FirstKey)

\* Mutant: the revision that is shown when the form is accepted.
ExpectedRevisionShown == dwShown.policy.revision
\* The whole policy is sent, with the revision the form was filled from.
ExpectedRevision == dwDialog.revision

SubmitPolicy ==
  /\ DialogCloses("policy")
  /\ \E a \in {{}, Shares} :
       Submits([Task("policy") EXCEPT !.admits = a, !.seen = dwDialog.revision, !.expected = ExpectedRevision])
  /\ UNCHANGED dwCounts

\* Cancelled, or the form is not valid.
CancelDialog == \E kind \in {"policy", "create", "rename", "revoke"} :
  DialogCloses(kind) /\ UNCHANGED <<dwTasks, dwController, view, dwOnline, dwMessage, nodeState, dwCounts>>

\* "Pause sharing" while a worker is wanted, otherwise "Start sharing".
ToggleAll ==
  /\ Clicks /\ dwController /\ Submitted = {} /\ dwDialog = NoDialog
  /\ LET on == dwShown.wants = {}
         ids == IF on THEN dwShown.policy.admits ELSE dwShown.wants
     IN ids # {} /\ Submits([Task("share") EXCEPT !.ids = ids, !.on = on])
  /\ UNCHANGED dwDialog

\* The checkbox of a model, here of one worker.  It may be used as long as it is shown: one
\* rendered while busy stays disabled, and one used while busy is ticked in vain.
ToggleModel(w) ==
  LET on == w \notin dwChecked
      asked == dwController /\ Submitted = {} /\ (on => w \in dwShown.policy.admits)
  IN /\ Clicks /\ dwDialog = NoDialog /\ dwShown.live
     /\ w \in dwShown.wants \/ w \in dwShown.policy.admits
     /\ dwChecked' = IF on THEN dwChecked \cup {w} ELSE dwChecked \ {w}
     /\ IF asked THEN Becomes(FreeSlot, [Task("share") EXCEPT !.ids = {w}, !.on = on]) ELSE UNCHANGED dwTasks
     /\ UNCHANGED <<dwController, dwShown, dwOnline, dwDialog, dwMessage, nodeState>>

\* "Try again", which a window that is not connected offers.
Retry ==
  /\ Clicks /\ ~dwOnline /\ Submitted = {} /\ dwDialog = NoDialog
  /\ dwController' = FALSE /\ Refreshing(FreeSlot, {}, FALSE)
  /\ UNCHANGED <<view, dwOnline, dwDialog, dwMessage, nodeState>>

OpenCreate ==
  /\ Submitted = {} /\ \E k \in ClientKeys : nodeKeys[k] = "none"
  /\ Opens("create", FirstKey)
SubmitCreate == DialogCloses("create") /\ Submits(Task("create")) /\ UNCHANGED dwCounts

\* The buttons of the keys stay enabled while a task is under way.
OpenKey(kind, k) == dwShown.keys[k] = "active" /\ Opens(kind, k)
ConfirmKey(kind) ==
  /\ DialogCloses(kind) /\ Submits([Task(kind) EXCEPT !.key = dwDialog.key])
  /\ UNCHANGED dwCounts
KeyDialogs == {"rename", "revoke"}

CloseMessage ==
  /\ dwMessage /\ dwMessage' = FALSE
  /\ \/ Submitted # {} /\ UNCHANGED dwTasks
     \/ Submitted = {} /\ Refreshing(FreeSlot, {}, dwController)
  /\ UNCHANGED <<dwController, view, dwOnline, dwDialog, nodeState, dwCounts>>

\* The result of a task arrives: first the task is taken off, then its callback runs.
Delivers(s, op, step) == At(s, op, step) /\ UNCHANGED <<dwDialog, nodeState, dwCounts>>
Others(s) == Submitted \ {s}

DeliverConnected(s) ==
  /\ Delivers(s, "connect", "ok")
  /\ dwController' = TRUE /\ Refreshing(s, Others(s), TRUE)
  /\ UNCHANGED <<view, dwOnline, dwMessage>>

DeliverSnapshot(s) ==
  /\ Delivers(s, "snapshot", "ok")
  /\ dwShown' = [dwTasks[s].view EXCEPT !.live = Others(s) = {}]
  /\ dwChecked' = dwTasks[s].view.wants /\ dwOnline' = TRUE /\ Becomes(s, NoTask)
  /\ UNCHANGED <<dwController, dwMessage>>

DeliverDone(s) ==
  /\ \E op \in {"policy", "share", "rename", "revoke"} : Delivers(s, op, "ok")
  /\ Refreshing(s, Others(s), dwController)
  /\ UNCHANGED <<dwController, view, dwOnline, dwMessage>>

DeliverCreated(s) ==
  /\ Delivers(s, "create", "ok")
  /\ dwMessage' = TRUE /\ Becomes(s, NoTask)
  /\ UNCHANGED <<dwController, view, dwOnline>>

\* A failed snapshot gives the connection up; a failed key operation only says so, and a
\* refused sharing change says that it was refused.
DeliverError(s) ==
  /\ \E op \in {"connect", "snapshot"} \cup UserOps : Delivers(s, op, "error")
  /\ dwController' = (dwController /\ dwTasks[s].op # "snapshot")
  /\ dwOnline' = (dwOnline /\ dwTasks[s].op \in {"policy", "share"})
  /\ Becomes(s, NoTask) /\ UNCHANGED <<view, dwMessage>>

Deliver(s) ==
  DeliverConnected(s) \/ DeliverSnapshot(s) \/ DeliverDone(s) \/ DeliverCreated(s) \/ DeliverError(s)

WindowNext ==
  \/ RefreshTimer \/ OpenPolicyForm \/ SubmitPolicy \/ CancelDialog \/ ToggleAll
  \/ \E w \in Shares : ToggleModel(w) \/ StopEnds(w) \/ MonitorStarts(w)
  \/ OpenCreate \/ SubmitCreate
  \/ \E kind \in KeyDialogs : ConfirmKey(kind) \/ \E k \in ClientKeys : OpenKey(kind, k)
  \/ Retry \/ CloseMessage \/ OthersAct
  \/ \E s \in Slots : PoolStep(s) \/ Deliver(s)

WindowSpec == WindowInit /\ [][WindowNext]_dwVars

-----------------------------------------------------------------------------
KeyStates == {"none", "active", "revoked"}
Views ==
  [age : Nat, policy : [revision : Nat, admits : SUBSET Shares], wants : SUBSET Shares,
   keys : [ClientKeys -> KeyStates], live : BOOLEAN]

WindowTypeOK ==
  /\ \A s \in Slots :
       /\ dwTasks[s].op \in {"none", "connect", "snapshot"} \cup UserOps
       /\ dwTasks[s].step \in {"none", "ask", "keys", "pausing", "ok", "error"}
       /\ dwTasks[s].ids \subseteq Shares /\ dwTasks[s].view \in Views
  /\ dwController \in BOOLEAN /\ dwOnline \in BOOLEAN /\ dwMessage \in BOOLEAN /\ dwShown \in Views
  /\ dwChecked \subseteq Shares
  /\ dwDialog \in [kind : {"none", "policy", "create", "rename", "revoke"}, revision : Nat, key : ClientKeys]
  /\ nodePolicy \in [revision : Nat, admits : SUBSET Shares] /\ nodeWants \subseteq Shares
  /\ nodeProcess \in [Shares -> {"none", "alive", "stopping"}] /\ nodeKeys \in [ClientKeys -> KeyStates]

\* What the window shows never goes back: a snapshot on its way is no older than the one
\* shown (the busy check of refresh(), pyside_shell.py).
ShowsForward ==
  \A s \in Slots : dwTasks[s].op = "snapshot" /\ dwTasks[s].step \in {"keys", "ok"}
                     => dwTasks[s].view.age >= dwShown.age

\* An edit the node would accept was made on the policy in force, however long the form
\* was open and whatever was rendered meanwhile (_edit_contribution_policy).
NoPolicyLost ==
  \A s \in Slots : At(s, "policy", "ask") /\ dwTasks[s].expected = nodePolicy.revision
                     => dwTasks[s].seen = nodePolicy.revision

\* No process runs, and none is wanted, under a policy that does not admit it; and a key is
\* left to manage the node with (reconfigure() and revoke()).
NodeKeepsPolicy ==
  /\ nodeWants \cup {w \in Shares : nodeProcess[w] # "none"} \subseteq nodePolicy.admits
  /\ ActiveKeys # {}

WindowSound == ShowsForward /\ NoPolicyLost /\ NodeKeepsPolicy

\* The window comes to show the node as it is, whatever was lost on the way.
WindowFollows ==
  /\ dwController /\ dwOnline /\ dwShown.live
  /\ dwShown.policy = nodePolicy /\ dwShown.wants = nodeWants /\ dwShown.keys = nodeKeys /\ dwChecked = nodeWants
=============================================================================

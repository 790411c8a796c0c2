----------------------------- MODULE DesktopShell -----------------------------
\* The desktop processes of one user and the node sidecar they own: the single
\* instance lock and endpoint (pyside_shell.py, run), the window's refresh and
\* connection tasks, the sidecar's start, readiness wait, restart and close
\* (lifecycle.py), and the provision and migration of the control credential
\* (credentials.py). A node that the user runs without the desktop may be there first,
\* or come meanwhile. Bounds: desktop processes (Desktops) and faults (MaxDesktopFaults).
EXTENDS Integers, FiniteSets

CONSTANTS Desktops, Headless, NoDesktop, MaxDesktopFaults
ASSUME DesktopAssumption ==
  Headless \notin Desktops /\ NoDesktop \notin Desktops \cup {Headless} /\ MaxDesktopFaults \in Nat

VARIABLES
  dkPhase,      \* where each desktop process is, from its launch to its exit
  dkTask,       \* what its pool thread does
  dkController, \* the window has a controller
  dkLock, dkServer,   \* the instance lock's holder, the endpoint's listener
  dkNode,       \* the node process each desktop started, and the headless one
  dkKey,        \* the control key each node loaded
  dkPort,       \* the node that is bound to the port
  dkOwns,       \* self._process is set
  dkBackoff,    \* the clock is before self._next_start
  dkMigrated,   \* the provision of the running connection came from the legacy file
  dkNative, dkFile,   \* the native store's secret and the legacy file's
  dkFaults

dkVars == <<dkPhase, dkTask, dkController, dkLock, dkServer, dkNode, dkKey, dkPort, dkOwns,
            dkBackoff, dkMigrated, dkNative, dkFile, dkFaults>>
dkInstance == <<dkPhase, dkLock, dkServer>>
dkWindow == <<dkTask, dkController, dkMigrated>>
dkNodes == <<dkNode, dkKey, dkPort>>
dkSidecar == <<dkOwns, dkBackoff>>
dkSecrets == <<dkNative, dkFile>>

NodeIds == Desktops \cup {Headless}
Alive(n) == dkNode[n] \in {"booting", "ready"}
DesktopFault == dkFaults < MaxDesktopFaults /\ dkFaults' = dkFaults + 1
Serves(d) == dkPhase[d] \in {"open", "quit"}
Goes(d, phase) == dkPhase' = [dkPhase EXCEPT ![d] = phase]
Works(d, task) == dkTask' = [dkTask EXCEPT ![d] = task]

\* The user's own node reads the plaintext key, or is another installation's.
HeadlessKey == IF dkFile = "old" THEN "old" ELSE "other"

\* An installation with or without a legacy control key file, whose node may run or
\* be starting.
DkInit ==
  /\ dkPhase = [d \in Desktops |-> "off"]
  /\ dkTask = [d \in Desktops |-> "idle"]
  /\ dkController = [d \in Desktops |-> FALSE]
  /\ dkLock = NoDesktop /\ dkServer = NoDesktop
  /\ dkFile \in {"none", "old"} /\ dkNative = "none"
  /\ dkNode \in [NodeIds -> {"none", "booting", "ready"}]
  /\ \A d \in Desktops : dkNode[d] = "none"
  /\ dkNode[Headless] = "ready" => dkFile = "old"
  /\ dkNode[Headless] = "booting" => dkFile = "none"
  /\ dkPort = IF dkNode[Headless] = "ready" THEN Headless ELSE NoDesktop
  /\ dkKey = [n \in NodeIds |-> IF dkNode[n] = "ready" THEN HeadlessKey ELSE "none"]
  /\ dkOwns = [d \in Desktops |-> FALSE] /\ dkBackoff = [d \in Desktops |-> FALSE]
  /\ dkMigrated = [d \in Desktops |-> FALSE]
  /\ dkFaults = 0

--------------------------------------------------------------------------------
\* Becoming the one instance.
Launch(d) ==
  /\ dkPhase[d] = "off" /\ Goes(d, "notify")
  /\ UNCHANGED <<dkLock, dkServer, dkWindow, dkNodes, dkSidecar, dkSecrets, dkFaults>>

\* A listening instance takes the message and this process ends; a second refusal
\* after the lock was found taken leads to the question whether the lock is stale.
Notify(d) ==
  /\ dkPhase[d] \in {"notify", "again"}
  /\ Goes(d, IF dkServer # NoDesktop THEN "gone" ELSE IF dkPhase[d] = "notify" THEN "lock" ELSE "stale")
  /\ UNCHANGED <<dkLock, dkServer, dkWindow, dkNodes, dkSidecar, dkSecrets, dkFaults>>

TryLock(d) ==
  /\ dkPhase[d] \in {"lock", "retry"}
  /\ IF dkLock = NoDesktop
       THEN dkLock' = d /\ Goes(d, "listen")
       ELSE Goes(d, IF dkPhase[d] = "lock" THEN "again" ELSE "gone") /\ UNCHANGED dkLock
  /\ UNCHANGED <<dkServer, dkWindow, dkNodes, dkSidecar, dkSecrets, dkFaults>>

\* Mutant: a lock that could not be taken is removed without asking for its writer.
RemoveStaleUnasked(d) ==
  /\ dkPhase[d] = "stale" /\ dkLock' = NoDesktop /\ Goes(d, "retry")
  /\ UNCHANGED <<dkServer, dkWindow, dkNodes, dkSidecar, dkSecrets, dkFaults>>

\* A lock is stale when the process that wrote it is gone.
RemoveStale(d) ==
  /\ dkPhase[d] = "stale"
  /\ IF dkLock # NoDesktop /\ dkPhase[dkLock] = "crashed"
       THEN dkLock' = NoDesktop /\ Goes(d, "retry")
       ELSE Goes(d, "gone") /\ UNCHANGED dkLock
  /\ UNCHANGED <<dkServer, dkWindow, dkNodes, dkSidecar, dkSecrets, dkFaults>>

Listen(d) ==
  /\ dkPhase[d] = "listen"
  /\ \/ Goes(d, "open") /\ dkServer' = d /\ UNCHANGED <<dkLock, dkFaults>>
     \/ DesktopFault /\ Goes(d, "gone") /\ dkLock' = NoDesktop /\ UNCHANGED dkServer
  /\ UNCHANGED <<dkWindow, dkNodes, dkSidecar, dkSecrets>>

--------------------------------------------------------------------------------
\* The window's tasks. The sidecar's own lock is held from "connect" to the answer.
Refresh(d) ==
  /\ dkPhase[d] = "open" /\ dkTask[d] = "idle"
  /\ Works(d, IF dkController[d] THEN "snapshot" ELSE "connect")
  /\ UNCHANGED <<dkInstance, dkController, dkMigrated, dkNodes, dkSidecar, dkSecrets, dkFaults>>

Answers == dkPort # NoDesktop /\ dkKey[dkPort] = dkNative

\* A snapshot that fails drops the controller, and the next refresh connects again.
TakeSnapshot(d) ==
  /\ dkTask[d] = "snapshot"
  /\ Works(d, "idle")
  /\ \/ dkController' = [dkController EXCEPT ![d] = Answers] /\ UNCHANGED dkFaults
     \/ DesktopFault /\ dkController' = [dkController EXCEPT ![d] = FALSE]
  /\ UNCHANGED <<dkInstance, dkMigrated, dkNodes, dkSidecar, dkSecrets>>

\* Mutant: a new secret is made although the legacy file holds one.
ProvisionAnew(d) ==
  /\ dkTask[d] = "connect" /\ Serves(d) /\ Works(d, "probe")
  /\ dkMigrated' = [dkMigrated EXCEPT ![d] = dkNative = "none" /\ dkFile # "none"]
  /\ dkNative' = IF dkNative # "none" THEN dkNative ELSE "new"
  /\ UNCHANGED <<dkInstance, dkController, dkNodes, dkSidecar, dkFile, dkFaults>>

\* The native secret, or the legacy file's imported into the native store, or a new one.
Provision(d) ==
  /\ dkTask[d] = "connect" /\ Serves(d)
  /\ Works(d, "probe")
  /\ dkMigrated' = [dkMigrated EXCEPT ![d] = dkNative = "none" /\ dkFile # "none"]
  /\ dkNative' = IF dkNative # "none" THEN dkNative ELSE IF dkFile # "none" THEN dkFile ELSE "new"
  /\ UNCHANGED <<dkInstance, dkController, dkNodes, dkSidecar, dkFile, dkFaults>>

\* A supervisor that is closing makes no client.
Refused(d) ==
  /\ dkTask[d] = "connect" /\ ~Serves(d)
  /\ Works(d, "idle")
  /\ UNCHANGED <<dkInstance, dkController, dkMigrated, dkNodes, dkSidecar, dkSecrets, dkFaults>>

Forgets(d) == dkMigrated' = [dkMigrated EXCEPT ![d] = FALSE]
Connected(d) == Works(d, "idle") /\ Forgets(d) /\ dkController' = [dkController EXCEPT ![d] = TRUE]
Failed(d) == Works(d, "idle") /\ Forgets(d) /\ UNCHANGED dkController
RecordFailure(d) == dkBackoff' = [dkBackoff EXCEPT ![d] = TRUE]

\* A sidecar found dead is no longer owned, and counts as a failure.
ForgetDead(d) == dkOwns' = [dkOwns EXCEPT ![d] = FALSE] /\ RecordFailure(d)

\* _ensure_config and _start: the signed catalog may fail to install, and the process
\* to start, which alone counts as a failure of the node.
StartSidecar(d) ==
  \/ /\ dkNode' = [dkNode EXCEPT ![d] = "booting"]
     /\ dkOwns' = [dkOwns EXCEPT ![d] = TRUE]
     /\ Works(d, "started") /\ UNCHANGED <<dkController, dkMigrated, dkBackoff, dkFaults>>
  \/ /\ DesktopFault /\ Failed(d)
     /\ RecordFailure(d) \/ UNCHANGED dkBackoff
     /\ UNCHANGED <<dkNode, dkOwns>>

\* ensure_client after its provision, an open port first.
Probe(d) ==
  /\ dkTask[d] = "probe"
  /\ \/ /\ dkPort # NoDesktop /\ Answers
        /\ Connected(d) /\ UNCHANGED <<dkNode, dkSidecar, dkFaults>>
     \/ /\ dkPort # NoDesktop /\ ~Answers
        /\ IF dkOwns[d] THEN Works(d, "wait") /\ UNCHANGED <<dkController, dkMigrated>> ELSE Failed(d)
        /\ UNCHANGED <<dkNode, dkSidecar, dkFaults>>
     \/ /\ dkPort = NoDesktop /\ dkOwns[d] /\ Alive(d)
        /\ Works(d, "wait") /\ UNCHANGED <<dkController, dkMigrated, dkNode, dkSidecar, dkFaults>>
     \/ /\ dkPort = NoDesktop /\ dkOwns[d] /\ ~Alive(d)
        /\ ForgetDead(d) /\ Failed(d) /\ UNCHANGED <<dkNode, dkFaults>>
     \/ /\ dkPort = NoDesktop /\ ~dkOwns[d] /\ dkBackoff[d]
        /\ Failed(d) /\ UNCHANGED <<dkNode, dkSidecar, dkFaults>>
     \/ dkPort = NoDesktop /\ ~dkOwns[d] /\ ~dkBackoff[d] /\ StartSidecar(d)
  /\ UNCHANGED <<dkInstance, dkKey, dkPort, dkSecrets>>

\* _stop_owned_process: TERM, or KILL when it does not end, and the wait for its end.
Stopped(d) ==
  /\ dkNode' = [dkNode EXCEPT ![d] = IF Alive(d) THEN "dead" ELSE @]
  /\ dkPort' = IF dkPort = d THEN NoDesktop ELSE dkPort
  /\ dkOwns' = [dkOwns EXCEPT ![d] = FALSE]

\* _wait_until_ready. Only a node this call started retires the migrated file.
WaitReady(d) ==
  /\ dkTask[d] \in {"wait", "started"}
  /\ \/ /\ ~Serves(d) /\ Stopped(d) /\ Failed(d)
        /\ UNCHANGED <<dkBackoff, dkFile, dkFaults>>
     \/ /\ Serves(d) /\ ~Alive(d)
        /\ ForgetDead(d) /\ Failed(d)
        /\ UNCHANGED <<dkNode, dkPort, dkFile, dkFaults>>
     \/ /\ Serves(d) /\ Alive(d) /\ Answers
        /\ Connected(d) /\ dkBackoff' = [dkBackoff EXCEPT ![d] = FALSE]
        /\ dkFile' = IF dkMigrated[d] /\ dkTask[d] = "started" THEN "none" ELSE dkFile
        /\ UNCHANGED <<dkNode, dkPort, dkOwns, dkFaults>>
     \/ /\ Serves(d) /\ Alive(d) /\ (dkPort # NoDesktop /\ ~Answers)
        /\ Stopped(d) /\ RecordFailure(d) /\ Failed(d) /\ UNCHANGED <<dkFile, dkFaults>>
     \/ /\ Serves(d) /\ Alive(d) /\ DesktopFault
        /\ Stopped(d) /\ RecordFailure(d) /\ Failed(d) /\ UNCHANGED dkFile
  /\ UNCHANGED <<dkInstance, dkKey, dkNative>>

BackoffEnds(d) ==
  /\ dkBackoff[d] /\ dkBackoff' = [dkBackoff EXCEPT ![d] = FALSE]
  /\ UNCHANGED <<dkInstance, dkWindow, dkNodes, dkOwns, dkSecrets, dkFaults>>

--------------------------------------------------------------------------------
\* Leaving: the endpoint and the lock go first (aboutToQuit), the node afterwards
\* (before_termination_restore), so a successor may open in between.
Quit(d) ==
  /\ dkPhase[d] = "open"
  /\ Goes(d, "quit") /\ dkServer' = NoDesktop /\ dkLock' = NoDesktop
  /\ UNCHANGED <<dkWindow, dkNodes, dkSidecar, dkSecrets, dkFaults>>

\* What a process held in memory goes with it.
Ends(d) ==
  /\ Works(d, "idle")
  /\ dkController' = [dkController EXCEPT ![d] = FALSE]
  /\ dkMigrated' = [dkMigrated EXCEPT ![d] = FALSE]
  /\ dkBackoff' = [dkBackoff EXCEPT ![d] = FALSE]

BeginClose(d) ==
  /\ dkPhase[d] = "quit" /\ Goes(d, "closing")
  /\ UNCHANGED <<dkLock, dkServer, dkWindow, dkNodes, dkSidecar, dkSecrets, dkFaults>>

CloseSidecar(d) ==
  /\ dkPhase[d] = "closing" /\ dkTask[d] \notin {"probe", "wait", "started"}
  /\ Goes(d, "gone")
  /\ IF dkOwns[d] THEN Stopped(d) ELSE UNCHANGED <<dkNode, dkPort, dkOwns>>
  /\ Ends(d) /\ UNCHANGED <<dkLock, dkServer, dkKey, dkSecrets, dkFaults>>

\* A desktop that is killed leaves its lock file and its node.
DesktopCrashes(d) ==
  /\ dkPhase[d] \in {"notify", "lock", "again", "retry", "stale", "listen", "open", "quit", "closing"}
  /\ DesktopFault
  /\ Goes(d, "crashed")
  /\ dkServer' = IF dkServer = d THEN NoDesktop ELSE dkServer
  /\ Ends(d) /\ dkOwns' = [dkOwns EXCEPT ![d] = FALSE]
  /\ UNCHANGED <<dkLock, dkNodes, dkSecrets>>

\* A node reads its credential and binds the port, or ends when the port is taken; it
\* may crash, and the headless one may be stopped by its user.
NodeBinds(n) ==
  /\ dkNode[n] = "booting"
  /\ IF dkPort = NoDesktop
       THEN /\ dkPort' = n
            /\ dkNode' = [dkNode EXCEPT ![n] = "ready"]
            /\ dkKey' = [dkKey EXCEPT ![n] = IF n = Headless THEN HeadlessKey ELSE dkNative]
       ELSE dkNode' = [dkNode EXCEPT ![n] = "dead"] /\ UNCHANGED <<dkPort, dkKey>>
  /\ UNCHANGED <<dkInstance, dkWindow, dkSidecar, dkSecrets, dkFaults>>

NodeEnds(n) ==
  /\ Alive(n)
  /\ \/ n = Headless /\ UNCHANGED dkFaults
     \/ n # Headless /\ DesktopFault
  /\ dkNode' = [dkNode EXCEPT ![n] = "dead"]
  /\ dkPort' = IF dkPort = n THEN NoDesktop ELSE dkPort
  /\ UNCHANGED <<dkInstance, dkWindow, dkKey, dkSidecar, dkSecrets>>

DesktopSteps(d) ==
  \/ Notify(d) \/ TryLock(d) \/ RemoveStale(d) \/ Listen(d) \/ Refresh(d) \/ TakeSnapshot(d)
  \/ Provision(d) \/ Refused(d) \/ Probe(d) \/ WaitReady(d) \/ BackoffEnds(d)
  \/ BeginClose(d) \/ CloseSidecar(d)

DkNext ==
  \/ \E d \in Desktops : DesktopSteps(d) \/ Launch(d) \/ Quit(d) \/ DesktopCrashes(d)
  \/ \E n \in NodeIds : NodeBinds(n) \/ NodeEnds(n)

DkSpec == DkInit /\ [][DkNext]_dkVars

--------------------------------------------------------------------------------
DkTypeOK ==
  /\ \A d \in Desktops :
       /\ dkPhase[d] \in {"off", "notify", "lock", "again", "stale", "retry", "listen", "open", "quit",
                          "closing", "gone", "crashed"}
       /\ dkTask[d] \in {"idle", "connect", "probe", "wait", "started", "snapshot"}
  /\ dkLock \in Desktops \cup {NoDesktop} /\ dkServer \in Desktops \cup {NoDesktop}
  /\ dkPort \in NodeIds \cup {NoDesktop}
  /\ dkNative \in {"none", "old", "new"} /\ dkFile \in {"none", "old"}

\* One window at a time however processes start, crash and hand over (the instance
\* lock and endpoint, pyside_shell.py:1231-1285); a process that has left by its own
\* way leaves no node of its own (close, lifecycle.py:331-335); and the node's port is
\* held by a live node.
OneDesktop ==
  /\ \A d, e \in Desktops : dkPhase[d] \in {"listen", "open"} /\ dkPhase[e] \in {"listen", "open"} => d = e
  /\ \A d \in Desktops : dkPhase[d] = "gone" => ~Alive(d)
  /\ dkPort # NoDesktop => Alive(dkPort)

\* The plaintext control key of a headless installation is only removed when the
\* native store holds it, and the store never loses or changes the secret it has
\* (provision and retire_legacy_file, credentials.py:89-141).
SecretKept ==
  [][/\ dkNative # "none" => dkNative' = dkNative
     /\ dkFile = "old" /\ dkFile' = "none" => dkNative = "old"]_dkVars

\* An open window is connected to a node, whatever crashed before, unless a service
\* with another key holds the port (ensure_client and the refresh timer,
\* lifecycle.py:297-329, pyside_shell.py:742-757).
WindowConnected ==
  \A d \in Desktops : dkPhase[d] = "open" => dkController[d] \/ (dkPort = Headless /\ ~Answers)
=============================================================================

---------------------------- MODULE CatalogInstall ----------------------------
(***************************************************************************)
(* model_catalog.py and node/catalog_bootstrap.py: the first install of a  *)
(* node fetches a signed catalog from its mirrors, checks it against the   *)
(* trust root and the rollback state, installs the manifests it names and  *)
(* writes the node config.  Mirrors serve old or contradicting catalogs,   *)
(* writes fail, installers run at once and are killed at any step, and the *)
(* user deletes the config and installs again.                             *)
(***************************************************************************)
EXTENDS Integers, Sequences, FiniteSets

CONSTANTS
  Installers,      \* installer processes
  TrustedKeys, Threshold,
  Ladders,         \* the catalogs' contents: sequences of [digest, order, role]
  MaxSeq,          \* sequence numbers of published catalogs
  MaxMirrors,      \* mirrors tried by one installer
  MaxInstallFaults \* bound on kills, failed writes and reinstalls

ASSUME CatalogAssumption ==
  /\ Threshold \in 1..Cardinality(TrustedKeys)
  /\ MaxSeq \in Nat /\ MaxMirrors \in Nat /\ MaxInstallFaults \in Nat
  /\ Ladders \subseteq Seq([digest : STRING, order : Nat, role : STRING])

VARIABLES
  ipc,        \* the step of each installer
  mirror,     \* how many mirrors it has tried
  inst,       \* the catalog in hand, or NoCatalog
  guard,      \* its copy of the rollback state
  lockFile,   \* .catalog-bootstrap.lock exists
  manifests,  \* digests of the installed manifests
  cached,     \* catalog.signed.json
  rollback,   \* rollback-state.json
  nodeConfig, \* the catalog the node config was rendered from, or NoCatalog
  configBusy, \* another writer holds the config write lock
  top,        \* the catalog activated last
  downgraded, \* a catalog older than or contradicting one activated before was activated
  ifaults

installVars == <<ipc, mirror, inst, guard, lockFile, manifests, cached, rollback, nodeConfig,
                 configBusy, top, downgraded, ifaults>>

NoCatalog == [seq |-> 0, ladder |-> <<>>, sigs |-> {}, fresh |-> FALSE]

\* What mirrors may serve: signed catalogs, some expired, some short of signatures.
Catalogs == [seq : 1..MaxSeq, ladder : Ladders, sigs : {TrustedKeys, {}}, fresh : {TRUE}]
            \cup [seq : {1}, ladder : Ladders, sigs : {TrustedKeys}, fresh : {FALSE}]

(* The catalog. *)

Rungs(l) == {l[i].order : i \in 1..Len(l)}

\* ModelCatalog.from_dict(): distinct digests, and every rung has a primary and
\* at least one other option.
WellFormed(l) ==
  /\ l # <<>>
  /\ \A i, j \in 1..Len(l) : i # j => l[i].digest # l[j].digest
  /\ \A o \in Rungs(l) : LET options == {i \in 1..Len(l) : l[i].order = o} IN
       /\ Cardinality(options) >= 2
       /\ Cardinality({i \in options : l[i].role = "primary"}) = 1

\* CatalogRollbackGuard.check()
GuardAdmits(g, c) == c.seq > g.seq \/ (c.seq = g.seq /\ c.ladder = g.ladder)

\* validate_time(): neither from the future nor expired.
Timely(c) == c.fresh

\* CatalogTrustRoot: enough of the root's keys, and no other key.
Trusted(sigs) == sigs \subseteq TrustedKeys /\ Cardinality(sigs) >= Threshold

\* SignedModelCatalog.verify(): time, only trusted signatures, enough of them,
\* and not older than the last accepted catalog.
VerifyCatalog(c, g) ==
  /\ WellFormed(c.ladder) /\ Timely(c) /\ Trusted(c.sigs) /\ GuardAdmits(g, c)

Digests(c) == {c.ladder[i].digest : i \in 1..Len(c.ladder)}

\* _render_node_config(): auto_model_priority, the models by descending rung, the
\* primary of a rung first, else in the catalog's order.
Ahead(l, i, j) ==
  \/ l[i].order > l[j].order
  \/ l[i].order = l[j].order /\ l[i].role = "primary" /\ l[j].role # "primary"
  \/ l[i].order = l[j].order /\ (l[i].role = "primary") = (l[j].role = "primary") /\ i < j
Priority(l) ==
  [p \in 1..Len(l) |-> l[CHOOSE i \in 1..Len(l) :
                           Cardinality({j \in 1..Len(l) : Ahead(l, j, i)}) = p - 1].digest]

\* select_highest_eligible_model(): rungs from the top, in each the primary first.
FirstOf(S) == CHOOSE i \in S : \A j \in S : i <= j
SelectHighest(l, eligible) ==
  LET found == {i \in 1..Len(l) : l[i].digest \in eligible}
      rung == {i \in found : \A j \in found : l[j].order <= l[i].order}
      primary == {i \in rung : l[i].role = "primary"}
  IN IF found = {} THEN "none" ELSE l[FirstOf(IF primary # {} THEN primary ELSE rung)].digest

(* The installer. *)

CatalogInit ==
  /\ ipc = [i \in Installers |-> "idle"] /\ mirror = [i \in Installers |-> 0]
  /\ inst = [i \in Installers |-> NoCatalog] /\ guard = [i \in Installers |-> NoCatalog]
  /\ lockFile = FALSE /\ manifests = {} /\ cached = NoCatalog /\ rollback = NoCatalog
  /\ nodeConfig = NoCatalog /\ configBusy = FALSE
  /\ top = NoCatalog /\ downgraded = FALSE /\ ifaults = 0

files == <<manifests, cached, rollback, nodeConfig>>
ghosts == <<top, downgraded>>

\* install(): an existing config is the result; the lock file is created by one only.
BeginInstall(i) ==
  /\ ipc[i] = "idle" /\ nodeConfig = NoCatalog /\ ~lockFile
  /\ lockFile' = TRUE /\ ipc' = [ipc EXCEPT ![i] = "fetch"] /\ mirror' = [mirror EXCEPT ![i] = 0]
  /\ guard' = [guard EXCEPT ![i] = rollback]
  /\ UNCHANGED <<inst, files, ghosts, configBusy, ifaults>>

Unlock(i) == lockFile' = FALSE /\ ipc' = [ipc EXCEPT ![i] = "idle"] /\ inst' = [inst EXCEPT ![i] = NoCatalog]

\* A candidate fails: the rollback state is read again before the next mirror.
Rejected(i) ==
  /\ ipc' = [ipc EXCEPT ![i] = "fetch"]
  /\ guard' = [guard EXCEPT ![i] = rollback] /\ inst' = [inst EXCEPT ![i] = NoCatalog]

\* A mirror serves something, or nothing.
FetchCatalog(i) ==
  /\ ipc[i] = "fetch" /\ mirror[i] < MaxMirrors
  /\ mirror' = [mirror EXCEPT ![i] = @ + 1]
  /\ \/ \E c \in Catalogs : /\ VerifyCatalog(c, guard[i])
                            /\ inst' = [inst EXCEPT ![i] = c]
                            /\ ipc' = [ipc EXCEPT ![i] = "manifests"] /\ UNCHANGED guard
     \/ Rejected(i)
  /\ UNCHANGED <<lockFile, files, ghosts, configBusy, ifaults>>

\* The catalog that was cached last, when no mirror was of use; after it, the end.
FetchCached(i) ==
  /\ ipc[i] = "fetch" /\ mirror[i] = MaxMirrors
  /\ mirror' = [mirror EXCEPT ![i] = MaxMirrors + 1]
  /\ IF cached # NoCatalog /\ VerifyCatalog(cached, guard[i])
     THEN inst' = [inst EXCEPT ![i] = cached] /\ ipc' = [ipc EXCEPT ![i] = "manifests"]
     ELSE UNCHANGED <<inst, ipc>>
  /\ UNCHANGED <<guard, lockFile, files, ghosts, configBusy, ifaults>>

GiveUp(i) == ipc[i] = "fetch" /\ mirror[i] > MaxMirrors /\ Unlock(i)
             /\ UNCHANGED <<mirror, guard, files, ghosts, configBusy, ifaults>>

\* _install_manifests(): every manifest the catalog names, each by its own write,
\* from the local store or from one of its mirrors.
InstallManifests(i) ==
  /\ ipc[i] = "manifests"
  /\ \/ /\ manifests' = manifests \cup Digests(inst[i])
        /\ ipc' = [ipc EXCEPT ![i] = "save_cached"] /\ UNCHANGED <<guard, inst>>
     \/ \E some \in SUBSET Digests(inst[i]) :
          some # Digests(inst[i]) /\ manifests' = manifests \cup some /\ Rejected(i)
  /\ UNCHANGED <<mirror, lockFile, cached, rollback, nodeConfig, ghosts, configBusy, ifaults>>

\* _try_candidate(): the catalog is cached, then the rollback state saved, and
\* only then the config is activated.
SaveCached(i) ==
  /\ ipc[i] = "save_cached" /\ cached' = inst[i] /\ ipc' = [ipc EXCEPT ![i] = "save_guard"]
  /\ UNCHANGED <<mirror, inst, guard, lockFile, manifests, rollback, nodeConfig, ghosts,
                 configBusy, ifaults>>

\* Mutant: the rollback state is saved only if there was none.
SaveGuardOnce(i) ==
  /\ ipc[i] = "save_guard" /\ ipc' = [ipc EXCEPT ![i] = "activate"]
  /\ rollback' = IF rollback = NoCatalog THEN inst[i] ELSE rollback
  /\ UNCHANGED <<mirror, inst, guard, lockFile, manifests, cached, nodeConfig, ghosts,
                 configBusy, ifaults>>

SaveGuard(i) ==
  /\ ipc[i] = "save_guard" /\ rollback' = inst[i] /\ ipc' = [ipc EXCEPT ![i] = "activate"]
  /\ UNCHANGED <<mirror, inst, guard, lockFile, manifests, cached, nodeConfig, ghosts,
                 configBusy, ifaults>>

\* The config is written under the write lock, and never over an existing one.
Activate(i) ==
  /\ ipc[i] = "activate"
  /\ IF ~configBusy /\ nodeConfig = NoCatalog
     THEN /\ nodeConfig' = inst[i] /\ top' = inst[i]
          /\ downgraded' = (downgraded \/ ~GuardAdmits(top, inst[i]))
          /\ Unlock(i) /\ UNCHANGED guard
     ELSE Rejected(i) /\ UNCHANGED <<nodeConfig, ghosts, lockFile>>
  /\ UNCHANGED <<mirror, manifests, cached, rollback, configBusy, ifaults>>

\* A write of the cached catalog or of the config fails, and the next candidate is
\* tried; the error of the rollback state is another one and ends the install.
InstallWriteFails(i) ==
  /\ ipc[i] \in {"save_cached", "save_guard", "activate"} /\ ifaults < MaxInstallFaults
  /\ ifaults' = ifaults + 1
  /\ IF ipc[i] = "save_guard" THEN Unlock(i) /\ UNCHANGED guard
     ELSE Rejected(i) /\ UNCHANGED lockFile
  /\ UNCHANGED <<mirror, files, ghosts, configBusy>>

\* The installer is killed; its lock file stays.
KillInstaller(i) ==
  /\ ipc[i] # "idle" /\ ifaults < MaxInstallFaults /\ ifaults' = ifaults + 1
  /\ ipc' = [ipc EXCEPT ![i] = "idle"] /\ inst' = [inst EXCEPT ![i] = NoCatalog]
  /\ UNCHANGED <<mirror, guard, lockFile, files, ghosts, configBusy>>

\* Nothing removes a lock file that was left behind but its user.
ClearLock ==
  /\ lockFile /\ \A i \in Installers : ipc[i] = "idle"
  /\ lockFile' = FALSE
  /\ UNCHANGED <<ipc, mirror, inst, guard, files, ghosts, configBusy, ifaults>>

\* The user deletes the config to install again.
DeleteConfig ==
  /\ nodeConfig # NoCatalog /\ ifaults < MaxInstallFaults /\ ifaults' = ifaults + 1
  /\ nodeConfig' = NoCatalog
  /\ UNCHANGED <<ipc, mirror, inst, guard, lockFile, manifests, cached, rollback, ghosts,
                 configBusy>>

\* Another writer of the config (a policy update) holds the lock for a while.
OtherWriter ==
  /\ configBusy' = ~configBusy
  /\ UNCHANGED <<ipc, mirror, inst, guard, lockFile, files, ghosts, ifaults>>

InstallNext ==
  \/ \E i \in Installers : \/ BeginInstall(i) \/ FetchCatalog(i) \/ FetchCached(i) \/ GiveUp(i)
                           \/ InstallManifests(i) \/ SaveCached(i) \/ SaveGuard(i) \/ Activate(i)
                           \/ InstallWriteFails(i) \/ KillInstaller(i)
  \/ ClearLock \/ DeleteConfig \/ OtherWriter

InstallSpec == CatalogInit /\ [][InstallNext]_installVars

InstallTypeOK ==
  /\ \A i \in Installers : mirror[i] \in 0..(MaxMirrors + 1) /\ inst[i] \in Catalogs \cup {NoCatalog}
  /\ {cached, rollback, nodeConfig} \subseteq Catalogs \cup {NoCatalog}

\* However installs are killed, fail, race and are repeated, the catalog a node
\* is configured with is never older than one it was configured with before, and
\* never a different one with the same number: the rollback state is on disk
\* before the config is.
NeverDowngraded == ~downgraded

\* A config is complete and usable: every manifest it names is installed, and its
\* automatic order of models picks, whichever models are eligible, the model that
\* select_highest_eligible_model() picks from the catalog.
ConfigUsable ==
  nodeConfig # NoCatalog =>
    /\ Digests(nodeConfig) \subseteq manifests
    /\ \A e \in SUBSET Digests(nodeConfig) :
         LET priority == Priority(nodeConfig.ladder)
             found == {p \in DOMAIN priority : priority[p] \in e}
         IN SelectHighest(nodeConfig.ladder, e) = IF found = {} THEN "none" ELSE priority[FirstOf(found)]
=============================================================================

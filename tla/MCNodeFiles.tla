----------------------------- MODULE MCNodeFiles -----------------------------
(***************************************************************************)
(* The files a node keeps, side by side: its config and policy, the replay *)
(* history, the installed catalog, the API keys and the publication bundle *)
(* the catalog comes from.  A behaviour is about one of them.              *)
(***************************************************************************)
\* Instance of the node's files: two nodes of one user on one config, a rotated
\* and revoked identity, two installers and three ladders of models, one of which
\* is malformed.
EXTENDS PolicyStore, ReplayHistory, CatalogInstall, ApiKeys, ReleaseBundle

MCMaxTtl == [k \in {"worker_announcement", "route_demand"} |-> IF k = "route_demand" THEN 2 ELSE 3]
MCRotations == {<<"k1", "k2">>}
MCRevocations == {<<"k2", "k1">>}

Model(d, o, r) == [digest |-> d, order |-> o, role |-> r]
MCLadders ==
  {<<Model("s1", 1, "standby"), Model("p1", 1, "primary"), Model("t1", 1, "standby")>>,
   <<Model("p1", 1, "primary"), Model("p2", 2, "primary"), Model("s2", 2, "standby"), Model("s1", 1, "standby")>>,
   <<Model("p1", 1, "primary"), Model("s1", 2, "standby")>>}

MCReleases ==
  [r \in {"good", "newer", "unsigned", "stale_report"} |->
     [signed |-> r # "unsigned", manifests |-> "exact",
      preflight |-> IF r = "stale_report" THEN "other" ELSE "matching"]]

-----------------------------------------------------------------------------

VARIABLE area

filesVars == <<area, policyVars, replayVars, installVars, keyVars, bundleVars>>

FilesInit ==
  /\ area \in {"policy", "replay", "catalog", "keys", "bundle"}
  /\ PolicyInit /\ ReplayInit /\ CatalogInit /\ KeysInit /\ BundleInit
  /\ area # "policy" => disk.policy = CHOOSE p \in Policies : TRUE

FilesNext ==
  /\ UNCHANGED area
  /\ \/ area = "policy" /\ PolicyNext /\ UNCHANGED <<replayVars, installVars, keyVars, bundleVars>>
     \/ area = "replay" /\ ReplayNext /\ UNCHANGED <<policyVars, installVars, keyVars, bundleVars>>
     \/ area = "catalog" /\ InstallNext /\ UNCHANGED <<policyVars, replayVars, keyVars, bundleVars>>
     \/ area = "keys" /\ KeysNext /\ UNCHANGED <<policyVars, replayVars, installVars, bundleVars>>
     \/ area = "bundle" /\ BundleNext /\ UNCHANGED <<policyVars, replayVars, installVars, keyVars>>

FilesSpec == FilesInit /\ [][FilesNext]_filesVars

\* Every variable of the five parts has its type.
FilesTypeOK == PolicyTypeOK /\ ReplayTypeOK /\ InstallTypeOK /\ KeysTypeOK /\ BundleTypeOK

\* What a node acts on agrees with its files: the policy it enforces is one that was
\* on disk, and the demand it accepts is in the order it was signed.
FilesSound == FilesTypeOK /\ DiskIsEnforced /\ DemandOrdered

\* What an interrupted tool leaves behind can be used: a config names only manifests
\* that are there, a verified key is on disk, a published bundle loads.
FilesUsable == ConfigUsable /\ VerifyIsDurable /\ PublishedLoads
=============================================================================

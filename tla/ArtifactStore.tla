----------------------------- MODULE ArtifactStore -----------------------------
(***************************************************************************)
(* The artifact cache that the processes of one machine share: a worker    *)
(* ensures each file and then reads it under the shared block lock         *)
(* (server/from_pretrained.py), an edge acquisition ensures the client's   *)
(* files in an empty cache (node/edge_acquisition.py), and the verifier    *)
(* downloads, resumes, promotes and evicts (model_manifest.py,             *)
(* utils/disk_cache.py, utils/file_lock.py).                               *)
(* Bounds: files are Size chunks, MaxStoreFaults crashes and failed        *)
(* transfers, every process handles each file once.                        *)
(***************************************************************************)
EXTENDS Integers, FiniteSets

CONSTANTS
  Workers, Acquirers,
  Files, Size,
  HubFiles,         \* files a Hugging Face snapshot in the cache already has
  Ceiling, Disk,    \* max_disk_space and the volume, in files
  MaxResumptions, MaxStoreFaults

Processes == Workers \cup Acquirers
NoFile == "none"
NoOne == "nobody"

ASSUME StoreAssumption ==
  /\ NoOne \notin Processes /\ Workers \cap Acquirers = {}
  /\ HubFiles \subseteq Files /\ Size \in Nat \ {0} /\ Ceiling \in Nat /\ Disk \in Nat
  /\ MaxResumptions \in 0..3 /\ MaxStoreFaults \in Nat

VARIABLES
  asStore,      \* what the two snapshot roots hold of each file
  asPart,       \* the retained partial of each file
  asReaders, asWriter,    \* who holds blocks.lock
  asArtifact,   \* who holds each artifact's lock
  asPc, asFile, asRoot,   \* where each process is, with which file, its verifier's root
  asLeft,       \* files it has still to handle
  asResumed,    \* resumptions an acquisition has used
  asFaults

asVars == <<asStore, asPart, asReaders, asWriter, asArtifact, asPc, asFile, asRoot, asLeft, asResumed, asFaults>>
asLocks == <<asReaders, asWriter, asArtifact>>

Cached == {f \in Files : asStore["hub"][f] # "absent"}
Materialized == {f \in Files : asStore["own"][f] # "absent"}

StoreInit ==
  /\ \E hub \in [HubFiles -> {"absent", "good", "bad"}] :   \* the Hub cache verifies nothing
       asStore = [hub |-> [f \in Files |-> IF f \in HubFiles THEN hub[f] ELSE "absent"],
                  own |-> [f \in Files |-> "absent"]]
  /\ asPart = [f \in Files |-> [len |-> 0, good |-> TRUE]]
  /\ asReaders = {} /\ asWriter = NoOne /\ asArtifact = [f \in Files |-> NoOne]
  /\ asPc = [p \in Processes |-> "idle"] /\ asFile = [p \in Processes |-> NoFile]
  /\ asRoot = [p \in Processes |-> "none"]
  /\ \E active \in {Workers, Acquirers} :   \* an acquisition has its own cache
       asLeft = [p \in Processes |-> IF p \in active THEN Files ELSE {}]
  /\ asResumed = [p \in Processes |-> 0] /\ asFaults = 0

Goto(p, pc) == asPc' = [asPc EXCEPT ![p] = pc]
ReleaseAll(p) ==
  /\ asReaders' = asReaders \ {p} /\ asWriter' = (IF asWriter = p THEN NoOne ELSE asWriter)
  /\ asArtifact' = [f \in Files |-> IF asArtifact[f] = p THEN NoOne ELSE asArtifact[f]]

-----------------------------------------------------------------------------
(* A process takes its next file; an acquisition wants an empty cache.     *)

CacheIsEmpty == Cached = {} /\ Materialized = {} /\ \A f \in Files : asPart[f].len = 0

Take(p) ==
  /\ asPc[p] = "idle" /\ asLeft[p] # {}
  /\ \/ /\ p \in Acquirers /\ asLeft[p] = Files /\ ~CacheIsEmpty
        /\ Goto(p, "refused") /\ UNCHANGED <<asFile, asLeft>>
     \/ /\ (p \in Acquirers /\ asLeft[p] = Files) => CacheIsEmpty
        /\ \E f \in asLeft[p] :
             asFile' = [asFile EXCEPT ![p] = f] /\ asLeft' = [asLeft EXCEPT ![p] = @ \ {f}]
        /\ Goto(p, "look")
  /\ UNCHANGED <<asStore, asPart, asLocks, asRoot, asResumed, asFaults>>

\* Where ensure_path goes on when it has the file.
After(p) == IF p \in Acquirers THEN "kept" ELSE IF p \in asReaders THEN "load" ELSE "read"

\* ensure_path(): the snapshot's file is verified, a file of the Hub cache becomes the
\* root or is promoted into it, and any other file has to be downloaded.
Look(p) ==
  LET f == asFile[p]
      root == IF asRoot[p] # "none" THEN asRoot[p] ELSE "hub"
  IN /\ asPc[p] = "look"
     /\ IF asStore[root][f] # "absent"
          THEN /\ asRoot' = [asRoot EXCEPT ![p] = root]
               /\ IF asStore[root][f] = "good"
                    THEN Goto(p, After(p)) /\ UNCHANGED asLocks
                    ELSE Goto(p, "failed") /\ ReleaseAll(p)
          ELSE /\ Goto(p, IF root = "own" /\ f \in Cached THEN "promote" ELSE "write")
               /\ UNCHANGED <<asRoot, asLocks>>
     /\ UNCHANGED <<asStore, asPart, asFile, asLeft, asResumed, asFaults>>

Promote(p) ==
  LET f == asFile[p]
      content == IF asStore["own"][f] # "absent" THEN asStore["own"][f] ELSE asStore["hub"][f]
  IN /\ asPc[p] = "promote" /\ asArtifact[f] = NoOne
     /\ IF content = "good"
          THEN asStore' = [asStore EXCEPT !["own"][f] = content] /\ Goto(p, After(p)) /\ UNCHANGED asLocks
          ELSE Goto(p, "failed") /\ ReleaseAll(p) /\ UNCHANGED asStore
     /\ UNCHANGED <<asPart, asFile, asRoot, asLeft, asResumed, asFaults>>

-----------------------------------------------------------------------------
(* A download holds blocks.lock exclusively, makes room, and holds the     *)
(* lock of the artifact.                                                   *)

\* Mutant: an eviction that asks only for the absence of writers.
CanWriteBesideReaders(p) == asWriter = NoOne
CanWrite(p) == asReaders = {} /\ asWriter = NoOne

LockWrite(p) ==
  /\ asPc[p] = "write" /\ CanWrite(p)
  /\ asWriter' = p /\ Goto(p, "evict")
  /\ UNCHANGED <<asStore, asPart, asReaders, asArtifact, asFile, asRoot, asLeft, asResumed,
                 asFaults>>

\* free_disk_space_for(): only what the Hub cache holds is counted and can be removed.
Available ==
  LET volume == Disk - Cardinality(Cached) - Cardinality(Materialized)
      quota == Ceiling - Cardinality(Cached)
  IN IF volume < quota THEN volume ELSE quota

Evict(p) ==
  LET need == IF Available >= 1 THEN 0 ELSE 1 - Available
  IN /\ asPc[p] = "evict"
     /\ \E gone \in SUBSET Cached :
          /\ Cardinality(gone) = IF need <= Cardinality(Cached) THEN need ELSE Cardinality(Cached)
          /\ asStore' = [asStore EXCEPT !["hub"] = [f \in Files |-> IF f \in gone THEN "absent" ELSE @[f]]]
     /\ IF need <= Cardinality(Cached)
          THEN Goto(p, "artifact") /\ UNCHANGED asLocks
          ELSE Goto(p, "failed") /\ ReleaseAll(p)
     /\ UNCHANGED <<asPart, asFile, asRoot, asLeft, asResumed, asFaults>>

LockArtifact(p) ==
  /\ asPc[p] = "artifact" /\ asArtifact[asFile[p]] = NoOne
  /\ asArtifact' = [asArtifact EXCEPT ![asFile[p]] = p] /\ Goto(p, "fetch")
  /\ UNCHANGED <<asStore, asPart, asReaders, asWriter, asFile, asRoot, asLeft, asResumed, asFaults>>

-----------------------------------------------------------------------------
(* The transfer.  A partial is resumed by a Range request, which the       *)
(* origin may honour, ignore or answer wrongly; the connection may break.  *)

Target(p) == IF asRoot[p] = "none" THEN "own" ELSE asRoot[p]

Publish(p) ==
  /\ asStore' = [asStore EXCEPT ![Target(p)][asFile[p]] = IF asPart[asFile[p]].good THEN "good" ELSE "bad"]
  /\ asPart' = [asPart EXCEPT ![asFile[p]] = [len |-> 0, good |-> TRUE]]
  /\ asRoot' = [asRoot EXCEPT ![p] = Target(p)]
  /\ asArtifact' = [asArtifact EXCEPT ![asFile[p]] = NoOne]
  /\ asWriter' = NoOne /\ Goto(p, After(p)) /\ UNCHANGED asReaders

Verified(part) == part.len = Size /\ part.good

\* The file is there, or a complete partial is verified and published.
Reuse(p) ==
  LET f == asFile[p]
  IN /\ asPc[p] = "fetch"
     /\ \/ /\ asStore[Target(p)][f] = "good" /\ Goto(p, After(p))
           /\ asRoot' = [asRoot EXCEPT ![p] = Target(p)]
           /\ asArtifact' = [asArtifact EXCEPT ![f] = NoOne] /\ asWriter' = NoOne
           /\ UNCHANGED <<asStore, asPart, asReaders>>
        \/ asStore[Target(p)][f] = "absent" /\ Verified(asPart[f]) /\ Publish(p)
     /\ UNCHANGED <<asFile, asLeft, asResumed, asFaults>>

Usable(part) == IF part.len < Size THEN part ELSE [len |-> 0, good |-> TRUE]

Request(p) ==
  LET f == asFile[p]
      offset == Usable(asPart[f])
      Restart == [len |-> 0, good |-> TRUE]
  IN /\ asPc[p] = "fetch" /\ asStore[Target(p)][f] = "absent" /\ ~Verified(asPart[f])
     /\ \/ \* no response, or a Content-Range that is not the one asked for
           /\ asFaults < MaxStoreFaults /\ asFaults' = asFaults + 1
           /\ asPart' = [asPart EXCEPT ![f] = offset]
           /\ \/ Goto(p, "interrupted") /\ UNCHANGED asLocks
              \/ offset.len > 0 /\ Goto(p, "failed") /\ ReleaseAll(p)
        \/ \* 206 appends, 200 restarts, and the body breaks off or ends
           \E from \in {offset, Restart}, good \in BOOLEAN, ends \in BOOLEAN :
             \E len \in from.len .. Size + 1 :
               /\ ~(ends /\ good /\ len = Size) => asFaults < MaxStoreFaults
               /\ asFaults' = IF ends /\ good /\ len = Size THEN asFaults ELSE asFaults + 1
               /\ asPart' = [asPart EXCEPT ![f] = [len |-> len, good |-> from.good /\ good]]
               /\ Goto(p, IF ends THEN "written" ELSE "interrupted") /\ UNCHANGED asLocks
     /\ UNCHANGED <<asStore, asFile, asRoot, asLeft, asResumed>>

\* A verified transfer is published; an invalid complete one is removed.
Check(p) ==
  LET f == asFile[p]
  IN /\ asPc[p] = "written"
     /\ IF Verified(asPart[f])
          THEN Publish(p)
          ELSE /\ asPart' = [asPart EXCEPT ![f] = Usable(@)]
               /\ Goto(p, "failed") /\ ReleaseAll(p) /\ UNCHANGED <<asStore, asRoot>>
     /\ UNCHANGED <<asFile, asLeft, asResumed, asFaults>>

\* Mutant: one resumption more than the limit.
MayResumeOnceMore(p) == p \in Acquirers /\ asResumed[p] <= MaxResumptions
\* An interrupted transfer keeps a partial that is not too long; an acquisition resumes it.
MayResume(p) == p \in Acquirers /\ asResumed[p] < MaxResumptions

Interrupted(p) ==
  LET f == asFile[p]
  IN /\ asPc[p] = "interrupted"
     /\ asPart' = [asPart EXCEPT ![f] = IF @.len > Size THEN [len |-> 0, good |-> TRUE] ELSE @]
     /\ ReleaseAll(p)
     /\ IF MayResume(p)
          THEN asResumed' = [asResumed EXCEPT ![p] = @ + 1] /\ Goto(p, "look")
          ELSE Goto(p, "failed") /\ UNCHANGED asResumed
     /\ UNCHANGED <<asStore, asFile, asRoot, asLeft, asFaults>>

-----------------------------------------------------------------------------
(* A worker reads under the shared lock, after it has checked the file     *)
(* again; an acquisition goes to the next file.                            *)

LockRead(p) ==
  /\ asPc[p] = "read" /\ asWriter = NoOne
  /\ asReaders' = asReaders \cup {p} /\ Goto(p, "look")
  /\ UNCHANGED <<asStore, asPart, asWriter, asArtifact, asFile, asRoot, asLeft, asResumed,
                 asFaults>>

Finish(p) ==
  /\ asPc[p] \in {"load", "kept"} /\ ReleaseAll(p)
  /\ Goto(p, IF asLeft[p] = {} THEN "done" ELSE "idle")
  /\ asFile' = [asFile EXCEPT ![p] = NoFile]
  /\ UNCHANGED <<asStore, asPart, asRoot, asLeft, asResumed, asFaults>>

\* The process dies and starts again with a new verifier; its locks are gone, its partial stays.
ProcessCrashes(p) ==
  /\ asPc[p] \notin {"idle", "done", "failed", "refused"} /\ asFaults < MaxStoreFaults
  /\ asFaults' = asFaults + 1 /\ ReleaseAll(p) /\ Goto(p, "idle")
  /\ asFile' = [asFile EXCEPT ![p] = NoFile] /\ asRoot' = [asRoot EXCEPT ![p] = "none"]
  /\ asLeft' = [asLeft EXCEPT ![p] = Files] /\ asResumed' = [asResumed EXCEPT ![p] = 0]
  /\ UNCHANGED <<asStore, asPart>>

-----------------------------------------------------------------------------
LoadStep(p) ==
  \/ Take(p) \/ Look(p) \/ Promote(p) \/ LockWrite(p) \/ Evict(p) \/ LockArtifact(p) \/ Reuse(p)
  \/ Request(p) \/ Check(p) \/ Interrupted(p) \/ LockRead(p) \/ Finish(p)

StoreNext == \E p \in Processes : LoadStep(p) \/ ProcessCrashes(p)

StoreSpec == StoreInit /\ [][StoreNext]_asVars

-----------------------------------------------------------------------------
StoreTypeOK ==
  /\ asStore \in [{"hub", "own"} -> [Files -> {"absent", "good", "bad"}]]
  /\ asPart \in [Files -> [len : 0..Size + 1, good : BOOLEAN]]
  /\ asReaders \subseteq Workers /\ asWriter \in Processes \cup {NoOne}
  /\ asArtifact \in [Files -> Processes \cup {NoOne}]
  /\ asPc \in [Processes -> {"idle", "look", "promote", "write", "evict", "artifact", "fetch", "written",
                             "interrupted", "read", "load", "kept", "done", "failed", "refused"}]
  /\ asFile \in [Processes -> Files \cup {NoFile}] /\ asRoot \in [Processes -> {"none", "hub", "own"}]
  /\ asLeft \in [Processes -> SUBSET Files] /\ asResumed \in [Processes -> Nat]
  /\ asFaults \in 0..MaxStoreFaults

\* A worker deserializes a verified file that nobody removes meanwhile ("keep the
\* artifact alive through deserialization", server/from_pretrained.py:279).
ReadersKeepFiles ==
  \A p \in Workers : asPc[p] = "load" => asStore[asRoot[p]][asFile[p]] = "good"

\* An acquisition that completes has every file verified, no partial left over, and
\* has resumed no more often than it may.
AcquisitionExact ==
  \A p \in Acquirers : asPc[p] = "done" =>
    /\ \A f \in Files : asStore[asRoot[p]][f] = "good" /\ asPart[f].len = 0
    /\ asResumed[p] <= MaxResumptions

\* Every process has all its files, or has failed or been refused: nobody waits for a
\* lock (server/from_pretrained.py:275-283, model_manifest.py:599).
LoadsOver ==
  \A p \in Processes : asPc[p] \in {"done", "failed", "refused"} \/ (asPc[p] = "idle" /\ asLeft[p] = {})

\* The one way in which processes come to wait for ever: a worker that found its file
\* gone under the shared lock asks for the exclusive one, which its own shared lock and
\* any other reader's deny (server/from_pretrained.py:276-283, model_manifest.py:599).
ReaderWantsWriter == \E p \in asReaders : asPc[p] = "write"

\* What is on disk stays below the ceiling.
CeilingRespected == Cardinality(Cached) + Cardinality(Materialized) <= Ceiling
=============================================================================

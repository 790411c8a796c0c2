------------------------------- MODULE ApiKeys -------------------------------
(***************************************************************************)
(* node/keys.py and the key preparation of cli/run_node.py: the client     *)
(* keys of a node, in the memory of the running process and in             *)
(* api-keys.json, and the file that holds the bootstrap secret.  Writes    *)
(* fail, the process is killed between any two steps and started again.    *)
(* A key stands for its secret, its hash and its id.                       *)
(***************************************************************************)
EXTENDS Naturals, FiniteSets

CONSTANTS
  Secrets,     \* the secrets that are ever used
  Bootstrap,   \* the one the node writes into local-api.key
  MaxKeyFaults \* bound on failed writes and kills

ASSUME SecretsAssumption ==
  IsFiniteSet(Secrets) /\ Bootstrap \in Secrets /\ MaxKeyFaults \in Nat

VARIABLES
  kpc,       \* "down", "loaded", "writing" or "up"
  records,   \* _records of the process
  before,    \* what a failed write rolls back to
  failed,    \* where a failed write leaves the process: "down" at startup, else "up"
  stored,    \* api-keys.json
  keyFile,   \* local-api.key: "none", "empty" or "secret"
  kfaults

keyVars == <<kpc, records, before, failed, stored, keyFile, kfaults>>

Unknown == [k \in Secrets |-> "unknown"]
ActiveIn(r) == {k \in Secrets : r[k] = "active"}

KeysInit ==
  /\ kpc = "down" /\ records = Unknown /\ before = Unknown /\ failed = "down"
  /\ stored = Unknown /\ keyFile = "none" /\ kfaults = 0

\* ApiKeyStore(): the store is read.
LoadKeys ==
  /\ kpc = "down" /\ kpc' = "loaded" /\ records' = stored
  /\ UNCHANGED <<before, failed, stored, keyFile, kfaults>>

\* A mutation holds the lock over the change in memory and the write.
Mutate(new, onError) ==
  /\ kpc' = "writing" /\ records' = new /\ before' = records /\ failed' = onError
  /\ UNCHANGED <<stored, keyFile, kfaults>>

\* Mutant: a revoked key is imported again.
EnsureKeyAgain(k, onError) ==
  \/ records[k] # "active" /\ Mutate([records EXCEPT ![k] = "active"], onError)
  \/ /\ records[k] = "active" /\ kpc' = "up"
     /\ UNCHANGED <<records, before, failed, stored, keyFile, kfaults>>

\* ensure_key(): a known active key is returned, a revoked one is refused (the
\* caller at startup gives up, a client gets an error), an unknown one is added.
EnsureKey(k, onError) ==
  \/ records[k] = "unknown" /\ Mutate([records EXCEPT ![k] = "active"], onError)
  \/ /\ records[k] # "unknown"
     /\ kpc' = IF records[k] = "active" THEN "up" ELSE onError
     /\ UNCHANGED <<records, before, failed, stored, keyFile, kfaults>>

\* _prepare_api_key_store(): the keys of the command line, or the bootstrap key
\* when no key is active.
PrepareSupplied == kpc = "loaded" /\ \E k \in Secrets \ {Bootstrap} : EnsureKey(k, "down")

PrepareManaged ==
  /\ kpc = "loaded" /\ ActiveIn(records) # {} /\ kpc' = "up"
  /\ UNCHANGED <<records, before, failed, stored, keyFile, kfaults>>

\* _load_or_create_secret(): the file is created empty, then written; an empty
\* file that a killed process left behind is an error.
CreateSecretFile ==
  /\ kpc = "loaded" /\ ActiveIn(records) = {} /\ keyFile = "none"
  /\ keyFile' = "empty" /\ kpc' = "secret"
  /\ UNCHANGED <<records, before, failed, stored, kfaults>>

WriteSecretFile ==
  /\ kpc = "secret" /\ keyFile' = "secret" /\ kpc' = "loaded"
  /\ UNCHANGED <<records, before, failed, stored, kfaults>>

SecretFileEmpty ==
  /\ kpc = "loaded" /\ ActiveIn(records) = {} /\ keyFile = "empty"
  /\ kpc' = "down" /\ UNCHANGED <<records, before, failed, stored, keyFile, kfaults>>

PrepareBootstrap ==
  /\ kpc = "loaded" /\ ActiveIn(records) = {} /\ keyFile = "secret"
  /\ EnsureKey(Bootstrap, "down")

\* The control API of the running node.
CreateKey == kpc = "up" /\ \E k \in Secrets \ {Bootstrap} : records[k] = "unknown" /\ EnsureKey(k, "up")

RevokeKey ==
  /\ kpc = "up"
  /\ \E k \in Secrets : /\ records[k] = "active" /\ Cardinality(ActiveIn(records)) > 1
                        /\ Mutate([records EXCEPT ![k] = "revoked"], "up")

\* update_label(): the label is left out, the write of all records is not.
RelabelKey == kpc = "up" /\ (\E k \in Secrets : records[k] # "unknown") /\ Mutate(records, "up")

\* _write_locked(): one replacement of the file.
WriteKeys ==
  /\ kpc = "writing" /\ stored' = records /\ kpc' = "up"
  /\ UNCHANGED <<records, before, failed, keyFile, kfaults>>

\* The write fails: the change is taken back; at startup that ends the process.
WriteKeysFails ==
  /\ kpc = "writing" /\ kfaults < MaxKeyFaults /\ kfaults' = kfaults + 1
  /\ records' = before /\ kpc' = failed
  /\ UNCHANGED <<before, failed, stored, keyFile>>

KillNode ==
  /\ kpc # "down" /\ kfaults < MaxKeyFaults /\ kfaults' = kfaults + 1
  /\ kpc' = "down" /\ records' = Unknown
  /\ UNCHANGED <<before, failed, stored, keyFile>>

StopNode == kpc = "up" /\ kpc' = "down" /\ records' = Unknown
            /\ UNCHANGED <<before, failed, stored, keyFile, kfaults>>

KeysNext == \/ LoadKeys \/ PrepareSupplied \/ PrepareManaged \/ CreateSecretFile \/ WriteSecretFile
            \/ SecretFileEmpty \/ PrepareBootstrap \/ CreateKey \/ RevokeKey \/ RelabelKey
            \/ WriteKeys \/ WriteKeysFails \/ KillNode \/ StopNode

KeysSpec == KeysInit /\ [][KeysNext]_keyVars

KeysTypeOK ==
  /\ kpc \in {"down", "loaded", "secret", "writing", "up"}
  /\ {records, before, stored} \subseteq [Secrets -> {"unknown", "active", "revoked"}]
  /\ keyFile \in {"none", "empty", "secret"} /\ kfaults \in 0..MaxKeyFaults

\* A node that serves has an active key, and verify() answers from memory what
\* the file says, so that a restart changes the answer for no key: a write that
\* failed left no trace, and a key revoked once is never accepted again.
VerifyIsDurable == kpc = "up" => records = stored /\ ActiveIn(stored) # {}

Registry == INSTANCE KeyRegistry WITH Secrets <- Secrets, status <- stored

\* The store implements the registry: every step of it, crashes and failed
\* writes included, adds one key, revokes one that is not the last active, or
\* changes nothing.
KeysImplementRegistry == Registry!RegSpec
=============================================================================

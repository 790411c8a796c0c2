----------------------------- MODULE PolicyStore -----------------------------
(***************************************************************************)
(* node/policy_store.py and node/config_lock.py: the contribution policy   *)
(* of a node lives in its config file and in the worker supervisor, and a  *)
(* PUT replaces both.  Several nodes of one user, an editor that knows     *)
(* nothing of the sidecar lock, crashes and I/O errors share the file.     *)
(*                                                                         *)
(* A document is [policy, rest]; its revision is a digest of all its bytes *)
(* and is therefore the document itself.                                   *)
(***************************************************************************)
EXTENDS Naturals, FiniteSets

CONSTANTS
  Stores,      \* the processes that own a policy store on this file
  Policies,    \* contribution policies
  MaxEdits,    \* bound on edits from outside
  MaxIoFaults  \* bound on crashes and I/O errors

ASSUME PolicyStoreAssumption ==
  Stores # {} /\ "free" \notin Stores /\ MaxEdits \in Nat /\ MaxIoFaults \in Nat

VARIABLES
  disk,      \* the config file
  wlock,     \* who holds the sidecar lock, or "free"
  ppc,       \* the step of each store
  revision,  \* _revision: the document the store accepted last
  enforced,  \* the policy its supervisor enforces
  paused,    \* every worker of the supervisor is paused
  cand,      \* the document the update wants to write
  tmp,       \* the candidate file, which holds the displaced document after the exchange
  kept,      \* displaced documents that were left for recovery
  edits,     \* edits from outside so far
  edit,      \* the last edit that no update was based on, or NoDoc
  blind,     \* it was made while an exchange was being judged
  iofaults,
  torn       \* stores whose update failed after the exchange, and how

policyVars == <<disk, wlock, ppc, revision, enforced, paused, cand, tmp, kept, edits, edit,
                blind, iofaults, torn>>

NoDoc == [policy |-> "none", rest |-> 0]
Docs == [policy : Policies, rest : 0..MaxEdits]
Steps == {"idle", "persist", "locked", "written", "exchanged"}

PolicyInit ==
  /\ disk \in [policy : Policies, rest : {0}]
  /\ wlock = "free" /\ ppc = [s \in Stores |-> "idle"]
  /\ revision = [s \in Stores |-> disk] /\ enforced = [s \in Stores |-> disk.policy]
  /\ paused = [s \in Stores |-> FALSE]
  /\ cand = [s \in Stores |-> NoDoc] /\ tmp = [s \in Stores |-> NoDoc]
  /\ kept = {} /\ edits = 0 /\ edit = NoDoc /\ blind = FALSE /\ iofaults = 0 /\ torn = {}

outside == <<edits, edit, blind, iofaults>>

\* The update returns an error: its temporary file is unlinked, its locks are free.
Refuse(s) ==
  /\ ppc' = [ppc EXCEPT ![s] = "idle"]
  /\ cand' = [cand EXCEPT ![s] = NoDoc] /\ tmp' = [tmp EXCEPT ![s] = NoDoc]
  /\ wlock' = IF wlock = s THEN "free" ELSE wlock

\* Workers are paused and started by the operator; from reconfigure() on an update
\* holds the same lock.
TogglePaused(s) ==
  /\ ppc[s] \in {"idle", "persist"}
  /\ paused' = [paused EXCEPT ![s] = ~@]
  /\ UNCHANGED <<disk, wlock, ppc, revision, enforced, cand, tmp, kept, torn, outside>>

\* update(): the client's revision is the one it was shown, the file is what was
\* accepted last, the candidate keeps every other field, and it compiles.
Update(s, p) ==
  /\ ppc[s] = "idle" /\ disk = revision[s]
  /\ ppc' = [ppc EXCEPT ![s] = "persist"]
  /\ cand' = [cand EXCEPT ![s] = [disk EXCEPT !.policy = p]]
  /\ UNCHANGED <<disk, wlock, revision, enforced, paused, tmp, kept, torn, outside>>

\* reconfigure(): running workers refuse the update before anything is written.
Busy(s) ==
  /\ ppc[s] = "persist" /\ ~paused[s]
  /\ Refuse(s) /\ UNCHANGED <<disk, revision, enforced, paused, kept, torn, outside>>

\* node_config_write_lock() does not wait: a held lock is a conflict.
LockConfig(s) ==
  /\ ppc[s] = "persist" /\ paused[s]
  /\ \/ /\ wlock = "free" /\ disk = revision[s]
        /\ wlock' = s /\ ppc' = [ppc EXCEPT ![s] = "locked"] /\ UNCHANGED <<cand, tmp>>
     \/ /\ wlock # "free" \/ disk # revision[s]
        /\ Refuse(s)
  /\ UNCHANGED <<disk, revision, enforced, paused, kept, torn, outside>>

\* The candidate is written beside the file, then the file is checked again.
WriteCandidate(s) ==
  /\ ppc[s] = "locked"
  /\ \/ /\ disk = revision[s]
        /\ tmp' = [tmp EXCEPT ![s] = cand[s]] /\ ppc' = [ppc EXCEPT ![s] = "written"]
        /\ UNCHANGED <<wlock, cand>>
     \/ disk # revision[s] /\ Refuse(s)
  /\ UNCHANGED <<disk, revision, enforced, paused, kept, torn, outside>>

\* _exchange_paths(): candidate and file change places in one step.
Exchange(s) ==
  /\ ppc[s] = "written"
  /\ disk' = tmp[s] /\ tmp' = [tmp EXCEPT ![s] = disk]
  /\ ppc' = [ppc EXCEPT ![s] = "exchanged"]
  /\ UNCHANGED <<wlock, revision, enforced, paused, cand, kept, torn, outside>>

Displaced(s) == tmp[s]

\* Mutant: nobody compares the displaced document.
CommitBlind(s) ==
  /\ ppc[s] = "exchanged"
  /\ revision' = [revision EXCEPT ![s] = cand[s]]
  /\ enforced' = [enforced EXCEPT ![s] = cand[s].policy]
  /\ Refuse(s)
  /\ UNCHANGED <<disk, paused, kept, torn, outside>>
\* Mutant: the conflict is noticed and the candidate stays in the file.
RestoreForgets(s) ==
  /\ ppc[s] = "exchanged" /\ Displaced(s) # revision[s]
  /\ kept' = kept \cup {Displaced(s)} /\ Refuse(s)
  /\ UNCHANGED <<disk, revision, enforced, paused, torn, outside>>

\* The displaced document was the expected one: the update is committed, and the
\* supervisor and the store follow before anyone can look.
Commit(s) ==
  /\ ppc[s] = "exchanged" /\ Displaced(s) = revision[s]
  /\ revision' = [revision EXCEPT ![s] = cand[s]]
  /\ enforced' = [enforced EXCEPT ![s] = cand[s].policy]
  /\ Refuse(s)
  /\ UNCHANGED <<disk, paused, kept, torn, outside>>

\* It was not: the two change places once more, and what was displaced by that
\* is deleted with the temporary file.
Restore(s) ==
  /\ ppc[s] = "exchanged" /\ Displaced(s) # revision[s]
  /\ disk' = Displaced(s) /\ Refuse(s)
  /\ UNCHANGED <<revision, enforced, paused, kept, torn, outside>>

\* The second exchange may be impossible: the displaced document is left behind.
RestoreFails(s) ==
  /\ ppc[s] = "exchanged" /\ Displaced(s) # revision[s] /\ iofaults < MaxIoFaults
  /\ kept' = kept \cup {Displaced(s)} /\ torn' = torn \cup {<<s, "unrestored">>}
  /\ iofaults' = iofaults + 1 /\ Refuse(s)
  /\ UNCHANGED <<disk, revision, enforced, paused, edits, edit, blind>>

\* An I/O error while the candidate is written or exchanged, or while the
\* displaced document is read back.  The temporary file is unlinked.
IoFails(s) ==
  /\ ppc[s] \in {"locked", "written", "exchanged"} /\ iofaults < MaxIoFaults
  /\ torn' = IF ppc[s] = "exchanged" THEN torn \cup {<<s, "unread">>} ELSE torn
  /\ iofaults' = iofaults + 1 /\ Refuse(s)
  /\ UNCHANGED <<disk, revision, enforced, paused, kept, edits, edit, blind>>

\* The process dies; its lock is freed, its files stay.  The next one reads the file.
CrashStore(s) ==
  /\ iofaults < MaxIoFaults /\ iofaults' = iofaults + 1
  /\ kept' = IF ppc[s] = "exchanged" THEN kept \cup {tmp[s]} ELSE kept
  /\ Refuse(s)
  /\ revision' = [revision EXCEPT ![s] = disk]
  /\ enforced' = [enforced EXCEPT ![s] = disk.policy]
  /\ paused' = [paused EXCEPT ![s] = FALSE] /\ torn' = torn \ {<<s, "unrestored">>}
  /\ UNCHANGED <<disk, edits, edit, blind>>

\* Someone edits the file without the lock.
EditOutside ==
  /\ edits < MaxEdits /\ edits' = edits + 1
  /\ \E p \in Policies : disk' = [policy |-> p, rest |-> edits + 1]
  /\ edit' = disk' /\ blind' = (\E s \in Stores : ppc[s] = "exchanged")
  /\ UNCHANGED <<wlock, ppc, revision, enforced, paused, cand, tmp, kept, iofaults, torn>>

PolicyNext ==
  \/ \E s \in Stores : \/ \E p \in Policies : Update(s, p)
                       \/ TogglePaused(s) \/ Busy(s) \/ LockConfig(s) \/ WriteCandidate(s)
                       \/ Exchange(s) \/ Commit(s) \/ Restore(s) \/ RestoreFails(s)
                       \/ IoFails(s) \/ CrashStore(s)
  \/ EditOutside

PolicySpec == PolicyInit /\ [][PolicyNext]_policyVars

PolicyTypeOK ==
  /\ disk \in Docs /\ wlock \in Stores \cup {"free"}
  /\ ppc \in [Stores -> Steps] /\ revision \in [Stores -> Docs]
  /\ enforced \in [Stores -> Policies] /\ paused \in [Stores -> BOOLEAN]
  /\ cand \in [Stores -> Docs \cup {NoDoc}] /\ tmp \in [Stores -> Docs \cup {NoDoc}]
  /\ kept \subseteq Docs /\ edit \in Docs \cup {NoDoc} /\ blind \in BOOLEAN /\ torn \subseteq Stores \X {"unread", "unrestored"}

Judging == \E s \in Stores : ppc[s] = "exchanged"

\* An edit that no lock protected is never destroyed by an update it raced with:
\* once no exchange is being judged it is on disk, in a file left for recovery or
\* in what a restarted node accepted.  Excepted are an edit made in the very
\* window in which _atomic_replace_locked judges an exchange, and an I/O error
\* on reading the displaced document back, which deletes it unread.
EditsSurvive ==
  ~Judging /\ edit # NoDoc /\ ~blind /\ (\A s \in Stores : <<s, "unread">> \notin torn)
    => edit \in {disk} \cup kept \/ \E s \in Stores : revision[s].rest = edit.rest

\* reconfigure() advances the file and the supervisor as one transaction: each
\* supervisor enforces what its store accepted, and at rest the file is what
\* some store accepted or what an editor wrote.  The candidate of an update that was
\* refused may stay on disk in the cases that _atomic_replace_locked cannot undo
\* (policy_store.py:232-250), and only in those: a crash inside its exchange window or
\* a restore that fails (torn), an I/O error on reading the displaced document (blind).
DiskIsEnforced ==
  /\ \A s \in Stores : enforced[s] = revision[s].policy
  /\ ~Judging /\ torn = {} /\ ~blind => disk = edit \/ \E s \in Stores : disk = revision[s]

=============================================================================

---------------------------- MODULE ReplayHistory ----------------------------
(***************************************************************************)
(* protocol_identity.py: signed records, the identity trust bundle and the *)
(* replay history, as node/discovery.py uses them for one manifest.  The   *)
(* lookup of worker announcements runs in the DHT process on a pickled     *)
(* copy of the guard, which reloads the history file; route demand is      *)
(* checked afterwards by the guard of the discovery thread itself.  The    *)
(* two are serialized by the I/O lock of the group.                        *)
(*                                                                         *)
(* A record is what its signature covers; what else can be wrong with it is *)
(* one flaw: its form, its signature, or what it is bound to.               *)
(***************************************************************************)
EXTENDS Naturals, FiniteSets

CONSTANTS
  Keys,       \* identities
  Rotations,  \* the trust bundle: pairs <<old, new>> proved by both keys,
  Revocations,\* and pairs <<authority, revoked>> signed by the authority
  MaxTtl,     \* kind |-> the longest lifetime of a record of that kind
  Skew,       \* tolerated clock difference
  MaxClock, MaxRestarts, MaxActive

ASSUME ReplayAssumption == Skew \in Nat /\ MaxClock \in Nat /\ MaxActive \in Nat \ {0}

Kinds == DOMAIN MaxTtl
ASSUME LifetimesAssumption == \A k \in Kinds : MaxTtl[k] \in Nat

VARIABLES
  rclock,    \* time, in the unit of the records
  history,   \* the history file: scope |-> mark
  parent,    \* _latest of the discovery thread's guard
  rstep,     \* whose turn it is in the polling loop: "lookup" or "demand"
  restarts,
  seenMark,  \* scope |-> the highest mark ever accepted
  replays    \* scopes for which an older or contradicting record was accepted

replayVars == <<rclock, history, parent, rstep, restarts, seenMark, replays>>

NoMarks == [s \in {} |-> 0]

(* The trust bundle. *)

\* verify_rotation_record(): both keys sign the change from one to the other.
RotationOK(r) == r[1] # r[2] /\ {r[1], r[2]} \subseteq Keys

\* from_records(): one successor per key, and no cycle.
Successor(k) == {r[2] : r \in {q \in Rotations : q[1] = k}}
Chain[n \in 0..Cardinality(Keys)] ==
  [k \in Keys |-> IF n = 0 THEN {k} ELSE UNION {Chain[n - 1][s] : s \in Successor(k)}]
TrustBundleOK ==
  /\ \A r \in Rotations : RotationOK(r) /\ Cardinality(Successor(r[1])) = 1
  /\ \A k \in Keys : Chain[Cardinality(Keys)][k] = {}
IsSuccessor(candidate, k) == \E n \in 1..Cardinality(Keys) : candidate \in Chain[n][k]
RevocationOK(r) == r[1] = r[2] \/ IsSuccessor(r[1], r[2])
Revoked == {r[2] : r \in Revocations}

ASSUME TrustBundle == TrustBundleOK /\ \A r \in Revocations : RevocationOK(r)

(* Records. *)

Records == [kind : Kinds, key : Keys, issued : 0..MaxClock, seq : 0..1, expires : 0..(MaxClock + 3),
            body : {"x", "y"}, flaw : {"none"}]
           \cup [kind : Kinds, key : Keys, issued : {0}, seq : {0}, expires : {1}, body : {"x"},
                 flaw : {"form", "signature", "binding"}]

\* create_*() and _validate_lifetime(): what a record may say at a time.
Lifetime(r, now) ==
  /\ r.expires > r.issued /\ r.expires - r.issued <= MaxTtl[r.kind]
  /\ r.issued <= now + Skew /\ r.expires > now

\* SignedRecord.from_dict() and verify(): a known schema, and a signature by the
\* key whose id the record states.
WellSigned(r) == r.flaw \notin {"form", "signature"}

\* The payload names the peer, manifest, profile and metadata it was found under.
AnnouncementVerified(r, now) ==
  r.kind = "worker_announcement" /\ WellSigned(r) /\ r.flaw # "binding" /\ Lifetime(r, now) /\ r.key \notin Revoked

\* The payload names the manifest, and an observation in coarse buckets.
DemandVerified(r, now) ==
  r.kind = "route_demand" /\ WellSigned(r) /\ r.flaw # "binding" /\ Lifetime(r, now) /\ r.key \notin Revoked

Scope(r) == <<r.kind, r.key>>
Before(a, b) == a.issued < b.issued \/ (a.issued = b.issued /\ a.seq < b.seq)
SameOrder(a, b) == a.issued = b.issued /\ a.seq = b.seq
RetainUntil(r) == IF r.expires > r.issued + MaxTtl[r.kind] THEN r.expires ELSE r.issued + MaxTtl[r.kind]
Mark(r) == [issued |-> r.issued, seq |-> r.seq, body |-> r.body, until |-> RetainUntil(r)]

Live(marks, now) == {s \in DOMAIN marks : marks[s].until > now}
Prune(marks, now) == [s \in Live(marks, now) |-> marks[s]]

\* check(): not older than the mark of its scope, and the same record at the same
\* place; a new scope must fit.
Admissible(marks, r) ==
  LET s == Scope(r) IN
    /\ s \in DOMAIN marks => \/ Before(marks[s], r)
                             \/ SameOrder(marks[s], r) /\ marks[s].body = r.body
    /\ Cardinality(DOMAIN marks \cup {s}) <= MaxActive

Advance(marks, r) ==
  LET s == Scope(r) IN
    IF s \in DOMAIN marks /\ ~Before(marks[s], r) THEN marks
    ELSE [t \in DOMAIN marks \cup {s} |-> IF t = s THEN Mark(r) ELSE marks[t]]

(* The polling loop. *)

ReplayInit ==
  /\ rclock = 0 /\ history = NoMarks /\ parent = NoMarks /\ rstep = "lookup"
  /\ restarts = 0 /\ seenMark = NoMarks /\ replays = {}

\* What the outside can tell once a record was accepted.
Observe(r) ==
  LET s == Scope(r) IN
    /\ replays' = IF s \in DOMAIN seenMark /\ (Before(r, seenMark[s])
                       \/ (SameOrder(seenMark[s], r) /\ seenMark[s].body # r.body))
                  THEN replays \cup {s} ELSE replays
    /\ seenMark' = Advance(seenMark, r)

\* The copy in the DHT process: __setstate__ reloads the file, then one record is
\* verified and checked.  What it learns survives in the file only.
LookupAccepts ==
  /\ rstep = "lookup"
  /\ \E r \in Records :
       /\ AnnouncementVerified(r, rclock)
       /\ LET marks == Prune(history, rclock) IN
            /\ Admissible(marks, r)
            /\ history' = IF Advance(marks, r) = marks THEN history ELSE Advance(marks, r)
       /\ Observe(r)
  /\ UNCHANGED <<rclock, parent, rstep, restarts>>

LookupEnds == rstep = "lookup" /\ rstep' = "demand"
              /\ UNCHANGED <<rclock, history, parent, restarts, seenMark, replays>>

\* _read_remote_route_observations() in the discovery thread: its own guard, which
\* read the file when it was made, writes all it knows over the file.
DemandAccepts ==
  /\ rstep = "demand"
  /\ \E r \in Records :
       /\ DemandVerified(r, rclock)
       /\ LET marks == Prune(parent, rclock) IN
            /\ Admissible(marks, r)
            /\ parent' = Advance(marks, r)
            /\ history' = IF parent' = parent THEN history ELSE parent'
       /\ Observe(r)
  /\ UNCHANGED <<rclock, rstep, restarts>>

DemandEnds == rstep = "demand" /\ rstep' = "lookup"
              /\ UNCHANGED <<rclock, history, parent, restarts, seenMark, replays>>

\* The node restarts: the guard of the new process loads the file.
RestartNode ==
  /\ restarts < MaxRestarts /\ restarts' = restarts + 1
  /\ parent' = Prune(history, rclock) /\ rstep' = "lookup"
  /\ UNCHANGED <<rclock, history, seenMark, replays>>

ReplayTick == rclock < MaxClock /\ rclock' = rclock + 1
              /\ UNCHANGED <<history, parent, rstep, restarts, seenMark, replays>>

ReplayNext == LookupAccepts \/ LookupEnds \/ DemandAccepts \/ DemandEnds \/ RestartNode \/ ReplayTick

ReplaySpec == ReplayInit /\ [][ReplayNext]_replayVars

ReplayTypeOK ==
  /\ rclock \in 0..MaxClock /\ rstep \in {"lookup", "demand"}
  /\ \A f \in {history, parent} : DOMAIN f \subseteq Kinds \X Keys /\ Cardinality(DOMAIN f) <= MaxActive

\* A replayed or contradicting route demand record is never accepted, across
\* restarts of the node and although marks are pruned: once a mark is gone,
\* every record it would have rejected has expired.
DemandOrdered == \A s \in replays : s[1] # "route_demand"

\* "reject expired, future-dated, replayed, equivocating, or revoked identities":
\* no worker announcement older than one already accepted is accepted.
AnnouncementsOrdered == \A s \in replays : s[1] # "worker_announcement"
=============================================================================

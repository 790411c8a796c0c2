----------------------------- MODULE NodeProofs -----------------------------
(***************************************************************************)
(* Proofs about a node: first the files it keeps (the API keys, the config *)
(* file with the contribution policy, the installed catalog, the replay    *)
(* history and the publication bundle), for any number of processes,       *)
(* edits, documents, records, crashes and failed writes; then the services *)
(* around its runtime (the artifact cache, the measurement, discovery, the *)
(* automatic placement, the gateway, the desktop, its window and the       *)
(* sizing of a server), for any sets of processes, files, requests,        *)
(* models, threads, tasks and command lines.                               *)
(***************************************************************************)
EXTENDS MCNodeFiles, MCNodeServices, SumTheorems,
        FiniteSetTheorems, SequenceTheorems, TLAPS

-----------------------------------------------------------------------------
(***************************************************************************)
(* The API keys, for any finite set of secrets and any number of faults.   *)
(* The file changes only when a write succeeds, what is written differs    *)
(* from it by one change of the registry (Changes): while a mutation is    *)
(* under way, the records it took the lock on are the ones in the file.    *)
(***************************************************************************)
Changes(old, new) ==
  \/ new = old
  \/ \E k \in Secrets : old[k] = "unknown" /\ new = [old EXCEPT ![k] = "active"]
  \/ \E k \in Secrets : /\ old[k] = "active" /\ Cardinality(ActiveIn(old)) > 1
                        /\ new = [old EXCEPT ![k] = "revoked"]

KeysInv ==
  /\ KeysTypeOK /\ failed \in {"down", "up"}
  /\ kpc \in {"loaded", "secret", "up"} => records = stored
  /\ kpc = "up" => ActiveIn(stored) # {}
  /\ kpc = "writing" => /\ before = stored /\ Changes(before, records)
                        /\ ActiveIn(records) # {}
                        /\ failed = "up" => ActiveIn(before) # {}

\* What a change of the registry leaves: a registry with an active key.
LEMMA RevokingLeavesOne ==
  ASSUME NEW old \in [Secrets -> {"unknown", "active", "revoked"}], NEW k \in Secrets,
         Cardinality(ActiveIn(old)) > 1
  PROVE  ActiveIn(old) \ {k} # {} /\ ActiveIn([old EXCEPT ![k] = "revoked"]) # {}
  <1>1. IsFiniteSet(ActiveIn(old))
    BY SecretsAssumption, FS_Subset DEF ActiveIn
  <1>2. ActiveIn(old) # {} /\ ActiveIn(old) # {k}
    BY FS_EmptySet, FS_Singleton
  <1>3. PICK j \in ActiveIn(old) : j # k
    BY <1>2
  <1>4. j \in ActiveIn([old EXCEPT ![k] = "revoked"])
    BY <1>3 DEF ActiveIn
  <1>5. QED
    BY <1>3, <1>4

LEMMA AddingLeavesOne ==
  ASSUME NEW old \in [Secrets -> {"unknown", "active", "revoked"}], NEW k \in Secrets
  PROVE  ActiveIn([old EXCEPT ![k] = "active"]) # {}
  BY DEF ActiveIn

LEMMA KeysStay ==
  ASSUME KeysInv, [KeysNext]_keyVars
  PROVE  KeysInv'
  <1> USE SecretsAssumption DEF KeysInv, KeysTypeOK
  <1>a. ASSUME NEW k \in Secrets, NEW onError \in {"down", "up"},
               kpc \in {"loaded", "up"}, kpc = "loaded" => onError = "down",
               EnsureKey(k, onError)
        PROVE  KeysInv'
    <2>1. CASE records[k] = "unknown"
      <3>1. records' = [records EXCEPT ![k] = "active"] /\ before' = records /\ kpc' = "writing"
            /\ failed' = onError /\ UNCHANGED <<stored, keyFile, kfaults>>
        BY <1>a, <2>1 DEF EnsureKey, Mutate
      <3>2. Changes(before', records') /\ ActiveIn(records') # {}
        BY <2>1, <3>1, AddingLeavesOne DEF Changes
      <3>3. records' \in [Secrets -> {"unknown", "active", "revoked"}]
        BY <3>1
      <3>4. QED
        BY <1>a, <3>1, <3>2, <3>3
    <2>2. CASE records[k] # "unknown"
      <3>1. /\ kpc' = IF records[k] = "active" THEN "up" ELSE onError
            /\ UNCHANGED <<records, before, failed, stored, keyFile, kfaults>>
        BY <1>a, <2>2 DEF EnsureKey
      <3>2. records[k] = "active" => ActiveIn(stored) # {}
        BY <1>a DEF ActiveIn
      <3>3. QED
        BY <1>a, <3>1, <3>2
    <2>3. QED
      BY <2>1, <2>2
  <1>1. CASE LoadKeys
    BY <1>1 DEF LoadKeys
  <1>2. CASE PrepareSupplied
    BY <1>2, <1>a DEF PrepareSupplied
  <1>3. CASE PrepareManaged
    BY <1>3 DEF PrepareManaged
  <1>4. CASE CreateSecretFile
    BY <1>4 DEF CreateSecretFile
  <1>5. CASE WriteSecretFile
    BY <1>5 DEF WriteSecretFile
  <1>6. CASE SecretFileEmpty
    BY <1>6 DEF SecretFileEmpty
  <1>7. CASE PrepareBootstrap
    BY <1>7, <1>a DEF PrepareBootstrap
  <1>8. CASE CreateKey
    BY <1>8, <1>a DEF CreateKey
  <1>9. CASE RevokeKey
    <2>1. PICK k \in Secrets : /\ records[k] = "active" /\ Cardinality(ActiveIn(records)) > 1
                               /\ Mutate([records EXCEPT ![k] = "revoked"], "up")
      BY <1>9 DEF RevokeKey
    <2>2. records' = [records EXCEPT ![k] = "revoked"] /\ before' = records /\ kpc' = "writing"
          /\ failed' = "up" /\ UNCHANGED <<stored, keyFile, kfaults>> /\ records = stored
          /\ ActiveIn(stored) # {}
      BY <1>9, <2>1 DEF RevokeKey, Mutate
    <2>3. Changes(before', records') /\ ActiveIn(records') # {}
      BY <2>1, <2>2, RevokingLeavesOne DEF Changes
    <2>4. records' \in [Secrets -> {"unknown", "active", "revoked"}]
      BY <2>2
    <2>5. QED
      BY <2>2, <2>3, <2>4
  <1>10. CASE RelabelKey
    BY <1>10 DEF RelabelKey, Mutate, Changes
  <1>11. CASE WriteKeys
    BY <1>11 DEF WriteKeys
  <1>12. CASE WriteKeysFails
    BY <1>12 DEF WriteKeysFails
  <1>13. CASE KillNode
    BY <1>13 DEF KillNode, Unknown
  <1>14. CASE StopNode
    BY <1>14 DEF StopNode, Unknown
  <1>15. CASE UNCHANGED keyVars
    BY <1>15 DEF keyVars
  <1>16. QED
    BY <1>1, <1>2, <1>3, <1>4, <1>5, <1>6, <1>7, <1>8, <1>9, <1>10, <1>11, <1>12,
       <1>13, <1>14, <1>15 DEF KeysNext

LEMMA KeysAlways == KeysSpec => []KeysInv
  <1>1. KeysInit => KeysInv
    BY SecretsAssumption DEF KeysInit, KeysInv, KeysTypeOK, Unknown
  <1>2. QED
    BY <1>1, KeysStay, PTL DEF KeysSpec

\* A key that verify() accepts is one the file says is active, and after a failed
\* write or a restart the answer for each key is the same (node/keys.py's rollback).
THEOREM KeysAreDurable == KeysSpec => []VerifyIsDurable
  <1>1. KeysInv => VerifyIsDurable
    BY DEF KeysInv, VerifyIsDurable
  <1>2. QED
    BY <1>1, KeysAlways, PTL

\* The store, with its failed writes, kills and restarts, implements the registry:
\* no key is lost, none comes back once revoked, and the last active one stays.
THEOREM StoreIsRegistry == KeysSpec => KeysImplementRegistry
  <1>1. KeysInit => Registry!RegInit
    BY DEF KeysInit, Unknown, Registry!RegInit
  <1>2. ASSUME KeysInv, [KeysNext]_keyVars PROVE [Registry!RegNext]_stored
    <2>1. CASE WriteKeys
      <3>1. stored' = records /\ Changes(stored, records)
        BY <1>2, <2>1 DEF WriteKeys, KeysInv
      <3>2. ActiveIn(stored) = Registry!Active
        BY DEF ActiveIn, Registry!Active
      <3>3. QED
        <4>1. CASE stored' = stored
          BY <4>1
        <4>2. ASSUME NEW k \in Secrets, stored[k] = "unknown",
                     stored' = [stored EXCEPT ![k] = "active"]
              PROVE  Registry!RegNext
          BY <4>2 DEF Registry!RegNext, Registry!RegAdd
        <4>3. ASSUME NEW k \in Secrets, stored[k] = "active", Cardinality(ActiveIn(stored)) > 1,
                     stored' = [stored EXCEPT ![k] = "revoked"]
              PROVE  Registry!RegNext
          <5>1. ActiveIn(stored) \ {k} # {}
            BY <1>2, <4>3, RevokingLeavesOne DEF KeysInv, KeysTypeOK
          <5>2. QED
            BY <3>2, <4>3, <5>1 DEF Registry!RegNext, Registry!RegRevoke
        <4>4. QED
          BY <3>1, <4>1, <4>2, <4>3 DEF Changes
    <2>2. CASE UNCHANGED keyVars
      BY <2>2 DEF keyVars
    <2>3. CASE KeysNext /\ ~WriteKeys
      <3>1. UNCHANGED stored
        BY <2>3 DEF KeysNext, LoadKeys, PrepareSupplied, PrepareManaged, CreateSecretFile,
                    WriteSecretFile, SecretFileEmpty, PrepareBootstrap, CreateKey, RevokeKey,
                    RelabelKey, WriteKeysFails, KillNode, StopNode, EnsureKey, Mutate
      <3>2. QED
        BY <3>1
    <2>4. QED
      BY <1>2, <2>1, <2>2, <2>3
  <1>3. QED
    BY <1>1, <1>2, KeysAlways, PTL DEF KeysSpec, KeysImplementRegistry, Registry!RegSpec

-----------------------------------------------------------------------------
(* The automatic order of models.  Ahead orders the positions of a ladder  *)
(* strictly and totally, so the position of a model in the rendered order  *)
(* is one more than the number of models ahead of it, every position is    *)
(* taken, and the first eligible model of the order is ahead of every      *)
(* other eligible one: it is in the highest rung that has any, and there   *)
(* the primary if that is eligible, else the first of the rung.            *)

\* A set of numbers has a smallest member.
LEMMA Least ==
  ASSUME NEW T, T \subseteq Nat, T # {}
  PROVE  FirstOf(T) \in T /\ \A y \in T : FirstOf(T) <= y
<1>1. PICK x \in T : \A y \in T : <<y, x>> \notin OpToRel(<, Nat)
  BY WFMin, NatLessThanWellFounded, Zenon
<1>2. \A y \in T : ~(y < x)
  BY <1>1, Zenon DEF OpToRel
<1>3. \A y \in T : x <= y
  BY <1>2
<1> QED BY <1>3, Zenon DEF FirstOf

\* It is the only one.
LEMMA LeastIs ==
  ASSUME NEW T, T \subseteq Nat, NEW x \in T, \A y \in T : x <= y
  PROVE  FirstOf(T) = x
<1>1. FirstOf(T) \in T /\ \A y \in T : FirstOf(T) <= y
  BY Least
<1>2. FirstOf(T) <= x /\ x <= FirstOf(T) /\ FirstOf(T) \in Nat /\ x \in Nat
  BY <1>1
<1> DEFINE y == FirstOf(T)
<1> HIDE DEF y
<1>3. y <= x /\ x <= y /\ y \in Nat /\ x \in Nat
  BY <1>2 DEF y
<1>4. y = x
  BY <1>3
<1> QED BY <1>4 DEF y

IsLadder(l) == l \in Seq([digest : STRING, order : Nat, role : STRING])

LEMMA LadderFacts ==
  ASSUME NEW l, IsLadder(l)
  PROVE  Len(l) \in Nat /\ \A i \in 1..Len(l) : l[i].order \in Nat
<1>1. Len(l) \in Nat
  BY LenProperties DEF IsLadder
<1>2. ASSUME NEW i \in 1..Len(l) PROVE l[i] \in [digest : STRING, order : Nat, role : STRING]
  BY ElementOfSeq DEF IsLadder
<1> QED BY <1>1, <1>2

\* The positions ahead of one.
AheadOf(l, i) == {j \in 1..Len(l) : Ahead(l, j, i)}

LEMMA AheadOrders ==
  ASSUME NEW l, IsLadder(l), NEW i \in 1..Len(l), NEW j \in 1..Len(l), NEW k \in 1..Len(l)
  PROVE  /\ ~Ahead(l, i, i)
         /\ Ahead(l, i, j) /\ Ahead(l, j, k) => Ahead(l, i, k)
         /\ i # j => Ahead(l, i, j) \/ Ahead(l, j, i)
<1>1. Len(l) \in Nat /\ l[i].order \in Nat /\ l[j].order \in Nat /\ l[k].order \in Nat
  BY LadderFacts
<1> QED BY <1>1 DEF Ahead

LEMMA RankFacts ==
  ASSUME NEW l, IsLadder(l), NEW i \in 1..Len(l)
  PROVE  /\ Len(l) \in Nat /\ IsFiniteSet(AheadOf(l, i))
         /\ Cardinality(AheadOf(l, i)) \in 0..(Len(l) - 1)
<1>1. Len(l) \in Nat /\ IsFiniteSet(1..Len(l)) /\ Cardinality(1..Len(l)) = Len(l)
  <2> DEFINE n == Len(l)
  <2>1. n \in Nat
    BY LadderFacts
  <2> HIDE DEF n
  <2>2. IsFiniteSet(1..n) /\ Cardinality(1..n) = IF 1 > n THEN 0 ELSE n - 1 + 1
    BY <2>1, FS_Interval
  <2>3. Cardinality(1..n) = n
    BY <2>1, <2>2
  <2> QED BY <2>1, <2>2, <2>3 DEF n
<1>2. AheadOf(l, i) \subseteq (1..Len(l)) \ {i}
  BY AheadOrders DEF AheadOf
<1>3. IsFiniteSet((1..Len(l)) \ {i}) /\ Cardinality((1..Len(l)) \ {i}) = Len(l) - 1
  BY <1>1, FS_RemoveElement
<1>4. IsFiniteSet(AheadOf(l, i)) /\ Cardinality(AheadOf(l, i)) <= Len(l) - 1
  BY <1>2, <1>3, FS_Subset
<1>5. Cardinality(AheadOf(l, i)) \in Nat
  BY <1>4, FS_CardinalityType
<1> QED BY <1>1, <1>4, <1>5

LEMMA RankGrows ==
  ASSUME NEW l, IsLadder(l), NEW i \in 1..Len(l), NEW j \in 1..Len(l), Ahead(l, i, j)
  PROVE  Cardinality(AheadOf(l, i)) < Cardinality(AheadOf(l, j))
<1>1. AheadOf(l, i) \subseteq AheadOf(l, j) \ {i} /\ i \in AheadOf(l, j)
  BY AheadOrders DEF AheadOf
<1>2. IsFiniteSet(AheadOf(l, j)) /\ IsFiniteSet(AheadOf(l, i))
      /\ Cardinality(AheadOf(l, i)) \in Nat /\ Cardinality(AheadOf(l, j)) \in Nat
  BY RankFacts
<1>3. IsFiniteSet(AheadOf(l, j) \ {i}) /\ Cardinality(AheadOf(l, j) \ {i}) = Cardinality(AheadOf(l, j)) - 1
  BY <1>1, <1>2, FS_RemoveElement
<1>4. Cardinality(AheadOf(l, i)) <= Cardinality(AheadOf(l, j) \ {i})
  BY <1>1, <1>3, FS_Subset
<1> QED BY <1>2, <1>3, <1>4

\* Every position of the order holds the one model that has its rank.
LEMMA PriorityIsSorted ==
  ASSUME NEW l, IsLadder(l)
  PROVE  \E at \in [1..Len(l) -> 1..Len(l)] :
           /\ \A p \in 1..Len(l) : Cardinality(AheadOf(l, at[p])) = p - 1 /\ Priority(l)[p] = l[at[p]].digest
           /\ \A i \in 1..Len(l) : \E p \in 1..Len(l) : at[p] = i
           /\ DOMAIN Priority(l) = 1..Len(l)
<1> DEFINE S == 1..Len(l)  rank == [i \in S |-> Cardinality(AheadOf(l, i)) + 1]
<1>1. Len(l) \in Nat /\ IsFiniteSet(S)
  <2>1. Len(l) \in Nat
    BY LadderFacts
  <2> QED BY <2>1, FS_Interval
<1>2. ASSUME NEW i \in S PROVE rank[i] \in S
  BY <1>1, RankFacts
<1>3. ASSUME NEW i \in S, NEW j \in S, rank[i] = rank[j] PROVE i = j
  <2>1. Cardinality(AheadOf(l, i)) = Cardinality(AheadOf(l, j)) /\ Cardinality(AheadOf(l, i)) \in Nat
    BY <1>3, RankFacts
  <2>2. ~Ahead(l, i, j) /\ ~Ahead(l, j, i)
    BY <2>1, RankGrows
  <2> QED BY <2>2, AheadOrders
<1>4. rank \in Injection(S, S)
  BY <1>2, <1>3 DEF Injection, IsInjective
<1>5. rank \in Surjection(S, S)
  BY <1>1, <1>4, FS_Injection
<1>6. \A p \in S : \E i \in S : rank[i] = p
  BY <1>5 DEF Surjection
<1> DEFINE holder(p) == CHOOSE i \in S : Cardinality({j \in S : Ahead(l, j, i)}) = p - 1
           at == [p \in S |-> holder(p)]
<1>7. ASSUME NEW p \in S PROVE holder(p) \in S /\ Cardinality(AheadOf(l, holder(p))) = p - 1
  <2>1. PICK i \in S : rank[i] = p
    BY <1>6
  <2>2. Cardinality(AheadOf(l, i)) = p - 1
    <3> DEFINE c == Cardinality(AheadOf(l, i))
    <3>1. c + 1 = p
      BY <2>1
    <3>2. c \in Nat
      BY RankFacts
    <3> HIDE DEF c
    <3>3. c = p - 1
      BY <3>1, <3>2
    <3> QED BY <3>3 DEF c
  <2>3. Cardinality({j \in S : Ahead(l, j, i)}) = p - 1
    BY <2>2 DEF AheadOf
  <2>4. /\ (CHOOSE k \in S : Cardinality({j \in S : Ahead(l, j, k)}) = p - 1) \in S
        /\ Cardinality({q \in S : Ahead(l, q, CHOOSE k \in S : Cardinality({j \in S : Ahead(l, j, k)}) = p - 1)}) = p - 1
    <3> HIDE DEF S
    <3> QED BY <2>3, Zenon
  <2> QED BY <2>4 DEF AheadOf
<1>8. Priority(l) = [p \in S |-> l[at[p]].digest]
  BY DEF Priority
<1> HIDE DEF holder
<1>9. at \in [S -> S] /\ \A p \in S : Cardinality(AheadOf(l, at[p])) = p - 1
  BY <1>7
<1> HIDE DEF at
<1>10. ASSUME NEW i \in S PROVE \E p \in S : at[p] = i
  <2>1. rank[i] \in S /\ at[rank[i]] \in S
    BY <1>2, <1>9
  <2>2. Cardinality(AheadOf(l, at[rank[i]])) = rank[i] - 1
    BY <1>9, <2>1
  <2>3. rank[at[rank[i]]] = rank[i]
    BY <2>1, <2>2
  <2> QED BY <1>3, <2>1, <2>3
<1> QED BY <1>8, <1>9, <1>10

\* The rendered order picks what select_highest_eligible_model() picks.
LEMMA OrderPicksHighest ==
  ASSUME NEW l, IsLadder(l), NEW e
  PROVE  LET priority == Priority(l)  found == {p \in DOMAIN priority : priority[p] \in e}
         IN SelectHighest(l, e) = IF found = {} THEN "none" ELSE priority[FirstOf(found)]
<1> DEFINE S == 1..Len(l)  order == {p \in S : Priority(l)[p] \in e}
           found == {i \in S : l[i].digest \in e}
           rung == {i \in found : \A j \in found : l[j].order <= l[i].order}
           primary == {i \in rung : l[i].role = "primary"}
<1>0. Len(l) \in Nat /\ \A i \in S : l[i].order \in Nat
  BY LadderFacts
<1>1. PICK at \in [S -> S] :
           /\ \A p \in S : Cardinality(AheadOf(l, at[p])) = p - 1 /\ Priority(l)[p] = l[at[p]].digest
           /\ \A i \in S : \E p \in S : at[p] = i
           /\ DOMAIN Priority(l) = S
  BY PriorityIsSorted
<1>2. SelectHighest(l, e) = IF found = {} THEN "none" ELSE l[FirstOf(IF primary # {} THEN primary ELSE rung)].digest
  BY DEF SelectHighest
<1>a. \A p \in S : p \in order <=> at[p] \in found
  BY <1>1
<1>3. order = {} <=> found = {}
  <2>1. order \subseteq S /\ found \subseteq S
    OBVIOUS
  <2> HIDE DEF order, found
  <2> QED BY <1>1, <1>a, <2>1
<1>4. CASE found = {}
  BY <1>1, <1>2, <1>3, <1>4
<1>5. CASE found # {}
  <2>1. FirstOf(order) \in order /\ \A p \in order : FirstOf(order) <= p
    <3>1. order \subseteq Nat
      OBVIOUS
    <3> HIDE DEF order
    <3> QED BY <1>3, <1>5, <3>1, Least
  <2>2. PICK m \in S : m = at[FirstOf(order)]
    BY <1>1, <2>1
  <2>3. m \in found /\ Priority(l)[FirstOf(order)] = l[m].digest
    BY <1>1, <2>1, <2>2
  <2>4. ASSUME NEW i \in found, i # m PROVE Ahead(l, m, i)
    <3>1. PICK p \in S : at[p] = i
      BY <1>1
    <3>a. p \in order
      <4>1. Priority(l)[p] = l[i].digest
        BY <1>1, <3>1
      <4> QED BY <2>4, <4>1
    <3>2. FirstOf(order) <= p /\ FirstOf(order) \in S
      BY <2>1, <3>a
    <3>3. Cardinality(AheadOf(l, m)) = FirstOf(order) - 1 /\ Cardinality(AheadOf(l, i)) = p - 1
      BY <1>1, <2>1, <2>2, <3>1
    <3>4. ~(Cardinality(AheadOf(l, i)) < Cardinality(AheadOf(l, m)))
      BY <3>2, <3>3
    <3>5. ~Ahead(l, i, m)
      BY <3>4, RankGrows
    <3> QED BY <2>4, <3>5, AheadOrders
  <2>5. m \in rung
    BY <1>0, <2>3, <2>4 DEF Ahead
  <2>6. ASSUME NEW i \in rung, i # m
        PROVE  /\ l[i].order = l[m].order
               /\ l[i].role = "primary" => l[m].role = "primary"
               /\ (l[i].role = "primary") = (l[m].role = "primary") => m < i
    <3>1. l[i].order <= l[m].order /\ l[m].order <= l[i].order
      BY <2>5, <2>6
    <3>2. l[i].order = l[m].order
      BY <1>0, <3>1
    <3>3. ~(l[m].order > l[i].order)
      BY <1>0, <3>2
    <3>4. Ahead(l, m, i)
      BY <2>4, <2>6
    <3> QED BY <3>2, <3>3, <3>4, Zenon DEF Ahead
  <2>7. CASE l[m].role = "primary"
    <3>1. m \in primary /\ primary \subseteq Nat
      BY <2>5, <2>7
    <3>2. \A i \in primary : m <= i
      BY <2>6, <2>7
    <3>3. FirstOf(primary) = m
      <4> HIDE DEF primary
      <4> QED BY <3>1, <3>2, LeastIs
    <3> QED BY <1>1, <1>2, <1>3, <1>5, <2>3, <3>1, <3>3
  <2>8. CASE l[m].role # "primary"
    <3>1. primary = {}
      BY <2>6, <2>8
    <3>2. \A i \in rung : m <= i
      BY <2>6, <2>8, <3>1
    <3>3. FirstOf(rung) = m
      <4>1. rung \subseteq Nat
        OBVIOUS
      <4> HIDE DEF rung
      <4> QED BY <2>5, <3>2, <4>1, LeastIs
    <3> QED BY <1>1, <1>2, <1>3, <1>5, <2>3, <3>1, <3>3
  <2> QED BY <2>7, <2>8
<1> QED BY <1>4, <1>5

-----------------------------------------------------------------------------
(* The proof of NeverDowngraded.  One installer is under way, and its copy *)
(* of the rollback state is the file until it saves the file itself, which *)
(* it does before the config is written.                                   *)

InstallTypes ==
  /\ ipc \in [Installers -> {"idle", "fetch", "manifests", "save_cached", "save_guard", "activate"}]
  /\ inst \in [Installers -> Catalogs \cup {NoCatalog}] /\ guard \in [Installers -> Catalogs \cup {NoCatalog}]
  /\ {cached, rollback, nodeConfig, top} \subseteq Catalogs \cup {NoCatalog}

OneInstaller ==
  \A i \in Installers : ipc[i] # "idle" => lockFile /\ \A j \in Installers \ {i} : ipc[j] = "idle"

\* What an installer has in hand was verified against the state that is on disk.
InHand(i) ==
  /\ ipc[i] \notin {"idle", "activate"} => guard[i] = rollback
  /\ ipc[i] \in {"manifests", "save_cached", "save_guard"} => GuardAdmits(rollback, inst[i])
  /\ ipc[i] \in {"save_cached", "save_guard", "activate"} => Digests(inst[i]) \subseteq manifests
  /\ ipc[i] = "activate" => rollback = inst[i]

InstallInv ==
  /\ InstallTypes /\ OneInstaller /\ \A i \in Installers : InHand(i)
  /\ GuardAdmits(top, rollback) /\ ~downgraded
  /\ Digests(nodeConfig) \subseteq manifests

\* A catalog that the guard admits is at least as new: the order is transitive.
LEMMA AdmitsTransitive ==
  ASSUME NEW a \in Catalogs \cup {NoCatalog}, NEW b \in Catalogs \cup {NoCatalog},
         NEW c \in Catalogs \cup {NoCatalog}, GuardAdmits(a, b), GuardAdmits(b, c)
  PROVE  GuardAdmits(a, c)
  <1>1. NoCatalog.seq \in Int
    BY DEF NoCatalog
  <1>2. ASSUME NEW x \in Catalogs PROVE x.seq \in Int
    <2>1. CASE x \in [seq : 1..MaxSeq, ladder : Ladders, sigs : {TrustedKeys, {}}, fresh : {TRUE}]
      BY <2>1, CatalogAssumption
    <2>2. CASE x \in [seq : {1}, ladder : Ladders, sigs : {TrustedKeys}, fresh : {FALSE}]
      BY <2>2
    <2>3. QED
      BY <2>1, <2>2 DEF Catalogs
  <1>3. QED
    BY <1>1, <1>2 DEF GuardAdmits

LEMMA InstallKept == InstallInv /\ [InstallNext]_installVars => InstallInv'
  <1> SUFFICES ASSUME InstallInv, [InstallNext]_installVars PROVE InstallInv'
    OBVIOUS
  <1> USE DEF InstallInv, InstallTypes, OneInstaller, InHand, files, ghosts
  <1>1. ASSUME NEW i \in Installers, BeginInstall(i) PROVE InstallInv'
    BY <1>1 DEF BeginInstall
  <1>2. ASSUME NEW i \in Installers, FetchCatalog(i) PROVE InstallInv'
    BY <1>2 DEF FetchCatalog, Rejected, VerifyCatalog
  <1>3. ASSUME NEW i \in Installers, FetchCached(i) PROVE InstallInv'
    BY <1>3 DEF FetchCached, VerifyCatalog
  <1>4. ASSUME NEW i \in Installers, GiveUp(i) PROVE InstallInv'
    BY <1>4 DEF GiveUp, Unlock
  <1>5. ASSUME NEW i \in Installers, InstallManifests(i) PROVE InstallInv'
    BY <1>5 DEF InstallManifests, Rejected
  <1>6. ASSUME NEW i \in Installers, SaveCached(i) PROVE InstallInv'
    BY <1>6 DEF SaveCached
  <1>7. ASSUME NEW i \in Installers, SaveGuard(i) PROVE InstallInv'
    <2>1. GuardAdmits(top, inst[i])
      BY <1>7, AdmitsTransitive DEF SaveGuard
    <2>2. QED
      BY <1>7, <2>1 DEF SaveGuard
  <1>8. ASSUME NEW i \in Installers, Activate(i) PROVE InstallInv'
    <2>1. GuardAdmits(inst[i], inst[i]) /\ GuardAdmits(top, inst[i])
      BY <1>8 DEF Activate, GuardAdmits
    <2>2. CASE ~configBusy /\ nodeConfig = NoCatalog
      <3>1. ~downgraded'
        BY <1>8, <2>1, <2>2 DEF Activate
      <3>2. /\ nodeConfig' = inst[i] /\ top' = inst[i] /\ rollback' = inst[i] /\ manifests' = manifests
            /\ lockFile' = FALSE /\ ipc' = [ipc EXCEPT ![i] = "idle"] /\ inst' = [inst EXCEPT ![i] = NoCatalog]
            /\ UNCHANGED <<guard, cached>>
        BY <1>8, <2>2 DEF Activate, Unlock
      <3>3. InstallTypes'
        BY <3>2
      <3>4. OneInstaller' /\ \A j \in Installers : InHand(j)'
        BY <1>8, <3>2 DEF Activate
      <3>5. GuardAdmits(top, rollback)' /\ (Digests(nodeConfig) \subseteq manifests)'
        BY <1>8, <2>1, <3>2 DEF Activate, GuardAdmits, Digests
      <3>6. QED
        BY <3>1, <3>3, <3>4, <3>5
    <2>3. CASE ~(~configBusy /\ nodeConfig = NoCatalog)
      BY <1>8, <2>3 DEF Activate, Rejected
    <2>4. QED
      BY <2>2, <2>3
  <1>9. ASSUME NEW i \in Installers, InstallWriteFails(i) PROVE InstallInv'
    BY <1>9 DEF InstallWriteFails, Rejected, Unlock
  <1>10. ASSUME NEW i \in Installers, KillInstaller(i) PROVE InstallInv'
    BY <1>10 DEF KillInstaller
  <1>11. CASE ClearLock
    BY <1>11 DEF ClearLock
  <1>12. CASE DeleteConfig
    BY <1>12 DEF DeleteConfig, NoCatalog, Digests
  <1>13. CASE OtherWriter
    BY <1>13 DEF OtherWriter
  <1>14. CASE UNCHANGED installVars
    BY <1>14 DEF installVars
  <1>15. QED
    BY <1>1, <1>2, <1>3, <1>4, <1>5, <1>6, <1>7, <1>8, <1>9, <1>10, <1>11, <1>12, <1>13, <1>14
       DEF InstallNext

LEMMA InstallInvAlways == InstallSpec => []InstallInv
  <1>1. CatalogInit => InstallInv
    BY DEF CatalogInit, InstallInv, InstallTypes, OneInstaller, InHand, GuardAdmits, Digests, NoCatalog
  <1>2. QED
    BY <1>1, InstallKept, PTL DEF InstallSpec

\* However installs are killed, fail, race and are repeated over deleted configs, no
\* catalog older than, or contradicting, one that was activated is activated.
THEOREM NoDowngrade == InstallSpec => []NeverDowngraded
  <1>1. InstallInv => NeverDowngraded
    BY DEF InstallInv, NeverDowngraded
  <1>2. QED
    BY <1>1, InstallInvAlways, PTL

\* The mirrors an installer has tried.
LEMMA MirrorsKept ==
  ASSUME mirror \in [Installers -> 0..(MaxMirrors + 1)], [InstallNext]_installVars
  PROVE  mirror' \in [Installers -> 0..(MaxMirrors + 1)]
  <1>0. MaxMirrors \in Nat
    BY CatalogAssumption
  <1>1. ASSUME NEW i \in Installers, BeginInstall(i) \/ FetchCatalog(i) \/ FetchCached(i)
        PROVE  mirror' \in [Installers -> 0..(MaxMirrors + 1)]
    <2>1. PICK n : mirror' = [mirror EXCEPT ![i] = n] /\ n \in 0..(MaxMirrors + 1)
      <3>1. CASE BeginInstall(i)
        <4>1. 0 \in 0..(MaxMirrors + 1)
          BY <1>0
        <4>2. mirror' = [mirror EXCEPT ![i] = 0]
          BY <3>1 DEF BeginInstall
        <4>3. QED
          BY <4>1, <4>2, Zenon
      <3>2. CASE FetchCatalog(i)
        <4>1. mirror[i] + 1 \in 0..(MaxMirrors + 1)
          BY <1>0, <3>2 DEF FetchCatalog
        <4>2. QED
          BY <3>2, <4>1 DEF FetchCatalog
      <3>3. CASE FetchCached(i)
        <4>1. MaxMirrors + 1 \in 0..(MaxMirrors + 1)
          BY <1>0
        <4>2. mirror' = [mirror EXCEPT ![i] = MaxMirrors + 1]
          BY <3>3 DEF FetchCached
        <4>3. QED
          BY <4>1, <4>2, Zenon
      <3>4. QED
        BY <1>1, <3>1, <3>2, <3>3
    <2>2. QED
      BY <2>1
  <1>2. ASSUME NEW i \in Installers,
               GiveUp(i) \/ InstallManifests(i) \/ SaveCached(i) \/ SaveGuard(i) \/ Activate(i)
               \/ InstallWriteFails(i) \/ KillInstaller(i)
        PROVE  UNCHANGED mirror
    BY <1>2 DEF GiveUp, InstallManifests, SaveCached, SaveGuard, Activate, InstallWriteFails, KillInstaller
  <1>3. CASE ClearLock \/ DeleteConfig \/ OtherWriter \/ UNCHANGED installVars
    BY <1>3 DEF ClearLock, DeleteConfig, OtherWriter, installVars
  <1>4. QED
    BY <1>1, <1>2, <1>3 DEF InstallNext

\* What an installation keeps has its type.
LEMMA InstallTypesAlways == InstallSpec => []InstallTypeOK
  <1> DEFINE Tried == mirror \in [Installers -> 0..(MaxMirrors + 1)]
  <1>1. CatalogInit => Tried
    BY CatalogAssumption DEF CatalogInit
  <1>2. Tried /\ [InstallNext]_installVars => Tried'
    BY MirrorsKept
  <1>3. InstallInv /\ Tried => InstallTypeOK
    BY DEF InstallInv, InstallTypes, InstallTypeOK
  <1> HIDE DEF Tried
  <1>4. QED
    BY <1>1, <1>2, <1>3, InstallInvAlways, PTL DEF InstallSpec

\* ConfigUsable: whatever install was cut short, a config names only manifests that are
\* installed, and its automatic order picks the model that model_catalog.py would pick.
THEOREM ConfigComplete == InstallSpec => []ConfigUsable
  <1>1. ASSUME InstallInv PROVE ConfigUsable
    <2>1. SUFFICES ASSUME nodeConfig # NoCatalog, NEW e \in SUBSET Digests(nodeConfig)
          PROVE  LET priority == Priority(nodeConfig.ladder)
                     found == {p \in DOMAIN priority : priority[p] \in e}
                 IN SelectHighest(nodeConfig.ladder, e) = IF found = {} THEN "none" ELSE priority[FirstOf(found)]
      BY <1>1 DEF InstallInv, ConfigUsable
    <2>2. nodeConfig \in Catalogs
      BY <1>1, <2>1 DEF InstallInv, InstallTypes
    <2>3. nodeConfig.ladder \in Ladders
      BY <2>2 DEF Catalogs
    <2>4. IsLadder(nodeConfig.ladder)
      BY <2>3, CatalogAssumption DEF IsLadder
    <2>5. QED
      BY <2>4, OrderPicksHighest
  <1>2. QED
    BY <1>1, InstallInvAlways, PTL

-----------------------------------------------------------------------------
(* The proof of PublishedLoads.  A bundle that was put aside is put back   *)
(* or replaced by one that loads.                                          *)

BundleInv ==
  /\ target # NoBundle => Loads(target)
  /\ backup # NoBundle => Loads(backup)
  /\ backup # NoBundle => bpc = "swap" /\ target = NoBundle
  /\ bpc = "swap" => Loads(staging)
  /\ published => \E b \in {target, backup} \cup litter : Loads(b)

\* A published bundle loads and stays, through failed renames and killed writers.
THEOREM BundleIsKept == BundleSpec => []PublishedLoads
  <1>1. BundleInit => BundleInv
    BY DEF BundleInit, BundleInv
  <1>2. BundleInv /\ [BundleNext]_bundleVars => BundleInv'
    <2> SUFFICES ASSUME BundleInv, [BundleNext]_bundleVars PROVE BundleInv'
      OBVIOUS
    <2> USE DEF BundleInv
    <2>a. ~Loads(NoBundle)
      BY DEF Loads
    <2> HIDE DEF Loads
    <2>1. CASE BeginBundle
      BY <2>1, <2>a DEF BeginBundle
    <2>2. CASE StageMember
      BY <2>2, <2>a DEF StageMember
    <2>3. CASE CheckStaged
      BY <2>3, <2>a DEF CheckStaged
    <2>4. CASE SetAside
      BY <2>4, <2>a DEF SetAside
    <2>5. CASE PutInPlace
      BY <2>5, <2>a DEF PutInPlace
    <2>6. CASE BundleIoFails
      BY <2>6, <2>a DEF BundleIoFails
    <2>7. CASE KillWriter
      BY <2>7, <2>a DEF KillWriter
    <2>8. CASE UNCHANGED bundleVars
      BY <2>8, <2>a DEF bundleVars
    <2>9. QED
      BY <2>1, <2>2, <2>3, <2>4, <2>5, <2>6, <2>7, <2>8 DEF BundleNext
  <1>3. BundleInv => PublishedLoads
    BY DEF BundleInv, PublishedLoads
  <1>4. QED
    BY <1>1, <1>2, <1>3, PTL DEF BundleSpec

\* The bundles of a publication hold members of a bundle and nothing else.
LEMMA BundleTypesAlways == BundleSpec => []BundleTypeOK
  <1> USE DEF BundleTypeOK, NoBundle, Bundle
  <1>1. BundleInit => BundleTypeOK
    BY DEF BundleInit
  <1>2. BundleTypeOK /\ [BundleNext]_bundleVars => BundleTypeOK'
    <2> SUFFICES ASSUME BundleTypeOK, [BundleNext]_bundleVars PROVE BundleTypeOK'
      OBVIOUS
    <2>1. CASE BeginBundle
      BY <2>1 DEF BeginBundle
    <2>2. CASE StageMember
      <3>1. PICK m \in Members : staging' = [staging EXCEPT !.members = @ \cup {m}]
        BY <2>2 DEF StageMember
      <3>2. \A x : x \in staging'.members => x \in Members
        <4>1. staging.members \subseteq Members
          OBVIOUS
        <4>2. staging'.members \subseteq staging.members \cup {m}
          BY <3>1
        <4>3. QED
          BY <4>1, <4>2
      <3>3. UNCHANGED <<bpc, rel, target, backup, litter>>
        BY <2>2 DEF StageMember
      <3>4. QED
        BY <3>2, <3>3
    <2>3. CASE CheckStaged
      BY <2>3 DEF CheckStaged
    <2>4. CASE SetAside
      BY <2>4 DEF SetAside
    <2>5. CASE PutInPlace
      BY <2>5 DEF PutInPlace
    <2>6. CASE BundleIoFails
      BY <2>6 DEF BundleIoFails
    <2>7. CASE KillWriter
      BY <2>7 DEF KillWriter
    <2>8. CASE UNCHANGED bundleVars
      BY <2>8 DEF bundleVars
    <2>9. QED
      BY <2>1, <2>2, <2>3, <2>4, <2>5, <2>6, <2>7, <2>8 DEF BundleNext
  <1>3. QED
    BY <1>1, <1>2, PTL DEF BundleSpec

-----------------------------------------------------------------------------
(* The proofs of EditsSurvive and DiskIsEnforced.  The sidecar lock lets   *)
(* one store write at a time; only edits from outside come between its     *)
(* steps.  What an exchange displaced is what the store expected, or the   *)
(* last edit: the two cases Commit and Restore tell apart.                 *)

PolicyTypes == PolicyTypeOK /\ edits \in 0..MaxEdits

LockAlone == \A s \in Stores : ppc[s] \in {"locked", "written", "exchanged"} => wlock = s

\* A candidate changes the policy only; until the exchange the file is what the store
\* read or a later edit, and afterwards that is what was displaced.
CandidateFits(s) ==
  /\ ppc[s] # "idle" => cand[s] \in Docs /\ cand[s].rest = revision[s].rest
  /\ ppc[s] = "written" => tmp[s] = cand[s]
  /\ ppc[s] \in {"locked", "written"} => disk \in {revision[s], edit}
  /\ ppc[s] = "exchanged" => tmp[s] \in Docs
  /\ ppc[s] = "exchanged" /\ ~blind => disk = cand[s] /\ tmp[s] \in {revision[s], edit}

\* The document an update has left, or is about to put back.
HeldBy(doc) == doc = edit \/ (doc.rest = edit.rest /\ \E s \in Stores : revision[s].rest = edit.rest)

EditHeld ==
  edit # NoDoc /\ ~blind /\ (\A s \in Stores : <<s, "unread">> \notin torn) =>
    \/ edit \in kept
    \/ /\ ~Judging => HeldBy(disk)
       /\ \A s \in Stores : ppc[s] = "exchanged" => HeldBy(tmp[s])

PolicyInv ==
  /\ PolicyTypes /\ LockAlone /\ EditHeld /\ DiskIsEnforced
  /\ \A s \in Stores : CandidateFits(s)

\* An update returns: the lock is free if it held it, its files are gone.
LEMMA UpdateReturns ==
  ASSUME PolicyTypes, NEW s \in Stores, Refuse(s)
  PROVE  /\ ppc' \in [Stores -> Steps] /\ ppc'[s] = "idle"
         /\ cand' \in [Stores -> Docs \cup {NoDoc}] /\ tmp' \in [Stores -> Docs \cup {NoDoc}]
         /\ \A r \in Stores \ {s} : ppc'[r] = ppc[r] /\ cand'[r] = cand[r] /\ tmp'[r] = tmp[r]
         /\ wlock' \in Stores \cup {"free"} /\ (wlock # s => wlock' = wlock)
  BY DEF PolicyTypes, PolicyTypeOK, Refuse, Steps

\* Only the holder of the lock has exchanged.
LEMMA OneJudges ==
  ASSUME LockAlone, NEW s \in Stores, ppc[s] \in {"locked", "written", "exchanged"}
  PROVE  \A r \in Stores \ {s} : ppc[r] \notin {"locked", "written", "exchanged"}
  BY DEF LockAlone

\* An update that ends before its exchange leaves the file and what the stores know.
LEMMA RefusedEarly ==
  ASSUME PolicyInv, NEW s \in Stores, ppc[s] # "exchanged", Refuse(s),
         UNCHANGED <<disk, revision, enforced, paused, kept, torn, edits, edit, blind>>
  PROVE  PolicyInv'
  <1>1. PolicyTypes'
    BY UpdateReturns DEF PolicyInv, PolicyTypes, PolicyTypeOK
  <1>2. LockAlone'
    BY UpdateReturns DEF PolicyInv, LockAlone
  <1>3. Judging' = Judging
    BY UpdateReturns DEF PolicyInv, Judging
  <1>4. EditHeld'
    BY UpdateReturns, <1>3 DEF PolicyInv, EditHeld, HeldBy
  <1>5. DiskIsEnforced'
    BY <1>3 DEF PolicyInv, DiskIsEnforced
  <1>6. \A r \in Stores : CandidateFits(r)'
    BY UpdateReturns DEF PolicyInv, CandidateFits
  <1>7. QED
    BY <1>1, <1>2, <1>4, <1>5, <1>6 DEF PolicyInv

\* An update that ends after its exchange leaves nobody judging.
LEMMA RefusedLate ==
  ASSUME PolicyInv, NEW s \in Stores, ppc[s] = "exchanged", Refuse(s), disk' \in Docs,
         \A r \in Stores \ {s} : revision'[r] = revision[r]
  PROVE  /\ ~Judging' /\ LockAlone' /\ \A r \in Stores : CandidateFits(r)'
         /\ \A r \in Stores : ppc'[r] # "exchanged"
  <1>1. \A r \in Stores \ {s} : ppc[r] \in {"idle", "persist"}
    BY OneJudges DEF PolicyInv, PolicyTypes, PolicyTypeOK, Steps
  <1>2. \A r \in Stores \ {s} : ppc'[r] = ppc[r] /\ cand'[r] = cand[r] /\ tmp'[r] = tmp[r]
    BY UpdateReturns DEF PolicyInv
  <1>3. ppc'[s] = "idle"
    BY UpdateReturns DEF PolicyInv
  <1>4. QED
    BY <1>1, <1>2, <1>3 DEF PolicyInv, Judging, LockAlone, CandidateFits

\* What is known of the two documents of an exchange when no edit fell into it.
LEMMA Exchanged ==
  ASSUME PolicyInv, NEW s \in Stores, ppc[s] = "exchanged"
  PROVE  /\ tmp[s] \in Docs /\ cand[s] \in Docs /\ cand[s].rest = revision[s].rest
         /\ ~blind => disk = cand[s] /\ tmp[s] \in {revision[s], edit}
         /\ edit # NoDoc /\ ~blind /\ (\A r \in Stores : <<r, "unread">> \notin torn)
              => edit \in kept \/ HeldBy(tmp[s])
  BY DEF PolicyInv, CandidateFits, EditHeld

LEMMA CommitKept == ASSUME PolicyInv, NEW s \in Stores, Commit(s) PROVE PolicyInv'
  <1>1. /\ ppc[s] = "exchanged" /\ tmp[s] = revision[s] /\ Refuse(s)
        /\ revision' = [revision EXCEPT ![s] = cand[s]] /\ enforced' = [enforced EXCEPT ![s] = cand[s].policy]
        /\ UNCHANGED <<disk, paused, kept, torn, edits, edit, blind, iofaults>>
    BY DEF Commit, Displaced, outside
  <1>2. cand[s] \in Docs /\ cand[s].policy \in Policies
    BY <1>1, Exchanged DEF Docs
  <1>3. revision' \in [Stores -> Docs] /\ enforced' \in [Stores -> Policies]
    BY <1>1, <1>2 DEF PolicyInv, PolicyTypes, PolicyTypeOK
  <1>4. PolicyTypes'
    BY <1>1, <1>3, UpdateReturns DEF PolicyInv, PolicyTypes, PolicyTypeOK
  <1>5. ~Judging' /\ LockAlone' /\ (\A r \in Stores : CandidateFits(r)') /\ \A r \in Stores : ppc'[r] # "exchanged"
    BY <1>1, RefusedLate DEF PolicyInv, PolicyTypes, PolicyTypeOK
  <1>6. revision'[s] = cand[s] /\ \A r \in Stores \ {s} : revision'[r] = revision[r]
    BY <1>1 DEF PolicyInv, PolicyTypes, PolicyTypeOK
  <1>7. DiskIsEnforced'
    <2>1. \A r \in Stores : enforced'[r] = revision'[r].policy
      BY <1>1, <1>6 DEF PolicyInv, DiskIsEnforced, PolicyTypes, PolicyTypeOK
    <2>2. ~blind => disk' = revision'[s]
      BY <1>1, <1>6, Exchanged
    <2>3. QED
      BY <1>1, <2>1, <2>2 DEF DiskIsEnforced
  <1>8. EditHeld'
    <2> SUFFICES ASSUME edit # NoDoc, ~blind, \A r \in Stores : <<r, "unread">> \notin torn, edit \notin kept
                 PROVE  HeldBy(disk)'
      BY <1>1, <1>5 DEF EditHeld
    <2>1. disk = cand[s] /\ HeldBy(revision[s]) /\ cand[s].rest = revision[s].rest
      BY <1>1, Exchanged
    <2>2. disk.rest = edit.rest /\ revision'[s].rest = edit.rest
      BY <2>1, <1>6 DEF HeldBy
    <2>3. QED
      BY <1>1, <2>2 DEF HeldBy
  <1>9. QED
    BY <1>4, <1>5, <1>7, <1>8 DEF PolicyInv

LEMMA RestoreKept == ASSUME PolicyInv, NEW s \in Stores, Restore(s) PROVE PolicyInv'
  <1>1. /\ ppc[s] = "exchanged" /\ tmp[s] # revision[s] /\ Refuse(s) /\ disk' = tmp[s]
        /\ UNCHANGED <<revision, enforced, paused, kept, torn, edits, edit, blind, iofaults>>
    BY DEF Restore, Displaced, outside
  <1>2. tmp[s] \in Docs /\ ~Judging' /\ LockAlone' /\ (\A r \in Stores : CandidateFits(r)')
        /\ \A r \in Stores : ppc'[r] # "exchanged"
    BY <1>1, RefusedLate, Exchanged
  <1>3. PolicyTypes'
    BY <1>1, <1>2, UpdateReturns DEF PolicyInv, PolicyTypes, PolicyTypeOK
  <1>4. DiskIsEnforced'
    BY <1>1, Exchanged DEF PolicyInv, DiskIsEnforced
  <1>5. EditHeld'
    BY <1>1, <1>2, Exchanged DEF EditHeld, HeldBy
  <1>6. QED
    BY <1>2, <1>3, <1>4, <1>5 DEF PolicyInv

LEMMA RestoreFailsKept == ASSUME PolicyInv, NEW s \in Stores, RestoreFails(s) PROVE PolicyInv'
  <1>1. /\ ppc[s] = "exchanged" /\ tmp[s] # revision[s] /\ Refuse(s)
        /\ kept' = kept \cup {tmp[s]} /\ torn' = torn \cup {<<s, "unrestored">>}
        /\ UNCHANGED <<disk, revision, enforced, paused, edits, edit, blind>>
    BY DEF RestoreFails, Displaced
  <1>2. tmp[s] \in Docs /\ ~Judging' /\ LockAlone' /\ (\A r \in Stores : CandidateFits(r)')
        /\ \A r \in Stores : ppc'[r] # "exchanged"
    BY <1>1, RefusedLate, Exchanged DEF PolicyInv, PolicyTypes, PolicyTypeOK
  <1>3. PolicyTypes'
    BY <1>1, <1>2, UpdateReturns DEF PolicyInv, PolicyTypes, PolicyTypeOK
  <1>4. DiskIsEnforced'
    BY <1>1 DEF PolicyInv, DiskIsEnforced
  <1>5. EditHeld'
    <2>1. ~blind => tmp[s] = edit
      BY <1>1, Exchanged
    <2>2. QED
      BY <1>1, <2>1 DEF EditHeld
  <1>6. QED
    BY <1>2, <1>3, <1>4, <1>5 DEF PolicyInv

LEMMA IoFailsKept == ASSUME PolicyInv, NEW s \in Stores, IoFails(s) PROVE PolicyInv'
  <1>1. /\ ppc[s] \in {"locked", "written", "exchanged"} /\ Refuse(s)
        /\ torn' = IF ppc[s] = "exchanged" THEN torn \cup {<<s, "unread">>} ELSE torn
        /\ UNCHANGED <<disk, revision, enforced, paused, kept, edits, edit, blind>>
    BY DEF IoFails
  <1>2. CASE ppc[s] = "exchanged"
    <2>1. ~Judging' /\ LockAlone' /\ (\A r \in Stores : CandidateFits(r)') /\ <<s, "unread">> \in torn'
      BY <1>1, <1>2, RefusedLate DEF PolicyInv, PolicyTypes, PolicyTypeOK
    <2>2. PolicyTypes'
      BY <1>1, <1>2, UpdateReturns DEF PolicyInv, PolicyTypes, PolicyTypeOK
    <2>3. DiskIsEnforced'
      BY <1>1, <2>1 DEF PolicyInv, DiskIsEnforced
    <2>4. EditHeld'
      BY <2>1 DEF EditHeld
    <2>5. QED
      BY <2>1, <2>2, <2>3, <2>4 DEF PolicyInv
  <1>3. CASE ppc[s] # "exchanged"
    BY <1>1, <1>3, RefusedEarly
  <1>4. QED
    BY <1>2, <1>3

\* A store that dies accepts, once it is started again, what the file then says.
LEMMA CrashStoreKept == ASSUME PolicyInv, NEW s \in Stores, CrashStore(s) PROVE PolicyInv'
  <1>1. /\ Refuse(s) /\ kept' = IF ppc[s] = "exchanged" THEN kept \cup {tmp[s]} ELSE kept
        /\ revision' = [revision EXCEPT ![s] = disk] /\ enforced' = [enforced EXCEPT ![s] = disk.policy]
        /\ paused' = [paused EXCEPT ![s] = FALSE] /\ torn' = torn \ {<<s, "unrestored">>}
        /\ UNCHANGED <<disk, edits, edit, blind>>
    BY DEF CrashStore
  <1>2. disk \in Docs /\ disk.policy \in Policies
    BY DEF PolicyInv, PolicyTypes, PolicyTypeOK, Docs
  <1>3. /\ revision' \in [Stores -> Docs] /\ enforced' \in [Stores -> Policies] /\ paused' \in [Stores -> BOOLEAN]
        /\ revision'[s] = disk /\ \A r \in Stores \ {s} : revision'[r] = revision[r]
    BY <1>1, <1>2 DEF PolicyInv, PolicyTypes, PolicyTypeOK
  <1>4. kept' \subseteq Docs
    BY <1>1, Exchanged DEF PolicyInv, PolicyTypes, PolicyTypeOK
  <1>5. PolicyTypes'
    BY <1>1, <1>3, <1>4, UpdateReturns DEF PolicyInv, PolicyTypes, PolicyTypeOK
  <1>6. DiskIsEnforced'
    <2>1. \A r \in Stores : enforced'[r] = revision'[r].policy
      BY <1>1, <1>3 DEF PolicyInv, DiskIsEnforced, PolicyTypes, PolicyTypeOK
    <2>2. QED
      BY <1>1, <1>3, <2>1 DEF DiskIsEnforced
  <1>7. (\A r \in Stores : <<r, "unread">> \notin torn') => \A r \in Stores : <<r, "unread">> \notin torn
    BY <1>1
  <1>8. CASE ppc[s] = "exchanged"
    <2>1. ~Judging' /\ LockAlone' /\ (\A r \in Stores : CandidateFits(r)')
          /\ \A r \in Stores : ppc'[r] # "exchanged"
      BY <1>1, <1>2, <1>3, <1>8, RefusedLate
    <2>2. EditHeld'
      <3> SUFFICES ASSUME edit # NoDoc, ~blind, \A r \in Stores : <<r, "unread">> \notin torn, edit \notin kept'
                   PROVE  HeldBy(disk)'
        BY <1>1, <1>7, <2>1 DEF EditHeld
      <3>1. edit \notin kept /\ edit # tmp[s]
        BY <1>1, <1>8
      <3>2. HeldBy(tmp[s]) /\ tmp[s] = revision[s] /\ disk = cand[s] /\ cand[s].rest = revision[s].rest
        BY <1>8, <3>1, Exchanged
      <3>3. disk.rest = edit.rest
        BY <3>1, <3>2 DEF HeldBy
      <3>4. QED
        BY <1>1, <1>3, <3>3 DEF HeldBy
    <2>3. QED
      BY <1>5, <1>6, <2>1, <2>2 DEF PolicyInv
  <1>9. CASE ppc[s] # "exchanged"
    <2>1. /\ ppc'[s] = "idle" /\ Judging' = Judging
          /\ \A r \in Stores \ {s} : ppc'[r] = ppc[r] /\ cand'[r] = cand[r] /\ tmp'[r] = tmp[r]
      BY <1>1, <1>9, UpdateReturns DEF PolicyInv, Judging
    <2>2. LockAlone'
      BY <1>1, UpdateReturns DEF PolicyInv, LockAlone
    <2>3. \A r \in Stores : CandidateFits(r)'
      BY <1>1, <1>3, <2>1 DEF PolicyInv, CandidateFits
    <2>4. EditHeld'
      <3> SUFFICES ASSUME edit # NoDoc, ~blind, \A r \in Stores : <<r, "unread">> \notin torn, edit \notin kept
                   PROVE  /\ ~Judging => HeldBy(disk)'
                          /\ \A r \in Stores : ppc'[r] = "exchanged" => HeldBy(tmp[r])'
        BY <1>1, <1>7, <1>9, <2>1 DEF EditHeld
      <3>1. ~Judging => HeldBy(disk)'
        BY <1>1, <1>3 DEF PolicyInv, EditHeld, HeldBy
      <3>2. ASSUME NEW r \in Stores, ppc'[r] = "exchanged" PROVE HeldBy(tmp[r])'
        <4>1. r # s /\ ppc[r] = "exchanged" /\ tmp'[r] = tmp[r] /\ revision'[r] = revision[r]
          BY <1>3, <2>1, <3>2
        <4>2. HeldBy(tmp[r]) /\ tmp[r] \in {revision[r], edit}
          BY <4>1, Exchanged
        <4>3. QED
          BY <1>1, <4>1, <4>2 DEF HeldBy
      <3>3. QED
        BY <3>1, <3>2
    <2>5. QED
      BY <1>5, <1>6, <2>2, <2>3, <2>4 DEF PolicyInv
  <1>10. QED
    BY <1>8, <1>9

LEMMA ExchangeKept == ASSUME PolicyInv, NEW s \in Stores, Exchange(s) PROVE PolicyInv'
  <1>1. /\ ppc[s] = "written" /\ disk' = tmp[s] /\ tmp' = [tmp EXCEPT ![s] = disk]
        /\ ppc' = [ppc EXCEPT ![s] = "exchanged"]
        /\ UNCHANGED <<wlock, revision, enforced, paused, cand, kept, torn, edits, edit, blind, iofaults>>
    BY DEF Exchange, outside
  <1>2. /\ tmp[s] = cand[s] /\ cand[s] \in Docs /\ disk \in {revision[s], edit}
        /\ cand[s].rest = revision[s].rest /\ disk \in Docs
    BY <1>1 DEF PolicyInv, CandidateFits, PolicyTypes, PolicyTypeOK
  <1>3. /\ ppc'[s] = "exchanged" /\ tmp'[s] = disk
        /\ \A r \in Stores \ {s} : ppc'[r] = ppc[r] /\ tmp'[r] = tmp[r] /\ ppc[r] \in {"idle", "persist"}
    BY <1>1, OneJudges DEF PolicyInv, PolicyTypes, PolicyTypeOK, Steps
  <1>4. ~Judging
    BY <1>1, <1>3 DEF Judging
  <1>5. PolicyTypes'
    BY <1>1, <1>2 DEF PolicyInv, PolicyTypes, PolicyTypeOK, Steps
  <1>6. LockAlone'
    BY <1>1, <1>3 DEF PolicyInv, LockAlone
  <1>7. \A r \in Stores : CandidateFits(r)'
    BY <1>1, <1>2, <1>3 DEF PolicyInv, CandidateFits
  <1>8. DiskIsEnforced'
    BY <1>1, <1>3 DEF PolicyInv, DiskIsEnforced, Judging
  <1>9. EditHeld'
    BY <1>1, <1>3, <1>4 DEF PolicyInv, EditHeld, HeldBy, Judging
  <1>10. QED
    BY <1>5, <1>6, <1>7, <1>8, <1>9 DEF PolicyInv

LEMMA EditOutsideKept == ASSUME PolicyInv, EditOutside PROVE PolicyInv'
  <1>1. PICK p \in Policies : disk' = [policy |-> p, rest |-> edits + 1]
    BY DEF EditOutside
  <1>2. /\ edits < MaxEdits /\ edits' = edits + 1 /\ edit' = disk' /\ (blind' <=> Judging) /\ Judging' = Judging
        /\ blind' \in BOOLEAN
        /\ UNCHANGED <<wlock, ppc, revision, enforced, paused, cand, tmp, kept, iofaults, torn>>
    BY DEF EditOutside, Judging
  <1>3. disk' \in Docs /\ edits' \in 0..MaxEdits
    BY <1>1, <1>2, PolicyStoreAssumption DEF PolicyInv, PolicyTypes, Docs
  <1>4. PolicyTypes'
    BY <1>2, <1>3 DEF PolicyInv, PolicyTypes, PolicyTypeOK
  <1>5. LockAlone'
    BY <1>2 DEF PolicyInv, LockAlone
  <1>6. \A r \in Stores : CandidateFits(r)'
    BY <1>2 DEF PolicyInv, CandidateFits, Judging
  <1>7. DiskIsEnforced'
    BY <1>2 DEF PolicyInv, DiskIsEnforced
  <1>8. EditHeld'
    BY <1>2 DEF EditHeld, HeldBy, Judging
  <1>9. QED
    BY <1>4, <1>5, <1>6, <1>7, <1>8 DEF PolicyInv

\* The steps of an update up to its exchange.
LEMMA UpdateKept ==
  ASSUME PolicyInv, NEW s \in Stores,
         \/ \E p \in Policies : Update(s, p)
         \/ TogglePaused(s) \/ Busy(s) \/ LockConfig(s) \/ WriteCandidate(s)
  PROVE  PolicyInv'
  <1> USE DEF PolicyInv, PolicyTypes, PolicyTypeOK, LockAlone, CandidateFits, DiskIsEnforced, EditHeld, HeldBy,
              Judging, outside
  <1>1. CASE TogglePaused(s)
    BY <1>1 DEF TogglePaused
  <1>2. ASSUME NEW p \in Policies, Update(s, p) PROVE PolicyInv'
    <2>1. [disk EXCEPT !.policy = p] \in Docs /\ [disk EXCEPT !.policy = p].rest = disk.rest
      BY DEF Docs
    <2>2. QED
      BY <1>2, <2>1 DEF Update, Steps
  <1>3. CASE Busy(s)
    BY <1>3, RefusedEarly DEF Busy
  <1>4. CASE LockConfig(s)
    <2>1. CASE wlock = "free" /\ disk = revision[s]
      BY <1>4, <2>1, PolicyStoreAssumption DEF LockConfig, Steps
    <2>2. CASE ~(wlock = "free" /\ disk = revision[s])
      BY <1>4, <2>2, RefusedEarly DEF LockConfig
    <2>3. QED
      BY <2>1, <2>2
  <1>5. CASE WriteCandidate(s)
    <2>1. CASE disk = revision[s]
      BY <1>5, <2>1 DEF WriteCandidate, Steps
    <2>2. CASE disk # revision[s]
      BY <1>5, <2>2, RefusedEarly DEF WriteCandidate
    <2>3. QED
      BY <2>1, <2>2
  <1>6. QED
    BY <1>1, <1>2, <1>3, <1>4, <1>5

LEMMA PolicyInvAlways == PolicySpec => []PolicyInv
  <1>1. PolicyInit => PolicyInv
    <2> SUFFICES ASSUME PolicyInit PROVE PolicyInv
      OBVIOUS
    <2>1. disk \in Docs /\ disk.policy \in Policies
      BY PolicyStoreAssumption DEF PolicyInit, Docs
    <2>2. revision \in [Stores -> Docs] /\ enforced \in [Stores -> Policies] /\ ppc \in [Stores -> Steps]
      BY <2>1 DEF PolicyInit, Steps
    <2>3. cand \in [Stores -> Docs \cup {NoDoc}] /\ tmp \in [Stores -> Docs \cup {NoDoc}]
      BY DEF PolicyInit
    <2>4. PolicyTypes
      <3>1. edits \in 0..MaxEdits /\ paused \in [Stores -> BOOLEAN]
        BY PolicyStoreAssumption DEF PolicyInit
      <3>2. blind \in BOOLEAN
        BY DEF PolicyInit
      <3>3. wlock \in Stores \cup {"free"} /\ kept = {} /\ torn = {} /\ edit = NoDoc
        BY DEF PolicyInit
      <3>4. QED
        BY <2>1, <2>2, <2>3, <3>1, <3>2, <3>3 DEF PolicyTypes, PolicyTypeOK
    <2>5. DiskIsEnforced
      BY PolicyStoreAssumption DEF PolicyInit, DiskIsEnforced
    <2>6. LockAlone /\ EditHeld /\ \A s \in Stores : CandidateFits(s)
      BY DEF PolicyInit, LockAlone, EditHeld, CandidateFits
    <2>7. QED
      BY <2>4, <2>5, <2>6 DEF PolicyInv
  <1>2. PolicyInv /\ [PolicyNext]_policyVars => PolicyInv'
    <2> SUFFICES ASSUME PolicyInv, [PolicyNext]_policyVars PROVE PolicyInv'
      OBVIOUS
    <2>1. CASE UNCHANGED policyVars
      BY <2>1 DEF policyVars, PolicyInv, PolicyTypes, PolicyTypeOK, LockAlone, CandidateFits, DiskIsEnforced,
           EditHeld, HeldBy, Judging
    <2>2. CASE PolicyNext
      BY <2>2, UpdateKept, ExchangeKept, CommitKept, RestoreKept, RestoreFailsKept, IoFailsKept,
         CrashStoreKept, EditOutsideKept DEF PolicyNext
    <2>3. QED
      BY <2>1, <2>2
  <1>3. QED
    BY <1>1, <1>2, PTL DEF PolicySpec

\* An edit that came before an exchange is never destroyed by it: the update that finds
\* it puts it back, or leaves it beside the file.
THEOREM NoEditLost == PolicySpec => []EditsSurvive
  <1>1. PolicyInv => EditsSurvive
    BY DEF PolicyInv, EditHeld, HeldBy, EditsSurvive
  <1>2. QED
    BY <1>1, PolicyInvAlways, PTL

\* File, accepted revision and enforced policy advance together.  Until an exchange is
\* torn by a crash or a failed restore, or the displaced document is lost to an I/O error
\* (policy_store.py:232-250), no candidate that was refused is left on disk.
THEOREM PolicyIsEnforced == PolicySpec => []DiskIsEnforced
  <1>1. PolicyInv => DiskIsEnforced
    BY DEF PolicyInv
  <1>2. QED
    BY <1>1, PolicyInvAlways, PTL

-----------------------------------------------------------------------------
(* The proof of DemandOrdered.  A mark that is gone from the guard or from *)
(* the file has expired, and with it every record it would have refused.   *)

MarkTypes(marks) ==
  \A s \in DOMAIN marks :
    /\ marks[s].issued \in Nat /\ marks[s].seq \in Nat /\ marks[s].until \in Nat
    /\ s[1] \in Kinds /\ marks[s].until >= marks[s].issued + MaxTtl[s[1]]

\* A guard knows what was accepted of the demand, up to what has expired.
Remembers(marks) ==
  \A s \in DOMAIN seenMark : s[1] = "route_demand" =>
    IF s \in DOMAIN marks THEN marks[s] = seenMark[s] ELSE seenMark[s].until <= rclock
Learned(marks) == \A s \in DOMAIN marks : s[1] = "route_demand" => s \in DOMAIN seenMark

ReplayInv ==
  /\ rclock \in Nat /\ MarkTypes(seenMark) /\ DemandOrdered
  /\ Remembers(parent) /\ Learned(parent) /\ Remembers(history) /\ Learned(history)

LEMMA RecordTypes ==
  ASSUME NEW r \in Records
  PROVE  r.kind \in Kinds /\ r.issued \in Nat /\ r.seq \in Nat /\ r.expires \in Nat
  <1>1. CASE r \in [kind : Kinds, key : Keys, issued : 0..MaxClock, seq : 0..1, expires : 0..(MaxClock + 3),
                    body : {"x", "y"}, flaw : {"none"}]
    BY <1>1, ReplayAssumption
  <1>2. CASE r \in [kind : Kinds, key : Keys, issued : {0}, seq : {0}, expires : {1}, body : {"x"},
                    flaw : {"form", "signature", "binding"}]
    BY <1>2
  <1>3. QED
    BY <1>1, <1>2 DEF Records

\* The mark of a record lasts as long as a record issued when it was could.
LEMMA MarkFits ==
  ASSUME NEW r \in Records
  PROVE  /\ Mark(r).issued = r.issued /\ Mark(r).seq = r.seq /\ Mark(r).body = r.body
         /\ Mark(r).until \in Nat /\ Mark(r).until >= r.issued + MaxTtl[r.kind]
  BY RecordTypes, LifetimesAssumption DEF Mark, RetainUntil

\* Pruning keeps the marks that have not expired, and nothing else.
LEMMA Pruned ==
  ASSUME NEW marks, NEW now
  PROVE  /\ DOMAIN Prune(marks, now) = Live(marks, now)
         /\ \A s \in DOMAIN Prune(marks, now) : Prune(marks, now)[s] = marks[s] /\ s \in DOMAIN marks
  BY DEF Prune, Live

\* Accepting a record changes the mark of its scope only.
LEMMA Advanced ==
  ASSUME NEW marks, NEW r
  PROVE  /\ DOMAIN Advance(marks, r) = DOMAIN marks \cup {Scope(r)}
         /\ \A t \in DOMAIN marks \ {Scope(r)} : Advance(marks, r)[t] = marks[t]
         /\ Advance(marks, r)[Scope(r)] = IF Scope(r) \in DOMAIN marks /\ ~Before(marks[Scope(r)], r)
                                          THEN marks[Scope(r)] ELSE Mark(r)
  BY DEF Advance

\* A mark that is pruned has expired.
LEMMA PruneRemembers ==
  ASSUME rclock \in Nat, MarkTypes(seenMark), NEW marks, Remembers(marks), Learned(marks)
  PROVE  Remembers(Prune(marks, rclock)) /\ Learned(Prune(marks, rclock))
  <1>1. Learned(Prune(marks, rclock))
    BY Pruned DEF Learned
  <1>2. ASSUME NEW s \in DOMAIN seenMark, s[1] = "route_demand"
        PROVE  IF s \in DOMAIN Prune(marks, rclock) THEN Prune(marks, rclock)[s] = seenMark[s]
               ELSE seenMark[s].until <= rclock
    <2>1. CASE s \in DOMAIN Prune(marks, rclock)
      BY <1>2, <2>1, Pruned DEF Remembers
    <2>2. CASE s \notin DOMAIN Prune(marks, rclock)
      <3>1. s \notin DOMAIN marks \/ ~(marks[s].until > rclock)
        <4>1. s \notin Live(marks, rclock)
          BY <2>2, Pruned
        <4>2. QED
          BY <4>1 DEF Live
      <3>2. seenMark[s].until \in Nat
        BY DEF MarkTypes
      <3>3. QED
        BY <1>2, <2>2, <3>1, <3>2 DEF Remembers
    <2>3. QED
      BY <2>1, <2>2
  <1>3. QED
    BY <1>1, <1>2 DEF Remembers

\* The highest marks that were ever accepted keep their types.
LEMMA SeenTypes ==
  ASSUME MarkTypes(seenMark), NEW r \in Records, seenMark' = Advance(seenMark, r)
  PROVE  MarkTypes(seenMark)'
  <1>1. Scope(r)[1] = r.kind /\ r.kind \in Kinds /\ r.issued \in Nat /\ r.seq \in Nat
    BY RecordTypes DEF Scope
  <1>2. ASSUME NEW s \in DOMAIN seenMark'
        PROVE  \/ seenMark'[s] = Mark(r) /\ s = Scope(r)
               \/ s \in DOMAIN seenMark /\ seenMark'[s] = seenMark[s]
    <2>1. /\ DOMAIN seenMark' = DOMAIN seenMark \cup {Scope(r)}
          /\ \A t \in DOMAIN seenMark \ {Scope(r)} : seenMark'[t] = seenMark[t]
          /\ seenMark'[Scope(r)] = IF Scope(r) \in DOMAIN seenMark /\ ~Before(seenMark[Scope(r)], r)
                                   THEN seenMark[Scope(r)] ELSE Mark(r)
      BY Advanced
    <2>2. QED
      BY <1>2, <2>1
  <1>3. QED
    BY <1>1, <1>2, MarkFits DEF MarkTypes

\* What every guard and the file remember of the demand, when a record that is not
\* demand is accepted by anyone.
LEMMA OthersDemand ==
  ASSUME NEW r \in Records, r.kind # "route_demand", seenMark' = Advance(seenMark, r), UNCHANGED rclock
  PROVE  /\ \A t \in DOMAIN seenMark' : t[1] = "route_demand" => t \in DOMAIN seenMark /\ seenMark'[t] = seenMark[t]
         /\ DOMAIN seenMark \subseteq DOMAIN seenMark'
  <1>1. Scope(r)[1] # "route_demand"
    BY DEF Scope
  <1>2. /\ DOMAIN seenMark' = DOMAIN seenMark \cup {Scope(r)}
        /\ \A t \in DOMAIN seenMark \ {Scope(r)} : seenMark'[t] = seenMark[t]
    BY Advanced
  <1>3. QED
    BY <1>1, <1>2

LEMMA LookupKept == ASSUME ReplayInv, LookupAccepts PROVE ReplayInv'
  <1>1. PICK r \in Records :
          /\ AnnouncementVerified(r, rclock) /\ Observe(r)
          /\ history' \in {history, Advance(Prune(history, rclock), r)}
    BY DEF LookupAccepts
  <1>2. r.kind # "route_demand" /\ UNCHANGED <<rclock, parent>> /\ seenMark' = Advance(seenMark, r)
    BY <1>1 DEF AnnouncementVerified, LookupAccepts, Observe
  <1>3. MarkTypes(seenMark)'
    BY <1>2, SeenTypes DEF ReplayInv
  <1>4. DemandOrdered'
    <2>1. replays' \subseteq replays \cup {Scope(r)} /\ Scope(r)[1] = r.kind
      BY <1>1 DEF Observe, Scope
    <2>2. QED
      BY <1>2, <2>1 DEF ReplayInv, DemandOrdered
  <1>5. /\ \A t \in DOMAIN seenMark' : t[1] = "route_demand" => t \in DOMAIN seenMark /\ seenMark'[t] = seenMark[t]
        /\ DOMAIN seenMark \subseteq DOMAIN seenMark'
    BY <1>2, OthersDemand
  <1>6. Remembers(parent)' /\ Learned(parent)'
    BY <1>2, <1>5 DEF ReplayInv, Remembers, Learned
  <1>7. Remembers(history)' /\ Learned(history)'
    <2>1. CASE history' = history
      BY <1>2, <1>5, <2>1 DEF ReplayInv, Remembers, Learned
    <2>2. CASE history' = Advance(Prune(history, rclock), r)
      <3> DEFINE marks == Prune(history, rclock)
      <3>1. Remembers(marks) /\ Learned(marks)
        BY PruneRemembers DEF ReplayInv
      <3>2. /\ DOMAIN history' = DOMAIN marks \cup {Scope(r)} /\ Scope(r)[1] # "route_demand"
            /\ \A t \in DOMAIN marks \ {Scope(r)} : history'[t] = marks[t]
        BY <1>2, <2>2, Advanced DEF Scope
      <3> HIDE DEF marks
      <3>3. QED
        BY <1>2, <1>5, <3>1, <3>2 DEF Remembers, Learned
    <2>3. QED
      BY <1>1, <2>1, <2>2
  <1>8. QED
    BY <1>2, <1>3, <1>4, <1>6, <1>7 DEF ReplayInv

\* A demand record that the guard admits is in order, although its mark may be pruned:
\* then everything issued no later has expired.
LEMMA DemandInOrder ==
  ASSUME ReplayInv, NEW r \in Records, DemandVerified(r, rclock), Admissible(Prune(parent, rclock), r),
         Scope(r) \in DOMAIN seenMark
  PROVE  LET s == Scope(r) IN
           \/ Before(seenMark[s], r)
           \/ /\ s \in DOMAIN Prune(parent, rclock)
              /\ SameOrder(seenMark[s], r) /\ seenMark[s].body = r.body
  <1> DEFINE s == Scope(r)
             marks == Prune(parent, rclock)
  <1>1. s[1] = "route_demand" /\ r.kind = "route_demand" /\ Lifetime(r, rclock)
    BY DEF DemandVerified, Scope
  <1>2. Remembers(marks) /\ Learned(marks)
    BY PruneRemembers DEF ReplayInv
  <1>3. CASE s \in DOMAIN marks
    <2>1. marks[s] = seenMark[s]
      BY <1>1, <1>2, <1>3 DEF Remembers
    <2>2. QED
      BY <1>3, <2>1 DEF Admissible
  <1>4. CASE s \notin DOMAIN marks
    <2>1. seenMark[s].until <= rclock
      BY <1>1, <1>2, <1>4 DEF Remembers
    <2>2. /\ seenMark[s].issued \in Nat /\ seenMark[s].until \in Nat
          /\ seenMark[s].until >= seenMark[s].issued + MaxTtl["route_demand"]
          /\ "route_demand" \in Kinds
      BY <1>1 DEF ReplayInv, MarkTypes
    <2>3. /\ r.expires > rclock /\ r.expires - r.issued <= MaxTtl["route_demand"]
          /\ r.expires \in Nat /\ r.issued \in Nat /\ rclock \in Nat
      BY <1>1, RecordTypes DEF Lifetime, ReplayInv
    <2>4. MaxTtl["route_demand"] \in Nat
      BY <2>2, LifetimesAssumption
    <2> HIDE DEF s
    <2>5. seenMark[s].issued < r.issued
      BY <2>1, <2>2, <2>3, <2>4
    <2>6. QED
      BY <2>5 DEF Before, s
  <1>5. QED
    BY <1>3, <1>4

LEMMA DemandKept == ASSUME ReplayInv, DemandAccepts PROVE ReplayInv'
  <1> DEFINE marks == Prune(parent, rclock)
  <1>1. PICK r \in Records :
          /\ DemandVerified(r, rclock) /\ Admissible(marks, r) /\ Observe(r)
          /\ parent' = Advance(marks, r) /\ history' = IF parent' = parent THEN history ELSE parent'
    BY DEF DemandAccepts
  <1> DEFINE s == Scope(r)
  <1>2. s[1] = "route_demand" /\ seenMark' = Advance(seenMark, r) /\ UNCHANGED rclock
    BY <1>1 DEF DemandVerified, Scope, Observe, DemandAccepts
  <1>3. Remembers(marks) /\ Learned(marks)
    BY PruneRemembers DEF ReplayInv
  <1>4. s \in DOMAIN seenMark =>
          Before(seenMark[s], r) \/ (s \in DOMAIN marks /\ SameOrder(seenMark[s], r) /\ seenMark[s].body = r.body)
    BY <1>1, DemandInOrder
  <1>5. s \in DOMAIN marks => s \in DOMAIN seenMark /\ marks[s] = seenMark[s]
    BY <1>2, <1>3 DEF Remembers, Learned
  <1>6. /\ DOMAIN seenMark' = DOMAIN seenMark \cup {s}
        /\ \A t \in DOMAIN seenMark \ {s} : seenMark'[t] = seenMark[t]
        /\ seenMark'[s] = IF s \in DOMAIN seenMark /\ ~Before(seenMark[s], r) THEN seenMark[s] ELSE Mark(r)
    BY <1>2, Advanced
  <1>7. /\ DOMAIN parent' = DOMAIN marks \cup {s}
        /\ \A t \in DOMAIN marks \ {s} : parent'[t] = marks[t]
        /\ parent'[s] = IF s \in DOMAIN marks /\ ~Before(marks[s], r) THEN marks[s] ELSE Mark(r)
    BY <1>1, Advanced
  <1>8. DemandOrdered'
    <2>1. r.issued \in Nat /\ r.seq \in Nat /\ (s \in DOMAIN seenMark => seenMark[s].issued \in Nat /\ seenMark[s].seq \in Nat)
      BY RecordTypes DEF ReplayInv, MarkTypes
    <2>2. ~(s \in DOMAIN seenMark /\ (Before(r, seenMark[s])
                                        \/ (SameOrder(seenMark[s], r) /\ seenMark[s].body # r.body)))
      BY <1>4, <2>1 DEF Before, SameOrder
    <2>3. replays' = replays
      BY <1>1, <2>2 DEF Observe
    <2>4. QED
      BY <2>3 DEF ReplayInv, DemandOrdered
  <1>9. MarkTypes(seenMark)'
    BY <1>2, SeenTypes DEF ReplayInv
  <1> HIDE DEF marks, s
  <1>10. parent'[s] = seenMark'[s]
    <2>1. CASE s \in DOMAIN marks
      BY <1>5, <1>6, <1>7, <2>1
    <2>2. CASE s \notin DOMAIN marks
      BY <1>4, <1>6, <1>7, <2>2
    <2>3. QED
      BY <2>1, <2>2
  <1>11. Remembers(parent)'
    <2>1. ASSUME NEW t \in DOMAIN seenMark', t[1] = "route_demand"
          PROVE  IF t \in DOMAIN parent' THEN parent'[t] = seenMark'[t] ELSE seenMark'[t].until <= rclock
      <3>1. CASE t = s
        BY <1>7, <1>10, <3>1
      <3>2. CASE t # s
        BY <1>3, <1>6, <1>7, <2>1, <3>2 DEF Remembers
      <3>3. QED
        BY <3>1, <3>2
    <2>2. QED
      BY <1>2, <2>1 DEF Remembers
  <1>12. Learned(parent)'
    BY <1>3, <1>6, <1>7 DEF Learned
  <1>13. Remembers(history)' /\ Learned(history)'
    <2>1. CASE parent' # parent
      BY <1>1, <1>11, <1>12, <2>1 DEF Remembers, Learned
    <2>2. CASE parent' = parent
      <3>1. s \in DOMAIN parent /\ s \in DOMAIN seenMark
        BY <1>2, <1>7, <2>2 DEF ReplayInv, Learned
      <3>2. seenMark'[s] = seenMark[s]
        BY <1>2, <1>10, <2>2, <3>1 DEF ReplayInv, Remembers
      <3>3. DOMAIN seenMark' = DOMAIN seenMark /\ \A t \in DOMAIN seenMark : seenMark'[t] = seenMark[t]
        BY <1>6, <3>1, <3>2
      <3>4. history' = history
        BY <1>1, <2>2
      <3>5. QED
        BY <1>2, <3>3, <3>4 DEF ReplayInv, Remembers, Learned
    <2>3. QED
      BY <2>1, <2>2
  <1>14. QED
    BY <1>2, <1>8, <1>9, <1>11, <1>12, <1>13 DEF ReplayInv

LEMMA ReplayInvAlways == ReplaySpec => []ReplayInv
  <1>1. ReplayInit => ReplayInv
    BY DEF ReplayInit, ReplayInv, NoMarks, MarkTypes, DemandOrdered, Remembers, Learned
  <1>2. ReplayInv /\ [ReplayNext]_replayVars => ReplayInv'
    <2> SUFFICES ASSUME ReplayInv, [ReplayNext]_replayVars PROVE ReplayInv'
      OBVIOUS
    <2>1. CASE LookupEnds \/ DemandEnds \/ UNCHANGED replayVars
      BY <2>1 DEF LookupEnds, DemandEnds, replayVars, ReplayInv, MarkTypes, DemandOrdered, Remembers, Learned
    <2>2. CASE RestartNode
      <3>1. Remembers(Prune(history, rclock)) /\ Learned(Prune(history, rclock))
        BY PruneRemembers DEF ReplayInv
      <3>2. parent' = Prune(history, rclock) /\ UNCHANGED <<rclock, history, seenMark, replays>>
        BY <2>2 DEF RestartNode
      <3>3. QED
        BY <3>1, <3>2 DEF ReplayInv, MarkTypes, DemandOrdered, Remembers, Learned
    <2>3. CASE ReplayTick
      <3>1. rclock' = rclock + 1 /\ UNCHANGED <<history, parent, seenMark, replays>>
        BY <2>3 DEF ReplayTick
      <3>2. \A t \in DOMAIN seenMark : seenMark[t].until \in Nat
        BY DEF ReplayInv, MarkTypes
      <3>3. \A t \in DOMAIN seenMark : seenMark[t].until <= rclock => seenMark[t].until <= rclock'
        BY <3>1, <3>2 DEF ReplayInv
      <3>4. rclock' \in Nat /\ MarkTypes(seenMark)' /\ DemandOrdered'
        BY <3>1 DEF ReplayInv, MarkTypes, DemandOrdered
      <3>5. QED
        BY <3>1, <3>3, <3>4 DEF ReplayInv, Remembers, Learned
    <2>4. QED
      BY <2>1, <2>2, <2>3, LookupKept, DemandKept DEF ReplayNext
  <1>3. QED
    BY <1>1, <1>2, PTL DEF ReplaySpec

\* A route demand record that was replayed, or contradicts an accepted one, is refused
\* for good: no restart and no pruning of marks lets it in.
THEOREM DemandStaysOrdered == ReplaySpec => []DemandOrdered
  <1>1. ReplayInv => DemandOrdered
    BY DEF ReplayInv
  <1>2. QED
    BY <1>1, ReplayInvAlways, PTL

\* The marks a guard or the file holds: no more scopes than the history may have.
Bounded(marks) ==
  DOMAIN marks \subseteq Kinds \X Keys /\ IsFiniteSet(DOMAIN marks) /\ Cardinality(DOMAIN marks) <= MaxActive

LEMMA PruneBounded ==
  ASSUME NEW marks, NEW now, Bounded(marks)
  PROVE  Bounded(Prune(marks, now))
  <1>1. DOMAIN Prune(marks, now) \subseteq DOMAIN marks
    BY Pruned DEF Live
  <1>2. /\ IsFiniteSet(DOMAIN Prune(marks, now))
        /\ Cardinality(DOMAIN Prune(marks, now)) <= Cardinality(DOMAIN marks)
    BY <1>1, FS_Subset DEF Bounded
  <1> DEFINE c == Cardinality(DOMAIN Prune(marks, now))  d == Cardinality(DOMAIN marks)
  <1>3. c \in Nat /\ d \in Nat /\ c <= d /\ d <= MaxActive /\ MaxActive \in Nat
    BY <1>2, FS_CardinalityType, ReplayAssumption DEF Bounded
  <1> HIDE DEF c, d
  <1>4. c <= MaxActive
    BY <1>3
  <1>5. QED
    BY <1>1, <1>2, <1>4 DEF Bounded, c

LEMMA AdvanceBounded ==
  ASSUME NEW marks, NEW r \in Records, Bounded(marks), Admissible(marks, r)
  PROVE  Bounded(Advance(marks, r))
  <1>1. DOMAIN Advance(marks, r) = DOMAIN marks \cup {Scope(r)}
    BY Advanced
  <1>2. Scope(r) \in Kinds \X Keys
    BY DEF Scope, Records
  <1>3. IsFiniteSet(DOMAIN marks \cup {Scope(r)})
    BY FS_AddElement DEF Bounded
  <1>4. QED
    BY <1>1, <1>2, <1>3 DEF Bounded, Admissible

\* The history and the discovery thread's marks keep their types and their limit.
LEMMA ReplayTypesAlways == ReplaySpec => []ReplayTypeOK
  <1> DEFINE Inv == rclock \in 0..MaxClock /\ rstep \in {"lookup", "demand"} /\ Bounded(history) /\ Bounded(parent)
  <1>1. ReplayInit => Inv
    BY ReplayAssumption, FS_EmptySet DEF ReplayInit, NoMarks, Bounded
  <1>2. Inv /\ [ReplayNext]_replayVars => Inv'
    <2> SUFFICES ASSUME Inv, [ReplayNext]_replayVars PROVE Inv'
      OBVIOUS
    <2>1. CASE LookupAccepts
      <3>1. PICK r \in Records : /\ Admissible(Prune(history, rclock), r)
                                 /\ history' \in {history, Advance(Prune(history, rclock), r)}
        BY <2>1 DEF LookupAccepts
      <3>2. Bounded(history')
        BY <3>1, PruneBounded, AdvanceBounded
      <3>3. UNCHANGED <<rclock, parent, rstep>>
        BY <2>1 DEF LookupAccepts
      <3>4. QED
        BY <3>2, <3>3 DEF Bounded
    <2>2. CASE DemandAccepts
      <3>1. PICK r \in Records : /\ Admissible(Prune(parent, rclock), r)
                                 /\ parent' = Advance(Prune(parent, rclock), r)
                                 /\ history' \in {history, parent'}
        BY <2>2 DEF DemandAccepts
      <3>2. Bounded(parent')
        BY <3>1, PruneBounded, AdvanceBounded
      <3>3. UNCHANGED <<rclock, rstep>>
        BY <2>2 DEF DemandAccepts
      <3>4. QED
        BY <3>1, <3>2, <3>3 DEF Bounded
    <2>3. CASE RestartNode
      <3>1. Bounded(Prune(history, rclock))
        BY PruneBounded
      <3>2. QED
        BY <2>3, <3>1 DEF RestartNode, Bounded
    <2>4. CASE ReplayTick
      BY <2>4, ReplayAssumption DEF ReplayTick, Bounded
    <2>5. CASE LookupEnds \/ DemandEnds \/ UNCHANGED replayVars
      BY <2>5 DEF LookupEnds, DemandEnds, replayVars, Bounded
    <2>6. QED
      BY <2>1, <2>2, <2>3, <2>4, <2>5 DEF ReplayNext
  <1>3. Inv => ReplayTypeOK
    BY DEF Bounded, ReplayTypeOK
  <1> HIDE DEF Inv
  <1>4. QED
    BY <1>1, <1>2, <1>3, PTL DEF ReplaySpec

-----------------------------------------------------------------------------
(* The five files in one instance: a step is a step of one of them and a   *)
(* stutter of the others.                                                  *)

LEMMA FilesParts ==
  ASSUME [FilesNext]_filesVars
  PROVE  /\ [PolicyNext]_policyVars /\ [ReplayNext]_replayVars /\ [InstallNext]_installVars
         /\ [KeysNext]_keyVars /\ [BundleNext]_bundleVars
  BY DEF FilesNext, filesVars

LEMMA FilesSpecs ==
  FilesSpec => PolicySpec /\ ReplaySpec /\ InstallSpec /\ KeysSpec /\ BundleSpec
  <1>1. FilesInit => PolicyInit /\ ReplayInit /\ CatalogInit /\ KeysInit /\ BundleInit
    BY DEF FilesInit
  <1>2. [FilesNext]_filesVars => /\ [PolicyNext]_policyVars /\ [ReplayNext]_replayVars /\ [InstallNext]_installVars
                                 /\ [KeysNext]_keyVars /\ [BundleNext]_bundleVars
    BY FilesParts
  <1>3. QED
    BY <1>1, <1>2, PTL DEF FilesSpec, PolicySpec, ReplaySpec, InstallSpec, KeysSpec, BundleSpec

\* FilesSound: in the instance every variable of the five files keeps its type, the
\* policy in force was on disk, and the demand accepted is in the order it was signed.
THEOREM FilesAreSound == FilesSpec => []FilesSound
  <1>1. PolicyInv => PolicyTypeOK /\ DiskIsEnforced
    BY DEF PolicyInv, PolicyTypes
  <1>2. KeysInv => KeysTypeOK
    BY DEF KeysInv
  <1>3. PolicyTypeOK /\ ReplayTypeOK /\ InstallTypeOK /\ KeysTypeOK /\ BundleTypeOK /\ DiskIsEnforced /\ DemandOrdered
          => FilesSound
    BY DEF FilesSound, FilesTypeOK
  <1>4. QED
    BY <1>1, <1>2, <1>3, FilesSpecs, PolicyInvAlways, KeysAlways, ReplayTypesAlways, InstallTypesAlways,
       BundleTypesAlways, DemandStaysOrdered, PTL

\* FilesUsable: in the instance, whatever was interrupted, the config, the keys and the
\* published bundle are ones the node can use.
THEOREM FilesStayUsable == FilesSpec => []FilesUsable
  <1>1. ConfigUsable /\ VerifyIsDurable /\ PublishedLoads => FilesUsable
    BY DEF FilesUsable
  <1>2. QED
    BY <1>1, FilesSpecs, ConfigComplete, KeysAreDurable, BundleIsKept, PTL

-----------------------------------------------------------------------------
(* The proof of ReadersKeepFiles.  A file leaves the cache only under the  *)
(* exclusive lock, which nobody holds beside a reader; what is promoted    *)
(* meanwhile never replaces a file that is there.                          *)

\* What a process does between taking the exclusive lock and giving it back.
Writing == {"evict", "artifact", "fetch", "written", "interrupted"}

StoreTypes ==
  /\ asStore \in [{"hub", "own"} -> [Files -> {"absent", "good", "bad"}]]
  /\ asReaders \subseteq Processes /\ asWriter \in Processes \cup {NoOne}
  /\ DOMAIN asPc = Processes /\ asFile \in [Processes -> Files \cup {NoFile}]
  /\ asRoot \in [Processes -> {"none", "hub", "own"}] /\ asLeft \in [Processes -> SUBSET Files]

\* Whoever may change the cache is alone, and whoever reads it holds the lock.
LockExclusive ==
  /\ asWriter # NoOne => asReaders = {}
  /\ \A p \in Processes : asPc[p] \in Writing => asWriter = p
  /\ \A p \in Processes : asPc[p] = "load" => p \in asReaders

\* A process that needs a file names it; it promotes only into its own snapshot.
FilesNamed ==
  /\ \A p \in Processes : asPc[p] \in Writing \cup {"look", "promote", "write", "read", "load"} => asFile[p] \in Files
  /\ \A p \in Processes : asPc[p] = "promote" => asRoot[p] = "own"

LoadedGood ==
  \A p \in Processes : asPc[p] = "load" =>
    asRoot[p] \in {"hub", "own"} /\ asStore[asRoot[p]][asFile[p]] = "good"

\* What holds in every state and says why a reader's file is still there.
StoreInv == StoreTypes /\ LockExclusive /\ FilesNamed /\ LoadedGood

\* Every cache a behaviour begins with satisfies the invariant.
LEMMA StoreInvInit == StoreInit => StoreInv
  <1> SUFFICES ASSUME StoreInit PROVE StoreInv
    OBVIOUS
  <1> USE StoreAssumption DEF NoOne, NoFile
  <1>1. StoreTypes
    <2>1. asStore \in [{"hub", "own"} -> [Files -> {"absent", "good", "bad"}]]
      <3>1. PICK hub \in [HubFiles -> {"absent", "good", "bad"}] :
              asStore = [hub |-> [f \in Files |-> IF f \in HubFiles THEN hub[f] ELSE "absent"],
                         own |-> [f \in Files |-> "absent"]]
        BY DEF StoreInit
      <3> DEFINE own == [f \in Files |-> "absent"]
                 hubFiles == [f \in Files |-> IF f \in HubFiles THEN hub[f] ELSE "absent"]
      <3>2. asStore = [root \in {"hub", "own"} |-> IF root = "hub" THEN hubFiles ELSE own]
        BY <3>1
      <3>3. hubFiles \in [Files -> {"absent", "good", "bad"}] /\ own \in [Files -> {"absent", "good", "bad"}]
        OBVIOUS
      <3> HIDE DEF own, hubFiles
      <3>4. \A root \in {"hub", "own"} : (IF root = "hub" THEN hubFiles ELSE own) \in [Files -> {"absent", "good", "bad"}]
        BY <3>3
      <3>5. QED
        BY <3>2, <3>4
    <2>2. asLeft \in [Processes -> SUBSET Files]
      <3>1. PICK active \in {Workers, Acquirers} :
              asLeft = [p \in Processes |-> IF p \in active THEN Files ELSE {}]
        BY DEF StoreInit
      <3>2. QED
        BY <3>1
    <2>3. QED
      BY <2>1, <2>2 DEF StoreInit, StoreTypes
  <1>2. QED
    BY <1>1 DEF StoreInit, StoreInv, LockExclusive, FilesNamed, LoadedGood, Writing

\* A process gives its locks back: nobody else's lock changes.
LEMMA ReleasedLocks ==
  ASSUME NEW p \in Processes, StoreTypes, LockExclusive, ReleaseAll(p)
  PROVE  /\ asReaders' \subseteq Processes /\ asWriter' \in Processes \cup {NoOne}
         /\ asWriter' # NoOne => asReaders' = {}
         /\ \A q \in Processes \ {p} : (asWriter = q => asWriter' = q) /\ (q \in asReaders => q \in asReaders')
  BY StoreAssumption DEF StoreTypes, LockExclusive, ReleaseAll

\* Each action keeps the types.
LEMMA StoreTypesKept ==
  ASSUME StoreInv, [StoreNext]_asVars PROVE StoreTypes'
  <1> USE StoreAssumption DEF StoreInv
  <1>1. CASE UNCHANGED asVars
    BY <1>1 DEF StoreTypes, asVars, asLocks
  <1>2. CASE StoreNext
    <2>1. PICK p \in Processes : LoadStep(p) \/ ProcessCrashes(p)
      BY <1>2 DEF StoreNext
    <2>2. CASE Take(p)
      BY <2>2 DEF Take, StoreTypes, Goto, asLocks
    <2>3. CASE Look(p)
      BY <2>3, ReleasedLocks DEF Look, StoreTypes, Goto, asLocks, After
    <2>4. CASE Promote(p)
      BY <2>4, ReleasedLocks DEF Promote, StoreTypes, Goto, asLocks, After, FilesNamed
    <2>5. CASE LockWrite(p)
      BY <2>5 DEF LockWrite, StoreTypes, Goto
    <2>6. CASE Evict(p)
      BY <2>6, ReleasedLocks DEF Evict, StoreTypes, Goto, asLocks
    <2>7. CASE LockArtifact(p)
      BY <2>7 DEF LockArtifact, StoreTypes, Goto
    <2>8. ASSUME Publish(p), UNCHANGED <<asFile, asLeft>>, asFile[p] \in Files PROVE StoreTypes'
      BY <2>8 DEF Publish, Target, StoreTypes, Goto, After
    <2>9. CASE Reuse(p)
      BY <2>8, <2>9 DEF Reuse, StoreTypes, Goto, After, Target, FilesNamed, Writing
    <2>10. CASE Request(p)
      BY <2>10, ReleasedLocks DEF Request, StoreTypes, Goto, asLocks
    <2>11. CASE Check(p)
      BY <2>8, <2>11, ReleasedLocks DEF Check, StoreTypes, Goto, FilesNamed, Writing
    <2>12. CASE Interrupted(p)
      BY <2>12, ReleasedLocks DEF Interrupted, StoreTypes, Goto
    <2>13. CASE LockRead(p)
      BY <2>13 DEF LockRead, StoreTypes, Goto
    <2>14. CASE Finish(p)
      BY <2>14, ReleasedLocks DEF Finish, StoreTypes, Goto
    <2>15. CASE ProcessCrashes(p)
      BY <2>15, ReleasedLocks DEF ProcessCrashes, StoreTypes, Goto
    <2>16. QED
      BY <2>1, <2>2, <2>3, <2>4, <2>5, <2>6, <2>7, <2>9, <2>10, <2>11, <2>12, <2>13, <2>14, <2>15
         DEF LoadStep
  <1>3. QED
    BY <1>1, <1>2

\* What every step of p leaves alone: where the others are, with which file and root.
LEMMA OthersStay ==
  ASSUME StoreInv, NEW p \in Processes, LoadStep(p) \/ ProcessCrashes(p)
  PROVE  \A q \in Processes \ {p} : asPc'[q] = asPc[q] /\ asFile'[q] = asFile[q] /\ asRoot'[q] = asRoot[q]
  BY DEF StoreInv, StoreTypes, LoadStep, Take, Look, Promote, LockWrite, Evict, LockArtifact, Reuse, Publish,
         Request, Check, Interrupted, LockRead, Finish, ProcessCrashes, Goto

\* Each action keeps the lock exclusive.
LEMMA LockKept ==
  ASSUME StoreInv, NEW p \in Processes, LoadStep(p) \/ ProcessCrashes(p) PROVE LockExclusive'
  <1> USE StoreAssumption DEF StoreInv
  <1> \A q \in Processes \ {p} : asPc'[q] = asPc[q]
    BY OthersStay
  <1>1. CASE Take(p)
    BY <1>1 DEF Take, StoreTypes, LockExclusive, Goto, asLocks, Writing
  <1>2. CASE Look(p)
    BY <1>2, ReleasedLocks DEF Look, StoreTypes, LockExclusive, Goto, asLocks, After, Writing
  <1>3. CASE Promote(p)
    BY <1>3, ReleasedLocks DEF Promote, StoreTypes, LockExclusive, Goto, asLocks, After, Writing
  <1>4. CASE LockWrite(p)
    BY <1>4 DEF LockWrite, CanWrite, StoreTypes, LockExclusive, Goto, Writing, NoOne
  <1>5. CASE Evict(p)
    BY <1>5, ReleasedLocks DEF Evict, StoreTypes, LockExclusive, Goto, asLocks, Writing
  <1>6. CASE LockArtifact(p)
    BY <1>6 DEF LockArtifact, StoreTypes, LockExclusive, Goto, Writing
  <1>7. CASE Publish(p) /\ asWriter = p
    BY <1>7 DEF Publish, StoreTypes, LockExclusive, Goto, After, Writing, NoOne
  <1>8. CASE Reuse(p)
    BY <1>7, <1>8 DEF Reuse, StoreTypes, LockExclusive, Goto, After, Writing, NoOne
  <1>9. CASE Request(p)
    BY <1>9, ReleasedLocks DEF Request, StoreTypes, LockExclusive, Goto, asLocks, Writing
  <1>10. CASE Check(p)
    BY <1>7, <1>10, ReleasedLocks DEF Check, StoreTypes, LockExclusive, Goto, Writing
  <1>11. CASE Interrupted(p)
    BY <1>11, ReleasedLocks DEF Interrupted, StoreTypes, LockExclusive, Goto, Writing
  <1>12. CASE LockRead(p)
    BY <1>12 DEF LockRead, StoreTypes, LockExclusive, Goto, Writing
  <1>13. CASE Finish(p)
    BY <1>13, ReleasedLocks DEF Finish, StoreTypes, LockExclusive, Goto, Writing
  <1>14. CASE ProcessCrashes(p)
    BY <1>14, ReleasedLocks DEF ProcessCrashes, StoreTypes, LockExclusive, Goto, Writing
  <1>15. QED
    BY <1>1, <1>2, <1>3, <1>4, <1>5, <1>6, <1>8, <1>9, <1>10, <1>11, <1>12, <1>13, <1>14 DEF LoadStep

\* Each action leaves every process that needs a file with one.
LEMMA NamesKept ==
  ASSUME StoreInv, NEW p \in Processes, LoadStep(p) \/ ProcessCrashes(p) PROVE FilesNamed'
  <1> USE DEF StoreInv, StoreTypes, FilesNamed, Goto, Writing
  <1> \A q \in Processes \ {p} : asPc'[q] = asPc[q] /\ asFile'[q] = asFile[q] /\ asRoot'[q] = asRoot[q]
    BY OthersStay
  <1>1. CASE Take(p)
    BY <1>1 DEF Take
  <1>2. CASE Look(p)
    BY <1>2 DEF Look, After
  <1>3. CASE Promote(p)
    BY <1>3 DEF Promote, After
  <1>4. CASE LockWrite(p) \/ Evict(p) \/ LockArtifact(p) \/ Request(p) \/ LockRead(p)
    BY <1>4 DEF LockWrite, Evict, LockArtifact, Request, LockRead
  <1>5. CASE Reuse(p) \/ Check(p)
    BY <1>5 DEF Reuse, Check, Publish, After
  <1>6. CASE Interrupted(p)
    BY <1>6 DEF Interrupted
  <1>7. CASE Finish(p)
    BY <1>7 DEF Finish
  <1>8. CASE ProcessCrashes(p)
    BY <1>8 DEF ProcessCrashes
  <1>9. QED
    BY <1>1, <1>2, <1>3, <1>4, <1>5, <1>6, <1>7, <1>8 DEF LoadStep

\* No file a reader has loaded changes, and whoever begins to load one has checked it.
LEMMA LoadedKept ==
  ASSUME StoreInv, NEW p \in Processes, LoadStep(p) \/ ProcessCrashes(p) PROVE LoadedGood'
  <1> USE StoreAssumption DEF StoreInv, StoreTypes, LoadedGood, Goto
  <1> \A q \in Processes \ {p} : asPc'[q] = asPc[q] /\ asFile'[q] = asFile[q] /\ asRoot'[q] = asRoot[q]
    BY OthersStay
  \* Beside the writer nobody loads.
  <1>1. ASSUME asPc[p] \in Writing, asPc'[p] # "load" PROVE LoadedGood'
    <2>1. \A q \in Processes : asPc[q] # "load"
      BY <1>1 DEF LockExclusive, NoOne
    <2>2. QED
      BY <1>1, <2>1
  <1>2. ASSUME asStore' = asStore, asPc'[p] # "load" PROVE LoadedGood'
    BY <1>2
  <1>3. CASE Look(p)
    BY <1>3 DEF Look, After
  <1>4. CASE Promote(p)
    <2> DEFINE f == asFile[p]
    <2>1. f \in Files /\ asRoot[p] = "own" /\ asRoot' = asRoot /\ asFile' = asFile
      BY <1>4 DEF Promote, FilesNamed
    <2>2. CASE asStore' = asStore /\ asPc'[p] # "load"
      BY <1>2, <2>2
    <2>3. CASE asStore' = [asStore EXCEPT !["own"][f] = "good"]
      <3>1. \A root \in {"hub", "own"}, g \in Files : asStore[root][g] = "good" => asStore'[root][g] = "good"
        BY <2>1, <2>3
      <3>2. asStore'["own"][f] = "good"
        BY <2>1, <2>3
      <3>3. ASSUME NEW q \in Processes, asPc[q] = "load" PROVE asFile[q] \in Files
        BY <3>3 DEF FilesNamed
      <3>4. asPc[p] # "load"
        BY <1>4 DEF Promote
      <3>5. QED
        BY <2>1, <3>1, <3>2, <3>3, <3>4
    <2>4. QED
      BY <1>4, <2>2, <2>3 DEF Promote
  <1>5. CASE Take(p) \/ LockWrite(p) \/ LockArtifact(p) \/ Request(p) \/ Interrupted(p) \/ LockRead(p)
             \/ Finish(p) \/ ProcessCrashes(p)
    BY <1>2, <1>5 DEF Take, LockWrite, LockArtifact, Request, Interrupted, LockRead, Finish, ProcessCrashes
  <1>6. CASE Evict(p) \/ Reuse(p) \/ Check(p)
    <2>1. asPc[p] \in Writing
      BY <1>6 DEF Evict, Reuse, Check, Writing
    <2>2. p \notin asReaders
      BY <2>1 DEF LockExclusive, NoOne
    <2>3. asPc'[p] # "load"
      BY <1>6, <2>2 DEF Evict, Reuse, Check, Publish, After
    <2>4. QED
      BY <1>1, <2>1, <2>3
  <1>7. QED
    BY <1>3, <1>4, <1>5, <1>6 DEF LoadStep

\* Each step keeps the invariant.
LEMMA StoreStepKept == StoreInv /\ [StoreNext]_asVars => StoreInv'
  <1> SUFFICES ASSUME StoreInv, [StoreNext]_asVars PROVE StoreInv'
    OBVIOUS
  <1>1. StoreTypes'
    BY StoreTypesKept
  <1>2. CASE UNCHANGED asVars
    BY <1>1, <1>2 DEF StoreInv, LockExclusive, FilesNamed, LoadedGood, asVars, asLocks
  <1>3. CASE StoreNext
    <2>1. PICK p \in Processes : LoadStep(p) \/ ProcessCrashes(p)
      BY <1>3 DEF StoreNext
    <2>2. QED
      BY <1>1, <2>1, LockKept, NamesKept, LoadedKept DEF StoreInv
  <1>4. QED
    BY <1>2, <1>3

\* A worker that deserializes a file holds a verified one, and no download, eviction,
\* promotion, failed transfer or crash of another process takes it away.
THEOREM ReadersAreSafe == StoreSpec => []ReadersKeepFiles
  <1>1. StoreInv => ReadersKeepFiles
    BY DEF StoreInv, LoadedGood, ReadersKeepFiles, Processes
  <1>2. QED
    BY <1>1, StoreInvInit, StoreStepKept, PTL DEF StoreSpec

\* The rest of the types: a partial is at most one chunk too long, and only a worker reads
\* under the shared lock.
StorePcs ==
  {"idle", "look", "promote", "write", "evict", "artifact", "fetch", "written", "interrupted", "read", "load",
   "kept", "done", "failed", "refused"}
Partials == [len : 0..Size + 1, good : BOOLEAN]
StoreRest ==
  /\ asPart \in [Files -> Partials] /\ asArtifact \in [Files -> Processes \cup {NoOne}]
  /\ asPc \in [Processes -> StorePcs] /\ asResumed \in [Processes -> Nat] /\ asFaults \in 0..MaxStoreFaults
  /\ asReaders \subseteq Workers /\ \A p \in Acquirers : asPc[p] # "read"

\* What a transfer leaves of a partial.
LEMMA PartialKept ==
  ASSUME NEW part \in Partials
  PROVE  /\ Usable(part) \in Partials
         /\ (IF part.len > Size THEN [len |-> 0, good |-> TRUE] ELSE part) \in Partials
  BY StoreAssumption DEF Partials, Usable

\* A request asks for the part that is missing, or for the whole file.
LEMMA RequestKeepsPartial ==
  ASSUME StoreRest, NEW p \in Processes, Request(p), asFile[p] \in Files
  PROVE  asPart' \in [Files -> Partials]
  <1> DEFINE f == asFile[p]
             offset == Usable(asPart[f])
             Restart == [len |-> 0, good |-> TRUE]
  <1>1. asPart[f] \in Partials
    BY DEF StoreRest
  <1>2. offset \in Partials /\ Restart \in Partials
    BY <1>1, PartialKept, StoreAssumption DEF Partials
  <1>3. \E part \in Partials : asPart' = [asPart EXCEPT ![f] = part]
    <2>1. CASE asPart' = [asPart EXCEPT ![f] = offset]
      BY <1>2, <2>1
    <2>2. CASE \E from \in {offset, Restart}, good \in BOOLEAN : \E len \in from.len .. Size + 1 :
                 asPart' = [asPart EXCEPT ![f] = [len |-> len, good |-> from.good /\ good]]
      <3>1. PICK from \in {offset, Restart}, good \in BOOLEAN : \E len \in from.len .. Size + 1 :
                 asPart' = [asPart EXCEPT ![f] = [len |-> len, good |-> from.good /\ good]]
        BY <2>2
      <3> HIDE DEF offset, Restart
      <3>2. from \in Partials
        BY <1>2
      <3>3. PICK len \in from.len .. Size + 1 :
                 asPart' = [asPart EXCEPT ![f] = [len |-> len, good |-> from.good /\ good]]
        BY <3>1
      <3>4. len \in 0..Size + 1
        BY <3>2, <3>3, StoreAssumption DEF Partials
      <3> DEFINE both == from.good /\ good
      <3>5. both \in BOOLEAN
        OBVIOUS
      <3>6. asPart' = [asPart EXCEPT ![f] = [len |-> len, good |-> both]]
        BY <3>3
      <3> HIDE DEF both
      <3>7. QED
        BY <3>4, <3>5, <3>6 DEF Partials
    <2>3. QED
      BY <2>1, <2>2 DEF Request
  <1>4. QED
    BY <1>3 DEF StoreRest

\* Each action keeps them.
LEMMA StoreRestKept ==
  ASSUME StoreInv, StoreRest, [StoreNext]_asVars PROVE StoreRest'
  <1>1. CASE UNCHANGED asVars
    BY <1>1 DEF StoreRest, asVars, asLocks
  <1>2. CASE StoreNext
    <2>1. PICK p \in Processes : LoadStep(p) \/ ProcessCrashes(p)
      BY <1>2 DEF StoreNext
    <2> USE DEF StoreRest
    <2>2. asPc' \in [Processes -> StorePcs] /\ \A q \in Acquirers : asPc'[q] # "read"
      <3> USE DEF Goto, StorePcs
      <3>1. CASE Take(p) \/ LockWrite(p) \/ LockArtifact(p) \/ Request(p) \/ Interrupted(p) \/ LockRead(p)
                 \/ ProcessCrashes(p) \/ Finish(p) \/ Evict(p)
        <4>1. PICK pc \in StorePcs \ {"read"} : Goto(p, pc)
          BY <3>1 DEF Take, LockWrite, LockArtifact, Request, Interrupted, LockRead, ProcessCrashes, Finish, Evict
        <4> HIDE DEF StorePcs
        <4>2. QED
          BY <4>1
      <3>2. CASE Look(p) \/ Promote(p) \/ Reuse(p) \/ Check(p)
        <4>1. After(p) \in {"kept", "load", "read"} /\ (p \in Acquirers => After(p) = "kept")
          BY DEF After
        <4>2. PICK pc \in {"promote", "write", "failed", After(p)} : Goto(p, pc)
          BY <3>2 DEF Look, Promote, Reuse, Check, Publish
        <4>3. pc \in StorePcs /\ (p \in Acquirers => pc # "read")
          BY <4>1
        <4> HIDE DEF StorePcs
        <4>4. QED
          BY <4>2, <4>3
      <3>3. QED
        BY <2>1, <3>1, <3>2 DEF LoadStep
    <2>3. asReaders' \subseteq Workers
      <3>1. CASE LockRead(p)
        BY <3>1 DEF LockRead, Processes
      <3>2. CASE ~LockRead(p)
        <4>1. asReaders' \in {asReaders, asReaders \ {p}}
          BY <2>1, <3>2
             DEF LoadStep, Take, Look, Promote, LockWrite, Evict, LockArtifact, Reuse, Publish, Request, Check,
                 Interrupted, Finish, ProcessCrashes, ReleaseAll, asLocks
        <4>2. QED
          BY <4>1
      <3>3. QED
        BY <3>1, <3>2
    <2>4. asArtifact' \in [Files -> Processes \cup {NoOne}]
      BY <2>1
         DEF LoadStep, Take, Look, Promote, LockWrite, Evict, LockArtifact, Reuse, Publish, Request, Check, Interrupted,
             LockRead, Finish, ProcessCrashes, ReleaseAll, asLocks
    <2>5. asFaults' \in 0..MaxStoreFaults
      <3>1. asFaults' = asFaults \/ (asFaults < MaxStoreFaults /\ asFaults' = asFaults + 1)
        <4>1. CASE Request(p)
          BY <4>1 DEF Request
        <4>2. CASE ~Request(p)
          BY <2>1, <4>2
             DEF LoadStep, Take, Look, Promote, LockWrite, Evict, LockArtifact, Reuse, Publish, Check, Interrupted,
                 LockRead, Finish, ProcessCrashes
        <4>3. QED
          BY <4>1, <4>2
      <3>2. QED
        BY <3>1, StoreAssumption
    <2>6. asResumed' \in [Processes -> Nat]
      BY <2>1
         DEF LoadStep, Take, Look, Promote, LockWrite, Evict, LockArtifact, Reuse, Publish, Request, Check, Interrupted,
             LockRead, Finish, ProcessCrashes
    <2>7. asPart' \in [Files -> Partials]
      <3>1. [len |-> 0, good |-> TRUE] \in Partials
        BY StoreAssumption DEF Partials
      <3>2. CASE Request(p)
        <4>1. asFile[p] \in Files
          BY <3>2 DEF Request, StoreInv, FilesNamed, Writing
        <4>2. QED
          BY <3>2, <4>1, RequestKeepsPartial
      <3>3. CASE Reuse(p)
        BY <3>1, <3>3 DEF Reuse, Publish
      <3>4. CASE Check(p)
        <4>1. asFile[p] \in Files
          BY <3>4 DEF Check, StoreInv, FilesNamed, Writing
        <4>2. Usable(asPart[asFile[p]]) \in Partials
          BY <4>1, PartialKept
        <4>3. QED
          BY <3>1, <3>4, <4>2 DEF Check, Publish
      <3>5. CASE Interrupted(p)
        <4>1. asFile[p] \in Files
          BY <3>5 DEF Interrupted, StoreInv, FilesNamed, Writing
        <4> DEFINE new == IF asPart[asFile[p]].len > Size THEN [len |-> 0, good |-> TRUE] ELSE asPart[asFile[p]]
        <4>2. new \in Partials
          BY <4>1, PartialKept
        <4>3. asPart' = [asPart EXCEPT ![asFile[p]] = new]
          BY <3>5 DEF Interrupted
        <4> HIDE DEF new
        <4>4. QED
          BY <4>2, <4>3
      <3>6. CASE UNCHANGED asPart
        BY <3>6
      <3>7. QED
        BY <2>1, <3>2, <3>3, <3>4, <3>5, <3>6
           DEF LoadStep, Take, Look, Promote, LockWrite, Evict, LockArtifact, LockRead, Finish, ProcessCrashes
    <2>8. QED
      BY <2>2, <2>3, <2>4, <2>5, <2>6, <2>7
  <1>3. QED
    BY <1>1, <1>2

\* An acquisition has the cache for itself and began with an empty one: what it has
\* handled is verified in its own snapshot, and a file that is there has no partial left.
AcquirerFits(p) ==
  /\ asPc[p] \notin {"promote", "read", "load"} /\ asRoot[p] \in {"none", "own"} /\ asResumed[p] <= MaxResumptions
  /\ asPc[p] \in {"written", "interrupted"} => asStore["own"][asFile[p]] = "absent"
  /\ asPc[p] \notin {"failed", "refused"} =>
       \A f \in Files \ asLeft[p] :
         asPc[p] \in {"idle", "kept", "done"} \/ f # asFile[p] => asStore["own"][f] = "good" /\ asRoot[p] = "own"
  /\ asPc[p] = "done" => asLeft[p] = {}
OwnFits ==
  \A f \in Files : /\ asStore["own"][f] \in {"absent", "good"}
                   /\ asStore["own"][f] = "good" => asPart[f].len = 0
HubEmpty == \A f \in Files : asStore["hub"][f] = "absent"
NotBegun == \A p \in Acquirers : asPc[p] \in {"idle", "refused"} /\ asLeft[p] = Files
WorkersIdle == \A w \in Workers : asPc[w] = "idle" /\ asLeft[w] = {}
Acquiring == WorkersIdle /\ OwnFits /\ (HubEmpty \/ NotBegun) /\ \A p \in Acquirers : AcquirerFits(p)
AcquirersIdle == \A p \in Acquirers : asPc[p] = "idle" /\ asLeft[p] = {}

AcquisitionInv == StoreInv /\ StoreRest /\ (Acquiring \/ AcquirersIdle)

\* What every step of p leaves alone of the others, and when it moves at all.
LEMMA OthersLeft ==
  ASSUME StoreInv, StoreRest, NEW p \in Processes, LoadStep(p) \/ ProcessCrashes(p)
  PROVE  /\ \A q \in Processes \ {p} : asLeft'[q] = asLeft[q] /\ asResumed'[q] = asResumed[q]
         /\ asPc[p] # "idle" \/ asLeft[p] # {}
  BY DEF StoreInv, StoreTypes, StoreRest, LoadStep, Take, Look, Promote, LockWrite, Evict, LockArtifact, Reuse, Publish,
         Request, Check, Interrupted, LockRead, Finish, ProcessCrashes

\* The file an acquisition is at.
LEMMA AtFile ==
  ASSUME StoreInv, NEW p \in Acquirers, asPc[p] \in Writing \cup {"look"} PROVE asFile[p] \in Files
  BY DEF StoreInv, FilesNamed, Processes

\* What a verified file it publishes changes.
LEMMA PublishedFile ==
  ASSUME StoreInv, StoreRest, NEW p \in Acquirers, AcquirerFits(p), Publish(p), asFile[p] \in Files, asPart[asFile[p]].good
  PROVE  /\ asStore'["hub"] = asStore["hub"] /\ asStore'["own"] = [asStore["own"] EXCEPT ![asFile[p]] = "good"]
         /\ asPart' = [asPart EXCEPT ![asFile[p]] = [len |-> 0, good |-> TRUE]]
         /\ asRoot' = [asRoot EXCEPT ![p] = "own"] /\ Goto(p, "kept")
  <1>1. Target(p) = "own" /\ After(p) = "kept"
    BY DEF AcquirerFits, Target, After
  <1>2. QED
    BY <1>1 DEF StoreInv, StoreTypes, Publish

\* What a step of an acquisition does to the two roots and the partials: only verified
\* files are added, each by the one who holds the exclusive lock.
OwnGrows(p) ==
  \A f \in Files : /\ asStore'["own"][f] = asStore["own"][f] \/ (f = asFile[p] /\ asStore'["own"][f] = "good")
                   /\ asStore["own"][f] = "good" => asStore'["own"][f] = "good"
\* An acquirer alone on the cache changes its own files only.
LEMMA OwnKept ==
  ASSUME StoreInv, StoreRest, Acquiring, NEW p \in Acquirers, LoadStep(p) \/ ProcessCrashes(p)
  PROVE  /\ OwnFits' /\ OwnGrows(p)
         /\ asStore' # asStore => asPc[p] \in Writing
         /\ HubEmpty => HubEmpty'
  <1> USE DEF Acquiring
  <1>0. AcquirerFits(p)
    OBVIOUS
  <1>1. CASE UNCHANGED <<asStore, asPart>>
    BY <1>1 DEF OwnFits, OwnGrows, HubEmpty
  <1>2. CASE Evict(p)
    <2>1. PICK gone \in SUBSET Cached :
             asStore' = [asStore EXCEPT !["hub"] = [f \in Files |-> IF f \in gone THEN "absent" ELSE @[f]]]
      BY <1>2 DEF Evict
    <2> DEFINE hub == [f \in Files |-> IF f \in gone THEN "absent" ELSE asStore["hub"][f]]
    <2>2. asStore' = [asStore EXCEPT !["hub"] = hub]
      BY <2>1
    <2>3. HubEmpty => \A f \in Files : hub[f] = "absent"
      BY DEF HubEmpty
    <2> HIDE DEF hub
    <2>4. asStore'["own"] = asStore["own"] /\ asStore'["hub"] = hub
      BY <2>2 DEF StoreInv, StoreTypes
    <2>5. asPc[p] \in Writing /\ asPart' = asPart
      BY <1>2 DEF Evict, Writing
    <2>6. QED
      BY <2>3, <2>4, <2>5 DEF OwnFits, OwnGrows, HubEmpty
  <1>3. CASE Publish(p) /\ asFile[p] \in Files /\ asPart[asFile[p]].good /\ asPc[p] \in Writing
    <2>1. /\ asStore'["hub"] = asStore["hub"] /\ asStore'["own"] = [asStore["own"] EXCEPT ![asFile[p]] = "good"]
          /\ asPart' = [asPart EXCEPT ![asFile[p]] = [len |-> 0, good |-> TRUE]]
      BY <1>0, <1>3, PublishedFile
    <2>2. asStore["own"] \in [Files -> {"absent", "good", "bad"}] /\ asPart \in [Files -> Partials]
      BY DEF StoreInv, StoreTypes, StoreRest
    <2>3. OwnFits' /\ OwnGrows(p)
      BY <2>1, <2>2 DEF OwnFits, OwnGrows
    <2>4. QED
      BY <1>3, <2>1, <2>3 DEF HubEmpty
  <1>4. CASE asStore' = asStore /\ asFile[p] \in Files /\ asStore["own"][asFile[p]] = "absent"
             /\ \A f \in Files \ {asFile[p]} : asPart'[f] = asPart[f]
    BY <1>4 DEF OwnFits, OwnGrows, HubEmpty
  <1>5. CASE Reuse(p) /\ ~UNCHANGED <<asStore, asPart>>
    <2>1. asFile[p] \in Files /\ asPc[p] \in Writing
      BY <1>5, AtFile DEF Reuse, Writing
    <2>2. Publish(p) /\ asPart[asFile[p]].good
      BY <1>5 DEF Reuse, Verified
    <2>3. QED
      BY <1>3, <2>1, <2>2
  <1>6. CASE Check(p)
    <2>1. asFile[p] \in Files /\ asPc[p] \in Writing /\ asStore["own"][asFile[p]] = "absent"
      BY <1>0, <1>6, AtFile DEF Check, Writing, AcquirerFits
    <2>2. CASE Publish(p) /\ asPart[asFile[p]].good
      BY <1>3, <2>1, <2>2
    <2>3. CASE asPart' = [asPart EXCEPT ![asFile[p]] = Usable(@)] /\ UNCHANGED asStore
      BY <1>4, <2>1, <2>3 DEF StoreRest
    <2>4. QED
      BY <1>6, <2>2, <2>3 DEF Check, Verified
  <1>7. CASE Request(p)
    <2>1. asFile[p] \in Files /\ Target(p) = "own"
      BY <1>0, <1>7, AtFile DEF Request, Writing, AcquirerFits, Target
    <2>2. asStore' = asStore /\ asStore["own"][asFile[p]] = "absent"
      BY <1>7, <2>1 DEF Request
    <2>3. \E part : asPart' = [asPart EXCEPT ![asFile[p]] = part]
      BY <1>7 DEF Request
    <2>4. QED
      BY <1>4, <2>1, <2>2, <2>3 DEF StoreRest
  <1>8. CASE Interrupted(p)
    <2>1. asFile[p] \in Files /\ asStore["own"][asFile[p]] = "absent" /\ asStore' = asStore
      BY <1>0, <1>8, AtFile DEF Interrupted, Writing, AcquirerFits
    <2>2. QED
      BY <1>4, <1>8, <2>1 DEF Interrupted, StoreRest
  <1>9. ~Promote(p)
    BY <1>0 DEF Promote, AcquirerFits
  <1>10. QED
    BY <1>1, <1>2, <1>5, <1>6, <1>7, <1>8, <1>9
       DEF LoadStep, Take, Look, LockWrite, LockArtifact, LockRead, Finish, ProcessCrashes

\* Each action leaves an acquisition as it has to be.
LEMMA AcquirerKept ==
  ASSUME StoreInv, StoreRest, Acquiring, NEW p \in Acquirers, LoadStep(p) \/ ProcessCrashes(p)
  PROVE  AcquirerFits(p)'
  <1> USE DEF Goto
  <1>0. /\ AcquirerFits(p) /\ p \in Processes /\ OwnFits
        /\ asPc \in [Processes -> StorePcs] /\ asFile \in [Processes -> Files \cup {NoFile}]
        /\ asRoot \in [Processes -> {"none", "hub", "own"}] /\ asLeft \in [Processes -> SUBSET Files]
        /\ asResumed \in [Processes -> Nat]
    BY DEF Acquiring, StoreInv, StoreTypes, StoreRest, Processes
  <1>1. OwnGrows(p)
    BY OwnKept
  <1>2. CASE Take(p)
    BY <1>0, <1>1, <1>2 DEF Take, AcquirerFits, OwnGrows
  <1>3. CASE Look(p)
    <2>1. asFile[p] \in Files /\ asStore' = asStore /\ asFile' = asFile /\ asLeft' = asLeft /\ asResumed' = asResumed
      BY <1>3, AtFile DEF Look
    <2>2. CASE asRoot[p] = "own"
      <3>1. \/ asStore["own"][asFile[p]] = "good" /\ asPc'[p] = "kept" /\ asRoot'[p] = "own"
            \/ asPc'[p] \in {"promote", "write"} /\ asRoot' = asRoot /\ (asPc'[p] = "promote" => asFile[p] \in Cached)
        BY <1>0, <1>3, <2>1, <2>2 DEF Look, OwnFits, After
      <3>2. asFile[p] \notin Cached
        BY <1>3 DEF Acquiring, HubEmpty, NotBegun, Cached, Look
      <3>3. QED
        BY <1>0, <1>3, <2>1, <2>2, <3>1, <3>2 DEF AcquirerFits, Look
    <2>3. CASE asRoot[p] = "none"
      <3>1. asStore["hub"][asFile[p]] = "absent"
        BY <1>3, <2>1 DEF Acquiring, HubEmpty, NotBegun, Look
      <3>2. asPc'[p] = "write" /\ asRoot' = asRoot
        BY <1>0, <1>3, <2>3, <3>1 DEF Look
      <3>3. QED
        BY <1>0, <1>3, <2>1, <2>3, <3>2 DEF AcquirerFits, Look
    <2>4. QED
      BY <1>0, <2>2, <2>3 DEF AcquirerFits
  <1>4. CASE LockWrite(p) \/ LockArtifact(p)
    BY <1>0, <1>4 DEF LockWrite, LockArtifact, AcquirerFits
  <1>5. CASE Evict(p)
    <2>1. asPc'[p] \in {"artifact", "failed"} /\ UNCHANGED <<asFile, asRoot, asLeft, asResumed>> /\ asPc[p] = "evict"
      BY <1>0, <1>5 DEF Evict
    <2>2. QED
      BY <1>0, <1>1, <2>1 DEF AcquirerFits, OwnGrows
  <1>6. CASE asPc[p] \in {"fetch", "written"} /\ asPc'[p] = "kept" /\ asRoot'[p] = "own" /\ asStore'["own"][asFile[p]] = "good"
             /\ UNCHANGED <<asFile, asLeft, asResumed>>
    BY <1>0, <1>1, <1>6 DEF AcquirerFits, OwnGrows
  <1>7. CASE Publish(p) /\ asFile[p] \in Files /\ asPart[asFile[p]].good
             /\ asPc[p] \in {"fetch", "written"} /\ UNCHANGED <<asFile, asLeft, asResumed>>
    <2>1. /\ asStore'["own"] = [asStore["own"] EXCEPT ![asFile[p]] = "good"]
          /\ asRoot' = [asRoot EXCEPT ![p] = "own"] /\ Goto(p, "kept")
      BY <1>0, <1>7, PublishedFile
    <2>2. asStore'["own"][asFile[p]] = "good" /\ asRoot'[p] = "own" /\ asPc'[p] = "kept"
      BY <1>0, <1>7, <2>1 DEF StoreInv, StoreTypes
    <2>3. QED
      BY <1>6, <1>7, <2>2
  <1>8. CASE Reuse(p)
    <2>1. asFile[p] \in Files /\ Target(p) = "own" /\ After(p) = "kept"
      BY <1>0, <1>8, AtFile DEF Reuse, Writing, AcquirerFits, Target, After
    <2>2. CASE Publish(p) /\ Verified(asPart[asFile[p]])
      BY <1>7, <1>8, <2>1, <2>2 DEF Reuse, Verified
    <2>3. CASE asStore["own"][asFile[p]] = "good" /\ Goto(p, "kept") /\ asRoot' = [asRoot EXCEPT ![p] = "own"]
               /\ UNCHANGED asStore
      BY <1>0, <1>6, <1>8, <2>3 DEF Reuse
    <2>4. QED
      BY <1>8, <2>1, <2>2, <2>3 DEF Reuse
  <1>9. CASE Request(p)
    <2>1. /\ asPc[p] = "fetch" /\ asPc'[p] \in {"interrupted", "failed", "written"}
          /\ asStore' = asStore /\ UNCHANGED <<asFile, asRoot, asLeft, asResumed>>
          /\ asStore[Target(p)][asFile[p]] = "absent"
      BY <1>0, <1>9 DEF Request
    <2>2. Target(p) = "own"
      BY <1>0 DEF AcquirerFits, Target
    <2>3. QED
      BY <1>0, <2>1, <2>2 DEF AcquirerFits
  <1>10. CASE Check(p)
    <2>1. asFile[p] \in Files
      BY <1>10, AtFile DEF Check, Writing
    <2>2. CASE Publish(p) /\ Verified(asPart[asFile[p]])
      BY <1>7, <1>10, <2>1, <2>2 DEF Check, Verified
    <2>3. CASE Goto(p, "failed") /\ UNCHANGED <<asStore, asRoot>>
      BY <1>0, <1>10, <2>3 DEF Check, AcquirerFits
    <2>4. QED
      BY <1>10, <2>2, <2>3 DEF Check
  <1>11. CASE Interrupted(p)
    <2>1. /\ asPc[p] = "interrupted" /\ UNCHANGED <<asStore, asFile, asRoot, asLeft>>
          /\ \/ asResumed[p] < MaxResumptions /\ asResumed'[p] = asResumed[p] + 1 /\ asPc'[p] = "look"
             \/ asPc'[p] = "failed" /\ asResumed' = asResumed
      BY <1>0, <1>11 DEF Interrupted, MayResume
    <2>2. asResumed'[p] <= MaxResumptions
      BY <1>0, <2>1, StoreAssumption DEF AcquirerFits
    <2>3. QED
      BY <1>0, <2>1, <2>2 DEF AcquirerFits
  <1>12. CASE Finish(p)
    <2>1. /\ asPc[p] = "kept" /\ UNCHANGED <<asStore, asRoot, asLeft, asResumed>>
          /\ asPc'[p] \in {"done", "idle"} /\ (asPc'[p] = "done" => asLeft[p] = {})
      BY <1>0, <1>12 DEF Finish, AcquirerFits
    <2>2. QED
      BY <1>0, <2>1 DEF AcquirerFits
  <1>13. CASE ProcessCrashes(p)
    <2>1. asPc'[p] = "idle" /\ asRoot'[p] = "none" /\ asLeft'[p] = Files /\ asResumed'[p] = 0
      BY <1>0, <1>13 DEF ProcessCrashes
    <2>2. QED
      BY <2>1, StoreAssumption DEF AcquirerFits
  <1>14. ~Promote(p) /\ ~LockRead(p)
    BY <1>0 DEF Promote, LockRead, AcquirerFits
  <1>15. QED
    BY <1>2, <1>3, <1>4, <1>5, <1>8, <1>9, <1>10, <1>11, <1>12, <1>13, <1>14 DEF LoadStep

\* A step of one acquisition leaves the others as they have to be: two of them never write
\* at the same time.
LEMMA AcquiringKept ==
  ASSUME StoreInv, StoreRest, Acquiring, NEW p \in Acquirers, LoadStep(p) \/ ProcessCrashes(p)
  PROVE  Acquiring'
  <1>0. p \in Processes /\ Acquirers \subseteq Processes /\ Workers \subseteq Processes /\ p \notin Workers
    BY StoreAssumption DEF Processes
  <1>1. \A q \in Processes \ {p} :
           asPc'[q] = asPc[q] /\ asFile'[q] = asFile[q] /\ asRoot'[q] = asRoot[q] /\ asLeft'[q] = asLeft[q]
           /\ asResumed'[q] = asResumed[q]
    BY <1>0, OthersStay, OthersLeft
  <1>2. OwnFits' /\ OwnGrows(p) /\ (asStore' # asStore => asPc[p] \in Writing) /\ (HubEmpty => HubEmpty')
    BY OwnKept
  <1>3. WorkersIdle'
    BY <1>0, <1>1 DEF Acquiring, WorkersIdle
  <1>4. HubEmpty' \/ NotBegun'
    <2>1. CASE HubEmpty
      BY <1>2, <2>1
    <2>2. CASE NotBegun /\ ~HubEmpty
      <3>1. asPc[p] \in {"idle", "refused"} /\ asLeft[p] = Files
        BY <2>2 DEF NotBegun
      <3>2. Take(p)
        BY <3>1 DEF LoadStep, Look, Promote, LockWrite, Evict, LockArtifact, Reuse, Request, Check, Interrupted,
                    LockRead, Finish, ProcessCrashes
      <3>3. ~CacheIsEmpty
        BY <2>2 DEF HubEmpty, CacheIsEmpty, Cached
      <3>4. asPc'[p] = "refused" /\ asLeft' = asLeft
        BY <1>0, <3>1, <3>2, <3>3 DEF Take, Goto, StoreRest
      <3>5. NotBegun'
        BY <1>0, <1>1, <2>2, <3>4 DEF NotBegun
      <3>6. QED
        BY <3>5
    <2>3. QED
      BY <2>1, <2>2 DEF Acquiring
  <1>5. ASSUME NEW q \in Acquirers \ {p} PROVE AcquirerFits(q)'
    <2>1. AcquirerFits(q) /\ q \in Processes \ {p}
      BY <1>0 DEF Acquiring
    <2>2. asPc[q] \in {"written", "interrupted"} => asStore' = asStore
      <3>1. ASSUME asPc[q] \in {"written", "interrupted"}, asPc[p] \in Writing PROVE FALSE
        BY <1>0, <2>1, <3>1 DEF StoreInv, LockExclusive, Writing
      <3>2. QED
        BY <1>2, <3>1
    <2>3. \A f \in Files : asStore["own"][f] = "good" => asStore'["own"][f] = "good"
      BY <1>2 DEF OwnGrows
    <2>4. QED
      BY <1>1, <2>1, <2>2, <2>3 DEF AcquirerFits
  <1>6. AcquirerFits(p)'
    BY AcquirerKept
  <1>7. QED
    BY <1>2, <1>3, <1>4, <1>5, <1>6 DEF Acquiring

\* The invariant holds in every state.
LEMMA AcquisitionAlways == StoreSpec => []AcquisitionInv
  <1>1. StoreInit => AcquisitionInv
    <2> SUFFICES ASSUME StoreInit PROVE AcquisitionInv
      OBVIOUS
    <2>1. StoreInv
      BY StoreInvInit
    <2>2. StoreRest
      <3>1. asFaults \in 0..MaxStoreFaults /\ asReaders \subseteq Workers /\ asArtifact \in [Files -> Processes \cup {NoOne}]
        BY StoreAssumption DEF StoreInit
      <3>2. asPart \in [Files -> Partials]
        BY StoreAssumption DEF StoreInit, Partials
      <3>3. asPc \in [Processes -> StorePcs] /\ \A p \in Acquirers : asPc[p] # "read"
        BY DEF StoreInit, StorePcs, Processes
      <3>4. asResumed \in [Processes -> Nat]
        BY DEF StoreInit
      <3>5. QED
        BY <3>1, <3>2, <3>3, <3>4 DEF StoreRest
    <2>3. PICK active \in {Workers, Acquirers} : asLeft = [p \in Processes |-> IF p \in active THEN Files ELSE {}]
      BY DEF StoreInit
    <2>4. \A p \in Processes : asPc[p] = "idle" /\ asRoot[p] = "none" /\ asResumed[p] = 0 /\ asLeft[p] \in {Files, {}}
      BY <2>3 DEF StoreInit
    <2>5. CASE active = Workers
      <3>1. AcquirersIdle
        BY <2>3, <2>4, <2>5, StoreAssumption DEF AcquirersIdle, Processes
      <3>2. QED
        BY <2>1, <2>2, <3>1 DEF AcquisitionInv
    <2>6. CASE active = Acquirers
      <3>1. WorkersIdle
        BY <2>3, <2>4, <2>6, StoreAssumption DEF WorkersIdle, Processes
      <3>2. \A p \in Acquirers : asPc[p] = "idle" /\ asLeft[p] = Files
        BY <2>3, <2>4, <2>6 DEF Processes
      <3>3. asStore["own"] = [f \in Files |-> "absent"]
        BY DEF StoreInit
      <3>4. OwnFits
        BY <3>3 DEF OwnFits
      <3>5. \A p \in Acquirers : AcquirerFits(p)
        BY <2>4, <3>2, StoreAssumption DEF AcquirerFits, Processes
      <3>6. QED
        BY <2>1, <2>2, <3>1, <3>2, <3>4, <3>5 DEF AcquisitionInv, Acquiring, NotBegun
    <2>7. QED
      BY <2>1, <2>2, <2>5, <2>6 DEF AcquisitionInv
  <1>2. AcquisitionInv /\ [StoreNext]_asVars => AcquisitionInv'
    <2> SUFFICES ASSUME AcquisitionInv, [StoreNext]_asVars PROVE (Acquiring \/ AcquirersIdle)'
      BY StoreStepKept, StoreRestKept DEF AcquisitionInv
    <2>1. CASE UNCHANGED asVars
      BY <2>1 DEF AcquisitionInv, Acquiring, AcquirersIdle, WorkersIdle, OwnFits, HubEmpty, NotBegun, AcquirerFits,
                  asVars, asLocks
    <2>2. CASE StoreNext
      <3>1. PICK p \in Processes : LoadStep(p) \/ ProcessCrashes(p)
        BY <2>2 DEF StoreNext
      <3>2. (asPc[p] # "idle" \/ asLeft[p] # {}) /\ StoreInv /\ StoreRest
            /\ \A q \in Processes \ {p} : asPc'[q] = asPc[q] /\ asLeft'[q] = asLeft[q]
        BY <3>1, OthersStay, OthersLeft DEF AcquisitionInv
      <3>3. CASE AcquirersIdle
        <4>1. p \notin Acquirers
          BY <3>2, <3>3 DEF AcquirersIdle
        <4>2. AcquirersIdle'
          BY <3>2, <3>3, <4>1 DEF AcquirersIdle, Processes
        <4>3. QED
          BY <4>2
      <3>4. CASE Acquiring
        <4>1. p \in Acquirers
          BY <3>2, <3>4 DEF Acquiring, WorkersIdle, Processes
        <4>2. QED
          BY <3>1, <3>2, <3>4, <4>1, AcquiringKept
      <3>5. QED
        BY <3>3, <3>4 DEF AcquisitionInv
    <2>3. QED
      BY <2>1, <2>2
  <1>3. QED
    BY <1>1, <1>2, PTL DEF StoreSpec

\* An acquisition that completes has every file verified in its snapshot, no partial left,
\* and resumed no more often than it may, whatever broke off, was answered wrongly or died
\* (acquire(), edge_acquisition.py); and every variable of the cache keeps its type.
THEOREM AcquisitionIsExact == StoreSpec => [](StoreTypeOK /\ AcquisitionExact)
  <1>1. AcquisitionInv => StoreTypeOK
    BY DEF AcquisitionInv, StoreInv, StoreTypes, StoreRest, StoreTypeOK, StorePcs, Partials
  <1>2. AcquisitionInv => AcquisitionExact
    BY DEF AcquisitionInv, Acquiring, AcquirersIdle, AcquirerFits, OwnFits, AcquisitionExact
  <1>3. QED
    BY <1>1, <1>2, AcquisitionAlways, PTL

-----------------------------------------------------------------------------
(* The measurement.  What the supervisor saw empty stays so, since a child *)
(* that was reaped takes no step; and the supervisor decides once.         *)

MeasurementFlags ==
  /\ emJob \in BOOLEAN /\ emClosed \in BOOLEAN /\ emClean \in BOOLEAN /\ emForced \in BOOLEAN
  /\ emProved \in BOOLEAN
MeasurementPlaces ==
  /\ emSup \in {"spawn", "contain", "feed", "wait", "grace", "forceFeed", "forceLate", "forceGrace",
                "read", "closing", "over"}
  /\ emChild \in Gone \cup {"suspended", "started", "fed", "loaded", "measured", "broken", "unclosed",
                            "writing", "failing", "dead"}
  /\ emAlive \subseteq Spawned /\ emResult \in {"none", "result", "error"}
  /\ emRecord \in {"none", "refused", "failed", "passed"}
MeasurementTypes == MeasurementFlags /\ MeasurementPlaces /\ emFaults \in 0..MaxMeasureFaults
SeenEmpty == emProved => emChild \in Gone /\ emAlive = {} /\ emSup # "spawn"
Decided ==
  /\ emClean => emClosed
  /\ emRecord = "passed" =>
       emProved /\ emClosed /\ emResult = "result" /\ ~emForced /\ emSup \in {"closing", "over"}

\* Every step keeps the types.
LEMMA MeasurementTypesKept == MeasurementTypes /\ [MeasurementNext]_emVars => MeasurementTypes'
  <1> SUFFICES ASSUME MeasurementTypes, [MeasurementNext]_emVars PROVE MeasurementTypes'
    OBVIOUS
  <1> USE DEF MeasurementTypes
  <1>1. emFaults' \in 0..MaxMeasureFaults
    <2>1. emFaults' = emFaults \/ Fault
      BY DEF MeasurementNext, ChildStep, SupervisorStep, Load, Measure, CloseRuntime, ObserveCleanup, Write,
             Spawn, Contain, Feed, Await, Grace, ForceExit, Read, CloseContainment, ChildCrashes, Interrupt, End, emVars
    <2>2. QED
      BY <2>1, MeasurementAssumption DEF Fault
  <1>2. MeasurementFlags'
      BY DEF MeasurementNext, ChildStep, SupervisorStep, Load, Measure, CloseRuntime, ObserveCleanup, Write,
             Spawn, Contain, Feed, Await, Grace, ForceExit, Read, CloseContainment, ChildCrashes, Interrupt, End, emVars,
             emSupervisor, emRuntime, ObservedClean, MeasurementFlags
  <1>3. MeasurementPlaces'
    <2> USE DEF MeasurementPlaces
    <2>1. CASE ChildStep
      BY <2>1 DEF ChildStep, Load, Measure, CloseRuntime, ObserveCleanup, Write, ChildGoto, emSupervisor, emRuntime
    <2>2. CASE SupervisorStep
      BY <2>2 DEF SupervisorStep, Spawn, Contain, Feed, Await, Grace, ForceExit, Read, CloseContainment, SupGoto, ChildGoto, RefuseRecord, emRuntime, Gone
    <2>3. QED
      BY <2>1, <2>2 DEF MeasurementNext, ChildCrashes, Interrupt, End, emVars, emSupervisor, emRuntime
  <1>4. QED
    BY <1>1, <1>2, <1>3

\* What was seen empty stays empty: a child that was reaped takes no step.
LEMMA SeenEmptyKept ==
  MeasurementTypes /\ SeenEmpty /\ [MeasurementNext]_emVars => SeenEmpty'
  <1> SUFFICES ASSUME MeasurementTypes, SeenEmpty, [MeasurementNext]_emVars, emProved'
               PROVE  emChild' \in Gone /\ emAlive' = {} /\ emSup' # "spawn"
    BY DEF SeenEmpty
  <1>1. CASE ChildStep \/ ChildCrashes \/ \E h \in Spawned : End(h)
    BY <1>1 DEF SeenEmpty, Gone, ChildRuns, ChildStep, Load, Measure, CloseRuntime, ObserveCleanup, Write, ChildCrashes, End,
                ChildGoto, emSupervisor
  <1>2. CASE ForceExit
    BY <1>2 DEF ForceExit, Gone
  <1>3. CASE Grace
    BY <1>3 DEF Grace, Contained, SupGoto, emRuntime, SeenEmpty
  <1>4. CASE Spawn \/ Contain \/ Feed \/ Await \/ Read \/ CloseContainment \/ Interrupt
    BY <1>4 DEF SeenEmpty, Spawn, Contain, Feed, Await, Read, CloseContainment, Interrupt, SupGoto, ChildGoto,
                RefuseRecord, Gone, ChildRuns, emRuntime
  <1>5. CASE UNCHANGED emVars
    BY <1>5 DEF emVars, SeenEmpty
  <1>6. QED
    BY <1>1, <1>2, <1>3, <1>4, <1>5 DEF MeasurementNext, SupervisorStep

\* The supervisor decides once, on what it has seen.
LEMMA DecidedKept ==
  MeasurementTypes /\ SeenEmpty /\ Decided /\ [MeasurementNext]_emVars => Decided'
  <1> SUFFICES ASSUME MeasurementTypes, SeenEmpty, Decided, [MeasurementNext]_emVars PROVE Decided'
    OBVIOUS
  <1>1. CASE ChildStep \/ ChildCrashes \/ \E h \in Spawned : End(h)
    <2>1. UNCHANGED <<emRecord, emProved, emForced, emSup>> /\ (emClosed => emClosed')
      BY <1>1 DEF ChildStep, Load, Measure, CloseRuntime, ObserveCleanup, Write, ChildCrashes, End, emSupervisor, emRuntime
    <2>2. emClean' => emClean \/ emClosed'
      <3>1. CASE ObserveCleanup
        <4>1. emClosed' = emClosed /\ (emClean' => ObservedClean)
          BY <3>1, Zenon DEF ObserveCleanup
        <4>2. QED
          BY <4>1 DEF ObservedClean
      <3>2. CASE Load \/ Measure \/ CloseRuntime \/ Write \/ ChildCrashes \/ \E h \in Spawned : End(h)
        BY <3>2 DEF Load, Measure, CloseRuntime, Write, ChildCrashes, End, emRuntime
      <3>3. QED
        BY <1>1, <3>1, <3>2 DEF ChildStep
    <2>3. emChild \in Gone => emResult' = emResult
      BY <1>1 DEF Gone, ChildRuns, ChildStep, Load, Measure, CloseRuntime, ObserveCleanup, Write, ChildCrashes, End,
                  emRuntime
    <2>4. QED
      BY <2>1, <2>2, <2>3 DEF SeenEmpty, Decided
  <1>2. CASE ForceExit \/ Grace \/ Spawn \/ Contain \/ Feed \/ Await
    BY <1>2 DEF Decided, ForceExit, Grace, Spawn, Contain, Feed, Await, SupGoto, RefuseRecord, emRuntime
  <1>3. CASE Read
    BY <1>3 DEF Decided, Read, Passed, SupGoto, emRuntime
  <1>4. CASE CloseContainment \/ Interrupt
    BY <1>4 DEF Decided, CloseContainment, Interrupt, SupGoto, emRuntime
  <1>5. CASE UNCHANGED emVars
    BY <1>5 DEF emVars, Decided
  <1>6. QED
    BY <1>1, <1>2, <1>3, <1>4, <1>5 DEF MeasurementNext, SupervisorStep

\* A measurement that is accepted came from a child that closed its runtime and was seen to
\* leave no process, was not forced to end, and wrote a result (supervise_edge_measurement(),
\* edge_supervisor.py).
THEOREM AcceptedMeasurementIsClean == MeasurementSpec => [](MeasurementTypeOK /\ AcceptedIsClean)
  <1> DEFINE Inv == MeasurementTypes /\ SeenEmpty /\ Decided
  <1>1. MeasurementInit => Inv
    <2> SUFFICES ASSUME MeasurementInit PROVE Inv
      OBVIOUS
    <2>1. MeasurementFlags
      BY DEF MeasurementInit, MeasurementFlags
    <2>2. MeasurementPlaces
      BY DEF MeasurementInit, MeasurementPlaces, Gone
    <2>3. emFaults \in 0..MaxMeasureFaults
      BY MeasurementAssumption DEF MeasurementInit
    <2>4. SeenEmpty /\ Decided
      BY DEF MeasurementInit, SeenEmpty, Decided
    <2>5. QED
      BY <2>1, <2>2, <2>3, <2>4 DEF MeasurementTypes
  <1>2. Inv /\ [MeasurementNext]_emVars => Inv'
    BY MeasurementTypesKept, SeenEmptyKept, DecidedKept
  <1>3. Inv => MeasurementTypeOK /\ AcceptedIsClean
    <2> SUFFICES ASSUME Inv PROVE MeasurementTypeOK /\ AcceptedIsClean
      OBVIOUS
    <2>1. {emJob, emClosed, emClean, emForced, emProved} \subseteq BOOLEAN
      BY Zenon DEF MeasurementTypes, MeasurementFlags
    <2>2. MeasurementTypeOK
      BY <2>1 DEF MeasurementTypes, MeasurementPlaces, MeasurementTypeOK
    <2>3. AcceptedIsClean
      BY DEF SeenEmpty, Decided, AcceptedIsClean, Contained
    <2>4. QED
      BY <2>2, <2>3
  <1>4. QED
    BY <1>1, <1>2, <1>3, PTL DEF MeasurementSpec

-----------------------------------------------------------------------------
(* Discovery.  A group's thread has one DHT at a time and makes another    *)
(* only when that one is gone; its own key is registered before any thread *)
(* counts demand.                                                          *)

ThreadPlaces == {"off", "check", "make", "register", "lookup", "looking", "demand", "wait", "end", "over"}
DiscoveryFlags == dcStop \in BOOLEAN /\ dcReporting \in BOOLEAN
DhtTypes ==
  /\ dcMine \in [Groups -> 0..MaxDhts] /\ dcDhts \in [Groups -> 0..MaxDhts] /\ dcMade \in [Groups -> 0..MaxDhts]
  /\ dcUp \subseteq Groups \X (1..MaxDhts) /\ dcSnapshot \subseteq Groups \X (1..MaxDhts)
RoundTypes ==
  /\ dcThread \in [Groups -> ThreadPlaces] /\ dcLeft \in [Groups -> SUBSET Targets]
  /\ dcIo \in [Groups -> {"free", "thread", "publisher"}]
WireTypes ==
  /\ dcPub.model \in Targets \cup {"none"} /\ dcPub.dht \in 0..MaxDhts /\ dcPub.what \in {"none", "intent", "demand"}
  /\ dcPub.pc \in {"idle", "lock", "store", "stored"}
  /\ dcPub = [model |-> dcPub.model, dht |-> dcPub.dht, what |-> dcPub.what, pc |-> dcPub.pc]
  /\ dcPub.pc # "idle" => dcPub.model \in Targets
  /\ dcNetwork \subseteq Targets
ResultTypes ==
  dcRemote \in [Targets -> SUBSET DemandKeys] /\ dcError \subseteq Targets /\ dcKnown \subseteq DemandKeys
MainTypes ==
  dcMain \in {"build", "keys", "start", "serving", "placementStopped", "closing", "closed", "failed"}
DiscoveryTypes ==
  DiscoveryFlags /\ DhtTypes /\ RoundTypes /\ WireTypes /\ ResultTypes /\ MainTypes /\ dcFaults \in 0..MaxDhtFaults

\* A thread that looks a model up has one left to look up.
ModelLeft == \A g \in Groups : dcThread[g] \in {"looking", "demand"} => dcLeft[g] # {}

\* Threads run between the start and the close only.
ThreadsOff == dcMain \in {"build", "keys", "start", "failed"} => \A g \in Groups : dcThread[g] = "off"

\* What a node that reports has published is excluded, from the first count on.
OwnKnown ==
  /\ dcMain = "build" => \A m \in Targets : dcRemote[m] = {}
  /\ dcReporting => "own" \in dcKnown /\ \A m \in Targets : "own" \notin dcRemote[m]

\* The only DHT of a group that may be up is the one its thread has.
OneDht ==
  /\ \A d \in dcUp : d[2] = dcMine[d[1]]
  /\ \A g \in Groups : /\ dcThread[g] = "make" => Mine(g) \notin dcUp
                       /\ dcThread[g] = "over" => dcMine[g] = 0

DiscoveryInv == DiscoveryTypes /\ ModelLeft /\ ThreadsOff /\ OwnKnown /\ OneDht

\* It holds before the threads start.
LEMMA DiscoveryStarts == DiscoveryInit => DiscoveryInv
  <1> SUFFICES ASSUME DiscoveryInit PROVE DiscoveryInv
    OBVIOUS
  <1> USE DiscoveryAssumption DEF DiscoveryInit
  <1>1. DiscoveryFlags
    BY DEF DiscoveryFlags
  <1>2. DhtTypes
    BY DEF DhtTypes
  <1>3. RoundTypes
    BY DEF RoundTypes, ThreadPlaces
  <1>4. WireTypes
    BY DEF WireTypes, NotPublishing
  <1>5. ResultTypes /\ MainTypes /\ dcFaults \in 0..MaxDhtFaults
    BY DEF ResultTypes, MainTypes
  <1>6. ModelLeft /\ ThreadsOff /\ OwnKnown /\ OneDht
    BY DEF ModelLeft, ThreadsOff, OwnKnown, OneDht
  <1>7. QED
    BY <1>1, <1>2, <1>3, <1>4, <1>5, <1>6 DEF DiscoveryInv, DiscoveryTypes

\* The main thread starts and stops the others.
LEMMA MainKept == ASSUME DiscoveryInv, MainStep PROVE DiscoveryInv'
  <1> USE DEF DiscoveryInv, DiscoveryTypes
  <1> USE DEF BuildNode, LoadCredentials, StartNode, StopPlacement, BeginDiscoveryClose, EndDiscoveryClose, ShutDownDht,
              PrepareReporting, dcRound, dcTables, dcWire, dcResults
  <1>1. DiscoveryFlags'
    BY DEF MainStep, DiscoveryFlags
  <1>2. DhtTypes'
    BY DEF MainStep, DhtTypes
  <1>3. RoundTypes' /\ ModelLeft'
    BY DEF MainStep, RoundTypes, ModelLeft, ThreadPlaces
  <1>4. WireTypes'
    BY DEF MainStep, WireTypes
  <1>5. ResultTypes' /\ MainTypes' /\ dcFaults' = dcFaults
    BY DEF MainStep, ResultTypes, MainTypes, DemandKeys
  <1>6. ThreadsOff'
    BY DEF MainStep, ThreadsOff, RoundTypes
  <1>7. OwnKnown'
    BY DEF MainStep, OwnKnown
  <1>8. OneDht'
    BY DEF MainStep, OneDht, Mine, RoundTypes
  <1>9. QED
    BY <1>1, <1>2, <1>3, <1>4, <1>5, <1>6, <1>7, <1>8

\* The model a thread looks up next is one of its group's.
LEMMA NextIsTarget ==
  ASSUME DiscoveryInv, NEW g \in Groups, dcThread[g] \in {"looking", "demand"}
  PROVE  NextModel(g) \in Targets
  BY DEF DiscoveryInv, DiscoveryTypes, RoundTypes, ModelLeft, NextModel

\* Faults are counted.
LEMMA FaultsBounded ==
  ASSUME DiscoveryTypes, DhtFails \/ dcFaults' = dcFaults
  PROVE  dcFaults' \in 0..MaxDhtFaults
  BY DiscoveryAssumption DEF DiscoveryTypes, DhtFails

\* A group's thread has one DHT at a time.
LEMMA GroupKept == ASSUME DiscoveryInv, NEW g \in Groups, GroupStep(g) PROVE DiscoveryInv'
  <1> USE DEF DiscoveryInv, DiscoveryTypes
  <1> USE DEF CheckDht, MakeDht, RegisterDht, TakeIoLock, LookUp, CountDemand, EndRound, Waited, EndOfThread, EndThread,
              ThreadSteps, InError, dcNode, dcTables, dcWire, dcResults
  <1>1. UNCHANGED <<dcMain, dcReporting, dcKnown, dcStop, dcSnapshot, dcPub, dcNetwork>>
    BY DEF GroupStep
  <1>2. dcFaults' \in 0..MaxDhtFaults
    <2>1. DhtFails \/ dcFaults' = dcFaults
      BY DEF GroupStep
    <2>2. QED
      BY <2>1, FaultsBounded
  <1>3. DhtTypes'
    <2>1. CASE MakeDht(g)
      <3>1. CASE dcMade[g] < MaxDhts /\ dcMade' = [dcMade EXCEPT ![g] = @ + 1]
                 /\ dcMine' = [dcMine EXCEPT ![g] = dcMade[g] + 1] /\ dcUp' = dcUp \cup {<<g, dcMade[g] + 1>>}
        <4>1. dcMade[g] + 1 \in 1..MaxDhts /\ dcMade[g] + 1 \in 0..MaxDhts
          BY <3>1, DiscoveryAssumption DEF DhtTypes
        <4>2. dcMade' = [dcMade EXCEPT ![g] = dcMade[g] + 1] /\ dcDhts' = dcDhts /\ dcSnapshot' = dcSnapshot
          BY <1>1, <2>1, <3>1
        <4> DEFINE n == dcMade[g] + 1
        <4> HIDE DEF n
        <4>3. n \in 1..MaxDhts /\ n \in 0..MaxDhts /\ dcMade' = [dcMade EXCEPT ![g] = n]
              /\ dcMine' = [dcMine EXCEPT ![g] = n] /\ dcUp' = dcUp \cup {<<g, n>>}
          BY <3>1, <4>1, <4>2 DEF n
        <4>4. QED
          BY <4>2, <4>3 DEF DhtTypes
      <3>2. CASE dcMine' = [dcMine EXCEPT ![g] = 0] /\ UNCHANGED <<dcMade, dcUp>>
        BY <1>1, <2>1, <3>2, DiscoveryAssumption DEF DhtTypes
      <3>3. QED
        BY <2>1, <3>1, <3>2
    <2>2. CASE RegisterDht(g) \/ EndOfThread(g)
      BY <1>1, <2>2, DiscoveryAssumption DEF DhtTypes
    <2>3. CASE CheckDht(g) \/ TakeIoLock(g) \/ LookUp(g) \/ CountDemand(g) \/ EndRound(g) \/ Waited(g)
      BY <1>1, <2>3 DEF DhtTypes
    <2>4. QED
      BY <2>1, <2>2, <2>3 DEF GroupStep
  <1>4. RoundTypes' /\ ModelLeft'
    BY DEF GroupStep, RoundTypes, ThreadPlaces, ModelsOf, ModelLeft
  <1>5. ResultTypes'
    <2>1. CASE LookUp(g)
      BY <1>1, <2>1, NextIsTarget DEF ResultTypes
    <2>2. CASE CountDemand(g)
      BY <1>1, <2>2, NextIsTarget DEF ResultTypes, Stored, DemandKeys
    <2>3. CASE CheckDht(g) \/ MakeDht(g) \/ RegisterDht(g) \/ TakeIoLock(g) \/ EndRound(g) \/ Waited(g) \/ EndOfThread(g)
      BY <1>1, <2>3 DEF ResultTypes, ModelsOf
    <2>4. QED
      BY <2>1, <2>2, <2>3 DEF GroupStep
  <1>6. ThreadsOff'
    <2>1. dcThread[g] # "off"
      BY DEF GroupStep
    <2>2. QED
      BY <1>1, <2>1 DEF ThreadsOff
  <1>7. OwnKnown'
    <2>1. dcMain # "build"
      BY DEF GroupStep, ThreadsOff
    <2>2. CASE CountDemand(g)
      BY <1>1, <2>1, <2>2, NextIsTarget DEF ResultTypes, OwnKnown
    <2>3. CASE CheckDht(g) \/ MakeDht(g) \/ RegisterDht(g) \/ TakeIoLock(g) \/ LookUp(g) \/ EndRound(g) \/ Waited(g)
               \/ EndOfThread(g)
      BY <1>1, <2>1, <2>3 DEF OwnKnown
    <2>4. QED
      BY <2>2, <2>3 DEF GroupStep
  <1>8. OneDht'
    <2>1. CASE MakeDht(g)
      BY <2>1 DEF OneDht, Mine, DhtTypes, RoundTypes
    <2>2. CASE EndOfThread(g)
      BY <2>2 DEF OneDht, Mine, DhtTypes, RoundTypes
    <2>3. CASE CheckDht(g)
      BY <2>3 DEF OneDht, Mine, NeedsDht, DhtTypes, RoundTypes
    <2>4. CASE RegisterDht(g) \/ TakeIoLock(g) \/ LookUp(g) \/ CountDemand(g) \/ EndRound(g) \/ Waited(g)
      BY <2>4 DEF OneDht, Mine, RoundTypes
    <2>5. QED
      BY <2>1, <2>2, <2>3, <2>4 DEF GroupStep
  <1>9. QED
    BY <1>1, <1>2, <1>3, <1>4, <1>5, <1>6, <1>7, <1>8 DEF DiscoveryFlags, WireTypes, MainTypes

\* The publisher makes no DHT, and one that dies is no longer up.
LEMMA PublishKept ==
  ASSUME DiscoveryInv, TakePublisher \/ PublishStep \/ \E d \in dcUp : DhtDies(d) PROVE DiscoveryInv'
  <1> USE DEF DiscoveryInv, DiscoveryTypes
  <1> USE DEF TakePublisher, PublishStep, PublishLock, PublishStore, PublishEnd, DhtDies, dcNode, dcRound, dcTables, dcResults
  <1>1. UNCHANGED <<dcMain, dcReporting, dcStop, dcSnapshot, dcThread, dcMine, dcLeft, dcDhts, dcMade, dcError, dcRemote>>
        /\ (dcKnown' = dcKnown \/ dcKnown' = dcKnown \cup {"own"}) /\ dcUp' \subseteq dcUp
    OBVIOUS
  <1>2. dcFaults' \in 0..MaxDhtFaults
    <2>1. DhtFails \/ dcFaults' = dcFaults
      OBVIOUS
    <2>2. QED
      BY <2>1, FaultsBounded
  <1>3. WireTypes'
    <2>1. CASE TakePublisher
      <3>1. PICK m \in Targets, what \in {"intent", "demand"} :
              dcPub' = [model |-> m, dht |-> dcDhts[GroupOf[m]], what |-> what, pc |-> "lock"] /\ dcNetwork' = dcNetwork
        BY <2>1
      <3>2. GroupOf[m] \in Groups
        BY DiscoveryAssumption DEF Targets
      <3>3. dcDhts[GroupOf[m]] \in 0..MaxDhts
        BY <3>2 DEF DhtTypes
      <3>4. QED
        BY <3>1, <3>3 DEF WireTypes
    <2>2. NotPublishing.dht = 0 /\ 0 \in 0..MaxDhts
      BY DiscoveryAssumption DEF NotPublishing
    <2>3. CASE PublishLock
      <3>1. dcNetwork' = dcNetwork /\ (dcPub' = NotPublishing \/ dcPub' = [dcPub EXCEPT !.pc = "store"]) /\ dcPub.pc = "lock"
        BY <2>3
      <3>2. QED
        BY <2>2, <3>1 DEF WireTypes, NotPublishing
    <2>4. CASE PublishStore
      <3>1. /\ dcPub.pc = "store" /\ dcNetwork' \subseteq dcNetwork \cup {dcPub.model}
            /\ dcPub' = NotPublishing \/ dcPub' = [dcPub EXCEPT !.pc = "stored"]
        BY <2>4
      <3>2. QED
        BY <2>2, <3>1 DEF WireTypes, NotPublishing
    <2>5. CASE PublishEnd
      BY <2>2, <2>5 DEF WireTypes, NotPublishing
    <2>6. CASE \E d \in dcUp : DhtDies(d)
      BY <2>6 DEF WireTypes, dcWire
    <2>7. QED
      BY <2>1, <2>3, <2>4, <2>5, <2>6
  <1>4. dcIo' \in [Groups -> {"free", "thread", "publisher"}]
    BY DEF RoundTypes, dcWire
  <1>5. QED
    BY <1>1, <1>2, <1>3, <1>4 DEF DiscoveryFlags, DhtTypes, RoundTypes, ResultTypes, MainTypes, ModelLeft, ThreadsOff,
         OwnKnown, OneDht, Mine, DemandKeys

\* Hence it always holds.
LEMMA DiscoveryInvAlways == DiscoverySpec => []DiscoveryInv
  <1>1. DiscoveryInv /\ [DiscoveryNext]_dcVars => DiscoveryInv'
    <2> SUFFICES ASSUME DiscoveryInv, [DiscoveryNext]_dcVars PROVE DiscoveryInv'
      OBVIOUS
    <2>1. CASE UNCHANGED dcVars
      BY <2>1 DEF dcVars, DiscoveryInv, DiscoveryTypes, DiscoveryFlags, DhtTypes, RoundTypes, WireTypes, ResultTypes, MainTypes,
                  ModelLeft, ThreadsOff, OwnKnown, OneDht, Mine
    <2>2. QED
      BY <2>1, MainKept, GroupKept, PublishKept DEF DiscoveryNext
  <1>2. QED
    BY <1>1, DiscoveryStarts, PTL DEF DiscoverySpec

\* Discovery leaves no DHT behind, however its threads, the publisher and the close
\* interleave; and what this node published never comes back to it as demand.
THEOREM DiscoveryIsSound == DiscoverySpec => [](DiscoveryTypeOK /\ OwnDemandExcluded /\ NoDhtLeft)
  <1>1. DiscoveryInv => DiscoveryTypeOK /\ OwnDemandExcluded /\ NoDhtLeft
    <2> SUFFICES ASSUME DiscoveryInv PROVE DiscoveryTypeOK /\ OwnDemandExcluded /\ NoDhtLeft
      OBVIOUS
    <2> USE DEF DiscoveryInv, DiscoveryTypes
    <2>1. {dcStop, dcReporting} \subseteq BOOLEAN
      BY Zenon DEF DiscoveryFlags
    <2>2. dcPub \in [model : Targets \cup {"none"}, dht : 0..MaxDhts, what : {"none", "intent", "demand"},
                     pc : {"idle", "lock", "store", "stored"}]
      BY DEF WireTypes
    <2>3. DiscoveryTypeOK
      BY <2>1, <2>2 DEF DiscoveryTypeOK, DhtTypes, RoundTypes, ThreadPlaces, WireTypes, ResultTypes, MainTypes
    <2>4. OwnDemandExcluded
      BY DEF OwnDemandExcluded, OwnKnown
    <2>5. ASSUME \A g \in Groups : dcThread[g] = "over" PROVE dcUp = {}
      BY <2>5 DEF OneDht, DhtTypes
    <2>6. QED
      BY <2>3, <2>4, <2>5 DEF NoDhtLeft
  <1>2. QED
    BY <1>1, DiscoveryInvAlways, PTL

-----------------------------------------------------------------------------
(* The proof of ServesAnnounced.  A decision travels from the planner's    *)
(* proposal through the registry into a launch and from there to the       *)
(* worker; it is announced before it leaves the proposal.                  *)

Announced(decision) == decision = Nowhere \/ decision \in apIntents
Sound(launch) == Announced(launch.decision) /\ (launch.admitted => launch.decision # Nowhere)

\* What was proposed but not announced is nowhere else; a worker that runs or is to run
\* keeps its launch.
PlacementInv ==
  /\ apWorker \in [running : BOOLEAN, desired : BOOLEAN, paused : BOOLEAN]
  /\ apStep \in {"planned", "idle", "pause", "replace"} => Announced(apProposal)
  /\ apStep = "publish" => apProposal # Nowhere
  /\ Announced(apRegistry) /\ Announced(apLease) /\ Announced(apPlanner.current)
  /\ Sound(apLaunch) /\ Sound(apNext.launch) /\ Sound(apPut.launch)
  /\ apWorker.running => apLaunch.admitted

\* Every step keeps it.
LEMMA PlacementKept == PlacementInv /\ [PlacementNext]_apVars => PlacementInv'
  <1> SUFFICES ASSUME PlacementInv, [PlacementNext]_apVars PROVE PlacementInv'
    OBVIOUS
  <1> USE DEF PlacementInv, Announced, Sound
  <1>1. ASSUME NEW m \in Offers, ObserveOffer(m) PROVE PlacementInv'
    BY <1>1 DEF ObserveOffer, apRound, apPlans, apService
  <1>2. CASE ResidencyEnds
    BY <1>2 DEF ResidencyEnds, apRound, apService
  <1>3. CASE LoadConfig
    BY <1>3 DEF LoadConfig, apPlans, apService
  <1>4. CASE ProposePlacement
    BY <1>4 DEF ProposePlacement, apPlans, apService
  <1>5. CASE PublishIntent
    <2>1. apWorker' = apWorker /\ apLaunch' = apLaunch /\ apNext' = apNext /\ apPut' = apPut
          /\ apRegistry' = apRegistry /\ apStep' = "planned"
      BY <1>5 DEF PublishIntent, apService
    <2>2. CommitDecision(apProposal) => apPlanner'.current = apProposal
      BY DEF CommitDecision
    <2>3. CASE apLease = apProposal /\ CommitDecision(apProposal) /\ UNCHANGED <<apProposal, apLease, apIntents>>
      BY <2>1, <2>2, <2>3
    <2>4. CASE apLease' = apProposal /\ apIntents' = apIntents \cup {apProposal} /\ CommitDecision(apProposal)
               /\ UNCHANGED apProposal
      BY <2>1, <2>2, <2>4
    <2>5. CASE apProposal' = apRegistry /\ UNCHANGED <<apPlanner, apLease, apIntents>>
      BY <2>1, <2>5
    <2>6. QED
      BY <1>5, <2>3, <2>4, <2>5 DEF PublishIntent
  <1>6. CASE Compare
    BY <1>6 DEF Compare, LaunchFor, NoNext, apService
  <1>7. CASE PauseForReconfiguration
    BY <1>7 DEF PauseForReconfiguration, apPlans
  <1>8. CASE ReplaceAutomatic
    BY <1>8 DEF ReplaceAutomatic, NoNext, apPlans, apService
  <1>9. ASSUME NEW sharing \in BOOLEAN, PutPrepare(sharing) PROVE PlacementInv'
    BY <1>9, ZenonT(40) DEF PutPrepare, LaunchFor, apRound, apPlans, apService
  <1>10. CASE PutApply
    BY <1>10 DEF PutApply, Idle, NoNext, apRound, apPlans
  <1>11. CASE StartAutomatic
    BY <1>11 DEF StartAutomatic, apRound, apPlans
  <1>12. CASE PauseAutomatic
    BY <1>12 DEF PauseAutomatic, apRound, apPlans
  <1>13. CASE UNCHANGED apVars
    BY <1>13 DEF apVars
  <1>14. QED
    BY <1>1, <1>2, <1>3, <1>4, <1>5, <1>6, <1>7, <1>8, <1>9, <1>10, <1>11, <1>12, <1>13
       DEF PlacementNext, Reconcile

\* A running worker's decision was announced to a peer before, and so was the planner's,
\* whatever announcement is lost and whenever policy updates and requests arrive.
THEOREM AnnouncedBeforeServed == PlacementSpec => []ServesAnnounced
  <1>1. PlacementInit => PlacementInv
    BY DEF PlacementInit, PlacementInv, Announced, Sound, NoNext, Idle
  <1>2. PlacementInv => ServesAnnounced
    BY DEF PlacementInv, Announced, Sound, ServesAnnounced
  <1>3. QED
    BY <1>1, <1>2, PlacementKept, PTL DEF PlacementSpec

-----------------------------------------------------------------------------
\* A model with a snapshot has a range, and every score is a number below 170.
CoverageTypes ==
  /\ apCoverage \in [Offers -> {Unmeasured} \cup [range : Ranges, deficit : {0, 1}]]
  /\ apDemand \in [Offers -> {0, 8}]

\* The types that PlacementTypeOK leaves out, and its own.
Plans == Decisions \cup {Nowhere}
Launches == [decision : Plans, admitted : BOOLEAN]
PlacementTypes ==
  /\ CoverageTypes /\ apSharing \in BOOLEAN /\ apRead \in BOOLEAN
  /\ apStep \in {"idle", "loaded", "publish", "planned", "pause", "replace"}
  /\ apProposal \in Plans /\ apRegistry \in Plans /\ apLease \in Plans /\ apIntents \subseteq Decisions
  /\ apPlanner \in [current : Plans, held : BOOLEAN]
  /\ apLaunch \in Launches
  /\ apNext \in [launch : Launches, start : BOOLEAN]
  /\ apPut \in [sharing : BOOLEAN, launch : Launches, busy : BOOLEAN]

\* What the planner proposes is a decision: the scores are bounded, so some model has the
\* best one, and an eligible model has a range.
LEMMA ProposesPlans == ASSUME CoverageTypes, apPlanner \in [current : Plans, held : BOOLEAN] PROVE Propose \subseteq Plans
  <1>1. ASSUME NEW m \in Offers PROVE Score(m) \in 0..169
    <2>1. /\ apCoverage[m].deficit \in {0, 1} /\ StaticScore[m] \in 0..61 /\ apDemand[m] \in {0, 8}
      BY PlacementAssumption DEF CoverageTypes, Unmeasured
    <2>2. QED
      BY <2>1 DEF Score
  <1>2. ASSUME NEW m \in Eligible PROVE Evaluate(m) \in Plans
    <2>1. m \in Offers /\ apCoverage[m] \in [range : Ranges, deficit : {0, 1}]
      BY DEF Eligible, CoverageTypes
    <2>2. QED
      BY <2>1 DEF Evaluate, Plans, Decisions
  <1>3. ASSUME Eligible # {} PROVE \E m \in Eligible : \A o \in Eligible : Score(m) >= Score(o)
    <2> DEFINE Short == {169 - Score(m) : m \in Eligible}
    <2>1. Eligible \subseteq Offers
      BY DEF Eligible
    <2> HIDE DEF Eligible, Score
    <2>2. Short \in SUBSET Nat /\ Short # {}
      BY <1>1, <1>3, <2>1
    <2>3. PICK n \in Short : \A k \in Short : n <= k
      BY <2>2, LeastNumber
    <2>4. PICK m \in Eligible : n = 169 - Score(m)
      BY <2>3
    <2>5. ASSUME NEW o \in Eligible PROVE Score(m) >= Score(o)
      <3>1. 169 - Score(m) <= 169 - Score(o)
        BY <2>3, <2>4
      <3>2. Score(m) \in 0..169 /\ Score(o) \in 0..169
        BY <1>1, <2>1
      <3>3. QED
        BY <3>1, <3>2
    <2>6. QED
      BY <2>5
  <1>4. CASE ~apRead \/ Eligible = {}
    BY <1>4 DEF Propose, Plans
  <1>5. CASE ~(~apRead \/ Eligible = {})
    <2> DEFINE best == CHOOSE m \in Eligible : \A o \in Eligible : Score(m) >= Score(o)
    <2>1. best \in Eligible
      BY <1>3, <1>5
    <2> HIDE DEF best
    <2>2. Propose \subseteq {apPlanner.current, Evaluate(best)}
      BY <1>5 DEF Propose, best
    <2>3. QED
      BY <1>2, <2>1, <2>2
  <1>6. QED
    BY <1>4, <1>5

\* Every step keeps the types.
LEMMA PlacementTypesKept ==
  ASSUME PlacementInv, PlacementTypes, [PlacementNext]_apVars PROVE PlacementTypes'
  <1> USE DEF PlacementTypes, CoverageTypes, Launches, Plans
  <1>1. ASSUME NEW m \in Offers, ObserveOffer(m) PROVE PlacementTypes'
    <2>1. UNCHANGED <<apSharing, apRound, apPlans, apService, apPut>>
      BY <1>1 DEF ObserveOffer
    <2>2. CoverageTypes'
      BY <1>1 DEF ObserveOffer
    <2>3. QED
      BY <2>1, <2>2 DEF apRound, apPlans, apService
  <1>2. CASE ResidencyEnds
    <2>1. apPlanner' \in [current : Decisions \cup {Nowhere}, held : BOOLEAN]
      BY <1>2 DEF ResidencyEnds
    <2>2. UNCHANGED <<apSharing, apWorld, apRound, apRegistry, apLease, apIntents, apService, apPut>>
      BY <1>2 DEF ResidencyEnds
    <2>3. QED
      BY <2>1, <2>2 DEF apRound, apService, apWorld
  <1>3. CASE LoadConfig
    BY <1>3 DEF LoadConfig, apPlans, apService, apWorld
  <1>4. CASE ProposePlacement
    <2>1. apProposal' \in Decisions \cup {Nowhere}
      BY <1>4, ProposesPlans DEF ProposePlacement
    <2>2. QED
      BY <1>4, <2>1 DEF ProposePlacement, apPlans, apService, apWorld
  <1>5. CASE PublishIntent
    <2>1. apProposal # Nowhere
      BY <1>5 DEF PublishIntent, PlacementInv
    <2>2. /\ apStep' = "planned" /\ apProposal' \in {apProposal, apRegistry} /\ apLease' \in {apLease, apProposal}
          /\ apIntents' \in {apIntents, apIntents \cup {apProposal}}
          /\ UNCHANGED <<apSharing, apCoverage, apDemand, apRead, apRegistry, apService, apNext, apPut>>
      BY <1>5 DEF PublishIntent
    <2>3. apPlanner' \in [current : Decisions \cup {Nowhere}, held : BOOLEAN]
      <3>1. CASE UNCHANGED apPlanner
        BY <3>1
      <3>2. CASE CommitDecision(apProposal)
        <4> DEFINE held == IF apProposal # apPlanner.current THEN TRUE ELSE apPlanner.held
        <4>1. held \in BOOLEAN
          OBVIOUS
        <4>2. apPlanner' = [current |-> apProposal, held |-> held]
          BY <3>2 DEF CommitDecision
        <4> HIDE DEF held
        <4>3. QED
          BY <4>1, <4>2
      <3>3. QED
        BY <1>5, <3>1, <3>2 DEF PublishIntent
    <2>4. QED
      BY <2>1, <2>2, <2>3 DEF apService
  <1>6. CASE Compare
    <2>1. LaunchFor(apProposal, apRead) \in [decision : Decisions \cup {Nowhere}, admitted : BOOLEAN]
      BY DEF LaunchFor
    <2>2. NoNext \in [launch : Launches, start : BOOLEAN]
      BY DEF NoNext
    <2>3. apNext' \in [launch : Launches, start : BOOLEAN] /\ apStep' \in {"idle", "pause", "replace"}
      BY <1>6, <2>1, <2>2 DEF Compare
    <2>4. QED
      <3>1. /\ apRegistry' = apProposal /\ apRead' = FALSE /\ apProposal' = Nowhere
            /\ UNCHANGED <<apSharing, apCoverage, apDemand, apPlanner, apLease, apIntents, apLaunch, apPut>>
        BY <1>6 DEF Compare, apService, apWorld
      <3>2. apNext' \in [launch : [decision : Decisions \cup {Nowhere}, admitted : BOOLEAN], start : BOOLEAN]
        BY <2>3
      <3>3. CoverageTypes'
        BY <3>1
      <3>4. apRead' \in BOOLEAN /\ apSharing' \in BOOLEAN
        BY <3>1
      <3>5. /\ apStep' \in {"idle", "loaded", "publish", "planned", "pause", "replace"}
            /\ apProposal' \in Plans /\ apRegistry' \in Plans
            /\ apLease' \in Plans /\ apIntents' \subseteq Decisions
        BY <2>3, <3>1
      <3>6. /\ apPlanner' \in [current : Plans, held : BOOLEAN]
            /\ apLaunch' \in Launches /\ apPut' \in [sharing : BOOLEAN, launch : Launches, busy : BOOLEAN]
        BY <3>1
      <3>7. QED
        BY <2>3, <3>3, <3>4, <3>5, <3>6
  <1>7. CASE PauseForReconfiguration
    BY <1>7 DEF PauseForReconfiguration, apPlans, apWorld
  <1>8. CASE ReplaceAutomatic
    BY <1>8 DEF ReplaceAutomatic, NoNext, apPlans, apService, apWorld
  <1>9. ASSUME NEW sharing \in BOOLEAN, PutPrepare(sharing) PROVE PlacementTypes'
    <2>1. LaunchFor(apRegistry, sharing) \in [decision : Decisions \cup {Nowhere}, admitted : BOOLEAN]
      BY DEF LaunchFor
    <2>2. QED
      BY <1>9, <2>1 DEF PutPrepare, apRound, apPlans, apService
  <1>10. CASE PutApply
    BY <1>10 DEF PutApply, Idle, NoNext, apRound, apPlans, apWorld
  <1>11. CASE StartAutomatic
    BY <1>11 DEF StartAutomatic, apRound, apPlans
  <1>12. CASE PauseAutomatic
    BY <1>12 DEF PauseAutomatic, apRound, apPlans
  <1>13. CASE UNCHANGED apVars
    BY <1>13 DEF apVars
  <1>14. QED
    BY <1>1, <1>2, <1>3, <1>4, <1>5, <1>6, <1>7, <1>8, <1>9, <1>10, <1>11, <1>12, <1>13
       DEF PlacementNext, Reconcile

\* The planner always proposes a decision of the policy's models and of their ranges, and
\* so does everything that travels from it (ContributionPlanner.propose, reconcile()).
THEOREM PlacementIsTyped == PlacementSpec => []PlacementTypeOK
  <1>1. PlacementInit => PlacementInv /\ PlacementTypes
    <2> SUFFICES ASSUME PlacementInit PROVE PlacementInv /\ PlacementTypes
      OBVIOUS
    <2>1. PlacementInv
      BY DEF PlacementInit, PlacementInv, Announced, Sound, NoNext, Idle
    <2>2. CoverageTypes
      BY DEF PlacementInit, CoverageTypes
    <2>3. /\ apSharing \in BOOLEAN /\ apRead \in BOOLEAN /\ apStep = "idle"
          /\ apProposal \in Plans /\ apRegistry \in Plans /\ apLease \in Plans /\ apIntents \subseteq Decisions
      BY DEF PlacementInit, Plans
    <2>4. apPlanner \in [current : Plans, held : BOOLEAN] /\ apLaunch \in Launches
      BY DEF PlacementInit, Plans, Launches, NoNext
    <2>5. apNext \in [launch : Launches, start : BOOLEAN]
          /\ apPut \in [sharing : BOOLEAN, launch : Launches, busy : BOOLEAN]
      BY DEF PlacementInit, Plans, Launches, NoNext, Idle
    <2>6. QED
      BY <2>1, <2>2, <2>3, <2>4, <2>5 DEF PlacementTypes
  <1>2. PlacementTypes => PlacementTypeOK
    BY DEF PlacementTypes, PlacementTypeOK, Plans, Launches
  <1>3. QED
    BY <1>1, <1>2, PlacementKept, PlacementTypesKept, PTL DEF PlacementSpec

-----------------------------------------------------------------------------
(* The proof of RuntimeHeld.  Every job is pending once, in the queue or   *)
(* on a thread; a generation is pending only while its request has a       *)
(* lease; and the leases that exist are all of the resident model.         *)

JobKinds == {"load", "generate", "poll", "record"}
Jobs == [kind : JobKinds, request : Requests]
Pending == gwBusy \cup Range(gwQueue)
Has(k, r) == Job(k, r) \in Pending

NoTwice(q) == \A i, j \in 1..Len(q) : q[i] = q[j] => i = j

GatewayTypes ==
  /\ gwPhase = [r \in Requests |-> gwPhase[r]]
  /\ gwQueue \in Seq(Jobs) /\ gwBusy \subseteq Jobs /\ gwLeases \subseteq Requests

PendingOnce == NoTwice(gwQueue) /\ gwBusy \cap Range(gwQueue) = {}

\* How far a request is, by the jobs that are pending for it and its lease.
PhaseFits(r) ==
  /\ gwPhase[r] = "new" => \A k \in JobKinds : ~Has(k, r)
  /\ Has("generate", r) \/ Has("record", r) => gwPhase[r] \in {"generating", "dropped"}
  /\ ~(Has("generate", r) /\ Has("record", r))
  /\ gwPhase[r] \in {"loaded", "responding", "waiting"} \/ Has("generate", r) => r \in gwLeases
PhasesFit == \A r \in Requests : PhaseFits(r)

LeasesResident == \A r \in gwLeases : gwResident = Wants[r]

GatewayInv == GatewayTypes /\ PendingOnce /\ PhasesFit /\ LeasesResident

\* What the queue does when a job is submitted.
LEMMA Appended ==
  ASSUME NEW S, NEW q \in Seq(S), NEW e \in S
  PROVE  /\ Append(q, e) \in Seq(S) /\ Range(Append(q, e)) = Range(q) \cup {e}
         /\ NoTwice(q) /\ e \notin Range(q) => NoTwice(Append(q, e))
  <1>1. /\ Append(q, e) \in Seq(S) /\ Len(Append(q, e)) = Len(q) + 1
        /\ \A i \in 1..Len(q) : Append(q, e)[i] = q[i]
        /\ Append(q, e)[Len(q) + 1] = e /\ Len(q) \in Nat
    OBVIOUS
  <1>2. DOMAIN q = 1..Len(q) /\ DOMAIN Append(q, e) = 1..(Len(q) + 1)
    BY <1>1
  <1>3. QED
    BY <1>1, <1>2 DEF Range, NoTwice

\* The first job is taken.
LEMMA Taken ==
  ASSUME NEW S, NEW q \in Seq(S), q # <<>>
  PROVE  /\ Tail(q) \in Seq(S) /\ Head(q) \in Range(q)
         /\ NoTwice(q) => NoTwice(Tail(q)) /\ Range(Tail(q)) = Range(q) \ {Head(q)}
  <1>1. /\ Tail(q) \in Seq(S) /\ Len(q) \in Nat \ {0} /\ Len(Tail(q)) = Len(q) - 1
        /\ \A i \in 1..(Len(q) - 1) : Tail(q)[i] = q[i + 1]
        /\ Head(q) = q[1]
    OBVIOUS
  <1>2. DOMAIN q = 1..Len(q) /\ DOMAIN Tail(q) = 1..(Len(q) - 1)
    BY <1>1
  <1>3. Head(q) \in Range(q)
    BY <1>1, <1>2 DEF Range
  <1>4. ASSUME NoTwice(q) PROVE NoTwice(Tail(q))
    BY <1>1, <1>4 DEF NoTwice
  <1>5. ASSUME NoTwice(q) PROVE Range(Tail(q)) = Range(q) \ {Head(q)}
    <2>1. ASSUME NEW i \in 1..(Len(q) - 1) PROVE q[i + 1] \in Range(q) /\ q[i + 1] # Head(q)
      BY <1>1, <1>2, <1>5 DEF Range, NoTwice
    <2>2. ASSUME NEW i \in 1..Len(q), q[i] # Head(q) PROVE q[i] \in Range(Tail(q))
      <3>1. i - 1 \in 1..(Len(q) - 1) /\ q[i] = Tail(q)[i - 1]
        BY <1>1, <2>2
      <3>2. QED
        BY <1>2, <3>1 DEF Range
    <2>3. QED
      BY <1>1, <1>2, <2>1, <2>2 DEF Range
  <1>6. QED
    BY <1>1, <1>3, <1>4, <1>5

\* A job inside the queue is cancelled.
LEMMA Cancelled ==
  ASSUME NEW S, NEW q \in Seq(S), NEW n \in 1..Len(q)
  PROVE  /\ RemoveAt(q, n) \in Seq(S)
         /\ NoTwice(q) => NoTwice(RemoveAt(q, n)) /\ Range(RemoveAt(q, n)) = Range(q) \ {q[n]}
  <1> DEFINE p == RemoveAt(q, n)
             at(i) == IF i < n THEN i ELSE i + 1
  <1>1. Len(q) \in Nat /\ n \in Nat
    OBVIOUS
  <1>2. /\ p \in Seq(S) /\ Len(p) = Len(q) - 1
        /\ \A i \in 1..(Len(q) - 1) : p[i] = q[at(i)]
    <2> DEFINE a == SubSeq(q, 1, n - 1)
               b == SubSeq(q, n + 1, Len(q))
    <2>1. \A i \in 1..Len(q) : q[i] \in S
      OBVIOUS
    <2>2. a \in Seq(S) /\ Len(a) = n - 1 /\ \A i \in 1..(n - 1) : a[i] = q[i]
      <3>1. \A i \in 1..(n - 1) : q[i] \in S
        BY <1>1, <2>1
      <3>2. /\ a \in Seq(S) /\ Len(a) = (IF 1 <= n - 1 THEN n - 1 - 1 + 1 ELSE 0)
            /\ \A i \in 1..(n - 1 - 1 + 1) : a[i] = q[1 + i - 1]
        BY <1>1, <3>1, SubSeqProperties
      <3> HIDE DEF a
      <3>3. QED
        BY <1>1, <3>2
    <2>3. b \in Seq(S) /\ Len(b) = Len(q) - n /\ \A i \in 1..(Len(q) - n) : b[i] = q[n + i]
      <3>1. \A i \in (n + 1)..Len(q) : q[i] \in S
        BY <1>1, <2>1
      <3>2. /\ b \in Seq(S) /\ Len(b) = (IF n + 1 <= Len(q) THEN Len(q) - (n + 1) + 1 ELSE 0)
            /\ \A i \in 1..(Len(q) - (n + 1) + 1) : b[i] = q[n + 1 + i - 1]
        BY <1>1, <3>1, SubSeqProperties
      <3> HIDE DEF b
      <3>3. QED
        BY <1>1, <3>2
    <2>4. p = a \o b
      BY DEF RemoveAt
    <2> HIDE DEF a, b, p
    <2>5. /\ p \in Seq(S) /\ Len(p) = Len(a) + Len(b)
          /\ \A i \in 1..(Len(a) + Len(b)) : p[i] = IF i <= Len(a) THEN a[i] ELSE b[i - Len(a)]
      BY <2>2, <2>3, <2>4, ConcatProperties
    <2>6. ASSUME NEW i \in 1..(Len(q) - 1) PROVE p[i] = q[at(i)]
      <3>1. i \in 1..(Len(a) + Len(b)) /\ i \in Nat
        BY <1>1, <2>2, <2>3
      <3>2. CASE i < n
        BY <1>1, <2>2, <2>5, <3>1, <3>2
      <3>3. CASE ~(i < n)
        <4>1. i - (n - 1) \in 1..(Len(q) - n) /\ p[i] = b[i - (n - 1)]
          BY <1>1, <2>2, <2>5, <3>1, <3>3
        <4>2. b[i - (n - 1)] = q[n + (i - (n - 1))] /\ n + (i - (n - 1)) = i + 1
          BY <1>1, <2>3, <4>1
        <4>3. QED
          BY <3>3, <4>1, <4>2
      <3>4. QED
        BY <3>2, <3>3
    <2>7. QED
      BY <1>1, <2>2, <2>3, <2>5, <2>6
  <1> HIDE DEF p
  <1>3. DOMAIN q = 1..Len(q) /\ DOMAIN p = 1..(Len(q) - 1)
    <2>1. DOMAIN q = 1..Len(q)
      BY LenProperties
    <2>2. p \in Seq(S) => DOMAIN p = 1..Len(p)
      BY LenProperties
    <2>3. QED
      BY <1>2, <2>1, <2>2
  <1>4. /\ \A i \in 1..(Len(q) - 1) : at(i) \in 1..Len(q) /\ at(i) # n
        /\ \A i, j \in 1..(Len(q) - 1) : at(i) = at(j) => i = j
        /\ \A k \in 1..Len(q) : k # n => \E i \in 1..(Len(q) - 1) : at(i) = k
    <2>1. ASSUME NEW k \in 1..Len(q), k # n PROVE \E i \in 1..(Len(q) - 1) : at(i) = k
      <3>1. CASE k < n
        BY <1>1, <3>1
      <3>2. CASE k > n
        <4>1. k - 1 \in 1..(Len(q) - 1) /\ at(k - 1) = k
          BY <1>1, <3>2
        <4>2. QED
          BY <4>1
      <3>3. QED
        BY <1>1, <2>1, <3>1, <3>2
    <2>2. QED
      BY <1>1, <2>1
  <1> HIDE DEF at
  <1>5. ASSUME NoTwice(q) PROVE NoTwice(p)
    <2>1. ASSUME NEW i \in 1..(Len(q) - 1), NEW j \in 1..(Len(q) - 1), p[i] = p[j] PROVE i = j
      <3>1. at(i) \in 1..Len(q) /\ at(j) \in 1..Len(q) /\ q[at(i)] = q[at(j)]
        BY <1>2, <1>4, <2>1
      <3>2. at(i) = at(j)
        BY <1>5, <3>1 DEF NoTwice
      <3>3. QED
        BY <1>4, <3>2
    <2>2. QED
      BY <1>2, <2>1 DEF NoTwice
  <1>6. ASSUME NoTwice(q) PROVE Range(p) = Range(q) \ {q[n]}
    <2>1. ASSUME NEW i \in 1..(Len(q) - 1) PROVE p[i] \in Range(q) /\ p[i] # q[n]
      <3>1. at(i) \in 1..Len(q) /\ at(i) # n /\ p[i] = q[at(i)]
        BY <1>2, <1>3, <1>4
      <3>2. q[at(i)] # q[n]
        BY <1>6, <3>1 DEF NoTwice
      <3>3. QED
        BY <3>1, <3>2 DEF Range
    <2>2. ASSUME NEW k \in 1..Len(q), q[k] # q[n] PROVE q[k] \in Range(p)
      <3>1. PICK i \in 1..(Len(q) - 1) : at(i) = k
        BY <1>4, <2>2
      <3>2. p[i] = q[k]
        BY <1>2, <3>1
      <3>3. QED
        BY <1>3, <3>2 DEF Range
    <2>3. QED
      BY <1>3, <2>1, <2>2 DEF Range
  <1>7. QED
    BY <1>2, <1>5, <1>6 DEF p

\* A job that is submitted is pending, once.
LEMMA JobSubmitted ==
  ASSUME GatewayTypes, PendingOnce, NEW k \in JobKinds, NEW r \in Requests, ~Has(k, r),
         Submit(k, r), gwBusy' = gwBusy
  PROVE  /\ gwQueue' \in Seq(Jobs) /\ gwBusy' \subseteq Jobs /\ PendingOnce'
         /\ \A l, q : Has(l, q)' <=> Has(l, q) \/ (l = k /\ q = r)
  <1>1. Job(k, r) \in Jobs /\ \A l, q : Job(l, q) = Job(k, r) <=> l = k /\ q = r
    BY DEF Job, Jobs
  <1>2. /\ gwQueue' \in Seq(Jobs) /\ Range(gwQueue') = Range(gwQueue) \cup {Job(k, r)} /\ NoTwice(gwQueue')
    BY <1>1, Appended DEF GatewayTypes, PendingOnce, Has, Pending, Submit
  <1>3. QED
    BY <1>1, <1>2 DEF GatewayTypes, PendingOnce, Has, Pending

\* A job that leaves its thread is no longer pending.
LEMMA Left ==
  ASSUME GatewayTypes, PendingOnce, NEW k \in JobKinds, NEW r \in Requests, Running(k, r), Leave(k, r),
         gwQueue' = gwQueue
  PROVE  /\ gwQueue' \in Seq(Jobs) /\ gwBusy' \subseteq Jobs /\ PendingOnce' /\ Has(k, r)
         /\ \A l, q : Has(l, q)' <=> Has(l, q) /\ ~(l = k /\ q = r)
  <1>1. \A l, q : Job(l, q) = Job(k, r) <=> l = k /\ q = r
    BY DEF Job
  <1>2. Job(k, r) \notin Range(gwQueue)
    BY DEF PendingOnce, Running
  <1>3. QED
    BY <1>1, <1>2 DEF GatewayTypes, PendingOnce, Has, Pending, Running, Leave

\* The poll of a request that is dropped may go, nothing else does.
LEMMA Unpolls ==
  ASSUME GatewayTypes, PendingOnce, NEW r \in Requests, gwQueue' = Unpolled(r), gwBusy' = gwBusy
  PROVE  /\ gwQueue' \in Seq(Jobs) /\ gwBusy' \subseteq Jobs /\ PendingOnce'
         /\ \A l, q : Has(l, q)' => Has(l, q)
         /\ \A l, q : l # "poll" => (Has(l, q) <=> Has(l, q)')
  <1> DEFINE Polls == {i \in DOMAIN gwQueue : gwQueue[i] = Job("poll", r)}
  <1>1. \A l, q : Job(l, q) = Job("poll", r) => l = "poll"
    BY DEF Job
  <1>2. CASE Polls = {}
    <2>1. gwQueue' = gwQueue
      BY <1>2 DEF Unpolled
    <2>2. QED
      BY <2>1 DEF GatewayTypes, PendingOnce, Has, Pending
  <1>3. CASE Polls # {}
    <2> DEFINE n == CHOOSE i \in Polls : TRUE
    <2>1. n \in Polls /\ gwQueue' = RemoveAt(gwQueue, n)
      BY <1>3 DEF Unpolled
    <2>2. n \in 1..Len(gwQueue) /\ gwQueue[n] = Job("poll", r)
      BY <2>1 DEF GatewayTypes
    <2> HIDE DEF n
    <2>3. /\ gwQueue' \in Seq(Jobs) /\ NoTwice(gwQueue')
          /\ Range(gwQueue') = Range(gwQueue) \ {Job("poll", r)}
      BY <2>1, <2>2, Cancelled DEF GatewayTypes, PendingOnce
    <2>4. QED
      BY <1>1, <2>3 DEF GatewayTypes, PendingOnce, Has, Pending
  <1>4. QED
    BY <1>2, <1>3

\* A step about request r: what the others have stays, or is less.
LEMMA OthersFit ==
  ASSUME PhasesFit, NEW r \in Requests, PhaseFits(r)',
         \A q \in Requests \ {r} : /\ gwPhase'[q] = gwPhase[q]
                                   /\ \A k \in JobKinds : Has(k, q)' => Has(k, q)
                                   /\ q \in gwLeases => q \in gwLeases'
  PROVE  PhasesFit'
  <1> SUFFICES ASSUME NEW q \in Requests \ {r} PROVE PhaseFits(q)'
    BY DEF PhasesFit
  <1>1. PhaseFits(q) /\ "generate" \in JobKinds /\ "record" \in JobKinds
    BY DEF PhasesFit, JobKinds
  <1>2. QED
    BY <1>1 DEF PhaseFits

\* What the phase of a request says of its jobs and its lease.
LEMMA GeneratesOnce ==
  ASSUME GatewayInv, NEW r \in Requests
  PROVE  /\ gwPhase[r] \in {"loaded", "responding", "waiting"} =>
              ~Has("generate", r) /\ ~Has("record", r) /\ r \in gwLeases
         /\ gwPhase[r] = "new" => \A k \in JobKinds : ~Has(k, r)
         /\ gwPhase[r] = "ending" => ~Has("generate", r) /\ ~Has("record", r)
         /\ Has("record", r) => ~Has("generate", r)
         /\ Has("generate", r) => r \in gwLeases /\ ~Has("record", r)
  BY DEF GatewayInv, PhasesFit, PhaseFits

\* A step that leaves phases, leases and the slot alone, and adds no job but polls of
\* requests that are past their load.
LEMMA JobsOnly ==
  ASSUME GatewayInv, gwQueue' \in Seq(Jobs), gwBusy' \subseteq Jobs, PendingOnce',
         UNCHANGED <<gwPhase, gwLeases, gwResident>>,
         \A r \in Requests, k \in JobKinds : Has(k, r)' => Has(k, r) \/ (k = "poll" /\ gwPhase[r] # "new")
  PROVE  GatewayInv'
  <1>1. ASSUME NEW r \in Requests PROVE PhaseFits(r)'
    <2>1. PhaseFits(r) /\ {"generate", "record"} \subseteq JobKinds /\ "generate" # "poll" /\ "record" # "poll"
      BY DEF GatewayInv, PhasesFit, JobKinds
    <2>2. QED
      BY <2>1 DEF PhaseFits
  <1>2. QED
    BY <1>1 DEF GatewayInv, GatewayTypes, PhasesFit, LeasesResident

\* Every step keeps it.
LEMMA GatewayKept == GatewayInv /\ [GatewayNext]_gwVars => GatewayInv'
  <1> SUFFICES ASSUME GatewayInv, [GatewayNext]_gwVars PROVE GatewayInv'
    OBVIOUS
  <1> GatewayTypes /\ PendingOnce /\ PhasesFit /\ LeasesResident
    BY DEF GatewayInv
  <1> JobKinds = {"load", "generate", "poll", "record"}
    BY DEF JobKinds
  <1>1. CASE UNCHANGED gwVars
    BY <1>1 DEF gwVars, GatewayInv, GatewayTypes, PendingOnce, NoTwice, PhasesFit, PhaseFits, LeasesResident, Has,
                Pending, executor, gate, tracker
  <1>2. CASE Pass \/ Snapshot
    BY <1>2 DEF Pass, Snapshot, GatewayInv, GatewayTypes, PendingOnce, NoTwice, PhasesFit, PhaseFits, LeasesResident,
                Has, Pending, executor, gate
  <1>3. CASE StartJob
    <2>1. gwQueue # <<>> /\ gwBusy' = gwBusy \cup {Head(gwQueue)} /\ gwQueue' = Tail(gwQueue)
          /\ UNCHANGED <<gwPhase, gwLeases, gwResident>>
      BY <1>3 DEF StartJob
    <2>2. /\ gwQueue' \in Seq(Jobs) /\ Head(gwQueue) \in Range(gwQueue) /\ NoTwice(gwQueue')
          /\ Range(gwQueue') = Range(gwQueue) \ {Head(gwQueue)}
      BY <2>1, Taken DEF GatewayTypes, PendingOnce
    <2>3. Range(gwQueue) \subseteq Jobs
      BY DEF GatewayTypes, Range
    <2>4. gwBusy' \subseteq Jobs /\ PendingOnce' /\ \A k, r : Has(k, r)' => Has(k, r)
      BY <2>1, <2>2, <2>3 DEF GatewayTypes, PendingOnce, Has, Pending
    <2>5. QED
      BY <2>1, <2>2, <2>4, JobsOnly
  <1>4. ASSUME NEW r \in Requests, Arrive(r) PROVE GatewayInv'
    <2>1. /\ gwPhase[r] = "new" /\ gwBusy' = gwBusy /\ gwLeases' = gwLeases /\ gwResident' = gwResident
          /\ \/ Submit("load", r) /\ gwPhase' = [gwPhase EXCEPT ![r] = "loading"]
             \/ gwPhase' = [gwPhase EXCEPT ![r] = "failed"] /\ gwQueue' = gwQueue
      BY <1>4 DEF Arrive
    <2>2. \A k \in JobKinds : ~Has(k, r)
      BY <2>1, GeneratesOnce
    <2>3. /\ gwQueue' \in Seq(Jobs) /\ gwBusy' \subseteq Jobs /\ PendingOnce'
          /\ \A k, q : Has(k, q)' => Has(k, q) \/ (k = "load" /\ q = r)
      <3>1. CASE Submit("load", r)
        BY <2>1, <2>2, <3>1, JobSubmitted
      <3>2. CASE gwQueue' = gwQueue
        BY <2>1, <3>2 DEF GatewayTypes, PendingOnce, Has, Pending
      <3>3. QED
        BY <2>1, <3>1, <3>2
    <2>4. gwPhase'[r] \in {"loading", "failed"} /\ (\A q \in Requests \ {r} : gwPhase'[q] = gwPhase[q])
          /\ gwPhase' = [q \in Requests |-> gwPhase'[q]]
      BY <2>1 DEF GatewayTypes
    <2>5. PhaseFits(r)'
      BY <2>2, <2>3, <2>4 DEF PhaseFits
    <2>6. PhasesFit'
      BY <2>1, <2>3, <2>4, <2>5, OthersFit
    <2>7. QED
      BY <2>1, <2>3, <2>4, <2>6 DEF GatewayInv, GatewayTypes, LeasesResident
  <1>5. ASSUME NEW r \in Requests, EndLoad(r) PROVE GatewayInv'
    <2>1. /\ Running("load", r) /\ Leave("load", r) /\ gwQueue' = gwQueue
          /\ gwLeases' \in {gwLeases, gwLeases \cup {r}}
          /\ gwResident = Wants[r] \/ gwLeases = {}
          /\ gwResident' = Wants[r] \/ (gwLeases = {} /\ gwLeases' = gwLeases)
      BY <1>5 DEF EndLoad, SlotFor, Abandoned
    <2>2. /\ gwQueue' \in Seq(Jobs) /\ gwBusy' \subseteq Jobs /\ PendingOnce'
          /\ \A l, q : Has(l, q)' => Has(l, q)
      BY <2>1, Left
    <2>3. /\ gwPhase'[r] \in {gwPhase[r], "loaded", "failed"}
          /\ gwPhase'[r] # gwPhase[r] => gwPhase[r] = "loading"
          /\ gwPhase'[r] = "loaded" => gwPhase[r] = "loaded" \/ r \in gwLeases'
          /\ \A q \in Requests \ {r} : gwPhase'[q] = gwPhase[q]
          /\ gwPhase' = [q \in Requests |-> gwPhase'[q]]
      <3>1. CASE gwPhase' = gwPhase
        BY <3>1 DEF GatewayTypes
      <3>2. CASE gwPhase[r] = "loading" /\ gwPhase' = [gwPhase EXCEPT ![r] = "loaded"] /\ r \in gwLeases'
        BY <3>2 DEF GatewayTypes
      <3>3. CASE gwPhase' = [gwPhase EXCEPT ![r] = IF @ = "loading" THEN "failed" ELSE @]
        BY <3>3 DEF GatewayTypes
      <3>4. QED
        BY <1>5, <3>1, <3>2, <3>3 DEF EndLoad
    <2>4. PhaseFits(r) /\ (r \in gwLeases => r \in gwLeases')
      BY <2>1 DEF PhasesFit
    <2>5. PhaseFits(r)'
      BY <2>2, <2>3, <2>4 DEF PhaseFits
    <2>6. PhasesFit'
      BY <2>1, <2>2, <2>3, <2>5, OthersFit
    <2>7. LeasesResident'
      BY <2>1 DEF LeasesResident
    <2>8. QED
      BY <2>1, <2>2, <2>3, <2>6, <2>7 DEF GatewayInv, GatewayTypes
  <1>6. ASSUME NEW r \in Requests, EndPoll(r) PROVE GatewayInv'
    <2>1. /\ Running("poll", r) /\ Leave("poll", r) /\ gwQueue' = gwQueue
          /\ UNCHANGED <<gwLeases, gwResident>>
          /\ gwPhase' = [gwPhase EXCEPT ![r] = IF @ = "generating" /\ Generated(r) THEN "ending" ELSE @]
      BY <1>6 DEF EndPoll
    <2>2. /\ gwQueue' \in Seq(Jobs) /\ gwBusy' \subseteq Jobs /\ PendingOnce'
          /\ \A l, q : Has(l, q)' => Has(l, q)
      BY <2>1, Left
    <2>3. /\ gwPhase'[r] = gwPhase[r] \/ (gwPhase'[r] = "ending" /\ Generated(r))
          /\ \A q \in Requests \ {r} : gwPhase'[q] = gwPhase[q]
          /\ gwPhase' = [q \in Requests |-> gwPhase'[q]]
      BY <2>1 DEF GatewayTypes
    <2>4. Generated(r) => ~Has("generate", r) /\ ~Has("record", r)
      BY DEF Generated, Outstanding, Has, Pending, Job
    <2>5. PhaseFits(r)
      BY DEF PhasesFit
    <2>6. PhaseFits(r)'
      BY <2>1, <2>2, <2>3, <2>4, <2>5 DEF PhaseFits
    <2>7. PhasesFit'
      BY <2>1, <2>2, <2>3, <2>6, OthersFit
    <2>8. QED
      BY <2>1, <2>2, <2>3, <2>7 DEF GatewayInv, GatewayTypes, LeasesResident
  <1>7. ASSUME NEW r \in Requests, EndGenerate(r) PROVE GatewayInv'
    <2>1. /\ Running("generate", r) /\ gwBusy' = (gwBusy \ {Job("generate", r)}) \cup {Job("record", r)}
          /\ UNCHANGED <<gwPhase, gwQueue, gwLeases, gwResident>>
      BY <1>7 DEF EndGenerate
    <2>2. Has("generate", r) /\ Job("generate", r) \notin Range(gwQueue)
      BY <2>1 DEF Has, Pending, Running, PendingOnce
    <2>3. ~Has("record", r) /\ Job("record", r) \in Jobs
          /\ \A l, q : Job(l, q) = Job("record", r) <=> l = "record" /\ q = r
      BY <2>2, GeneratesOnce DEF Job, Jobs
    <2>4. \A l, q : Job(l, q) = Job("generate", r) <=> l = "generate" /\ q = r
      BY DEF Job
    <2>5. gwQueue' \in Seq(Jobs) /\ gwBusy' \subseteq Jobs /\ PendingOnce'
      BY <2>1, <2>3 DEF GatewayTypes, PendingOnce, NoTwice, Has, Pending
    <2>6. \A l, q : Has(l, q)' => (Has(l, q) /\ ~(l = "generate" /\ q = r)) \/ (l = "record" /\ q = r)
      BY <2>1, <2>2, <2>3, <2>4 DEF Has, Pending
    <2>7. PhaseFits(r)'
      BY <2>1, <2>2, <2>6 DEF PhasesFit, PhaseFits
    <2>8. PhasesFit'
      BY <2>1, <2>6, <2>7, OthersFit
    <2>9. QED
      BY <2>1, <2>5, <2>8 DEF GatewayInv, GatewayTypes, LeasesResident
  <1>8. ASSUME NEW r \in Requests, Record(r) PROVE GatewayInv'
    <2>1. /\ Running("record", r) /\ Leave("record", r) /\ gwQueue' = gwQueue /\ gwResident' = gwResident
          /\ \/ gwPhase' = gwPhase /\ gwLeases' = gwLeases \ {r}
             \/ gwPhase' \in {gwPhase, [gwPhase EXCEPT ![r] = "ending"]} /\ gwLeases' = gwLeases
      BY <1>8 DEF Record, GatewayTypes
    <2>2. /\ gwQueue' \in Seq(Jobs) /\ gwBusy' \subseteq Jobs /\ PendingOnce' /\ Has("record", r)
          /\ \A l, q : Has(l, q)' <=> Has(l, q) /\ ~(l = "record" /\ q = r)
      BY <2>1, Left
    <2>3. /\ gwPhase'[r] \in {gwPhase[r], "ending"} /\ \A q \in Requests \ {r} : gwPhase'[q] = gwPhase[q]
          /\ gwPhase' = [q \in Requests |-> gwPhase'[q]]
      BY <2>1 DEF GatewayTypes
    <2>4. PhaseFits(r)' /\ gwPhase[r] \in {"generating", "dropped"}
      BY <2>2, <2>3 DEF PhasesFit, PhaseFits
    <2>5. PhasesFit'
      BY <2>1, <2>2, <2>3, <2>4, OthersFit
    <2>6. QED
      BY <2>1, <2>2, <2>3, <2>5 DEF GatewayInv, GatewayTypes, LeasesResident
  <1>9. ASSUME NEW r \in Requests, gwPhase[r] \in {"loaded", "responding", "waiting"}, Generate(r),
               UNCHANGED <<gwBusy, gwLeases, gwResident>>
        PROVE  GatewayInv'
    <2>1. ~Has("generate", r) /\ ~Has("record", r) /\ r \in gwLeases
      BY <1>9, GeneratesOnce
    <2>2. /\ gwQueue' \in Seq(Jobs) /\ gwBusy' \subseteq Jobs /\ PendingOnce'
          /\ \A l, q : Has(l, q)' <=> Has(l, q) \/ (l = "generate" /\ q = r)
      BY <1>9, <2>1, JobSubmitted DEF Generate
    <2>3. /\ gwPhase'[r] = "generating" /\ \A q \in Requests \ {r} : gwPhase'[q] = gwPhase[q]
          /\ gwPhase' = [q \in Requests |-> gwPhase'[q]]
      BY <1>9 DEF Generate, GatewayTypes
    <2>4. PhaseFits(r)'
      BY <1>9, <2>1, <2>2, <2>3 DEF PhaseFits
    <2>5. PhasesFit'
      BY <1>9, <2>2, <2>3, <2>4, OthersFit
    <2>6. gwLeases' = gwLeases /\ gwResident' = gwResident
      BY <1>9
    <2>7. QED
      BY <2>2, <2>3, <2>5, <2>6 DEF GatewayInv, GatewayTypes, LeasesResident
  \* A prepared request goes on without a generation.
  <1>10. ASSUME NEW r \in Requests, gwPhase[r] \in {"loaded", "responding"}, UNCHANGED <<gwQueue, gwBusy, gwResident>>,
                \/ gwPhase' = [gwPhase EXCEPT ![r] = "failed"] /\ gwLeases' = gwLeases \ {r}
                \/ /\ gwLeases' = gwLeases
                   /\ \E x \in {"responding", "waiting"} : gwPhase' = [gwPhase EXCEPT ![r] = x]
         PROVE  GatewayInv'
    <2>1. ~Has("generate", r) /\ ~Has("record", r) /\ r \in gwLeases
      BY <1>10, GeneratesOnce
    <2>2. /\ gwQueue' \in Seq(Jobs) /\ gwBusy' \subseteq Jobs /\ PendingOnce'
          /\ \A l, q : Has(l, q)' <=> Has(l, q)
      BY <1>10 DEF GatewayTypes, PendingOnce, NoTwice, Has, Pending
    <2>3. /\ gwPhase'[r] = "failed" \/ (gwPhase'[r] \in {"responding", "waiting"} /\ gwLeases' = gwLeases)
          /\ \A q \in Requests \ {r} : gwPhase'[q] = gwPhase[q]
          /\ gwPhase' = [q \in Requests |-> gwPhase'[q]]
      BY <1>10 DEF GatewayTypes
    <2>4. PhaseFits(r)'
      BY <2>1, <2>2, <2>3 DEF PhaseFits
    <2>5. gwResident' = gwResident /\ gwLeases' \subseteq gwLeases
      BY <1>10
    <2>6. PhasesFit'
      BY <1>10, <2>2, <2>3, <2>4, OthersFit
    <2>7. QED
      BY <2>2, <2>3, <2>5, <2>6 DEF GatewayInv, GatewayTypes, LeasesResident
  <1>e. ASSUME NEW r \in Requests, gwPhase[r] \in {"loaded", "responding"}, Enter(r),
               UNCHANGED <<gwBusy, gwLeases, gwResident>>
        PROVE  GatewayInv'
    <2>1. CASE Generate(r)
      BY <1>9, <1>e, <2>1
    <2>2. CASE ~Generate(r)
      <3>1. gwPhase' = [gwPhase EXCEPT ![r] = "waiting"] /\ UNCHANGED gwQueue
        BY <1>e, <2>2 DEF Enter
      <3>2. QED
        BY <1>10, <1>e, <3>1
    <2>3. QED
      BY <2>1, <2>2
  <1>p. ASSUME NEW r \in Requests, Prepare(r) PROVE GatewayInv'
    <2>1. gwPhase[r] = "loaded" /\ UNCHANGED <<gwBusy, gwResident>>
      BY <1>p DEF Prepare
    <2>2. CASE Enter(r) /\ UNCHANGED gwLeases
      BY <1>e, <2>1, <2>2
    <2>3. CASE ~(Enter(r) /\ UNCHANGED gwLeases)
      <3>1. /\ UNCHANGED gwQueue
            /\ \/ gwPhase' = [gwPhase EXCEPT ![r] = "failed"] /\ gwLeases' = gwLeases \ {r}
               \/ gwPhase' = [gwPhase EXCEPT ![r] = "responding"] /\ gwLeases' = gwLeases
        BY <1>p, <2>3 DEF Prepare
      <3>2. QED
        BY <1>10, <2>1, <3>1
    <2>4. QED
      BY <2>2, <2>3
  <1>b. ASSUME NEW r \in Requests, Begin(r) PROVE GatewayInv'
    BY <1>b, <1>e DEF Begin
  <1>11. ASSUME NEW r \in Requests, Acquire(r) PROVE GatewayInv'
    BY <1>9, <1>11 DEF Acquire
  <1>12. ASSUME NEW r \in Requests, Poll(r) PROVE GatewayInv'
    <2>1. /\ gwPhase[r] = "generating" /\ Submit("poll", r) /\ gwBusy' = gwBusy
          /\ UNCHANGED <<gwPhase, gwLeases, gwResident>>
      BY <1>12 DEF Poll
    <2>2. ~Has("poll", r)
      BY <1>12 DEF Poll, Outstanding, Has, Pending, Job
    <2>3. /\ gwQueue' \in Seq(Jobs) /\ gwBusy' \subseteq Jobs /\ PendingOnce'
          /\ \A l, q : Has(l, q)' <=> Has(l, q) \/ (l = "poll" /\ q = r)
      BY <2>1, <2>2, JobSubmitted
    <2>4. QED
      BY <2>1, <2>3, JobsOnly
  <1>13. ASSUME NEW r \in Requests, Answer(r) PROVE GatewayInv'
    <2>1. /\ gwPhase[r] = "ending" /\ gwPhase' = [gwPhase EXCEPT ![r] = "served"] /\ gwLeases' = gwLeases \ {r}
          /\ UNCHANGED <<gwQueue, gwBusy, gwResident>>
      BY <1>13 DEF Answer, executor
    <2>2. ~Has("generate", r) /\ ~Has("record", r)
      BY <2>1, GeneratesOnce
    <2>3. /\ gwQueue' \in Seq(Jobs) /\ gwBusy' \subseteq Jobs /\ PendingOnce'
          /\ \A l, q : Has(l, q)' <=> Has(l, q)
      BY <2>1 DEF GatewayTypes, PendingOnce, NoTwice, Has, Pending
    <2>4. /\ gwPhase'[r] = "served" /\ \A q \in Requests \ {r} : gwPhase'[q] = gwPhase[q]
          /\ gwPhase' = [q \in Requests |-> gwPhase'[q]]
      BY <2>1 DEF GatewayTypes
    <2>5. PhasesFit'
      <3>1. PhaseFits(r)'
        BY <2>2, <2>3, <2>4 DEF PhaseFits
      <3>2. QED
        BY <2>1, <2>3, <2>4, <3>1, OthersFit
    <2>6. QED
      BY <2>1, <2>3, <2>4, <2>5 DEF GatewayInv, GatewayTypes, LeasesResident
  <1>14. ASSUME NEW r \in Requests, Drop(r) PROVE GatewayInv'
    <2>1. /\ gwPhase[r] \in {"loading", "loaded", "responding", "waiting", "generating"}
          /\ gwPhase' = [gwPhase EXCEPT ![r] = IF @ = "responding" THEN "lost" ELSE "dropped"]
          /\ gwLeases' = (IF gwPhase[r] = "responding" \/ Deferred(r) THEN gwLeases ELSE gwLeases \ {r})
          /\ gwQueue' = Unpolled(r) /\ UNCHANGED <<gwBusy, gwResident>>
      BY <1>14 DEF Drop
    <2>2. /\ gwQueue' \in Seq(Jobs) /\ gwBusy' \subseteq Jobs /\ PendingOnce'
          /\ \A l, q : Has(l, q)' => Has(l, q)
      BY <2>1, Unpolls
    <2>3. ~Deferred(r) => ~Has("generate", r) /\ ~Has("record", r)
      <3>1. Generated(r) => ~Has("generate", r) /\ ~Has("record", r)
        BY DEF Generated, Outstanding, Has, Pending, Job
      <3>2. gwPhase[r] # "generating" => ~Has("generate", r) /\ ~Has("record", r)
        BY <2>1 DEF PhasesFit, PhaseFits
      <3>3. QED
        BY <3>1, <3>2 DEF Deferred
    <2>4. /\ gwPhase'[r] = (IF gwPhase[r] = "responding" THEN "lost" ELSE "dropped")
          /\ \A q \in Requests \ {r} : gwPhase'[q] = gwPhase[q]
          /\ gwPhase' = [q \in Requests |-> gwPhase'[q]]
      BY <2>1 DEF GatewayTypes
    <2>9. gwPhase[r] = "responding" => ~Has("generate", r) /\ ~Has("record", r)
      BY <2>3 DEF Deferred
    <2>5. PhaseFits(r)
      BY DEF PhasesFit
    <2>6. PhaseFits(r)'
      BY <2>1, <2>2, <2>3, <2>4, <2>5, <2>9 DEF PhaseFits
    <2>7. PhasesFit'
      BY <2>1, <2>2, <2>4, <2>6, OthersFit
    <2>8. QED
      BY <2>1, <2>2, <2>4, <2>7 DEF GatewayInv, GatewayTypes, LeasesResident
  <1>15. QED
    BY <1>1, <1>2, <1>3, <1>4, <1>5, <1>6, <1>7, <1>8, <1>b, <1>p, <1>11, <1>12, <1>13, <1>14
       DEF GatewayNext, EndJob, Handle

\* The gateway begins as it has to be.
LEMMA GatewayStarts == GatewayInit => GatewayInv
  <1> SUFFICES ASSUME GatewayInit PROVE GatewayInv
    OBVIOUS
  <1>1. Range(gwQueue) = {} /\ gwQueue \in Seq(Jobs) /\ Len(gwQueue) = 0
    BY DEF GatewayInit, Range
  <1>2. \A k, r : ~Has(k, r)
    BY <1>1 DEF GatewayInit, Has, Pending
  <1>3. GatewayTypes /\ PendingOnce
    BY <1>1 DEF GatewayInit, GatewayTypes, PendingOnce, NoTwice
  <1>4. PhasesFit /\ LeasesResident
    BY <1>2 DEF GatewayInit, PhasesFit, PhaseFits, LeasesResident
  <1>5. QED
    BY <1>3, <1>4 DEF GatewayInv

\* A generation runs on the runtime its request leased: no cancellation, failed load or
\* other model's load takes the slot while a thread generates.
THEOREM RuntimeIsHeld == GatewaySpec => []RuntimeHeld
  <1>1. GatewayInit => GatewayInv
    BY GatewayStarts
  <1>2. GatewayInv => RuntimeHeld
    <2> SUFFICES ASSUME GatewayInv, NEW j \in gwBusy, j.kind = "generate" PROVE gwResident = Wants[j.request]
      BY DEF RuntimeHeld
    <2>1. j.request \in Requests /\ j = Job("generate", j.request)
      BY DEF GatewayInv, GatewayTypes, Jobs, Job
    <2>2. j.request \in gwLeases
      BY <2>1, GeneratesOnce DEF Has, Pending
    <2>3. QED
      BY <2>2 DEF GatewayInv, LeasesResident
  <1>3. QED
    BY <1>1, <1>2, GatewayKept, PTL DEF GatewaySpec

-----------------------------------------------------------------------------
(* The rest of the gateway: the permits are those that no request has, the *)
(* waiters are the requests that wait, each once, a generation is counted  *)
(* in one window, and the windows' numbers are never ahead of the clock.   *)

GwPhases == Over \cup {"new", "loading", "loaded", "responding", "waiting", "generating", "ending"}
Holding == {r \in Requests : gwPhase[r] \in {"generating", "ending"}}
GwWindows == [number : 0..MaxWindow, attempts : 1..Cardinality(Requests)]

\* A request that still may be recorded.
MayRecord(r) ==
  \/ gwPhase[r] \in {"new", "loading", "loaded", "responding", "waiting"}
  \/ Has("generate", r) \/ Has("record", r)
Unrecorded == {r \in Requests : MayRecord(r)}

GateFits ==
  /\ gwPhase \in [Requests -> GwPhases]
  /\ gwPermits \in Nat /\ gwPermits + Cardinality(Holding) = MaxConcurrent
  /\ gwWaiters \in Seq(Requests) /\ NoTwice(gwWaiters) /\ Range(gwWaiters) = {r \in Requests : gwPhase[r] = "waiting"}
RestFits ==
  /\ gwResident \in Models \cup {"none"} /\ gwDrops \in 0..MaxDrops /\ gwClock \in 0..MaxWindow
  /\ gwStamps \in [Requests -> 0..MaxWindow] /\ \A r \in Requests : gwStamps[r] <= gwClock
WindowsFit(windows, now, unrecorded) ==
  /\ windows \in Seq(GwWindows) /\ Len(windows) <= 2
  /\ \A i \in 1..Len(windows) : /\ windows[i].number <= now
                                /\ windows[i].attempts + unrecorded <= Cardinality(Requests)
  /\ Len(windows) = 2 => windows[1].number # windows[2].number
TrackerFits == WindowsFit(gwWindows, gwClock, Cardinality(Unrecorded))

GatewayAll == GatewayInv /\ GateFits /\ RestFits /\ TrackerFits

\* The first occurrence of an element is removed.
LEMMA FirstRemoved ==
  ASSUME NEW S, NEW q \in Seq(S), NEW e, e \in Range(q)
  PROVE  \E n \in 1..Len(q) : q[n] = e /\ RemoveFirst(q, e) = RemoveAt(q, n)
  <1> DEFINE I == {i \in 1..Len(q) : q[i] = e}
  <1>1. Len(q) \in Nat /\ DOMAIN q = 1..Len(q)
    OBVIOUS
  <1>2. I # {} /\ I \in SUBSET Nat
    BY <1>1 DEF Range
  <1>3. PICK n \in I : \A m \in I : n <= m
    <2> HIDE DEF I
    <2>1. QED
      BY <1>2, LeastNumber
  <1>4. Min(I) = n
    <2>1. \A m \in I : m \in Nat
      BY <1>2
    <2> HIDE DEF I
    <2>2. \A m \in I : (\A k \in I : m <= k) => m = n
      BY <1>3, <2>1
    <2>3. QED
      BY <1>3, <2>2 DEF Min
  <1>5. RemoveFirst(q, e) = RemoveAt(q, Min(I))
    BY <1>2 DEF RemoveFirst, SelectInSeq
  <1>6. QED
    BY <1>3, <1>4, <1>5
\* Removing what a queue does not have leaves the queue as it is.
LEMMA NotRemoved ==
  ASSUME NEW S, NEW q \in Seq(S), NEW e, e \notin Range(q)
  PROVE  RemoveFirst(q, e) = q
  <1>1. DOMAIN q = 1..Len(q)
    OBVIOUS
  <1>2. QED
    BY <1>1 DEF RemoveFirst, Range

\* A request takes or gives back a permit, or keeps what it has.
LEMMA PermitsKept ==
  ASSUME GateFits, NEW r \in Requests, NEW x \in GwPhases, gwPhase' = [gwPhase EXCEPT ![r] = x], NEW n \in Nat,
         \/ n = gwPermits /\ (gwPhase[r] \in {"generating", "ending"} <=> x \in {"generating", "ending"})
         \/ n + 1 = gwPermits /\ gwPhase[r] \notin {"generating", "ending"} /\ x \in {"generating", "ending"}
         \/ n = gwPermits + 1 /\ gwPhase[r] \in {"generating", "ending"} /\ x \notin {"generating", "ending"}
  PROVE  gwPhase' \in [Requests -> GwPhases] /\ n + Cardinality(Holding') = MaxConcurrent
  <1>1. gwPhase' \in [Requests -> GwPhases] /\ \A q \in Requests : gwPhase'[q] = IF q = r THEN x ELSE gwPhase[q]
    BY DEF GateFits
  <1>2. IsFiniteSet(Holding) /\ Cardinality(Holding) \in Nat
    BY GatewayAssumption, FS_Subset, FS_CardinalityType DEF Holding
  <1>3. r \in Holding <=> gwPhase[r] \in {"generating", "ending"}
    BY DEF Holding
  <1>4. Holding' = IF x \in {"generating", "ending"} THEN Holding \cup {r} ELSE Holding \ {r}
    BY <1>1 DEF Holding
  <1>5. CASE r \in Holding <=> x \in {"generating", "ending"}
    <2>1. Holding' = Holding /\ n = gwPermits
      BY <1>3, <1>4, <1>5
    <2>2. QED
      BY <1>1, <2>1 DEF GateFits
  <1>6. CASE r \notin Holding /\ x \in {"generating", "ending"}
    <2>1. Cardinality(Holding') = Cardinality(Holding) + 1 /\ n + 1 = gwPermits
      BY <1>2, <1>3, <1>4, <1>6, FS_AddElement
    <2>2. QED
      BY <1>1, <1>2, <2>1 DEF GateFits
  <1>7. CASE r \in Holding /\ x \notin {"generating", "ending"}
    <2>1. Cardinality(Holding') = Cardinality(Holding) - 1 /\ n = gwPermits + 1
      BY <1>2, <1>3, <1>4, <1>7, FS_RemoveElement
    <2>2. QED
      BY <1>1, <1>2, <2>1 DEF GateFits
  <1>8. QED
    BY <1>5, <1>6, <1>7

\* A step that moves one request, or none, and no waiter.
LEMMA GateMoves ==
  ASSUME GateFits, NEW r \in Requests, NEW x \in GwPhases, gwPhase' = [gwPhase EXCEPT ![r] = x],
         gwPermits' \in Nat, gwWaiters' = gwWaiters, gwPhase[r] # "waiting", x # "waiting",
         \/ gwPermits' = gwPermits /\ (gwPhase[r] \in {"generating", "ending"} <=> x \in {"generating", "ending"})
         \/ gwPermits' + 1 = gwPermits /\ gwPhase[r] \notin {"generating", "ending"} /\ x \in {"generating", "ending"}
         \/ gwPermits' = gwPermits + 1 /\ gwPhase[r] \in {"generating", "ending"} /\ x \notin {"generating", "ending"}
  PROVE  GateFits'
  <1> DEFINE n == gwPermits'
  <1>1. gwPhase' \in [Requests -> GwPhases] /\ n + Cardinality(Holding') = MaxConcurrent
    <2> HIDE DEF n
    <2>1. n \in Nat
      BY DEF n
    <2>2. QED
      BY <2>1, PermitsKept DEF n
  <1>2. {q \in Requests : gwPhase'[q] = "waiting"} = {q \in Requests : gwPhase[q] = "waiting"}
    BY DEF GateFits
  <1>3. QED
    BY <1>1, <1>2 DEF GateFits, NoTwice

\* A step that leaves phases, permits and waiters alone keeps the gate.
LEMMA GateSame == ASSUME GateFits, UNCHANGED <<gwPhase, gate>> PROVE GateFits'
  BY DEF GateFits, gate, Holding, NoTwice

\* Each action keeps the permits and the waiters.
LEMMA GateKept ==
  ASSUME GatewayInv, GateFits, [GatewayNext]_gwVars PROVE GateFits'
  <1>0. /\ gwPhase \in [Requests -> GwPhases] /\ gwPermits \in Nat /\ gwWaiters \in Seq(Requests)
        /\ NoTwice(gwWaiters) /\ Range(gwWaiters) = {r \in Requests : gwPhase[r] = "waiting"}
    BY DEF GateFits
  <1>1. CASE UNCHANGED gwVars \/ StartJob \/ Pass \/ Snapshot
    <2>1. UNCHANGED <<gwPhase, gate>>
      BY <1>1 DEF gwVars, StartJob, Pass, Snapshot, gate
    <2>2. QED
      BY <2>1, GateSame
  <1>2. ASSUME NEW r \in Requests, Arrive(r) PROVE GateFits'
    <2>1. PICK x \in {"loading", "failed"} : gwPhase' = [gwPhase EXCEPT ![r] = x]
      BY <1>2 DEF Arrive
    <2>2. gwPhase[r] = "new" /\ UNCHANGED <<gwPermits, gwWaiters>>
      BY <1>2 DEF Arrive, gate
    <2>3. x \in GwPhases
      BY DEF GwPhases, Over
    <2>4. QED
      BY <1>0, <2>1, <2>2, <2>3, GateMoves
  <1>3. ASSUME NEW r \in Requests, EndLoad(r) PROVE GateFits'
    <2>1. UNCHANGED <<gwPermits, gwWaiters>>
      BY <1>3 DEF EndLoad, gate
    <2>2. CASE gwPhase' = gwPhase
      BY <2>1, <2>2, GateSame DEF gate
    <2>3. CASE gwPhase' # gwPhase
      <3>1. PICK x \in {"loaded", "failed"} : gwPhase' = [gwPhase EXCEPT ![r] = x] /\ gwPhase[r] = "loading"
        BY <1>0, <1>3, <2>3 DEF EndLoad
      <3>2. x \in GwPhases
        BY DEF GwPhases, Over
      <3>3. QED
        BY <1>0, <2>1, <3>1, <3>2, GateMoves
    <2>4. QED
      BY <2>2, <2>3
  <1>4. ASSUME NEW r \in Requests, EndPoll(r) \/ EndGenerate(r) \/ Record(r) PROVE GateFits'
    <2>1. UNCHANGED <<gwPermits, gwWaiters>>
      BY <1>4 DEF EndPoll, EndGenerate, Record, gate
    <2>2. CASE gwPhase' = gwPhase
      BY <2>1, <2>2, GateSame DEF gate
    <2>3. CASE gwPhase' # gwPhase
      <3>1. gwPhase' = [gwPhase EXCEPT ![r] = "ending"]
        BY <1>0, <1>4, <2>3 DEF EndPoll, EndGenerate, Record
      <3>2. gwPhase[r] = "generating"
        <4>1. CASE EndPoll(r)
          BY <1>0, <2>3, <4>1 DEF EndPoll
        <4>2. CASE Record(r)
          <5>1. Has("record", r)
            BY <4>2 DEF Record, Running, Has, Pending
          <5>2. gwPhase[r] \in {"generating", "dropped"}
            BY <5>1 DEF GatewayInv, PhasesFit, PhaseFits
          <5>3. QED
            BY <2>3, <4>2, <5>2 DEF Record
        <4>3. QED
          BY <1>4, <2>3, <4>1, <4>2 DEF EndGenerate
      <3>3. "ending" \in GwPhases
        BY DEF GwPhases
      <3>4. QED
        BY <1>0, <2>1, <3>1, <3>2, <3>3, GateMoves
    <2>4. QED
      BY <2>2, <2>3
  <1>5. ASSUME NEW r \in Requests, gwPhase[r] \in {"loaded", "responding"}, Enter(r) PROVE GateFits'
    <2>2. CASE gwPermits > 0 /\ Generate(r) /\ UNCHANGED gwWaiters
      <3>1. gwPhase' = [gwPhase EXCEPT ![r] = "generating"] /\ gwPermits' \in Nat /\ gwPermits' + 1 = gwPermits
        BY <1>0, <2>2 DEF Generate
      <3>2. "generating" \in GwPhases
        BY DEF GwPhases
      <3>3. QED
        BY <1>0, <1>5, <2>2, <3>1, <3>2, GateMoves
    <2>3. CASE /\ gwWaiters' = Append(gwWaiters, r) /\ gwPhase' = [gwPhase EXCEPT ![r] = "waiting"]
               /\ gwPermits' = gwPermits
      <3>1. r \notin Range(gwWaiters)
        BY <1>0, <1>5
      <3>2. gwWaiters' \in Seq(Requests) /\ NoTwice(gwWaiters') /\ Range(gwWaiters') = Range(gwWaiters) \cup {r}
        BY <1>0, <2>3, <3>1, Appended
      <3>3. {q \in Requests : gwPhase'[q] = "waiting"} = {q \in Requests : gwPhase[q] = "waiting"} \cup {r}
        BY <1>0, <2>3
      <3>4. "waiting" \in GwPhases
        BY DEF GwPhases
      <3>5. gwPhase' \in [Requests -> GwPhases] /\ gwPermits + Cardinality(Holding') = MaxConcurrent
        BY <1>0, <1>5, <2>3, <3>4, PermitsKept
      <3>6. QED
        BY <1>0, <2>3, <3>2, <3>3, <3>5 DEF GateFits
    <2>4. QED
      BY <1>5, <2>2, <2>3 DEF Enter
  <1>p. ASSUME NEW r \in Requests, Prepare(r) PROVE GateFits'
    <2>0. gwPhase[r] = "loaded"
      BY <1>p DEF Prepare
    <2>1. CASE Enter(r)
      BY <1>5, <2>0, <2>1
    <2>2. CASE ~Enter(r)
      <3>1. PICK x \in {"failed", "responding"} : gwPhase' = [gwPhase EXCEPT ![r] = x] /\ UNCHANGED <<gwPermits, gwWaiters>>
        BY <1>p, <2>2 DEF Prepare, gate
      <3>2. x \in GwPhases
        BY DEF GwPhases, Over
      <3>3. QED
        BY <1>0, <2>0, <3>1, <3>2, GateMoves
    <2>3. QED
      BY <2>1, <2>2
  <1>b. ASSUME NEW r \in Requests, Begin(r) PROVE GateFits'
    BY <1>b, <1>5 DEF Begin
  <1>6. ASSUME NEW r \in Requests, Acquire(r) PROVE GateFits'
    <2>1. /\ gwPhase[r] = "waiting" /\ gwPermits > 0 /\ Head(gwWaiters) = r /\ gwWaiters' = Tail(gwWaiters)
          /\ gwPermits' = gwPermits - 1 /\ gwPhase' = [gwPhase EXCEPT ![r] = "generating"]
      BY <1>6 DEF Acquire, Generate
    <2>2. gwWaiters # <<>>
      <3>1. r \in Range(gwWaiters)
        BY <1>0, <2>1
      <3>2. QED
        BY <3>1 DEF Range
    <2>3. gwWaiters' \in Seq(Requests) /\ NoTwice(gwWaiters') /\ Range(gwWaiters') = Range(gwWaiters) \ {r}
      BY <1>0, <2>1, <2>2, Taken
    <2>4. {q \in Requests : gwPhase'[q] = "waiting"} = {q \in Requests : gwPhase[q] = "waiting"} \ {r}
      BY <1>0, <2>1
    <2>5. "generating" \in GwPhases
      BY DEF GwPhases
    <2> DEFINE n == gwPermits - 1
    <2>6. n \in Nat /\ n + 1 = gwPermits /\ gwPermits' = n
      BY <1>0, <2>1
    <2> HIDE DEF n
    <2>7. gwPhase' \in [Requests -> GwPhases] /\ n + Cardinality(Holding') = MaxConcurrent
      BY <1>0, <2>1, <2>5, <2>6, PermitsKept
    <2>8. QED
      BY <1>0, <2>3, <2>4, <2>6, <2>7 DEF GateFits
  <1>7. ASSUME NEW r \in Requests, Poll(r) PROVE GateFits'
    BY <1>7, GateSame DEF Poll, gate
  <1>8. ASSUME NEW r \in Requests, Answer(r) PROVE GateFits'
    <2>1. /\ gwPhase[r] = "ending" /\ gwPhase' = [gwPhase EXCEPT ![r] = "served"]
          /\ gwPermits' = gwPermits + 1 /\ gwWaiters' = gwWaiters /\ gwPermits' \in Nat
      BY <1>0, <1>8 DEF Answer
    <2>2. "served" \in GwPhases
      BY DEF GwPhases, Over
    <2>3. QED
      BY <1>0, <2>1, <2>2, GateMoves
  <1>9. ASSUME NEW r \in Requests, Drop(r) PROVE GateFits'
    <2>0. PICK x \in {"dropped", "lost"} : gwPhase' = [gwPhase EXCEPT ![r] = x]
      BY <1>9 DEF Drop
    <2>1. /\ gwPhase[r] \in {"loading", "loaded", "responding", "waiting", "generating"}
          /\ gwPhase' = [gwPhase EXCEPT ![r] = x]
          /\ gwWaiters' = RemoveFirst(gwWaiters, r)
          /\ gwPermits' = gwPermits + (IF gwPhase[r] = "generating" THEN 1 ELSE 0)
      BY <1>9, <2>0 DEF Drop
    <2>2. gwWaiters' \in Seq(Requests) /\ NoTwice(gwWaiters') /\ Range(gwWaiters') = Range(gwWaiters) \ {r}
      <3>1. CASE r \in Range(gwWaiters)
        <4>1. PICK n \in 1..Len(gwWaiters) : gwWaiters[n] = r /\ RemoveFirst(gwWaiters, r) = RemoveAt(gwWaiters, n)
          BY <1>0, <3>1, FirstRemoved
        <4>2. QED
          BY <1>0, <2>1, <4>1, Cancelled
      <3>2. CASE r \notin Range(gwWaiters)
        <4>1. gwWaiters' = gwWaiters
          BY <1>0, <2>1, <3>2, NotRemoved
        <4>2. QED
          BY <1>0, <3>2, <4>1
      <3>3. QED
        BY <3>1, <3>2
    <2>3. {q \in Requests : gwPhase'[q] = "waiting"} = {q \in Requests : gwPhase[q] = "waiting"} \ {r}
      BY <1>0, <2>1
    <2>4. x \in GwPhases
      BY DEF GwPhases, Over
    <2> DEFINE n == gwPermits + (IF gwPhase[r] = "generating" THEN 1 ELSE 0)
    <2>5. /\ n \in Nat /\ gwPermits' = n
          /\ \/ n = gwPermits + 1 /\ gwPhase[r] = "generating"
             \/ n = gwPermits /\ gwPhase[r] # "generating"
      BY <1>0, <2>1
    <2> HIDE DEF n
    <2>6. gwPhase' \in [Requests -> GwPhases] /\ n + Cardinality(Holding') = MaxConcurrent
      <3>1. \/ n = gwPermits /\ (gwPhase[r] \in {"generating", "ending"} <=> x \in {"generating", "ending"})
            \/ n = gwPermits + 1 /\ gwPhase[r] \in {"generating", "ending"} /\ x \notin {"generating", "ending"}
        BY <2>1, <2>5
      <3>2. QED
        BY <2>1, <2>4, <2>5, <3>1, PermitsKept
    <2>7. QED
      BY <1>0, <2>2, <2>3, <2>5, <2>6 DEF GateFits
  <1>10. QED
    BY <1>1, <1>2, <1>3, <1>4, <1>b, <1>p, <1>6, <1>7, <1>8, <1>9 DEF GatewayNext, EndJob, Handle

\* No step lets a request be recorded that could not be before, and recording one ends it.
LEMMA UnrecordedFalls ==
  ASSUME GatewayInv, GateFits, [GatewayNext]_gwVars
  PROVE  /\ Unrecorded' \subseteq Unrecorded
         /\ \A r \in Requests : Record(r) => r \in Unrecorded /\ r \notin Unrecorded'
  <1> GatewayTypes /\ PendingOnce
    BY DEF GatewayInv
  <1> JobKinds = {"load", "generate", "poll", "record"}
    BY DEF JobKinds
  <1>0. gwPhase \in [Requests -> GwPhases]
    BY DEF GateFits
  <1> DEFINE Early == {"new", "loading", "loaded", "responding", "waiting"}
             Falls == Unrecorded' \subseteq Unrecorded
  <1>a. ASSUME \A q \in Requests : /\ gwPhase'[q] \in Early => gwPhase[q] \in Early
                                   /\ Has("generate", q)' => Has("generate", q) \/ gwPhase[q] \in Early
                                   /\ Has("record", q)' => Has("record", q) \/ Has("generate", q)
        PROVE  Falls
    BY <1>a DEF Unrecorded, MayRecord
  <1>1. CASE UNCHANGED gwVars \/ Pass \/ Snapshot
    <2>1. UNCHANGED <<gwPhase, gwQueue, gwBusy>>
      BY <1>1 DEF gwVars, Pass, Snapshot, executor
    <2>2. Falls
      BY <2>1, <1>a DEF Has, Pending
    <2>3. CASE \E r \in Requests : Record(r)
      BY <2>1, <2>3 DEF Record, Leave, Running
    <2>4. QED
      BY <2>2, <2>3
  <1>2. CASE StartJob
    <2>1. gwQueue # <<>> /\ gwBusy' = gwBusy \cup {Head(gwQueue)} /\ gwQueue' = Tail(gwQueue) /\ gwPhase' = gwPhase
      BY <1>2 DEF StartJob
    <2>2. Head(gwQueue) \in Range(gwQueue) /\ Range(gwQueue') = Range(gwQueue) \ {Head(gwQueue)}
      BY <2>1, Taken DEF GatewayTypes, PendingOnce
    <2>3. Falls
      BY <1>a, <2>1, <2>2 DEF Has, Pending
    <2>4. ASSUME NEW r \in Requests, Record(r) PROVE FALSE
      <3>1. Job("record", r) \in gwBusy /\ Job("record", r) \notin gwBusy'
        BY <2>4 DEF Record, Leave, Running
      <3>2. QED
        BY <2>1, <3>1
    <2>5. QED
      BY <2>3, <2>4
  <1>3. ASSUME NEW r \in Requests, Record(r) PROVE Falls /\ r \in Unrecorded /\ r \notin Unrecorded'
    <2>1. /\ Running("record", r) /\ Leave("record", r) /\ gwQueue' = gwQueue
          /\ gwPhase' \in {gwPhase, [gwPhase EXCEPT ![r] = "ending"]}
      BY <1>3 DEF Record, GatewayTypes
    <2>2. /\ Has("record", r) /\ \A l, q : Has(l, q)' <=> Has(l, q) /\ ~(l = "record" /\ q = r)
      BY <2>1, Left
    <2>3. gwPhase[r] \in {"generating", "dropped"} /\ ~Has("generate", r)
      BY <2>2 DEF GatewayInv, PhasesFit, PhaseFits
    <2>4. \A q \in Requests : gwPhase'[q] \in {gwPhase[q], "ending"}
      BY <1>0, <2>1
    <2>5. r \in Unrecorded
      BY <2>2 DEF Unrecorded, MayRecord
    <2>6. r \notin Unrecorded'
      <3>1. gwPhase'[r] \notin Early /\ ~Has("generate", r)' /\ ~Has("record", r)'
        BY <2>2, <2>3, <2>4
      <3>2. QED
        BY <3>1 DEF Unrecorded, MayRecord
    <2>7. Falls
      BY <1>a, <2>2, <2>4
    <2>8. QED
      BY <2>5, <2>6, <2>7
  <1>4. ASSUME NEW r \in Requests, EndGenerate(r) PROVE Falls
    <2>1. /\ Job("generate", r) \in gwBusy /\ gwBusy' = (gwBusy \ {Job("generate", r)}) \cup {Job("record", r)}
          /\ UNCHANGED <<gwPhase, gwQueue>>
      BY <1>4 DEF EndGenerate, Running
    <2>2. \A k, l, q : Job(k, q) = Job(l, r) => k = l /\ q = r
      BY DEF Job
    <2>3. Has("generate", r)
      BY <2>1 DEF Has, Pending
    <2>4. \A q : (Has("generate", q)' => Has("generate", q)) /\ (Has("record", q)' => Has("record", q) \/ q = r)
      BY <2>1, <2>2 DEF Has, Pending
    <2>5. QED
      BY <1>a, <2>1, <2>3, <2>4
  <1>5. ASSUME NEW r \in Requests, Generate(r), gwPhase[r] \in {"loaded", "responding", "waiting"}, gwBusy' = gwBusy
        PROVE  Falls
    <2>1. ~Has("generate", r)
      BY <1>5, GeneratesOnce
    <2>2. \A l, q : Has(l, q)' <=> Has(l, q) \/ (l = "generate" /\ q = r)
      BY <1>5, <2>1, JobSubmitted DEF Generate
    <2>3. \A q \in Requests : gwPhase'[q] \in {gwPhase[q], "generating"}
      BY <1>0, <1>5 DEF Generate
    <2>4. QED
      BY <1>5, <1>a, <2>2, <2>3
  \* A step that adds no job but a load or a poll and no early phase but the next one.
  <1>6. ASSUME NEW r \in Requests, gwPhase' = gwPhase \/ \E x \in GwPhases :
                 gwPhase' = [gwPhase EXCEPT ![r] = x] /\ (x \in Early => gwPhase[r] \in Early),
               \A l, q : l \in {"generate", "record"} => (Has(l, q)' => Has(l, q))
        PROVE  Falls
    <2>1. \A q \in Requests : gwPhase'[q] \in Early => gwPhase[q] \in Early
      BY <1>0, <1>6
    <2>2. QED
      BY <1>6, <1>a, <2>1
  <1>7. ASSUME NEW r \in Requests, Arrive(r) PROVE Falls
    <2>1. gwPhase[r] = "new" /\ \E x \in GwPhases : gwPhase' = [gwPhase EXCEPT ![r] = x]
      BY <1>7 DEF Arrive, GwPhases, Over
    <2>2. \A l, q : l \in {"generate", "record"} => (Has(l, q)' => Has(l, q))
      <3>1. ~Has("load", r) /\ gwBusy' = gwBusy
        BY <1>7, <2>1, GeneratesOnce DEF Arrive
      <3>2. CASE Submit("load", r)
        BY <3>1, <3>2, JobSubmitted
      <3>3. CASE gwQueue' = gwQueue
        BY <3>1, <3>3 DEF Has, Pending
      <3>4. QED
        BY <1>7, <3>2, <3>3 DEF Arrive
    <2>3. QED
      BY <1>6, <2>1, <2>2
  <1>8. ASSUME NEW r \in Requests, EndLoad(r) \/ EndPoll(r) PROVE Falls
    <2>1. \A l, q : Has(l, q)' => Has(l, q)
      <3>1. CASE EndLoad(r)
        BY <3>1, Left DEF EndLoad
      <3>2. CASE EndPoll(r)
        BY <3>2, Left DEF EndPoll
      <3>3. QED
        BY <1>8, <3>1, <3>2
    <2>2. gwPhase' = gwPhase \/ \E x \in {"loaded", "failed", "ending"} :
            gwPhase' = [gwPhase EXCEPT ![r] = x] /\ (x \in Early => gwPhase[r] \in Early)
      <3>1. CASE EndLoad(r)
        BY <1>0, <3>1 DEF EndLoad
      <3>2. CASE EndPoll(r)
        BY <1>0, <3>2 DEF EndPoll
      <3>3. QED
        BY <1>8, <3>1, <3>2
    <2>3. {"loaded", "failed", "ending"} \subseteq GwPhases
      BY DEF GwPhases, Over
    <2>4. QED
      BY <1>6, <2>1, <2>2, <2>3
  <1>9. ASSUME NEW r \in Requests, Prepare(r) \/ Begin(r) PROVE Falls
    <2>0. gwPhase[r] \in {"loaded", "responding"} /\ gwBusy' = gwBusy
      BY <1>9 DEF Prepare, Begin
    <2>1. CASE Generate(r)
      BY <1>5, <2>0, <2>1
    <2>2. CASE ~Generate(r)
      <3>1. gwQueue' = gwQueue /\ \E x \in {"failed", "responding", "waiting"} : gwPhase' = [gwPhase EXCEPT ![r] = x]
        BY <1>9, <2>2 DEF Prepare, Begin, Enter
      <3>2. {"failed", "responding", "waiting"} \subseteq GwPhases
        BY DEF GwPhases, Over
      <3>3. \A l, q : Has(l, q)' => Has(l, q)
        BY <2>0, <3>1 DEF Has, Pending
      <3>4. QED
        BY <1>6, <2>0, <3>1, <3>2, <3>3
    <2>3. QED
      BY <2>1, <2>2
  <1>10. ASSUME NEW r \in Requests, Acquire(r) PROVE Falls
    BY <1>5, <1>10 DEF Acquire
  <1>11. ASSUME NEW r \in Requests, Poll(r) PROVE Falls
    <2>1. ~Has("poll", r) /\ Submit("poll", r) /\ gwBusy' = gwBusy /\ gwPhase' = gwPhase
      BY <1>11 DEF Poll, Outstanding, Has, Pending, Job
    <2>2. \A l, q : Has(l, q)' <=> Has(l, q) \/ (l = "poll" /\ q = r)
      BY <2>1, JobSubmitted
    <2>3. QED
      BY <1>6, <2>1, <2>2
  <1>12. ASSUME NEW r \in Requests, Answer(r) \/ Drop(r) PROVE Falls
    <2>1. \A l, q : Has(l, q)' => Has(l, q)
      <3>1. CASE Answer(r)
        BY <3>1 DEF Answer, executor, Has, Pending
      <3>2. CASE Drop(r)
        BY <3>2, Unpolls DEF Drop
      <3>3. QED
        BY <1>12, <3>1, <3>2
    <2>2. \E x \in {"served", "dropped", "lost"} : gwPhase' = [gwPhase EXCEPT ![r] = x]
      BY <1>12 DEF Answer, Drop
    <2>3. {"served", "dropped", "lost"} \subseteq GwPhases
      BY DEF GwPhases, Over
    <2>4. QED
      BY <1>6, <2>1, <2>2, <2>3
  <1>13. Falls
    BY <1>1, <1>2, <1>3, <1>4, <1>7, <1>8, <1>9, <1>10, <1>11, <1>12 DEF GatewayNext, EndJob, Handle
  <1>14. QED
    BY <1>3, <1>13

\* What the tracker's windows are, from their parts.
LEMMA WindowsFitFromParts ==
  ASSUME NEW windows \in Seq(GwWindows), NEW now, NEW u, Len(windows) <= 2,
         \A i \in 1..Len(windows) : windows[i].number <= now /\ windows[i].attempts + u <= Cardinality(Requests),
         Len(windows) = 2 => windows[1].number # windows[2].number
  PROVE  WindowsFit(windows, now, u)
  BY DEF WindowsFit

\* And the parts, of the whole.
LEMMA WindowsAre ==
  ASSUME NEW windows, NEW now, NEW u, WindowsFit(windows, now, u)
  PROVE  /\ windows \in Seq(GwWindows) /\ Len(windows) \in 0..2
         /\ \A i \in 1..Len(windows) : /\ windows[i] \in GwWindows
                                       /\ windows[i].number <= now
                                       /\ windows[i].attempts + u <= Cardinality(Requests)
                                       /\ windows[i].number \in 0..MaxWindow
                                       /\ windows[i].attempts \in 1..Cardinality(Requests)
         /\ Len(windows) = 2 => windows[1].number # windows[2].number
  <1>1. /\ windows \in Seq(GwWindows) /\ Len(windows) <= 2
        /\ \A i \in 1..Len(windows) : windows[i].number <= now /\ windows[i].attempts + u <= Cardinality(Requests)
        /\ Len(windows) = 2 => windows[1].number # windows[2].number
    BY DEF WindowsFit
  <1>2. Len(windows) \in 0..2
    <2>1. \A k \in Nat : k <= 2 => k \in 0..2
      OBVIOUS
    <2>2. Len(windows) \in Nat
      BY <1>1
    <2>3. QED
      BY <1>1, <2>1, <2>2
  <1>3. \A i \in 1..Len(windows) : windows[i] \in GwWindows
    BY <1>1
  <1>4. \A w \in GwWindows : w.number \in 0..MaxWindow /\ w.attempts \in 1..Cardinality(Requests)
    BY DEF GwWindows
  <1> HIDE DEF GwWindows
  <1>5. QED
    BY <1>1, <1>2, <1>3, <1>4

\* A record is counted in the last window or begins one of its own.
LEMMA CountedFits ==
  ASSUME NEW windows, NEW now \in 0..MaxWindow, NEW n \in 0..MaxWindow, n <= now, NEW u \in Nat, NEW v \in Nat,
         v + 1 <= u, u <= Cardinality(Requests), WindowsFit(windows, now, u)
  PROVE  WindowsFit(Counted(windows, n), now, v)
  <1> DEFINE C == Cardinality(Requests)
             new == Counted(windows, n)
  <1>0. /\ windows \in Seq(GwWindows) /\ Len(windows) \in 0..2 /\ C \in Nat
        /\ \A i \in 1..Len(windows) : windows[i] \in GwWindows
        /\ \A i \in 1..Len(windows) : windows[i].number <= now /\ windows[i].attempts + u <= C
        /\ Len(windows) = 2 => windows[1].number # windows[2].number
    <2>1. C \in Nat
      BY GatewayAssumption, FS_CardinalityType
    <2>2. QED
      BY <2>1, WindowsAre
  <1>1. \A i \in 1..Len(windows) : windows[i].number \in 0..MaxWindow /\ windows[i].attempts \in 1..C
    BY WindowsAre
  <1>2. CASE windows # <<>> /\ Last(windows).number = n
    <2> DEFINE last == Len(windows)
               w == [windows[last] EXCEPT !.attempts = @ + 1]
    <2>1. last \in 1..2 /\ windows[last].number = n
      BY <1>0, <1>2 DEF Last
    <2>2. new = [windows EXCEPT ![last] = w]
      BY <1>2 DEF Counted
    <2> HIDE DEF new
    <2>3. w \in GwWindows /\ w.number = n /\ w.attempts + v <= C
      <3>1. windows[last] \in GwWindows /\ windows[last].attempts + u <= C /\ windows[last].attempts \in 1..C
        BY <1>0, <1>1, <2>1
      <3>2. windows[last].attempts + 1 \in 1..C
        BY <1>0, <3>1
      <3>3. w \in GwWindows /\ w.number = windows[last].number /\ w.attempts = windows[last].attempts + 1
        BY <3>1, <3>2 DEF GwWindows
      <3> HIDE DEF w
      <3>4. QED
        BY <1>0, <2>1, <3>1, <3>3
    <2> HIDE DEF w
    <2>4. new \in Seq(GwWindows) /\ Len(new) = Len(windows)
      BY <1>0, <2>1, <2>2, <2>3
    <2>5. \A i \in 1..Len(new) : new[i] = IF i = last THEN w ELSE windows[i]
      BY <1>0, <2>2, <2>4
    <2> HIDE DEF last
    <2>6. \A i \in 1..Len(new) : new[i].number = windows[i].number /\ new[i].attempts + v <= C
      <3> SUFFICES ASSUME NEW i \in 1..Len(new) PROVE new[i].number = windows[i].number /\ new[i].attempts + v <= C
        OBVIOUS
      <3>1. i \in 1..Len(windows)
        BY <2>4
      <3>2. CASE i = last
        BY <2>1, <2>3, <2>5, <3>2
      <3>3. CASE i # last
        <4>1. new[i] = windows[i] /\ windows[i].attempts + u <= C /\ windows[i].attempts \in Nat
          BY <1>0, <1>1, <2>5, <3>1, <3>3
        <4>2. QED
          BY <1>0, <4>1
      <3>4. QED
        BY <3>2, <3>3
    <2>7. Len(new) = 2 => new[1].number # new[2].number
      BY <1>0, <2>4, <2>6
    <2>8. \A i \in 1..Len(new) : new[i].number <= now /\ new[i].attempts + v <= Cardinality(Requests)
      BY <1>0, <2>4, <2>6
    <2>9. Len(new) <= 2
      BY <1>0, <2>4
    <2>10. QED
      BY <2>4, <2>7, <2>8, <2>9, WindowsFitFromParts DEF new
  <1>3. CASE ~(windows # <<>> /\ Last(windows).number = n)
    <2> DEFINE w == [number |-> n, attempts |-> 1]
               all == Append(windows, w)
    <2>1. w \in GwWindows /\ w.number = n /\ w.attempts + v <= C
      BY <1>0 DEF GwWindows
    <2>2. new = IF Len(all) > 2 THEN Tail(all) ELSE all
      BY <1>3 DEF Counted
    <2> HIDE DEF new, w
    <2>3. /\ all \in Seq(GwWindows) /\ Len(all) = Len(windows) + 1
          /\ \A i \in 1..Len(windows) : all[i] = windows[i] /\ all[Len(windows) + 1] = w
          /\ all[Len(windows) + 1] = w
      BY <1>0, <2>1
    <2>4. Len(windows) # 0 => windows[Len(windows)].number # n
      BY <1>0, <1>3 DEF Last
    <2> HIDE DEF all
    <2>5. ASSUME NEW i \in 1..Len(all) PROVE all[i].number <= now /\ all[i].attempts + v <= C
      <3>1. CASE i = Len(windows) + 1
        BY <2>1, <2>3, <3>1
      <3>2. CASE i # Len(windows) + 1
        <4>1. i \in 1..Len(windows)
          BY <1>0, <2>3, <3>2
        <4>2. all[i] = windows[i] /\ windows[i].attempts + u <= C /\ windows[i].attempts \in Nat /\ windows[i].number <= now
          BY <1>0, <1>1, <2>3, <4>1
        <4>3. QED
          BY <1>0, <4>2
      <3>3. QED
        BY <3>1, <3>2
    <2>6. CASE Len(windows) <= 1
      <3>1. new = all /\ Len(all) <= 2
        BY <1>0, <2>2, <2>3, <2>6
      <3>2. Len(all) = 2 => all[1].number # all[2].number
        <4>1. CASE Len(windows) = 1
          BY <2>1, <2>3, <2>4, <4>1
        <4>2. CASE Len(windows) = 0
          <5>1. Len(all) = 1
            BY <2>3, <4>2
          <5>2. QED
            BY <5>1
        <4>3. QED
          BY <1>0, <2>6, <4>1, <4>2
      <3>3. QED
        <4>1. \A i \in 1..Len(new) : new[i].number <= now /\ new[i].attempts + v <= Cardinality(Requests)
          BY <2>5, <3>1
        <4>2. new \in Seq(GwWindows) /\ Len(new) <= 2 /\ (Len(new) = 2 => new[1].number # new[2].number)
          BY <2>3, <3>1, <3>2
        <4>3. QED
          BY <4>1, <4>2, WindowsFitFromParts DEF new
    <2>7. CASE Len(windows) = 2
      <3>1. new = Tail(all) /\ Len(all) = 3 /\ all[2] = windows[2] /\ all[3] = w
        <4>1. Len(all) = 3
          BY <2>3, <2>7
        <4>2. new = Tail(all)
          BY <2>2, <4>1
        <4>3. all[2] = windows[2] /\ all[3] = w
          BY <2>3, <2>7
        <4>4. QED
          BY <4>1, <4>2, <4>3
      <3>2. new \in Seq(GwWindows) /\ Len(new) = 2 /\ new[1] = windows[2] /\ new[2] = w
        <4>1. all # <<>>
          <5>1. Len(<<>>) = 0 /\ Len(all) = 3
            BY <3>1
          <5>2. QED
            BY <5>1
        <4>2. /\ Tail(all) \in Seq(GwWindows) /\ Len(Tail(all)) = Len(all) - 1
              /\ \A i \in 1..Len(Tail(all)) : Tail(all)[i] = all[i + 1]
          BY <2>3, <4>1, HeadTailProperties
        <4>3. Len(Tail(all)) = 2
          BY <3>1, <4>2
        <4>4. \A i \in 1..2 : Tail(all)[i] = all[i + 1]
          BY <4>2, <4>3
        <4>5. 1 \in 1..2 /\ 2 \in 1..2 /\ 1 + 1 = 2 /\ 2 + 1 = 3
          OBVIOUS
        <4>6. Tail(all)[1] = all[2] /\ Tail(all)[2] = all[3]
          BY <4>4, <4>5
        <4>7. QED
          BY <3>1, <4>2, <4>3, <4>6
      <3>3. \A i \in 1..Len(new) : new[i].number <= now /\ new[i].attempts + v <= C
        <4>1. Len(windows) = 2 /\ 2 \in 1..Len(all) /\ 3 \in 1..Len(all)
          BY <2>7, <3>1
        <4>2. /\ all[2].number <= now /\ all[2].attempts + v <= C
              /\ all[3].number <= now /\ all[3].attempts + v <= C
          BY <2>5, <4>1
        <4>3. \A i \in 1..Len(new) : i = 1 \/ i = 2
          BY <3>2
        <4>4. QED
          BY <3>1, <3>2, <4>2, <4>3
      <3>4. new[1].number # new[2].number
        BY <2>1, <2>4, <2>7, <3>2
      <3>5. QED
        <4>1. \A i \in 1..Len(new) : new[i].number <= now /\ new[i].attempts + v <= Cardinality(Requests)
          BY <3>3
        <4>2. new \in Seq(GwWindows) /\ Len(new) <= 2 /\ (Len(new) = 2 => new[1].number # new[2].number)
          BY <3>2, <3>4
        <4>3. QED
          BY <4>1, <4>2, WindowsFitFromParts DEF new
    <2>8. QED
      BY <1>0, <2>6, <2>7
  <1>4. QED
    BY <1>2, <1>3

\* Windows stay as they have to be when time passes and fewer requests are left.
LEMMA WindowsStillFit ==
  ASSUME NEW windows, NEW now \in Nat, NEW then \in Nat, now <= then, NEW u \in Nat, NEW v \in Nat, v <= u,
         WindowsFit(windows, now, u)
  PROVE  WindowsFit(windows, then, v)
  <1>1. ASSUME NEW i \in 1..Len(windows)
        PROVE  windows[i].number <= then /\ windows[i].attempts + v <= Cardinality(Requests)
    <2>1. windows[i] \in GwWindows /\ windows[i].number <= now /\ windows[i].attempts + u <= Cardinality(Requests)
      BY DEF WindowsFit
    <2>2. windows[i].number \in 0..MaxWindow /\ windows[i].attempts \in 1..Cardinality(Requests)
          /\ Cardinality(Requests) \in Nat
      BY GatewayAssumption, FS_CardinalityType, WindowsAre
    <2>3. QED
      BY <2>1, <2>2
  <1>2. windows \in Seq(GwWindows) /\ Len(windows) \in 0..2 /\ (Len(windows) = 2 => windows[1].number # windows[2].number)
    BY WindowsAre
  <1>3. QED
    BY <1>1, <1>2, WindowsFitFromParts

\* The other variables keep their types, and time does not go back.
LEMMA RestKept == ASSUME RestFits, [GatewayNext]_gwVars PROVE RestFits' /\ gwClock <= gwClock'
  <1> USE DEF RestFits
  <1>1. CASE UNCHANGED gwVars
    BY <1>1 DEF gwVars
  <1>2. CASE Pass
    BY <1>2, GatewayAssumption DEF Pass
  <1>3. CASE StartJob \/ Snapshot
    BY <1>3 DEF StartJob, Snapshot, tracker
  <1>4. ASSUME NEW r \in Requests, Arrive(r) \/ Handle(r) \/ EndPoll(r) PROVE RestFits' /\ gwClock <= gwClock'
    <2>1. UNCHANGED <<gwResident, gwDrops, tracker>>
      BY <1>4 DEF Arrive, Handle, Prepare, Begin, Acquire, Poll, Answer, EndPoll
    <2>2. QED
      BY <2>1 DEF tracker
  <1>5. ASSUME NEW r \in Requests, EndLoad(r) PROVE RestFits' /\ gwClock <= gwClock'
    <2>1. gwResident' \in {"none", Wants[r]} /\ UNCHANGED <<gwDrops, gwClock, gwStamps>>
      BY <1>5 DEF EndLoad, tracker
    <2>2. Wants[r] \in Models
      BY DEF Models
    <2>3. QED
      BY <2>1, <2>2
  <1>6. ASSUME NEW r \in Requests, EndGenerate(r) PROVE RestFits' /\ gwClock <= gwClock'
    BY <1>6 DEF EndGenerate
  <1>7. ASSUME NEW r \in Requests, Record(r) PROVE RestFits' /\ gwClock <= gwClock'
    BY <1>7, GatewayAssumption DEF Record
  <1>8. ASSUME NEW r \in Requests, Drop(r) PROVE RestFits' /\ gwClock <= gwClock'
    BY <1>8, GatewayAssumption DEF Drop, tracker
  <1>9. QED
    BY <1>1, <1>2, <1>3, <1>4, <1>5, <1>6, <1>7, <1>8 DEF GatewayNext, EndJob

\* The tracker's windows stay as they have to be.
LEMMA TrackerKept ==
  ASSUME GatewayAll, [GatewayNext]_gwVars PROVE TrackerFits'
  <1> DEFINE u == Cardinality(Unrecorded)
             v == Cardinality(Unrecorded')
  <1>0. GatewayInv /\ GateFits /\ RestFits /\ WindowsFit(gwWindows, gwClock, u)
    BY DEF GatewayAll, TrackerFits
  <1>1. gwClock \in 0..MaxWindow /\ gwClock' \in Nat /\ gwClock \in Nat /\ gwClock <= gwClock'
    BY <1>0, RestKept, GatewayAssumption DEF RestFits
  <1>2. Unrecorded' \subseteq Unrecorded /\ \A r \in Requests : Record(r) => r \in Unrecorded /\ r \notin Unrecorded'
    BY <1>0, UnrecordedFalls
  <1>3. /\ IsFiniteSet(Unrecorded) /\ IsFiniteSet(Unrecorded') /\ u \in Nat /\ v \in Nat /\ v <= u
        /\ u <= Cardinality(Requests)
    <2>1. IsFiniteSet(Unrecorded) /\ u <= Cardinality(Requests)
      BY GatewayAssumption, FS_Subset DEF Unrecorded
    <2>2. IsFiniteSet(Unrecorded') /\ v <= u
      BY <1>2, <2>1, FS_Subset
    <2>3. QED
      BY <2>1, <2>2, FS_CardinalityType
  <1>4. ASSUME NEW r \in Requests, Record(r) PROVE TrackerFits'
    <2>1. v + 1 <= u
      <3>1. r \in Unrecorded /\ Unrecorded' \subseteq Unrecorded \ {r}
        BY <1>2, <1>4
      <3>2. IsFiniteSet(Unrecorded \ {r}) /\ Cardinality(Unrecorded \ {r}) = u - 1
        BY <1>3, <3>1, FS_RemoveElement
      <3>3. v <= u - 1
        BY <3>1, <3>2, FS_Subset
      <3>4. QED
        BY <1>3, <3>3
    <2>2. gwWindows' = Counted(gwWindows, gwStamps[r]) /\ gwClock' = gwClock
      BY <1>4 DEF Record
    <2> DEFINE n == gwStamps[r]
    <2>3. n \in 0..MaxWindow /\ n <= gwClock
      BY <1>0 DEF RestFits
    <2> HIDE DEF n, u, v
    <2>4. WindowsFit(Counted(gwWindows, n), gwClock, v)
      BY <1>0, <1>1, <1>3, <2>1, <2>3, CountedFits
    <2>5. QED
      BY <2>2, <2>4 DEF TrackerFits, n, v
  <1>5. CASE gwWindows' = gwWindows
    <2> HIDE DEF u, v
    <2>1. WindowsFit(gwWindows, gwClock', v)
      BY <1>0, <1>1, <1>3, WindowsStillFit
    <2>2. QED
      BY <1>5, <2>1 DEF TrackerFits, v
  <1>6. CASE Snapshot
    <2>1. gwWindows' = <<>>
      BY <1>6 DEF Snapshot
    <2>2. QED
      BY <2>1 DEF TrackerFits, WindowsFit
  <1>7. CASE UNCHANGED gwVars \/ StartJob \/ Pass
    BY <1>5, <1>7 DEF gwVars, StartJob, Pass, tracker
  <1>8. ASSUME NEW r \in Requests, ~Record(r), Arrive(r) \/ EndJob(r) \/ Handle(r) \/ Drop(r) PROVE gwWindows' = gwWindows
    BY <1>8 DEF Arrive, EndJob, EndLoad, EndPoll, EndGenerate, Handle, Prepare, Begin, Acquire, Poll, Answer, Drop, tracker
  <1>9. QED
    BY <1>4, <1>5, <1>6, <1>7, <1>8 DEF GatewayNext

\* All of it holds before the first request.
LEMMA GatewayAllStarts == GatewayInit => GatewayAll
  <1> SUFFICES ASSUME GatewayInit PROVE GatewayAll
    OBVIOUS
  <1>1. GatewayInv
    BY GatewayStarts
  <1>2. \A r \in Requests : gwPhase[r] = "new"
    BY DEF GatewayInit
  <1>3. GateFits
    <2>1. Holding = {} /\ {r \in Requests : gwPhase[r] = "waiting"} = {}
      BY <1>2 DEF Holding
    <2>2. gwPhase \in [Requests -> GwPhases]
      BY DEF GatewayInit, GwPhases
    <2>3. gwWaiters \in Seq(Requests) /\ NoTwice(gwWaiters) /\ Range(gwWaiters) = {}
      BY DEF GatewayInit, NoTwice, Range
    <2>4. gwPermits \in Nat /\ gwPermits + Cardinality(Holding) = MaxConcurrent
      BY <2>1, GatewayAssumption, FS_EmptySet DEF GatewayInit
    <2>5. QED
      BY <2>1, <2>2, <2>3, <2>4 DEF GateFits
  <1>4. RestFits
    BY GatewayAssumption DEF GatewayInit, RestFits
  <1>5. TrackerFits
    BY DEF GatewayInit, TrackerFits, WindowsFit
  <1>6. QED
    BY <1>1, <1>3, <1>4, <1>5 DEF GatewayAll

\* A sequence without repetitions over a finite set is no longer than the set.
LEMMA NoTwiceBounded ==
  ASSUME NEW S, IsFiniteSet(S), NEW q \in Seq(S), NoTwice(q) PROVE Len(q) <= Cardinality(S)
  <1>1. Len(q) \in Nat /\ q \in [1..Len(q) -> S]
    OBVIOUS
  <1>2. q \in Injection(1..Len(q), S)
    BY <1>1 DEF Injection, IsInjective, NoTwice
  <1>3. Cardinality(1..Len(q)) <= Cardinality(S)
    BY <1>2, FS_Injection
  <1>4. Cardinality(1..Len(q)) = Len(q)
    BY <1>1, FS_Interval
  <1>5. QED
    BY <1>3, <1>4

\* A sequence that is not long is a bounded one.
LEMMA SequencesBounded ==
  ASSUME NEW S, NEW q \in Seq(S), NEW n \in Nat, Len(q) <= n PROVE q \in BoundedSeq(S, n)
  <1>1. Len(q) \in 0..n /\ q \in [1..Len(q) -> S]
    OBVIOUS
  <1>2. QED
    BY <1>1 DEF BoundedSeq, SeqOf

\* What the tracker publishes is a window that is over, although records may reach it in an
\* order its clock did not give (closed_snapshot(), route_metrics.py); and every variable of
\* the gateway has its type: the permits never exceed max_concurrent, and a request waits once.
THEOREM PublishedIsClosed == GatewaySpec => [](GatewayTypeOK /\ OnlyClosedPublished)
  <1>1. GatewayAll /\ [GatewayNext]_gwVars => GatewayAll'
    BY GatewayKept, GateKept, RestKept, TrackerKept DEF GatewayAll
  <1>2. GatewayAll => GatewayTypeOK
    <2> SUFFICES ASSUME GatewayAll PROVE GatewayTypeOK
      OBVIOUS
    <2>1. GatewayInv /\ GateFits /\ RestFits /\ TrackerFits
      BY DEF GatewayAll
    <2>2. gwBusy \cup Range(gwQueue) \subseteq [kind : {"load", "generate", "poll", "record"}, request : Requests]
      <3>1. gwBusy \subseteq Jobs /\ gwQueue \in Seq(Jobs)
        BY <2>1 DEF GatewayInv, GatewayTypes
      <3>2. Range(gwQueue) \subseteq Jobs
        <4>1. DOMAIN gwQueue = 1..Len(gwQueue) /\ \A i \in 1..Len(gwQueue) : gwQueue[i] \in Jobs
          BY <3>1
        <4>2. QED
          BY <4>1 DEF Range
      <3>3. gwBusy \cup Range(gwQueue) \subseteq Jobs
        BY <3>1, <3>2
      <3>4. QED
        BY <3>3 DEF Jobs, JobKinds
    <2>3. Cardinality(Requests) \in Nat
      BY GatewayAssumption, FS_CardinalityType
    <2>4. gwWaiters \in BoundedSeq(Requests, Cardinality(Requests))
      <3> DEFINE n == Cardinality(Requests)
      <3>1. gwWaiters \in Seq(Requests) /\ Len(gwWaiters) <= n
        BY <2>1, GatewayAssumption, NoTwiceBounded DEF GateFits
      <3> HIDE DEF n
      <3>2. QED
        BY <2>3, <3>1, SequencesBounded DEF n
    <2>5. gwWindows \in BoundedSeq(GwWindows, 2)
      <3>1. gwWindows \in Seq(GwWindows) /\ Len(gwWindows) <= 2
        BY <2>1 DEF TrackerFits, WindowsFit
      <3>2. QED
        BY <3>1, SequencesBounded
    <2>6. gwPermits \in 0..MaxConcurrent
      <3>1. Cardinality(Holding) \in Nat
        BY GatewayAssumption, FS_Subset, FS_CardinalityType DEF Holding
      <3>2. QED
        BY <2>1, <3>1, GatewayAssumption DEF GateFits
    <2>7. QED
      BY <2>1, <2>2, <2>4, <2>5, <2>6 DEF GatewayTypeOK, GateFits, RestFits, GwPhases, GwWindows, GatewayInv, GatewayTypes
  <1>3. GatewayAll => OnlyClosedPublished
    <2> SUFFICES ASSUME GatewayAll, NEW w \in ClosedSnapshot(gwWindows, gwClock) PROVE w.number < gwClock
      BY DEF OnlyClosedPublished
    <2> DEFINE last == Len(gwWindows)
               at == IF gwWindows # <<>> /\ gwWindows[last].number < gwClock THEN last ELSE last - 1
    <2>1. /\ gwWindows \in Seq(GwWindows) /\ last \in 0..2 /\ gwClock \in Nat
          /\ \A i \in 1..last : gwWindows[i].number <= gwClock /\ gwWindows[i].number \in Nat
          /\ last = 2 => gwWindows[1].number # gwWindows[2].number
      <3>1. gwClock \in Nat /\ WindowsFit(gwWindows, gwClock, Cardinality(Unrecorded))
        BY GatewayAssumption DEF GatewayAll, TrackerFits, RestFits
      <3>2. QED
        BY <3>1, WindowsAre, GatewayAssumption
    <2>2. at \in DOMAIN gwWindows /\ w = gwWindows[at]
      BY DEF ClosedSnapshot
    <2>3. DOMAIN gwWindows = 1..last
      BY <2>1
    <2>4. CASE at = last
      <3>1. gwWindows[last].number < gwClock
        BY <2>1, <2>4
      <3>2. QED
        BY <2>2, <2>4, <3>1
    <2>5. CASE at # last
      <3>1. last = 2 /\ at = 1 /\ ~(gwWindows[2].number < gwClock)
        <4>1. at = last - 1 /\ ~(gwWindows # <<>> /\ gwWindows[last].number < gwClock)
          BY <2>5
        <4>2. last - 1 \in 1..last
          BY <2>2, <2>3, <4>1
        <4>3. last = 2
          BY <2>1, <4>2
        <4>4. gwWindows # <<>>
          <5>1. Len(<<>>) = 0 /\ Len(gwWindows) = 2
            BY <4>3
          <5>2. QED
            BY <5>1
        <4>5. QED
          BY <4>1, <4>3, <4>4
      <3>2. QED
        BY <2>1, <2>2, <3>1
    <2>6. QED
      BY <2>4, <2>5
  <1>4. QED
    BY <1>1, <1>2, <1>3, GatewayAllStarts, PTL DEF GatewaySpec

-----------------------------------------------------------------------------
(* The proofs of SecretKept and OneDesktop.  A desktop process that opens  *)
(* its window holds the lock, and it may have a live node only as long as  *)
(* it owns it or after it crashed; what it remembers as migrated is in the *)
(* native store.                                                           *)

\* A process that has no window yet, or has left.
Windowless == {"off", "notify", "lock", "again", "stale", "retry", "listen", "gone"}

DesktopTypes ==
  /\ DOMAIN dkPhase = Desktops /\ DOMAIN dkTask = Desktops /\ DOMAIN dkNode = NodeIds
  /\ DOMAIN dkMigrated = Desktops /\ DOMAIN dkOwns = Desktops
  /\ dkPort \in NodeIds \cup {NoDesktop}
  /\ dkFile \in {"none", "old"}

\* Whoever listens or has a window holds the lock.
LockHeld == \A d \in Desktops : dkPhase[d] \in {"listen", "open"} => dkLock = d

\* A live node is owned by the process that started it, unless that one crashed;
\* without a window no task runs and no node of the process lives.
NodesOwned ==
  \A d \in Desktops :
    /\ dkPhase[d] # "crashed" /\ Alive(d) => dkOwns[d]
    /\ dkPhase[d] \in Windowless => ~Alive(d)
    /\ dkPhase[d] \in Windowless \cup {"crashed"} => dkTask[d] = "idle"

\* The port is held by a node that has bound it: one that still boots holds none.
PortReady == dkPort # NoDesktop => dkNode[dkPort] = "ready"

\* A secret that came from the legacy file is in the native store.
ImportHeld == \A d \in Desktops : dkMigrated[d] => dkNative = "old"

DesktopInv == DesktopTypes /\ LockHeld /\ NodesOwned /\ PortReady /\ ImportHeld

\* Becoming the one instance changes the phases, the lock and the endpoint only.
LEMMA InstanceKept ==
  ASSUME DesktopInv, NEW d \in Desktops,
         Launch(d) \/ Notify(d) \/ TryLock(d) \/ RemoveStale(d) \/ Listen(d) \/ Quit(d) \/ BeginClose(d)
  PROVE  DesktopInv'
  <1> USE DEF DesktopInv, DesktopTypes, LockHeld, NodesOwned, PortReady, ImportHeld, Windowless, Alive, Goes,
              DesktopFault, dkWindow, dkNodes, dkSidecar, dkSecrets
  <1>1. CASE Launch(d)
    BY <1>1 DEF Launch
  <1>2. CASE Notify(d)
    BY <1>2 DEF Notify
  <1>3. CASE TryLock(d)
    BY <1>3, DesktopAssumption DEF TryLock
  <1>4. CASE RemoveStale(d)
    BY <1>4, DesktopAssumption DEF RemoveStale
  <1>5. CASE Listen(d)
    BY <1>5 DEF Listen
  <1>6. CASE Quit(d)
    BY <1>6 DEF Quit
  <1>7. CASE BeginClose(d)
    BY <1>7 DEF BeginClose
  <1>8. QED
    BY <1>1, <1>2, <1>3, <1>4, <1>5, <1>6, <1>7

\* So does the window's work up to the wait for the node, which starts a node only
\* for a process that has none.
LEMMA WindowKept ==
  ASSUME DesktopInv, NEW d \in Desktops,
         Refresh(d) \/ TakeSnapshot(d) \/ Provision(d) \/ Refused(d) \/ BackoffEnds(d) \/ Probe(d)
  PROVE  DesktopInv'
  <1> USE DEF DesktopInv, DesktopTypes, LockHeld, NodesOwned, PortReady, ImportHeld, Windowless, Alive, Works,
              DesktopFault, dkWindow, dkInstance, dkNodes, dkSidecar, dkSecrets, NodeIds
  <1>1. CASE Refresh(d)
    BY <1>1 DEF Refresh
  <1>2. CASE TakeSnapshot(d)
    BY <1>2 DEF TakeSnapshot, Serves
  <1>3. CASE Provision(d)
    BY <1>3 DEF Provision, Serves
  <1>4. CASE Refused(d)
    BY <1>4 DEF Refused
  <1>5. CASE BackoffEnds(d)
    BY <1>5 DEF BackoffEnds
  <1>6. CASE Probe(d)
    BY <1>6 DEF Probe, Connected, Failed, Forgets, ForgetDead, RecordFailure, StartSidecar
  <1>7. QED
    BY <1>1, <1>2, <1>3, <1>4, <1>5, <1>6

\* What a node's end leaves behind.
LEMMA StoppedKept ==
  ASSUME DesktopTypes, PortReady, NEW d \in Desktops, Stopped(d)
  PROVE  /\ DOMAIN dkNode' = NodeIds /\ DOMAIN dkOwns' = Desktops /\ dkPort' \in NodeIds \cup {NoDesktop}
         /\ ~Alive(d)' /\ PortReady'
         /\ \A e \in Desktops \ {d} : dkNode'[e] = dkNode[e] /\ dkOwns'[e] = dkOwns[e]
  BY DesktopAssumption DEF DesktopTypes, PortReady, Stopped, Alive, NodeIds

\* A node's end is seen by the process that owns it.
LEMMA NodeKept ==
  ASSUME DesktopInv, NEW d \in Desktops, WaitReady(d) \/ CloseSidecar(d) \/ DesktopCrashes(d)
  PROVE  DesktopInv'
  <1> USE DEF DesktopInv, DesktopTypes, LockHeld, NodesOwned, ImportHeld, Windowless, Works,
              DesktopFault, dkInstance, dkNodes, dkSecrets
  <1>1. CASE WaitReady(d)
    <2> USE <1>1 DEF WaitReady, Failed, Forgets, RecordFailure
    <2>1. CASE Stopped(d) /\ Failed(d) /\ UNCHANGED dkFile
      BY <2>1, StoppedKept DEF Alive
    <2>2. CASE Serves(d) /\ ~Alive(d) /\ ForgetDead(d) /\ Failed(d) /\ UNCHANGED <<dkNode, dkPort, dkFile>>
      BY <2>2 DEF Alive, ForgetDead, PortReady
    <2>3. CASE Serves(d) /\ Connected(d) /\ UNCHANGED <<dkNode, dkPort, dkOwns>>
               /\ dkFile' = IF dkMigrated[d] /\ dkTask[d] = "started" THEN "none" ELSE dkFile
      BY <2>3 DEF Alive, Connected, PortReady
    <2>4. QED
      BY <2>1, <2>2, <2>3
  <1>2. CASE CloseSidecar(d)
    <2>1. CASE dkOwns[d]
      BY <1>2, <2>1, StoppedKept DEF CloseSidecar, Goes, Ends, Alive
    <2>2. CASE ~dkOwns[d]
      BY <1>2, <2>2 DEF CloseSidecar, Goes, Ends, Alive, PortReady
    <2>3. QED
      BY <2>1, <2>2
  <1>3. CASE DesktopCrashes(d)
    BY <1>3 DEF DesktopCrashes, Goes, Ends, Alive, PortReady
  <1>4. QED
    BY <1>1, <1>2, <1>3

\* A node binds the port when it is free, and leaves it when it ends.
LEMMA BindingKept ==
  ASSUME DesktopInv, NEW n \in NodeIds, NodeBinds(n) \/ NodeEnds(n)
  PROVE  DesktopInv'
  <1> USE DesktopAssumption DEF DesktopInv, DesktopTypes, LockHeld, NodesOwned, PortReady, ImportHeld, Windowless,
              Alive, DesktopFault, dkInstance, dkWindow, dkSidecar, dkSecrets, NodeIds
  <1>1. CASE NodeBinds(n)
    <2>1. /\ DOMAIN dkNode' = NodeIds /\ dkPort' \in {dkPort, n}
          /\ dkPort' = n \/ dkPort # NoDesktop
          /\ dkPort # NoDesktop => dkNode'[n] = "dead"
          /\ dkPort = NoDesktop => dkNode'[n] = "ready" /\ dkPort' = n
          /\ \A m \in NodeIds \ {n} : dkNode'[m] = dkNode[m]
      BY <1>1 DEF NodeBinds
    <2>2. dkPort # n
      BY <1>1 DEF NodeBinds
    <2>3. QED
      BY <1>1, <2>1, <2>2 DEF NodeBinds
  <1>2. CASE NodeEnds(n)
    BY <1>2 DEF NodeEnds
  <1>3. QED
    BY <1>1, <1>2

\* Hence it always holds.
LEMMA DesktopInvAlways == DkSpec => []DesktopInv
  <1>1. DkInit => DesktopInv
    BY DesktopAssumption DEF DkInit, DesktopInv, DesktopTypes, LockHeld, NodesOwned, PortReady, ImportHeld,
         Windowless, Alive, NodeIds
  <1>2. DesktopInv /\ [DkNext]_dkVars => DesktopInv'
    <2> SUFFICES ASSUME DesktopInv, [DkNext]_dkVars PROVE DesktopInv'
      OBVIOUS
    <2>1. CASE UNCHANGED dkVars
      BY <2>1 DEF DesktopInv, DesktopTypes, LockHeld, NodesOwned, PortReady, ImportHeld, Alive, dkVars
    <2>2. CASE DkNext
      BY <2>2, InstanceKept, WindowKept, NodeKept, BindingKept DEF DkNext, DesktopSteps
    <2>3. QED
      BY <2>1, <2>2
  <1>3. QED
    BY <1>1, <1>2, PTL DEF DkSpec

\* However desktop processes start, hand over, quit and crash, one of them has the
\* window, one that has left by its own way leaves no node, and the port's holder lives.
THEOREM OneInstance == DkSpec => []OneDesktop
  <1>1. DesktopInv => OneDesktop
    BY DEF DesktopInv, LockHeld, NodesOwned, PortReady, OneDesktop, Windowless, Alive
  <1>2. QED
    BY <1>1, DesktopInvAlways, PTL

\* The control key of an installation is never lost: its file goes only when the native
\* store holds it, and the store keeps what it has.
THEOREM SecretIsKept == DkSpec => SecretKept
  <1> DEFINE Step == /\ dkNative # "none" => dkNative' = dkNative
                     /\ dkFile = "old" /\ dkFile' = "none" => dkNative = "old"
  <1>1. DesktopInv /\ [DkNext]_dkVars => Step
    <2> SUFFICES ASSUME DesktopInv, [DkNext]_dkVars PROVE Step
      OBVIOUS
    <2>1. CASE UNCHANGED <<dkNative, dkFile>>
      BY <2>1
    <2>2. ASSUME NEW d \in Desktops, Provision(d) PROVE Step
      BY <2>2 DEF Provision
    <2>3. ASSUME NEW d \in Desktops, WaitReady(d) PROVE Step
      BY <2>3 DEF WaitReady, DesktopInv, ImportHeld
    <2>4. ASSUME NEW d \in Desktops, ~Provision(d), ~WaitReady(d),
                 DesktopSteps(d) \/ Launch(d) \/ Quit(d) \/ DesktopCrashes(d)
          PROVE  UNCHANGED <<dkNative, dkFile>>
      BY <2>4 DEF DesktopSteps, Launch, Quit, DesktopCrashes, Notify, TryLock, RemoveStale, Listen, Refresh,
           TakeSnapshot, Refused, Probe, BackoffEnds, BeginClose, CloseSidecar, dkSecrets
    <2>5. ASSUME NEW n \in NodeIds, NodeBinds(n) \/ NodeEnds(n) PROVE UNCHANGED <<dkNative, dkFile>>
      BY <2>5 DEF NodeBinds, NodeEnds, dkSecrets
    <2>6. QED
      BY <2>1, <2>2, <2>3, <2>4, <2>5 DEF DkNext, dkVars
  <1>2. QED
    BY <1>1, DesktopInvAlways, PTL DEF DkSpec, SecretKept
\* No step of a desktop process or of a node leaves what the variables may be.
LEMMA DesktopTypesKept == ASSUME DesktopTypes, DkTypeOK, [DkNext]_dkVars PROVE DkTypeOK'
  <1> USE DEF DkTypeOK, DesktopTypes, Goes, Works, NodeIds
  <1>1. CASE UNCHANGED dkVars
    BY <1>1 DEF dkVars
  <1>2. ASSUME NEW d \in Desktops, Launch(d) \/ Notify(d) \/ TryLock(d) \/ RemoveStale(d) \/ Listen(d) \/ Quit(d)
                                   \/ BeginClose(d)
        PROVE  DkTypeOK'
    <2>1. UNCHANGED <<dkTask, dkPort, dkNative, dkFile>> /\ dkLock' \in {dkLock, d, NoDesktop}
          /\ dkServer' \in {dkServer, d, NoDesktop}
      BY <1>2 DEF Launch, Notify, TryLock, RemoveStale, Listen, Quit, BeginClose, dkWindow, dkNodes, dkSecrets
    <2>2. \E x \in {"notify", "gone", "lock", "stale", "listen", "again", "retry", "open", "quit", "closing"} :
            dkPhase' = [dkPhase EXCEPT ![d] = x]
      BY <1>2 DEF Launch, Notify, TryLock, RemoveStale, Listen, Quit, BeginClose
    <2>3. QED
      BY <2>1, <2>2
  <1>3. ASSUME NEW d \in Desktops, Refresh(d) \/ TakeSnapshot(d) \/ Provision(d) \/ Refused(d) \/ Probe(d)
                                   \/ WaitReady(d) \/ BackoffEnds(d)
        PROVE  DkTypeOK'
    <2>1. UNCHANGED <<dkPhase, dkLock, dkServer>> /\ dkPort' \in {dkPort, NoDesktop} /\ dkFile' \in {dkFile, "none"}
      BY <1>3 DEF Refresh, TakeSnapshot, Provision, Refused, Probe, WaitReady, BackoffEnds, Stopped, Connected, Failed,
           dkInstance, dkNodes, dkSecrets
    <2>2. dkNative' \in {dkNative, dkFile, "new"}
      BY <1>3 DEF Refresh, TakeSnapshot, Provision, Refused, Probe, WaitReady, BackoffEnds, dkSecrets
    <2>3. dkTask' = dkTask \/ \E x \in {"idle", "connect", "probe", "wait", "started", "snapshot"} :
            dkTask' = [dkTask EXCEPT ![d] = x]
      BY <1>3 DEF Refresh, TakeSnapshot, Provision, Refused, Probe, WaitReady, BackoffEnds, Connected, Failed,
           StartSidecar, dkWindow
    <2>4. QED
      BY <2>1, <2>2, <2>3
  <1>4. ASSUME NEW d \in Desktops, CloseSidecar(d) \/ DesktopCrashes(d) PROVE DkTypeOK'
    <2>1. UNCHANGED <<dkLock, dkNative, dkFile>> /\ dkServer' \in {dkServer, NoDesktop} /\ dkPort' \in {dkPort, NoDesktop}
      BY <1>4 DEF CloseSidecar, DesktopCrashes, Stopped, dkNodes, dkSecrets
    <2>2. dkTask' = [dkTask EXCEPT ![d] = "idle"]
          /\ \E x \in {"gone", "crashed"} : dkPhase' = [dkPhase EXCEPT ![d] = x]
      BY <1>4 DEF CloseSidecar, DesktopCrashes, Ends
    <2>3. QED
      BY <2>1, <2>2
  <1>5. ASSUME NEW n \in NodeIds, NodeBinds(n) \/ NodeEnds(n) PROVE DkTypeOK'
    BY <1>5 DEF NodeBinds, NodeEnds, dkInstance, dkWindow, dkSecrets
  <1>6. QED
    BY <1>1, <1>2, <1>3, <1>4, <1>5 DEF DkNext, DesktopSteps

\* Every variable that the desktop's promises are about keeps its type.
THEOREM DesktopIsTyped == DkSpec => []DkTypeOK
  <1>1. DkInit => DkTypeOK
    BY DesktopAssumption DEF DkInit, DkTypeOK, NodeIds
  <1>2. DesktopInv => DesktopTypes
    BY DEF DesktopInv
  <1>3. QED
    BY <1>1, <1>2, DesktopInvAlways, DesktopTypesKept, PTL DEF DkSpec

-----------------------------------------------------------------------------
(* The window.  At most one task of the pool connects or takes a snapshot, *)
(* whatever the user submits beside it, so the snapshot on its way is      *)
(* younger than the one shown; the node changes its policy only when no    *)
(* worker is wanted or runs.                                               *)

TaskRecords ==
  [op : {"none", "connect", "snapshot"} \cup UserOps, step : {"none", "ask", "keys", "pausing", "ok", "error"},
   ids : SUBSET Shares, now : SUBSET Shares, on : BOOLEAN, key : ClientKeys, seen : Nat, expected : Nat,
   admits : SUBSET Shares, view : Views]
Dialogs == [kind : {"none", "policy", "create", "rename", "revoke"}, revision : Nat, key : ClientKeys]
SharePolicies == [revision : Nat, admits : SUBSET Shares]

WindowFlags == dwController \in BOOLEAN /\ dwOnline \in BOOLEAN /\ dwMessage \in BOOLEAN
ShownTypes == dwShown \in Views /\ dwChecked \subseteq Shares /\ dwDialog \in Dialogs
NodeTypes ==
  /\ nodePolicy \in SharePolicies /\ nodeWants \subseteq Shares /\ nodeAge \in Nat
  /\ nodeProcess \in [Shares -> {"none", "alive", "stopping"}] /\ nodeKeys \in [ClientKeys -> KeyStates]

Refreshes == {"connect", "snapshot"}

\* A snapshot lies between what is shown and what is so, an edit has the revision it was made on.
TaskFits(task, shown, now) ==
  /\ task.op = "snapshot" /\ task.step \in {"keys", "ok"} => shown <= task.view.age /\ task.view.age <= now
  /\ task.op = "policy" => task.seen = task.expected
TasksInv ==
  /\ dwTasks \in [Slots -> TaskRecords]
  /\ \A s \in Slots : TaskFits(dwTasks[s], dwShown.age, nodeAge)
  /\ \A s, t \in Slots : dwTasks[s].op \in Refreshes /\ dwTasks[t].op \in Refreshes => s = t

WindowInv ==
  WindowFlags /\ ShownTypes /\ NodeTypes /\ TasksInv /\ dwShown.age <= nodeAge /\ NodeKeepsPolicy

\* What a task and a view are made of.
LEMMA Blanks ==
  /\ Blank \in Views /\ NoTask \in TaskRecords /\ Blank.age = 0 /\ NoTask.op = "none"
  /\ \A op \in {"none", "connect", "snapshot"} \cup UserOps : Task(op) \in TaskRecords
  /\ \A op : Task(op).op = op /\ Task(op).step = "ask"
  <1>1. Blank \in Views /\ Blank.age = 0
    BY DEF Blank, Views, KeyStates
  <1>2. NoTask \in TaskRecords /\ NoTask.op = "none"
    BY <1>1, WindowAssumption DEF NoTask, TaskRecords
  <1> HIDE DEF Blank
  <1>3. \A op \in {"none", "connect", "snapshot"} \cup UserOps : Task(op) \in TaskRecords
    BY <1>2 DEF Task, TaskRecords
  <1>4. \A op : Task(op).op = op /\ Task(op).step = "ask"
    BY DEF Task, NoTask
  <1>5. QED
    BY <1>1, <1>2, <1>3, <1>4

\* It holds when the window opens.
LEMMA WindowStarts == WindowInit => WindowInv
  <1> SUFFICES ASSUME WindowInit PROVE WindowInv
    OBVIOUS
  <1> USE DEF WindowInit
  <1>1. WindowFlags
    BY DEF WindowFlags
  <1>2. ShownTypes
    BY Blanks, WindowAssumption DEF ShownTypes, NoDialog, Dialogs
  <1>3. NodeTypes
    BY WindowAssumption DEF NodeTypes, SharePolicies, KeyStates
  <1>4. TasksInv
    <2>1. \A s \in Slots : dwTasks[s] = IF s = AnySlot THEN Task("connect") ELSE NoTask
      OBVIOUS
    <2>2. dwTasks \in [Slots -> TaskRecords]
      BY Blanks
    <2> HIDE DEF WindowInit
    <2>3. \A s \in Slots : dwTasks[s].op = IF s = AnySlot THEN "connect" ELSE "none"
      BY <2>1, Blanks
    <2>4. QED
      BY <2>2, <2>3 DEF TasksInv, TaskFits, Refreshes
  <1>5. dwShown.age <= nodeAge
    BY Blanks
  <1>6. NodeKeepsPolicy
    BY WindowAssumption DEF NodeKeepsPolicy, ActiveKeys
  <1>7. QED
    BY <1>1, <1>2, <1>3, <1>4, <1>5, <1>6 DEF WindowInv

\* One slot gets a new task.
LEMMA OneTask ==
  ASSUME WindowInv, NEW s \in Slots, NEW task \in TaskRecords, Becomes(s, task), dwShown' = dwShown,
         nodeAge' \in Nat, nodeAge <= nodeAge', TaskFits(task, dwShown.age, nodeAge'),
         task.op \in Refreshes => \A t \in Slots \ {s} : dwTasks[t].op \notin Refreshes
  PROVE  TasksInv'
  <1>1. dwTasks' \in [Slots -> TaskRecords] /\ dwTasks'[s] = task /\ \A t \in Slots \ {s} : dwTasks'[t] = dwTasks[t]
    BY DEF Becomes, WindowInv, TasksInv
  <1>2. ASSUME NEW t \in Slots PROVE TaskFits(dwTasks[t], dwShown.age, nodeAge')
    <2>1. TaskFits(dwTasks[t], dwShown.age, nodeAge) /\ dwTasks[t].view.age \in Nat /\ nodeAge \in Nat
      BY DEF WindowInv, TasksInv, NodeTypes, TaskRecords, Views
    <2>2. QED
      BY <2>1 DEF TaskFits
  <1>3. \A t \in Slots : TaskFits(dwTasks'[t], dwShown'.age, nodeAge')
    BY <1>1, <1>2
  <1>4. \A t, u \in Slots : dwTasks'[t].op \in Refreshes /\ dwTasks'[u].op \in Refreshes => t = u
    BY <1>1 DEF WindowInv, TasksInv
  <1>5. QED
    BY <1>1, <1>3, <1>4 DEF TasksInv

\* No slot does, while the node may change.
LEMMA NoNewTask ==
  ASSUME WindowInv, dwTasks' = dwTasks, dwShown' = dwShown, nodeAge' \in Nat, nodeAge <= nodeAge'
  PROVE  TasksInv'
  <1>1. ASSUME NEW t \in Slots PROVE TaskFits(dwTasks[t], dwShown.age, nodeAge')
    <2>1. TaskFits(dwTasks[t], dwShown.age, nodeAge) /\ dwTasks[t].view.age \in Nat /\ nodeAge \in Nat
      BY DEF WindowInv, TasksInv, NodeTypes, TaskRecords, Views
    <2>2. QED
      BY <2>1 DEF TaskFits
  <1>2. QED
    BY <1>1 DEF WindowInv, TasksInv

\* The task of a slot ends with an answer.
LEMMA TaskEnds ==
  ASSUME WindowInv, NEW s \in Slots, NEW step \in {"ok", "error"}, EndsTask(s, step),
         dwTasks[s].op # "none", dwTasks[s].op = "snapshot" => step = "error",
         dwShown' = dwShown, nodeAge' \in Nat, nodeAge <= nodeAge'
  PROVE  TasksInv'
  <1> DEFINE task == [NoTask EXCEPT !.op = dwTasks[s].op, !.step = step]
  <1>1. dwTasks[s] \in TaskRecords
    BY DEF WindowInv, TasksInv
  <1>2. task \in TaskRecords /\ task.op = dwTasks[s].op /\ task.step = step /\ task.seen = task.expected
    BY <1>1, Blanks DEF TaskRecords, NoTask
  <1>3. Becomes(s, task)
    BY DEF EndsTask
  <1> HIDE DEF task
  <1>4. TaskFits(task, dwShown.age, nodeAge')
    BY <1>2 DEF TaskFits
  <1>5. task.op \in Refreshes => \A t \in Slots \ {s} : dwTasks[t].op \notin Refreshes
    BY <1>2 DEF WindowInv, TasksInv
  <1>6. QED
    BY <1>2, <1>3, <1>4, <1>5, OneTask

\* What a step leaves the node in.
NodeGoesOn == NodeTypes' /\ NodeKeepsPolicy' /\ nodeAge' \in Nat /\ nodeAge <= nodeAge'

\* Nothing happens to it, or it gets a policy that takes over no worker.
LEMMA NodeSame == ASSUME WindowInv, UNCHANGED nodeState PROVE NodeGoesOn
  BY DEF WindowInv, NodeGoesOn, NodeTypes, NodeKeepsPolicy, ActiveKeys, nodeState

\* A policy that is put, a share that is started and one that is paused make the node older
\* and keep what it wants within its policy.
LEMMA PolicyIsPut ==
  ASSUME WindowInv, NEW expected, AcceptsPolicy(expected), NEW admits \in SUBSET Shares, PutPolicy(admits)
  PROVE  NodeGoesOn
  <1> USE DEF WindowInv, PutPolicy, Changed
  <1>1. nodeAge' \in Nat /\ nodeAge <= nodeAge'
    BY DEF NodeTypes
  <1>2. NodeTypes'
    BY <1>1 DEF NodeTypes, SharePolicies
  <1>3. NodeKeepsPolicy'
    BY DEF AcceptsPolicy, NodeKeepsPolicy, ActiveKeys
  <1>4. QED
    BY <1>1, <1>2, <1>3 DEF NodeGoesOn

\* The same of a share that is started,
LEMMA ShareIsStarted ==
  ASSUME WindowInv, NEW w \in nodePolicy.admits, StartShare(w) PROVE NodeGoesOn
  <1> USE DEF WindowInv, StartShare, Changed
  <1>0. nodePolicy.admits \subseteq Shares
    BY DEF NodeTypes, SharePolicies
  <1>1. nodeAge' \in Nat /\ nodeAge <= nodeAge'
    BY DEF NodeTypes
  <1>2. NodeTypes'
    BY <1>0, <1>1 DEF NodeTypes
  <1>3. NodeKeepsPolicy'
    BY <1>0 DEF NodeTypes, NodeKeepsPolicy, ActiveKeys
  <1>4. QED
    BY <1>1, <1>2, <1>3 DEF NodeGoesOn

\* and of one that is paused.
LEMMA ShareIsPaused ==
  ASSUME WindowInv, NEW w \in Shares, PauseShare(w) PROVE NodeGoesOn
  <1> USE DEF WindowInv, PauseShare, Changed
  <1>1. nodeAge' \in Nat /\ nodeAge <= nodeAge'
    BY DEF NodeTypes
  <1>2. NodeTypes'
    BY <1>1 DEF NodeTypes
  <1>3. NodeKeepsPolicy'
    BY DEF NodeTypes, NodeKeepsPolicy, ActiveKeys
  <1>4. QED
    BY <1>1, <1>2, <1>3 DEF NodeGoesOn

\* A key that is revoked leaves another one.
LEMMA KeyIsSet ==
  ASSUME WindowInv, NEW k \in ClientKeys, NEW to \in KeyStates, SetKey(k, to),
         nodeKeys[k] = "active" => to = "active" \/ CanRevoke(k)
  PROVE  NodeGoesOn
  <1> USE DEF WindowInv, SetKey, Changed
  <1>1. nodeAge' \in Nat /\ nodeAge <= nodeAge'
    BY DEF NodeTypes
  <1>2. NodeTypes'
    BY <1>1 DEF NodeTypes
  <1>3. \E other \in ClientKeys : nodeKeys'[other] = "active"
    <2>1. CASE nodeKeys[k] # "active" \/ to = "active"
      BY <2>1 DEF NodeTypes, NodeKeepsPolicy, ActiveKeys
    <2>2. CASE nodeKeys[k] = "active" /\ to # "active"
      <3>1. Cardinality(ActiveKeys) > 1
        BY <2>2 DEF CanRevoke
      <3>2. ActiveKeys # {k}
        <4>1. Cardinality({k}) = 1
          BY FS_Singleton
        <4> HIDE DEF ActiveKeys
        <4>2. QED
          BY <3>1, <4>1
      <3>3. PICK other \in ActiveKeys : other # k
        BY <2>2, <3>2 DEF ActiveKeys
      <3>4. QED
        BY <3>3 DEF ActiveKeys, NodeTypes
    <2>3. QED
      BY <2>1, <2>2
  <1>4. NodeKeepsPolicy'
    BY <1>3 DEF NodeKeepsPolicy, ActiveKeys
  <1>5. QED
    BY <1>1, <1>2, <1>4 DEF NodeGoesOn

\* The invariant from its parts.
LEMMA WindowParts ==
  ASSUME WindowInv, NodeGoesOn, TasksInv', WindowFlags', ShownTypes', dwShown'.age <= nodeAge'
  PROVE  WindowInv'
  BY DEF WindowInv, NodeGoesOn

\* A step of the pool leaves the window as it is.
LEMMA WindowAsBefore ==
  ASSUME WindowInv, NodeGoesOn, TasksInv', UNCHANGED window
  PROVE  WindowInv'
  <1>1. WindowFlags' /\ ShownTypes'
    BY DEF WindowInv, WindowFlags, ShownTypes, window, view
  <1>2. dwShown'.age <= nodeAge'
    BY DEF WindowInv, NodeGoesOn, ShownTypes, Views, NodeTypes, window, view
  <1>3. QED
    BY <1>1, <1>2, WindowParts

\* What the invariant says of one task.
LEMMA TaskFacts ==
  ASSUME WindowInv, NEW s \in Slots
  PROVE  /\ dwTasks[s] \in TaskRecords /\ TaskFits(dwTasks[s], dwShown.age, nodeAge)
         /\ dwTasks[s].op \in Refreshes => \A t \in Slots \ {s} : dwTasks[t].op \notin Refreshes
         /\ nodeAge \in Nat /\ dwShown.age \in Nat /\ dwShown.age <= nodeAge
  BY DEF WindowInv, TasksInv, NodeTypes, ShownTypes, Views

\* A user's task goes on to its next request.
LEMMA TaskGoesOn ==
  ASSUME WindowInv, NEW s \in Slots, NEW task \in TaskRecords, Becomes(s, task), task.op = dwTasks[s].op,
         task.op = "share", dwShown' = dwShown, nodeAge' \in Nat, nodeAge <= nodeAge'
  PROVE  TasksInv'
  <1>1. TaskFits(task, dwShown.age, nodeAge') /\ task.op \notin Refreshes
    BY DEF TaskFits, Refreshes
  <1>2. QED
    BY <1>1, OneTask

\* A snapshot is taken: the node's age is noted first, its keys are read afterwards.
LEMMA SnapshotTaken ==
  ASSUME WindowInv, NEW s \in Slots, GetStatus(s) \/ GetKeys(s) PROVE TasksInv'
  <1>0. /\ dwTasks[s] \in TaskRecords /\ TaskFits(dwTasks[s], dwShown.age, nodeAge) /\ dwTasks[s].op \in Refreshes
        /\ \A t \in Slots \ {s} : dwTasks[t].op \notin Refreshes
        /\ nodeAge \in Nat /\ dwShown.age \in Nat /\ dwShown.age <= nodeAge
    BY TaskFacts DEF GetStatus, GetKeys, At, Refreshes
  <1>1. dwShown' = dwShown /\ nodeAge' = nodeAge /\ dwTasks[s].op = "snapshot"
    BY DEF GetStatus, GetKeys, At, window, view, nodeState
  <1>2. CASE EndsTask(s, "error")
    BY <1>0, <1>1, <1>2, TaskEnds
  <1>3. CASE GetStatus(s) /\ ~EndsTask(s, "error")
    <2> DEFINE new == [Blank EXCEPT !.age = nodeAge, !.policy = nodePolicy, !.wants = nodeWants]
               task == [dwTasks[s] EXCEPT !.step = "keys", !.view = new]
    <2>1. new \in Views /\ new.age = nodeAge
      BY <1>0, Blanks DEF Blank, Views, WindowInv, NodeTypes, SharePolicies
    <2>2. Becomes(s, task)
      BY <1>3 DEF GetStatus
    <2> HIDE DEF new
    <2>3. task \in TaskRecords /\ task.op = "snapshot" /\ task.view = new
      BY <1>0, <1>1, <2>1 DEF TaskRecords
    <2> HIDE DEF task
    <2>4. TaskFits(task, dwShown.age, nodeAge')
      BY <1>0, <1>1, <2>1, <2>3 DEF TaskFits
    <2>5. QED
      BY <1>0, <1>1, <2>2, <2>3, <2>4, OneTask
  <1>4. CASE GetKeys(s) /\ ~EndsTask(s, "error")
    <2> DEFINE new == [dwTasks[s].view EXCEPT !.keys = nodeKeys]
               task == [dwTasks[s] EXCEPT !.step = "ok", !.view.keys = nodeKeys]
    <2>1. dwTasks[s].view \in Views /\ dwTasks[s].step = "keys"
      BY <1>0, <1>4 DEF TaskRecords, GetKeys, At
    <2>2. new \in Views /\ new.age = dwTasks[s].view.age
      BY <2>1 DEF Views, WindowInv, NodeTypes
    <2>3. Becomes(s, task) /\ task = [dwTasks[s] EXCEPT !.step = "ok", !.view = new]
      BY <1>4 DEF GetKeys
    <2> HIDE DEF new, task
    <2>4. task \in TaskRecords /\ task.op = "snapshot" /\ task.view = new
      BY <1>0, <1>1, <2>2, <2>3 DEF TaskRecords
    <2>5. TaskFits(task, dwShown.age, nodeAge')
      BY <1>0, <1>1, <2>1, <2>2, <2>4 DEF TaskFits
    <2>6. QED
      BY <1>0, <1>1, <2>3, <2>4, <2>5, OneTask
  <1>5. QED
    BY <1>2, <1>3, <1>4

\* The steps of a thread that end its task or leave the node alone.
LEMMA PoolSimple ==
  ASSUME WindowInv, NEW s \in Slots,
         Connect(s) \/ GetStatus(s) \/ GetKeys(s) \/ NotConnected(s) \/ RequestLost(s) \/ PauseAnswered(s)
  PROVE  WindowInv'
  <1>1. UNCHANGED window /\ UNCHANGED nodeState
    BY DEF Connect, GetStatus, GetKeys, NotConnected, RequestLost, PauseAnswered
  <1>2. NodeGoesOn
    BY <1>1, NodeSame
  <1>3. dwShown' = dwShown /\ nodeAge' \in Nat /\ nodeAge <= nodeAge'
    BY <1>1, <1>2 DEF NodeGoesOn, window, view
  <1>4. TasksInv'
    <2>1. CASE GetStatus(s) \/ GetKeys(s)
      BY <2>1, SnapshotTaken
    <2>2. CASE Connect(s)
      BY <1>3, <2>2, TaskEnds DEF Connect, At
    <2>3. CASE NotConnected(s) \/ RequestLost(s)
      <3>1. EndsTask(s, "error") /\ dwTasks[s].op # "none"
        BY <2>3 DEF NotConnected, RequestLost, UserOps
      <3>2. QED
        BY <1>3, <3>1, TaskEnds
    <2>4. CASE PauseAnswered(s)
      <3>1. At(s, "share", "pausing")
        BY <2>4 DEF PauseAnswered
      <3>2. CASE EndsTask(s, "error")
        BY <1>3, <3>1, <3>2, TaskEnds DEF At
      <3>3. CASE ~EndsTask(s, "error")
        <4> DEFINE task == [dwTasks[s] EXCEPT !.step = "ask", !.now = {}]
        <4>1. Becomes(s, task)
          BY <2>4, <3>3 DEF PauseAnswered
        <4>2. task \in TaskRecords /\ task.op = dwTasks[s].op
          BY TaskFacts DEF TaskRecords
        <4> HIDE DEF task
        <4>3. QED
          BY <1>3, <3>1, <4>1, <4>2, TaskGoesOn DEF At
      <3>4. QED
        BY <3>2, <3>3
    <2>5. QED
      BY <2>1, <2>2, <2>3, <2>4
  <1>5. QED
    BY <1>1, <1>2, <1>4, WindowAsBefore

\* A user's task ends with an answer, or with an error although it was carried out.
LEMMA TaskAnswered ==
  ASSUME WindowInv, NEW s \in Slots, dwTasks[s].op \in UserOps, dwShown' = dwShown, NodeGoesOn,
         EndsTask(s, "ok") \/ EndsTask(s, "error")
  PROVE  TasksInv'
  <1>1. dwTasks[s].op # "none" /\ dwTasks[s].op # "snapshot"
    BY DEF UserOps
  <1>2. QED
    BY <1>1, TaskEnds DEF NodeGoesOn

\* The requests that change the policy or a key.
LEMMA PoolRequests ==
  ASSUME WindowInv, NEW s \in Slots, AskPolicy(s) \/ AskCreate(s) \/ AskRename(s) \/ AskRevoke(s)
  PROVE  WindowInv'
  <1>1. UNCHANGED window
    BY DEF AskPolicy, AskCreate, AskRename, AskRevoke
  <1>2. dwShown' = dwShown
    BY <1>1 DEF window, view
  <1>3. dwTasks[s] \in TaskRecords
    BY TaskFacts
  <1>4. dwTasks[s].op \in UserOps
    BY DEF AskPolicy, AskCreate, AskRename, AskRevoke, Asks, At, UserOps
  <1>5. EndsTask(s, "ok") \/ EndsTask(s, "error")
    BY DEF AskPolicy, AskCreate, AskRename, AskRevoke, Answered
  <1>6. NodeGoesOn
    <2>1. CASE UNCHANGED nodeState
      BY <2>1, NodeSame
    <2>2. CASE AskPolicy(s) /\ ~UNCHANGED nodeState
      <3>1. AcceptsPolicy(dwTasks[s].expected) /\ PutPolicy(dwTasks[s].admits)
        BY <2>2 DEF AskPolicy
      <3>2. dwTasks[s].admits \in SUBSET Shares
        BY <1>3 DEF TaskRecords
      <3>3. QED
        BY <3>1, <3>2, PolicyIsPut
    <2>3. CASE AskCreate(s)
      <3>1. PICK k \in ClientKeys : nodeKeys[k] = "none" /\ SetKey(k, "active")
        BY <2>3 DEF AskCreate
      <3>2. "active" \in KeyStates
        BY DEF KeyStates
      <3>3. QED
        BY <3>1, <3>2, KeyIsSet
    <2>4. CASE AskRename(s)
      <3> DEFINE k == dwTasks[s].key
                 to == nodeKeys[k]
      <3>1. k \in ClientKeys
        BY <1>3 DEF TaskRecords
      <3>2. to \in KeyStates /\ SetKey(k, to)
        BY <2>4, <3>1 DEF AskRename, WindowInv, NodeTypes
      <3>3. nodeKeys[k] = "active" => to = "active"
        OBVIOUS
      <3> HIDE DEF k, to
      <3>4. QED
        BY <3>1, <3>2, <3>3, KeyIsSet
    <2>5. CASE AskRevoke(s) /\ ~UNCHANGED nodeState
      <3> DEFINE k == dwTasks[s].key
      <3>1. CanRevoke(k) /\ SetKey(k, "revoked")
        BY <2>5 DEF AskRevoke
      <3>2. k \in ClientKeys /\ "revoked" \in KeyStates
        BY <1>3 DEF TaskRecords, KeyStates
      <3> HIDE DEF k
      <3>3. QED
        BY <3>1, <3>2, KeyIsSet
    <2>6. QED
      BY <2>1, <2>2, <2>3, <2>4, <2>5
  <1>7. TasksInv'
    BY <1>2, <1>4, <1>5, <1>6, TaskAnswered
  <1>8. QED
    BY <1>1, <1>6, <1>7, WindowAsBefore

\* A worker that the policy does not admit is not wanted either.
LEMMA ShareIsRefused ==
  ASSUME WindowInv, NEW w, nodeWants' = nodeWants \ {w}, Changed, UNCHANGED <<nodePolicy, nodeProcess, nodeKeys>>
  PROVE  NodeGoesOn
  <1> USE DEF WindowInv, Changed
  <1>1. nodeAge' \in Nat /\ nodeAge <= nodeAge'
    BY DEF NodeTypes
  <1>2. NodeTypes'
    BY <1>1 DEF NodeTypes
  <1>3. NodeKeepsPolicy'
    BY DEF NodeTypes, NodeKeepsPolicy, ActiveKeys
  <1>4. QED
    BY <1>1, <1>2, <1>3 DEF NodeGoesOn

\* The requests that start or pause one worker after another.
LEMMA PoolShares ==
  ASSUME WindowInv, NEW s \in Slots, AskStart(s) \/ AskPause(s)
  PROVE  WindowInv'
  <1>1. UNCHANGED window /\ dwTasks[s].op = "share"
    BY DEF AskStart, AskPause, Asks, At
  <1>2. dwShown' = dwShown
    BY <1>1 DEF window, view
  <1>3. dwTasks[s] \in TaskRecords
    BY TaskFacts
  <1>4. dwTasks[s].ids \in SUBSET Shares
    BY <1>3 DEF TaskRecords
  <1>5. CASE (EndsTask(s, "ok") \/ EndsTask(s, "error")) /\ NodeGoesOn
    <2>1. TasksInv'
      BY <1>1, <1>2, <1>5, TaskAnswered DEF UserOps
    <2>2. QED
      BY <1>1, <1>5, <2>1, WindowAsBefore
  <1>6. CASE dwTasks[s].ids = {}
    <2>1. (EndsTask(s, "ok") \/ EndsTask(s, "error")) /\ UNCHANGED nodeState
      BY <1>6 DEF AskStart, AskPause
    <2>2. NodeGoesOn
      BY <2>1, NodeSame
    <2>3. QED
      BY <1>5, <2>1, <2>2
  <1>7. CASE AskStart(s) /\ dwTasks[s].ids # {}
    <2>1. PICK w \in dwTasks[s].ids :
             IF w \in nodePolicy.admits
               THEN /\ StartShare(w) /\ UNCHANGED dwCounts
                    /\ Becomes(s, [dwTasks[s] EXCEPT !.ids = @ \ {w}])
               ELSE /\ nodeWants' = nodeWants \ {w} /\ Changed
                    /\ EndsTask(s, "error") /\ UNCHANGED <<nodePolicy, nodeProcess, nodeKeys, dwCounts>>
      BY <1>7 DEF AskStart
    <2>2. CASE w \in nodePolicy.admits
      <3> DEFINE task == [dwTasks[s] EXCEPT !.ids = @ \ {w}]
      <3>1. StartShare(w) /\ Becomes(s, task)
        BY <2>1, <2>2
      <3>2. task \in TaskRecords /\ task.op = "share" /\ task.op = dwTasks[s].op
        BY <1>1, <1>3, <1>4 DEF TaskRecords
      <3> HIDE DEF task
      <3>3. NodeGoesOn
        BY <2>2, <3>1, ShareIsStarted
      <3>4. TasksInv'
        BY <1>2, <3>1, <3>2, <3>3, TaskGoesOn DEF NodeGoesOn
      <3>5. QED
        BY <1>1, <3>3, <3>4, WindowAsBefore
    <2>3. CASE w \notin nodePolicy.admits
      <3>1. EndsTask(s, "error") /\ nodeWants' = nodeWants \ {w} /\ Changed /\ UNCHANGED <<nodePolicy, nodeProcess, nodeKeys>>
        BY <2>1, <2>3
      <3>2. NodeGoesOn
        BY <3>1, ShareIsRefused
      <3>3. QED
        BY <1>5, <3>1, <3>2
    <2>4. QED
      BY <2>2, <2>3
  <1>8. CASE AskPause(s) /\ dwTasks[s].ids # {}
    <2>1. PICK w \in dwTasks[s].ids :
             PauseShare(w) /\ Becomes(s, [dwTasks[s] EXCEPT !.step = "pausing", !.ids = @ \ {w}, !.now = {w}])
      BY <1>8 DEF AskPause
    <2> DEFINE task == [dwTasks[s] EXCEPT !.step = "pausing", !.ids = @ \ {w}, !.now = {w}]
    <2>2. w \in Shares
      BY <1>4
    <2>3. Becomes(s, task)
      BY <2>1
    <2>4. task \in TaskRecords /\ task.op = "share" /\ task.op = dwTasks[s].op
      BY <1>1, <1>3, <1>4, <2>2 DEF TaskRecords
    <2> HIDE DEF task
    <2>5. NodeGoesOn
      BY <2>1, <2>2, ShareIsPaused
    <2>6. TasksInv'
      BY <1>2, <2>3, <2>4, <2>5, TaskGoesOn DEF NodeGoesOn
    <2>7. QED
      BY <1>1, <2>5, <2>6, WindowAsBefore
  <1>9. QED
    BY <1>6, <1>7, <1>8

\* What happens to the node by itself or by somebody else.
LEMMA NodeMoves ==
  ASSUME WindowInv, OthersAct \/ \E w \in Shares : StopEnds(w) \/ MonitorStarts(w)
  PROVE  WindowInv'
  <1>1. UNCHANGED <<dwTasks, window>>
    BY DEF OthersAct, StopEnds, MonitorStarts
  <1>2. NodeGoesOn
    <2>1. CASE \E w \in Shares : StopEnds(w) \/ MonitorStarts(w)
      <3>1. NodeTypes' /\ nodeAge' = nodeAge /\ nodeAge \in Nat
        BY <2>1 DEF StopEnds, MonitorStarts, WindowInv, NodeTypes
      <3>2. NodeKeepsPolicy'
        BY <2>1 DEF StopEnds, MonitorStarts, WindowInv, NodeTypes, NodeKeepsPolicy, ActiveKeys
      <3>3. QED
        BY <3>1, <3>2 DEF NodeGoesOn
    <2>2. CASE AcceptsPolicy(nodePolicy.revision) /\ \E a \in {{}, Shares} : PutPolicy(a)
      BY <2>2, PolicyIsPut
    <2>3. CASE \E w \in nodePolicy.admits : StartShare(w)
      BY <2>3, ShareIsStarted
    <2>4. CASE \E w \in nodeWants : PauseShare(w)
      <3>1. nodeWants \subseteq Shares
        BY DEF WindowInv, NodeTypes
      <3>2. QED
        BY <2>4, <3>1, ShareIsPaused
    <2>5. CASE \E k \in ActiveKeys : CanRevoke(k) /\ SetKey(k, "revoked")
      <3>1. PICK k \in ActiveKeys : CanRevoke(k) /\ SetKey(k, "revoked")
        BY <2>5
      <3>2. k \in ClientKeys /\ "revoked" \in KeyStates
        BY DEF ActiveKeys, KeyStates
      <3>3. QED
        BY <3>1, <3>2, KeyIsSet
    <2>6. QED
      BY <2>1, <2>2, <2>3, <2>4, <2>5 DEF OthersAct
  <1>3. TasksInv'
    BY <1>1, <1>2, NoNewTask DEF NodeGoesOn, window, view
  <1>4. QED
    BY <1>1, <1>2, <1>3, WindowAsBefore

\* A slot is free as long as not all of them are taken.
LEMMA AFreeSlot ==
  ASSUME WindowInv, Submitted # Slots PROVE FreeSlot \in Slots /\ dwTasks[FreeSlot].op = "none"
  <1>1. \E s \in Slots \ Submitted : TRUE
    BY DEF Submitted
  <1>2. FreeSlot \in Slots \ Submitted
    BY <1>1 DEF FreeSlot
  <1>3. QED
    BY <1>2 DEF Submitted

\* A pool to which nothing was submitted has a free slot.
LEMMA AFreePool == ASSUME Submitted = {} PROVE Submitted # Slots
  BY WindowAssumption

\* A refresh is submitted only when nothing else is under way.
LEMMA RefreshFits ==
  ASSUME WindowInv, NEW s \in Slots, NEW others, NEW controller, Refreshing(s, others, controller),
         \A t \in Slots \ {s} : t \notin others => dwTasks[t].op = "none", dwShown' = dwShown, NodeGoesOn
  PROVE  TasksInv'
  <1>1. CASE others = {}
    <2>1. PICK op \in Refreshes : Becomes(s, Task(op))
      BY <1>1 DEF Refreshing, MayRefresh, Refreshes
    <2>2. Task(op) \in TaskRecords /\ Task(op).op = op /\ Task(op).step = "ask"
      BY Blanks DEF Refreshes
    <2>3. TaskFits(Task(op), dwShown.age, nodeAge')
      BY <2>2 DEF TaskFits, Refreshes
    <2>4. \A t \in Slots \ {s} : dwTasks[t].op \notin Refreshes
      BY <1>1 DEF Refreshes
    <2>5. QED
      BY <2>1, <2>2, <2>3, <2>4, OneTask DEF NodeGoesOn
  <1>2. CASE others # {}
    <2>1. Becomes(s, NoTask)
      BY <1>2 DEF Refreshing, MayRefresh
    <2>2. NoTask \in TaskRecords /\ TaskFits(NoTask, dwShown.age, nodeAge') /\ NoTask.op \notin Refreshes
      BY Blanks DEF TaskFits, Refreshes
    <2>3. QED
      BY <2>1, <2>2, OneTask DEF NodeGoesOn
  <1>3. QED
    BY <1>1, <1>2

\* What the user submits is no refresh, and an edit carries the revision it was made on.
LEMMA SubmittedFits ==
  ASSUME WindowInv, NEW s \in Slots, NEW task \in TaskRecords, Becomes(s, task), task.op \in UserOps,
         task.seen = task.expected, dwShown' = dwShown, NodeGoesOn
  PROVE  TasksInv'
  <1>1. TaskFits(task, dwShown.age, nodeAge') /\ task.op \notin Refreshes
    BY DEF TaskFits, UserOps, Refreshes
  <1>2. QED
    BY <1>1, OneTask DEF NodeGoesOn

\* The tasks the user's actions submit.
LEMMA UserTasks ==
  /\ \A op \in UserOps : Task(op).seen = Task(op).expected
  /\ \A op \in UserOps, k \in ClientKeys :
       LET task == [Task(op) EXCEPT !.key = k]
       IN  task \in TaskRecords /\ task.op = op /\ task.seen = task.expected
  /\ \A a \in SUBSET Shares, n \in Nat :
       LET task == [Task("policy") EXCEPT !.admits = a, !.seen = n, !.expected = n]
       IN  task \in TaskRecords /\ task.op = "policy" /\ task.seen = task.expected
  <1>1. \A op \in UserOps : Task(op) \in TaskRecords /\ Task(op).op = op /\ Task(op).seen = Task(op).expected
    <2>1. \A op : Task(op).seen = 0 /\ Task(op).expected = 0
      BY DEF Task, NoTask
    <2>2. QED
      BY <2>1, Blanks DEF UserOps
  <1>2. "policy" \in UserOps
    BY DEF UserOps
  <1> HIDE DEF Task
  <1>4. ASSUME NEW op \in UserOps, NEW k \in ClientKeys
        PROVE  LET task == [Task(op) EXCEPT !.key = k]
               IN  task \in TaskRecords /\ task.op = op /\ task.seen = task.expected
    BY <1>1, <1>2 DEF TaskRecords
  <1>5. ASSUME NEW a \in SUBSET Shares, NEW n \in Nat
        PROVE  LET task == [Task("policy") EXCEPT !.admits = a, !.seen = n, !.expected = n]
               IN  task \in TaskRecords /\ task.op = "policy" /\ task.seen = task.expected
    <2> DEFINE base == Task("policy")
    <2>1. base \in TaskRecords /\ base.op = "policy"
      BY <1>1, <1>2
    <2> HIDE DEF base
    <2>2. [base EXCEPT !.admits = a, !.seen = n, !.expected = n] \in TaskRecords
      BY <2>1 DEF TaskRecords
    <2>3. LET task == [base EXCEPT !.admits = a, !.seen = n, !.expected = n] IN task.op = base.op /\ task.seen = n /\ task.expected = n
      BY <2>1 DEF TaskRecords
    <2>4. QED
      BY <2>1, <2>2, <2>3 DEF base
  <1>6. QED
    BY <1>1, <1>4, <1>5

\* The sharing buttons and a checkbox submit one of these.
LEMMA ShareTaskFits ==
  ASSUME NEW i \in SUBSET Shares, NEW b \in BOOLEAN
  PROVE  LET task == [Task("share") EXCEPT !.ids = i, !.on = b]
         IN  task \in TaskRecords /\ task.op = "share" /\ task.seen = task.expected
  <1> DEFINE base == Task("share")
  <1>1. base \in TaskRecords /\ base.op = "share" /\ base.seen = base.expected
    BY Blanks, UserTasks DEF UserOps
  <1> HIDE DEF base
  <1>2. [base EXCEPT !.ids = i, !.on = b] \in TaskRecords
    BY <1>1 DEF TaskRecords
  <1>3. LET new == [base EXCEPT !.ids = i, !.on = b]
        IN  new.op = base.op /\ new.seen = base.seen /\ new.expected = base.expected
    BY <1>1 DEF TaskRecords
  <1>4. QED
    BY <1>1, <1>2, <1>3 DEF base

\* A dialog opens or is cancelled.
LEMMA DialogOpens ==
  ASSUME WindowInv,
         OpenPolicyForm \/ OpenCreate \/ CancelDialog \/ \E kind \in KeyDialogs, k \in ClientKeys : OpenKey(kind, k)
  PROVE  WindowInv'
  <1>1. UNCHANGED <<dwTasks, dwController, view, dwOnline, dwMessage, nodeState>>
    BY DEF OpenPolicyForm, OpenCreate, CancelDialog, OpenKey, Opens
  <1>2. dwShown' = dwShown /\ dwChecked' = dwChecked /\ NodeGoesOn
    BY <1>1, NodeSame DEF view
  <1>3. dwDialog' \in Dialogs
    <2>1. dwShown.policy.revision \in Nat
      BY DEF WindowInv, ShownTypes, Views
    <2>2. CASE CancelDialog
      BY <2>2, WindowAssumption DEF CancelDialog, DialogCloses, NoDialog, Dialogs
    <2>3. CASE OpenPolicyForm \/ OpenCreate
      BY <2>1, <2>3, WindowAssumption DEF OpenPolicyForm, OpenCreate, Opens, Dialogs
    <2>4. CASE \E kind \in KeyDialogs, k \in ClientKeys : OpenKey(kind, k)
      BY <2>1, <2>4 DEF OpenKey, Opens, Dialogs, KeyDialogs
    <2>5. QED
      BY <2>2, <2>3, <2>4
  <1>4. WindowFlags' /\ ShownTypes'
    BY <1>1, <1>2, <1>3 DEF WindowInv, WindowFlags, ShownTypes
  <1>5. TasksInv' /\ dwShown'.age <= nodeAge'
    BY <1>1, <1>2, NoNewTask DEF NodeGoesOn, WindowInv, nodeState
  <1>6. QED
    BY <1>2, <1>4, <1>5, WindowParts

\* A dialog is accepted, or the sharing button is used.
LEMMA TaskSubmitted ==
  ASSUME WindowInv, SubmitPolicy \/ SubmitCreate \/ ToggleAll \/ \E kind \in KeyDialogs : ConfirmKey(kind)
  PROVE  WindowInv'
  <1>1. UNCHANGED <<dwController, view, dwOnline, dwMessage, nodeState>> /\ Submitted # Slots
    BY DEF SubmitPolicy, SubmitCreate, ToggleAll, ConfirmKey, Submits
  <1>2. dwShown' = dwShown /\ dwChecked' = dwChecked /\ NodeGoesOn
    BY <1>1, NodeSame DEF view
  <1>3. dwDialog' \in Dialogs
    <2>1. NoDialog \in Dialogs /\ dwDialog \in Dialogs
      BY WindowAssumption DEF NoDialog, Dialogs, WindowInv, ShownTypes
    <2>2. dwDialog' = NoDialog \/ dwDialog' = dwDialog
      BY DEF SubmitPolicy, SubmitCreate, ToggleAll, ConfirmKey, DialogCloses
    <2>3. QED
      BY <2>1, <2>2
  <1>4. WindowFlags' /\ ShownTypes'
    BY <1>1, <1>2, <1>3 DEF WindowInv, WindowFlags, ShownTypes
  <1>5. FreeSlot \in Slots
    BY <1>1, AFreeSlot
  <1>6. PICK task \in TaskRecords : task.op \in UserOps /\ task.seen = task.expected /\ Becomes(FreeSlot, task)
    <2>1. CASE SubmitPolicy
      <3>1. PICK a \in {{}, Shares} :
               Submits([Task("policy") EXCEPT !.admits = a, !.seen = dwDialog.revision, !.expected = dwDialog.revision])
        BY <2>1 DEF SubmitPolicy, ExpectedRevision
      <3>2. dwDialog.revision \in Nat /\ a \in SUBSET Shares
        BY DEF WindowInv, ShownTypes, Dialogs
      <3> DEFINE n == dwDialog.revision
                 task == [Task("policy") EXCEPT !.admits = a, !.seen = n, !.expected = n]
      <3>3. Becomes(FreeSlot, task)
        BY <3>1 DEF Submits
      <3>4. task \in TaskRecords /\ task.op = "policy" /\ task.seen = task.expected
        <4> HIDE DEF n
        <4>1. n \in Nat /\ a \in SUBSET Shares
          BY <3>2 DEF n
        <4>2. QED
          BY <4>1, UserTasks
      <3> HIDE DEF task
      <3>5. QED
        BY <3>3, <3>4 DEF UserOps
    <2>2. CASE SubmitCreate
      <3>1. Becomes(FreeSlot, Task("create"))
        BY <2>2 DEF SubmitCreate, Submits
      <3>2. Task("create") \in TaskRecords /\ Task("create").op = "create" /\ Task("create").seen = Task("create").expected
        BY Blanks, UserTasks DEF UserOps
      <3>3. QED
        BY <3>1, <3>2 DEF UserOps
    <2>3. CASE ToggleAll
      <3> DEFINE on == dwShown.wants = {}
                 ids == IF on THEN dwShown.policy.admits ELSE dwShown.wants
      <3>1. Becomes(FreeSlot, [Task("share") EXCEPT !.ids = ids, !.on = on])
        BY <2>3 DEF ToggleAll, Submits
      <3>2. on \in BOOLEAN
        OBVIOUS
      <3>3. ids \in SUBSET Shares
        BY DEF WindowInv, ShownTypes, Views
      <3> HIDE DEF on, ids
      <3>4. PICK b \in BOOLEAN, i \in SUBSET Shares : Becomes(FreeSlot, [Task("share") EXCEPT !.ids = i, !.on = b])
        BY <3>1, <3>2, <3>3
      <3> DEFINE task == [Task("share") EXCEPT !.ids = i, !.on = b]
      <3>5. task \in TaskRecords /\ task.op = "share" /\ task.seen = task.expected
        BY ShareTaskFits
      <3>6. Becomes(FreeSlot, task)
        BY <3>4
      <3> HIDE DEF task
      <3>7. QED
        BY <3>5, <3>6 DEF UserOps
    <2>4. CASE \E kind \in KeyDialogs : ConfirmKey(kind)
      <3>1. PICK kind \in KeyDialogs : Becomes(FreeSlot, [Task(kind) EXCEPT !.key = dwDialog.key])
        BY <2>4 DEF ConfirmKey, Submits
      <3>2. kind \in UserOps /\ dwDialog.key \in ClientKeys
        BY DEF KeyDialogs, UserOps, WindowInv, ShownTypes, Dialogs
      <3>3. QED
        BY <3>1, <3>2, UserTasks
    <2>5. QED
      BY <2>1, <2>2, <2>3, <2>4
  <1>7. TasksInv' /\ dwShown'.age <= nodeAge'
    BY <1>1, <1>2, <1>5, <1>6, SubmittedFits DEF WindowInv, nodeState
  <1>8. QED
    BY <1>2, <1>4, <1>7, WindowParts

\* The checkbox of a model is used.
LEMMA ModelToggled ==
  ASSUME WindowInv, NEW w \in Shares, ToggleModel(w) PROVE WindowInv'
  <1>1. UNCHANGED <<dwController, dwShown, dwOnline, dwDialog, dwMessage, nodeState>>
    BY DEF ToggleModel
  <1>2. NodeGoesOn
    BY <1>1, NodeSame
  <1>3. WindowFlags' /\ ShownTypes' /\ dwShown'.age <= nodeAge'
    <2>1. dwChecked' \subseteq Shares
      BY DEF ToggleModel, WindowInv, ShownTypes
    <2>2. QED
      BY <1>1, <2>1 DEF WindowInv, WindowFlags, ShownTypes, nodeState
  <1>4. TasksInv'
    <2>1. CASE UNCHANGED dwTasks
      BY <1>1, <1>2, <2>1, NoNewTask DEF NodeGoesOn
    <2>2. CASE ~UNCHANGED dwTasks
      <3> DEFINE on == w \notin dwChecked
      <3>1. Submitted = {} /\ Becomes(FreeSlot, [Task("share") EXCEPT !.ids = {w}, !.on = on])
        BY <2>2 DEF ToggleModel
      <3>2. on \in BOOLEAN /\ {w} \in SUBSET Shares
        OBVIOUS
      <3> HIDE DEF on
      <3>3. PICK b \in BOOLEAN, i \in SUBSET Shares : Becomes(FreeSlot, [Task("share") EXCEPT !.ids = i, !.on = b])
        BY <3>1, <3>2
      <3> DEFINE task == [Task("share") EXCEPT !.ids = i, !.on = b]
      <3>4. task \in TaskRecords /\ task.op = "share" /\ task.seen = task.expected
        BY ShareTaskFits
      <3>5. Becomes(FreeSlot, task)
        BY <3>3
      <3> HIDE DEF task
      <3>6. FreeSlot \in Slots
        BY <3>1, AFreePool, AFreeSlot
      <3>7. QED
        BY <1>1, <1>2, <3>4, <3>5, <3>6, SubmittedFits DEF UserOps
    <2>3. QED
      BY <2>1, <2>2
  <1>5. QED
    BY <1>2, <1>3, <1>4, WindowParts

\* A refresh by the timer, by "Try again" or after the message with a secret.
LEMMA WindowRefreshes ==
  ASSUME WindowInv, RefreshTimer \/ Retry \/ CloseMessage PROVE WindowInv'
  <1>1. UNCHANGED <<view, dwOnline, dwDialog, nodeState>>
    BY DEF RefreshTimer, Retry, CloseMessage, window
  <1>2. dwShown' = dwShown /\ dwChecked' = dwChecked /\ NodeGoesOn
    BY <1>1, NodeSame DEF view
  <1>3. dwController' \in BOOLEAN /\ dwMessage' \in BOOLEAN
    BY DEF RefreshTimer, Retry, CloseMessage, window, WindowInv, WindowFlags
  <1>4. WindowFlags' /\ ShownTypes' /\ dwShown'.age <= nodeAge'
    BY <1>1, <1>2, <1>3 DEF WindowInv, WindowFlags, ShownTypes, nodeState
  <1>5. TasksInv'
    <2>1. CASE UNCHANGED dwTasks
      BY <1>1, <1>2, <2>1, NoNewTask DEF NodeGoesOn
    <2>2. CASE ~UNCHANGED dwTasks
      <3>1. Submitted = {} /\ \E controller : Refreshing(FreeSlot, {}, controller)
        BY <2>2 DEF RefreshTimer, Retry, CloseMessage, MayRefresh
      <3>2. FreeSlot \in Slots /\ \A t \in Slots : dwTasks[t].op = "none"
        BY <3>1, AFreePool, AFreeSlot DEF Submitted
      <3>3. QED
        BY <1>2, <3>1, <3>2, RefreshFits
    <2>3. QED
      BY <2>1, <2>2
  <1>6. QED
    BY <1>2, <1>4, <1>5, WindowParts

\* A snapshot that arrives is what the window shows from then on, and no other is on its way.
LEMMA SnapshotShown ==
  ASSUME WindowInv, NEW s \in Slots, DeliverSnapshot(s) PROVE WindowInv'
  <1>1. UNCHANGED <<dwController, dwMessage, dwDialog, nodeState>> /\ dwTasks[s].op = "snapshot" /\ dwTasks[s].step = "ok"
    BY DEF DeliverSnapshot, Delivers, At
  <1>2. /\ dwTasks[s] \in TaskRecords /\ dwTasks[s].view.age <= nodeAge
        /\ \A t \in Slots \ {s} : dwTasks[t].op \notin Refreshes
    BY <1>1, TaskFacts DEF TaskFits, Refreshes
  <1>3. dwTasks[s].view \in Views
    BY <1>2 DEF TaskRecords
  <1> DEFINE live == Others(s) = {}
             seen == dwTasks[s].view
  <1>4. dwShown' = [seen EXCEPT !.live = live] /\ live \in BOOLEAN
    BY DEF DeliverSnapshot
  <1> HIDE DEF live
  <1>5. dwShown' \in Views /\ dwShown'.age = seen.age /\ seen.wants \in SUBSET Shares
    BY <1>3, <1>4 DEF Views
  <1> HIDE DEF seen
  <1>6. NodeGoesOn
    BY <1>1, NodeSame
  <1>7. WindowFlags' /\ ShownTypes'
    <2>1. dwOnline' \in BOOLEAN /\ dwChecked' \subseteq Shares
      BY <1>5 DEF DeliverSnapshot, seen
    <2>2. QED
      BY <1>1, <1>5, <2>1 DEF WindowInv, WindowFlags, ShownTypes
  <1>8. dwShown'.age <= nodeAge'
    BY <1>1, <1>2, <1>5 DEF seen, nodeState
  <1>9. TasksInv'
    <2>1. dwTasks' \in [Slots -> TaskRecords] /\ dwTasks'[s] = NoTask /\ \A t \in Slots \ {s} : dwTasks'[t] = dwTasks[t]
      BY Blanks DEF DeliverSnapshot, Becomes, WindowInv, TasksInv
    <2>2. \A t \in Slots : dwTasks'[t].op \notin Refreshes
      BY <1>2, <2>1, Blanks DEF Refreshes
    <2>3. ASSUME NEW t \in Slots PROVE TaskFits(dwTasks'[t], dwShown'.age, nodeAge')
      <3>1. dwTasks'[t].op = "policy" => dwTasks'[t].seen = dwTasks'[t].expected
        BY <2>1, Blanks, TaskFacts DEF TaskFits
      <3>2. QED
        BY <2>2, <3>1 DEF TaskFits, Refreshes
    <2>4. QED
      BY <2>1, <2>2, <2>3 DEF TasksInv
  <1>10. QED
    BY <1>6, <1>7, <1>8, <1>9, WindowParts

\* Another result arrives.
LEMMA ResultArrives ==
  ASSUME WindowInv, NEW s \in Slots, DeliverConnected(s) \/ DeliverDone(s) \/ DeliverCreated(s) \/ DeliverError(s)
  PROVE  WindowInv'
  <1>1. UNCHANGED <<view, dwDialog, nodeState>>
    BY DEF DeliverConnected, DeliverDone, DeliverCreated, DeliverError, Delivers
  <1>2. dwShown' = dwShown /\ dwChecked' = dwChecked /\ NodeGoesOn
    BY <1>1, NodeSame DEF view
  <1>3. WindowFlags'
    <2>1. dwMessage' \in BOOLEAN
      BY DEF DeliverConnected, DeliverDone, DeliverCreated, DeliverError, WindowInv, WindowFlags
    <2>2. CASE DeliverError(s)
      <3> DEFINE c == dwController /\ dwTasks[s].op # "snapshot"
                 o == dwOnline /\ dwTasks[s].op \in {"policy", "share"}
      <3>1. c \in BOOLEAN /\ o \in BOOLEAN
        OBVIOUS
      <3>2. dwController' = c /\ dwOnline' = o
        BY <2>2 DEF DeliverError
      <3> HIDE DEF c, o
      <3>3. QED
        BY <2>1, <3>1, <3>2 DEF WindowFlags
    <2>3. CASE DeliverConnected(s) \/ DeliverDone(s) \/ DeliverCreated(s)
      BY <2>1, <2>3 DEF DeliverConnected, DeliverDone, DeliverCreated, WindowInv, WindowFlags
    <2>4. QED
      BY <2>2, <2>3
  <1>4. ShownTypes' /\ dwShown'.age <= nodeAge'
    BY <1>1, <1>2 DEF WindowInv, ShownTypes, nodeState
  <1>5. TasksInv'
    <2>1. CASE DeliverCreated(s) \/ DeliverError(s)
      <3>1. Becomes(s, NoTask)
        BY <2>1 DEF DeliverCreated, DeliverError
      <3>2. NoTask \in TaskRecords /\ TaskFits(NoTask, dwShown.age, nodeAge') /\ NoTask.op \notin Refreshes
        BY Blanks DEF TaskFits, Refreshes
      <3>3. QED
        BY <1>2, <3>1, <3>2, OneTask DEF NodeGoesOn
    <2>2. CASE DeliverConnected(s) \/ DeliverDone(s)
      <3>1. \E controller : Refreshing(s, Others(s), controller)
        BY <2>2 DEF DeliverConnected, DeliverDone
      <3>2. \A t \in Slots \ {s} : t \notin Others(s) => dwTasks[t].op = "none"
        BY DEF Others, Submitted
      <3>3. QED
        BY <1>2, <3>1, <3>2, RefreshFits
    <2>3. QED
      BY <2>1, <2>2
  <1>6. QED
    BY <1>2, <1>3, <1>4, <1>5, WindowParts

\* Every step keeps the invariant.
LEMMA WindowStepKept == WindowInv /\ [WindowNext]_dwVars => WindowInv'
  <1> SUFFICES ASSUME WindowInv, [WindowNext]_dwVars PROVE WindowInv'
    OBVIOUS
  <1>1. CASE UNCHANGED dwVars
    <2>1. UNCHANGED window /\ UNCHANGED nodeState /\ dwTasks' = dwTasks
      BY <1>1 DEF dwVars
    <2>2. NodeGoesOn /\ dwShown' = dwShown
      BY <2>1, NodeSame DEF window, view
    <2>3. TasksInv'
      BY <2>1, <2>2, NoNewTask DEF NodeGoesOn
    <2>4. QED
      BY <2>1, <2>2, <2>3, WindowAsBefore
  <1>2. CASE RefreshTimer \/ Retry \/ CloseMessage
    BY <1>2, WindowRefreshes
  <1>3. CASE OpenPolicyForm \/ OpenCreate \/ CancelDialog \/ \E kind \in KeyDialogs, k \in ClientKeys : OpenKey(kind, k)
    BY <1>3, DialogOpens
  <1>4. CASE SubmitPolicy \/ SubmitCreate \/ ToggleAll \/ \E kind \in KeyDialogs : ConfirmKey(kind)
    BY <1>4, TaskSubmitted
  <1>5. CASE \E w \in Shares : ToggleModel(w)
    BY <1>5, ModelToggled
  <1>6. CASE OthersAct \/ \E w \in Shares : StopEnds(w) \/ MonitorStarts(w)
    BY <1>6, NodeMoves
  <1>7. CASE \E s \in Slots : PoolStep(s)
    BY <1>7, PoolSimple, PoolRequests, PoolShares DEF PoolStep
  <1>8. CASE \E s \in Slots : Deliver(s)
    BY <1>8, SnapshotShown, ResultArrives DEF Deliver
  <1>9. QED
    BY <1>1, <1>2, <1>3, <1>4, <1>5, <1>6, <1>7, <1>8 DEF WindowNext

\* What the invariant says of the properties.
LEMMA WindowInvSays == WindowInv => WindowTypeOK /\ WindowSound
  <1> SUFFICES ASSUME WindowInv PROVE WindowTypeOK /\ WindowSound
    OBVIOUS
  <1>1. WindowTypeOK
    <2>1. \A s \in Slots :
             /\ dwTasks[s].op \in {"none", "connect", "snapshot"} \cup UserOps
             /\ dwTasks[s].step \in {"none", "ask", "keys", "pausing", "ok", "error"}
             /\ dwTasks[s].ids \subseteq Shares /\ dwTasks[s].view \in Views
      BY TaskFacts DEF TaskRecords
    <2>2. QED
      BY <2>1 DEF WindowInv, WindowFlags, ShownTypes, NodeTypes, WindowTypeOK, Dialogs, SharePolicies
  <1>2. ShowsForward
    BY TaskFacts DEF TaskFits, ShowsForward
  <1>3. NoPolicyLost
    BY TaskFacts DEF TaskFits, NoPolicyLost, At
  <1>4. QED
    BY <1>1, <1>2, <1>3 DEF WindowSound, WindowInv

\* What the window shows never goes back, an edit the node would accept was made on the
\* policy in force, and the node wants and runs only what its policy admits and keeps a key
\* (refresh(), _edit_contribution_policy(), reconfigure() and revoke()).
THEOREM WindowIsSound == WindowSpec => [](WindowTypeOK /\ WindowSound)
  <1>1. WindowInit => WindowInv
    BY WindowStarts
  <1>2. WindowInv /\ [WindowNext]_dwVars => WindowInv'
    BY WindowStepKept
  <1>3. WindowInv => WindowTypeOK /\ WindowSound
    BY WindowInvSays
  <1>4. QED
    BY <1>1, <1>2, <1>3, PTL DEF WindowSpec

-----------------------------------------------------------------------------
(***************************************************************************)
(* The proofs of ManifestServed and MemoryFits.  The precision is fixed    *)
(* before anything is measured; what was estimated bounds what the server  *)
(* needs of any range it may serve, since the largest layers weigh at      *)
(* least as much as others, and the cache budget is the sum of the caches  *)
(* that the estimate counted.                                              *)
(***************************************************************************)

\* Sums over a set of numbers add up, and of equal numbers are a product.
LEMMA SumOfSums ==
  ASSUME NEW S, IsFiniteSet(S), NEW f, NEW g, NEW h,
         \A x \in S : f[x] \in Int /\ g[x] \in Int /\ h[x] = f[x] + g[x]
  PROVE  SumFunctionOnSet(h, S) = SumFunctionOnSet(f, S) + SumFunctionOnSet(g, S)
  <1> DEFINE Good == {T \in SUBSET S : SumFunctionOnSet(h, T) = SumFunctionOnSet(f, T) + SumFunctionOnSet(g, T)}
  <1>1. \A T \in SUBSET S : /\ IsFiniteSet(T)
                            /\ SumFunctionOnSet(f, T) \in Int /\ SumFunctionOnSet(g, T) \in Int
    BY FS_Subset, SumIsInt
  <1>2. ASSUME NEW T \in SUBSET S, \A x \in T : T \ {x} \in Good PROVE T \in Good
    <2>1. CASE T = {}
      BY <2>1, SumOfEmpty
    <2>2. CASE T # {}
      <3>1. PICK x \in T : TRUE
        BY <2>2
      <3>2. /\ SumFunctionOnSet(f, T) = f[x] + SumFunctionOnSet(f, T \ {x})
            /\ SumFunctionOnSet(g, T) = g[x] + SumFunctionOnSet(g, T \ {x})
        BY <1>1, SumWithout
      <3>3. \A y \in T : h[y] \in Int
        OBVIOUS
      <3>4. SumFunctionOnSet(h, T) = h[x] + SumFunctionOnSet(h, T \ {x})
        BY <1>1, <3>3, SumWithout
      <3>5. SumFunctionOnSet(h, T \ {x}) = SumFunctionOnSet(f, T \ {x}) + SumFunctionOnSet(g, T \ {x})
        BY <1>2
      <3>6. h[x] = f[x] + g[x] /\ f[x] \in Int /\ g[x] \in Int
        OBVIOUS
      <3>7. SumFunctionOnSet(f, T \ {x}) \in Int /\ SumFunctionOnSet(g, T \ {x}) \in Int
        BY <1>1
      <3>8. SumFunctionOnSet(h, T) = SumFunctionOnSet(f, T) + SumFunctionOnSet(g, T)
        BY <3>2, <3>4, <3>5, <3>6, <3>7
      <3>9. QED
        BY <3>8
    <2>3. QED
      BY <2>1, <2>2
  <1> HIDE DEF Good
  <1>3. SUBSET S \subseteq Good
    BY <1>2, SubsetInduction
  <1>4. S \in Good
    BY <1>3
  <1>5. QED
    BY <1>4 DEF Good

\* Of equal numbers the sum is a product.
LEMMA SumOfConstant ==
  ASSUME NEW S, IsFiniteSet(S), NEW f, NEW c \in Int, \A x \in S : f[x] = c
  PROVE  SumFunctionOnSet(f, S) = Cardinality(S) * c
  <1> DEFINE Good == {T \in SUBSET S : SumFunctionOnSet(f, T) = Cardinality(T) * c}
  <1>1. \A T \in SUBSET S : IsFiniteSet(T) /\ Cardinality(T) \in Nat
    BY FS_Subset, FS_CardinalityType
  <1>2. ASSUME NEW T \in SUBSET S, \A x \in T : T \ {x} \in Good PROVE T \in Good
    <2>1. CASE T = {}
      BY <2>1, SumOfEmpty, FS_EmptySet
    <2>2. CASE T # {}
      <3>1. PICK x \in T : TRUE
        BY <2>2
      <3>2. \A y \in T : f[y] \in Int
        OBVIOUS
      <3>3. SumFunctionOnSet(f, T) = f[x] + SumFunctionOnSet(f, T \ {x})
        BY <1>1, <3>2, SumWithout
      <3>4. SumFunctionOnSet(f, T \ {x}) = Cardinality(T \ {x}) * c /\ f[x] = c
        BY <1>2
      <3>5. Cardinality(T \ {x}) = Cardinality(T) - 1 /\ Cardinality(T) \in Nat
        BY <1>1, FS_RemoveElement
      <3> DEFINE k == Cardinality(T)
      <3>6. SumFunctionOnSet(f, T) = c + (k - 1) * c /\ k \in Int
        BY <3>3, <3>4, <3>5
      <3> HIDE DEF k
      <3>7. SumFunctionOnSet(f, T) = k * c
        BY <3>6
      <3>8. QED
        BY <3>7 DEF k
    <2>3. QED
      BY <2>1, <2>2
  <1> HIDE DEF Good
  <1>3. SUBSET S \subseteq Good
    BY <1>2, SubsetInduction
  <1>4. S \in Good
    BY <1>3
  <1>5. QED
    BY <1>4 DEF Good

\* A finite set of numbers has a largest one.
LEMMA MaxOfFinite ==
  ASSUME NEW S, IsFiniteSet(S), S # {}, \A x \in S : x \in Int
  PROVE  Max(S) \in S /\ \A y \in S : Max(S) >= y
  <1> DEFINE Good == {T \in SUBSET S : T = {} \/ \E x \in T : \A y \in T : x >= y}
  <1>1. ASSUME NEW T \in SUBSET S, \A x \in T : T \ {x} \in Good PROVE T \in Good
    <2>1. CASE T # {}
      <3>1. PICK a \in T : TRUE
        BY <2>1
      <3>2. CASE T \ {a} = {}
        <4>1. \A y \in T : a >= y
          BY <3>2
        <4>2. QED
          BY <4>1
      <3>3. CASE T \ {a} # {}
        <4>1. PICK b \in T \ {a} : \A y \in T \ {a} : b >= y
          BY <1>1, <3>3
        <4>2. a \in Int /\ b \in Int /\ \A y \in T : y \in Int
          OBVIOUS
        <4>3. CASE a >= b
          <5>1. \A y \in T : a >= y
            BY <4>1, <4>2, <4>3
          <5>2. QED
            BY <5>1
        <4>4. CASE ~(a >= b)
          <5>1. \A y \in T : b >= y
            BY <4>1, <4>2, <4>4
          <5>2. QED
            BY <5>1
        <4>5. QED
          BY <4>3, <4>4
      <3>4. QED
        BY <3>2, <3>3
    <2>2. QED
      BY <2>1
  <1> HIDE DEF Good
  <1>2. SUBSET S \subseteq Good
    BY <1>1, SubsetInduction
  <1>3. S \in Good
    BY <1>2
  <1>4. \E x \in S : \A y \in S : x >= y
    BY <1>3 DEF Good
  <1>5. QED
    BY <1>4 DEF Max

\* The number that a downward closed set of numbers has is in it.
LEMMA ClosedCount ==
  ASSUME NEW n \in Nat, NEW D \in SUBSET (1..n), \A i \in D : 1..i \subseteq D, Cardinality(D) # 0
  PROVE  Cardinality(D) \in D
  <1> DEFINE k == Cardinality(D)
  <1>1. IsFiniteSet(D) /\ k \in Nat /\ k # 0
    <2>1. IsFiniteSet(1..n)
      BY FS_Interval
    <2>2. QED
      BY <2>1, FS_Subset, FS_CardinalityType
  <1>2. SUFFICES ASSUME k \notin D PROVE FALSE
    OBVIOUS
  <1>3. D \subseteq 1..(k - 1)
    <2> HIDE DEF k
    <2>1. ASSUME NEW i \in D, i >= k PROVE FALSE
      <3>1. k \in 1..i
        BY <1>1, <2>1 DEF k
      <3>2. QED
        BY <1>2, <3>1
    <2>2. QED
      BY <1>1, <2>1
  <1>4. IsFiniteSet(1..(k - 1)) /\ Cardinality(1..(k - 1)) = k - 1
    <2> HIDE DEF k
    <2>1. 1 \in Int /\ k - 1 \in Int /\ (~(1 > k - 1) \/ k - 1 = 0)
      BY <1>1
    <2>2. QED
      BY <1>1, <2>1, FS_Interval
  <1>5. k <= k - 1
    BY <1>3, <1>4, FS_Subset
  <1>6. QED
    BY <1>1, <1>5

PrecisionFits ==
  /\ scArgs \in Starts /\ (scAt = "arguments" => scQuant = scArgs.quant)
  /\ (Public /\ scAt \notin {"arguments", "refused"}) => scQuant = scArgs.manifest
  /\ scAt \in {"place", "serving"} => scInfo = scQuant

\* A count that was chosen fits, whatever blocks it means; the budget was checked for the
\* count or the range that was asked for, and is what the caches of the blocks need.
CountFits ==
  scAt \in {"budget", "throughput", "place", "serving"} =>
    /\ scCount \in Layers /\ (Fixed => scCount = Cardinality(scArgs.fixed))
    /\ Chosen => Estimate(scCount, {}) <= TotalMemory
CacheBudget == IF Fixed THEN SumFunctionOnSet(scArgs.cache, scArgs.fixed) ELSE scCount * Max(Range(scArgs.cache))
CacheFits ==
  scAt \in {"throughput", "place", "serving"} =>
    /\ Limited /\ Devices = 1 => Estimate(scCount, scArgs.fixed) <= TotalMemory
    /\ scCache = CacheBudget
RangeFits ==
  /\ scAt # "serving" => scUsed = 0
  /\ scAt = "serving" => /\ scRange \in IF Fixed THEN {scArgs.fixed} ELSE RangesOf(scCount)
                         /\ scPage \in Nat /\ scUsed \in Int /\ scUsed <= scCache
CapacityInv == PrecisionFits /\ CountFits /\ CacheFits /\ RangeFits

\* What a function makes of a finite set is finite.
LEMMA ImageIsFinite == ASSUME NEW S, IsFiniteSet(S), NEW f PROVE IsFiniteSet({f[x] : x \in S})
  <1> DEFINE g == [x \in S |-> f[x]]
             T == {f[x] : x \in S}
  <1>1. g \in Surjection(S, T)
    BY DEF Surjection
  <1>2. QED
    BY <1>1, FS_Surjection

\* What a start is made of.
LEMMA StartFacts ==
  ASSUME scArgs \in Starts
  PROVE  /\ IsFiniteSet(Layers) /\ Layers # {} /\ Layers \subseteq Nat \ {0}
         /\ \A b \in Layers : scArgs.weight[b] \in Nat /\ scArgs.cache[b] \in Nat \ {0}
         /\ DOMAIN scArgs.cache = Layers /\ scArgs.lora \in Nat /\ scArgs.limit \in Nat
         /\ scArgs.devices \in Seq(Nat \ {0}) /\ scArgs.fixed \subseteq Layers
         /\ \A b \in Layers : \A q : Weight(b, q) \in Nat
  <1>1. scArgs \in ServerStart
    BY CapacityAssumption
  <1>2. /\ scArgs.weight \in [Layers -> Nat] /\ scArgs.cache \in [Layers -> Nat \ {0}] /\ scArgs.lora \in Nat
        /\ scArgs.limit \in Nat /\ scArgs.devices \in Seq(Nat \ {0}) /\ scArgs.fixed \subseteq Layers
    BY <1>1 DEF ServerStart
  <1>3. IsFiniteSet(Layers) /\ Layers # {} /\ Layers \subseteq Nat \ {0}
    <2>1. 1 \in Int /\ NumLayers \in Int /\ NumLayers >= 1
      BY CapacityAssumption
    <2>2. IsFiniteSet(1..NumLayers)
      BY <2>1, FS_Interval
    <2>3. QED
      BY <2>1, <2>2 DEF Layers
  <1>4. \A b \in Layers : scArgs.weight[b] \in Nat /\ scArgs.cache[b] \in Nat \ {0}
    BY <1>2
  <1>5. \A k \in Nat : k \div 2 \in Nat
    OBVIOUS
  <1>6. \A b \in Layers : \A q : Weight(b, q) \in Nat
    BY <1>4, <1>5 DEF Weight
  <1>7. QED
    BY <1>2, <1>3, <1>4, <1>6

\* The budget for the caches is a number.
LEMMA BudgetIsNatural ==
  ASSUME scArgs \in Starts, scCount \in Layers PROVE CacheBudget \in Nat
  <1>1. CASE Fixed
    <2>1. IsFiniteSet(scArgs.fixed) /\ \A b \in scArgs.fixed : scArgs.cache[b] \in Nat
      BY StartFacts, FS_Subset
    <2>2. SumFunctionOnSet(scArgs.cache, scArgs.fixed) \in Int
      BY <2>1, SumIsInt
    <2>3. SumFunctionOnSet(scArgs.cache, {}) <= SumFunctionOnSet(scArgs.cache, scArgs.fixed)
      BY <2>1, SumOfMore
    <2>4. SumFunctionOnSet(scArgs.cache, {}) = 0
      BY SumOfEmpty
    <2>5. QED
      BY <1>1, <2>2, <2>3, <2>4 DEF CacheBudget
  <1>2. CASE ~Fixed
    <2>1. Range(scArgs.cache) = {scArgs.cache[b] : b \in Layers}
      BY StartFacts DEF Range
    <2>2. IsFiniteSet(Range(scArgs.cache)) /\ Range(scArgs.cache) # {} /\ \A x \in Range(scArgs.cache) : x \in Nat \ {0}
      <3>1. IsFiniteSet({scArgs.cache[b] : b \in Layers})
        BY StartFacts, ImageIsFinite
      <3>2. QED
        BY <2>1, <3>1, StartFacts
    <2> DEFINE m == Max(Range(scArgs.cache))
    <2>3. m \in Nat
      BY <2>2, MaxOfFinite
    <2>4. scCount \in Nat
      BY StartFacts
    <2> HIDE DEF m
    <2>5. scCount * m \in Nat
      BY <2>3, <2>4
    <2>6. QED
      BY <1>2, <2>5 DEF CacheBudget, m
  <1>3. QED
    BY <1>1, <1>2

\* An estimate depends on the command line and the precision only.
LEMMA EstimateStays ==
  ASSUME UNCHANGED <<scArgs, scQuant>>, NEW n, NEW r PROVE Estimate(n, r)' = Estimate(n, r)
  <1>1. \A b \in Layers : BlockMemory(b)' = BlockMemory(b)
    BY DEF BlockMemory, Weight
  <1>2. [b \in Layers |-> BlockMemory(b)]' = [b \in Layers |-> BlockMemory(b)]
    BY <1>1
  <1>3. ASSUME NEW blocks PROVE MemoryOf(blocks)' = MemoryOf(blocks)
    BY <1>2 DEF MemoryOf
  <1>4. {MemoryOf(blocks) : blocks \in kSubset(n, Layers)}' = {MemoryOf(blocks) : blocks \in kSubset(n, Layers)}
    BY <1>3
  <1>5. Largest(n)' = Largest(n)
    BY <1>4 DEF Largest
  <1>6. Devices' = Devices
    BY DEF Devices
  <1>7. QED
    BY <1>3, <1>5, <1>6 DEF Estimate
\* So does the memory of the devices.
LEMMA MemoryStays == ASSUME scArgs' = scArgs PROVE TotalMemory' = TotalMemory
  <1>1. \A m : Limit(m)' = Limit(m)
    BY DEF Limit, Limited
  <1>2. Memories' = Memories
    BY <1>1 DEF Memories
  <1>3. QED
    BY <1>2 DEF TotalMemory, Devices

\* Of as many blocks as fit, that many do.
LEMMA ChosenFits == ASSUME scArgs \in Starts, ChosenBlocks \in Layers PROVE Estimate(ChosenBlocks, {}) <= TotalMemory
  <1> DEFINE D == {n \in Layers : \A m \in 1..n : Estimate(m, {}) <= TotalMemory}
             k == Cardinality(D)
  <1>1. k = ChosenBlocks
    BY DEF ChosenBlocks
  <1>2. D \in SUBSET (1..NumLayers) /\ NumLayers \in Nat
    BY CapacityAssumption DEF Layers
  <1>3. ASSUME NEW i \in D PROVE 1..i \subseteq D
    <2>1. i \in 1..NumLayers /\ \A m \in 1..i : Estimate(m, {}) <= TotalMemory
      BY DEF Layers
    <2>2. ASSUME NEW j \in 1..i PROVE j \in D
      <3>1. 1..j \subseteq 1..i /\ j \in 1..NumLayers
        BY <1>2, <2>1
      <3>2. QED
        BY <2>1, <3>1 DEF Layers
    <2>3. QED
      BY <2>2
  <1>4. k # 0
    BY <1>1, StartFacts
  <1> HIDE DEF D
  <1>5. k \in D
    BY <1>2, <1>3, <1>4, ClosedCount
  <1>6. k \in Layers /\ \A m \in 1..k : Estimate(m, {}) <= TotalMemory
    BY <1>5 DEF D
  <1>7. k \in 1..k
    BY <1>6, StartFacts
  <1>8. QED
    BY <1>1, <1>6, <1>7

\* No range of a number of blocks weighs more than the largest layers.
LEMMA LargestIsLargest ==
  ASSUME scArgs \in Starts, NEW n \in Layers, NEW blocks \in SUBSET Layers, Cardinality(blocks) = n
  PROVE  MemoryOf(blocks) <= Largest(n) /\ MemoryOf(blocks) \in Int /\ Largest(n) \in Int
  <1> DEFINE K == kSubset(n, Layers)
             f == [s \in K |-> MemoryOf(s)]
             M == {MemoryOf(s) : s \in K}
  <1>1. \A s \in K : s \in SUBSET Layers /\ IsFiniteSet(s)
    BY StartFacts, FS_Subset DEF kSubset
  <1>2. ASSUME NEW s \in K PROVE MemoryOf(s) \in Int
    <2>1. \A b \in s : BlockMemory(b) \in Int
      <3>1. \A b \in s : b \in Layers /\ Weight(b, scQuant) \in Nat /\ scArgs.cache[b] \in Nat
        BY <1>1, StartFacts
      <3>2. QED
        BY <3>1 DEF BlockMemory
    <2> DEFINE g == [b \in Layers |-> BlockMemory(b)]
    <2>2. \A b \in s : g[b] \in Int
      BY <1>1, <2>1
    <2> HIDE DEF g
    <2>3. SumFunctionOnSet(g, s) \in Int
      BY <1>1, <2>2, SumIsInt
    <2>4. QED
      BY <2>3 DEF MemoryOf, g
  <1>3. IsFiniteSet(K)
    <2>1. K \subseteq SUBSET Layers
      BY DEF kSubset
    <2>2. QED
      BY <2>1, StartFacts, FS_SUBSET, FS_Subset
  <1>4. M = {f[s] : s \in K}
    OBVIOUS
  <1>5. IsFiniteSet({f[s] : s \in K})
    <2> HIDE DEF K, f
    <2>1. QED
      BY <1>3, ImageIsFinite
  <1>6. blocks \in K
    BY DEF kSubset
  <1>7. M # {} /\ MemoryOf(blocks) \in M
    BY <1>6
  <1>8. \A x \in M : x \in Int
    BY <1>2
  <1> HIDE DEF K, f, M
  <1>9. Max(M) \in M /\ \A y \in M : Max(M) >= y
    BY <1>4, <1>5, <1>7, <1>8, MaxOfFinite
  <1>10. Largest(n) = Max(M)
    BY DEF Largest, M, K
  <1>11. QED
    BY <1>7, <1>8, <1>9, <1>10

\* A range has as many blocks as it is for.
LEMMA RangesHaveBlocks ==
  ASSUME scArgs \in Starts, NEW n \in Layers, NEW r \in RangesOf(n)
  PROVE  r \subseteq Layers /\ Cardinality(r) = n
  <1>1. PICK a \in 1..(NumLayers - n + 1) : r = a..(a + n - 1)
    BY DEF RangesOf
  <1>2. NumLayers \in Nat /\ n \in 1..NumLayers
    BY CapacityAssumption DEF Layers
  <1>3. a \in Int /\ a + n - 1 \in Int /\ ~(a > a + n - 1) /\ a + n - 1 - a + 1 = n
    BY <1>2
  <1>4. Cardinality(r) = n
    <2>1. PICK z \in Int : z = a + n - 1
      BY <1>3
    <2>2. Cardinality(a..z) = z - a + 1
      BY <1>2, <1>3, <2>1, FS_Interval
    <2>3. QED
      BY <1>1, <1>2, <2>1, <2>2
  <1>5. r \subseteq 1..NumLayers
    BY <1>1, <1>2
  <1>6. QED
    BY <1>4, <1>5 DEF Layers

\* What a server needs for its weights and adapters is what they are estimated at.
LEMMA WeightsOf ==
  ASSUME scArgs \in Starts, NEW r \in SUBSET Layers
  PROVE  /\ SumFunctionOnSet([b \in Layers |-> Weight(b, scQuant) + scArgs.lora], r)
              + SumFunctionOnSet(scArgs.cache, r) = MemoryOf(r) + Cardinality(r) * scArgs.lora
         /\ SumFunctionOnSet([b \in Layers |-> Weight(b, scQuant) + scArgs.lora], r) \in Int
         /\ SumFunctionOnSet(scArgs.cache, r) \in Int /\ MemoryOf(r) \in Int /\ Cardinality(r) * scArgs.lora \in Int
  <1> DEFINE w == [b \in Layers |-> Weight(b, scQuant)]
             l == [b \in Layers |-> scArgs.lora]
             wl == [b \in Layers |-> Weight(b, scQuant) + scArgs.lora]
             m == [b \in Layers |-> BlockMemory(b)]
             c == scArgs.cache
  <1>1. IsFiniteSet(r) /\ Cardinality(r) \in Nat /\ scArgs.lora \in Nat
    BY StartFacts, FS_Subset, FS_CardinalityType
  <1>2. ASSUME NEW b \in r
        PROVE  /\ w[b] \in Int /\ l[b] \in Int /\ c[b] \in Int /\ l[b] = scArgs.lora
               /\ wl[b] = w[b] + l[b] /\ m[b] = w[b] + c[b]
    <2>1. b \in Layers /\ Weight(b, scQuant) \in Nat /\ scArgs.lora \in Nat /\ scArgs.cache[b] \in Nat
      BY StartFacts
    <2>2. QED
      BY <2>1 DEF BlockMemory
  <1>3. MemoryOf(r) = SumFunctionOnSet(m, r)
    BY DEF MemoryOf
  <1> HIDE DEF w, l, wl, m, c
  <1>4. SumFunctionOnSet(wl, r) = SumFunctionOnSet(w, r) + SumFunctionOnSet(l, r)
    BY <1>1, <1>2, SumOfSums
  <1>5. SumFunctionOnSet(m, r) = SumFunctionOnSet(w, r) + SumFunctionOnSet(c, r)
    BY <1>1, <1>2, SumOfSums
  <1>6. SumFunctionOnSet(l, r) = Cardinality(r) * scArgs.lora
    <2> DEFINE x == scArgs.lora
    <2>1. x \in Int /\ \A b \in r : l[b] = x
      BY <1>1, <1>2
    <2> HIDE DEF x
    <2>2. SumFunctionOnSet(l, r) = Cardinality(r) * x
      BY <1>1, <2>1, SumOfConstant
    <2>3. QED
      BY <2>2 DEF x
  <1>7. SumFunctionOnSet(w, r) \in Int /\ SumFunctionOnSet(l, r) \in Int /\ SumFunctionOnSet(c, r) \in Int
    BY <1>1, <1>2, SumIsInt
  <1> DEFINE p == Cardinality(r) * scArgs.lora
  <1>8. p = SumFunctionOnSet(l, r)
    BY <1>6
  <1> HIDE DEF p
  <1>9. /\ SumFunctionOnSet(wl, r) + SumFunctionOnSet(c, r) = SumFunctionOnSet(m, r) + p
        /\ SumFunctionOnSet(wl, r) \in Int /\ SumFunctionOnSet(m, r) \in Int /\ p \in Int
    BY <1>4, <1>5, <1>7, <1>8
  <1>10. QED
    BY <1>3, <1>7, <1>9 DEF p, wl, c

\* The device of a server with one device has a number of bytes.
LEMMA MemoryIsInt == ASSUME scArgs \in Starts, Devices = 1 PROVE TotalMemory \in Int
  <1>1. scArgs.devices \in Seq(Nat \ {0}) /\ Len(scArgs.devices) = 1 /\ scArgs.limit \in Nat
    BY StartFacts DEF Devices
  <1> DEFINE m == Limit(scArgs.devices[1])
  <1>2. m \in Nat
    BY <1>1 DEF Limit
  <1>3. Range(scArgs.devices) = {scArgs.devices[1]}
    <2>1. DOMAIN scArgs.devices = {1}
      BY <1>1
    <2>2. QED
      BY <2>1 DEF Range
  <1>4. Memories = {m}
    BY <1>3 DEF Memories
  <1> HIDE DEF m
  <1>5. Min(Memories) = m
    BY <1>2, <1>4 DEF Min
  <1>6. QED
    BY <1>2, <1>5 DEF TotalMemory

\* An estimate on one device is a number.
LEMMA EstimateIsInt ==
  ASSUME scArgs \in Starts, scCount \in Layers, Devices = 1 PROVE Estimate(scCount, scArgs.fixed) \in Int
  <1> DEFINE lora == scCount * scArgs.lora
  <1>1. lora \in Int
    BY StartFacts
  <1>2. MemoryOf(scArgs.fixed) \in Int
    BY StartFacts, WeightsOf
  <1>3. Largest(scCount) \in Int
    <2>1. scCount \in 1..NumLayers /\ NumLayers \in Nat
      BY CapacityAssumption DEF Layers
    <2>2. 1 \in 1..(NumLayers - scCount + 1)
      BY <2>1
    <2>3. PICK r \in RangesOf(scCount) : TRUE
      BY <2>2 DEF RangesOf
    <2>4. r \in SUBSET Layers /\ Cardinality(r) = scCount
      BY <2>3, RangesHaveBlocks
    <2>5. QED
      BY <2>4, LargestIsLargest
  <1> HIDE DEF lora
  <1>4. Estimate(scCount, scArgs.fixed) = 1 + lora + IF scArgs.fixed = {} THEN Largest(scCount) ELSE MemoryOf(scArgs.fixed)
    BY DEF Estimate, lora
  <1>5. QED
    BY <1>1, <1>2, <1>3, <1>4

\* What was estimated for a range bounds what it needs with its cache full.
LEMMA EstimateCovers ==
  ASSUME CapacityInv, scAt = "serving", Limited \/ Chosen, Fixed \/ UniformCaches, Devices = 1
  PROVE  Needed <= TotalMemory
  <1> DEFINE weights == SumFunctionOnSet([b \in Layers |-> Weight(b, scQuant) + scArgs.lora], scRange)
             caches == SumFunctionOnSet(scArgs.cache, scRange)
             lora == Cardinality(scRange) * scArgs.lora
             memory == MemoryOf(scRange)
  <1>1. /\ scArgs \in Starts /\ scInfo = scQuant /\ scCount \in Layers /\ scUsed \in Int /\ scUsed <= scCache
        /\ scRange \in IF Fixed THEN {scArgs.fixed} ELSE RangesOf(scCount)
        /\ scCache = CacheBudget
    BY DEF CapacityInv, PrecisionFits, CountFits, CacheFits, RangeFits
  <1>2. Needed = 1 + scUsed + weights
    BY <1>1 DEF Needed
  <1>3. scRange \subseteq Layers /\ Cardinality(scRange) = scCount
    BY <1>1, RangesHaveBlocks, StartFacts DEF CapacityInv, CountFits
  <1>4. weights + caches = memory + lora /\ weights \in Int /\ caches \in Int /\ memory \in Int /\ lora \in Int
    BY <1>1, <1>3, WeightsOf
  <1>5. scCache = caches /\ \E estimate \in Int : memory <= estimate /\ 1 + lora + estimate <= TotalMemory
    <2>1. CASE Fixed
      <3>1. scRange = scArgs.fixed /\ scCache = caches
        BY <1>1, <2>1 DEF CacheBudget
      <3>2. Estimate(scCount, scArgs.fixed) <= TotalMemory
        BY <2>1 DEF CapacityInv, CacheFits, Chosen
      <3>3. Estimate(scCount, scArgs.fixed) = 1 + lora + memory
        BY <1>3, <2>1, <3>1 DEF Estimate, Fixed
      <3> HIDE DEF memory, lora
      <3>4. QED
        BY <1>4, <3>1, <3>2, <3>3
    <2>2. CASE ~Fixed
      <3>1. Estimate(scCount, {}) <= TotalMemory
        BY <2>2 DEF CapacityInv, CacheFits, CountFits, Fixed
      <3>2. Estimate(scCount, {}) = 1 + lora + Largest(scCount)
        BY <1>3 DEF Estimate
      <3>3. memory <= Largest(scCount) /\ Largest(scCount) \in Int
        BY <1>1, <1>3, LargestIsLargest
      <3>4. scCache = caches
        <4>1. PICK c : Range(scArgs.cache) = {c}
          <5>1. Range(scArgs.cache) = {scArgs.cache[b] : b \in Layers}
            BY <1>1, StartFacts DEF Range
          <5>2. IsFiniteSet({scArgs.cache[b] : b \in Layers})
            BY <1>1, StartFacts, ImageIsFinite
          <5>3. QED
            BY <2>2, <5>1, <5>2, FS_Singleton DEF UniformCaches
        <4>2. \A b \in Layers : scArgs.cache[b] = c
          BY <1>1, <4>1, StartFacts DEF Range
        <4>3. c \in Nat
          BY <1>1, <4>2, StartFacts
        <4>4. Max(Range(scArgs.cache)) = c
          BY <4>1, <4>3 DEF Max
        <4>5. caches = Cardinality(scRange) * c
          <5>1. IsFiniteSet(scRange) /\ \A b \in scRange : scArgs.cache[b] = c
            BY <1>1, <1>3, <4>2, StartFacts, FS_Subset
          <5>2. QED
            BY <4>3, <5>1, SumOfConstant
        <4>6. QED
          BY <1>1, <1>3, <2>2, <4>4, <4>5 DEF CacheBudget
      <3> HIDE DEF memory, lora
      <3>5. QED
        BY <1>4, <3>1, <3>2, <3>3, <3>4
    <2>3. QED
      BY <2>1, <2>2
  <1>6. TotalMemory \in Int
    BY <1>1, MemoryIsInt
  <1> HIDE DEF weights, caches, lora, memory
  <1>7. 1 + scUsed + weights <= TotalMemory
    <2>1. PICK estimate \in Int : memory <= estimate /\ 1 + lora + estimate <= TotalMemory
      BY <1>5
    <2>2. scUsed <= caches
      BY <1>1, <1>5
    <2>3. QED
      BY <1>1, <1>4, <1>6, <2>1, <2>2
  <1>8. QED
    BY <1>2, <1>7

\* The precision is fixed before the sizes are looked at.
LEMMA PrecisionKept == ASSUME PrecisionFits, [CapacityNext]_scVars PROVE PrecisionFits'
  <1> USE DEF PrecisionFits, Continue, Serving
  <1>1. CASE UNCHANGED scVars
    BY <1>1 DEF scVars, Public
  <1>2. CASE ReadArguments
    BY <1>2 DEF ReadArguments, Contradicted, Public
  <1>3. CASE CheckIdentity \/ JoinSwarm \/ ChooseDevice
    BY <1>3 DEF CheckIdentity, JoinSwarm, ChooseDevice, Public
  <1>4. CASE ResolvePrecision
    <2>1. \A args \in Starts : args.manifest \in Precisions \cup {Unset}
      BY CapacityAssumption DEF ServerStart
    <2>2. QED
      BY <1>4, <2>1 DEF ResolvePrecision, Public
  <1>5. CASE ChooseCount \/ CheckBudget \/ AnnouncePrecision
    BY <1>5 DEF ChooseCount, CheckBudget, AnnouncePrecision, Public
  <1>6. CASE PlaceBlocks \/ Allocate \/ Free \/ LeaveBlocks
    BY <1>6 DEF PlaceBlocks, Allocate, Free, LeaveBlocks, Public
  <1>7. QED
    BY <1>1, <1>2, <1>3, <1>4, <1>5, <1>6 DEF CapacityNext

\* Estimates stay what they are while the command line and the precision do.
LEMMA EstimatesStay ==
  ASSUME UNCHANGED <<scArgs, scQuant, scCount>>
  PROVE  /\ \A r : Estimate(scCount, r)' = Estimate(scCount, r)
         /\ TotalMemory' = TotalMemory /\ Fixed' = Fixed /\ Chosen' = Chosen /\ Limited' = Limited
         /\ CacheBudget' = CacheBudget
         /\ Devices' = Devices
  <1>1. PICK n : n = scCount
    OBVIOUS
  <1>2. \A r : Estimate(n, r)' = Estimate(n, r)
    BY EstimateStays
  <1>3. TotalMemory' = TotalMemory
    BY MemoryStays
  <1>4. QED
    BY <1>1, <1>2, <1>3 DEF Fixed, Chosen, Limited, CacheBudget, Devices

\* The count and the budget stay what they were checked to be.
LEMMA SizesKept == ASSUME CapacityInv, [CapacityNext]_scVars PROVE CountFits' /\ CacheFits'
  <1> DEFINE Budgeted == {"throughput", "place", "serving"}
  <1> USE DEF Continue
  <1>1. CASE UNCHANGED <<scArgs, scQuant, scCount, scCache>> /\ (scAt' = scAt \/ scAt \in Budgeted)
    BY <1>1, EstimatesStay DEF CapacityInv, CountFits, CacheFits
  <1>2. CASE ReadArguments \/ CheckIdentity \/ JoinSwarm \/ ChooseDevice \/ ResolvePrecision
    BY <1>2 DEF ReadArguments, CheckIdentity, JoinSwarm, ChooseDevice, ResolvePrecision, CountFits, CacheFits
  <1>3. CASE ChooseCount
    <2>1. CacheFits' /\ UNCHANGED <<scArgs, scQuant>> /\ scAt' \in {"refused", "budget"}
      BY <1>3 DEF ChooseCount, CacheFits
    <2>2. CASE scAt' = "refused"
      BY <2>1, <2>2 DEF CountFits
    <2>3. CASE scAt' = "budget"
      <3>1. /\ scCount' \in Layers
            /\ scCount' = IF Fixed THEN Cardinality(scArgs.fixed) ELSE IF Chosen THEN ChosenBlocks ELSE scArgs.asked
        BY <1>3, <2>3 DEF ChooseCount
      <3>2. Chosen => Estimate(scCount', {}) <= TotalMemory
        BY <3>1, ChosenFits DEF CapacityInv, PrecisionFits, Chosen
      <3>3. PICK n : n = scCount'
        OBVIOUS
      <3>4. Estimate(n, {})' = Estimate(n, {}) /\ TotalMemory' = TotalMemory
        BY <2>1, EstimateStays, MemoryStays
      <3>5. Fixed' = Fixed /\ Chosen' = Chosen
        BY <2>1 DEF Fixed, Chosen
      <3>6. QED
        BY <2>1, <3>1, <3>2, <3>3, <3>4, <3>5 DEF CountFits
    <2>4. QED
      BY <2>1, <2>2, <2>3
  <1>4. CASE CheckBudget
    <2>1. UNCHANGED <<scArgs, scQuant, scCount>> /\ scAt = "budget" /\ scCache' = CacheBudget
          /\ scAt' = (IF Limited /\ Estimate(scCount, scArgs.fixed) > TotalMemory THEN "refused" ELSE "throughput")
      BY <1>4 DEF CheckBudget, CacheBudget
    <2>2. CountFits'
      BY <2>1, EstimatesStay DEF CapacityInv, CountFits
    <2>3. Limited /\ Devices = 1 /\ scAt' = "throughput" => Estimate(scCount, scArgs.fixed) <= TotalMemory
      <3>1. SUFFICES ASSUME Limited, Devices = 1, scAt' = "throughput" PROVE Estimate(scCount, scArgs.fixed) <= TotalMemory
        OBVIOUS
      <3> DEFINE estimate == Estimate(scCount, scArgs.fixed)
                 total == TotalMemory
      <3>2. ~(estimate > total)
        BY <2>1, <3>1
      <3>3. estimate \in Int /\ total \in Int
        BY <2>1, <3>1, EstimateIsInt, MemoryIsInt DEF CapacityInv, PrecisionFits, CountFits
      <3> HIDE DEF estimate, total
      <3>4. estimate <= total
        BY <3>2, <3>3
      <3>5. QED
        BY <3>4 DEF estimate, total
    <2>4. CacheFits'
      BY <2>1, <2>3, EstimatesStay DEF CacheFits
    <2>5. QED
      BY <2>2, <2>4
  <1>5. CASE AnnouncePrecision \/ PlaceBlocks \/ Allocate \/ Free \/ LeaveBlocks
    BY <1>1, <1>5 DEF AnnouncePrecision, PlaceBlocks, Allocate, Free, LeaveBlocks
  <1>6. QED
    BY <1>1, <1>2, <1>3, <1>4, <1>5 DEF CapacityNext, scVars

\* So is the range that is served, and its sessions keep to the budget.
LEMMA RangeKept == ASSUME CapacityInv, [CapacityNext]_scVars PROVE RangeFits'
  <1> USE DEF Continue, RangeFits, CapacityInv
  <1>1. CASE UNCHANGED scVars
    BY <1>1 DEF scVars, Fixed
  <1>2. CASE ReadArguments \/ CheckIdentity \/ JoinSwarm \/ ChooseDevice \/ ResolvePrecision \/ ChooseCount \/ CheckBudget
             \/ AnnouncePrecision
    BY <1>2 DEF ReadArguments, CheckIdentity, JoinSwarm, ChooseDevice, ResolvePrecision, ChooseCount, CheckBudget,
         AnnouncePrecision, Serving
  <1>3. CASE PlaceBlocks
    <2>1. UNCHANGED <<scArgs, scCount, scCache, scUsed>> /\ scAt = "place" /\ scUsed = 0 /\ scAt' \in {"serving", "failed"}
      BY <1>3 DEF PlaceBlocks
    <2>2. CASE scAt' = "failed"
      BY <2>1, <2>2
    <2>3. CASE scAt' = "serving"
      <3>1. /\ scRange' \in IF Fixed THEN {scArgs.fixed} ELSE RangesOf(scCount)
            /\ scArgs.paged => MayPage(scRange')
            /\ scPage' = IF scArgs.paged THEN Max({scArgs.cache[b] : b \in scRange'}) ELSE 0
        BY <1>3, <2>3 DEF PlaceBlocks
      <3>2. scArgs \in Starts /\ scCount \in Layers /\ scCache = CacheBudget
        BY <2>1 DEF PrecisionFits, CountFits, CacheFits
      <3>3. scCache \in Nat
        BY <3>2, BudgetIsNatural
      <3>4. scRange' \subseteq Layers
        BY <3>1, <3>2, RangesHaveBlocks, StartFacts
      <3>5. scPage' \in Nat
        <4>1. CASE ~scArgs.paged
          BY <3>1, <4>1
        <4>2. CASE scArgs.paged
          <5> DEFINE caches == {scArgs.cache[b] : b \in scRange'}
          <5>1. Cardinality(caches) = 1
            BY <3>1, <4>2 DEF MayPage
          <5>2. IsFiniteSet(caches)
            <6>1. IsFiniteSet(scRange')
              BY <3>2, <3>4, StartFacts, FS_Subset
            <6>2. QED
              BY <6>1, ImageIsFinite
          <5>3. \A x \in caches : x \in Nat
            BY <3>2, <3>4, StartFacts
          <5>4. scPage' = Max(caches)
            BY <3>1, <4>2
          <5> HIDE DEF caches
          <5>5. PICK c : caches = {c}
            BY <5>1, <5>2, FS_Singleton
          <5>6. Max(caches) = c
            BY <5>3, <5>5 DEF Max
          <5>7. QED
            BY <5>3, <5>4, <5>5, <5>6
        <4>3. QED
          BY <4>1, <4>2
      <3>6. Fixed' = Fixed
        BY <2>1 DEF Fixed
      <3>7. RangesOf(scCount)' = RangesOf(scCount)
        BY <2>1 DEF RangesOf
      <3>8. QED
        BY <2>1, <3>1, <3>3, <3>5, <3>6, <3>7
    <2>4. QED
      BY <2>1, <2>2, <2>3
  <1>4. CASE Allocate \/ Free
    <2>1. Portion \in Nat /\ scAt = "serving" /\ UNCHANGED <<scArgs, scAt, scCount, scCache, scRange, scPage>>
      BY <1>4 DEF Allocate, Free, Portion
    <2>2. scUsed \in Int /\ scUsed <= scCache /\ scCache \in Int
      <3>1. scArgs \in Starts /\ scCount \in Layers /\ scCache = CacheBudget
        BY <2>1 DEF PrecisionFits, CountFits, CacheFits
      <3>2. QED
        BY <2>1, <3>1, BudgetIsNatural
    <2>3. scUsed' \in Int /\ scUsed' <= scCache
      BY <1>4, <2>1, <2>2 DEF Allocate, Free
    <2>4. Fixed' = Fixed /\ RangesOf(scCount)' = RangesOf(scCount)
      BY <2>1 DEF Fixed, RangesOf
    <2>5. QED
      BY <2>1, <2>3, <2>4
  <1>5. CASE LeaveBlocks
    BY <1>5 DEF LeaveBlocks
  <1>6. QED
    BY <1>1, <1>2, <1>3, <1>4, <1>5 DEF CapacityNext

\* On one device, and with blocks that are fixed or layers whose caches are alike, a server
\* whose count was chosen, or whose memory is limited, fits, however full its cache is and
\* wherever it moves (_choose_num_blocks and _estimate_device_memory, server.py; line 424
\* breaks it where caches differ).  On any devices a public server serves at the precision
\* of its manifest (server_from_args, run_server.py; Server.__init__).
THEOREM ServersFit == CapacitySpec => [](MemoryFits /\ ManifestServed)
  <1>1. CapacityInit => CapacityInv
    BY DEF CapacityInit, CapacityInv, PrecisionFits, CountFits, CacheFits, RangeFits, Public
  <1>2. CapacityInv /\ [CapacityNext]_scVars => CapacityInv'
    BY PrecisionKept, SizesKept, RangeKept DEF CapacityInv
  <1>3. CapacityInv => MemoryFits
    BY EstimateCovers DEF MemoryFits
  <1>4. CapacityInv => ManifestServed
    BY DEF CapacityInv, PrecisionFits, ManifestServed
  <1>5. QED
    BY <1>1, <1>2, <1>3, <1>4, PTL DEF CapacitySpec

-----------------------------------------------------------------------------
(* The eight services in one instance: a step is a step of one of them and *)
(* a stutter of the others.  What a service may do is no more than its own *)
(* specification allows, so what each keeps, the node keeps.               *)

LEMMA ServicesParts ==
  ASSUME [NodeNext]_nodeVars
  PROVE  /\ [DkNext]_dkVars /\ [WindowNext]_dwVars /\ [PlacementNext]_apVars /\ [GatewayNext]_gwVars
         /\ [DiscoveryNext]_dcVars /\ [MeasurementNext]_emVars /\ [StoreNext]_asVars /\ [CapacityNext]_scVars
  BY DEF NodeNext, DesktopStep, WindowStep, PlacementStep, GatewayStep, DiscoveryStep, MeasurementStep, StoreStep,
         CapacityStep, nodeVars

LEMMA ServicesSpecs ==
  NodeSpec => /\ DkSpec /\ WindowSpec /\ PlacementSpec /\ GatewaySpec
              /\ DiscoverySpec /\ MeasurementSpec /\ StoreSpec /\ CapacitySpec
  <1>1. NodeInit => /\ DkInit /\ WindowInit /\ PlacementInit /\ GatewayInit
                    /\ DiscoveryInit /\ MeasurementInit /\ StoreInit /\ CapacityInit
    BY DEF NodeInit
  <1>2. [NodeNext]_nodeVars => /\ [DkNext]_dkVars /\ [WindowNext]_dwVars /\ [PlacementNext]_apVars
                               /\ [GatewayNext]_gwVars /\ [DiscoveryNext]_dcVars /\ [MeasurementNext]_emVars
                               /\ [StoreNext]_asVars /\ [CapacityNext]_scVars
    BY ServicesParts
  <1>3. QED
    BY <1>1, <1>2, PTL DEF NodeSpec, DkSpec, WindowSpec, PlacementSpec, GatewaySpec, DiscoverySpec, MeasurementSpec,
       StoreSpec, CapacitySpec

\* The run's invariant, for any instance of the eight services: one desktop window, a window
\* that shows the node as it is, no DHT left, no demand of one's own counted, closed windows
\* published, a complete acquisition, a clean measurement and a server that fits its device.
THEOREM ServicesAreSound == NodeSpec => []ServicesSound
  <1>1. ServicesSound <=>
          /\ DkTypeOK /\ OneDesktop /\ (WindowTypeOK /\ WindowSound) /\ PlacementTypeOK
          /\ (GatewayTypeOK /\ OnlyClosedPublished) /\ (DiscoveryTypeOK /\ OwnDemandExcluded /\ NoDhtLeft)
          /\ (MeasurementTypeOK /\ AcceptedIsClean) /\ (StoreTypeOK /\ AcquisitionExact)
          /\ (MemoryFits /\ ManifestServed)
    BY DEF ServicesSound, ServicesTypeOK
  <1>2. QED
    BY <1>1, ServicesSpecs, DesktopIsTyped, OneInstance, WindowIsSound, PlacementIsTyped, PublishedIsClosed,
       DiscoveryIsSound, AcceptedMeasurementIsClean, AcquisitionIsExact, ServersFit, PTL

\* In the instance of the node's files no edit from outside is lost, no catalog is
\* replaced by an older one, and the key store implements the registry, whichever file
\* moves (policy.py, catalog_installer.py, api_keys.py).
THEOREM FilesKeepPromises == FilesSpec => [](EditsSurvive /\ NeverDowngraded) /\ KeysImplementRegistry
  BY FilesSpecs, NoEditLost, NoDowngrade, StoreIsRegistry, PTL

\* In the instance of the services a generation runs on the runtime it leased, an automatic
\* worker serves what was announced, who loads a file keeps it, and the control credential
\* is kept (gateway.py, automatic_placement.py, disk_cache.py, credentials.py).
THEOREM ServicesKeepPromises == NodeSpec => [](RuntimeHeld /\ ServesAnnounced /\ ReadersKeepFiles) /\ SecretKept
  BY ServicesSpecs, RuntimeIsHeld, AnnouncedBeforeServed, ReadersAreSafe, SecretIsKept, PTL
=============================================================================

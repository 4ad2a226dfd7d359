------------------------- MODULE DeliveryEntryProofs -------------------------
(***************************************************************************)
(* Every function the ledger applies to a stored entry keeps it well       *)
(* formed: Good(e) is its type and EntryShape together.                    *)
(***************************************************************************)
EXTENDS DeliveryEntry, FiniteSetTheorems, TLAPS

Good(e) == IsEntry(e) /\ EntryShape(e)

-----------------------------------------------------------------------------
(* Maps.                                                                   *)

\* The empty map is a map over any sets.
LEMMA EmptyIsMap == \A D, R : IsMap(Empty, D, R) /\ DOMAIN Empty = {}
  BY DEF IsMap, Empty

\* Map.put keeps a map a map and adds one key.
LEMMA PutIsMap ==
  ASSUME NEW D, NEW R, NEW f, IsMap(f, D, R), NEW k \in D, NEW v \in R
  PROVE  /\ IsMap(Put(f, k, v), D, R)
         /\ DOMAIN Put(f, k, v) = DOMAIN f \cup {k}
         /\ Put(f, k, v)[k] = v
         /\ \A x \in DOMAIN f \ {k} : Put(f, k, v)[x] = f[x]
  BY DEF IsMap, Put

\* Map.take keeps a map a map.
LEMMA RestrictIsMap ==
  ASSUME NEW D, NEW R, NEW f, IsMap(f, D, R), NEW S, S \subseteq DOMAIN f
  PROVE  /\ IsMap(Restrict(f, S), D, R)
         /\ DOMAIN Restrict(f, S) = S
         /\ \A x \in S : Restrict(f, S)[x] = f[x]
  BY DEF IsMap, Restrict

\* Map.drop keeps a map a map.
LEMMA DropIsMap ==
  ASSUME NEW D, NEW R, NEW f, IsMap(f, D, R), NEW S
  PROVE  /\ IsMap(Drop(f, S), D, R)
         /\ DOMAIN Drop(f, S) = DOMAIN f \ S
         /\ \A x \in DOMAIN f \ S : Drop(f, S)[x] = f[x]
  BY RestrictIsMap, DOMAIN f \ S \subseteq DOMAIN f DEF Drop

\* The fields of an entry, one by one.
LEMMA EntryFields ==
  ASSUME NEW e, IsEntry(e)
  PROVE  /\ e.gen \in Gens /\ e.inc \in Nat /\ e.token \in Nat /\ e.resync \in BOOLEAN
         /\ e.issued \in Nat /\ e.acked \in Nat /\ e.lost \in Nat
         /\ e.pending \in {"nil", "since"}
         /\ e.skipped \in SUBSET Seqs /\ e.resolved \in SUBSET Seqs /\ e.staged \in SUBSET Seqs
         /\ IsMap(e.metadata, Seqs, Descriptor) /\ IsMap(e.early, Seqs, Agents)
  BY DEF IsEntry

-----------------------------------------------------------------------------
(* The confirmed prefix.                                                   *)

\* A non-empty set of natural numbers has a least member.
LEMMA LeastNatural ==
  ASSUME NEW T, T \subseteq Nat, T # {}
  PROVE  \E m \in T : \A y \in T : m <= y
<1>1. \E m \in T : \A y \in T : ~ (<<y, m>> \in OpToRel(<, Nat))
  BY WFMin, NatLessThanWellFounded
<1>2. PICK m \in T : \A y \in T : ~ (<<y, m>> \in OpToRel(<, Nat))
  BY <1>1
<1>3. \A y \in T : ~(y < m)
  BY <1>2 DEF OpToRel
<1> QED  BY <1>3

\* consume_skipped/2 stops at the first number that is not accounted for,
\* provided the accounted numbers are bounded by what was issued.
LEMMA ConsumeSkippedSpec ==
  ASSUME NEW acked \in Nat, NEW issued \in Nat, acked <= issued,
         NEW S, S \subseteq Nat, \A s \in S : s <= issued
  PROVE  /\ ConsumeSkipped(acked, S) \in acked..issued
         /\ \A k \in (acked + 1)..ConsumeSkipped(acked, S) : k \in S
         /\ ConsumeSkipped(acked, S) + 1 \notin S
<1> DEFINE T == {k \in Nat : k > acked /\ k \notin S}
           P(n) == /\ n >= acked
                   /\ \A k \in (acked + 1)..n : k \in S
                   /\ n + 1 \notin S
<1>1. issued + 1 \in T
  OBVIOUS
<1>2. PICK m \in T : \A y \in T : m <= y
  BY <1>1, LeastNatural, T \subseteq Nat
<1>3. m - 1 \in {acked} \cup S /\ P(m - 1)
  <2>1. m \in Nat /\ m > acked /\ m \notin S
    OBVIOUS
  <2>2. \A k \in (acked + 1)..(m - 1) : k \in S
    BY <1>2, <2>1
  <2>3. m - 1 = acked \/ m - 1 \in (acked + 1)..(m - 1)
    BY <2>1
  <2> QED  BY <2>1, <2>2, <2>3
<1> DEFINE n == ConsumeSkipped(acked, S)
<1>4. n \in {acked} \cup S /\ P(n)
  <2> HIDE DEF P
  <2>1. \E x \in {acked} \cup S : P(x)
    BY <1>3
  <2>2. n = CHOOSE x \in {acked} \cup S : P(x)
    BY DEF ConsumeSkipped, P
  <2> HIDE DEF n
  <2> QED  BY <2>1, <2>2
<1>5. n \in Nat /\ acked <= n /\ n <= issued
  BY <1>4
<1>6. (\A k \in (acked + 1)..n : k \in S) /\ n + 1 \notin S
  BY <1>4
<1> HIDE DEF n
<1>7. n \in acked..issued
  BY <1>5
<1> QED  BY <1>6, <1>7 DEF n

\* advance_skipped/1 on an entry whose accounted numbers are bounded.
LEMMA AdvanceSkippedSpec ==
  ASSUME NEW e, IsEntry(e), e.acked <= e.issued,
         \A s \in e.skipped \cup e.resolved : s <= e.issued
  PROVE  LET n == AdvanceSkipped(e)
         IN  /\ IsEntry(n)
             /\ e.acked <= n.acked /\ n.acked <= n.issued
             /\ \A k \in (e.acked + 1)..n.acked : k \in e.skipped \cup e.resolved
             /\ n.acked + 1 \notin e.skipped \cup e.resolved
             /\ n.skipped = {s \in e.skipped : s > n.acked}
             /\ n.resolved = {s \in e.resolved : s > n.acked}
             /\ n.pending = IF n.acked = e.issued THEN "nil" ELSE e.pending
             /\ n.metadata = e.metadata /\ n.early = e.early
             /\ n.issued = e.issued /\ n.gen = e.gen /\ n.inc = e.inc
             /\ n.resync = e.resync /\ n.token = e.token
<1> DEFINE S == e.skipped \cup e.resolved
           c == ConsumeSkipped(e.acked, S)
<1>1. e.acked \in Nat /\ e.issued \in Nat /\ S \subseteq Nat
  BY DEF IsEntry, Seqs
<1>2. /\ c \in e.acked..e.issued
      /\ \A k \in (e.acked + 1)..c : k \in S
      /\ c + 1 \notin S
  <2> HIDE DEF S
  <2>1. \A s \in S : s <= e.issued
    BY DEF S
  <2> QED  BY <1>1, <2>1, ConsumeSkippedSpec
<1> HIDE DEF c
<1> DEFINE n == AdvanceSkipped(e)
           S2 == {s \in e.skipped : s > c}
           R2 == {s \in e.resolved : s > c}
           p == IF c = e.issued THEN "nil" ELSE e.pending
<1>3. c \in Nat /\ S2 \in SUBSET Seqs /\ R2 \in SUBSET Seqs /\ p \in {"nil", "since"}
  BY <1>1, <1>2 DEF IsEntry
<1>4. n = [e EXCEPT !.acked = c, !.skipped = S2, !.resolved = R2, !.pending = p]
  BY DEF AdvanceSkipped, c
<1>5. /\ IsEntry(n) /\ n.acked = c /\ n.skipped = S2 /\ n.resolved = R2 /\ n.pending = p
      /\ n.metadata = e.metadata /\ n.early = e.early
      /\ n.issued = e.issued /\ n.gen = e.gen /\ n.inc = e.inc
      /\ n.resync = e.resync /\ n.token = e.token
  <2> HIDE DEF n, S2, R2, p
  <2>1. IsEntry(n)
    BY <1>3, <1>4 DEF IsEntry
  <2> QED  BY <1>3, <1>4, <2>1 DEF IsEntry
<1> HIDE DEF n
<1>6. e.acked <= n.acked /\ n.acked <= n.issued
  BY <1>1, <1>2, <1>5
<1> QED  BY <1>2, <1>5, <1>6 DEF n

-----------------------------------------------------------------------------
(* The operations.                                                         *)

\* A fresh entry is well formed.
LEMMA FreshGood ==
  ASSUME NEW g \in Gens, NEW inc \in Nat, NEW token \in Nat, NEW resync \in BOOLEAN, NEW n \in Nat
  PROVE  Good(FreshEntry(g, inc, token, resync, n))
<1> DEFINE f == FreshEntry(g, inc, token, resync, n)
<1>1. IsEntry(f)
  BY EmptyIsMap DEF IsEntry, FreshEntry
<1>2. EntryShape(f)
  BY EmptyIsMap DEF EntryShape, FreshEntry
<1> QED  BY <1>1, <1>2 DEF Good

\* Acknowledging keeps an entry well formed, whatever number is named.
LEMMA AcknowledgeGood ==
  ASSUME NEW e, Good(e), NEW seq \in Nat
  PROVE  Good(AcknowledgeEntry(e, seq))
<1>1. CASE ~(e.acked < seq /\ seq <= e.issued)
  BY <1>1 DEF AcknowledgeEntry
<1>2. CASE e.acked < seq /\ seq <= e.issued
  <2> DEFINE m == [e EXCEPT !.acked = seq, !.pending = IF seq = e.issued THEN "nil" ELSE e.pending]
             n == AdvanceSkipped(m)
             K == {s \in DOMAIN n.metadata : s > n.acked}
             r == [n EXCEPT !.metadata = Restrict(n.metadata, K)]
  <2>1. r = AcknowledgeEntry(e, seq)
    BY <1>2 DEF AcknowledgeEntry
  <2>10. IsEntry(e) /\ e.pending = "since" /\ e.skipped \in SUBSET Seqs /\ e.resolved \in SUBSET Seqs
    BY <1>2 DEF Good, IsEntry, EntryShape
  <2>11. m = [e EXCEPT !.acked = seq, !.skipped = e.skipped, !.resolved = e.resolved,
                      !.pending = IF seq = e.issued THEN "nil" ELSE "since"]
    BY <2>10 DEF IsEntry
  <2>2. IsEntry(m) /\ m.acked = seq /\ m.issued = e.issued /\ m.skipped = e.skipped
        /\ m.resolved = e.resolved /\ m.metadata = e.metadata /\ m.resync = e.resync
        /\ m.pending = IF seq = e.issued THEN "nil" ELSE "since"
    <3> HIDE DEF m
    <3> DEFINE p == IF seq = e.issued THEN "nil" ELSE "since"
    <3>1. p \in {"nil", "since"}
      OBVIOUS
    <3>2. m = [e EXCEPT !.acked = seq, !.skipped = e.skipped, !.resolved = e.resolved, !.pending = p]
      BY <2>11
    <3> HIDE DEF p
    <3>3. IsEntry(m) /\ m.acked = seq /\ m.issued = e.issued /\ m.skipped = e.skipped
          /\ m.resolved = e.resolved /\ m.metadata = e.metadata /\ m.resync = e.resync
          /\ m.pending = p
      <4>1. IsEntry(m)
        BY <2>10, <3>1, <3>2 DEF IsEntry
      <4> QED  BY <2>10, <3>1, <3>2, <4>1 DEF IsEntry
    <3> QED  BY <3>3 DEF p
  <2>3. m.acked <= m.issued /\ \A s \in m.skipped \cup m.resolved : s <= m.issued
    BY <1>2, <2>2 DEF Good, IsEntry, EntryShape
  <2> HIDE DEF m
  <2>4. /\ IsEntry(n) /\ seq <= n.acked /\ n.acked <= n.issued /\ n.issued = e.issued
        /\ n.acked + 1 \notin e.skipped \cup e.resolved
        /\ n.skipped = {s \in e.skipped : s > n.acked}
        /\ n.resolved = {s \in e.resolved : s > n.acked}
        /\ n.pending = IF n.acked = e.issued \/ seq = e.issued THEN "nil" ELSE "since"
        /\ n.metadata = e.metadata /\ n.resync = e.resync
    BY <2>2, <2>3, AdvanceSkippedSpec
  <2> HIDE DEF n
  <2>5. IsMap(Restrict(n.metadata, K), Seqs, Descriptor) /\ DOMAIN Restrict(n.metadata, K) = K
    BY <2>4, RestrictIsMap DEF IsEntry
  <2>6. IsEntry(r)
    BY <2>4, <2>5 DEF IsEntry
  <2>7. /\ r.acked = n.acked /\ r.issued = e.issued /\ r.skipped = n.skipped
        /\ r.resolved = n.resolved /\ r.pending = n.pending /\ r.resync = e.resync
        /\ DOMAIN r.metadata = {s \in DOMAIN e.metadata : s > n.acked}
    BY <2>4, <2>5 DEF IsEntry
  <2> HIDE DEF r
  <2>8. e.acked \in Nat /\ e.issued \in Nat /\ n.acked \in Nat
    BY <2>4 DEF Good, IsEntry
  <2>9. EntryShape(r)
    BY <2>4, <2>7, <2>8, <1>2 DEF Good, EntryShape
  <2> QED  BY <2>1, <2>6, <2>9 DEF Good
<1> QED  BY <1>1, <1>2

\* Issuing a number keeps an entry well formed.
LEMMA IssueGood ==
  ASSUME NEW e, Good(e), NEW d \in Descriptor \cup {None},
         d # None => d \in Descriptor /\ (d.early => d.sender \in Agents)
  PROVE  Good(IssueWithMetadata(e, d))
<1> DEFINE q == e.issued + 1
           M == IF e.resync /\ d # None THEN Put(e.metadata, q, d) ELSE e.metadata
           Y == IF d # None /\ d.early THEN Put(e.early, q, d.sender) ELSE e.early
           G == IF d # None THEN e.staged \cup {q} ELSE e.staged
           n == IssueWithMetadata(e, d)
<1>1. IsEntry(e) /\ e.issued \in Nat /\ e.acked \in Nat /\ q \in Seqs
      /\ IsMap(e.metadata, Seqs, Descriptor) /\ IsMap(e.early, Seqs, Agents) /\ e.staged \in SUBSET Seqs
  BY DEF Good, IsEntry, Seqs
<1>2. IsMap(M, Seqs, Descriptor) /\ DOMAIN M \subseteq DOMAIN e.metadata \cup {q}
      /\ (~e.resync => DOMAIN M = DOMAIN e.metadata)
  <2>1. CASE e.resync /\ d # None
    <3>1. M = Put(e.metadata, q, d) /\ d \in Descriptor
      BY <2>1
    <3>2. IsMap(e.metadata, Seqs, Descriptor) /\ q \in Seqs
      BY <1>1
    <3>3. IsMap(Put(e.metadata, q, d), Seqs, Descriptor)
      <4> HIDE DEF q
      <4> QED  BY <3>1, <3>2, PutIsMap
    <3>4. DOMAIN Put(e.metadata, q, d) = DOMAIN e.metadata \cup {q}
      BY DEF Put
    <3> QED  BY <2>1, <3>1, <3>3, <3>4
  <2>2. CASE ~(e.resync /\ d # None)
    BY <1>1, <2>2
  <2> QED  BY <2>1, <2>2
<1>3. IsMap(Y, Seqs, Agents)
  <2>1. CASE d # None /\ d.early
    BY <1>1, <2>1, PutIsMap
  <2>2. CASE ~(d # None /\ d.early)
    BY <1>1, <2>2
  <2> QED  BY <2>1, <2>2
<1>4. G \in SUBSET Seqs
  BY <1>1
<1>5. n = [e EXCEPT !.issued = q, !.pending = "since", !.metadata = M, !.early = Y, !.staged = G]
  BY DEF IssueWithMetadata
<1> HIDE DEF n, M, Y, G
<1>6. IsEntry(n)
  <2>1. q \in Nat
    BY <1>1 DEF Seqs
  <2> HIDE DEF q
  <2>2. IsEntry(e)
    BY <1>1
  <2> QED  BY <2>1, <2>2, <1>2, <1>3, <1>4, <1>5 DEF IsEntry
<1>7. n.issued = q /\ n.acked = e.acked /\ n.pending = "since" /\ n.metadata = M
      /\ n.skipped = e.skipped /\ n.resolved = e.resolved /\ n.resync = e.resync
  BY <1>1, <1>5 DEF IsEntry
<1>8. /\ DOMAIN M \subseteq (e.acked + 1)..q
      /\ e.skipped \subseteq (e.acked + 1)..q /\ e.resolved \subseteq (e.acked + 1)..q
      /\ e.acked <= q /\ e.acked # q
  BY <1>1, <1>2 DEF Good, EntryShape
<1>9. DOMAIN M \cap (e.skipped \cup e.resolved) = {}
  BY <1>1, <1>2 DEF Good, EntryShape
<1>10. e.skipped \cap e.resolved = {} /\ e.acked + 1 \notin e.skipped
  BY DEF Good, EntryShape
<1>11. e.resync \/ (DOMAIN M = {} /\ e.skipped = {} /\ e.resolved = {})
  BY <1>2 DEF Good, EntryShape
<1> HIDE DEF q
<1>12. EntryShape(n)
  BY <1>7, <1>8, <1>9, <1>10, <1>11 DEF EntryShape
<1> QED  BY <1>6, <1>12 DEF Good, n

\* Dropping all metadata as lost keeps an entry well formed.
LEMMA RecordAllGood ==
  ASSUME NEW e, Good(e)
  PROVE  /\ Good(RecordLosses(e, DOMAIN e.metadata))
         /\ DOMAIN RecordLosses(e, DOMAIN e.metadata).metadata = {}
<1> DEFINE M == Drop(e.metadata, DOMAIN e.metadata)
           Y == Drop(e.early, DOMAIN e.metadata)
           n == RecordLosses(e, DOMAIN e.metadata)
<1>1. IsEntry(e) /\ IsMap(M, Seqs, Descriptor) /\ IsMap(Y, Seqs, Agents) /\ DOMAIN M = {}
  <2>1. IsEntry(e) /\ IsMap(e.metadata, Seqs, Descriptor) /\ IsMap(e.early, Seqs, Agents)
    BY EntryFields DEF Good
  <2>2. IsMap(M, Seqs, Descriptor)
    BY <2>1, DropIsMap
  <2>3. IsMap(Y, Seqs, Agents)
    BY <2>1, DropIsMap
  <2>4. DOMAIN M = {}
    BY <2>1 DEF Drop, Restrict
  <2> QED  BY <2>1, <2>2, <2>3, <2>4
<1>2. n = [e EXCEPT !.metadata = M, !.early = Y]
  BY DEF RecordLosses
<1> HIDE DEF n, M, Y
<1>3. IsEntry(n)
  BY <1>1, <1>2 DEF IsEntry
<1>4. n.issued = e.issued /\ n.acked = e.acked /\ n.pending = e.pending /\ n.metadata = M
      /\ n.skipped = e.skipped /\ n.resolved = e.resolved /\ n.resync = e.resync
  BY <1>1, <1>2 DEF IsEntry
<1>5. EntryShape(n) /\ DOMAIN n.metadata = {}
  BY <1>1, <1>4 DEF Good, EntryShape
<1> QED  BY <1>3, <1>5 DEF Good, n

\* A set of issued numbers is finite.
LEMMA IssuedFinite ==
  ASSUME NEW n \in Nat, NEW S, S \subseteq 1..n
  PROVE  IsFiniteSet(S) /\ Cardinality(S) \in Nat
<1>1. IsFiniteSet(1..n)
  BY FS_Interval
<1> QED  BY <1>1, FS_Subset, FS_CardinalityType

\* Retiring numbers that are not accounted for keeps an entry well formed.
LEMMA RetireGood ==
  ASSUME NEW e, Good(e), e.resync = TRUE, NEW added,
         added \subseteq (e.acked + 1)..e.issued, added \cap (e.skipped \cup e.resolved) = {}
  PROVE  Good(RetireEntry(e, added))
<1> DEFINE M == Drop(e.metadata, added)
           Y == Drop(e.early, added)
           L == e.lost + Cardinality(added)
           S == e.skipped \cup added
           m == RecordLosses([e EXCEPT !.skipped = S, !.lost = L], added)
           n == AdvanceSkipped(m)
<1>1. /\ IsEntry(e) /\ e.issued \in Nat /\ e.acked \in Nat /\ e.acked <= e.issued
      /\ e.pending = (IF e.acked = e.issued THEN "nil" ELSE "since")
      /\ e.skipped \subseteq (e.acked + 1)..e.issued /\ e.resolved \subseteq (e.acked + 1)..e.issued
  BY DEF Good, IsEntry, EntryShape
<1>2. IsMap(M, Seqs, Descriptor) /\ IsMap(Y, Seqs, Agents) /\ DOMAIN M = DOMAIN e.metadata \ added
  <2>1. IsMap(e.metadata, Seqs, Descriptor) /\ IsMap(e.early, Seqs, Agents)
    BY EntryFields DEF Good
  <2>2. IsMap(M, Seqs, Descriptor)
    BY <2>1, DropIsMap
  <2>3. IsMap(Y, Seqs, Agents)
    BY <2>1, DropIsMap
  <2>4. DOMAIN M = DOMAIN e.metadata \ added
    BY <2>1 DEF Drop, Restrict
  <2> QED  BY <2>2, <2>3, <2>4
<1>3. S \in SUBSET Seqs /\ L \in Nat
  <2>1. added \subseteq 1..e.issued
    BY <1>1
  <2>2. Cardinality(added) \in Nat
    BY <1>1, <2>1, IssuedFinite
  <2>3. e.lost \in Nat /\ e.skipped \in SUBSET Seqs
    BY <1>1 DEF IsEntry
  <2>4. added \subseteq Seqs
    <3>1. e.issued \in Nat
      BY <1>1
    <3>2. \A s \in 1..e.issued : s \in Nat /\ s # 0
      BY <3>1
    <3> QED  BY <2>1, <3>2 DEF Seqs
  <2>5. S \in SUBSET Seqs
    BY <2>3, <2>4
  <2>6. L \in Nat
    BY <2>2, <2>3
  <2> QED  BY <2>5, <2>6
<1>4. m = [e EXCEPT !.skipped = S, !.lost = L, !.metadata = M, !.early = Y]
  BY <1>1 DEF RecordLosses, IsEntry
<1> HIDE DEF m, M, Y, L
<1>5. IsEntry(m)
  BY <1>1, <1>2, <1>3, <1>4 DEF IsEntry
<1>6. /\ m.issued = e.issued /\ m.acked = e.acked /\ m.pending = e.pending /\ m.metadata = M
      /\ m.skipped = S /\ m.resolved = e.resolved /\ m.resync = e.resync
  BY <1>1, <1>4 DEF IsEntry
<1>7. m.acked <= m.issued /\ \A s \in m.skipped \cup m.resolved : s <= m.issued
  <2>1. e.acked \in Nat /\ e.issued \in Nat
    BY <1>1
  <2>2. \A s \in (e.acked + 1)..e.issued : s <= e.issued
    BY <2>1
  <2>3. \A s \in S \cup e.resolved : s \in (e.acked + 1)..e.issued
    BY <1>1
  <2>4. \A s \in S \cup e.resolved : s <= e.issued
    BY <2>2, <2>3
  <2> HIDE DEF S
  <2> QED  BY <1>1, <1>6, <2>4
<1>8. /\ IsEntry(n) /\ m.acked <= n.acked /\ n.acked <= n.issued /\ n.issued = m.issued
      /\ \A k \in (m.acked + 1)..n.acked : k \in m.skipped \cup m.resolved
      /\ n.acked + 1 \notin m.skipped \cup m.resolved
      /\ n.skipped = {s \in m.skipped : s > n.acked}
      /\ n.resolved = {s \in m.resolved : s > n.acked}
      /\ n.pending = (IF n.acked = m.issued THEN "nil" ELSE m.pending)
      /\ n.metadata = m.metadata /\ n.resync = m.resync
  BY <1>5, <1>7, AdvanceSkippedSpec
<1> HIDE DEF n
<1>9. n.acked \in Nat
  BY <1>8 DEF IsEntry
<1>10. DOMAIN n.metadata \subseteq (n.acked + 1)..n.issued
  <2> SUFFICES ASSUME NEW s \in DOMAIN n.metadata, s <= n.acked
               PROVE  FALSE
    BY <1>1, <1>2, <1>6, <1>8, <1>9 DEF Good, EntryShape
  <2>1. s \in DOMAIN e.metadata /\ s \notin added /\ s \in (e.acked + 1)..e.issued
        /\ s \notin e.skipped \cup e.resolved
    BY <1>2, <1>6, <1>8 DEF Good, EntryShape
  <2>2. s \in (m.acked + 1)..n.acked
    BY <1>1, <1>6, <1>9, <2>1
  <2> QED  BY <1>6, <1>8, <2>1, <2>2
<1>11. n.pending = IF n.acked = n.issued THEN "nil" ELSE "since"
  BY <1>1, <1>6, <1>8, <1>9
<1>12. /\ n.skipped \subseteq (n.acked + 1)..n.issued /\ n.resolved \subseteq (n.acked + 1)..n.issued
       /\ n.acked + 1 \notin n.skipped
  <2>1. S \subseteq (e.acked + 1)..e.issued
    BY <1>1
  <2> HIDE DEF S
  <2>2. \A s \in n.skipped : s \in S /\ s > n.acked
    BY <1>6, <1>8
  <2>3. \A s \in n.resolved : s \in e.resolved /\ s > n.acked
    BY <1>6, <1>8
  <2>4. n.acked + 1 \notin n.skipped
    BY <1>6, <1>8
  <2>5. e.acked \in Nat /\ e.issued \in Nat /\ n.acked \in Nat /\ n.issued = e.issued
    BY <1>1, <1>6, <1>8, <1>9
  <2>6. \A s \in (e.acked + 1)..e.issued : s > n.acked => s \in (n.acked + 1)..n.issued
    BY <2>5
  <2>7. \A s \in n.skipped : s \in (n.acked + 1)..n.issued
    BY <2>1, <2>2, <2>6
  <2>8. \A s \in n.resolved : s \in (n.acked + 1)..n.issued
    BY <1>1, <2>3, <2>6
  <2> QED  BY <2>4, <2>7, <2>8
<1>13. n.skipped \cap n.resolved = {} /\ DOMAIN n.metadata \cap (n.skipped \cup n.resolved) = {}
  BY <1>2, <1>6, <1>8 DEF Good, EntryShape
<1>14. EntryShape(n)
  BY <1>6, <1>8, <1>10, <1>11, <1>12, <1>13 DEF EntryShape
<1> QED  BY <1>8, <1>14 DEF Good, RetireEntry, n, m, S, L

\* bind_resync keeps or makes a well-formed entry.
LEMMA BindResyncGood ==
  ASSUME NEW old, old # Absent => Good(old), NEW g \in Gens, NEW inc \in Nat, NEW token \in Nat
  PROVE  Good(BindResyncEntry(old, g, inc, token))
<1>1. CASE old # Absent /\ old.gen = g
  <2> DEFINE n == [old EXCEPT !.resync = TRUE, !.token = token]
  <2>1. n = BindResyncEntry(old, g, inc, token)
    BY <1>1 DEF BindResyncEntry
  <2>2. IsEntry(old)
    BY <1>1 DEF Good
  <2>3. IsEntry(n)
    BY <2>2 DEF IsEntry
  <2>4. /\ n.issued = old.issued /\ n.acked = old.acked /\ n.pending = old.pending
        /\ n.metadata = old.metadata /\ n.skipped = old.skipped /\ n.resolved = old.resolved
    BY <2>2 DEF IsEntry
  <2>5. n.resync = TRUE
    BY <2>2 DEF IsEntry
  <2> HIDE DEF n
  <2>6. EntryShape(n)
    BY <1>1, <2>4, <2>5 DEF Good, EntryShape
  <2> QED  BY <2>1, <2>3, <2>6 DEF Good
<1>2. CASE ~(old # Absent /\ old.gen = g)
  <2> DEFINE k == IF old # Absent THEN old.issued ELSE 0
  <2>1. k \in Nat
    BY EntryFields DEF Good
  <2>2. BindResyncEntry(old, g, inc, token) = FreshEntry(g, inc, token, TRUE, k)
    BY <1>2 DEF BindResyncEntry
  <2> HIDE DEF k
  <2> QED  BY <2>1, <2>2, FreshGood
<1> QED  BY <1>1, <1>2

\* bind keeps or makes a well-formed entry, given that all metadata is gone.
LEMMA BindGood ==
  ASSUME NEW old, old # Absent => Good(old) /\ DOMAIN old.metadata = {},
         NEW g \in Gens, NEW inc \in Nat
  PROVE  Good(BindEntry(old, g, inc))
<1>1. CASE old = Absent
  <2>1. BindEntry(old, g, inc) = FreshEntry(g, inc, 0, FALSE, 0)
    BY <1>1 DEF BindEntry
  <2> QED  BY <2>1, FreshGood
<1>2. CASE old # Absent /\ old.gen # g
  <2>1. BindEntry(old, g, inc) = FreshEntry(g, inc, old.token, FALSE, old.issued)
    BY <1>2 DEF BindEntry
  <2>2. old.token \in Nat /\ old.issued \in Nat
    BY <1>2, EntryFields DEF Good
  <2> QED  BY <2>1, <2>2, FreshGood
<1>3. CASE old # Absent /\ old.gen = g /\ old.resync
  <2> DEFINE n == [old EXCEPT !.resync = FALSE, !.acked = old.issued, !.pending = "nil",
                              !.skipped = {}, !.resolved = {}]
  <2>1. BindEntry(old, g, inc) = n
    BY <1>3 DEF BindEntry
  <2>2. IsEntry(old) /\ old.issued \in Nat
    BY <1>3, EntryFields DEF Good
  <2>3. IsEntry(n)
    BY <2>2 DEF IsEntry
  <2>4. /\ n.issued = old.issued /\ n.acked = old.issued /\ n.pending = "nil"
        /\ n.metadata = old.metadata /\ n.skipped = {} /\ n.resolved = {}
    BY <2>2 DEF IsEntry
  <2>5. DOMAIN old.metadata = {}
    BY <1>3
  <2> HIDE DEF n
  <2>6. EntryShape(n)
    BY <2>2, <2>4, <2>5 DEF EntryShape
  <2> QED  BY <2>1, <2>3, <2>6 DEF Good
<1>4. CASE old # Absent /\ old.gen = g /\ ~old.resync
  <2>1. BindEntry(old, g, inc) = old
    BY <1>4 DEF BindEntry
  <2> QED  BY <1>4, <2>1
<1> QED  BY <1>1, <1>2, <1>3, <1>4

\* A stage report keeps an entry well formed.
LEMMA ReportStageGood ==
  ASSUME NEW e, Good(e), e.resync = TRUE, NEW seq \in Seqs, seq <= e.issued, NEW effect
  PROVE  Good(ReportStageEntry(e, seq, effect))
<1> DEFINE res == /\ effect \in {"submitted", "uncertain"}
                  /\ seq > e.acked /\ seq \notin e.resolved /\ seq \notin e.skipped
           Y == IF effect = "progress" THEN e.early ELSE Drop(e.early, {seq})
           M == IF res THEN Drop(e.metadata, {seq}) ELSE e.metadata
           R == IF res THEN e.resolved \cup {seq} ELSE e.resolved
           n == ReportStageEntry(e, seq, effect)
<1>1. /\ IsEntry(e) /\ e.issued \in Nat /\ e.acked \in Nat /\ e.resolved \in SUBSET Seqs
      /\ IsMap(e.metadata, Seqs, Descriptor) /\ IsMap(e.early, Seqs, Agents)
  BY EntryFields DEF Good
<1>2. IsMap(Y, Seqs, Agents)
  BY <1>1, DropIsMap
<1>3. IsMap(M, Seqs, Descriptor)
  BY <1>1, DropIsMap
<1>4. DOMAIN M = IF res THEN DOMAIN e.metadata \ {seq} ELSE DOMAIN e.metadata
  BY DEF Drop, Restrict
<1>5. R \in SUBSET Seqs
  BY <1>1
<1>6. n = [e EXCEPT !.early = Y, !.metadata = M, !.resolved = R]
  BY DEF ReportStageEntry
<1>7. /\ DOMAIN M \subseteq (e.acked + 1)..e.issued
      /\ R \subseteq (e.acked + 1)..e.issued
  BY <1>1, <1>4 DEF Good, EntryShape, Seqs
<1>8. e.skipped \cap R = {} /\ DOMAIN M \cap (e.skipped \cup R) = {}
  BY <1>4 DEF Good, EntryShape
<1> HIDE DEF n, M, Y, R, res
<1>9. IsEntry(n)
  BY <1>1, <1>2, <1>3, <1>5, <1>6 DEF IsEntry
<1>10. /\ n.issued = e.issued /\ n.acked = e.acked /\ n.pending = e.pending
       /\ n.metadata = M /\ n.skipped = e.skipped /\ n.resolved = R
  BY <1>1, <1>6 DEF IsEntry
<1>11. n.resync = TRUE
  BY <1>1, <1>6 DEF IsEntry
<1>12. EntryShape(n)
  BY <1>7, <1>8, <1>10, <1>11 DEF Good, EntryShape
<1> QED  BY <1>9, <1>12 DEF Good, n

-----------------------------------------------------------------------------
(* What the handlers leave of an entry.                                    *)

\* Entry n is e with part of its metadata and early marks gone.
Less(e, n) ==
    /\ n # Absent
    /\ n.gen = e.gen /\ n.inc = e.inc /\ n.issued = e.issued
    /\ n.token = e.token /\ n.resync = e.resync
    /\ DOMAIN n.metadata \subseteq DOMAIN e.metadata
    /\ \A s \in DOMAIN n.metadata : n.metadata[s] = e.metadata[s]
    /\ DOMAIN n.early \subseteq DOMAIN e.early
    /\ \A s \in DOMAIN n.early : n.early[s] = e.early[s]

\* Every entry is stored under a generation, an absent one under none.
LEMMA GoodPresent ==
  ASSUME NEW e, IsEntry(e)
  PROVE  e # Absent
  BY EntryFields, NoneAssumption DEF Absent

\* Acknowledging takes out what was confirmed.
LEMMA AcknowledgeLess ==
  ASSUME NEW e, Good(e), NEW seq \in Nat
  PROVE  Less(e, AcknowledgeEntry(e, seq))
<1>0. IsEntry(e) /\ e.acked \in Nat /\ e.issued \in Nat /\ e # Absent
  BY EntryFields, GoodPresent DEF Good
<1>1. CASE ~(e.acked < seq /\ seq <= e.issued)
  BY <1>0, <1>1 DEF AcknowledgeEntry, Less
<1>2. CASE e.acked < seq /\ seq <= e.issued
  <2> DEFINE p == IF seq = e.issued THEN "nil" ELSE e.pending
             m == [e EXCEPT !.acked = seq, !.pending = p]
             n == AdvanceSkipped(m)
             K == {s \in DOMAIN n.metadata : s > n.acked}
             r == [n EXCEPT !.metadata = Restrict(n.metadata, K)]
  <2>1. r = AcknowledgeEntry(e, seq)
    BY <1>2 DEF AcknowledgeEntry
  <2>2. p \in {"nil", "since"} /\ e.skipped \subseteq (e.acked + 1)..e.issued
        /\ e.resolved \subseteq (e.acked + 1)..e.issued
    BY EntryFields DEF Good, EntryShape
  <2> HIDE DEF p
  <2>3. IsEntry(m)
    BY <1>0, <2>2 DEF IsEntry
  <2>4. /\ m.acked = seq /\ m.issued = e.issued /\ m.skipped = e.skipped /\ m.resolved = e.resolved
        /\ m.metadata = e.metadata /\ m.early = e.early
        /\ m.gen = e.gen /\ m.inc = e.inc /\ m.token = e.token /\ m.resync = e.resync
    BY <1>0 DEF IsEntry
  <2>5. m.acked <= m.issued /\ \A s \in m.skipped \cup m.resolved : s <= m.issued
    <3> HIDE DEF m
    <3> QED  BY <1>0, <1>2, <2>2, <2>4
  <2> HIDE DEF m
  <2>6. /\ IsEntry(n) /\ n.metadata = e.metadata /\ n.early = e.early /\ n.issued = e.issued
        /\ n.gen = e.gen /\ n.inc = e.inc /\ n.token = e.token /\ n.resync = e.resync
    BY <2>3, <2>4, <2>5, AdvanceSkippedSpec
  <2> HIDE DEF n
  <2>7. IsMap(n.metadata, Seqs, Descriptor) /\ K \subseteq DOMAIN n.metadata
    BY <2>6, EntryFields
  <2> HIDE DEF K
  <2>8. /\ IsMap(Restrict(n.metadata, K), Seqs, Descriptor)
        /\ DOMAIN Restrict(n.metadata, K) = K
        /\ \A s \in K : Restrict(n.metadata, K)[s] = n.metadata[s]
    BY <2>7, RestrictIsMap
  <2>9. /\ r.metadata = Restrict(n.metadata, K) /\ r.early = e.early /\ r.issued = e.issued
        /\ r.gen = e.gen /\ r.inc = e.inc /\ r.token = e.token /\ r.resync = e.resync
    BY <2>6 DEF IsEntry
  <2>10. IsEntry(r)
    BY <2>6, <2>8 DEF IsEntry
  <2>11. r # Absent
    BY <2>10, GoodPresent
  <2> HIDE DEF r
  <2>12. Less(e, r)
    BY <2>6, <2>7, <2>8, <2>9, <2>11 DEF Less
  <2> QED  BY <2>1, <2>12
<1> QED  BY <1>1, <1>2

\* What Map.drop leaves of a map.
LEMMA DropOf ==
  ASSUME NEW f, NEW S
  PROVE  /\ DOMAIN Drop(f, S) = DOMAIN f \ S
         /\ \A x \in DOMAIN f \ S : Drop(f, S)[x] = f[x]
  BY DEF Drop, Restrict

\* A stage report takes out at most its number.
LEMMA ReportLess ==
  ASSUME NEW e, IsEntry(e), NEW seq, NEW effect
  PROVE  Less(e, ReportStageEntry(e, seq, effect))
<1> DEFINE res == /\ effect \in {"submitted", "uncertain"}
                  /\ seq > e.acked /\ seq \notin e.resolved /\ seq \notin e.skipped
           Y == IF effect = "progress" THEN e.early ELSE Drop(e.early, {seq})
           M == IF res THEN Drop(e.metadata, {seq}) ELSE e.metadata
           R == IF res THEN e.resolved \cup {seq} ELSE e.resolved
           n == ReportStageEntry(e, seq, effect)
<1>1. e # Absent /\ IsMap(e.metadata, Seqs, Descriptor) /\ IsMap(e.early, Seqs, Agents) /\ e.gen \in Gens
  BY EntryFields, GoodPresent
<1>2. /\ DOMAIN Drop(e.metadata, {seq}) = DOMAIN e.metadata \ {seq}
      /\ \A s \in DOMAIN e.metadata \ {seq} : Drop(e.metadata, {seq})[s] = e.metadata[s]
  BY <1>1, DropOf
<1>3. /\ DOMAIN Drop(e.early, {seq}) = DOMAIN e.early \ {seq}
      /\ \A s \in DOMAIN e.early \ {seq} : Drop(e.early, {seq})[s] = e.early[s]
  BY <1>1, DropOf
<1>4. DOMAIN M \subseteq DOMAIN e.metadata /\ \A s \in DOMAIN M : M[s] = e.metadata[s]
  BY <1>2
<1>5. DOMAIN Y \subseteq DOMAIN e.early /\ \A s \in DOMAIN Y : Y[s] = e.early[s]
  BY <1>3
<1>6. n = [e EXCEPT !.early = Y, !.metadata = M, !.resolved = R]
  BY DEF ReportStageEntry
<1> HIDE DEF n, M, Y, R, res
<1>7. /\ n.metadata = M /\ n.early = Y /\ n.issued = e.issued
      /\ n.gen = e.gen /\ n.inc = e.inc /\ n.token = e.token /\ n.resync = e.resync
  BY <1>6 DEF IsEntry
<1>8. n # Absent
  BY <1>1, <1>7, NoneAssumption DEF Absent
<1>9. Less(e, n)
  BY <1>4, <1>5, <1>7, <1>8 DEF Less
<1> QED  BY <1>9 DEF n

\* Recording losses takes out their metadata and early marks.
LEMMA RecordLess ==
  ASSUME NEW e, IsEntry(e), NEW S
  PROVE  /\ Less(e, RecordLosses(e, S))
         /\ DOMAIN RecordLosses(e, S).metadata = DOMAIN e.metadata \ S
<1> DEFINE M == Drop(e.metadata, S)
           Y == Drop(e.early, S)
           n == RecordLosses(e, S)
<1>1. IsMap(e.metadata, Seqs, Descriptor) /\ IsMap(e.early, Seqs, Agents) /\ e.gen \in Gens
  BY EntryFields
<1>2. DOMAIN M = DOMAIN e.metadata \ S /\ \A s \in DOMAIN e.metadata \ S : M[s] = e.metadata[s]
  BY <1>1, DropOf
<1>3. DOMAIN Y = DOMAIN e.early \ S /\ \A s \in DOMAIN e.early \ S : Y[s] = e.early[s]
  BY <1>1, DropOf
<1>4. n = [e EXCEPT !.metadata = M, !.early = Y]
  BY DEF RecordLosses
<1> HIDE DEF n, M, Y
<1>5. /\ n.metadata = M /\ n.early = Y /\ n.issued = e.issued
      /\ n.gen = e.gen /\ n.inc = e.inc /\ n.token = e.token /\ n.resync = e.resync
  BY <1>4 DEF IsEntry
<1>6. n # Absent
  BY <1>1, <1>5, NoneAssumption DEF Absent
<1>7. Less(e, n) /\ DOMAIN n.metadata = DOMAIN e.metadata \ S
  BY <1>2, <1>3, <1>5, <1>6 DEF Less
<1> QED  BY <1>7 DEF n

\* Retiring takes out exactly the retired numbers.
LEMMA RetireLess ==
  ASSUME NEW e, Good(e), NEW added, added \subseteq (e.acked + 1)..e.issued
  PROVE  /\ Less(e, RetireEntry(e, added))
         /\ DOMAIN RetireEntry(e, added).metadata = DOMAIN e.metadata \ added
<1> DEFINE L == e.lost + Cardinality(added)
           S == e.skipped \cup added
           k == [e EXCEPT !.skipped = S, !.lost = L]
           m == RecordLosses(k, added)
           n == AdvanceSkipped(m)
<1>1. /\ IsEntry(e) /\ e.issued \in Nat /\ e.acked \in Nat /\ e.acked <= e.issued /\ e.lost \in Nat
      /\ e.skipped \subseteq (e.acked + 1)..e.issued /\ e.resolved \subseteq (e.acked + 1)..e.issued
  BY EntryFields DEF Good, EntryShape
<1>2. S \subseteq (e.acked + 1)..e.issued /\ S \in SUBSET Seqs /\ L \in Nat
  <2>1. added \subseteq 1..e.issued /\ \A s \in (e.acked + 1)..e.issued : s \in Seqs
    BY <1>1 DEF Seqs
  <2>2. Cardinality(added) \in Nat
    BY <1>1, <2>1, IssuedFinite
  <2>3. S \subseteq (e.acked + 1)..e.issued
    BY <1>1
  <2>4. S \in SUBSET Seqs
    BY <2>1, <2>3
  <2>5. L \in Nat
    BY <1>1, <2>2
  <2> QED  BY <2>3, <2>4, <2>5
<1> HIDE DEF L, S
<1>3. IsEntry(k)
  BY <1>1, <1>2 DEF IsEntry
<1>4. /\ k.acked = e.acked /\ k.issued = e.issued /\ k.skipped = S /\ k.resolved = e.resolved
      /\ k.metadata = e.metadata /\ k.early = e.early
      /\ k.gen = e.gen /\ k.inc = e.inc /\ k.token = e.token /\ k.resync = e.resync
  BY <1>1 DEF IsEntry
<1> HIDE DEF k
<1>5. Less(k, m) /\ DOMAIN m.metadata = DOMAIN e.metadata \ added
  BY <1>3, <1>4, RecordLess
<1>6. IsEntry(m) /\ m.acked = e.acked /\ m.issued = e.issued /\ m.skipped = S /\ m.resolved = e.resolved
  <2> DEFINE M == Drop(k.metadata, added)
             Y == Drop(k.early, added)
  <2>1. IsMap(k.metadata, Seqs, Descriptor) /\ IsMap(k.early, Seqs, Agents)
    BY <1>3, EntryFields
  <2>2. IsMap(M, Seqs, Descriptor)
    BY <2>1, DropIsMap
  <2>3. IsMap(Y, Seqs, Agents)
    BY <2>1, DropIsMap
  <2>4. m = [k EXCEPT !.metadata = M, !.early = Y]
    BY DEF RecordLosses
  <2> HIDE DEF M, Y, m
  <2>5. IsEntry(m)
    BY <1>3, <2>2, <2>3, <2>4 DEF IsEntry
  <2> QED  BY <1>3, <1>4, <2>4, <2>5 DEF IsEntry
<1> HIDE DEF m
<1>7. m.acked <= m.issued /\ \A s \in m.skipped \cup m.resolved : s <= m.issued
  <2>1. \A s \in (e.acked + 1)..e.issued : s <= e.issued
    BY <1>1
  <2> QED  BY <1>1, <1>2, <1>6, <2>1
<1>8. /\ IsEntry(n) /\ n.metadata = m.metadata /\ n.early = m.early /\ n.issued = m.issued
      /\ n.gen = m.gen /\ n.inc = m.inc /\ n.token = m.token /\ n.resync = m.resync
  BY <1>6, <1>7, AdvanceSkippedSpec
<1> HIDE DEF n
<1>9. n # Absent
  BY <1>8, GoodPresent
<1>10. Less(e, n) /\ DOMAIN n.metadata = DOMAIN e.metadata \ added
  BY <1>4, <1>5, <1>8, <1>9 DEF Less
<1>11. n = RetireEntry(e, added)
  BY DEF n, m, k, S, L, RetireEntry
<1> QED  BY <1>10, <1>11
=============================================================================

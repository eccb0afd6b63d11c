---------------------------- MODULE LedgerOpsProofs ----------------------------
(***************************************************************************)
(* Lemmas about the rows of the ledger and the functions on them, used by  *)
(* the proofs about Ledger and about LedgerAudit.                          *)
(***************************************************************************)
EXTENDS LedgerOps, WellFoundedInduction, TLAPS

-----------------------------------------------------------------------------
(* The head of the table and the row that is put behind it.                *)

\* ORDER BY sequence DESC LIMIT 1 on the keys 1..n.
LEMMA MaxInterval ==
  ASSUME NEW n \in Nat, n # 0
  PROVE  Max(1..n) = n
<1>1. n \in 1..n /\ \A y \in 1..n : n >= y
  OBVIOUS
<1>2. PICK m : m = Max(1..n)
  OBVIOUS
<1>3. m \in 1..n /\ \A y \in 1..n : m >= y
  BY <1>1, <1>2 DEF Max
<1>4. QED
  BY <1>1, <1>2, <1>3

LEMMA MinSingleton ==
  ASSUME NEW s \in Nat
  PROVE  Min({s}) = s
<1>1. \E x \in {s} : \A y \in {s} : x =< y
  OBVIOUS
<1>2. Min({s}) \in {s}
  BY <1>1 DEF Min
<1>3. QED
  BY <1>2

\* The head of an empty table and of a table with the keys 1..n.
LEMMA HeadEmpty ==
  ASSUME NEW t, DOMAIN t = {}
  PROVE  DurableHead(t) = [seq |-> 0, gen |-> 0, hash |-> GENESIS_PREVIOUS_HASH]
BY DEF DurableHead

LEMMA HeadInterval ==
  ASSUME NEW t, NEW n \in Nat, n # 0, DOMAIN t = 1..n
  PROVE  DurableHead(t) = [seq |-> n, gen |-> t[n].gen, hash |-> t[n].hash]
<1>1. DOMAIN t # {}
  BY 1 \in 1..n
<1>2. Max(DOMAIN t) = n
  BY MaxInterval
<1>3. QED
  BY <1>1, <1>2 DEF DurableHead

\* The columns of a new row.
LEMMA NewRowColumns ==
  ASSUME NEW r, NEW h
  PROVE  /\ NewRow(r, h).seq = h.seq + 1
         /\ NewRow(r, h).gen = h.gen + 1
         /\ NewRow(r, h).prev = h.hash
         /\ NewRow(r, h).key = r.key
         /\ NewRow(r, h).rid = r.rid
         /\ NewRow(r, h).req = r.req
         /\ NewRow(r, h).env = r.env
         /\ NewRow(r, h).rec = r.rec
         /\ NewRow(r, h).env_hash = H(r.env)
         /\ NewRow(r, h).rec_hash = r.rec.hash
         /\ NewRow(r, h).meta = r.signer.ret
         /\ NewRow(r, h).hash = ComputeEntryHash(NewRow(r, h), HashedMeta(r.signer))
BY DEF NewRow, NextGeneration, ComputeEntryHash

\* Entries with different sequence numbers have different hashes.
LEMMA HashSeparatesSequences ==
  ASSUME NEW e, NEW f, NEW m, NEW k, e.seq # f.seq
  PROVE  ComputeEntryHash(e, m) # ComputeEntryHash(f, k)
BY DEF ComputeEntryHash, H

\* A row behind the head of a table with the keys 1..n extends it to 1..n+1.
LEMMA WithRowExtends ==
  ASSUME NEW t, NEW n \in Nat, DOMAIN t = 1..n, NEW e, e.seq = n + 1
  PROVE  /\ DOMAIN WithRow(t, e) = 1..(n + 1)
         /\ WithRow(t, e)[n + 1] = e
         /\ \A s \in 1..n : WithRow(t, e)[s] = t[s]
         /\ DurableHead(WithRow(t, e)) = [seq |-> n + 1, gen |-> e.gen, hash |-> e.hash]
<1>1. (1..n) \cup {n + 1} = 1..(n + 1)
  OBVIOUS
<1>2. DOMAIN WithRow(t, e) = 1..(n + 1)
  BY <1>1 DEF WithRow
<1>3. WithRow(t, e)[n + 1] = e
  BY DEF WithRow
<1>4. \A s \in 1..n : WithRow(t, e)[s] = t[s]
  BY DEF WithRow
<1>5. DurableHead(WithRow(t, e)) = [seq |-> n + 1, gen |-> e.gen, hash |-> e.hash]
  <2>1. n + 1 \in Nat /\ n + 1 # 0
    OBVIOUS
  <2>2. QED
    BY <1>2, <1>3, <2>1, HeadInterval
<1>6. QED
  BY <1>2, <1>3, <1>4, <1>5

-----------------------------------------------------------------------------
(* Least and greatest elements of sets of numbers.                         *)

\* A set of numbers that is not empty has a least element.
LEMMA LeastElement ==
  ASSUME NEW T, T \subseteq Nat, T # {}
  PROVE  \E x \in T : \A y \in T : x <= y
<1> DEFINE R == OpToRel(<, Nat)
<1>1. IsWellFoundedOn(R, Nat)
  BY NatLessThanWellFounded, Zenon
<1>2. \A a, b \in Nat : a < b => <<a, b>> \in R
  BY DEF OpToRel
<1> HIDE DEF R
<1>3. PICK x \in T : \A y \in T : ~ (<<y, x>> \in R)
  BY <1>1, WFMin
<1>4. \A y \in T : x \in Nat /\ y \in Nat /\ ~ (y < x)
  BY <1>2, <1>3
<1>5. \A y \in T : x <= y
  BY <1>4
<1> QED
  BY <1>3, <1>5

\* A set of numbers that is not empty and bounded has a greatest element.
LEMMA GreatestElement ==
  ASSUME NEW n \in Nat, NEW T, T \subseteq 0..n, T # {}
  PROVE  \E x \in T : \A y \in T : y <= x
<1> DEFINE U == {n - y : y \in T}
<1>1. U \subseteq Nat /\ U # {}
  <2>1. \A y \in 0..n : n - y \in Nat
    OBVIOUS
  <2>2. \A y \in T : n - y \in Nat
    BY <2>1
  <2> QED
    BY <2>2
<1>2. PICK u \in U : \A v \in U : u <= v
  BY <1>1, LeastElement
<1>3. PICK x \in T : u = n - x
  BY <1>2
<1>4. ASSUME NEW y \in T PROVE y <= x
  <2>1. n - x <= n - y
    BY <1>2, <1>3
  <2>2. x \in 0..n /\ y \in 0..n
    OBVIOUS
  <2> QED
    BY <2>1, <2>2
<1> QED
  BY <1>4

\* ORDER BY sequence DESC LIMIT 1 on a table whose keys are among 1..n.
LEMMA MaxOfBounded ==
  ASSUME NEW n \in Nat, NEW T, T \subseteq 1..n, T # {}
  PROVE  Max(T) \in T /\ \A y \in T : y <= Max(T)
<1>0. T \subseteq 0..n
  OBVIOUS
<1>1. PICK x \in T : \A y \in T : y <= x
  BY <1>0, GreatestElement
<1>2. \E z \in T : \A y \in T : z >= y
  BY <1>1
<1>3. Max(T) \in T /\ \A y \in T : Max(T) >= y
  BY <1>2 DEF Max
<1>4. PICK m : m = Max(T)
  OBVIOUS
<1>5. m \in T /\ \A y \in T : m >= y
  BY <1>3, <1>4
<1>6. \A y \in T : y \in 1..n
  OBVIOUS
<1>7. \A y \in T : y <= m
  BY <1>5, <1>6
<1> QED
  BY <1>4, <1>5, <1>7

-----------------------------------------------------------------------------
(* verify_chain.                                                           *)

\* What verify_chain has checked of a row it passes.
LEMMA RowPasses ==
  ASSUME NEW t, NEW s, NEW id, RowStatus(t, s, id) = "OK"
  PROVE  /\ s # 1 => (s - 1) \in DOMAIN t /\ t[s].prev = t[s - 1].hash
         /\ t[s].env # Unparsable /\ t[s].rec.body # Unparsable
         /\ t[s].env_hash = H(t[s].env)
         /\ t[s].rec_hash = t[s].rec.hash
         /\ t[s].hash = ComputeEntryHash(t[s], t[s].meta)
  BY DEF RowStatus

\* A chain is valid only if every row passes.
LEMMA ValidChain ==
  ASSUME NEW t, NEW id, ChainValid(t, id), NEW s \in DOMAIN t
  PROVE  RowStatus(t, s, id) = "OK"
<1>1. \A u : RowStatus(t, u, id) \notin {"EMPTY", "VALID"}
  BY DEF RowStatus
<1>2. BadRows(t, id) = {}
  BY <1>1 DEF ChainValid, VerifyChainStatus
<1> QED
  BY <1>2 DEF BadRows

\* The entry hash fixes every column of its domain.
LEMMA HashFixesColumns ==
  ASSUME NEW e, NEW m, NEW f, NEW k, ComputeEntryHash(e, m) = ComputeEntryHash(f, k)
  PROVE  /\ e.ledger = f.ledger /\ e.seq = f.seq /\ e.gen = f.gen /\ e.rid = f.rid
         /\ e.key = f.key /\ e.req = f.req /\ e.env_hash = f.env_hash
         /\ e.rec_hash = f.rec_hash /\ e.disp = f.disp /\ e.prev = f.prev /\ m = k
  BY DEF ComputeEntryHash, H

\* An entry hash is not the hash of a tuple of another length.
LEMMA EntryHashIsLong ==
  ASSUME NEW e, NEW m, NEW x
  PROVE  ComputeEntryHash(e, m) # H(<<x>>)
<1>1. \A a1, a2, a3, a4, a5, a6, a7, a8, a9, a10, a11 :
        <<a1, a2, a3, a4, a5, a6, a7, a8, a9, a10, a11>> # <<x>>
  OBVIOUS
<1> QED
  BY <1>1 DEF ComputeEntryHash, H
=============================================================================

--------------------------- MODULE LedgerAuditProofs ---------------------------
(***************************************************************************)
(* Proofs about LedgerAudit, for any requests and any number of rows and   *)
(* of storage faults.  The ledger as it was committed is a linked chain    *)
(* that no fault changes, and the anchor is one of its rows.  What         *)
(* verify_chain accepts is then compared with it row by row, from the      *)
(* anchored head down: equal hashes mean equal columns, the hash of the    *)
(* previous row among them.                                                *)
(***************************************************************************)
EXTENDS LedgerAudit, LedgerOpsProofs, FiniteSetTheorems

\* Row s as append_or_replay wrote it.
Written(t, s) ==
  /\ t[s] = [seq |-> s, gen |-> t[s].gen, exp |-> t[s].exp, ledger |-> t[s].ledger,
             rid |-> t[s].rid, key |-> t[s].key, req |-> t[s].req, env |-> t[s].env,
             env_hash |-> H(t[s].env), rec |-> t[s].rec, rec_hash |-> t[s].rec.hash,
             disp |-> t[s].disp, prev |-> t[s].prev, meta |-> t[s].meta,
             hash |-> t[s].hash, signed |-> t[s].signed]
  /\ t[s].rec = [body |-> t[s].rec.body, disp |-> t[s].rec.disp, hash |-> t[s].rec.hash]
  /\ t[s].env # Unparsable /\ t[s].rec.body # Unparsable
  /\ \/ t[s].hash = ComputeEntryHash(t[s], t[s].meta)
     \/ t[s].hash = ComputeEntryHash(t[s], NoMeta) /\ t[s].meta = EmptyMeta
  /\ s # 1 => t[s].prev = t[s - 1].hash

\* The committed history is a chain without gaps.
History ==
  \E n \in Nat : DOMAIN committed = 1..n /\ \A s \in 1..n : Written(committed, s)

\* The anchor vouches for a row of the history.
Anchored ==
  anchor # None =>
    \E k \in DOMAIN committed :
      anchor = [ledger |-> committed[k].ledger,
                head |-> [seq |-> k, gen |-> committed[k].gen, hash |-> committed[k].hash]]

FaultRecords == [kind : {"column", "receipt_body", "lost", "swapped", "rehashed"}, seq : Nat]

\* Faults change and lose rows; until the first one the file is the history.
Damaged ==
  /\ faults \in Seq(FaultRecords)
  /\ DOMAIN rows \subseteq DOMAIN committed
  /\ faults = << >> => rows = committed

IInv == History /\ Anchored /\ Damaged /\ SingleFaultDetected

-----------------------------------------------------------------------------
(***************************************************************************)
(* One fault on a row that was written by append_or_replay.                *)
(***************************************************************************)
\* The columns of a written row, and what its hash covers.
LEMMA WrittenColumns ==
  ASSUME NEW t, NEW s, Written(t, s)
  PROVE  /\ t[s].seq = s
         /\ t[s].env_hash = H(t[s].env)
         /\ t[s].rec_hash = t[s].rec.hash
         /\ \E m : t[s].hash = ComputeEntryHash(t[s], m) /\ (m = t[s].meta \/ m = NoMeta)
<1>1. t[s].seq = s /\ t[s].env_hash = H(t[s].env) /\ t[s].rec_hash = t[s].rec.hash
  BY DEF Written
<1>2. \E m : t[s].hash = ComputeEntryHash(t[s], m) /\ (m = t[s].meta \/ m = NoMeta)
  BY DEF Written
<1> QED
  BY <1>1, <1>2

\* The columns of row e by the kind of damage they can take.
LEMMA DamageCases ==
  ASSUME NEW e, NEW f \in Damage(e)
  PROVE  \/ \E c \in {"ledger", "rid", "key", "req", "disp", "meta"} :
              "damaged" # e[c] /\ f = [e EXCEPT ![c] = "damaged"]
         \/ \E v : v # e.gen /\ f = [e EXCEPT !.gen = v]
         \/ \E v : v # e.env /\ f = [e EXCEPT !.env = v]
         \/ \E v \in {[e.rec EXCEPT !.hash = H("damaged")], [e.rec EXCEPT !.body = Unparsable]} :
              v # e.rec /\ f = [e EXCEPT !.rec = v]
         \/ \E v : v # e.env_hash /\ f = [e EXCEPT !.env_hash = v]
         \/ \E v : v # e.rec_hash /\ f = [e EXCEPT !.rec_hash = v]
         \/ \E v : v # e.prev /\ f = [e EXCEPT !.prev = v]
         \/ f = [e EXCEPT !.hash = H(<<"damaged">>)]
<1> DEFINE columns ==
             [ledger |-> {"damaged"}, rid |-> {"damaged"}, key |-> {"damaged"},
              req |-> {"damaged"}, disp |-> {"damaged"}, meta |-> {"damaged"},
              gen |-> 0..(MaxRows + 1),
              env |-> {"damaged", Unparsable},
              rec |-> {[e.rec EXCEPT !.hash = H("damaged")], [e.rec EXCEPT !.body = Unparsable]},
              env_hash |-> {H("damaged")}, rec_hash |-> {H("damaged")},
              prev |-> {H(<<"damaged">>)}, hash |-> {H(<<"damaged">>)}]
<1>1. Damage(e) = UNION {{[e EXCEPT ![c] = v] : v \in columns[c] \ {e[c]}} : c \in DOMAIN columns}
  BY DEF Damage
<1>2. DOMAIN columns = {"ledger", "rid", "key", "req", "disp", "meta", "gen", "env", "rec",
                        "env_hash", "rec_hash", "prev", "hash"}
  OBVIOUS
<1>3. /\ \A c \in {"ledger", "rid", "key", "req", "disp", "meta"} : columns[c] = {"damaged"}
      /\ columns["rec"] = {[e.rec EXCEPT !.hash = H("damaged")], [e.rec EXCEPT !.body = Unparsable]}
      /\ columns["hash"] = {H(<<"damaged">>)}
  OBVIOUS
<1> HIDE DEF columns
<1>4. PICK c \in DOMAIN columns : \E v \in columns[c] \ {e[c]} : f = [e EXCEPT ![c] = v]
  BY <1>1
<1>5. PICK v \in columns[c] : v # e[c] /\ f = [e EXCEPT ![c] = v]
  BY <1>4
<1>6. CASE c \in {"ledger", "rid", "key", "req", "disp", "meta"}
  <2>1. v = "damaged"
    BY <1>3, <1>5, <1>6
  <2>2. "damaged" # e[c] /\ f = [e EXCEPT ![c] = "damaged"]
    BY <1>5, <2>1
  <2> QED
    BY <1>6, <2>2, Zenon
<1>7. CASE c = "rec"
  BY <1>3, <1>5, <1>7
<1>8. CASE c = "hash"
  BY <1>3, <1>5, <1>8
<1>9. CASE c \in {"gen", "env", "env_hash", "rec_hash", "prev"}
  BY <1>5, <1>9
<1> QED
  BY <1>2, <1>6, <1>7, <1>8, <1>9

\* A damaged column breaks the row: a hash or a payload no longer fits.
LEMMA ColumnDetected ==
  ASSUME NEW t, NEW s, Written(t, s), NEW f \in Damage(t[s]),
         f.env # Unparsable, f.rec.body # Unparsable,
         f.env_hash = H(f.env), f.rec_hash = f.rec.hash, f.hash = ComputeEntryHash(f, f.meta)
  PROVE  FALSE
<1> DEFINE e == t[s]
<1>1. /\ e = [seq |-> e.seq, gen |-> e.gen, exp |-> e.exp, ledger |-> e.ledger,
              rid |-> e.rid, key |-> e.key, req |-> e.req, env |-> e.env,
              env_hash |-> e.env_hash, rec |-> e.rec, rec_hash |-> e.rec_hash,
              disp |-> e.disp, prev |-> e.prev, meta |-> e.meta,
              hash |-> e.hash, signed |-> e.signed]
      /\ e.rec = [body |-> e.rec.body, disp |-> e.rec.disp, hash |-> e.rec.hash]
  BY DEF Written
<1>2. e.env_hash = H(e.env) /\ e.rec_hash = e.rec.hash
  BY WrittenColumns
<1>3. PICK m : e.hash = ComputeEntryHash(e, m) /\ (m = e.meta \/ m = NoMeta)
  BY WrittenColumns
<1>4. \A a, b : H(a) = H(b) => a = b
  BY DEF H
<1> HIDE DEF e
<1>5. ASSUME f.hash = e.hash
      PROVE  /\ e.ledger = f.ledger /\ e.gen = f.gen /\ e.rid = f.rid
             /\ e.key = f.key /\ e.req = f.req /\ e.env_hash = f.env_hash
             /\ e.rec_hash = f.rec_hash /\ e.disp = f.disp /\ e.prev = f.prev /\ m = f.meta
  <2>1. ComputeEntryHash(e, m) = ComputeEntryHash(f, f.meta)
    BY <1>3, <1>5
  <2> QED
    BY <2>1, HashFixesColumns
<1>6. ASSUME NEW c \in {"ledger", "rid", "key", "req", "disp", "meta"},
             "damaged" # e[c], f = [e EXCEPT ![c] = "damaged"]
      PROVE  FALSE
  <2>1. f.hash = e.hash
    BY <1>1, <1>6
  <2>2. c # "meta" => f[c] = "damaged" /\ f[c] = e[c]
    BY <1>1, <1>5, <1>6, <2>1
  <2>3. c = "meta" => f.meta = "damaged" /\ m = "damaged" /\ e.meta # "damaged"
    BY <1>1, <1>5, <1>6, <2>1
  <2> QED
    BY <1>3, <1>6, <2>2, <2>3 DEF NoMeta
<1>7. ASSUME NEW v, v # e.gen, f = [e EXCEPT !.gen = v] PROVE FALSE
  <2>1. f.hash = e.hash /\ f.gen = v
    BY <1>1, <1>7
  <2> QED
    BY <2>1, <1>5, <1>7
<1>8. ASSUME NEW v, v # e.env, f = [e EXCEPT !.env = v] PROVE FALSE
  <2>1. f.env = v /\ f.env_hash = e.env_hash
    BY <1>1, <1>8
  <2> QED
    BY <2>1, <1>2, <1>4, <1>8
<1>9. ASSUME NEW v \in {[e.rec EXCEPT !.hash = H("damaged")], [e.rec EXCEPT !.body = Unparsable]},
             v # e.rec, f = [e EXCEPT !.rec = v]
      PROVE  FALSE
  <2>1. f.rec = v /\ f.rec_hash = e.rec_hash
    BY <1>1, <1>9
  <2>2. CASE v = [e.rec EXCEPT !.hash = H("damaged")]
    <3>1. v.hash = H("damaged") /\ v.body = e.rec.body /\ v.disp = e.rec.disp
      BY <1>1, <2>2
    <3>2. v = [body |-> e.rec.body, disp |-> e.rec.disp, hash |-> H("damaged")]
      BY <1>1, <2>2
    <3>3. H("damaged") = e.rec.hash
      BY <2>1, <3>1, <1>2
    <3> QED
      BY <3>2, <3>3, <1>1, <1>9
  <2>3. CASE v = [e.rec EXCEPT !.body = Unparsable]
    <3>1. v.body = Unparsable
      BY <1>1, <2>3
    <3> QED
      BY <2>1, <3>1
  <2> QED
    BY <1>9, <2>2, <2>3
<1>10. ASSUME NEW v, v # e.env_hash, f = [e EXCEPT !.env_hash = v] PROVE FALSE
  <2>1. f.hash = e.hash /\ f.env_hash = v
    BY <1>1, <1>10
  <2> QED
    BY <2>1, <1>5, <1>10
<1>11. ASSUME NEW v, v # e.rec_hash, f = [e EXCEPT !.rec_hash = v] PROVE FALSE
  <2>1. f.hash = e.hash /\ f.rec_hash = v
    BY <1>1, <1>11
  <2> QED
    BY <2>1, <1>5, <1>11
<1>12. ASSUME NEW v, v # e.prev, f = [e EXCEPT !.prev = v] PROVE FALSE
  <2>1. f.hash = e.hash /\ f.prev = v
    BY <1>1, <1>12
  <2> QED
    BY <2>1, <1>5, <1>12
<1>13. ASSUME f = [e EXCEPT !.hash = H(<<"damaged">>)] PROVE FALSE
  <2>1. f.hash = H(<<"damaged">>)
    BY <1>1, <1>13
  <2> QED
    BY <2>1, EntryHashIsLong
<1>14. f \in Damage(e)
  BY DEF e
<1> QED
  BY <1>6, <1>7, <1>8, <1>9, <1>10, <1>11, <1>12, <1>13, <1>14, DamageCases

\* The row of a valid chain.
LEMMA ValidRow ==
  ASSUME NEW t, ChainValid(t, AnyLedger), NEW s \in DOMAIN t
  PROVE  /\ s # 1 => (s - 1) \in DOMAIN t /\ t[s].prev = t[s - 1].hash
         /\ t[s].env # Unparsable /\ t[s].rec.body # Unparsable
         /\ t[s].env_hash = H(t[s].env)
         /\ t[s].rec_hash = t[s].rec.hash
         /\ t[s].hash = ComputeEntryHash(t[s], t[s].meta)
  BY ValidChain, RowPasses

\* A row that takes another place keeps the hash over its old sequence number.
LEMMA SwapDetected ==
  ASSUME NEW t, NEW x, Written(t, x), NEW s, s # x,
         NEW f, f.seq = s, f.hash = t[x].hash, f.hash = ComputeEntryHash(f, f.meta)
  PROVE  FALSE
<1>1. t[x].seq = x
  BY WrittenColumns
<1>2. PICK m : t[x].hash = ComputeEntryHash(t[x], m) /\ (m = t[x].meta \/ m = NoMeta)
  BY WrittenColumns, ZenonT(40)
<1>3. ComputeEntryHash(f, f.meta) = ComputeEntryHash(t[x], m)
  BY <1>2
<1> QED
  BY <1>1, <1>3, HashSeparatesSequences

\* A lost row leaves a gap below the row behind it.
LEMMA LossDetected ==
  ASSUME NEW n \in Nat, NEW t, DOMAIN t = 1..n, NEW s \in 1..n, s # n,
         NEW u, u = [x \in DOMAIN t \ {s} |-> t[x]]
  PROVE  ~ ChainValid(u, AnyLedger)
<1> SUFFICES ASSUME ChainValid(u, AnyLedger) PROVE FALSE
  OBVIOUS
<1>1. s + 1 \in DOMAIN u /\ s + 1 # 1 /\ (s + 1) - 1 = s /\ s \notin DOMAIN u
  OBVIOUS
<1> QED
  BY <1>1, ValidRow

\* The first fault, on the history as it was committed.
LEMMA FirstFaultDetected ==
  ASSUME NEW n \in Nat, DOMAIN rows = 1..n, \A s \in 1..n : Written(rows, s), rows = committed,
         faults = << >>, StorageFault
  PROVE  SingleFaultDetected'
<1>1. PICK s \in 1..n :
        \/ DamageColumn(s)
        \/ DamageReceiptBody(s)
        \/ LoseRow(s)
        \/ \E x \in 1..n : SwapRows(s, x)
        \/ Rehash(s)
  BY DEF StorageFault
<1>2. ASSUME NEW kind, Fault(kind, s) PROVE faults'[1].kind = kind /\ faults'[1].seq = s
  <2>1. faults' = <<[kind |-> kind, seq |-> s]>>
    BY <1>2 DEF Fault
  <2> QED
    BY <2>1
<1>3. CASE DamageColumn(s)
  <2>1. PICK f \in Damage(rows[s]) : rows' = [rows EXCEPT ![s] = f]
    BY <1>3 DEF DamageColumn
  <2>2. s \in DOMAIN rows' /\ rows'[s] = f
    BY <2>1
  <2>3. ~ ChainValid(rows', AnyLedger)
    <3> SUFFICES ASSUME ChainValid(rows', AnyLedger) PROVE FALSE
      OBVIOUS
    <3>1. /\ f.env # Unparsable /\ f.rec.body # Unparsable
          /\ f.env_hash = H(f.env) /\ f.rec_hash = f.rec.hash
          /\ f.hash = ComputeEntryHash(f, f.meta)
      BY <2>2, ValidRow
    <3> QED
      BY <3>1, ColumnDetected
  <2> QED
    BY <2>3 DEF SingleFaultDetected
<1>4. CASE DamageReceiptBody(s) \/ Rehash(s)
  <2>1. faults'[1].kind \in {"receipt_body", "rehashed"}
    BY <1>2, <1>4 DEF DamageReceiptBody, Rehash
  <2> QED
    BY <2>1 DEF SingleFaultDetected
<1>5. CASE LoseRow(s)
  <2>1. rows' = [x \in DOMAIN rows \ {s} |-> rows[x]] /\ committed' = committed
    BY <1>5 DEF LoseRow, Fault
  <2>2. faults'[1].kind = "lost" /\ faults'[1].seq = s
    BY <1>2, <1>5 DEF LoseRow
  <2>3. Cardinality(DOMAIN committed') = n
    BY <2>1, FS_Interval
  <2>4. s # n => ~ ChainValid(rows', AnyLedger)
    BY <2>1, LossDetected
  <2> QED
    BY <2>2, <2>3, <2>4 DEF SingleFaultDetected
<1>6. ASSUME NEW x \in 1..n, SwapRows(s, x) PROVE SingleFaultDetected'
  <2>1. s # x
    BY <1>6 DEF SwapRows
  <2>2. rows' = [rows EXCEPT ![s] = [rows[x] EXCEPT !.seq = s], ![x] = [rows[s] EXCEPT !.seq = x]]
    BY <1>6 DEF SwapRows
  <2>3. s \in DOMAIN rows'
    BY <2>2
  <2>4. ~ ChainValid(rows', AnyLedger)
    <3> SUFFICES ASSUME ChainValid(rows', AnyLedger) PROVE FALSE
      OBVIOUS
    <3> DEFINE f == rows'[s]
    <3>1. f.hash = ComputeEntryHash(f, f.meta)
      BY <2>3, ValidRow
    <3>2. f.seq = s /\ f.hash = rows[x].hash
      <4>1. f = [rows[x] EXCEPT !.seq = s]
        BY <2>1, <2>2
      <4> QED
        BY <4>1 DEF Written
    <3> HIDE DEF f
    <3> QED
      BY <2>1, <3>1, <3>2, SwapDetected
  <2> QED
    BY <2>4 DEF SingleFaultDetected
<1> QED
  BY <1>1, <1>3, <1>4, <1>5, <1>6

-----------------------------------------------------------------------------
(***************************************************************************)
(* The invariant, action by action.                                        *)
(***************************************************************************)
\* The row append_or_replay puts behind the head of a history of n rows.
LEMMA NewRowWritten ==
  ASSUME NEW r \in Requests, NEW h, NEW t, NEW n \in Nat, DOMAIN t = 1..n, h.seq = n,
         n # 0 => h.hash = t[n].hash
  PROVE  Written(WithRow(t, NewRow(r, h)), n + 1)
<1> DEFINE e == NewRow(r, h)
           u == WithRow(t, e)
<1>1. e.seq = n + 1
  BY NewRowColumns
<1>2. u[n + 1] = e /\ \A s \in 1..n : u[s] = t[s]
  BY <1>1, WithRowExtends
<1>3. e = [seq |-> n + 1, gen |-> e.gen, exp |-> e.exp, ledger |-> e.ledger, rid |-> e.rid,
           key |-> e.key, req |-> e.req, env |-> e.env, env_hash |-> H(e.env), rec |-> e.rec,
           rec_hash |-> e.rec.hash, disp |-> e.disp, prev |-> e.prev, meta |-> e.meta,
           hash |-> e.hash, signed |-> e.signed]
  <2>1. PICK x, y :
          e = [seq |-> h.seq + 1, gen |-> NextGeneration(h), exp |-> r.exp,
               ledger |-> r.ledger, rid |-> r.rid, key |-> r.key, req |-> r.req,
               env |-> r.env, env_hash |-> H(r.env),
               rec |-> r.rec, rec_hash |-> r.rec.hash, disp |-> r.rec.disp,
               prev |-> h.hash, meta |-> r.signer.ret, hash |-> x, signed |-> y]
    <3> DEFINE unsigned ==
          [seq |-> h.seq + 1, gen |-> NextGeneration(h), exp |-> r.exp,
           ledger |-> r.ledger, rid |-> r.rid, key |-> r.key, req |-> r.req,
           env |-> r.env, env_hash |-> H(r.env),
           rec |-> r.rec, rec_hash |-> r.rec.hash, disp |-> r.rec.disp,
           prev |-> h.hash, meta |-> r.signer.ret,
           hash |-> GENESIS_PREVIOUS_HASH, signed |-> GENESIS_PREVIOUS_HASH]
    <3>1. e = [unsigned EXCEPT !.hash = ComputeEntryHash(unsigned, HashedMeta(r.signer)),
                               !.signed = ComputeEntryHash(unsigned, MetaOrNone(r.signer.attr))]
      BY Zenon DEF NewRow
    <3>2. \E x, y : e = [unsigned EXCEPT !.hash = x, !.signed = y]
      <4> HIDE DEF unsigned, e
      <4> QED
        BY <3>1, Zenon
    <3>3. PICK x, y : e = [unsigned EXCEPT !.hash = x, !.signed = y]
      BY <3>2
    <3>4. e = [seq |-> h.seq + 1, gen |-> NextGeneration(h), exp |-> r.exp,
               ledger |-> r.ledger, rid |-> r.rid, key |-> r.key, req |-> r.req,
               env |-> r.env, env_hash |-> H(r.env),
               rec |-> r.rec, rec_hash |-> r.rec.hash, disp |-> r.rec.disp,
               prev |-> h.hash, meta |-> r.signer.ret, hash |-> x, signed |-> y]
      <4> HIDE DEF e
      <4> QED
        BY <3>3
    <3> HIDE DEF e
    <3> QED
      BY <3>4, Zenon
  <2> HIDE DEF e
  <2> QED
    BY <2>1
<1>4. /\ e.rec = [body |-> e.rec.body, disp |-> e.rec.disp, hash |-> e.rec.hash]
      /\ e.env # Unparsable /\ e.rec.body # Unparsable
  BY NewRowColumns, AuditRequests
<1>5. \/ e.hash = ComputeEntryHash(e, e.meta)
      \/ e.hash = ComputeEntryHash(e, NoMeta) /\ e.meta = EmptyMeta
  <2>1. e.hash = ComputeEntryHash(e, HashedMeta(r.signer)) /\ e.meta = r.signer.ret
    BY NewRowColumns
  <2>2. \/ HashedMeta(r.signer) = r.signer.ret
        \/ HashedMeta(r.signer) = NoMeta /\ r.signer.ret = EmptyMeta
    BY DEF HashedMeta, MetaOrNone
  <2> HIDE DEF e
  <2> QED
    BY <2>1, <2>2
<1>6. n + 1 # 1 => e.prev = u[(n + 1) - 1].hash
  <2>1. n + 1 # 1 => n \in 1..n /\ n # 0 /\ (n + 1) - 1 = n
    OBVIOUS
  <2>2. e.prev = h.hash
    BY NewRowColumns
  <2> QED
    BY <2>1, <2>2, <1>2
<1> HIDE DEF e, u
<1> QED
  BY <1>2, <1>3, <1>4, <1>5, <1>6 DEF Written, u, e

\* The head of a history.
LEMMA HeadOfHistory ==
  ASSUME NEW t, NEW n \in Nat, DOMAIN t = 1..n
  PROVE  /\ DurableHead(t).seq = n
         /\ n # 0 => DurableHead(t) = [seq |-> n, gen |-> t[n].gen, hash |-> t[n].hash]
<1>1. CASE n = 0
  BY <1>1, HeadEmpty
<1>2. CASE n # 0
  BY <1>2, HeadInterval
<1> QED
  BY <1>1, <1>2

LEMMA AppendKeeps ==
  ASSUME IInv, NEW r \in Requests, AppendEntry(r)
  PROVE  IInv'
<1> DEFINE h == DurableHead(rows)
           e == NewRow(r, h)
<1>1. /\ faults = << >> /\ rows' = WithRow(rows, e) /\ committed' = rows'
      /\ anchor' = anchor /\ faults' = faults
  BY DEF AppendEntry
<1>2. rows = committed /\ History
  BY <1>1 DEF IInv, Damaged
<1>3. PICK n \in Nat : DOMAIN rows = 1..n /\ \A s \in 1..n : Written(rows, s)
  BY <1>2 DEF History
<1>4. h.seq = n /\ (n # 0 => h.hash = rows[n].hash)
  BY <1>3, HeadOfHistory
<1>5. e.seq = n + 1
  BY <1>4, NewRowColumns
<1>6. Written(rows', n + 1)
  BY <1>1, <1>3, <1>4, NewRowWritten
<1> HIDE DEF e, h
<1>7. DOMAIN rows' = 1..(n + 1) /\ \A s \in 1..n : rows'[s] = rows[s]
  BY <1>1, <1>3, <1>5, WithRowExtends
<1>8. ASSUME NEW s \in 1..(n + 1) PROVE Written(rows', s)
  <2>1. CASE s = n + 1
    BY <2>1, <1>6
  <2>2. CASE s # n + 1
    <3>1. s \in 1..n /\ (s # 1 => s - 1 \in 1..n)
      BY <2>2
    <3>2. rows'[s] = rows[s] /\ (s # 1 => rows'[s - 1] = rows[s - 1])
      BY <3>1, <1>7
    <3>3. Written(rows, s)
      BY <3>1, <1>3
    <3> QED
      BY <3>2, <3>3 DEF Written
  <2> QED
    BY <2>1, <2>2
<1>9. History'
  <2>1. n + 1 \in Nat
    OBVIOUS
  <2> QED
    BY <2>1, <1>1, <1>7, <1>8 DEF History
<1>10. Anchored'
  BY <1>1, <1>2, <1>3, <1>7 DEF IInv, Anchored
<1>11. Damaged'
  BY <1>1 DEF IInv, Damaged
<1>12. SingleFaultDetected'
  <2>1. Len(faults') # 1
    BY <1>1
  <2> QED
    BY <2>1 DEF SingleFaultDetected
<1> QED
  BY <1>9, <1>10, <1>11, <1>12 DEF IInv

LEMMA AnchorKeeps ==
  ASSUME IInv, AnchorHead
  PROVE  IInv'
<1>1. /\ faults = << >> /\ DOMAIN rows # {} /\ anchor' = AnchorPayload(rows)
      /\ rows' = rows /\ committed' = committed /\ faults' = faults
  BY DEF AnchorHead
<1>2. rows = committed
  BY <1>1 DEF IInv, Damaged
<1>3. PICK n \in Nat : DOMAIN committed = 1..n /\ \A s \in 1..n : Written(committed, s)
  BY DEF IInv, History
<1>4. n # 0 /\ n \in DOMAIN committed
  BY <1>1, <1>2, <1>3
<1>5. DurableHead(committed) = [seq |-> n, gen |-> committed[n].gen, hash |-> committed[n].hash]
  BY <1>3, <1>4, HeadOfHistory
<1>6. anchor' = [ledger |-> committed[n].ledger,
                 head |-> [seq |-> n, gen |-> committed[n].gen, hash |-> committed[n].hash]]
  BY <1>1, <1>2, <1>5 DEF AnchorPayload
<1>7. Anchored'
  BY <1>1, <1>4, <1>6 DEF Anchored
<1>8. History' /\ Damaged'
  BY <1>1 DEF IInv, History, Damaged, Written
<1>9. SingleFaultDetected'
  <2>1. Len(faults') # 1
    BY <1>1
  <2> QED
    BY <2>1 DEF SingleFaultDetected
<1> QED
  BY <1>7, <1>8, <1>9 DEF IInv

LEMMA FaultKeeps ==
  ASSUME IInv, StorageFault
  PROVE  IInv'
<1>1. PICK n \in Nat : DOMAIN committed = 1..n /\ \A s \in 1..n : Written(committed, s)
  BY DEF IInv, History
<1>2. PICK s \in DOMAIN rows :
        \/ DamageColumn(s)
        \/ DamageReceiptBody(s)
        \/ LoseRow(s)
        \/ \E t \in DOMAIN rows : SwapRows(s, t)
        \/ Rehash(s)
  BY DEF StorageFault
<1>3. PICK kind \in {"column", "receipt_body", "lost", "swapped", "rehashed"} : Fault(kind, s)
  BY <1>2 DEF DamageColumn, DamageReceiptBody, LoseRow, SwapRows, Rehash
<1>4. committed' = committed /\ anchor' = anchor /\ faults' = Append(faults, [kind |-> kind, seq |-> s])
  BY <1>3 DEF Fault
<1>5. DOMAIN rows' \subseteq DOMAIN rows
  BY <1>2 DEF DamageColumn, DamageReceiptBody, LoseRow, SwapRows, Rehash
<1>6. faults \in Seq(FaultRecords)
  BY DEF IInv, Damaged
<1>7. [kind |-> kind, seq |-> s] \in FaultRecords
  <2>1. s \in 1..n
    BY <1>1 DEF IInv, Damaged
  <2> QED
    BY <2>1, <1>3 DEF FaultRecords
<1>8. History' /\ Anchored'
  BY <1>4 DEF IInv, History, Anchored, Written
<1>9. Damaged'
  <2>1. faults' \in Seq(FaultRecords) /\ faults' # << >>
    BY <1>4, <1>6, <1>7
  <2> QED
    BY <2>1, <1>4, <1>5 DEF IInv, Damaged
<1>10. SingleFaultDetected'
  <2>1. CASE faults = << >>
    <3>1. rows = committed
      BY <2>1 DEF IInv, Damaged
    <3> QED
      BY <2>1, <3>1, <1>1, FirstFaultDetected
  <2>2. CASE faults # << >>
    <3>1. Len(faults') = Len(faults) + 1 /\ Len(faults) \in Nat /\ Len(faults) # 0
      BY <2>2, <1>4, <1>6, <1>7
    <3> QED
      BY <3>1 DEF SingleFaultDetected
  <2> QED
    BY <2>1, <2>2
<1> QED
  BY <1>8, <1>9, <1>10 DEF IInv

LEMMA InitIInv == Init => IInv
<1> SUFFICES ASSUME Init PROVE IInv
  OBVIOUS
<1>1. DOMAIN committed = 1..0 /\ 0 \in Nat
  BY DEF Init
<1>2. History
  BY <1>1 DEF History
<1>3. Anchored /\ Damaged
  BY DEF Init, Anchored, Damaged
<1>4. SingleFaultDetected
  <2>1. Len(faults) # 1
    BY DEF Init
  <2> QED
    BY <2>1 DEF SingleFaultDetected
<1> QED
  BY <1>2, <1>3, <1>4 DEF IInv

LEMMA NextIInv == IInv /\ [Next]_vars => IInv'
<1> SUFFICES ASSUME IInv, [Next]_vars PROVE IInv'
  OBVIOUS
<1>1. CASE UNCHANGED vars
  BY <1>1 DEF vars, IInv, History, Anchored, Damaged, SingleFaultDetected, Written
<1>2. CASE Next
  BY <1>2, AppendKeeps, AnchorKeeps, FaultKeeps DEF Next
<1> QED
  BY <1>1, <1>2

\* The history is a chain that no fault touches, and the anchor is a row of it.
THEOREM Invariance == Spec => []IInv
  BY InitIInv, NextIInv, PTL DEF Spec

(***************************************************************************)
(* verify_chain detects every single fault of the file but three: a        *)
(* receipt body that changes under its embedded hash, the loss of the last *)
(* row, and a hash recomputed over unchanged columns.                      *)
(***************************************************************************)
THEOREM EverySingleFaultIsDetected == Spec => []SingleFaultDetected
<1>1. IInv => SingleFaultDetected
  BY DEF IInv
<1> QED
  BY <1>1, Invariance, PTL

-----------------------------------------------------------------------------
(***************************************************************************)
(* The anchor.  The signers are those whose answer the entry hash covers   *)
(* (the others make a chain that verify_chain refuses from the start).     *)
(***************************************************************************)
SignersConsistent == \A r \in Requests : HashedMeta(r.signer) = r.signer.ret

HistoryVerifies ==
  \A s \in DOMAIN committed : committed[s].hash = ComputeEntryHash(committed[s], committed[s].meta)

LEMMA NextVerifies ==
  ASSUME SignersConsistent
  PROVE  IInv /\ HistoryVerifies /\ [Next]_vars => HistoryVerifies'
<1> SUFFICES ASSUME IInv, HistoryVerifies, [Next]_vars PROVE HistoryVerifies'
  OBVIOUS
<1>1. CASE committed' = committed
  BY <1>1 DEF HistoryVerifies
<1>2. ASSUME NEW r \in Requests, AppendEntry(r) PROVE HistoryVerifies'
  <2> DEFINE e == NewRow(r, DurableHead(rows))
  <2>1. rows = committed /\ committed' = WithRow(committed, e)
    BY <1>2 DEF AppendEntry, IInv, Damaged
  <2>2. e.hash = ComputeEntryHash(e, e.meta)
    BY NewRowColumns DEF SignersConsistent
  <2> HIDE DEF e
  <2> QED
    BY <2>1, <2>2 DEF HistoryVerifies, WithRow
<1> QED
  BY <1>1, <1>2 DEF Next, AnchorHead, StorageFault, DamageColumn, DamageReceiptBody, LoseRow,
     SwapRows, Rehash, Fault, vars

\* Two rows with one hash, both verified, are equal in all that is protected.
LEMMA SameHashSameRow ==
  ASSUME NEW e, NEW f, e.hash = f.hash,
         e.hash = ComputeEntryHash(e, e.meta), f.hash = ComputeEntryHash(f, f.meta),
         e.env_hash = H(e.env), f.env_hash = H(f.env),
         e.rec_hash = e.rec.hash, f.rec_hash = f.rec.hash
  PROVE  Protected(e) = Protected(f) /\ e.prev = f.prev
<1>1. ComputeEntryHash(e, e.meta) = ComputeEntryHash(f, f.meta)
  OBVIOUS
<1>2. /\ e.ledger = f.ledger /\ e.seq = f.seq /\ e.gen = f.gen /\ e.rid = f.rid
      /\ e.key = f.key /\ e.req = f.req /\ e.env_hash = f.env_hash
      /\ e.rec_hash = f.rec_hash /\ e.disp = f.disp /\ e.prev = f.prev /\ e.meta = f.meta
  BY <1>1, HashFixesColumns
<1>3. e.env = f.env
  BY <1>2 DEF H
<1> QED
  BY <1>2, <1>3 DEF Protected

\* Under a verified anchor the head of the file is the row that was anchored.
LEMMA VerifiedHead ==
  ASSUME IInv, AnchorStatus = "VERIFIED"
  PROVE  \E k \in DOMAIN committed :
           /\ anchor.head.seq = k
           /\ k \in DOMAIN rows
           /\ rows[k].hash = committed[k].hash
           /\ \A s \in DOMAIN rows : s <= k
<1>1. anchor # None /\ DOMAIN rows # {} /\ AnchorPayload(rows) = anchor
  BY DEF AnchorStatus
<1>2. PICK k \in DOMAIN committed :
        anchor = [ledger |-> committed[k].ledger,
                  head |-> [seq |-> k, gen |-> committed[k].gen, hash |-> committed[k].hash]]
  BY <1>1 DEF IInv, Anchored
<1>3. PICK n \in Nat : DOMAIN committed = 1..n
  BY DEF IInv, History
<1>4. DOMAIN rows \subseteq 1..n
  BY <1>3 DEF IInv, Damaged
<1>5. PICK m : m = Max(DOMAIN rows)
  OBVIOUS
<1>6. m \in DOMAIN rows /\ \A s \in DOMAIN rows : s <= m
  BY <1>1, <1>4, <1>5, MaxOfBounded
<1>7. DurableHead(rows) = [seq |-> m, gen |-> rows[m].gen, hash |-> rows[m].hash]
  BY <1>1, <1>5 DEF DurableHead
<1>8. AnchorPayload(rows).head = DurableHead(rows)
  BY DEF AnchorPayload
<1>9. anchor.head = [seq |-> k, gen |-> committed[k].gen, hash |-> committed[k].hash]
  BY <1>2
<1>10. [seq |-> m, gen |-> rows[m].gen, hash |-> rows[m].hash]
         = [seq |-> k, gen |-> committed[k].gen, hash |-> committed[k].hash]
  BY <1>1, <1>7, <1>8, <1>9
<1>11. m = k /\ rows[m].hash = committed[k].hash
  BY <1>10
<1>12. anchor.head.seq = k
  BY <1>9
<1> QED
  BY <1>6, <1>11, <1>12

(***************************************************************************)
(* From the anchored head down, a valid chain has the hashes of the        *)
(* history: the hash of a row fixes its link to the row below.             *)
(***************************************************************************)
LEMMA HashesAgree ==
  ASSUME IInv, HistoryVerifies, ChainValid(rows, AnyLedger),
         NEW n \in Nat, DOMAIN committed = 1..n, \A s \in 1..n : Written(committed, s),
         NEW k \in 1..n, k \in DOMAIN rows, rows[k].hash = committed[k].hash,
         NEW j \in 1..k
  PROVE  j \in DOMAIN rows /\ rows[j].hash = committed[j].hash
<1> DEFINE B == {i \in 1..k : ~ (i \in DOMAIN rows /\ rows[i].hash = committed[i].hash)}
<1> SUFFICES ASSUME B # {} PROVE FALSE
  OBVIOUS
<1>1. B \subseteq 0..k
  OBVIOUS
<1>2. PICK b \in B : \A i \in B : i <= b
  <2>1. k \in Nat
    OBVIOUS
  <2> HIDE DEF B
  <2> QED
    BY <1>1, <2>1, GreatestElement
<1>3. b \in 1..k /\ b # k
  BY <1>2
<1>4. b + 1 \in 1..k /\ b + 1 \notin B /\ b + 1 # 1 /\ (b + 1) - 1 = b
  BY <1>2, <1>3
<1> DEFINE c == b + 1
<1>5. c \in DOMAIN rows /\ rows[c].hash = committed[c].hash /\ c \in 1..n
  BY <1>4
<1>6. /\ b \in DOMAIN rows /\ rows[c].prev = rows[b].hash
      /\ rows[c].env_hash = H(rows[c].env) /\ rows[c].rec_hash = rows[c].rec.hash
      /\ rows[c].hash = ComputeEntryHash(rows[c], rows[c].meta)
  BY <1>4, <1>5, ValidRow
<1>7. /\ committed[c].env_hash = H(committed[c].env)
      /\ committed[c].rec_hash = committed[c].rec.hash
      /\ committed[c].prev = committed[b].hash
      /\ committed[c].hash = ComputeEntryHash(committed[c], committed[c].meta)
  <2>1. Written(committed, c)
    BY <1>5
  <2>2. committed[c].prev = committed[b].hash
    BY <1>4, <2>1 DEF Written
  <2> QED
    BY <1>5, <2>1, <2>2, WrittenColumns DEF HistoryVerifies
<1> HIDE DEF c
<1>8. rows[c].prev = committed[c].prev
  BY <1>5, <1>6, <1>7, SameHashSameRow
<1> QED
  BY <1>2, <1>6, <1>7, <1>8

(***************************************************************************)
(* A valid chain under a verified anchor (verify_chain and                 *)
(* verify_external_anchor) is the history up to the anchor, after any      *)
(* number of faults, repairs that recompute hashes among them.             *)
(***************************************************************************)
THEOREM VerifiedAnchorIsTheHistory ==
  ASSUME SignersConsistent
  PROVE  Spec => []AnchoredHistoryIsAuthentic
<1>1. IInv /\ HistoryVerifies => AnchoredHistoryIsAuthentic
  <2> SUFFICES ASSUME IInv, HistoryVerifies, ChainValid(rows, AnyLedger), AnchorStatus = "VERIFIED"
               PROVE  /\ DOMAIN rows = 1..anchor.head.seq
                      /\ \A s \in DOMAIN rows : Protected(rows[s]) = Protected(committed[s])
    BY DEF AnchoredHistoryIsAuthentic
  <2>1. PICK n \in Nat : DOMAIN committed = 1..n /\ \A s \in 1..n : Written(committed, s)
    BY DEF IInv, History
  <2>2. PICK k \in 1..n : /\ anchor.head.seq = k /\ k \in DOMAIN rows
                          /\ rows[k].hash = committed[k].hash
                          /\ \A s \in DOMAIN rows : s <= k
    BY <2>1, VerifiedHead
  <2>3. \A j \in 1..k : j \in DOMAIN rows /\ rows[j].hash = committed[j].hash
    BY <2>1, <2>2, HashesAgree
  <2>4. DOMAIN rows \subseteq 1..n
    BY <2>1 DEF IInv, Damaged
  <2>5. DOMAIN rows = 1..k
    <3>1. ASSUME NEW s \in DOMAIN rows PROVE s \in 1..k
      <4>1. s \in 1..n /\ s <= k
        BY <2>2, <2>4
      <4> QED
        BY <4>1
    <3> QED
      BY <2>3, <3>1
  <2>6. ASSUME NEW s \in DOMAIN rows PROVE Protected(rows[s]) = Protected(committed[s])
    <3>1. rows[s].hash = committed[s].hash /\ s \in 1..n
      BY <2>3, <2>5
    <3>2. /\ rows[s].env_hash = H(rows[s].env) /\ rows[s].rec_hash = rows[s].rec.hash
          /\ rows[s].hash = ComputeEntryHash(rows[s], rows[s].meta)
      BY ValidRow
    <3>3. /\ committed[s].env_hash = H(committed[s].env)
          /\ committed[s].rec_hash = committed[s].rec.hash
          /\ committed[s].hash = ComputeEntryHash(committed[s], committed[s].meta)
      BY <2>1, <3>1, WrittenColumns DEF HistoryVerifies
    <3> QED
      BY <3>1, <3>2, <3>3, SameHashSameRow
  <2> QED
    BY <2>2, <2>5, <2>6
<1>2. Init => HistoryVerifies
  BY DEF Init, HistoryVerifies
<1>3. IInv /\ HistoryVerifies /\ [Next]_vars => HistoryVerifies'
  BY NextVerifies
<1> QED
  BY <1>1, <1>2, <1>3, Invariance, PTL DEF Spec

=============================================================================

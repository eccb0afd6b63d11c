----------------------------- MODULE LedgerAudit -----------------------------
(***************************************************************************)
(* What verify_chain and verify_external_anchor of product/ledger.py can   *)
(* tell about a ledger file that was damaged behind the library's back     *)
(* (the triggers only stop UPDATE and DELETE statements).  The ledger is   *)
(* filled by appends, an external party may anchor its head, and then at   *)
(* most MaxFaults storage faults hit the file: a column takes another      *)
(* value, a row is lost, two rows trade places, or a well-meaning repair   *)
(* recomputes the hash of a row.                                           *)
(***************************************************************************)
EXTENDS LedgerOps, Sequences

CONSTANTS
  Requests,   \* the requests that were appended
  MaxRows,    \* bound: rows in the table
  MaxFaults,  \* bound: storage faults
  None        \* no anchor

ASSUME AuditBounds == MaxRows \in Nat /\ MaxFaults \in Nat

(***************************************************************************)
(* What append_or_replay has parsed: envelope and receipt are readable,    *)
(* and a receipt has a body, a disposition and the hash it carries.        *)
(***************************************************************************)
ASSUME AuditRequests ==
  \A r \in Requests :
    /\ r.env # Unparsable /\ r.rec.body # Unparsable
    /\ r.rec = [body |-> r.rec.body, disp |-> r.rec.disp, hash |-> r.rec.hash]

VARIABLES
  rows,       \* the table in the file
  committed,  \* history: the table as it was committed
  anchor,     \* the head an external verifier vouches for, or None
  faults      \* history: the storage faults so far

vars == <<rows, committed, anchor, faults>>

Init ==
  /\ rows = [s \in {} |-> None]
  /\ committed = [s \in {} |-> None]
  /\ anchor = None
  /\ faults = << >>

\* The effect of append_or_replay on the undamaged ledger.
AppendEntry(r) ==
  LET e == NewRow(r, DurableHead(rows))
  IN  /\ faults = << >>
      /\ Cardinality(DOMAIN rows) < MaxRows
      /\ ~ ViolatesUnique(rows, e)
      /\ rows' = WithRow(rows, e)
      /\ committed' = rows'
      /\ UNCHANGED <<anchor, faults>>

\* What is anchored of a ledger: its id and its durable head.
AnchorPayload(t) == [ledger |-> t[DurableHead(t).seq].ledger, head |-> DurableHead(t)]

\* The external party signs the durable head of the undamaged ledger.
AnchorHead ==
  /\ faults = << >>
  /\ DOMAIN rows # {}
  /\ anchor' = AnchorPayload(rows)
  /\ UNCHANGED <<rows, committed, faults>>

-----------------------------------------------------------------------------
Fault(kind, s) ==
  /\ Len(faults) < MaxFaults
  /\ faults' = Append(faults, [kind |-> kind, seq |-> s])
  /\ UNCHANGED <<committed, anchor>>

(***************************************************************************)
(* The values a damaged column of row e can take, for the columns the      *)
(* entry hash covers, directly or through the hash of a payload.           *)
(***************************************************************************)
Damage(e) ==
  LET columns == [ledger |-> {"damaged"}, rid |-> {"damaged"}, key |-> {"damaged"},
                  req |-> {"damaged"}, disp |-> {"damaged"}, meta |-> {"damaged"},
                  gen |-> 0..(MaxRows + 1),
                  env |-> {"damaged", Unparsable},
                  rec |-> {[e.rec EXCEPT !.hash = H("damaged")],
                           [e.rec EXCEPT !.body = Unparsable]},
                  env_hash |-> {H("damaged")}, rec_hash |-> {H("damaged")},
                  prev |-> {H(<<"damaged">>)}, hash |-> {H(<<"damaged">>)}]
  IN  UNION {{[e EXCEPT ![c] = v] : v \in columns[c] \ {e[c]}} : c \in DOMAIN columns}

DamageColumn(s) ==
  /\ \E e \in Damage(rows[s]) : rows' = [rows EXCEPT ![s] = e]
  /\ Fault("column", s)

\* The receipt's body changes, its embedded receipt_hash does not.
DamageReceiptBody(s) ==
  /\ rows' = [rows EXCEPT ![s].rec.body = "damaged"]
  /\ Fault("receipt_body", s)

LoseRow(s) ==
  /\ rows' = [t \in DOMAIN rows \ {s} |-> rows[t]]
  /\ Fault("lost", s)

SwapRows(s, t) ==
  /\ s < t
  /\ rows' = [rows EXCEPT ![s] = [rows[t] EXCEPT !.seq = s],
                          ![t] = [rows[s] EXCEPT !.seq = t]]
  /\ Fault("swapped", s)

\* A repair recomputes the payload hashes and the entry hash of a row.
Rehash(s) ==
  LET e == [rows[s] EXCEPT !.env_hash = H(rows[s].env), !.rec_hash = rows[s].rec.hash]
  IN  /\ rows' = [rows EXCEPT ![s] = [e EXCEPT !.hash = ComputeEntryHash(e, e.meta)]]
      /\ Fault("rehashed", s)

StorageFault ==
  \E s \in DOMAIN rows :
    \/ DamageColumn(s)
    \/ DamageReceiptBody(s)
    \/ LoseRow(s)
    \/ \E t \in DOMAIN rows : SwapRows(s, t)
    \/ Rehash(s)

Next ==
  \/ \E r \in Requests : AppendEntry(r)
  \/ AnchorHead
  \/ StorageFault

Spec == Init /\ [][Next]_vars

-----------------------------------------------------------------------------
\* Mutant: the anchored payload carries the head's position, not its hash.
AnchorStatusBySequence ==
  IF anchor = None \/ DOMAIN rows = {} THEN "ANCHOR_UNAVAILABLE"
  ELSE IF DurableHead(rows).seq = anchor.head.seq THEN "VERIFIED"
  ELSE "UNVERIFIABLE"

(***************************************************************************)
(* verify_external_anchor.  The verifier (external) answers VERIFIED iff   *)
(* the payload built from the durable head is the one it anchored.         *)
(***************************************************************************)
AnchorStatus ==
  IF anchor = None \/ DOMAIN rows = {} THEN "ANCHOR_UNAVAILABLE"
  ELSE IF AnchorPayload(rows) = anchor THEN "VERIFIED"
  ELSE "UNVERIFIABLE"

\* What the hash chain protects of a row: every column but the receipt body
\* and the columns outside the entry hash.
Protected(e) ==
  <<e.ledger, e.seq, e.gen, e.rid, e.key, e.req, e.env, e.env_hash, e.rec.hash,
    e.rec_hash, e.disp, e.prev, e.hash, e.meta>>

(***************************************************************************)
(* A single fault never passes verify_chain: a damaged column, a lost row  *)
(* that is not the last, or two exchanged rows.                            *)
(***************************************************************************)
SingleFaultDetected ==
  Len(faults) = 1 =>
    \/ faults[1].kind \in {"receipt_body", "rehashed"}
    \/ faults[1].kind = "lost" /\ faults[1].seq = Cardinality(DOMAIN committed)
    \/ ~ ChainValid(rows, AnyLedger)

(***************************************************************************)
(* A valid chain under a verified anchor is the history that was committed *)
(* when the anchor was taken, however many faults conspired: truncation    *)
(* below the anchor and consistently rehashed rows show up in the head.    *)
(* (A row committed after the anchor can be lost without a trace.)         *)
(***************************************************************************)
AnchoredHistoryIsAuthentic ==
  ChainValid(rows, AnyLedger) /\ AnchorStatus = "VERIFIED" =>
    /\ DOMAIN rows = 1..anchor.head.seq
    /\ \A s \in DOMAIN rows : Protected(rows[s]) = Protected(committed[s])
=============================================================================

---------------------------- MODULE AbstractLedger ----------------------------
(***************************************************************************)
(* What append_or_replay promises its callers: an idempotency key is bound *)
(* at most once, to the request, the envelope and the receipt of one call; *)
(* the n-th binding has generation n and is made only by a call that       *)
(* expected generation n - 1; every later call with the same key and       *)
(* request is answered with that very binding.  A call takes effect in one *)
(* step and is answered in another, so that the answer can be lost.        *)
(***************************************************************************)
EXTENDS Naturals, Sequences

CONSTANTS
  Procs,     \* the callers
  Requests,  \* the requests they make
  None       \* no request and no entry

VARIABLES
  log,   \* the bindings, in generation order
  call,  \* the request of each caller
  ans    \* the answer of each caller

vars == <<log, call, ans>>

Answer(status, entry, gen) == [status |-> status, entry |-> entry, gen |-> gen]

Pending == Answer("PENDING", None, 0)
Bound   == Answer("BOUND", None, 0)
Silent  == Answer("NONE", None, 0)

Binding(r, g) == [gen |-> g, key |-> r.key, req |-> r.req, rid |-> r.rid,
                  env |-> r.env, rec |-> r.rec]

KeyFree(r) == \A i \in DOMAIN log : log[i].key # r.key

RequestIdFree(r) == \A i \in DOMAIN log : log[i].rid # r.rid

Init ==
  /\ log = << >>
  /\ call = [p \in Procs |-> None]
  /\ ans = [p \in Procs |-> Silent]

Reply(p, a) == ans' = [ans EXCEPT ![p] = a]

Invoke(p, r) ==
  /\ ans[p] \notin {Pending, Bound}
  /\ call' = [call EXCEPT ![p] = r]
  /\ Reply(p, Pending)
  /\ UNCHANGED log

\* The only step that changes the log.
Bind(p) ==
  /\ ans[p] = Pending
  /\ KeyFree(call[p])
  /\ RequestIdFree(call[p])
  /\ call[p].exp = Len(log)
  /\ log' = Append(log, Binding(call[p], Len(log) + 1))
  /\ Reply(p, Bound)
  /\ UNCHANGED call

\* The binding's caller is answered, or gets an exception instead.
Acknowledge(p) ==
  /\ ans[p] = Bound
  /\ \/ \E i \in DOMAIN log :
          /\ log[i].key = call[p].key
          /\ log[i] = Binding(call[p], i)
          /\ Reply(p, Answer("APPENDED", log[i], i))
     \/ \E status \in {"UNKNOWN_EFFECT", "RAISED"} : Reply(p, Answer(status, None, 0))
  /\ UNCHANGED <<log, call>>

Replay(p) ==
  /\ ans[p] = Pending
  /\ \E i \in DOMAIN log :
       /\ log[i].key = call[p].key
       /\ log[i].req = call[p].req
       /\ Reply(p, Answer("REPLAYED", log[i], i))
  /\ UNCHANGED <<log, call>>

Conflict(p) ==
  /\ ans[p] = Pending
  /\ \/ \E i \in DOMAIN log :
          /\ log[i].key = call[p].key
          /\ log[i].req # call[p].req
          /\ Reply(p, Answer("IDEMPOTENCY_CONFLICT", None, i))
     \/ /\ KeyFree(call[p])
        /\ ~ RequestIdFree(call[p])
        /\ Reply(p, Answer("IDEMPOTENCY_CONFLICT", None, 0))
  /\ UNCHANGED <<log, call>>

Stale(p) ==
  /\ ans[p] = Pending
  /\ KeyFree(call[p])
  /\ RequestIdFree(call[p])
  /\ call[p].exp # Len(log)
  /\ Reply(p, Answer("STALE_GENERATION", None, Len(log)))
  /\ UNCHANGED <<log, call>>

\* Contention or an error: the call had no effect.
Fail(p) ==
  /\ ans[p] = Pending
  /\ \E status \in {"BUSY_RETRY_EXHAUSTED", "RAISED"} :
       Reply(p, Answer(status, None, 0))
  /\ UNCHANGED <<log, call>>

\* The caller dies, before or after its effect.
Vanish(p) ==
  /\ ans[p] \in {Pending, Bound}
  /\ Reply(p, Silent)
  /\ UNCHANGED <<log, call>>

Next ==
  \E p \in Procs :
    \/ \E r \in Requests : Invoke(p, r)
    \/ Bind(p)
    \/ Acknowledge(p)
    \/ Replay(p)
    \/ Conflict(p)
    \/ Stale(p)
    \/ Fail(p)
    \/ Vanish(p)

Spec == Init /\ [][Next]_vars
=============================================================================

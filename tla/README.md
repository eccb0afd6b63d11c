# TLA+ verification of the Nexus certification core and its agent dispatch

Nexus Core V1 certifies pull requests: a loopback HTTP service acquires a pull
request, runs its verification plan in a container, certifies the result and
commits envelope and receipt to an append-only, hash-chained SQLite ledger. Around
it, agent runs write to shared source trees and to shared provider accounts, from
many processes that may be killed at any time. This project models the parts whose
correctness the rest relies on and that tests hardly reach:

* the certification ledger and the service that feeds it (`product/`);
* the file lock registry and its two kinds of writer;
* the leases on the provider accounts;
* the journal of a background operation.

TLC checks the models on small instances; TLAPS proves every safety property the
passing runs check for all values of the constants.

Run from this directory:

    tlc -workers 2 -config MCLedger.cfg MCLedger     # any run of the table below
    tlapm LedgerOpsProofs.tla                        # the proofs, one module each:
    tlapm LedgerProofs.tla
    tlapm LedgerRefinementProofs.tla
    tlapm LedgerAuditProofs.tla
    tlapm CertificationServiceProofs.tla
    tlapm FileLocksProofs.tla
    tlapm AccountLeasesProofs.tla
    tlapm OperationJournalProofs.tla

`PROJECT.json` lists components, runs, the definition-to-source map, a mutant for
every property, the findings, the hazards and the theorems.

## Inventory

| Component | State it keeps | Operations | What makes it correct |
|---|---|---|---|
| Ledger, `product/ledger.py` | one SQLite table: sequence, generation, idempotency key, request id, payload bytes and hashes, previous and own hash, signature | `append_or_replay`, `get_by_request_id`, `verify_chain`, `verify_external_anchor` | a key is bound once; the generation check and the lookups still hold at the write; rows never change; the chain always verifies; an answer is durable and tells what happened |
| Service, `product/runtime/service.py` | in memory: `_in_flight`, `_by_idempotency`, `_admission_stopped`, the event loop's tasks | `submit_certification`, `_execute_pipeline`, `get_status`, `get_receipt`, `verify_receipt`, `drain` | reports a certification only when the ledger binds its request; one job per key; results are final; every job settles; no second run of a certified request |
| Lifecycle, `product/runtime/http.py` | the listening site | `start_runtime`, `stop_runtime`, `create_app` | starts only on a ledger that verifies; drains before it stops |
| File locks, `nexus/orchestrator/file_lock_registry.py`, `nexus/services/post_candidate_seam.py`, the `file_lock` capability | a JSON file under `flock`, a cached copy per process | `acquire_detailed`, `release`, `release_files`, `hold_target_lock`, `sweep_dead_seam_locks`, `release_task_locks` | two holders only by age; a nested lock keeps the outer one; a lock is freed by its holder or after its death; a swept seam never refuses a live one |
| Account leases, `nexus/services/agy_account_pool.py`, `scripts/ops/nexus-agy-dispatch` | per account a lock file and a receipt | `acquire_claim`, `mark_worker_run`, `mark_worker_unclean`, `release`, `abandon`, orphan reclaim, deferred reap, `reconcile_claim_receipt` | one run per account through crashes and failovers; a receipt names every run that is not lost; orphaned accounts come back |
| Operation journal, `nexus/services/direct_operation_journal.py`, `agy_operation_journal.py`, `scripts/ops/nexus-agy-dispatch` | `operation.json` under `flock`, the account receipts, the processes | spawn, heartbeat, sweep markers, supervisor guard, `reconcile`, finalize without effect, acknowledge an unclean sweep | a permitted retry means that the first run is over; a receipt outlives its provider; a dead wrapper's operation settles |
| Pool queue tickets, `_PoolQueueTicket` in `nexus-agy-dispatch` | ticket files ordered by arrival | enqueue, head test, reap of dead tickets | waiting dispatchers are served in order |
| Kernel, `product/kernel`, `verification`, `certification` | none | `reduce_verification`, `certify_result`, `certify` | the disposition is the intended function of the evidence |
| Receipts and evidence, `product/certification/receipt.py`, `product/evidence` | none | build and validate hashed records | a receipt names exactly its inputs |
| Runner, acquisition | external (container, GitHub) | `PythonOCIRunner`, `acquire_github_pull_request` | stale or failing sources are refused |
| Clients, adapters, benchmarks, protocol gate | none | I/O and translation | - |
| Distributed lock, `nexus/infrastructure/dist_lock.py` | a Redis key with expiry, or a local `flock` | `acquire`, `release` | one holder at a time; only the holder releases |
| Credit ledger, `nexus/market/credit_ledger.py` | account balances and a transaction log in SQLite | `check_balance`, `transact` | no overdraft; credits are conserved up to the fee |
| Queue consumer, event log, task service, worktrees, gateway, grants | files, git worktrees | see `PROJECT.json` | see `PROJECT.json` |

How they interact. The HTTP handlers call the service; the service looks the ledger
up itself (two read-only queries whose errors are swallowed) and appends through
`append_or_replay`; several processes may share the ledger file, and only SQLite's
write lock orders them. A dispatcher claims an account, starts a provider on it,
and gives the claim back or leaves a receipt for the next claimer; in the
background it runs as a *wrapper* that keeps a journal record, which operators
reconcile after a crash, and whose reconciliation may remove the account's receipt.
A task holds its target file through the registry while it works, and the candidate
seam takes the same file again around each write.

What is hard: the interleaving of processes on a file, a death or an exception
between two statements, decisions made from a record read some steps earlier,
contention and retries, answers lost after the commit, storage damage, processes
that outlive the one that started them, and memory and disk saying different things
after a restart. The `hazards` of `PROJECT.json` list these at their lines, with the
properties aimed at each.

The repository holds some 620 000 lines of Python, most of them benchmarks,
operational scripts, archived experiments and tests' fixtures. The models cover a
small share of that; they were chosen for shared state under concurrency and
failure, not for size.

## Modules

    LedgerOps        <- LedgerOpsProofs    (lemmas on rows, heads and hashes)
    Ledger           (LedgerOps)           <- LedgerProofs (LedgerOpsProofs)
                                           <- LedgerRefinementProofs, MCLedger
    LedgerAudit      (LedgerOps)           <- LedgerAuditProofs (LedgerOpsProofs), MCLedgerAudit
    CertificationService (AbstractLedger)  <- CertificationServiceProofs, MCCertificationService
    FileLocks                              <- FileLocksProofs, MCFileLocks
    AccountLeases                          <- AccountLeasesProofs, MCAccountLeases
    OperationJournal                       <- OperationJournalProofs, MCOperationJournal

`A <- B` reads "B extends A"; in parentheses, what a module is built on. Ledger
refines AbstractLedger, and the service uses it by INSTANCE.

### Certification

* **LedgerOps**: rows and the pure functions on them: the entry hash, the new row,
  lookups, UNIQUE constraints, `verify_chain`. The table is a function from the
  stored sequence numbers to rows. Hashes are free terms (no collisions). One
  column `disp` stands for the three columns copied from the request and covered
  by the hash; a receipt is its body and the `receipt_hash` embedded in it, since
  that difference matters to `verify_chain`.
* **AbstractLedger**: what `append_or_replay` promises: a log of bindings, one
  atomic `Bind` per key, an answer that may be lost after it.
* **Ledger**: `append_or_replay` statement by statement. `pc` is the place in the
  loop: `open` (`_connect_ledger`), `begin` (`BEGIN IMMEDIATE`), `lookup`, `head`
  (head and generation check), `sign`, `insert`, `commit`, `respond`. `writer` is
  SQLite's write lock, `pending` the uncommitted row, `rows` the committed table.
  `DatabaseError` is the `OperationalError` handler (roll back, then retry or
  raise), `Abort` every other exception before `COMMIT`, `Crash` the death of the
  process anywhere. After `COMMIT` the call answers, or raises
  `UnknownEffectError` (the failpoint), or another error (`_secure_sidecars`).
  `commits` is a history variable.
* **LedgerAudit**: appends, an external anchor on the head, then storage faults
  (a changed column, a lost row, exchanged rows, a changed receipt body, a row
  rehashed by a repair); `verify_chain` and `verify_external_anchor` judge.
* **CertificationService**: services sharing a ledger, which is AbstractLedger (so
  that the composition rests on what is proved of Ledger). A service is an asyncio
  loop: handlers and pipelines contain no `await` that suspends, so `running`
  occupies the loop from `RunTask` to `PipelineEnds`, and `ready` is the loop's
  FIFO queue, in which drain's timer takes its place. `Unreadable` says whether
  the service's own lookups may raise (they then read as "no entry" and
  "generation 0"). `Forget` is the loss of memory at a stop or crash. `Without` takes
  the timer and the cancelled tasks out of the loop's queue; it is defined by counting
  rather than by recursion, so that it can be reasoned about.

### File locks

**FileLocks**. The registry file is `locks`, `acquiredAt` and `disk` (an unreadable
file counts as empty and the next save overwrites it). Each registry operation runs
under one `flock` and is one step; `ReadClock` is separate, because
`acquire_detailed` reads the time before it waits for that `flock`. An actor is a
process with its task: a plain task takes its target through the `file_lock`
capability (`BeginTask`, `AcquireOuter`, `EndTask` = `release_task_locks`); a seam
also sweeps dead holders first (`BeginOuter`, `BeginInner`, `SweepOne`; an error ends the
sweep early and is swallowed, `SweepFails`) and takes
target and companions around a write (`AcquireInner`, `EndWrite` =
`release_files(newly_acquired)`), possibly under its own outer lock. `Die` is a
kill, `Corrupt` the registry file becoming unreadable, `Tick` the clock. Three
observer variables record when a lock was granted and who was dead when a sweep
began. A file is its canonical key (path normalisation is left out), and pids are
not reused.

### Account leases

**AccountLeases**. Per account `lock` is the holder of its `flock` (a provider
inherits the descriptor of a direct dispatcher, so the lock may outlive it), `owner`
and `receipt` the receipt on disk (`none`, `torn`, `plain`, `worker`, `unclean`);
per dispatcher `run` says what of its run exists on an account. `Claim`,
`NothingFree`, `Reap`, `ReapSkipped`, `WaitForAccount` and `GiveUp` are the passes of
`acquire_claim`, with what it collects under the allocation lock and acts on after
it (`deferred`); `WriteReceipt` is a step of its own because a kill before it leaves
the lock without a receipt, and in its middle a torn one. `MarkRun`, `Launch`,
`AttemptEnds`, `AttemptUnclean`, `Failover` and `Finish` are a run; `HcomEnds` the
collaboration path; `Reconcile` is `reconcile_claim_receipt`; `Die` is SIGKILL.

Between `Launch` (Popen) and `NoteProvider` (the hook that sets `active_provider_pid`,
or the assignment of hcom's child) the dispatcher does not know its provider. A signal
or a failing `after_launch` there is `LaunchInterrupted`: nothing is stopped, and the
way out finds no provider to keep the claim for, so it releases receipt and flock under
it. Such a run is *lost*. So is what an unclean worker run leaves when its mark cannot
be written. The properties are about the runs that are not lost; a lost run goes on,
and others may claim its account.

Abstractions: health, quota and quarantine are one Boolean `usable` per account, and
the ranking of candidates is a free choice; the cache of failed reaps (60 s) only
delays a reap and is left out, as is the pool's stop switch, which only refuses new
claims. Sweeps that report CLEAN are right, except about what an earlier unclean
sweep could not see. What a direct run leaves behind outside its process group is
not counted as using the account (the code does not track it). A torn receipt keeps its account
closed until somebody removes it by hand; the code takes no other action.

### Operation journal

**OperationJournal**. One background operation. `rec` is `operation.json`; `parent`
the spawning process (`Spawn`, `BindPid`); `wrapper` and `state` the wrapper and its
state dictionary, from `Start` through the attempts (`Claim`, `Leased`, `Execute`,
`MarkPending`, `Launch`, `RecordProvider`, `AttemptEnds` or `LaunchFails`,
`RecordVerdict`, `Rotate`) to `Return` and `Complete`, or through `Abort` to the
supervisor's `Guard`. What a signal or an exception does depends on where it falls:
before the launch nothing runs, and an unarmed sweep answers clean
(`AbortBeforeLaunch`); in the launch window, from Popen to PROVIDER_RUNNING, nothing is
stopped, the sweep may still be unarmed and the pid is not known, so that the claim is
released and a clean sweep may be recorded that was never made (`AbortAtLaunch`); later
the group is stopped and swept on the way out (`AbortAttempt`, `AbortSwept`).
`snapshot` is the copy the heartbeat thread took and has still to write. `live` is
the attempt whose provider runs, `escaped` the attempts with a live descendant
outside its group, `receipts` the account receipts on disk. An operator runs
`reconcile` or the finalization, step by step: it reads (`Read`, `SuperRead`), probes
the processes (`Probe`, `SuperProbe`), and writes from what it saw; then it cleans
the lease up (`CleanupLease`, `ReportCleanup`), proves the tree unchanged (`Prove`)
and permits the retry (`Finalize`). `Ack` is the operator's word for an unclean sweep.

Abstractions: the worker-user sweep (in AccountLeases), collaboration mode, the
receipts that resolve effects later and the continuity fields are left out; whether
the tree changed is a free choice in `Prove`; the guard's read and write are one
step; the acknowledged attempt is stored plus one, so that 0 means none; an
operator's view is forgotten when no later step uses it; the status CANCELLED is
never written by this code. Two history variables tell what the code does not prevent:
`early`, a command came before the wrapper's pid was recorded, and `unswept`, a launched
attempt was recorded clean without a sweep. RetryMeansGone excepts the first, and for
descendants the second. `EarlyCommands` is a bound of the runs: whether such commands
are explored at all (the proofs cover both).

External parts, modelled from how the code uses them: SQLite (atomic durable commit,
one writer, rollback on close or death), the signer and the anchor verifier, the
asyncio timer, `flock` and the inheritance of descriptors, providers and their
descendants, the death of a process, damage to files.

## Runs

| Run | Bounds | States | Result |
|---|---|---|---|
| `ledger` | 2 processes, 6 requests over 2 keys, 2 attempts | ~100 000 | 5 invariants, `AppendOnly`, `CallReturns`, refinement of AbstractLedger |
| `audit` | 3 rows, 2 faults, anchor at any point | ~119 000 | single faults are detected; an anchored valid chain is authentic |
| `service_pair` | 2 services, 2 job ids, 3 requests, lookups may fail | ~100 000 | reported results are bound; one job per key; results final; drain settles; jobs settle |
| `service_single` | 1 service, 4 job ids, 5 requests, lookups succeed | ~20 000 | receipts are the stored ones; a reported status survives restarts; no second run |
| `file_locks` | 2 seams, 1 plain task, 2 files, clock to 3 | ~628 000 | `NoTwoHolders`, `OuterLockKept`, `OnlyHolderFrees`, `DeadSeamsNeverRefuse` |
| `leases` | a direct, a worker and a collaboration dispatcher, 2 accounts | ~446 000 | `OneRunPerAccount`, `EvidenceBeforeEffect`, `UncleanRunKeepsAccount` |
| `leases_recovery` | a direct and a worker dispatcher, 2 accounts | ~20 000 | `OrphansComeBack` |
| `journal` | 1 operator who comes back any number of times, 2 attempts, commands after the pid is recorded | ~1 730 000 | `RetryMeansGone`, `AccountFreedAfterProvider`, `OperationsSettle` |
| `silent_signer`, `replay_receipt`, `write_lock`, `journal_survivor` | as small as shows it | - | each finds the violation described below |

Why the bounds are enough. *Ledger*: two processes are all it takes for a race on one
write lock; the six requests include a replay under a new request id, a key reused
with another request, a request id reused under another key, and generations that
are current or stale depending on the order; two attempts exercise a retry and
exhaustion (the code's bound is 5, and the proofs hold for any). *Service*: a key
comes back unchanged, with another body and with another generation; job ids bound
how often a request can be accepted over all restarts. *Audit*: two faults suffice to
combine damage with a repair that hides it from the row's own hash. *File locks*: two
seams and a task give a holder, a taker and a dead one at once; the clock passes the
TTL and goes on. *Leases*: the three kinds of dispatcher differ in what proves their
runs gone, and each may be killed anywhere; two accounts allow a failover and a
return. *Journal*: two attempts give a rotation and an older claim, pid and verdict
that a late heartbeat can write back. The proofs remove these bounds. No symmetry is
used, because liveness or refinement is checked with the invariants, or because the
actors differ.

`CHECK_DEADLOCK FALSE` is set for `audit`, whose history ends when the fault budget
is spent, and for `file_locks`, `leases`, `leases_recovery` and `journal` with their
variants, whose processes end or are killed, after which nothing need happen.

Fairness.

* `Ledger!FairSpec`: weak fairness of each process's own steps: the busy timeout
  bounds every wait for SQLite, and the signer is assumed to answer. Errors, aborts
  and crashes are not fair.
* `CertificationService!FairSpec`: weak fairness of a running service's own work;
  acquisition, runner and append are assumed to return or raise. Requests, starts,
  drains, the timer and crashes are not fair.
* `AccountLeases!FairSpec`: the steps of the allocation loop, which sleeps and tries
  again, are weakly fair, and every run ends. Claims and reaps are strongly fair: an
  unlink or a sweep that could succeed does not fail every time. Deaths, give-ups
  (the caller's deadline) and the recovery of accounts are not fair.
* `OperationJournal!FairSpec`: somebody keeps reconciling an open operation (the
  doctor reports it and asks for exactly that) and a command runs to its end; a
  provider ends, since it is started with `--print-timeout`. Nothing is assumed of
  the wrapper, its heartbeat, descendants or kills.

## Proofs

All are safety proofs by an inductive invariant, with one lemma per action or group
of actions, and hold for all values of the constants that satisfy the `ASSUME` of
the component's module, unless said otherwise.

**LedgerProofs**: for any sets of processes and requests and any attempt bound,
`Spec => []IInv`, and from it TypeOK, ChecksHoldAtWrite, OutcomeMatchesEffect,
AnswersAreDurable, AppendOnly, and (under SignersConsistent) ChainVerifies. None of
the properties is inductive. ChecksHoldAtWrite speaks of the last steps of a
transaction; that it survives other processes' steps needs **LockInv** (a process is
in a transaction iff it holds the write lock, so nobody else can commit) and
**TransactionInv** (what lookup and head check established, step by step). That a
commit extends the table properly needs **TableInv** (the sequence numbers are 1..n,
generation equals sequence, each row is linked to the one before, keys and request
ids are unique). Durable answers need **AnswerInv** (a committed or answered call has
a stored row) with **CommitsInv** (nothing is committed before `respond`).
**PayloadInv** carries the hashes that ChainVerifies needs: each entry hash covers
the metadata of *some* signer; only SignersConsistent makes it the stored metadata.
That assumption excludes exactly the signers of the first finding. `TypeOK` includes
that a call commits at most once.

**LedgerRefinementProofs** adds **ResultInv** (the pending and answered rows carry
the caller's own request) and proves `Spec => ImplementsAbstractLedger`: `Commit` is
`Bind`, `Respond` is `Acknowledge`, `Lookup` is `Replay`, `Conflict` or a stutter,
`ReadHead` is `Stale` or a stutter, errors are `Fail` or a stutter, `Crash` is
`Vanish`.

**LedgerOpsProofs** holds what the ledger's and the audit's proofs share: least and
greatest elements of bounded sets of numbers, the head of a table, what a new row
contains, and that hashes, being free terms, determine the columns they cover.

**LedgerAuditProofs**: for any requests, row bound and fault budget, `Spec => []IInv`,
and from it SingleFaultDetected and (under SignersConsistent)
AnchoredHistoryIsAuthentic. **History** says that the table as committed is a chain
without gaps whose rows are as `append_or_replay` wrote them; no fault changes it.
**Anchored** says that the anchor is the head of some prefix of it, **Damaged** that
faults only change or lose rows. SingleFaultDetected is part of the invariant because
it compares the file with the history, and later faults must not disturb it. For the
anchor the file is compared with the history from the anchored row *down*: the anchor
fixes that row's hash; equal hashes mean equal columns, and the hash of the row before
is one of them; so no row can be the greatest that differs. The faults may include repairs that rehash a row, in any number.

**CertificationServiceProofs**: for any number of services, requests and job ids, and
whether or not lookups fail, `Spec => []IInv`, and from it TypeOK, ReportedIsBound,
OneJobPerKey, DrainSettles and ResultIsFinal. The invariant is a conjunction per
service. OneJobPerKey needs **Index** (`_by_idempotency` and `_in_flight` point at
each other). DrainSettles needs **Queue** (the queue holds the pending jobs, each
once), **Loop** (only the running job is RUNNING) and **Draining** (admission is
stopped, drain waits for all that is unsettled, and its timer is last in the queue).
ReportedIsBound needs **Calling** (the ledger call is that of the running job, and a
success is in the log); **Memory** says what a job is. A step of one service leaves the others' memory alone, and of
the shared state they rely only on what grows: the log and the ids handed out.

The service properties of `service_single` are proved under **Alone**: at most one
service, which can read its ledger. There **AloneInv** adds that a request id is in
the log at most once (**LogInv**), that a job which has not yet appended has neither
its id nor its key in the log (**Unbound**), that a successful call's entry is its own
(**Appended**), and that a settled job reports what the ledger would (**Stored**).
From these follow ReceiptsAreStored, NoSecondRun and StatusSurvivesRestart. The
hypothesis is needed: with two services, run `replay_receipt` violates
ReceiptsAreStored, and a service whose lookup failed runs a stored request again.

**FileLocksProofs** proves all five properties of the run for any actors, files, TTLs
and clock bound. `Inv` strengthens NoTwoHolders by **Granted** (what an actor was
granted it has held since, or the lock is overdue; an inner acquire takes the target
anew only when the outer lock was lost), with **NowIsPast** (an acquire judges by a
time that is not in the future, so it takes only what is overdue by the clock) and
**Control** (what the phases say about outer lock and keys). DeadSeamsNeverRefuse
needs **SweepCovers**: the locks of those who were dead before a sweep are still
ahead of it, or an error ended it.

**AccountLeasesProofs**: for any dispatchers and accounts `Spec => []LInv`, which says
of every dispatcher where its claim, lock and receipt are (**Ctl**) and of every run
what stands between it and the next claim of its account (**Guarded**): the lock for a
direct or collaboration run, the worker fields of the receipt for a worker run, the
unclean mark for what an unclean sweep left. OneRunPerAccount, EvidenceBeforeEffect
and UncleanRunKeepsAccount follow, for every run that is not lost; nothing is claimed of
the lost ones.

**OperationJournalProofs** proves TypeOK, AccountFreedAfterProvider and RetryMeansGone
for any number of operators and attempts, with or without early commands. The first two
need **Flow** (where a provider can exist at all, and when its pid is known) and **Swept**
(until its verdict is clean, a bounded attempt is durably marked pending, unless it was
recorded clean unswept). RetryMeansGone needs **JInv**, which holds until a command comes
too early: every reconciliation on disk or in an operator's view is **Honest** (what it
calls gone is gone, for good), and each step of an operator carries what it has found out
so far (**Ctl**). The argument is that "the wrapper is dead" and "nothing of the run is
left" are stable, so that a decision from an old record is still right when it is
written.

Assumptions on constants that the proofs use, besides bounds being numbers and
placeholders (`None`, `NoOne`) being no real value: the requests are those
`append_or_replay` accepts (RequestsAssumption in Ledger; in LedgerAudit
AuditRequests, envelope and receipt parse as they do when they are written), an
expected generation is a number (ServiceAssumption), collaboration dispatchers are not
workers (AccountLeasesAssumption). TLC evaluates each of them in a passing run.

Model-checked only: liveness (`CallReturns`, `AcceptedSettles`, `OrphansComeBack`,
`OperationsSettle`), since fairness is out of the prover's reach. The findings are
counterexamples, which TLC shows. Not claimed anywhere: that hashes do not collide in
fact, that SQLite and `flock` keep their promises, or that a row lost from the end of an unanchored ledger
is noticed (it is not, and the code says so).

## Findings

1. `silent_signer` (bug): a signer that announces no metadata and returns `{}`
   makes an entry hashed over `None` and stored with `{}`; `verify_chain` rejects
   the ledger from then on and `start_runtime` refuses it.
2. `replay_receipt`: a service whose append is answered REPLAYED serves its own
   receipt, not the stored one.
3. `write_lock`: a write under `run_under_target_lock` can lose its target although
   it takes less than every TTL: the inner acquire of a task that already holds the
   target keeps the age of the outer lock.
4. `journal_survivor`: a reconciliation can end an operation as OUTCOME_UNKNOWN while
   the provider of its dead wrapper still runs, if the wrapper died before it recorded
   the provider's pid or a late heartbeat wrote an older one back. A retry is still
   not permitted.

Further divergences met while modelling, for which no run is kept:

* when the signer returns other metadata than it announced, the signature covers the
  preliminary hash, not the stored entry hash;
* an error of `_secure_sidecars` after `COMMIT` is not turned into
  `UnknownEffectError`;
* `verify_chain` does not recompute receipt hashes;
* the replay of a request that ended UNVERIFIABLE is answered 202, not 200;
* the task document asks for at most three contention attempts, the code makes five
  (`MAX_CONTENTION_ATTEMPTS`);
* an unclean worker run is "always marked", but a failing mark is only logged; what the
  run left can then be overlooked by a later sweep, and its account is claimed again;
* "the provider inherits the per-account lease lock, so the account stays locked while
  any provider outlives this dispatcher" (`nexus-agy-dispatch`:2118), but a dispatcher
  that is interrupted between Popen and PROVIDER_RUNNING releases the claim
  (6363-6377, `active_provider_pid` is not set yet), and `release` unlocks the open file
  the provider has inherited (`agy_account_pool.py`:174-202);
* in the same window, before `after_launch`, `sweep` answers True ("True only when
  provably clean", `agy_dispatch_boundary.py`:244) because nothing counts as launched,
  and `_record_descendant_sweep` records the attempt clean;
* a command that comes before the wrapper's pid is recorded takes the wrapper for dead
  and may permit a retry beside it;
* `sweep_dead_seam_locks` may be ended by an error that its callers swallow; a dead
  seam's lock then refuses the seam until it is old;
* COMPLETED can be overwritten by OUTCOME_UNKNOWN when a reconciliation read RUNNING
  before the wrapper's last write. No document promises that COMPLETED is final.

## Plan

1. *(done)* LedgerOps, AbstractLedger, Ledger and its proofs, LedgerAudit,
   CertificationService.
2. *(done)* FileLocks, AccountLeases, OperationJournal and their proofs.
3. *(done)* Proofs for CertificationService and LedgerAudit, so that every safety
   property of a passing run has a theorem.
4. CreditLedger and DistLock: small modules for the race between check and spend,
   and for expiry under a holder.
5. Kernel: `reduce_verification`, `certify_result` and `certify` as operators,
   checked against a reference definition over bounded evidence; `verify_receipt`
   with them. Pool queue tickets in front of AccountLeases.

## Not modelled

HTTP routing, authentication and schemas (single-document validation); file
permissions of the ledger (abstracted to "the open raises"); the container runner
and GitHub (external I/O, reduced to their outcomes); clients, adapters, benchmarks
and the protocol gate (stateless); the queue tickets of the account pool, which order
waiting dispatchers and do not guard an account; the rest of the agent orchestration
under `nexus/` and `scripts/` beyond the plan above (git, subprocesses and large
record validation). `PROJECT.json` gives the reason for each.

# A TLA+ verification of vHSM

vHSM is a software HSM: a PKCS#11 library whose signatures are stored in a local
database, anchored to a Hyperledger Fabric ledger and announced to subscribers.
This directory models the concurrent, crash-prone part of it: the worker pool,
the path of a signature from the database to the ledger, and the path of an event
to its subscribers.

## The system and its parts

* **Worker pool** (`src/threadpool`): two queues by privilege tier, atomic counters
  and one condition variable. The ledger worker runs its tasks on it.
* **Ledger worker** (`src/ledger/ledger_worker.cpp`): claims a record in
  `in_flight_`, submits it with retries and writes the outcome back through a
  callback. (It also tries to mark the row `PROCESSING`; the schema refuses that.)
* **Signature store** (`src/signature_store`): the rows with their integrity HMAC, the
  dispatcher that inserts them, the retry queue, the event outbox and its poller, the
  notification repository and dispatcher, the verification service.
* **Notification bus and adapters** (`src/notification`).
* **PKCS#11 layer and composition root** (`src/pkcs11`): creates everything in
  `C_Initialize`, tears it down in `C_Finalize`.
* **Token, sessions, object store, vault, audit log, policies** (`src/keystore`,
  `src/session`, `src/persistence`, `src/audit`, `src/domain`).
* **Chaincode** (`network/fabric_configuration/signature_ledger`), **admin service**
  (`src/admin`), and separate programs (REST API, web, mobile, firmware).

`PROJECT.json` lists every part with its status, and the hazards of the code with the
line where each one bites.

## Modules

| Module | Models | State and actions |
|---|---|---|
| `ThreadPool` | `ThreadPool` class | one step per atomic access, critical section or condition-variable operation; a program counter per producer, worker and the thread in `shutdown()` |
| `TaskPool` | what the pool promises | a status per task, and whether the pool is closed |
| `ThreadPoolProofs` | theorems about `ThreadPool` | |
| `Anchoring` | dispatcher, ledger worker, repository, retry queue, chaincode | one step per SQL statement, critical section or remote call |
| `Notification` | outbox, poller, bus, dispatcher, start and stop order | the same granularity |
| `MCThreadPool`, `MCAnchoring`, `MCNotification` | instances for TLC | symmetry sets; severities and filters of the subscribers |

`ThreadPool`: `BeginCall`, `Push`, `CountQueued`, `CountEnqueued` and `Notify` are the
three submission functions. `Lock` to `Tally` are `worker_thread`; `Stop` to `Join` are
`shutdown`. A call's result and the future of `submit` are left out.

`Anchoring`: `Dispatch` is the transaction of `v_dispatch`; `Enter`, `Claim`,
`MarkProcessing`, `Enqueue` and `CountPending` are `submit_record`; `Begin` to `Erase` are
`process_record` with the commit callback; `Endorse` and `Commit` are the chaincode
under Fabric's version check. The HMAC of a row is modelled as the tuple of columns it
was computed over, and is empty when the token had no KEK. `mark_processing` is the
statement it is, under the `CHECK` of `db_schema.cpp:68` (`LedgerStatuses`): `PROCESSING`
is not one of the values, the `DbError` is swallowed, and no row ever changes. The pool
is used through the contract of `TaskPool`, including that a task accepted while the pool stops may be left behind (`Abandon`): the pool's exit test
can miss a task while a submission is not yet counted, and which task it misses
depends on what the workers popped before.

`Notification`: `PollTop` to `PublishNext` are the poller, `DispatchTop` to `Deliver`
the dispatcher's thread and, in stage `sweep`, the same code run by `C_Finalize`. The
process goes through the stages of `create_app_container` (`starting`, `up`) and
`C_Finalize` (`drain`, `sweep`, `ledger`, `freed`, `down`). A poller that uses the
destroyed database or bus is undefined behaviour: it has no effect (`Dangling`) or the
process dies (`Crash`). Calling a destroyed adapter has the outcomes of any delivery
(true, false, exception) or a crash. One attempt and its log entry are one step.
`created_at` is a wall-clock reading: `Sign` gives a row any reading of a set `Skews`
counted from that of the first row, so rows may tie or be inserted after the clock was set back, and the poller's
`SELECT` returns any order that `created_at` allows. The foreign key of
`notification_log` keeps a subscriber with entries from being removed, and a removed one
from getting entries.

## Runs

| Run | Result | Shows |
|---|---|---|
| `pool_safety` | holds | counters exact up to updates in progress, every refusal of a full tier counted, no task twice, a quiet shutdown drains |
| `pool_live` | holds | `shutdown()` returns; `ThreadPool` implements `TaskPool` |
| `pool_drain` | violated | "drains any still-queued work": a task pushed but not counted is left behind |
| `pool_wakeup` | violated | "lost-wakeup-free": a notify can fall between predicate and block |
| `anchoring_safety` | holds | counters, rows, HMACs and ledger agree through faults, crash, finalization and administrator retries; one task per record; `in_flight_` keeps only what is being worked on or was turned away |
| `anchoring_live` | holds | within the retry budget every row is committed, through a crash or a restart, unless the full pool refused its record |
| `anchoring_crash` | violated | "a crash/restart cannot re-anchor them": the `PROCESSING` mark is refused, the row is replayed while its transaction is still being ordered, and both are accepted |
| `anchoring_twice` | violated | a stale retry snapshot anchors a committed record again |
| `anchoring_integrity` | violated | "altered outside the normal insert/update path": a crash between the two statements of `update_ledger_fields` leaves a mismatch |
| `notify_safety` | holds | each event in exactly one place, in the order of `created_at`, outcomes as the policy says, nobody skipped |
| `notify_live` | holds | every event settles; `C_Finalize` ends |
| `notify_finalize` | violated | the poller outlives the dispatcher's drain, so a clean stop loses events |

The violated ones each check a sentence of the repository; `findings` in `PROJECT.json`
quotes it.

What the properties that hold leave open:

* `LedgerAgrees` says that row and ledger name the same transaction only while
  `RetryLedgerCommits` has not been called. After a call it says less: the row's
  transaction was accepted. The stronger form fails, for the reason `anchoring_twice`
  shows: the second anchoring overwrites the ledger's entry.
* `HmacFresh` speaks of `COMMITTED` rows only (a row inserted without a KEK has no HMAC)
  and excepts a row whose HMAC update failed or was cut off (see `anchoring_integrity`).
* `EveryMatchServed` speaks of lives without faults, crashes and subscriber changes: an
  adapter that throws ends the event for the subscribers after it.
* `EventuallySettled` counts an event lost with its process, or dropped by a full bus, as
  settled; `OnePlace` says that these are the only ways to lose one.
* `InOrder` compares rows of which the one inserted first also has the earlier
  `created_at`. Rows with the same reading, and rows inserted after the clock was set
  back, may reach the dispatcher in another order than they were signed in.
* `EventuallyCommitted` is checked without database faults (a failed `UPDATE` leaves the
  row `PENDING` until the next start) and within the retry budget: a record that used it up
  waits for the next start or for `RetryLedgerCommits`. It excepts a record the full pool
  refused: `submit_record` leaves it in `in_flight_`, so every later submission is
  dropped as a duplicate until the process is restarted (`InFlightReleased` says which
  records are in that position). `anchoring_live` has a pool queue of one and two
  records, so such refusals happen, before the restart and after it.

Two more disagreements between comment and code were met and have no run of their own:

* `outbox_poller.cpp:113` says a crash loses at most one event; one `UPDATE` marks the
  whole batch first (in the model, `Crash` puts the rest of the batch in `gone`).
* `notification_dispatcher.h:55` says the caller keeps adapters alive; those of
  `create_app_container` are locals of a block that ends right after the dispatcher starts.

**Bounds.** `pool_safety` has three tasks, two producers and two workers: two workers
race for a task, a tier is full, a batch is accepted in part. `pool_live` has two tasks
and one producer, since symmetry is not sound for liveness. `anchoring_safety` has two
records, a pool queue of one (so that a refusal happens), one crash or finalization, one
ledger fault, one `RetryLedgerCommits` call, unbounded database faults and, in each life
of the process, a token with or without a KEK. `MaxSubs` and
`MaxTx` are two: enough for a record claimed again or a second record refused, and for a
retry while the first transaction is still being ordered. In `anchoring_live` the answer
that is lost is that of a transaction in progress at the crash; one retry is then enough,
and `MaxTx` is six, as many transactions as the two records can need in the two lives. A
ledger fault on top of the crash makes the run too large. The notification runs use a
bus of one and a batch of two, so the bus overflows while a batch is half published
(`notify_finalize` has a bus of two);
in `notify_safety` the second row's reading is equal to the first one's or later. A clock
set back needs no value of its own there: equal readings let every `SELECT` return the
rows in either order, the order of a set-back clock included, and `InOrder` speaks of
neither. In `notify_live` and `notify_finalize` all readings are equal;
`notify_safety` has two process ends, so a restart follows a crash, and a crash a clean
stop. `Anchoring` and `ThreadPool` disable the deadlock check: a pool that was shut down,
and a model that used up its bounds, stop. `Notification` keeps it.

**Fairness.** Weak fairness per thread: a thread that can go on eventually does. The
orderer eventually orders what it was given, and a process that went down is started
again (an assumption about the operator). Calls, faults, crashes, finalization
and spurious wakeups are never forced.

## What is proved

`ThreadPoolProofs` proves, for every set of tasks, producers and workers and every
capacity (assumption `PoolAssumption`: finite sets, at least one worker, natural
bounds):

* `TypeCorrect`: `Spec => []TypeOK`.
* `AccountingCorrect`: `Spec => []Accounting`. `Accounting` is inductive given
  `TypeOK`. The argument counts threads by program counter: each step moves one thread
  from one counted set to another and changes at most one counter or queue; the
  lemmas `CountMove`, `WorkerCounts`, `ProducerCounts` and `QueueStep` say by how much.
* `DrainInvariant`: `Spec => []DrainInv`. A worker exits only when it reads
  `queued = 0`; with no producer in a call, `Accounting` turns that into empty queues
  (`ZeroMeansEmpty`).
* `QuietShutdown`: `Spec => []QuietShutdownDrains`, from the three above.
  `QuietShutdownDrains` is not inductive alone: it says nothing before the join, which is
  what `DrainInv` adds.

Only model-checked: all liveness (the prover has no support for fairness and `ENABLED`),
`RunsOnce`, `OverflowCounted`, the refinement of `TaskPool`, and everything about `Anchoring` and
`Notification`.

## Not modelled, and the plan

Left out for good: cryptographic primitives, transports, logging, metrics, the separate
programs. Planned, in this order:

1. Token PIN state, login throttle and sessions; then the PKCS#11 operation state
   machine (a sign operation must not be finished as another kind).
2. Object store with its indexes; key lifecycle.
3. Vault (crash at every file operation) and audit log (recovery, chain check).
4. Lifecycle of `C_Initialize`/`C_Finalize` with the FIPS self-test; verification
   service, attestations and key policy as operators against reference definitions.
5. Proofs: `RunsOnce`, the refinement `ThreadPool => TaskPool`, `SingleFlight` and
   `CountersAgree` of `Anchoring`, `OnePlace` of `Notification`.

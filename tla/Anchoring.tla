------------------------------ MODULE Anchoring ------------------------------
(***************************************************************************)
(* How a signature record gets from the local database to the ledger:      *)
(* signature_dispatcher_core.cpp inserts the row, LedgerWorker claims it   *)
(* (in-flight set), a pool task submits it to Fabric with retries, and the *)
(* commit callback writes the outcome back to the row.                     *)
(* The process can crash or be finalized at any point; C_Initialize        *)
(* replays the PENDING rows, and RetryLedgerCommits does so while running. *)
(*                                                                         *)
(* A step is one SQL statement, one critical section or one remote call.   *)
(* The pool appears through the contract of module TaskPool.               *)
(***************************************************************************)
EXTENDS Integers, FiniteSets

CONSTANTS
    Records,     \* signature ids the dispatcher may create
    Signers,     \* threads inside C_Sign
    Capacity,    \* queue_capacity of the pool
    MaxRetries,  \* retry_policy_.max_retries
    DbFaults,    \* whether a statement outside v_dispatch may throw DbError, and
                 \* whether the token may be without a KEK
    MaxSubs,     \* bound: records claimed by submit_record per process life
    MaxTx,       \* bound: transactions endorsed
    MaxDowns,    \* bound: crashes and finalizations
    MaxFaults,   \* bound: ledger calls that fail or lose their answer
    MaxAdmin     \* bound: RetryLedgerCommits calls

ASSUME AnchoringAssumption ==
    /\ {Capacity, MaxRetries, MaxSubs, MaxTx, MaxDowns, MaxFaults, MaxAdmin} \subseteq Nat
    /\ Capacity > 0 /\ DbFaults \in BOOLEAN
    /\ {"init", "admin"} \cap Signers = {}

Callers == Signers \cup {"init", "admin"}
Subs    == 1..MaxSubs
Txs     == 1..MaxTx

VARIABLES
    row,        \* signature_records: [status, tx, mac] per record; mac holds the
                \* columns the integrity HMAC was computed over
    proc, kek,  \* the process: down, starting, up, draining, stopping; it has a KEK
    cpc, todo, arg, cur,  \* per caller of submit_record: pc, records left, the
                \* record it is called with, the claim in hand
    inFlight,   \* in_flight_
    task,       \* claims made by submit_record and the pool tasks they become
    subs,       \* how many of them exist
    pending, committed, failed,   \* the worker's counters
    ledger,     \* world state of the chaincode: [ver, tx] per record key
    txn, nextTx,     \* endorsed transactions: [rec, ver, state]
    downs, faults, admins,        \* used up of the bounds
    torn        \* history: records whose HMAC update was cut short

db       == <<row>>
worker   == <<inFlight, task, subs, pending, committed, failed>>
calls    == <<cpc, todo, arg, cur>>
fabric   == <<ledger, txn, nextTx>>
vars == <<db, proc, kek, calls, worker, fabric, downs, faults, admins, torn>>

\* The columns the HMAC covers, as far as they change after the insert.
Columns(r) == [status |-> row[r].status, tx |-> row[r].tx]
NoColumns  == [status |-> "absent", tx |-> 0]

NoTask == [rec |-> "none", pc |-> "none", retry |-> 0, tx |-> 0, snap |-> NoColumns]

\* load_pending_records: SELECT ... WHERE ledger_status = 'PENDING'.
PendingRows == {r \in Records : row[r].status = "PENDING"}

\* Its answers: a DbError gives the empty list.
Loaded == {PendingRows} \cup (IF DbFaults THEN {{}} ELSE {})

Init ==
    /\ row = [r \in Records |-> [status |-> "absent", tx |-> 0, mac |-> NoColumns]]
    /\ proc = "down" /\ kek = TRUE
    /\ cpc = [c \in Callers |-> "idle"]
    /\ todo = [c \in Callers |-> {}]
    /\ arg = [c \in Callers |-> "none"]
    /\ cur = [c \in Callers |-> 0]
    /\ inFlight = {} /\ task = [i \in Subs |-> NoTask] /\ subs = 0
    /\ pending = 0 /\ committed = 0 /\ failed = 0
    /\ ledger = [r \in Records |-> [ver |-> 0, tx |-> 0]]
    /\ txn = [x \in Txs |-> [rec |-> "none", ver |-> 0, state |-> "none"]]
    /\ nextTx = 0
    /\ downs = 0 /\ faults = 0 /\ admins = 0
    /\ torn = {}

Running  == proc \in {"starting", "up"}
PoolOpen == proc \in {"starting", "up", "draining"}

-----------------------------------------------------------------------------
(* Where records come from.                                                *)

\* C_Initialize: start() and the snapshot of the retry queue.
Initialize ==
    /\ proc = "down"
    /\ proc' = "starting" /\ kek' \in {TRUE, ~DbFaults}
    /\ cpc' = [cpc EXCEPT !["init"] = "next"]
    /\ \E rows \in Loaded : todo' = [todo EXCEPT !["init"] = rows]
    /\ UNCHANGED <<db, arg, cur, worker, fabric, downs, faults, admins, torn>>

\* v_dispatch: row and HMAC in one transaction, then submit_record.  Without a
\* key the exception of compute_hmac is caught and the HMAC left empty.  A failed
\* transaction leaves nothing behind and is not a step.  A C_Sign that passed its
\* g_initialized test in time inserts while C_Finalize stops the worker.
Dispatch(s, r) ==
    /\ proc \in {"up", "draining", "stopping"}
    /\ cpc[s] = "idle"
    /\ row[r].status = "absent"
    /\ LET columns == [status |-> "PENDING", tx |-> 0] IN
          row' = [row EXCEPT ![r] = [status |-> "PENDING", tx |-> 0,
                                     mac |-> IF kek THEN columns ELSE NoColumns]]
    /\ cpc' = [cpc EXCEPT ![s] = "next"]
    /\ todo' = [todo EXCEPT ![s] = {r}]
    /\ UNCHANGED <<proc, kek, arg, cur, worker, fabric, downs, faults, admins, torn>>

\* RetryLedgerCommits: a snapshot of the PENDING rows, submitted one by one.  With
\* no rows, or a failed SELECT, the call does nothing and is not a step.
RetryLedgerCommits ==
    /\ proc = "up"
    /\ PendingRows # {}
    /\ cpc["admin"] = "idle"
    /\ admins < MaxAdmin
    /\ admins' = admins + 1
    /\ cpc' = [cpc EXCEPT !["admin"] = "next"]
    /\ todo' = [todo EXCEPT !["admin"] = PendingRows]
    /\ UNCHANGED <<db, proc, kek, arg, cur, worker, fabric, downs, faults, torn>>

\* The caller has submitted all its records; C_Initialize is then complete.
Return(c) ==
    /\ cpc[c] = "next"
    /\ todo[c] = {}
    /\ cpc' = [cpc EXCEPT ![c] = "idle"]
    /\ proc' = IF c = "init" /\ proc = "starting" THEN "up" ELSE proc
    /\ UNCHANGED <<db, kek, todo, arg, cur, worker, fabric, downs, faults, admins, torn>>

-----------------------------------------------------------------------------
(* submit_record.                                                          *)

\* Return at once when not running.
Enter(c) ==
    /\ cpc[c] = "next"
    /\ \E r \in todo[c] :
          /\ todo' = [todo EXCEPT ![c] = @ \ {r}]
          /\ IF Running
             THEN cpc' = [cpc EXCEPT ![c] = "claim"] /\ arg' = [arg EXCEPT ![c] = r]
             ELSE UNCHANGED <<cpc, arg>>
    /\ UNCHANGED <<db, proc, kek, cur, worker, fabric, downs, faults, admins, torn>>

\* The record enters in_flight_ and is this caller's from here on.
Take(c) ==
    /\ subs < MaxSubs
    /\ subs' = subs + 1
    /\ inFlight' = inFlight \cup {arg[c]}
    /\ task' = [task EXCEPT ![subs + 1] = [NoTask EXCEPT !.rec = arg[c], !.pc = "held"]]
    /\ cur' = [cur EXCEPT ![c] = subs + 1]
    /\ cpc' = [cpc EXCEPT ![c] = "mark"]

\* Mutant of Claim: the result of in_flight_.insert is not looked at.
ClaimUnchecked(c) ==
    /\ cpc[c] = "claim"
    /\ Take(c)
    /\ arg' = [arg EXCEPT ![c] = "none"]
    /\ UNCHANGED <<db, proc, kek, todo, pending, committed, failed, fabric, downs, faults,
                   admins, torn>>

\* in_flight_.insert, under its mutex: a record in flight is dropped.
Claim(c) ==
    /\ cpc[c] = "claim"
    /\ IF arg[c] \in inFlight
       THEN cpc' = [cpc EXCEPT ![c] = "next"] /\ UNCHANGED <<cur, inFlight, task, subs>>
       ELSE Take(c)
    /\ arg' = [arg EXCEPT ![c] = "none"]
    /\ UNCHANGED <<db, proc, kek, todo, pending, committed, failed, fabric, downs, faults,
                   admins, torn>>

\* Mutant of LedgerStatuses: the CHECK also lets PROCESSING through.
LedgerStatusesExtended == {"PENDING", "PROCESSING", "COMMITTED", "FAILED"}

\* CHECK(ledger_status IN ...) of signature_records: a statement that stores any
\* other value throws DbError.
LedgerStatuses == {"PENDING", "COMMITTED", "FAILED"}

\* processing_callback_ -> mark_processing: UPDATE a PENDING row to PROCESSING,
\* leaving its HMAC alone.  The CHECK refuses the value, and the DbError is
\* swallowed: the row stays as it is.
MarkProcessing(c) ==
    /\ cpc[c] = "mark"
    /\ row' = [row EXCEPT ![task[cur[c]].rec].status =
                  IF @ = "PENDING" /\ "PROCESSING" \in LedgerStatuses THEN "PROCESSING" ELSE @]
    /\ cpc' = [cpc EXCEPT ![c] = "enqueue"]
    /\ UNCHANGED <<proc, kek, todo, arg, cur, worker, fabric, downs, faults, admins, torn>>

Queued == {i \in Subs : task[i].pc = "queued"}

\* pool_->enqueue: accepted, refused at capacity, or an exception once the
\* pool is stopping.  Only an accepted record ever leaves in_flight_.
Enqueue(c) ==
    /\ cpc[c] = "enqueue"
    /\ LET accepted == PoolOpen /\ Cardinality(Queued) < Capacity IN
          /\ task' = [task EXCEPT ![cur[c]].pc = IF accepted THEN "queued"
                                                 ELSE IF PoolOpen THEN "refused" ELSE "dropped"]
          /\ cpc' = [cpc EXCEPT ![c] = IF accepted THEN "count" ELSE "next"]
          /\ failed' = IF accepted THEN failed ELSE failed + 1
    /\ cur' = [cur EXCEPT ![c] = 0]
    /\ UNCHANGED <<db, proc, kek, todo, arg, inFlight, subs, pending, committed, fabric, downs,
                   faults, admins, torn>>

\* ++pending_count_, after the task may have started or even finished.
CountPending(c) ==
    /\ cpc[c] = "count"
    /\ pending' = pending + 1
    /\ cpc' = [cpc EXCEPT ![c] = "next"]
    /\ UNCHANGED <<db, proc, kek, todo, arg, cur, inFlight, task, subs, committed, failed, fabric,
                   downs, faults, admins, torn>>

Submit(c) ==
    Return(c) \/ Enter(c) \/ Claim(c) \/ MarkProcessing(c) \/ Enqueue(c) \/ CountPending(c)

-----------------------------------------------------------------------------
(* process_record, on a pool thread.                                       *)

Goto(i, pc) == task' = [task EXCEPT ![i].pc = pc]

\* A pool worker picks the task up.
Begin(i) ==
    /\ task[i].pc = "queued"
    /\ Goto(i, "submit")
    /\ UNCHANGED <<db, proc, kek, calls, inFlight, subs, pending, committed, failed, fabric,
                   downs, faults, admins, torn>>

\* LedgerClient::submit_record: the peers endorse RecordSignature, which reads
\* the record's key before writing it, and the orderer gets the transaction.
Endorse(i) ==
    /\ task[i].pc = "submit"
    /\ nextTx < MaxTx
    /\ nextTx' = nextTx + 1
    /\ txn' = [txn EXCEPT ![nextTx + 1] =
                 [rec |-> task[i].rec, ver |-> ledger[task[i].rec].ver, state |-> "ordering"]]
    /\ task' = [task EXCEPT ![i].pc = "await", ![i].tx = nextTx + 1]
    /\ UNCHANGED <<db, proc, kek, calls, inFlight, subs, pending, committed, failed, ledger,
                   downs, faults, admins, torn>>

\* The call fails before ordering, or its answer is lost (the transaction may
\* still commit later): submit_record returns nullopt.
LedgerFault(i) ==
    /\ task[i].pc \in {"submit", "await"}
    /\ faults < MaxFaults
    /\ faults' = faults + 1
    /\ task' = [task EXCEPT ![i].pc = "decide", ![i].tx = 0]
    /\ UNCHANGED <<db, proc, kek, calls, inFlight, subs, pending, committed, failed, fabric,
                   downs, admins, torn>>

\* The commit status arrives: an entry when valid, nullopt otherwise.
Answer(i) ==
    /\ task[i].pc = "await"
    /\ txn[task[i].tx].state \in {"valid", "invalid"}
    /\ IF txn[task[i].tx].state = "valid"
       THEN Goto(i, "commit")
       ELSE task' = [task EXCEPT ![i].pc = "decide", ![i].tx = 0]
    /\ UNCHANGED <<db, proc, kek, calls, inFlight, subs, pending, committed, failed, fabric,
                   downs, faults, admins, torn>>

\* ++retry_count, a second look at the budget, the back-off (a sleep), and again.
Retry(i) ==
    task' = [task EXCEPT ![i].retry = @ + 1,
                         ![i].pc = IF task[i].retry + 1 > MaxRetries THEN "fail" ELSE "submit"]

\* Mutant of Decide: the budget test is off by one, one retry too few.
DecideOneLess(i) ==
    /\ task[i].pc = "decide"
    /\ IF ~Running \/ task[i].retry + 1 >= MaxRetries THEN Goto(i, "fail") ELSE Retry(i)
    /\ UNCHANGED <<db, proc, kek, calls, inFlight, subs, pending, committed, failed, fabric,
                   downs, faults, admins, torn>>

\* After a failure: give up while draining or when the budget is spent.
Decide(i) ==
    /\ task[i].pc = "decide"
    /\ IF ~Running \/ task[i].retry >= MaxRetries THEN Goto(i, "fail") ELSE Retry(i)
    /\ UNCHANGED <<db, proc, kek, calls, inFlight, subs, pending, committed, failed, fabric,
                   downs, faults, admins, torn>>

\* ++committed_count_, --pending_count_.
TallyCommit(i) ==
    /\ task[i].pc = "commit"
    /\ committed' = committed + 1
    /\ pending' = pending - 1
    /\ Goto(i, "update")
    /\ UNCHANGED <<db, proc, kek, calls, inFlight, subs, failed, fabric, downs, faults, admins,
                   torn>>

\* Mutant of UpdateLedgerFields: the HMAC is not recomputed.
UpdateKeepsHmac(i) ==
    /\ task[i].pc = "update"
    /\ row' = [row EXCEPT ![task[i].rec].status = "COMMITTED", ![task[i].rec].tx = task[i].tx]
    /\ Goto(i, "erase")
    /\ UNCHANGED <<proc, kek, calls, inFlight, subs, pending, committed, failed, fabric, downs,
                   faults, admins, torn>>

\* on_committed_ -> update_ledger_fields: first the three ledger columns; a
\* DbError ends the callback.
UpdateLedgerFields(i) ==
    /\ task[i].pc = "update"
    /\ LET r == task[i].rec IN
          \/ /\ row' = [row EXCEPT ![r].status = "COMMITTED", ![r].tx = task[i].tx]
             /\ Goto(i, "read")
          \/ DbFaults /\ Goto(i, "erase") /\ UNCHANGED row
    /\ UNCHANGED <<proc, kek, calls, inFlight, subs, pending, committed, failed, fabric, downs,
                   faults, admins, torn>>

\* recompute_integrity_hmac: SELECT the columns ...
ReadColumns(i) ==
    /\ task[i].pc = "read"
    /\ \/ /\ task' = [task EXCEPT ![i].pc = "write", ![i].snap = Columns(task[i].rec)]
          /\ UNCHANGED torn
       \/ DbFaults /\ Goto(i, "erase") /\ torn' = torn \cup {task[i].rec}
    /\ UNCHANGED <<db, proc, kek, calls, inFlight, subs, pending, committed, failed, fabric, downs,
                   faults, admins>>

\* ... and UPDATE the HMAC computed over them; compute_hmac throws without a key,
\* and every exception ends recompute_integrity_hmac.
WriteHmac(i) ==
    /\ task[i].pc = "write"
    /\ Goto(i, "erase")
    /\ \/ /\ kek /\ row' = [row EXCEPT ![task[i].rec].mac = task[i].snap]
          /\ torn' = torn \ {task[i].rec}
       \/ (~kek \/ DbFaults) /\ torn' = torn \cup {task[i].rec} /\ UNCHANGED row
    /\ UNCHANGED <<proc, kek, calls, inFlight, subs, pending, committed, failed, fabric, downs,
                   faults, admins>>

\* Mutant of TallyFailure: --pending_count_ only on the success path.
TallyFailureOnly(i) ==
    /\ task[i].pc = "fail"
    /\ failed' = failed + 1
    /\ Goto(i, "eraseFailed")
    /\ UNCHANGED <<db, proc, kek, calls, inFlight, subs, pending, committed, fabric, downs, faults,
                   admins, torn>>

\* --pending_count_, ++failed_count_, on giving up.
TallyFailure(i) ==
    /\ task[i].pc = "fail"
    /\ pending' = pending - 1
    /\ failed' = failed + 1
    /\ Goto(i, "eraseFailed")
    /\ UNCHANGED <<db, proc, kek, calls, inFlight, subs, committed, fabric, downs, faults, admins,
                   torn>>

\* process_record returns: its locals are gone.
Exit(i, pc) == task' = [task EXCEPT ![i] = [NoTask EXCEPT !.rec = task[i].rec, !.pc = pc]]

\* Mutant of Erase: the record leaves in_flight_ only when it was committed.
EraseCommitted(i) ==
    /\ task[i].pc \in {"erase", "eraseFailed"}
    /\ inFlight' = IF task[i].pc = "erase" THEN inFlight \ {task[i].rec} ELSE inFlight
    /\ Exit(i, IF task[i].pc = "erase" THEN "done" ELSE "failed")
    /\ UNCHANGED <<db, proc, kek, calls, subs, pending, committed, failed, fabric, downs, faults,
                   admins, torn>>

\* in_flight_.erase, at the end of both outcomes.
Erase(i) ==
    /\ task[i].pc \in {"erase", "eraseFailed"}
    /\ inFlight' = inFlight \ {task[i].rec}
    /\ Exit(i, IF task[i].pc = "erase" THEN "done" ELSE "failed")
    /\ UNCHANGED <<db, proc, kek, calls, subs, pending, committed, failed, fabric, downs, faults,
                   admins, torn>>

ProcessRecord(i) ==
    \/ Begin(i) \/ Endorse(i) \/ Answer(i) \/ Decide(i) \/ TallyCommit(i)
    \/ UpdateLedgerFields(i) \/ ReadColumns(i) \/ WriteHmac(i) \/ TallyFailure(i) \/ Erase(i)

-----------------------------------------------------------------------------
(* The ledger.                                                             *)

\* Mutant of Commit: RecordSignature writes without reading the key, so every
\* transaction validates.
CommitBlindWrite(x) ==
    /\ txn[x].state = "ordering"
    /\ ledger' = [ledger EXCEPT ![txn[x].rec] = [ver |-> @.ver + 1, tx |-> x]]
    /\ txn' = [txn EXCEPT ![x].state = "valid"]
    /\ UNCHANGED <<db, proc, kek, calls, worker, nextTx, downs, faults, admins, torn>>

\* A transaction is ordered and validated: it is valid when the key it read
\* at endorsement has not been written since, and then writes it.
Commit(x) ==
    /\ txn[x].state = "ordering"
    /\ LET r == txn[x].rec IN
          IF txn[x].ver = ledger[r].ver
          THEN /\ ledger' = [ledger EXCEPT ![r] = [ver |-> @.ver + 1, tx |-> x]]
               /\ txn' = [txn EXCEPT ![x].state = "valid"]
          ELSE /\ txn' = [txn EXCEPT ![x].state = "invalid"]
               /\ UNCHANGED ledger
    /\ UNCHANGED <<db, proc, kek, calls, worker, nextTx, downs, faults, admins, torn>>

-----------------------------------------------------------------------------
(* The process.                                                            *)

\* Tasks on the pool that have not come to their end.
Live == {i \in Subs : task[i].pc \in {"queued", "submit", "await", "decide", "commit",
                        "update", "read", "write", "erase", "fail", "eraseFailed"}}

\* C_Finalize -> drain_and_stop: running_ becomes false ...
Finalize ==
    /\ proc = "up"
    /\ downs < MaxDowns
    /\ proc' = "draining"
    /\ UNCHANGED <<db, kek, calls, worker, fabric, downs, faults, admins, torn>>

\* ... then the pool is told to stop ...
StopPool ==
    /\ proc = "draining"
    /\ proc' = "stopping"
    /\ UNCHANGED <<db, kek, calls, worker, fabric, downs, faults, admins, torn>>

\* ... and may leave a task behind when a push is not yet counted: that task, or
\* a counted one after the other was popped (ShutdownDrainsQueued in ThreadPool).
\* The caller is then still inside enqueue, here at "count".
Abandon(i) ==
    /\ proc = "stopping"
    /\ task[i].pc = "queued"
    /\ \E c \in Callers : cpc[c] = "count"
    /\ Goto(i, "abandoned")
    /\ UNCHANGED <<db, proc, kek, calls, inFlight, subs, pending, committed, failed, fabric,
                   downs, faults, admins, torn>>

\* All that lives in the process is gone; rows and ledger stay.
GoDown ==
    /\ proc' = "down" /\ kek' = TRUE
    /\ downs' = downs + 1
    /\ cpc' = [c \in Callers |-> "idle"]
    /\ todo' = [c \in Callers |-> {}]
    /\ arg' = [c \in Callers |-> "none"]
    /\ cur' = [c \in Callers |-> 0]
    /\ inFlight' = {} /\ task' = [i \in Subs |-> NoTask] /\ subs' = 0
    /\ pending' = 0 /\ committed' = 0 /\ failed' = 0
    /\ torn' = torn \cup {task[i].rec : i \in {j \in Subs : task[j].pc \in {"read", "write"}}}
    /\ UNCHANGED <<db, fabric, faults, admins>>

\* The workers are joined and the LedgerWorker destroyed.  A thread still
\* inside submit_record then uses freed memory; it is taken to stop there.
Join == proc = "stopping" /\ Live = {} /\ GoDown

Crash == proc # "down" /\ downs < MaxDowns /\ GoDown

Next ==
    \/ Initialize \/ RetryLedgerCommits
    \/ \E s \in Signers, r \in Records : Dispatch(s, r)
    \/ \E c \in Callers : Submit(c)
    \/ \E i \in Subs : ProcessRecord(i) \/ LedgerFault(i) \/ Abandon(i)
    \/ \E x \in Txs : Commit(x)
    \/ Finalize \/ StopPool \/ Join \/ Crash

Spec == Init /\ [][Next]_vars

\* Threads that can run do, the orderer orders what it was given, a stopped
\* process is started again; calls, faults and crashes need never happen.
Fairness ==
    /\ WF_vars(Initialize)
    /\ \A c \in Callers : WF_vars(Submit(c))
    /\ \A i \in Subs : WF_vars(ProcessRecord(i))
    /\ \A x \in Txs : WF_vars(Commit(x))
    /\ WF_vars(StopPool) /\ WF_vars(Join)

FairSpec == Spec /\ Fairness

-----------------------------------------------------------------------------
(* Properties.                                                             *)

TaskPC == {"none", "held", "queued", "refused", "dropped", "abandoned", "submit", "await",
           "decide", "commit", "update", "read", "write", "erase", "fail", "eraseFailed",
           "done", "failed"}
Status == {"absent", "PENDING", "COMMITTED"}
ColumnsType == [status : Status, tx : 0..MaxTx]

\* Every variable keeps its type; in particular no row is ever PROCESSING, and
\* process_record never retries more than max_retries times.
TypeOK ==
    /\ row \in [Records -> [status : Status, tx : 0..MaxTx, mac : ColumnsType]]
    /\ proc \in {"down", "starting", "up", "draining", "stopping"} /\ kek \in BOOLEAN
    /\ cpc \in [Callers -> {"idle", "next", "claim", "mark", "enqueue", "count"}]
    /\ todo \in [Callers -> SUBSET Records]
    /\ arg \in [Callers -> Records \cup {"none"}] /\ cur \in [Callers -> 0..MaxSubs]
    /\ inFlight \subseteq Records
    /\ task \in [Subs -> [rec : Records \cup {"none"}, pc : TaskPC, retry : 0..MaxRetries,
                          tx : 0..MaxTx, snap : ColumnsType]]
    /\ subs \in 0..MaxSubs
    /\ pending \in Int /\ committed \in Nat /\ failed \in Nat
    /\ ledger \in [Records -> [ver : Nat, tx : 0..MaxTx]]
    /\ txn \in [Txs -> [rec : Records \cup {"none"}, ver : Nat,
                        state : {"none", "ordering", "valid", "invalid"}]]
    /\ nextTx \in 0..MaxTx
    /\ downs \in Nat /\ faults \in Nat /\ admins \in Nat
    /\ torn \subseteq Records

\* The exactly-once guard of submit_record: whoever submits, a record has at
\* most one claim or task at a time, and it stays in in_flight_ meanwhile.
SingleFlight ==
    \A i \in Subs : i \in Live \/ task[i].pc = "held" =>
        /\ task[i].rec \in inFlight
        /\ \A j \in Subs : (j \in Live \/ task[j].pc = "held") /\ task[j].rec = task[i].rec => i = j

TasksAt(S) == {i \in Subs : task[i].pc \in S}

\* The counters of stats(): every claim is counted in exactly one of pending,
\* committed and failed once its updates have landed, although ++pending_count_
\* comes after the enqueue and may be overtaken by the task's --pending_count_.
CountersAgree ==
    /\ committed = Cardinality(TasksAt({"update", "read", "write", "erase", "done"}))
    /\ failed = Cardinality(TasksAt({"refused", "dropped", "eraseFailed", "failed"}))
    /\ pending = Cardinality(TasksAt({"queued", "abandoned", "submit", "await", "decide",
                                      "commit", "fail"}))
                   - Cardinality({c \in Callers : cpc[c] = "count"})

\* What is left in in_flight_ of a running process: the records being submitted or
\* processed, and those whose submission was refused, dropped by the stopped pool
\* or abandoned in it, which submit_record never takes out again.  So a record
\* that failed after all its retries can be submitted again, and the others
\* cannot before the next C_Initialize.
InFlightReleased ==
    inFlight = {task[i].rec : i \in Live \cup TasksAt({"held", "refused", "dropped", "abandoned"})}

\* A row says COMMITTED only with a transaction of that record that the ledger
\* accepted, although earlier attempts may be ordered late, their answers may be
\* lost, and crashes may cut the sequence anywhere.  It is the transaction the
\* ledger holds as long as RetryLedgerCommits was not called: a retry from a stale
\* snapshot (AnchoredOnce) overwrites the ledger's entry of a COMMITTED record.
LedgerAgrees ==
    \A r \in Records : row[r].status = "COMMITTED" =>
        /\ txn[row[r].tx].rec = r /\ txn[row[r].tx].state = "valid"
        /\ admins = 0 => ledger[r].tx = row[r].tx

\* The HMAC of a COMMITTED row covers its final columns, except while
\* update_ledger_fields is between its statements or was cut short there.
HmacFresh ==
    \A r \in Records : row[r].status = "COMMITTED" =>
        \/ row[r].mac = Columns(r)
        \/ r \in torn
        \/ \E i \in TasksAt({"read", "write"}) : task[i].rec = r

\* signature_dispatcher_core.cpp: anchoring "is a first-class outcome of every
\* successful sign operation".  As long as the retry budget is not used up, every
\* inserted row is eventually COMMITTED, through a crash, the answers lost in it
\* and the replay of the next C_Initialize, or its record is stuck in in_flight_
\* because the full pool refused it in the life of the process that is running.
EventuallyCommitted ==
    \A r \in Records : row[r].status # "absent" ~>
        \/ row[r].status = "COMMITTED"
        \/ r \in inFlight /\ \E i \in TasksAt({"refused"}) : task[i].rec = r

\* README.md: "accepted records mark the DB row `PROCESSING` so a crash/restart
\* cannot re-anchor them".  The ledger accepts one transaction per record.
NoReanchor ==
    \A x, y \in Txs :
        txn[x].state = "valid" /\ txn[y].state = "valid" /\ txn[x].rec = txn[y].rec => x = y

\* README.md, F6: a record whose anchoring has completed is not submitted to
\* the ledger again.
AnchoredOnce ==
    \A i \in TasksAt({"queued", "submit", "await"}) : row[task[i].rec].status # "COMMITTED"

\* verification_service_core.cpp: "A mismatch means the row was altered outside
\* the normal insert/update path."  Here every row takes that path, and so outside
\* of update_ledger_fields its HMAC covers its columns.
MismatchMeansTampering ==
    \A r \in Records : row[r].status # "absent" =>
        \/ row[r].mac = Columns(r)
        \/ \E i \in TasksAt({"read", "write"}) : task[i].rec = r
=============================================================================

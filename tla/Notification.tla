---------------------------- MODULE Notification ----------------------------
(***************************************************************************)
(* How an event reaches its subscribers: v_dispatch writes an event_outbox *)
(* row with the signature, OutboxPoller marks a batch of rows DISPATCHED   *)
(* and publishes them, BoundedNotificationBus buffers (or drops) them, and *)
(* NotificationDispatcher delivers each one to the subscribers that match, *)
(* retrying WARN and CRITICAL events.  Other events go straight to the bus.*)
(*                                                                         *)
(* The process starts as create_app_container does, stops as C_Finalize    *)
(* does and can crash anywhere.  A step is one SQL statement, one critical *)
(* section of the bus or one call of an adapter.                           *)
(***************************************************************************)
EXTENDS Integers, FiniteSets, Sequences, SequencesExt

CONSTANTS
    Rows,        \* SIGN_CREATED events, each with its event_outbox row
    Direct,      \* events published without an outbox row
    Subs,        \* ids of notification_subscribers
    Skews,       \* bound: the created_at of later rows, counted from the first row's
    Capacity,    \* capacity_ of the bus
    BatchLimit,  \* LIMIT of the poller's SELECT (32)
    MaxRetries,  \* retry_.max_retries
    Severity,    \* [Direct -> 1..3], INFO to CRITICAL
    MinRank,     \* [Subs -> {-1, 1, 2, 3}], severity_rank(min_severity)
    Accepts,     \* [Subs -> SUBSET Events], what event_filter lets through
    Adapted,     \* subscribers whose channel has an adapter
    None,        \* no event or subscriber in hand
    MaxDowns, MaxCrashes,  \* bounds: process ends, and crashes among them
    MaxFaults,   \* bound: statements that throw DbError, adapters that throw
    MaxAdmin     \* bound: AddSubscriber and RemoveSubscriber calls

Events == Rows \cup Direct

ASSUME NotificationAssumption ==
    /\ {Capacity, BatchLimit} \subseteq Nat \ {0}
    /\ {MaxRetries, MaxDowns, MaxCrashes, MaxFaults, MaxAdmin} \subseteq Nat
    /\ Skews \subseteq Int /\ Skews # {}
    /\ Rows \cap Direct = {} /\ None \notin Events \cup Subs
    /\ Severity \in [Direct -> 1..3] /\ MinRank \in [Subs -> {-1, 1, 2, 3}]
    /\ Accepts \in [Subs -> SUBSET Events] /\ Adapted \subseteq Subs

VARIABLES
    outbox,     \* event_outbox.status per row
    created,    \* event_outbox.created_at per row, counted from the first row's
    order,      \* history: the rows in the order of their INSERTs
    enabled,    \* notification_subscribers with enabled = 1
    log,        \* notification_log: outcomes per event and subscriber
    proc,       \* the process, with the stages of C_Initialize and C_Finalize
    bus,        \* queue_ of the bus
    dropped,    \* the events dropped_ has counted
    ppc, batch, polling,  \* poller: pc, `pending` still to publish, running_
    dpc, ev, todo, cur, attempt,  \* dispatcher: pc, event, subscribers, retry loop
    faults, downs, crashes, admins,  \* used up of the bounds
    raised,     \* history: direct events published
    seen,       \* history: events popped from the bus, in order
    gone        \* history: events lost when a process ended

tables   == <<outbox, created, order, enabled, log>>
poller   == <<ppc, batch, polling>>
consumer == <<dpc, ev, todo, cur, attempt>>
bounds   == <<faults, downs, crashes, admins>>
history  == <<raised, seen, gone>>
vars == <<tables, proc, bus, dropped, poller, consumer, bounds, history>>

Init ==
    /\ outbox = [r \in Rows |-> "absent"] /\ created = [r \in Rows |-> 0] /\ order = <<>>
    /\ enabled \in SUBSET Subs /\ log = [p \in Events \X Subs |-> <<>>]
    /\ proc = "down"
    /\ bus = <<>> /\ dropped = {}
    /\ ppc = "off" /\ batch = <<>> /\ polling = FALSE
    /\ dpc = "off" /\ ev = None /\ todo = {} /\ cur = None /\ attempt = 0
    /\ faults = 0 /\ downs = 0 /\ crashes = 0 /\ admins = 0
    /\ raised = {} /\ seen = <<>> /\ gone = {}

\* A statement or an adapter throws.
Fault == faults < MaxFaults /\ faults' = faults + 1

-----------------------------------------------------------------------------
(* C_Initialize.                                                           *)

\* The dispatcher thread is started.
StartDispatcher ==
    /\ proc = "down"
    /\ proc' = "starting" /\ dpc' = "top"
    /\ UNCHANGED <<tables, bus, dropped, poller, ev, todo, cur, attempt, bounds, history>>

\* The outbox poller is started and C_Initialize returns.
StartPoller ==
    /\ proc = "starting"
    /\ proc' = "up" /\ ppc' = "top" /\ polling' = TRUE
    /\ UNCHANGED <<tables, bus, dropped, batch, consumer, bounds, history>>

-----------------------------------------------------------------------------
(* Producers and BoundedNotificationBus.                                   *)

\* publish: a full bus drops the newest event and counts it.
Publish(e) ==
    IF Len(bus) >= Capacity
    THEN dropped' = dropped \cup {e} /\ UNCHANGED bus
    ELSE bus' = Append(bus, e) /\ UNCHANGED dropped

\* v_dispatch: the signature and its outbox row commit in one transaction.  The
\* wall clock may give two rows the same created_at, or an earlier one to a later
\* row: it was read before another thread's commit, or has been set back since.
Sign(r) ==
    /\ proc = "up" /\ outbox[r] = "absent"
    /\ outbox' = [outbox EXCEPT ![r] = "PENDING"] /\ order' = Append(order, r)
    /\ \E t \in IF order = <<>> THEN {0} ELSE Skews :
          created' = [created EXCEPT ![r] = t]
    /\ UNCHANGED <<enabled, log, proc, bus, dropped, poller, consumer,
                   bounds, history>>

\* p11_publish_event, a rolled back v_dispatch and the ledger worker's outcome
\* events publish directly, as long as the bus exists.
Raise(e) ==
    /\ proc \in {"up", "drain", "sweep", "ledger"} /\ e \notin raised
    /\ raised' = raised \cup {e}
    /\ Publish(e)
    /\ UNCHANGED <<tables, proc, poller, consumer, bounds, seen, gone>>

\* AddSubscriber and RemoveSubscriber of the admin service.  The foreign key of
\* notification_log refuses the DELETE of a subscriber that has entries there.
Administer(s) ==
    /\ admins < MaxAdmin /\ admins' = admins + 1
    /\ \/ s \notin enabled /\ enabled' = enabled \cup {s}
       \/ /\ s \in enabled /\ \A e \in Events : log[e, s] = <<>>
          /\ enabled' = enabled \ {s}
    /\ UNCHANGED <<outbox, created, order, log, proc, bus, dropped, poller, consumer,
                   faults, downs, crashes, history>>

-----------------------------------------------------------------------------
(* OutboxPoller.  Its database and bus are destroyed in stage "freed".     *)

PollerIdle(pc) == ppc' = pc /\ batch' = <<>> /\ UNCHANGED polling

\* Mutant of PollTop: the loop never looks at running_.
PollForever ==
    /\ ppc = "top"
    /\ PollerIdle("select")
    /\ UNCHANGED <<tables, proc, bus, dropped, consumer, bounds, history>>

\* loop: running_ is tested before each poll.
PollTop ==
    /\ ppc = "top"
    /\ PollerIdle(IF polling THEN "select" ELSE "off")
    /\ UNCHANGED <<tables, proc, bus, dropped, consumer, bounds, history>>

\* The PENDING rows in every order that created_at allows: rows that share one
\* come as SQLite finds them.
Pending ==
    {s \in SetToSeqs({r \in Rows : outbox[r] = "PENDING"}) :
        \A i, j \in DOMAIN s : i < j => created[s[i]] <= created[s[j]]}

Limit(s) == SubSeq(s, 1, Min({BatchLimit, Len(s)}))

\* Mutant of Selected: the newest rows first.
SelectedNewest == {Limit(Reverse(s)) : s \in Pending}

\* SELECT ... WHERE status='PENDING' ORDER BY created_at ASC LIMIT 32.
Selected == {Limit(s) : s \in Pending}

Select ==
    /\ ppc = "select" /\ proc # "freed"
    /\ \/ /\ <<>> \in Selected
          /\ PollerIdle("top") /\ UNCHANGED faults
       \/ /\ batch' \in Selected \ {<<>>}
          /\ ppc' = "mark" /\ UNCHANGED <<polling, faults>>
       \/ Fault /\ PollerIdle("top")
    /\ UNCHANGED <<tables, proc, bus, dropped, consumer, downs, crashes,
                   admins, history>>

\* Mutant of MarkFailed: the exception leaves the loop and ends the thread.
MarkFailedForGood == Fault /\ PollerIdle("off") /\ UNCHANGED outbox

\* The rows stay PENDING and are selected again by the next poll.
MarkFailed == Fault /\ PollerIdle("top") /\ UNCHANGED outbox

\* Mutant of Mark: a failed UPDATE is logged and the batch published anyway.
MarkOrPublish ==
    /\ ppc = "mark" /\ proc # "freed" /\ ppc' = "publish"
    /\ \/ /\ outbox' = [r \in Rows |-> IF r \in ToSet(batch) THEN "DISPATCHED" ELSE outbox[r]]
          /\ UNCHANGED faults
       \/ Fault /\ UNCHANGED outbox
    /\ UNCHANGED <<batch, polling>>
    /\ UNCHANGED <<created, order, enabled, log, proc, bus, dropped, consumer, downs,
                   crashes, admins, history>>

\* UPDATE event_outbox SET status='DISPATCHED' WHERE id IN (...), one statement.
Mark ==
    /\ ppc = "mark" /\ proc # "freed"
    /\ \/ /\ outbox' = [r \in Rows |-> IF r \in ToSet(batch) THEN "DISPATCHED" ELSE outbox[r]]
          /\ ppc' = "publish" /\ UNCHANGED <<batch, polling, faults>>
       \/ MarkFailed
    /\ UNCHANGED <<created, order, enabled, log, proc, bus, dropped, consumer, downs,
                   crashes, admins, history>>

\* bus_.publish for each row of the batch; then the sleep.
PublishNext ==
    /\ ppc = "publish" /\ proc # "freed"
    /\ Publish(Head(batch))
    /\ batch' = Tail(batch) /\ ppc' = IF Len(batch) = 1 THEN "top" ELSE "publish"
    /\ UNCHANGED <<tables, proc, polling, consumer, bounds, history>>

\* Undefined behaviour: the poller uses the destroyed connection or bus.  If it
\* survives (Crash is the other outcome) nothing it does has an effect.
Dangling ==
    /\ proc = "freed" /\ ppc \in {"select", "mark", "publish"}
    /\ gone' = gone \cup (IF ppc = "publish" THEN ToSet(batch) ELSE {})
    /\ PollerIdle("top")
    /\ UNCHANGED <<tables, proc, bus, dropped, consumer, bounds, raised, seen>>

Poller == PollTop \/ Select \/ Mark \/ PublishNext \/ Dangling

-----------------------------------------------------------------------------
(* NotificationDispatcher: its thread, and C_Finalize during the sweep.    *)

Rank(e) == IF e \in Direct THEN Severity[e] ELSE 1

\* matches: the severity gate, then the event filter.
Matches(s, e) == (MinRank[s] > 0 => Rank(e) >= MinRank[s]) /\ e \in Accepts[s]

\* Only WARN and CRITICAL events are retried.
Retries(e) == IF Rank(e) > 1 THEN MaxRetries ELSE 0

Loop == IF proc = "sweep" THEN "sweep" ELSE "top"

\* while (running_): drain_and_stop has cleared it in stage "drain".
DispatchTop ==
    /\ dpc = "top"
    /\ dpc' = IF proc = "drain" THEN "off" ELSE "pop"
    /\ UNCHANGED <<tables, proc, bus, dropped, poller, ev, todo, cur, attempt,
                   bounds, history>>

\* pop_timeout of the thread, try_pop of the sweep.
Pop ==
    /\ dpc \in {"pop", "sweep"}
    /\ IF bus # <<>>
       THEN /\ bus' = Tail(bus) /\ ev' = Head(bus) /\ seen' = Append(seen, Head(bus))
            /\ dpc' = "route" /\ UNCHANGED proc
       ELSE /\ UNCHANGED <<bus, ev, seen>>
            /\ dpc' = IF dpc = "pop" THEN "top" ELSE "off"
            /\ proc' = IF dpc = "sweep" THEN "ledger" ELSE proc
    /\ UNCHANGED <<tables, dropped, poller, todo, cur, attempt, bounds,
                   raised, gone>>

\* get_enabled_subscribers answers the empty list when its query throws.
Route ==
    /\ dpc = "route"
    /\ \/ todo' = {s \in enabled : Matches(s, ev)} /\ UNCHANGED faults
       \/ Fault /\ todo' = {}
    /\ dpc' = "next"
    /\ UNCHANGED <<tables, proc, bus, dropped, poller, ev, cur, attempt, downs,
                   crashes, admins, history>>

Done == dpc' = Loop /\ ev' = None /\ todo' = {} /\ cur' = None /\ attempt' = 0

\* Mutant of NextSubscriber: a stop request cuts the list of subscribers short.
NextUnlessStopping ==
    /\ dpc = "next"
    /\ IF todo = {} \/ proc = "drain"
       THEN Done
       ELSE /\ \E s \in todo : cur' = s /\ todo' = todo \ {s}
            /\ dpc' = "deliver" /\ attempt' = 0 /\ UNCHANGED ev
    /\ UNCHANGED <<tables, proc, bus, dropped, poller, bounds, history>>

NextSubscriber ==
    /\ dpc = "next"
    /\ IF todo = {}
       THEN Done
       ELSE /\ \E s \in todo : cur' = s /\ todo' = todo \ {s}
            /\ dpc' = "deliver" /\ attempt' = 0 /\ UNCHANGED ev
    /\ UNCHANGED <<tables, proc, bus, dropped, poller, bounds, history>>

\* log_notification swallows DbError; the foreign key refuses an entry for a
\* subscriber that has been removed.
Log(outcome) ==
    \/ /\ log' = IF cur \in enabled THEN [log EXCEPT ![ev, cur] = Append(@, outcome)] ELSE log
       /\ UNCHANGED faults
    \/ Fault /\ UNCHANGED log

Advance == dpc' = "next" /\ cur' = None /\ attempt' = 0 /\ UNCHANGED <<ev, todo>>

\* Mutant of AttemptFailed: attempt <= retries decides whether to go on.
AttemptOneMore ==
    IF attempt <= Retries(ev)
    THEN Log("RETRYING") /\ attempt' = attempt + 1 /\ UNCHANGED <<dpc, ev, todo, cur>>
    ELSE Log("FAILED") /\ Advance

\* The adapter answered false: back off and try again, or give up.
AttemptFailed ==
    IF attempt < Retries(ev)
    THEN Log("RETRYING") /\ attempt' = attempt + 1 /\ UNCHANGED <<dpc, ev, todo, cur>>
    ELSE Log("FAILED") /\ Advance

\* deliver_with_retry, one attempt with its log entry.  An exception of the
\* adapter ends the whole event.  create_app_container's adapters are gone by
\* then: the call is undefined behaviour, with these outcomes or a Crash.
Deliver ==
    /\ dpc = "deliver"
    /\ \/ cur \notin Adapted /\ Log("SKIPPED") /\ Advance
       \/ cur \in Adapted /\ Log("DELIVERED") /\ Advance
       \/ cur \in Adapted /\ AttemptFailed
       \/ cur \in Adapted /\ Fault /\ Done /\ UNCHANGED log
    /\ UNCHANGED <<outbox, created, order, enabled, proc, bus, dropped, poller, downs,
                   crashes, admins, history>>

Dispatcher == DispatchTop \/ Pop \/ Route \/ NextSubscriber \/ Deliver

-----------------------------------------------------------------------------
(* C_Finalize and crashes.                                                 *)

\* drain_and_stop clears running_ and joins the thread ...
BeginFinalize ==
    /\ proc = "up" /\ downs < MaxDowns
    /\ proc' = "drain" /\ downs' = downs + 1
    /\ UNCHANGED <<tables, bus, dropped, poller, consumer, faults, crashes,
                   admins, history>>

\* ... then sweeps the bus with try_pop (Pop and the steps after it).
BeginSweep ==
    /\ proc = "drain" /\ dpc = "off"
    /\ proc' = "sweep" /\ dpc' = "sweep"
    /\ UNCHANGED <<tables, bus, dropped, poller, ev, todo, cur, attempt,
                   bounds, history>>

\* The ledger worker has drained; bus and database connection are destroyed.
Free ==
    /\ proc = "ledger"
    /\ proc' = "freed" /\ bus' = <<>> /\ gone' = gone \cup ToSet(bus)
    /\ UNCHANGED <<tables, dropped, poller, consumer, bounds, raised, seen>>

\* g_appContainer.reset() reaches the poller's destructor: stop() ...
StopPoller ==
    /\ proc = "freed" /\ polling
    /\ polling' = FALSE
    /\ UNCHANGED <<tables, proc, bus, dropped, ppc, batch, consumer, bounds,
                   history>>

\* ... which joins its thread.
EndFinalize ==
    /\ proc = "freed" /\ ~polling /\ ppc = "off"
    /\ proc' = "down"
    /\ UNCHANGED <<tables, bus, dropped, poller, consumer, bounds, history>>

\* The process dies; the database stays.
Crash ==
    /\ proc # "down" /\ crashes < MaxCrashes /\ downs < MaxDowns
    /\ crashes' = crashes + 1 /\ downs' = downs + 1
    /\ gone' = gone \cup ToSet(bus) \cup (IF ppc = "publish" THEN ToSet(batch) ELSE {})
    /\ proc' = "down" /\ bus' = <<>>
    /\ ppc' = "off" /\ batch' = <<>> /\ polling' = FALSE
    /\ dpc' = "off" /\ ev' = None /\ todo' = {} /\ cur' = None /\ attempt' = 0
    /\ UNCHANGED <<tables, dropped, faults, admins, raised, seen>>

Startup  == StartDispatcher \/ StartPoller
Finalize == BeginSweep \/ Free \/ StopPoller \/ EndFinalize

Next ==
    \/ Startup \/ Poller \/ Dispatcher \/ Finalize \/ BeginFinalize \/ Crash
    \/ \E r \in Rows : Sign(r)
    \/ \E e \in Direct : Raise(e)
    \/ \E s \in Subs : Administer(s)

Spec == Init /\ [][Next]_vars

\* Each thread keeps running, and a process that went down is started again.
Fairness ==
    /\ WF_vars(Startup) /\ WF_vars(Finalize)
    /\ WF_vars(Poller) /\ WF_vars(Dispatcher)

FairSpec == Spec /\ Fairness

-----------------------------------------------------------------------------
(* Properties.                                                             *)

Outcomes == {"RETRYING", "FAILED", "DELIVERED", "SKIPPED"}

\* The shape of the tables and of the threads' state, and the bound of the bus.
TypeOK ==
    /\ outbox \in [Rows -> {"absent", "PENDING", "DISPATCHED"}]
    /\ created \in [Rows -> Skews \cup {0}]
    /\ ToSet(order) = {r \in Rows : outbox[r] # "absent"} /\ enabled \subseteq Subs
    /\ \A p \in Events \X Subs : ToSet(log[p]) \subseteq Outcomes
    /\ proc \in {"down", "starting", "up", "drain", "sweep", "ledger", "freed"}
    /\ polling \in BOOLEAN
    /\ ToSet(bus) \subseteq Events /\ Len(bus) <= Capacity /\ dropped \subseteq Events
    /\ ppc \in {"off", "top", "select", "mark", "publish"}
    /\ ToSet(batch) \subseteq Rows /\ Len(batch) <= BatchLimit
    /\ (ppc \in {"mark", "publish"}) <=> (batch # <<>>)
    /\ dpc \in {"off", "top", "pop", "sweep", "route", "next", "deliver"}
    /\ ev \in Events \cup {None} /\ todo \subseteq Subs /\ cur \in Subs \cup {None}
    /\ attempt \in 0..MaxRetries

Unpublished == IF ppc = "publish" THEN batch ELSE <<>>

\* Every event that was marked DISPATCHED or raised is in exactly one place: still
\* to be published, on the bus, popped by the dispatcher, counted in dropped_, or
\* lost with a process that ended.  So no row is published twice, whatever the
\* crashes and failed UPDATEs (poll_once marks before it publishes), and none
\* disappears while the process runs.
OnePlace ==
    LET born == {r \in Rows : outbox[r] = "DISPATCHED"} \cup raised
    IN  /\ born = ToSet(Unpublished) \cup ToSet(bus) \cup ToSet(seen) \cup dropped \cup gone
        /\ Cardinality(born) = Len(Unpublished) + Len(bus) + Len(seen)
                                 + Cardinality(dropped) + Cardinality(gone)

Position(r) == CHOOSE i \in DOMAIN order : order[i] = r

\* ORDER BY created_at, as far as it reaches: of two signatures the one inserted
\* first, with the earlier created_at, reaches the dispatcher first, across failed
\* UPDATEs, drops and restarts.  It says nothing of rows with the same created_at
\* or inserted after the clock was set back: those may come in either order.
InOrder ==
    \A i, j \in DOMAIN seen : i < j /\ seen[i] \in Rows /\ seen[j] \in Rows =>
        ~ /\ created[seen[j]] < created[seen[i]]
          /\ Position(seen[j]) < Position(seen[i])

\* What notification_log says of an event and a subscriber: retries first, at most
\* one final outcome, no retry of INFO events, FAILED only after all retries (unless
\* a log entry was lost or refused), and no entry for a subscriber the event does not match.
OutcomeLaw ==
    \A e \in Events, s \in Subs :
        LET l == log[e, s]
        IN  l # <<>> =>
            /\ Matches(s, e)
            /\ \A i \in DOMAIN l : i < Len(l) => l[i] = "RETRYING"
            /\ Len(l) <= Retries(e) + 1
            /\ Last(l) = "FAILED" /\ faults + admins = 0 => Len(l) = Retries(e) + 1

\* Once the dispatcher, or the sweep of C_Finalize, is through with an event, every
\* subscriber that matches has its final outcome: a stop request in the middle of an
\* event loses nobody (drain_and_stop joins the thread before it goes on).
EveryMatchServed ==
    faults = 0 /\ admins = 0 /\ crashes = 0 =>
        \A e \in ToSet(seen) \ {ev}, s \in enabled :
            Matches(s, e) => log[e, s] # <<>> /\ Last(log[e, s]) # "RETRYING"

\* A signature's event is never forgotten: a PENDING row is eventually popped and
\* served, dropped by a full bus, or lost with a process, also when UPDATEs fail and
\* the process is restarted (the poller's retry and its replay on C_Initialize).
EventuallySettled ==
    \A r \in Rows : outbox[r] = "PENDING" ~> r \in (ToSet(seen) \ {ev}) \cup dropped \cup gone

\* C_Finalize returns: the dispatcher's thread, the sweep and the poller's thread
\* all come to an end, or the process crashes.
FinalizeTerminates == proc = "drain" ~> proc = "down"

\* composition_root.cpp, on tearing the container down: "Stop outbox poller first so
\* it doesn't race with dispatcher drain", so that a clean stop loses no signature's
\* event.  Violated: C_Finalize drains the dispatcher while the poller still runs.
CleanStopLosesNothing == crashes = 0 => gone \cap Rows = {}
=============================================================================

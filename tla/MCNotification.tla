--------------------------- MODULE MCNotification ---------------------------
(* Notification with a CRITICAL direct event and subscribers that differ.  *)
EXTENDS Notification, TLC

CONSTANTS alert, all, orphan

\* The direct event is CRITICAL; outbox events are always INFO.
MCSeverity == [e \in Direct |-> 3]

\* One subscriber takes WARN and above; the other has no usable severity.
MCMinRank == [s \in Subs |-> IF s = orphan THEN 2 ELSE -1]

\* The event filter of the subscriber without an adapter names only the alert.
MCAccepts == [s \in Subs |-> IF s = orphan THEN Direct ELSE Events]

MCAdapted == Subs \ {orphan}

\* Rows are interchangeable: subscribers treat all SIGN_CREATED events alike.
Symmetric == Permutations(Rows)
=============================================================================

------------------------- MODULE GatekeeperLifecycle -------------------------
(***************************************************************************)
(* The refinement mapping from the service to SenderLifecycle.  The phases *)
(* of issuing a challenge are not visible from outside: until it is active *)
(* the sender is unknown.                                                  *)
(***************************************************************************)
EXTENDS Gatekeeper

Standing(r) ==
  CASE r.status \in Starting \cup {"unknown"} -> "unknown"
    [] r.status = "provisional" -> "passed"
    [] ArchivedPermanent(r) -> "archived"
    [] Permanent(r) /\ ~r.archived -> "permanent"
    [] r.status = "suppressed" /\ r.until # "null" -> "temporary"
    [] OTHER -> r.status

Lifecycle ==
  INSTANCE SenderLifecycle
    WITH standing <- [s \in Senders |-> Standing(row[s])],
         deleting <- [s \in Senders |-> task[s].kind = "deleting"]

\* The service implements the lifecycle: whatever handlers, timers, workers,
\* decisions, maintenance, failed requests, crashes and recovery do, and in
\* whichever order, a sender's standing only ever changes as promised, a challenge
\* appears as a whole or not at all, and a deletion falls within one suppression.
ImplementsLifecycle == Lifecycle!LifecycleSpec
=============================================================================

----------------------------- MODULE ReviewQueue ------------------------------
(***************************************************************************)
(* review_queue: the items of one sender, by id.  The encrypted reference  *)
(* of an item points at one message; here it is the classification that    *)
(* message had.                                                            *)
(***************************************************************************)
EXTENDS Integers

CONSTANTS
  MaxItems,  \* bound: rows of the sender
  MaxCount   \* bound: messages of one row

ASSUME ReviewQueueAssumption == MaxItems \in Nat \ {0} /\ MaxCount \in Nat \ {0}

Items == 1 .. MaxItems

\* What the service enqueues, and the class only rows of earlier releases have.
Enqueued == {"would_delete", "would_challenge"}
Classifications == Enqueued \cup {"would_quarantine"}

\* "expired" is a row whose status is still 'pending' and whose expires_at has passed: the
\* readers hide it, and only maintenance deletes it.
Item == [status : {"none", "pending", "expired", "decided", "gone"}, count : 0 .. MaxCount,
         classification : Classifications, reference : Classifications \cup {"erased"}]
NoItem == [status |-> "none", count |-> 0, classification |-> "would_challenge",
           reference |-> "erased"]
NewItem(c) == [status |-> "pending", count |-> 1, classification |-> c, reference |-> c]

IsOpen(item) == item.status \in {"pending", "expired"}
Open(q) == {i \in Items : IsOpen(q[i])}
Unused(q) == {i \in Items : q[i].status = "none"}

\* Mutant: the reference follows the newest message in any case.
MergedNewest(item, c) ==
  [item EXCEPT !.status = "pending", !.count = @ + 1, !.reference = c,
               !.classification = IF @ = "would_quarantine" THEN @ ELSE c]
\* A simulated quarantine keeps its classification and its message.  Either way the row
\* gets a new expiry, which brings an expired one back.
Merged(item, c) ==
  IF item.classification = "would_quarantine" /\ c # "would_quarantine"
  THEN [item EXCEPT !.status = "pending", !.count = @ + 1]
  ELSE [item EXCEPT !.status = "pending", !.count = @ + 1,
                    !.classification = c, !.reference = c]

CanEnqueue(q) ==
  IF Open(q) # {} THEN \A i \in Open(q) : q[i].count < MaxCount ELSE Unused(q) # {}

EnqueueReview(q, c) ==
  [i \in Items |->
     CASE IsOpen(q[i]) -> Merged(q[i], c)
       [] Open(q) = {} /\ q[i].status = "none" /\ \A j \in Unused(q) : i <= j ->
            NewItem(c)
       [] OTHER -> q[i]]

\* decide_sender_reviews
DecideSenderReviews(q) ==
  [i \in Items |-> IF IsOpen(q[i])
                   THEN [q[i] EXCEPT !.status = "decided", !.reference = "erased"]
                   ELSE q[i]]

\* The time of a pending row runs out.
Expire(q, i) == [q EXCEPT ![i].status = "expired"]

\* prune deletes it.
Prune(q, i) == [q EXCEPT ![i] = [NoItem EXCEPT !.status = "gone"]]
=============================================================================

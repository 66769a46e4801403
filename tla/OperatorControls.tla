--------------------------- MODULE OperatorControls ---------------------------
(***************************************************************************)
(* The owner's commands in Telegram Saved Messages: command handling under *)
(* _command_lock, the reply-bound case controls kept in process memory,    *)
(* and the persistent queue that removes every command and every answer    *)
(* from Saved Messages again (operator_artifacts).                         *)
(*                                                                         *)
(* Times are kept as the time that is left, in units of the clock, so the  *)
(* clock itself is not part of the state.  Map entries whose time is over  *)
(* are dropped as it passes; the code drops them before each lookup.       *)
(* Restrictions come and go as Gatekeeper.tla says; here they are only     *)
(* what a case card shows.                                                 *)
(***************************************************************************)
EXTENDS Integers, FiniteSets, FiniteSetsExt

CONSTANTS
  Senders,
  CaseLimit,      \* OPERATOR_CASE_LIMIT
  Ttl,            \* OPERATOR_CONTROL_TTL_SECONDS
  BatchLimit,     \* OPERATOR_CLEANUP_BATCH_LIMIT
  RetryBase,      \* OPERATOR_CLEANUP_RETRY_BASE_SECONDS
  RetryMax,       \* OPERATOR_CLEANUP_RETRY_MAX_SECONDS
  Overdue,        \* bound: how long a row is overdue is told apart up to here
  MaxRetries,     \* bound: retry counts are told apart up to here
  MaxMessages,    \* bound: messages written to Saved Messages
  MaxCommands,    \* bound: those of them the owner writes
  Kinds,          \* which commands: cases, allow, other
  Unreliable,     \* whether requests to Telegram fail
  CasesChange,    \* whether restrictions come and go meanwhile
  MaxRedelivered, \* bound: updates delivered again
  MaxForgotten,   \* bound: times each sender is forgotten
  MaxCrashes      \* bound: times the service process dies

ASSUME OperatorControlsAssumption ==
  /\ CaseLimit \in Nat \ {0} /\ BatchLimit \in Nat \ {0}
  /\ Ttl \in Nat \ {0} /\ RetryBase \in Nat \ {0}
  /\ RetryMax \in Nat /\ RetryMax >= RetryBase
  /\ Overdue \in Nat /\ MaxRetries \in Nat
  /\ Kinds \subseteq {"cases", "allow", "other"}
  /\ Unreliable \in BOOLEAN /\ CasesChange \in BOOLEAN
  /\ MaxMessages \in Nat /\ MaxCommands \in Nat /\ MaxRedelivered \in Nat
  /\ MaxForgotten \in Nat /\ MaxCrashes \in Nat

VARIABLES
  case,       \* each sender's restriction as a card shows it
  forgotten,  \* bound: how often each sender was forgotten
  text,       \* what the owner's commands say
  nextId,     \* the next Telegram message id
  saved,      \* commands and answers in Saved Messages; left: until sent + Ttl
  inbox,      \* updates waiting for _command_lock
  redelivered,
  up, crashes,
  handled,    \* _handled_message_ids
  controls,   \* _case_controls
  listing,    \* history: number of case listings begun
  cmd,        \* the command that holds _command_lock
  failing,    \* artifacts of the commands that failed and still have to say so
  queue,      \* operator_artifacts
  cleaner,    \* the batch artifact_cleanup_loop is deleting
  lost        \* history: messages no part of the running service knows of

world == <<case, forgotten>>
service == <<handled, controls, listing, cmd, failing>>
vars == <<world, text, nextId, saved, inbox, redelivered, up, crashes, service,
          queue, cleaner, lost>>

Ids == 1 .. MaxMessages
IdsOf(S) == {x.id : x \in S}

\* A restriction with a control identity, or without one.
Cases == {"none", "named", "anonymous"}
Item == [sender : Senders, named : BOOLEAN]
NoCommand == [pc |-> "none", items |-> {}, left |-> 0, artifacts |-> {}, target |-> {}]
NoBatch == [ids |-> {}, retry |-> 0, age |-> 0]

TypeOK ==
  /\ case \in [Senders -> Cases]
  /\ forgotten \in [Senders -> 0 .. MaxForgotten]
  /\ text \in [Ids -> [kind : {"none", "cases", "allow", "other"}, reply : 0 .. MaxMessages]]
  /\ nextId \in 1 .. MaxMessages + 1
  /\ saved \subseteq [id : Ids, left : 0 .. Ttl]
  /\ inbox \subseteq Ids /\ lost \subseteq Ids
  /\ redelivered \in 0 .. MaxRedelivered /\ crashes \in 0 .. MaxCrashes
  /\ up \in BOOLEAN
  /\ handled \subseteq [id : Ids, left : 1 .. Ttl]
  /\ controls \subseteq [id : Ids, left : 1 .. Ttl, sender : Senders,
                         listing : Nat]
  /\ listing \in Nat
  /\ cmd \in [pc : {"none", "header", "cards", "allow", "reply"},
              items : SUBSET Item, left : 0 .. Ttl, artifacts : SUBSET Ids,
              target : SUBSET Senders]
  /\ failing \subseteq SUBSET Ids
  /\ queue \subseteq [id : Ids, left : -Overdue .. Max({Ttl, RetryMax}),
                      retries : 0 .. MaxRetries]
  /\ cleaner \in [ids : SUBSET Ids, retry : Nat, age : Nat]

Init ==
  /\ case \in [Senders -> Cases]
  /\ forgotten = [s \in Senders |-> 0]
  /\ text = [i \in Ids |-> [kind |-> "none", reply |-> 0]]
  /\ nextId = 1
  /\ saved = {} /\ inbox = {} /\ lost = {}
  /\ redelivered = 0 /\ crashes = 0
  /\ up = TRUE
  /\ handled = {} /\ controls = {} /\ listing = 0
  /\ cmd = NoCommand
  /\ failing = {}
  /\ queue = {}
  /\ cleaner = NoBatch

-----------------------------------------------------------------------------
(* The queue *)

Least(a, b) == IF a <= b THEN a ELSE b

\* schedule_operator_artifacts: a row that exists keeps the earlier time.
Upsert(rows, ids, left) ==
  {IF q.id \in ids THEN [q EXCEPT !.left = Least(@, left)] ELSE q : q \in rows}
  \cup {[id |-> i, left |-> left, retries |-> 0] : i \in ids \ IdsOf(rows)}

\* Mutant: the answers are removed before their controls expire.
ScheduleArtifactsEarly(ids) == queue' = Upsert(queue, ids, Ttl - 1)
\* schedule_artifact_deletion
ScheduleArtifacts(ids) == queue' = Upsert(queue, ids, Ttl)

\* Mutant: the delay keeps growing.
RetryDelayUncapped(retry) == RetryBase * 2 ^ (retry - 1)
\* The capped exponential backoff of delete_due_artifacts.
RetryDelay(retry) ==
  Least(RetryMax, RetryBase * 2 ^ Least(retry - 1, 7))

\* retry_operator_artifacts, age units after the loop read its time.
Retried(rows, batch) ==
  {IF q.id \in batch.ids
   THEN [q EXCEPT !.left = IF RetryDelay(batch.retry) - batch.age < -Overdue
                           THEN -Overdue ELSE RetryDelay(batch.retry) - batch.age,
                  !.retries = Least(@ + 1, MaxRetries)]
   ELSE q : q \in rows}

\* Mutant: rows that were due while the loop was busy are passed over.
DueExactly == {q \in queue : q.left = 0}
Due == {q \in queue : q.left <= 0}
Precedes(p, q) == p.left < q.left \/ (p.left = q.left /\ p.id < q.id)

\* due_operator_artifacts: the first rows by delete_at, message_id.
CleanerTakes ==
  /\ up
  /\ cleaner = NoBatch
  /\ Due # {}
  /\ \E batch \in SUBSET Due :
       /\ Cardinality(batch) = Least(BatchLimit, Cardinality(Due))
       /\ \A p \in batch, q \in Due \ batch : Precedes(p, q)
       /\ cleaner' = [ids |-> IdsOf(batch), age |-> 0,
                      retry |-> Max({q.retries : q \in batch}) + 1]
  /\ UNCHANGED <<world, text, nextId, saved, inbox, redelivered, up, crashes,
                 service, queue, lost>>

Without(S, ids) == {x \in S : x.id \notin ids}

CleanerDeletes ==
  /\ up
  /\ cleaner # NoBatch
  /\ saved' = Without(saved, cleaner.ids)
  /\ queue' = Without(queue, cleaner.ids)
  /\ lost' = lost \ cleaner.ids
  /\ cleaner' = NoBatch
  /\ UNCHANGED <<world, text, nextId, inbox, redelivered, up, crashes, service>>

\* The request fails, or its answer is lost.
CleanerFails ==
  /\ Unreliable
  /\ up
  /\ cleaner # NoBatch
  /\ saved' \in {saved, Without(saved, cleaner.ids)}
  /\ queue' = Retried(queue, cleaner)
  /\ cleaner' = NoBatch
  /\ UNCHANGED <<world, text, nextId, inbox, redelivered, up, crashes, service, lost>>

-----------------------------------------------------------------------------
(* handle_message *)

Commands == {i \in Ids : text[i].kind # "none"}

OwnerSends(kind, reply) ==
  /\ kind \in Kinds
  /\ nextId <= MaxMessages /\ Cardinality(Commands) < MaxCommands
  /\ text' = [text EXCEPT ![nextId] = [kind |-> kind, reply |-> reply]]
  /\ nextId' = nextId + 1
  /\ saved' = saved \cup {[id |-> nextId, left |-> Ttl]}
  /\ inbox' = IF up THEN inbox \cup {nextId} ELSE inbox
  /\ lost' = IF up THEN lost ELSE lost \cup {nextId}
  /\ UNCHANGED <<world, redelivered, up, crashes, service, queue, cleaner>>

Redeliver(i) ==
  /\ up
  /\ redelivered < MaxRedelivered
  /\ i \in Commands /\ i \notin inbox
  /\ redelivered' = redelivered + 1
  /\ inbox' = inbox \cup {i}
  /\ UNCHANGED <<world, text, nextId, saved, up, crashes, service, queue, cleaner, lost>>

\* An update takes the command lock.
Takes(i) ==
  /\ up
  /\ cmd.pc = "none"
  /\ i \in inbox
  /\ inbox' = inbox \ {i}
  /\ UNCHANGED <<world, text, nextId, saved, redelivered, up, crashes, failing,
                 queue, cleaner, lost>>

Duplicate(i) ==
  /\ Takes(i)
  /\ i \in IdsOf(handled)
  /\ UNCHANGED <<handled, controls, listing, cmd>>

Begins(i, kind) ==
  /\ Takes(i)
  /\ text[i].kind = kind
  /\ i \notin IdsOf(handled)
  /\ handled' = handled \cup {[id |-> i, left |-> Ttl]}

Doing(pc, i, items, target) ==
  [pc |-> pc, items |-> items, left |-> 0, artifacts |-> {i}, target |-> target]

\* help, ping and unknown commands
BeginsOther(i) ==
  /\ Begins(i, "other")
  /\ cmd' = Doing("reply", i, {}, {})
  /\ UNCHANGED <<controls, listing>>

\* Mutant: the controls of an earlier listing stay.
ControlsKept == controls
\* A new listing clears the controls of the earlier ones.
ControlsCleared == {}

\* _send_cases up to its first await; which cases are the newest is left open.
BeginsCases(i) ==
  /\ Begins(i, "cases")
  /\ controls' = ControlsCleared
  /\ listing' = listing + 1
  /\ LET active == {s \in Senders : case[s] # "none"}
     IN  \E shown \in SUBSET active :
           /\ Cardinality(shown) = Least(CaseLimit, Cardinality(active))
           /\ cmd' = Doing(IF shown = {} THEN "reply" ELSE "header", i,
                           {[sender |-> s, named |-> case[s] = "named"] : s \in shown}, {})

\* _allow_case: the control is consumed before anything is tried.
BeginsAllow(i) ==
  /\ Begins(i, "allow")
  /\ LET used == {c \in controls : c.id = text[i].reply}
     IN  /\ controls' = controls \ used
         /\ cmd' = Doing(IF used = {} THEN "reply" ELSE "allow", i, {},
                         {c.sender : c \in used})
  /\ UNCHANGED listing

\* _respond: the answer appears and is recorded, or it does not appear, or it
\* appears and the request fails all the same.
Appears == saved' = saved \cup {[id |-> nextId, left |-> Ttl]} /\ nextId' = nextId + 1
Sent == nextId <= MaxMessages /\ Appears /\ UNCHANGED lost
NotSent ==
  \/ /\ Unreliable \/ nextId > MaxMessages
     /\ UNCHANGED <<saved, nextId, lost>>
  \/ Unreliable /\ nextId <= MaxMessages /\ Appears /\ lost' = lost \cup {nextId}

\* Mutant: the artifacts of a failed command are dropped.
FailDropsArtifacts == failing' = failing /\ cmd' = NoCommand
\* An exception leaves the lock and is then answered.
Fail == failing' = failing \cup {cmd.artifacts} /\ cmd' = NoCommand

Answering(pc) ==
  /\ up
  /\ cmd.pc = pc
  /\ UNCHANGED <<world, text, inbox, redelivered, up, crashes, handled, listing, cleaner>>

HeaderSent ==
  /\ Answering("header")
  /\ \/ /\ Sent
        /\ cmd' = [cmd EXCEPT !.pc = "cards", !.left = Ttl,
                              !.artifacts = @ \cup {nextId}]
        /\ UNCHANGED failing
     \/ NotSent /\ Fail
  /\ UNCHANGED <<controls, queue>>

\* One case card; the last one ends the command.
CardSent(item) ==
  /\ Answering("cards")
  /\ item \in cmd.items
  /\ \/ /\ Sent
        /\ controls' = IF item.named /\ cmd.left > 0
                       THEN controls \cup {[id |-> nextId, left |-> cmd.left,
                                            sender |-> item.sender,
                                            listing |-> listing]}
                       ELSE controls
        /\ IF cmd.items = {item}
           THEN ScheduleArtifacts(cmd.artifacts \cup {nextId}) /\ cmd' = NoCommand
           ELSE /\ cmd' = [cmd EXCEPT !.items = @ \ {item},
                                      !.artifacts = @ \cup {nextId}]
                /\ UNCHANGED queue
        /\ UNCHANGED failing
     \/ NotSent /\ Fail /\ UNCHANGED <<controls, queue>>

\* RestrictionActions.allow: the restriction is looked at again, and lifted when
\* it is there, has an identity and the dialog is restored.
AllowDecided ==
  /\ up
  /\ cmd.pc = "allow"
  /\ \E s \in cmd.target :
       case' \in {case} \cup
                 (IF case[s] = "named" THEN {[case EXCEPT ![s] = "none"]} ELSE {})
  /\ cmd' = [cmd EXCEPT !.pc = "reply"]
  /\ UNCHANGED <<forgotten, text, nextId, saved, inbox, redelivered, up, crashes,
                 handled, controls, listing, failing, queue, cleaner, lost>>

ReplySent ==
  /\ Answering("reply")
  /\ \/ /\ Sent
        /\ ScheduleArtifacts(cmd.artifacts \cup {nextId})
        /\ cmd' = NoCommand
        /\ UNCHANGED failing
     \/ NotSent /\ Fail /\ UNCHANGED queue
  /\ UNCHANGED controls

\* The error message of a failed command, outside the lock.
ErrorSent(artifacts) ==
  /\ up
  /\ artifacts \in failing
  /\ failing' = failing \ {artifacts}
  /\ \/ Sent /\ ScheduleArtifacts(artifacts \cup {nextId})
     \/ NotSent /\ ScheduleArtifacts(artifacts)
  /\ UNCHANGED <<world, text, inbox, redelivered, up, crashes, handled, controls,
                 listing, cmd, cleaner>>

-----------------------------------------------------------------------------
(* Restrictions, seen from here *)

BecomesCase(s, kind) ==
  /\ CasesChange
  /\ case[s] = "none"
  /\ case' = [case EXCEPT ![s] = kind]
  /\ UNCHANGED <<forgotten, text, nextId, saved, inbox, redelivered, up, crashes,
                 service, queue, cleaner, lost>>

\* Allowed by the Dashboard, by the owner's message: the controls stay.
Release(s) ==
  /\ CasesChange
  /\ case[s] # "none"
  /\ case' = [case EXCEPT ![s] = "none"]
  /\ UNCHANGED <<forgotten, text, nextId, saved, inbox, redelivered, up, crashes,
                 service, queue, cleaner, lost>>

\* Forgotten by the Dashboard, released or forgotten by maintenance:
\* forget_sender.
Forget(s) ==
  /\ up
  /\ case[s] # "none"
  /\ forgotten[s] < MaxForgotten
  /\ case' = [case EXCEPT ![s] = "none"]
  /\ forgotten' = [forgotten EXCEPT ![s] = @ + 1]
  /\ controls' = {c \in controls : c.sender # s}
  /\ UNCHANGED <<text, nextId, saved, inbox, redelivered, up, crashes, handled,
                 listing, cmd, failing, queue, cleaner, lost>>

-----------------------------------------------------------------------------
(* Time, crashes and start-up *)

Older(S) == {x \in {[y EXCEPT !.left = @ - 1] : y \in S} : x.left > 0}
NotBelow(floor, n) == IF n < floor THEN floor ELSE n

Tick ==
  /\ handled' = Older(handled)
  /\ controls' = Older(controls)
  /\ saved' = {[m EXCEPT !.left = NotBelow(0, @ - 1)] : m \in saved}
  /\ queue' = {[q EXCEPT !.left = NotBelow(-Overdue, @ - 1)] : q \in queue}
  /\ cmd' = [cmd EXCEPT !.left = NotBelow(0, @ - 1)]
  /\ cleaner' = IF cleaner = NoBatch THEN cleaner
                ELSE [cleaner EXCEPT !.age = Least(@ + 1, RetryMax + Overdue)]
  /\ UNCHANGED <<world, text, nextId, inbox, redelivered, up, crashes, listing,
                 failing, lost>>

Crash ==
  /\ up
  /\ crashes < MaxCrashes
  /\ crashes' = crashes + 1
  /\ up' = FALSE
  /\ inbox' = {} /\ handled' = {} /\ controls' = {} /\ failing' = {}
  /\ cmd' = NoCommand
  /\ cleaner' = NoBatch
  /\ lost' = IdsOf(saved) \ IdsOf(queue)
  /\ UNCHANGED <<world, text, nextId, saved, redelivered, listing, queue>>

\* Mutant: what the search finds is removed at once.
ReconciledNow == Upsert(queue, IdsOf(saved), 0)
\* reconcile_artifacts: every command and answer is found and scheduled for its
\* date plus the lifetime.
Reconciled ==
  {IF \E m \in saved : m.id = q.id
   THEN [q EXCEPT !.left = Least(@, (CHOOSE m \in saved : m.id = q.id).left)]
   ELSE q : q \in queue}
  \cup {[id |-> m.id, left |-> m.left, retries |-> 0] :
          m \in {n \in saved : n.id \notin IdsOf(queue)}}

\* The search may fail, and then changes nothing.
Restart ==
  /\ ~up
  /\ up' = TRUE
  /\ \/ queue' = Reconciled /\ lost' = {}
     \/ UNCHANGED <<queue, lost>>
  /\ UNCHANGED <<world, text, nextId, saved, inbox, redelivered, crashes, service,
                 cleaner>>

-----------------------------------------------------------------------------
Answer == \/ HeaderSent \/ AllowDecided \/ ReplySent
          \/ \E item \in cmd.items : CardSent(item)
          \/ \E a \in failing : ErrorSent(a)
Clean == CleanerTakes \/ CleanerDeletes \/ CleanerFails

Next ==
  \/ \E kind \in {"cases", "other"} : OwnerSends(kind, 0)
  \/ \E reply \in {0} \cup (Ids \ Commands) :
       reply < nextId /\ OwnerSends("allow", reply)
  \/ \E i \in Ids : \/ Redeliver(i) \/ Duplicate(i) \/ BeginsOther(i)
                    \/ BeginsCases(i) \/ BeginsAllow(i)
  \/ Answer \/ Clean
  \/ \E s \in Senders : \/ \E kind \in {"named", "anonymous"} : BecomesCase(s, kind)
                        \/ Release(s) \/ Forget(s)
  \/ Tick \/ Crash \/ Restart

Spec == Init /\ [][Next]_vars

\* Time passes, the event loop runs the cleanup task, the container restarts the
\* service, and Telegram does not refuse to delete a message forever.
FairSpec ==
  /\ Spec
  /\ WF_vars(Tick) /\ WF_vars(Restart) /\ WF_vars(Clean)
  /\ \A i \in Ids : SF_vars(i \in cleaner.ids /\ CleanerDeletes)

-----------------------------------------------------------------------------
\* "Automatically deleted after 15 minutes, matching the reply-control lifetime"
\* (docs/deployment.md): a card is still there to be replied to for as long as its
\* control can be used, however long the listing took.
CardOutlivesControl == \A c \in controls : c.id \in IdsOf(saved)

\* "A newer case listing invalidates earlier mappings" (docs/architecture.md), also
\* when the earlier listing failed half-way: all controls are of the last listing.
ControlsAreOfLastListing == \A c \in controls : c.listing = listing

\* "Removes rows only after Telegram confirms deletion" (docs/architecture.md): a
\* command or answer in Saved Messages is queued, or about to be, unless a crash or
\* a failed request hid it from the service.
NothingUntracked ==
  IdsOf(saved) \subseteq IdsOf(queue) \cup cmd.artifacts \cup (UNION failing)
                         \cup inbox \cup lost

\* No command or answer is removed before it is 15 minutes old, by the running loop,
\* by a retry, or by the search at start-up.
CleanupIsNotEarly ==
  [][\A m \in saved : m.id \notin IdsOf(saved') => m.left = 0]_vars

\* Every queued message is removed in the end, through failures and restarts.
QueuedIsDeleted ==
  \A i \in Ids : i \in IdsOf(queue) ~> i \notin IdsOf(queue)
=============================================================================

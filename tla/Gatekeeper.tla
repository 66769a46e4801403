------------------------------ MODULE Gatekeeper ------------------------------
(***************************************************************************)
(* The gatekeeper service around its store: screening of incoming private  *)
(* messages, the arithmetic challenge with its deadline, restrictions and  *)
(* the persistent deletion jobs, the operator (Dashboard and CLI), the     *)
(* owner's own messages, maintenance, crashes and start-up recovery.       *)
(*                                                                         *)
(* The service is one asyncio process: code between two awaits is atomic,  *)
(* and every coroutine that touches a sender holds that sender's lock      *)
(* across its awaits.  An action is therefore one such atomic segment, and *)
(* task[s] is the continuation of the coroutine that holds the lock of s.  *)
(* The CLI is another process; it takes no lock, and between two of its    *)
(* transactions the service may run and the CLI may die.                   *)
(*                                                                         *)
(* The dedicated test sender and the outbound quota are not part of this   *)
(* module: whether the quota grants a message is a free choice here.       *)
(***************************************************************************)
EXTENDS SenderStore, TelegramDialog

CONSTANTS
  MaxAttempts,    \* challenge_max_attempts of a standard challenge
  CliBudget,      \* bound: allow and revoke commands given on the CLI
  MaxCrashes,     \* bound: times the service process dies
  Environment     \* which of EnvironmentChoices a run explores

EnvironmentChoices ==
  {"telegram_fails",   \* requests to Telegram fail
   "store_fails",      \* activate_challenge raises
   "quota",            \* the outbound quota refuses a message
   "no_reference",     \* a sender without an access hash: no reference
   "contact",          \* contacts, bots and service accounts write
   "evidence",         \* a message passes the destructive evidence gate
   "owner",            \* the owner writes to the sender
   "mode",             \* mode monitor and mode protect on the CLI
   "dashboard",        \* review and case decisions
   "maintenance",      \* the twelve-hour maintenance of the heartbeat loop
   "retention"}        \* rows pass their retention period

ASSUME GatekeeperAssumption ==
  /\ MaxAttempts \in Nat \ {0}
  /\ CliBudget \in Nat
  /\ MaxCrashes \in Nat
  /\ Environment \subseteq EnvironmentChoices

VARIABLES
  \* the store
  mode,        \* settings.mode
  row,         \* sender_state
  jobs,        \* pending_actions
  nextJob,     \* its AUTOINCREMENT counter
  review,      \* senders with a pending review_queue item
  snap,        \* dialog_snapshots
  \* Telegram and the passing of time
  dialog,      \* folder and mute setting of each dialog
  owner,       \* the owner's newest message: none, or before / since updated_at
  deadline,    \* the current challenge: running, late (answers sent now are too
               \* late) or over (the processing grace has passed as well)
  \* memory of the service process
  svc,         \* down, recovering or up
  recovering,  \* senders _recover_challenges has yet to look at
  task,        \* the coroutine holding each sender lock
  timer,       \* _timeout_tasks
  workers,     \* sleeping _dialog_deletion_worker tasks, by job
  msg,         \* the _on_message tasks
  maint,       \* the maintenance pass waiting for its locks
  \* the CLI process
  cli, cliLeft,
  orphaned,    \* history: jobs a command's row write left open, until it cancels them
  \* bookkeeping
  crashes,
  era,         \* history: how often each sender left a restriction
  past         \* history of the current challenge or restriction

rowVars == <<row, era, past, owner, deadline>>
jobVars == <<jobs, nextJob, workers>>
dialogVars == <<dialog, snap>>
cliVars == <<cli, cliLeft, orphaned>>
loopVars == <<svc, recovering, maint, crashes>>
vars == <<mode, rowVars, jobVars, review, dialogVars, task, timer, msg,
          cliVars, loopVars>>

May(choice) == choice \in Environment

-----------------------------------------------------------------------------
(* State *)

TaskKinds ==
  {"idle",
   "issue_send", "issue_archive", "issue_unwind",   \* _issue_challenge
   "fallback_archive",                              \* _rate_limit_fallback
   "answer_restore",                                \* _accept_correct_answer
   "attempts_notice",                               \* _fail_exhausted_attempts
   "timeout_notice",                                \* _finalize_timeout_failure
   "owner_restore",                                 \* release_after_owner_contact
   "allow_restore",                                 \* RestrictionActions.allow
   "legitimate_restore", "spam_archive",            \* _review_decide
   "deleting"}                                      \* _dialog_deletion_worker

\* ref, fallback: the references the coroutine carries over its await; in
\* issue_unwind ref says that it got there because activate_challenge raised.
Task == [kind : TaskKinds, ref : BOOLEAN, fallback : BOOLEAN, job : 0 .. MaxJobs]
Doing(kind, ref, fallback, job) ==
  [kind |-> kind, ref |-> ref, fallback |-> fallback, job |-> job]
Idle == Doing("idle", FALSE, FALSE, 0)

\* armed: asleep; release, expire: awake and about to take the sender lock;
\* releasing: inside release_after_owner_contact.
Timer == [phase : {"none", "armed", "release", "releasing", "expire"},
          token : Messages \cup {NoChallenge}, peer : BOOLEAN]
NoTimer == [phase |-> "none", token |-> NoChallenge, peer |-> FALSE]

\* late: the challenge whose deadline had passed when the message was sent.
Msg == [pc : {"idle", "release", "releasing", "ready", "done"},
        sender : Senders, contact : BOOLEAN, trusted : BOOLEAN,
        late : Messages \cup {NoChallenge}]

\* allow, revoke, protect: checked and about to write; cancel: the row is written
\* and the jobs are still to be cancelled.
Cli == [cmd : {"none", "allow", "revoke", "protect", "cancel"}, sender : Senders]

\* keys: the senders the pass is for; held: their locks it has; waits: the one it
\* waits for; ahead: the messages that asked for that lock before the pass did, each
\* with the place in _on_message it waits at.
Maint == [keys : SUBSET Senders, held : SUBSET Senders, waits : SUBSET Senders,
          ahead : SUBSET (Messages \X {"release", "ready"})]
NoMaint == [keys |-> {}, held |-> {}, waits |-> {}, ahead |-> {}]

\* History of a challenge or restriction.  answered: a correct answer arrived in
\* time; warned: the sender was told that the dialog is about to be deleted; silent:
\* the challenge timed out without such a notice, because the process died before
\* it had one sent or recovered the timer without a reference; restored: the process
\* died when the dialog was back as it had been and the row did not say so yet; left:
\* the challenge waits for the next start-up, after a failed activation and a failed
\* rollback, or without its timer.
Past == [answered : BOOLEAN, warned : BOOLEAN, silent : BOOLEAN,
         restored : BOOLEAN, left : BOOLEAN]
NoPast == [answered |-> FALSE, warned |-> FALSE, silent |-> FALSE,
           restored |-> FALSE, left |-> FALSE]

AnySender == CHOOSE s \in Senders : TRUE
NoCli == [cmd |-> "none", sender |-> AnySender]

TypeOK ==
  /\ mode \in {"monitor", "protect"}
  /\ row \in [Senders -> Row]
  /\ jobs \in [JobIds -> Job]
  /\ nextJob \in 1 .. MaxJobs + 1
  /\ review \in SUBSET Senders
  /\ snap \in [Senders -> Snapshot]
  /\ dialog \in [Senders -> Dialog]
  /\ owner \in [Senders -> {"none", "before", "since"}]
  /\ deadline \in [Senders -> {"none", "running", "late", "over"}]
  /\ svc \in {"down", "recovering", "up"}
  /\ recovering \in SUBSET Senders
  /\ task \in [Senders -> Task]
  /\ timer \in [Senders -> Timer]
  /\ workers \in SUBSET JobIds
  /\ msg \in [Messages -> Msg]
  /\ maint \in Maint
  /\ cli \in Cli
  /\ cliLeft \in 0 .. CliBudget
  /\ orphaned \in SUBSET JobIds
  /\ crashes \in 0 .. MaxCrashes
  /\ era \in [Senders -> Nat]
  /\ past \in [Senders -> Past]

Init ==
  /\ mode \in {"monitor", "protect"}
  /\ row = [s \in Senders |-> NoRow]
  /\ jobs = [i \in JobIds |->
               [sender |-> AnySender, expected |-> 0, independent |-> FALSE,
                status |-> "absent", born |-> 0]]
  /\ nextJob = 1
  /\ review = {}
  /\ snap = [s \in Senders |-> NoSnapshot]
  /\ dialog = [s \in Senders |-> MainDialog]
  /\ owner = [s \in Senders |-> "none"]
  /\ deadline = [s \in Senders |-> "none"]
  /\ svc = "up"
  /\ recovering = {}
  /\ task = [s \in Senders |-> Idle]
  /\ timer = [s \in Senders |-> NoTimer]
  /\ workers = {}
  /\ msg = [m \in Messages |-> [pc |-> "idle", sender |-> AnySender,
                                contact |-> FALSE, trusted |-> FALSE,
                                late |-> NoChallenge]]
  /\ maint = NoMaint
  /\ cli = NoCli
  /\ cliLeft = CliBudget
  /\ orphaned = {}
  /\ crashes = 0
  /\ era = [s \in Senders |-> 0]
  /\ past = [s \in Senders |-> NoPast]

-----------------------------------------------------------------------------
(* Building blocks *)

\* History: a write that ends the restriction of a sender.  A temporary
\* suppression whose time is over has ended whatever state replaces it.
Leaves(old, new) ==
  /\ old.status \in Restricted
  /\ \/ new.status \notin Restricted
     \/ Expired(old) /\ new.revision # old.revision
EraAfter(s, r) == IF Leaves(row[s], r) THEN era[s] + 1 ELSE era[s]

\* Every statement that moves updated_at makes the owner's earlier messages
\* older than the state; starting or confirming a prompt starts its clock.
PutRow(s, r) ==
  /\ row' = [row EXCEPT ![s] = r]
  /\ era' = [era EXCEPT ![s] = EraAfter(s, r)]
  /\ owner' = [owner EXCEPT ![s] = IF r # row[s] /\ @ = "since" THEN "before"
                                                                ELSE @]
  /\ deadline' = [deadline EXCEPT ![s] = IF r.expires = NoChallenge THEN "none"
                                         ELSE IF r.status \in Starting
                                              THEN "running" ELSE @]

WriteNoting(s, r, note) ==
  /\ PutRow(s, r)
  /\ past' = [past EXCEPT ![s] = IF r.status \in GatekeeperArchived THEN note
                                                                   ELSE NoPast]
WriteRow(s, r) == WriteNoting(s, r, past[s])
Warned(s) == [past[s] EXCEPT !.warned = TRUE]

\* allow: the row is replaced and the sender's open jobs are cancelled.
AllowSender(s) ==
  /\ WriteRow(s, AllowRow(row[s]))
  /\ jobs' = CancelOpen(jobs, s)
  /\ UNCHANGED <<nextJob, workers>>

\* schedule_action followed by schedule_dialog_deletion.
Schedule(base, s, expected, independent, born) ==
  /\ nextJob <= MaxJobs
  /\ jobs' = ScheduleAction(base, nextJob, s, expected, independent, born)
  /\ nextJob' = nextJob + 1
  /\ workers' = workers \cup {nextJob}

KeepDialog == UNCHANGED dialogVars
SetDialog(s, o) ==
  /\ dialog' = [dialog EXCEPT ![s] = o.dialog]
  /\ snap' = [snap EXCEPT ![s] = o.snap]

EnqueueReview(s, ref) == review' = IF ref THEN review \cup {s} ELSE review

Become(s, t) == task' = [task EXCEPT ![s] = t]
\* Mutant: the cancelled task stays in _timeout_tasks.
CancelTimeoutLeavesTask(s) == timer' = [timer EXCEPT ![s].phase = "cancelled"]
CancelTimeout(s) == timer' = [timer EXCEPT ![s] = NoTimer]
\* Mutant: the timer of an activated or recovered challenge is not armed.
ScheduleTimeoutForgets(s, token, peer) == UNCHANGED timer
ScheduleTimeout(s, token, peer) ==
  timer' = [timer EXCEPT ![s] = [phase |-> "armed", token |-> token, peer |-> peer]]

\* Mutant: the sender lock keeps nobody out.
LockAlwaysFree(s) == s \in Senders
LockFree(s) == task[s].kind = "idle" /\ s \notin maint.held
Holding(s, kind) == svc # "down" /\ task[s].kind = kind

\* The lock goes to those who wait in the order in which they asked: a message that
\* was not waiting yet when the maintenance pass asked comes after it.
Behind(s, m) == s \in maint.waits /\ <<m, msg[m].pc>> \notin maint.ahead

\* What a Telegram call, a notice, a reference may come out as.
Results(outcomes) ==
  IF May("telegram_fails") THEN outcomes ELSE {o \in outcomes : o.ok}
Delivery == IF May("telegram_fails") THEN BOOLEAN ELSE {TRUE}
NoticeDelivery == IF May("quota") THEN BOOLEAN ELSE Delivery
References == IF May("no_reference") THEN BOOLEAN ELSE {TRUE}
\* An error in start-up recovery ends the process: that is a Crash.
ActivationRaises == IF May("store_fails") /\ svc = "up" THEN BOOLEAN ELSE {FALSE}

-----------------------------------------------------------------------------
(* Incoming messages, before the sender lock *)

\* _has_prior_outgoing as _on_message asks it for the sender's status.
OwnerSeen(s) ==
  IF row[s].status = "unknown" THEN owner[s] # "none"
  ELSE row[s].status \in {"provisional"} \cup GatekeeperArchived /\ owner[s] = "since"

\* A failed lookup counts as no contact.
Lookups(s) == {OwnerSeen(s)} \cup (IF May("telegram_fails") THEN {FALSE} ELSE {})

\* What a message that arrives now may have been too late for when it was sent.
\* While the prompt is being sent its deadline is still to be set.
Missed(s) ==
  {NoChallenge} \cup
    (IF deadline[s] \in {"late", "over"} /\ row[s].status # "challenge_issuing"
     THEN {row[s].expires} ELSE {})

Arrive(s, m) ==
  /\ svc = "up"
  /\ msg[m].pc = "idle"
  /\ \E contact \in (IF May("contact") THEN BOOLEAN ELSE {FALSE}) :
     \E seen \in (IF contact THEN {FALSE} ELSE Lookups(s)), late \in Missed(s) :
       LET archived == row[s].status \in GatekeeperArchived
       IN  msg' = [msg EXCEPT ![m] =
                     [pc |-> IF seen /\ archived THEN "release" ELSE "ready",
                      sender |-> s, contact |-> contact,
                      trusted |-> seen /\ ~archived, late |-> late]]
  /\ UNCHANGED <<mode, rowVars, jobVars, review, dialogVars, task, timer,
                 cliVars, loopVars>>

\* release_after_owner_contact, called by _on_message.
OwnerReleaseStarts(s, m) ==
  /\ svc = "up"
  /\ msg[m].pc = "release" /\ msg[m].sender = s
  /\ LockFree(s) /\ ~Behind(s, m)
  /\ IF row[s].status \in GatekeeperArchived
     THEN /\ Become(s, Doing("owner_restore", FALSE, FALSE, 0))
          /\ msg' = [msg EXCEPT ![m].pc = "releasing"]
     ELSE /\ msg' = [msg EXCEPT ![m].pc = "ready"]
          /\ UNCHANGED task
  /\ UNCHANGED <<mode, rowVars, jobVars, review, dialogVars, timer, cliVars,
                 loopVars>>

\* ... after its restore, whether _on_message or the timeout worker called it.
OwnerRestored(s) ==
  /\ Holding(s, "owner_restore")
  /\ \E o \in Results(Restore(dialog[s], snap[s])) :
       /\ SetDialog(s, o)
       /\ IF o.ok
          THEN AllowSender(s) /\ CancelTimeout(s)
          ELSE /\ timer' = [timer EXCEPT ![s].phase =
                              IF @ = "releasing" THEN "expire" ELSE @]
               /\ UNCHANGED <<rowVars, jobVars>>
  /\ Become(s, Idle)
  /\ msg' = [m \in Messages |->
               IF msg[m].sender = s /\ msg[m].pc = "releasing"
               THEN [msg[m] EXCEPT !.pc = "ready"] ELSE msg[m]]
  /\ UNCHANGED <<mode, review, cliVars, loopVars>>

-----------------------------------------------------------------------------
(* _handle_locked.  A message is claimed when its handler takes the lock.  *)

Taken(s, m) ==
  /\ svc = "up"
  /\ msg[m].pc = "ready" /\ msg[m].sender = s
  /\ LockFree(s) /\ ~Behind(s, m)
  /\ msg' = [msg EXCEPT ![m].pc = "done"]
  /\ UNCHANGED <<mode, dialog, cliVars, loopVars>>

\* _settle_before_screening first releases a suppression whose time is over.
SettledRow(s) == IF Expired(row[s]) THEN ReleaseRow(row[s]) ELSE row[s]
SettledJobs(s) == IF Expired(row[s]) THEN CancelOpen(jobs, s) ELSE jobs
SettledReview(s) == IF Expired(row[s]) THEN review \ {s} ELSE review
SettledSnap(s) ==
  IF Expired(row[s]) THEN [snap EXCEPT ![s] = NoSnapshot] ELSE snap

Trusts(s, m) ==
  \/ msg[m].contact
  \/ msg[m].trusted /\ SettledRow(s).status \in {"unknown", "provisional"}

\* Mutant: a quarantined sender is screened again.
ScreenedHeld(s, m) ==
  /\ Taken(s, m)
  /\ ~Trusts(s, m)
  /\ SettledRow(s).status \in {"unknown", "provisional", "challenged", "quarantined"}

\* The message goes on to screening or to the challenge.
Screened(s, m) ==
  /\ Taken(s, m)
  /\ ~Trusts(s, m)
  /\ SettledRow(s).status \in {"unknown", "provisional", "challenged"}

HandleSuppressed(s, m) ==
  /\ Taken(s, m)
  /\ row[s].status = "suppressed" /\ ~Expired(row[s])
  /\ \E ref \in References :
       IF mode = "protect" /\ (ref \/ row[s].actionRef)
       THEN Schedule(jobs, s, row[s].revision, FALSE, era[s])
       ELSE UNCHANGED jobVars
  /\ UNCHANGED <<rowVars, review, snap, task, timer>>

HandleTrusted(s, m) ==
  /\ Taken(s, m)
  /\ row[s].status # "suppressed" \/ Expired(row[s])
  /\ Trusts(s, m)
  /\ WriteRow(s, AllowRow(SettledRow(s)))
  /\ jobs' = CancelOpen(jobs, s)
  /\ review' = SettledReview(s)
  /\ snap' = SettledSnap(s)
  /\ UNCHANGED <<nextJob, workers, task, timer>>

\* Allowed, quarantined and starting senders, and provisional senders without
\* a new signal.
HandleDecided(s, m) ==
  /\ Taken(s, m)
  /\ ~Trusts(s, m)
  /\ row[s].status \in {"allowed", "quarantined", "provisional"} \cup Starting
  /\ UNCHANGED <<rowVars, jobVars, review, snap, task, timer>>

\* _schedule_permanent_suppression, or the simulated result in monitor mode.
HandleEvidence(s, m) ==
  /\ May("evidence")
  /\ Screened(s, m)
  /\ \E ref \in References :
       LET r == SuppressRow(SettledRow(s), "null", TRUE, TRUE)
       IN  IF mode = "protect" /\ ref
           THEN /\ WriteRow(s, r)
                /\ Schedule(SettledJobs(s), s, r.revision, FALSE, EraAfter(s, r))
                /\ CancelTimeout(s)
                /\ review' = SettledReview(s)
           ELSE /\ WriteRow(s, SettledRow(s))
                /\ jobs' = SettledJobs(s)
                /\ review' = IF mode = "monitor" /\ ref THEN review \cup {s}
                                                        ELSE SettledReview(s)
                /\ UNCHANGED <<nextJob, workers, timer>>
  /\ snap' = SettledSnap(s)
  /\ UNCHANGED task

\* Monitor mode only records what would have been done.
HandleMonitored(s, m) ==
  /\ Screened(s, m)
  /\ mode = "monitor"
  /\ SettledRow(s).status # "challenged"
  /\ \E ref \in References :
       review' = IF ref THEN review \cup {s} ELSE SettledReview(s)
  /\ WriteRow(s, SettledRow(s))
  /\ jobs' = SettledJobs(s)
  /\ snap' = SettledSnap(s)
  /\ UNCHANGED <<nextJob, workers, task, timer>>

\* _issue_challenge up to its first await, or _rate_limit_fallback up to its.
HandleIssue(s, m) ==
  /\ Screened(s, m)
  /\ mode = "protect"
  /\ SettledRow(s).status # "challenged"
  /\ \E ref \in References, profile \in {"standard", "strict"} :
       \/ /\ WriteRow(s, BeginChallengeIssue(SettledRow(s), m, profile, ref))
          /\ Become(s, Doing("issue_send", FALSE, FALSE, 0))
       \/ /\ May("quota")
          /\ WriteRow(s, SettledRow(s))
          /\ Become(s, Doing("fallback_archive", ref, FALSE, 0))
  /\ jobs' = SettledJobs(s)
  /\ review' = SettledReview(s)
  /\ snap' = SettledSnap(s)
  /\ UNCHANGED <<nextJob, workers, timer>>

-----------------------------------------------------------------------------
(* The rest of _issue_challenge; recover_incomplete_challenge shares it.   *)

IssueSent(s) ==
  /\ Holding(s, "issue_send")
  /\ \E sent \in Delivery :
       /\ IF sent /\ row[s].status = "challenge_issuing"
          THEN /\ WriteRow(s, BindChallenge(row[s]))
               /\ Become(s, Doing("issue_archive", FALSE, FALSE, 0))
          ELSE /\ WriteRow(s, ResetIncomplete(row[s]))
               /\ Become(s, Idle)
       /\ timer' = IF sent THEN timer ELSE [timer EXCEPT ![s] = NoTimer]
  /\ UNCHANGED <<mode, jobVars, review, dialogVars, msg, cliVars, loopVars>>

\* Mutant: the challenge is activated whatever became of the row during the request.
IssueArchivedUnchecked(s) ==
  /\ Holding(s, "issue_archive")
  /\ \E o \in Results(ArchiveAndMute(dialog[s], snap[s])) :
       /\ SetDialog(s, o)
       /\ o.ok
       /\ WriteNoting(s, ActivateChallenge(row[s]), NoPast)
       /\ ScheduleTimeout(s, row[s].expires, TRUE)
  /\ Become(s, Idle)
  /\ UNCHANGED <<mode, jobVars, review, msg, cliVars, loopVars>>

IssueArchived(s) ==
  /\ Holding(s, "issue_archive")
  /\ \E o \in Results(ArchiveAndMute(dialog[s], snap[s])) :
       /\ SetDialog(s, o)
       /\ \/ /\ o.ok /\ row[s].status = "challenge_archiving"
             /\ WriteNoting(s, ActivateChallenge(row[s]), NoPast)
             /\ ScheduleTimeout(s, row[s].expires, TRUE)
             /\ Become(s, Idle)
          \/ /\ o.ok
             /\ \E raised \in ActivationRaises :
                  /\ raised \/ row[s].status # "challenge_archiving"
                  /\ Become(s, Doing("issue_unwind", raised, FALSE, 0))
             /\ UNCHANGED <<rowVars, timer>>
          \/ /\ ~o.ok
             /\ WriteRow(s, ResetIncomplete(row[s]))
             /\ CancelTimeout(s)
             /\ Become(s, Idle)
  /\ UNCHANGED <<mode, jobVars, review, msg, cliVars, loopVars>>

\* The archive step is taken back.  When that fails the row keeps the archiving
\* phase for the next start-up, and no coroutine is left to work on it.
IssueUnwound(s) ==
  /\ Holding(s, "issue_unwind")
  /\ \E o \in Results(Restore(dialog[s], snap[s])) :
       /\ SetDialog(s, o)
       /\ IF o.ok
          THEN WriteRow(s, ResetIncomplete(row[s]))
          ELSE /\ past' = [past EXCEPT ![s].left = row[s].status \in Starting]
               /\ UNCHANGED <<row, era, owner, deadline>>
  /\ IF task[s].ref THEN CancelTimeout(s) ELSE UNCHANGED timer
  /\ Become(s, Idle)
  /\ UNCHANGED <<mode, jobVars, review, msg, cliVars, loopVars>>

FallbackArchived(s) ==
  /\ Holding(s, "fallback_archive")
  /\ \E o \in Results(ArchiveAndMute(dialog[s], snap[s])) :
       /\ SetDialog(s, o)
       /\ WriteRow(s, IF o.ok THEN QuarantineRow(row[s], task[s].ref) ELSE row[s])
  /\ EnqueueReview(s, task[s].ref)
  /\ Become(s, Idle)
  /\ UNCHANGED <<mode, jobVars, timer, msg, cliVars, loopVars>>

-----------------------------------------------------------------------------
(* _handle_challenge *)

Answered(s, m) == Screened(s, m) /\ row[s].status = "challenged"
InTime(s, m) == Answered(s, m) /\ msg[m].late # row[s].expires

\* A message sent after the deadline ends the challenge as a timeout.
HandleLateReply(s, m) ==
  /\ Answered(s, m)
  /\ msg[m].late = row[s].expires
  /\ \E ref \in References :
       Become(s, Doing("timeout_notice", FALSE, ref, 0))
  /\ WriteRow(s, ExpireChallenge(row[s], row[s].actionRef))
  /\ CancelTimeout(s)
  /\ UNCHANGED <<jobVars, review, snap>>

\* A message older than the prompt, or one that is not a number, costs no
\* attempt; the first of the latter is answered with a hint.
HandleUnusableReply(s, m) ==
  /\ InTime(s, m)
  /\ \E hinted \in BOOLEAN : row' = [row EXCEPT ![s].guidance = @ \/ hinted]
  /\ UNCHANGED <<era, past, owner, deadline, jobVars, review, snap, task, timer>>

HandleCorrectAnswer(s, m) ==
  /\ InTime(s, m)
  /\ \E ref \in References : Become(s, Doing("answer_restore", ref, FALSE, 0))
  /\ past' = [past EXCEPT ![s].answered = TRUE]
  /\ UNCHANGED <<row, era, owner, deadline, jobVars, review, snap, timer>>

AttemptLimit(r) == IF r.profile = "strict" THEN 1 ELSE MaxAttempts

HandleWrongAnswer(s, m) ==
  /\ InTime(s, m)
  /\ WriteRow(s, [row[s] EXCEPT !.attempts = @ + 1])
  /\ IF row[s].attempts + 1 >= AttemptLimit(row[s])
     THEN /\ \E ref \in References :
               Become(s, Doing("attempts_notice", ref, row[s].actionRef, 0))
          /\ CancelTimeout(s)
     ELSE UNCHANGED <<task, timer>>
  /\ UNCHANGED <<jobVars, review, snap>>

\* The rest of _accept_correct_answer.
AnswerRestored(s) ==
  /\ Holding(s, "answer_restore")
  /\ \E o \in Results(Restore(dialog[s], snap[s])) :
       /\ SetDialog(s, o)
       /\ IF o.ok
          THEN /\ WriteRow(s, ProvisionalRow(row[s]))
               /\ CancelTimeout(s)
               /\ UNCHANGED review
          ELSE /\ EnqueueReview(s, task[s].ref)
               /\ UNCHANGED <<rowVars, timer>>
  /\ Become(s, Idle)
  /\ UNCHANGED <<mode, jobVars, msg, cliVars, loopVars>>

\* Mutant: a notice that was not delivered does not matter.
DeletesUnwarned(sent, ref) == ref
Deletes(sent, ref) == sent /\ ref

\* The rest of _fail_exhausted_attempts: warned, the sender is suppressed and
\* the dialog deleted; without a warning or a reference it is quarantined.
AttemptsNotified(s) ==
  /\ Holding(s, "attempts_notice")
  /\ \E sent \in NoticeDelivery :
       LET ref == task[s].ref
           r == IF Deletes(sent, ref \/ task[s].fallback)
                THEN SuppressRow(row[s], "future", TRUE, TRUE)
                ELSE QuarantineRow(row[s], ~sent /\ ref)
       IN  /\ WriteNoting(s, r, IF sent THEN Warned(s) ELSE past[s])
           /\ IF r.status = "suppressed"
              THEN Schedule(jobs, s, r.revision, FALSE, EraAfter(s, r))
              ELSE UNCHANGED jobVars
           /\ EnqueueReview(s, ~sent /\ ref)
  /\ Become(s, Idle)
  /\ UNCHANGED <<mode, dialogVars, timer, msg, cliVars, loopVars>>

\* The rest of _finalize_timeout_failure, which reads the row again after its
\* await.
TimeoutNotified(s) ==
  /\ Holding(s, "timeout_notice")
  /\ \E sent \in NoticeDelivery :
       LET ref == row[s].actionRef \/ task[s].fallback
       IN  IF Deletes(sent, ref)
           THEN /\ Schedule(jobs, s, row[s].revision, FALSE, era[s])
                /\ past' = [past EXCEPT ![s] = Warned(s)]
                /\ UNCHANGED <<row, era, owner, deadline, review>>
           ELSE /\ WriteRow(s, QuarantineRow(row[s], ref))
                /\ EnqueueReview(s, ref)
                /\ UNCHANGED jobVars
  /\ Become(s, Idle)
  /\ UNCHANGED <<mode, dialogVars, timer, msg, cliVars, loopVars>>

-----------------------------------------------------------------------------
(* The challenge timeout *)

\* _timeout_worker wakes after the deadline and its grace and asks whether the
\* owner has written since.
TimerWakes(s) ==
  /\ svc # "down"
  /\ timer[s].phase = "armed"
  /\ deadline[s] = "over" \/ row[s].expires # timer[s].token
  /\ \E seen \in Lookups(s) :
       timer' = [timer EXCEPT ![s].phase =
                   IF timer[s].peer /\ Expires(row[s], timer[s].token) /\ seen
                   THEN "release" ELSE "expire"]
  /\ UNCHANGED <<mode, rowVars, jobVars, review, dialogVars, task, msg, cliVars,
                 loopVars>>

TimerReleases(s) ==
  /\ svc # "down"
  /\ timer[s].phase = "release"
  /\ LockFree(s)
  /\ IF row[s].status \in GatekeeperArchived
     THEN /\ Become(s, Doing("owner_restore", FALSE, FALSE, 0))
          /\ timer' = [timer EXCEPT ![s].phase = "releasing"]
     ELSE /\ timer' = [timer EXCEPT ![s].phase = "expire"]
          /\ UNCHANGED task
  /\ UNCHANGED <<mode, rowVars, jobVars, review, dialogVars, msg, cliVars, loopVars>>

\* GatekeeperService.expire_challenge up to the notice.
TimerExpires(s) ==
  /\ svc # "down"
  /\ timer[s].phase = "expire"
  /\ LockFree(s)
  /\ IF Expires(row[s], timer[s].token)
     THEN /\ WriteNoting(s, ExpireChallenge(row[s], row[s].actionRef),
                         [past[s] EXCEPT !.silent = ~timer[s].peer])
          /\ IF timer[s].peer
             THEN Become(s, Doing("timeout_notice", FALSE, FALSE, 0))
             ELSE UNCHANGED task
     ELSE UNCHANGED <<rowVars, task>>
  /\ CancelTimeout(s)
  /\ UNCHANGED <<mode, jobVars, review, dialogVars, msg, cliVars, loopVars>>

-----------------------------------------------------------------------------
(* _dialog_deletion_worker *)

\* The job is no longer pending, or claim_action refuses it: the worker ends
\* and leaves the job as it is.
WorkerGivesUp(i) ==
  /\ svc # "down"
  /\ i \in workers
  /\ LET s == jobs[i].sender
     IN  \/ jobs[i].status # "pending"
         \/ LockFree(s) /\ ~Claimable(jobs[i], row[s], mode)
  /\ workers' = workers \ {i}
  /\ UNCHANGED <<mode, rowVars, jobs, nextJob, review, dialogVars, task, timer,
                 msg, cliVars, loopVars>>

WorkerClaims(i) ==
  /\ svc # "down"
  /\ i \in workers
  /\ LET s == jobs[i].sender
     IN  /\ LockFree(s)
         /\ Claimable(jobs[i], row[s], mode)
         /\ Become(s, Doing("deleting", FALSE, FALSE, i))
  /\ workers' = workers \ {i}
  /\ UNCHANGED <<mode, rowVars, jobs, nextJob, review, dialogVars, timer, msg,
                 cliVars, loopVars>>

\* finish_action, then clear_action_reference or enqueue_action_failure.
DeletionEnds(s) ==
  /\ Holding(s, "deleting")
  /\ LET i == task[s].job
     IN  \E o \in Results(DeleteDialog(dialog[s], snap[s])) :
           /\ SetDialog(s, o)
           /\ jobs' = FinishAction(jobs, i, IF o.ok THEN "completed" ELSE "failed")
           /\ row' = IF o.ok /\ row[s].status = "suppressed"
                             /\ row[s].revision = jobs[i].expected
                     THEN [row EXCEPT ![s].actionRef = FALSE] ELSE row
           /\ EnqueueReview(s, ~o.ok)
  /\ Become(s, Idle)
  /\ UNCHANGED <<mode, era, past, owner, deadline, nextJob, workers, timer, msg, cliVars,
                 loopVars>>

-----------------------------------------------------------------------------
(* The operator: Dashboard reviews and cases, Saved Messages commands      *)

\* Mutant: a decision does not wait for the sender lock.
DashboardUnlocked(s) == May("dashboard") /\ svc = "up"
Dashboard(s) ==
  /\ May("dashboard")
  /\ svc = "up"
  /\ LockFree(s)

\* Committing the decision "legitimate".
MarkLegitimate(s) ==
  /\ AllowSender(s)
  /\ CancelTimeout(s)
  /\ review' = review \ {s}

ReviewLegitimate(s) ==
  /\ Dashboard(s)
  /\ s \in review
  /\ IF row[s].status \in GatekeeperArchived
     THEN /\ Become(s, Doing("legitimate_restore", FALSE, FALSE, 0))
          /\ UNCHANGED <<rowVars, jobVars, timer, review>>
     ELSE MarkLegitimate(s) /\ UNCHANGED task
  /\ UNCHANGED <<mode, dialogVars, msg, cliVars, loopVars>>

LegitimateRestored(s) ==
  /\ Holding(s, "legitimate_restore")
  /\ \E o \in Results(Restore(dialog[s], snap[s])) :
       /\ SetDialog(s, o)
       /\ IF o.ok THEN MarkLegitimate(s)
                  ELSE UNCHANGED <<rowVars, jobVars, timer, review>>
  /\ Become(s, Idle)
  /\ UNCHANGED <<mode, msg, cliVars, loopVars>>

\* Committing the decision "spam": the open jobs are cancelled with the review,
\* the suppression is permanent, archived and deleted whatever the mode.
MarkSpam(s) ==
  LET r == SuppressRow(row[s], "null", TRUE, TRUE)
  IN  /\ WriteRow(s, [r EXCEPT !.archived = TRUE])
      /\ Schedule(CancelOpen(jobs, s), s, r.revision, TRUE, EraAfter(s, r))
      /\ CancelTimeout(s)
      /\ review' = review \ {s}

ReviewSpam(s) ==
  /\ Dashboard(s)
  /\ s \in review
  /\ IF row[s].status \in GatekeeperArchived
     THEN MarkSpam(s) /\ UNCHANGED task
     ELSE /\ Become(s, Doing("spam_archive", FALSE, FALSE, 0))
          /\ UNCHANGED <<rowVars, jobVars, timer, review>>
  /\ UNCHANGED <<mode, dialogVars, msg, cliVars, loopVars>>

SpamArchived(s) ==
  /\ Holding(s, "spam_archive")
  /\ \E o \in Results(ArchiveAndMute(dialog[s], snap[s])) :
       /\ SetDialog(s, o)
       /\ IF o.ok THEN MarkSpam(s)
                  ELSE UNCHANGED <<rowVars, jobVars, timer, review>>
  /\ Become(s, Idle)
  /\ UNCHANGED <<mode, msg, cliVars, loopVars>>

ReviewDismiss(s) ==
  /\ Dashboard(s)
  /\ s \in review
  /\ review' = review \ {s}
  /\ jobs' = CancelOpen(jobs, s)
  /\ UNCHANGED <<mode, rowVars, nextJob, workers, dialogVars, task, timer, msg,
                 cliVars, loopVars>>

\* Keep and archive, and back: archived_at only.
CaseArchive(s) ==
  /\ Dashboard(s)
  /\ Permanent(row[s])
  /\ row' = [row EXCEPT ![s].archived = ~@]
  /\ UNCHANGED <<mode, era, past, owner, deadline, jobVars, review, dialogVars, task,
                 timer, msg, cliVars, loopVars>>

\* Mutant: a restriction nobody has confirmed is forgotten too.
ForgettableUnconfirmed(s) == Permanent(row[s]) /\ ~HasOpenAction(jobs, s)
\* The WHERE clause shared by forget_restriction and prune.
Forgettable(s) == ArchivedPermanent(row[s]) /\ ~HasOpenAction(jobs, s)

\* forget_restriction erases every row linked to the sender.
CaseForget(s) ==
  /\ Dashboard(s)
  /\ Forgettable(s)
  /\ WriteRow(s, NoRow)
  /\ jobs' = EraseJobs(jobs, JobsOf(jobs, s))
  /\ review' = review \ {s}
  /\ snap' = [snap EXCEPT ![s] = NoSnapshot]
  /\ CancelTimeout(s)
  /\ UNCHANGED <<mode, nextJob, workers, dialog, task, msg, cliVars, loopVars>>

\* RestrictionActions.allow, from a case page or a Saved Messages command.
CaseAllow(s) ==
  /\ Dashboard(s)
  /\ row[s].status \in Restricted
  /\ row[s].restrictionRef
  /\ Become(s, Doing("allow_restore", FALSE, FALSE, 0))
  /\ UNCHANGED <<mode, rowVars, jobVars, review, dialogVars, timer, msg, cliVars,
                 loopVars>>

AllowRestored(s) ==
  /\ Holding(s, "allow_restore")
  /\ \E o \in Results(Restore(dialog[s], snap[s])) :
       /\ SetDialog(s, o)
       /\ IF o.ok THEN AllowSender(s) /\ CancelTimeout(s)
                  ELSE UNCHANGED <<rowVars, jobVars, timer>>
  /\ Become(s, Idle)
  /\ UNCHANGED <<mode, review, msg, cliVars, loopVars>>

\* _release_legacy: a restriction without a control identity, by numeric id.
ReleaseLegacy(s) ==
  /\ Dashboard(s)
  /\ row[s].status \in Restricted
  /\ ~row[s].restrictionRef
  /\ AllowSender(s)
  /\ snap' = [snap EXCEPT ![s] = NoSnapshot]
  /\ CancelTimeout(s)
  /\ UNCHANGED <<mode, review, dialog, task, msg, cliVars, loopVars>>

-----------------------------------------------------------------------------
(* The command line, a process of its own: it checks, then it acts.        *)

CliChecksSender(s, cmd) ==
  /\ cli.cmd = "none"
  /\ cliLeft > 0
  /\ row[s].status \notin DashboardOnly
  /\ cli' = [cmd |-> cmd, sender |-> s]
  /\ cliLeft' = cliLeft - 1
  /\ UNCHANGED <<mode, rowVars, jobVars, review, dialogVars, task, timer, msg,
                 orphaned, loopVars>>

\* The first transaction of StateStore.allow and revoke: the row.  The history stays:
\* a handler may be at work on the challenge it is about.
CliWritesSender ==
  /\ cli.cmd \in {"allow", "revoke"}
  /\ LET s == cli.sender
     IN  /\ PutRow(s, IF cli.cmd = "allow" THEN AllowRow(row[s])
                                           ELSE RevokeRow(row[s]))
         /\ orphaned' = orphaned \cup {i \in JobIds : IsOpen(jobs[i], s)}
  /\ cli' = [cli EXCEPT !.cmd = "cancel"]
  /\ UNCHANGED <<mode, past, jobVars, review, dialogVars, task, timer, msg, cliLeft,
                 loopVars>>

\* The second: resolve_sender_actions.
CliCancels ==
  /\ cli.cmd = "cancel"
  /\ jobs' = CancelOpen(jobs, cli.sender)
  /\ orphaned' = orphaned \ JobsOf(jobs, cli.sender)
  /\ cli' = NoCli
  /\ UNCHANGED <<mode, rowVars, nextJob, workers, review, dialogVars, task, timer,
                 msg, cliLeft, loopVars>>

\* The command is killed before its next transaction.
CliDies ==
  /\ cli.cmd # "none"
  /\ cli' = NoCli
  /\ UNCHANGED <<mode, rowVars, jobVars, review, dialogVars, task, timer, msg,
                 cliLeft, orphaned, loopVars>>

CliMonitor ==
  /\ May("mode")
  /\ cli.cmd = "none"
  /\ mode' = "monitor"
  /\ jobs' = CancelAutomatic(jobs)
  /\ review' = review \cup
       {jobs[i].sender : i \in {k \in JobIds : jobs[k].status = "pending"
                                               /\ ~jobs[k].independent}}
  /\ UNCHANGED <<rowVars, nextJob, workers, dialogVars, task, timer, msg, cliVars,
                 loopVars>>

\* protect_preflight
CliChecksProtect ==
  /\ May("mode")
  /\ cli.cmd = "none"
  /\ \A s \in Senders : row[s].status \notin Starting \cup {"challenged"}
  /\ \A i \in JobIds : jobs[i].status # "failed"
  /\ ~UnsafePending(jobs, row)
  /\ cli' = [NoCli EXCEPT !.cmd = "protect"]
  /\ UNCHANGED <<mode, rowVars, jobVars, review, dialogVars, task, timer, msg,
                 cliLeft, orphaned, loopVars>>

CliProtect ==
  /\ cli.cmd = "protect"
  /\ mode' = "protect"
  /\ cli' = NoCli
  /\ UNCHANGED <<rowVars, jobVars, review, dialogVars, task, timer, msg, cliLeft,
                 orphaned, loopVars>>

-----------------------------------------------------------------------------
(* The maintenance pass of _heartbeat_loop: it collects the senders, takes *)
(* their locks one after the other, and prunes when it has them all.  A    *)
(* free lock is taken without giving way to anyone, so that only a lock    *)
(* held by somebody else lets other coroutines run in between.             *)

\* Finished jobs that retention may drop.
Droppable(i) ==
  \/ jobs[i].status \in {"completed", "cancelled"}
  \/ jobs[i].status = "failed" /\ row[jobs[i].sender].status \notin Restricted

\* StateStore.prune, and the timers the pass cancels afterwards.
Prunes(keys) ==
  LET released == {s \in keys : Expired(row[s])}
      forgotten == {s \in keys : Forgettable(s)}
      gone == released \cup forgotten
      pruned == [s \in Senders |-> IF s \in released THEN ReleaseRow(row[s])
                                   ELSE IF s \in forgotten THEN NoRow ELSE row[s]]
      cancelled == [i \in JobIds |->
                      IF \E s \in released : IsOpen(jobs[i], s)
                      THEN [jobs[i] EXCEPT !.status = "cancelled"] ELSE jobs[i]]
      lost == {s \in keys : pruned[s].status = "challenged"}
  IN  /\ row' = pruned
      /\ era' = [s \in Senders |-> IF s \in gone THEN era[s] + 1 ELSE era[s]]
      /\ past' = [s \in Senders |->
                    CASE s \in gone -> NoPast
                      [] s \in lost -> [past[s] EXCEPT !.left = TRUE]
                      [] OTHER -> past[s]]
      /\ owner' = [s \in Senders |-> IF s \in gone /\ owner[s] = "since"
                                     THEN "before" ELSE owner[s]]
      /\ snap' = [s \in Senders |-> IF s \in gone THEN NoSnapshot ELSE snap[s]]
      /\ \E stale \in SUBSET (IF May("retention") THEN review ELSE {}),
            old \in SUBSET (IF May("retention")
                            THEN {i \in JobIds : Droppable(i)} ELSE {}) :
           /\ review' = review \ (gone \cup stale)
           /\ jobs' = EraseJobs(cancelled,
                        old \cup {i \in JobIds : jobs[i].sender \in forgotten})
      /\ timer' = [s \in Senders |->
                     IF s \in keys /\ pruned[s].status \notin Restricted
                     THEN NoTimer ELSE timer[s]]

\* Mutant: the pass goes on with the first lock it gets.
HoldsOneLock(keys) == keys = {} \/ \E s \in keys : task[s].kind = "idle"
\* Every lock is the pass's own or is free, and so taken.
HoldsLocks(keys) == \A s \in keys : task[s].kind = "idle"

\* With these locks held the pass takes the others, or as many as are free before it
\* has to wait.
TakesLocks(keys, held) ==
  \/ /\ HoldsLocks(keys)
     /\ Prunes(keys)
     /\ maint' = NoMaint
     /\ UNCHANGED <<mode, deadline, nextJob, workers, dialog, task, msg, cliVars,
                    svc, recovering, crashes>>
  \/ /\ \E more \in SUBSET {s \in keys \ held : task[s].kind = "idle"},
           k \in keys \ held :
          /\ task[k].kind # "idle"
          /\ maint' = [keys |-> keys, held |-> held \cup more, waits |-> {k},
                       ahead |-> {<<m, msg[m].pc>> :
                                    m \in {n \in Messages :
                                             /\ msg[n].sender = k
                                             /\ msg[n].pc \in {"release", "ready"}}}]
     /\ UNCHANGED <<mode, rowVars, jobVars, review, dialogVars, task, timer, msg,
                    cliVars, svc, recovering, crashes>>

MaintenanceCollects ==
  /\ May("maintenance")
  /\ svc = "up"
  /\ maint = NoMaint
  /\ \E old \in SUBSET (IF May("retention")
                        THEN {s \in Senders : ArchivedPermanent(row[s])} ELSE {}) :
       TakesLocks({s \in Senders : Expired(row[s])} \cup old, {})

\* The lock it waits for is free, and those who had asked before have had it.
MaintenanceProceeds ==
  /\ svc = "up"
  /\ maint.waits # {}
  /\ \A s \in maint.waits : task[s].kind = "idle"
  /\ \A a \in maint.ahead : msg[a[1]].pc # a[2]
  /\ TakesLocks(maint.keys, maint.held \cup maint.waits)

-----------------------------------------------------------------------------
(* Crashes and start-up *)

\* Where the process can die inside the Telegram call of a lock holder.
Interrupted(s) ==
  CASE task[s].kind \in {"issue_archive", "fallback_archive", "spam_archive"} ->
         CutArchive(dialog[s], snap[s])
    [] task[s].kind \in {"issue_unwind", "answer_restore", "owner_restore",
                         "allow_restore", "legitimate_restore"} ->
         CutRestore(dialog[s], snap[s])
    [] task[s].kind = "deleting" -> CutDelete(dialog[s], snap[s])
    [] OTHER -> {Result(FALSE, dialog[s], snap[s])}

GoesDown ==
  /\ svc # "down"
  /\ crashes < MaxCrashes
  /\ crashes' = crashes + 1
  /\ svc' = "down"
  /\ recovering' = {}
  /\ task' = [s \in Senders |-> Idle]
  /\ timer' = [s \in Senders |-> NoTimer]
  /\ workers' = {}
  /\ msg' = [m \in Messages |-> IF msg[m].pc = "idle" THEN msg[m]
                                ELSE [msg[m] EXCEPT !.pc = "done"]]
  /\ maint' = NoMaint

Restoring == {"answer_restore", "owner_restore", "allow_restore", "legitimate_restore"}

\* History: what the death of the process leaves half done for a sender.
CutShort(s, sn) ==
  [past[s] EXCEPT !.silent = @ \/ task[s].kind = "timeout_notice",
                  !.restored = @ \/ (task[s].kind \in Restoring /\ sn = NoSnapshot),
                  !.left = FALSE]

DialogsCut(cut) ==
  /\ dialog' = [s \in Senders |-> cut[s].dialog]
  /\ snap' = [s \in Senders |-> cut[s].snap]
  /\ past' = [s \in Senders |-> IF row'[s].status \in GatekeeperArchived
                                THEN CutShort(s, cut[s].snap) ELSE NoPast]
  /\ UNCHANGED <<mode, jobs, nextJob, review, cliVars>>

Crash ==
  /\ GoesDown
  /\ UNCHANGED <<row, era, owner, deadline>>
  /\ \E cut \in [Senders -> UNION {Interrupted(s) : s \in Senders}] :
       /\ \A s \in Senders : cut[s] \in Interrupted(s)
       /\ DialogsCut(cut)

\* StateStore.allow is three transactions; the process dies after the first,
\* with the dialog restored and the sender's jobs not yet cancelled.
CrashInsideAllow(s) ==
  /\ task[s].kind \in {"owner_restore", "allow_restore", "legitimate_restore"}
  /\ GoesDown
  /\ PutRow(s, AllowRow(row[s]))
  /\ \E cut \in [Senders -> UNION {Interrupted(t) : t \in Senders}] :
       /\ \A t \in Senders : cut[t] \in Interrupted(t)
       /\ DialogsCut([cut EXCEPT ![s] = Result(TRUE, RestoreTarget(snap[s]), NoSnapshot)])

Restart ==
  /\ svc = "down"
  /\ svc' = "recovering"
  /\ recovering' = {s \in Senders : row[s].status \in Starting \cup {"challenged"}}
  /\ UNCHANGED <<mode, rowVars, jobVars, review, dialogVars, task, timer, msg,
                 cliVars, maint, crashes>>

\* _recover_challenges, one sender after the other.
RecoverNext(s) ==
  /\ svc = "recovering"
  /\ s \in recovering
  /\ LockFree(s)
  /\ \A t \in Senders : task[t].kind \notin {"issue_send", "issue_archive",
                                             "issue_unwind"}
  /\ recovering' = recovering \ {s}
  /\ \/ /\ row[s].status = "challenged"
        /\ ScheduleTimeout(s, row[s].expires, row[s].actionRef)
        /\ UNCHANGED <<rowVars, task>>
     \/ /\ row[s].status \in Starting
        /\ IF row[s].actionRef /\ deadline[s] = "running"
           THEN /\ Become(s, Doing(IF row[s].status = "challenge_issuing"
                                   THEN "issue_send" ELSE "issue_archive",
                                   FALSE, FALSE, 0))
                /\ UNCHANGED rowVars
           ELSE WriteRow(s, ResetIncomplete(row[s])) /\ UNCHANGED task
        /\ UNCHANGED timer
     \/ /\ row[s].status \notin Starting \cup {"challenged"}
        /\ UNCHANGED <<rowVars, task, timer>>
  /\ UNCHANGED <<mode, jobVars, review, dialogVars, msg, cliVars, svc, maint, crashes>>

\* Mutant: only mode-independent jobs are resumed.
PendingActionsManual == {i \in JobIds : jobs[i].status = "pending" /\ jobs[i].independent}
\* pending_actions, in the order of their execution time.
PendingActions == {i \in JobIds : jobs[i].status = "pending"}

\* _recover_pending_actions, then the event handlers are registered.
RecoverEnds ==
  /\ svc = "recovering"
  /\ recovering = {}
  /\ \A s \in Senders : task[s].kind \notin {"issue_send", "issue_archive",
                                             "issue_unwind"}
  /\ svc' = "up"
  /\ workers' = PendingActions
  /\ UNCHANGED <<mode, rowVars, jobs, nextJob, review, dialogVars, task, timer, msg,
                 cliVars, recovering, maint, crashes>>

-----------------------------------------------------------------------------
(* Time and the owner *)

DeadlineAdvances(s) ==
  /\ deadline[s] \in {"running", "late"}
  /\ deadline' = [deadline EXCEPT ![s] = IF @ = "running" THEN "late" ELSE "over"]
  /\ UNCHANGED <<mode, row, era, past, owner, jobVars, review, dialogVars, task, timer,
                 msg, cliVars, loopVars>>

SuppressionElapses(s) ==
  /\ row[s].until = "future"
  /\ row' = [row EXCEPT ![s].until = "past"]
  /\ UNCHANGED <<mode, era, past, owner, deadline, jobVars, review, dialogVars, task,
                 timer, msg, cliVars, loopVars>>

OwnerWrites(s) ==
  /\ May("owner")
  /\ owner[s] # "since"
  /\ owner' = [owner EXCEPT ![s] = "since"]
  /\ UNCHANGED <<mode, row, era, past, deadline, jobVars, review, dialogVars, task, timer,
                 msg, cliVars, loopVars>>

-----------------------------------------------------------------------------
Receive(s, m) == Arrive(s, m) \/ OwnerReleaseStarts(s, m)

Handle(s, m) ==
  \/ HandleSuppressed(s, m) \/ HandleTrusted(s, m) \/ HandleDecided(s, m)
  \/ HandleEvidence(s, m) \/ HandleMonitored(s, m) \/ HandleIssue(s, m)
  \/ HandleLateReply(s, m) \/ HandleUnusableReply(s, m)
  \/ HandleCorrectAnswer(s, m) \/ HandleWrongAnswer(s, m)

Continue(s) ==
  \/ IssueSent(s) \/ IssueArchived(s) \/ IssueUnwound(s) \/ FallbackArchived(s)
  \/ AnswerRestored(s) \/ AttemptsNotified(s) \/ TimeoutNotified(s)
  \/ OwnerRestored(s) \/ LegitimateRestored(s) \/ SpamArchived(s)
  \/ AllowRestored(s) \/ DeletionEnds(s)

TimerStep(s) == TimerWakes(s) \/ TimerReleases(s) \/ TimerExpires(s)
WorkerStep(i) == WorkerGivesUp(i) \/ WorkerClaims(i)

Operate(s) ==
  \/ ReviewLegitimate(s) \/ ReviewSpam(s) \/ ReviewDismiss(s)
  \/ CaseArchive(s) \/ CaseForget(s) \/ CaseAllow(s) \/ ReleaseLegacy(s)

Command ==
  \/ \E s \in Senders, cmd \in {"allow", "revoke"} : CliChecksSender(s, cmd)
  \/ CliWritesSender \/ CliCancels \/ CliDies
  \/ CliMonitor \/ CliChecksProtect \/ CliProtect

Recover == Restart \/ (\E s \in Senders : RecoverNext(s)) \/ RecoverEnds
Fail == Crash \/ \E s \in Senders : CrashInsideAllow(s)
Elapse(s) == DeadlineAdvances(s) \/ SuppressionElapses(s)

Next ==
  \/ \E s \in Senders : Continue(s) \/ TimerStep(s) \/ Elapse(s) \/ Operate(s)
                        \/ OwnerWrites(s)
  \/ \E i \in JobIds : WorkerStep(i)
  \/ MaintenanceCollects \/ MaintenanceProceeds
  \/ \E s \in Senders, m \in Messages : Handle(s, m) \/ Receive(s, m)
  \/ Command \/ Fail \/ Recover

Spec == Init /\ [][Next]_vars

\* asyncio wakes every sleeping task and resumes every finished await, its locks
\* are fair, and the container restarts a service that has died.
FairSpec ==
  /\ Spec
  /\ \A s \in Senders : /\ WF_vars(Continue(s))
                        /\ SF_vars(TimerStep(s))
                        /\ WF_vars(DeadlineAdvances(s))
  /\ \A i \in JobIds : SF_vars(WorkerStep(i))
  /\ SF_vars(MaintenanceProceeds)
  /\ WF_vars(Recover)

-----------------------------------------------------------------------------
(* Safety *)

\* A pending deletion job that could pass claim_action's test of status and
\* revision was scheduled under the restriction the sender is in now, however
\* often the sender has been released, allowed, forgotten or restricted again
\* since: each of those moves the revision on or removes the job.
PendingJobIsCurrent ==
  \A i \in JobIds :
    LET j == jobs[i]
        r == row[j.sender]
    IN  j.status = "pending" =>
          /\ i < nextJob
          /\ j.expected <= r.revision
          /\ r.status \in Restricted /\ r.revision = j.expected
               => j.born = era[j.sender]

\* schedule_action replaces the sender's pending job, so no restriction is ever
\* followed by two deletions.
OneJobPerSender ==
  \A i, k \in JobIds :
    jobs[i].status = "pending" /\ jobs[k].status = "pending"
      /\ jobs[i].sender = jobs[k].sender => i = k

\* "Pending deletions persist across restart and execute only when mode, sender
\* status, and state revision still match" (docs/architecture.md): a deletion
\* begins only for a job that is still open and a restriction that is still in
\* force and is the one the job was scheduled under, and in monitor mode only by
\* an explicit manual decision.
DeletionIsAuthorised ==
  [][\A s \in Senders :
       task[s].kind # "deleting" /\ task'[s].kind = "deleting" =>
         LET j == jobs[task'[s].job]
         IN  /\ j.sender = s /\ j.status = "pending"
             /\ row[s].status \in Restricted /\ ~Expired(row[s])
             /\ j.born = era[s]
             /\ mode = "protect" \/ j.independent]_vars

\* The sender lock is held across the whole Telegram request: while a deletion
\* is under way no handler, timer, Dashboard decision or maintenance pass of the
\* service lifts or replaces the restriction it belongs to, or closes its job.
DeletionIsIsolated ==
  \A s \in Senders :
    task[s].kind = "deleting" =>
      LET j == jobs[task[s].job]
      IN  /\ j.sender = s /\ j.status = "pending"
          /\ row[s].status \in Restricted
          /\ row[s].revision = j.expected
          /\ j.born = era[s]

\* A sender in one of the internal phases of a challenge is being worked on: no
\* failure, rollback or restart leaves it there, where every later message would be
\* answered with "challenge_starting" and nothing else.  The one exception is "the
\* recoverable archiving phase" that "is preserved for startup reconciliation" when
\* the challenge could not be activated and then "restoration itself fails"
\* (docs/architecture.md): only the archiving phase, and only after those two errors.
StartingIsAttended ==
  \A s \in Senders :
    svc = "up" /\ row[s].status \in Starting =>
      \/ task[s].kind \in {"issue_send", "issue_archive", "issue_unwind"}
      \/ row[s].status = "challenge_archiving" /\ past[s].left

\* The settings a dialog had before it was archived are on record for as long as the
\* sender is challenged or quarantined, so that an answer or the owner can restore
\* them whatever failed or crashed on the way.  The exception is a sender whose dialog
\* had been put back already: the snapshot is dropped in a transaction of its own, and
\* the process died before the one that writes the row.
ConfinementIsReversible ==
  \A s \in Senders :
    row[s].status \in {"challenged", "quarantined"} =>
      snap[s] # NoSnapshot \/ past[s].restored

\* A permanent suppression never lapses: it ends when the sender is allowed, or
\* is erased once archived and with no deletion work open, or by the one command
\* that can: a revoke for this sender that was checked before the suppression.
PermanentUntilDecided ==
  [][\A s \in Senders :
       Permanent(row[s]) /\ row'[s].status # "suppressed" =>
         \/ row'[s].status = "allowed"
         \/ row'[s] = NoRow /\ row[s].archived /\ ~HasOpenAction(jobs, s)
         \/ cli = [cmd |-> "revoke", sender |-> s] /\ cli'.cmd = "cancel"]_vars

\* A deletion that failed stays in front of the operator until the sender is
\* allowed: the sender is still listed as a case, or has a pending review.  Only a
\* command that wrote the row and has not cancelled the sender's jobs, or never will
\* because it was killed, hides one.
FailedJobIsVisible ==
  \A i \in JobIds :
    jobs[i].status = "failed" =>
      \/ row[jobs[i].sender].status \in Restricted \cup {"allowed"}
      \/ jobs[i].sender \in review
      \/ i \in orphaned

\* "Whole-dialog deletion is used for permanent suppression and warned challenge
\* failure" (docs/architecture.md): whoever did not answer, or answered wrongly, was
\* told before the dialog is deleted, whichever of the two ways, or the next message
\* of the suppressed sender, scheduled the deletion.  The exceptions are two, both of
\* this very suppression: the process died between the suppression and the warning, or
\* the challenge timed out under a timer recovered without a reference to write to.
DeletionIsWarned ==
  [][\A s \in Senders :
       task[s].kind # "deleting" /\ task'[s].kind = "deleting" =>
         row[s].until = "null" \/ past[s].warned \/ past[s].silent]_vars

\* The timer of a challenge stays armed while a correct answer is carried out, which
\* may take three restore requests; neither its timeout nor another message, a decision
\* or maintenance confines a sender whose answer is being accepted, which would treat "a
\* correct sender as spam" (docs/architecture.md).  Once the restores have failed the
\* timeout does, or a last wrong answer sent after the correct one.
AcceptedAnswerStands ==
  [][\A s \in Senders :
       past[s].answered /\ row[s].status = "challenged"
         /\ row'[s].status \in {"quarantined", "suppressed"} =>
           task[s].kind \in {"idle", "attempts_notice"}]_vars

\* A sender who is allowed, by the owner's message, by becoming a contact, or from the
\* command line while a handler is waiting for Telegram, is not challenged, quarantined or
\* suppressed by a timer, a recovery or a phase of the challenge that was under way.
\* What still writes over the allowance are the four handlers that do not look at the row
\* again after their last request.
AllowedIsLeftAlone ==
  [][\A s \in Senders :
       row[s].status = "allowed" /\ row'[s].status \in DashboardOnly =>
         task[s].kind \in {"fallback_archive", "attempts_notice", "timeout_notice",
                           "spam_archive"}]_vars

-----------------------------------------------------------------------------
(* Liveness *)

\* A challenge does not stay open, or half issued, for want of anyone to end it: it
\* ends by an answer, by its timeout, by a rollback, by a restart or by a decision.
\* What may remain until the next start-up, and is then recovered, is a challenge
\* whose activation and rollback both failed, and one whose timer maintenance took.
ChallengeEnds ==
  \A s \in Senders :
    row[s].status \in Starting \cup {"challenged"}
      ~> \/ row[s].status \notin Starting \cup {"challenged"}
         \/ svc = "up" /\ past[s].left

\* A job that may be executed is executed, cancelled or overtaken, also when the
\* service dies between scheduling it and running it.
ClaimableJobRuns ==
  \A i \in JobIds :
    Claimable(jobs[i], row[jobs[i].sender], mode)
      ~> ~Claimable(jobs[i], row[jobs[i].sender], mode)

-----------------------------------------------------------------------------
(* What the documentation says and the code does not do *)

\* docs/architecture.md: an unanswered challenge ends by its timeout; the timer
\* of an open challenge is armed whenever the service is up.
ChallengeHasTimer ==
  \A s \in Senders :
    svc = "up" /\ row[s].status = "challenged" /\ LockFree(s)
      => timer[s].phase # "none"
=============================================================================

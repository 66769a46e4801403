------------------------------ MODULE TestSender ------------------------------
(***************************************************************************)
(* The dedicated test sender (TG_TEST_SENDER_ID): rounds of the real       *)
(* challenge that put themselves back to unknown.  Time matters here, so   *)
(* the clock is part of the state.  Every handler runs under the sender    *)
(* lock; task is its holder while a request to Telegram is awaited, and    *)
(* time passes and the process may die meanwhile.  The number of attempts, *)
(* the dialog and the phases of issuing a challenge are Gatekeeper.tla's.  *)
(*                                                                         *)
(* Timers are prompt: time does not pass while one that is due could run.  *)
(***************************************************************************)
EXTENDS Integers

CONSTANTS
  Ttl,         \* challenge_ttl_seconds
  Grace,       \* CHALLENGE_PROCESSING_GRACE_SECONDS, or 30 seconds after a restart
  DeleteDelay, \* TEST_MESSAGE_ and FAILED_DIALOG_DELETE_DELAY_SECONDS
  ResetDelay,  \* TEST_STATE_RESET_DELAY_SECONDS
  Suppression, \* VERIFICATION_TIMEOUT_SUPPRESSION_SECONDS
  MaxTime,     \* bound: the clock
  MaxRevision, \* bound: rounds, commands and resets
  MaxCrashes   \* bound: times the service process dies

ASSUME TestSenderAssumption ==
  /\ Ttl \in Nat \ {0} /\ Grace \in Nat /\ DeleteDelay \in Nat \ {0}
  /\ ResetDelay \in Nat /\ DeleteDelay < ResetDelay
  /\ Suppression \in Nat /\ ResetDelay < Suppression
  /\ MaxTime \in Nat /\ MaxRevision \in Nat /\ MaxCrashes \in Nat

VARIABLES
  now,
  row,       \* the row of sender_state
  job,       \* its last deletion job
  task,      \* the handler that holds the sender lock
  timeout,   \* _timeout_tasks: when the timeout of the challenge wakes
  resets,    \* _test_state_reset_worker tasks
  cleanups,  \* _test_message_deletion_worker tasks
  workers,   \* _dialog_deletion_worker tasks
  prompt,    \* whether the question of the open challenge is still in the chat
  up, crashes,
  cancelling, \* a command has written the row and may still cancel the open jobs
  excused,   \* history: nothing was to reset the state the row is in
  stray      \* history: the job was scheduled or found again when the reset was due, or
             \* is left to a command

memory == <<timeout, resets, cleanups, workers>>
vars == <<now, row, job, task, memory, prompt, up, crashes, cancelling, excused, stray>>

Time == 0 .. MaxTime
Never == -1
Later == Time \cup {Never} \cup (0 .. MaxTime + Ttl + Grace + Suppression + ResetDelay)

Statuses == {"unknown", "starting", "challenged", "provisional", "quarantined",
             "suppressed", "allowed"}
Resettable == {"provisional", "quarantined", "suppressed"}
Restricted == {"quarantined", "suppressed"}

Row == [status : Statuses, since : Time, revision : 0 .. MaxRevision,
        expires : Later, until : Later, ref : BOOLEAN]
Idle == [kind |-> "idle", at |-> 0]

TypeOK ==
  /\ now \in Time
  /\ row \in Row
  /\ job \in [status : {"none", "pending", "completed", "failed", "cancelled"},
              revision : 0 .. MaxRevision, at : Later]
  /\ task \in [kind : {"idle", "issue", "restore", "passed", "warning", "notice", "delete"},
               at : Time]
  /\ timeout \in Later
  /\ resets \subseteq [expected : Time, at : Later]
  /\ cleanups \subseteq Later /\ workers \subseteq Later
  /\ prompt \in BOOLEAN /\ up \in BOOLEAN
  /\ cancelling \in BOOLEAN /\ excused \in BOOLEAN /\ stray \in BOOLEAN
  /\ crashes \in 0 .. MaxCrashes

Init ==
  /\ now = 0
  /\ row = [status |-> "unknown", since |-> 0, revision |-> 0, expires |-> Never,
            until |-> Never, ref |-> FALSE]
  /\ job = [status |-> "none", revision |-> 0, at |-> 0]
  /\ task = Idle
  /\ timeout = Never /\ resets = {} /\ cleanups = {} /\ workers = {}
  /\ prompt = FALSE
  /\ up = TRUE /\ crashes = 0
  /\ cancelling = FALSE /\ excused = FALSE /\ stray = FALSE

-----------------------------------------------------------------------------
(* The store *)

\* _set_state, and the other writes that count as a new state of the sender.
SetState(r, status, t) ==
  [r EXCEPT !.status = status, !.since = t, !.revision = @ + 1,
            !.expires = Never, !.until = Never, !.ref = FALSE]
CanSet == row.revision < MaxRevision

\* Mutant: any terminal state is reset, whichever the timer was set for.
ResetsAny(r, expected) == r.status \in Resettable
\* reset_test_sender: does the conditional update find its row?
Resets(r, expected) == r.since = expected /\ r.status \in Resettable

CancelOpen(j) == IF j.status \in {"pending", "failed"} THEN [j EXCEPT !.status = "cancelled"] ELSE j

Expired(r) == r.status = "suppressed" /\ r.until # Never /\ r.until <= now

Claimable ==
  /\ job.status = "pending"
  /\ row.status \in Restricted /\ row.revision = job.revision
  /\ ~Expired(row)

-----------------------------------------------------------------------------
(* handle: a message of the test sender *)

Free == up /\ task = Idle

\* _settle_before_screening
Settled ==
  CASE row.status = "allowed" -> SetState(row, "unknown", now)
    [] Expired(row) -> SetState(row, "unknown", now)
    [] /\ row.status \in {"provisional", "quarantined"}
       /\ row.since + ResetDelay <= now
       /\ Resets(row, row.since) -> SetState(row, "unknown", now)
    [] OTHER -> row
SettledJob == IF row.status = "allowed" \/ Expired(row) THEN CancelOpen(job) ELSE job

\* begin_challenge_issue keeps the revision and the end of a suppression.
Issues ==
  /\ Free /\ CanSet
  /\ Settled.status \in {"unknown", "provisional", "suppressed"}
  /\ \E ref \in BOOLEAN :
       row' = [Settled EXCEPT !.status = "starting", !.since = now,
                              !.expires = now + Ttl, !.ref = ref]
  /\ job' = SettledJob
  /\ task' = [kind |-> "issue", at |-> now]
  /\ prompt' = FALSE /\ excused' = FALSE
  /\ UNCHANGED <<now, memory, up, crashes, cancelling, stray>>

\* The prompt is sent and the dialog archived, or both are undone; a row the CLI
\* has changed meanwhile is left alone.
IssueEnds ==
  /\ task.kind = "issue"
  /\ task' = Idle
  /\ \/ /\ row.status = "starting"
        /\ row' = [row EXCEPT !.status = "challenged", !.since = now, !.expires = now + Ttl]
        /\ timeout' = now + Ttl + Grace
        /\ prompt' = TRUE
     \/ /\ row' = IF row.status = "starting"
                  THEN [row EXCEPT !.status = "unknown", !.since = now, !.expires = Never,
                                   !.ref = FALSE]
                  ELSE row
        /\ UNCHANGED <<timeout, prompt>>
  /\ UNCHANGED <<now, job, resets, cleanups, workers, up, crashes, cancelling, excused,
                 stray>>

AnswersCorrectly ==
  /\ Free /\ row.status = "challenged"
  /\ task' = [kind |-> "restore", at |-> now]
  /\ UNCHANGED <<now, row, job, memory, prompt, up, crashes, cancelling, excused, stray>>

\* mark_provisional and cancel_timeout; or the dialog cannot be restored.
RestoreEnds ==
  /\ task.kind = "restore"
  /\ \/ /\ CanSet
        /\ row' = SetState(row, "provisional", task.at)
        /\ timeout' = Never
        /\ task' = [task EXCEPT !.kind = "passed"]
     \/ /\ task' = Idle
        /\ UNCHANGED <<row, timeout>>
  /\ UNCHANGED <<now, job, resets, cleanups, workers, prompt, up, crashes, cancelling,
                 excused, stray>>

\* Mutant: the timers are set for the time they are created at.
ResetTimerNow(t) == [expected |-> now, at |-> t + ResetDelay]
\* schedule_test_state_reset, for the state written at time t.
ResetTimer(t) == [expected |-> t, at |-> t + ResetDelay]

PassedEnds ==
  /\ task.kind = "passed"
  /\ resets' = resets \cup {ResetTimer(task.at)}
  /\ task' = Idle
  /\ UNCHANGED <<now, row, job, timeout, cleanups, workers, prompt, up, crashes,
                 cancelling, excused, stray>>

\* The last attempt is used up: the timeout is cancelled and the warning sent.
ExhaustsAttempts ==
  /\ Free /\ row.status = "challenged"
  /\ timeout' = Never
  /\ task' = [kind |-> "warning", at |-> now]
  /\ UNCHANGED <<now, row, job, resets, cleanups, workers, prompt, up, crashes,
                 cancelling, excused, stray>>

\* Mutant: the dialog is deleted when the state is reset.
DeletionTimeLate(t) == t + ResetDelay
DeletionTime(t) == t + DeleteDelay

\* Without a warning or a reference there is neither a reset nor a deletion.
WarningEnds ==
  /\ task.kind = "warning" /\ CanSet
  /\ row' = SetState(row, "quarantined", task.at)
  /\ task' = Idle
  /\ \/ /\ resets' = resets \cup {ResetTimer(task.at)}
        /\ job' = [status |-> "pending", revision |-> row'.revision,
                   at |-> DeletionTime(task.at)]
        /\ workers' = workers \cup {job'.at}
        /\ excused' = FALSE
        /\ stray' = ~(now < task.at + ResetDelay)
     \/ /\ excused' = TRUE
        /\ UNCHANGED <<resets, job, workers, stray>>
  /\ UNCHANGED <<now, timeout, cleanups, prompt, up, crashes, cancelling>>

\* expire_challenge
Suppressed == [SetState(row, "suppressed", now) EXCEPT !.until = now + Suppression,
                                                       !.ref = row.ref]

\* _expire_late_reply
AnswersLate ==
  /\ Free /\ CanSet
  /\ row.status = "challenged" /\ now > row.expires
  /\ row' = Suppressed
  /\ timeout' = Never
  /\ task' = [kind |-> "notice", at |-> now]
  /\ UNCHANGED <<now, job, resets, cleanups, workers, prompt, up, crashes, cancelling,
                 excused, stray>>

\* _timeout_worker; one recovered without a reference has nobody to write to and
\* leaves it at that.
TimeoutFires ==
  /\ Free /\ CanSet
  /\ timeout # Never /\ timeout <= now
  /\ timeout' = Never
  /\ IF row.status = "challenged"
     THEN /\ row' = Suppressed
          /\ \/ task' = [kind |-> "notice", at |-> now] /\ UNCHANGED excused
             \/ ~row.ref /\ crashes > 0 /\ excused' = TRUE /\ UNCHANGED task
     ELSE UNCHANGED <<row, task, excused>>
  /\ UNCHANGED <<now, job, resets, cleanups, workers, prompt, up, crashes, cancelling,
                 stray>>

\* _finalize_timeout_failure: sent or not, both timers are set.
NoticeEnds ==
  /\ task.kind = "notice"
  /\ cleanups' = cleanups \cup {task.at + DeleteDelay}
  /\ resets' = resets \cup {ResetTimer(task.at)}
  /\ task' = Idle
  /\ UNCHANGED <<now, row, job, timeout, workers, prompt, up, crashes, cancelling,
                 excused, stray>>

-----------------------------------------------------------------------------
(* The timers of the adapter *)

\* Every message recorded since the challenge that timed out began is deleted,
\* those of a challenge begun meanwhile too; the lock is not asked for.
CleanupFires ==
  /\ up
  /\ \E c \in cleanups : c <= now /\ cleanups' = cleanups \ {c}
  /\ prompt' = FALSE
  /\ UNCHANGED <<now, row, job, task, timeout, resets, workers, up, crashes,
                 cancelling, excused, stray>>

ResetFires ==
  /\ Free
  /\ \E x \in resets :
       /\ x.at <= now
       /\ resets' = resets \ {x}
       /\ IF Resets(row, x.expected)
          THEN CanSet /\ row' = SetState(row, "unknown", now)
          ELSE UNCHANGED row
  /\ UNCHANGED <<now, job, task, timeout, cleanups, workers, prompt, up, crashes,
                 cancelling, excused, stray>>

\* _dialog_deletion_worker: a job that cannot be claimed stays as it is.
DeletionFires ==
  /\ Free
  /\ \E w \in workers : w <= now /\ workers' = workers \ {w}
  /\ task' = IF Claimable THEN [kind |-> "delete", at |-> now] ELSE Idle
  /\ UNCHANGED <<now, row, job, timeout, resets, cleanups, prompt, up, crashes,
                 cancelling, excused, stray>>

DeletionEnds ==
  /\ task.kind = "delete"
  /\ \E result \in {"completed", "failed"} :
       job' = IF job.status = "pending" THEN [job EXCEPT !.status = result] ELSE job
  /\ task' = Idle
  /\ UNCHANGED <<now, row, memory, prompt, up, crashes, cancelling, excused, stray>>

-----------------------------------------------------------------------------
(* The operator, the process and time *)

\* The first transaction of the CLI's allow.  It takes no lock, and its test that the sender
\* is not held may have been made at any earlier moment.
CliAllows ==
  /\ CanSet
  /\ row' = SetState(row, "allowed", now)
  /\ cancelling' = TRUE
  /\ stray' = (stray \/ job.status = "pending")
  /\ UNCHANGED <<now, job, task, memory, prompt, up, crashes, excused>>

\* resolve_sender_actions, a transaction of its own: anything may have happened since, and a
\* command that dies first never gets here.
CliCancels ==
  /\ cancelling
  /\ cancelling' = FALSE
  /\ job' = CancelOpen(job)
  /\ UNCHANGED <<now, row, task, memory, prompt, up, crashes, excused, stray>>

\* The maintenance pass releases suppressions that are over.
ReleasesExpired ==
  /\ Free /\ CanSet
  /\ Expired(row)
  /\ row' = SetState(row, "unknown", now)
  /\ job' = CancelOpen(job)
  /\ UNCHANGED <<now, task, memory, prompt, up, crashes, cancelling, excused, stray>>

Crash ==
  /\ up /\ crashes < MaxCrashes
  /\ up' = FALSE /\ crashes' = crashes + 1
  /\ task' = Idle
  /\ timeout' = Never /\ resets' = {} /\ cleanups' = {} /\ workers' = {}
  /\ UNCHANGED <<now, row, job, prompt, cancelling, excused, stray>>

\* _recover_test_sender_cleanup does not look at a state that timed out.
Recovered(status) == status \in {"provisional", "quarantined"}

\* _recover_challenges, _recover_test_sender_cleanup and _recover_pending_actions.
Restart ==
  /\ ~up
  /\ up' = TRUE
  /\ timeout' = IF row.status = "challenged" THEN row.expires + Grace ELSE Never
  /\ IF row.status = "starting" /\ (~row.ref \/ row.expires <= now)
     THEN /\ row' = [row EXCEPT !.status = "unknown", !.since = now, !.expires = Never,
                                !.ref = FALSE]
          /\ UNCHANGED task
     ELSE /\ task' = IF row.status = "starting" THEN [kind |-> "issue", at |-> now] ELSE Idle
          /\ UNCHANGED row
  /\ resets' = IF Recovered(row.status) THEN {ResetTimer(row.since)} ELSE {}
  /\ workers' = IF job.status = "pending" THEN {job.at} ELSE {}
  /\ excused' = (row.status = "suppressed")
  /\ stray' = (stray \/ (job.status = "pending" /\ now >= row.since + ResetDelay))
  /\ UNCHANGED <<now, job, cleanups, prompt, crashes, cancelling>>

Due ==
  \/ \E c \in cleanups : c <= now
  \/ /\ task = Idle
     /\ \/ timeout # Never /\ timeout <= now
        \/ \E x \in resets : x.at <= now
        \/ \E w \in workers : w <= now

Tick ==
  /\ now < MaxTime
  /\ up => ~Due
  /\ now' = now + 1
  /\ UNCHANGED <<row, job, task, memory, prompt, up, crashes, cancelling, excused, stray>>

Next ==
  \/ Issues \/ IssueEnds
  \/ AnswersCorrectly \/ RestoreEnds \/ PassedEnds
  \/ ExhaustsAttempts \/ WarningEnds
  \/ AnswersLate \/ TimeoutFires \/ NoticeEnds
  \/ CleanupFires \/ ResetFires \/ DeletionFires \/ DeletionEnds
  \/ CliAllows \/ CliCancels \/ ReleasesExpired
  \/ Crash \/ Restart \/ Tick

Spec == Init /\ [][Next]_vars

-----------------------------------------------------------------------------
\* "the conditional update prevents an older timer from resetting a newer challenge"
\* (docs/architecture.md), nor may it cut a newer result short: a result is put back
\* to unknown only after it has stood for the whole delay, whatever timers of earlier
\* rounds, commands and restarts lie before it.
NewerResultStands ==
  [][row.status \in Resettable /\ row'.status = "unknown"
       => now >= row.since + ResetDelay]_vars

\* "Successful and terminal-failure states are conditionally reset to unknown after 60
\* seconds ... reconstructed after restart" (docs/architecture.md): whenever no handler
\* is under way, a result has the timer that will fit it.  The code has three exceptions:
\* a failure of which the sender could not be warned, a timeout before a restart, and one
\* recovered without a reference.
ResultHasTimer ==
  Free /\ row.status \in Resettable /\ ~excused
    => \E x \in resets : x.expected = row.since /\ x.at = row.since + ResetDelay

\* protect_preflight refuses to enable protection while a pending job is stale, and
\* reset_test_sender leaves the jobs alone.  No round leaves a stale job behind unless
\* its warning, or the process's absence, lasted until the reset was due as well (then
\* the reset, or the next message, may come before the overdue deletion), or an allow has
\* written the row and not yet cancelled the job, which it never does if it dies there.
NoStaleJob ==
  job.status = "pending" /\ ~stray
    => row.status \in Restricted /\ row.revision = job.revision
=============================================================================

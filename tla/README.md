# A verification project for tg-pm-gatekeeper

tg-pm-gatekeeper guards the owner's Telegram private messages: an unknown sender
must answer an arithmetic challenge, unanswered or wrong challenges and strong
evidence of spam lead to a suppression, and a suppression leads to the deletion
of the dialog. It acts on a real account, over requests that can fail half-way,
in one asyncio process that can die at any point, beside a CLI process that
writes to the same SQLite file, and a deletion cannot be undone. This project
models the parts that decide about a sender, checks them with TLC on small
instances, and proves the central facts for all values of the constants with
TLAPS.

`PROJECT.json` lists components, runs, mutants, the map from definitions to
source lines, findings, hazards and theorems.

## The system

| Part | State it keeps | Operations | What is hard |
| --- | --- | --- | --- |
| `service.py` | one lock per sender | handle a message, issue and answer a challenge, time out, recover | each handler awaits Telegram several times under the lock; every request may fail |
| `store/` (SQLite) | `sender_state` with a revision, `pending_actions`, `review_queue`, `dialog_snapshots`, `outbound_events`, `link_events`, `campaign_events`, `operator_artifacts` | one transaction per method, several for `allow` and `revoke` | operations of several transactions, between which either process may die; the CLI writes the same tables |
| `telegram_adapter.py` | timers, deletion workers, message tasks | intake, archive, restore, delete, maintenance, start-up | timers and workers outlive what they were started for |
| `restriction_actions.py` | none | allow, release after the owner wrote | lookup before the lock, use after it |
| `dashboard_backend.py` | none of its own | review and case decisions | decisions race handlers, timers and deletions |
| `cli.py` | none | allow, revoke, mode | another process, no sender lock |
| `rules.py`, `policy.py`, `message_facts.py` | none | signals, campaign template, decision | a decision to delete must be corroborated |
| `operator_controls.py` | case controls, handled message ids | Saved Messages commands, cleanup of their traces | updates twice, failure half-way, restart |
| `dashboard_http.py`, `dashboard_session.py`, `dashboard_rpc.py`, `dashboard_main.py` | one login token, one capability path, one session, in a second process | log in and out, pages and forms, calls to the core, idle shutdown | requests wait for a core that may hang, die, or execute a call after its caller gave up |
| `assets/dashboard.js`, the pages | address, page, fingerprint, a check, a navigation | poll, refresh, navigate, mark as changed | answers of overtaken requests; a page read in two calls |
| crypto, config, logging, scripts | | | not modelled: primitives, start-up input |

Correctness, in one line each: a dialog is deleted only under a restriction that
is in force and was the reason for the deletion; a sender is never left in a
state nobody works on; what was done to a dialog can be undone until it is
deleted; a challenge ends; a job that may run does run; the account never sends
more than its quota; evidence that deletes is corroborated; Saved Messages are
left as they were found; the Dashboard lets in one browser, carries a decision out
once, and does not go on showing what has changed.

## Modules

```
SenderStore   TelegramDialog     SenderLifecycle      ReviewQueue
      \         /                 :                       |
      Gatekeeper ---- GatekeeperLifecycle              LivePage
          |              |         |                    |    |
  Gatekeeper_proofs      |    MCGatekeeper   LivePage_proofs |
          |              |                               MCLivePage
          Locks_proofs --+

OutboundQuota   OperatorControls   ScreeningPolicy   DashboardSidecar   TestSender
      |                |                  |                 |               |
  X_proofs, MCX    X_proofs, MCX     X_proofs, MCX     X_proofs, MCX   X_proofs, MCX
```

A line is EXTENDS; the dots are the refinement mapping (INSTANCE ... WITH). Each of
the five modules below has its proofs in a module `X_proofs` and its instance for TLC
in `MCX`.

**SenderStore** holds the row of `sender_state` and the row of
`pending_actions`, and what each store method does to them, as operators.
Times are kept as far as the code distinguishes them: `suppressed_until` is
null, in the future or past; the challenge of a row is named by the message
that caused it, which stands for its expiry time.

**TelegramDialog** holds folder and mute setting of a dialog, the snapshot, and
for each compound request (archive and mute, restore, delete) the set of
outcomes: success, a failure after any confirmed part, compensation that works
or fails, and, for a crash in the middle, the states it may be cut off in: also the
one after a restore has put the dialog back and dropped the snapshot, which is a
transaction of its own, and before its caller writes the row.

**Gatekeeper** composes the two. The service is one asyncio process, so code
between two awaits is atomic: an action is one such segment, and `task[s]` is
the continuation of the coroutine that holds the lock of `s`. Actions, by group:

- *Receive, Handle*: `_on_message`, the owner lookup, and the outcomes of
  `_handle_locked`, one action per outcome (`HandleSuppressed`, `HandleTrusted`,
  `HandleEvidence`, `HandleIssue`, `HandleCorrectAnswer`, ...). What the message
  says is a free choice here; `ScreeningPolicy` computes it.
- *Continue*: what follows each await (`IssueSent`, `IssueArchived`,
  `AnswerRestored`, `TimeoutNotified`, `DeletionEnds`, ...). `IssueArchived` has both ways
  in which the challenge is not activated: the row has changed, or the store raises
  (`ActivationRaises`), after which a failed restore leaves the archiving phase to the
  next start-up.
- *TimerStep, WorkerStep*: `_timeout_worker` and `_dialog_deletion_worker`.
- *Operate*: the Dashboard's decisions under the sender lock.
- *Command*: the CLI, in its own steps, without a lock: the check, the transaction that
  writes the row (`CliWritesSender`), the one that cancels the jobs (`CliCancels`); it may
  die after any of them (`CliDies`).
- *MaintenanceCollects, MaintenanceProceeds*: the periodic maintenance, which collects
  senders, takes their locks and prunes. While all locks are free this is one step, since
  the heartbeat does not yield then. At a lock that is held it waits, keeping those it
  has, and it comes after the messages that asked for that lock before it (`Behind`):
  asyncio's locks are first come, first served.
- *Fail, Recover*: a crash in any state, also in the middle of a request or
  between the transactions of `allow`, and the start-up recovery.
- *Elapse, OwnerWrites*: time and the owner.

`era`, `past` and `orphaned` are history variables: `era[s]` counts how often `s` left a
restriction; `past[s]` records of the current challenge or suppression whether it was
answered in time, whether its failure was announced or can no longer be (`silent`),
whether the process died with the dialog back and the row unwritten (`restored`), and
whether it is left to the next start-up (`left`); `orphaned` are the jobs a command's row
write left open. A job records the era it was scheduled in (`born`); the code has no such
field, and only properties read it.

**OutboundQuota** is `claim_outbound_slot` over its table, with the callers that
matter: a challenge, a notice, and the notice after a correct answer, which
claims with a time read before the restore. `granted` and `steady` are history.

**OperatorControls** is `operator_controls.py`: the command lock, handled ids,
case controls, the artifact queue with its backoff, and reconciliation. Times
are kept as the time left, so the state space is finite without a clock bound.

**ScreeningPolicy** is the evidence rules, the campaign and link tables and the
policy engine. A message is reduced to where its links are, which are denied,
and which promotional features the text has; all weights, thresholds and codes
are the code's.

**SenderLifecycle** is the abstract specification: what the gatekeeper promises
about one sender. It has a standing for each sender (unknown, challenged, passed,
allowed, quarantined, temporarily or permanently suppressed, archived) and whether
the conversation is being deleted, and says which standing may follow which: only
the operator condemns a sender who is allowed or held, only a temporary suppression
lapses, a permanent one is forgotten only when archived, a deletion falls within one
suppression. It knows no lock, timer, job, phase, failure or crash.
**GatekeeperLifecycle** maps the service onto it: the phases of issuing a challenge
are "unknown", so a challenge appears as a whole or not at all. It refers to the
service without the CLI, whose unlocked writes break it (see below).

**TestSender** is the path of the dedicated test sender (`TG_TEST_SENDER_ID`), whose
rounds put themselves back to unknown. Unlike in `Gatekeeper` the lengths of the
delays matter, so there is a clock, and timers are prompt: time does not pass while
one that is due could run. A command
that allows the sender cancels the job in a second transaction, or never. `excused` and
`stray` are history.

**DashboardSidecar** is the Dashboard's process: credentials, HTTP requests split at
their calls to the core, the calls with their attempts and time limits, the writes
as the core executes them, stopping and idle time. Tokens are numbers in the order
they are drawn. A browser may present any address and any cookie or link it was
ever given. `holder` and `logins` are history. What the core's decisions do to a
sender is in `Gatekeeper`.

**ReviewQueue** is `review_queue` for one sender with merging, decision and expiry: an
expired row is hidden, but stays until maintenance prunes it, and a message that comes
first takes it up again.
**LivePage** is `dashboard.js` in one tab beside that queue. The script runs to its
next await in one step; the list and the record pages are read, and only then their
fingerprint, as `dashboard_http.py` does.

## Runs

`tlc -config <run>.cfg <module>`; all constants are in the cfg.

| Run | Instance | Checks |
| --- | --- | --- |
| `service` | 1 sender, 2 messages, 2 jobs, 2 crashes; failing requests, evidence, Dashboard, maintenance, retention, missing references, a failing activation (0.9M states) | `TypeOK`, `PendingJobIsCurrent`, `ConfinementIsReversible`, `StartingIsAttended`, `FailedJobIsVisible`, `DeletionIsIsolated`, `PermanentUntilDecided`, `DeletionIsWarned`, `AcceptedAnswerStands`, `ImplementsLifecycle` |
| `commands` | 2 CLI commands, mode changes, contacts, owner, quota, missing references, 1 crash (3.2M) | `DeletionIsAuthorised`, `PermanentUntilDecided`, `AllowedIsLeftAlone` |
| `two_senders` | 2 senders, 3 jobs, maintenance, Dashboard (0.2M) | `OneJobPerSender`, `DeletionIsIsolated`, `ImplementsLifecycle` |
| `liveness` | 1 sender, 3 jobs, 1 crash, failing requests, a failing activation, maintenance (0.06M) | `ChallengeEnds`, `ClaimableJobRuns` |
| `quota` | 2 senders, 5 claims over two hours, late stamps, erased rows (0.4M) | `CapsHold`, `RefusalIsJustified` |
| `saved_controls` | 2 senders, 2 commands, a repeated update (0.8M) | `CardOutlivesControl`, `ControlsAreOfLastListing` |
| `saved_cleanup` | 1 command, failing requests, 1 crash, with fairness | `TypeOK`, `NothingUntracked`, `CleanupIsNotEarly`, `QueuedIsDeleted` |
| `screening` | 54 messages, 3 in sequence, 4 time units (0.3M) | `SuppressionIsCorroborated`, `RepeatIsSuppressed` |
| `dashboard` | 2 browsers, 2 requests at a time, 3 rotations, 1 form, 1 crash of the core, a failing disk, with fairness (0.3M) | `LoginWorksOnce`, `OnlyHolderEnters`, `DecisionIsNotRepeated`, `AnswerIsTrue`, `StrandedSidecarEnds`, `RequestIsAnswered` |
| `test_sender` | rounds within 8 time units, slow and failing requests, CLI, 1 crash (1.6M) | `ResultHasTimer`, `NoStaleJob`, `NewerResultStands` |
| `live_page` | 1 review of up to 3 messages, 1 tab, with fairness (0.14M) | `PageIsOfItsAddress`, `EvidenceIsOfItsMessage`, `StaleIsNoticed` |

`DeletionIsIsolated` and `ImplementsLifecycle` rest on the sender lock and are checked
without the CLI, which takes none: a CLI command whose check and write lie on both sides
of another step does break them. The other properties of the service hold beside it too
(see Proofs). Two of them say what such a command can do: `AllowedIsLeftAlone` names the
handlers that can still write over an allowance given during their last request (the
fallback, the two failure notices and the manual suppression), and
`PermanentUntilDecided` the one command that can end a permanent suppression, a `revoke`
whose check came before it.

Each property has a mutant in `PROJECT.json`: a definition beside the one it
replaces (marked "Mutant" in the modules) that changes the code as a plausible
bug would, and that TLC refutes under the same configuration.

**Bounds.** `Messages` is the number of incoming messages of a behaviour; two
reach a challenge and an answer, a suppression and the message that schedules
its deletion, or a restriction that ends and a new challenge, also one that maintenance
waits behind. `MaxJobs` bounds
`pending_actions`, `MaxCrashes` crashes, `CliBudget` CLI commands; `MaxAttempts`
of 2 has a wrong answer that is not the last and one that is. `Environment`
selects which parts of the environment a run explores, so that each combination
stays within minutes; every action is taken in some run. Senders interact only
through the job table, the maintenance pass and the quota, so one sender is
enough elsewhere. In the quota, five claims exceed the limit in one hour and
continue in the next; the hour is two clock units, so rows lie inside, on and
outside its edge. `Overdue` and `MaxRetries` in `OperatorControls` are the
values beyond which rows are not told apart. The campaign window is two units of
the clock, which counts to three, so two messages lie within it, on its edge or
beyond it; three messages leave room for one in between. Three rotations of the
Dashboard's credentials are the start, a login and a second login or a logout, with
links and cookies of each still about; more rotations are told apart only by their
number. The test sender's delays keep the order of the code's (deletion before reset
before the end of a suppression), and eight time units hold two rounds and the wait
for the second one's reset. One review suffices for `LivePage`, since a sender has at
most one pending and the addresses of the list, of the record and of its confirmation
all occur; one message is merged into a row that has been shown, and another while
the page is marked.

**Symmetry** is used over messages or senders where no liveness is checked.
Runs say `CHECK_DEADLOCK FALSE` because the bounded environment ends: no more
messages arrive and nothing is left to do.

**Fairness** (`FairSpec`). asyncio resumes a coroutine whose await has ended
(weak fairness of `Continue`) and wakes a sleeping timer or worker, whose wait
for a lock is first come, first served while other holders come and go (strong
fairness of `TimerStep`, `WorkerStep`, and of `MaintenanceProceeds`, before which only the
messages already queued come). Time passes (`DeadlineAdvances`), and
`compose.yaml` restarts a service that has died (`Recover`). No fairness is
assumed of senders, the owner, the operator or of a Telegram request succeeding.
In `OperatorControls` the cleanup loop is fair, and strong fairness of
`CleanerDeletes` says that Telegram does not refuse one message for ever:
without it the queue is rightly never emptied. In `DashboardSidecar` time passes, the
main loop notices it, and a call ends by its result or its time limit; nothing is
assumed of browsers, the core or the disk. In `LivePage` the interval timer of a
visible page fires, a navigation ends by its time limit, and a request that is made
again and again is answered some time (strong fairness of the arrivals; a page that is
cut off for ever rightly stays as it is and says "Disconnected").

## Where the code and its documents disagree

One violation run is kept, `timer_lost`: maintenance, waiting for a lock, cancels the
timer of a challenge issued meanwhile, so `ChallengeHasTimer` does not hold and the
challenge stays open until the next restart (`telegram_adapter.py:577`;
`docs/architecture.md:70`). When the locks are free nothing happens between collecting
and pruning; the trace has the lock held. A challenge times out, and its notice is being
sent, under the lock, when the suppression runs out (no request of the code has a
time limit); a second message of the sender queues at the lock, then maintenance collects
the sender and queues behind it; the notice ends, the message releases the suppression
and is challenged, and its timer is armed; maintenance gets the lock, finds no active
restriction and cancels it. Any other holder does as well, such as a deletion that a late
message of the suppressed sender brought about shortly before the end, and so does another
sender's lock, held while the pass waits for it. Others are exceptions in a property that holds, so that its
run shows there are no more:

- a correct sender whose dialog cannot be restored stays challenged, and the timeout
  suppresses the sender (`service.py:977`); `docs/architecture.md:72`: "persistent
  failure creates an exception review instead of silently treating a correct sender as
  spam" (`AcceptedAnswerStands`);
- forgetting a sender frees its slots within the hour (`store/base.py:327`);
  `docs/architecture.md:146`: "the hourly outbound limit is a hard cap"; and a notice
  after a slow restore is counted in an earlier hour than it is sent in
  (`service.py:983`) (`CapsHold`, while `steady`);
- a crash between a timeout and its warning, or a timeout recovered without a reference to
  write to: as long as that suppression lasts, the next message leads to a deletion nobody
  was warned of (`service.py:662`; `docs/architecture.md:115`: "warned challenge failure") (`DeletionIsWarned`, through
  `silent`);
- a restore drops the snapshot before its caller writes the row
  (`restriction_actions.py:112`, `telegram_adapter.py:343`); when the process dies in
  between, the sender is still challenged or quarantined while the dialog is where it was,
  and a second restore, without a snapshot, moves it to the main folder and lifts the mute
  (`ConfinementIsReversible`, through `restored`);
- when the activation raises and the restore fails as well, the sender stays in the
  archiving phase until the next start-up, which is what `docs/architecture.md:145` says
  (`StartingIsAttended`, `ChallengeEnds`, through `left`);
- `allow` and `revoke` write the row and cancel the jobs in two transactions
  (`store/senders.py:16`): in between, or for good if the command is killed, a failed job of
  an unknown sender is not shown as a case, and the request of a deletion goes on although
  its sender is allowed (`FailedJobIsVisible`, and the theorem `DeletionsStand`, through
  `orphaned`; for the test sender `NoStaleJob`);
- a test result that timed out is not recovered after a restart
  (`telegram_adapter.py:800`), nor is one reset of which the sender could not be warned;
  `docs/architecture.md:74`: "state reset are reconstructed after restart"
  (`ResultHasTimer`);
- the test sender's reset leaves its deletion job behind, and the job is stale when the
  warning or the downtime lasted until the reset was due (`store/senders.py:25`);
  `protect_preflight` then refuses (`NoStaleJob`);
- a record that changes between the two calls that make its page carries the newer
  fingerprint on the older data, and the change is never noticed (`dashboard_http.py:770`;
  the first call waits for Telegram twice); `docs/architecture.md:88` (`StaleIsNoticed`).

The models contain further behaviours a maintainer should know of, which no property
excludes:

- the owner's newest message is looked up before the lock; a restriction that began
  in between is lifted by it (`restriction_actions.py:62`); `docs/architecture.md:60`:
  "released only by a manual outgoing message sent after that state began";
- the test sender's cleanup deletes every message recorded since the challenge that
  timed out began, also the prompt of a challenge begun within its ten seconds
  (`telegram_adapter.py:983`); `docs/architecture.md:74`: "deletes only message IDs
  recorded during that challenge";
- "Suppress and Delete..." on a review's page is a link and stays usable when the page is
  marked as changed (`dashboard_views/pages.py:257`); the decision behind it is made
  under the lock on the row as it then is;
- the class that merging protects, `would_quarantine`, is not enqueued any more, so a
  planned deletion's evidence is replaced by that of a later message of less risk
  (`store/reviews.py:39`);
- archiving works, muting fails and the compensation fails too: the challenge is
  rolled back to unknown while the dialog stays archived (`service.py:752`;
  `docs/architecture.md:145` promises compensation before the rollback);
- a challenge opened before `mode monitor` fails after it and leaves a pending
  automatic job (`service.py:1216`), which `claim_action` does not execute in
  monitor mode (`DeletionIsAuthorised`) but does after a return to protect mode;
- the CLI checks and writes in separate transactions, so it can overwrite a challenge
  issued in between (`cli.py:60`);
- `mode monitor` while a failure is being announced: the job is scheduled afterwards
  (as above), its worker starts, finds monitor mode and ends; `mode protect` then accepts
  the job, which matches its row, and nobody carries it out until the next restart
  (`telegram_adapter.py:1008`; `AcceptableJobsAreServed` shows that nothing else strands
  a job, and `ClaimableJobRuns` is checked without changes of mode);
- a case control is added after its sender was forgotten during the await
  (`operator_controls.py:275`), and would allow a restriction that begins within
  its 15 minutes.

## Proofs

All proofs hold for every set of senders and messages and every value of the
bounds, under the named assumptions of the modules (which TLC evaluates in the
runs).

**`Gatekeeper_proofs!TypeCorrect`** : `Spec => []TypeOK`. The invariant is
inductive as it stands. The proof splits it into the groups of variables that
actions change together (rows, jobs, dialogs, tasks, timers, ...), proves what
each helper returns, then one lemma per group of actions.

It also shows that no dialog is deleted on the strength of a restriction that has
ended:

- `JobsAreCurrent` : `Spec => []PendingJobIsCurrent`,
- `SingleJob` : `Spec => []OneJobPerSender`,
- `DeletionsAreAuthorised` : `Spec => DeletionIsAuthorised`.

`claim_action` compares status and revision, never the restriction itself, so
that a matching revision means the same restriction is an invariant of the whole
history. It is inductive together with `TypeOK`. The argument goes through one
intermediate notion, `SafeStep`: for every sender the revision grows, or stays
without beginning a restriction, or no job of the sender is pending afterwards
(`Advances`, which also says that a suppression whose time is over is not prolonged at
the same revision); and every pending job is an old one or one that carries the
sender's new revision and era (`JobStep`). Safe steps keep the invariant
(`SafeStepKeepsCurrent`), and every action is safe (`NextSafe`). The third part
of `Advances` is what erasing a row needs: its revision starts again at zero,
and only the jobs erased with it make that harmless. `DeletionsAreAuthorised`
adds that only `WorkerClaims` begins a deletion. The CLI is part of `Next`, so
it holds without the CLI taking locks.

**`OutboundQuota_proofs!QuotaHolds`** :
`Spec => []CapsHold`, where `CapsHold == steady => HardCap /\ ReserveAndSenderCap`.
The history variable `steady` is true until a claim is stamped with a time before
its restore or a sender is forgotten whose slots are of the last hour; these are the two
exceptions described above, so the theorem says that there is no
third. The inductive invariant adds `OnRecord`: as long as `steady` is true, every
grant of the hour that ends now is still in the table, which the count of a claim then
covers; the caps themselves speak of every hour since the start.

**`OutboundQuota_proofs!RefusalsAreJustified`** : `Spec => RefusalIsJustified`, without
`steady`. A claim counts the rows that it leaves in the table, whatever their order, so
the table never holds more than `Limit - Reserve` challenges (`ReserveKept`); a full
hour then holds `Reserve` notices.

**`Locks_proofs`** is the sender lock. A handler reads the row, awaits Telegram, and
goes on as if the row were still what it read; that it is so is an invariant of all
other handlers, timers, workers, decisions, maintenance, crashes and recovery. `LockInv`
says for each kind of continuation which status it will find (`Fits`) and adds what the
continuations need of each other: a confined sender has a snapshot (`Undoable`), only a
suppression has an end (`Dated`), a temporary one was announced, its announcement is
under way or it is `silent` (`Told`), an unfinished challenge has a coroutine or a recovery
still to come, or is `left` in the archiving phase (`Attended`), and which status a
claimable job meets (`JobInv`). `ClaimInv` ties a running deletion to its
job. The CLI takes no lock, and `Unlocked` says what it may have put in the row
meanwhile: "allowed" or "unknown". A step for one sender leaves the invariant of the
others alone (`Others`), so each action has one lemma, about its own sender. The
invariant rests on `JobsAreCurrent`. From it follow, with the CLI:

- `ConfinementsAreReversible`, `StartsAreAttended`, `FailedJobsAreVisible` (invariants),
- `AllowancesAreKept`, `AnswersStand`, `DeletionsAreWarned`, `PermanenceHolds` (action
  properties);

and under the hypothesis `CliBudget = 0`:

- `LifecycleImplemented` : `Spec => ImplementsLifecycle`, the refinement of
  `SenderLifecycle`, step by step: `Promised` is what every action does to the standing
  of one sender;
- `DeletionsAreIsolated`, also under `"mode" \notin Environment`: nothing changes the
  row, the job or the mode while the deletion request is under way.

The hypotheses are not for the prover's sake: `allow` and `revoke` write a row between
another handler's read and write, and then these two are false. TLC finds the
counterexamples when the runs are given a CLI command, or a change of mode during a
deletion. The hypothesis is that nobody uses these commands beside the running service, not
that they do not exist.

What a command does to a deletion under way is proved without them. `DeletionsStand`: as
long as its job is pending and not `orphaned`, the sender is suppressed, under the revision
and within the restriction the job was scheduled for. A command that writes the row makes
the job an orphan until it cancels it; that it may not live to do so is why the exception is
needed; only `CliWritesSender` adds to `orphaned`, and a job leaves it by being closed
(`OrphansStay`). `OnlyCommandsInterrupt`: nothing closes that job before the request ends but the
second transaction of an `allow` or `revoke` of the sender, or the change to monitor mode,
and this one not when the operator decided the deletion.

`AcceptableJobsAreServed` is the safety half of `ClaimableJobRuns`: while the service is
up, a job that `claim_action` would accept has a worker or a deletion under way, after any
crash, failure or command. A worker ends when it finds its job unacceptable, so the
theorem needs that an unacceptable job stays so: the revision does not return
(`JobsAreCurrent`) and, at the same revision, a time that is over stays over (part of
`Advances`). Only the mode can return, so the theorem speaks of the operator's jobs, which
no mode affects, and of all jobs where the mode is not changed; the job that a change
of mode strands is described above.

`FailedJobsAreVisible` needs an invariant of its own on top of `LockInv`, because a
failed job outlives the suppression it was for. `FailedInv`: its sender is suppressed or
allowed, and the lock is free or held for work that leaves it so, or the job is orphaned;
`FailureStays` goes through all actions and shows that whatever ends such a standing closes
the sender's jobs in the same step, or is a command that orphans them. `ClaimStands`: a
deletion whose job is still pending runs under the suppression it was claimed for, or its
job is orphaned, so a deletion that fails after a command wrote the row leaves at most an
orphaned job.

**`OperatorControls_proofs`**: `TypeCorrect`, `CardsOutliveControls`,
`CleanupsAreNotEarly`, `ControlsAreCurrent`, `EverythingIsTracked`. Two inductive
invariants. `Safe`: message ids are fresh and known to the service only once given, the
row of a message in `operator_artifacts` never falls due before the message is old
enough, what the loop is deleting is old enough (`DueWhenOld`), and a control has a
card that stays at least as long (`ControlsFit`); that nothing is removed early and
that a card outlives its control need each other. `Tracking`: a message that was
handled is tracked by more than the update that brought it (`HandledIsTracked`), which
is why dropping a duplicate loses nothing, and an idle service owns no artifacts. The
type invariant includes the backoff, so it uses that the largest number of retries in a
batch exists (`Largest`).

**`ScreeningPolicy_proofs!SuppressionsAreCorroborated`**. The score does not matter here:
the gate must be passed whatever it is. Every signal the gate reads stands for a fact of the
message (`SignalsMean`), except the repeated campaign; two rows for a template include
one of another sender, because an observation replaces the sender's own row
(`OtherRow`); and every row was really sent (`RowsWereSent`).

**`ScreeningPolicy_proofs!RepeatsAreSuppressed`** : `Spec => []RepeatIsSuppressed`, the
converse: the second sender of a template within the window is given up. Here the score
matters. It is a fold over the signals in an order nobody chose; that adding a signal
never lowers it, and that any set with the weights in question reaches 70, is proved
by a least counterexample (`WFMin`, on the strict subsets of a finite set) instead of by
induction, whose theorems the provers cannot instantiate. The inductive invariant is
`RepeatInv`: no row is of a later time than now (`InOrder`), and what a sender has sent
within the window is in the table, with the time it was last sent (`OnFile`), through
pruning and through forgetting, which erases the history's entry with the row.

**`DashboardSidecar_proofs`**: `LoginsWorkOnce` and `OnlyTheHolderEnters` from
`LoginInv` (a token that is current or not drawn yet has opened no session; the current
session's cookie is in the holder's jar only); `DecisionsAreNotRepeated` and
`AnswersAreTrue` from `DecisionInv` (a decision is in the core at most once, one request
waits for it, and a refusal leaves no execution behind, also one whose caller gave up).

**`TestSender_proofs`**: `ResultsHaveTimers`, `NoJobIsStale`, `NewerResultsStand`. The
invariant needs the lengths of the delays: a job falls due before its reset, and its
worker, being prompt, claims it before time reaches the reset.

**`LivePage_proofs`**: `EvidenceMatches`, and `PagesAreOfTheirAddresses`, whose invariant
adds that a check under way is of the address the tab is at and that there is none
during a navigation (`ChecksFit`).

**What the proofs changed.** `AcceptedAnswerStands` used to say that a sender who
has answered correctly is confined only while the lock is free, that is by the timeout.
The proof showed a second way, which takes more messages than the run has: the restore
fails, and a last wrong answer sent afterwards ends in the notice of the failed attempts;
the property now names both. The visibility of failed deletions was first proved
for a service without CLI commands, until the invariant above showed that the
hypothesis is not needed. `PermanentUntilDecided` was proved under it too; the case that
failed without it is a `revoke` checked before the suppression and written after it, the
property now names it, and the `commands` run checks it with the CLI. That acceptable jobs
have workers failed for one step, the change of mode back to protect, and TLC found the
behaviour for it (above). The assumption of `OperatorControls` now says that `RetryMax` is
a natural number, and that of `ScreeningPolicy` that a message has finitely many links.

**Only model-checked.** Liveness and everything under fairness is out of the prover's
reach, as is `ENABLED`: `ChallengeEnds`, `ClaimableJobRuns`, `QueuedIsDeleted`,
`StrandedSidecarEnds`, `RequestIsAnswered`, `StaleIsNoticed`. Every invariant and every
action property of the passing runs, and the refinement, is a theorem.

## What is not modelled

- parsing of HTTP requests and framing of RPC messages; the pages of cases, whose
  live updates work as those of reviews do; the evidence views;
- the adapter's update-stall detector and the bounded session cache;
- the encrypted content of reviews and evidence, the texts of notices, the audit
  and decision logs, cleanup of the service's own messages after a passed
  challenge;
- the relative length of delays, except for the test sender: a timer or worker that is due may run at any
  time after, and a sleeping worker may wake as soon as it exists;
- errors of the store other than the one in `activate_challenge` whose handling the
  documentation describes: a statement that raises elsewhere ends its handler;
- a crash of the service between the transactions of its own `allow` is modelled
  (`CrashInsideAllow`), a CLI command between them is not;
- several CLI commands at once, and which timers, workers and decisions had asked for a
  lock before maintenance did: only messages keep their place in that queue;
- cryptography, configuration, entry points, logging, rendering, scripts: they keep
  no state that a step of the running system changes.

## Plan

1. *Done*: sender state, dialogs, jobs, challenge, operator, CLI, maintenance,
   crashes; the quota; Saved Messages; screening; the lifecycle and the refinement; the
   test sender; the Dashboard's process; its live pages; the theorems above.
2. *Done*: the lock discipline and what follows from it, the refinement, the quota's
   refusals, Saved Messages, screening, the Dashboard's process and pages, the test
   sender.
3. *Done*: repeated campaigns, permanence and running deletions beside the CLI, workers
   of acceptable jobs.
   *Proofs next*: the lifecycle refinement with the CLI's writes as steps of the abstract
   specification; type correctness of `ScreeningPolicy` and `LivePage` as a whole.
4. *Possible modules*: the update-stall detector and the bounded session cache.

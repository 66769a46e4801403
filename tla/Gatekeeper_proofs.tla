-------------------------- MODULE Gatekeeper_proofs --------------------------
(***************************************************************************)
(* Proofs about Gatekeeper for every set of senders and messages and every *)
(* value of the bounds: types, the deletion jobs, and that no dialog is    *)
(* deleted on the strength of a restriction that has ended.                *)
(***************************************************************************)
EXTENDS Gatekeeper, TLAPS

-----------------------------------------------------------------------------
(* Types, by the groups of variables that actions change together *)

RowsOK ==
  /\ row \in [Senders -> Row]
  /\ era \in [Senders -> Nat]
  /\ past \in [Senders -> Past]
  /\ owner \in [Senders -> {"none", "before", "since"}]
  /\ deadline \in [Senders -> {"none", "running", "late", "over"}]

JobsOK ==
  /\ jobs \in [JobIds -> Job]
  /\ nextJob \in 1 .. MaxJobs + 1
  /\ workers \in SUBSET JobIds

DialogsOK ==
  /\ snap \in [Senders -> Snapshot]
  /\ dialog \in [Senders -> Dialog]

TasksOK == task \in [Senders -> Task]
TimersOK == timer \in [Senders -> Timer]
MessagesOK == msg \in [Messages -> Msg]
CliOK == cli \in Cli /\ cliLeft \in 0 .. CliBudget /\ orphaned \in SUBSET JobIds
ReviewOK == review \in SUBSET Senders
ModeOK == mode \in {"monitor", "protect"}

LoopOK ==
  /\ svc \in {"down", "recovering", "up"}
  /\ recovering \in SUBSET Senders
  /\ maint \in Maint
  /\ crashes \in 0 .. MaxCrashes

\* The groups are the type invariant.
LEMMA Groups ==
  TypeOK <=> /\ RowsOK /\ JobsOK /\ DialogsOK /\ TasksOK /\ TimersOK
             /\ MessagesOK /\ CliOK /\ ReviewOK /\ ModeOK /\ LoopOK
BY DEF TypeOK, RowsOK, JobsOK, DialogsOK, TasksOK, TimersOK, MessagesOK, CliOK,
       ReviewOK, ModeOK, LoopOK

\* The groups of the next state together make it well typed.
LEMMA GroupsNext ==
  RowsOK' /\ JobsOK' /\ DialogsOK' /\ TasksOK' /\ TimersOK' /\ MessagesOK'
    /\ CliOK' /\ ReviewOK' /\ ModeOK' /\ LoopOK' => TypeOK'
BY DEF TypeOK, RowsOK, JobsOK, DialogsOK, TasksOK, TimersOK, MessagesOK, CliOK,
       ReviewOK, ModeOK, LoopOK

\* A group whose variables do not change stays well typed.
LEMMA Keep ==
  /\ RowsOK /\ UNCHANGED rowVars => RowsOK'
  /\ JobsOK /\ UNCHANGED jobVars => JobsOK'
  /\ DialogsOK /\ UNCHANGED dialogVars => DialogsOK'
  /\ TasksOK /\ UNCHANGED task => TasksOK'
  /\ TimersOK /\ UNCHANGED timer => TimersOK'
  /\ MessagesOK /\ UNCHANGED msg => MessagesOK'
  /\ CliOK /\ UNCHANGED cliVars => CliOK'
  /\ ReviewOK /\ UNCHANGED review => ReviewOK'
  /\ ModeOK /\ UNCHANGED mode => ModeOK'
  /\ LoopOK /\ UNCHANGED loopVars => LoopOK'
BY DEF RowsOK, JobsOK, DialogsOK, TasksOK, TimersOK, MessagesOK, CliOK,
       ReviewOK, ModeOK, LoopOK, rowVars, jobVars, dialogVars, cliVars, loopVars

-----------------------------------------------------------------------------
(* Rows *)

\* A disjunction of truth values is a truth value.
LEMMA Either == \A x, y \in BOOLEAN : (x \/ y) \in BOOLEAN
BY SMT

\* The fields of a sender row have their types.
LEMMA RowFields ==
  ASSUME NEW r \in Row
  PROVE  /\ r.revision \in Nat /\ r.revision + 1 \in Nat
         /\ r.attempts \in Nat /\ r.attempts + 1 \in Nat
         /\ r.actionRef \in BOOLEAN /\ r.restrictionRef \in BOOLEAN
         /\ r.status \in Statuses /\ r.expires \in Messages \cup {NoChallenge}
<1>1. /\ r.revision \in Nat /\ r.attempts \in Nat
      /\ r.actionRef \in BOOLEAN /\ r.restrictionRef \in BOOLEAN
      /\ r.status \in Statuses /\ r.expires \in Messages \cup {NoChallenge}
  BY Zenon DEF Row
<1> QED  BY <1>1

\* The row that suppress writes for a sender is a sender row.
LEMMA SuppressedRow ==
  ASSUME NEW n \in Nat, NEW u \in Until, NEW b \in BOOLEAN, NEW c \in BOOLEAN
  PROVE  [NoRow EXCEPT !.status = "suppressed", !.revision = n, !.until = u,
                       !.actionRef = b, !.restrictionRef = c] \in Row
<1>1. "suppressed" \in Statuses
  BY DEF Statuses, DashboardOnly, GatekeeperArchived, Restricted
<1> QED  BY <1>1, Zenon DEF Row, NoRow

\* suppress yields a sender row.
LEMMA SuppressTypes ==
  ASSUME NEW r \in Row, NEW u \in Until, NEW b \in BOOLEAN, NEW c \in BOOLEAN
  PROVE  SuppressRow(r, u, b, c) \in Row
<1>1. (b \/ r.actionRef) \in BOOLEAN /\ (c \/ r.restrictionRef) \in BOOLEAN
  BY RowFields, Either, Zenon
<1>2. r.revision + 1 \in Nat  BY RowFields
<1> QED  BY <1>1, <1>2, SuppressedRow, Zenon DEF SuppressRow

\* Every row the store writes is a row.
LEMMA RowTypes ==
  ASSUME NEW r \in Row
  PROVE  /\ NoRow \in Row
         /\ AllowRow(r) \in Row /\ RevokeRow(r) \in Row /\ ProvisionalRow(r) \in Row
         /\ \A b \in BOOLEAN : QuarantineRow(r, b) \in Row
         /\ \A m \in Messages, p \in {"standard", "strict"}, b \in BOOLEAN :
              BeginChallengeIssue(r, m, p, b) \in Row
         /\ BindChallenge(r) \in Row /\ ActivateChallenge(r) \in Row
         /\ ResetIncomplete(r) \in Row
         /\ \A b \in BOOLEAN : ExpireChallenge(r, b) \in Row
         /\ \A u \in Until, b, c \in BOOLEAN : SuppressRow(r, u, b, c) \in Row
         /\ ReleaseRow(r) \in Row
<1> USE DEF Row, Until, Statuses, DashboardOnly, Starting, Restricted,
            GatekeeperArchived
<1>1. NoRow \in Row  BY DEF NoRow
<1>2. \A st \in Statuses, b \in BOOLEAN : SetState(r, st, b) \in Row
  BY RowFields, Zenon DEF SetState, NoRow
<1>3. /\ AllowRow(r) \in Row /\ RevokeRow(r) \in Row /\ ProvisionalRow(r) \in Row
      /\ \A b \in BOOLEAN : QuarantineRow(r, b) \in Row
  BY <1>2, Zenon DEF AllowRow, RevokeRow, ProvisionalRow, QuarantineRow
<1>4. \A m \in Messages, p \in {"standard", "strict"}, b \in BOOLEAN :
        BeginChallengeIssue(r, m, p, b) \in Row
  BY Zenon DEF BeginChallengeIssue
<1>5. BindChallenge(r) \in Row /\ ActivateChallenge(r) \in Row
  BY RowFields, Zenon DEF BindChallenge, ActivateChallenge
<1>6. ResetIncomplete(r) \in Row  BY DEF ResetIncomplete
<1>7. \A b \in BOOLEAN : ExpireChallenge(r, b) \in Row
  BY RowFields, Zenon DEF ExpireChallenge
<1>8. \A u \in Until, b, c \in BOOLEAN : SuppressRow(r, u, b, c) \in Row
  BY SuppressTypes
<1>9. ReleaseRow(r) \in Row  BY RowFields, Zenon DEF ReleaseRow
<1> QED  BY <1>1, <1>3, <1>4, <1>5, <1>6, <1>7, <1>8, <1>9

\* Putting a row in place keeps the sender variables typed, the history aside.
LEMMA PutTypes ==
  ASSUME RowsOK, NEW s \in Senders, NEW r \in Row, PutRow(s, r),
         past' \in [Senders -> Past]
  PROVE  RowsOK'
<1>1. row' \in [Senders -> Row] /\ era' \in [Senders -> Nat]
  BY DEF RowsOK, PutRow, EraAfter
<1>3. owner' \in [Senders -> {"none", "before", "since"}]
  BY DEF RowsOK, PutRow
<1>4. deadline' \in [Senders -> {"none", "running", "late", "over"}]
  BY DEF RowsOK, PutRow
<1> QED  BY <1>1, <1>3, <1>4 DEF RowsOK

\* Histories: an empty one, and one with an event noted.
LEMMA PastTypes ==
  /\ NoPast \in Past
  /\ \A p \in Past, a, b, c \in BOOLEAN :
       /\ [p EXCEPT !.answered = a] \in Past
       /\ [p EXCEPT !.warned = a] \in Past
       /\ [p EXCEPT !.silent = a] \in Past
       /\ [p EXCEPT !.left = a] \in Past
       /\ [p EXCEPT !.silent = a, !.restored = b, !.left = c] \in Past
BY Zenon DEF NoPast, Past

\* Writing a sender row keeps the sender variables typed.
LEMMA WriteTypes ==
  ASSUME RowsOK, NEW s \in Senders, NEW r \in Row, NEW note \in Past,
         WriteNoting(s, r, note)
  PROVE  RowsOK'
<1>1. past' \in [Senders -> Past]
  BY PastTypes, Zenon DEF RowsOK, WriteNoting
<1> QED  BY <1>1, PutTypes DEF WriteNoting

\* The same for a write that does not touch the history.
LEMMA WriteRowTypes ==
  ASSUME RowsOK, NEW s \in Senders, NEW r \in Row, WriteRow(s, r)
  PROVE  RowsOK'
<1>1. past[s] \in Past  BY DEF RowsOK
<1> QED  BY <1>1, WriteTypes DEF WriteRow

\* Releasing an expired suppression on lookup keeps rows, jobs, reviews and snapshots typed.
LEMMA SettledTypes ==
  ASSUME RowsOK, JobsOK, ReviewOK, DialogsOK, NEW s \in Senders
  PROVE  /\ SettledRow(s) \in Row
         /\ SettledJobs(s) \in [JobIds -> Job]
         /\ SettledReview(s) \in SUBSET Senders
         /\ SettledSnap(s) \in [Senders -> Snapshot]
<1>1. row[s] \in Row  BY DEF RowsOK
<1>2. SettledRow(s) \in Row  BY <1>1, RowTypes DEF SettledRow
<1>3. SettledJobs(s) \in [JobIds -> Job]
  BY DEF JobsOK, SettledJobs, CancelOpen, Job, JobStatuses
<1>4. SettledReview(s) \in SUBSET Senders  BY DEF ReviewOK, SettledReview
<1>5. SettledSnap(s) \in [Senders -> Snapshot]
  BY DEF DialogsOK, SettledSnap, Snapshot
<1> QED  BY <1>2, <1>3, <1>4, <1>5

-----------------------------------------------------------------------------
(* Jobs *)

\* Cancelling, finishing and erasing jobs keeps pending_actions typed.
LEMMA JobTypes ==
  ASSUME NEW js \in [JobIds -> Job]
  PROVE  /\ \A s : CancelOpen(js, s) \in [JobIds -> Job]
         /\ \A i, st : st \in JobStatuses => FinishAction(js, i, st) \in [JobIds -> Job]
         /\ CancelAutomatic(js) \in [JobIds -> Job]
         /\ \A ids : EraseJobs(js, ids) \in [JobIds -> Job]
<1>1. \A i \in JobIds, st \in JobStatuses : [js[i] EXCEPT !.status = st] \in Job
  BY Zenon DEF Job
<1>2. {"cancelled", "absent"} \subseteq JobStatuses  BY DEF JobStatuses
<1>3. \A s : CancelOpen(js, s) \in [JobIds -> Job]
  BY <1>1, <1>2, Zenon DEF CancelOpen
<1>4. \A i, st : st \in JobStatuses => FinishAction(js, i, st) \in [JobIds -> Job]
  BY <1>1, Zenon DEF FinishAction
<1>5. CancelAutomatic(js) \in [JobIds -> Job]
  BY <1>1, <1>2, Zenon DEF CancelAutomatic
<1>6. \A ids : EraseJobs(js, ids) \in [JobIds -> Job]
  BY <1>1, <1>2, Zenon DEF EraseJobs
<1> QED  BY <1>3, <1>4, <1>5, <1>6

\* schedule_action, with its worker, keeps pending_actions typed.
LEMMA ScheduleTypes ==
  ASSUME JobsOK, NEW js \in [JobIds -> Job], NEW s \in Senders, NEW e \in Nat,
         NEW b \in BOOLEAN, NEW n \in Nat, Schedule(js, s, e, b, n)
  PROVE  JobsOK'
<1>1. nextJob \in JobIds /\ nextJob + 1 \in 1 .. MaxJobs + 1
  BY SenderStoreAssumption DEF JobsOK, Schedule, JobIds
<1>2. jobs' \in [JobIds -> Job]
  <2>1. \A i \in JobIds, st \in JobStatuses : [js[i] EXCEPT !.status = st] \in Job
    BY Zenon DEF Job
  <2>2. {"cancelled", "pending"} \subseteq JobStatuses  BY DEF JobStatuses
  <2>3. [sender |-> s, expected |-> e, independent |-> b, status |-> "pending",
         born |-> n] \in Job
    BY <2>2, Zenon DEF Job
  <2> QED  BY <2>1, <2>2, <2>3, Zenon DEF Schedule, ScheduleAction
<1> QED  BY <1>1, <1>2 DEF JobsOK, Schedule

-----------------------------------------------------------------------------
(* Tasks, timers, dialogs *)

\* The continuations the actions write are continuations.
LEMMA TaskTypes ==
  /\ Idle \in Task
  /\ \A k \in TaskKinds, a, b \in BOOLEAN, j \in 0 .. MaxJobs :
       Doing(k, a, b, j) \in Task
  /\ 0 \in 0 .. MaxJobs
<1>1. 0 \in 0 .. MaxJobs  BY SenderStoreAssumption
<1>2. "idle" \in TaskKinds  BY DEF TaskKinds
<1> QED  BY <1>1, <1>2, Zenon DEF Task, Doing, Idle

\* Giving a sender lock to a coroutine keeps the tasks typed.
LEMMA BecomeTypes ==
  ASSUME TasksOK, NEW s \in Senders, NEW t \in Task, Become(s, t)
  PROVE  TasksOK'
BY Zenon DEF TasksOK, Become

\* Setting and cancelling a timeout keeps the timers typed.
LEMMA TimerTypes ==
  ASSUME TimersOK, NEW s \in Senders
  PROVE  /\ CancelTimeout(s) => TimersOK'
         /\ \A tok \in Messages \cup {NoChallenge}, p \in BOOLEAN :
              ScheduleTimeout(s, tok, p) => TimersOK'
<1>1. NoTimer \in Timer  BY Zenon DEF Timer, NoTimer
<1>2. \A tok \in Messages \cup {NoChallenge}, p \in BOOLEAN :
        [phase |-> "armed", token |-> tok, peer |-> p] \in Timer
  BY Zenon DEF Timer
<1> QED  BY <1>1, <1>2, Zenon DEF TimersOK, CancelTimeout, ScheduleTimeout

Outcomes == [ok : BOOLEAN, dialog : Dialog, snap : Snapshot]

\* What a Telegram request leaves is a dialog and a snapshot.
LEMMA ResultTypes ==
  /\ \A ok \in BOOLEAN, d \in Dialog, sn \in Snapshot : Result(ok, d, sn) \in Outcomes
  /\ \A o \in Outcomes : o.dialog \in Dialog /\ o.snap \in Snapshot
  /\ NoSnapshot \in Snapshot /\ Dialog \subseteq Snapshot
<1>1. NoSnapshot \in Snapshot /\ Dialog \subseteq Snapshot  BY DEF Snapshot
<1> QED  BY <1>1, Zenon DEF Result, Outcomes

\* A restore, complete or cut short, leaves a dialog and a snapshot.
LEMMA RestoreTypes ==
  ASSUME NEW d \in Dialog, NEW sn \in Snapshot
  PROVE  Restore(d, sn) \subseteq Outcomes /\ CutRestore(d, sn) \subseteq Outcomes
<1>1. RestoreTarget(sn) \in Dialog  BY DEF RestoreTarget, Snapshot, MainDialog, Dialog
<1>2. InFolder(d, RestoreTarget(sn).folder) \in Dialog
  BY <1>1, Zenon DEF Dialog, InFolder
<1> QED  BY <1>1, <1>2, ResultTypes, Zenon DEF Restore, CutRestore

\* An archive request, complete or cut short, leaves a dialog and a snapshot.
LEMMA ArchiveTypes ==
  ASSUME NEW d \in Dialog, NEW sn \in Snapshot
  PROVE  ArchiveAndMute(d, sn) \subseteq Outcomes /\ CutArchive(d, sn) \subseteq Outcomes
<1> DEFINE e == InFolder(d, "archive")
           sv == SavedSnapshot(d, sn)
<1>1. sv \in Snapshot  BY DEF SavedSnapshot, Snapshot
<1>2. e \in Dialog /\ Confined \in Dialog  BY DEF InFolder, Dialog, Confined
<1>3. Restore(e, sv) \subseteq Outcomes /\ CutRestore(e, sv) \subseteq Outcomes
  BY <1>1, <1>2, RestoreTypes
<1>4. \A u \in Restore(e, sv) : Result(FALSE, u.dialog, u.snap) \in Outcomes
  BY <1>3, ResultTypes, Zenon
<1>5. {Result(TRUE, Confined, sv), Result(FALSE, d, sn), Result(FALSE, d, sv),
       Result(FALSE, Confined, sv)} \subseteq Outcomes
  BY <1>1, <1>2, ResultTypes, Zenon
<1> QED  BY <1>3, <1>4, <1>5, Zenon DEF ArchiveAndMute, CutArchive

\* A deletion, complete or cut short, leaves a dialog and a snapshot.
LEMMA DeleteTypes ==
  ASSUME NEW d \in Dialog, NEW sn \in Snapshot
  PROVE  DeleteDialog(d, sn) \subseteq Outcomes /\ CutDelete(d, sn) \subseteq Outcomes
<1>1. InFolder(d, "main") \in Dialog  BY DEF InFolder, Dialog
<1> QED  BY <1>1, ResultTypes, Zenon DEF DeleteDialog, CutDelete

\* Recording the result of a request keeps dialogs and snapshots typed.
LEMMA SetDialogTypes ==
  ASSUME DialogsOK, NEW s \in Senders, NEW o \in Outcomes, SetDialog(s, o)
  PROVE  DialogsOK'
BY ResultTypes, Zenon DEF DialogsOK, SetDialog

\* What a lock holder finds when its Telegram call returns.
LEMMA CallTypes ==
  ASSUME DialogsOK, NEW s \in Senders
  PROVE  /\ Results(Restore(dialog[s], snap[s])) \subseteq Outcomes
         /\ Results(ArchiveAndMute(dialog[s], snap[s])) \subseteq Outcomes
         /\ Results(DeleteDialog(dialog[s], snap[s])) \subseteq Outcomes
<1>1. dialog[s] \in Dialog /\ snap[s] \in Snapshot  BY DEF DialogsOK
<1>2. \A os : Results(os) \subseteq os  BY DEF Results
<1> QED  BY <1>1, <1>2, RestoreTypes, ArchiveTypes, DeleteTypes

\* The outcomes of deliveries and references are truth values.
LEMMA ChoiceTypes ==
  References \subseteq BOOLEAN /\ Delivery \subseteq BOOLEAN
    /\ NoticeDelivery \subseteq BOOLEAN
BY Zenon DEF References, Delivery, NoticeDelivery

\* allow keeps rows and jobs typed.
LEMMA AllowTypes ==
  ASSUME RowsOK, JobsOK, NEW s \in Senders, AllowSender(s)
  PROVE  RowsOK' /\ JobsOK'
<1>1. row[s] \in Row  BY DEF RowsOK
<1>2. RowsOK'  BY <1>1, RowTypes, WriteRowTypes DEF AllowSender
<1>3. JobsOK'  BY JobTypes DEF AllowSender, JobsOK
<1> QED  BY <1>2, <1>3

\* Enqueuing a review keeps the reviews typed.
LEMMA ReviewTypes ==
  ASSUME ReviewOK, NEW s \in Senders, NEW b
  PROVE  EnqueueReview(s, b) => ReviewOK'
BY DEF ReviewOK, EnqueueReview

-----------------------------------------------------------------------------
(* Every action keeps the types *)

\* Moving a message task on keeps the message tasks typed.
LEMMA MessageTypes ==
  ASSUME MessagesOK, NEW m \in Messages,
         NEW pc \in {"idle", "release", "releasing", "ready", "done"}
  PROVE  [msg EXCEPT ![m].pc = pc] \in [Messages -> Msg]
<1>1. [msg[m] EXCEPT !.pc = pc] \in Msg  BY Zenon DEF MessagesOK, Msg
<1> QED  BY <1>1, Zenon DEF MessagesOK

\* A message task that takes its sender lock leaves the rest typed.
LEMMA TakenTypes ==
  ASSUME TypeOK, NEW s \in Senders, NEW m \in Messages, Taken(s, m)
  PROVE  MessagesOK' /\ ModeOK' /\ CliOK' /\ LoopOK'
<1>1. MessagesOK'  BY Groups, MessageTypes DEF Taken, MessagesOK
<1> QED  BY <1>1, Groups, Keep DEF Taken

\* An arriving message keeps the types.
LEMMA ReceiveTypes ==
  ASSUME TypeOK, NEW s \in Senders, NEW m \in Messages, Receive(s, m)
  PROVE  TypeOK'
<1>1. CASE Arrive(s, m)
  <2>1. row[s].revision \in Nat  BY Groups, RowFields DEF RowsOK
  <2>0. Missed(s) \subseteq Messages \cup {NoChallenge}
    BY Groups, RowFields DEF Missed, RowsOK
  <2>2. PICK contact \in BOOLEAN, seen \in BOOLEAN, late \in Missed(s) :
          LET archived == row[s].status \in GatekeeperArchived
          IN  msg' = [msg EXCEPT ![m] =
                        [pc |-> IF seen /\ archived THEN "release" ELSE "ready",
                         sender |-> s, contact |-> contact,
                         trusted |-> seen /\ ~archived, late |-> late]]
    BY <1>1, Zenon DEF Arrive, Lookups, OwnerSeen
  <2>3. (seen /\ row[s].status \notin GatekeeperArchived) \in BOOLEAN
    OBVIOUS
  <2>4. MessagesOK'
    BY <2>0, <2>1, <2>2, <2>3, Groups, Zenon DEF MessagesOK, Msg
  <2> QED  BY <1>1, <2>4, Groups, GroupsNext, Keep DEF Arrive
<1>2. CASE OwnerReleaseStarts(s, m)
  <2>1. MessagesOK'
    BY <1>2, Groups, MessageTypes, Zenon DEF OwnerReleaseStarts, MessagesOK
  <2>2. Doing("owner_restore", FALSE, FALSE, 0) \in Task
    BY TaskTypes DEF TaskKinds
  <2>3. TasksOK'
    BY <1>2, <2>2, Groups, BecomeTypes, Keep DEF OwnerReleaseStarts
  <2> QED  BY <1>2, <2>1, <2>3, Groups, GroupsNext, Keep DEF OwnerReleaseStarts
<1> QED  BY <1>1, <1>2 DEF Receive

\* The era after a write is a number.
LEMMA EraTypes ==
  ASSUME RowsOK, NEW s \in Senders, NEW r
  PROVE  EraAfter(s, r) \in Nat
BY DEF RowsOK, EraAfter

\* Every outcome of handling a message keeps the types.
LEMMA HandleTypes ==
  ASSUME TypeOK, NEW s \in Senders, NEW m \in Messages, Handle(s, m)
  PROVE  TypeOK'
<1> DEFINE st == SettledRow(s)
<1>a. /\ RowsOK /\ JobsOK /\ DialogsOK /\ TasksOK /\ TimersOK /\ ReviewOK
      /\ row[s] \in Row /\ era[s] \in Nat
  BY Groups DEF RowsOK
<1>b. /\ st \in Row /\ SettledJobs(s) \in [JobIds -> Job]
      /\ SettledReview(s) \in SUBSET Senders
      /\ SettledSnap(s) \in [Senders -> Snapshot]
  BY <1>a, SettledTypes
<1>c. MessagesOK' /\ ModeOK' /\ CliOK' /\ LoopOK' /\ UNCHANGED dialog
  <2>1. Taken(s, m)
    BY DEF Handle, HandleSuppressed, HandleTrusted, HandleDecided, HandleEvidence,
           HandleMonitored, HandleIssue, HandleLateReply, HandleUnusableReply,
           HandleCorrectAnswer, HandleWrongAnswer, InTime, Answered, Screened
  <2> QED  BY <2>1, TakenTypes DEF Taken
<1>d. snap' \in [Senders -> Snapshot] => DialogsOK'
  BY <1>a, <1>c DEF DialogsOK
<1>e. UNCHANGED snap => DialogsOK'
  BY <1>a, <1>c DEF DialogsOK
<1>1. CASE HandleSuppressed(s, m)
  <2>1. JobsOK'
    BY <1>1, <1>a, RowFields, ScheduleTypes, Keep DEF HandleSuppressed, JobsOK
  <2> QED  BY <1>1, <1>a, <1>c, <1>e, <2>1, Keep, GroupsNext DEF HandleSuppressed
<1>2. CASE HandleTrusted(s, m)
  <2>1. RowsOK'  BY <1>2, <1>a, <1>b, RowTypes, WriteRowTypes DEF HandleTrusted
  <2>2. JobsOK'  BY <1>2, <1>a, JobTypes DEF HandleTrusted, JobsOK
  <2>3. ReviewOK' /\ DialogsOK'
    BY <1>2, <1>b, <1>d DEF HandleTrusted, ReviewOK
  <2> QED  BY <1>2, <1>a, <1>c, <2>1, <2>2, <2>3, Keep, GroupsNext DEF HandleTrusted
<1>3. CASE HandleDecided(s, m)
  BY <1>3, <1>a, <1>c, <1>e, Keep, GroupsNext DEF HandleDecided
<1>4. CASE HandleEvidence(s, m)
  <2> DEFINE r == SuppressRow(st, "null", TRUE, TRUE)
  <2>1. r \in Row /\ r.revision \in Nat /\ EraAfter(s, r) \in Nat
    BY <1>a, <1>b, SuppressTypes, RowFields, EraTypes DEF Until
  <2>2. RowsOK'  BY <1>4, <1>a, <1>b, <2>1, WriteRowTypes DEF HandleEvidence
  <2>3. JobsOK'
    <3>1. CASE Schedule(SettledJobs(s), s, r.revision, FALSE, EraAfter(s, r))
      BY <3>1, <1>a, <1>b, <2>1, ScheduleTypes
    <3>2. CASE jobs' = SettledJobs(s) /\ UNCHANGED <<nextJob, workers>>
      BY <3>2, <1>a, <1>b DEF JobsOK
    <3> QED  BY <1>4, <3>1, <3>2 DEF HandleEvidence
  <2>4. TimersOK'  BY <1>4, <1>a, TimerTypes, Keep DEF HandleEvidence
  <2>5. ReviewOK' /\ DialogsOK'
    BY <1>4, <1>a, <1>b, <1>d DEF HandleEvidence, ReviewOK
  <2> QED  BY <1>4, <1>a, <1>c, <2>2, <2>3, <2>4, <2>5, Keep, GroupsNext
           DEF HandleEvidence
<1>5. CASE HandleMonitored(s, m)
  <2>1. RowsOK'  BY <1>5, <1>a, <1>b, WriteRowTypes DEF HandleMonitored
  <2>2. JobsOK'  BY <1>5, <1>a, <1>b DEF HandleMonitored, JobsOK
  <2>3. ReviewOK' /\ DialogsOK'
    BY <1>5, <1>a, <1>b, <1>d DEF HandleMonitored, ReviewOK
  <2> QED  BY <1>5, <1>a, <1>c, <2>1, <2>2, <2>3, Keep, GroupsNext DEF HandleMonitored
<1>6. CASE HandleIssue(s, m)
  <2>1. PICK ref \in BOOLEAN, profile \in {"standard", "strict"} :
          \/ /\ WriteRow(s, BeginChallengeIssue(st, m, profile, ref))
             /\ Become(s, Doing("issue_send", FALSE, FALSE, 0))
          \/ /\ WriteRow(s, st)
             /\ Become(s, Doing("fallback_archive", ref, FALSE, 0))
    BY <1>6, ChoiceTypes DEF HandleIssue
  <2>2. RowsOK'
    BY <2>1, <1>a, <1>b, RowTypes, WriteRowTypes
  <2>3. TasksOK'
    <3>1. /\ Doing("issue_send", FALSE, FALSE, 0) \in Task
          /\ Doing("fallback_archive", ref, FALSE, 0) \in Task
      BY TaskTypes DEF TaskKinds
    <3> QED  BY <2>1, <3>1, <1>a, BecomeTypes
  <2>4. JobsOK' /\ ReviewOK' /\ DialogsOK'
    BY <1>6, <1>a, <1>b, <1>d DEF HandleIssue, JobsOK, ReviewOK
  <2> QED  BY <1>6, <1>a, <1>c, <2>2, <2>3, <2>4, Keep, GroupsNext DEF HandleIssue
<1>7. CASE HandleLateReply(s, m)
  <2>1. RowsOK'
    <3>1. ExpireChallenge(row[s], row[s].actionRef) \in Row
      BY <1>a, RowTypes, RowFields
    <3> QED  BY <1>7, <1>a, <3>1, WriteRowTypes DEF HandleLateReply
  <2>2. TasksOK'
    <3>1. \A ref \in BOOLEAN : Doing("timeout_notice", FALSE, ref, 0) \in Task
      BY TaskTypes DEF TaskKinds
    <3> QED  BY <1>7, <1>a, <3>1, BecomeTypes, ChoiceTypes DEF HandleLateReply
  <2>3. TimersOK'  BY <1>7, <1>a, TimerTypes DEF HandleLateReply
  <2> QED  BY <1>7, <1>a, <1>c, <1>e, <2>1, <2>2, <2>3, Keep, GroupsNext
           DEF HandleLateReply
<1>8. CASE HandleUnusableReply(s, m)
  <2>1. PICK hinted \in BOOLEAN :
          row' = [row EXCEPT ![s].guidance = row[s].guidance \/ hinted]
    BY <1>8 DEF HandleUnusableReply
  <2>2. row[s].guidance \in BOOLEAN  BY <1>a, Zenon DEF Row
  <2>3. (row[s].guidance \/ hinted) \in BOOLEAN  BY <2>2, Either
  <2>4. [row[s] EXCEPT !.guidance = row[s].guidance \/ hinted] \in Row
    BY <1>a, <2>3, Zenon DEF Row
  <2>5. row' \in [Senders -> Row]  BY <2>1, <2>4, <1>a, Zenon DEF RowsOK
  <2>6. RowsOK'  BY <1>8, <1>a, <2>5 DEF HandleUnusableReply, RowsOK
  <2> QED  BY <1>8, <1>a, <1>c, <1>e, <2>6, Keep, GroupsNext DEF HandleUnusableReply
<1>9. CASE HandleCorrectAnswer(s, m)
  <2>1. past' \in [Senders -> Past]
    BY <1>9, <1>a, Zenon DEF HandleCorrectAnswer, RowsOK, Past
  <2>2. RowsOK'  BY <1>9, <1>a, <2>1 DEF HandleCorrectAnswer, RowsOK
  <2>3. TasksOK'
    <3>1. \A ref \in BOOLEAN : Doing("answer_restore", ref, FALSE, 0) \in Task
      BY TaskTypes DEF TaskKinds
    <3> QED  BY <1>9, <1>a, <3>1, BecomeTypes, ChoiceTypes DEF HandleCorrectAnswer
  <2> QED  BY <1>9, <1>a, <1>c, <1>e, <2>2, <2>3, Keep, GroupsNext
           DEF HandleCorrectAnswer
<1>10. CASE HandleWrongAnswer(s, m)
  <2>1. [row[s] EXCEPT !.attempts = row[s].attempts + 1] \in Row
    BY <1>a, RowFields, Zenon DEF Row
  <2>2. RowsOK'  BY <1>10, <1>a, <2>1, WriteRowTypes DEF HandleWrongAnswer
  <2>3. TasksOK'
    <3>1. \A ref \in BOOLEAN :
            Doing("attempts_notice", ref, row[s].actionRef, 0) \in Task
      BY <1>a, RowFields, TaskTypes DEF TaskKinds
    <3> QED  BY <1>10, <1>a, <3>1, BecomeTypes, ChoiceTypes, Keep DEF HandleWrongAnswer
  <2>4. TimersOK'  BY <1>10, <1>a, TimerTypes, Keep DEF HandleWrongAnswer
  <2> QED  BY <1>10, <1>a, <1>c, <1>e, <2>2, <2>3, <2>4, Keep, GroupsNext
           DEF HandleWrongAnswer
<1> QED
  BY <1>1, <1>2, <1>3, <1>4, <1>5, <1>6, <1>7, <1>8, <1>9, <1>10 DEF Handle

\* The operator's spam decision keeps the types.
LEMMA SpamTypes ==
  ASSUME RowsOK, JobsOK, TimersOK, ReviewOK, NEW s \in Senders, MarkSpam(s)
  PROVE  RowsOK' /\ JobsOK' /\ TimersOK' /\ ReviewOK'
<1> DEFINE r == SuppressRow(row[s], "null", TRUE, TRUE)
<1>1. r \in Row /\ r.revision \in Nat /\ EraAfter(s, r) \in Nat
  BY SuppressTypes, RowFields, EraTypes DEF Until, RowsOK
<1>2. CancelOpen(jobs, s) \in [JobIds -> Job]  BY JobTypes DEF JobsOK
<1> HIDE DEF r
<1>3. [r EXCEPT !.archived = TRUE] \in Row  BY <1>1, Zenon DEF Row
<1>4. /\ WriteRow(s, [r EXCEPT !.archived = TRUE])
      /\ Schedule(CancelOpen(jobs, s), s, r.revision, TRUE, EraAfter(s, r))
      /\ CancelTimeout(s)
      /\ review' = review \ {s}
  BY DEF MarkSpam, r
<1>5. RowsOK'  BY <1>3, <1>4, WriteRowTypes
<1>6. JobsOK'  BY <1>1, <1>2, <1>4, ScheduleTypes
<1> QED  BY <1>4, <1>5, <1>6, TimerTypes DEF ReviewOK

\* The coroutines that go on after an await.
LEMMA ContinueTypes ==
  ASSUME TypeOK, NEW s \in Senders, Continue(s)
  PROVE  TypeOK'
<1>a. /\ RowsOK /\ JobsOK /\ DialogsOK /\ TasksOK /\ TimersOK /\ ReviewOK
      /\ MessagesOK /\ CliOK /\ ModeOK /\ LoopOK
      /\ row[s] \in Row /\ era[s] \in Nat /\ task[s] \in Task
  BY Groups DEF RowsOK, TasksOK
<1>b. task[s].ref \in BOOLEAN /\ task[s].fallback \in BOOLEAN
  BY <1>a, Zenon DEF Task
<1>c. Become(s, Idle) => TasksOK'  BY <1>a, TaskTypes, BecomeTypes
<1>1. CASE IssueSent(s)
  <2>1. RowsOK'  BY <1>1, <1>a, RowTypes, WriteRowTypes DEF IssueSent
  <2>2. TasksOK'
    <3>1. Doing("issue_archive", FALSE, FALSE, 0) \in Task
      BY TaskTypes DEF TaskKinds
    <3> QED  BY <1>1, <1>a, <1>c, <3>1, BecomeTypes DEF IssueSent
  <2>3. TimersOK'
    BY <1>1, <1>a, TimerTypes, Keep DEF IssueSent, CancelTimeout
  <2> QED  BY <1>1, <1>a, <2>1, <2>2, <2>3, Keep, GroupsNext DEF IssueSent
<1>2. CASE IssueArchived(s)
  <2>1. DialogsOK'  BY <1>2, <1>a, CallTypes, SetDialogTypes DEF IssueArchived
  <2>2. RowsOK'
    BY <1>2, <1>a, RowTypes, WriteRowTypes, WriteTypes, PastTypes, Keep DEF IssueArchived
  <2>3. TasksOK'
    <3>1. \A b \in ActivationRaises : Doing("issue_unwind", b, FALSE, 0) \in Task
      BY TaskTypes DEF TaskKinds, ActivationRaises
    <3> QED  BY <1>2, <1>a, <1>c, <3>1, BecomeTypes DEF IssueArchived
  <2>4. TimersOK'
    BY <1>2, <1>a, RowFields, TimerTypes, Keep DEF IssueArchived
  <2> QED  BY <1>2, <1>a, <2>1, <2>2, <2>3, <2>4, Keep, GroupsNext DEF IssueArchived
<1>3. CASE IssueUnwound(s)
  <2>1. DialogsOK'  BY <1>3, <1>a, CallTypes, SetDialogTypes DEF IssueUnwound
  <2>2. RowsOK'
    <3>1. CASE WriteRow(s, ResetIncomplete(row[s]))
      BY <1>a, <3>1, RowTypes, WriteRowTypes
    <3>2. CASE /\ past' = [past EXCEPT ![s].left = row[s].status \in Starting]
               /\ UNCHANGED <<row, era, owner, deadline>>
      <4>1. (row[s].status \in Starting) \in BOOLEAN /\ past[s] \in Past
        BY <1>a DEF RowsOK
      <4>2. past' \in [Senders -> Past]
        BY <1>a, <3>2, <4>1, PastTypes, Zenon DEF RowsOK
      <4> QED  BY <1>a, <3>2, <4>2 DEF RowsOK
    <3> QED  BY <1>3, <3>1, <3>2 DEF IssueUnwound
  <2>3. TimersOK'  BY <1>3, <1>a, TimerTypes, Keep DEF IssueUnwound
  <2> QED  BY <1>3, <1>a, <1>c, <2>1, <2>2, <2>3, Keep, GroupsNext DEF IssueUnwound
<1>4. CASE FallbackArchived(s)
  <2>1. DialogsOK'  BY <1>4, <1>a, CallTypes, SetDialogTypes DEF FallbackArchived
  <2>2. RowsOK'
    BY <1>4, <1>a, <1>b, RowTypes, WriteRowTypes DEF FallbackArchived
  <2>3. ReviewOK'  BY <1>4, <1>a, ReviewTypes DEF FallbackArchived
  <2> QED  BY <1>4, <1>a, <1>c, <2>1, <2>2, <2>3, Keep, GroupsNext DEF FallbackArchived
<1>5. CASE AnswerRestored(s)
  <2>1. DialogsOK'  BY <1>5, <1>a, CallTypes, SetDialogTypes DEF AnswerRestored
  <2>2. RowsOK'  BY <1>5, <1>a, RowTypes, WriteRowTypes, Keep DEF AnswerRestored
  <2>3. ReviewOK' /\ TimersOK'
    BY <1>5, <1>a, ReviewTypes, TimerTypes, Keep DEF AnswerRestored
  <2> QED  BY <1>5, <1>a, <1>c, <2>1, <2>2, <2>3, Keep, GroupsNext DEF AnswerRestored
<1>6. CASE AttemptsNotified(s)
  <2> DEFINE ref == task[s].ref
             R(sent) == IF Deletes(sent, ref \/ task[s].fallback)
                        THEN SuppressRow(row[s], "future", TRUE, TRUE)
                        ELSE QuarantineRow(row[s], ~sent /\ ref)
  <2>1. PICK sent \in BOOLEAN :
          /\ WriteNoting(s, R(sent), IF sent THEN Warned(s) ELSE past[s])
          /\ IF R(sent).status = "suppressed"
             THEN Schedule(jobs, s, R(sent).revision, FALSE, EraAfter(s, R(sent)))
             ELSE UNCHANGED jobVars
          /\ EnqueueReview(s, ~sent /\ ref)
    BY <1>6, ChoiceTypes DEF AttemptsNotified
  <2>2. R(sent) \in Row
    <3>1. (~sent /\ ref) \in BOOLEAN  OBVIOUS
    <3> QED  BY <3>1, <1>a, RowTypes DEF Until
  <2>3. (IF sent THEN Warned(s) ELSE past[s]) \in Past
    BY <1>a, Zenon DEF Warned, RowsOK, Past
  <2>4. RowsOK'
    <3> HIDE DEF R
    <3> QED  BY <1>a, <2>1, <2>2, <2>3, WriteTypes
  <2>5. JobsOK'
    <3> HIDE DEF R
    <3>1. R(sent).revision \in Nat /\ EraAfter(s, R(sent)) \in Nat
      BY <1>a, <2>2, RowFields, EraTypes
    <3>2. jobs \in [JobIds -> Job]  BY <1>a DEF JobsOK
    <3> QED  BY <1>a, <2>1, <3>1, <3>2, ScheduleTypes, Keep
  <2>6. ReviewOK'  BY <2>1, <1>a, ReviewTypes
  <2> QED  BY <1>6, <1>a, <1>c, <2>4, <2>5, <2>6, Keep, GroupsNext DEF AttemptsNotified
<1>7. CASE TimeoutNotified(s)
  <2> DEFINE ref == row[s].actionRef \/ task[s].fallback
  <2>1. ref \in BOOLEAN /\ row[s].revision \in Nat /\ jobs \in [JobIds -> Job]
    BY <1>a, <1>b, RowFields, Either DEF JobsOK
  <2>2. CASE /\ Schedule(jobs, s, row[s].revision, FALSE, era[s])
             /\ past' = [past EXCEPT ![s] = Warned(s)]
             /\ UNCHANGED <<row, era, owner, deadline, review>>
    <3>1. JobsOK'  BY <2>1, <2>2, <1>a, ScheduleTypes
    <3>2. Warned(s) \in Past  BY <1>a, Zenon DEF Warned, RowsOK, Past
    <3>3. RowsOK'  BY <2>2, <3>2, <1>a DEF RowsOK
    <3> QED  BY <1>7, <2>2, <1>a, <1>c, <3>1, <3>3, Keep, GroupsNext
             DEF TimeoutNotified
  <2>3. CASE /\ WriteRow(s, QuarantineRow(row[s], ref))
             /\ EnqueueReview(s, ref)
             /\ UNCHANGED jobVars
    <3>1. QuarantineRow(row[s], ref) \in Row  BY <2>1, <1>a, RowTypes
    <3>2. RowsOK'  BY <2>3, <3>1, <1>a, WriteRowTypes
    <3>3. ReviewOK'  BY <2>3, <1>a, ReviewTypes
    <3> QED  BY <1>7, <2>3, <1>a, <1>c, <3>2, <3>3, Keep, GroupsNext
             DEF TimeoutNotified
  <2> QED  BY <1>7, <2>2, <2>3 DEF TimeoutNotified
<1>8. CASE OwnerRestored(s)
  <2>1. DialogsOK'  BY <1>8, <1>a, CallTypes, SetDialogTypes DEF OwnerRestored
  <2>2. RowsOK' /\ JobsOK'  BY <1>8, <1>a, AllowTypes, Keep DEF OwnerRestored
  <2>3. TimersOK'
    <3>1. \A ph \in {"none", "armed", "release", "releasing", "expire"} :
            [timer[s] EXCEPT !.phase = ph] \in Timer
      BY <1>a, Zenon DEF TimersOK, Timer
    <3>2. timer[s].phase \in {"none", "armed", "release", "releasing", "expire"}
      BY <1>a, Zenon DEF TimersOK, Timer
    <3>3. CASE timer' = [timer EXCEPT ![s].phase =
                           IF timer[s].phase = "releasing" THEN "expire"
                                                           ELSE timer[s].phase]
      BY <3>1, <3>2, <3>3, <1>a, Zenon DEF TimersOK
    <3> QED  BY <1>8, <1>a, <3>3, TimerTypes DEF OwnerRestored
  <2>4. MessagesOK'
    <3>1. \A k \in Messages : [msg[k] EXCEPT !.pc = "ready"] \in Msg
      BY <1>a, Zenon DEF MessagesOK, Msg
    <3> QED  BY <1>8, <3>1, <1>a, Zenon DEF OwnerRestored, MessagesOK
  <2> QED  BY <1>8, <1>a, <1>c, <2>1, <2>2, <2>3, <2>4, Keep, GroupsNext
           DEF OwnerRestored
<1>9. CASE LegitimateRestored(s)
  <2>1. DialogsOK'  BY <1>9, <1>a, CallTypes, SetDialogTypes DEF LegitimateRestored
  <2>2. RowsOK' /\ JobsOK' /\ TimersOK' /\ ReviewOK'
    BY <1>9, <1>a, AllowTypes, TimerTypes, Keep
       DEF LegitimateRestored, MarkLegitimate, ReviewOK
  <2> QED  BY <1>9, <1>a, <1>c, <2>1, <2>2, Keep, GroupsNext DEF LegitimateRestored
<1>10. CASE AllowRestored(s)
  <2>1. DialogsOK'  BY <1>10, <1>a, CallTypes, SetDialogTypes DEF AllowRestored
  <2>2. RowsOK' /\ JobsOK' /\ TimersOK'
    BY <1>10, <1>a, AllowTypes, TimerTypes, Keep DEF AllowRestored
  <2> QED  BY <1>10, <1>a, <1>c, <2>1, <2>2, Keep, GroupsNext DEF AllowRestored
<1>11. CASE SpamArchived(s)
  <2>1. DialogsOK'  BY <1>11, <1>a, CallTypes, SetDialogTypes DEF SpamArchived
  <2>2. RowsOK' /\ JobsOK' /\ TimersOK' /\ ReviewOK'
    BY <1>11, <1>a, SpamTypes, Keep DEF SpamArchived
  <2> QED  BY <1>11, <1>a, <1>c, <2>1, <2>2, Keep, GroupsNext DEF SpamArchived
<1>12. CASE DeletionEnds(s)
  <2>1. DialogsOK'
    BY <1>12, <1>a, CallTypes, SetDialogTypes DEF DeletionEnds
  <2>2. JobsOK'
    BY <1>12, <1>a, JobTypes DEF DeletionEnds, JobsOK, JobStatuses
  <2>3. [row[s] EXCEPT !.actionRef = FALSE] \in Row  BY <1>a, Zenon DEF Row
  <2>4. row' \in [Senders -> Row]
    BY <1>12, <1>a, <2>3, Zenon DEF DeletionEnds, RowsOK
  <2>5. RowsOK'  BY <1>12, <1>a, <2>4 DEF DeletionEnds, RowsOK
  <2>6. ReviewOK'  BY <1>12, <1>a, ReviewTypes DEF DeletionEnds
  <2> QED  BY <1>12, <1>a, <1>c, <2>1, <2>2, <2>5, <2>6, Keep, GroupsNext
           DEF DeletionEnds
<1> QED
  BY <1>1, <1>2, <1>3, <1>4, <1>5, <1>6, <1>7, <1>8, <1>9, <1>10, <1>11, <1>12
     DEF Continue

\* A timer that wakes, releases or expires keeps the types.
LEMMA TimerStepTypes ==
  ASSUME TypeOK, NEW s \in Senders, TimerStep(s)
  PROVE  TypeOK'
<1>a. /\ RowsOK /\ JobsOK /\ DialogsOK /\ TasksOK /\ TimersOK /\ ReviewOK
      /\ MessagesOK /\ CliOK /\ ModeOK /\ LoopOK /\ row[s] \in Row
  BY Groups DEF RowsOK
<1>b. \A ph \in {"releasing", "release", "expire"} :
        [timer EXCEPT ![s].phase = ph] \in [Senders -> Timer]
  <2>1. \A ph \in {"releasing", "release", "expire"} :
          [timer[s] EXCEPT !.phase = ph] \in Timer
    BY <1>a, Zenon DEF TimersOK, Timer
  <2> QED  BY <2>1, <1>a, Zenon DEF TimersOK
<1>1. CASE TimerWakes(s)
  <2>1. TimersOK'  BY <1>1, <1>b, Zenon DEF TimerWakes, TimersOK
  <2> QED  BY <1>1, <1>a, <2>1, Keep, GroupsNext DEF TimerWakes
<1>2. CASE TimerReleases(s)
  <2>1. TimersOK'  BY <1>2, <1>b, Zenon DEF TimerReleases, TimersOK
  <2>2. Doing("owner_restore", FALSE, FALSE, 0) \in Task
    BY TaskTypes DEF TaskKinds
  <2>3. TasksOK'  BY <1>2, <1>a, <2>2, BecomeTypes, Keep DEF TimerReleases
  <2> QED  BY <1>2, <1>a, <2>1, <2>3, Keep, GroupsNext DEF TimerReleases
<1>3. CASE TimerExpires(s)
  <2>1. ExpireChallenge(row[s], row[s].actionRef) \in Row
    BY <1>a, RowTypes, RowFields
  <2>2. RowsOK'
    <3>1. [past[s] EXCEPT !.silent = ~timer[s].peer] \in Past
      BY <1>a, PastTypes, Zenon DEF RowsOK
    <3> QED  BY <1>3, <1>a, <2>1, <3>1, WriteTypes, Keep DEF TimerExpires
  <2>3. Doing("timeout_notice", FALSE, FALSE, 0) \in Task
    BY TaskTypes DEF TaskKinds
  <2>4. TasksOK'  BY <1>3, <1>a, <2>3, BecomeTypes, Keep DEF TimerExpires
  <2>5. TimersOK'  BY <1>3, <1>a, TimerTypes DEF TimerExpires
  <2> QED  BY <1>3, <1>a, <2>2, <2>4, <2>5, Keep, GroupsNext DEF TimerExpires
<1> QED  BY <1>1, <1>2, <1>3 DEF TimerStep

\* A deletion worker that wakes keeps the types.
LEMMA WorkerStepTypes ==
  ASSUME TypeOK, NEW i \in JobIds, WorkerStep(i)
  PROVE  TypeOK'
<1>a. /\ RowsOK /\ JobsOK /\ DialogsOK /\ TasksOK /\ TimersOK /\ ReviewOK
      /\ MessagesOK /\ CliOK /\ ModeOK /\ LoopOK
  BY Groups
<1>b. jobs[i].sender \in Senders  BY <1>a, Zenon DEF JobsOK, Job
<1>1. CASE WorkerGivesUp(i)
  <2>1. JobsOK'  BY <1>1, <1>a DEF WorkerGivesUp, JobsOK
  <2> QED  BY <1>1, <1>a, <2>1, Keep, GroupsNext DEF WorkerGivesUp
<1>2. CASE WorkerClaims(i)
  <2>1. JobsOK'  BY <1>2, <1>a DEF WorkerClaims, JobsOK
  <2>2. i \in 0 .. MaxJobs  BY SenderStoreAssumption DEF JobIds
  <2>3. Doing("deleting", FALSE, FALSE, i) \in Task
    BY <2>2, TaskTypes DEF TaskKinds
  <2>4. TasksOK'  BY <1>2, <1>a, <1>b, <2>3, BecomeTypes DEF WorkerClaims
  <2> QED  BY <1>2, <1>a, <2>1, <2>4, Keep, GroupsNext DEF WorkerClaims
<1> QED  BY <1>1, <1>2 DEF WorkerStep

\* Dashboard decisions keep the types.
LEMMA OperateTypes ==
  ASSUME TypeOK, NEW s \in Senders, Operate(s)
  PROVE  TypeOK'
<1>a. /\ RowsOK /\ JobsOK /\ DialogsOK /\ TasksOK /\ TimersOK /\ ReviewOK
      /\ MessagesOK /\ CliOK /\ ModeOK /\ LoopOK /\ row[s] \in Row
  BY Groups DEF RowsOK
<1>b. \A k \in {"legitimate_restore", "spam_archive", "allow_restore"} :
        Become(s, Doing(k, FALSE, FALSE, 0)) => TasksOK'
  <2>1. \A k \in {"legitimate_restore", "spam_archive", "allow_restore"} :
          Doing(k, FALSE, FALSE, 0) \in Task
    BY TaskTypes DEF TaskKinds
  <2> QED  BY <2>1, <1>a, BecomeTypes
<1>c. [snap EXCEPT ![s] = NoSnapshot] \in [Senders -> Snapshot]
  BY <1>a DEF DialogsOK, Snapshot
<1>1. CASE ReviewLegitimate(s)
  <2>1. RowsOK' /\ JobsOK' /\ TimersOK' /\ ReviewOK' /\ TasksOK'
    BY <1>1, <1>a, <1>b, AllowTypes, TimerTypes, Keep
       DEF ReviewLegitimate, MarkLegitimate, ReviewOK
  <2> QED  BY <1>1, <1>a, <2>1, Keep, GroupsNext DEF ReviewLegitimate
<1>2. CASE ReviewSpam(s)
  <2>1. RowsOK' /\ JobsOK' /\ TimersOK' /\ ReviewOK' /\ TasksOK'
    BY <1>2, <1>a, <1>b, SpamTypes, Keep DEF ReviewSpam
  <2> QED  BY <1>2, <1>a, <2>1, Keep, GroupsNext DEF ReviewSpam
<1>3. CASE ReviewDismiss(s)
  <2>1. JobsOK' /\ ReviewOK'
    BY <1>3, <1>a, JobTypes DEF ReviewDismiss, JobsOK, ReviewOK
  <2> QED  BY <1>3, <1>a, <2>1, Keep, GroupsNext DEF ReviewDismiss
<1>4. CASE CaseArchive(s)
  <2>1. (~row[s].archived) \in BOOLEAN  OBVIOUS
  <2>2. [row[s] EXCEPT !.archived = ~row[s].archived] \in Row
    BY <1>a, <2>1, Zenon DEF Row
  <2>3. row' \in [Senders -> Row]
    BY <1>4, <1>a, <2>2, Zenon DEF CaseArchive, RowsOK
  <2>4. RowsOK'  BY <1>4, <1>a, <2>3 DEF CaseArchive, RowsOK
  <2> QED  BY <1>4, <1>a, <2>4, Keep, GroupsNext DEF CaseArchive
<1>5. CASE CaseForget(s)
  <2>1. RowsOK'  BY <1>5, <1>a, RowTypes, WriteRowTypes DEF CaseForget
  <2>2. JobsOK' /\ ReviewOK' /\ TimersOK'
    BY <1>5, <1>a, JobTypes, TimerTypes DEF CaseForget, JobsOK, ReviewOK
  <2>3. DialogsOK'  BY <1>5, <1>a, <1>c DEF CaseForget, DialogsOK
  <2> QED  BY <1>5, <1>a, <2>1, <2>2, <2>3, Keep, GroupsNext DEF CaseForget
<1>6. CASE CaseAllow(s)
  BY <1>6, <1>a, <1>b, Keep, GroupsNext DEF CaseAllow
<1>7. CASE ReleaseLegacy(s)
  <2>1. RowsOK' /\ JobsOK' /\ TimersOK'
    BY <1>7, <1>a, AllowTypes, TimerTypes DEF ReleaseLegacy
  <2>2. DialogsOK'  BY <1>7, <1>a, <1>c DEF ReleaseLegacy, DialogsOK
  <2> QED  BY <1>7, <1>a, <2>1, <2>2, Keep, GroupsNext DEF ReleaseLegacy
<1> QED  BY <1>1, <1>2, <1>3, <1>4, <1>5, <1>6, <1>7 DEF Operate

\* CLI commands keep the types.
LEMMA CommandTypes ==
  ASSUME TypeOK, Command
  PROVE  TypeOK'
<1>a. /\ RowsOK /\ JobsOK /\ DialogsOK /\ TasksOK /\ TimersOK /\ ReviewOK
      /\ MessagesOK /\ CliOK /\ ModeOK /\ LoopOK
  BY Groups
<1>b. AnySender \in Senders  BY SenderStoreAssumption DEF AnySender
<1>c. \A c \in {"none", "allow", "revoke", "protect", "cancel"}, s \in Senders :
        [cmd |-> c, sender |-> s] \in Cli
  BY DEF Cli
<1>d. NoCli \in Cli /\ [NoCli EXCEPT !.cmd = "protect"] \in Cli
  <2>1. NoCli \in Cli  BY <1>b, <1>c DEF NoCli
  <2>2. [NoCli EXCEPT !.cmd = "protect"] = [cmd |-> "protect", sender |-> AnySender]
    BY DEF NoCli
  <2> QED  BY <2>1, <2>2, <1>b, <1>c
<1>1. ASSUME NEW s \in Senders, NEW c \in {"allow", "revoke"}, CliChecksSender(s, c)
      PROVE  TypeOK'
  <2>1. cliLeft - 1 \in 0 .. CliBudget
    BY <1>1, <1>a, GatekeeperAssumption DEF CliChecksSender, CliOK
  <2>2. CliOK'  BY <1>1, <1>a, <1>c, <2>1 DEF CliChecksSender, CliOK
  <2> QED  BY <1>1, <1>a, <2>2, Keep, GroupsNext DEF CliChecksSender
<1>2. CASE CliWritesSender
  <2>1. cli.sender \in Senders /\ row[cli.sender] \in Row
    BY <1>a DEF CliOK, Cli, RowsOK
  <2>2. RowsOK'  BY <1>2, <1>a, <2>1, RowTypes, PutTypes DEF CliWritesSender, RowsOK
  <2>3. [cli EXCEPT !.cmd = "cancel"] \in Cli  BY <1>a, Zenon DEF CliOK, Cli
  <2>4. CliOK'  BY <1>2, <1>a, <2>3 DEF CliWritesSender, CliOK
  <2> QED  BY <1>2, <1>a, <2>2, <2>4, Keep, GroupsNext DEF CliWritesSender
<1>6. CASE CliCancels
  <2>1. JobsOK'  BY <1>6, <1>a, JobTypes DEF CliCancels, JobsOK
  <2>2. CliOK'  BY <1>6, <1>a, <1>d DEF CliCancels, CliOK
  <2> QED  BY <1>6, <1>a, <2>1, <2>2, Keep, GroupsNext DEF CliCancels
<1>7. CASE CliDies
  <2>1. CliOK'  BY <1>7, <1>a, <1>d DEF CliDies, CliOK
  <2> QED  BY <1>7, <1>a, <2>1, Keep, GroupsNext DEF CliDies
<1>3. CASE CliMonitor
  <2>1. JobsOK'  BY <1>3, <1>a, JobTypes DEF CliMonitor, JobsOK
  <2>2. \A i \in JobIds : jobs[i].sender \in Senders
    BY <1>a, Zenon DEF JobsOK, Job
  <2>3. ReviewOK'  BY <1>3, <1>a, <2>2 DEF CliMonitor, ReviewOK
  <2>4. ModeOK'  BY <1>3 DEF CliMonitor, ModeOK
  <2> QED  BY <1>3, <1>a, <2>1, <2>3, <2>4, Keep, GroupsNext DEF CliMonitor
<1>4. CASE CliChecksProtect
  <2>1. CliOK'  BY <1>4, <1>a, <1>d DEF CliChecksProtect, CliOK
  <2> QED  BY <1>4, <1>a, <2>1, Keep, GroupsNext DEF CliChecksProtect
<1>5. CASE CliProtect
  <2>1. CliOK' /\ ModeOK'  BY <1>5, <1>a, <1>d DEF CliProtect, CliOK, ModeOK
  <2> QED  BY <1>5, <1>a, <2>1, Keep, GroupsNext DEF CliProtect
<1> QED  BY <1>1, <1>2, <1>3, <1>4, <1>5, <1>6, <1>7 DEF Command

\* The pass waits for a lock; the pass, alone with all of its senders, prunes.
PassWaits ==
  /\ svc = "up" /\ maint' \in Maint
  /\ UNCHANGED <<mode, rowVars, jobVars, review, dialogVars, task, timer, msg, cliVars,
                 svc, recovering, crashes>>
PassPrunes(keys) ==
  /\ svc = "up" /\ maint' = NoMaint
  /\ \A s \in keys : task[s].kind = "idle"
  /\ Prunes(keys)
  /\ UNCHANGED <<mode, deadline, nextJob, workers, dialog, task, msg, cliVars,
                 svc, recovering, crashes>>

\* Every step of the maintenance pass is one of the two.
LEMMA MaintenanceCases ==
  ASSUME TypeOK, MaintenanceCollects \/ MaintenanceProceeds
  PROVE  PassWaits \/ \E keys \in SUBSET Senders : PassPrunes(keys)
<1>1. PICK keys \in SUBSET Senders, held \in SUBSET Senders :
        svc = "up" /\ TakesLocks(keys, held)
  <2>1. CASE MaintenanceCollects
    BY <2>1 DEF MaintenanceCollects
  <2>2. CASE MaintenanceProceeds
    <3>1. maint.keys \in SUBSET Senders /\ maint.held \cup maint.waits \in SUBSET Senders
      BY DEF TypeOK, Maint
    <3> QED  BY <2>2, <3>1 DEF MaintenanceProceeds
  <2> QED  BY <2>1, <2>2
<1>2. CASE /\ HoldsLocks(keys)
           /\ Prunes(keys)
           /\ maint' = NoMaint
           /\ UNCHANGED <<mode, deadline, nextJob, workers, dialog, task, msg, cliVars,
                          svc, recovering, crashes>>
  BY <1>1, <1>2, Zenon DEF PassPrunes, HoldsLocks
<1>3. CASE /\ \E more \in SUBSET {s \in keys \ held : task[s].kind = "idle"},
                 k \in keys \ held :
                /\ task[k].kind # "idle"
                /\ maint' = [keys |-> keys, held |-> held \cup more, waits |-> {k},
                             ahead |-> {<<m, msg[m].pc>> :
                                          m \in {n \in Messages :
                                                   /\ msg[n].sender = k
                                                   /\ msg[n].pc \in {"release", "ready"}}}]
           /\ UNCHANGED <<mode, rowVars, jobVars, review, dialogVars, task, timer, msg,
                          cliVars, svc, recovering, crashes>>
  <2>1. PICK more \in SUBSET {s \in keys \ held : task[s].kind = "idle"},
             k \in keys \ held :
               maint' = [keys |-> keys, held |-> held \cup more, waits |-> {k},
                         ahead |-> {<<m, msg[m].pc>> :
                                      m \in {n \in Messages :
                                               /\ msg[n].sender = k
                                               /\ msg[n].pc \in {"release", "ready"}}}]
    BY <1>3
  <2> DEFINE queued == {<<m, msg[m].pc>> :
                          m \in {n \in Messages : /\ msg[n].sender = k
                                                  /\ msg[n].pc \in {"release", "ready"}}}
  <2>2. queued \in SUBSET (Messages \X {"release", "ready"})  OBVIOUS
  <2> HIDE DEF queued
  <2>3. maint' = [keys |-> keys, held |-> held \cup more, waits |-> {k}, ahead |-> queued]
    BY <2>1, Zenon DEF queued
  <2>4. held \cup more \in SUBSET Senders /\ {k} \in SUBSET Senders  OBVIOUS
  <2>5. maint' \in Maint  BY <2>2, <2>3, <2>4, Zenon DEF Maint
  <2> QED  BY <1>1, <1>3, <2>5, Zenon DEF PassWaits
<1> QED  BY <1>1, <1>2, <1>3, Zenon DEF TakesLocks

\* Maintenance keeps the types.
LEMMA MaintenanceTypes ==
  ASSUME TypeOK, MaintenanceCollects \/ MaintenanceProceeds
  PROVE  TypeOK'
<1>a. /\ RowsOK /\ JobsOK /\ DialogsOK /\ TasksOK /\ TimersOK /\ ReviewOK
      /\ MessagesOK /\ CliOK /\ ModeOK /\ LoopOK
  BY Groups
<1>1. CASE PassWaits
  <2>1. LoopOK'  BY <1>1, <1>a DEF PassWaits, LoopOK
  <2> QED  BY <1>1, <1>a, <2>1, Keep, GroupsNext DEF PassWaits
<1>2. ASSUME NEW keys \in SUBSET Senders, PassPrunes(keys)
      PROVE  TypeOK'
  <2>1. \A s \in Senders : row[s] \in Row /\ ReleaseRow(row[s]) \in Row
    BY <1>a, RowTypes DEF RowsOK
  <2>2. NoRow \in Row  BY <2>1, RowTypes, SenderStoreAssumption
  <2>3. row' \in [Senders -> Row]
    BY <1>2, <1>a, <2>1, <2>2, Zenon DEF PassPrunes, Prunes, RowsOK
  <2>4. /\ era' \in [Senders -> Nat]
        /\ owner' \in [Senders -> {"none", "before", "since"}]
    BY <1>2, <1>a DEF PassPrunes, Prunes, RowsOK
  <2>5. past' \in [Senders -> Past]
    <3>1. \A s \in Senders : [past[s] EXCEPT !.left = TRUE] \in Past
      BY <1>a, PastTypes, Zenon DEF RowsOK
    <3> QED  BY <1>2, <1>a, <3>1, PastTypes, Zenon DEF PassPrunes, Prunes, RowsOK
  <2>6. RowsOK'  BY <1>2, <1>a, <2>3, <2>4, <2>5 DEF PassPrunes, Prunes, RowsOK
  <2>7. JobsOK'
    <3> DEFINE C(rel) == [i \in JobIds |->
                            IF \E s \in rel : IsOpen(jobs[i], s)
                            THEN [jobs[i] EXCEPT !.status = "cancelled"] ELSE jobs[i]]
    <3>1. \A rel : C(rel) \in [JobIds -> Job]
      <4>1. \A i \in JobIds : [jobs[i] EXCEPT !.status = "cancelled"] \in Job
        BY <1>a, Zenon DEF JobsOK, Job, JobStatuses
      <4> QED  BY <4>1, <1>a, Zenon DEF JobsOK
    <3>2. \E rel, ids : jobs' = EraseJobs(C(rel), ids)
      BY <1>2, Zenon DEF PassPrunes, Prunes
    <3> HIDE DEF C
    <3>3. jobs' \in [JobIds -> Job]  BY <3>1, <3>2, JobTypes
    <3> QED  BY <1>2, <1>a, <3>3 DEF PassPrunes, Prunes, JobsOK
  <2>8. ReviewOK'  BY <1>2, <1>a DEF PassPrunes, Prunes, ReviewOK
  <2>9. DialogsOK'
    BY <1>2, <1>a DEF PassPrunes, Prunes, DialogsOK, Snapshot
  <2>10. TimersOK'
    <3>1. NoTimer \in Timer  BY Zenon DEF Timer, NoTimer
    <3> QED  BY <1>2, <1>a, <3>1, Zenon DEF PassPrunes, Prunes, TimersOK
  <2>11. LoopOK'  BY <1>2, <1>a DEF PassPrunes, Prunes, LoopOK, Maint, NoMaint
  <2> QED  BY <1>2, <1>a, <2>6, <2>7, <2>8, <2>9, <2>10, <2>11, Keep, GroupsNext
           DEF PassPrunes, Prunes
<1> QED  BY <1>1, <1>2, MaintenanceCases

\* A crash empties the memory of the service, which stays typed.
LEMMA GoesDownTypes ==
  ASSUME TypeOK, GoesDown
  PROVE  TasksOK' /\ TimersOK' /\ MessagesOK' /\ LoopOK' /\ workers' \in SUBSET JobIds
<1>1. TasksOK'  BY TaskTypes DEF GoesDown, TasksOK
<1>2. TimersOK'
  <2>1. NoTimer \in Timer  BY Zenon DEF Timer, NoTimer
  <2> QED  BY <2>1 DEF GoesDown, TimersOK
<1>3. MessagesOK'
  <2>1. \A m \in Messages : [msg[m] EXCEPT !.pc = "done"] \in Msg
    BY Groups, Zenon DEF MessagesOK, Msg
  <2> QED  BY <2>1, Groups, Zenon DEF GoesDown, MessagesOK
<1>4. LoopOK'
  BY Groups, GatekeeperAssumption DEF GoesDown, LoopOK, Maint, NoMaint
<1> QED  BY <1>1, <1>2, <1>3, <1>4 DEF GoesDown

\* A crash, in any request or between two transactions, keeps the types.
LEMMA FailTypes ==
  ASSUME TypeOK, Fail
  PROVE  TypeOK'
<1>a. /\ RowsOK /\ JobsOK /\ DialogsOK /\ ReviewOK /\ CliOK /\ ModeOK
  BY Groups
<1>b. GoesDown  BY DEF Fail, Crash, CrashInsideAllow
<1>c. /\ TasksOK' /\ TimersOK' /\ MessagesOK' /\ LoopOK'
      /\ workers' \in SUBSET JobIds
  BY <1>b, GoesDownTypes
<1>d. \A s \in Senders : Interrupted(s) \subseteq Outcomes
  <2> TAKE s \in Senders
  <2>1. dialog[s] \in Dialog /\ snap[s] \in Snapshot  BY <1>a DEF DialogsOK
  <2>2. Result(FALSE, dialog[s], snap[s]) \in Outcomes  BY <2>1, ResultTypes
  <2> QED  BY <2>1, <2>2, ArchiveTypes, RestoreTypes, DeleteTypes DEF Interrupted
<1>e. \A cut : (\A s \in Senders : cut[s] \in Outcomes) /\ DialogsCut(cut) =>
        DialogsOK' /\ past' \in [Senders -> Past] /\ JobsOK' /\ ReviewOK' /\ CliOK' /\ ModeOK'
  <2> SUFFICES ASSUME NEW cut, \A s \in Senders : cut[s] \in Outcomes, DialogsCut(cut)
               PROVE  /\ DialogsOK' /\ past' \in [Senders -> Past]
                      /\ JobsOK' /\ ReviewOK' /\ CliOK' /\ ModeOK'
    OBVIOUS
  <2>1. \A s \in Senders : cut[s].dialog \in Dialog /\ cut[s].snap \in Snapshot
    BY ResultTypes, Zenon
  <2>2. DialogsOK'  BY <2>1, Zenon DEF DialogsCut, DialogsOK
  <2>3. \A s \in Senders : \A sn : CutShort(s, sn) \in Past
    <3> TAKE s \in Senders
    <3> TAKE sn
    <3>1. past[s] \in Past  BY <1>a DEF RowsOK
    <3>2. (past[s].silent \/ task[s].kind = "timeout_notice") \in BOOLEAN
          /\ (past[s].restored \/ (task[s].kind \in Restoring /\ sn = NoSnapshot)) \in BOOLEAN
      OBVIOUS
    <3> QED  BY <3>1, <3>2, PastTypes, Zenon DEF CutShort
  <2>4. past' \in [Senders -> Past]
    BY <2>3, PastTypes, Zenon DEF DialogsCut
  <2>5. JobsOK' /\ ReviewOK' /\ CliOK' /\ ModeOK'
    BY <1>a, <1>c, Keep DEF DialogsCut, JobsOK
  <2> QED  BY <2>2, <2>4, <2>5
<1>1. CASE Crash
  <2>1. PICK cut : (\A s \in Senders : cut[s] \in Interrupted(s)) /\ DialogsCut(cut)
    BY <1>1 DEF Crash
  <2>2. \A s \in Senders : cut[s] \in Outcomes  BY <1>d, <2>1
  <2>3. RowsOK'  BY <1>1, <1>a, <1>e, <2>1, <2>2 DEF Crash, RowsOK
  <2> QED  BY <1>c, <1>e, <2>1, <2>2, <2>3, GroupsNext
<1>2. ASSUME NEW s \in Senders, CrashInsideAllow(s)
      PROVE  TypeOK'
  <2> DEFINE done == Result(TRUE, RestoreTarget(snap[s]), NoSnapshot)
  <2>1. PICK cut \in [Senders -> UNION {Interrupted(t) : t \in Senders}] :
          /\ \A t \in Senders : cut[t] \in Interrupted(t)
          /\ DialogsCut([cut EXCEPT ![s] = done])
    BY <1>2, Zenon DEF CrashInsideAllow
  <2>2. RestoreTarget(snap[s]) \in Dialog
    BY <1>a DEF DialogsOK, RestoreTarget, Snapshot, MainDialog, Dialog
  <2>3. done \in Outcomes  BY <2>2, ResultTypes
  <2> HIDE DEF done
  <2>4. \A t \in Senders : [cut EXCEPT ![s] = done][t] \in Outcomes
    BY <1>d, <2>1, <2>3, Zenon
  <2>5. row[s] \in Row  BY <1>a DEF RowsOK
  <2>6. /\ DialogsOK' /\ past' \in [Senders -> Past]
        /\ JobsOK' /\ ReviewOK' /\ CliOK' /\ ModeOK'
    BY <1>e, <2>1, <2>4, Zenon
  <2>7. RowsOK'  BY <1>2, <1>a, <2>5, <2>6, RowTypes, PutTypes DEF CrashInsideAllow
  <2> QED  BY <1>c, <2>6, <2>7, GroupsNext
<1> QED  BY <1>1, <1>2 DEF Fail

\* Start-up recovery keeps the types.
LEMMA RecoverTypes ==
  ASSUME TypeOK, Recover
  PROVE  TypeOK'
<1>a. /\ RowsOK /\ JobsOK /\ DialogsOK /\ TasksOK /\ TimersOK /\ ReviewOK
      /\ MessagesOK /\ CliOK /\ ModeOK /\ LoopOK
  BY Groups
<1>1. CASE Restart
  <2>1. LoopOK'  BY <1>1, <1>a DEF Restart, LoopOK
  <2> QED  BY <1>1, <1>a, <2>1, Keep, GroupsNext DEF Restart
<1>2. ASSUME NEW s \in Senders, RecoverNext(s)
      PROVE  TypeOK'
  <2>1. row[s] \in Row  BY <1>a DEF RowsOK
  <2>2. LoopOK'  BY <1>2, <1>a DEF RecoverNext, LoopOK
  <2>3. RowsOK'  BY <1>2, <1>a, <2>1, RowTypes, WriteRowTypes, Keep DEF RecoverNext
  <2>4. TasksOK'
    <3>1. \A k \in {"issue_send", "issue_archive"} :
            Doing(k, FALSE, FALSE, 0) \in Task
      BY TaskTypes DEF TaskKinds
    <3>2. CASE UNCHANGED task  BY <3>2, <1>a, Keep
    <3>3. CASE Become(s, Doing(IF row[s].status = "challenge_issuing"
                               THEN "issue_send" ELSE "issue_archive",
                               FALSE, FALSE, 0))
      BY <3>1, <3>3, <1>a, BecomeTypes
    <3> QED  BY <1>2, <3>2, <3>3 DEF RecoverNext
  <2>5. TimersOK'
    BY <1>2, <1>a, <2>1, RowFields, TimerTypes, Keep DEF RecoverNext
  <2> QED  BY <1>2, <1>a, <2>2, <2>3, <2>4, <2>5, Keep, GroupsNext DEF RecoverNext
<1>3. CASE RecoverEnds
  <2>1. LoopOK'  BY <1>3, <1>a DEF RecoverEnds, LoopOK
  <2>2. JobsOK'  BY <1>3, <1>a DEF RecoverEnds, JobsOK, PendingActions
  <2> QED  BY <1>3, <1>a, <2>1, <2>2, Keep, GroupsNext DEF RecoverEnds
<1> QED  BY <1>1, <1>2, <1>3 DEF Recover

\* The passing of time and the owner's messages keep the types.
LEMMA TimePasses ==
  ASSUME TypeOK, NEW s \in Senders, Elapse(s) \/ OwnerWrites(s)
  PROVE  TypeOK'
<1>a. /\ RowsOK /\ JobsOK /\ DialogsOK /\ TasksOK /\ TimersOK /\ ReviewOK
      /\ MessagesOK /\ CliOK /\ ModeOK /\ LoopOK /\ row[s] \in Row
  BY Groups DEF RowsOK
<1>1. CASE DeadlineAdvances(s)
  <2>1. RowsOK'  BY <1>1, <1>a DEF DeadlineAdvances, RowsOK
  <2> QED  BY <1>1, <1>a, <2>1, Keep, GroupsNext DEF DeadlineAdvances
<1>2. CASE SuppressionElapses(s)
  <2>1. [row[s] EXCEPT !.until = "past"] \in Row  BY <1>a, Zenon DEF Row, Until
  <2>2. row' \in [Senders -> Row]
    BY <1>2, <1>a, <2>1, Zenon DEF SuppressionElapses, RowsOK
  <2>3. RowsOK'  BY <1>2, <1>a, <2>2 DEF SuppressionElapses, RowsOK
  <2> QED  BY <1>2, <1>a, <2>3, Keep, GroupsNext DEF SuppressionElapses
<1>3. CASE OwnerWrites(s)
  <2>1. RowsOK'  BY <1>3, <1>a DEF OwnerWrites, RowsOK
  <2> QED  BY <1>3, <1>a, <2>1, Keep, GroupsNext DEF OwnerWrites
<1> QED  BY <1>1, <1>2, <1>3 DEF Elapse

\* The initial state is well typed.
LEMMA InitTypes == Init => TypeOK
<1> SUFFICES ASSUME Init PROVE TypeOK  OBVIOUS
<1>1. AnySender \in Senders  BY SenderStoreAssumption DEF AnySender
<1>2. RowsOK
  <2>1. NoRow \in Row
    BY DEF NoRow, Row, Statuses, Until
  <2>2. NoPast \in Past  BY Zenon DEF NoPast, Past
  <2> QED  BY <2>1, <2>2 DEF Init, RowsOK
<1>3. JobsOK
  <2>1. [sender |-> AnySender, expected |-> 0, independent |-> FALSE,
         status |-> "absent", born |-> 0] \in Job
    BY <1>1 DEF Job, JobStatuses
  <2> QED  BY <2>1, SenderStoreAssumption DEF Init, JobsOK
<1>4. DialogsOK  BY DEF Init, DialogsOK, Snapshot, MainDialog, Dialog
<1>5. TasksOK /\ TimersOK
  <2>1. NoTimer \in Timer  BY Zenon DEF Timer, NoTimer
  <2> QED  BY <2>1, TaskTypes DEF Init, TasksOK, TimersOK
<1>6. MessagesOK
  <2>1. [pc |-> "idle", sender |-> AnySender, contact |-> FALSE,
         trusted |-> FALSE, late |-> NoChallenge] \in Msg
    BY <1>1 DEF Msg
  <2> QED  BY <2>1 DEF Init, MessagesOK
<1>7. CliOK /\ ReviewOK /\ ModeOK /\ LoopOK
  BY <1>1, GatekeeperAssumption
     DEF Init, CliOK, Cli, NoCli, ReviewOK, ModeOK, LoopOK, Maint, NoMaint
<1> QED  BY <1>2, <1>3, <1>4, <1>5, <1>6, <1>7, Groups

\* Every step of the service keeps the types.
LEMMA NextTypes == TypeOK /\ [Next]_vars => TypeOK'
<1> SUFFICES ASSUME TypeOK, [Next]_vars PROVE TypeOK'  OBVIOUS
<1>1. CASE UNCHANGED vars
  BY <1>1, Groups, GroupsNext, Keep DEF vars
<1>2. CASE Next
  BY <1>2, ReceiveTypes, HandleTypes, ContinueTypes, TimerStepTypes, WorkerStepTypes,
     OperateTypes, CommandTypes, MaintenanceTypes, FailTypes, RecoverTypes, TimePasses
     DEF Next
<1> QED  BY <1>1, <1>2

\* Every variable keeps its type.  In particular no job id, timer phase or
\* revision the service computes leaves the range the store gives it.
THEOREM TypeCorrect == Spec => []TypeOK
BY InitTypes, NextTypes, PTL DEF Spec

-----------------------------------------------------------------------------
(* No dialog is deleted on the strength of a restriction that has ended.  The argument: a
   sender's revision only grows while a job of that sender is pending, a write that keeps
   the revision neither creates a restriction, nor turns one into another, nor ends one
   and leaves the sender restricted, and a job records the revision and the era it was
   scheduled in. *)

\* What a step may do to a sender's row ...
Advances(s) ==
  \/ row'[s].revision > row[s].revision
  \/ /\ row'[s].revision = row[s].revision
     /\ row'[s].status \in Restricted
          => /\ row[s].status = row'[s].status /\ era'[s] = era[s]
             /\ row[s].until = "past" => row'[s].until = "past"
  \/ \A i \in JobIds : ~IsPending(jobs'[i], s)

\* ... and to the jobs: keep or close them, and perhaps add one that carries the
\* sender's new revision and era.
Inherited(js) == \A i \in JobIds : js[i].status = "pending" => js[i] = jobs[i]
JobsKept == nextJob' = nextJob /\ Inherited(jobs')
JobsAdded ==
  \E s \in Senders, b \in BOOLEAN : \E js \in [JobIds -> Job] :
    Inherited(js) /\ Schedule(js, s, row'[s].revision, b, era'[s])

JobStep == JobsKept \/ JobsAdded
SafeStep == (\A s \in Senders : Advances(s)) /\ JobStep

-----------------------------------------------------------------------------
(* A safe step keeps the invariants. *)

\* The fields of a row of pending_actions have their types.
LEMMA JobFields ==
  ASSUME NEW js \in [JobIds -> Job], NEW i \in JobIds
  PROVE  js[i].sender \in Senders /\ js[i].expected \in Nat /\ js[i].born \in Nat
BY Zenon DEF Job

\* What Schedule leaves in the table.
LEMMA Scheduled ==
  ASSUME NEW js \in [JobIds -> Job], NEW s \in Senders, NEW e, NEW b, NEW n,
         Schedule(js, s, e, b, n), NEW i \in JobIds, jobs'[i].status = "pending"
  PROVE  \/ i = nextJob /\ jobs'[i].sender = s /\ jobs'[i].expected = e
              /\ jobs'[i].born = n
         \/ i # nextJob /\ jobs'[i] = js[i] /\ js[i].status = "pending"
              /\ js[i].sender # s
<1>1. jobs'[i] = IF i = nextJob
                 THEN [sender |-> s, expected |-> e, independent |-> b,
                       status |-> "pending", born |-> n]
                 ELSE IF IsPending(js[i], s)
                      THEN [js[i] EXCEPT !.status = "cancelled"]
                      ELSE js[i]
  BY Zenon DEF Schedule, ScheduleAction
<1>2. CASE i = nextJob  BY <1>1, <1>2
<1>3. CASE i # nextJob /\ IsPending(js[i], s)
  <2>1. js[i] \in Job  OBVIOUS
  <2>2. [js[i] EXCEPT !.status = "cancelled"].status = "cancelled"
    BY <2>1, Zenon DEF Job
  <2> QED  BY <1>1, <1>3, <2>2
<1>4. CASE i # nextJob /\ ~IsPending(js[i], s)
  BY <1>1, <1>4, Zenon DEF IsPending
<1> QED  BY <1>2, <1>3, <1>4

\* A pending job that existed before the step.
LEMMA OldJob ==
  ASSUME TypeOK, TypeOK', PendingJobIsCurrent, NEW i \in JobIds,
         Advances(jobs[i].sender), jobs'[i].status = "pending", jobs'[i] = jobs[i]
  PROVE  /\ i < nextJob
         /\ jobs'[i].expected <= row'[jobs'[i].sender].revision
         /\ row'[jobs'[i].sender].status \in Restricted
              /\ row'[jobs'[i].sender].revision = jobs'[i].expected
                => jobs'[i].born = era'[jobs'[i].sender]
<1> DEFINE j == jobs[i]
           r == row[j.sender]
           q == row'[j.sender]
<1>1. j.sender \in Senders /\ j.expected \in Nat  BY Groups, JobFields DEF JobsOK
<1>2. r \in Row  BY <1>1, Groups DEF RowsOK
<1>3. q \in Row  BY <1>1 DEF TypeOK
<1>4. r.revision \in Nat /\ q.revision \in Nat  BY <1>2, <1>3, RowFields
<1>5. /\ i < nextJob /\ j.expected <= r.revision
      /\ r.status \in Restricted /\ r.revision = j.expected => j.born = era[j.sender]
  BY Zenon DEF PendingJobIsCurrent
<1>6. ~ \A k \in JobIds : ~IsPending(jobs'[k], j.sender)
  BY Zenon DEF IsPending
<1>7. \/ q.revision > r.revision
      \/ q.revision = r.revision
           /\ (q.status \in Restricted => r.status \in Restricted
                                          /\ era'[j.sender] = era[j.sender])
  BY <1>6, Zenon DEF Advances
<1> HIDE DEF j, r, q
<1>8. /\ j.expected <= q.revision
      /\ q.status \in Restricted /\ q.revision = j.expected => j.born = era'[j.sender]
  BY <1>1, <1>4, <1>5, <1>7
<1> QED  BY <1>5, <1>8 DEF j, q

\* A safe step leaves no pending job that fits a later restriction.
LEMMA SafeStepKeepsCurrent ==
  ASSUME TypeOK, TypeOK', PendingJobIsCurrent, SafeStep
  PROVE  PendingJobIsCurrent'
<1> SUFFICES ASSUME NEW i \in JobIds, jobs'[i].status = "pending"
             PROVE  /\ i < nextJob'
                    /\ jobs'[i].expected <= row'[jobs'[i].sender].revision
                    /\ row'[jobs'[i].sender].status \in Restricted
                         /\ row'[jobs'[i].sender].revision = jobs'[i].expected
                           => jobs'[i].born = era'[jobs'[i].sender]
  BY Zenon DEF PendingJobIsCurrent
<1>0. nextJob \in Nat /\ i \in Nat  BY Groups DEF JobsOK, JobIds
<1>1. jobs[i].sender \in Senders  BY Groups, JobFields DEF JobsOK
<1>2. Advances(jobs[i].sender)  BY <1>1 DEF SafeStep
<1>3. CASE JobsKept
  <2>1. jobs'[i] = jobs[i] /\ nextJob' = nextJob  BY <1>3 DEF JobsKept, Inherited
  <2> QED  BY <1>2, <2>1, OldJob
<1>4. CASE JobsAdded
  <2>1. PICK s \in Senders, b \in BOOLEAN : \E js \in [JobIds -> Job] :
          Inherited(js) /\ Schedule(js, s, row'[s].revision, b, era'[s])
    BY <1>4, Zenon DEF JobsAdded
  <2>2. PICK js \in [JobIds -> Job] :
          Inherited(js) /\ Schedule(js, s, row'[s].revision, b, era'[s])
    BY <2>1
  <2>3. nextJob' = nextJob + 1  BY <2>2, Zenon DEF Schedule
  <2>4. CASE /\ i = nextJob /\ jobs'[i].sender = s
             /\ jobs'[i].expected = row'[s].revision /\ jobs'[i].born = era'[s]
    <3>1. row'[s] \in Row  BY DEF TypeOK
    <3>2. row'[s].revision \in Nat  BY <3>1, RowFields
    <3> QED  BY <1>0, <2>3, <2>4, <3>2
  <2>5. CASE jobs'[i] = js[i] /\ js[i].status = "pending"
    <3>1. jobs'[i] = jobs[i]  BY <2>2, <2>5 DEF Inherited
    <3>2. /\ i < nextJob
          /\ jobs'[i].expected <= row'[jobs'[i].sender].revision
          /\ row'[jobs'[i].sender].status \in Restricted
               /\ row'[jobs'[i].sender].revision = jobs'[i].expected
                 => jobs'[i].born = era'[jobs'[i].sender]
      BY <1>2, <3>1, OldJob
    <3>3. i < nextJob'  BY <1>0, <2>3, <3>2
    <3> QED  BY <3>2, <3>3
  <2> QED  BY <2>2, <2>4, <2>5, Scheduled
<1> QED  BY <1>3, <1>4 DEF SafeStep, JobStep

\* Keeping, closing or replacing jobs leaves each sender at most one.
LEMMA JobStepKeepsOne ==
  ASSUME TypeOK, OneJobPerSender, JobStep
  PROVE  OneJobPerSender'
<1> SUFFICES ASSUME NEW i \in JobIds, NEW k \in JobIds,
                    jobs'[i].status = "pending", jobs'[k].status = "pending",
                    jobs'[i].sender = jobs'[k].sender
             PROVE  i = k
  BY Zenon DEF OneJobPerSender
<1>1. CASE JobsKept
  BY <1>1, Zenon DEF JobsKept, Inherited, OneJobPerSender
<1>2. CASE JobsAdded
  <2>1. PICK s \in Senders, b \in BOOLEAN : \E js \in [JobIds -> Job] :
          Inherited(js) /\ Schedule(js, s, row'[s].revision, b, era'[s])
    BY <1>2, Zenon DEF JobsAdded
  <2>2. PICK js \in [JobIds -> Job] :
          Inherited(js) /\ Schedule(js, s, row'[s].revision, b, era'[s])
    BY <2>1
  <2>3. \A n \in JobIds : jobs'[n].status = "pending" =>
          \/ n = nextJob /\ jobs'[n].sender = s
          \/ n # nextJob /\ jobs'[n] = jobs[n] /\ jobs'[n].sender # s
    <3> SUFFICES ASSUME NEW n \in JobIds, jobs'[n].status = "pending"
                 PROVE  \/ n = nextJob /\ jobs'[n].sender = s
                        \/ n # nextJob /\ jobs'[n] = jobs[n] /\ jobs'[n].sender # s
      OBVIOUS
    <3>1. \/ n = nextJob /\ jobs'[n].sender = s
          \/ n # nextJob /\ jobs'[n] = js[n] /\ js[n].status = "pending"
               /\ js[n].sender # s
      BY <2>2, Scheduled
    <3> QED  BY <2>2, <3>1 DEF Inherited
  <2> QED  BY <2>3 DEF OneJobPerSender
<1> QED  BY <1>1, <1>2 DEF JobStep

-----------------------------------------------------------------------------
(* Every action takes a safe step. *)

\* A step that writes no sender row lets every sender advance.
LEMMA SameRows == ASSUME UNCHANGED <<row, era>> PROVE \A s \in Senders : Advances(s)
BY DEF Advances

\* A step that leaves pending_actions alone is a job step.
LEMMA SameJobs == ASSUME UNCHANGED <<jobs, nextJob>> PROVE JobStep
BY DEF JobStep, JobsKept, Inherited

\* How a row that is written compares with the one it replaces.
Follows(old, new) ==
  \/ new.revision > old.revision
  \/ new.revision = old.revision
       /\ (new.status \in Restricted
             => old.status = new.status /\ (old.until = "past" => new.until = "past"))

\* Writing a row that follows the present one lets every sender advance.
LEMMA PutAdvances ==
  ASSUME TypeOK, NEW s \in Senders, NEW r, PutRow(s, r), Follows(row[s], r)
  PROVE  /\ \A t \in Senders : Advances(t)
         /\ row'[s] = r /\ era'[s] = EraAfter(s, r)
<1>1. /\ row' = [row EXCEPT ![s] = r]
      /\ era' = [era EXCEPT ![s] = EraAfter(s, r)]
  BY DEF PutRow
<1>2. row \in [Senders -> Row] /\ era \in [Senders -> Nat]  BY DEF TypeOK
<1>3. row'[s] = r /\ era'[s] = EraAfter(s, r)  BY <1>1, <1>2, Zenon
<1>4. Advances(s)
  <2>1. CASE r.revision > row[s].revision  BY <2>1, <1>3 DEF Advances
  <2>2. CASE /\ r.revision = row[s].revision
             /\ r.status \in Restricted =>
                  /\ row[s].status = r.status
                  /\ row[s].until = "past" => r.until = "past"
    <3>1. r.status \in Restricted => EraAfter(s, r) = era[s]
      BY <2>2, Zenon DEF EraAfter, Leaves
    <3> QED  BY <2>2, <3>1, <1>3 DEF Advances
  <2> QED  BY <2>1, <2>2 DEF Follows
<1>5. \A t \in Senders : t # s => Advances(t)
  <2> SUFFICES ASSUME NEW t \in Senders, t # s PROVE Advances(t)  OBVIOUS
  <2>1. row'[t] = row[t] /\ era'[t] = era[t]  BY <1>1, <1>2, Zenon
  <2> QED  BY <2>1 DEF Advances
<1> QED  BY <1>3, <1>4, <1>5

\* Whatever the write notes in the history.
LEMMA WriteAdvances ==
  ASSUME TypeOK, NEW s \in Senders, NEW r, NEW note, WriteNoting(s, r, note),
         Follows(row[s], r)
  PROVE  /\ \A t \in Senders : Advances(t)
         /\ row'[s] = r /\ era'[s] = EraAfter(s, r)
BY PutAdvances DEF WriteNoting

\* The same for a write that does not touch the history.
LEMMA WriteRowAdvances ==
  ASSUME TypeOK, NEW s \in Senders, NEW r, WriteRow(s, r), Follows(row[s], r)
  PROVE  /\ \A t \in Senders : Advances(t)
         /\ row'[s] = r /\ era'[s] = EraAfter(s, r)
BY WriteAdvances DEF WriteRow

\* A row with the next revision follows, whatever else it says.
LEMMA Above ==
  ASSUME NEW a \in Row, NEW q, q.revision = a.revision + 1
  PROVE  Follows(a, q)
<1>1. a.revision \in Nat  BY RowFields
<1> QED  BY <1>1 DEF Follows

\* The rows the store writes follow the rows they replace.
LEMMA RowFollows ==
  ASSUME NEW r \in Row
  PROVE  /\ Follows(r, r)
         /\ \A st, b : Follows(r, SetState(r, st, b))
         /\ \A m, p, b : Follows(r, BeginChallengeIssue(r, m, p, b))
         /\ Follows(r, BindChallenge(r)) /\ Follows(r, ActivateChallenge(r))
         /\ Follows(r, ResetIncomplete(r))
         /\ \A b : Follows(r, ExpireChallenge(r, b))
         /\ \A u, b, c : Follows(r, SuppressRow(r, u, b, c))
         /\ Follows(r, ReleaseRow(r))
         /\ \A n : Follows(r, [r EXCEPT !.attempts = n])
<1>1. Follows(r, r) /\ \A n : Follows(r, [r EXCEPT !.attempts = n])
  <2>1. \A n : [r EXCEPT !.attempts = n].revision = r.revision
               /\ [r EXCEPT !.attempts = n].status = r.status
               /\ [r EXCEPT !.attempts = n].until = r.until
    BY Zenon DEF Row
  <2> QED  BY <2>1, Zenon DEF Follows
<1>2. \A st, b : Follows(r, SetState(r, st, b))
  <2>1. \A st, b : SetState(r, st, b).revision = r.revision + 1
    BY Zenon DEF SetState, NoRow
  <2> QED  BY <2>1, Above
<1>3. \A m, p, b : Follows(r, BeginChallengeIssue(r, m, p, b))
  <2>1. \A m, p, b : BeginChallengeIssue(r, m, p, b).revision = r.revision
                     /\ BeginChallengeIssue(r, m, p, b).status = "challenge_issuing"
    BY Zenon DEF BeginChallengeIssue, Row
  <2> QED  BY <2>1 DEF Follows, Restricted
<1>4. Follows(r, BindChallenge(r)) /\ Follows(r, ActivateChallenge(r))
  <2>1. BindChallenge(r).revision = r.revision
        /\ BindChallenge(r).status = "challenge_archiving"
    BY Zenon DEF BindChallenge, Row
  <2>2. ActivateChallenge(r).revision = r.revision + 1
    BY Zenon DEF ActivateChallenge, Row
  <2>3. Follows(r, BindChallenge(r))  BY <2>1 DEF Follows, Restricted
  <2> QED  BY <2>2, <2>3, Above
<1>5. Follows(r, ResetIncomplete(r))
  <2>1. CASE r.status \in Starting
    <3>1. ResetIncomplete(r).revision = r.revision
          /\ ResetIncomplete(r).status = "unknown"
      BY <2>1, Zenon DEF ResetIncomplete, Row
    <3> QED  BY <3>1 DEF Follows, Restricted
  <2>2. CASE r.status \notin Starting
    BY <2>2, <1>1 DEF ResetIncomplete
  <2> QED  BY <2>1, <2>2
<1>6. \A b : Follows(r, ExpireChallenge(r, b))
  <2>1. \A b : ExpireChallenge(r, b).revision = r.revision + 1
    BY Zenon DEF ExpireChallenge, Row
  <2> QED  BY <2>1, Above
<1>7. \A u, b, c : Follows(r, SuppressRow(r, u, b, c))
  <2>1. \A u, b, c : SuppressRow(r, u, b, c).revision = r.revision + 1
    BY Zenon DEF SuppressRow, NoRow
  <2> QED  BY <2>1, Above
<1>8. Follows(r, ReleaseRow(r))
  <2>1. ReleaseRow(r).revision = r.revision + 1
    BY Zenon DEF ReleaseRow, Row
  <2> QED  BY <2>1, Above
<1> QED  BY <1>1, <1>2, <1>3, <1>4, <1>5, <1>6, <1>7, <1>8

\* Two writes of one segment together follow the first row.
LEMMA FollowsFollows ==
  ASSUME NEW a \in Row, NEW b \in Row, NEW c \in Row, Follows(a, b), Follows(b, c)
  PROVE  Follows(a, c)
<1>1. a.revision \in Nat /\ b.revision \in Nat /\ c.revision \in Nat  BY RowFields
<1> QED  BY <1>1 DEF Follows

\* Releasing an expired suppression on lookup follows the present row.
LEMMA SettledFollows ==
  ASSUME TypeOK, NEW s \in Senders
  PROVE  Follows(row[s], SettledRow(s))
<1>1. row[s] \in Row  BY DEF TypeOK
<1> QED  BY <1>1, RowFollows DEF SettledRow

\* The job operators of the store keep a pending job as it is or close it.
LEMMA JobsInherited ==
  ASSUME TypeOK
  PROVE  /\ Inherited(jobs)
         /\ \A s : Inherited(CancelOpen(jobs, s)) /\ Inherited(SettledJobs(s))
         /\ \A i, st : Inherited(FinishAction(jobs, i, st))
         /\ Inherited(CancelAutomatic(jobs))
         /\ \A ids : Inherited(EraseJobs(jobs, ids))
<1>1. jobs \in [JobIds -> Job]  BY DEF TypeOK
<1>2. \A i \in JobIds : \A st : [jobs[i] EXCEPT !.status = st].status = st
  BY <1>1, Zenon DEF Job
<1>3. Inherited(jobs)  BY Zenon DEF Inherited
<1>4. \A s : Inherited(CancelOpen(jobs, s))
  BY <1>2 DEF Inherited, CancelOpen
<1>5. \A s : Inherited(SettledJobs(s))  BY <1>3, <1>4 DEF SettledJobs
<1>6. \A i, st : Inherited(FinishAction(jobs, i, st))
  <2> SUFFICES ASSUME NEW i, NEW st, NEW k \in JobIds,
                      FinishAction(jobs, i, st)[k].status = "pending"
               PROVE  FinishAction(jobs, i, st)[k] = jobs[k]
    BY DEF Inherited
  <2>1. CASE i # k \/ jobs[i].status # "pending"  BY <2>1, <1>1, Zenon DEF FinishAction
  <2>2. CASE i = k /\ jobs[k].status = "pending"
    <3>1. FinishAction(jobs, i, st)[k] = [jobs[k] EXCEPT !.status = st]
      BY <2>2, <1>1, Zenon DEF FinishAction
    <3>2. st = "pending"  BY <3>1, <1>2
    <3>3. [jobs[k] EXCEPT !.status = jobs[k].status] = jobs[k]
      BY <1>1, Zenon DEF Job
    <3> QED  BY <2>2, <3>1, <3>2, <3>3
  <2> QED  BY <2>1, <2>2
<1>7. Inherited(CancelAutomatic(jobs))
  BY <1>2 DEF Inherited, CancelAutomatic
<1>8. \A ids : Inherited(EraseJobs(jobs, ids))
  BY <1>2 DEF Inherited, EraseJobs
<1> QED  BY <1>3, <1>4, <1>5, <1>6, <1>7, <1>8

\* A table whose pending jobs are all inherited is a job step.
LEMMA KeptStep ==
  ASSUME TypeOK, NEW js, Inherited(js), jobs' = js, UNCHANGED nextJob
  PROVE  JobStep
BY DEF JobStep, JobsKept, Inherited

\* Scheduling a job with the sender's new revision and era is a job step.
LEMMA AddedStep ==
  ASSUME NEW s \in Senders, NEW js \in [JobIds -> Job], Inherited(js), NEW b \in BOOLEAN,
         NEW e, NEW n, Schedule(js, s, e, b, n), e = row'[s].revision, n = era'[s]
  PROVE  JobStep
BY Zenon DEF JobStep, JobsAdded

\* allow, the row and the cancelled jobs, is safe.
LEMMA AllowSafe ==
  ASSUME TypeOK, NEW s \in Senders, AllowSender(s)
  PROVE  SafeStep
<1>1. row[s] \in Row  BY DEF TypeOK
<1>2. Follows(row[s], AllowRow(row[s]))  BY <1>1, RowFollows DEF AllowRow
<1>3. \A t \in Senders : Advances(t)  BY <1>2, WriteRowAdvances DEF AllowSender
<1>4. JobStep  BY JobsInherited, KeptStep DEF AllowSender
<1> QED  BY <1>3, <1>4 DEF SafeStep

\* A step outside the sender rows and the jobs is safe.
LEMMA UnchangedSafe ==
  ASSUME UNCHANGED <<row, era, jobs, nextJob>>
  PROVE  SafeStep
BY SameRows, SameJobs DEF SafeStep

\* Every outcome of handling a message is safe.
LEMMA HandleSafe ==
  ASSUME TypeOK, NEW s \in Senders, NEW m \in Messages, Handle(s, m)
  PROVE  SafeStep
<1> DEFINE st == SettledRow(s)
<1>a. /\ RowsOK /\ JobsOK /\ DialogsOK /\ ReviewOK /\ row[s] \in Row
      /\ jobs \in [JobIds -> Job]
  BY Groups DEF RowsOK, JobsOK
<1>b. /\ st \in Row /\ Follows(row[s], st) /\ SettledJobs(s) \in [JobIds -> Job]
  BY <1>a, SettledTypes, SettledFollows
<1>c. /\ Inherited(jobs) /\ Inherited(SettledJobs(s)) /\ Inherited(CancelOpen(jobs, s))
  BY JobsInherited
<1> HIDE DEF st
<1>1. CASE HandleSuppressed(s, m)
  <2>1. UNCHANGED rowVars  BY <1>1 DEF HandleSuppressed
  <2>2. row'[s].revision = row[s].revision /\ era'[s] = era[s]
    BY <2>1 DEF rowVars
  <2>3. JobStep
    BY <1>1, <1>a, <1>c, <2>2, AddedStep, SameJobs DEF HandleSuppressed, jobVars
  <2> QED  BY <2>1, <2>3, SameRows DEF SafeStep, rowVars
<1>2. CASE HandleTrusted(s, m)
  <2>1. AllowRow(st) \in Row /\ Follows(st, AllowRow(st))
    BY <1>b, RowTypes, RowFollows DEF AllowRow
  <2>2. Follows(row[s], AllowRow(st))  BY <2>1, <1>a, <1>b, FollowsFollows
  <2>3. \A t \in Senders : Advances(t)
    BY <1>2, <2>2, WriteRowAdvances DEF HandleTrusted, st
  <2>4. JobStep  BY <1>2, <1>c, KeptStep DEF HandleTrusted
  <2> QED  BY <2>3, <2>4 DEF SafeStep
<1>3. CASE HandleDecided(s, m)
  BY <1>3, UnchangedSafe DEF rowVars, HandleDecided, jobVars
<1>4. CASE HandleEvidence(s, m)
  <2> DEFINE r == SuppressRow(st, "null", TRUE, TRUE)
  <2>1. r \in Row /\ Follows(st, r)
    BY <1>b, SuppressTypes, RowFollows DEF Until
  <2>2. Follows(row[s], r)  BY <2>1, <1>a, <1>b, FollowsFollows
  <2> HIDE DEF r
  <2>3. CASE /\ WriteRow(s, r)
             /\ Schedule(SettledJobs(s), s, r.revision, FALSE, EraAfter(s, r))
    <3>1. /\ \A t \in Senders : Advances(t)
          /\ row'[s] = r /\ era'[s] = EraAfter(s, r)
      BY <2>2, <2>3, WriteRowAdvances
    <3>2. JobStep  BY <2>3, <3>1, <1>b, <1>c, AddedStep
    <3> QED  BY <3>1, <3>2 DEF SafeStep
  <2>4. CASE /\ WriteRow(s, st) /\ jobs' = SettledJobs(s) /\ UNCHANGED nextJob
    <3>1. \A t \in Senders : Advances(t)  BY <2>4, <1>b, WriteRowAdvances
    <3>2. JobStep  BY <2>4, <1>c, KeptStep
    <3> QED  BY <3>1, <3>2 DEF SafeStep
  <2> QED  BY <1>4, <2>3, <2>4 DEF HandleEvidence, r, st
<1>5. CASE HandleMonitored(s, m)
  <2>1. \A t \in Senders : Advances(t)
    BY <1>5, <1>b, WriteRowAdvances DEF HandleMonitored, st
  <2>2. JobStep  BY <1>5, <1>c, KeptStep DEF HandleMonitored
  <2> QED  BY <2>1, <2>2 DEF SafeStep
<1>6. CASE HandleIssue(s, m)
  <2>1. \A ref \in BOOLEAN, profile \in {"standard", "strict"} :
          Follows(row[s], BeginChallengeIssue(st, m, profile, ref))
    <3> SUFFICES ASSUME NEW ref \in BOOLEAN, NEW profile \in {"standard", "strict"}
                 PROVE  Follows(row[s], BeginChallengeIssue(st, m, profile, ref))
      OBVIOUS
    <3>1. BeginChallengeIssue(st, m, profile, ref) \in Row  BY <1>b, RowTypes
    <3>2. Follows(st, BeginChallengeIssue(st, m, profile, ref))  BY <1>b, RowFollows
    <3> QED  BY <3>1, <3>2, <1>a, <1>b, FollowsFollows
  <2>2. PICK r : WriteRow(s, r) /\ Follows(row[s], r)
    BY <1>6, <1>b, <2>1, ChoiceTypes DEF HandleIssue, st
  <2>3. \A t \in Senders : Advances(t)  BY <2>2, WriteRowAdvances
  <2>4. JobStep  BY <1>6, <1>c, KeptStep DEF HandleIssue
  <2> QED  BY <2>3, <2>4 DEF SafeStep
<1>7. CASE HandleLateReply(s, m)
  <2>1. \A t \in Senders : Advances(t)
    BY <1>7, <1>a, RowFollows, WriteRowAdvances DEF HandleLateReply
  <2>2. JobStep  BY <1>7, SameJobs DEF HandleLateReply, jobVars
  <2> QED  BY <2>1, <2>2 DEF SafeStep
<1>8. CASE HandleUnusableReply(s, m)
  <2>1. PICK g : row' = [row EXCEPT ![s].guidance = g]
    BY <1>8, Zenon DEF HandleUnusableReply
  <2>2. UNCHANGED era  BY <1>8 DEF HandleUnusableReply
  <2>3. \A t \in Senders : row'[t].revision = row[t].revision
                           /\ row'[t].status = row[t].status
                           /\ row'[t].until = row[t].until
    BY <2>1, <1>a, Zenon DEF RowsOK, Row
  <2>4. \A t \in Senders : Advances(t)  BY <2>2, <2>3 DEF Advances
  <2>5. JobStep  BY <1>8, SameJobs DEF HandleUnusableReply, jobVars
  <2> QED  BY <2>4, <2>5 DEF SafeStep
<1>9. CASE HandleCorrectAnswer(s, m)
  <2>1. UNCHANGED <<row, era>>  BY <1>9 DEF HandleCorrectAnswer
  <2>2. \A t \in Senders : Advances(t)  BY <2>1 DEF Advances
  <2>3. JobStep  BY <1>9, SameJobs DEF HandleCorrectAnswer, jobVars
  <2> QED  BY <2>2, <2>3 DEF SafeStep
<1>10. CASE HandleWrongAnswer(s, m)
  <2>1. Follows(row[s], [row[s] EXCEPT !.attempts = row[s].attempts + 1])
    BY <1>a, RowFollows
  <2>2. \A t \in Senders : Advances(t)
    BY <1>10, <2>1, WriteRowAdvances DEF HandleWrongAnswer
  <2>3. JobStep  BY <1>10, SameJobs DEF HandleWrongAnswer, jobVars
  <2> QED  BY <2>2, <2>3 DEF SafeStep
<1> QED  BY <1>1, <1>2, <1>3, <1>4, <1>5, <1>6, <1>7, <1>8, <1>9, <1>10 DEF Handle

\* The operator's spam decision is safe.
LEMMA SpamSafe ==
  ASSUME TypeOK, NEW s \in Senders, MarkSpam(s)
  PROVE  SafeStep
<1> DEFINE r == SuppressRow(row[s], "null", TRUE, TRUE)
           q == [r EXCEPT !.archived = TRUE]
<1>a. row[s] \in Row /\ jobs \in [JobIds -> Job]  BY DEF TypeOK
<1>1. r \in Row /\ Follows(row[s], r)
  BY <1>a, SuppressTypes, RowFollows DEF Until
<1> HIDE DEF r
<1>2. q.revision = r.revision /\ q.status = r.status /\ q.until = r.until
  BY <1>1, Zenon DEF Row
<1> HIDE DEF q
<1>3. Follows(row[s], q) /\ EraAfter(s, q) = EraAfter(s, r)
  BY <1>1, <1>2 DEF Follows, EraAfter, Leaves
<1>4. /\ WriteRow(s, q)
      /\ Schedule(CancelOpen(jobs, s), s, r.revision, TRUE, EraAfter(s, r))
  BY DEF MarkSpam, r, q
<1>5. /\ \A t \in Senders : Advances(t)
      /\ row'[s] = q /\ era'[s] = EraAfter(s, q)
  BY <1>3, <1>4, WriteRowAdvances
<1>6. CancelOpen(jobs, s) \in [JobIds -> Job] /\ Inherited(CancelOpen(jobs, s))
  BY <1>a, JobTypes, JobsInherited
<1>7. JobStep  BY <1>2, <1>3, <1>4, <1>5, <1>6, AddedStep
<1> QED  BY <1>5, <1>7 DEF SafeStep

\* A row write that schedules nothing is safe.
LEMMA WrittenSafe ==
  ASSUME TypeOK, NEW s \in Senders, NEW r, PutRow(s, r), Follows(row[s], r),
         UNCHANGED <<jobs, nextJob>>
  PROVE  SafeStep
BY PutAdvances, SameJobs DEF SafeStep

\* Everything a coroutine does after its await is safe.
LEMMA ContinueSafe ==
  ASSUME TypeOK, NEW s \in Senders, Continue(s)
  PROVE  SafeStep
<1>a. row[s] \in Row /\ jobs \in [JobIds -> Job] /\ Inherited(jobs)
  BY JobsInherited DEF TypeOK
<1>b. \A b : Follows(row[s], QuarantineRow(row[s], b))
  BY <1>a, RowFollows DEF QuarantineRow
<1>c. Follows(row[s], ProvisionalRow(row[s]))
  BY <1>a, RowFollows DEF ProvisionalRow
<1>1. CASE IssueSent(s)
  BY <1>1, <1>a, RowFollows, WrittenSafe DEF WriteRow, WriteNoting, IssueSent, jobVars
<1>2. CASE IssueArchived(s)
  BY <1>2, <1>a, RowFollows, WrittenSafe, UnchangedSafe DEF rowVars, WriteRow, WriteNoting, IssueArchived, jobVars
<1>3. CASE IssueUnwound(s)
  BY <1>3, <1>a, RowFollows, WrittenSafe, UnchangedSafe
     DEF WriteRow, WriteNoting, IssueUnwound, jobVars
<1>4. CASE FallbackArchived(s)
  BY <1>4, <1>a, <1>b, RowFollows, WrittenSafe DEF WriteRow, WriteNoting, FallbackArchived, jobVars
<1>5. CASE AnswerRestored(s)
  BY <1>5, <1>a, <1>c, WrittenSafe, UnchangedSafe DEF rowVars, WriteRow, WriteNoting, AnswerRestored, jobVars
<1>6. CASE AttemptsNotified(s)
  <2> DEFINE ref == task[s].ref
             R(sent) == IF Deletes(sent, ref \/ task[s].fallback)
                        THEN SuppressRow(row[s], "future", TRUE, TRUE)
                        ELSE QuarantineRow(row[s], ~sent /\ ref)
  <2>1. PICK sent \in BOOLEAN :
          /\ WriteNoting(s, R(sent), IF sent THEN Warned(s) ELSE past[s])
          /\ IF R(sent).status = "suppressed"
             THEN Schedule(jobs, s, R(sent).revision, FALSE, EraAfter(s, R(sent)))
             ELSE UNCHANGED jobVars
    BY <1>6, ChoiceTypes DEF AttemptsNotified
  <2>2. Follows(row[s], R(sent))  BY <1>a, <1>b, RowFollows
  <2> HIDE DEF R
  <2>3. /\ \A t \in Senders : Advances(t)
        /\ row'[s] = R(sent) /\ era'[s] = EraAfter(s, R(sent))
    BY <2>1, <2>2, WriteAdvances
  <2>4. JobStep  BY <2>1, <2>3, <1>a, AddedStep, SameJobs DEF jobVars
  <2> QED  BY <2>3, <2>4 DEF SafeStep
<1>7. CASE TimeoutNotified(s)
  <2>1. CASE Schedule(jobs, s, row[s].revision, FALSE, era[s]) /\ UNCHANGED <<row, era>>
    <3>1. \A t \in Senders : Advances(t)  BY <2>1 DEF Advances
    <3>2. JobStep  BY <2>1, <1>a, AddedStep
    <3> QED  BY <3>1, <3>2 DEF SafeStep
  <2>2. CASE /\ WriteRow(s, QuarantineRow(row[s], row[s].actionRef \/ task[s].fallback))
             /\ UNCHANGED jobVars
    BY <2>2, <1>b, WrittenSafe DEF WriteRow, WriteNoting, jobVars
  <2> QED  BY <1>7, <2>1, <2>2 DEF TimeoutNotified
<1>8. CASE OwnerRestored(s)
  BY <1>8, AllowSafe, UnchangedSafe DEF rowVars, OwnerRestored, jobVars
<1>9. CASE LegitimateRestored(s)
  BY <1>9, AllowSafe, UnchangedSafe DEF rowVars, LegitimateRestored, MarkLegitimate, jobVars
<1>10. CASE AllowRestored(s)
  BY <1>10, AllowSafe, UnchangedSafe DEF rowVars, AllowRestored, jobVars
<1>11. CASE SpamArchived(s)
  BY <1>11, SpamSafe, UnchangedSafe DEF rowVars, SpamArchived, jobVars
<1>12. CASE DeletionEnds(s)
  <2>1. \E i, st : jobs' = FinishAction(jobs, i, st)
    BY <1>12, Zenon DEF DeletionEnds
  <2>2. JobStep  BY <1>12, <2>1, JobsInherited, KeptStep DEF DeletionEnds
  <2>3. row' = [row EXCEPT ![s].actionRef = FALSE] \/ row' = row
    BY <1>12 DEF DeletionEnds
  <2>4. row \in [Senders -> Row]  BY DEF TypeOK
  <2>5. \A t \in Senders : row'[t].revision = row[t].revision
                           /\ row'[t].status = row[t].status
                           /\ row'[t].until = row[t].until
    <3>1. CASE row' = row  BY <3>1
    <3>2. CASE row' = [row EXCEPT ![s].actionRef = FALSE]
      BY <3>2, <2>4, Zenon DEF Row
    <3> QED  BY <2>3, <3>1, <3>2
  <2>6. UNCHANGED era  BY <1>12 DEF DeletionEnds
  <2>7. \A t \in Senders : Advances(t)  BY <2>5, <2>6 DEF Advances
  <2> QED  BY <2>2, <2>7 DEF SafeStep
<1> QED
  BY <1>1, <1>2, <1>3, <1>4, <1>5, <1>6, <1>7, <1>8, <1>9, <1>10, <1>11, <1>12
     DEF Continue

\* Timers, deletion workers, arriving messages, crashes and recovery are safe.
LEMMA LoopSafe ==
  ASSUME TypeOK,
         \/ \E s \in Senders : TimerStep(s)
         \/ \E i \in JobIds : WorkerStep(i)
         \/ \E s \in Senders, m \in Messages : Receive(s, m)
         \/ Recover \/ Fail
  PROVE  SafeStep
<1>a. \A s \in Senders : row[s] \in Row  BY DEF TypeOK
<1>1. ASSUME NEW s \in Senders, TimerStep(s) PROVE SafeStep
  BY <1>1, <1>a, RowFollows, WrittenSafe, UnchangedSafe
     DEF rowVars, WriteRow, WriteNoting, TimerStep, TimerWakes, TimerReleases, TimerExpires, jobVars
<1>2. ASSUME NEW i \in JobIds, WorkerStep(i) PROVE SafeStep
  BY <1>2, UnchangedSafe DEF rowVars, WorkerStep, WorkerGivesUp, WorkerClaims
<1>3. ASSUME NEW s \in Senders, NEW m \in Messages, Receive(s, m) PROVE SafeStep
  BY <1>3, UnchangedSafe DEF rowVars, Receive, Arrive, OwnerReleaseStarts, jobVars
<1>4. CASE Recover
  <2>1. CASE Restart  BY <2>1, UnchangedSafe DEF rowVars, Restart, jobVars
  <2>2. ASSUME NEW s \in Senders, RecoverNext(s) PROVE SafeStep
    BY <2>2, <1>a, RowFollows, WrittenSafe, UnchangedSafe DEF rowVars, WriteRow, WriteNoting, RecoverNext, jobVars
  <2>3. CASE RecoverEnds  BY <2>3, UnchangedSafe DEF rowVars, RecoverEnds
  <2> QED  BY <1>4, <2>1, <2>2, <2>3 DEF Recover
<1>5. CASE Fail
  <2>1. CASE Crash  BY <2>1, UnchangedSafe DEF Crash, DialogsCut
  <2>2. ASSUME NEW s \in Senders, CrashInsideAllow(s) PROVE SafeStep
    <3>1. Follows(row[s], AllowRow(row[s]))  BY <1>a, RowFollows DEF AllowRow
    <3>2. PutRow(s, AllowRow(row[s]))  BY <2>2 DEF CrashInsideAllow
    <3>3. UNCHANGED <<jobs, nextJob>>  BY <2>2 DEF CrashInsideAllow, DialogsCut
    <3> QED  BY <3>1, <3>2, <3>3, WrittenSafe
  <2> QED  BY <1>5, <2>1, <2>2 DEF Fail
<1> QED  BY <1>1, <1>2, <1>3, <1>4, <1>5

\* Dashboard decisions are safe.
LEMMA OperateSafe ==
  ASSUME TypeOK, NEW s \in Senders, Operate(s)
  PROVE  SafeStep
<1>a. /\ row \in [Senders -> Row] /\ era \in [Senders -> Nat]
      /\ jobs \in [JobIds -> Job]
  BY DEF TypeOK
<1>1. CASE ReviewLegitimate(s)
  BY <1>1, AllowSafe, UnchangedSafe DEF rowVars, ReviewLegitimate, MarkLegitimate, jobVars
<1>2. CASE ReviewSpam(s)
  BY <1>2, SpamSafe, UnchangedSafe DEF rowVars, ReviewSpam, jobVars
<1>3. CASE ReviewDismiss(s)
  <2>1. JobStep  BY <1>3, JobsInherited, KeptStep DEF ReviewDismiss
  <2> QED  BY <1>3, <2>1, SameRows DEF ReviewDismiss, SafeStep, rowVars
<1>4. CASE CaseArchive(s)
  <2>1. row' = [row EXCEPT ![s].archived = ~row[s].archived] /\ UNCHANGED era
    BY <1>4 DEF CaseArchive
  <2>2. \A t \in Senders : row'[t].revision = row[t].revision
                           /\ row'[t].status = row[t].status
                           /\ row'[t].until = row[t].until
    BY <2>1, <1>a, Zenon DEF Row
  <2>3. \A t \in Senders : Advances(t)  BY <2>1, <2>2 DEF Advances
  <2>4. JobStep  BY <1>4, SameJobs DEF CaseArchive, jobVars
  <2> QED  BY <2>3, <2>4 DEF SafeStep
<1>5. CASE CaseForget(s)
  <2>1. jobs' = EraseJobs(jobs, JobsOf(jobs, s)) /\ UNCHANGED nextJob
    BY <1>5 DEF CaseForget
  <2>2. JobStep  BY <2>1, JobsInherited, KeptStep
  <2>3. \A i \in JobIds : ~IsPending(jobs'[i], s)
    <3> SUFFICES ASSUME NEW i \in JobIds PROVE ~IsPending(jobs'[i], s)  OBVIOUS
    <3>1. [jobs[i] EXCEPT !.status = "absent"].status = "absent"
      BY <1>a, Zenon DEF Job
    <3>2. CASE jobs[i].sender = s
      <4>1. jobs'[i] = [jobs[i] EXCEPT !.status = "absent"]
        BY <2>1, <3>2 DEF EraseJobs, JobsOf
      <4> QED  BY <3>1, <4>1 DEF IsPending
    <3>3. CASE jobs[i].sender # s
      <4>1. jobs'[i] = jobs[i]  BY <2>1, <3>3 DEF EraseJobs, JobsOf
      <4> QED  BY <3>3, <4>1 DEF IsPending
    <3> QED  BY <3>2, <3>3
  <2>4. /\ row' = [row EXCEPT ![s] = NoRow]
        /\ era' = [era EXCEPT ![s] = EraAfter(s, NoRow)]
    BY <1>5 DEF CaseForget, WriteRow, WriteNoting, PutRow
  <2>5. \A t \in Senders : Advances(t)
    <3> SUFFICES ASSUME NEW t \in Senders PROVE Advances(t)  OBVIOUS
    <3>1. CASE t = s  BY <2>3, <3>1 DEF Advances
    <3>2. CASE t # s
      <4>1. row'[t] = row[t] /\ era'[t] = era[t]  BY <2>4, <1>a, <3>2, Zenon
      <4> QED  BY <4>1 DEF Advances
    <3> QED  BY <3>1, <3>2
  <2> QED  BY <2>2, <2>5 DEF SafeStep
<1>6. CASE CaseAllow(s)
  BY <1>6, UnchangedSafe DEF rowVars, CaseAllow, jobVars
<1>7. CASE ReleaseLegacy(s)
  BY <1>7, AllowSafe DEF ReleaseLegacy
<1> QED  BY <1>1, <1>2, <1>3, <1>4, <1>5, <1>6, <1>7 DEF Operate

\* CLI commands, which take no lock, are safe.
LEMMA CommandSafe ==
  ASSUME TypeOK, Command
  PROVE  SafeStep
<1>1. ASSUME NEW s \in Senders, NEW c, CliChecksSender(s, c) PROVE SafeStep
  BY <1>1, UnchangedSafe DEF rowVars, CliChecksSender, jobVars
<1>2. CASE CliWritesSender
  <2>1. cli.sender \in Senders /\ row[cli.sender] \in Row  BY DEF TypeOK, Cli
  <2>2. \A t \in Senders : Advances(t)
    BY <1>2, <2>1, RowFollows, PutAdvances DEF CliWritesSender, AllowRow, RevokeRow
  <2>3. JobStep  BY <1>2, SameJobs DEF CliWritesSender, jobVars
  <2> QED  BY <2>2, <2>3 DEF SafeStep
<1>3. CASE CliMonitor
  <2>1. JobStep  BY <1>3, JobsInherited, KeptStep DEF CliMonitor
  <2> QED  BY <1>3, <2>1, SameRows DEF CliMonitor, SafeStep, rowVars
<1>6. CASE CliCancels
  <2>1. JobStep  BY <1>6, JobsInherited, KeptStep DEF CliCancels
  <2> QED  BY <1>6, <2>1, SameRows DEF CliCancels, SafeStep, rowVars
<1>7. CASE CliDies  BY <1>7, UnchangedSafe DEF rowVars, CliDies, jobVars
<1>4. CASE CliChecksProtect  BY <1>4, UnchangedSafe DEF rowVars, CliChecksProtect, jobVars
<1>5. CASE CliProtect  BY <1>5, UnchangedSafe DEF rowVars, CliProtect, jobVars
<1> QED  BY <1>1, <1>2, <1>3, <1>4, <1>5, <1>6, <1>7 DEF Command

\* Maintenance, which erases rows and their jobs together, is safe.
LEMMA MaintenanceSafe ==
  ASSUME TypeOK, MaintenanceCollects \/ MaintenanceProceeds
  PROVE  SafeStep
<1>1. CASE PassWaits
  BY <1>1, UnchangedSafe DEF rowVars, PassWaits, jobVars
<1>2. ASSUME NEW keys \in SUBSET Senders, PassPrunes(keys)
      PROVE  SafeStep
  <2> DEFINE released == {s \in keys : Expired(row[s])}
             forgotten == {s \in keys : Forgettable(s)}
             cancelled == [i \in JobIds |->
                             IF \E s \in released : IsOpen(jobs[i], s)
                             THEN [jobs[i] EXCEPT !.status = "cancelled"]
                             ELSE jobs[i]]
  <2>a. /\ row \in [Senders -> Row] /\ era \in [Senders -> Nat]
        /\ jobs \in [JobIds -> Job]
    BY DEF TypeOK
  <2>1. row' = [s \in Senders |-> IF s \in released THEN ReleaseRow(row[s])
                                  ELSE IF s \in forgotten THEN NoRow ELSE row[s]]
    BY <1>2, Zenon DEF PassPrunes, Prunes
  <2>2. era' = [s \in Senders |-> IF s \in released \cup forgotten
                                  THEN era[s] + 1 ELSE era[s]]
    BY <1>2, Zenon DEF PassPrunes, Prunes
  <2>3. PICK old : jobs' = EraseJobs(cancelled,
                     old \cup {i \in JobIds : jobs[i].sender \in forgotten})
    BY <1>2, Zenon DEF PassPrunes, Prunes
  <2>4. UNCHANGED nextJob  BY <1>2 DEF PassPrunes, Prunes
  <2> HIDE DEF released, forgotten
  <2>5. \A i \in JobIds :
          /\ jobs'[i].status = "pending" => jobs'[i] = jobs[i]
          /\ jobs[i].sender \in forgotten => jobs'[i].status # "pending"
    <3> SUFFICES ASSUME NEW i \in JobIds
                 PROVE  /\ jobs'[i].status = "pending" => jobs'[i] = jobs[i]
                        /\ jobs[i].sender \in forgotten => jobs'[i].status # "pending"
      OBVIOUS
    <3>1. cancelled[i] = [jobs[i] EXCEPT !.status = "cancelled"]
          \/ cancelled[i] = jobs[i]
      OBVIOUS
    <3>2. cancelled[i] \in Job
      <4>1. [jobs[i] EXCEPT !.status = "cancelled"] \in Job
        BY <2>a, Zenon DEF Job, JobStatuses
      <4> HIDE DEF cancelled
      <4> QED  BY <3>1, <4>1, <2>a
    <3> HIDE DEF cancelled
    <3>3. \/ jobs'[i] = [cancelled[i] EXCEPT !.status = "absent"]
          \/ jobs'[i] = cancelled[i] /\ jobs[i].sender \notin forgotten
      BY <2>3 DEF EraseJobs
    <3>4. [cancelled[i] EXCEPT !.status = "absent"].status = "absent"
      BY <3>2, Zenon DEF Job
    <3>5. [jobs[i] EXCEPT !.status = "cancelled"].status = "cancelled"
      BY <2>a, Zenon DEF Job
    <3>6. jobs'[i].status = "pending" =>
            cancelled[i] = jobs'[i] /\ jobs[i].sender \notin forgotten
      BY <3>3, <3>4
    <3>7. jobs'[i].status = "pending" => cancelled[i] = jobs[i]
      BY <3>1, <3>5, <3>6
    <3> QED  BY <3>6, <3>7
  <2>6. JobStep  BY <2>4, <2>5 DEF JobStep, JobsKept, Inherited
  <2>7. \A s \in Senders : Advances(s)
    <3> SUFFICES ASSUME NEW s \in Senders PROVE Advances(s)  OBVIOUS
    <3>1. CASE s \in released
      <4>1. row'[s] = ReleaseRow(row[s])  BY <2>1, <3>1
      <4>2. ReleaseRow(row[s]).revision = row[s].revision + 1
        BY <2>a, Zenon DEF ReleaseRow, Row
      <4>3. row[s].revision \in Nat  BY <2>a, RowFields
      <4> QED  BY <4>1, <4>2, <4>3 DEF Advances
    <3>2. CASE s \in forgotten
      <4>1. \A i \in JobIds : ~IsPending(jobs'[i], s)
        <5> SUFFICES ASSUME NEW i \in JobIds, IsPending(jobs'[i], s) PROVE FALSE
          OBVIOUS
        <5>1. jobs'[i].sender = s /\ jobs'[i].status = "pending"  BY DEF IsPending
        <5>2. jobs'[i] = jobs[i]  BY <5>1, <2>5
        <5> QED  BY <5>1, <5>2, <2>5, <3>2
      <4> QED  BY <4>1 DEF Advances
    <3>3. CASE s \notin released /\ s \notin forgotten
      <4>1. row'[s] = row[s] /\ era'[s] = era[s]  BY <2>1, <2>2, <3>3
      <4> QED  BY <4>1 DEF Advances
    <3> QED  BY <3>1, <3>2, <3>3
  <2> QED  BY <2>6, <2>7 DEF SafeStep
<1> QED  BY <1>1, <1>2, MaintenanceCases

\* The passing of time and the owner's messages are safe.
LEMMA TimeSafe ==
  ASSUME TypeOK, NEW s \in Senders, Elapse(s) \/ OwnerWrites(s)
  PROVE  SafeStep
<1>1. UNCHANGED <<era, jobs, nextJob>>
  BY DEF Elapse, DeadlineAdvances, SuppressionElapses, OwnerWrites, jobVars
<1>2. \A t \in Senders : row'[t].revision = row[t].revision
                         /\ row'[t].status = row[t].status
                         /\ (row[t].until = "past" => row'[t].until = "past")
  <2>1. CASE UNCHANGED row  BY <2>1
  <2>2. CASE row' = [row EXCEPT ![s].until = "past"]
    <3>1. row \in [Senders -> Row]  BY DEF TypeOK
    <3> QED  BY <2>2, <3>1, Zenon DEF Row
  <2> QED  BY <2>1, <2>2 DEF Elapse, DeadlineAdvances, SuppressionElapses, OwnerWrites
<1>3. \A t \in Senders : Advances(t)  BY <1>1, <1>2 DEF Advances
<1>4. JobStep  BY <1>1, SameJobs
<1> QED  BY <1>3, <1>4 DEF SafeStep

\* Every step of the service is safe.
LEMMA NextSafe == TypeOK /\ [Next]_vars => SafeStep
<1> SUFFICES ASSUME TypeOK, [Next]_vars PROVE SafeStep  OBVIOUS
<1>1. CASE UNCHANGED vars
  BY <1>1, UnchangedSafe DEF rowVars, vars, jobVars
<1>2. CASE Next
  BY <1>2, HandleSafe, ContinueSafe, LoopSafe, OperateSafe, CommandSafe,
     MaintenanceSafe, TimeSafe DEF Next
<1> QED  BY <1>1, <1>2

-----------------------------------------------------------------------------
(* Deletions begin in one place. *)

NoNewDeletion ==
  \A s \in Senders : task'[s].kind = "deleting" => task[s].kind = "deleting"

\* A coroutine that takes a lock for something else begins no deletion.
LEMMA BecomesOther ==
  ASSUME TypeOK, NEW s \in Senders, NEW k, NEW a, NEW b, NEW j,
         Become(s, Doing(k, a, b, j)), k # "deleting"
  PROVE  NoNewDeletion
<1>1. task \in [Senders -> Task]  BY DEF TypeOK
<1>2. Doing(k, a, b, j).kind = k  BY Zenon DEF Doing
<1>3. task'[s].kind # "deleting" /\ \A t \in Senders : t # s => task'[t] = task[t]
  BY <1>1, <1>2 DEF Become
<1> QED  BY <1>3 DEF NoNewDeletion

\* A coroutine that gives up its lock begins no deletion.
LEMMA BecomesIdle ==
  ASSUME TypeOK, NEW s \in Senders, Become(s, Idle)
  PROVE  NoNewDeletion
BY BecomesOther DEF Idle

\* A step in which no lock changes hands begins no deletion.
LEMMA SameTasks == UNCHANGED task => NoNewDeletion
BY DEF NoNewDeletion

\* Only a worker that has claimed its job begins a deletion.
LEMMA OnlyClaimsDelete ==
  ASSUME TypeOK, [Next]_vars
  PROVE  NoNewDeletion \/ \E i \in JobIds : WorkerClaims(i)
<1>1. CASE UNCHANGED vars  BY <1>1, SameTasks DEF vars
<1>2. ASSUME NEW s \in Senders, NEW m \in Messages, Receive(s, m)
      PROVE  NoNewDeletion
  BY <1>2, BecomesOther, SameTasks DEF Receive, Arrive, OwnerReleaseStarts
<1>3. ASSUME NEW s \in Senders, NEW m \in Messages, Handle(s, m)
      PROVE  NoNewDeletion
  BY <1>3, BecomesOther, SameTasks
     DEF Handle, HandleSuppressed, HandleTrusted, HandleDecided, HandleEvidence,
         HandleMonitored, HandleIssue, HandleLateReply, HandleUnusableReply,
         HandleCorrectAnswer, HandleWrongAnswer
<1>4. ASSUME NEW s \in Senders, Continue(s)
      PROVE  NoNewDeletion
  <2>1. Become(s, Idle) \/ \E k \in {"issue_archive", "issue_unwind"}, b \in BOOLEAN :
                             Become(s, Doing(k, b, FALSE, 0))
    BY <1>4 DEF Continue, IssueSent, IssueArchived, IssueUnwound, FallbackArchived,
                AnswerRestored, AttemptsNotified, TimeoutNotified, OwnerRestored,
                LegitimateRestored, SpamArchived, AllowRestored, DeletionEnds, ActivationRaises
  <2> QED  BY <2>1, BecomesIdle, BecomesOther
<1>5. ASSUME NEW s \in Senders, TimerStep(s)
      PROVE  NoNewDeletion
  BY <1>5, BecomesOther, SameTasks DEF TimerStep, TimerWakes, TimerReleases, TimerExpires
<1>6. ASSUME NEW s \in Senders, Operate(s)
      PROVE  NoNewDeletion
  BY <1>6, BecomesOther, SameTasks
     DEF Operate, ReviewLegitimate, ReviewSpam, ReviewDismiss, CaseArchive, CaseForget,
         CaseAllow, ReleaseLegacy
<1>7. ASSUME NEW s \in Senders, Elapse(s) \/ OwnerWrites(s)
      PROVE  NoNewDeletion
  BY <1>7, SameTasks DEF Elapse, DeadlineAdvances, SuppressionElapses, OwnerWrites
<1>8. ASSUME NEW i \in JobIds, WorkerStep(i)
      PROVE  NoNewDeletion \/ WorkerClaims(i)
  BY <1>8, SameTasks DEF WorkerStep, WorkerGivesUp
<1>9. CASE Command \/ MaintenanceCollects \/ MaintenanceProceeds
  <2>1. CASE Command
    BY <2>1, SameTasks DEF Command, CliChecksSender, CliWritesSender, CliCancels, CliDies,
       CliMonitor, CliChecksProtect, CliProtect
  <2>2. CASE MaintenanceCollects \/ MaintenanceProceeds
    BY <2>2, MaintenanceCases, SameTasks DEF PassWaits, PassPrunes
  <2> QED  BY <1>9, <2>1, <2>2
<1>10. CASE Fail
  <2>1. task' = [s \in Senders |-> Idle]
    BY <1>10 DEF Fail, Crash, CrashInsideAllow, GoesDown
  <2> QED  BY <2>1 DEF NoNewDeletion, Idle, Doing
<1>11. CASE Recover
  BY <1>11, BecomesOther, SameTasks DEF Recover, Restart, RecoverNext, RecoverEnds
<1> QED
  BY <1>1, <1>2, <1>3, <1>4, <1>5, <1>6, <1>7, <1>8, <1>9, <1>10, <1>11 DEF Next

\* What claim_action tests, with PendingJobIsCurrent, authorises the deletion.
LEMMA ClaimIsAuthorised ==
  ASSUME TypeOK, PendingJobIsCurrent, NEW i \in JobIds, WorkerClaims(i),
         NEW s \in Senders, task[s].kind # "deleting", task'[s].kind = "deleting"
  PROVE  LET j == jobs[task'[s].job]
         IN  /\ j.sender = s /\ j.status = "pending"
             /\ row[s].status \in Restricted /\ ~Expired(row[s])
             /\ j.born = era[s]
             /\ mode = "protect" \/ j.independent
<1>1. task \in [Senders -> Task] /\ jobs[i].sender \in Senders
  BY JobFields DEF TypeOK
<1>2. task' = [task EXCEPT ![jobs[i].sender] = Doing("deleting", FALSE, FALSE, i)]
  BY DEF WorkerClaims, Become
<1>3. s = jobs[i].sender  BY <1>1, <1>2
<1>4. task'[s].job = i
  <2>1. task'[s] = Doing("deleting", FALSE, FALSE, i)  BY <1>1, <1>2, <1>3
  <2> QED  BY <2>1 DEF Doing
<1>5. Claimable(jobs[i], row[s], mode)  BY <1>3 DEF WorkerClaims
<1>6. /\ jobs[i].status = "pending" /\ row[s].status \in Restricted /\ ~Expired(row[s])
      /\ row[s].revision = jobs[i].expected /\ (mode = "protect" \/ jobs[i].independent)
  BY <1>5 DEF Claimable
<1>7. jobs[i].born = era[s]  BY <1>3, <1>6, Zenon DEF PendingJobIsCurrent
<1> QED  BY <1>3, <1>4, <1>6, <1>7

-----------------------------------------------------------------------------
(* The theorems *)

\* An empty table of jobs satisfies both invariants.
LEMMA InitJobs == Init => PendingJobIsCurrent /\ OneJobPerSender
BY DEF Init, PendingJobIsCurrent, OneJobPerSender

\* A pending job that passes claim_action's test of status and revision belongs
\* to the restriction the sender is in, not to an earlier one.
THEOREM JobsAreCurrent == Spec => []PendingJobIsCurrent
<1>1. TypeOK /\ PendingJobIsCurrent /\ [Next]_vars => PendingJobIsCurrent'
  BY NextTypes, NextSafe, SafeStepKeepsCurrent
<1> QED  BY <1>1, InitJobs, TypeCorrect, PTL DEF Spec

\* No sender ever has two pending deletion jobs.
THEOREM SingleJob == Spec => []OneJobPerSender
<1>1. TypeOK /\ OneJobPerSender /\ [Next]_vars => OneJobPerSender'
  BY NextSafe, JobStepKeepsOne DEF SafeStep
<1> QED  BY <1>1, InitJobs, TypeCorrect, PTL DEF Spec

\* Every deletion that begins is still authorised: by an open job, by the
\* restriction it was scheduled under, and by the mode or a manual decision.
THEOREM DeletionsAreAuthorised == Spec => DeletionIsAuthorised
<1> DEFINE Authorised ==
      \A s \in Senders :
        task[s].kind # "deleting" /\ task'[s].kind = "deleting" =>
          LET j == jobs[task'[s].job]
          IN  /\ j.sender = s /\ j.status = "pending"
              /\ row[s].status \in Restricted /\ ~Expired(row[s])
              /\ j.born = era[s]
              /\ mode = "protect" \/ j.independent
<1>1. TypeOK /\ PendingJobIsCurrent /\ [Next]_vars => [Authorised]_vars
  <2> SUFFICES ASSUME TypeOK, PendingJobIsCurrent, [Next]_vars PROVE Authorised
    OBVIOUS
  <2>1. CASE NoNewDeletion  BY <2>1 DEF NoNewDeletion
  <2>2. ASSUME NEW i \in JobIds, WorkerClaims(i) PROVE Authorised
    BY <2>2, ClaimIsAuthorised
  <2> QED  BY <2>1, <2>2, OnlyClaimsDelete
<1> QED  BY <1>1, TypeCorrect, JobsAreCurrent, PTL DEF Spec, DeletionIsAuthorised
==============================================================================

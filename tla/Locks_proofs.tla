---------------------------- MODULE Locks_proofs ----------------------------
(***************************************************************************)
(* The sender lock, and what follows from it for every number of senders,  *)
(* messages, jobs and crashes.  The coroutine that holds the lock of a     *)
(* sender knows the status it found when it took the lock: nothing in the  *)
(* service changes it meanwhile, and the command line, which takes no      *)
(* lock, can only have put "allowed" or "unknown" in its place.  This is   *)
(* inductive together with the facts that each continuation needs, and the *)
(* properties of the service, the refinement of SenderLifecycle among      *)
(* them, are read off its steps.                                           *)
(***************************************************************************)
EXTENDS Gatekeeper_proofs, GatekeeperLifecycle

\* What a command may have written behind the back of a lock holder.
Unlocked == IF CliBudget = 0 THEN {} ELSE {"unknown", "allowed"}

Issuing == {"issue_send", "issue_archive", "issue_unwind"}

\* The status a lock holder finds when its request returns.
Fits(s) ==
  LET k == task[s].kind
      st == row[s].status
  IN  /\ k = "issue_send" => st \in {"challenge_issuing"} \cup Unlocked
      /\ k \in {"issue_archive", "issue_unwind"} =>
           st \in {"challenge_archiving"} \cup Unlocked
      /\ k = "fallback_archive" => st \in {"unknown", "provisional"} \cup Unlocked
      /\ k \in {"answer_restore", "attempts_notice"} =>
           st \in {"challenged"} \cup Unlocked
      /\ k \in {"timeout_notice", "deleting"} => st \in {"suppressed"} \cup Unlocked
      /\ k \in {"owner_restore", "legitimate_restore"} =>
           st \in GatekeeperArchived \cup Unlocked
      /\ k = "allow_restore" => st \in Restricted \cup Unlocked
      /\ k = "spam_archive" =>
           st \in {"unknown", "provisional", "allowed", "challenge_archiving"}

\* A confined sender has a snapshot, also while a notice decides between
\* suppression and quarantine, or its dialog is known to have been put back.
Undoable(s) ==
  \/ row[s].status \in {"challenged", "quarantined"}
  \/ task[s].kind \in {"attempts_notice", "timeout_notice"}
  => snap[s] # NoSnapshot \/ past[s].restored

\* Only a suppression has an end or is archived, and not both.
Dated(s) ==
  /\ row[s].until # "null" => row[s].status = "suppressed"
  /\ row[s].archived => row[s].status = "suppressed" /\ row[s].until = "null"
  /\ task[s].kind = "timeout_notice" /\ row[s].status = "suppressed"
       => row[s].until # "null"

\* A temporary suppression was announced or is being announced, or its history
\* says why it was not.
Told(s) ==
  row[s].until # "null" =>
    past[s].warned \/ past[s].silent \/ task[s].kind = "timeout_notice"

\* A challenge that is being issued has a coroutine, or recovery will come to it,
\* or its activation and the restore after it have failed.
Attended(s) ==
  svc # "down" /\ row[s].status \in Starting =>
    \/ task[s].kind \in Issuing
    \/ svc = "recovering" /\ s \in recovering
    \/ row[s].status = "challenge_archiving" /\ past[s].left

SenderInv(s) == Fits(s) /\ Undoable(s) /\ Dated(s) /\ Told(s) /\ Attended(s)

LoopInv == cli.cmd \in {"allow", "revoke", "cancel"} => CliBudget # 0

\* A job that could be claimed belongs to a suppression, never to a quarantine.
JobInv ==
  \A i \in JobIds :
    LET j == jobs[i]
        r == row[j.sender]
    IN  j.status = "pending" /\ r.revision = j.expected => r.status # "quarantined"

LockInv == TypeOK /\ (\A s \in Senders : SenderInv(s)) /\ LoopInv /\ JobInv

-----------------------------------------------------------------------------
(* What a step may do to one sender *)

\* A standing that may follow another.
MayFollow(a, b) ==
  \/ b \in {"allowed", "archived"}
  \/ a = "unknown" /\ b = "challenged"
  \/ a = "challenged" /\ b \in {"passed", "temporary"}
  \/ a \in {"unknown", "passed", "challenged", "temporary"}
       /\ b \in {"quarantined", "permanent"}
  \/ a = "archived" /\ b \in {"permanent", "unknown"}
  \/ a \in {"passed", "temporary"} /\ b = "unknown"

Deleting(s) == task[s].kind = "deleting"

\* What SenderLifecycle allows, without the command line.
Promised(s) ==
  CliBudget = 0 =>
    \/ Standing(row'[s]) = Standing(row[s])
         /\ (Deleting(s)' => Deleting(s) \/ row[s].status = "suppressed")
    \/ MayFollow(Standing(row[s]), Standing(row'[s])) /\ ~Deleting(s) /\ ~Deleting(s)'

\* What the other action properties say of one sender.
AllowanceKept(s) ==
  row[s].status = "allowed" /\ row'[s].status \in DashboardOnly =>
    task[s].kind \in {"fallback_archive", "attempts_notice", "timeout_notice",
                      "spam_archive"}

AnswerKept(s) ==
  row[s].status = "challenged" /\ row'[s].status \in {"quarantined", "suppressed"} =>
    task[s].kind \in {"idle", "attempts_notice"}

Kept(s) == SenderInv(s)' /\ Promised(s) /\ AllowanceKept(s) /\ AnswerKept(s)

-----------------------------------------------------------------------------
(* Rows, continuations and snapshots as far as the invariant reads them *)

Shaped(r, st, u, a) == r.status = st /\ r.until = u /\ r.archived = a

\* The status, the end and the archived mark that each statement writes.
LEMMA Shapes ==
  ASSUME NEW r \in Row
  PROVE  /\ Shaped(NoRow, "unknown", "null", FALSE)
         /\ \A st, b : Shaped(SetState(r, st, b), st, "null", FALSE)
         /\ \A m, p, b : Shaped(BeginChallengeIssue(r, m, p, b), "challenge_issuing",
                                r.until, r.archived)
         /\ Shaped(BindChallenge(r), "challenge_archiving", r.until, r.archived)
         /\ Shaped(ActivateChallenge(r), "challenged", r.until, r.archived)
         /\ Shaped(ResetIncomplete(r),
                   IF r.status \in Starting THEN "unknown" ELSE r.status,
                   r.until, r.archived)
         /\ \A b : Shaped(ExpireChallenge(r, b), "suppressed", "future", r.archived)
         /\ \A u, b, c : Shaped(SuppressRow(r, u, b, c), "suppressed", u, FALSE)
         /\ Shaped(ReleaseRow(r), "unknown", "null", FALSE)
<1>1. /\ Shaped(NoRow, "unknown", "null", FALSE)
      /\ \A st, b : Shaped(SetState(r, st, b), st, "null", FALSE)
      /\ \A u, b, c : Shaped(SuppressRow(r, u, b, c), "suppressed", u, FALSE)
  BY Zenon DEF Shaped, NoRow, SetState, SuppressRow
<1>2. \A m, p, b : Shaped(BeginChallengeIssue(r, m, p, b), "challenge_issuing",
                          r.until, r.archived)
  BY Zenon DEF Shaped, BeginChallengeIssue, Row
<1>3. /\ Shaped(BindChallenge(r), "challenge_archiving", r.until, r.archived)
      /\ Shaped(ActivateChallenge(r), "challenged", r.until, r.archived)
  BY Zenon DEF Shaped, BindChallenge, ActivateChallenge, Row
<1>4. Shaped(ResetIncomplete(r), IF r.status \in Starting THEN "unknown" ELSE r.status,
             r.until, r.archived)
  <2>1. CASE r.status \in Starting
    BY <2>1, Zenon DEF Shaped, ResetIncomplete, Row
  <2>2. CASE r.status \notin Starting
    BY <2>2, Zenon DEF Shaped, ResetIncomplete
  <2> QED  BY <2>1, <2>2
<1>5. /\ \A b : Shaped(ExpireChallenge(r, b), "suppressed", "future", r.archived)
      /\ Shaped(ReleaseRow(r), "unknown", "null", FALSE)
  BY Zenon DEF Shaped, ExpireChallenge, ReleaseRow, Row
<1> QED  BY <1>1, <1>2, <1>3, <1>4, <1>5

\* Columns the standing of a sender does not depend on.
LEMMA SameShape ==
  ASSUME NEW r \in Row, NEW x
  PROVE  /\ Shaped([r EXCEPT !.attempts = x], r.status, r.until, r.archived)
         /\ Shaped([r EXCEPT !.guidance = x], r.status, r.until, r.archived)
         /\ Shaped([r EXCEPT !.actionRef = x], r.status, r.until, r.archived)
BY Zenon DEF Shaped, Row

\* The standing of a row, by its status, its end and its archived mark.
LEMMA Standings ==
  ASSUME NEW r \in Row
  PROVE  /\ r.status \in Starting \cup {"unknown"} => Standing(r) = "unknown"
         /\ r.status = "provisional" => Standing(r) = "passed"
         /\ r.status \in {"challenged", "quarantined", "allowed"}
              => Standing(r) = r.status
         /\ r.status = "suppressed" =>
              Standing(r) = IF r.until # "null" THEN "temporary"
                            ELSE IF r.archived THEN "archived" ELSE "permanent"
<1>1. r.archived \in BOOLEAN /\ r.status \in Statuses  BY Zenon DEF Row
<1> QED
  BY <1>1 DEF Standing, ArchivedPermanent, Permanent, Starting

\* What a write leaves in the row and the history of its sender.
LEMMA Written ==
  ASSUME TypeOK, NEW s \in Senders, NEW r, NEW note, WriteNoting(s, r, note)
  PROVE  /\ row'[s] = r
         /\ r.status \in GatekeeperArchived => past'[s] = note
         /\ \A t \in Senders : t # s => row'[t] = row[t] /\ past'[t] = past[t]
<1>1. row \in [Senders -> Row] /\ past \in [Senders -> Past]  BY DEF TypeOK
<1>2. /\ row' = [row EXCEPT ![s] = r]
      /\ past' = [past EXCEPT ![s] = IF r.status \in GatekeeperArchived THEN note
                                                                       ELSE NoPast]
  BY DEF WriteNoting, PutRow
<1> QED  BY <1>1, <1>2

\* The same for a write that keeps the history.
LEMMA RowWritten ==
  ASSUME TypeOK, NEW s \in Senders, NEW r, WriteRow(s, r)
  PROVE  /\ row'[s] = r
         /\ r.status \in GatekeeperArchived => past'[s] = past[s]
         /\ \A t \in Senders : t # s => row'[t] = row[t] /\ past'[t] = past[t]
BY Written DEF WriteRow

\* The lock of a sender passes to a coroutine of a kind.
Takes(s, k) ==
  task'[s].kind = k /\ \A t \in Senders : t # s => task'[t] = task[t]

\* A held lock is passed on as the kind of work it is now held for.
LEMMA Taking ==
  ASSUME TypeOK, NEW s \in Senders, NEW k, NEW a, NEW b, NEW j,
         Become(s, Doing(k, a, b, j))
  PROVE  Takes(s, k)
<1>1. task \in [Senders -> Task]  BY DEF TypeOK
<1>2. Doing(k, a, b, j).kind = k  BY Zenon DEF Doing
<1> QED  BY <1>1, <1>2 DEF Become, Takes

\* A released lock.
LEMMA Leaving ==
  ASSUME TypeOK, NEW s \in Senders, Become(s, Idle)
  PROVE  Takes(s, "idle")
BY Taking DEF Idle

\* A step that leaves every task alone takes no lock and releases none.
LEMMA Keeping ==
  UNCHANGED task => \A s \in Senders : Takes(s, task[s].kind)
BY DEF Takes

\* A dialog that was archived and muted has a snapshot, a restore that failed
\* keeps it, and so does a deletion that failed.
LEMMA Snapshots ==
  ASSUME NEW d \in Dialog, NEW sn \in Snapshot
  PROVE  /\ \A o \in Results(ArchiveAndMute(d, sn)) : o.ok => o.snap # NoSnapshot
         /\ \A o \in Results(Restore(d, sn)) : ~o.ok => o.snap = sn
         /\ \A o \in Results(DeleteDialog(d, sn)) : ~o.ok => o.snap = sn
<1>1. \A os : Results(os) \subseteq os  BY DEF Results
<1>2. SavedSnapshot(d, sn) # NoSnapshot
  BY SnapshotAssumption DEF SavedSnapshot
<1>3. \A o \in ArchiveAndMute(d, sn) : o.ok => o.snap # NoSnapshot
  BY <1>2 DEF ArchiveAndMute, Result
<1>4. \A o \in Restore(d, sn) : ~o.ok => o.snap = sn
  BY DEF Restore, Result
<1>5. \A o \in DeleteDialog(d, sn) : ~o.ok => o.snap = sn
  BY DEF DeleteDialog, Result
<1> QED  BY <1>1, <1>3, <1>4, <1>5

\* Whatever happens to a confined sender, its history forgets neither that it was
\* warned, nor why it was not, nor that its dialog was put back.
KeepsNotes(s) ==
  /\ past[s].warned => past'[s].warned
  /\ past[s].silent => past'[s].silent
  /\ past[s].restored => past'[s].restored

\* What is noted in a history leaves the rest of it as it is.
LEMMA Notes ==
  ASSUME NEW p \in Past, NEW b \in BOOLEAN
  PROVE  /\ LET q == [p EXCEPT !.answered = b]
            IN  /\ p.warned => q.warned
                /\ p.silent => q.silent
                /\ p.restored => q.restored
         /\ LET q == [p EXCEPT !.warned = TRUE]
            IN  /\ q.warned
                /\ p.silent => q.silent
                /\ p.restored => q.restored
         /\ LET q == [p EXCEPT !.silent = b]
            IN  /\ b => q.silent
                /\ p.restored => q.restored
         /\ LET q == [p EXCEPT !.left = b]
            IN  /\ b => q.left
                /\ p.warned => q.warned
                /\ p.silent => q.silent
                /\ p.restored => q.restored
BY Zenon DEF Past

\* What the history says after the death of the process.
LEMMA CutNotes ==
  ASSUME TypeOK, NEW s \in Senders, NEW sn
  PROVE  /\ past[s].warned => CutShort(s, sn).warned
         /\ past[s].silent \/ task[s].kind = "timeout_notice" => CutShort(s, sn).silent
         /\ \/ past[s].restored
            \/ task[s].kind \in Restoring /\ sn = NoSnapshot
            => CutShort(s, sn).restored
<1>1. past[s] \in Past  BY DEF TypeOK
<1> QED  BY <1>1, Zenon DEF CutShort, Past

\* A process that dies in a request drops no snapshot, unless it puts a dialog back or
\* deletes it.
LEMMA CutKeepsSnapshot ==
  ASSUME NEW s \in Senders, NEW o \in Interrupted(s), snap[s] # NoSnapshot,
         task[s].kind \in {"idle", "attempts_notice", "timeout_notice"}
  PROVE  o.snap # NoSnapshot
BY DEF Interrupted, Result

\* The settled row is the present one or that of an unknown sender.
LEMMA Settled ==
  ASSUME TypeOK, NEW s \in Senders
  PROVE  \/ ~Expired(row[s]) /\ SettledRow(s) = row[s] /\ SettledSnap(s) = snap
         \/ /\ Expired(row[s]) /\ row[s].status = "suppressed" /\ row[s].until = "past"
            /\ Shaped(SettledRow(s), "unknown", "null", FALSE)
<1>1. row[s] \in Row  BY DEF TypeOK
<1> QED  BY <1>1, Shapes DEF SettledRow, SettledSnap, Expired

-----------------------------------------------------------------------------
(* Senders a step does not concern *)

\* Nothing the invariant reads of a sender changes.
Untouched(t) ==
  /\ row'[t] = row[t] /\ past'[t] = past[t] /\ task'[t] = task[t]
  /\ snap'[t] = snap[t]

\* A sender no step touches keeps all that is promised about it.
LEMMA UntouchedKept ==
  ASSUME NEW t \in Senders, SenderInv(t), Untouched(t), UNCHANGED <<svc, crashes>>,
         t \in recovering => t \in recovering'
  PROVE  Kept(t)
<1>1. SenderInv(t)'
  BY DEF SenderInv, Untouched, Fits, Undoable, Dated, Told, Attended
<1>2. Promised(t) /\ AllowanceKept(t) /\ AnswerKept(t)
  BY DEF Untouched, Promised, Deleting, AllowanceKept, AnswerKept, SenderInv, Fits,
         DashboardOnly, GatekeeperArchived, Restricted, Starting
<1> QED  BY <1>1, <1>2 DEF Kept

Others(s) == \A t \in Senders : t # s => Untouched(t)

\* It is enough to look at the sender whose lock is held or taken.
LEMMA OneSender ==
  ASSUME LockInv, NEW s \in Senders, Others(s), UNCHANGED loopVars, Kept(s)
  PROVE  \A t \in Senders : Kept(t)
<1> SUFFICES ASSUME NEW t \in Senders, t # s PROVE Kept(t)  OBVIOUS
<1> QED  BY UntouchedKept DEF LockInv, Others, loopVars

\* One component at a time.
RowsOfOthers(s) == \A t \in Senders : t # s => row'[t] = row[t] /\ past'[t] = past[t]
TasksOfOthers(s) == \A t \in Senders : t # s => task'[t] = task[t]
SnapsOfOthers(s) == \A t \in Senders : t # s => snap'[t] = snap[t]

\* The writes of a step for one sender leave the rows, tasks and snapshots
\* of all others alone.
LEMMA OthersFrom ==
  ASSUME TypeOK, NEW s \in Senders
  PROVE  /\ \A r : WriteRow(s, r) => RowsOfOthers(s)
         /\ \A r, n : WriteNoting(s, r, n) => RowsOfOthers(s)
         /\ \A x : Become(s, x) => TasksOfOthers(s)
         /\ \A o : SetDialog(s, o) => SnapsOfOthers(s)
<1> USE DEF RowsOfOthers, TasksOfOthers, SnapsOfOthers
<1>1. task \in [Senders -> Task] /\ snap \in [Senders -> Snapshot]
  BY DEF TypeOK
<1>2. \A x : Become(s, x) => TasksOfOthers(s)  BY <1>1 DEF Become
<1>3. \A o : SetDialog(s, o) => SnapsOfOthers(s)  BY <1>1 DEF SetDialog
<1> QED  BY <1>2, <1>3, Written, RowWritten

\* Those three together leave the other senders untouched.
LEMMA OthersAre ==
  \A s \in Senders :
    RowsOfOthers(s) /\ TasksOfOthers(s) /\ SnapsOfOthers(s) => Others(s)
BY DEF RowsOfOthers, TasksOfOthers, SnapsOfOthers, Others, Untouched

\* A variable that does not change does not change for other senders.
LEMMA OthersSame ==
  ASSUME NEW s \in Senders
  PROVE  /\ UNCHANGED rowVars => RowsOfOthers(s)
         /\ UNCHANGED <<row, past>> => RowsOfOthers(s)
         /\ UNCHANGED task => TasksOfOthers(s)
         /\ UNCHANGED snap => SnapsOfOthers(s)
         /\ UNCHANGED dialogVars => SnapsOfOthers(s)
BY DEF RowsOfOthers, TasksOfOthers, SnapsOfOthers, rowVars, dialogVars

\* Handling a message concerns its sender only.
LEMMA HandleOthers ==
  ASSUME TypeOK, NEW s \in Senders, NEW m \in Messages, Handle(s, m)
  PROVE  Others(s) /\ UNCHANGED loopVars /\ svc = "up" /\ task[s].kind = "idle"
<1> USE DEF RowsOfOthers, TasksOfOthers, SnapsOfOthers
<1>a. /\ row \in [Senders -> Row] /\ past \in [Senders -> Past]
      /\ snap \in [Senders -> Snapshot]
  BY DEF TypeOK
<1>1. UNCHANGED loopVars /\ svc = "up" /\ task[s].kind = "idle"
  BY DEF Handle, HandleSuppressed, HandleTrusted, HandleDecided, HandleEvidence,
         HandleMonitored, HandleIssue, HandleLateReply, HandleUnusableReply,
         HandleCorrectAnswer, HandleWrongAnswer, InTime, Answered, Screened, Taken, LockFree
<1>2. RowsOfOthers(s)
  <2>1. CASE HandleUnusableReply(s, m)
    BY <1>a, <2>1 DEF HandleUnusableReply
  <2>2. CASE HandleCorrectAnswer(s, m)
    BY <1>a, <2>2 DEF HandleCorrectAnswer
  <2>3. CASE ~HandleUnusableReply(s, m) /\ ~HandleCorrectAnswer(s, m)
    BY <2>3, OthersFrom, OthersSame
       DEF Handle, HandleSuppressed, HandleTrusted, HandleDecided, HandleEvidence,
           HandleMonitored, HandleIssue, HandleLateReply, HandleWrongAnswer
  <2> QED  BY <2>1, <2>2, <2>3
<1>3. TasksOfOthers(s)
  BY OthersFrom, OthersSame
     DEF Handle, HandleSuppressed, HandleTrusted, HandleDecided, HandleEvidence,
         HandleMonitored, HandleIssue, HandleLateReply, HandleUnusableReply,
         HandleCorrectAnswer, HandleWrongAnswer
<1>4. SnapsOfOthers(s)
  <2>1. snap' = SettledSnap(s) => SnapsOfOthers(s)  BY <1>a DEF SettledSnap
  <2> QED
    BY <2>1, OthersSame
       DEF Handle, HandleSuppressed, HandleTrusted, HandleDecided, HandleEvidence,
           HandleMonitored, HandleIssue, HandleLateReply, HandleUnusableReply,
           HandleCorrectAnswer, HandleWrongAnswer
<1> QED  BY <1>1, <1>2, <1>3, <1>4, OthersAre

\* The rest of a handler after its await concerns the sender whose lock it holds.
LEMMA ContinueOthers ==
  ASSUME TypeOK, NEW s \in Senders, Continue(s)
  PROVE  Others(s) /\ UNCHANGED loopVars /\ svc # "down"
<1> USE DEF RowsOfOthers, TasksOfOthers, SnapsOfOthers
<1>a. row \in [Senders -> Row] /\ past \in [Senders -> Past]  BY DEF TypeOK
<1>1. UNCHANGED loopVars /\ svc # "down"
  BY DEF Continue, IssueSent, IssueArchived, IssueUnwound, FallbackArchived,
         AnswerRestored, AttemptsNotified, TimeoutNotified, OwnerRestored,
         LegitimateRestored, SpamArchived, AllowRestored, DeletionEnds, Holding
<1>2. RowsOfOthers(s)
  <2>1. CASE TimeoutNotified(s)
    BY <1>a, <2>1, OthersFrom DEF TimeoutNotified
  <2>2. CASE DeletionEnds(s)
    <3>1. row' = row \/ row' = [row EXCEPT ![s].actionRef = FALSE]
      BY <2>2, Zenon DEF DeletionEnds
    <3> QED  BY <1>a, <2>2, <3>1 DEF DeletionEnds
  <2>4. CASE IssueUnwound(s)
    BY <1>a, <2>4, OthersFrom DEF IssueUnwound
  <2>3. CASE ~TimeoutNotified(s) /\ ~DeletionEnds(s) /\ ~IssueUnwound(s)
    BY <2>3, OthersFrom, OthersSame
       DEF Continue, IssueSent, IssueArchived, FallbackArchived, AnswerRestored,
           AttemptsNotified, OwnerRestored, LegitimateRestored,
           SpamArchived, AllowRestored, AllowSender, MarkLegitimate, MarkSpam
  <2> QED  BY <2>1, <2>2, <2>3, <2>4
<1>3. TasksOfOthers(s)
  BY OthersFrom, OthersSame
     DEF Continue, IssueSent, IssueArchived, IssueUnwound, FallbackArchived,
         AnswerRestored, AttemptsNotified, TimeoutNotified, OwnerRestored,
         LegitimateRestored, SpamArchived, AllowRestored, DeletionEnds
<1>4. SnapsOfOthers(s)
  BY OthersFrom, OthersSame
     DEF Continue, IssueSent, IssueArchived, IssueUnwound, FallbackArchived,
         AnswerRestored, AttemptsNotified, TimeoutNotified, OwnerRestored,
         LegitimateRestored, SpamArchived, AllowRestored, DeletionEnds
<1> QED  BY <1>1, <1>2, <1>3, <1>4, OthersAre

\* A timer, a decision and the passing of time concern one sender.
LEMMA StepOthers ==
  ASSUME TypeOK, NEW s \in Senders,
         TimerStep(s) \/ Operate(s) \/ Elapse(s) \/ OwnerWrites(s)
  PROVE  Others(s) /\ UNCHANGED loopVars
<1> USE DEF RowsOfOthers, TasksOfOthers, SnapsOfOthers
<1>a. row \in [Senders -> Row] /\ snap \in [Senders -> Snapshot]  BY DEF TypeOK
<1>1. CASE TimerStep(s)
  BY <1>1, OthersFrom, OthersSame, OthersAre
     DEF TimerStep, TimerWakes, TimerReleases, TimerExpires
<1>2. CASE Operate(s)
  <2>1. RowsOfOthers(s)
    <3>1. CASE CaseArchive(s)  BY <3>1, <1>a DEF CaseArchive
    <3>2. CASE ~CaseArchive(s)
      BY <3>2, <1>2, OthersFrom, OthersSame
         DEF Operate, ReviewLegitimate, ReviewSpam, ReviewDismiss, CaseForget,
             CaseAllow, ReleaseLegacy, AllowSender, MarkLegitimate, MarkSpam
    <3> QED  BY <3>1, <3>2
  <2>2. TasksOfOthers(s) /\ UNCHANGED loopVars
    BY <1>2, OthersFrom, OthersSame
       DEF Operate, ReviewLegitimate, ReviewSpam, ReviewDismiss, CaseArchive, CaseForget,
           CaseAllow, ReleaseLegacy
  <2>3. SnapsOfOthers(s)
    BY <1>2, <1>a, OthersSame
       DEF Operate, ReviewLegitimate, ReviewSpam, ReviewDismiss, CaseArchive, CaseForget,
           CaseAllow, ReleaseLegacy
  <2> QED  BY <2>1, <2>2, <2>3, OthersAre
<1>3. CASE Elapse(s) \/ OwnerWrites(s)
  <2>1. RowsOfOthers(s)
    BY <1>3, <1>a DEF Elapse, DeadlineAdvances, SuppressionElapses, OwnerWrites
  <2>2. TasksOfOthers(s) /\ SnapsOfOthers(s) /\ UNCHANGED loopVars
    BY <1>3, OthersSame DEF Elapse, DeadlineAdvances, SuppressionElapses, OwnerWrites
  <2> QED  BY <2>1, <2>2, OthersAre
<1> QED  BY <1>1, <1>2, <1>3

-----------------------------------------------------------------------------
(* The sender whose lock is taken or held *)

\* Handling a message keeps what its sender is promised.
LEMMA HandleKept ==
  ASSUME LockInv, TypeOK', NEW s \in Senders, NEW m \in Messages, Handle(s, m)
  PROVE  Kept(s)
<1> USE DEF Kept, SenderInv, Fits, Undoable, Dated, Told, Attended,
            Promised, MayFollow, Deleting, AllowanceKept, AnswerKept, Issuing,
            DashboardOnly, GatekeeperArchived, Restricted, Starting
<1>a. TypeOK /\ SenderInv(s) /\ row[s] \in Row /\ row'[s] \in Row
  BY DEF LockInv, TypeOK
<1>b. svc = "up" /\ svc' = "up" /\ task[s].kind = "idle" /\ UNCHANGED crashes
  BY <1>a, HandleOthers DEF loopVars
<1>1. CASE HandleSuppressed(s, m)
  BY <1>1, <1>a, <1>b, Standings DEF HandleSuppressed, rowVars
<1>3. CASE HandleDecided(s, m)
  BY <1>3, <1>a, <1>b, Standings DEF HandleDecided, rowVars
<1>2. CASE HandleTrusted(s, m)
  <2>1. Shaped(row'[s], "allowed", "null", FALSE)
    <3>1. SettledRow(s) \in Row  BY <1>a, Groups, SettledTypes
    <3>2. row'[s] = AllowRow(SettledRow(s))  BY <1>2, <1>a, RowWritten DEF HandleTrusted
    <3> QED  BY <3>1, <3>2, Shapes DEF AllowRow
  <2> QED  BY <1>2, <1>a, <1>b, <2>1, Standings DEF HandleTrusted, Shaped
<1>4. CASE HandleEvidence(s, m)
  <2> DEFINE r == SuppressRow(SettledRow(s), "null", TRUE, TRUE)
  <2>1. /\ SettledRow(s) \in Row /\ Shaped(r, "suppressed", "null", FALSE)
        /\ SettledRow(s).status \in {"unknown", "provisional", "challenged"}
    BY <1>4, <1>a, Groups, SettledTypes, Shapes DEF HandleEvidence, Screened
  <2>2. CASE row'[s] = r /\ UNCHANGED task
    BY <2>1, <2>2, <1>a, <1>b, Settled, Standings DEF Shaped
  <2>3. CASE /\ row'[s] = SettledRow(s) /\ UNCHANGED task /\ snap' = SettledSnap(s)
             /\ row'[s].status = "challenged" => past'[s] = past[s]
    BY <2>1, <2>3, <1>a, <1>b, Settled, Standings DEF Shaped
  <2> QED
    BY <1>4, <1>a, <2>2, <2>3, RowWritten DEF HandleEvidence
<1>5. CASE HandleMonitored(s, m)
  <2>1. SettledRow(s).status \in {"unknown", "provisional"}
    BY <1>5 DEF HandleMonitored, Screened
  <2>2. row'[s] = SettledRow(s) /\ UNCHANGED task /\ snap' = SettledSnap(s)
    BY <1>5, <1>a, RowWritten DEF HandleMonitored
  <2> QED  BY <2>1, <2>2, <1>a, <1>b, Settled, Standings DEF Shaped
<1>6. CASE HandleIssue(s, m)
  <2>1. /\ SettledRow(s) \in Row
        /\ SettledRow(s).status \in {"unknown", "provisional"}
    BY <1>6, <1>a, Groups, SettledTypes DEF HandleIssue, Screened
  <2>2. SettledRow(s).until = "null" /\ SettledRow(s).archived = FALSE
    <3>1. SettledRow(s).archived \in BOOLEAN  BY <2>1, Zenon DEF Row
    <3> QED  BY <2>1, <3>1, <1>a, Settled DEF Shaped
  <2>3. snap' = SettledSnap(s)  BY <1>6 DEF HandleIssue
  <2>4. CASE Shaped(row'[s], "challenge_issuing", "null", FALSE) /\ Takes(s, "issue_send")
    BY <2>1, <2>3, <2>4, <1>a, <1>b, Settled, Standings DEF Takes, Shaped
  <2>5. CASE row'[s] = SettledRow(s) /\ Takes(s, "fallback_archive")
    BY <2>1, <2>2, <2>3, <2>5, <1>a, <1>b, Settled, Standings DEF Takes, Shaped
  <2>6. PICK ref, profile :
          \/ /\ WriteRow(s, BeginChallengeIssue(SettledRow(s), m, profile, ref))
             /\ Become(s, Doing("issue_send", FALSE, FALSE, 0))
          \/ /\ WriteRow(s, SettledRow(s))
             /\ Become(s, Doing("fallback_archive", ref, FALSE, 0))
    BY <1>6, Zenon DEF HandleIssue
  <2>7. CASE WriteRow(s, BeginChallengeIssue(SettledRow(s), m, profile, ref))
             /\ Become(s, Doing("issue_send", FALSE, FALSE, 0))
    <3>1. row'[s] = BeginChallengeIssue(SettledRow(s), m, profile, ref)
      BY <2>7, <1>a, RowWritten
    <3>2. Shaped(row'[s], "challenge_issuing", "null", FALSE)
      BY <2>1, <2>2, <3>1, Shapes
    <3>3. Takes(s, "issue_send")  BY <2>7, <1>a, Taking
    <3> QED  BY <2>4, <3>2, <3>3
  <2>8. CASE WriteRow(s, SettledRow(s))
             /\ Become(s, Doing("fallback_archive", ref, FALSE, 0))
    BY <2>8, <2>5, <1>a, RowWritten, Taking
  <2> QED  BY <2>6, <2>7, <2>8
<1>7. CASE HandleLateReply(s, m)
  <2>1. row[s].status = "challenged" /\ UNCHANGED snap
    BY <1>7 DEF HandleLateReply, Answered
  <2>2. Shaped(row'[s], "suppressed", "future", row[s].archived)
    <3>1. row'[s] = ExpireChallenge(row[s], row[s].actionRef)
      BY <1>7, <1>a, RowWritten DEF HandleLateReply
    <3>2. row[s] \in Row  BY <1>a
    <3> QED  BY <3>1, <3>2, Shapes
  <2>3. Takes(s, "timeout_notice")  BY <1>7, <1>a, Taking DEF HandleLateReply
  <2>4. past'[s] = past[s]
    <3>1. row'[s] = ExpireChallenge(row[s], row[s].actionRef)
      BY <1>7, <1>a, RowWritten DEF HandleLateReply
    <3> QED  BY <1>7, <1>a, <2>2, <3>1, RowWritten DEF HandleLateReply, Shaped
  <2> QED  BY <2>1, <2>2, <2>3, <2>4, <1>a, <1>b, Standings DEF Takes, Shaped
<1>8. CASE HandleUnusableReply(s, m)
  <2>1. Shaped(row'[s], row[s].status, row[s].until, row[s].archived)
    <3>1. PICK g : row' = [row EXCEPT ![s].guidance = g]
      BY <1>8 DEF HandleUnusableReply
    <3> DEFINE q == [row[s] EXCEPT !.guidance = g]
    <3>2. row[s] \in Row  BY <1>a
    <3>3. Shaped(q, row[s].status, row[s].until, row[s].archived)
      BY <3>2, SameShape, Zenon
    <3>4. row'[s] = q  BY <3>1, <1>a DEF TypeOK
    <3> HIDE DEF q
    <3> QED  BY <3>3, <3>4
  <2>2. row[s].status = "challenged" /\ UNCHANGED <<past, snap, task>>
    BY <1>8 DEF HandleUnusableReply, InTime, Answered
  <2> QED  BY <2>1, <2>2, <1>a, <1>b, Standings DEF Shaped
<1>9. CASE HandleCorrectAnswer(s, m)
  <2>1. row[s].status = "challenged" /\ UNCHANGED <<row, snap>>
    BY <1>9 DEF HandleCorrectAnswer, InTime, Answered
  <2>2. Takes(s, "answer_restore")  BY <1>9, <1>a, Taking DEF HandleCorrectAnswer
  <2>3. KeepsNotes(s)
    <3>1. past[s] \in Past /\ past'[s] = [past[s] EXCEPT !.answered = TRUE]
      BY <1>9, <1>a DEF HandleCorrectAnswer, TypeOK
    <3> QED  BY <3>1, Notes, Zenon DEF KeepsNotes
  <2> QED  BY <2>1, <2>2, <2>3, <1>a, <1>b DEF Takes, KeepsNotes
<1>10. CASE HandleWrongAnswer(s, m)
  <2>1. row[s].status = "challenged" /\ UNCHANGED snap
    BY <1>10 DEF HandleWrongAnswer, InTime, Answered
  <2>2. Shaped(row'[s], row[s].status, row[s].until, row[s].archived)
    <3>1. row'[s] = [row[s] EXCEPT !.attempts = row[s].attempts + 1]
      BY <1>10, <1>a, RowWritten, Zenon DEF HandleWrongAnswer
    <3>2. row[s] \in Row  BY <1>a
    <3> QED  BY <3>1, <3>2, SameShape, Zenon
  <2>3. UNCHANGED task \/ Takes(s, "attempts_notice")
    BY <1>10, <1>a, Taking DEF HandleWrongAnswer
  <2>4. past'[s] = past[s]
    <3>1. row'[s] = [row[s] EXCEPT !.attempts = row[s].attempts + 1]
      BY <1>10, <1>a, RowWritten, Zenon DEF HandleWrongAnswer
    <3> QED  BY <1>10, <1>a, <2>1, <2>2, <3>1, RowWritten DEF HandleWrongAnswer, Shaped
  <2> QED  BY <2>1, <2>2, <2>3, <2>4, <1>a, <1>b, Standings DEF Takes, Shaped
<1> QED
  BY <1>1, <1>2, <1>3, <1>4, <1>5, <1>6, <1>7, <1>8, <1>9, <1>10 DEF Handle

\* The row that allow leaves, and the one that the decision "spam" leaves.
LEMMA DecisionShapes ==
  ASSUME TypeOK, NEW s \in Senders
  PROVE  /\ AllowSender(s) => Shaped(row'[s], "allowed", "null", FALSE)
         /\ MarkSpam(s) => Shaped(row'[s], "suppressed", "null", TRUE)
<1>a. row[s] \in Row  BY DEF TypeOK
<1>1. AllowSender(s) => row'[s] = AllowRow(row[s])  BY RowWritten DEF AllowSender
<1>2. Shaped(AllowRow(row[s]), "allowed", "null", FALSE)  BY <1>a, Shapes DEF AllowRow
<1> DEFINE r == SuppressRow(row[s], "null", TRUE, TRUE)
           q == [r EXCEPT !.archived = TRUE]
<1>3. r \in Row  BY <1>a, SuppressTypes DEF Until
<1>8. Shaped(r, "suppressed", "null", FALSE)  BY <1>a, Shapes
<1>4. r.status = "suppressed" /\ r.until = "null"  BY <1>8 DEF Shaped
<1>5. MarkSpam(s) => WriteRow(s, q)  BY Zenon DEF MarkSpam
<1> HIDE DEF r
<1>6. q.status = r.status /\ q.until = r.until /\ q.archived = TRUE
  BY <1>3, Zenon DEF Row
<1> HIDE DEF q
<1>7. MarkSpam(s) => row'[s] = q  BY <1>5, RowWritten
<1> QED  BY <1>1, <1>2, <1>4, <1>6, <1>7 DEF Shaped

\* Unlocked writes do not bring a lock holder anything else.
LEMMA UnlockedStatuses ==
  Unlocked \subseteq {"unknown", "allowed"} /\ (CliBudget = 0 => Unlocked = {})
BY DEF Unlocked

\* The rest of a handler after its await keeps what the sender is promised.
LEMMA ContinueKept ==
  ASSUME LockInv, TypeOK', NEW s \in Senders, Continue(s)
  PROVE  Kept(s)
<1> USE DEF Kept, SenderInv, Fits, Undoable, Dated, Told, Attended,
            Promised, MayFollow, Deleting, AllowanceKept, AnswerKept, Issuing,
            DashboardOnly, GatekeeperArchived, Restricted, Starting
<1>a. TypeOK /\ SenderInv(s) /\ row[s] \in Row /\ row'[s] \in Row
  BY DEF LockInv, TypeOK
<1>b. UNCHANGED <<svc, crashes, recovering>>
  BY <1>a, ContinueOthers DEF loopVars
<1>c. Unlocked \subseteq {"unknown", "allowed"} /\ (CliBudget = 0 => Unlocked = {})
  BY UnlockedStatuses
<1>d. row[s] \in Row /\ dialog[s] \in Dialog /\ snap[s] \in Snapshot
      /\ snap \in [Senders -> Snapshot] /\ past \in [Senders -> Past]
  BY <1>a DEF TypeOK
<1>e. Shaped(ResetIncomplete(row[s]),
             IF row[s].status \in Starting THEN "unknown" ELSE row[s].status,
             row[s].until, row[s].archived)
  BY <1>d, Shapes
<1>f. \A o : SetDialog(s, o) => snap'[s] = o.snap  BY <1>d DEF SetDialog
<1>g. Warned(s).warned /\ (past[s].restored => Warned(s).restored)
  <2>1. past[s] \in Past  BY <1>d
  <2> QED  BY <2>1, Notes, Zenon DEF Warned
<1>1. CASE IssueSent(s)
  <2>1. task[s].kind = "issue_send" /\ UNCHANGED snap
    BY <1>1 DEF IssueSent, Holding, dialogVars
  <2>3. CASE /\ row[s].status = "challenge_issuing"
             /\ WriteRow(s, BindChallenge(row[s]))
             /\ Become(s, Doing("issue_archive", FALSE, FALSE, 0))
    <3>1. row'[s] = BindChallenge(row[s])  BY <2>3, <1>a, RowWritten
    <3>2. Shaped(row'[s], "challenge_archiving", row[s].until, row[s].archived)
      BY <1>d, <3>1, Shapes
    <3>3. Takes(s, "issue_archive")  BY <2>3, <1>a, Taking
    <3> QED  BY <2>1, <2>3, <3>2, <3>3, <1>a, <1>b, <1>c, Standings DEF Takes, Shaped
  <2>4. CASE WriteRow(s, ResetIncomplete(row[s])) /\ Become(s, Idle)
    <3>1. row'[s] = ResetIncomplete(row[s])  BY <2>4, <1>a, RowWritten
    <3>2. Takes(s, "idle")  BY <2>4, <1>a, Leaving
    <3> QED
      BY <2>1, <3>1, <3>2, <1>a, <1>b, <1>c, <1>e, Standings DEF Takes, Shaped
  <2> QED  BY <1>1, <2>3, <2>4 DEF IssueSent
<1>2. CASE IssueArchived(s)
  <2>1. task[s].kind = "issue_archive"  BY <1>2 DEF IssueArchived, Holding
  <2>2. PICK o \in Results(ArchiveAndMute(dialog[s], snap[s])) :
          /\ SetDialog(s, o)
          /\ \/ /\ o.ok /\ row[s].status = "challenge_archiving"
                /\ WriteNoting(s, ActivateChallenge(row[s]), NoPast)
                /\ Become(s, Idle)
             \/ /\ \E raised \in ActivationRaises :
                     Become(s, Doing("issue_unwind", raised, FALSE, 0))
                /\ UNCHANGED rowVars
             \/ /\ ~o.ok
                /\ WriteRow(s, ResetIncomplete(row[s]))
                /\ Become(s, Idle)
    BY <1>2, Zenon DEF IssueArchived
  <2>3. CASE /\ o.ok /\ row[s].status = "challenge_archiving"
             /\ WriteNoting(s, ActivateChallenge(row[s]), NoPast)
             /\ Become(s, Idle)
    <3>1. row'[s] = ActivateChallenge(row[s])  BY <2>3, <1>a, Written
    <3>2. Shaped(row'[s], "challenged", row[s].until, row[s].archived)
      BY <1>d, <3>1, Shapes
    <3>3. Takes(s, "idle")  BY <2>3, <1>a, Leaving
    <3>4. snap'[s] # NoSnapshot  BY <2>2, <2>3, <1>d, <1>f, Snapshots
    <3> QED
      BY <2>1, <2>3, <3>2, <3>3, <3>4, <1>a, <1>b, <1>c, Standings DEF Takes, Shaped
  <2>4. CASE /\ \E raised \in ActivationRaises :
                  Become(s, Doing("issue_unwind", raised, FALSE, 0))
             /\ UNCHANGED rowVars
    <3>1. Takes(s, "issue_unwind")  BY <2>4, <1>a, Taking
    <3> QED  BY <2>1, <2>4, <3>1, <1>a, <1>b, <1>c DEF Takes, rowVars
  <2>5. CASE /\ ~o.ok
             /\ WriteRow(s, ResetIncomplete(row[s]))
             /\ Become(s, Idle)
    <3>1. row'[s] = ResetIncomplete(row[s])  BY <2>5, <1>a, RowWritten
    <3>2. Takes(s, "idle")  BY <2>5, <1>a, Leaving
    <3> QED
      BY <2>1, <3>1, <3>2, <1>a, <1>b, <1>c, <1>e, Standings DEF Takes, Shaped
  <2> QED  BY <2>2, <2>3, <2>4, <2>5
<1>3. CASE IssueUnwound(s)
  <2>1. task[s].kind = "issue_unwind"  BY <1>3 DEF IssueUnwound, Holding
  <2>2. Takes(s, "idle")  BY <1>3, <1>a, Leaving DEF IssueUnwound
  <2>3. CASE WriteRow(s, ResetIncomplete(row[s]))
    <3>1. row'[s] = ResetIncomplete(row[s])  BY <2>3, <1>a, RowWritten
    <3> QED  BY <2>1, <2>2, <3>1, <1>a, <1>b, <1>c, <1>e, Standings DEF Takes, Shaped
  <2>4. CASE UNCHANGED row
             /\ past' = [past EXCEPT ![s].left = row[s].status \in Starting]
    <3>1. row[s].status \in Starting => past'[s].left
      <4>1. CASE row[s].status \in Starting
        <5>1. past' = [past EXCEPT ![s].left = TRUE]  BY <2>4, <4>1, Zenon
        <5>2. past'[s] = [past[s] EXCEPT !.left = TRUE]  BY <5>1, <1>d, Zenon
        <5> QED  BY <5>2, <1>d, Notes, Zenon
      <4> QED  BY <4>1
    <3>2. row[s].status \in {"challenge_archiving", "unknown", "allowed"}
      BY <2>1, <1>a, <1>c
    <3> QED  BY <2>1, <2>2, <2>4, <3>1, <3>2, <1>a, <1>b, <1>c DEF Takes
  <2> QED  BY <1>3, <2>3, <2>4 DEF IssueUnwound
<1>4. CASE FallbackArchived(s)
  <2>1. task[s].kind = "fallback_archive"
    BY <1>4 DEF FallbackArchived, Holding
  <2>2. PICK o \in Results(ArchiveAndMute(dialog[s], snap[s])) :
          /\ SetDialog(s, o)
          /\ WriteRow(s, IF o.ok THEN QuarantineRow(row[s], task[s].ref) ELSE row[s])
    BY <1>4, Zenon DEF FallbackArchived
  <2>3. Takes(s, "idle")  BY <1>4, <1>a, Leaving DEF FallbackArchived
  <2>4. CASE o.ok
    <3>1. row'[s] = QuarantineRow(row[s], task[s].ref)  BY <2>2, <2>4, <1>a, RowWritten
    <3>2. Shaped(row'[s], "quarantined", "null", FALSE)
      BY <1>d, <3>1, Shapes DEF QuarantineRow
    <3>3. snap'[s] # NoSnapshot  BY <2>2, <2>4, <1>d, <1>f, Snapshots
    <3> QED
      BY <2>1, <2>3, <3>2, <3>3, <1>a, <1>b, <1>c, Standings DEF Takes, Shaped
  <2>5. CASE ~o.ok
    <3>1. row'[s] = row[s]  BY <2>2, <2>5, <1>a, RowWritten
    <3> QED  BY <2>1, <2>3, <3>1, <1>a, <1>b, <1>c DEF Takes
  <2> QED  BY <2>4, <2>5
<1>5. CASE AnswerRestored(s)
  <2>1. task[s].kind = "answer_restore"  BY <1>5 DEF AnswerRestored, Holding
  <2>2. PICK o \in Results(Restore(dialog[s], snap[s])) :
          /\ SetDialog(s, o)
          /\ o.ok => WriteRow(s, ProvisionalRow(row[s]))
          /\ ~o.ok => UNCHANGED rowVars
    BY <1>5, Zenon DEF AnswerRestored
  <2>3. Takes(s, "idle")  BY <1>5, <1>a, Leaving DEF AnswerRestored
  <2>4. CASE o.ok
    <3>1. row'[s] = ProvisionalRow(row[s])  BY <2>2, <2>4, <1>a, RowWritten
    <3>2. Shaped(row'[s], "provisional", "null", FALSE)
      BY <1>d, <3>1, Shapes DEF ProvisionalRow
    <3> QED
      BY <2>1, <2>3, <3>2, <1>a, <1>b, <1>c, Standings DEF Takes, Shaped
  <2>5. CASE ~o.ok
    <3>1. snap'[s] = snap[s]  BY <2>2, <2>5, <1>d, <1>f, Snapshots
    <3>2. UNCHANGED <<row, past>>  BY <2>2, <2>5 DEF rowVars
    <3> QED  BY <2>1, <2>3, <3>1, <3>2, <1>a, <1>b, <1>c DEF Takes
  <2> QED  BY <2>4, <2>5
<1>6. CASE AttemptsNotified(s)
  <2>1. task[s].kind = "attempts_notice" /\ UNCHANGED snap
    BY <1>6 DEF AttemptsNotified, Holding, dialogVars
  <2>2. Takes(s, "idle")  BY <1>6, <1>a, Leaving DEF AttemptsNotified
  <2>3. PICK sent \in NoticeDelivery :
          \/ sent /\ WriteNoting(s, SuppressRow(row[s], "future", TRUE, TRUE), Warned(s))
          \/ \E n \in {past[s], Warned(s)} : \E b :
               WriteNoting(s, QuarantineRow(row[s], b), n)
    BY <1>6 DEF AttemptsNotified, Deletes
  <2>4. CASE sent /\ WriteNoting(s, SuppressRow(row[s], "future", TRUE, TRUE), Warned(s))
    <3>1. row'[s] = SuppressRow(row[s], "future", TRUE, TRUE)  BY <2>4, <1>a, Written
    <3>2. Shaped(row'[s], "suppressed", "future", FALSE)  BY <1>d, <3>1, Shapes
    <3>3. past'[s] = Warned(s)  BY <2>4, <3>1, <3>2, <1>a, Written DEF Shaped
    <3>4. past'[s].warned /\ (past[s].restored => past'[s].restored)  BY <3>3, <1>g
    <3> QED
      BY <2>1, <2>2, <3>2, <3>4, <1>a, <1>b, <1>c, Standings DEF Takes, Shaped
  <2>5. CASE \E n \in {past[s], Warned(s)} : \E b :
               WriteNoting(s, QuarantineRow(row[s], b), n)
    <3>a. PICK n \in {past[s], Warned(s)} : \E b :
            WriteNoting(s, QuarantineRow(row[s], b), n)
      BY <2>5
    <3>1. PICK b : WriteNoting(s, QuarantineRow(row[s], b), n)  BY <3>a
    <3>2. Shaped(row'[s], "quarantined", "null", FALSE)
      <4>1. row'[s] = QuarantineRow(row[s], b)  BY <1>a, <3>1, Written
      <4> QED  BY <1>d, <4>1, Shapes DEF QuarantineRow
    <3>3. past'[s] = n  BY <1>a, <3>1, <3>2, Written DEF Shaped
    <3>4. past[s].restored => past'[s].restored  BY <3>3, <1>g
    <3> QED  BY <2>1, <2>2, <3>2, <3>4, <1>a, <1>b, <1>c, Standings DEF Takes, Shaped
  <2> QED  BY <2>3, <2>4, <2>5
<1>7. CASE TimeoutNotified(s)
  <2>1. task[s].kind = "timeout_notice" /\ UNCHANGED snap
    BY <1>7 DEF TimeoutNotified, Holding, dialogVars
  <2>2. Takes(s, "idle")  BY <1>7, <1>a, Leaving DEF TimeoutNotified
  <2>3. CASE past' = [past EXCEPT ![s] = Warned(s)] /\ UNCHANGED row
    <3>1. past'[s].warned /\ (past[s].restored => past'[s].restored)
      BY <2>3, <1>d, <1>g
    <3> QED  BY <2>1, <2>2, <2>3, <3>1, <1>a, <1>b, <1>c DEF Takes
  <2>4. CASE \E b : WriteRow(s, QuarantineRow(row[s], b))
    <3>1. PICK b : WriteRow(s, QuarantineRow(row[s], b))  BY <2>4
    <3>2. Shaped(row'[s], "quarantined", "null", FALSE)
      <4>1. row'[s] = QuarantineRow(row[s], b)  BY <1>a, <3>1, RowWritten
      <4> QED  BY <1>d, <4>1, Shapes DEF QuarantineRow
    <3>3. past'[s] = past[s]  BY <1>a, <3>1, <3>2, RowWritten DEF Shaped
    <3> QED  BY <2>1, <2>2, <3>2, <3>3, <1>a, <1>b, <1>c, Standings DEF Takes, Shaped
  <2> QED  BY <1>7, <2>3, <2>4 DEF TimeoutNotified
<1>8. CASE OwnerRestored(s) \/ LegitimateRestored(s) \/ AllowRestored(s)
  <2>1. task[s].kind \in {"owner_restore", "legitimate_restore", "allow_restore"}
    BY <1>8 DEF OwnerRestored, LegitimateRestored, AllowRestored, Holding
  <2>2. PICK o \in Results(Restore(dialog[s], snap[s])) :
          /\ SetDialog(s, o)
          /\ o.ok => AllowSender(s)
          /\ ~o.ok => UNCHANGED rowVars
    BY <1>8, Zenon DEF OwnerRestored, LegitimateRestored, AllowRestored, MarkLegitimate
  <2>3. Takes(s, "idle")
    BY <1>8, <1>a, Leaving DEF OwnerRestored, LegitimateRestored, AllowRestored
  <2>4. CASE o.ok
    <3>1. Shaped(row'[s], "allowed", "null", FALSE)
      BY <2>2, <2>4, <1>a, DecisionShapes
    <3> QED
      BY <2>1, <2>3, <3>1, <1>a, <1>b, <1>c, Standings DEF Takes, Shaped
  <2>5. CASE ~o.ok
    <3>1. snap'[s] = snap[s]  BY <2>2, <2>5, <1>d, <1>f, Snapshots
    <3>2. UNCHANGED <<row, past>>  BY <2>2, <2>5 DEF rowVars
    <3> QED  BY <2>1, <2>3, <3>1, <3>2, <1>a, <1>b, <1>c DEF Takes
  <2> QED  BY <2>4, <2>5
<1>9. CASE SpamArchived(s)
  <2>1. task[s].kind = "spam_archive"  BY <1>9 DEF SpamArchived, Holding
  <2>2. Takes(s, "idle")  BY <1>9, <1>a, Leaving DEF SpamArchived
  <2>3. MarkSpam(s) \/ UNCHANGED rowVars
    BY <1>9, Zenon DEF SpamArchived
  <2>4. CASE MarkSpam(s)
    <3>1. Shaped(row'[s], "suppressed", "null", TRUE)  BY <2>4, <1>a, DecisionShapes
    <3> QED
      BY <2>1, <2>2, <3>1, <1>a, <1>b, <1>c, Standings DEF Takes, Shaped
  <2>5. CASE UNCHANGED rowVars
    BY <2>1, <2>2, <2>5, <1>a, <1>b, <1>c DEF Takes, rowVars
  <2> QED  BY <2>3, <2>4, <2>5
<1>10. CASE DeletionEnds(s)
  <2>1. task[s].kind = "deleting" /\ UNCHANGED past
    BY <1>10 DEF DeletionEnds, Holding
  <2>2. Takes(s, "idle")  BY <1>10, <1>a, Leaving DEF DeletionEnds
  <2>3. Shaped(row'[s], row[s].status, row[s].until, row[s].archived)
    <3>1. row' = row \/ row' = [row EXCEPT ![s].actionRef = FALSE]
      BY <1>10, Zenon DEF DeletionEnds
    <3> DEFINE q == [row[s] EXCEPT !.actionRef = FALSE]
    <3>2. Shaped(q, row[s].status, row[s].until, row[s].archived)
      BY <1>d, SameShape, Zenon
    <3>3. row'[s] = row[s] \/ row'[s] = q  BY <3>1, <1>a DEF TypeOK
    <3>4. Shaped(row[s], row[s].status, row[s].until, row[s].archived)  BY DEF Shaped
    <3> HIDE DEF q
    <3> QED  BY <3>2, <3>3, <3>4
  <2> QED  BY <2>1, <2>2, <2>3, <1>a, <1>b, <1>c, Standings DEF Takes, Shaped
<1> QED
  BY <1>1, <1>2, <1>3, <1>4, <1>5, <1>6, <1>7, <1>8, <1>9, <1>10 DEF Continue

\* So do the timers: one that expires a challenge sends the notice next, or the history
\* says that there was no reference to send it to.
LEMMA TimerKept ==
  ASSUME LockInv, TypeOK', NEW s \in Senders, TimerStep(s)
  PROVE  Kept(s)
<1> USE DEF Kept, SenderInv, Fits, Undoable, Dated, Told, Attended,
            Promised, MayFollow, Deleting, AllowanceKept, AnswerKept, Issuing,
            DashboardOnly, GatekeeperArchived, Restricted, Starting
<1>a. TypeOK /\ SenderInv(s) /\ row[s] \in Row /\ row'[s] \in Row
  BY DEF LockInv, TypeOK
<1>b. UNCHANGED <<svc, crashes, recovering>>
  BY <1>a, StepOthers DEF loopVars
<1>c. UNCHANGED snap
  BY DEF TimerStep, TimerWakes, TimerReleases, TimerExpires, dialogVars
<1>1. CASE TimerWakes(s)
  BY <1>1, <1>a, <1>b, <1>c DEF TimerWakes, rowVars
<1>2. CASE TimerReleases(s)
  <2>1. UNCHANGED <<row, past>> /\ task[s].kind = "idle"
    BY <1>2 DEF TimerReleases, LockFree, rowVars
  <2>2. CASE row[s].status \in GatekeeperArchived /\ Takes(s, "owner_restore")
    BY <2>1, <2>2, <1>a, <1>b, <1>c DEF Takes
  <2>3. CASE UNCHANGED task
    BY <2>1, <2>3, <1>a, <1>b, <1>c
  <2> QED  BY <1>2, <2>2, <2>3, <1>a, Taking DEF TimerReleases
<1>3. CASE TimerExpires(s)
  <2> DEFINE r == ExpireChallenge(row[s], row[s].actionRef)
             note == [past[s] EXCEPT !.silent = ~timer[s].peer]
  <2>1. task[s].kind = "idle"  BY <1>3 DEF TimerExpires, LockFree
  <2>2. CASE UNCHANGED <<rowVars, task>>
    BY <2>1, <2>2, <1>a, <1>b, <1>c DEF rowVars
  <2>3. CASE /\ row[s].status = "challenged"
             /\ WriteNoting(s, r, note)
             /\ \/ timer[s].peer /\ Become(s, Doing("timeout_notice", FALSE, FALSE, 0))
                \/ ~timer[s].peer /\ UNCHANGED task
    <3>1. row[s] \in Row /\ past[s] \in Past  BY <1>a DEF TypeOK
    <3>2. Shaped(r, "suppressed", "future", row[s].archived)  BY <3>1, Shapes
    <3>3. row'[s] = r /\ past'[s] = note
      BY <2>3, <3>2, <1>a, Written DEF Shaped
    <3>4. /\ ~timer[s].peer => note.silent
          /\ past[s].restored => note.restored
      <4>1. (~timer[s].peer) \in BOOLEAN  OBVIOUS
      <4> QED  BY <4>1, <3>1, Notes, Zenon
    <3> HIDE DEF r, note
    <3>5. \/ timer[s].peer /\ Takes(s, "timeout_notice")
          \/ ~timer[s].peer /\ UNCHANGED task
      BY <2>3, <1>a, Taking
    <3> QED
      BY <2>1, <2>3, <3>2, <3>3, <3>4, <3>5, <1>a, <1>b, <1>c, Standings
         DEF Takes, Shaped
  <2> QED  BY <1>3, <2>2, <2>3 DEF TimerExpires, Expires
<1> QED  BY <1>1, <1>2, <1>3 DEF TimerStep

\* So do the decisions of the operator, which wait for the lock.
LEMMA OperateKept ==
  ASSUME LockInv, TypeOK', NEW s \in Senders, Operate(s)
  PROVE  Kept(s)
<1> USE DEF Kept, SenderInv, Fits, Undoable, Dated, Told, Attended,
            Promised, MayFollow, Deleting, AllowanceKept, AnswerKept, Issuing,
            DashboardOnly, GatekeeperArchived, Restricted, Starting
<1>a. TypeOK /\ SenderInv(s) /\ row[s] \in Row /\ row'[s] \in Row
  BY DEF LockInv, TypeOK
<1>b. UNCHANGED <<svc, crashes, recovering>>
  BY <1>a, StepOthers DEF loopVars
<1>c. svc = "up" /\ task[s].kind = "idle"
  BY DEF Operate, ReviewLegitimate, ReviewSpam, ReviewDismiss, CaseArchive, CaseForget,
         CaseAllow, ReleaseLegacy, Dashboard, LockFree
<1>d. row[s].status \in Statuses /\ row[s].status # "challenge_issuing"
  <2>1. row[s].status \in Statuses  BY <1>a, Zenon DEF Row
  <2> QED  BY <2>1, <1>a, <1>c
<1>1. CASE \/ ReviewLegitimate(s) /\ row[s].status \in GatekeeperArchived
           \/ CaseAllow(s)
  <2>2. \/ row[s].status \in Restricted /\ Takes(s, "allow_restore")
        \/ row[s].status \in GatekeeperArchived /\ Takes(s, "legitimate_restore")
    BY <1>1, <1>a, Taking DEF CaseAllow, ReviewLegitimate
  <2>3. UNCHANGED <<row, past, snap>>
    BY <1>1 DEF CaseAllow, ReviewLegitimate, rowVars, dialogVars
  <2> QED  BY <2>2, <2>3, <1>a, <1>b, <1>c, <1>d DEF Takes
<1>2. CASE \/ ReviewLegitimate(s) /\ row[s].status \notin GatekeeperArchived
           \/ ReleaseLegacy(s)
  <2>1. AllowSender(s) /\ UNCHANGED task
    BY <1>2 DEF ReviewLegitimate, ReleaseLegacy, MarkLegitimate
  <2>2. Shaped(row'[s], "allowed", "null", FALSE)  BY <2>1, <1>a, DecisionShapes
  <2> QED  BY <2>1, <2>2, <1>a, <1>b, <1>c, Standings DEF Shaped
<1>3. CASE ReviewSpam(s)
  <2>1. CASE MarkSpam(s) /\ UNCHANGED task /\ row[s].status \in GatekeeperArchived
    <3>1. Shaped(row'[s], "suppressed", "null", TRUE)  BY <2>1, <1>a, DecisionShapes
    <3> QED  BY <2>1, <3>1, <1>a, <1>b, <1>c, Standings DEF Shaped
  <2>2. CASE /\ row[s].status \notin GatekeeperArchived
             /\ Become(s, Doing("spam_archive", FALSE, FALSE, 0))
             /\ UNCHANGED <<rowVars, jobVars, timer, review>>
    <3>1. Takes(s, "spam_archive")  BY <2>2, <1>a, Taking
    <3>2. row[s].status \in {"unknown", "provisional", "allowed", "challenge_archiving"}
      BY <1>d, <2>2 DEF Statuses
    <3>3. UNCHANGED <<row, past>>  BY <2>2 DEF rowVars
    <3> QED  BY <3>1, <3>2, <3>3, <1>a, <1>b, <1>c DEF Takes
  <2> QED  BY <1>3, <2>1, <2>2 DEF ReviewSpam
<1>4. CASE ReviewDismiss(s)
  BY <1>4, <1>a, <1>b, <1>c DEF ReviewDismiss, rowVars, dialogVars
<1>5. CASE CaseArchive(s)
  <2>1. PICK a \in BOOLEAN : row' = [row EXCEPT ![s].archived = a]
    <3>1. (~row[s].archived) \in BOOLEAN  OBVIOUS
    <3> QED  BY <1>5, <3>1, Zenon DEF CaseArchive
  <2> DEFINE q == [row[s] EXCEPT !.archived = a]
  <2>2. Shaped(q, row[s].status, row[s].until, a)  BY <1>a, Zenon DEF Shaped, Row
  <2>3. row'[s] = q  BY <2>1, <1>a DEF TypeOK
  <2> HIDE DEF q
  <2>4. row[s].status = "suppressed" /\ row[s].until = "null"
    BY <1>5 DEF CaseArchive, Permanent
  <2>5. UNCHANGED <<past, snap, task>>  BY <1>5 DEF CaseArchive, dialogVars
  <2>6. row[s].archived \in BOOLEAN  BY <1>a, Zenon DEF Row
  <2> QED  BY <2>2, <2>3, <2>4, <2>5, <2>6, <1>a, <1>b, <1>c, Standings DEF Shaped
<1>6. CASE CaseForget(s)
  <2>1. row'[s] = NoRow  BY <1>6, <1>a, RowWritten DEF CaseForget
  <2>2. Shaped(row'[s], "unknown", "null", FALSE)  BY <2>1, <1>a, Shapes
  <2>3. UNCHANGED task  BY <1>6 DEF CaseForget
  <2>4. row[s].status = "suppressed" /\ row[s].until = "null" /\ row[s].archived
    BY <1>6 DEF CaseForget, Forgettable, ArchivedPermanent, Permanent
  <2> QED  BY <2>2, <2>3, <2>4, <1>a, <1>b, <1>c, Standings DEF Shaped
<1> QED  BY <1>1, <1>2, <1>3, <1>4, <1>5, <1>6 DEF Operate

\* Time, the owner and the arrival of a message write nothing of this, except
\* that a suppression elapses.
LEMMA PassingKept ==
  ASSUME LockInv, TypeOK', NEW s \in Senders, Elapse(s) \/ OwnerWrites(s)
  PROVE  Kept(s)
<1> USE DEF Kept, SenderInv, Fits, Undoable, Dated, Told, Attended,
            Promised, MayFollow, Deleting, AllowanceKept, AnswerKept, Issuing,
            DashboardOnly, GatekeeperArchived, Restricted, Starting
<1>a. TypeOK /\ SenderInv(s) /\ row[s] \in Row /\ row'[s] \in Row
  BY DEF LockInv, TypeOK
<1>b. UNCHANGED <<svc, crashes, recovering>>
  BY <1>a, StepOthers DEF loopVars
<1>c. UNCHANGED <<past, snap, task>>
  BY DEF Elapse, DeadlineAdvances, SuppressionElapses, OwnerWrites, dialogVars
<1>1. CASE DeadlineAdvances(s) \/ OwnerWrites(s)
  BY <1>1, <1>a, <1>b, <1>c DEF DeadlineAdvances, OwnerWrites
<1>2. CASE SuppressionElapses(s)
  <2> DEFINE q == [row[s] EXCEPT !.until = "past"]
  <2>1. Shaped(q, row[s].status, "past", row[s].archived)
    BY <1>a, Zenon DEF Shaped, Row
  <2>2. row'[s] = q  BY <1>2, <1>a DEF SuppressionElapses, TypeOK
  <2>3. row[s].until = "future"  BY <1>2 DEF SuppressionElapses
  <2> HIDE DEF q
  <2> QED  BY <2>1, <2>2, <2>3, <1>a, <1>b, <1>c, Standings DEF Shaped
<1> QED  BY <1>1, <1>2 DEF Elapse

-----------------------------------------------------------------------------
(* Every step, for every sender *)

\* A message arrives and takes no lock, or its sender is released for the owner.
LEMMA ReceiveKept ==
  ASSUME LockInv, TypeOK', NEW s \in Senders, NEW m \in Messages, Receive(s, m)
  PROVE  \A t \in Senders : Kept(t)
<1>a. TypeOK /\ SenderInv(s) /\ UNCHANGED loopVars
  BY DEF LockInv, Receive, Arrive, OwnerReleaseStarts
<1>1. Others(s)
  BY <1>a, OthersFrom, OthersSame, OthersAre DEF Receive, Arrive, OwnerReleaseStarts
<1>2. UNCHANGED <<row, past, snap>>
  BY DEF Receive, Arrive, OwnerReleaseStarts, rowVars, dialogVars
<1>3. CASE UNCHANGED task
  <2>1. Untouched(s)  BY <1>2, <1>3 DEF Untouched
  <2> QED  BY <1>a, <1>1, <2>1, UntouchedKept, OneSender DEF loopVars
<1>4. CASE /\ LockFree(s) /\ row[s].status \in GatekeeperArchived
           /\ Become(s, Doing("owner_restore", FALSE, FALSE, 0))
  <2>1. Takes(s, "owner_restore") /\ task[s].kind = "idle"
    BY <1>a, <1>4, Taking DEF LockFree
  <2>2. Kept(s)
    BY <1>a, <1>2, <1>4, <2>1
       DEF Takes, Kept, SenderInv, Fits, Undoable, Dated, Told, Attended,
           Promised, Deleting, AllowanceKept, AnswerKept, Issuing, DashboardOnly,
           GatekeeperArchived, Restricted, Starting, loopVars
  <2> QED  BY <1>a, <1>1, <2>2, OneSender
<1> QED  BY <1>3, <1>4 DEF Receive, Arrive, OwnerReleaseStarts

\* A worker claims a job of a suppressed sender only.
LEMMA WorkerKept ==
  ASSUME LockInv, TypeOK', NEW i \in JobIds, WorkerStep(i)
  PROVE  \A t \in Senders : Kept(t)
<1>s. PICK s \in Senders : s = jobs[i].sender
  <2>1. jobs[i] \in Job  BY DEF LockInv, TypeOK
  <2> QED  BY <2>1 DEF Job
<1>a. TypeOK /\ s \in Senders /\ UNCHANGED loopVars
  BY DEF LockInv, WorkerStep, WorkerGivesUp, WorkerClaims
<1>b. SenderInv(s)  BY <1>a DEF LockInv
<1>1. UNCHANGED <<row, past, snap>>
  BY DEF WorkerStep, WorkerGivesUp, WorkerClaims, rowVars, dialogVars
<1>2. Others(s)
  <2>1. UNCHANGED task \/ Become(s, Doing("deleting", FALSE, FALSE, i))
    BY <1>s DEF WorkerStep, WorkerGivesUp, WorkerClaims
  <2> QED  BY <1>a, <1>1, <2>1, OthersFrom, OthersSame, OthersAre
<1>3. CASE UNCHANGED task
  <2>1. Untouched(s)  BY <1>1, <1>3 DEF Untouched
  <2> QED  BY <1>a, <1>b, <1>2, <2>1, UntouchedKept, OneSender DEF loopVars
<1>4. CASE WorkerClaims(i)
  <2>1. Takes(s, "deleting") /\ task[s].kind = "idle"
    BY <1>s, <1>a, <1>4, Taking DEF WorkerClaims, LockFree
  <2>2. row[s].status = "suppressed"
    BY <1>s, <1>4 DEF WorkerClaims, Claimable, LockInv, JobInv, Restricted
  <2>3. Kept(s)
    BY <1>a, <1>b, <1>1, <2>1, <2>2
       DEF Takes, Kept, SenderInv, Fits, Undoable, Dated, Told, Attended,
           Promised, Deleting, AllowanceKept, AnswerKept, Issuing, DashboardOnly,
           GatekeeperArchived, Restricted, Starting, loopVars
  <2> QED  BY <1>a, <1>2, <2>3, OneSender
<1> QED  BY <1>3, <1>4 DEF WorkerStep, WorkerGivesUp

\* A command changes one row, whoever holds the lock.
LEMMA CommandKept ==
  ASSUME LockInv, TypeOK', Command
  PROVE  \A t \in Senders : Kept(t)
<1>a. TypeOK /\ UNCHANGED loopVars /\ UNCHANGED <<snap, task, past>>
  BY DEF LockInv, Command, CliChecksSender, CliWritesSender, CliCancels, CliDies,
         CliMonitor, CliChecksProtect, CliProtect, dialogVars, rowVars
<1>1. CASE CliWritesSender
  <2>s. PICK s \in Senders : s = cli.sender  BY <1>a DEF TypeOK, Cli
  <2>1. s \in Senders /\ SenderInv(s) /\ row[s] \in Row /\ row'[s] \in Row
    BY <1>a DEF LockInv, TypeOK
  <2>2. Unlocked = {"unknown", "allowed"} /\ CliBudget # 0
    BY <1>1 DEF CliWritesSender, LockInv, LoopInv, Unlocked
  <2>3. row' = [row EXCEPT ![s] = AllowRow(row[s])]
        \/ row' = [row EXCEPT ![s] = RevokeRow(row[s])]
    BY <1>1, <2>s DEF CliWritesSender, PutRow
  <2>4. Others(s)  BY <2>3, <1>a DEF Others, Untouched, TypeOK
  <2>5. row'[s] = AllowRow(row[s]) \/ row'[s] = RevokeRow(row[s])
    BY <2>1, <2>3, <1>a DEF TypeOK
  <2>6. \/ Shaped(row'[s], "allowed", "null", FALSE)
        \/ Shaped(row'[s], "unknown", "null", FALSE)
    BY <2>1, <2>5, Shapes DEF AllowRow, RevokeRow
  <2>7. Kept(s)
    BY <2>1, <2>2, <2>6, <1>a
       DEF Shaped, Kept, SenderInv, Fits, Undoable, Dated, Told, Attended,
           Promised, Deleting, AllowanceKept, AnswerKept, Issuing, DashboardOnly,
           GatekeeperArchived, Restricted, Starting, loopVars
  <2> QED  BY <2>1, <2>4, <2>7, <1>a, OneSender
<1>2. CASE ~CliWritesSender
  <2>1. UNCHANGED <<row, past>>
    BY <1>2 DEF Command, CliChecksSender, CliCancels, CliDies, CliMonitor,
                CliChecksProtect, CliProtect, rowVars
  <2>2. \A t \in Senders : Untouched(t)  BY <1>a, <2>1 DEF Untouched
  <2> QED  BY <2>2, <1>a, UntouchedKept DEF loopVars, LockInv
<1> QED  BY <1>1, <1>2

\* Maintenance holds the locks of the senders it releases and forgets.
LEMMA MaintenanceKept ==
  ASSUME LockInv, TypeOK', MaintenanceCollects \/ MaintenanceProceeds
  PROVE  \A t \in Senders : Kept(t)
<1> SUFFICES ASSUME NEW s \in Senders PROVE Kept(s)  OBVIOUS
<1>a. TypeOK  BY DEF LockInv
<1>b. SenderInv(s) /\ row[s] \in Row /\ row'[s] \in Row /\ past[s] \in Past
  BY DEF LockInv, TypeOK
<1>1. CASE PassWaits
  <2>1. Untouched(s)  BY <1>1 DEF PassWaits, Untouched, rowVars, dialogVars
  <2> QED  BY <1>1, <2>1, <1>b, UntouchedKept DEF PassWaits
<1>2. ASSUME NEW keys \in SUBSET Senders, PassPrunes(keys) PROVE Kept(s)
  <2>a. UNCHANGED <<svc, recovering, crashes, task>>  BY <1>2 DEF PassPrunes
  <2>1. \/ /\ s \in keys
           /\ \/ Expired(row[s]) /\ row'[s] = ReleaseRow(row[s])
              \/ Forgettable(s) /\ row'[s] = NoRow
        \/ /\ row'[s] = row[s] /\ snap'[s] = snap[s]
           /\ past'[s] = past[s] \/ past'[s] = [past[s] EXCEPT !.left = TRUE]
    BY <1>2, Zenon DEF PassPrunes, Prunes
  <2>2. CASE /\ s \in keys
             /\ \/ Expired(row[s]) /\ row'[s] = ReleaseRow(row[s])
                \/ Forgettable(s) /\ row'[s] = NoRow
    <3>1. task[s].kind = "idle"  BY <1>2, <2>2 DEF PassPrunes
    <3>2. Shaped(row'[s], "unknown", "null", FALSE)  BY <2>2, <1>b, Shapes
    <3>3. /\ row[s].status = "suppressed"
          /\ row[s].until # "null" \/ (row[s].until = "null" /\ row[s].archived)
      BY <2>2 DEF Expired, Forgettable, ArchivedPermanent, Permanent
    <3>4. /\ Standing(row[s]) \in {"temporary", "archived"}
          /\ Standing(row'[s]) = "unknown"
      BY <3>2, <3>3, <1>b, Standings DEF Shaped
    <3> QED
      BY <2>a, <3>1, <3>2, <3>3, <3>4, <1>b
         DEF Shaped, Kept, SenderInv, Fits, Undoable, Dated, Told, Attended,
             Promised, MayFollow, Deleting, AllowanceKept, AnswerKept, Issuing,
             DashboardOnly, GatekeeperArchived, Restricted, Starting
  <2>3. CASE /\ row'[s] = row[s] /\ snap'[s] = snap[s]
             /\ past'[s] = past[s] \/ past'[s] = [past[s] EXCEPT !.left = TRUE]
    <3>1. KeepsNotes(s) /\ (past[s].left => past'[s].left)
      BY <2>3, <1>b, Notes, Zenon DEF KeepsNotes
    <3> QED
      BY <2>a, <2>3, <3>1, <1>b
         DEF Kept, SenderInv, Fits, Undoable, Dated, Told, Attended, KeepsNotes,
             Promised, Deleting, AllowanceKept, AnswerKept, DashboardOnly,
             GatekeeperArchived, Restricted, Starting
  <2> QED  BY <2>1, <2>2, <2>3
<1> QED  BY <1>a, <1>1, <1>2, MaintenanceCases

\* A crash frees every lock, and drops a snapshot only where the history says so or
\* none is needed.
LEMMA FailKept ==
  ASSUME LockInv, TypeOK', Fail
  PROVE  \A t \in Senders : Kept(t)
<1>a. TypeOK /\ GoesDown  BY DEF LockInv, Fail, Crash, CrashInsideAllow
<1> SUFFICES ASSUME NEW t \in Senders PROVE Kept(t)  OBVIOUS
<1>b. SenderInv(t) /\ row[t] \in Row /\ row'[t] \in Row  BY <1>a DEF LockInv, TypeOK
<1>c. task'[t].kind = "idle"
  BY <1>a, Zenon DEF GoesDown, Idle, Doing
<1>d. svc' = "down"  BY <1>a DEF GoesDown
<1>1. CASE /\ row'[t] = row[t]
           /\ \E o \in Interrupted(t) :
                /\ snap'[t] = o.snap
                /\ row[t].status \in GatekeeperArchived => past'[t] = CutShort(t, o.snap)
  <2>1. PICK o \in Interrupted(t) :
          /\ snap'[t] = o.snap
          /\ row[t].status \in GatekeeperArchived => past'[t] = CutShort(t, o.snap)
    BY <1>1
  <2>2. row[t].status \in GatekeeperArchived =>
          /\ past[t].warned => past'[t].warned
          /\ past[t].silent \/ task[t].kind = "timeout_notice" => past'[t].silent
          /\ \/ past[t].restored
             \/ task[t].kind \in Restoring /\ snap'[t] = NoSnapshot
             => past'[t].restored
    BY <2>1, <1>a, CutNotes
  <2>3. Undoable(t)'
    <3> SUFFICES ASSUME row[t].status \in {"challenged", "quarantined"},
                        snap'[t] = NoSnapshot
                 PROVE  past'[t].restored
      BY <1>1, <1>c DEF Undoable
    <3>a. row[t].status \in GatekeeperArchived  BY DEF GatekeeperArchived, Restricted
    <3>1. task[t].kind \in TaskKinds  BY <1>a, Zenon DEF TypeOK, Task
    <3>2. task[t].kind \in Restoring \cup {"idle", "attempts_notice", "timeout_notice"}
      BY <1>b, <3>1 DEF SenderInv, Fits, Unlocked, TaskKinds, Restoring, Restricted,
                        GatekeeperArchived
    <3>3. CASE task[t].kind \in Restoring
      BY <2>2, <3>a, <3>3, Zenon
    <3>4. CASE task[t].kind \in {"idle", "attempts_notice", "timeout_notice"}
      <4>1. snap[t] = NoSnapshot  BY <2>1, <3>4, CutKeepsSnapshot
      <4>2. past[t].restored  BY <1>b, <4>1 DEF SenderInv, Undoable
      <4> QED  BY <2>2, <3>a, <4>2, Zenon
    <3> QED  BY <3>2, <3>3, <3>4
  <2>4. Told(t)' /\ Dated(t)' /\ Fits(t)' /\ Attended(t)'
    BY <1>1, <2>2, <1>b, <1>c, <1>d
       DEF SenderInv, Told, Dated, Fits, Attended, GatekeeperArchived, Restricted
  <2> QED
    BY <1>1, <2>3, <2>4, <1>b, <1>c
       DEF Kept, SenderInv, Promised, Deleting, AllowanceKept, AnswerKept, DashboardOnly,
           GatekeeperArchived, Restricted, Starting
<1>2. CASE /\ Shaped(row'[t], "allowed", "null", FALSE)
           /\ task[t].kind \in {"owner_restore", "allow_restore", "legitimate_restore"}
  BY <1>2, <1>b, <1>c, <1>d, Standings
     DEF Shaped, Kept, SenderInv, Fits, Undoable, Dated, Told, Attended,
         Promised, MayFollow, Deleting, AllowanceKept, AnswerKept, DashboardOnly,
         GatekeeperArchived, Restricted, Starting
<1>3. CASE Crash
  <2>1. PICK cut : (\A s \in Senders : cut[s] \in Interrupted(s)) /\ DialogsCut(cut)
    BY <1>3, Zenon DEF Crash
  <2>2. row' = row  BY <1>3 DEF Crash
  <2>3. /\ snap'[t] = cut[t].snap
        /\ row'[t].status \in GatekeeperArchived => past'[t] = CutShort(t, cut[t].snap)
    BY <2>1, Zenon DEF DialogsCut
  <2> QED  BY <2>1, <2>2, <2>3, <1>1
<1>4. CASE \E s \in Senders : CrashInsideAllow(s)
  <2>1. PICK s \in Senders : CrashInsideAllow(s)  BY <1>4
  <2>2. row' = [row EXCEPT ![s] = AllowRow(row[s])]
    BY <2>1 DEF CrashInsideAllow, PutRow
  <2>3. CASE t = s
    <3>1. row'[t] = AllowRow(row[t])  BY <2>2, <2>3, <1>a DEF TypeOK
    <3>2. Shaped(row'[t], "allowed", "null", FALSE)
      BY <3>1, <1>b, Shapes DEF AllowRow
    <3> QED  BY <2>1, <2>3, <3>2, <1>2 DEF CrashInsideAllow
  <2>4. CASE t # s
    <3> DEFINE done == Result(TRUE, RestoreTarget(snap[s]), NoSnapshot)
    <3>1. PICK cut \in [Senders -> UNION {Interrupted(u) : u \in Senders}] :
            /\ \A u \in Senders : cut[u] \in Interrupted(u)
            /\ DialogsCut([cut EXCEPT ![s] = done])
      BY <2>1, Zenon DEF CrashInsideAllow
    <3> HIDE DEF done
    <3>2. [cut EXCEPT ![s] = done][t] = cut[t]  BY <2>4, Zenon
    <3>3. row'[t] = row[t]  BY <2>2, <2>4, <1>a DEF TypeOK
    <3>4. /\ snap'[t] = cut[t].snap
          /\ row'[t].status \in GatekeeperArchived => past'[t] = CutShort(t, cut[t].snap)
      BY <3>1, <3>2, Zenon DEF DialogsCut
    <3> QED  BY <3>1, <3>3, <3>4, <1>1
  <2> QED  BY <2>3, <2>4
<1> QED  BY <1>3, <1>4 DEF Fail

\* Recovery comes to every sender whose challenge was open or being issued.
LEMMA RecoverKept ==
  ASSUME LockInv, TypeOK', Recover
  PROVE  \A t \in Senders : Kept(t)
<1>a. TypeOK /\ UNCHANGED <<snap, crashes>>
  BY DEF LockInv, Recover, Restart, RecoverNext, RecoverEnds, dialogVars
<1>1. CASE Restart \/ RecoverEnds
  <2> SUFFICES ASSUME NEW t \in Senders PROVE Kept(t)  OBVIOUS
  <2>1. SenderInv(t)  BY DEF LockInv
  <2>2. Untouched(t)
    BY <1>1 DEF Restart, RecoverEnds, Untouched, rowVars, dialogVars
  <2>3. Attended(t)'
    BY <1>1, <2>1, <2>2
       DEF Restart, RecoverEnds, Untouched, SenderInv, Attended, Issuing
  <2> QED
    BY <2>1, <2>2, <2>3, <1>a
       DEF Untouched, Kept, SenderInv, Fits, Undoable, Dated, Told,
           Promised, Deleting, AllowanceKept, AnswerKept, DashboardOnly,
           GatekeeperArchived, Restricted, Starting
<1>2. ASSUME NEW s \in Senders, RecoverNext(s)
      PROVE  \A t \in Senders : Kept(t)
  <2>a. SenderInv(s) /\ row[s] \in Row /\ row'[s] \in Row /\ svc' = svc
        /\ task[s].kind = "idle"
    BY <1>2 DEF LockInv, TypeOK, RecoverNext, LockFree
  <2>1. Others(s)
    BY <1>2, <1>a, OthersFrom, OthersSame, OthersAre DEF RecoverNext
  <2>2. Kept(s)
    <3>1. CASE /\ row[s].status = "challenged" /\ UNCHANGED <<rowVars, task>>
      BY <3>1, <2>a, <1>a
         DEF Kept, SenderInv, Fits, Undoable, Dated, Told, Attended, rowVars,
             Promised, Deleting, AllowanceKept, AnswerKept, DashboardOnly,
             GatekeeperArchived, Restricted, Starting
    <3>2. CASE /\ row[s].status \in Starting /\ UNCHANGED rowVars
               /\ Become(s, Doing(IF row[s].status = "challenge_issuing"
                                  THEN "issue_send" ELSE "issue_archive", FALSE, FALSE, 0))
      <4>1. Takes(s, IF row[s].status = "challenge_issuing"
                     THEN "issue_send" ELSE "issue_archive")
        BY <3>2, <1>a, Taking
      <4> QED
        BY <3>2, <4>1, <2>a, <1>a
           DEF Takes, Kept, SenderInv, Fits, Undoable, Dated, Told, Attended,
               rowVars, Promised, Deleting, AllowanceKept, AnswerKept, DashboardOnly,
               GatekeeperArchived, Restricted, Starting, Issuing
    <3>3. CASE /\ row[s].status \in Starting /\ WriteRow(s, ResetIncomplete(row[s]))
               /\ UNCHANGED task
      <4>1. row'[s] = ResetIncomplete(row[s])  BY <3>3, <1>a, RowWritten
      <4>2. Shaped(row'[s], "unknown", row[s].until, row[s].archived)
        BY <3>3, <2>a, <4>1, Shapes
      <4> QED
        BY <3>3, <4>2, <2>a, <1>a, Standings
           DEF Shaped, Kept, SenderInv, Fits, Undoable, Dated, Told, Attended,
               Promised, Deleting, AllowanceKept, AnswerKept, DashboardOnly,
               GatekeeperArchived, Restricted, Starting
    <3>4. CASE /\ row[s].status \notin Starting \cup {"challenged"}
               /\ UNCHANGED <<rowVars, task, timer>>
      BY <3>4, <2>a, <1>a
         DEF Kept, SenderInv, Fits, Undoable, Dated, Told, Attended, rowVars,
             Promised, Deleting, AllowanceKept, AnswerKept, DashboardOnly,
             GatekeeperArchived, Restricted, Starting
    <3> QED  BY <1>2, <3>1, <3>2, <3>3, <3>4, Zenon DEF RecoverNext
  <2>3. ASSUME NEW t \in Senders, t # s PROVE Kept(t)
    <3>1. SenderInv(t) /\ Untouched(t)  BY <2>1, <2>3 DEF LockInv, Others
    <3>2. t \in recovering => t \in recovering'  BY <1>2, <2>3 DEF RecoverNext
    <3> QED  BY <3>1, <3>2, <2>a, <1>a, UntouchedKept
  <2> QED  BY <2>2, <2>3
<1> QED  BY <1>1, <1>2 DEF Recover

\* Whatever step is taken, every sender gets what it was promised.
LEMMA NextKept ==
  ASSUME LockInv, TypeOK', [Next]_vars
  PROVE  \A t \in Senders : Kept(t)
<1>a. TypeOK /\ \A t \in Senders : SenderInv(t)  BY DEF LockInv
<1>1. ASSUME NEW s \in Senders, NEW m \in Messages, Handle(s, m)
      PROVE  \A t \in Senders : Kept(t)
  BY <1>a, <1>1, HandleKept, HandleOthers, OneSender
<1>2. ASSUME NEW s \in Senders, Continue(s)
      PROVE  \A t \in Senders : Kept(t)
  BY <1>a, <1>2, ContinueKept, ContinueOthers, OneSender
<1>3. ASSUME NEW s \in Senders,
             TimerStep(s) \/ Operate(s) \/ Elapse(s) \/ OwnerWrites(s)
      PROVE  \A t \in Senders : Kept(t)
  BY <1>a, <1>3, TimerKept, OperateKept, PassingKept, StepOthers, OneSender
<1>4. ASSUME UNCHANGED vars PROVE \A t \in Senders : Kept(t)
  <2>1. \A t \in Senders : Untouched(t)
    BY <1>4 DEF Untouched, vars, rowVars, dialogVars
  <2> QED  BY <1>a, <1>4, <2>1, UntouchedKept DEF vars, loopVars
<1> QED
  BY <1>1, <1>2, <1>3, <1>4, ReceiveKept, WorkerKept, CommandKept, MaintenanceKept,
     FailKept, RecoverKept
     DEF Next

-----------------------------------------------------------------------------
(* The jobs a step may close *)

\* A table in which jobs were closed: pending ones of the senders in S only.
Closes(js, S) ==
  \A i \in JobIds :
    /\ js[i].sender = jobs[i].sender
    /\ \/ js[i] = jobs[i]
       \/ /\ js[i].status \in {"cancelled", "absent"}
          /\ jobs[i].status = "pending" => jobs[i].sender \in S

Emptied(js, s) == \A i \in JobIds : ~IsOpen(js[i], s)

\* What a step does to the jobs that were there before it.
FailsNothing ==
  \A i \in JobIds :
    jobs'[i].status = "failed" =>
      jobs[i].status = "failed" /\ jobs'[i].sender = jobs[i].sender

LeavesJobs(S) ==
  \A i \in JobIds :
    i < nextJob =>
      /\ jobs'[i].sender = jobs[i].sender
      /\ jobs[i].status = "pending" /\ jobs[i].sender \notin S => jobs'[i] = jobs[i]

JobDelta(S) == FailsNothing /\ LeavesJobs(S)

\* The statements of the store that close jobs, and whose.
LEMMA Closings ==
  ASSUME TypeOK, NEW s \in Senders
  PROVE  /\ Closes(jobs, {s})
         /\ Closes(CancelOpen(jobs, s), {s}) /\ Emptied(CancelOpen(jobs, s), s)
         /\ Closes(SettledJobs(s), {s})
         /\ Expired(row[s]) => Emptied(SettledJobs(s), s)
         /\ Closes(EraseJobs(jobs, JobsOf(jobs, s)), {s})
         /\ Emptied(EraseJobs(jobs, JobsOf(jobs, s)), s)
         /\ Closes(CancelAutomatic(jobs), Senders)
<1>1. jobs \in [JobIds -> Job]  BY DEF TypeOK
<1>2. \A i \in JobIds : \A st : /\ [jobs[i] EXCEPT !.status = st].status = st
                                /\ [jobs[i] EXCEPT !.status = st].sender = jobs[i].sender
  BY <1>1, Zenon DEF Job
<1>3. Closes(jobs, {s})  BY DEF Closes
<1>4. Closes(CancelOpen(jobs, s), {s}) /\ Emptied(CancelOpen(jobs, s), s)
  BY <1>2 DEF Closes, Emptied, CancelOpen, IsOpen
<1>5. Closes(SettledJobs(s), {s}) /\ (Expired(row[s]) => Emptied(SettledJobs(s), s))
  BY <1>3, <1>4 DEF SettledJobs
<1>6. /\ Closes(EraseJobs(jobs, JobsOf(jobs, s)), {s})
      /\ Emptied(EraseJobs(jobs, JobsOf(jobs, s)), s)
  BY <1>2 DEF Closes, Emptied, EraseJobs, JobsOf, IsOpen
<1>7. Closes(CancelAutomatic(jobs), Senders)
  <2>1. \A i \in JobIds : jobs[i].sender \in Senders  BY <1>1, JobFields
  <2> QED  BY <1>2, <2>1 DEF Closes, CancelAutomatic
<1> QED  BY <1>3, <1>4, <1>5, <1>6, <1>7

\* A step that closes jobs lets none fail.
LEMMA ClosedDelta ==
  ASSUME NEW S, NEW js, Closes(js, S), jobs' = js
  PROVE  JobDelta(S)
BY DEF Closes, JobDelta, FailsNothing, LeavesJobs

\* Nor does one that schedules a job, and it closes those of its sender at most.
LEMMA ScheduledDelta ==
  ASSUME TypeOK, NEW s \in Senders, NEW js \in [JobIds -> Job], Closes(js, {s}),
         NEW e, NEW b, NEW n, Schedule(js, s, e, b, n)
  PROVE  JobDelta({s}) /\ jobs'[nextJob].sender = s
<1>1. nextJob \in JobIds /\ nextJob \in Int
  BY SenderStoreAssumption DEF TypeOK, Schedule, JobIds
<1>2. \A i \in JobIds :
        jobs'[i] = IF i = nextJob
                   THEN [sender |-> s, expected |-> e, independent |-> b,
                         status |-> "pending", born |-> n]
                   ELSE IF IsPending(js[i], s)
                        THEN [js[i] EXCEPT !.status = "cancelled"]
                        ELSE js[i]
  BY Zenon DEF Schedule, ScheduleAction
<1>3. jobs'[nextJob].sender = s /\ jobs'[nextJob].status = "pending"
  <2>1. jobs'[nextJob] = [sender |-> s, expected |-> e, independent |-> b,
                          status |-> "pending", born |-> n]
    BY <1>1, <1>2, Zenon
  <2> QED  BY <2>1
<1>4. \A i \in JobIds : /\ [js[i] EXCEPT !.status = "cancelled"].status = "cancelled"
                        /\ [js[i] EXCEPT !.status = "cancelled"].sender = js[i].sender
  BY Zenon DEF Job
<1>5. ASSUME NEW i \in JobIds, i # nextJob
      PROVE  /\ jobs'[i].sender = js[i].sender
             /\ jobs'[i] = js[i] \/ (jobs'[i].status = "cancelled" /\ IsPending(js[i], s))
  <2>1. CASE IsPending(js[i], s)
    <3>1. jobs'[i] = [js[i] EXCEPT !.status = "cancelled"]  BY <1>2, <1>5, <2>1
    <3> QED  BY <2>1, <3>1, <1>4
  <2>2. CASE ~IsPending(js[i], s)  BY <1>2, <1>5, <2>2
  <2> QED  BY <2>1, <2>2
<1>6. FailsNothing
  BY <1>3, <1>5 DEF FailsNothing, Closes
<1>7. LeavesJobs({s})
  <2> SUFFICES ASSUME NEW i \in JobIds, i < nextJob
               PROVE  /\ jobs'[i].sender = jobs[i].sender
                      /\ jobs[i].status = "pending" /\ jobs[i].sender \notin {s}
                           => jobs'[i] = jobs[i]
    BY DEF LeavesJobs
  <2>1. i # nextJob  BY <1>1
  <2> QED  BY <2>1, <1>5 DEF Closes, IsPending
<1> QED  BY <1>3, <1>6, <1>7 DEF JobDelta

\* The step closes jobs of one sender at most, and adds one for that sender at most.
OwnDelta(s) ==
  JobDelta({s}) /\ (nextJob' # nextJob => jobs'[nextJob].sender = s)

\* The ways in which the handlers write pending_actions.
LEMMA DeltaFrom ==
  ASSUME TypeOK, NEW s \in Senders
  PROVE  /\ UNCHANGED jobVars => OwnDelta(s)
         /\ UNCHANGED nextJob /\ jobs' = jobs => OwnDelta(s)
         /\ UNCHANGED nextJob /\ jobs' = CancelOpen(jobs, s) => OwnDelta(s)
         /\ UNCHANGED nextJob /\ jobs' = SettledJobs(s) => OwnDelta(s)
         /\ UNCHANGED nextJob /\ jobs' = EraseJobs(jobs, JobsOf(jobs, s)) => OwnDelta(s)
         /\ \A e, b, n : Schedule(jobs, s, e, b, n) => OwnDelta(s)
         /\ \A e, b, n : Schedule(SettledJobs(s), s, e, b, n) => OwnDelta(s)
         /\ \A e, b, n : Schedule(CancelOpen(jobs, s), s, e, b, n) => OwnDelta(s)
<1>1. /\ jobs \in [JobIds -> Job] /\ SettledJobs(s) \in [JobIds -> Job]
      /\ CancelOpen(jobs, s) \in [JobIds -> Job]
  <2>1. jobs \in [JobIds -> Job]  BY DEF TypeOK
  <2>2. CancelOpen(jobs, s) \in [JobIds -> Job]  BY <2>1, JobTypes
  <2> QED  BY <2>1, <2>2 DEF SettledJobs
<1>2. \A js : Closes(js, {s}) /\ jobs' = js /\ UNCHANGED nextJob => OwnDelta(s)
  BY ClosedDelta DEF OwnDelta
<1>3. \A js \in [JobIds -> Job] : \A e, b, n :
        Closes(js, {s}) /\ Schedule(js, s, e, b, n) => OwnDelta(s)
  BY ScheduledDelta DEF OwnDelta
<1> QED  BY <1>1, <1>2, <1>3, Closings DEF jobVars

\* Handling a message, a timer, a decision and the passing of time.
LEMMA StepDelta ==
  ASSUME TypeOK, NEW s \in Senders,
         \/ \E m \in Messages : Receive(s, m) \/ Handle(s, m)
         \/ TimerStep(s) \/ Operate(s) \/ Elapse(s) \/ OwnerWrites(s)
  PROVE  OwnDelta(s)
<1>1. ASSUME NEW m \in Messages, Receive(s, m) PROVE OwnDelta(s)
  BY <1>1, DeltaFrom DEF Receive, Arrive, OwnerReleaseStarts
<1>2. ASSUME NEW m \in Messages, Handle(s, m) PROVE OwnDelta(s)
  BY <1>2, DeltaFrom
     DEF Handle, HandleSuppressed, HandleTrusted, HandleDecided, HandleEvidence,
         HandleMonitored, HandleIssue, HandleLateReply, HandleUnusableReply,
         HandleCorrectAnswer, HandleWrongAnswer
<1>3. CASE TimerStep(s)
  BY <1>3, DeltaFrom DEF TimerStep, TimerWakes, TimerReleases, TimerExpires
<1>4. CASE Operate(s)
  BY <1>4, DeltaFrom
     DEF Operate, ReviewLegitimate, ReviewSpam, ReviewDismiss, CaseArchive, CaseForget,
         CaseAllow, ReleaseLegacy, MarkLegitimate, MarkSpam, AllowSender
<1>5. CASE Elapse(s) \/ OwnerWrites(s)
  BY <1>5, DeltaFrom DEF Elapse, DeadlineAdvances, SuppressionElapses, OwnerWrites
<1> QED  BY <1>1, <1>2, <1>3, <1>4, <1>5

\* The rest of a handler, unless it is a deletion that ends.
LEMMA ContinueDelta ==
  ASSUME TypeOK, NEW s \in Senders, Continue(s), ~DeletionEnds(s)
  PROVE  OwnDelta(s)
BY DeltaFrom
   DEF Continue, IssueSent, IssueArchived, IssueUnwound, FallbackArchived,
       AnswerRestored, AttemptsNotified, TimeoutNotified, OwnerRestored,
       LegitimateRestored, SpamArchived, AllowRestored, AllowSender, MarkLegitimate,
       MarkSpam

\* A coroutine that deletes works on a job of the sender whose lock it holds.
ClaimInv ==
  \A s \in Senders :
    Deleting(s) => /\ task[s].job \in JobIds /\ task[s].job < nextJob
                   /\ jobs[task[s].job].sender = s

\* A deletion ends the job it was claimed for, and fails no other.
LEMMA DeletionDelta ==
  ASSUME TypeOK, ClaimInv, NEW s \in Senders, DeletionEnds(s)
  PROVE  /\ LeavesJobs({s}) /\ UNCHANGED nextJob
         /\ \A i \in JobIds :
              jobs'[i].status = "failed" =>
                /\ jobs'[i].sender = jobs[i].sender
                /\ \/ jobs[i].status = "failed"
                   \/ /\ i = task[s].job /\ jobs[i].sender = s
                      /\ jobs[i].status = "pending"
<1>1. jobs \in [JobIds -> Job]  BY DEF TypeOK
<1>2. task[s].job \in JobIds /\ jobs[task[s].job].sender = s
  BY DEF ClaimInv, DeletionEnds, Holding, Deleting
<1>3. PICK st : jobs' = FinishAction(jobs, task[s].job, st)
  BY DEF DeletionEnds
<1>4. [jobs[task[s].job] EXCEPT !.status = st].sender = jobs[task[s].job].sender
  BY <1>1, <1>2, Zenon DEF Job
<1>5. /\ jobs'[task[s].job].sender = jobs[task[s].job].sender
      /\ \A i \in JobIds : i # task[s].job => jobs'[i] = jobs[i]
      /\ jobs[task[s].job].status # "pending" => jobs' = jobs
  <2>1. CASE jobs[task[s].job].status = "pending"
    <3>1. jobs' = [jobs EXCEPT ![task[s].job].status = st]
      BY <1>3, <2>1, Zenon DEF FinishAction
    <3>2. jobs'[task[s].job] = [jobs[task[s].job] EXCEPT !.status = st]
      BY <3>1, <1>1, <1>2, Zenon
    <3>3. \A i \in JobIds : i # task[s].job => jobs'[i] = jobs[i]
      BY <3>1, <1>1, <1>2, Zenon
    <3> QED  BY <2>1, <3>2, <3>3, <1>4
  <2>2. CASE jobs[task[s].job].status # "pending"
    BY <1>3, <2>2, Zenon DEF FinishAction
  <2> QED  BY <2>1, <2>2
<1>6. UNCHANGED nextJob  BY DEF DeletionEnds
<1> QED  BY <1>2, <1>5, <1>6 DEF LeavesJobs

\* Maintenance closes pending jobs of the senders whose locks it holds.
LEMMA MaintenanceDelta ==
  ASSUME TypeOK, NEW keys \in SUBSET Senders, PassPrunes(keys)
  PROVE  /\ JobDelta(keys) /\ UNCHANGED nextJob
         /\ \A s \in Senders : row'[s] # row[s] => Emptied(jobs', s)
<1> DEFINE released == {s \in keys : Expired(row[s])}
           forgotten == {s \in keys : Forgettable(s)}
           cancelled == [i \in JobIds |->
                           IF \E s \in released : IsOpen(jobs[i], s)
                           THEN [jobs[i] EXCEPT !.status = "cancelled"]
                           ELSE jobs[i]]
<1>a. jobs \in [JobIds -> Job]  BY DEF TypeOK
<1>1. \A s \in Senders : row'[s] # row[s] => s \in released \cup forgotten
  BY DEF PassPrunes, Prunes
<1>2. PICK old \in SUBSET {i \in JobIds : Droppable(i)} :
        jobs' = EraseJobs(cancelled,
                          old \cup {i \in JobIds : jobs[i].sender \in forgotten})
  <2>1. PICK old \in SUBSET (IF May("retention")
                              THEN {i \in JobIds : Droppable(i)} ELSE {}) :
          jobs' = EraseJobs(cancelled,
                            old \cup {i \in JobIds : jobs[i].sender \in forgotten})
    BY Zenon DEF PassPrunes, Prunes
  <2>2. old \in SUBSET {i \in JobIds : Droppable(i)}  BY <2>1
  <2> QED  BY <2>1, <2>2, Zenon
<1>3. forgotten \subseteq keys /\ released \subseteq keys  OBVIOUS
<1> HIDE DEF forgotten
<1>4. \A i \in JobIds :
        /\ jobs'[i].sender = jobs[i].sender
        /\ \/ jobs'[i] = jobs[i] /\ jobs[i].sender \notin forgotten
                /\ ~(\E s \in released : IsOpen(jobs[i], s))
           \/ /\ jobs'[i].status \in {"cancelled", "absent"}
              /\ jobs[i].status = "pending" => jobs[i].sender \in keys
  <2> SUFFICES ASSUME NEW i \in JobIds
               PROVE  /\ jobs'[i].sender = jobs[i].sender
                      /\ \/ jobs'[i] = jobs[i] /\ jobs[i].sender \notin forgotten
                              /\ ~(\E s \in released : IsOpen(jobs[i], s))
                         \/ /\ jobs'[i].status \in {"cancelled", "absent"}
                            /\ jobs[i].status = "pending" => jobs[i].sender \in keys
    OBVIOUS
  <2>1. \/ cancelled[i] = [jobs[i] EXCEPT !.status = "cancelled"]
           /\ \E s \in released : IsOpen(jobs[i], s)
        \/ cancelled[i] = jobs[i] /\ ~(\E s \in released : IsOpen(jobs[i], s))
    BY Zenon
  <2>2. /\ [jobs[i] EXCEPT !.status = "cancelled"] \in Job
        /\ [jobs[i] EXCEPT !.status = "cancelled"].status = "cancelled"
        /\ [jobs[i] EXCEPT !.status = "cancelled"].sender = jobs[i].sender
    BY <1>a, Zenon DEF Job, JobStatuses
  <2> DEFINE c == cancelled[i]
  <2>3. /\ c \in Job /\ c.sender = jobs[i].sender
        /\ \/ c.status = "cancelled" /\ jobs[i].sender \in keys
           \/ c = jobs[i] /\ ~(\E s \in released : IsOpen(jobs[i], s))
    <3> DEFINE q == [jobs[i] EXCEPT !.status = "cancelled"]
    <3>1. \/ c = q /\ \E s \in released : IsOpen(jobs[i], s)
          \/ c = jobs[i] /\ ~(\E s \in released : IsOpen(jobs[i], s))
      BY <2>1, Zenon
    <3>2. q \in Job /\ q.status = "cancelled" /\ q.sender = jobs[i].sender
      BY <2>2, Zenon
    <3>3. (\E s \in released : IsOpen(jobs[i], s)) => jobs[i].sender \in keys
      BY <1>3 DEF IsOpen
    <3> HIDE DEF q, c, released
    <3> QED  BY <3>1, <3>2, <3>3, <1>a
  <2> HIDE DEF c
  <2>4. /\ [c EXCEPT !.status = "absent"].status = "absent"
        /\ [c EXCEPT !.status = "absent"].sender = c.sender
    BY <2>3, Zenon DEF Job
  <2>5. \/ /\ jobs'[i] = [c EXCEPT !.status = "absent"]
           /\ i \in old \/ jobs[i].sender \in forgotten
        \/ jobs'[i] = c /\ jobs[i].sender \notin forgotten
    BY <1>2, Zenon DEF EraseJobs, c
  <2>6. i \in old => jobs[i].status # "pending"
    BY <1>2 DEF Droppable
  <2> DEFINE e == [c EXCEPT !.status = "absent"]
  <2>7. /\ e.status = "absent" /\ e.sender = c.sender
        /\ \/ jobs'[i] = e /\ (i \in old \/ jobs[i].sender \in forgotten)
           \/ jobs'[i] = c /\ jobs[i].sender \notin forgotten
    BY <2>4, <2>5, Zenon
  <2> HIDE DEF e, released
  <2> QED  BY <2>3, <2>6, <2>7, <1>3
<1>5. UNCHANGED nextJob  BY DEF PassPrunes, Prunes
<1>6. JobDelta(keys)
  BY <1>4 DEF JobDelta, FailsNothing, LeavesJobs
<1>7. ASSUME NEW s \in Senders, row'[s] # row[s] PROVE Emptied(jobs', s)
  <2> HIDE DEF released
  <2>1. s \in released \/ s \in forgotten  BY <1>1, <1>7
  <2> QED  BY <1>4, <2>1 DEF Emptied, IsOpen
<1> QED  BY <1>5, <1>6, <1>7

\* Whoever schedules a job does so for a sender who is not quarantined: the timeout
\* notice because the lock has kept the suppression it found.
LEMMA ScheduledRow ==
  ASSUME LockInv, NEW s \in Senders, nextJob' # nextJob,
         \/ \E m \in Messages : Receive(s, m) \/ Handle(s, m)
         \/ Continue(s) \/ TimerStep(s) \/ Operate(s) \/ Elapse(s) \/ OwnerWrites(s)
  PROVE  row'[s].status # "quarantined"
<1>a. TypeOK /\ row[s] \in Row /\ SenderInv(s)  BY DEF LockInv, TypeOK
<1>b. UNCHANGED jobVars => FALSE  BY DEF jobVars
<1>c. MarkSpam(s) => row'[s].status # "quarantined"
  BY <1>a, DecisionShapes DEF Shaped
<1>1. ASSUME NEW m \in Messages, HandleEvidence(s, m)
      PROVE  row'[s].status # "quarantined"
  <2>1. row'[s] = SuppressRow(SettledRow(s), "null", TRUE, TRUE)
    BY <1>1, <1>a, RowWritten DEF HandleEvidence
  <2>2. SettledRow(s) \in Row  BY <1>a, Groups, SettledTypes
  <2>3. Shaped(row'[s], "suppressed", "null", FALSE)  BY <2>1, <2>2, Shapes
  <2> QED  BY <2>3 DEF Shaped
<1>2. ASSUME NEW m \in Messages, HandleSuppressed(s, m)
      PROVE  row'[s].status # "quarantined"
  BY <1>2 DEF HandleSuppressed, rowVars
<1>3. CASE AttemptsNotified(s)
  <2> DEFINE r(sent) == IF Deletes(sent, task[s].ref \/ task[s].fallback)
                        THEN SuppressRow(row[s], "future", TRUE, TRUE)
                        ELSE QuarantineRow(row[s], ~sent /\ task[s].ref)
  <2>1. PICK sent \in NoticeDelivery :
          /\ WriteNoting(s, r(sent), IF sent THEN Warned(s) ELSE past[s])
          /\ IF r(sent).status = "suppressed"
             THEN Schedule(jobs, s, r(sent).revision, FALSE, EraAfter(s, r(sent)))
             ELSE UNCHANGED jobVars
    BY <1>3, Zenon DEF AttemptsNotified
  <2> HIDE DEF r
  <2> QED  BY <2>1, <1>a, <1>b, Written
<1>4. CASE TimeoutNotified(s)
  <2>1. UNCHANGED row /\ task[s].kind = "timeout_notice"
    BY <1>4, <1>b DEF TimeoutNotified, Holding
  <2> QED  BY <2>1, <1>a, UnlockedStatuses DEF SenderInv, Fits
<1>5. CASE SpamArchived(s) \/ ReviewSpam(s)
  BY <1>5, <1>b, <1>c DEF SpamArchived, ReviewSpam
<1> QED
  BY <1>1, <1>2, <1>3, <1>4, <1>5, <1>b
     DEF Receive, Arrive, OwnerReleaseStarts, Handle, HandleTrusted, HandleDecided,
         HandleMonitored, HandleIssue, HandleLateReply, HandleUnusableReply,
         HandleCorrectAnswer, HandleWrongAnswer, Continue, IssueSent, IssueArchived,
         IssueUnwound, FallbackArchived, AnswerRestored, OwnerRestored,
         LegitimateRestored, AllowRestored, DeletionEnds, MarkLegitimate, AllowSender,
         TimerStep, TimerWakes, TimerReleases, TimerExpires, Operate, ReviewLegitimate,
         ReviewDismiss, CaseArchive, CaseForget, CaseAllow, ReleaseLegacy, Elapse,
         DeadlineAdvances, SuppressionElapses, OwnerWrites

\* Every step, as far as the jobs are concerned.
LEMMA NextDelta ==
  ASSUME LockInv, ClaimInv, [Next]_vars
  PROVE  \/ \E s \in Senders :
              /\ OwnDelta(s) /\ ~(Deleting(s) /\ Deleting(s)')
              /\ nextJob' # nextJob => row'[s].status # "quarantined"
         \/ UNCHANGED <<jobs, nextJob>>
         \/ \E s \in Senders : DeletionEnds(s)
         \/ CliMonitor \/ CliCancels
         \/ \E keys \in SUBSET Senders : PassPrunes(keys)
<1>a. TypeOK  BY DEF LockInv
<1>1. ASSUME NEW s \in Senders, NEW m \in Messages, Handle(s, m)
      PROVE  OwnDelta(s) /\ ~Deleting(s)
             /\ (nextJob' # nextJob => row'[s].status # "quarantined")
  BY <1>1, <1>a, StepDelta, HandleOthers, ScheduledRow DEF Deleting
<1>2. ASSUME NEW s \in Senders, Continue(s), ~DeletionEnds(s)
      PROVE  OwnDelta(s) /\ ~Deleting(s)
             /\ (nextJob' # nextJob => row'[s].status # "quarantined")
  <2>1. ~Deleting(s)
    BY <1>2 DEF Continue, IssueSent, IssueArchived, IssueUnwound, FallbackArchived,
       AnswerRestored, AttemptsNotified, TimeoutNotified, OwnerRestored,
       LegitimateRestored, SpamArchived, AllowRestored, Holding, Deleting
  <2> QED  BY <1>2, <1>a, <2>1, ContinueDelta, ScheduledRow
<1>3. ASSUME NEW s \in Senders, Operate(s)
      PROVE  OwnDelta(s) /\ ~Deleting(s)
             /\ (nextJob' # nextJob => row'[s].status # "quarantined")
  <2>1. ~Deleting(s)
    BY <1>3 DEF Operate, ReviewLegitimate, ReviewSpam, ReviewDismiss, CaseArchive,
       CaseForget, CaseAllow, ReleaseLegacy, Dashboard, LockFree, Deleting
  <2> QED  BY <1>3, <1>a, <2>1, StepDelta, ScheduledRow
<1>4. ASSUME \/ UNCHANGED vars \/ Fail \/ Recover \/ PassWaits
             \/ (Command /\ ~CliMonitor /\ ~CliCancels)
             \/ \E i \in JobIds : WorkerStep(i)
             \/ \E s \in Senders : TimerStep(s) \/ Elapse(s) \/ OwnerWrites(s)
             \/ \E s \in Senders, m \in Messages : Receive(s, m)
      PROVE  UNCHANGED <<jobs, nextJob>>
  BY <1>4
     DEF vars, jobVars, Fail, Crash, CrashInsideAllow, GoesDown, DialogsCut, Recover,
         Restart, RecoverNext, RecoverEnds, PassWaits, Command, CliChecksSender,
         CliWritesSender, CliDies, CliChecksProtect, CliProtect, WorkerStep, WorkerGivesUp, WorkerClaims, TimerStep, TimerWakes,
         TimerReleases, TimerExpires, Elapse, DeadlineAdvances, SuppressionElapses,
         OwnerWrites, Receive, Arrive, OwnerReleaseStarts
<1>5. CASE UNCHANGED vars  BY <1>4, <1>5
<1>6. CASE Next
  <2>1. CASE \E s \in Senders, m \in Messages : Receive(s, m) \/ Handle(s, m)
    BY <2>1, <1>1, <1>4
  <2>2. CASE \E s \in Senders : Continue(s) \/ TimerStep(s) \/ Operate(s) \/ Elapse(s)
                                 \/ OwnerWrites(s)
    BY <2>2, <1>2, <1>3, <1>4
  <2>3. CASE \/ \E i \in JobIds : WorkerStep(i)
             \/ Command \/ Fail \/ Recover
    BY <2>3, <1>4 DEF Command
  <2>4. CASE MaintenanceCollects \/ MaintenanceProceeds
    BY <2>4, <1>a, <1>4, MaintenanceCases
  <2> QED  BY <1>6, <2>1, <2>2, <2>3, <2>4 DEF Next
<1> QED  BY <1>5, <1>6

\* While a deletion is under way its coroutine, the status and the revision stay
\* as they are, unless a command writes the row, until the request returns or the
\* process dies.
LEMMA RequestHeld ==
  ASSUME LockInv, [Next]_vars, NEW s \in Senders, Deleting(s)
  PROVE  \/ DeletionEnds(s) \/ Fail
         \/ /\ task'[s] = task[s]
            /\ \/ CliWritesSender
               \/ row'[s].status = row[s].status /\ row'[s].revision = row[s].revision
<1>a. TypeOK /\ row[s] \in Row /\ row \in [Senders -> Row]  BY DEF LockInv, TypeOK
<1>b. task[s].kind = "deleting"  BY DEF Deleting
<1> DEFINE Same == /\ task'[s] = task[s]
                   /\ row'[s].status = row[s].status
                   /\ row'[s].revision = row[s].revision
<1>1. ASSUME NEW t \in Senders, Others(t), t # s PROVE Same
  BY <1>1 DEF Others, Untouched
<1>2. ASSUME NEW t \in Senders, NEW m \in Messages, Receive(t, m) PROVE Same
  <2>1. UNCHANGED row  BY <1>2 DEF Receive, Arrive, OwnerReleaseStarts, rowVars
  <2>2. UNCHANGED task \/ (LockFree(t) /\ TasksOfOthers(t))
    BY <1>2, <1>a, OthersFrom DEF Receive, Arrive, OwnerReleaseStarts
  <2> QED  BY <2>1, <2>2, <1>b DEF LockFree, TasksOfOthers
<1>3. ASSUME NEW t \in Senders, NEW m \in Messages, Handle(t, m) PROVE Same
  BY <1>1, <1>3, <1>a, <1>b, HandleOthers
<1>4. ASSUME NEW t \in Senders, Continue(t) PROVE Same \/ DeletionEnds(s)
  <2>1. CASE t # s  BY <2>1, <1>1, <1>4, <1>a, ContinueOthers
  <2>2. CASE t = s
    BY <1>4, <2>2, <1>b
       DEF Continue, IssueSent, IssueArchived, IssueUnwound, FallbackArchived,
           AnswerRestored, AttemptsNotified, TimeoutNotified, OwnerRestored,
           LegitimateRestored, SpamArchived, AllowRestored, Holding
  <2> QED  BY <2>1, <2>2
<1>5. ASSUME NEW t \in Senders, TimerStep(t) \/ Operate(t) \/ Elapse(t) \/ OwnerWrites(t)
      PROVE  Same
  <2>1. CASE t # s  BY <2>1, <1>1, <1>5, <1>a, StepOthers
  <2>2. CASE t = s /\ (TimerStep(s) \/ Operate(s))
    BY <2>2, <1>b
       DEF TimerStep, TimerWakes, TimerReleases, TimerExpires, Operate, ReviewLegitimate,
           ReviewSpam, ReviewDismiss, CaseArchive, CaseForget, CaseAllow, ReleaseLegacy,
           Dashboard, LockFree, rowVars
  <2>3. CASE t = s /\ (DeadlineAdvances(s) \/ OwnerWrites(s))
    BY <2>3 DEF DeadlineAdvances, OwnerWrites
  <2>4. CASE t = s /\ SuppressionElapses(s)
    <3>1. row' = [row EXCEPT ![s].until = "past"] /\ UNCHANGED task
      BY <2>4 DEF SuppressionElapses
    <3> QED  BY <3>1, <1>a, Zenon DEF Row
  <2> QED  BY <1>5, <2>1, <2>2, <2>3, <2>4 DEF Elapse
<1>6. ASSUME NEW i \in JobIds, WorkerStep(i) PROVE Same
  <2>1. UNCHANGED row  BY <1>6 DEF WorkerStep, WorkerGivesUp, WorkerClaims, rowVars
  <2>2. \/ UNCHANGED task
        \/ (LockFree(jobs[i].sender) /\ TasksOfOthers(jobs[i].sender))
    <3>1. jobs[i].sender \in Senders  BY <1>a, JobFields DEF TypeOK
    <3> QED  BY <3>1, <1>6, <1>a, OthersFrom DEF WorkerStep, WorkerGivesUp, WorkerClaims
  <2> QED  BY <2>1, <2>2, <1>b DEF LockFree, TasksOfOthers
<1>7. ASSUME Command, ~CliWritesSender PROVE Same
  BY <1>7 DEF Command, CliChecksSender, CliCancels, CliDies, CliMonitor,
              CliChecksProtect, CliProtect, rowVars
<1>8. CASE CliWritesSender  BY <1>8 DEF CliWritesSender
<1>9. ASSUME MaintenanceCollects \/ MaintenanceProceeds PROVE Same
  <2>1. CASE PassWaits  BY <2>1 DEF PassWaits, rowVars
  <2>2. ASSUME NEW keys \in SUBSET Senders, PassPrunes(keys) PROVE Same
    <3>1. s \notin keys /\ UNCHANGED task  BY <2>2, <1>b DEF PassPrunes
    <3>2. row'[s] = row[s]  BY <2>2, <3>1 DEF PassPrunes, Prunes
    <3> QED  BY <3>1, <3>2
  <2> QED  BY <1>9, <1>a, <2>1, <2>2, MaintenanceCases
<1>10. ASSUME Recover PROVE Same
  <2>1. CASE Restart \/ RecoverEnds  BY <2>1 DEF Restart, RecoverEnds, rowVars
  <2>2. ASSUME NEW t \in Senders, RecoverNext(t) PROVE Same
    <3>1. Others(t) /\ LockFree(t)
      BY <2>2, <1>a, OthersFrom, OthersSame, OthersAre DEF RecoverNext, dialogVars
    <3> QED  BY <3>1, <1>1, <1>b DEF LockFree
  <2> QED  BY <1>10, <2>1, <2>2 DEF Recover
<1>11. CASE UNCHANGED vars  BY <1>11 DEF vars, rowVars
<1> QED
  BY <1>2, <1>3, <1>4, <1>5, <1>6, <1>7, <1>8, <1>9, <1>10, <1>11 DEF Next

\* The same of a deletion that goes on.
LEMMA LockHeld ==
  ASSUME LockInv, [Next]_vars, NEW s \in Senders, Deleting(s), Deleting(s)'
  PROVE  /\ task'[s] = task[s]
         /\ \/ CliWritesSender
            \/ row'[s].status = row[s].status /\ row'[s].revision = row[s].revision
<1>a. TypeOK  BY DEF LockInv
<1>1. ASSUME Fail PROVE FALSE
  <2>1. task' = [t \in Senders |-> Idle]
    BY <1>1 DEF Fail, Crash, CrashInsideAllow, GoesDown
  <2> QED  BY <2>1 DEF Idle, Doing, Deleting
<1>2. ASSUME DeletionEnds(s) PROVE FALSE
  <2>1. Takes(s, "idle")  BY <1>2, <1>a, Leaving DEF DeletionEnds
  <2> QED  BY <2>1 DEF Takes, Deleting
<1> QED  BY <1>1, <1>2, RequestHeld

-----------------------------------------------------------------------------
(* The invariant is inductive *)

\* The service comes up in one way; the mode, the commands and what they have left to
\* do change by commands only.
LEMMA LoopSteps ==
  ASSUME TypeOK, [Next]_vars
  PROVE  /\ svc' = "up" => svc = "up" \/ RecoverEnds
         /\ mode' = mode \/ CliMonitor \/ CliProtect
         /\ cli'.cmd = "protect" => cli.cmd = "protect" \/ "mode" \in Environment
         /\ cli'.cmd \in {"allow", "revoke", "cancel"} =>
              \/ cli.cmd \in {"allow", "revoke", "cancel"}
              \/ \E s \in Senders, cmd \in {"allow", "revoke"} : CliChecksSender(s, cmd)
         /\ orphaned' = orphaned \/ CliWritesSender \/ CliCancels
<1>a. TypeOK  OBVIOUS
<1> DEFINE Same == UNCHANGED <<svc, mode, cli, orphaned>>
<1>1. UNCHANGED <<mode, cliVars, loopVars>> => Same  BY DEF cliVars, loopVars
<1>2. UNCHANGED <<mode, cliVars, svc>> => Same  BY DEF cliVars
<1> HIDE DEF Same
<1>3. ASSUME NEW s \in Senders, NEW m \in Messages, Receive(s, m) \/ Handle(s, m) PROVE Same
  <2>1. Receive(s, m) => Same  BY <1>1 DEF Receive, Arrive, OwnerReleaseStarts
  <2>2. Taken(s, m) => Same  BY DEF Taken, cliVars, loopVars, Same
  <2>3. Handle(s, m) => Taken(s, m)
    BY DEF Handle, HandleSuppressed, HandleTrusted, HandleDecided, HandleEvidence,
           HandleMonitored, HandleIssue, HandleLateReply, HandleUnusableReply,
           HandleCorrectAnswer, HandleWrongAnswer, InTime, Screened, Answered
  <2> QED  BY <1>3, <2>1, <2>2, <2>3
<1>4. ASSUME NEW s \in Senders, Continue(s) PROVE Same
  BY <1>1, <1>4
     DEF Continue, IssueSent, IssueArchived, IssueUnwound, FallbackArchived, AnswerRestored,
         AttemptsNotified, TimeoutNotified, OwnerRestored, LegitimateRestored, SpamArchived,
         AllowRestored, DeletionEnds
<1>5. ASSUME NEW s \in Senders, TimerStep(s) \/ Operate(s) \/ Elapse(s) \/ OwnerWrites(s)
      PROVE  Same
  BY <1>1, <1>5
     DEF TimerStep, TimerWakes, TimerReleases, TimerExpires, Operate, ReviewLegitimate,
         ReviewSpam, ReviewDismiss, CaseArchive, CaseForget, CaseAllow, ReleaseLegacy,
         Elapse, DeadlineAdvances, SuppressionElapses, OwnerWrites
<1>6. ASSUME NEW i \in JobIds, WorkerStep(i) PROVE Same
  BY <1>1, <1>6 DEF WorkerStep, WorkerGivesUp, WorkerClaims
<1>7. ASSUME MaintenanceCollects \/ MaintenanceProceeds \/ UNCHANGED vars PROVE Same
  <2>1. \A keys, held : TakesLocks(keys, held) => Same
    BY <1>2, Zenon DEF TakesLocks
  <2> QED  BY <1>1, <1>7, <2>1 DEF MaintenanceCollects, MaintenanceProceeds, vars
<1>8. ASSUME Fail PROVE svc' = "down" /\ UNCHANGED <<mode, cli, orphaned>>
  BY <1>8 DEF Fail, Crash, CrashInsideAllow, GoesDown, DialogsCut, cliVars
<1>9. ASSUME Recover
      PROVE  UNCHANGED <<mode, cli, orphaned>> /\ (svc' = "up" => svc = "up" \/ RecoverEnds)
  BY <1>9 DEF Recover, Restart, RecoverNext, RecoverEnds, cliVars
<1>10. ASSUME Command
       PROVE  /\ UNCHANGED svc /\ (mode' = mode \/ CliMonitor \/ CliProtect)
              /\ cli'.cmd = "protect" => cli.cmd = "protect" \/ "mode" \in Environment
              /\ cli'.cmd \in {"allow", "revoke", "cancel"} =>
                   \/ cli.cmd \in {"allow", "revoke", "cancel"}
                   \/ \E s \in Senders, cmd \in {"allow", "revoke"} :
                        CliChecksSender(s, cmd)
              /\ orphaned' = orphaned \/ CliWritesSender \/ CliCancels
  <2>1. NoCli.cmd = "none"  BY DEF NoCli
  <2>2. ASSUME NEW s \in Senders, NEW c \in {"allow", "revoke"}, CliChecksSender(s, c)
        PROVE  cli'.cmd # "protect" /\ UNCHANGED <<svc, mode, orphaned>>
    BY <2>2 DEF CliChecksSender, loopVars
  <2>3. CASE CliProtect \/ CliDies \/ CliCancels
    BY <2>1, <2>3 DEF CliDies, CliCancels, CliProtect, loopVars
  <2>4. CASE CliMonitor  BY <2>4 DEF CliMonitor, cliVars, loopVars
  <2>5. CASE CliChecksProtect
    <3> DEFINE q == [NoCli EXCEPT !.cmd = "protect"]
    <3>1. q.cmd = "protect"  BY Zenon DEF NoCli
    <3>2. cli' = q  BY <2>5, Zenon DEF CliChecksProtect
    <3> HIDE DEF q
    <3> QED  BY <2>5, <3>1, <3>2 DEF CliChecksProtect, May, loopVars
  <2>6. CASE CliWritesSender
    <3>1. /\ cli' = [cli EXCEPT !.cmd = "cancel"] /\ cli.cmd \in {"allow", "revoke"}
          /\ UNCHANGED <<svc, mode>>
      BY <2>6 DEF CliWritesSender, loopVars
    <3>2. cli' = cli \/ cli'.cmd = "cancel"
      BY <3>1, <1>a, Zenon DEF TypeOK, Cli
    <3> QED  BY <2>6, <3>1, <3>2
  <2> QED  BY <1>10, <2>2, <2>3, <2>4, <2>5, <2>6 DEF Command
<1> QED
  BY <1>3, <1>4, <1>5, <1>6, <1>7, <1>8, <1>9, <1>10 DEF Next, Same

\* Commands are given only within their budget.
LEMMA NextLoop == LockInv /\ [Next]_vars => LoopInv'
<1> SUFFICES ASSUME LockInv, [Next]_vars,
                    cli'.cmd \in {"allow", "revoke", "cancel"}
             PROVE  CliBudget # 0
  BY DEF LoopInv
<1>1. TypeOK /\ LoopInv  BY DEF LockInv
<1>2. ASSUME NEW s \in Senders, NEW c, CliChecksSender(s, c) PROVE CliBudget # 0
  BY <1>1, <1>2 DEF CliChecksSender, TypeOK
<1> QED  BY <1>1, <1>2, LoopSteps DEF LoopInv

\* A job keeps its sender, and ids are handed out in order.
LEMMA JobSenders ==
  ASSUME LockInv, ClaimInv, [Next]_vars
  PROVE  /\ \A i \in JobIds : i < nextJob => jobs'[i].sender = jobs[i].sender
         /\ nextJob' >= nextJob
<1>a. TypeOK /\ nextJob \in Int  BY DEF LockInv, TypeOK
<1>1. nextJob' >= nextJob
  BY <1>a, NextSafe DEF SafeStep, JobStep, JobsKept, JobsAdded, Schedule
<1>2. ASSUME NEW S, LeavesJobs(S)
      PROVE  \A i \in JobIds : i < nextJob => jobs'[i].sender = jobs[i].sender
  BY <1>2 DEF LeavesJobs
<1>3. CASE CliMonitor
  <2>1. PICK s \in Senders : TRUE  BY SenderStoreAssumption
  <2> QED  BY <1>1, <1>2, <1>3, <2>1, <1>a, Closings, ClosedDelta DEF CliMonitor, JobDelta
<1>4. CASE CliCancels
  <2>1. cli.sender \in Senders  BY <1>a DEF TypeOK, Cli
  <2> QED
    BY <1>1, <1>2, <1>4, <2>1, <1>a, Closings, ClosedDelta DEF CliCancels, JobDelta
<1>5. ASSUME NEW keys \in SUBSET Senders, PassPrunes(keys)
      PROVE  \A i \in JobIds : i < nextJob => jobs'[i].sender = jobs[i].sender
  BY <1>1, <1>2, <1>5, <1>a, MaintenanceDelta DEF JobDelta
<1>6. ASSUME NEW s \in Senders, DeletionEnds(s)
      PROVE  \A i \in JobIds : i < nextJob => jobs'[i].sender = jobs[i].sender
  BY <1>2, <1>6, <1>a, DeletionDelta
<1>7. ASSUME NEW s \in Senders, OwnDelta(s)
      PROVE  \A i \in JobIds : i < nextJob => jobs'[i].sender = jobs[i].sender
  BY <1>2, <1>7 DEF OwnDelta, JobDelta
<1>8. CASE UNCHANGED <<jobs, nextJob>>  BY <1>1, <1>8
<1> QED  BY <1>1, <1>3, <1>4, <1>5, <1>6, <1>7, <1>8, NextDelta

\* The job that a worker claims is the one its coroutine carries.
LEMMA ClaimedJob ==
  ASSUME LockInv, PendingJobIsCurrent, NEW i \in JobIds, WorkerClaims(i),
         NEW s \in Senders, ~Deleting(s), Deleting(s)'
  PROVE  /\ task'[s].job = i /\ i < nextJob /\ jobs[i].sender = s
         /\ Claimable(jobs[i], row[s], mode)
<1>1. task \in [Senders -> Task] /\ jobs[i].sender \in Senders
  BY JobFields DEF LockInv, TypeOK
<1>2. task' = [task EXCEPT ![jobs[i].sender] = Doing("deleting", FALSE, FALSE, i)]
  BY DEF WorkerClaims, Become
<1>3. s = jobs[i].sender  BY <1>1, <1>2 DEF Deleting
<1>4. task'[s].job = i
  <2>1. task'[s] = Doing("deleting", FALSE, FALSE, i)  BY <1>1, <1>2, <1>3
  <2> QED  BY <2>1 DEF Doing
<1>5. Claimable(jobs[i], row[s], mode)  BY <1>3 DEF WorkerClaims
<1>6. i < nextJob  BY <1>5 DEF Claimable, PendingJobIsCurrent
<1> QED  BY <1>3, <1>4, <1>5, <1>6

\* A deletion stays with its job.
LEMMA NextClaims ==
  ASSUME LockInv, ClaimInv, PendingJobIsCurrent, [Next]_vars
  PROVE  ClaimInv'
<1>a. TypeOK /\ nextJob \in Int  BY DEF LockInv, TypeOK
<1> SUFFICES ASSUME NEW s \in Senders, Deleting(s)'
             PROVE  /\ task'[s].job \in JobIds /\ task'[s].job < nextJob'
                    /\ jobs'[task'[s].job].sender = s
  BY DEF ClaimInv
<1>1. CASE Deleting(s)
  <2>1. task'[s] = task[s]  BY <1>1, LockHeld
  <2>2. /\ task[s].job \in JobIds /\ task[s].job < nextJob
        /\ jobs[task[s].job].sender = s
    BY <1>1 DEF ClaimInv
  <2>3. nextJob' >= nextJob /\ nextJob' \in Int
    BY <1>a, JobSenders, NextTypes DEF TypeOK
  <2>4. task[s].job \in Int  BY <2>2 DEF JobIds
  <2> QED  BY <2>1, <2>2, <2>3, <2>4, <1>a, JobSenders
<1>2. CASE ~Deleting(s)
  <2>1. PICK i \in JobIds : WorkerClaims(i)
    BY <1>2, <1>a, OnlyClaimsDelete DEF NoNewDeletion, Deleting
  <2>2. UNCHANGED <<jobs, nextJob>>  BY <2>1 DEF WorkerClaims
  <2> QED  BY <2>1, <2>2, <1>2, ClaimedJob
<1> QED  BY <1>1, <1>2

\* A job that is pending after a step was there before it, or is the one just added.
LEMMA PendingBefore ==
  ASSUME LockInv, [Next]_vars, NEW i \in JobIds, jobs'[i].status = "pending"
  PROVE  jobs'[i] = jobs[i] \/ (i = nextJob /\ nextJob' # nextJob)
<1>a. TypeOK /\ SafeStep  BY NextSafe DEF LockInv
<1> SUFFICES ASSUME jobs'[i] # jobs[i] PROVE i = nextJob /\ nextJob' # nextJob  OBVIOUS
<1>1. JobsAdded  BY <1>a DEF SafeStep, JobStep, JobsKept, Inherited
<1>2. PICK u \in Senders, b \in BOOLEAN : \E js \in [JobIds -> Job] :
        Inherited(js) /\ Schedule(js, u, row'[u].revision, b, era'[u])
  BY <1>1 DEF JobsAdded
<1>3. PICK js \in [JobIds -> Job] :
        Inherited(js) /\ Schedule(js, u, row'[u].revision, b, era'[u])
  BY <1>2
<1>4. i = nextJob \/ (jobs'[i] = js[i] /\ js[i].status = "pending")
  BY <1>3, Scheduled
<1>5. nextJob' # nextJob  BY <1>3, <1>a DEF Schedule, TypeOK
<1> QED  BY <1>3, <1>4, <1>5 DEF Inherited

\* A pending job never comes to belong to a quarantine.
LEMMA NextJobs ==
  ASSUME LockInv, ClaimInv, PendingJobIsCurrent, TypeOK', [Next]_vars
  PROVE  JobInv'
<1>a. /\ TypeOK /\ JobInv /\ jobs \in [JobIds -> Job] /\ jobs' \in [JobIds -> Job]
      /\ row \in [Senders -> Row] /\ row' \in [Senders -> Row]
  BY DEF LockInv, TypeOK
<1> SUFFICES ASSUME NEW i \in JobIds, jobs'[i].status = "pending",
                    row'[jobs'[i].sender].revision = jobs'[i].expected,
                    row'[jobs'[i].sender].status = "quarantined"
             PROVE  FALSE
  BY DEF JobInv
<1>b. PICK s \in Senders : s = jobs'[i].sender  BY <1>a, JobFields
<1>1. CASE jobs'[i] = jobs[i]
  <2>1. /\ row[s].revision \in Nat /\ row'[s].revision \in Nat
        /\ jobs[i].expected \in Nat
    BY <1>a, RowFields, JobFields
  <2>2. jobs[i].expected <= row[s].revision  BY <1>b, <1>1 DEF PendingJobIsCurrent
  <2>3. row[s].revision = jobs[i].expected => row[s].status # "quarantined"
    BY <1>a, <1>b, <1>1 DEF JobInv
  <2>4. Advances(s)  BY <1>a, NextSafe DEF SafeStep
  <2>5. IsPending(jobs'[i], s)  BY <1>b DEF IsPending
  <2> QED  BY <1>b, <1>1, <2>1, <2>2, <2>3, <2>4, <2>5 DEF Advances, Restricted
<1>2. CASE i = nextJob /\ nextJob' # nextJob
  <2>1. ~CliMonitor /\ ~CliCancels /\ \A keys : ~PassPrunes(keys)
    BY <1>2 DEF PassPrunes, CliMonitor, CliCancels
  <2>2. \A u \in Senders : ~DeletionEnds(u)  BY <1>2 DEF DeletionEnds
  <2>3. PICK u \in Senders : OwnDelta(u) /\ row'[u].status # "quarantined"
    BY <1>2, <2>1, <2>2, NextDelta
  <2> QED  BY <1>2, <2>3, <1>b DEF OwnDelta
<1> QED  BY <1>1, <1>2, PendingBefore

-----------------------------------------------------------------------------
(* A failed deletion stays in front of the operator *)

\* The statuses that only an operator, a contact or the clock ends, and the
\* work that may go on under the lock of such a sender.
Final == {"suppressed", "allowed"}
Calm == {"idle", "deleting", "owner_restore", "legitimate_restore", "allow_restore",
         "spam_archive"}

\* A failed job belongs to a suppressed or an allowed sender, and nothing that is
\* under way for the sender will make it another one; or a command has yet to cancel it.
FailedInv ==
  \A i \in JobIds :
    jobs[i].status = "failed" =>
      \/ row[jobs[i].sender].status \in Final /\ task[jobs[i].sender].kind \in Calm
      \/ i \in orphaned

\* As long as the job of a deletion is pending, no command has written the row, or one
\* has and is still to cancel the job.
ClaimStands ==
  \A s \in Senders :
    Deleting(s) /\ jobs[task[s].job].status = "pending" =>
      row[s].status = "suppressed" \/ task[s].job \in orphaned

\* The jobs of a sender that a step leaves open are those a command is to cancel.
LeavesNoJob(s) == \A i \in JobIds : IsOpen(jobs'[i], s) => i \in orphaned'

\* A job that a command has left open is its own to cancel, until it does.
LEMMA OrphansStay ==
  ASSUME TypeOK, [Next]_vars, NEW i \in orphaned
  PROVE  /\ i \in JobIds
         /\ i \in orphaned' \/ (jobs'[i].sender = jobs[i].sender
                                  /\ jobs'[i].status \notin {"pending", "failed"})
<1>1. i \in JobIds /\ jobs \in [JobIds -> Job]  BY DEF TypeOK
<1>2. CASE CliCancels
  <2>1. ASSUME i \in JobsOf(jobs, cli.sender)
        PROVE  /\ jobs'[i].sender = jobs[i].sender
               /\ jobs'[i].status \notin {"pending", "failed"}
    <3>1. cli.sender \in Senders  BY DEF TypeOK, Cli
    <3>2. Emptied(jobs', cli.sender) /\ Closes(jobs', {cli.sender})
      BY <1>2, <3>1, Closings DEF CliCancels
    <3> QED  BY <1>1, <2>1, <3>2 DEF Emptied, Closes, IsOpen, JobsOf
  <2> QED  BY <1>1, <1>2, <2>1 DEF CliCancels
<1>3. CASE CliWritesSender  BY <1>1, <1>3 DEF CliWritesSender
<1> QED  BY <1>1, <1>2, <1>3, LoopSteps

\* Whatever ends a suppression or an allowance closes the jobs of the sender in the
\* same transaction, or is a command that has that transaction before it.
LEMMA FailureStays ==
  ASSUME LockInv, [Next]_vars, NEW s \in Senders,
         row[s].status \in Final, task[s].kind \in Calm
  PROVE  LeavesNoJob(s) \/ (row'[s].status \in Final /\ task'[s].kind \in Calm)
<1> DEFINE Stays == row'[s].status \in Final /\ task'[s].kind \in Calm
           Goal == LeavesNoJob(s) \/ Stays
<1>a. /\ TypeOK /\ row[s] \in Row /\ SenderInv(s) /\ row \in [Senders -> Row]
      /\ task \in [Senders -> Task]
  BY DEF LockInv, TypeOK
<1>b. row[s].status \in {"suppressed", "allowed"}  BY DEF Final
<1>c. ASSUME NEW t \in Senders, Others(t), t # s PROVE Stays
  BY <1>c DEF Others, Untouched
<1>d. AllowSender(s) \/ MarkSpam(s) => row'[s].status \in Final
  BY <1>a, DecisionShapes DEF Shaped, Final
<1>e. Become(s, Idle) => task'[s].kind \in Calm
  BY <1>a, Leaving DEF Takes, Calm
<1>f. ASSUME NEW k \in Calm, Become(s, Doing(k, FALSE, FALSE, 0)) PROVE task'[s].kind \in Calm
  BY <1>a, <1>f, Taking DEF Takes
<1>g. row' = row => row'[s].status \in Final  OBVIOUS
<1>h. Emptied(jobs', s) => LeavesNoJob(s)  BY DEF Emptied, LeavesNoJob
<1>1. ASSUME NEW m \in Messages, Handle(s, m) PROVE Goal
  <2>1. SettledRow(s) \in Row  BY <1>a, Groups, SettledTypes
  <2>2. ASSUME HandleSuppressed(s, m) \/ HandleDecided(s, m) PROVE Stays
    BY <2>2 DEF HandleSuppressed, HandleDecided, rowVars
  <2>3. ASSUME HandleTrusted(s, m) PROVE Stays
    <3>1. row'[s] = AllowRow(SettledRow(s)) /\ UNCHANGED task
      BY <2>3, <1>a, RowWritten DEF HandleTrusted
    <3>2. Shaped(row'[s], "allowed", "null", FALSE)  BY <2>1, <3>1, Shapes DEF AllowRow
    <3> QED  BY <3>1, <3>2 DEF Shaped, Final
  <2>4. ASSUME Screened(s, m) PROVE Expired(row[s])
    BY <2>4, <1>b DEF Screened, SettledRow
  <2>5. ASSUME HandleEvidence(s, m), jobs' # SettledJobs(s) PROVE Stays
    <3>1. row'[s] = SuppressRow(SettledRow(s), "null", TRUE, TRUE) /\ UNCHANGED task
      BY <2>5, <1>a, RowWritten DEF HandleEvidence
    <3>2. Shaped(row'[s], "suppressed", "null", FALSE)  BY <2>1, <3>1, Shapes
    <3> QED  BY <3>1, <3>2 DEF Shaped, Final
  <2>6. CASE Screened(s, m) /\ jobs' = SettledJobs(s)
    BY <2>4, <2>6, <1>a, <1>h, Closings
  <2> QED
    BY <1>1, <1>b, <2>2, <2>3, <2>5, <2>6
       DEF Handle, HandleEvidence, HandleMonitored, HandleIssue, HandleLateReply,
           HandleUnusableReply, HandleCorrectAnswer, HandleWrongAnswer, InTime, Answered
<1>2. ASSUME Continue(s) PROVE Stays
  <2>1. \/ OwnerRestored(s) \/ LegitimateRestored(s) \/ AllowRestored(s)
        \/ SpamArchived(s) \/ DeletionEnds(s)
    BY <1>2
       DEF Continue, IssueSent, IssueArchived, IssueUnwound, FallbackArchived,
           AnswerRestored, AttemptsNotified, TimeoutNotified, Holding, Calm
  <2>2. task'[s].kind \in Calm
    BY <2>1, <1>e DEF OwnerRestored, LegitimateRestored, AllowRestored, SpamArchived,
                      DeletionEnds
  <2>3. ASSUME ~DeletionEnds(s) PROVE row'[s].status \in Final
    BY <2>1, <2>3, <1>d, <1>g
       DEF OwnerRestored, LegitimateRestored, AllowRestored, SpamArchived,
           MarkLegitimate, rowVars
  <2>4. ASSUME DeletionEnds(s) PROVE row'[s].status \in Final
    <3>1. row' = row \/ row' = [row EXCEPT ![s].actionRef = FALSE]
      BY <2>4, Zenon DEF DeletionEnds
    <3>2. row'[s].status = row[s].status  BY <3>1, <1>a, Zenon DEF Row
    <3> QED  BY <3>2
  <2> QED  BY <2>2, <2>3, <2>4
<1>3. ASSUME TimerStep(s) PROVE Stays
  <2>1. ~Expires(row[s], timer[s].token)  BY <1>b DEF Expires
  <2>2. UNCHANGED row
    BY <1>3, <2>1 DEF TimerStep, TimerWakes, TimerReleases, TimerExpires, rowVars
  <2>3. UNCHANGED task \/ Become(s, Doing("owner_restore", FALSE, FALSE, 0))
    BY <1>3, <2>1 DEF TimerStep, TimerWakes, TimerReleases, TimerExpires
  <2>4. task'[s].kind \in Calm  BY <2>3, <1>f DEF Calm
  <2> QED  BY <2>2, <2>4
<1>4. ASSUME Elapse(s) \/ OwnerWrites(s) PROVE Stays
  <2>1. /\ UNCHANGED row \/ row' = [row EXCEPT ![s].until = "past"]
        /\ UNCHANGED task
    BY <1>4 DEF Elapse, DeadlineAdvances, SuppressionElapses, OwnerWrites
  <2>2. row'[s].status = row[s].status  BY <2>1, <1>a, Zenon DEF Row
  <2> QED  BY <2>1, <2>2
<1>5. ASSUME Operate(s) PROVE Goal
  <2>1. CASE CaseForget(s)  BY <2>1, <1>a, <1>h, Closings DEF CaseForget
  <2>2. ASSUME CaseArchive(s) PROVE Stays
    <3>1. PICK a : row' = [row EXCEPT ![s].archived = a]  BY <2>2, Zenon DEF CaseArchive
    <3>2. row'[s].status = row[s].status  BY <3>1, <1>a, Zenon DEF Row
    <3> QED  BY <2>2, <3>2 DEF CaseArchive
  <2>3. ASSUME Operate(s), ~CaseForget(s), ~CaseArchive(s) PROVE Stays
    <3>1. row'[s].status \in Final
      BY <2>3, <1>d, <1>g
         DEF Operate, ReviewLegitimate, ReviewSpam, ReviewDismiss, CaseAllow,
             ReleaseLegacy, MarkLegitimate, rowVars
    <3>2. \/ UNCHANGED task
          \/ \E k \in {"legitimate_restore", "spam_archive", "allow_restore"} :
               Become(s, Doing(k, FALSE, FALSE, 0))
      BY <2>3 DEF Operate, ReviewLegitimate, ReviewSpam, ReviewDismiss, CaseAllow,
                  ReleaseLegacy
    <3>3. task'[s].kind \in Calm  BY <3>2, <1>f DEF Calm
    <3> QED  BY <3>1, <3>3
  <2> QED  BY <1>5, <2>1, <2>2, <2>3
<1>6. ASSUME NEW t \in Senders, NEW m \in Messages, Receive(t, m) PROVE Stays
  <2>1. UNCHANGED row  BY <1>6 DEF Receive, Arrive, OwnerReleaseStarts, rowVars
  <2>2. UNCHANGED task \/ Become(t, Doing("owner_restore", FALSE, FALSE, 0))
    BY <1>6 DEF Receive, Arrive, OwnerReleaseStarts
  <2>3. task'[s].kind \in Calm
    BY <2>2, <1>a, <1>f, OthersFrom DEF Calm, TasksOfOthers
  <2> QED  BY <2>1, <2>3
<1>7. ASSUME NEW i \in JobIds, WorkerStep(i) PROVE Stays
  <2>1. UNCHANGED row  BY <1>7 DEF WorkerStep, WorkerGivesUp, WorkerClaims, rowVars
  <2>2. jobs[i].sender \in Senders  BY <1>a, JobFields DEF TypeOK
  <2>3. UNCHANGED task \/ Become(jobs[i].sender, Doing("deleting", FALSE, FALSE, i))
    BY <1>7 DEF WorkerStep, WorkerGivesUp, WorkerClaims
  <2>4. ASSUME Become(jobs[i].sender, Doing("deleting", FALSE, FALSE, i))
        PROVE  task'[s].kind \in Calm
    <3>1. Takes(jobs[i].sender, "deleting")  BY <1>a, <2>2, <2>4, Taking
    <3> QED  BY <3>1 DEF Takes, Calm
  <2> QED  BY <2>1, <2>3, <2>4
<1>8. ASSUME Command PROVE Goal
  <2>1. CASE ~CliWritesSender
    BY <1>8, <2>1
       DEF Command, CliChecksSender, CliCancels, CliDies, CliMonitor, CliChecksProtect,
           CliProtect, rowVars
  <2>2. CASE CliWritesSender
    <3>1. cli.sender \in Senders  BY <1>a DEF TypeOK, Cli
    <3>2. CASE cli.sender = s
      BY <2>2, <3>2 DEF CliWritesSender, jobVars, LeavesNoJob
    <3>3. CASE cli.sender # s
      <4>1. row'[s] = row[s] /\ UNCHANGED task
        BY <2>2, <3>1, <3>3, <1>a DEF CliWritesSender, PutRow
      <4> QED  BY <4>1
    <3> QED  BY <3>2, <3>3
  <2> QED  BY <2>1, <2>2
<1>9. ASSUME MaintenanceCollects \/ MaintenanceProceeds PROVE Goal
  <2>1. CASE PassWaits  BY <2>1 DEF PassWaits, rowVars
  <2>2. ASSUME NEW keys \in SUBSET Senders, PassPrunes(keys) PROVE Goal
    <3>1. row'[s] # row[s] => Emptied(jobs', s)  BY <2>2, <1>a, MaintenanceDelta
    <3>2. UNCHANGED task  BY <2>2 DEF PassPrunes
    <3> QED  BY <3>1, <3>2, <1>h
  <2> QED  BY <1>9, <1>a, <2>1, <2>2, MaintenanceCases
<1>10. ASSUME UNCHANGED vars PROVE Stays
  BY <1>10 DEF vars, rowVars
<1>11. ASSUME Fail PROVE Stays
  <2>1. task' = [t \in Senders |-> Idle]
    BY <1>11 DEF Fail, Crash, CrashInsideAllow, GoesDown
  <2>2. task'[s].kind \in Calm  BY <2>1 DEF Idle, Doing, Calm
  <2>3. ASSUME Crash PROVE row'[s].status \in Final  BY <2>3 DEF Crash, rowVars
  <2>4. ASSUME NEW t \in Senders, CrashInsideAllow(t) PROVE row'[s].status \in Final
    <3>1. /\ row'[t] = AllowRow(row[t]) /\ row[t] \in Row
          /\ \A u \in Senders : u # t => row'[u] = row[u]
      BY <2>4, <1>a DEF CrashInsideAllow, PutRow, TypeOK
    <3>2. Shaped(row'[t], "allowed", "null", FALSE)  BY <3>1, Shapes DEF AllowRow
    <3> QED  BY <3>1, <3>2 DEF Shaped, Final
  <2> QED  BY <1>11, <2>2, <2>3, <2>4 DEF Fail
<1>12. ASSUME Recover PROVE Stays
  <2>1. ASSUME Restart \/ RecoverEnds PROVE Stays
    BY <2>1 DEF Restart, RecoverEnds, rowVars
  <2>2. ASSUME NEW t \in Senders, RecoverNext(t) PROVE Stays
    <3>1. Others(t)
      BY <2>2, <1>a, OthersFrom, OthersSame, OthersAre DEF RecoverNext, dialogVars
    <3>2. CASE t = s  BY <2>2, <3>2, <1>b DEF RecoverNext, rowVars, Starting
    <3> QED  BY <3>1, <3>2, <1>c
  <2> QED  BY <1>12, <2>1, <2>2 DEF Recover
<1>13. ASSUME NEW t \in Senders, t # s,
              \/ \E m \in Messages : Handle(t, m)
              \/ Continue(t) \/ TimerStep(t) \/ Operate(t) \/ Elapse(t) \/ OwnerWrites(t)
       PROVE  Stays
  BY <1>13, <1>a, <1>c, HandleOthers, ContinueOthers, StepOthers
<1> QED
  BY <1>1, <1>2, <1>3, <1>4, <1>5, <1>6, <1>7, <1>8, <1>9, <1>10, <1>11, <1>12, <1>13
     DEF Next

\* A deletion is claimed under a suppression, and the job is a command's to cancel from
\* when it writes the row.
LEMMA NextStands ==
  ASSUME LockInv, LockInv', ClaimInv, PendingJobIsCurrent, ClaimStands, [Next]_vars
  PROVE  ClaimStands'
<1>a. TypeOK  BY DEF LockInv
<1> SUFFICES ASSUME NEW s \in Senders, Deleting(s)',
                    jobs'[task'[s].job].status = "pending"
             PROVE  row'[s].status = "suppressed" \/ task'[s].job \in orphaned'
  BY DEF ClaimStands
<1>1. CASE Deleting(s)
  <2> DEFINE i == task[s].job
  <2>1. i \in JobIds /\ i < nextJob /\ jobs[i].sender = s /\ i \in Int /\ nextJob \in Int
    BY <1>1, <1>a DEF ClaimInv, JobIds, TypeOK
  <2>2. task'[s] = task[s] /\ jobs'[i].status = "pending"  BY <1>1, LockHeld
  <2>3. jobs'[i] = jobs[i]  BY <2>1, <2>2, PendingBefore
  <2>4. CASE i \in orphaned
    <3>1. i \in orphaned'  BY <2>2, <2>4, <1>a, OrphansStay
    <3> QED  BY <2>2, <3>1
  <2>5. CASE i \notin orphaned
    <3>1. row[s].status = "suppressed"  BY <1>1, <2>2, <2>3, <2>5 DEF ClaimStands
    <3>2. ASSUME CliWritesSender, row'[s].status # row[s].status PROVE i \in orphaned'
      <4>1. cli.sender = s
        BY <3>2, <1>a DEF CliWritesSender, PutRow, TypeOK, Cli
      <4>2. IsOpen(jobs[i], s)  BY <2>1, <2>2, <2>3 DEF IsOpen
      <4> QED  BY <2>1, <3>2, <4>1, <4>2 DEF CliWritesSender
    <3> QED  BY <1>1, <2>2, <3>1, <3>2, LockHeld
  <2> QED  BY <2>4, <2>5
<1>2. CASE ~Deleting(s)
  <2>1. PICK i \in JobIds : WorkerClaims(i)
    BY <1>2, <1>a, OnlyClaimsDelete DEF NoNewDeletion, Deleting
  <2>2. row[s].status \in Restricted  BY <1>2, <2>1, ClaimedJob DEF Claimable
  <2>3. UNCHANGED row  BY <2>1 DEF WorkerClaims, rowVars
  <2>4. row'[s].status \in {"suppressed"} \cup Unlocked
    BY DEF LockInv, SenderInv, Fits, Deleting
  <2> QED  BY <2>2, <2>3, <2>4, UnlockedStatuses DEF Restricted
<1> QED  BY <1>1, <1>2

\* A deletion fails under the suppression it was claimed for, and a failed job is
\* closed by whatever would take its sender out of sight.
LEMMA NextFailed ==
  ASSUME LockInv, LockInv', ClaimInv, ClaimStands, FailedInv, [Next]_vars
  PROVE  FailedInv'
<1>a. TypeOK /\ jobs \in [JobIds -> Job] /\ jobs' \in [JobIds -> Job]
  BY DEF LockInv, TypeOK
<1> SUFFICES ASSUME NEW i \in JobIds, jobs'[i].status = "failed"
             PROVE  \/ /\ row'[jobs'[i].sender].status \in Final
                       /\ task'[jobs'[i].sender].kind \in Calm
                    \/ i \in orphaned'
  BY DEF FailedInv
<1>b. PICK s \in Senders : s = jobs'[i].sender  BY <1>a, JobFields
<1> DEFINE Goal == \/ row'[s].status \in Final /\ task'[s].kind \in Calm
                   \/ i \in orphaned'
<1>c. LeavesNoJob(s) => i \in orphaned'  BY <1>b DEF LeavesNoJob, IsOpen
<1>d. i \in orphaned => i \in orphaned'  BY <1>a, OrphansStay
<1>1. ASSUME jobs[i].status = "failed", jobs[i].sender = s PROVE Goal
  BY <1>1, <1>c, <1>d, FailureStays DEF FailedInv
<1>2. ASSUME FailsNothing PROVE Goal  BY <1>1, <1>2, <1>b DEF FailsNothing
<1>3. ASSUME NEW u \in Senders, DeletionEnds(u) PROVE Goal
  <2>1. /\ jobs[i].sender = s
        /\ \/ jobs[i].status = "failed"
           \/ s = u /\ i = task[u].job /\ jobs[i].status = "pending"
    <3>1. /\ jobs'[i].sender = jobs[i].sender
          /\ \/ jobs[i].status = "failed"
             \/ /\ i = task[u].job /\ jobs[i].sender = u
                /\ jobs[i].status = "pending"
      BY <1>3, <1>a, DeletionDelta
    <3> QED  BY <1>b, <3>1
  <2>2. ASSUME s = u, i = task[u].job, jobs[i].status = "pending" PROVE Goal
    <3>1. Deleting(s) /\ task[s].kind \in Calm
      BY <1>3, <2>2 DEF DeletionEnds, Holding, Deleting, Calm
    <3>2. CASE row[s].status = "suppressed"
      BY <3>1, <3>2, <1>c, FailureStays DEF Final
    <3>3. CASE task[s].job \in orphaned
      <4>1. UNCHANGED orphaned  BY <1>3 DEF DeletionEnds, cliVars
      <4> QED  BY <2>2, <3>3, <4>1
    <3> QED  BY <2>2, <3>1, <3>2, <3>3 DEF ClaimStands
  <2> QED  BY <1>1, <2>1, <2>2
<1>4. ASSUME CliMonitor PROVE Goal
  <2>1. PICK u \in Senders : TRUE  BY SenderStoreAssumption
  <2> QED  BY <1>2, <1>4, <2>1, <1>a, Closings, ClosedDelta DEF CliMonitor, JobDelta
<1>5. ASSUME CliCancels PROVE Goal
  <2>1. cli.sender \in Senders  BY <1>a DEF TypeOK, Cli
  <2> QED  BY <1>2, <1>5, <2>1, <1>a, Closings, ClosedDelta DEF CliCancels, JobDelta
<1>6. ASSUME NEW keys \in SUBSET Senders, PassPrunes(keys) PROVE Goal
  BY <1>2, <1>6, <1>a, MaintenanceDelta DEF JobDelta
<1>7. ASSUME NEW u \in Senders, OwnDelta(u) PROVE Goal
  BY <1>2, <1>7 DEF OwnDelta, JobDelta
<1>8. ASSUME UNCHANGED <<jobs, nextJob>> PROVE Goal
  BY <1>2, <1>8 DEF FailsNothing
<1> QED  BY <1>3, <1>4, <1>5, <1>6, <1>7, <1>8, <1>b, NextDelta

\* Nothing is held, armed or issued at the start.
LEMMA InitLocks == Init => LockInv /\ ClaimInv
<1> SUFFICES ASSUME Init PROVE LockInv /\ ClaimInv  OBVIOUS
<1>1. TypeOK  BY InitTypes
<1>2. ASSUME NEW s \in Senders PROVE SenderInv(s) /\ ~Deleting(s)
  <2>1. row[s] = NoRow /\ task[s] = Idle /\ timer[s] = NoTimer  BY <1>2 DEF Init
  <2>2. NoRow.status = "unknown" /\ NoRow.until = "null" /\ NoRow.archived = FALSE
    BY Zenon DEF NoRow
  <2>3. Idle.kind = "idle" /\ NoTimer.phase = "none"  BY Zenon DEF Idle, Doing, NoTimer
  <2> QED
    BY <2>1, <2>2, <2>3
       DEF SenderInv, Fits, Undoable, Dated, Told, Attended, Deleting, Starting
<1>3. LoopInv
  <2>1. NoCli.cmd = "none"  BY Zenon DEF NoCli
  <2> QED  BY <2>1 DEF Init, LoopInv
<1>4. JobInv  BY DEF Init, JobInv
<1> QED  BY <1>1, <1>2, <1>3, <1>4 DEF LockInv, ClaimInv

\* The lock discipline is an invariant of the service.
LEMMA Locking == Spec => [](LockInv /\ ClaimInv)
<1>1. LockInv /\ ClaimInv /\ PendingJobIsCurrent /\ [Next]_vars
        => LockInv' /\ ClaimInv'
  <2> SUFFICES ASSUME LockInv, ClaimInv, PendingJobIsCurrent, [Next]_vars
               PROVE  LockInv' /\ ClaimInv'
    OBVIOUS
  <2>1. TypeOK'  BY NextTypes DEF LockInv
  <2>2. \A s \in Senders : SenderInv(s)'  BY <2>1, NextKept DEF Kept
  <2> QED  BY <2>1, <2>2, NextLoop, NextJobs, NextClaims DEF LockInv
<1> QED  BY <1>1, InitLocks, JobsAreCurrent, PTL DEF Spec

-----------------------------------------------------------------------------
(* What the lock discipline gives, also with commands that take no lock *)

\* Whatever request failed, whichever rollback ran and wherever the process died, also
\* between the transaction that drops a snapshot and the one that writes the row: a
\* sender who is challenged or quarantined has a snapshot to restore from, or a dialog
\* that had been put back when the process died.
THEOREM ConfinementsAreReversible == Spec => []ConfinementIsReversible
<1>1. LockInv => ConfinementIsReversible
  BY DEF LockInv, SenderInv, Undoable, ConfinementIsReversible
<1> QED  BY <1>1, Locking, PTL

\* _issue_challenge, its rollback and recovery leave nobody in the phase
\* challenge_issuing without a coroutine at work, and nobody in challenge_archiving but
\* for an activation that raised or found the row changed and whose restore failed too.
THEOREM StartsAreAttended == Spec => []StartingIsAttended
<1>1. LockInv => StartingIsAttended
  BY DEF LockInv, SenderInv, Attended, Issuing, StartingIsAttended
<1> QED  BY <1>1, Locking, PTL

\* No timer, no recovery and no phase of a challenge writes over an allowance;
\* the four handlers that do not read the row again after their request may.
THEOREM AllowancesAreKept == Spec => AllowedIsLeftAlone
<1>1. LockInv /\ LockInv' /\ [Next]_vars =>
        \A s \in Senders :
          row[s].status = "allowed" /\ row'[s].status \in DashboardOnly =>
            task[s].kind \in {"fallback_archive", "attempts_notice", "timeout_notice",
                              "spam_archive"}
  BY NextKept DEF Kept, AllowanceKept, LockInv
<1> QED  BY <1>1, Locking, PTL DEF Spec, AllowedIsLeftAlone

\* Nothing confines a sender while the correct answer is being carried out.
THEOREM AnswersStand == Spec => AcceptedAnswerStands
<1>1. LockInv /\ LockInv' /\ [Next]_vars =>
        \A s \in Senders :
          past[s].answered /\ row[s].status = "challenged"
            /\ row'[s].status \in {"quarantined", "suppressed"} =>
              task[s].kind \in {"idle", "attempts_notice"}
  BY NextKept DEF Kept, AnswerKept, LockInv
<1> QED  BY <1>1, Locking, PTL DEF Spec, AcceptedAnswerStands

\* A conversation is deleted under a temporary suppression only after the notice was
\* sent for that suppression, unless the process died after it had begun and before the
\* notice was sent, or a timer without a reference began it.
THEOREM DeletionsAreWarned == Spec => DeletionIsWarned
<1>1. ASSUME LockInv, PendingJobIsCurrent, [Next]_vars,
             NEW s \in Senders, task[s].kind # "deleting", task'[s].kind = "deleting"
      PROVE  row[s].until = "null" \/ past[s].warned \/ past[s].silent
  <2>1. ~Deleting(s) /\ Deleting(s)'  BY <1>1 DEF Deleting
  <2>2. PICK i \in JobIds : WorkerClaims(i)
    BY <1>1, OnlyClaimsDelete DEF NoNewDeletion, LockInv
  <2>3. jobs[i].sender = s  BY <1>1, <2>1, <2>2, ClaimedJob
  <2>4. task[s].kind = "idle"  BY <2>2, <2>3 DEF WorkerClaims, LockFree
  <2>5. Told(s)  BY <1>1 DEF LockInv, SenderInv
  <2> QED  BY <2>4, <2>5 DEF Told
<1>2. LockInv /\ PendingJobIsCurrent /\ [Next]_vars =>
        \A s \in Senders :
          task[s].kind # "deleting" /\ task'[s].kind = "deleting" =>
            row[s].until = "null" \/ past[s].warned \/ past[s].silent
  BY <1>1
<1> QED  BY <1>2, Locking, JobsAreCurrent, PTL DEF Spec, DeletionIsWarned

\* The case of a failed deletion does not disappear before the sender is allowed, not
\* even by a command that was checked before the sender was suppressed, once that command
\* has cancelled the jobs: what may be out of sight are the jobs that were open when a
\* command wrote the row and that it has yet to cancel, or never will.
THEOREM FailedJobsAreVisible == Spec => []FailedJobIsVisible
<1>1. Init => ClaimStands /\ FailedInv
  <2>1. Idle.kind = "idle"  BY Zenon DEF Idle, Doing
  <2> QED  BY <2>1 DEF Init, ClaimStands, FailedInv, Deleting
<1>2. /\ LockInv /\ LockInv' /\ ClaimInv /\ PendingJobIsCurrent
      /\ ClaimStands /\ FailedInv /\ [Next]_vars
      => ClaimStands' /\ FailedInv'
  BY NextStands, NextFailed
<1>3. FailedInv => FailedJobIsVisible
  BY DEF FailedInv, FailedJobIsVisible, Final, Restricted
<1> QED  BY <1>1, <1>2, <1>3, Locking, JobsAreCurrent, PTL DEF Spec

\* A permanent suppression: no handler and no timer takes it for one that is over, and
\* no continuation of the service finds it when its request returns.
LEMMA PermanenceStep ==
  ASSUME LockInv, [Next]_vars, NEW s \in Senders,
         Permanent(row[s]), row'[s].status # "suppressed"
  PROVE  \/ row'[s].status = "allowed"
         \/ row'[s] = NoRow /\ row[s].archived /\ ~HasOpenAction(jobs, s)
         \/ cli = [cmd |-> "revoke", sender |-> s] /\ cli'.cmd = "cancel"
<1> DEFINE Goal == \/ row'[s].status = "allowed"
                   \/ row'[s] = NoRow /\ row[s].archived /\ ~HasOpenAction(jobs, s)
                   \/ cli = [cmd |-> "revoke", sender |-> s] /\ cli'.cmd = "cancel"
<1>a. TypeOK /\ row[s] \in Row /\ SenderInv(s) /\ row \in [Senders -> Row]
  BY DEF LockInv, TypeOK
<1>b. /\ row[s].status = "suppressed" /\ row[s].until = "null" /\ ~Expired(row[s])
      /\ row'[s] # row[s]
  BY DEF Permanent, Expired
<1>c. ASSUME NEW t \in Senders, Others(t), t # s PROVE FALSE
  BY <1>b, <1>c DEF Others, Untouched
<1>d. AllowSender(s) \/ MarkSpam(s) => row'[s].status \in {"allowed", "suppressed"}
  BY <1>a, DecisionShapes DEF Shaped
<1>e. Forgettable(s) => row[s].archived /\ ~HasOpenAction(jobs, s)
  BY DEF Forgettable, ArchivedPermanent
<1>1. ASSUME NEW m \in Messages, Handle(s, m) PROVE Goal
  <2>1. SettledRow(s) \in Row  BY <1>a, Groups, SettledTypes
  <2>2. ASSUME HandleSuppressed(s, m) \/ HandleDecided(s, m) PROVE FALSE
    BY <2>2, <1>b DEF HandleSuppressed, HandleDecided, rowVars
  <2>3. ASSUME HandleTrusted(s, m) PROVE row'[s].status = "allowed"
    <3>1. row'[s] = AllowRow(SettledRow(s))  BY <2>3, <1>a, RowWritten DEF HandleTrusted
    <3>2. Shaped(row'[s], "allowed", "null", FALSE)  BY <2>1, <3>1, Shapes DEF AllowRow
    <3> QED  BY <3>2 DEF Shaped
  <2>4. ASSUME Screened(s, m) PROVE FALSE
    BY <2>4, <1>b DEF Screened, SettledRow
  <2> QED
    BY <1>1, <2>2, <2>3, <2>4
       DEF Handle, HandleEvidence, HandleMonitored, HandleIssue, HandleLateReply,
           HandleUnusableReply, HandleCorrectAnswer, HandleWrongAnswer, InTime, Answered
<1>2. ASSUME Continue(s) PROVE Goal
  <2>1. task[s].kind \in {"owner_restore", "legitimate_restore", "allow_restore", "deleting"}
    BY <1>2, <1>a, <1>b, UnlockedStatuses
       DEF Continue, IssueSent, IssueArchived, IssueUnwound, FallbackArchived,
           AnswerRestored, AttemptsNotified, TimeoutNotified, OwnerRestored,
           LegitimateRestored, SpamArchived, AllowRestored, DeletionEnds, Holding,
           SenderInv, Fits, Dated
  <2>2. ASSUME OwnerRestored(s) \/ LegitimateRestored(s) \/ AllowRestored(s)
        PROVE  row'[s].status = "allowed"
    BY <2>2, <1>b, <1>d
       DEF OwnerRestored, LegitimateRestored, AllowRestored, MarkLegitimate, rowVars
  <2>3. ASSUME DeletionEnds(s) PROVE FALSE
    <3>1. row' = [row EXCEPT ![s].actionRef = FALSE]
      BY <2>3, <1>b, Zenon DEF DeletionEnds
    <3>2. row'[s].status = row[s].status  BY <3>1, <1>a, Zenon DEF Row
    <3> QED  BY <3>2, <1>b
  <2> QED
    BY <1>2, <2>1, <2>2, <2>3
       DEF Continue, IssueSent, IssueArchived, IssueUnwound, FallbackArchived,
           AnswerRestored, AttemptsNotified, TimeoutNotified, SpamArchived, Holding
<1>3. ASSUME TimerStep(s) \/ Elapse(s) \/ OwnerWrites(s) PROVE FALSE
  <2>1. UNCHANGED row \/ row' = [row EXCEPT ![s].until = "past"]
    BY <1>3, <1>b
       DEF TimerStep, TimerWakes, TimerReleases, TimerExpires, Expires, Elapse,
           DeadlineAdvances, SuppressionElapses, OwnerWrites, rowVars
  <2>2. row'[s].status = row[s].status  BY <2>1, <1>a, Zenon DEF Row
  <2> QED  BY <2>2, <1>b
<1>4. ASSUME Operate(s) PROVE Goal
  <2>1. CASE CaseForget(s)
    <3>1. row'[s] = NoRow /\ Forgettable(s)  BY <2>1, <1>a, RowWritten DEF CaseForget
    <3> QED  BY <3>1, <1>e
  <2>2. ASSUME CaseArchive(s) PROVE FALSE
    <3>1. PICK a : row' = [row EXCEPT ![s].archived = a]  BY <2>2, Zenon DEF CaseArchive
    <3>2. row'[s].status = row[s].status  BY <3>1, <1>a, Zenon DEF Row
    <3> QED  BY <3>2, <1>b
  <2> QED
    BY <1>4, <2>1, <2>2, <1>b, <1>d
       DEF Operate, ReviewLegitimate, ReviewSpam, ReviewDismiss, CaseAllow, ReleaseLegacy,
           MarkLegitimate, rowVars
<1>5. ASSUME NEW t \in Senders, NEW m \in Messages, Receive(t, m) PROVE FALSE
  BY <1>5, <1>b DEF Receive, Arrive, OwnerReleaseStarts, rowVars
<1>6. ASSUME NEW i \in JobIds, WorkerStep(i) PROVE FALSE
  BY <1>6, <1>b DEF WorkerStep, WorkerGivesUp, WorkerClaims, rowVars
<1>7. ASSUME Command PROVE Goal
  <2>1. CASE CliWritesSender
    <3>1. cli \in Cli  BY <1>a DEF TypeOK
    <3>2. cli.sender \in Senders /\ cli = [cmd |-> cli.cmd, sender |-> cli.sender]
      BY <3>1 DEF Cli
    <3>3. cli.sender = s
      <4>1. \A t \in Senders : t # cli.sender => row'[t] = row[t]
        BY <2>1, <1>a DEF CliWritesSender, PutRow
      <4> QED  BY <4>1, <1>b
    <3>4. CASE cli.cmd = "revoke"
      <4>1. cli'.cmd = "cancel"
        BY <2>1, <3>1, Zenon DEF CliWritesSender, Cli
      <4> QED  BY <3>2, <3>3, <3>4, <4>1
    <3>5. CASE cli.cmd = "allow"
      <4>1. row'[s] = AllowRow(row[s])
        BY <2>1, <3>3, <3>5, <1>a DEF CliWritesSender, PutRow
      <4>2. Shaped(row'[s], "allowed", "null", FALSE)  BY <4>1, <1>a, Shapes DEF AllowRow
      <4> QED  BY <4>2 DEF Shaped
    <3> QED  BY <2>1, <3>4, <3>5 DEF CliWritesSender
  <2> QED
    BY <1>7, <2>1, <1>b
       DEF Command, CliChecksSender, CliCancels, CliDies, CliMonitor, CliChecksProtect,
           CliProtect, rowVars
<1>8. ASSUME MaintenanceCollects \/ MaintenanceProceeds PROVE Goal
  <2>1. CASE PassWaits  BY <2>1, <1>b DEF PassWaits, rowVars
  <2>2. ASSUME NEW keys \in SUBSET Senders, PassPrunes(keys) PROVE Goal
    <3>1. Expired(row[s]) \/ (Forgettable(s) /\ row'[s] = NoRow)
      BY <2>2, <1>b DEF PassPrunes, Prunes
    <3> QED  BY <3>1, <1>b, <1>e
  <2> QED  BY <1>8, <1>a, <2>1, <2>2, MaintenanceCases
<1>9. ASSUME UNCHANGED vars PROVE FALSE
  BY <1>9, <1>b DEF vars, rowVars
<1>10. ASSUME Fail PROVE row'[s].status = "allowed"
  <2>1. ASSUME Crash PROVE FALSE  BY <2>1, <1>b DEF Crash, rowVars
  <2>2. ASSUME NEW t \in Senders, CrashInsideAllow(t) PROVE row'[s].status = "allowed"
    <3>1. /\ row'[t] = AllowRow(row[t]) /\ row[t] \in Row
          /\ \A u \in Senders : u # t => row'[u] = row[u]
      BY <2>2, <1>a DEF CrashInsideAllow, PutRow, TypeOK
    <3>2. Shaped(row'[t], "allowed", "null", FALSE)  BY <3>1, Shapes DEF AllowRow
    <3> QED  BY <3>1, <3>2, <1>b DEF Shaped
  <2> QED  BY <1>10, <2>1, <2>2 DEF Fail
<1>11. ASSUME Recover PROVE FALSE
  <2>1. ASSUME Restart \/ RecoverEnds PROVE FALSE
    BY <2>1, <1>b DEF Restart, RecoverEnds, rowVars
  <2>2. ASSUME NEW t \in Senders, RecoverNext(t) PROVE FALSE
    <3>1. Others(t)
      BY <2>2, <1>a, OthersFrom, OthersSame, OthersAre DEF RecoverNext, dialogVars
    <3>2. t = s  BY <3>1, <1>c
    <3> QED  BY <2>2, <3>2, <1>b DEF RecoverNext, rowVars, Starting
  <2> QED  BY <1>11, <2>1, <2>2 DEF Recover
<1>12. ASSUME NEW t \in Senders, t # s,
              \/ \E m \in Messages : Handle(t, m)
              \/ Continue(t) \/ TimerStep(t) \/ Operate(t) \/ Elapse(t) \/ OwnerWrites(t)
       PROVE  FALSE
  BY <1>12, <1>a, <1>c, HandleOthers, ContinueOthers, StepOthers
<1> QED
  BY <1>1, <1>2, <1>3, <1>4, <1>5, <1>6, <1>7, <1>8, <1>9, <1>10, <1>11, <1>12 DEF Next

\* A permanent suppression ends by allowing the sender, by prune_senders or a decision
\* once it was archived and has no open job, or by a revoke that was checked before it
\* began: with every command of the command line, which takes no lock.
THEOREM PermanenceHolds == Spec => PermanentUntilDecided
<1>1. LockInv /\ [Next]_vars =>
        \A s \in Senders :
          Permanent(row[s]) /\ row'[s].status # "suppressed" =>
            \/ row'[s].status = "allowed"
            \/ row'[s] = NoRow /\ row[s].archived /\ ~HasOpenAction(jobs, s)
            \/ cli = [cmd |-> "revoke", sender |-> s] /\ cli'.cmd = "cancel"
  BY PermanenceStep
<1> QED  BY <1>1, Locking, PTL DEF Spec, PermanentUntilDecided

-----------------------------------------------------------------------------
(* What a command does to a deletion that is under way *)

\* No step writes the job of a deletion that goes on, but for two commands.
LEMMA JobUntouched ==
  ASSUME LockInv, ClaimInv, [Next]_vars,
         NEW s \in Senders, Deleting(s), Deleting(s)',
         jobs[task[s].job].status = "pending"
  PROVE  jobs'[task[s].job] = jobs[task[s].job] \/ CliMonitor \/ CliCancels
<1>1. /\ TypeOK /\ task[s].job \in JobIds /\ task[s].job < nextJob
      /\ jobs[task[s].job].sender = s
  BY DEF LockInv, ClaimInv
<1>2. ASSUME NEW S, LeavesJobs(S), s \notin S
      PROVE  jobs'[task[s].job] = jobs[task[s].job]
  BY <1>1, <1>2 DEF LeavesJobs
<1>3. ASSUME NEW keys \in SUBSET Senders, PassPrunes(keys)
      PROVE  jobs'[task[s].job] = jobs[task[s].job]
  <2>1. s \notin keys  BY <1>3 DEF Deleting, PassPrunes
  <2> QED  BY <1>1, <1>2, <1>3, <2>1, MaintenanceDelta DEF JobDelta
<1>4. ASSUME NEW u \in Senders, DeletionEnds(u)
      PROVE  jobs'[task[s].job] = jobs[task[s].job]
  <2>1. u # s
    <3>1. Takes(u, "idle")  BY <1>1, <1>4, Leaving DEF DeletionEnds
    <3> QED  BY <3>1 DEF Takes, Deleting
  <2> QED  BY <1>1, <1>2, <1>4, <2>1, DeletionDelta
<1>5. ASSUME NEW u \in Senders, OwnDelta(u), ~(Deleting(u) /\ Deleting(u)')
      PROVE  jobs'[task[s].job] = jobs[task[s].job]
  <2>1. u # s  BY <1>5
  <2> QED  BY <1>2, <1>5, <2>1 DEF OwnDelta, JobDelta
<1> QED  BY <1>3, <1>4, <1>5, NextDelta

\* A deletion whose job is open, and not a command's to cancel, belongs to the
\* restriction it was scheduled under.
Stands(s) ==
  Deleting(s) /\ jobs[task[s].job].status = "pending" /\ task[s].job \notin orphaned =>
    /\ row[s].status = "suppressed"
    /\ row[s].revision = jobs[task[s].job].expected
    /\ jobs[task[s].job].born = era[s]

\* claim_action checked it, the lock keeps it, and the job is a command's to cancel from
\* when it writes the row.
LEMMA NextStanding ==
  ASSUME LockInv, LockInv', ClaimInv, PendingJobIsCurrent, ClaimStands, ClaimStands',
         [Next]_vars, NEW s \in Senders, Stands(s)
  PROVE  Stands(s)'
<1>a. TypeOK /\ SafeStep  BY NextSafe DEF LockInv
<1> SUFFICES ASSUME Deleting(s)', jobs'[task'[s].job].status = "pending",
                    task'[s].job \notin orphaned'
             PROVE  /\ row'[s].status = "suppressed"
                    /\ row'[s].revision = jobs'[task'[s].job].expected
                    /\ jobs'[task'[s].job].born = era'[s]
  BY DEF Stands
<1>b. row'[s].status = "suppressed"  BY DEF ClaimStands
<1>1. CASE Deleting(s)
  <2> DEFINE i == task[s].job
  <2>1. i \in JobIds /\ i < nextJob /\ jobs[i].sender = s /\ i \in Int /\ nextJob \in Int
    BY <1>1, <1>a DEF ClaimInv, JobIds, TypeOK
  <2>2. task'[s] = task[s] /\ jobs'[i].status = "pending"  BY <1>1, LockHeld
  <2>3. jobs'[i] = jobs[i]  BY <2>1, <2>2, PendingBefore
  <2>8. i \notin orphaned  BY <2>2, <1>a, OrphansStay
  <2>4. /\ row[s].status = "suppressed" /\ row[s].revision = jobs[i].expected
        /\ jobs[i].born = era[s]
    BY <1>1, <2>2, <2>3, <2>8 DEF Stands
  <2>5. ASSUME CliWritesSender PROVE row'[s].revision = row[s].revision
    <3>1. IsOpen(jobs[i], s)  BY <2>1, <2>2, <2>3 DEF IsOpen
    <3>2. cli.sender # s  BY <2>1, <2>2, <2>5, <3>1 DEF CliWritesSender
    <3> QED  BY <2>5, <3>2, <1>a DEF CliWritesSender, PutRow, TypeOK, Cli
  <2>6. row'[s].revision = row[s].revision  BY <1>1, <2>5, LockHeld
  <2>7. era'[s] = era[s]
    <3>1. Advances(s)  BY <1>a DEF SafeStep
    <3>2. IsPending(jobs'[i], s)  BY <2>1, <2>2, <2>3 DEF IsPending
    <3>3. row[s].revision \in Nat  BY <1>a, RowFields DEF TypeOK
    <3> QED  BY <2>1, <2>6, <3>1, <3>2, <3>3, <1>b DEF Advances, Restricted
  <2> QED  BY <1>b, <2>2, <2>3, <2>4, <2>6, <2>7
<1>2. CASE ~Deleting(s)
  <2>1. PICK i \in JobIds : WorkerClaims(i)
    BY <1>2, <1>a, OnlyClaimsDelete DEF NoNewDeletion, Deleting
  <2>2. /\ task'[s].job = i /\ jobs[i].sender = s
        /\ Claimable(jobs[i], row[s], mode)
    BY <1>2, <2>1, ClaimedJob
  <2>3. UNCHANGED <<jobs, row, era>>  BY <2>1 DEF WorkerClaims, rowVars
  <2>4. jobs[i].born = era[s]  BY <2>2 DEF Claimable, PendingJobIsCurrent
  <2> QED  BY <1>b, <2>2, <2>3, <2>4 DEF Claimable
<1> QED  BY <1>1, <1>2

\* Also beside commands that take no lock, and whatever becomes of the mode: while the
\* request of a deletion is under way and its job is open, the suppression is the one
\* the job was scheduled under.  The exception is a command that has lifted it and whose
\* transaction that closes the job is still to come, or was lost with the command.
THEOREM DeletionsStand == Spec => [](\A s \in Senders : Stands(s))
<1> DEFINE I == \A s \in Senders : Stands(s)
<1>1. Init => ClaimStands /\ I
  <2>1. Idle.kind = "idle"  BY Zenon DEF Idle, Doing
  <2> QED  BY <2>1 DEF Init, ClaimStands, Stands, Deleting
<1>2. /\ LockInv /\ LockInv' /\ ClaimInv /\ PendingJobIsCurrent
      /\ ClaimStands /\ I /\ [Next]_vars
      => ClaimStands' /\ I'
  BY NextStands, NextStanding
<1> QED  BY <1>1, <1>2, Locking, JobsAreCurrent, PTL DEF Spec

\* What interrupts a deletion: a command for its sender that comes to the jobs after the
\* row, or the change to monitor when
\* the job is not one of the operator's.
Overruled(s) ==
  \/ cli.cmd = "cancel" /\ cli.sender = s /\ cli' = NoCli
  \/ mode' = "monitor" /\ ~jobs[task[s].job].independent

\* Only these commands close the job of a deletion that is under way: no message, timer,
\* worker, decision, maintenance pass or recovery does, for any sender.
THEOREM OnlyCommandsInterrupt ==
  Spec => [][\A s \in Senders :
               Deleting(s) /\ Deleting(s)' /\ jobs[task[s].job].status = "pending" =>
                 jobs'[task[s].job] = jobs[task[s].job] \/ Overruled(s)]_vars
<1>1. ASSUME LockInv, ClaimInv, [Next]_vars, NEW s \in Senders,
             Deleting(s), Deleting(s)', jobs[task[s].job].status = "pending"
      PROVE  jobs'[task[s].job] = jobs[task[s].job] \/ Overruled(s)
  <2> DEFINE i == task[s].job
  <2>1. i \in JobIds /\ jobs[i].sender = s  BY <1>1 DEF ClaimInv
  <2>2. CASE CliMonitor
    <3>1. jobs[i].independent => jobs'[i] = jobs[i]
      BY <2>1, <2>2, Zenon DEF CliMonitor, CancelAutomatic
    <3> QED  BY <2>2, <3>1 DEF CliMonitor, Overruled
  <2>3. CASE CliCancels
    <3>1. cli.sender # s => jobs'[i] = jobs[i]
      BY <2>1, <2>3, Zenon DEF CliCancels, CancelOpen, IsOpen
    <3> QED  BY <2>3, <3>1 DEF CliCancels, Overruled
  <2> QED  BY <1>1, <2>2, <2>3, JobUntouched
<1>2. LockInv /\ ClaimInv /\ [Next]_vars =>
        \A s \in Senders :
          Deleting(s) /\ Deleting(s)' /\ jobs[task[s].job].status = "pending" =>
            jobs'[task[s].job] = jobs[task[s].job] \/ Overruled(s)
  BY <1>1
<1> QED  BY <1>2, Locking, PTL DEF Spec

-----------------------------------------------------------------------------
(* A job that may be executed has a worker *)

\* A job that claim_action would accept: its worker sleeps or waits for the lock, or has
\* the deletion under way.
Served(i) ==
  svc = "up" /\ Claimable(jobs[i], row[jobs[i].sender], mode) =>
    i \in workers \/ \E s \in Senders : Deleting(s) /\ task[s].job = i

\* The jobs whose acceptance the mode cannot change.
Unaffected(i) == jobs[i].independent \/ "mode" \notin Environment

ServedInv ==
  /\ \A i \in JobIds : Unaffected(i) => Served(i)
  /\ cli.cmd = "protect" => "mode" \in Environment

\* A worker ends by itself or with the process.
LEMMA WorkersKept ==
  ASSUME TypeOK, [Next]_vars
  PROVE  \/ workers \subseteq workers'
         \/ Fail \/ RecoverEnds \/ \E i \in JobIds : WorkerStep(i)
<1> DEFINE Goal == workers \subseteq workers'
<1>1. UNCHANGED jobVars => Goal  BY DEF jobVars
<1>2. UNCHANGED workers => Goal  OBVIOUS
<1>3. \A js, s, e, b, n : Schedule(js, s, e, b, n) => Goal  BY DEF Schedule
<1> HIDE DEF Goal
<1>4. \A s : AllowSender(s) \/ MarkSpam(s) => Goal
  BY <1>2, <1>3 DEF AllowSender, MarkSpam
<1>5. ASSUME NEW s \in Senders, NEW m \in Messages, Receive(s, m) \/ Handle(s, m) PROVE Goal
  BY <1>1, <1>2, <1>3, <1>4, <1>5
     DEF Receive, Arrive, OwnerReleaseStarts, Handle, HandleSuppressed, HandleTrusted,
         HandleDecided, HandleEvidence, HandleMonitored, HandleIssue, HandleLateReply,
         HandleUnusableReply, HandleCorrectAnswer, HandleWrongAnswer
<1>6. ASSUME NEW s \in Senders, Continue(s) PROVE Goal
  <2>1. ASSUME AttemptsNotified(s) PROVE Goal
    BY <2>1, <1>1, <1>3, Zenon DEF AttemptsNotified
  <2>2. ASSUME TimeoutNotified(s) PROVE Goal
    BY <2>2, <1>1, <1>3, Zenon DEF TimeoutNotified
  <2> QED
    BY <1>1, <1>2, <1>4, <1>6, <2>1, <2>2
       DEF Continue, IssueSent, IssueArchived, IssueUnwound, FallbackArchived,
           AnswerRestored, OwnerRestored, LegitimateRestored, MarkLegitimate, SpamArchived,
           AllowRestored, DeletionEnds
<1>7. ASSUME NEW s \in Senders, TimerStep(s) \/ Operate(s) \/ Elapse(s) \/ OwnerWrites(s)
      PROVE  Goal
  BY <1>1, <1>2, <1>4, <1>7
     DEF TimerStep, TimerWakes, TimerReleases, TimerExpires, Operate, ReviewLegitimate,
         ReviewSpam, ReviewDismiss, CaseArchive, CaseForget, CaseAllow, ReleaseLegacy,
         MarkLegitimate, Elapse, DeadlineAdvances, SuppressionElapses, OwnerWrites
<1>8. ASSUME Command \/ MaintenanceCollects \/ MaintenanceProceeds \/ UNCHANGED vars
      PROVE  Goal
  <2>1. Command \/ UNCHANGED vars => Goal
    BY <1>1, <1>2
       DEF Command, CliChecksSender, CliWritesSender, CliCancels, CliDies, CliMonitor,
           CliChecksProtect, CliProtect, vars
  <2>2. PassWaits \/ (\E keys \in SUBSET Senders : PassPrunes(keys)) => Goal
    BY <1>1, <1>2 DEF PassWaits, PassPrunes
  <2> QED  BY <1>8, <2>1, <2>2, MaintenanceCases
<1>9. ASSUME Recover, ~RecoverEnds PROVE Goal
  BY <1>1, <1>9 DEF Recover, Restart, RecoverNext
<1> QED  BY <1>5, <1>6, <1>7, <1>8, <1>9 DEF Next, Goal

\* A job that claim_action accepts after a step was scheduled by it, or was acceptable
\* before: no step makes up for a revision that has moved on or a time that is over.
LEMMA AcceptedBefore ==
  ASSUME LockInv, LockInv', PendingJobIsCurrent, ServedInv, [Next]_vars, NEW i \in JobIds,
         Claimable(jobs'[i], row'[jobs'[i].sender], mode'), Unaffected(i)'
  PROVE  \/ i \in workers'
         \/ /\ jobs'[i] = jobs[i]
            /\ Claimable(jobs[i], row[jobs[i].sender], mode)
<1>a. TypeOK /\ SafeStep  BY NextSafe DEF LockInv
<1>1. jobs'[i].status = "pending"  BY DEF Claimable
<1>2. CASE i = nextJob /\ nextJob' # nextJob
  BY <1>2, <1>a DEF SafeStep, JobStep, JobsKept, JobsAdded, Schedule
<1>3. CASE jobs'[i] = jobs[i]
  <2>1. PICK s \in Senders : s = jobs[i].sender  BY <1>a, JobFields DEF TypeOK
  <2>2. /\ row[s].revision \in Nat /\ row'[s].revision \in Nat /\ jobs[i].expected \in Nat
    BY <1>a, JobFields, RowFields DEF TypeOK, LockInv
  <2>3. jobs[i].expected <= row[s].revision  BY <1>1, <1>3, <2>1 DEF PendingJobIsCurrent
  <2>4. /\ row'[s].status \in Restricted /\ row'[s].revision = jobs[i].expected
        /\ ~Expired(row'[s]) /\ (mode' = "protect" \/ jobs[i].independent)
    BY <1>3, <2>1 DEF Claimable
  <2>5. IsPending(jobs'[i], s)  BY <1>1, <1>3, <2>1 DEF IsPending
  <2>6. Advances(s)  BY <1>a DEF SafeStep
  <2>7. /\ row'[s].revision = row[s].revision /\ row[s].status = row'[s].status
        /\ row[s].until = "past" => row'[s].until = "past"
    BY <2>2, <2>3, <2>4, <2>5, <2>6 DEF Advances
  <2>8. mode = "protect" \/ jobs[i].independent
    <3>1. "mode" \notin Environment => mode' = mode
      BY <1>a, LoopSteps DEF CliMonitor, May, CliProtect, ServedInv
    <3> QED  BY <1>3, <2>4, <3>1 DEF Unaffected
  <2>9. Claimable(jobs[i], row[s], mode)
    BY <1>1, <1>3, <2>4, <2>7, <2>8 DEF Claimable, Expired
  <2> QED  BY <1>3, <2>1, <2>9
<1> QED  BY <1>1, <1>2, <1>3, PendingBefore

\* The worker of an acceptable job ends only in its deletion, and start-up finds every
\* open job again.
LEMMA NextServed ==
  ASSUME LockInv, LockInv', ClaimInv, PendingJobIsCurrent, ServedInv, [Next]_vars
  PROVE  ServedInv'
<1>a. TypeOK  BY DEF LockInv
<1>1. cli'.cmd = "protect" => "mode" \in Environment  BY <1>a, LoopSteps DEF ServedInv
<1>2. ASSUME NEW i \in JobIds, Unaffected(i)', svc' = "up",
             Claimable(jobs'[i], row'[jobs'[i].sender], mode')
      PROVE  i \in workers' \/ \E s \in Senders : Deleting(s)' /\ task'[s].job = i
  <2>1. CASE i \in workers'  BY <2>1
  <2>2. CASE jobs'[i] = jobs[i] /\ Claimable(jobs[i], row[jobs[i].sender], mode)
    <3>1. jobs[i].status = "pending" /\ Unaffected(i)
      BY <1>2, <2>2 DEF Claimable, Unaffected
    <3>2. ~Fail  BY <1>2 DEF Fail, Crash, CrashInsideAllow, GoesDown
    <3>3. CASE RecoverEnds  BY <3>1, <3>3 DEF RecoverEnds, PendingActions
    <3>4. CASE svc = "up" /\ ~RecoverEnds
      <4>1. i \in workers \/ \E s \in Senders : Deleting(s) /\ task[s].job = i
        BY <2>2, <3>1, <3>4 DEF ServedInv, Served
      <4>2. CASE i \in workers /\ i \notin workers'
        <5>1. PICK k \in JobIds : WorkerStep(k)
          BY <4>2, <3>2, <3>4, <1>a, WorkersKept
        <5>2. k = i
          BY <4>2, <5>1 DEF WorkerStep, WorkerGivesUp, WorkerClaims
        <5>3. WorkerClaims(i)
          BY <5>1, <5>2, <3>1, <2>2 DEF WorkerStep, WorkerGivesUp
        <5>4. PICK s \in Senders : s = jobs[i].sender  BY <1>a, JobFields DEF TypeOK
        <5>5. task' = [task EXCEPT ![s] = Doing("deleting", FALSE, FALSE, i)]
          BY <5>3, <5>4 DEF WorkerClaims, Become
        <5>6. task'[s] = Doing("deleting", FALSE, FALSE, i)  BY <5>5, <1>a, Zenon DEF TypeOK
        <5>7. task'[s].kind = "deleting" /\ task'[s].job = i  BY <5>6 DEF Doing
        <5> QED  BY <5>7 DEF Deleting
      <4>3. ASSUME NEW s \in Senders, Deleting(s), task[s].job = i
            PROVE  Deleting(s)' /\ task'[s].job = i
        <5>1. ~DeletionEnds(s)
          <6>1. SUFFICES ASSUME DeletionEnds(s) PROVE FALSE  OBVIOUS
          <6>2. PICK st \in {"completed", "failed"} : jobs' = FinishAction(jobs, i, st)
            BY <6>1, <4>3, Zenon DEF DeletionEnds
          <6>3. jobs[i] \in Job  BY <1>a DEF TypeOK
          <6>4. [jobs[i] EXCEPT !.status = st].status = st  BY <6>3, Zenon DEF Job
          <6>5. jobs' = [jobs EXCEPT ![i].status = st]
            BY <6>2, <3>1, Zenon DEF FinishAction
          <6>6. jobs'[i] = [jobs[i] EXCEPT !.status = st]
            BY <6>5, <1>a, Zenon DEF TypeOK
          <6>7. jobs'[i].status = st  BY <6>4, <6>6, Zenon
          <6> QED  BY <6>7, <2>2, <3>1
        <5>2. task'[s] = task[s]  BY <4>3, <5>1, <3>2, RequestHeld
        <5> QED  BY <4>3, <5>2 DEF Deleting
      <4> QED  BY <4>1, <4>2, <4>3
    <3> QED  BY <1>2, <1>a, <3>3, <3>4, LoopSteps
  <2> QED  BY <1>2, <2>1, <2>2, AcceptedBefore
<1>3. ASSUME NEW i \in JobIds, Unaffected(i)' PROVE Served(i)'
  BY <1>2, <1>3 DEF Served
<1> QED  BY <1>1, <1>3 DEF ServedInv

\* No job of the operator's is forgotten while the service is up, whatever crashed,
\* failed or was commanded before, and no other job as long as the mode stays what it
\* is: what claim_action would accept has a worker, or is being carried out.
THEOREM AcceptableJobsAreServed ==
  Spec => [](\A i \in JobIds : Unaffected(i) => Served(i))
<1>1. Init => ServedInv
  <2>1. NoCli.cmd = "none"  BY Zenon DEF NoCli
  <2> QED  BY <2>1 DEF Init, ServedInv, Served, Claimable
<1>2. LockInv /\ LockInv' /\ ClaimInv /\ PendingJobIsCurrent /\ ServedInv /\ [Next]_vars
      => ServedInv'
  BY NextServed
<1>3. ServedInv => \A i \in JobIds : Unaffected(i) => Served(i)  BY DEF ServedInv
<1> QED  BY <1>1, <1>2, <1>3, Locking, JobsAreCurrent, PTL DEF Spec

-----------------------------------------------------------------------------
(* What the service guarantees while no command writes a row behind its back *)

\* The service implements SenderLifecycle: each of its steps changes the standing of
\* every sender, and its deletions, as the lifecycle promises, or not at all.
THEOREM LifecycleImplemented ==
  ASSUME CliBudget = 0
  PROVE  Spec => ImplementsLifecycle
<1>1. Init => Lifecycle!LifecycleInit
  <2> SUFFICES ASSUME Init PROVE Lifecycle!LifecycleInit  OBVIOUS
  <2>1. ASSUME NEW s \in Senders
        PROVE  Standing(row[s]) = "unknown" /\ (task[s].kind = "deleting") = FALSE
    <3>1. row[s] = NoRow /\ task[s] = Idle  BY <2>1 DEF Init
    <3>2. NoRow.status = "unknown" /\ Idle.kind = "idle"
      BY Zenon DEF NoRow, Idle, Doing
    <3>3. row[s] \in Row  BY <2>1, InitTypes DEF TypeOK
    <3>4. Standing(row[s]) = "unknown"  BY <3>1, <3>2, <3>3, Standings
    <3> QED  BY <3>1, <3>2, <3>4
  <2> QED  BY <2>1 DEF Lifecycle!LifecycleInit
<1>2. ASSUME LockInv, LockInv', [Next]_vars
      PROVE  Lifecycle!LifecycleNext
  <2> SUFFICES ASSUME NEW s \in Senders
               PROVE  \/ Lifecycle!ChangeStanding(s) \/ Lifecycle!BeginDeletion(s)
                      \/ Lifecycle!EndDeletion(s) \/ Lifecycle!Rest(s)
    BY DEF Lifecycle!LifecycleNext
  <2>1. /\ row[s] \in Row /\ row'[s] \in Row /\ TypeOK
        /\ row[s].status \in Statuses /\ row'[s].status \in Statuses
    <3>1. row[s] \in Row /\ row'[s] \in Row /\ TypeOK  BY <1>2 DEF LockInv, TypeOK
    <3> QED  BY <3>1, Zenon DEF Row
  <2>2. Promised(s)  BY <1>2, NextKept DEF Kept, LockInv
  <2>3. CASE /\ Standing(row'[s]) = Standing(row[s])
             /\ Deleting(s)' => Deleting(s) \/ row[s].status = "suppressed"
    <3>1. row[s].status = "suppressed" => Standing(row[s]) \in Lifecycle!Suppressions
      BY <2>1, Standings DEF Lifecycle!Suppressions
    <3> QED
      BY <2>3, <3>1 DEF Deleting, Lifecycle!BeginDeletion, Lifecycle!EndDeletion,
                        Lifecycle!Rest
  <2>4. CASE /\ MayFollow(Standing(row[s]), Standing(row'[s]))
             /\ ~Deleting(s) /\ ~Deleting(s)'
    <3>1. Standing(row[s]) \in Lifecycle!Standings
      BY <2>1, Standings
         DEF Lifecycle!Standings, Lifecycle!Suppressions, Statuses, Starting,
             DashboardOnly, GatekeeperArchived, Restricted
    <3> QED
      BY <2>4, <3>1
         DEF MayFollow, Deleting, Lifecycle!ChangeStanding, Lifecycle!Moves,
             Lifecycle!Challenge, Lifecycle!Rescreen, Lifecycle!Pass,
             Lifecycle!Quarantine, Lifecycle!Fail, Lifecycle!Condemn,
             Lifecycle!OperatorCondemns, Lifecycle!Unarchive, Lifecycle!Lapse,
             Lifecycle!Forget, Lifecycle!Allow
  <2> QED  BY <2>2, <2>3, <2>4 DEF Promised
<1>3. LockInv /\ LockInv' /\ [Next]_vars =>
        [Lifecycle!LifecycleNext]_Lifecycle!lifecycleVars
  BY <1>2
<1> QED
  BY <1>1, <1>3, Locking, PTL DEF Spec, ImplementsLifecycle, Lifecycle!LifecycleSpec

\* A deletion in its request, as the invariant above describes it.
Isolated(s) ==
  Deleting(s) =>
    LET j == jobs[task[s].job]
    IN  /\ j.sender = s /\ j.status = "pending"
        /\ row[s].status \in Restricted
        /\ row[s].revision = j.expected
        /\ j.born = era[s]

\* A deletion is isolated from when its job is claimed until its request returns.
LEMMA NextIsolated ==
  ASSUME LockInv, ClaimInv, PendingJobIsCurrent, CliBudget = 0,
         "mode" \notin Environment, [Next]_vars,
         NEW s \in Senders, Isolated(s)
  PROVE  Isolated(s)'
<1>a. TypeOK /\ TypeOK' /\ SafeStep
  BY NextSafe, NextTypes DEF LockInv
<1> SUFFICES ASSUME Deleting(s)' PROVE Isolated(s)'  BY DEF Isolated
<1>1. CASE Deleting(s)
  <2> DEFINE i == task[s].job
  <2>1. /\ i \in JobIds /\ jobs[i].sender = s /\ jobs[i].status = "pending"
        /\ row[s].status \in Restricted /\ row[s].revision = jobs[i].expected
        /\ jobs[i].born = era[s]
    BY <1>1 DEF Isolated, ClaimInv
  <2>2. jobs'[i] = jobs[i]
    <3>1. ~CliMonitor /\ ~CliCancels
      BY DEF CliMonitor, May, CliCancels, LockInv, LoopInv
    <3> QED  BY <1>1, <2>1, <3>1, JobUntouched
  <2>3. /\ task'[s] = task[s]
        /\ row'[s].status = row[s].status /\ row'[s].revision = row[s].revision
    BY <1>1, LockHeld DEF CliWritesSender, LockInv, LoopInv
  <2>4. era'[s] = era[s]
    <3>1. Advances(s)  BY <1>a DEF SafeStep
    <3>2. IsPending(jobs'[i], s)  BY <2>1, <2>2 DEF IsPending
    <3>3. row[s].revision \in Nat  BY <1>a, RowFields DEF TypeOK
    <3> QED  BY <2>1, <2>3, <3>1, <3>2, <3>3 DEF Advances
  <2> QED  BY <2>1, <2>2, <2>3, <2>4 DEF Isolated
<1>2. CASE ~Deleting(s)
  <2>1. PICK i \in JobIds : WorkerClaims(i)
    BY <1>2, <1>a, OnlyClaimsDelete DEF NoNewDeletion, Deleting
  <2>2. /\ task'[s].job = i /\ jobs[i].sender = s
        /\ Claimable(jobs[i], row[s], mode)
    BY <1>2, <2>1, ClaimedJob
  <2>3. UNCHANGED <<jobs, row, era>>  BY <2>1 DEF WorkerClaims, rowVars
  <2>4. jobs[i].born = era[s]  BY <2>2 DEF Claimable, PendingJobIsCurrent
  <2> QED  BY <2>2, <2>3, <2>4 DEF Isolated, Claimable
<1> QED  BY <1>1, <1>2

\* While no command writes a row or changes the mode, a deletion keeps its job, its
\* restriction and its revision for as long as its request takes.
THEOREM DeletionsAreIsolated ==
  ASSUME CliBudget = 0, "mode" \notin Environment
  PROVE  Spec => []DeletionIsIsolated
<1> DEFINE I == \A s \in Senders : Isolated(s)
<1>1. Init => I
  <2> SUFFICES ASSUME Init, NEW s \in Senders PROVE ~Deleting(s)
    BY DEF Isolated
  <2>1. Idle.kind = "idle"  BY Zenon DEF Idle, Doing
  <2> QED  BY <2>1 DEF Init, Deleting
<1>2. I /\ LockInv /\ ClaimInv /\ PendingJobIsCurrent /\ [Next]_vars => I'
  BY NextIsolated
<1>3. I => DeletionIsIsolated  BY DEF Isolated, Deleting, DeletionIsIsolated
<1> QED  BY <1>1, <1>2, <1>3, Locking, JobsAreCurrent, PTL DEF Spec

=============================================================================

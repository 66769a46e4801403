----------------------------- MODULE SenderStore -----------------------------
(***************************************************************************)
(* The two tables of the SQLite store that decide what may be done to a    *)
(* private dialog: sender_state (one row per sender) and pending_actions   *)
(* (the persistent whole-dialog deletion jobs).  Every operator is one     *)
(* statement, or one transaction, of src/tg_pm_gatekeeper/store/*.py as a  *)
(* function from the old table contents to the new ones.                   *)
(*                                                                         *)
(* Data kept: what a guard of the program reads.  Times are kept as the    *)
(* outcome of the comparison the program makes with them, references as    *)
(* "present or NULL", and the expiry that identifies a challenge as the    *)
(* message whose handling issued it.                                       *)
(***************************************************************************)
EXTENDS Integers

CONSTANTS
  Senders,       \* derived sender keys
  Messages,      \* incoming private messages, each handled at most once
  NoChallenge,   \* challenge_expires_at IS NULL
  MaxJobs        \* bound: ids that pending_actions may hand out

ASSUME SenderStoreAssumption ==
  /\ Senders # {}
  /\ NoChallenge \notin Messages
  /\ MaxJobs \in Nat \ {0}

JobIds == 1 .. MaxJobs

-----------------------------------------------------------------------------
(* states.py and cli.py: the status values and the sets the code tests.    *)

Starting == {"challenge_issuing", "challenge_archiving"}
Restricted == {"quarantined", "suppressed"}
GatekeeperArchived == {"challenged"} \cup Restricted
DashboardOnly == Starting \cup GatekeeperArchived
Statuses == {"unknown", "provisional", "allowed"} \cup DashboardOnly

\* suppressed_until: NULL, in the future, or at or before the current time.
Until == {"null", "future", "past"}

Row == [status : Statuses,
        revision : Nat,
        profile : {"null", "standard", "strict"},
        expires : Messages \cup {NoChallenge},
        attempts : Nat,
        guidance : BOOLEAN,
        actionRef : BOOLEAN,        \* challenge_action_reference IS NOT NULL
        restrictionRef : BOOLEAN,   \* restriction_reference IS NOT NULL
        until : Until,
        archived : BOOLEAN]         \* archived_at IS NOT NULL

\* A sender without a row reads as unknown with revision 0.
NoRow == [status |-> "unknown", revision |-> 0, profile |-> "null",
          expires |-> NoChallenge, attempts |-> 0, guidance |-> FALSE,
          actionRef |-> FALSE, restrictionRef |-> FALSE,
          until |-> "null", archived |-> FALSE]

-----------------------------------------------------------------------------
(* sender_state updates *)

\* _set_state: every other column is reset and the revision moves on.
SetState(r, status, restrictionRef) ==
  [NoRow EXCEPT !.status = status, !.revision = r.revision + 1,
                !.restrictionRef = restrictionRef]

AllowRow(r) == SetState(r, "allowed", FALSE)
RevokeRow(r) == SetState(r, "unknown", FALSE)
ProvisionalRow(r) == SetState(r, "provisional", FALSE)
QuarantineRow(r, restrictionRef) == SetState(r, "quarantined", restrictionRef)

\* begin_challenge_issue keeps the revision and the suppression columns.
BeginChallengeIssue(r, token, profile, actionRef) ==
  [r EXCEPT !.status = "challenge_issuing", !.expires = token,
            !.profile = profile, !.actionRef = actionRef,
            !.restrictionRef = FALSE, !.guidance = FALSE, !.attempts = 0]

\* refresh_challenge_expiry and bind_challenge_message, both WHERE
\* status='challenge_issuing'.
BindChallenge(r) == [r EXCEPT !.status = "challenge_archiving"]

ActivateChallenge(r) ==
  [r EXCEPT !.status = "challenged", !.revision = @ + 1]

\* Mutant: the archiving phase is not rolled back.
ResetIssuingOnly(r) ==
  IF r.status = "challenge_issuing"
  THEN [r EXCEPT !.status = "unknown", !.profile = "null",
                 !.expires = NoChallenge, !.attempts = 0, !.guidance = FALSE,
                 !.actionRef = FALSE, !.restrictionRef = FALSE]
  ELSE r

\* reset_incomplete_challenge changes nothing outside the starting phases.
ResetIncomplete(r) ==
  IF r.status \in Starting
  THEN [r EXCEPT !.status = "unknown", !.profile = "null",
                 !.expires = NoChallenge, !.attempts = 0, !.guidance = FALSE,
                 !.actionRef = FALSE, !.restrictionRef = FALSE]
  ELSE r

\* The WHERE clause of expire_challenge, and its assignments.
Expires(r, token) == r.status = "challenged" /\ r.expires = token

ExpireChallenge(r, restrictionRef) ==
  [r EXCEPT !.status = "suppressed", !.revision = @ + 1, !.profile = "null",
            !.expires = NoChallenge, !.attempts = 0, !.guidance = FALSE,
            !.restrictionRef = restrictionRef, !.until = "future"]

\* suppress keeps the older references when it is given none (COALESCE).
SuppressRow(r, until, actionRef, restrictionRef) ==
  [NoRow EXCEPT !.status = "suppressed", !.revision = r.revision + 1,
                !.until = until,
                !.actionRef = actionRef \/ r.actionRef,
                !.restrictionRef = restrictionRef \/ r.restrictionRef]

\* Mutant: a suppression without an end counts as elapsed.
ExpiredOrNull(r) == r.status = "suppressed" /\ r.until # "future"

\* The WHERE clause of _release_expired_suppression, and its assignments.
Expired(r) == r.status = "suppressed" /\ r.until = "past"

ReleaseRow(r) ==
  [r EXCEPT !.status = "unknown", !.revision = @ + 1, !.until = "null",
            !.actionRef = FALSE, !.restrictionRef = FALSE, !.archived = FALSE]

\* A confirmed permanent suppression, and one that was archived.
Permanent(r) == r.status = "suppressed" /\ r.until = "null"
ArchivedPermanent(r) == Permanent(r) /\ r.archived

-----------------------------------------------------------------------------
(* pending_actions *)

\* "absent": the id was never handed out, or its row was erased.
JobStatuses == {"absent", "pending", "cancelled", "completed", "failed"}

\* born is a history field: the era of the sender's restriction that the job
\* was scheduled under (see Gatekeeper.era).  No guard reads it.
Job == [sender : Senders, expected : Nat, independent : BOOLEAN,
        status : JobStatuses, born : Nat]

IsOpen(j, s) == j.sender = s /\ j.status \in {"pending", "failed"}
IsPending(j, s) == j.sender = s /\ j.status = "pending"

\* Mutant: failed jobs are left open.
CancelPendingOnly(jobs, s) ==
  [i \in JobIds |-> IF IsPending(jobs[i], s)
                    THEN [jobs[i] EXCEPT !.status = "cancelled"]
                    ELSE jobs[i]]

\* resolve_sender_actions
CancelOpen(jobs, s) ==
  [i \in JobIds |-> IF IsOpen(jobs[i], s)
                    THEN [jobs[i] EXCEPT !.status = "cancelled"]
                    ELSE jobs[i]]

\* Mutants: the older job is left pending; the job expects one revision more.
ScheduleActionKeepsOld(jobs, id, s, expected, independent, born) ==
  [jobs EXCEPT ![id] = [sender |-> s, expected |-> expected,
                        independent |-> independent, status |-> "pending",
                        born |-> born]]

ScheduleActionAhead(jobs, id, s, expected, independent, born) ==
  [i \in JobIds |->
     IF i = id
     THEN [sender |-> s, expected |-> expected + 1, independent |-> independent,
           status |-> "pending", born |-> born]
     ELSE IF IsPending(jobs[i], s)
          THEN [jobs[i] EXCEPT !.status = "cancelled"]
          ELSE jobs[i]]

\* schedule_action: the sender's pending jobs are cancelled, then the new row
\* is inserted under the next AUTOINCREMENT id.
ScheduleAction(jobs, id, s, expected, independent, born) ==
  [i \in JobIds |->
     IF i = id
     THEN [sender |-> s, expected |-> expected, independent |-> independent,
           status |-> "pending", born |-> born]
     ELSE IF IsPending(jobs[i], s)
          THEN [jobs[i] EXCEPT !.status = "cancelled"]
          ELSE jobs[i]]

\* finish_action: WHERE id=? AND status='pending'.
FinishAction(jobs, id, status) ==
  IF jobs[id].status = "pending"
  THEN [jobs EXCEPT ![id].status = status]
  ELSE jobs

\* set_mode('monitor') cancels the automatic pending jobs of every sender.
CancelAutomatic(jobs) ==
  [i \in JobIds |->
     IF jobs[i].status = "pending" /\ ~jobs[i].independent
     THEN [jobs[i] EXCEPT !.status = "cancelled"]
     ELSE jobs[i]]

\* Rows deleted by _erase_sender_rows and by retention.
EraseJobs(jobs, ids) ==
  [i \in JobIds |-> IF i \in ids THEN [jobs[i] EXCEPT !.status = "absent"]
                                 ELSE jobs[i]]

JobsOf(jobs, s) == {i \in JobIds : jobs[i].sender = s}
HasOpenAction(jobs, s) == \E i \in JobIds : IsOpen(jobs[i], s)

\* Mutant: the claim is not conditional on the mode.
ClaimableInMonitor(j, r, mode) ==
  /\ j.status = "pending"
  /\ r.status \in Restricted
  /\ r.revision = j.expected
  /\ ~Expired(r)

\* claim_action: the conditions under which a job may be executed.
Claimable(j, r, mode) ==
  /\ j.status = "pending"
  /\ mode = "protect" \/ j.independent
  /\ r.status \in Restricted
  /\ r.revision = j.expected
  /\ ~Expired(r)

\* protect_preflight: pending jobs that no longer match their sender.
UnsafePending(jobs, row) ==
  \E i \in JobIds :
    /\ jobs[i].status = "pending"
    /\ \/ row[jobs[i].sender].status \notin Restricted
       \/ row[jobs[i].sender].revision # jobs[i].expected
=============================================================================

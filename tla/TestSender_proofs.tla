-------------------------- MODULE TestSender_proofs --------------------------
(***************************************************************************)
(* Proofs about the rounds of the test sender, for every choice of delays  *)
(* that the configuration admits, any number of rounds and any number of   *)
(* crashes.  Each property is inductive once it says what the holder of    *)
(* the sender lock has still to do: a result whose reset timer is missing  *)
(* has a handler that will set it, and a job that is due has a worker, for *)
(* which time waits, or a deletion under way.                              *)
(***************************************************************************)
EXTENDS TestSender, TLAPS

-----------------------------------------------------------------------------
(* Types *)

Task == [kind : {"idle", "issue", "restore", "passed", "warning", "notice", "delete"},
         at : Time]
JobType == [status : {"none", "pending", "completed", "failed", "cancelled"},
            revision : 0 .. MaxRevision, at : Later]

\* The expiry of a challenge leaves room for the grace of its timer.
Deadlines == row.expires <= MaxTime + Ttl

Types == TypeOK /\ Deadlines

\* The row that _set_state writes.
SetTo(n, st, t) ==
  /\ n \in Row
  /\ n.status = st /\ n.since = t /\ n.revision = row.revision + 1
  /\ n.expires = Never /\ n.until = Never /\ n.ref = FALSE

\* A status is written with its time, a new revision and nothing left over.
LEMMA Setting ==
  ASSUME TypeOK, CanSet, NEW st \in Statuses, NEW t \in Time
  PROVE  SetTo(SetState(row, st, t), st, t)
<1>1. row \in Row /\ row.revision < MaxRevision  BY DEF TypeOK, CanSet
<1>2. row.revision \in 0 .. MaxRevision  BY <1>1 DEF Row
<1>3. row.revision + 1 \in 0 .. MaxRevision  BY <1>1, <1>2, TestSenderAssumption
<1>4. Never \in Later  BY DEF Never, Later
<1> QED  BY <1>1, <1>3, <1>4 DEF SetState, Row, SetTo

\* Times that are set from the clock.
LEMMA Ahead ==
  ASSUME NEW t \in Time
  PROVE  /\ t \in Later /\ Never \in Later
         /\ t + Ttl \in Later /\ t + Ttl <= MaxTime + Ttl
         /\ t + Ttl + Grace \in Later
         /\ t + Suppression \in Later /\ t + ResetDelay \in Later
         /\ t + DeleteDelay \in Later
BY TestSenderAssumption DEF Time, Later, Never

\* expire_challenge.
LEMMA SuppressedRow ==
  ASSUME TypeOK, CanSet
  PROVE  /\ Suppressed \in Row
         /\ Suppressed.status = "suppressed" /\ Suppressed.since = now
         /\ Suppressed.revision = row.revision + 1
         /\ Suppressed.expires = Never /\ Suppressed.until = now + Suppression
<1> DEFINE s == SetState(row, "suppressed", now)
<1>1. SetTo(s, "suppressed", now)  BY Setting DEF TypeOK, Statuses
<1>2. now + Suppression \in Later  BY Ahead DEF TypeOK
<1>4. row.ref \in BOOLEAN  BY Zenon DEF TypeOK, Row
<1>3. Suppressed = [s EXCEPT !.until = now + Suppression, !.ref = row.ref]
  BY DEF Suppressed
<1> HIDE DEF s
<1> QED  BY <1>1, <1>2, <1>3, <1>4 DEF Row, SetTo

\* A sender settled before screening has the present row or one just set.
LEMMA SettledRow ==
  ASSUME TypeOK, CanSet
  PROVE  /\ Settled \in Row
         /\ \/ Settled = row
            \/ /\ Settled.status = "unknown" /\ Settled.expires = Never
               /\ \/ row.status = "allowed" \/ Expired(row)
                  \/ row.since + ResetDelay <= now
<1> DEFINE u == SetState(row, "unknown", now)
<1>1. SetTo(u, "unknown", now)  BY Setting DEF TypeOK, Statuses
<1>2. row \in Row  BY DEF TypeOK
<1>3. Settled = CASE row.status = "allowed" -> u
                  [] Expired(row) -> u
                  [] /\ row.status \in {"provisional", "quarantined"}
                     /\ row.since + ResetDelay <= now
                     /\ Resets(row, row.since) -> u
                  [] OTHER -> row
  BY DEF Settled
<1> HIDE DEF u
<1> QED  BY <1>1, <1>2, <1>3 DEF SetTo

\* The rows that the phases of a challenge write.
LEMMA PhaseRows ==
  ASSUME NEW r \in Row, NEW t \in Time
  PROVE  /\ \A ref \in BOOLEAN :
              LET n == [r EXCEPT !.status = "starting", !.since = t, !.expires = t + Ttl,
                                 !.ref = ref]
              IN  n \in Row /\ n.status = "starting" /\ n.expires = t + Ttl
         /\ LET n == [r EXCEPT !.status = "challenged", !.since = t, !.expires = t + Ttl]
            IN  n \in Row /\ n.status = "challenged" /\ n.expires = t + Ttl
         /\ LET n == [r EXCEPT !.status = "unknown", !.since = t, !.expires = Never,
                               !.ref = FALSE]
            IN  n \in Row /\ n.status = "unknown" /\ n.expires = Never
<1>1. t + Ttl \in Later /\ Never \in Later  BY Ahead
<1> QED  BY <1>1 DEF Row, Statuses

-----------------------------------------------------------------------------
(* The invariant *)

DownIsIdle == ~up => task = Idle

\* A reset timer waits for the whole delay, and a suppression outlasts it.
TimersFit ==
  /\ \A x \in resets : x.at = x.expected + ResetDelay
  /\ row.status = "suppressed" => row.until = row.since + Suppression

\* A result has its timer, or the handler that wrote it is about to set it.
ResultInv ==
  up /\ row.status \in Resettable /\ ~excused =>
    \/ ResetTimer(row.since) \in resets
    \/ task.kind \in {"passed", "notice"} /\ task.at = row.since

\* A pending job belongs to the failure that stands, and is deleted before the reset:
\* its worker is there and time waits for it, or it holds the lock already.
JobInv ==
  job.status = "pending" /\ ~stray =>
    /\ row.status = "quarantined" /\ row.revision = job.revision
    /\ job.at = row.since + DeleteDelay
    /\ up => \/ task.kind = "delete"
             \/ /\ task = Idle /\ job.at \in workers
                /\ now < row.since + ResetDelay

Inv == Types /\ DownIsIdle /\ TimersFit /\ ResultInv /\ JobInv

\* The numbers of a state, and the parts of its records.
LEMMA Fields ==
  ASSUME TypeOK
  PROVE  /\ now \in Nat /\ row.since \in Nat /\ row.revision \in Nat
         /\ task.at \in Nat /\ task.at \in Time /\ job.revision \in Nat /\ job.at \in Int
         /\ row.expires \in Int /\ row.until \in Int
         /\ row.status \in Statuses /\ row.since \in Time
         /\ Ttl \in Nat /\ Grace \in Nat /\ DeleteDelay \in Nat /\ ResetDelay \in Nat
         /\ Suppression \in Nat /\ DeleteDelay < ResetDelay /\ ResetDelay < Suppression
         /\ row.ref \in BOOLEAN
<1>1. /\ row.since \in Time /\ row.revision \in 0 .. MaxRevision /\ row.status \in Statuses
      /\ row.expires \in Later /\ row.until \in Later /\ row.ref \in BOOLEAN
  BY Zenon DEF TypeOK, Row
<1>2. task.at \in Time /\ job.revision \in 0 .. MaxRevision /\ job.at \in Later
  BY Zenon DEF TypeOK
<1>3. now \in Time  BY DEF TypeOK
<1>4. Later \subseteq Int /\ Time \subseteq Nat /\ 0 .. MaxRevision \subseteq Nat
  BY TestSenderAssumption DEF Later, Time, Never
<1>5. /\ now \in Nat /\ row.since \in Nat /\ row.revision \in Nat /\ task.at \in Nat
      /\ job.revision \in Nat /\ job.at \in Int /\ row.expires \in Int /\ row.until \in Int
  BY <1>1, <1>2, <1>3, <1>4, Zenon
<1>6. /\ Ttl \in Nat /\ Grace \in Nat /\ DeleteDelay \in Nat /\ ResetDelay \in Nat
      /\ Suppression \in Nat /\ DeleteDelay < ResetDelay /\ ResetDelay < Suppression
  BY TestSenderAssumption
<1> QED  BY <1>1, <1>2, <1>5, <1>6, Zenon

\* A timer that resets the state written at a time.
LEMMA ResetTimers ==
  ASSUME NEW t \in Time
  PROVE  /\ ResetTimer(t) \in [expected : Time, at : Later]
         /\ ResetTimer(t).expected = t /\ ResetTimer(t).at = t + ResetDelay
BY Ahead DEF ResetTimer

\* The tasks are those of the model.
LEMMA Tasks ==
  /\ Idle.kind = "idle" /\ 0 \in Time
  /\ \A k \in {"idle", "issue", "restore", "passed", "warning", "notice", "delete"},
        t \in Time : [kind |-> k, at |-> t] \in Task
BY TestSenderAssumption DEF Idle, Time, Task

\* A released lock is a task.
LEMMA IdleTask == Idle \in Task
BY Tasks DEF Idle

\* CancelOpen closes a job and changes nothing else of it.
LEMMA Cancelled ==
  ASSUME job \in JobType
  PROVE  CancelOpen(job) \in JobType /\ CancelOpen(job).status # "pending"
<1>1. CASE job.status \in {"pending", "failed"}
  BY <1>1 DEF CancelOpen, JobType
<1>2. CASE job.status \notin {"pending", "failed"}
  BY <1>2 DEF CancelOpen, JobType
<1> QED  BY <1>1, <1>2

\* The test sender starts out absent, without a job.
LEMMA InitInv == Init => Inv
<1> SUFFICES ASSUME Init PROVE Inv  OBVIOUS
<1>1. 0 \in Time /\ Never \in Later /\ 0 \in Later /\ 0 \in 0 .. MaxRevision
      /\ 0 \in 0 .. MaxCrashes /\ Never <= MaxTime + Ttl
  BY TestSenderAssumption DEF Time, Later, Never
<1>2. row \in Row /\ row.status = "unknown" /\ row.expires = Never
  BY <1>1 DEF Init, Row, Statuses
<1>3. job \in JobType /\ job.status = "none"  BY <1>1 DEF Init, JobType
<1>4. Types
  BY <1>1, <1>2, <1>3, IdleTask DEF Init, Types, TypeOK, Deadlines, Task, JobType
<1> QED
  BY <1>2, <1>3, <1>4 DEF Init, Inv, DownIsIdle, TimersFit, ResultInv, JobInv, Resettable

-----------------------------------------------------------------------------
(* The steps of a round *)

\* A challenge that begins under the lock.
LEMMA IssuesKeep ==
  ASSUME Inv, Issues
  PROVE  Inv'
<1>a. Types /\ TypeOK /\ CanSet /\ Free  BY DEF Inv, Types, Issues
<1>1. /\ row' \in Row /\ row'.status = "starting" /\ row'.expires <= MaxTime + Ttl
  <2>1. PICK ref \in BOOLEAN :
          row' = [Settled EXCEPT !.status = "starting", !.since = now,
                                 !.expires = now + Ttl, !.ref = ref]
    BY DEF Issues
  <2>2. Settled \in Row /\ now \in Time  BY <1>a, SettledRow DEF TypeOK
  <2> DEFINE n == [Settled EXCEPT !.status = "starting", !.since = now,
                                  !.expires = now + Ttl, !.ref = ref]
  <2>3. n \in Row /\ n.status = "starting" /\ n.expires = now + Ttl
    <3>1. now + Ttl \in Later  BY <2>2, Ahead
    <3> QED  BY <2>2, <3>1 DEF Row, Statuses
  <2>4. row' = n  BY <2>1
  <2> HIDE DEF n
  <2> QED  BY <2>2, <2>3, <2>4, Ahead
<1>2. job' \in JobType /\ (job' = job \/ job'.status # "pending")
  BY <1>a, Cancelled DEF Issues, SettledJob, TypeOK, JobType
<1>3. task' \in Task /\ task'.kind = "issue"
  BY <1>a, Tasks DEF Issues, TypeOK
<1>4. Types'
  BY <1>a, <1>1, <1>2, <1>3
     DEF Types, TypeOK, Deadlines, Issues, memory, Task, JobType
<1>5. job'.status = "pending" => stray
  <2>1. Settled = row => row.status # "quarantined"
    BY DEF Issues
  <2>2. Settled = row \/ row.status # "quarantined" \/ row.since + ResetDelay <= now
    BY <1>a, SettledRow DEF Expired
  <2>3. task.kind = "idle"  BY <1>a, Tasks DEF Free
  <2> QED  BY <1>a, <1>2, <2>1, <2>2, <2>3, Fields DEF Inv, JobInv, Free
<1> QED
  BY <1>1, <1>4, <1>5, <1>a
     DEF Inv, DownIsIdle, TimersFit, ResultInv, JobInv, Issues, memory, Free, Resettable

\* While a handler other than a deletion holds the lock no job is pending.
LEMMA NoJobMeanwhile ==
  Inv /\ task.kind \notin {"idle", "delete"} => job.status # "pending" \/ stray
BY Tasks DEF Inv, JobInv, DownIsIdle

\* The challenge is sent, or it is not.
LEMMA IssueEndsKeeps ==
  ASSUME Inv, IssueEnds
  PROVE  Inv'
<1>a. Types /\ TypeOK /\ now \in Time /\ row \in Row  BY DEF Inv, Types, TypeOK
<1>b. up /\ (job.status # "pending" \/ stray)
  BY NoJobMeanwhile, Tasks DEF Inv, DownIsIdle, IssueEnds
<1>1. \/ /\ row' \in Row /\ row'.status = "challenged" /\ row'.expires = now + Ttl
      \/ /\ row' \in Row /\ row'.status = "unknown" /\ row'.expires = Never
      \/ row' = row
  <2> DEFINE c == [row EXCEPT !.status = "challenged", !.since = now, !.expires = now + Ttl]
             u == [row EXCEPT !.status = "unknown", !.since = now, !.expires = Never,
                              !.ref = FALSE]
  <2>1. /\ c \in Row /\ c.status = "challenged" /\ c.expires = now + Ttl
        /\ u \in Row /\ u.status = "unknown" /\ u.expires = Never
    BY <1>a, PhaseRows
  <2>2. row' \in {c, u, row}  BY DEF IssueEnds
  <2> HIDE DEF c, u
  <2> QED  BY <2>1, <2>2
<1>2. timeout' \in Later /\ prompt' \in BOOLEAN
  BY <1>a, Ahead DEF IssueEnds, TypeOK
<1>3. row' \in Row /\ row'.expires <= MaxTime + Ttl
  BY <1>a, <1>1, Ahead, TestSenderAssumption DEF Never, Types, Deadlines
<1>4. Types'
  BY <1>a, <1>2, <1>3, IdleTask DEF IssueEnds, Types, TypeOK, Deadlines, Task
<1>5. ResultInv'
  <2>1. CASE row' = row
    BY <2>1 DEF IssueEnds, Inv, ResultInv, ResetTimer
  <2>2. CASE row'.status \in {"challenged", "unknown"}
    BY <2>2 DEF ResultInv, Resettable
  <2> QED  BY <1>1, <2>1, <2>2
<1> QED
  BY <1>b, <1>1, <1>4, <1>5 DEF Inv, DownIsIdle, TimersFit, JobInv, IssueEnds

\* The last answer: the right one, or one too many.
LEMMA AnswersKeep ==
  ASSUME Inv, AnswersCorrectly \/ ExhaustsAttempts
  PROVE  Inv'
<1>a. Types /\ TypeOK /\ now \in Time /\ Free /\ row.status = "challenged"
  BY DEF Inv, Types, TypeOK, AnswersCorrectly, ExhaustsAttempts
<1>1. task' \in Task /\ timeout' \in Later
  BY <1>a, Tasks, Ahead DEF AnswersCorrectly, ExhaustsAttempts, memory, TypeOK
<1>2. Types'
  BY <1>a, <1>1 DEF AnswersCorrectly, ExhaustsAttempts, memory, Types, TypeOK, Deadlines, Task
<1> QED
  BY <1>a, <1>2 DEF AnswersCorrectly, ExhaustsAttempts, memory, Inv, DownIsIdle, TimersFit,
                    ResultInv, JobInv, Resettable, Free

\* The dialog of a sender who passed is restored.
LEMMA RestoreEndsKeeps ==
  ASSUME Inv, RestoreEnds
  PROVE  Inv'
<1>a. Types /\ TypeOK /\ task \in Task /\ task.at \in Time
  BY Fields DEF Inv, Types, TypeOK, Task
<1>b. up /\ (job.status # "pending" \/ stray)
  BY NoJobMeanwhile, Tasks DEF Inv, DownIsIdle, RestoreEnds
<1>1. CASE /\ CanSet /\ row' = SetState(row, "provisional", task.at) /\ timeout' = Never
           /\ task' = [task EXCEPT !.kind = "passed"]
  <2>1. SetTo(row', "provisional", task.at)  BY <1>1, <1>a, Setting DEF Statuses
  <2>2. task' \in Task /\ task'.kind = "passed" /\ task'.at = task.at
    BY <1>1, <1>a DEF Task
  <2>3. Never \in Later /\ Never <= MaxTime + Ttl
    BY TestSenderAssumption DEF Later, Never
  <2>4. Types'
    BY <1>1, <1>a, <2>1, <2>2, <2>3
       DEF RestoreEnds, Types, TypeOK, Deadlines, Task, SetTo
  <2> QED
    BY <1>b, <2>1, <2>2, <2>4
       DEF RestoreEnds, Inv, DownIsIdle, TimersFit, ResultInv, JobInv, SetTo
<1>2. CASE task' = Idle /\ UNCHANGED <<row, timeout>>
  <2>1. Types'
    BY <1>2, <1>a, IdleTask DEF RestoreEnds, Types, TypeOK, Deadlines, Task
  <2> QED
    BY <1>b, <1>2, <2>1
       DEF RestoreEnds, Inv, DownIsIdle, TimersFit, ResultInv, JobInv, ResetTimer
<1> QED  BY <1>1, <1>2 DEF RestoreEnds

\* The handler that wrote the result sets its timer.
LEMMA TimerIsSet ==
  ASSUME Inv, PassedEnds \/ NoticeEnds
  PROVE  Inv'
<1>a. Types /\ TypeOK /\ task.at \in Time  BY Fields DEF Inv, Types, TypeOK
<1>b. up /\ (job.status # "pending" \/ stray)
  BY NoJobMeanwhile, Tasks DEF Inv, DownIsIdle, PassedEnds, NoticeEnds
<1>1. /\ resets' = resets \cup {ResetTimer(task.at)} /\ task' = Idle
      /\ UNCHANGED <<now, row, job, timeout, workers, prompt, up, crashes,
                     cancelling, excused, stray>>
  BY DEF PassedEnds, NoticeEnds
<1>2. /\ ResetTimer(task.at) \in [expected : Time, at : Later]
      /\ ResetTimer(task.at).expected = task.at
      /\ ResetTimer(task.at).at = task.at + ResetDelay
      /\ task.at + DeleteDelay \in Later
  BY <1>a, ResetTimers, Ahead
<1>3. cleanups' \subseteq Later  BY <1>a, <1>2 DEF PassedEnds, NoticeEnds, TypeOK
<1>4. Types'
  BY <1>1, <1>2, <1>3, <1>a, IdleTask DEF Types, TypeOK, Deadlines, Task
<1>5. TimersFit'  BY <1>1, <1>2 DEF Inv, TimersFit
<1>6. ResultInv'
  <2> SUFFICES ASSUME row.status \in Resettable, ~excused
               PROVE  ResetTimer(row.since) \in resets'
    BY <1>1 DEF ResultInv, ResetTimer
  <2> QED  BY <1>1, <1>b DEF Inv, ResultInv
<1> QED  BY <1>b, <1>1, <1>4, <1>5, <1>6 DEF Inv, DownIsIdle, JobInv

\* The warning is sent and the deletion is planned, or neither.
LEMMA WarningEndsKeeps ==
  ASSUME Inv, WarningEnds
  PROVE  Inv'
<1>a. Types /\ TypeOK /\ task.at \in Time /\ CanSet
  BY Fields DEF Inv, Types, TypeOK, WarningEnds
<1>b. up /\ (job.status # "pending" \/ stray)
  BY NoJobMeanwhile, Tasks DEF Inv, DownIsIdle, WarningEnds
<1>1. SetTo(row', "quarantined", task.at) /\ task' = Idle
  BY <1>a, Setting DEF Statuses, WarningEnds
<1>2. /\ ResetTimer(task.at) \in [expected : Time, at : Later]
      /\ ResetTimer(task.at).expected = task.at
      /\ ResetTimer(task.at).at = task.at + ResetDelay
      /\ task.at + DeleteDelay \in Later
      /\ Never <= MaxTime + Ttl
  BY <1>a, ResetTimers, Ahead, TestSenderAssumption DEF Never
<1>3. CASE /\ resets' = resets \cup {ResetTimer(task.at)}
           /\ job' = [status |-> "pending", revision |-> row'.revision,
                      at |-> DeletionTime(task.at)]
           /\ workers' = workers \cup {job'.at}
           /\ excused' = FALSE
           /\ stray' = ~(now < task.at + ResetDelay)
  <2>1. /\ job' \in JobType /\ job'.revision = row'.revision
        /\ job'.at = task.at + DeleteDelay
    BY <1>1, <1>2, <1>3 DEF JobType, DeletionTime, SetTo, Row
  <2>2. stray' \in BOOLEAN  BY <1>3, Zenon
  <2>3. Types'
    BY <1>1, <1>2, <1>3, <1>a, <2>1, <2>2, IdleTask
       DEF WarningEnds, Types, TypeOK, Deadlines, Task, JobType, SetTo
  <2>4. TimersFit'  BY <1>1, <1>2, <1>3 DEF Inv, TimersFit, SetTo
  <2>5. ResultInv'  BY <1>1, <1>3 DEF ResultInv, ResetTimer, SetTo
  <2>6. JobInv'
    <3>2. stray' \/ now < task.at + ResetDelay  BY <1>3, Zenon
    <3>3. UNCHANGED now /\ job'.at \in workers'  BY <1>3 DEF WarningEnds
    <3> QED  BY <1>1, <2>1, <3>2, <3>3 DEF JobInv, SetTo
  <2> QED  BY <1>1, <2>3, <2>4, <2>5, <2>6 DEF Inv, DownIsIdle
<1>4. CASE excused' = TRUE /\ UNCHANGED <<resets, job, workers, stray>>
  <2>1. Types'
    BY <1>1, <1>2, <1>4, <1>a, IdleTask
       DEF WarningEnds, Types, TypeOK, Deadlines, Task, SetTo
  <2> QED
    BY <1>b, <1>1, <1>4, <2>1
       DEF WarningEnds, Inv, DownIsIdle, TimersFit, ResultInv, JobInv, SetTo
<1> QED  BY <1>3, <1>4 DEF WarningEnds

\* A challenge that times out, and a timer that finds it answered.
LEMMA TimesOut ==
  ASSUME Inv, AnswersLate \/ TimeoutFires
  PROVE  Inv'
<1>a. Types /\ TypeOK /\ now \in Time /\ Free /\ CanSet
  BY DEF Inv, Types, TypeOK, AnswersLate, TimeoutFires
<1>b. task.kind = "idle"  BY <1>a, Tasks DEF Free
<1>1. /\ timeout' = Never
      /\ UNCHANGED <<now, job, resets, cleanups, workers, prompt, up, crashes, cancelling,
                     stray>>
  BY DEF AnswersLate, TimeoutFires
<1>2. Never \in Later /\ Never <= MaxTime + Ttl
  BY TestSenderAssumption DEF Later, Never
<1>3. CASE row.status = "challenged"
  <2>1. row' = Suppressed  BY <1>3 DEF AnswersLate, TimeoutFires
  <2>2. /\ row' \in Row /\ row'.status = "suppressed" /\ row'.since = now
        /\ row'.expires = Never /\ row'.until = now + Suppression
    BY <1>a, <2>1, SuppressedRow
  <2>3. \/ task' = [kind |-> "notice", at |-> now] /\ UNCHANGED excused
        \/ excused' = TRUE /\ UNCHANGED task
    BY <1>3 DEF AnswersLate, TimeoutFires
  <2>4. task' \in Task  BY <1>a, <2>3, Tasks DEF TypeOK, Task
  <2>5. Types'
    BY <1>1, <1>2, <1>a, <2>2, <2>3, <2>4 DEF Types, TypeOK, Deadlines, Task
  <2>6. ResultInv'  BY <2>2, <2>3 DEF ResultInv
  <2> QED
    BY <1>1, <1>3, <1>a, <2>2, <2>5, <2>6 DEF Inv, DownIsIdle, TimersFit, JobInv, Free
<1>4. CASE row.status # "challenged"
  <2>1. UNCHANGED <<row, task, excused>>  BY <1>4 DEF AnswersLate, TimeoutFires
  <2>2. Types'  BY <1>1, <1>2, <1>a, <2>1 DEF Types, TypeOK, Deadlines
  <2> QED
    BY <1>1, <2>1, <2>2 DEF Inv, DownIsIdle, TimersFit, ResultInv, JobInv, ResetTimer
<1> QED  BY <1>3, <1>4

-----------------------------------------------------------------------------
(* Timers, commands, crashes and time *)

\* A reset timer puts back the result it was set for, and takes no other's timer.
LEMMA ResetFiresKeeps ==
  ASSUME Inv, ResetFires
  PROVE  Inv'
<1>a. Types /\ TypeOK /\ now \in Time /\ Free /\ task.kind = "idle"
  BY Tasks DEF Inv, Types, TypeOK, ResetFires, Free
<1>1. PICK x \in resets :
        /\ x.at <= now /\ resets' = resets \ {x}
        /\ IF Resets(row, x.expected)
           THEN CanSet /\ row' = SetState(row, "unknown", now)
           ELSE UNCHANGED row
  BY DEF ResetFires
<1>2. /\ UNCHANGED <<now, job, task, timeout, cleanups, workers, prompt, up, crashes,
                     cancelling, excused, stray>>
  BY DEF ResetFires
<1>3. CASE Resets(row, x.expected)
  <2>1. SetTo(row', "unknown", now)  BY <1>1, <1>3, <1>a, Setting DEF Statuses
  <2>2. Never <= MaxTime + Ttl  BY TestSenderAssumption DEF Never
  <2>3. Types'  BY <1>1, <1>2, <1>a, <2>1, <2>2 DEF Types, TypeOK, Deadlines, SetTo
  <2>4. job.status # "pending" \/ stray
    <3>1. x.at = x.expected + ResetDelay /\ x.expected = row.since
      BY <1>1, <1>3 DEF Inv, TimersFit, Resets
    <3>2. ~(now < row.since + ResetDelay)  BY <1>1, <1>a, <3>1, Fields
    <3> QED  BY <1>a, <3>2 DEF Inv, JobInv, Free
  <2> QED
    BY <1>1, <1>2, <2>1, <2>3, <2>4
       DEF Inv, DownIsIdle, TimersFit, ResultInv, JobInv, SetTo, Resettable
<1>4. CASE ~Resets(row, x.expected)
  <2>1. UNCHANGED row  BY <1>1, <1>4
  <2>2. Types'  BY <1>1, <1>2, <1>a, <2>1 DEF Types, TypeOK, Deadlines
  <2>3. ResultInv'
    <3> SUFFICES ASSUME row.status \in Resettable, ~excused, up
                 PROVE  ResetTimer(row.since) \in resets'
      BY <1>2, <2>1 DEF ResultInv, ResetTimer
    <3>1. ResetTimer(row.since) \in resets  BY <1>a DEF Inv, ResultInv
    <3>2. ResetTimer(row.since).expected = row.since  BY <1>a, Fields, ResetTimers
    <3>3. x.expected # row.since  BY <1>4 DEF Resets
    <3> QED  BY <1>1, <3>1, <3>2, <3>3
  <2> QED
    BY <1>1, <1>2, <2>1, <2>2, <2>3 DEF Inv, DownIsIdle, TimersFit, JobInv
<1> QED  BY <1>3, <1>4

\* The worker finds its job claimable, unless there is none.
LEMMA DeletionFiresKeeps ==
  ASSUME Inv, DeletionFires
  PROVE  Inv'
<1>a. Types /\ TypeOK /\ now \in Time /\ Free /\ task.kind = "idle"
  BY Tasks DEF Inv, Types, TypeOK, DeletionFires, Free
<1>1. /\ workers' \subseteq workers
      /\ task' = IF Claimable THEN [kind |-> "delete", at |-> now] ELSE Idle
      /\ UNCHANGED <<now, row, job, timeout, resets, cleanups, prompt, up, crashes,
                     cancelling, excused, stray>>
  BY DEF DeletionFires
<1>2. task' \in Task  BY <1>1, <1>a, Tasks, IdleTask
<1>3. Types'  BY <1>1, <1>2, <1>a DEF Types, TypeOK, Deadlines, Task
<1>4. JobInv'
  <2>1. job.status = "pending" /\ ~stray => Claimable
    BY DEF Inv, JobInv, Claimable, Restricted, Expired
  <2>2. Claimable => task'.kind = "delete"  BY <1>1
  <2> QED  BY <1>1, <2>1, <2>2 DEF Inv, JobInv
<1>5. ResultInv'
  BY <1>1, <1>a DEF Inv, ResultInv, ResetTimer
<1> QED  BY <1>1, <1>3, <1>4, <1>5, <1>a DEF Inv, DownIsIdle, TimersFit, Free

\* The deletion has run.
LEMMA DeletionEndsKeeps ==
  ASSUME Inv, DeletionEnds
  PROVE  Inv'
<1>a. Types /\ TypeOK /\ job \in JobType  BY DEF Inv, Types, TypeOK, JobType
<1>b. up  BY Tasks DEF Inv, DownIsIdle, DeletionEnds
<1>1. job' \in JobType /\ job'.status # "pending"
  <2>1. PICK result \in {"completed", "failed"} :
          job' = IF job.status = "pending" THEN [job EXCEPT !.status = result] ELSE job
    BY DEF DeletionEnds
  <2>2. CASE job.status = "pending"  BY <1>a, <2>1, <2>2 DEF JobType
  <2>3. CASE job.status # "pending"  BY <1>a, <2>1, <2>3
  <2> QED  BY <2>2, <2>3
<1>2. Types'
  BY <1>1, <1>a, IdleTask DEF DeletionEnds, memory, Types, TypeOK, Deadlines, Task, JobType
<1> QED
  BY <1>b, <1>1, <1>2
     DEF DeletionEnds, memory, Inv, DownIsIdle, TimersFit, ResultInv, JobInv, ResetTimer

\* Maintenance ends a suppression that is over with its jobs, and so does a message.
LEMMA ReleaseKeeps ==
  ASSUME Inv, ReleasesExpired
  PROVE  Inv'
<1>a. Types /\ TypeOK /\ now \in Time /\ CanSet
  BY DEF Inv, Types, TypeOK, ReleasesExpired
<1>1. SetTo(row', "unknown", now)
  BY <1>a, Setting DEF ReleasesExpired, Statuses
<1>2. job' \in JobType /\ job'.status # "pending"
  BY <1>a, Cancelled DEF ReleasesExpired, TypeOK, JobType
<1>3. UNCHANGED <<now, task, memory, prompt, up, crashes, cancelling, excused, stray>>
  BY DEF ReleasesExpired
<1>4. Never <= MaxTime + Ttl  BY TestSenderAssumption DEF Never
<1>5. Types'
  BY <1>1, <1>2, <1>3, <1>4, <1>a DEF Types, TypeOK, Deadlines, memory, JobType, SetTo
<1> QED
  BY <1>1, <1>2, <1>3, <1>5
     DEF Inv, DownIsIdle, TimersFit, ResultInv, JobInv, memory, SetTo, Resettable

\* A command writes the row and leaves the job to its second transaction.
LEMMA CliAllowsKeeps ==
  ASSUME Inv, CliAllows
  PROVE  Inv'
<1>a. Types /\ TypeOK /\ now \in Time /\ CanSet
  BY DEF Inv, Types, TypeOK, CliAllows
<1>1. SetTo(row', "allowed", now)
  BY <1>a, Setting DEF CliAllows, Statuses
<1>2. UNCHANGED <<now, job, task, memory, prompt, up, crashes, excused>> /\ cancelling' = TRUE
  BY DEF CliAllows
<1>3. stray' \in BOOLEAN /\ (job.status = "pending" => stray')
  <2>1. stray' = (stray \/ job.status = "pending")  BY DEF CliAllows
  <2> QED  BY <2>1, Zenon
<1>4. Never <= MaxTime + Ttl  BY TestSenderAssumption DEF Never
<1>5. Types'
  BY <1>1, <1>2, <1>3, <1>4, <1>a DEF Types, TypeOK, Deadlines, memory, SetTo
<1> QED
  BY <1>1, <1>2, <1>3, <1>5
     DEF Inv, DownIsIdle, TimersFit, ResultInv, JobInv, memory, SetTo, Resettable

\* The second transaction of a command leaves no job pending, whatever has happened since.
LEMMA CliCancelsKeeps ==
  ASSUME Inv, CliCancels
  PROVE  Inv'
<1>a. Types /\ TypeOK  BY DEF Inv, Types
<1>1. job' \in JobType /\ job'.status # "pending"
  BY <1>a, Cancelled DEF CliCancels, TypeOK, JobType
<1>2. /\ UNCHANGED <<now, row, task, memory, prompt, up, crashes, excused, stray>>
      /\ cancelling' = FALSE
  BY DEF CliCancels
<1>3. Types'
  BY <1>1, <1>2, <1>a DEF Types, TypeOK, Deadlines, memory, JobType
<1> QED
  BY <1>1, <1>2, <1>3
     DEF Inv, DownIsIdle, TimersFit, ResultInv, JobInv, ResetTimer, memory

\* A crash loses the task and the timers and keeps the rows.
LEMMA CrashKeeps ==
  ASSUME Inv, Crash
  PROVE  Inv'
<1>1. Types /\ TypeOK /\ Never \in Later  BY DEF Inv, Types, Never, Later
<1>2. crashes' \in 0 .. MaxCrashes
  BY <1>1, TestSenderAssumption DEF Crash, TypeOK
<1>3. Types'
  BY <1>1, <1>2, IdleTask DEF Crash, Types, TypeOK, Deadlines, Task
<1> QED  BY <1>3 DEF Crash, Inv, DownIsIdle, TimersFit, ResultInv, JobInv

\* Recovery sets the timers again that the crash has lost.
LEMMA RestartKeeps ==
  ASSUME Inv, Restart
  PROVE  Inv'
<1>a. Types /\ TypeOK /\ now \in Time /\ row \in Row /\ row.since \in Time /\ task = Idle
  BY Fields DEF Inv, Types, TypeOK, Restart, DownIsIdle
<1>1. /\ ResetTimer(row.since) \in [expected : Time, at : Later]
      /\ ResetTimer(row.since).expected = row.since
      /\ ResetTimer(row.since).at = row.since + ResetDelay
  BY <1>a, ResetTimers
<1>2. timeout' \in Later
  <2>1. row.expires \in Int /\ row.expires <= MaxTime + Ttl /\ row.expires \in Later
        /\ Grace \in Nat /\ Never \in Later
    BY <1>a, Fields, Ahead DEF Types, Deadlines, Row
  <2>2. row.expires + Grace \in Later
    BY <2>1, TestSenderAssumption DEF Later, Never, Time
  <2> QED  BY <2>1, <2>2 DEF Restart
<1>3. \/ row' = row
      \/ /\ row.status = "starting" /\ row' \in Row /\ row'.status = "unknown"
         /\ row'.expires = Never
  <2> DEFINE u == [row EXCEPT !.status = "unknown", !.since = now, !.expires = Never,
                              !.ref = FALSE]
  <2>1. u \in Row /\ u.status = "unknown" /\ u.expires = Never  BY <1>a, PhaseRows
  <2>2. row' = row \/ (row' = u /\ row.status = "starting")  BY DEF Restart
  <2> HIDE DEF u
  <2> QED  BY <2>1, <2>2
<1>4. row' \in Row /\ row'.expires <= MaxTime + Ttl
  BY <1>3, <1>a, TestSenderAssumption DEF Types, Deadlines, Never
<1>5. task' \in Task /\ (row.status # "starting" => task' = Idle)
  BY <1>a, Tasks, IdleTask DEF Restart
<1>6. resets' \subseteq [expected : Time, at : Later] /\ workers' \subseteq Later
  BY <1>1, <1>a DEF Restart, TypeOK
<1>7. excused' \in BOOLEAN /\ stray' \in BOOLEAN
  <2>1. /\ excused' = (row.status = "suppressed")
        /\ stray' = (stray \/ (job.status = "pending" /\ now >= row.since + ResetDelay))
    BY DEF Restart
  <2> QED  BY <2>1, Zenon
<1>8. Types'
  BY <1>2, <1>4, <1>5, <1>6, <1>7, <1>a DEF Restart, Types, TypeOK, Deadlines, Task
<1>9. TimersFit'
  BY <1>1, <1>3 DEF Restart, Inv, TimersFit
<1>10. ResultInv'
  <2>1. excused' \/ row.status # "suppressed"  BY DEF Restart
  <2>2. Recovered(row.status) => ResetTimer(row.since) \in resets'  BY DEF Restart
  <2> QED  BY <1>3, <2>1, <2>2 DEF ResultInv, ResetTimer, Recovered, Resettable
<1>11. JobInv'
  <2> SUFFICES ASSUME job.status = "pending", ~stray'
               PROVE  /\ row'.status = "quarantined" /\ row'.revision = job.revision
                      /\ job.at = row'.since + DeleteDelay
                      /\ task' = Idle /\ job.at \in workers'
                      /\ now < row'.since + ResetDelay
    BY DEF Restart, JobInv
  <2>1. stray' = (stray \/ (job.status = "pending" /\ now >= row.since + ResetDelay))
    BY DEF Restart
  <2>2. ~stray /\ ~(now >= row.since + ResetDelay)  BY <2>1, Zenon
  <2>3. now < row.since + ResetDelay  BY <1>a, <2>2, Fields
  <2>4. /\ row.status = "quarantined" /\ row.revision = job.revision
        /\ job.at = row.since + DeleteDelay
    BY <2>2 DEF Inv, JobInv
  <2>5. job.at \in workers'  BY DEF Restart
  <2> QED  BY <1>3, <1>5, <2>3, <2>4, <2>5
<1> QED  BY <1>8, <1>9, <1>10, <1>11 DEF Restart, Inv, DownIsIdle

\* Time waits for a deletion that is due.
LEMMA TickKeeps ==
  ASSUME Inv, Tick
  PROVE  Inv'
<1>a. Types /\ TypeOK  BY DEF Inv, Types
<1>1. now' = now + 1 /\ now' \in Time
  BY <1>a, TestSenderAssumption DEF Tick, TypeOK, Time
<1>2. UNCHANGED <<row, job, task, memory, prompt, up, crashes, cancelling, excused, stray>>
  BY DEF Tick
<1>3. Types'  BY <1>1, <1>2, <1>a DEF Types, TypeOK, Deadlines, memory
<1>4. JobInv'
  <2>1. ASSUME up, task = Idle, job.at \in workers, job.at = row.since + DeleteDelay
        PROVE  now' < row.since + ResetDelay
    <3>1. ~(job.at <= now)  BY <2>1 DEF Tick, Due
    <3> QED  BY <1>1, <1>a, <2>1, <3>1, Fields
  <2> QED  BY <1>2, <2>1 DEF Inv, JobInv, memory
<1> QED
  BY <1>2, <1>3, <1>4 DEF Inv, DownIsIdle, TimersFit, ResultInv, ResetTimer, memory

\* One case per action.
LEMMA NextInv == Inv /\ [Next]_vars => Inv'
<1> SUFFICES ASSUME Inv, [Next]_vars PROVE Inv'  OBVIOUS
<1>1. CASE UNCHANGED vars
  <2>1. Types'  BY <1>1 DEF Inv, Types, TypeOK, Deadlines, vars, memory
  <2> QED
    BY <1>1, <2>1
       DEF Inv, DownIsIdle, TimersFit, ResultInv, JobInv, ResetTimer, vars, memory
<1>2. CASE CleanupFires
  <2>1. /\ cleanups' \subseteq cleanups /\ prompt' = FALSE
        /\ UNCHANGED <<now, row, job, task, timeout, resets, workers, up, crashes,
                       cancelling, excused, stray>>
    BY <1>2 DEF CleanupFires
  <2>2. Types'  BY <2>1 DEF Inv, Types, TypeOK, Deadlines
  <2> QED
    BY <2>1, <2>2 DEF Inv, DownIsIdle, TimersFit, ResultInv, JobInv, ResetTimer
<1> QED
  BY <1>1, <1>2, IssuesKeep, IssueEndsKeeps, AnswersKeep, RestoreEndsKeeps, TimerIsSet,
     WarningEndsKeeps, TimesOut, ResetFiresKeeps, DeletionFiresKeeps, DeletionEndsKeeps,
     ReleaseKeeps, CliAllowsKeeps, CliCancelsKeeps, CrashKeeps, RestartKeeps, TickKeeps
     DEF Next

\* The inductive invariant holds.
LEMMA Invariant == Spec => []Inv
BY InitInv, NextInv, PTL DEF Spec

-----------------------------------------------------------------------------
\* schedule_test_state_reset and its recovery: a result that stands while the lock is
\* free has the timer that fits it, but for the three exceptions of the code.
THEOREM ResultsHaveTimers == Spec => []ResultHasTimer
<1>1. ASSUME Inv, Free, row.status \in Resettable, ~excused
      PROVE  \E x \in resets : x.expected = row.since /\ x.at = row.since + ResetDelay
  <2>1. task.kind = "idle" /\ up  BY <1>1, Tasks DEF Free
  <2>2. ResetTimer(row.since) \in resets  BY <1>1, <2>1 DEF Inv, ResultInv
  <2>3. row.since \in Time  BY <1>1, Fields DEF Inv, Types
  <2> QED  BY <2>2, <2>3, ResetTimers
<1>2. Inv => ResultHasTimer  BY <1>1 DEF ResultHasTimer
<1> QED  BY <1>2, Invariant, PTL

\* No round leaves a pending job of an earlier state behind, which would keep
\* protect_preflight from enabling protection, unless the reset was overdue itself or an
\* allow is still to cancel the job.
THEOREM NoJobIsStale == Spec => []NoStaleJob
<1>1. Inv => NoStaleJob  BY DEF Inv, JobInv, NoStaleJob, Restricted
<1> QED  BY <1>1, Invariant, PTL

\* reset_test_sender is conditional on the time of the state: no timer of an earlier
\* round puts a newer result back before its delay is over.
THEOREM NewerResultsStand == Spec => NewerResultStands
<1>1. ASSUME Inv, [Next]_vars, row.status \in Resettable, row'.status = "unknown"
      PROVE  now >= row.since + ResetDelay
  <2>a. TypeOK /\ now \in Time /\ row \in Row /\ task.at \in Time
    BY <1>1, Fields DEF Inv, Types, TypeOK
  <2>b. row.status \notin {"unknown", "starting", "challenged", "allowed"}
    BY <1>1 DEF Resettable
  <2>1. ASSUME UNCHANGED row PROVE FALSE  BY <1>1, <2>1, <2>b
  <2>2. ASSUME CanSet, NEW st \in Statuses, NEW t \in Time, st # "unknown",
               row' = SetState(row, st, t)
        PROVE  FALSE
    BY <1>1, <2>2, <2>a, Setting DEF SetTo
  <2>3. ASSUME Issues PROVE FALSE
    <3>1. PICK ref \in BOOLEAN :
            row' = [Settled EXCEPT !.status = "starting", !.since = now,
                                   !.expires = now + Ttl, !.ref = ref]
      BY <2>3 DEF Issues
    <3>2. Settled \in Row  BY <2>3, <2>a, SettledRow DEF Issues
    <3>3. row'.status = "starting"  BY <3>1, <3>2 DEF Row
    <3> QED  BY <1>1, <3>3
  <2>4. ASSUME IssueEnds PROVE FALSE
    BY <2>1, <2>4, <2>b DEF IssueEnds
  <2>5. ASSUME RestoreEnds \/ WarningEnds \/ CliAllows PROVE FALSE
    BY <2>1, <2>2, <2>5, <2>a DEF RestoreEnds, WarningEnds, CliAllows, Statuses
  <2>6. ASSUME AnswersLate \/ TimeoutFires PROVE FALSE
    BY <2>1, <2>6, <2>b DEF AnswersLate, TimeoutFires
  <2>7. CASE ResetFires
    <3>1. PICK x \in resets : x.at <= now /\ (Resets(row, x.expected) \/ UNCHANGED row)
      BY <2>7 DEF ResetFires
    <3>2. x.at = x.expected + ResetDelay /\ x.expected = row.since
      BY <1>1, <2>1, <3>1 DEF Inv, TimersFit, Resets
    <3> QED  BY <2>a, <3>1, <3>2, Fields
  <2>8. CASE ReleasesExpired
    <3>1. row.until <= now /\ row.until = row.since + Suppression
      BY <1>1, <2>8 DEF ReleasesExpired, Expired, Inv, TimersFit
    <3> QED  BY <2>a, <3>1, Fields
  <2>9. ASSUME Restart PROVE FALSE  BY <2>1, <2>9, <2>b DEF Restart
  <2>10. ASSUME \/ AnswersCorrectly \/ PassedEnds \/ ExhaustsAttempts \/ NoticeEnds
                \/ CleanupFires \/ DeletionFires \/ DeletionEnds \/ CliCancels
                \/ Crash \/ Tick \/ UNCHANGED vars
         PROVE  FALSE
    BY <2>1, <2>10
       DEF AnswersCorrectly, PassedEnds, ExhaustsAttempts, NoticeEnds, CleanupFires,
           DeletionFires, DeletionEnds, CliCancels, Crash, Tick, vars
  <2> QED
    BY <1>1, <2>3, <2>4, <2>5, <2>6, <2>7, <2>8, <2>9, <2>10 DEF Next
<1>2. Inv /\ [Next]_vars =>
        (row.status \in Resettable /\ row'.status = "unknown" => now >= row.since + ResetDelay)
  BY <1>1
<1> QED  BY <1>2, Invariant, PTL DEF Spec, NewerResultStands
=============================================================================

---------------------------- MODULE OutboundQuota ----------------------------
(***************************************************************************)
(* The hourly outbound quota: the outbound_events table behind             *)
(* EventMixin.claim_outbound_slot, shared by every sender.  A challenge    *)
(* may use the part of the limit that is not reserved for notices; a       *)
(* notice may use all of it, up to a cap per sender.  Every claim is one   *)
(* BEGIN IMMEDIATE transaction, stamped with the time its handler read     *)
(* when it took the sender lock, which for the notice after a correct      *)
(* answer is before the dialog was restored.                               *)
(***************************************************************************)
EXTENDS Integers, FiniteSets

CONSTANTS
  Senders,       \* senders other than the dedicated test sender
  Limit,         \* outbound_limit_per_hour
  Reserve,       \* outbound_notice_reserve_per_hour
  SenderLimit,   \* outbound_notice_limit_per_sender_per_hour
  Hour,          \* 3600, in the units of the clock
  MaxTime,       \* bound: the last clock value
  MaxClaims      \* bound: claims made

\* The ValueErrors of claim_outbound_slot.
ASSUME OutboundQuotaAssumption ==
  /\ Limit \in Nat \ {0}
  /\ Reserve \in 0 .. Limit - 1
  /\ SenderLimit \in Nat \ {0}
  /\ Hour \in Nat /\ MaxTime \in Nat /\ MaxClaims \in Nat

VARIABLES
  clock,
  events,    \* outbound_events
  claims,    \* claims made so far, which is also the last rowid
  open,      \* senders with an open challenge
  answer,    \* now of the handler that is restoring a dialog, by sender
  granted,   \* history: the slots granted, with the time they were granted at
  steady     \* history: no claim was stamped late, no slot was erased within its hour

vars == <<clock, events, claims, open, answer, granted, steady>>

NoAnswer == -1
Granted == {"challenge", "notice"}
Rejected(category) == IF category = "challenge" THEN "challenge_rejected"
                                                ELSE "notice_rejected"

Event == [id : Nat, sender : Senders, at : Nat,
          category : Granted \cup {"challenge_rejected", "notice_rejected"}]

TypeOK ==
  /\ clock \in 0 .. MaxTime
  /\ events \in SUBSET Event
  /\ claims \in 0 .. MaxClaims
  /\ open \in SUBSET Senders
  /\ answer \in [Senders -> 0 .. MaxTime \cup {NoAnswer}]
  /\ granted \in SUBSET Event
  /\ steady \in BOOLEAN

Init ==
  /\ clock = 0
  /\ events = {}
  /\ claims = 0
  /\ open = {}
  /\ answer = [s \in Senders |-> NoAnswer]
  /\ granted = {}
  /\ steady = TRUE

-----------------------------------------------------------------------------
\* DELETE FROM outbound_events WHERE created_at < now - 3600
Recent(now) == {e \in events : e.at >= now - Hour}

\* Mutant: an event exactly an hour old no longer counts.
TotalExclusive(now) == Cardinality({e \in Recent(now) : e.category \in Granted
                                                        /\ e.at > now - Hour})
\* Mutant: refused claims count.
TotalWithRejected(now) == Cardinality(Recent(now))
Total(now) == Cardinality({e \in Recent(now) : e.category \in Granted})

\* Mutant: what the sender was already sent is not counted.
SenderNoticesNone(s, now) == 0
SenderNotices(s, now) ==
  Cardinality({e \in Recent(now) : e.category = "notice" /\ e.sender = s})

Allowed(s, category, now) ==
  /\ Total(now) < Limit
  /\ category = "challenge" => Total(now) < Limit - Reserve
  /\ category = "notice" => SenderNotices(s, now) < SenderLimit

\* claim_outbound_slot
Claim(s, category, now) ==
  LET ok == Allowed(s, category, now)
      e == [id |-> claims + 1, sender |-> s, at |-> now,
            category |-> IF ok THEN category ELSE Rejected(category)]
  IN  /\ claims < MaxClaims
      /\ claims' = claims + 1
      /\ events' = Recent(now) \cup {e}
      /\ granted' = IF ok THEN granted \cup {[e EXCEPT !.at = clock]} ELSE granted

\* No handler of a sender runs while another one is restoring its dialog.
LockFree(s) == answer[s] = NoAnswer

\* _issue_challenge: a refused challenge falls back to a silent quarantine.
Challenge(s) ==
  /\ LockFree(s)
  /\ s \notin open
  /\ Claim(s, "challenge", clock)
  /\ open' = IF Allowed(s, "challenge", clock) THEN open \cup {s} ELSE open
  /\ UNCHANGED <<clock, answer, steady>>

\* _send_notice at the start of a handler: a hint or a correction, or the warning
\* that ends the challenge.
Notice(s) ==
  /\ LockFree(s)
  /\ s \in open
  /\ Claim(s, "notice", clock)
  /\ open' \in {open, open \ {s}}
  /\ UNCHANGED <<clock, answer, steady>>

\* _accept_correct_answer: the restore, then the notice with the handler's now.
AnswerArrives(s) ==
  /\ LockFree(s)
  /\ s \in open
  /\ answer' = [answer EXCEPT ![s] = clock]
  /\ UNCHANGED <<clock, events, claims, open, granted, steady>>

AnswerNotice(s) ==
  /\ ~LockFree(s)
  /\ Claim(s, "notice", answer[s])
  /\ open' = open \ {s}
  /\ answer' = [answer EXCEPT ![s] = NoAnswer]
  /\ steady' = (steady /\ answer[s] = clock)
  /\ UNCHANGED clock

AnswerFails(s) ==
  /\ ~LockFree(s)
  /\ answer' = [answer EXCEPT ![s] = NoAnswer]
  /\ UNCHANGED <<clock, events, claims, open, granted, steady>>

\* A permanently suppressed sender is forgotten: _erase_sender_rows.
Forget(s) ==
  /\ LockFree(s)
  /\ events' = {e \in events : e.sender # s}
  /\ open' = open \ {s}
  /\ steady' = (steady /\ \A e \in Recent(clock) : e.category \in Granted => e.sender # s)
  /\ UNCHANGED <<clock, claims, answer, granted>>

\* The DELETE of prune.
Prune ==
  /\ events' = Recent(clock)
  /\ UNCHANGED <<clock, claims, open, answer, granted, steady>>

Tick ==
  /\ clock < MaxTime
  /\ clock' = clock + 1
  /\ UNCHANGED <<events, claims, open, answer, granted, steady>>

Next ==
  \/ \E s \in Senders : \/ Challenge(s) \/ Notice(s) \/ Forget(s)
                        \/ AnswerArrives(s) \/ AnswerNotice(s) \/ AnswerFails(s)
  \/ Prune \/ Tick

Spec == Init /\ [][Next]_vars

-----------------------------------------------------------------------------
\* What was granted in the hour that ends at t.
InHour(t) == {g \in granted : g.at \in t - Hour .. t}

\* "The hourly outbound limit is a hard cap" (docs/architecture.md): in no hour,
\* wherever it begins, are more than Limit messages granted to all senders.
HardCap == \A t \in 0 .. clock : Cardinality(InHour(t)) <= Limit

\* Challenges leave the reserve alone, and no sender is sent more than its share
\* of notices in any hour.
ReserveAndSenderCap ==
  \A t \in 0 .. clock :
    /\ Cardinality({g \in InHour(t) : g.category = "challenge"}) <= Limit - Reserve
    /\ \A s \in Senders :
         Cardinality({g \in InHour(t) : g.category = "notice" /\ g.sender = s})
           <= SenderLimit

\* What the documentation promises without condition holds as long as no claim is
\* stamped with a time before an await and no slot is erased within its hour.
CapsHold == steady => HardCap /\ ReserveAndSenderCap

\* A burst of new senders does not silence the challenges that are under way: a
\* notice is refused only when its sender has had its share or when notices have
\* used up the whole reserve, also when claims are stamped out of order or rows
\* are erased.
RefusalIsJustified ==
  [][\A e \in events' \ events :
       e.category = "notice_rejected" =>
         \/ SenderNotices(e.sender, e.at) >= SenderLimit
         \/ Cardinality({n \in events : n.category = "notice"
                                        /\ n.at >= e.at - Hour}) >= Reserve]_vars
=============================================================================

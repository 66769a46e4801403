------------------------ MODULE OutboundQuota_proofs ------------------------
(***************************************************************************)
(* The quota holds for every limit, reserve and hour as long as claims are *)
(* stamped with the current time and no slot is erased before its hour is  *)
(* over.  The table then still holds every slot granted in the hour that   *)
(* ends now, so the count a claim makes is the count that matters.         *)
(***************************************************************************)
EXTENDS OutboundQuota, FiniteSetTheorems, TLAPS

\* What was granted in the last hour is on record.
OnRecord ==
  /\ \A g \in granted : /\ g.at <= clock
                        /\ g.category \in Granted
                        /\ g.at >= clock - Hour => g \in events
  /\ IsFiniteSet(events) /\ IsFiniteSet(granted)

Inv == TypeOK /\ OnRecord

-----------------------------------------------------------------------------
\* The fields of a row of outbound_events have their types.
LEMMA EventFields ==
  ASSUME NEW e \in Event
  PROVE  e.at \in Nat /\ e.sender \in Senders
BY DEF Event

\* What a claim stamped with the current time does.
Stamped(s, category) ==
  \E e \in Event :
    /\ e.sender = s /\ e.at = clock
    /\ events' = Recent(clock) \cup {e}
    /\ \/ /\ Allowed(s, category, clock) /\ e.category = category
          /\ granted' = granted \cup {e}
       \/ ~Allowed(s, category, clock) /\ granted' = granted
    /\ claims' \in 0 .. MaxClaims /\ UNCHANGED clock

\* A claim made with the current time is a stamped claim.
LEMMA ClaimStamps ==
  ASSUME TypeOK, NEW s \in Senders, NEW c \in Granted, Claim(s, c, clock),
         UNCHANGED clock
  PROVE  Stamped(s, c)
<1> DEFINE ok == Allowed(s, c, clock)
           e == [id |-> claims + 1, sender |-> s, at |-> clock,
                 category |-> IF ok THEN c ELSE Rejected(c)]
<1>1. claims + 1 \in Nat /\ clock \in Nat /\ claims + 1 \in 0 .. MaxClaims
  BY OutboundQuotaAssumption DEF TypeOK, Claim
<1>2. (IF ok THEN c ELSE Rejected(c))
        \in Granted \cup {"challenge_rejected", "notice_rejected"}
  BY DEF Rejected, Granted
<1>3. e \in Event  BY <1>1, <1>2 DEF Event
<1>4. [e EXCEPT !.at = clock] = e  OBVIOUS
<1>5. /\ events' = Recent(clock) \cup {e} /\ claims' = claims + 1
      /\ granted' = IF ok THEN granted \cup {[e EXCEPT !.at = clock]} ELSE granted
  BY DEF Claim
<1>6. e.sender = s /\ e.at = clock /\ (ok => e.category = c)  OBVIOUS
<1> HIDE DEF e, ok
<1>7. (ok /\ granted' = granted \cup {e}) \/ (~ok /\ granted' = granted)
  BY <1>4, <1>5
<1> QED  BY <1>1, <1>3, <1>5, <1>6, <1>7 DEF Stamped, ok

\* Rows go, but no slot granted in the last hour.
Fewer ==
  /\ events' \subseteq events
  /\ \A e \in events : e.category \in Granted /\ e.at >= clock - Hour => e \in events'

\* Every step that leaves the quota steady, seen from the quota.
LEMMA Steps ==
  ASSUME Inv, [Next]_vars, steady'
  PROVE  /\ \/ \E s \in Senders, c \in Granted : Stamped(s, c)
            \/ Fewer /\ UNCHANGED <<granted, clock, claims>>
            \/ /\ clock < MaxTime /\ clock' = clock + 1
               /\ UNCHANGED <<granted, events, claims>>
         /\ answer' \in [Senders -> 0 .. MaxTime \cup {NoAnswer}]
         /\ open' \in SUBSET Senders /\ steady' \in BOOLEAN
<1> USE DEF Inv, TypeOK
<1>0. Granted = {"challenge", "notice"}  BY DEF Granted
<1>2. ASSUME NEW s \in Senders, Challenge(s)
      PROVE  Stamped(s, "challenge") /\ UNCHANGED <<answer, steady>> /\ open' \in SUBSET Senders
  BY <1>2, <1>0, ClaimStamps DEF Challenge
<1>3. ASSUME NEW s \in Senders, Notice(s)
      PROVE  Stamped(s, "notice") /\ UNCHANGED <<answer, steady>> /\ open' \in SUBSET Senders
  BY <1>3, <1>0, ClaimStamps DEF Notice
<1>4. ASSUME NEW s \in Senders, AnswerNotice(s)
      PROVE  /\ Stamped(s, "notice") /\ open' \in SUBSET Senders
             /\ answer' = [answer EXCEPT ![s] = NoAnswer] /\ steady' \in BOOLEAN
  <2>1. answer[s] = clock /\ steady' \in BOOLEAN  BY <1>4, Zenon DEF AnswerNotice
  <2> QED  BY <1>4, <1>0, <2>1, ClaimStamps DEF AnswerNotice
<1>5. ASSUME NEW s \in Senders, AnswerArrives(s) \/ AnswerFails(s)
      PROVE  /\ UNCHANGED <<events, granted, clock, claims, open, steady>>
             /\ \E a \in {clock, NoAnswer} : answer' = [answer EXCEPT ![s] = a]
  BY <1>5 DEF AnswerArrives, AnswerFails
<1>6. ASSUME NEW s \in Senders, Forget(s)
      PROVE  /\ Fewer /\ UNCHANGED <<granted, clock, claims, answer>>
             /\ open' \in SUBSET Senders /\ steady' \in BOOLEAN
  <2>1. /\ \A e \in Recent(clock) : e.category \in Granted => e.sender # s
        /\ steady' \in BOOLEAN
    BY <1>6, Zenon DEF Forget
  <2>2. Fewer  BY <1>6, <2>1 DEF Forget, Fewer, Recent
  <2> QED  BY <1>6, <2>1, <2>2 DEF Forget
<1>a. "challenge" \in Granted /\ "notice" \in Granted  BY <1>0
<1>b. steady' \in BOOLEAN
  BY <1>2, <1>3, <1>4, <1>5, <1>6, Zenon DEF Next, Prune, Tick, vars
<1>c. answer' \in [Senders -> 0 .. MaxTime \cup {NoAnswer}] /\ open' \in SUBSET Senders
  <2> DEFINE Fine == /\ answer' \in [Senders -> 0 .. MaxTime \cup {NoAnswer}]
                     /\ open' \in SUBSET Senders
  <2>1. ASSUME NEW s \in Senders, AnswerArrives(s) \/ AnswerFails(s) PROVE Fine
    <3>1. PICK a \in {clock, NoAnswer} : answer' = [answer EXCEPT ![s] = a]
      BY <1>5, <2>1
    <3>2. open' = open  BY <1>5, <2>1
    <3> QED  BY <3>1, <3>2
  <2>2. ASSUME NEW s \in Senders, Challenge(s) \/ Notice(s) \/ Forget(s) PROVE Fine
    BY <1>2, <1>3, <1>6, <2>2
  <2>3. ASSUME NEW s \in Senders, AnswerNotice(s) PROVE Fine  BY <1>4, <2>3
  <2>4. CASE UNCHANGED vars  BY <2>4 DEF vars
  <2>5. CASE Prune \/ Tick  BY <2>5 DEF Prune, Tick
  <2> QED  BY <2>1, <2>2, <2>3, <2>4, <2>5, Zenon DEF Next
<1>d. \/ \E s \in Senders, c \in Granted : Stamped(s, c)
      \/ Fewer /\ UNCHANGED <<granted, clock, claims>>
      \/ /\ clock < MaxTime /\ clock' = clock + 1
         /\ UNCHANGED <<granted, events, claims>>
  <2>1. ASSUME NEW s \in Senders, AnswerArrives(s) \/ AnswerFails(s)
        PROVE  Fewer /\ UNCHANGED <<granted, clock, claims>>
    BY <1>5, <2>1 DEF Fewer
  <2>2. CASE UNCHANGED vars  BY <2>2 DEF Fewer, vars
  <2>3. CASE Prune  BY <2>3 DEF Prune, Fewer, Recent
  <2>4. CASE Tick  BY <2>4 DEF Tick
  <2> QED  BY <1>a, <1>2, <1>3, <1>4, <1>6, <2>1, <2>2, <2>3, <2>4, Zenon DEF Next
<1> QED  BY <1>b, <1>c, <1>d

\* The empty table is on record.
LEMMA InvInit == Init => Inv
BY FS_EmptySet, OutboundQuotaAssumption
   DEF Init, Inv, TypeOK, OnRecord, NoAnswer

\* Every steady step keeps the last hour's grants on record.
LEMMA InvNext == Inv /\ [Next]_vars /\ steady' => Inv'
<1> SUFFICES ASSUME Inv, [Next]_vars, steady' PROVE Inv'  OBVIOUS
<1>a. clock \in Nat /\ Hour \in Nat
  BY OutboundQuotaAssumption DEF Inv, TypeOK
<1>b. /\ answer' \in [Senders -> 0 .. MaxTime \cup {NoAnswer}]
      /\ open' \in SUBSET Senders /\ steady' \in BOOLEAN
  BY Steps
<1>c. Recent(clock) \subseteq events /\ IsFiniteSet(Recent(clock))
  BY FS_Subset DEF Recent, Inv, OnRecord
<1>d. \A g \in events : g.at >= clock - Hour => g \in Recent(clock)
  BY DEF Recent
<1>1. ASSUME NEW s \in Senders, NEW c \in Granted, Stamped(s, c) PROVE Inv'
  <2>1. PICK e \in Event :
          /\ e.sender = s /\ e.at = clock
          /\ events' = Recent(clock) \cup {e}
          /\ \/ Allowed(s, c, clock) /\ e.category = c /\ granted' = granted \cup {e}
             \/ granted' = granted
          /\ claims' \in 0 .. MaxClaims /\ UNCHANGED clock
    BY <1>1 DEF Stamped
  <2>2. TypeOK'  BY <2>1, <1>b, <1>c DEF Inv, TypeOK
  <2>3. IsFiniteSet(events') /\ IsFiniteSet(granted')
    BY <2>1, <1>c, FS_AddElement DEF Inv, OnRecord
  <2>4. \A g \in granted' : /\ g.at <= clock' /\ g.category \in Granted
                            /\ g.at >= clock' - Hour => g \in events'
    BY <2>1, <1>a, <1>d DEF Inv, OnRecord
  <2> QED  BY <1>a, <1>b, <2>1, <2>2, <2>3, <2>4 DEF Inv, OnRecord
<1>2. CASE Fewer /\ UNCHANGED <<granted, clock, claims>>
  <2>1. TypeOK'  BY <1>2, <1>b DEF Inv, TypeOK, Fewer
  <2>2. \A g \in granted' : /\ g.at <= clock' /\ g.category \in Granted
                            /\ g.at >= clock' - Hour => g \in events'
    BY <1>2 DEF Inv, OnRecord, Fewer
  <2>3. IsFiniteSet(events') /\ IsFiniteSet(granted')
    BY <1>2, FS_Subset DEF Inv, OnRecord, Fewer
  <2> QED  BY <1>2, <1>a, <1>b, <2>1, <2>2, <2>3 DEF Inv, OnRecord
<1>3. CASE /\ clock < MaxTime /\ clock' = clock + 1
           /\ UNCHANGED <<granted, events, claims>>
  <2>1. TypeOK'  BY <1>3, <1>b, OutboundQuotaAssumption DEF Inv, TypeOK
  <2>2. \A g \in granted : g.at \in Nat  BY EventFields DEF Inv, TypeOK
  <2>3. \A g \in granted' : /\ g.at <= clock' /\ g.category \in Granted
                            /\ g.at >= clock' - Hour => g \in events'
    BY <1>3, <1>a, <2>2 DEF Inv, OnRecord
  <2> QED  BY <1>3, <1>a, <2>1, <2>3 DEF Inv, OnRecord
<1> QED  BY <1>1, <1>2, <1>3, Steps

-----------------------------------------------------------------------------
(* One argument for the three caps: K says which slots a cap counts, n what *)
(* it is.                                                                   *)

Counted(t, K) == {g \in InHour(t) : <<g.sender, g.category>> \in K}
Capped(K, n) == \A t \in 0 .. clock : Cardinality(Counted(t, K)) <= n
InTable(K) == {e \in Recent(clock) : e.category \in Granted
                                     /\ <<e.sender, e.category>> \in K}

\* The claim refuses what would exceed the cap.
Respects(K, n) ==
  \A s \in Senders, c \in Granted :
    <<s, c>> \in K /\ Allowed(s, c, clock) => Cardinality(InTable(K)) < n

\* What was granted in an hour can be counted.
LEMMA CountedFinite ==
  ASSUME Inv, NEW t, NEW K
  PROVE  IsFiniteSet(Counted(t, K)) /\ Cardinality(Counted(t, K)) \in Nat
<1>1. Counted(t, K) \subseteq granted  BY DEF Counted, InHour
<1> QED  BY <1>1, FS_Subset, FS_CardinalityType DEF Inv, OnRecord

\* The slots granted in the hour that ends now are in the table.
LEMMA CountedInTable ==
  ASSUME Inv, NEW K
  PROVE  Cardinality(Counted(clock, K)) <= Cardinality(InTable(K))
<1>1. clock \in Nat /\ Hour \in Nat  BY OutboundQuotaAssumption DEF Inv, TypeOK
<1>2. Counted(clock, K) \subseteq InTable(K)
  <2> SUFFICES ASSUME NEW g \in Counted(clock, K) PROVE g \in InTable(K)  OBVIOUS
  <2>1. g \in granted /\ g.at \in clock - Hour .. clock /\ <<g.sender, g.category>> \in K
    BY DEF Counted, InHour
  <2>2. g.at >= clock - Hour  BY <1>1, <2>1
  <2>3. g \in events /\ g.category \in Granted  BY <2>1, <2>2 DEF Inv, OnRecord
  <2> QED  BY <2>1, <2>2, <2>3 DEF InTable, Recent
<1>3. IsFiniteSet(InTable(K))
  <2>1. InTable(K) \subseteq events  BY DEF InTable, Recent
  <2> QED  BY <2>1, FS_Subset DEF Inv, OnRecord
<1> QED  BY <1>2, <1>3, FS_Subset

\* One more element adds at most one to a cardinality.
LEMMA OneMore ==
  ASSUME NEW S, NEW x, IsFiniteSet(S), Cardinality(S) \in Nat
  PROVE  /\ Cardinality(S \cup {x}) \in Nat
         /\ Cardinality(S \cup {x}) <= Cardinality(S) + 1
<1>1. Cardinality(S \cup {x}) = IF x \in S THEN Cardinality(S) ELSE Cardinality(S) + 1
  BY FS_AddElement
<1> QED  BY <1>1

\* A cap that every claim respects survives every steady step.
LEMMA CapNext ==
  ASSUME Inv, [Next]_vars, steady', NEW K, NEW n \in Nat, Capped(K, n), Respects(K, n)
  PROVE  Capped(K, n)'
<1>a. clock \in Nat /\ Hour \in Nat  BY OutboundQuotaAssumption DEF Inv, TypeOK
<1>b. \A g \in granted : g.at \in Nat /\ g.at <= clock
  BY EventFields DEF Inv, TypeOK, OnRecord
<1>c. clock \in 0 .. clock  BY <1>a
<1>1. ASSUME UNCHANGED <<granted, clock>> PROVE Capped(K, n)'
  <2>1. \A t : Counted(t, K)' = Counted(t, K)  BY <1>1 DEF Counted, InHour
  <2> QED  BY <1>1, <2>1 DEF Capped
<1>2. ASSUME NEW s \in Senders, NEW c \in Granted, Stamped(s, c) PROVE Capped(K, n)'
  <2>1. PICK e \in Event :
          /\ e.sender = s /\ e.at = clock
          /\ \/ Allowed(s, c, clock) /\ e.category = c /\ granted' = granted \cup {e}
             \/ granted' = granted
          /\ UNCHANGED clock
    BY <1>2 DEF Stamped
  <2>2. CASE granted' = granted  BY <1>1, <2>1, <2>2
  <2>3. CASE /\ Allowed(s, c, clock) /\ e.category = c
             /\ granted' = granted \cup {e}
    <3> SUFFICES ASSUME NEW t \in 0 .. clock PROVE Cardinality(Counted(t, K)') <= n
      BY <2>1 DEF Capped
    <3>1. CASE t # clock \/ <<s, c>> \notin K
      <4>1. Counted(t, K)' = Counted(t, K)
        BY <1>a, <2>1, <2>3, <3>1 DEF Counted, InHour
      <4> QED  BY <4>1 DEF Capped
    <3>2. CASE t = clock /\ <<s, c>> \in K
      <4>1. Counted(t, K)' = Counted(clock, K) \cup {e}
        BY <1>a, <2>1, <2>3, <3>2 DEF Counted, InHour
      <4>2. /\ IsFiniteSet(Counted(clock, K)) /\ Cardinality(Counted(clock, K)) \in Nat
        BY CountedFinite
      <4>3. Cardinality(Counted(clock, K) \cup {e}) <= Cardinality(Counted(clock, K)) + 1
        BY <4>2, OneMore
      <4>4. Cardinality(InTable(K)) < n  BY <2>3, <3>2 DEF Respects
      <4>5. /\ Cardinality(InTable(K)) \in Nat
            /\ Cardinality(Counted(clock, K) \cup {e}) \in Nat
        <5>1. InTable(K) \subseteq events  BY DEF InTable, Recent
        <5>2. IsFiniteSet(InTable(K))  BY <5>1, FS_Subset DEF Inv, OnRecord
        <5> QED  BY <4>2, <5>2, FS_CardinalityType, OneMore
      <4> QED  BY <4>1, <4>2, <4>3, <4>4, <4>5, CountedInTable
    <3> QED  BY <3>1, <3>2
  <2> QED  BY <2>1, <2>2, <2>3
<1>3. ASSUME clock' = clock + 1, UNCHANGED granted PROVE Capped(K, n)'
  <2> SUFFICES ASSUME NEW t \in 0 .. clock + 1 PROVE Cardinality(Counted(t, K)') <= n
    BY <1>3 DEF Capped
  <2>1. Counted(t, K)' = Counted(t, K)  BY <1>3 DEF Counted, InHour
  <2>2. CASE t \in 0 .. clock  BY <2>1, <2>2 DEF Capped
  <2>3. CASE t = clock + 1
    <3>1. Counted(t, K) \subseteq Counted(clock, K)
      BY <1>a, <1>b, <2>3 DEF Counted, InHour
    <3>2. Cardinality(Counted(t, K)) <= Cardinality(Counted(clock, K))
      BY <3>1, CountedFinite, FS_Subset
    <3>3. Cardinality(Counted(clock, K)) <= n  BY <1>c DEF Capped
    <3> QED  BY <2>1, <3>2, <3>3, CountedFinite
  <2> QED  BY <1>a, <2>2, <2>3
<1> QED  BY <1>1, <1>2, <1>3, Steps

\* Nothing granted exceeds no cap.
LEMMA CapInit ==
  ASSUME Init, NEW K, NEW n \in Nat PROVE Capped(K, n)
<1>1. \A t : Counted(t, K) = {}  BY DEF Init, Counted, InHour
<1> QED  BY <1>1, FS_EmptySet DEF Capped

-----------------------------------------------------------------------------
All == Senders \X Granted
Challenges == Senders \X {"challenge"}
NoticesTo(s) == {<<s, "notice">>}

Caps ==
  /\ Capped(All, Limit)
  /\ Capped(Challenges, Limit - Reserve)
  /\ \A s \in Senders : Capped(NoticesTo(s), SenderLimit)

\* claim_outbound_slot respects the limit, the reserve and the sender's share.
LEMMA Respected ==
  ASSUME Inv
  PROVE  /\ Respects(All, Limit) /\ Respects(Challenges, Limit - Reserve)
         /\ \A s \in Senders : Respects(NoticesTo(s), SenderLimit)
<1>0. \A e \in events : e.sender \in Senders  BY EventFields DEF Inv, TypeOK
<1>a. clock \in Nat /\ Hour \in Nat  BY OutboundQuotaAssumption DEF Inv, TypeOK
<1>b. Recent(clock) \subseteq events  BY DEF Recent
<1>1. InTable(All) = {e \in Recent(clock) : e.category \in Granted}
  BY <1>0, <1>b DEF InTable, All
<1>2. InTable(Challenges) \subseteq InTable(All)
  BY DEF InTable, Challenges, All, Granted
<1>3. IsFiniteSet(InTable(All))
  <2>1. InTable(All) \subseteq events  BY <1>b DEF InTable
  <2> QED  BY <2>1, FS_Subset DEF Inv, OnRecord
<1>4. /\ Cardinality(InTable(Challenges)) <= Cardinality(InTable(All))
      /\ Cardinality(InTable(All)) \in Nat /\ Cardinality(InTable(Challenges)) \in Nat
  BY <1>2, <1>3, FS_Subset, FS_CardinalityType
<1>5. Respects(All, Limit)  BY <1>1 DEF Respects, Allowed, Total
<1>6. Respects(Challenges, Limit - Reserve)
  <2> SUFFICES ASSUME NEW s \in Senders, NEW c \in Granted,
                      <<s, c>> \in Challenges, Allowed(s, c, clock)
               PROVE  Cardinality(InTable(Challenges)) < Limit - Reserve
    BY DEF Respects
  <2>1. c = "challenge"  BY DEF Challenges
  <2>2. Cardinality(InTable(All)) < Limit - Reserve
    BY <1>1, <2>1 DEF Allowed, Total
  <2> QED  BY <1>4, <2>2, OutboundQuotaAssumption
<1>7. ASSUME NEW s \in Senders PROVE Respects(NoticesTo(s), SenderLimit)
  <2>1. InTable(NoticesTo(s))
          = {e \in Recent(clock) : e.category = "notice" /\ e.sender = s}
    BY DEF InTable, NoticesTo, Granted
  <2> QED  BY <2>1 DEF Respects, NoticesTo, Allowed, SenderNotices
<1> QED  BY <1>5, <1>6, <1>7

\* All caps survive every steady step.
LEMMA CapsNext == Inv /\ Caps /\ [Next]_vars /\ steady' => Caps'
<1> SUFFICES ASSUME Inv, Caps, [Next]_vars, steady' PROVE Caps'  OBVIOUS
<1>1. Limit \in Nat /\ Limit - Reserve \in Nat /\ SenderLimit \in Nat
  BY OutboundQuotaAssumption
<1>2. Capped(All, Limit)'  BY <1>1, CapNext, Respected DEF Caps
<1>3. Capped(Challenges, Limit - Reserve)'  BY <1>1, CapNext, Respected DEF Caps
<1>4. \A s \in Senders : Capped(NoticesTo(s), SenderLimit)'
  BY <1>1, CapNext, Respected DEF Caps
<1> QED  BY <1>2, <1>3, <1>4 DEF Caps

\* The caps of the proof are the ones the runs check.
LEMMA CapsAreTheCaps == Inv /\ Caps => HardCap /\ ReserveAndSenderCap
<1> SUFFICES ASSUME Inv, Caps, NEW t \in 0 .. clock
             PROVE  /\ Cardinality(InHour(t)) <= Limit
                    /\ Cardinality({g \in InHour(t) : g.category = "challenge"})
                         <= Limit - Reserve
                    /\ \A s \in Senders :
                         Cardinality({g \in InHour(t) : g.category = "notice"
                                                        /\ g.sender = s})
                           <= SenderLimit
  BY DEF HardCap, ReserveAndSenderCap
<1>1. \A g \in InHour(t) : g.sender \in Senders /\ g.category \in Granted
  BY EventFields DEF InHour, Inv, TypeOK, OnRecord
<1>2. Counted(t, All) = InHour(t)  BY <1>1 DEF Counted, All
<1>3. Counted(t, Challenges) = {g \in InHour(t) : g.category = "challenge"}
  BY <1>1 DEF Counted, Challenges
<1>4. \A s \in Senders : Counted(t, NoticesTo(s))
        = {g \in InHour(t) : g.category = "notice" /\ g.sender = s}
  BY DEF Counted, NoticesTo
<1> QED  BY <1>2, <1>3, <1>4 DEF Caps, Capped

\* What has been disturbed once counts as disturbed for good.
LEMMA SteadyBefore == [Next]_vars /\ steady' => steady
<1> SUFFICES ASSUME [Next]_vars, steady' PROVE steady  OBVIOUS
<1>1. ASSUME NEW s \in Senders, AnswerNotice(s) PROVE steady
  BY <1>1, Zenon DEF AnswerNotice
<1>2. ASSUME NEW s \in Senders, Forget(s) PROVE steady
  BY <1>2, Zenon DEF Forget
<1> QED  BY <1>1, <1>2, Zenon
         DEF Next, vars, Challenge, Notice, AnswerArrives, AnswerFails, Prune, Tick

\* While claims are stamped with the current time and no slot is erased within its
\* hour, the total, the reserve and the share of each sender hold in every hour,
\* for every limit and every number of senders.
THEOREM QuotaHolds == Spec => []CapsHold
<1> DEFINE Steadily == steady => Inv /\ Caps
<1>1. Init => Steadily
  BY InvInit, CapInit, OutboundQuotaAssumption DEF Caps
<1>2. Steadily /\ [Next]_vars => Steadily'
  BY InvNext, CapsNext, SteadyBefore
<1>3. Steadily => CapsHold  BY CapsAreTheCaps DEF CapsHold
<1> QED  BY <1>1, <1>2, <1>3, PTL DEF Spec

-----------------------------------------------------------------------------
(* A refused notice.  Unlike the caps this does not need a steady quota: a *)
(* claim counts the rows that it leaves in the table, whatever their order *)
(* and whatever was erased, so the table itself never holds more           *)
(* challenges than the limit less the reserve.                             *)

ChallengeRows(rows) == {e \in rows : e.category = "challenge"}
ReserveKept ==
  /\ IsFiniteSet(events)
  /\ Cardinality(ChallengeRows(events)) <= Limit - Reserve

\* Fewer rows hold fewer challenges.
LEMMA FewerChallenges ==
  ASSUME NEW S, NEW T, IsFiniteSet(S), T \subseteq S
  PROVE  /\ IsFiniteSet(T) /\ Cardinality(ChallengeRows(T)) <= Cardinality(ChallengeRows(S))
         /\ Cardinality(ChallengeRows(S)) \in Nat /\ Cardinality(ChallengeRows(T)) \in Nat
<1>1. ChallengeRows(T) \subseteq ChallengeRows(S) /\ ChallengeRows(S) \subseteq S
  BY DEF ChallengeRows
<1>2. IsFiniteSet(ChallengeRows(S)) /\ IsFiniteSet(T) /\ IsFiniteSet(ChallengeRows(T))
  BY <1>1, FS_Subset
<1> QED  BY <1>1, <1>2, FS_Subset, FS_CardinalityType

\* What a claim adds, whatever its time: one row, granted if the claim is allowed.
LEMMA ClaimAdds ==
  ASSUME NEW s, NEW c \in Granted, NEW now, Claim(s, c, now)
  PROVE  \E e : /\ events' = Recent(now) \cup {e}
                /\ e.sender = s /\ e.at = now
                /\ \/ Allowed(s, c, now) /\ e.category = c
                   \/ ~Allowed(s, c, now) /\ e.category = Rejected(c)
<1> DEFINE ok == Allowed(s, c, now)
           e == [id |-> claims + 1, sender |-> s, at |-> now,
                 category |-> IF ok THEN c ELSE Rejected(c)]
<1>1. events' = Recent(now) \cup {e}  BY DEF Claim
<1>2. e.sender = s /\ e.at = now /\ e.category = IF ok THEN c ELSE Rejected(c)
  OBVIOUS
<1> HIDE DEF e, ok
<1>3. \/ ok /\ e.category = c
      \/ ~ok /\ e.category = Rejected(c)
  BY <1>2
<1> QED  BY <1>1, <1>2, <1>3 DEF ok

\* A claim keeps the reserve: a challenge is granted only while all that is granted
\* leaves it.
LEMMA ClaimKeepsReserve ==
  ASSUME ReserveKept, NEW s, NEW c \in Granted, NEW now, Claim(s, c, now)
  PROVE  ReserveKept'
<1>1. PICK e : /\ events' = Recent(now) \cup {e}
               /\ \/ Allowed(s, c, now) /\ e.category = c
                  \/ e.category = Rejected(c)
  BY ClaimAdds
<1>2. Recent(now) \subseteq events /\ IsFiniteSet(events)  BY DEF Recent, ReserveKept
<1>3. IsFiniteSet(Recent(now)) /\ IsFiniteSet(events')  BY <1>1, <1>2, FS_Subset, FS_AddElement
<1>4. Limit - Reserve \in Nat  BY OutboundQuotaAssumption
<1>5. CASE e.category # "challenge"
  <2>1. ChallengeRows(events') = ChallengeRows(Recent(now))
    BY <1>1, <1>5 DEF ChallengeRows
  <2>2. Cardinality(ChallengeRows(events)) <= Limit - Reserve  BY DEF ReserveKept
  <2>3. Cardinality(ChallengeRows(Recent(now))) <= Limit - Reserve
    BY <1>2, <1>4, <2>2, FewerChallenges
  <2> QED  BY <1>3, <2>1, <2>3 DEF ReserveKept
<1>6. CASE e.category = "challenge"
  <2> DEFINE all == {x \in Recent(now) : x.category \in Granted}
  <2>1. c = "challenge" /\ Allowed(s, c, now)
    BY <1>1, <1>6 DEF Rejected, Granted
  <2>2. Cardinality(all) < Limit - Reserve  BY <2>1 DEF Allowed, Total
  <2>3. ChallengeRows(events') \subseteq all \cup {e}
    BY <1>1 DEF ChallengeRows, Granted
  <2>4. IsFiniteSet(all) /\ Cardinality(all) \in Nat
    BY <1>3, FS_Subset, FS_CardinalityType
  <2> HIDE DEF all
  <2>5. /\ Cardinality(all \cup {e}) \in Nat
        /\ Cardinality(all \cup {e}) <= Cardinality(all) + 1
    BY <2>4, OneMore
  <2>6. IsFiniteSet(all \cup {e})  BY <2>4, FS_AddElement
  <2>7. /\ Cardinality(ChallengeRows(events')) <= Cardinality(all \cup {e})
        /\ Cardinality(ChallengeRows(events')) \in Nat
    BY <2>3, <2>6, FS_Subset, FS_CardinalityType
  <2>8. Cardinality(ChallengeRows(events')) <= Limit - Reserve
    BY <1>4, <2>2, <2>4, <2>5, <2>7
  <2> QED  BY <1>3, <2>8 DEF ReserveKept
<1> QED  BY <1>5, <1>6

\* The steps, as far as the table is concerned.
LEMMA TableSteps ==
  ASSUME [Next]_vars
  PROVE  \/ events' \subseteq events
         \/ \E s \in Senders, c \in Granted : \E now : Claim(s, c, now)
<1>0. "challenge" \in Granted /\ "notice" \in Granted  BY DEF Granted
<1>1. ASSUME NEW s \in Senders, Challenge(s) PROVE Claim(s, "challenge", clock)
  BY <1>1 DEF Challenge
<1>2. ASSUME NEW s \in Senders, Notice(s) PROVE Claim(s, "notice", clock)
  BY <1>2 DEF Notice
<1>3. ASSUME NEW s \in Senders, AnswerNotice(s) PROVE Claim(s, "notice", answer[s])
  BY <1>3 DEF AnswerNotice
<1>4. ASSUME NEW s \in Senders, AnswerArrives(s) \/ AnswerFails(s) \/ Forget(s)
      PROVE  events' \subseteq events
  BY <1>4 DEF AnswerArrives, AnswerFails, Forget
<1>5. CASE Prune \/ Tick \/ UNCHANGED vars
  BY <1>5 DEF Prune, Tick, vars, Recent
<1> QED  BY <1>0, <1>1, <1>2, <1>3, <1>4, <1>5, Zenon DEF Next

\* The reserve is kept in every state.
LEMMA ReserveNext == ReserveKept /\ [Next]_vars => ReserveKept'
<1> SUFFICES ASSUME ReserveKept, [Next]_vars PROVE ReserveKept'  OBVIOUS
<1>1. CASE events' \subseteq events
  <2>1. Limit - Reserve \in Nat  BY OutboundQuotaAssumption
  <2> QED  BY <1>1, <2>1, FewerChallenges DEF ReserveKept
<1>2. CASE \E s \in Senders, c \in Granted : \E now : Claim(s, c, now)
  BY <1>2, ClaimKeepsReserve
<1> QED  BY <1>1, <1>2, TableSteps

\* A notice that is refused although its sender has a share left finds the reserve
\* used up by notices.
LEMMA RefusalFits ==
  ASSUME ReserveKept, NEW now, Total(now) >= Limit
  PROVE  Cardinality({n \in events : n.category = "notice" /\ n.at >= now - Hour}) >= Reserve
<1> DEFINE notices == {n \in events : n.category = "notice" /\ n.at >= now - Hour}
           challenges == ChallengeRows(Recent(now))
<1>1. IsFiniteSet(events) /\ Recent(now) \subseteq events  BY DEF ReserveKept, Recent
<1>2. {e \in Recent(now) : e.category \in Granted} = challenges \cup notices
  BY DEF Recent, ChallengeRows, Granted
<1>3. challenges \cap notices = {}  BY DEF ChallengeRows
<1>4. IsFiniteSet(notices) /\ IsFiniteSet(challenges)
  <2>1. notices \subseteq events /\ challenges \subseteq events  BY <1>1 DEF ChallengeRows
  <2> QED  BY <1>1, <2>1, FS_Subset
<1>5. Cardinality(challenges) <= Limit - Reserve
  <2>1. Cardinality(ChallengeRows(events)) <= Limit - Reserve /\ Limit - Reserve \in Nat
    BY OutboundQuotaAssumption DEF ReserveKept
  <2> QED  BY <1>1, <2>1, FewerChallenges
<1> HIDE DEF notices, challenges
<1>6. /\ Cardinality(challenges) \in Nat /\ Cardinality(notices) \in Nat
  BY <1>4, FS_CardinalityType
<1>7. Cardinality(challenges \cup notices)
        = Cardinality(challenges) + Cardinality(notices)
  <2>1. Cardinality(challenges \cap notices) = 0  BY <1>3, FS_EmptySet
  <2>2. Cardinality(challenges \cup notices)
          = Cardinality(challenges) + Cardinality(notices) - Cardinality(challenges \cap notices)
    BY <1>4, FS_Union
  <2> QED  BY <1>6, <2>1, <2>2
<1>8. Cardinality(challenges \cup notices) >= Limit  BY <1>2 DEF Total
<1>9. Cardinality(notices) >= Reserve
  BY <1>5, <1>6, <1>7, <1>8, OutboundQuotaAssumption
<1> QED  BY <1>9 DEF notices

\* A notice is refused only when its sender has had its share or when notices have
\* used up the whole reserve: for every limit and number of senders, also when claims
\* are stamped out of order and rows are erased.
THEOREM RefusalsAreJustified == Spec => RefusalIsJustified
<1>1. Init => ReserveKept
  <2> SUFFICES ASSUME Init PROVE ReserveKept  OBVIOUS
  <2>1. ChallengeRows(events) = {} /\ events = {}  BY DEF Init, ChallengeRows
  <2> QED  BY <2>1, FS_EmptySet, OutboundQuotaAssumption DEF ReserveKept
<1>2. ASSUME ReserveKept, [Next]_vars, NEW e \in events' \ events,
             e.category = "notice_rejected"
      PROVE  \/ SenderNotices(e.sender, e.at) >= SenderLimit
             \/ Cardinality({n \in events : n.category = "notice"
                                            /\ n.at >= e.at - Hour}) >= Reserve
  <2>0. PICK s \in Senders, c \in Granted : \E now : Claim(s, c, now)
    BY <1>2, TableSteps
  <2>1. PICK now : Claim(s, c, now)  BY <2>0
  <2>2. PICK x : /\ events' = Recent(now) \cup {x}
                 /\ x.sender = s /\ x.at = now
                 /\ \/ Allowed(s, c, now) /\ x.category = c
                    \/ ~Allowed(s, c, now) /\ x.category = Rejected(c)
    BY <2>1, ClaimAdds
  <2>3. e = x  BY <1>2, <2>2 DEF Recent
  <2>4. ~Allowed(s, c, now) /\ c = "notice"
    BY <1>2, <2>2, <2>3 DEF Rejected, Granted
  <2>5. ~(Total(now) < Limit) \/ ~(SenderNotices(s, now) < SenderLimit)
    BY <2>4 DEF Allowed
  <2>6. /\ Total(now) \in Nat /\ SenderNotices(s, now) \in Nat
        /\ Limit \in Nat /\ SenderLimit \in Nat
    <3>1. IsFiniteSet(events)  BY <1>2 DEF ReserveKept
    <3>2. /\ {y \in Recent(now) : y.category \in Granted} \subseteq events
          /\ {y \in Recent(now) : y.category = "notice" /\ y.sender = s} \subseteq events
      BY DEF Recent
    <3> QED  BY <3>1, <3>2, FS_Subset, FS_CardinalityType, OutboundQuotaAssumption
             DEF Total, SenderNotices
  <2>7. Total(now) >= Limit \/ SenderNotices(s, now) >= SenderLimit  BY <2>5, <2>6
  <2>8. e.sender = s /\ e.at = now  BY <2>2, <2>3
  <2> QED  BY <1>2, <2>7, <2>8, RefusalFits
<1>3. ReserveKept /\ [Next]_vars =>
        [\A e \in events' \ events :
           e.category = "notice_rejected" =>
             \/ SenderNotices(e.sender, e.at) >= SenderLimit
             \/ Cardinality({n \in events : n.category = "notice"
                                            /\ n.at >= e.at - Hour}) >= Reserve]_vars
  BY <1>2
<1> QED  BY <1>1, <1>3, ReserveNext, PTL DEF Spec, RefusalIsJustified
===============================================================================

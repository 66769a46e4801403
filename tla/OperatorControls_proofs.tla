------------------------ MODULE OperatorControls_proofs ------------------------
(***************************************************************************)
(* Proofs about the owner's commands in Saved Messages, for any number of  *)
(* senders, messages, failures and crashes.  That nothing is removed early *)
(* and that a card outlives its control are one argument: the row of a     *)
(* message in operator_artifacts never falls due before the message is old *)
(* enough, and the control of a card never outlives that age.              *)
(***************************************************************************)
EXTENDS OperatorControls, FiniteSetTheorems, WellFoundedInduction, TLAPS

-----------------------------------------------------------------------------
(* The invariant *)

\* Telegram gives every message an id of its own, and none is known before it is given.
FreshIds ==
  /\ \A m, n \in saved : m.id = n.id => m = n
  /\ \A i \in IdsOf(saved) \cup IdsOf(queue) \cup cleaner.ids : i < nextId

\* Neither does the service know an id before it is given.
Known == cmd.artifacts \cup (UNION failing) \cup inbox \cup Commands
KnownIds == \A i \in Known : i < nextId

\* A row falls due when its message is old enough, and not before; so what the loop is
\* deleting is old enough.
DueWhenOld ==
  /\ \A m \in saved, q \in queue : m.id = q.id => m.left = 0 \/ q.left >= m.left
  /\ \A m \in saved : m.id \in cleaner.ids => m.left = 0

\* A control is that of a card that is there and stays as long as the control.
ControlsFit == \A c \in controls : \E m \in saved : m.id = c.id /\ c.left <= m.left

\* A batch has been tried at least once.
BatchIsTried == cleaner # NoBatch => cleaner.retry > 0

Safe == TypeOK /\ BatchIsTried /\ KnownIds /\ FreshIds /\ DueWhenOld /\ ControlsFit

\* A message that was handled is tracked by something else than a waiting update, so a
\* duplicate may be dropped.
HandledIsTracked ==
  \A h \in handled : h.id \in IdsOf(saved) =>
    h.id \in IdsOf(queue) \cup cmd.artifacts \cup (UNION failing) \cup lost

\* Nobody owns artifacts while no command is under way.
IdleOwnsNothing == cmd.pc = "none" => cmd.artifacts = {}

\* Its id is an old one.
HandledIsGiven == \A h \in handled : h.id < nextId

Tracking ==
  /\ TypeOK /\ BatchIsTried /\ KnownIds /\ HandledIsGiven
  /\ NothingUntracked /\ HandledIsTracked /\ IdleOwnsNothing

-----------------------------------------------------------------------------
(* The operators of the queue *)

Messages == [id : Ids, left : 0 .. Ttl]
Lefts == -Overdue .. Max({Ttl, RetryMax})
Rows == [id : Ids, left : Lefts, retries : 0 .. MaxRetries]
Cmds == [pc : {"none", "header", "cards", "allow", "reply"}, items : SUBSET Item,
         left : 0 .. Ttl, artifacts : SUBSET Ids, target : SUBSET Senders]

\* The longest time a row can be queued for.
LEMMA Limits ==
  /\ Max({Ttl, RetryMax}) \in Nat
  /\ Max({Ttl, RetryMax}) >= Ttl /\ Max({Ttl, RetryMax}) >= RetryMax
<1>a. Ttl \in Nat /\ RetryMax \in Nat  BY OperatorControlsAssumption
<1>1. \E x \in {Ttl, RetryMax} : \A y \in {Ttl, RetryMax} : x >= y
  <2>1. CASE Ttl >= RetryMax  BY <1>a, <2>1
  <2>2. CASE ~(Ttl >= RetryMax)  BY <1>a, <2>2
  <2> QED  BY <2>1, <2>2
<1>2. /\ Max({Ttl, RetryMax}) \in {Ttl, RetryMax}
      /\ \A y \in {Ttl, RetryMax} : Max({Ttl, RetryMax}) >= y
  BY <1>1, Zenon DEF Max
<1> QED  BY <1>a, <1>2

\* A bounded set of naturals has a largest element.
LEMMA Largest ==
  ASSUME NEW N \in Nat, NEW S, S \subseteq 0 .. N, S # {}
  PROVE  Max(S) \in 0 .. N
<1> DEFINE T == {N - r : r \in S}
           R == OpToRel(<, Nat)
<1>1. \A r \in S : N - r \in Nat  OBVIOUS
<1>2. T \subseteq Nat  BY <1>1, Zenon
<1>3. T # {}  BY Zenon
<1>4. IsWellFoundedOn(R, Nat)  BY NatLessThanWellFounded
<1>5. ASSUME NEW a \in Nat, NEW b \in Nat, ~(<<a, b>> \in R) PROVE ~(a < b)
  <2>1. <<a, b>> \in Nat \X Nat /\ <<a, b>>[1] = a /\ <<a, b>>[2] = b  OBVIOUS
  <2> QED  BY <1>5, <2>1, Zenon DEF OpToRel
<1> HIDE DEF T, R
<1>6. PICK x \in T : \A y \in T : ~(<<y, x>> \in R)  BY <1>2, <1>3, <1>4, WFMin, Zenon
<1>7. \A y \in T : ~(y < x)  BY <1>2, <1>5, <1>6
<1>8. PICK r \in S : x = N - r  BY <1>6 DEF T
<1>9. ASSUME NEW y \in S PROVE r >= y
  <2>1. N - y \in T  BY DEF T
  <2> QED  BY <1>7, <1>8, <2>1
<1> QED  BY <1>8, <1>9, Zenon DEF Max

\* The set of possible rows is finite.
LEMMA RowsAreFinite == IsFiniteSet(Rows)
<1> DEFINE P == Lefts \X (0 .. MaxRetries)
           f == [x \in Ids \X P |-> [id |-> x[1], left |-> x[2][1], retries |-> x[2][2]]]
<1>a. /\ Overdue \in Nat /\ MaxRetries \in Nat /\ MaxMessages \in Nat
      /\ Max({Ttl, RetryMax}) \in Nat
  BY OperatorControlsAssumption, Limits
<1>1. IsFiniteSet(Ids) /\ IsFiniteSet(Lefts) /\ IsFiniteSet(0 .. MaxRetries)
  <2>1. -Overdue \in Int /\ Max({Ttl, RetryMax}) \in Int /\ 0 \in Int /\ 1 \in Int
        /\ MaxRetries \in Int /\ MaxMessages \in Int
    BY <1>a
  <2> QED  BY <2>1, FS_Interval DEF Ids, Lefts
<1>2. IsFiniteSet(Ids \X P)  BY <1>1, FS_Product
<1>3. f \in Surjection(Ids \X P, Rows)
  <2>1. f \in [Ids \X P -> Rows]  BY DEF Rows
  <2>2. ASSUME NEW q \in Rows PROVE \E x \in Ids \X P : f[x] = q
    <3>1. <<q.id, <<q.left, q.retries>>>> \in Ids \X P  BY DEF Rows
    <3>2. f[<<q.id, <<q.left, q.retries>>>>] = q  BY <3>1 DEF Rows
    <3> HIDE DEF f, P
    <3> QED  BY <3>1, <3>2
  <2> HIDE DEF f, P
  <2> QED  BY <2>1, <2>2 DEF Surjection
<1> HIDE DEF f, P
<1> QED  BY <1>2, <1>3, FS_Surjection

\* The waiting time of a retry is that of the cap at most.
LEMMA RetryDelayType ==
  ASSUME NEW retry \in Nat, retry > 0
  PROVE  RetryDelay(retry) \in Nat /\ RetryDelay(retry) <= RetryMax
<1>a. RetryBase \in Nat /\ RetryMax \in Nat  BY OperatorControlsAssumption
<1> DEFINE k == Least(retry - 1, 7)
           e == 2 ^ k
<1>1. k \in {0, 1, 2, 3, 4, 5, 6, 7}  BY DEF Least
<1>2. 2 ^ 0 \in Nat /\ 2 ^ 1 \in Nat /\ 2 ^ 2 \in Nat /\ 2 ^ 3 \in Nat  OBVIOUS
<1>3. 2 ^ 4 \in Nat /\ 2 ^ 5 \in Nat /\ 2 ^ 6 \in Nat /\ 2 ^ 7 \in Nat  OBVIOUS
<1>4. e \in Nat
  <2> HIDE DEF k
  <2> QED  BY <1>1, <1>2, <1>3, Zenon
<1>5. RetryDelay(retry) = Least(RetryMax, RetryBase * e)  BY DEF RetryDelay
<1> HIDE DEF e
<1>6. RetryBase * e \in Nat  BY <1>a, <1>4
<1> QED  BY <1>a, <1>5, <1>6 DEF Least

\* Who has an id.
LEMMA HasId == ASSUME NEW S, NEW i PROVE i \in IdsOf(S) <=> \E x \in S : x.id = i
BY DEF IdsOf

\* schedule_operator_artifacts: exactly the given ids are added, and a row keeps its
\* time or gets the given one.
LEMMA Upserted ==
  ASSUME NEW rows, rows \subseteq Rows, NEW ids, ids \subseteq Ids, NEW left \in 0 .. Ttl
  PROVE  LET new == Upsert(rows, ids, left)
         IN  /\ new \subseteq Rows
             /\ IdsOf(new) = IdsOf(rows) \cup ids
             /\ \A q \in new : q.left = left \/ \E r \in rows : r.id = q.id /\ r.left = q.left
<1>a. /\ Ttl \in Nat /\ Overdue \in Nat /\ RetryMax \in Nat /\ MaxRetries \in Nat
      /\ Max({Ttl, RetryMax}) \in Nat /\ Max({Ttl, RetryMax}) >= Ttl
  BY OperatorControlsAssumption, Limits
<1>b. left \in Lefts  BY <1>a DEF Lefts
<1> DEFINE To(q) == IF q.id \in ids THEN [q EXCEPT !.left = Least(@, left)] ELSE q
           Added(i) == [id |-> i, left |-> left, retries |-> 0]
           new == Upsert(rows, ids, left)
<1>1. ASSUME NEW q \in rows
      PROVE  /\ To(q) \in Rows /\ To(q).id = q.id
             /\ To(q).left = left \/ To(q).left = q.left
  <2>1. q \in Rows /\ q.left \in Lefts  BY DEF Rows
  <2>2. Least(q.left, left) \in {q.left, left}  BY DEF Least
  <2>3. Least(q.left, left) \in Lefts  BY <1>b, <2>1, <2>2
  <2>4. CASE q.id \in ids
    <3>1. To(q) = [q EXCEPT !.left = Least(q.left, left)]  BY <2>4
    <3> HIDE DEF To
    <3> DEFINE l == Least(q.left, left)
    <3>2. To(q) \in Rows /\ To(q).id = q.id /\ To(q).left = l
      <4> HIDE DEF l
      <4>1. To(q) = [q EXCEPT !.left = l]  BY <3>1 DEF l
      <4>2. l \in Lefts  BY <2>3 DEF l
      <4> QED  BY <2>1, <4>1, <4>2 DEF Rows
    <3> QED  BY <2>2, <3>2
  <2>5. CASE q.id \notin ids
    <3>1. To(q) = q  BY <2>5
    <3> HIDE DEF To
    <3> QED  BY <2>1, <3>1
  <2> QED  BY <2>4, <2>5
<1>2. ASSUME NEW i \in ids
      PROVE  Added(i) \in Rows /\ Added(i).id = i /\ Added(i).left = left
  <2>1. 0 \in 0 .. MaxRetries  BY <1>a
  <2> QED  BY <1>b, <2>1 DEF Rows
<1>3. new = {To(q) : q \in rows} \cup {Added(i) : i \in ids \ IdsOf(rows)}  BY DEF Upsert
<1> HIDE DEF new, To, Added
<1>4. ASSUME NEW q \in new
      PROVE  /\ q \in Rows /\ q.id \in IdsOf(rows) \cup ids
             /\ q.left = left \/ \E r \in rows : r.id = q.id /\ r.left = q.left
  <2>1. CASE \E r \in rows : q = To(r)
    <3>1. PICK r \in rows : q = To(r)  BY <2>1
    <3>2. r.id \in IdsOf(rows)  BY HasId
    <3> QED  BY <1>1, <3>1, <3>2
  <2>2. CASE \E i \in ids : q = Added(i)  BY <1>2, <2>2
  <2> QED  BY <1>3, <2>1, <2>2
<1>5. ASSUME NEW i \in IdsOf(rows) \cup ids PROVE \E q \in new : q.id = i
  <2>1. CASE i \in IdsOf(rows)
    <3>1. PICK r \in rows : r.id = i  BY <2>1, HasId
    <3>2. To(r) \in new /\ To(r).id = i  BY <1>1, <1>3, <3>1
    <3> QED  BY <3>2
  <2>2. CASE i \in ids \ IdsOf(rows)
    <3>1. Added(i) \in new /\ Added(i).id = i  BY <1>2, <1>3, <2>2
    <3> QED  BY <3>1
  <2> QED  BY <2>1, <2>2
<1>6. IdsOf(new) = IdsOf(rows) \cup ids
  <2>1. \A i : i \in IdsOf(new) <=> \E q \in new : q.id = i  BY HasId
  <2> QED  BY <1>4, <1>5, <2>1
<1>7. new \subseteq Rows  BY <1>4
<1> QED  BY <1>4, <1>6, <1>7 DEF new

\* retry_operator_artifacts: no row comes or goes, and only those of the batch move.
LEMMA RetriedRows ==
  ASSUME NEW rows, rows \subseteq Rows, NEW batch, batch.retry \in Nat, batch.retry > 0,
         batch.age \in Nat
  PROVE  LET new == Retried(rows, batch)
         IN  /\ new \subseteq Rows
             /\ IdsOf(new) = IdsOf(rows)
             /\ \A q \in new : \/ q.id \in batch.ids
                               \/ \E r \in rows : r.id = q.id /\ r.left = q.left
<1>a. /\ Ttl \in Nat /\ Overdue \in Nat /\ RetryMax \in Nat /\ MaxRetries \in Nat
      /\ Max({Ttl, RetryMax}) \in Nat /\ Max({Ttl, RetryMax}) >= RetryMax
  BY OperatorControlsAssumption, Limits
<1>b. RetryDelay(batch.retry) \in Nat /\ RetryDelay(batch.retry) <= RetryMax
  BY RetryDelayType
<1> DEFINE left == IF RetryDelay(batch.retry) - batch.age < -Overdue
                   THEN -Overdue ELSE RetryDelay(batch.retry) - batch.age
           More(n) == Least(n + 1, MaxRetries)
           To(q) == IF q.id \in batch.ids
                    THEN [q EXCEPT !.left = left, !.retries = More(@)] ELSE q
           new == Retried(rows, batch)
<1>1. left \in Lefts  BY <1>a, <1>b DEF Lefts
<1>2. ASSUME NEW n \in 0 .. MaxRetries PROVE More(n) \in 0 .. MaxRetries
  BY <1>a DEF Least
<1>3. new = {To(q) : q \in rows}  BY DEF Retried
<1> HIDE DEF left, More
<1>4. ASSUME NEW q \in rows
      PROVE  To(q) \in Rows /\ To(q).id = q.id /\ (q.id \in batch.ids \/ To(q) = q)
  <2>1. q \in Rows /\ q.retries \in 0 .. MaxRetries  BY DEF Rows
  <2>2. CASE q.id \in batch.ids
    <3> DEFINE n == More(q.retries)
    <3>1. n \in 0 .. MaxRetries  BY <1>2, <2>1
    <3>2. To(q) = [q EXCEPT !.left = left, !.retries = n]  BY <2>2
    <3> HIDE DEF n, To
    <3>3. To(q) \in Rows /\ To(q).id = q.id  BY <1>1, <2>1, <3>1, <3>2 DEF Rows
    <3> QED  BY <2>2, <3>3
  <2>3. CASE q.id \notin batch.ids
    <3>1. To(q) = q  BY <2>3
    <3> HIDE DEF To
    <3> QED  BY <2>1, <3>1
  <2> QED  BY <2>2, <2>3
<1> HIDE DEF new, To
<1>5. new \subseteq Rows  BY <1>3, <1>4
<1>6. IdsOf(new) = IdsOf(rows)
  <2>1. \A i : /\ i \in IdsOf(new) <=> \E q \in new : q.id = i
               /\ i \in IdsOf(rows) <=> \E q \in rows : q.id = i
    BY HasId
  <2>2. \A i : (\E q \in new : q.id = i) <=> \E q \in rows : q.id = i  BY <1>3, <1>4
  <2> QED  BY <2>1, <2>2
<1>7. \A q \in new : q.id \in batch.ids \/ \E r \in rows : r.id = q.id /\ r.left = q.left
  BY <1>3, <1>4
<1> QED  BY <1>5, <1>6, <1>7 DEF new

\* What is left when some ids are removed.
LEMMA Removed ==
  ASSUME NEW S, NEW ids
  PROVE  /\ Without(S, ids) \subseteq S
         /\ \A x \in S : x \in Without(S, ids) <=> x.id \notin ids
         /\ IdsOf(Without(S, ids)) = IdsOf(S) \ ids
<1>1. /\ Without(S, ids) \subseteq S
      /\ \A x \in S : x \in Without(S, ids) <=> x.id \notin ids
  BY DEF Without
<1>2. IdsOf(Without(S, ids)) = IdsOf(S) \ ids  BY DEF IdsOf, Without
<1> QED  BY <1>1, <1>2

Marks == [id : Ids, left : 1 .. Ttl]
Controls == [id : Ids, left : 1 .. Ttl, sender : Senders, listing : Nat]

\* A unit of time passes for the maps of the service.
LEMMA OlderMarks ==
  ASSUME NEW S, S \subseteq Marks
  PROVE  Older(S) \subseteq Marks /\ \A x \in Older(S) : \E y \in S : x.id = y.id
<1>1. ASSUME NEW x \in Older(S) PROVE x \in Marks /\ \E y \in S : x.id = y.id
  <2>1. PICK y \in S : x = [y EXCEPT !.left = @ - 1]  BY DEF Older
  <2>2. x.left > 0  BY DEF Older
  <2>3. Ttl \in Nat /\ y \in Marks  BY OperatorControlsAssumption
  <2>4. y.left \in 1 .. Ttl  BY <2>3 DEF Marks
  <2>5. x.left = y.left - 1 /\ x.id = y.id  BY <2>1, <2>3 DEF Marks
  <2>6. x.left \in 1 .. Ttl  BY <2>2, <2>3, <2>4, <2>5
  <2>7. x = [y EXCEPT !.left = x.left]  BY <2>1, <2>3, <2>5 DEF Marks
  <2>8. x \in Marks  BY <2>3, <2>6, <2>7 DEF Marks
  <2> QED  BY <2>5, <2>8
<1> QED  BY <1>1

\* Controls a tick later: the same ones, one unit nearer to their end.
LEMMA OlderControls ==
  ASSUME NEW S, S \subseteq Controls
  PROVE  /\ Older(S) \subseteq Controls
         /\ \A x \in Older(S) : \E y \in S : /\ x.id = y.id /\ x.listing = y.listing
                                             /\ x.left = y.left - 1
<1>1. ASSUME NEW x \in Older(S)
      PROVE  /\ x \in Controls
             /\ \E y \in S : x.id = y.id /\ x.listing = y.listing /\ x.left = y.left - 1
  <2>1. PICK y \in S : x = [y EXCEPT !.left = @ - 1]  BY DEF Older
  <2>2. x.left > 0  BY DEF Older
  <2>3. Ttl \in Nat /\ y \in Controls  BY OperatorControlsAssumption
  <2>4. y.left \in 1 .. Ttl  BY <2>3 DEF Controls
  <2>5. x.left = y.left - 1 /\ x.id = y.id /\ x.listing = y.listing
    BY <2>1, <2>3 DEF Controls
  <2>6. x.left \in 1 .. Ttl  BY <2>2, <2>3, <2>4, <2>5
  <2>7. x = [y EXCEPT !.left = x.left]  BY <2>1, <2>3, <2>5 DEF Controls
  <2>8. x \in Controls  BY <2>3, <2>6, <2>7 DEF Controls
  <2> QED  BY <2>5, <2>8
<1> QED  BY <1>1

\* ... for the messages in Saved Messages,
AgedMessage(m) == [m EXCEPT !.left = NotBelow(0, @ - 1)]
Ages(m, n) == n = AgedMessage(m) /\ n.id = m.id /\ n.left = NotBelow(0, m.left - 1)

\* Messages a tick later: the same ones, one unit older.
LEMMA OlderMessages ==
  ASSUME NEW S, S \subseteq Messages, NEW new, new = {AgedMessage(m) : m \in S}
  PROVE  /\ new \subseteq Messages
         /\ IdsOf(new) = IdsOf(S)
         /\ (\A n \in new : \E m \in S : Ages(m, n)) /\ \A m \in S : \E n \in new : Ages(m, n)
<1>1. ASSUME NEW m \in S
      PROVE  /\ AgedMessage(m) \in Messages /\ AgedMessage(m).id = m.id
             /\ AgedMessage(m).left = NotBelow(0, m.left - 1)
  <2>1. Ttl \in Nat /\ m \in Messages /\ m.left \in 0 .. Ttl
    BY OperatorControlsAssumption DEF Messages
  <2>2. NotBelow(0, m.left - 1) \in 0 .. Ttl  BY <2>1 DEF NotBelow
  <2> DEFINE l == NotBelow(0, m.left - 1)
  <2>3. AgedMessage(m) = [m EXCEPT !.left = l]  BY <2>1 DEF Messages, AgedMessage
  <2>4. l \in 0 .. Ttl  BY <2>2
  <2> HIDE DEF l
  <2>5. AgedMessage(m) \in Messages /\ AgedMessage(m).id = m.id /\ AgedMessage(m).left = l
    BY <2>1, <2>3, <2>4 DEF Messages
  <2> QED  BY <2>5 DEF l
<1>2. \A n \in new : \E m \in S : n = AgedMessage(m)  OBVIOUS
<1>3. \A m \in S : AgedMessage(m) \in new  OBVIOUS
<1>4. new \subseteq Messages  BY <1>1, <1>2
<1>5. IdsOf(new) = IdsOf(S)
  <2>1. \A i : /\ i \in IdsOf(new) <=> \E n \in new : n.id = i
               /\ i \in IdsOf(S) <=> \E m \in S : m.id = i
    BY HasId
  <2>2. \A i : (\E n \in new : n.id = i) <=> \E m \in S : m.id = i  BY <1>1, <1>2, <1>3
  <2> QED  BY <2>1, <2>2
<1>6. \A n \in new : \E m \in S : Ages(m, n)  BY <1>1, <1>2 DEF Ages
<1>7. \A m \in S : \E n \in new : Ages(m, n)  BY <1>1, <1>3 DEF Ages
<1> QED  BY <1>4, <1>5, <1>6, <1>7, Zenon

\* ... and for the rows of the queue.
LEMMA OlderRows ==
  ASSUME NEW S, S \subseteq Rows
  PROVE  LET new == {[q EXCEPT !.left = NotBelow(-Overdue, @ - 1)] : q \in S}
         IN  /\ new \subseteq Rows
             /\ IdsOf(new) = IdsOf(S)
             /\ \A r \in new : \E q \in S : /\ r.id = q.id
                                            /\ r.left = NotBelow(-Overdue, q.left - 1)
<1> DEFINE To(q) == [q EXCEPT !.left = NotBelow(-Overdue, @ - 1)]
           new == {To(q) : q \in S}
<1>1. ASSUME NEW q \in S
      PROVE  To(q) \in Rows /\ To(q).id = q.id /\ To(q).left = NotBelow(-Overdue, q.left - 1)
  <2>1. /\ Overdue \in Nat /\ Max({Ttl, RetryMax}) \in Nat
        /\ q \in Rows /\ q.left \in Lefts
    BY OperatorControlsAssumption, Limits DEF Rows
  <2>2. NotBelow(-Overdue, q.left - 1) \in Lefts  BY <2>1 DEF NotBelow, Lefts
  <2> DEFINE l == NotBelow(-Overdue, q.left - 1)
  <2>3. To(q) = [q EXCEPT !.left = l]  BY <2>1 DEF Rows
  <2>4. l \in Lefts  BY <2>2
  <2> HIDE DEF l, To
  <2>5. To(q) \in Rows /\ To(q).id = q.id /\ To(q).left = l  BY <2>1, <2>3, <2>4 DEF Rows
  <2> QED  BY <2>5 DEF l
<1>2. \A n \in new : \E q \in S : n = To(q)  OBVIOUS
<1>3. \A q \in S : To(q) \in new  OBVIOUS
<1> HIDE DEF To, new
<1>4. new \subseteq Rows  BY <1>1, <1>2
<1>5. IdsOf(new) = IdsOf(S)
  <2>1. \A i : /\ i \in IdsOf(new) <=> \E n \in new : n.id = i
               /\ i \in IdsOf(S) <=> \E q \in S : q.id = i
    BY HasId
  <2>2. \A i : (\E n \in new : n.id = i) <=> \E q \in S : q.id = i  BY <1>1, <1>2, <1>3
  <2> QED  BY <2>1, <2>2
<1>6. \A r \in new : \E q \in S : r.id = q.id /\ r.left = NotBelow(-Overdue, q.left - 1)
  BY <1>1, <1>2
<1> QED  BY <1>4, <1>5, <1>6, Zenon DEF new, To

\* reconcile_artifacts: everything found is queued, for its own time at the earliest.
LEMMA ReconciledRows ==
  ASSUME saved \subseteq Messages, queue \subseteq Rows
  PROVE  /\ Reconciled \subseteq Rows
         /\ IdsOf(Reconciled) = IdsOf(queue) \cup IdsOf(saved)
         /\ (/\ \A m, n \in saved : m.id = n.id => m = n
             /\ \A m \in saved, q \in queue : m.id = q.id => m.left = 0 \/ q.left >= m.left)
            => \A m \in saved, q \in Reconciled : m.id = q.id => m.left = 0 \/ q.left >= m.left
<1>a. /\ Ttl \in Nat /\ Overdue \in Nat /\ MaxRetries \in Nat
      /\ Max({Ttl, RetryMax}) \in Nat /\ Max({Ttl, RetryMax}) >= Ttl
  BY OperatorControlsAssumption, Limits
<1>b. 0 .. Ttl \subseteq Lefts /\ Lefts \subseteq Int /\ 0 .. Ttl \subseteq Int
      /\ 0 \in 0 .. MaxRetries
  BY <1>a DEF Lefts
<1>c. \A i : /\ i \in IdsOf(queue) <=> \E q \in queue : q.id = i
             /\ i \in IdsOf(saved) <=> \E m \in saved : m.id = i
             /\ i \in IdsOf(Reconciled) <=> \E q \in Reconciled : q.id = i
  BY HasId
<1> DEFINE Fits == /\ \A m, n \in saved : m.id = n.id => m = n
                   /\ \A m \in saved, q \in queue :
                        m.id = q.id => m.left = 0 \/ q.left >= m.left
           Of(q) == CHOOSE m \in saved : m.id = q.id
           To(q) == IF \E m \in saved : m.id = q.id
                    THEN [q EXCEPT !.left = Least(@, Of(q).left)] ELSE q
           Added(m) == [id |-> m.id, left |-> m.left, retries |-> 0]
<1>1. Reconciled = {To(q) : q \in queue}
                   \cup {Added(m) : m \in {n \in saved : n.id \notin IdsOf(queue)}}
  BY Zenon DEF Reconciled
<1>2. ASSUME NEW q \in queue
      PROVE  /\ To(q) \in Rows /\ To(q).id = q.id
             /\ Fits => \A m \in saved : m.id = q.id => m.left = 0 \/ To(q).left >= m.left
  <2>1. q \in Rows /\ q.left \in Lefts  BY DEF Rows
  <2>2. CASE \E m \in saved : m.id = q.id
    <3>1. Of(q) \in saved /\ Of(q).id = q.id  BY <2>2
    <3> DEFINE o == Of(q)
               l == Least(q.left, o.left)
    <3>2. To(q) = [q EXCEPT !.left = l]  BY <2>2
    <3> HIDE DEF To, Of, o
    <3>3. o \in saved /\ o.id = q.id  BY <3>1 DEF o
    <3>4. o.left \in 0 .. Ttl  BY <3>3 DEF Messages
    <3>5. l \in {q.left, o.left}  BY DEF Least
    <3>6. l \in Lefts  BY <1>b, <2>1, <3>4, <3>5
    <3>7. Fits => \A m \in saved : m.id = q.id => m.left = 0 \/ l >= m.left
      <4> SUFFICES ASSUME Fits, NEW m \in saved, m.id = q.id PROVE m.left = 0 \/ l >= m.left
        OBVIOUS
      <4>1. m = o  BY <3>3
      <4>2. m.left = 0 \/ q.left >= m.left  OBVIOUS
      <4> QED  BY <1>b, <2>1, <3>4, <3>5, <4>1, <4>2
    <3> HIDE DEF l
    <3>8. To(q) \in Rows /\ To(q).id = q.id /\ To(q).left = l
      BY <2>1, <3>2, <3>6 DEF Rows
    <3> QED  BY <3>7, <3>8
  <2>3. CASE ~\E m \in saved : m.id = q.id
    <3>1. To(q) = q  BY <2>3
    <3> HIDE DEF To, Of
    <3> QED  BY <2>1, <2>3, <3>1
  <2> QED  BY <2>2, <2>3
<1>3. ASSUME NEW m \in saved
      PROVE  Added(m) \in Rows /\ Added(m).id = m.id /\ Added(m).left = m.left
  <2>1. m.id \in Ids /\ m.left \in Lefts  BY <1>b DEF Messages
  <2> QED  BY <1>b, <2>1 DEF Rows
<1> HIDE DEF To, Of, Added
<1>4. ASSUME NEW q \in Reconciled
      PROVE  /\ q \in Rows
             /\ (\E r \in queue : r.id = q.id) \/ \E m \in saved : m.id = q.id
             /\ Fits => \A m \in saved : m.id = q.id => m.left = 0 \/ q.left >= m.left
  <2>1. CASE \E r \in queue : q = To(r)  BY <1>2, <2>1
  <2>2. CASE \E m \in saved : q = Added(m)
    <3>1. PICK m \in saved : q = Added(m)  BY <2>2
    <3>2. q \in Rows /\ q.id = m.id /\ q.left = m.left  BY <1>3, <3>1
    <3>3. m.left \in Int  BY <1>b DEF Messages
    <3> QED  BY <3>2, <3>3
  <2> QED  BY <1>1, <2>1, <2>2
<1>5. ASSUME NEW r \in queue PROVE \E q \in Reconciled : q.id = r.id
  BY <1>1, <1>2
<1>6. ASSUME NEW m \in saved PROVE \E q \in Reconciled : q.id = m.id
  <2>1. CASE m.id \in IdsOf(queue)  BY <1>5, <1>c, <2>1
  <2>2. CASE m.id \notin IdsOf(queue)  BY <1>1, <1>3, <2>2
  <2> QED  BY <2>1, <2>2
<1>7. Reconciled \subseteq Rows  BY <1>4
<1>8. IdsOf(Reconciled) = IdsOf(queue) \cup IdsOf(saved)
  BY <1>4, <1>5, <1>6, <1>c
<1>9. Fits => \A m \in saved, q \in Reconciled : m.id = q.id => m.left = 0 \/ q.left >= m.left
  BY <1>4
<1> QED  BY <1>7, <1>8, <1>9, Zenon

-----------------------------------------------------------------------------
(* Types *)

Batches == [ids : SUBSET Ids, retry : Nat, age : Nat]
Texts == [kind : {"none", "cases", "allow", "other"}, reply : 0 .. MaxMessages]

\* TypeOK in two halves: what the service keeps in memory and what it does not.
Outside ==
  /\ case \in [Senders -> Cases] /\ forgotten \in [Senders -> 0 .. MaxForgotten]
  /\ text \in [Ids -> Texts] /\ nextId \in 1 .. MaxMessages + 1
  /\ saved \subseteq Messages /\ lost \subseteq Ids
  /\ redelivered \in 0 .. MaxRedelivered /\ crashes \in 0 .. MaxCrashes
  /\ up \in BOOLEAN
  /\ queue \subseteq Rows
Inside ==
  /\ inbox \subseteq Ids
  /\ handled \subseteq Marks /\ controls \subseteq Controls /\ listing \in Nat
  /\ cmd \in Cmds /\ failing \subseteq SUBSET Ids
  /\ cleaner \in Batches

\* The type invariant in two halves: what outlives a command, and the command.
LEMMA Halves == (TypeOK <=> Outside /\ Inside) /\ (TypeOK' <=> Outside' /\ Inside')
BY DEF TypeOK, Outside, Inside, Texts, Messages, Rows, Lefts, Marks, Controls, Cmds, Batches

\* The commands as they begin and end.
LEMMA CommandTypes ==
  /\ NoCommand \in Cmds /\ NoBatch \in Batches
  /\ \A pc \in {"reply", "header", "allow"}, i \in Ids, items \in SUBSET Item,
        target \in SUBSET Senders : Doing(pc, i, items, target) \in Cmds
<1>1. 0 \in 0 .. Ttl  BY OperatorControlsAssumption
<1> QED  BY <1>1 DEF NoCommand, NoBatch, Doing, Cmds, Batches

\* A message appears, or none does.
LEMMA AnswerTypes ==
  ASSUME Outside, Sent \/ NotSent
  PROVE  /\ nextId' \in 1 .. MaxMessages + 1 /\ saved' \subseteq Messages
         /\ lost' \subseteq Ids
         /\ Sent => nextId \in Ids
<1>a. MaxMessages \in Nat /\ Ttl \in Nat /\ nextId \in 1 .. MaxMessages + 1
      /\ saved \subseteq Messages /\ lost \subseteq Ids
  BY OperatorControlsAssumption DEF Outside
<1>1. CASE nextId <= MaxMessages /\ Appears /\ lost' \in {lost, lost \cup {nextId}}
  <2>1. nextId \in Ids /\ nextId + 1 \in 1 .. MaxMessages + 1 /\ Ttl \in 0 .. Ttl
    BY <1>a, <1>1 DEF Ids
  <2>2. [id |-> nextId, left |-> Ttl] \in Messages  BY <2>1 DEF Messages
  <2> QED  BY <1>a, <1>1, <2>1, <2>2 DEF Appears
<1>2. CASE UNCHANGED <<saved, nextId, lost>> /\ ~Sent  BY <1>a, <1>2
<1>3. CASE UNCHANGED <<saved, nextId, lost>> /\ Sent
  BY <1>1, <1>3 DEF Sent
<1> QED  BY <1>1, <1>2, <1>3 DEF Sent, NotSent

\* What begins, sends and ends commands leaves most of the rest alone.
LEMMA AnsweringTypes ==
  ASSUME Outside, Inside, Sent \/ NotSent,
         UNCHANGED <<case, forgotten, text, inbox, redelivered, up, crashes, handled,
                     listing, cleaner>>,
         queue' \subseteq Rows, controls' \subseteq Controls, cmd' \in Cmds,
         failing' \subseteq SUBSET Ids
  PROVE  TypeOK'
<1>1. /\ nextId' \in 1 .. MaxMessages + 1 /\ saved' \subseteq Messages
      /\ lost' \subseteq Ids
  BY AnswerTypes
<1>2. Outside'  BY <1>1 DEF Outside
<1>3. Inside'  BY DEF Inside
<1> QED  BY <1>2, <1>3, Halves

\* Everything ScheduleArtifacts makes of the queue is a row.
LEMMA Scheduling ==
  ASSUME Outside, NEW ids, ids \subseteq Ids, ScheduleArtifacts(ids)
  PROVE  /\ queue' \subseteq Rows
         /\ IdsOf(queue') = IdsOf(queue) \cup ids
         /\ \A q \in queue' : q.left = Ttl \/ \E r \in queue : r.id = q.id /\ r.left = q.left
<1>1. queue \subseteq Rows /\ Ttl \in 0 .. Ttl
  BY OperatorControlsAssumption DEF Outside
<1>2. queue' = Upsert(queue, ids, Ttl)  BY DEF ScheduleArtifacts
<1> QED  BY <1>1, <1>2, Upserted

\* due_operator_artifacts takes something when something is due.
LEMMA TakenBatch ==
  ASSUME Outside, CleanerTakes
  PROVE  /\ cleaner'.ids \subseteq IdsOf(Due) /\ cleaner'.retry > 0
         /\ cleaner' \in Batches
<1> DEFINE Taken(batch) == {q.retries : q \in batch}
<1>1. PICK batch \in SUBSET Due :
        /\ Cardinality(batch) = Least(BatchLimit, Cardinality(Due))
        /\ cleaner' = [ids |-> IdsOf(batch), age |-> 0, retry |-> Max(Taken(batch)) + 1]
  BY Zenon DEF CleanerTakes
<1>2. queue \subseteq Rows /\ Due \subseteq Rows /\ batch \subseteq Rows
      /\ MaxRetries \in Nat /\ BatchLimit \in Nat /\ BatchLimit # 0
  BY OperatorControlsAssumption DEF Outside, Due
<1>3. IsFiniteSet(Due)  BY <1>2, RowsAreFinite, FS_Subset
<1>4. Cardinality(Due) \in Nat /\ Cardinality(Due) # 0
  <2>1. Due # {}  BY DEF CleanerTakes
  <2> QED  BY <1>3, <2>1, FS_CardinalityType, FS_EmptySet
<1>5. batch # {}
  <2>1. Cardinality(batch) # 0  BY <1>1, <1>2, <1>4 DEF Least
  <2> QED  BY <2>1, FS_EmptySet
<1>6. Taken(batch) \subseteq 0 .. MaxRetries /\ Taken(batch) # {}
  <2>1. \A q \in batch : q.retries \in 0 .. MaxRetries  BY <1>2 DEF Rows
  <2> QED  BY <1>5, <2>1
<1> DEFINE n == Max(Taken(batch))
<1> HIDE DEF Taken
<1>7. n \in 0 .. MaxRetries  BY <1>2, <1>6, Largest
<1>8. IdsOf(batch) \subseteq IdsOf(Due) /\ IdsOf(batch) \subseteq Ids
  BY <1>2 DEF IdsOf, Rows
<1>9. cleaner' = [ids |-> IdsOf(batch), age |-> 0, retry |-> n + 1]  BY <1>1
<1> HIDE DEF n
<1>10. n + 1 \in Nat /\ n + 1 > 0  BY <1>2, <1>7
<1> QED  BY <1>8, <1>9, <1>10 DEF Batches

\* A case card is sent: its control is recorded, and the last one ends the command.
NewControl(item) ==
  [id |-> nextId, left |-> cmd.left, sender |-> item.sender, listing |-> listing]
CardAppears(item) ==
  /\ Sent /\ UNCHANGED failing
  /\ controls' = controls \/ (cmd.left > 0 /\ controls' = controls \cup {NewControl(item)})
  /\ \/ ScheduleArtifacts(cmd.artifacts \cup {nextId}) /\ cmd' = NoCommand
     \/ /\ UNCHANGED queue
        /\ cmd' = [cmd EXCEPT !.items = @ \ {item}, !.artifacts = @ \cup {nextId}]

\* A card either appears in Saved Messages or it does not.
LEMMA CardCases ==
  ASSUME NEW item, CardSent(item)
  PROVE  CardAppears(item) \/ (NotSent /\ Fail /\ UNCHANGED <<controls, queue>>)
BY Zenon DEF CardSent, CardAppears, NewControl

\* One step per action.
LEMMA TypeKept ==
  ASSUME TypeOK, BatchIsTried, [Next]_vars
  PROVE  TypeOK' /\ BatchIsTried'
<1>a. Outside /\ Inside  BY Halves
<1>b. /\ Ttl \in Nat /\ Ttl # 0 /\ MaxMessages \in Nat /\ Overdue \in Nat /\ RetryMax \in Nat
      /\ MaxRedelivered \in Nat /\ MaxForgotten \in Nat /\ MaxCrashes \in Nat
  BY OperatorControlsAssumption
<1>c. ASSUME Outside', Inside', UNCHANGED cleaner PROVE TypeOK' /\ BatchIsTried'
  BY <1>c, Halves DEF BatchIsTried
<1>d. ASSUME Outside', Inside', cleaner' = NoBatch PROVE TypeOK' /\ BatchIsTried'
  BY <1>d, Halves DEF BatchIsTried, NoBatch
<1>1. ASSUME NEW kind \in {"cases", "other", "allow"}, NEW reply \in 0 .. MaxMessages,
             OwnerSends(kind, reply)
      PROVE  TypeOK' /\ BatchIsTried'
  <2>1. nextId \in Ids /\ nextId + 1 \in 1 .. MaxMessages + 1 /\ Ttl \in 0 .. Ttl
    BY <1>a, <1>b, <1>1 DEF OwnerSends, Outside, Ids
  <2>2. [id |-> nextId, left |-> Ttl] \in Messages /\ [kind |-> kind, reply |-> reply] \in Texts
    BY <2>1 DEF Messages, Texts
  <2>3. Outside'
    <3>1. text' \in [Ids -> Texts]  BY <1>a, <1>1, <2>1, <2>2 DEF OwnerSends, Outside
    <3>2. lost' \subseteq Ids  BY <1>a, <1>1, <2>1 DEF OwnerSends, Outside
    <3> QED  BY <1>a, <1>1, <2>1, <2>2, <3>1, <3>2 DEF OwnerSends, Outside, world
  <2>4. Inside'
    <3>1. inbox' \subseteq Ids  BY <1>a, <1>1, <2>1 DEF OwnerSends, Inside
    <3> QED  BY <1>a, <1>1, <3>1 DEF OwnerSends, Inside, service
  <2> QED  BY <1>1, <1>c, <2>3, <2>4 DEF OwnerSends
<1>2. ASSUME NEW i \in Ids, Redeliver(i) PROVE TypeOK' /\ BatchIsTried'
  <2>1. Outside'  BY <1>a, <1>b, <1>2 DEF Redeliver, Outside, world
  <2>2. Inside'  BY <1>a, <1>2 DEF Redeliver, Inside, service
  <2> QED  BY <1>2, <1>c, <2>1, <2>2 DEF Redeliver
<1>3. ASSUME NEW i, Takes(i), handled' \subseteq Marks, controls' \subseteq controls,
             listing' \in Nat, cmd' \in Cmds
      PROVE  TypeOK' /\ BatchIsTried'
  <2>1. Outside'  BY <1>a, <1>3 DEF Takes, Outside, world
  <2>2. Inside'  BY <1>a, <1>3 DEF Takes, Inside
  <2> QED  BY <1>3, <1>c, <2>1, <2>2 DEF Takes
<1>4. ASSUME NEW i \in Ids, Duplicate(i) PROVE TypeOK' /\ BatchIsTried'
  BY <1>a, <1>3, <1>4 DEF Duplicate, Inside
<1>5. ASSUME NEW i \in Ids, handled' = handled \cup {[id |-> i, left |-> Ttl]}
      PROVE  handled' \subseteq Marks
  <2>1. Ttl \in 1 .. Ttl  BY <1>b
  <2>2. [id |-> i, left |-> Ttl] \in Marks  BY <2>1 DEF Marks
  <2> QED  BY <1>a, <1>5, <2>2 DEF Inside
<1>6. ASSUME NEW i \in Ids, BeginsOther(i) PROVE TypeOK' /\ BatchIsTried'
  <2>1. cmd' \in Cmds  BY <1>6, CommandTypes DEF BeginsOther
  <2> QED  BY <1>a, <1>3, <1>5, <1>6, <2>1 DEF BeginsOther, Begins, Inside
<1>7. ASSUME NEW i \in Ids, BeginsCases(i) PROVE TypeOK' /\ BatchIsTried'
  <2>1. cmd' \in Cmds
    <3> DEFINE Items(shown) == {[sender |-> s, named |-> case[s] = "named"] : s \in shown}
    <3>1. PICK shown \in SUBSET Senders :
            \E pc \in {"reply", "header"} : cmd' = Doing(pc, i, Items(shown), {})
      BY <1>7, Zenon DEF BeginsCases
    <3>2. Items(shown) \in SUBSET Item
      <4>1. \A s : (case[s] = "named") \in BOOLEAN  BY Zenon
      <4>2. \A s \in Senders, b \in BOOLEAN : [sender |-> s, named |-> b] \in Item  BY DEF Item
      <4> QED  BY <4>1, <4>2, Zenon
    <3> HIDE DEF Items
    <3> QED  BY <3>1, <3>2, CommandTypes
  <2>2. listing' \in Nat /\ controls' = {}
    BY <1>a, <1>7 DEF BeginsCases, ControlsCleared, Inside
  <2> QED  BY <1>3, <1>5, <1>7, <2>1, <2>2 DEF BeginsCases, Begins
<1>8. ASSUME NEW i \in Ids, BeginsAllow(i) PROVE TypeOK' /\ BatchIsTried'
  <2> DEFINE used == {c \in controls : c.id = text[i].reply}
             target == {c.sender : c \in used}
  <2>1. \E pc \in {"reply", "allow"} : cmd' = Doing(pc, i, {}, target)
    BY <1>8, Zenon DEF BeginsAllow
  <2>2. controls' \subseteq controls /\ UNCHANGED listing  BY <1>8 DEF BeginsAllow
  <2>3. target \in SUBSET Senders  BY <1>a DEF Inside, Controls
  <2> HIDE DEF target
  <2>4. cmd' \in Cmds  BY <2>1, <2>3, CommandTypes
  <2> QED  BY <1>a, <1>3, <1>5, <1>8, <2>2, <2>4 DEF BeginsAllow, Begins, Inside
<1>9. ASSUME Fail PROVE cmd' \in Cmds /\ failing' \subseteq SUBSET Ids
  <2>1. cmd.artifacts \subseteq Ids /\ failing \subseteq SUBSET Ids
    BY <1>a DEF Inside, Cmds
  <2> QED  BY <1>9, <2>1, CommandTypes DEF Fail
<1>10. ASSUME Sent PROVE cmd.artifacts \cup {nextId} \subseteq Ids
  <2>1. nextId \in Ids  BY <1>10, <1>a, AnswerTypes
  <2> QED  BY <1>a, <2>1 DEF Inside, Cmds
<1>11. ASSUME NEW pc, Answering(pc), Sent \/ NotSent, queue' \subseteq Rows,
              controls' \subseteq Controls, cmd' \in Cmds, failing' \subseteq SUBSET Ids
       PROVE  TypeOK' /\ BatchIsTried'
  BY <1>11, <1>a, AnsweringTypes DEF Answering, world, BatchIsTried
<1>12. CASE HeaderSent
  <2>1. UNCHANGED <<controls, queue>> /\ (Sent \/ NotSent)  BY <1>12 DEF HeaderSent
  <2>2. cmd' \in Cmds /\ failing' \subseteq SUBSET Ids
    <3>1. CASE NotSent /\ Fail  BY <1>9, <3>1
    <3>2. CASE Sent /\ UNCHANGED failing
               /\ cmd' = [cmd EXCEPT !.pc = "cards", !.left = Ttl,
                                     !.artifacts = @ \cup {nextId}]
      <4>1. Ttl \in 0 .. Ttl  BY <1>b
      <4> QED  BY <1>10, <1>a, <3>2, <4>1 DEF Inside, Cmds
    <3> QED  BY <1>12, <3>1, <3>2 DEF HeaderSent
  <2> QED  BY <1>11, <1>12, <1>a, <2>1, <2>2 DEF HeaderSent, Inside, Outside
<1>13. ASSUME NEW item \in cmd.items, CardSent(item) PROVE TypeOK' /\ BatchIsTried'
  <2>1. CASE NotSent /\ Fail /\ UNCHANGED <<controls, queue>>
    BY <1>9, <1>11, <1>13, <1>a, <2>1 DEF CardSent, Inside, Outside
  <2>2. CASE CardAppears(item)
    <3>1. cmd.artifacts \cup {nextId} \subseteq Ids /\ nextId \in Ids
      BY <1>10, <2>2 DEF CardAppears
    <3>2. controls' \subseteq Controls
      <4>1. item.sender \in Senders /\ cmd.left \in 0 .. Ttl /\ listing \in Nat
            /\ controls \subseteq Controls
        BY <1>a DEF Inside, Cmds, Item
      <4>2. cmd.left > 0 => NewControl(item) \in Controls
        <5>1. cmd.left > 0 => cmd.left \in 1 .. Ttl  BY <1>b, <4>1
        <5> QED  BY <3>1, <4>1, <5>1 DEF Controls, NewControl
      <4> QED  BY <2>2, <4>1, <4>2 DEF CardAppears
    <3>3. cmd' \in Cmds /\ queue' \subseteq Rows
      <4>1. CASE ScheduleArtifacts(cmd.artifacts \cup {nextId}) /\ cmd' = NoCommand
        BY <1>a, <3>1, <4>1, Scheduling, CommandTypes
      <4>2. CASE UNCHANGED queue /\ cmd' = [cmd EXCEPT !.items = @ \ {item},
                                                       !.artifacts = @ \cup {nextId}]
        <5>1. cmd.items \ {item} \subseteq Item  BY <1>a DEF Inside, Cmds
        <5> QED  BY <1>a, <3>1, <4>2, <5>1 DEF Inside, Outside, Cmds
      <4> QED  BY <2>2, <4>1, <4>2 DEF CardAppears
    <3> QED
      BY <1>11, <1>13, <1>a, <2>2, <3>2, <3>3 DEF CardSent, CardAppears, Inside
  <2> QED  BY <1>13, <2>1, <2>2, CardCases
<1>14. CASE AllowDecided
  <2>1. Outside'
    <3>1. case' \in [Senders -> Cases]
      <4>1. PICK s : s \in cmd.target /\ case' \in {case, [case EXCEPT ![s] = "none"]}
        BY <1>14, Zenon DEF AllowDecided
      <4> QED  BY <1>a, <4>1 DEF Outside, Cases
    <3> QED  BY <1>14, <1>a, <3>1 DEF AllowDecided, Outside
  <2>2. Inside'
    <3>1. cmd' \in Cmds  BY <1>14, <1>a DEF AllowDecided, Inside, Cmds
    <3> QED  BY <1>14, <1>a, <3>1 DEF AllowDecided, Inside
  <2> QED  BY <1>14, <1>c, <2>1, <2>2 DEF AllowDecided
<1>15. CASE ReplySent
  <2>1. CASE NotSent /\ Fail /\ UNCHANGED queue
    BY <1>9, <1>11, <1>15, <1>a, <2>1 DEF ReplySent, Inside, Outside
  <2>2. CASE Sent /\ ScheduleArtifacts(cmd.artifacts \cup {nextId}) /\ cmd' = NoCommand
             /\ UNCHANGED failing
    <3>1. queue' \subseteq Rows /\ cmd' \in Cmds
      BY <1>10, <1>a, <2>2, Scheduling, CommandTypes
    <3> QED  BY <1>11, <1>15, <1>a, <2>2, <3>1 DEF ReplySent, Inside
  <2> QED  BY <1>15, <2>1, <2>2 DEF ReplySent
<1>16. ASSUME NEW artifacts \in failing, ErrorSent(artifacts) PROVE TypeOK' /\ BatchIsTried'
  <2>1. artifacts \subseteq Ids /\ failing' \subseteq SUBSET Ids
    BY <1>16, <1>a DEF ErrorSent, Inside
  <2>2. queue' \subseteq Rows
    <3>1. CASE Sent /\ ScheduleArtifacts(artifacts \cup {nextId})
      <4>1. artifacts \cup {nextId} \subseteq Ids  BY <1>a, <2>1, <3>1, AnswerTypes
      <4> QED  BY <1>a, <3>1, <4>1, Scheduling
    <3>2. CASE NotSent /\ ScheduleArtifacts(artifacts)  BY <1>a, <2>1, <3>2, Scheduling
    <3> QED  BY <1>16, <3>1, <3>2 DEF ErrorSent
  <2>3. (Sent \/ NotSent) /\ UNCHANGED <<controls, cmd>>  BY <1>16 DEF ErrorSent
  <2> QED
    BY <1>16, <1>a, <2>1, <2>2, <2>3, AnsweringTypes
       DEF ErrorSent, world, Inside, BatchIsTried
<1>17. CASE CleanerTakes
  <2>1. cleaner' \in Batches /\ cleaner'.retry > 0  BY <1>17, <1>a, TakenBatch
  <2>2. Outside'  BY <1>17, <1>a DEF CleanerTakes, Outside, world
  <2>3. Inside'  BY <1>17, <1>a, <2>1 DEF CleanerTakes, Inside, service
  <2> QED  BY <2>1, <2>2, <2>3, Halves DEF BatchIsTried
<1>18. CASE CleanerDeletes \/ CleanerFails
  <2>1. queue' \subseteq Rows
    <3>1. CASE queue' = Without(queue, cleaner.ids)
      BY <1>a, <3>1, Removed DEF Outside
    <3>2. CASE cleaner # NoBatch /\ queue' = Retried(queue, cleaner)
      <4>1. cleaner.retry \in Nat /\ cleaner.retry > 0 /\ cleaner.age \in Nat
        BY <1>a, <3>2 DEF BatchIsTried, Inside, Batches
      <4> QED  BY <1>a, <3>2, <4>1, RetriedRows DEF Outside
    <3> QED  BY <1>18, <3>1, <3>2 DEF CleanerDeletes, CleanerFails
  <2>2. saved' \subseteq Messages /\ lost' \subseteq Ids
    BY <1>18, <1>a, Removed DEF CleanerDeletes, CleanerFails, Outside
  <2>3. Outside'
    BY <1>18, <1>a, <2>1, <2>2 DEF CleanerDeletes, CleanerFails, Outside, world
  <2>4. Inside'
    BY <1>18, <1>a, CommandTypes DEF CleanerDeletes, CleanerFails, Inside, service
  <2> QED  BY <1>18, <1>d, <2>3, <2>4 DEF CleanerDeletes, CleanerFails
<1>19. ASSUME NEW s \in Senders, NEW kind \in {"named", "anonymous"},
              BecomesCase(s, kind) \/ Release(s) \/ Forget(s)
       PROVE  TypeOK' /\ BatchIsTried'
  <2>1. case' \in [Senders -> Cases] /\ forgotten' \in [Senders -> 0 .. MaxForgotten]
        /\ controls' \subseteq controls
    <3>1. CASE BecomesCase(s, kind) \/ Release(s)
      BY <1>19, <1>a, <3>1 DEF BecomesCase, Release, Outside, Cases, service
    <3>2. CASE Forget(s)
      <4>1. forgotten[s] + 1 \in 0 .. MaxForgotten  BY <1>a, <1>b, <3>2 DEF Forget, Outside
      <4> QED  BY <1>a, <3>2, <4>1 DEF Forget, Outside, Cases
    <3> QED  BY <1>19, <3>1, <3>2
  <2>2. Outside'  BY <1>19, <1>a, <2>1 DEF BecomesCase, Release, Forget, Outside
  <2>3. Inside'  BY <1>19, <1>a, <2>1 DEF BecomesCase, Release, Forget, Inside, service
  <2> QED  BY <1>19, <1>c, <2>2, <2>3 DEF BecomesCase, Release, Forget
<1>20. CASE Tick
  <2>1. handled' \subseteq Marks /\ controls' \subseteq Controls
    BY <1>20, <1>a, OlderMarks, OlderControls DEF Tick, Inside
  <2>2. saved' \subseteq Messages /\ queue' \subseteq Rows
    <3>1. saved' = {AgedMessage(m) : m \in saved}  BY <1>20, Zenon DEF Tick, AgedMessage
    <3>2. saved' \subseteq Messages  BY <1>a, <3>1, OlderMessages DEF Outside
    <3>3. queue' \subseteq Rows  BY <1>20, <1>a, OlderRows, Zenon DEF Tick, Outside
    <3> QED  BY <3>2, <3>3
  <2>3. cmd' \in Cmds
    <3>1. cmd.left \in 0 .. Ttl  BY <1>a DEF Inside, Cmds
    <3> DEFINE l == NotBelow(0, cmd.left - 1)
    <3>2. l \in 0 .. Ttl  BY <1>b, <3>1 DEF NotBelow
    <3>3. cmd' = [cmd EXCEPT !.left = l]  BY <1>20, <1>a DEF Tick, Inside, Cmds
    <3> HIDE DEF l
    <3> QED  BY <1>a, <3>2, <3>3 DEF Inside, Cmds
  <2>4. cleaner' \in Batches /\ BatchIsTried'
    <3>1. CASE cleaner' = cleaner  BY <1>a, <3>1 DEF Inside, BatchIsTried
    <3>2. CASE cleaner # NoBatch
               /\ cleaner' = [cleaner EXCEPT !.age = Least(@ + 1, RetryMax + Overdue)]
      <4>1. cleaner.age \in Nat /\ cleaner.retry > 0
        BY <1>a, <3>2 DEF Inside, Batches, BatchIsTried
      <4> DEFINE n == Least(cleaner.age + 1, RetryMax + Overdue)
      <4>2. n \in Nat  BY <1>b, <4>1 DEF Least
      <4>3. cleaner' = [cleaner EXCEPT !.age = n]  BY <1>a, <3>2 DEF Inside, Batches
      <4> HIDE DEF n
      <4>4. cleaner' \in Batches /\ cleaner'.retry = cleaner.retry
        BY <1>a, <4>2, <4>3 DEF Inside, Batches
      <4> QED  BY <4>1, <4>4 DEF BatchIsTried
    <3> QED  BY <1>20, <3>1, <3>2 DEF Tick
  <2>5. Outside'  BY <1>20, <1>a, <2>2 DEF Tick, Outside, world
  <2>6. Inside'  BY <1>20, <1>a, <2>1, <2>3, <2>4 DEF Tick, Inside
  <2> QED  BY <2>4, <2>5, <2>6, Halves
<1>21. CASE Crash
  <2>1. IdsOf(saved) \subseteq Ids  BY <1>a DEF IdsOf, Outside, Messages
  <2>2. Outside'
    <3>1. crashes' \in 0 .. MaxCrashes  BY <1>21, <1>a, <1>b DEF Crash, Outside
    <3>2. up' \in BOOLEAN /\ lost' \subseteq Ids  BY <1>21, <2>1 DEF Crash
    <3> QED  BY <1>21, <1>a, <3>1, <3>2 DEF Crash, Outside, world
  <2>3. Inside'  BY <1>21, <1>a, CommandTypes DEF Crash, Inside
  <2> QED  BY <1>21, <1>d, <2>2, <2>3 DEF Crash
<1>22. CASE Restart
  <2>1. queue' \subseteq Rows
    <3>1. Reconciled \subseteq Rows  BY <1>a, ReconciledRows DEF Outside
    <3> QED  BY <1>22, <1>a, <3>1 DEF Restart, Outside
  <2>2. Outside'  BY <1>22, <1>a, <2>1 DEF Restart, Outside, world
  <2>3. Inside'  BY <1>22, <1>a DEF Restart, Inside, service
  <2> QED  BY <1>22, <1>c, <2>2, <2>3 DEF Restart
<1>23. CASE UNCHANGED vars
  <2>1. Outside' /\ Inside'
    BY <1>23, <1>a DEF vars, world, service, Outside, Inside
  <2> QED  BY <1>23, <1>c, <2>1 DEF vars
<1>24. {0} \cup (Ids \ Commands) \subseteq 0 .. MaxMessages /\ 0 \in 0 .. MaxMessages
  BY <1>b DEF Ids
<1>25. CASE \/ \E kind \in {"cases", "other"} : OwnerSends(kind, 0)
            \/ \E reply \in {0} \cup (Ids \ Commands) :
                  reply < nextId /\ OwnerSends("allow", reply)
  BY <1>1, <1>24, <1>25
<1> QED
  BY <1>2, <1>4, <1>6, <1>7, <1>8, <1>12, <1>13, <1>14, <1>15, <1>16, <1>17, <1>18, <1>19,
     <1>20, <1>21, <1>22, <1>23, <1>25, Zenon
     DEF Next, Answer, Clean

\* The service starts with nothing listed, queued or running.
LEMMA InitialTypes == Init => TypeOK /\ BatchIsTried
<1> SUFFICES ASSUME Init PROVE TypeOK /\ BatchIsTried  OBVIOUS
<1>a. /\ MaxMessages \in Nat /\ MaxForgotten \in Nat /\ MaxRedelivered \in Nat
      /\ MaxCrashes \in Nat
  BY OperatorControlsAssumption
<1>1. Outside
  <2>1. [kind |-> "none", reply |-> 0] \in Texts  BY <1>a DEF Texts
  <2>2. text \in [Ids -> Texts]  BY <2>1 DEF Init
  <2> QED  BY <1>a, <2>2 DEF Init, Outside
<1>2. Inside  BY CommandTypes DEF Init, Inside
<1> QED  BY <1>1, <1>2, Halves DEF Init, BatchIsTried

\* Every variable keeps its type, the queue's times among them: an overdue row is never
\* put off further than the cap of the backoff.
THEOREM TypeCorrect == Spec => []TypeOK
BY InitialTypes, TypeKept, PTL DEF Spec

-----------------------------------------------------------------------------
(* Nothing is removed early *)

\* A message may have appeared.
MayAppear == Appears \/ UNCHANGED <<saved, nextId>>

\* An id that is given stays given.
LEMMA StaysGiven ==
  ASSUME Outside, MayAppear
  PROVE  /\ \A i \in Ids : i < nextId => i < nextId'
         /\ Appears => nextId < nextId'
         /\ nextId \in Nat /\ nextId' \in Nat /\ Ids \subseteq Nat
<1>1. nextId \in Nat /\ Ids \subseteq Nat  BY OperatorControlsAssumption DEF Outside, Ids
<1>2. nextId' = nextId + 1 \/ nextId' = nextId  BY DEF MayAppear, Appears
<1>3. ASSUME NEW i \in Ids, i < nextId PROVE i < nextId'
  <2>1. i \in Nat  BY <1>1
  <2> QED  BY <1>1, <1>2, <1>3, <2>1
<1>4. nextId' \in Nat  BY <1>1, <1>2
<1>5. Appears => nextId < nextId'  BY <1>1 DEF Appears
<1> QED  BY <1>1, <1>3, <1>4, <1>5

\* A row of the queue is as it was, or for the whole lifetime from now on.
RowsFollow ==
  \A q \in queue' : q.id < nextId'
                    /\ (q.left = Ttl \/ \E r \in queue : r.id = q.id /\ r.left = q.left)

\* The steps that only add messages and rows.
LEMMA Appearance ==
  ASSUME Safe, MayAppear, RowsFollow, UNCHANGED cleaner
  PROVE  FreshIds' /\ DueWhenOld' /\ saved \subseteq saved'
<1>a. /\ Outside /\ Inside /\ FreshIds /\ DueWhenOld
      /\ MaxMessages \in Nat /\ Ttl \in Nat
  BY Halves, OperatorControlsAssumption DEF Safe
<1>b. /\ nextId \in Nat /\ Ids \subseteq Nat /\ 0 .. Ttl \subseteq Nat /\ Ttl \in 0 .. Ttl
      /\ \A m \in saved : m.id \in Ids /\ m.left \in 0 .. Ttl /\ m.id < nextId
      /\ \A i \in cleaner.ids : i \in Ids /\ i < nextId
      /\ \A r \in queue : r.id \in Ids /\ r.id < nextId
  <2>1. nextId \in Nat /\ Ids \subseteq Nat /\ 0 .. Ttl \subseteq Nat /\ Ttl \in 0 .. Ttl
    BY <1>a DEF Outside, Ids
  <2>2. \A m \in saved : m.id \in Ids /\ m.left \in 0 .. Ttl /\ m.id \in IdsOf(saved)
    BY <1>a, HasId DEF Outside, Messages
  <2>3. \A r \in queue : r.id \in Ids /\ r.id \in IdsOf(queue)
    BY <1>a, HasId DEF Outside, Rows
  <2>4. cleaner.ids \subseteq Ids  BY <1>a DEF Inside, Batches
  <2> QED  BY <1>a, <2>1, <2>2, <2>3, <2>4 DEF FreshIds
<1>1. PICK new : new.id = nextId /\ new.left = Ttl
                 /\ \/ saved' = saved \cup {new} /\ nextId' = nextId + 1
                    \/ saved' = saved /\ nextId' = nextId
  <2> DEFINE n == [id |-> nextId, left |-> Ttl]
  <2>1. n.id = nextId /\ n.left = Ttl  OBVIOUS
  <2>2. \/ saved' = saved \cup {n} /\ nextId' = nextId + 1
        \/ saved' = saved /\ nextId' = nextId
    BY DEF MayAppear, Appears
  <2> QED  BY <2>1, <2>2, Zenon
<1>2. \A m \in saved' : m \in saved \/ (m = new /\ nextId' = nextId + 1)  BY <1>1
<1>3. FreshIds'
  <2>1. ASSUME NEW m \in saved', NEW n \in saved', m.id = n.id PROVE m = n
    BY <1>1, <1>2, <1>a, <1>b, <2>1 DEF FreshIds
  <2>2. ASSUME NEW i \in IdsOf(saved') \cup IdsOf(queue') \cup cleaner'.ids PROVE i < nextId'
    <3>1. CASE i \in IdsOf(saved')
      <4>1. PICK m \in saved' : m.id = i  BY <3>1, HasId
      <4>2. CASE m \in saved  BY <1>a, <1>b, <4>1, <4>2, StaysGiven
      <4>3. CASE m = new /\ nextId' = nextId + 1
        BY <1>1, <1>b, <4>1, <4>3
      <4> QED  BY <1>2, <4>2, <4>3
    <3>2. CASE i \in IdsOf(queue')  BY <3>2, HasId DEF RowsFollow
    <3>3. CASE i \in cleaner'.ids  BY <1>a, <1>b, <3>3, StaysGiven
    <3> QED  BY <2>2, <3>1, <3>2, <3>3
  <2> QED  BY <2>1, <2>2 DEF FreshIds
<1>4. DueWhenOld'
  <2>1. ASSUME NEW m \in saved', NEW q \in queue', m.id = q.id
        PROVE  m.left = 0 \/ q.left >= m.left
    <3>1. m.left \in 0 .. Ttl  BY <1>1, <1>2, <1>b
    <3>2. CASE q.left = Ttl  BY <1>a, <3>1, <3>2
    <3>3. CASE \E r \in queue : r.id = q.id /\ r.left = q.left
      <4>1. PICK r \in queue : r.id = q.id /\ r.left = q.left  BY <3>3
      <4>2. m \in saved  BY <1>1, <1>2, <1>b, <2>1, <4>1
      <4> QED  BY <1>a, <2>1, <4>1, <4>2 DEF DueWhenOld
    <3> QED  BY <3>2, <3>3 DEF RowsFollow
  <2>2. ASSUME NEW m \in saved', m.id \in cleaner'.ids PROVE m.left = 0
    <3>1. m \in saved  BY <1>1, <1>2, <1>b, <2>2
    <3> QED  BY <1>a, <2>2, <3>1 DEF DueWhenOld
  <2> QED  BY <2>1, <2>2 DEF DueWhenOld
<1> QED  BY <1>1, <1>3, <1>4

\* Controls of cards that are still there.
LEMMA ControlsFollow ==
  ASSUME ControlsFit, saved \subseteq saved', controls' \subseteq controls
  PROVE  ControlsFit'
BY DEF ControlsFit

\* The rows a step schedules follow.
LEMMA ScheduleFollows ==
  ASSUME Safe, MayAppear, NEW ids, ids \subseteq Ids, \A i \in ids : i < nextId',
         ScheduleArtifacts(ids)
  PROVE  RowsFollow
<1>a. Outside /\ FreshIds /\ MaxMessages \in Nat
  BY Halves, OperatorControlsAssumption DEF Safe
<1>1. /\ IdsOf(queue') = IdsOf(queue) \cup ids
      /\ \A q \in queue' : q.left = Ttl \/ \E r \in queue : r.id = q.id /\ r.left = q.left
  BY <1>a, Scheduling
<1>2. IdsOf(queue) \subseteq Ids  BY <1>a DEF Outside, IdsOf, Rows
<1>3. \A i \in Ids : i < nextId => i < nextId'  BY <1>a, StaysGiven
<1>4. \A i \in IdsOf(queue) : i < nextId'  BY <1>2, <1>3, <1>a, Zenon DEF FreshIds
<1> QED  BY <1>1, <1>4, HasId, Zenon DEF RowsFollow

\* A step that leaves the queue alone keeps its rows about messages that exist.
LEMMA UnqueuedFollows ==
  ASSUME Safe, MayAppear, UNCHANGED queue
  PROVE  RowsFollow
<1>a. Outside /\ FreshIds /\ MaxMessages \in Nat
  BY Halves, OperatorControlsAssumption DEF Safe
<1>2. IdsOf(queue) \subseteq Ids  BY <1>a DEF Outside, IdsOf, Rows
<1>3. \A i \in Ids : i < nextId => i < nextId'  BY <1>a, StaysGiven
<1>4. \A i \in IdsOf(queue) : i < nextId'  BY <1>2, <1>3, <1>a, Zenon DEF FreshIds
<1> QED  BY <1>4, HasId DEF RowsFollow

\* The parts of what is known.
LEMMA KnownParts ==
  /\ \A i : i \in Known <=>
       i \in cmd.artifacts \/ (\E f \in failing : i \in f) \/ i \in inbox \/ i \in Commands
  /\ \A i : i \in Known' <=>
       i \in cmd'.artifacts \/ (\E f \in failing' : i \in f) \/ i \in inbox' \/ i \in Commands'
BY Zenon DEF Known

\* What the service comes to know it knew, or it has just appeared.
LEMMA KnownFollow ==
  ASSUME Outside, Inside, KnownIds, MayAppear,
         \A i \in Known' : i \in Known \/ (Appears /\ i = nextId)
  PROVE  KnownIds'
<1>1. Known \subseteq Ids
  <2>1. /\ cmd.artifacts \subseteq Ids /\ failing \subseteq SUBSET Ids /\ inbox \subseteq Ids
        /\ Commands \subseteq Ids
    BY DEF Inside, Cmds, Commands
  <2> QED  BY <2>1, KnownParts
<1> QED  BY <1>1, StaysGiven, Zenon DEF KnownIds

\* The artifacts of a command.
LEMMA ArtifactsOf ==
  /\ NoCommand.artifacts = {}
  /\ \A pc, i, items, target : Doing(pc, i, items, target).artifacts = {i}
BY DEF NoCommand, Doing

\* What the answers of a command leave to be removed.
LEMMA AnswersKnow ==
  ASSUME Inside, NEW pc, Answering(pc), Sent \/ NotSent,
         \/ Fail
         \/ Sent /\ UNCHANGED failing /\ cmd'.artifacts \subseteq cmd.artifacts \cup {nextId}
  PROVE  \A i \in Known' : i \in Known \/ (Appears /\ i = nextId)
<1>1. UNCHANGED <<inbox, text>>  BY DEF Answering
<1>2. Commands' = Commands  BY <1>1 DEF Commands
<1>3. CASE Fail
  <2>1. cmd'.artifacts = {} /\ failing' = failing \cup {cmd.artifacts}
    BY <1>3, ArtifactsOf DEF Fail
  <2> QED  BY <1>1, <1>2, <2>1, KnownParts
<1>4. CASE Sent /\ UNCHANGED failing /\ cmd'.artifacts \subseteq cmd.artifacts \cup {nextId}
  <2>1. Appears  BY <1>4 DEF Sent
  <2> QED  BY <1>1, <1>2, <1>4, <2>1, KnownParts
<1> QED  BY <1>3, <1>4

\* No step knows of a message that was never sent.
LEMMA KnownKept ==
  ASSUME TypeOK, KnownIds, [Next]_vars
  PROVE  KnownIds'
<1>a. Outside /\ Inside  BY Halves
<1>b. ASSUME MayAppear, \A i \in Known' : i \in Known \/ (Appears /\ i = nextId)
      PROVE  KnownIds'
  BY <1>a, <1>b, KnownFollow
<1>c. ASSUME UNCHANGED <<text, saved, nextId>>,
             \A i : (i \in cmd'.artifacts \/ (\E f \in failing' : i \in f) \/ i \in inbox')
                  => i \in Known
      PROVE  KnownIds'
  <2>1. Commands' = Commands  BY <1>c DEF Commands
  <2>2. \A i \in Known' : i \in Known  BY <1>c, <2>1, KnownParts
  <2> QED  BY <1>b, <1>c, <2>2 DEF MayAppear
<1>1. ASSUME NEW kind, NEW reply, OwnerSends(kind, reply) PROVE KnownIds'
  <2>1. Appears /\ UNCHANGED <<cmd, failing>>
    BY <1>1 DEF OwnerSends, Appears, service
  <2>2. \A i \in inbox' : i \in inbox \/ i = nextId  BY <1>1 DEF OwnerSends
  <2>3. \A i \in Commands' : i \in Commands \/ i = nextId
    BY <1>1, <1>a DEF OwnerSends, Commands, Outside
  <2>4. \A i \in Known' : i \in Known \/ i = nextId  BY <2>1, <2>2, <2>3, KnownParts
  <2> QED  BY <1>b, <2>1, <2>4 DEF MayAppear
<1>2. ASSUME NEW i \in Ids, Redeliver(i) PROVE KnownIds'
  <2>1. i \in Commands /\ inbox' = inbox \cup {i} /\ UNCHANGED <<text, saved, nextId, cmd, failing>>
    BY <1>2 DEF Redeliver, service
  <2>2. \A j : (j \in cmd'.artifacts \/ (\E f \in failing' : j \in f) \/ j \in inbox')
                => j \in Known
    BY <2>1, KnownParts
  <2> QED  BY <1>c, <2>1, <2>2
<1>3. ASSUME NEW i, Takes(i), cmd'.artifacts \subseteq cmd.artifacts \cup {i} PROVE KnownIds'
  <2>1. i \in inbox /\ inbox' \subseteq inbox /\ UNCHANGED <<text, saved, nextId, failing>>
    BY <1>3 DEF Takes
  <2>2. \A j : (j \in cmd'.artifacts \/ (\E f \in failing' : j \in f) \/ j \in inbox')
                => j \in Known
    BY <1>3, <2>1, KnownParts
  <2> QED  BY <1>c, <2>1, <2>2
<1>4. ASSUME NEW i \in Ids,
             Duplicate(i) \/ BeginsOther(i) \/ BeginsCases(i) \/ BeginsAllow(i)
      PROVE  KnownIds'
  <2>1. Takes(i)
    BY <1>4 DEF Duplicate, BeginsOther, BeginsCases, BeginsAllow, Begins
  <2>2. cmd' = cmd \/ \E pc, items, target : cmd' = Doing(pc, i, items, target)
    BY <1>4, Zenon DEF Duplicate, BeginsOther, BeginsCases, BeginsAllow
  <2> QED  BY <1>3, <2>1, <2>2, ArtifactsOf
<1>5. ASSUME NEW pc, Answering(pc), Sent \/ NotSent,
             \/ Fail
             \/ Sent /\ UNCHANGED failing /\ cmd'.artifacts \subseteq cmd.artifacts \cup {nextId}
      PROVE  KnownIds'
  <2>1. \A i \in Known' : i \in Known \/ (Appears /\ i = nextId)
    BY <1>5, <1>a, AnswersKnow
  <2>2. MayAppear  BY <1>5 DEF Sent, NotSent, MayAppear
  <2> QED  BY <1>b, <2>1, <2>2
<1>6. CASE HeaderSent
  <2>1. CASE NotSent /\ Fail  BY <1>5, <1>6, <2>1 DEF HeaderSent
  <2>2. CASE Sent /\ UNCHANGED failing
             /\ cmd' = [cmd EXCEPT !.pc = "cards", !.left = Ttl,
                                   !.artifacts = @ \cup {nextId}]
    <3>1. cmd'.artifacts = cmd.artifacts \cup {nextId}  BY <1>a, <2>2 DEF Inside, Cmds
    <3> QED  BY <1>5, <1>6, <2>2, <3>1 DEF HeaderSent
  <2> QED  BY <1>6, <2>1, <2>2 DEF HeaderSent
<1>7. ASSUME NEW item \in cmd.items, CardSent(item) PROVE KnownIds'
  <2>1. Answering("cards")  BY <1>7 DEF CardSent
  <2>2. CASE NotSent /\ Fail  BY <1>5, <2>1, <2>2
  <2>3. CASE CardAppears(item)
    <3>1. cmd'.artifacts \subseteq cmd.artifacts \cup {nextId}
      <4>1. CASE cmd' = NoCommand  BY <4>1, ArtifactsOf
      <4>2. CASE cmd' = [cmd EXCEPT !.items = @ \ {item}, !.artifacts = @ \cup {nextId}]
        BY <1>a, <4>2 DEF Inside, Cmds
      <4> QED  BY <2>3, <4>1, <4>2 DEF CardAppears
    <3> QED  BY <1>5, <2>1, <2>3, <3>1 DEF CardAppears
  <2> QED  BY <1>7, <2>2, <2>3, CardCases
<1>8. CASE ReplySent
  <2>1. CASE NotSent /\ Fail  BY <1>5, <1>8, <2>1 DEF ReplySent
  <2>2. CASE Sent /\ cmd' = NoCommand /\ UNCHANGED failing
    BY <1>5, <1>8, <2>2, ArtifactsOf DEF ReplySent
  <2> QED  BY <1>8, <2>1, <2>2 DEF ReplySent
<1>9. CASE AllowDecided
  <2>1. cmd'.artifacts = cmd.artifacts  BY <1>9, <1>a DEF AllowDecided, Inside, Cmds
  <2>2. UNCHANGED <<text, saved, nextId, inbox, failing>>  BY <1>9 DEF AllowDecided
  <2>3. \A i : (i \in cmd'.artifacts \/ (\E f \in failing' : i \in f) \/ i \in inbox')
                  => i \in Known
    BY <2>1, <2>2, KnownParts
  <2> QED  BY <1>c, <2>2, <2>3
<1>10. ASSUME NEW artifacts \in failing, ErrorSent(artifacts) PROVE KnownIds'
  <2>1. MayAppear  BY <1>10 DEF ErrorSent, Sent, NotSent, MayAppear
  <2>2. UNCHANGED <<text, inbox, cmd>> /\ failing' \subseteq failing  BY <1>10 DEF ErrorSent
  <2>3. Commands' = Commands  BY <2>2 DEF Commands
  <2>4. \A i \in Known' : i \in Known  BY <2>2, <2>3, KnownParts
  <2> QED  BY <1>b, <2>1, <2>4
<1>11. CASE UNCHANGED <<text, nextId, inbox, cmd, failing>>
  <2>1. Commands' = Commands  BY <1>11 DEF Commands
  <2> QED  BY <1>11, <2>1 DEF KnownIds, Known
<1>12. CASE Tick
  <2>1. cmd'.artifacts = cmd.artifacts  BY <1>12, <1>a DEF Tick, Inside, Cmds
  <2>2. UNCHANGED <<text, nextId, inbox, failing>>  BY <1>12 DEF Tick
  <2>3. Commands' = Commands  BY <2>2 DEF Commands
  <2> QED  BY <2>1, <2>2, <2>3 DEF KnownIds, Known
<1>13. CASE Crash
  <2>1. /\ cmd'.artifacts = {} /\ failing' = {} /\ inbox' = {}
        /\ UNCHANGED <<text, saved, nextId>>
    BY <1>13, ArtifactsOf DEF Crash
  <2> QED  BY <1>c, <2>1
<1>14. CASE CleanerTakes \/ CleanerDeletes \/ CleanerFails \/ Restart \/ UNCHANGED vars
  BY <1>11, <1>14 DEF CleanerTakes, CleanerDeletes, CleanerFails, Restart, vars, service
<1>15. ASSUME NEW s \in Senders, NEW kind, BecomesCase(s, kind) \/ Release(s) \/ Forget(s)
       PROVE  KnownIds'
  BY <1>11, <1>15 DEF BecomesCase, Release, Forget, service
<1> QED
  BY <1>1, <1>2, <1>4, <1>6, <1>7, <1>8, <1>9, <1>10, <1>12, <1>13, <1>14, <1>15, Zenon
     DEF Next, Answer, Clean

\* The answer of a command, or its absence, and the rows it schedules.
LEMMA AnswersAreSafe ==
  ASSUME Safe, Sent \/ NotSent, RowsFollow, UNCHANGED cleaner
  PROVE  FreshIds' /\ DueWhenOld' /\ saved \subseteq saved'
<1>1. MayAppear  BY DEF Sent, NotSent, MayAppear
<1> QED  BY <1>1, Appearance

\* Artifacts of the service with the message that has just appeared.
LEMMA GivenArtifacts ==
  ASSUME Safe, NEW ids, ids \subseteq Known
  PROVE  /\ MayAppear => \A i \in ids : i \in Ids /\ i < nextId'
         /\ Sent => \A i \in ids \cup {nextId} : i \in Ids /\ i < nextId'
<1>a. Outside /\ Inside /\ KnownIds  BY Halves DEF Safe
<1>1. ids \subseteq Ids
  <2>1. /\ cmd.artifacts \subseteq Ids /\ failing \subseteq SUBSET Ids /\ inbox \subseteq Ids
        /\ Commands \subseteq Ids
    BY <1>a DEF Inside, Cmds, Commands
  <2> QED  BY <2>1, KnownParts
<1>2. ASSUME MayAppear PROVE \A i \in ids : i \in Ids /\ i < nextId'
  BY <1>1, <1>2, <1>a, StaysGiven, Zenon DEF KnownIds
<1>3. ASSUME Sent PROVE \A i \in ids \cup {nextId} : i \in Ids /\ i < nextId'
  <2>1. Appears /\ MayAppear  BY <1>3 DEF Sent, MayAppear
  <2>2. nextId \in Ids  BY <1>3, <1>a, AnswerTypes
  <2>3. nextId < nextId'  BY <1>a, <2>1, StaysGiven
  <2> QED  BY <1>2, <2>1, <2>2, <2>3
<1> QED  BY <1>2, <1>3

\* The rows ScheduleArtifacts writes for them.
LEMMA ArtifactsFollow ==
  ASSUME Safe, NEW ids, ids \subseteq Known,
         \/ Sent /\ ScheduleArtifacts(ids \cup {nextId})
         \/ NotSent /\ ScheduleArtifacts(ids)
  PROVE  RowsFollow
<1>1. MayAppear  BY DEF Sent, NotSent, MayAppear
<1>2. CASE Sent /\ ScheduleArtifacts(ids \cup {nextId})
  <2>1. \A i \in ids \cup {nextId} : i \in Ids /\ i < nextId'  BY <1>2, GivenArtifacts
  <2> DEFINE all == ids \cup {nextId}
  <2>2. all \subseteq Ids /\ (\A i \in all : i < nextId') /\ ScheduleArtifacts(all)
    BY <1>2, <2>1
  <2> HIDE DEF all
  <2> QED  BY <1>1, <2>2, ScheduleFollows
<1>3. CASE NotSent /\ ScheduleArtifacts(ids)
  <2>1. \A i \in ids : i \in Ids /\ i < nextId'  BY <1>1, GivenArtifacts
  <2> QED  BY <1>1, <1>3, <2>1, ScheduleFollows
<1> QED  BY <1>2, <1>3

\* The control of a card that has just appeared ends with the card at the latest.
LEMMA NewControlFits ==
  ASSUME Safe, NEW item \in cmd.items, CardAppears(item)
  PROVE  ControlsFit'
<1>a. Outside /\ Inside /\ ControlsFit /\ Ttl \in Nat
  BY Halves, OperatorControlsAssumption DEF Safe
<1> DEFINE new == [id |-> nextId, left |-> Ttl]
<1>1. saved' = saved \cup {new}  BY DEF CardAppears, Sent, Appears
<1>2. new.id = nextId /\ new.left = Ttl  OBVIOUS
<1>3. cmd.left \in 0 .. Ttl  BY <1>a DEF Inside, Cmds
<1>4. NewControl(item).id = nextId /\ NewControl(item).left = cmd.left  BY DEF NewControl
<1>5. \A c \in controls' : c \in controls \/ c = NewControl(item)  BY DEF CardAppears
<1> HIDE DEF new
<1>6. ASSUME NEW c \in controls' PROVE \E m \in saved' : m.id = c.id /\ c.left <= m.left
  <2>1. CASE c \in controls  BY <1>1, <1>a, <2>1 DEF ControlsFit
  <2>2. CASE c = NewControl(item)
    <3>1. new \in saved' /\ new.id = c.id  BY <1>1, <1>2, <1>4, <2>2
    <3>2. c.left <= new.left  BY <1>2, <1>3, <1>4, <1>a, <2>2
    <3> QED  BY <3>1, <3>2
  <2> QED  BY <1>5, <2>1, <2>2
<1> QED  BY <1>6 DEF ControlsFit

\* What the loop deletes is old enough, and has no control any more.
LEMMA DeletingIsSafe ==
  ASSUME Safe, CleanerDeletes \/ CleanerFails
  PROVE  FreshIds' /\ DueWhenOld' /\ ControlsFit'
<1>a. /\ Outside /\ Inside /\ FreshIds /\ DueWhenOld /\ ControlsFit /\ BatchIsTried
      /\ Ttl \in Nat
  BY Halves, OperatorControlsAssumption DEF Safe
<1>1. /\ saved' \in {saved, Without(saved, cleaner.ids)} /\ cleaner # NoBatch
      /\ cleaner' = NoBatch /\ UNCHANGED <<nextId, controls>>
  BY DEF CleanerDeletes, CleanerFails, service
<1>2. /\ saved' \subseteq saved
      /\ \A m \in saved : m.id \notin cleaner.ids => m \in saved'
  BY <1>1, Removed
<1>3. /\ IdsOf(queue') \subseteq IdsOf(queue)
      /\ \A q \in queue' : q.id \in cleaner.ids
                           \/ \E r \in queue : r.id = q.id /\ r.left = q.left
  <2>1. CASE queue' = Without(queue, cleaner.ids)
    BY <2>1, Removed
  <2>2. CASE queue' = Retried(queue, cleaner)
    <3>1. cleaner.retry \in Nat /\ cleaner.retry > 0 /\ cleaner.age \in Nat
      BY <1>1, <1>a DEF BatchIsTried, Inside, Batches
    <3>2. queue \subseteq Rows  BY <1>a DEF Outside
    <3>3. LET new == Retried(queue, cleaner)
          IN  /\ IdsOf(new) = IdsOf(queue)
              /\ \A q \in new : \/ q.id \in cleaner.ids
                                \/ \E r \in queue : r.id = q.id /\ r.left = q.left
      BY <3>1, <3>2, RetriedRows
    <3> QED  BY <2>2, <3>3
  <2> QED  BY <2>1, <2>2 DEF CleanerDeletes, CleanerFails
<1>4. cleaner'.ids = {}  BY <1>1 DEF NoBatch
<1>5. FreshIds'
  <2>1. IdsOf(saved') \subseteq IdsOf(saved)  BY <1>2, HasId
  <2> QED  BY <1>1, <1>2, <1>3, <1>4, <1>a, <2>1 DEF FreshIds
<1>6. DueWhenOld'
  <2>1. ASSUME NEW m \in saved', NEW q \in queue', m.id = q.id
        PROVE  m.left = 0 \/ q.left >= m.left
    <3>1. CASE q.id \in cleaner.ids  BY <1>2, <1>a, <2>1, <3>1 DEF DueWhenOld
    <3>2. CASE \E r \in queue : r.id = q.id /\ r.left = q.left
      BY <1>2, <1>a, <2>1, <3>2 DEF DueWhenOld
    <3> QED  BY <1>3, <3>1, <3>2
  <2> QED  BY <1>4, <2>1 DEF DueWhenOld
<1>7. ControlsFit'
  <2>1. ASSUME NEW c \in controls PROVE \E m \in saved' : m.id = c.id /\ c.left <= m.left
    <3>1. PICK m \in saved : m.id = c.id /\ c.left <= m.left  BY <1>a DEF ControlsFit
    <3>2. c.left \in 1 .. Ttl /\ m.left \in 0 .. Ttl
      BY <1>a DEF Inside, Outside, Controls, Messages
    <3>3. m.left # 0  BY <1>a, <3>1, <3>2
    <3>4. m.id \notin cleaner.ids  BY <1>a, <3>3 DEF DueWhenOld
    <3> QED  BY <1>2, <3>1, <3>4
  <2> QED  BY <1>1, <2>1 DEF ControlsFit
<1> QED  BY <1>5, <1>6, <1>7

\* Messages, rows and controls age alike.
LEMMA TickIsSafe ==
  ASSUME Safe, Tick
  PROVE  FreshIds' /\ DueWhenOld' /\ ControlsFit'
<1>a. /\ Outside /\ Inside /\ FreshIds /\ DueWhenOld /\ ControlsFit
      /\ Ttl \in Nat /\ Overdue \in Nat /\ Max({Ttl, RetryMax}) \in Nat
  BY Halves, OperatorControlsAssumption, Limits DEF Safe
<1>b. saved \subseteq Messages /\ queue \subseteq Rows /\ controls \subseteq Controls
  BY <1>a DEF Outside, Inside
<1>1. /\ IdsOf(saved') = IdsOf(saved)
      /\ \A n \in saved' : \E m \in saved : Ages(m, n)
      /\ \A m \in saved : \E n \in saved' : Ages(m, n)
  <2>1. saved' = {AgedMessage(m) : m \in saved}  BY Zenon DEF Tick, AgedMessage
  <2> QED  BY <1>b, <2>1, OlderMessages, Zenon
<1>2. /\ IdsOf(queue') = IdsOf(queue)
      /\ \A r \in queue' : \E q \in queue : /\ r.id = q.id
                                            /\ r.left = NotBelow(-Overdue, q.left - 1)
  BY <1>b, OlderRows, Zenon DEF Tick
<1>3. \A x \in controls' : \E y \in controls : x.id = y.id /\ x.left = y.left - 1
  BY <1>b, OlderControls DEF Tick
<1>4. cleaner'.ids = cleaner.ids /\ UNCHANGED nextId
  BY <1>a DEF Tick, Inside, Batches
<1>5. controls' \subseteq Controls  BY <1>b, OlderControls DEF Tick
<1>6. FreshIds'
  <2>1. ASSUME NEW m \in saved', NEW n \in saved', m.id = n.id PROVE m = n
    <3>1. PICK o \in saved : m = AgedMessage(o) /\ m.id = o.id  BY <1>1 DEF Ages
    <3>2. PICK p \in saved : n = AgedMessage(p) /\ n.id = p.id  BY <1>1 DEF Ages
    <3>3. o = p  BY <1>a, <2>1, <3>1, <3>2 DEF FreshIds
    <3> QED  BY <3>1, <3>2, <3>3
  <2> QED  BY <1>1, <1>2, <1>4, <1>a, <2>1 DEF FreshIds
<1>7. DueWhenOld'
  <2>1. ASSUME NEW m \in saved', NEW q \in queue', m.id = q.id
        PROVE  m.left = 0 \/ q.left >= m.left
    <3>1. PICK n \in saved : m.id = n.id /\ m.left = NotBelow(0, n.left - 1)
      BY <1>1 DEF Ages
    <3>2. PICK r \in queue : q.id = r.id /\ q.left = NotBelow(-Overdue, r.left - 1)  BY <1>2
    <3>3. n.left \in 0 .. Ttl /\ r.left \in Lefts  BY <1>b DEF Messages, Rows
    <3>4. n.left \in Int /\ r.left \in Int  BY <1>a, <3>3 DEF Lefts
    <3>5. n.left = 0 \/ r.left >= n.left  BY <1>a, <2>1, <3>1, <3>2 DEF DueWhenOld
    <3> QED  BY <1>a, <3>1, <3>2, <3>3, <3>4, <3>5 DEF NotBelow
  <2>2. ASSUME NEW m \in saved', m.id \in cleaner'.ids PROVE m.left = 0
    <3>1. PICK n \in saved : m.id = n.id /\ m.left = NotBelow(0, n.left - 1)
      BY <1>1 DEF Ages
    <3>2. n.left = 0  BY <1>4, <1>a, <2>2, <3>1 DEF DueWhenOld
    <3> QED  BY <3>1, <3>2 DEF NotBelow
  <2> QED  BY <2>1, <2>2 DEF DueWhenOld
<1>8. ControlsFit'
  <2>1. ASSUME NEW c \in controls' PROVE \E m \in saved' : m.id = c.id /\ c.left <= m.left
    <3>1. PICK y \in controls : c.id = y.id /\ c.left = y.left - 1  BY <1>3
    <3>2. PICK m \in saved : m.id = y.id /\ y.left <= m.left  BY <1>a DEF ControlsFit
    <3>3. PICK n \in saved' : n.id = m.id /\ n.left = NotBelow(0, m.left - 1)
      BY <1>1 DEF Ages
    <3>4. y.left \in 1 .. Ttl /\ m.left \in 0 .. Ttl  BY <1>b DEF Controls, Messages
    <3>5. c.left <= n.left  BY <1>a, <3>1, <3>2, <3>3, <3>4 DEF NotBelow
    <3> QED  BY <3>1, <3>2, <3>3, <3>5
  <2> QED  BY <2>1 DEF ControlsFit
<1> QED  BY <1>6, <1>7, <1>8

\* The invariant is inductive: one step per action.
LEMMA SafeKept ==
  ASSUME Safe, [Next]_vars
  PROVE  Safe'
<1>a. Outside /\ Inside /\ FreshIds /\ DueWhenOld /\ ControlsFit /\ TypeOK /\ BatchIsTried
      /\ KnownIds
  BY Halves DEF Safe
<1>b. TypeOK' /\ BatchIsTried' /\ KnownIds'  BY <1>a, TypeKept, KnownKept
<1>c. ASSUME FreshIds', DueWhenOld', ControlsFit' PROVE Safe'  BY <1>b, <1>c DEF Safe
<1>d. cmd.artifacts \subseteq Known /\ \A f \in failing : f \subseteq Known  BY KnownParts
<1>1. ASSUME UNCHANGED <<saved, queue, cleaner, nextId>>, controls' \subseteq controls
      PROVE  Safe'
  <2>1. FreshIds' /\ DueWhenOld'  BY <1>1, <1>a DEF FreshIds, DueWhenOld
  <2> QED  BY <1>1, <1>a, <1>c, <2>1, ControlsFollow
<1>2. ASSUME MayAppear, RowsFollow, UNCHANGED cleaner, controls' \subseteq controls
      PROVE  Safe'
  BY <1>2, <1>a, <1>c, Appearance, ControlsFollow
<1>3. ASSUME NEW kind, NEW reply, OwnerSends(kind, reply) PROVE Safe'
  <2>1. MayAppear /\ UNCHANGED <<queue, cleaner, controls>>
    BY <1>3 DEF OwnerSends, Appears, MayAppear, service
  <2> QED  BY <1>2, <2>1, UnqueuedFollows
<1>4. ASSUME NEW i \in Ids,
             Redeliver(i) \/ Duplicate(i) \/ BeginsOther(i) \/ BeginsCases(i) \/ BeginsAllow(i)
      PROVE  Safe'
  <2>1. UNCHANGED <<saved, queue, cleaner, nextId>>
    BY <1>4 DEF Redeliver, Duplicate, BeginsOther, BeginsCases, BeginsAllow, Begins, Takes
  <2>2. controls' \subseteq controls
    BY <1>4 DEF Redeliver, Duplicate, BeginsOther, BeginsCases, BeginsAllow,
                ControlsCleared, service
  <2> QED  BY <1>1, <2>1, <2>2
<1>5. ASSUME NEW pc, Answering(pc), Sent \/ NotSent, RowsFollow, controls' \subseteq controls
      PROVE  Safe'
  <2>1. MayAppear /\ UNCHANGED cleaner  BY <1>5 DEF Sent, NotSent, MayAppear, Answering
  <2> QED  BY <1>2, <1>5, <2>1
<1>6. CASE HeaderSent
  <2>1. (Sent \/ NotSent) /\ UNCHANGED <<queue, controls>> /\ Answering("header")
    BY <1>6 DEF HeaderSent
  <2>2. RowsFollow  BY <2>1, UnqueuedFollows DEF Sent, NotSent, MayAppear
  <2> QED  BY <1>5, <2>1, <2>2
<1>7. ASSUME NEW item \in cmd.items, CardSent(item) PROVE Safe'
  <2>1. Answering("cards")  BY <1>7 DEF CardSent
  <2>2. CASE NotSent /\ UNCHANGED <<controls, queue>>
    <3>1. RowsFollow  BY <2>2, UnqueuedFollows DEF NotSent, MayAppear
    <3> QED  BY <1>5, <2>1, <2>2, <3>1
  <2>3. CASE CardAppears(item)
    <3>1. RowsFollow
      <4>1. CASE ScheduleArtifacts(cmd.artifacts \cup {nextId})
        BY <1>d, <2>3, <4>1, ArtifactsFollow DEF CardAppears
      <4>2. CASE UNCHANGED queue
        BY <2>3, <4>2, UnqueuedFollows DEF CardAppears, Sent, MayAppear
      <4> QED  BY <2>3, <4>1, <4>2 DEF CardAppears
    <3>2. FreshIds' /\ DueWhenOld'
      BY <2>1, <2>3, <3>1, AnswersAreSafe DEF CardAppears, Answering
    <3> QED  BY <1>c, <2>3, <3>2, NewControlFits
  <2> QED  BY <1>7, <2>2, <2>3, CardCases
<1>8. CASE ReplySent
  <2>1. Answering("reply") /\ UNCHANGED controls /\ (Sent \/ NotSent)  BY <1>8 DEF ReplySent
  <2>2. RowsFollow
    <3>1. CASE Sent /\ ScheduleArtifacts(cmd.artifacts \cup {nextId})
      BY <1>d, <3>1, ArtifactsFollow
    <3>2. CASE NotSent /\ UNCHANGED queue  BY <3>2, UnqueuedFollows DEF NotSent, MayAppear
    <3> QED  BY <1>8, <3>1, <3>2 DEF ReplySent
  <2> QED  BY <1>5, <2>1, <2>2
<1>9. ASSUME NEW artifacts \in failing, ErrorSent(artifacts) PROVE Safe'
  <2>1. \/ Sent /\ ScheduleArtifacts(artifacts \cup {nextId})
        \/ NotSent /\ ScheduleArtifacts(artifacts)
    BY <1>9 DEF ErrorSent
  <2>2. RowsFollow  BY <1>d, <2>1, ArtifactsFollow
  <2>3. MayAppear  BY <2>1 DEF Sent, NotSent, MayAppear
  <2> QED  BY <1>2, <1>9, <2>2, <2>3 DEF ErrorSent
<1>10. CASE AllowDecided  BY <1>1, <1>10 DEF AllowDecided
<1>11. CASE CleanerTakes
  <2>1. UNCHANGED <<saved, queue, nextId, controls>>  BY <1>11 DEF CleanerTakes, service
  <2>2. cleaner'.ids \subseteq IdsOf(Due)  BY <1>11, <1>a, TakenBatch
  <2>3. \A i \in cleaner'.ids : \E q \in queue : q.id = i /\ q.left <= 0
    <3>1. \A i \in cleaner'.ids : \E q \in Due : q.id = i  BY <2>2, HasId
    <3>2. \A q \in Due : q \in queue /\ q.left <= 0  BY DEF Due
    <3> QED  BY <3>1, <3>2, Zenon
  <2>4. FreshIds'
    <3>1. cleaner'.ids \subseteq IdsOf(queue)  BY <2>3, HasId
    <3> QED  BY <1>a, <2>1, <3>1 DEF FreshIds
  <2>5. DueWhenOld'
    <3>1. ASSUME NEW m \in saved, m.id \in cleaner'.ids PROVE m.left = 0
      <4>1. PICK q \in queue : q.id = m.id /\ q.left <= 0  BY <2>3, <3>1
      <4>2. m.left \in 0 .. Ttl /\ q.left \in Lefts  BY <1>a DEF Outside, Messages, Rows
      <4>3. m.left \in Nat /\ q.left \in Int
        BY <4>2, OperatorControlsAssumption, Limits DEF Lefts
      <4>4. m.left = 0 \/ q.left >= m.left  BY <1>a, <4>1 DEF DueWhenOld
      <4> QED  BY <4>1, <4>3, <4>4
    <3> QED  BY <1>a, <2>1, <3>1 DEF DueWhenOld
  <2>6. ControlsFit'  BY <1>a, <2>1, ControlsFollow
  <2> QED  BY <1>c, <2>4, <2>5, <2>6
<1>12. CASE CleanerDeletes \/ CleanerFails  BY <1>12, <1>c, DeletingIsSafe
<1>13. ASSUME NEW s \in Senders, NEW kind, BecomesCase(s, kind) \/ Release(s) \/ Forget(s)
       PROVE  Safe'
  BY <1>1, <1>13 DEF BecomesCase, Release, Forget, service
<1>14. CASE Tick  BY <1>14, <1>c, TickIsSafe
<1>15. CASE Crash
  <2>1. UNCHANGED <<saved, queue, nextId>> /\ controls' = {} /\ cleaner' = NoBatch
    BY <1>15 DEF Crash
  <2>2. cleaner'.ids = {}  BY <2>1 DEF NoBatch
  <2>3. FreshIds' /\ DueWhenOld'  BY <1>a, <2>1, <2>2 DEF FreshIds, DueWhenOld
  <2> QED  BY <1>c, <2>1, <2>3 DEF ControlsFit
<1>16. CASE Restart
  <2>1. CASE UNCHANGED queue  BY <1>1, <1>16, <2>1 DEF Restart, service
  <2>2. CASE queue' = Reconciled
    <3>1. UNCHANGED <<saved, nextId, cleaner, controls>>  BY <1>16 DEF Restart, service
    <3>2. /\ IdsOf(Reconciled) = IdsOf(queue) \cup IdsOf(saved)
          /\ \A m \in saved, q \in Reconciled : m.id = q.id => m.left = 0 \/ q.left >= m.left
      BY <1>a, ReconciledRows DEF Outside, FreshIds, DueWhenOld
    <3>3. FreshIds'  BY <1>a, <2>2, <3>1, <3>2 DEF FreshIds
    <3>4. DueWhenOld'  BY <1>a, <2>2, <3>1, <3>2 DEF DueWhenOld
    <3> QED  BY <1>a, <1>c, <3>1, <3>3, <3>4, ControlsFollow
  <2> QED  BY <1>16, <2>1, <2>2 DEF Restart
<1>17. CASE UNCHANGED vars  BY <1>1, <1>17 DEF vars, service
<1> QED
  BY <1>3, <1>4, <1>6, <1>7, <1>8, <1>9, <1>10, <1>11, <1>12, <1>13, <1>14, <1>15, <1>16,
     <1>17, Zenon DEF Next, Answer, Clean

\* What is safe at the start.
LEMMA SafeInitially == Init => Safe
<1> SUFFICES ASSUME Init PROVE Safe  OBVIOUS
<1>1. TypeOK /\ BatchIsTried  BY InitialTypes
<1>2. /\ saved = {} /\ queue = {} /\ controls = {} /\ failing = {} /\ inbox = {}
      /\ cmd.artifacts = {} /\ cleaner.ids = {} /\ Commands = {}
  BY ArtifactsOf DEF Init, NoBatch, Commands
<1>3. KnownIds  BY <1>2, KnownParts DEF KnownIds
<1>4. IdsOf(saved) = {} /\ IdsOf(queue) = {}  BY <1>2 DEF IdsOf
<1> QED  BY <1>1, <1>2, <1>3, <1>4 DEF Safe, FreshIds, DueWhenOld, ControlsFit

\* The card of every control is in Saved Messages: what the cleanup loop deletes is so
\* old that its control has expired, whatever was retried, reconciled or listed anew.
THEOREM CardsOutliveControls == Spec => []CardOutlivesControl
<1>1. Safe => CardOutlivesControl
  BY HasId DEF Safe, ControlsFit, CardOutlivesControl
<1> QED  BY <1>1, SafeInitially, SafeKept, PTL DEF Spec

\* No step of the service takes a message out of Saved Messages that is younger than the
\* lifetime: a batch only holds rows that were due, a row is never due before its
\* message is old enough, and retries and the search at start-up keep it so.
THEOREM CleanupsAreNotEarly == Spec => CleanupIsNotEarly
<1>1. ASSUME Safe, [Next]_vars
      PROVE  [\A m \in saved : m.id \notin IdsOf(saved') => m.left = 0]_vars
  <2> SUFFICES ASSUME Next, NEW m \in saved, m.id \notin IdsOf(saved') PROVE m.left = 0
    BY <1>1
  <2>a. Outside /\ DueWhenOld /\ m.id \in IdsOf(saved)  BY <1>1, Halves, HasId DEF Safe
  <2>1. m \notin saved'  BY HasId
  <2>2. ASSUME saved \subseteq saved' PROVE FALSE  BY <2>1, <2>2
  <2>3. CASE CleanerDeletes \/ CleanerFails
    <3>1. saved' \in {saved, Without(saved, cleaner.ids)}
      BY <2>3 DEF CleanerDeletes, CleanerFails
    <3>2. m.id \in cleaner.ids  BY <2>1, <3>1, Removed
    <3> QED  BY <2>a, <3>2 DEF DueWhenOld
  <2>4. CASE Tick
    <3>1. saved' = {AgedMessage(n) : n \in saved}  BY <2>4, Zenon DEF Tick, AgedMessage
    <3>2. IdsOf(saved') = IdsOf(saved)  BY <2>a, <3>1, OlderMessages, Zenon DEF Outside
    <3> QED  BY <2>a, <3>2
  <2>5. ASSUME Sent \/ NotSent PROVE FALSE
    BY <2>2, <2>5 DEF Sent, NotSent, Appears
  <2>6. ASSUME NEW kind, NEW reply, OwnerSends(kind, reply) PROVE FALSE
    BY <2>2, <2>6 DEF OwnerSends
  <2>7. ASSUME NEW i,
               Redeliver(i) \/ Duplicate(i) \/ BeginsOther(i) \/ BeginsCases(i) \/ BeginsAllow(i)
        PROVE  FALSE
    BY <2>2, <2>7 DEF Redeliver, Duplicate, BeginsOther, BeginsCases, BeginsAllow, Begins, Takes
  <2>8. ASSUME NEW s, NEW kind, BecomesCase(s, kind) \/ Release(s) \/ Forget(s) PROVE FALSE
    BY <2>2, <2>8 DEF BecomesCase, Release, Forget
  <2>9. CASE AllowDecided \/ CleanerTakes \/ Crash \/ Restart
    BY <2>2, <2>9 DEF AllowDecided, CleanerTakes, Crash, Restart
  <2>10. CASE HeaderSent \/ ReplySent  BY <2>5, <2>10 DEF HeaderSent, ReplySent
  <2>11. ASSUME NEW x, CardSent(x) \/ ErrorSent(x) PROVE FALSE
    BY <2>5, <2>11 DEF CardSent, ErrorSent
  <2> QED
    BY <2>3, <2>4, <2>6, <2>7, <2>8, <2>9, <2>10, <2>11, Zenon DEF Next, Answer, Clean
<1> QED  BY <1>1, SafeInitially, SafeKept, PTL DEF Spec, CleanupIsNotEarly

-----------------------------------------------------------------------------
(* Controls of the last listing *)

\* A new listing empties the map before its first card is sent, and a card that is still
\* to be sent belongs to the command that holds the lock: "A newer case listing
\* invalidates earlier mappings".
THEOREM ControlsAreCurrent == Spec => []ControlsAreOfLastListing
<1> DEFINE Inv == TypeOK /\ BatchIsTried /\ ControlsAreOfLastListing
<1>1. Init => Inv  BY InitialTypes DEF Init, ControlsAreOfLastListing
<1>2. ASSUME Inv, [Next]_vars PROVE Inv'
  <2>a. TypeOK /\ BatchIsTried /\ ControlsAreOfLastListing /\ Inside
        /\ TypeOK' /\ BatchIsTried'
    BY <1>2, TypeKept, Halves
  <2> SUFFICES ControlsAreOfLastListing'  BY <2>a
  <2>1. ASSUME controls' \subseteq controls, UNCHANGED listing PROVE ControlsAreOfLastListing'
    BY <2>1, <2>a DEF ControlsAreOfLastListing
  <2>2. ASSUME NEW i, BeginsCases(i) PROVE ControlsAreOfLastListing'
    BY <2>2 DEF BeginsCases, ControlsCleared, ControlsAreOfLastListing
  <2>3. ASSUME NEW i, Redeliver(i) \/ Duplicate(i) \/ BeginsOther(i) \/ BeginsAllow(i)
        PROVE  ControlsAreOfLastListing'
    BY <2>1, <2>3 DEF Redeliver, Duplicate, BeginsOther, BeginsAllow, service
  <2>4. ASSUME NEW item, CardSent(item) PROVE ControlsAreOfLastListing'
    <3>1. UNCHANGED listing  BY <2>4 DEF CardSent, Answering
    <3>2. CASE UNCHANGED controls  BY <2>1, <3>1, <3>2
    <3>3. CASE controls' = controls \cup {NewControl(item)}
      <4>1. NewControl(item).listing = listing  BY DEF NewControl
      <4> QED  BY <2>a, <3>1, <3>3, <4>1 DEF ControlsAreOfLastListing
    <3> QED  BY <2>4, <3>2, <3>3, CardCases DEF CardAppears
  <2>5. CASE Tick
    <3>1. \A x \in controls' : \E y \in controls : x.listing = y.listing
      BY <2>5, <2>a, OlderControls DEF Tick, Inside
    <3> QED  BY <2>5, <2>a, <3>1 DEF Tick, ControlsAreOfLastListing
  <2>6. CASE HeaderSent \/ ReplySent  BY <2>1, <2>6 DEF HeaderSent, ReplySent, Answering
  <2>7. ASSUME NEW s, NEW kind, BecomesCase(s, kind) \/ Release(s) \/ Forget(s)
        PROVE  ControlsAreOfLastListing'
    BY <2>1, <2>7 DEF BecomesCase, Release, Forget, service
  <2>8. ASSUME NEW x, NEW y, OwnerSends(x, y) \/ ErrorSent(x)
        PROVE  ControlsAreOfLastListing'
    BY <2>1, <2>8 DEF OwnerSends, ErrorSent, service
  <2>9. CASE \/ AllowDecided \/ CleanerTakes \/ CleanerDeletes \/ CleanerFails
             \/ Crash \/ Restart \/ UNCHANGED vars
    BY <2>1, <2>9
       DEF AllowDecided, CleanerTakes, CleanerDeletes, CleanerFails, Crash, Restart, vars,
           service
  <2> QED
    BY <1>2, <2>2, <2>3, <2>4, <2>5, <2>6, <2>7, <2>8, <2>9, Zenon DEF Next, Answer, Clean
<1>3. Inv => ControlsAreOfLastListing  OBVIOUS
<1> QED  BY <1>1, <1>2, <1>3, PTL DEF Spec

-----------------------------------------------------------------------------
(* Nothing is left behind *)

\* What something keeps track of, with and without the updates that are waiting.
Held == IdsOf(queue) \cup cmd.artifacts \cup (UNION failing) \cup lost

\* Who answers for a message: the queue, the running command, the failed batches or
\* nobody any more.
LEMMA HeldParts ==
  /\ \A i : i \in Held <=> \/ i \in IdsOf(queue) \/ i \in cmd.artifacts
                           \/ (\E f \in failing : i \in f) \/ i \in lost
  /\ \A i : i \in Held' <=> \/ i \in IdsOf(queue') \/ i \in cmd'.artifacts
                            \/ (\E f \in failing' : i \in f) \/ i \in lost'
  /\ NothingUntracked <=> \A i \in IdsOf(saved) : i \in Held \/ i \in inbox
  /\ NothingUntracked' <=> \A i \in IdsOf(saved') : i \in Held' \/ i \in inbox'
  /\ HandledIsTracked <=> \A h \in handled : h.id \in IdsOf(saved) => h.id \in Held
  /\ HandledIsTracked' <=> \A h \in handled' : h.id \in IdsOf(saved') => h.id \in Held'
<1>1. \A i : i \in Held <=> \/ i \in IdsOf(queue) \/ i \in cmd.artifacts
                            \/ (\E f \in failing : i \in f) \/ i \in lost
  BY Zenon DEF Held
<1>2. \A i : i \in Held' <=> \/ i \in IdsOf(queue') \/ i \in cmd'.artifacts
                             \/ (\E f \in failing' : i \in f) \/ i \in lost'
  BY Zenon DEF Held
<1>3. NothingUntracked <=> \A i \in IdsOf(saved) : i \in Held \/ i \in inbox
  BY Zenon DEF NothingUntracked, Held
<1>4. NothingUntracked' <=> \A i \in IdsOf(saved') : i \in Held' \/ i \in inbox'
  BY Zenon DEF NothingUntracked, Held
<1>5. HandledIsTracked <=> \A h \in handled : h.id \in IdsOf(saved) => h.id \in Held
  BY Zenon DEF HandledIsTracked, Held
<1>6. HandledIsTracked' <=> \A h \in handled' : h.id \in IdsOf(saved') => h.id \in Held'
  BY Zenon DEF HandledIsTracked, Held
<1> QED  BY <1>1, <1>2, <1>3, <1>4, <1>5, <1>6, Zenon

\* What a step must do with the messages, the artifacts and the updates.
LEMMA HeldFollows ==
  ASSUME Tracking,
         \A i \in IdsOf(saved') : i \in IdsOf(saved) \/ (i = nextId /\ (i \in Held' \/ i \in inbox')),
         \A i \in Held : i \in IdsOf(saved') => i \in Held',
         \A i \in inbox : i \in IdsOf(saved') => i \in Held' \/ i \in inbox',
         \A h \in handled' : (\E g \in handled : g.id = h.id) \/ h.id \in Held'
  PROVE  NothingUntracked' /\ HandledIsTracked'
<1>a. /\ \A i \in IdsOf(saved) : i \in Held \/ i \in inbox
      /\ \A h \in handled : h.id \in IdsOf(saved) => h.id \in Held
      /\ HandledIsGiven /\ Inside /\ Outside
  BY HeldParts, Halves DEF Tracking
<1>b. \A h \in handled : h.id # nextId
  <2>1. nextId \in Nat /\ Ids \subseteq Nat  BY <1>a, OperatorControlsAssumption DEF Outside, Ids
  <2>2. \A h \in handled : h.id \in Nat  BY <1>a, <2>1 DEF Inside, Marks
  <2> QED  BY <1>a, <2>1, <2>2 DEF HandledIsGiven
<1>1. \A i \in IdsOf(saved') : i \in Held' \/ i \in inbox'  BY <1>a
<1>2. ASSUME NEW h \in handled', h.id \in IdsOf(saved') PROVE h.id \in Held'
  <2>1. CASE \E g \in handled : g.id = h.id
    <3>1. PICK g \in handled : g.id = h.id  BY <2>1
    <3>2. g.id \in IdsOf(saved)  BY <1>2, <1>b, <3>1
    <3> QED  BY <1>2, <1>a, <3>1, <3>2
  <2>2. CASE h.id \in Held'  BY <2>2
  <2> QED  BY <2>1, <2>2
<1> QED  BY <1>1, <1>2, HeldParts

\* The steps that only move what is saved, queued and known.
LEMMA HeldStays ==
  ASSUME Tracking, UNCHANGED <<inbox, handled>>,
         IdsOf(saved') \subseteq IdsOf(saved),
         \A i \in Held : i \in IdsOf(saved') => i \in Held'
  PROVE  NothingUntracked' /\ HandledIsTracked'
BY HeldFollows

\* The id of a message that appears.
LEMMA AppearingId ==
  ASSUME Appears
  PROVE  \A i \in IdsOf(saved') : i \in IdsOf(saved) \/ i = nextId
<1> DEFINE new == [id |-> nextId, left |-> Ttl]
<1>1. saved' = saved \cup {new} /\ new.id = nextId  BY DEF Appears
<1> HIDE DEF new
<1> QED  BY <1>1, HasId

\* An answer appears and is recorded.
LEMMA AnswersAreTracked ==
  ASSUME Tracking, Sent, UNCHANGED <<inbox, handled>>,
         \A i \in IdsOf(queue) : i \in IdsOf(queue'),
         \A i : (i \in cmd.artifacts \/ \E f \in failing : i \in f) => i \in Held',
         nextId \in Held'
  PROVE  NothingUntracked' /\ HandledIsTracked'
<1>1. lost' = lost /\ Appears  BY DEF Sent
<1>2. \A i \in Held : i \in Held'  BY <1>1, HeldParts
<1> QED  BY <1>1, <1>2, AppearingId, HeldFollows

\* It does not appear, or it is lost.
LEMMA UnansweredIsTracked ==
  ASSUME Tracking, NotSent, UNCHANGED <<inbox, handled>>,
         \A i \in IdsOf(queue) : i \in IdsOf(queue'),
         \A i : (i \in cmd.artifacts \/ \E f \in failing : i \in f) => i \in Held'
  PROVE  NothingUntracked' /\ HandledIsTracked'
<1>1. \A i \in lost : i \in lost'  BY DEF NotSent
<1>2. \A i \in Held : i \in Held'  BY <1>1, HeldParts
<1>3. \A i \in IdsOf(saved') : i \in IdsOf(saved) \/ (i = nextId /\ i \in Held')
  <2>1. CASE saved' = saved  BY <2>1
  <2>2. CASE Appears /\ lost' = lost \cup {nextId}
    BY <2>2, AppearingId, HeldParts
  <2> QED  BY <2>1, <2>2 DEF NotSent
<1> QED  BY <1>2, <1>3, HeldFollows

\* The commands that begin take their update from the inbox.
LEMMA BeginningIsTracked ==
  ASSUME Tracking, NEW i, Takes(i), cmd'.artifacts = {i},
         handled' = handled \cup {[id |-> i, left |-> Ttl]}
  PROVE  NothingUntracked' /\ HandledIsTracked'
<1> DEFINE mark == [id |-> i, left |-> Ttl]
<1>1. handled' = handled \cup {mark} /\ mark.id = i  OBVIOUS
<1>2. UNCHANGED <<saved, queue, failing, lost>> /\ inbox' = inbox \ {i}  BY DEF Takes
<1>3. cmd.artifacts = {}  BY DEF Takes, Tracking, IdleOwnsNothing
<1>4. i \in Held' /\ \A j \in Held : j \in Held'  BY <1>2, <1>3, HeldParts
<1> HIDE DEF mark
<1>5. \A h \in handled' : (\E g \in handled : g.id = h.id) \/ h.id \in Held'  BY <1>1, <1>4
<1> QED  BY <1>2, <1>4, <1>5, HeldFollows

\* One step per action.
LEMMA TrackedKept ==
  ASSUME Tracking, [Next]_vars
  PROVE  NothingUntracked' /\ HandledIsTracked'
<1>a. Outside /\ Inside /\ BatchIsTried  BY Halves DEF Tracking
<1>1. ASSUME NEW kind, NEW reply, OwnerSends(kind, reply)
      PROVE  NothingUntracked' /\ HandledIsTracked'
  <2> DEFINE new == [id |-> nextId, left |-> Ttl]
  <2>1. saved' = saved \cup {new} /\ new.id = nextId  BY <1>1 DEF OwnerSends
  <2>2. UNCHANGED <<handled, queue, cmd, failing>>  BY <1>1 DEF OwnerSends, service
  <2>3. \/ inbox' = inbox \cup {nextId} /\ lost' = lost
        \/ inbox' = inbox /\ lost' = lost \cup {nextId}
    BY <1>1 DEF OwnerSends
  <2> HIDE DEF new
  <2>4. \A i \in IdsOf(saved') : i \in IdsOf(saved) \/ i = nextId  BY <2>1, HasId
  <2>5. (nextId \in Held' \/ nextId \in inbox') /\ \A i \in Held : i \in Held'
    BY <2>2, <2>3, HeldParts
  <2> QED  BY <2>2, <2>3, <2>4, <2>5, HeldFollows
<1>2. ASSUME NEW i, Redeliver(i) PROVE NothingUntracked' /\ HandledIsTracked'
  <2>1. UNCHANGED <<saved, handled, queue, cmd, failing, lost>> /\ inbox' = inbox \cup {i}
    BY <1>2 DEF Redeliver, service
  <2>2. \A j \in Held : j \in Held'  BY <2>1, HeldParts
  <2> QED  BY <2>1, <2>2, HeldFollows
<1>3. ASSUME NEW i, Duplicate(i) PROVE NothingUntracked' /\ HandledIsTracked'
  <2>1. /\ UNCHANGED <<saved, handled, queue, cmd, failing, lost>> /\ inbox' = inbox \ {i}
        /\ i \in IdsOf(handled)
    BY <1>3 DEF Duplicate, Takes
  <2>2. \A j \in Held : j \in Held'  BY <2>1, HeldParts
  <2>3. PICK h \in handled : h.id = i  BY <2>1, HasId
  <2>4. i \in IdsOf(saved) => i \in Held  BY <2>3, HeldParts DEF Tracking
  <2> QED  BY <2>1, <2>2, <2>4, HeldFollows
<1>4. ASSUME NEW i, BeginsOther(i) \/ BeginsCases(i) \/ BeginsAllow(i)
      PROVE  NothingUntracked' /\ HandledIsTracked'
  <2>1. Takes(i) /\ handled' = handled \cup {[id |-> i, left |-> Ttl]}
    BY <1>4 DEF BeginsOther, BeginsCases, BeginsAllow, Begins
  <2>2. \E pc, items, target : cmd' = Doing(pc, i, items, target)
    BY <1>4, Zenon DEF BeginsOther, BeginsCases, BeginsAllow
  <2>3. cmd'.artifacts = {i}  BY <2>2, ArtifactsOf
  <2> QED  BY <2>1, <2>3, BeginningIsTracked
<1>5. ASSUME Fail PROVE \A i : (i \in cmd.artifacts \/ \E f \in failing : i \in f) => i \in Held'
  BY <1>5, HeldParts DEF Fail
<1>6. ASSUME NEW ids, ids \subseteq Ids, ScheduleArtifacts(ids)
      PROVE  IdsOf(queue') = IdsOf(queue) \cup ids
  BY <1>6, <1>a, Scheduling
<1>7. Sent => nextId \in Ids /\ cmd.artifacts \cup {nextId} \subseteq Ids
  BY <1>a, AnswerTypes DEF Inside, Cmds
<1>8. CASE HeaderSent
  <2>1. UNCHANGED <<inbox, handled, queue>>  BY <1>8 DEF HeaderSent, Answering
  <2>2. CASE NotSent /\ Fail
    BY <1>5, <2>1, <2>2, UnansweredIsTracked
  <2>3. CASE Sent /\ UNCHANGED failing
             /\ cmd' = [cmd EXCEPT !.pc = "cards", !.left = Ttl,
                                   !.artifacts = @ \cup {nextId}]
    <3>1. cmd'.artifacts = cmd.artifacts \cup {nextId}  BY <1>a, <2>3 DEF Inside, Cmds
    <3>2. nextId \in Held' /\ \A i : (i \in cmd.artifacts \/ \E f \in failing : i \in f)
                                     => i \in Held'
      BY <2>3, <3>1, HeldParts
    <3> QED  BY <2>1, <2>3, <3>2, AnswersAreTracked
  <2> QED  BY <1>8, <2>2, <2>3 DEF HeaderSent
<1>9. ASSUME NEW pc, Answering(pc), Sent, UNCHANGED failing,
             ScheduleArtifacts(cmd.artifacts \cup {nextId})
      PROVE  NothingUntracked' /\ HandledIsTracked'
  <2>1. UNCHANGED <<inbox, handled>>  BY <1>9 DEF Answering
  <2>2. IdsOf(queue') = IdsOf(queue) \cup (cmd.artifacts \cup {nextId})  BY <1>6, <1>7, <1>9
  <2>3. nextId \in Held' /\ \A i : (i \in cmd.artifacts \/ \E f \in failing : i \in f)
                                   => i \in Held'
    BY <1>9, <2>2, HeldParts
  <2> QED  BY <1>9, <2>1, <2>2, <2>3, AnswersAreTracked
<1>10. ASSUME NEW item \in cmd.items, CardSent(item)
       PROVE  NothingUntracked' /\ HandledIsTracked'
  <2>1. Answering("cards") /\ UNCHANGED <<inbox, handled>>  BY <1>10 DEF CardSent, Answering
  <2>2. CASE NotSent /\ Fail /\ UNCHANGED queue
    BY <1>5, <2>1, <2>2, UnansweredIsTracked
  <2>3. CASE CardAppears(item)
    <3>1. CASE ScheduleArtifacts(cmd.artifacts \cup {nextId})
      BY <1>9, <2>1, <2>3, <3>1 DEF CardAppears
    <3>2. CASE UNCHANGED queue
               /\ cmd' = [cmd EXCEPT !.items = @ \ {item}, !.artifacts = @ \cup {nextId}]
      <4>1. cmd'.artifacts = cmd.artifacts \cup {nextId}  BY <1>a, <3>2 DEF Inside, Cmds
      <4>2. nextId \in Held' /\ \A i : (i \in cmd.artifacts \/ \E f \in failing : i \in f)
                                       => i \in Held'
        BY <2>3, <4>1, HeldParts DEF CardAppears
      <4> QED  BY <2>1, <2>3, <3>2, <4>2, AnswersAreTracked DEF CardAppears
    <3> QED  BY <2>3, <3>1, <3>2 DEF CardAppears
  <2> QED  BY <1>10, <2>2, <2>3, CardCases
<1>11. CASE ReplySent
  <2>1. Answering("reply") /\ UNCHANGED <<inbox, handled>>  BY <1>11 DEF ReplySent, Answering
  <2>2. CASE NotSent /\ Fail /\ UNCHANGED queue
    BY <1>5, <2>1, <2>2, UnansweredIsTracked
  <2>3. CASE Sent /\ ScheduleArtifacts(cmd.artifacts \cup {nextId}) /\ UNCHANGED failing
    BY <1>9, <2>1, <2>3
  <2> QED  BY <1>11, <2>2, <2>3 DEF ReplySent
<1>12. ASSUME NEW artifacts \in failing, ErrorSent(artifacts)
       PROVE  NothingUntracked' /\ HandledIsTracked'
  <2>1. UNCHANGED <<inbox, handled, cmd>> /\ failing' = failing \ {artifacts}
    BY <1>12 DEF ErrorSent
  <2>2. artifacts \subseteq Ids  BY <1>a DEF Inside
  <2>3. CASE Sent /\ ScheduleArtifacts(artifacts \cup {nextId})
    <3>1. artifacts \cup {nextId} \subseteq Ids  BY <1>7, <2>2, <2>3
    <3>2. IdsOf(queue') = IdsOf(queue) \cup (artifacts \cup {nextId})  BY <1>6, <2>3, <3>1
    <3>3. nextId \in Held' /\ \A i : (i \in cmd.artifacts \/ \E f \in failing : i \in f)
                                     => i \in Held'
      BY <2>1, <3>2, HeldParts
    <3> QED  BY <2>1, <2>3, <3>2, <3>3, AnswersAreTracked
  <2>4. CASE NotSent /\ ScheduleArtifacts(artifacts)
    <3>1. IdsOf(queue') = IdsOf(queue) \cup artifacts  BY <1>6, <2>2, <2>4
    <3>2. \A i : (i \in cmd.artifacts \/ \E f \in failing : i \in f) => i \in Held'
      BY <2>1, <3>1, HeldParts
    <3> QED  BY <2>1, <2>4, <3>1, <3>2, UnansweredIsTracked
  <2> QED  BY <1>12, <2>3, <2>4 DEF ErrorSent
<1>13. ASSUME UNCHANGED <<saved, inbox, handled, queue, failing, lost>>,
              cmd'.artifacts = cmd.artifacts
       PROVE  NothingUntracked' /\ HandledIsTracked'
  <2>1. \A i \in Held : i \in Held'  BY <1>13, HeldParts
  <2> QED  BY <1>13, <2>1, HeldStays
<1>14. CASE AllowDecided
  BY <1>13, <1>14, <1>a DEF AllowDecided, Inside, Cmds
<1>15. CASE CleanerDeletes
  <2>1. IdsOf(saved') = IdsOf(saved) \ cleaner.ids /\ IdsOf(queue') = IdsOf(queue) \ cleaner.ids
    BY <1>15, Removed DEF CleanerDeletes
  <2>2. lost' = lost \ cleaner.ids /\ UNCHANGED <<inbox, handled, cmd, failing>>
    BY <1>15 DEF CleanerDeletes, service
  <2>3. \A i \in Held : i \in IdsOf(saved') => i \in Held'  BY <2>1, <2>2, HeldParts
  <2> QED  BY <2>1, <2>2, <2>3, HeldStays
<1>16. CASE CleanerFails
  <2>1. UNCHANGED <<inbox, handled, cmd, failing, lost>>  BY <1>16 DEF CleanerFails, service
  <2>2. IdsOf(saved') \subseteq IdsOf(saved)
    <3>1. saved' = saved \/ saved' = Without(saved, cleaner.ids)  BY <1>16 DEF CleanerFails
    <3> QED  BY <3>1, Removed
  <2>3. IdsOf(queue') = IdsOf(queue)
    <3>1. cleaner.retry \in Nat /\ cleaner.retry > 0 /\ cleaner.age \in Nat
          /\ queue \subseteq Rows
      BY <1>16, <1>a DEF CleanerFails, BatchIsTried, Inside, Outside, Batches
    <3>2. IdsOf(Retried(queue, cleaner)) = IdsOf(queue)  BY <3>1, RetriedRows
    <3> QED  BY <1>16, <3>2 DEF CleanerFails
  <2>4. \A i \in Held : i \in Held'  BY <2>1, <2>3, HeldParts
  <2> QED  BY <2>1, <2>2, <2>4, HeldStays
<1>17. CASE CleanerTakes \/ UNCHANGED vars
  BY <1>13, <1>17 DEF CleanerTakes, vars, service
<1>18. ASSUME NEW s, NEW kind, BecomesCase(s, kind) \/ Release(s) \/ Forget(s)
       PROVE  NothingUntracked' /\ HandledIsTracked'
  BY <1>13, <1>18 DEF BecomesCase, Release, Forget, service
<1>19. CASE Tick
  <2>1. UNCHANGED <<inbox, failing, lost>> /\ cmd'.artifacts = cmd.artifacts
    BY <1>19, <1>a DEF Tick, Inside, Cmds
  <2>2. IdsOf(saved') = IdsOf(saved)
    <3>1. saved' = {AgedMessage(n) : n \in saved}  BY <1>19, Zenon DEF Tick, AgedMessage
    <3> QED  BY <1>a, <3>1, OlderMessages, Zenon DEF Outside
  <2>3. IdsOf(queue') = IdsOf(queue)  BY <1>19, <1>a, OlderRows, Zenon DEF Tick, Outside
  <2>4. \A h \in handled' : \E g \in handled : g.id = h.id
    BY <1>19, <1>a, OlderMarks DEF Tick, Inside
  <2>5. \A i \in Held : i \in Held'  BY <2>1, <2>3, HeldParts
  <2> QED  BY <2>1, <2>2, <2>4, <2>5, HeldFollows
<1>20. CASE Crash
  <2>1. UNCHANGED <<saved, queue>> /\ handled' = {} /\ lost' = IdsOf(saved) \ IdsOf(queue)
    BY <1>20 DEF Crash
  <2>2. \A i \in IdsOf(saved) : i \in Held'  BY <2>1, HeldParts
  <2> QED  BY <2>1, <2>2, HeldFollows
<1>21. CASE Restart
  <2>1. UNCHANGED <<saved, inbox, handled, cmd, failing>>  BY <1>21 DEF Restart, service
  <2>2. CASE UNCHANGED <<queue, lost>>  BY <1>13, <2>1, <2>2
  <2>3. CASE queue' = Reconciled
    <3>1. IdsOf(queue') = IdsOf(queue) \cup IdsOf(saved)
      BY <1>a, <2>3, ReconciledRows DEF Outside
    <3>2. \A i \in IdsOf(saved) : i \in Held'  BY <3>1, HeldParts
    <3> QED  BY <2>1, <3>2, HeldStays
  <2> QED  BY <1>21, <2>2, <2>3 DEF Restart
<1> QED
  BY <1>1, <1>2, <1>3, <1>4, <1>8, <1>10, <1>11, <1>12, <1>14, <1>15, <1>16, <1>17, <1>18,
     <1>19, <1>20, <1>21, Zenon DEF Next, Answer, Clean

\* A message is handled after its update arrived.
LEMMA HandledGivenKept ==
  ASSUME Tracking, [Next]_vars
  PROVE  HandledIsGiven'
<1>a. Outside /\ Inside /\ KnownIds /\ HandledIsGiven  BY Halves DEF Tracking
<1>b. nextId \in Nat /\ Ids \subseteq Nat  BY <1>a, OperatorControlsAssumption DEF Outside, Ids
<1>c. ASSUME \A h \in handled' : (\E g \in handled : g.id = h.id) \/ h.id \in inbox,
             nextId' = nextId \/ nextId' = nextId + 1
      PROVE  HandledIsGiven'
  <2>1. ASSUME NEW h \in handled' PROVE h.id \in Nat /\ h.id < nextId
    <3>1. CASE \E g \in handled : g.id = h.id
      BY <1>a, <1>b, <3>1 DEF HandledIsGiven, Inside, Marks
    <3>2. CASE h.id \in inbox
      <4>1. h.id \in Known /\ h.id \in Ids  BY <1>a, <3>2, KnownParts DEF Inside
      <4> QED  BY <1>a, <1>b, <4>1 DEF KnownIds
    <3> QED  BY <1>c, <3>1, <3>2
  <2>2. ASSUME NEW h \in handled' PROVE h.id < nextId'
    BY <1>b, <1>c, <2>1, <2>2
  <2> QED  BY <2>2 DEF HandledIsGiven
<1>d. ASSUME handled' = handled, nextId' = nextId \/ nextId' = nextId + 1 PROVE HandledIsGiven'
  BY <1>c, <1>d
<1>e. Sent \/ NotSent => nextId' = nextId \/ nextId' = nextId + 1
  BY DEF Sent, NotSent, Appears
<1>1. ASSUME NEW i, BeginsOther(i) \/ BeginsCases(i) \/ BeginsAllow(i) PROVE HandledIsGiven'
  <2> DEFINE mark == [id |-> i, left |-> Ttl]
  <2>1. handled' = handled \cup {mark} /\ mark.id = i /\ i \in inbox /\ nextId' = nextId
    BY <1>1 DEF BeginsOther, BeginsCases, BeginsAllow, Begins, Takes
  <2> HIDE DEF mark
  <2> QED  BY <1>c, <2>1
<1>2. ASSUME NEW i, Redeliver(i) \/ Duplicate(i) PROVE HandledIsGiven'
  BY <1>2, <1>d DEF Redeliver, Duplicate, Takes, service
<1>3. ASSUME NEW x, NEW y, OwnerSends(x, y) PROVE HandledIsGiven'
  BY <1>3, <1>d DEF OwnerSends, service
<1>4. ASSUME NEW x, CardSent(x) \/ ErrorSent(x) \/ HeaderSent \/ ReplySent PROVE HandledIsGiven'
  BY <1>4, <1>d, <1>e DEF CardSent, ErrorSent, HeaderSent, ReplySent, Answering
<1>5. ASSUME NEW s, NEW kind, BecomesCase(s, kind) \/ Release(s) \/ Forget(s)
      PROVE  HandledIsGiven'
  BY <1>5, <1>d DEF BecomesCase, Release, Forget, service
<1>6. CASE \/ AllowDecided \/ CleanerTakes \/ CleanerDeletes \/ CleanerFails \/ Restart
           \/ UNCHANGED vars
  BY <1>6, <1>d
     DEF AllowDecided, CleanerTakes, CleanerDeletes, CleanerFails, Restart, vars, service
<1>7. CASE Tick
  <2>1. \A h \in handled' : \E g \in handled : g.id = h.id
    BY <1>7, <1>a, OlderMarks DEF Tick, Inside
  <2> QED  BY <1>7, <1>c, <2>1 DEF Tick
<1>8. CASE Crash  BY <1>8 DEF Crash, HandledIsGiven
<1> QED
  BY <1>1, <1>2, <1>3, <1>4, <1>5, <1>6, <1>7, <1>8, Zenon DEF Next, Answer, Clean

\* A command that ends hands its artifacts on.
LEMMA IdleKept ==
  ASSUME Tracking, [Next]_vars
  PROVE  IdleOwnsNothing'
<1>a. Inside /\ IdleOwnsNothing  BY Halves DEF Tracking
<1>1. ASSUME cmd' = cmd PROVE IdleOwnsNothing'  BY <1>1, <1>a DEF IdleOwnsNothing
<1>2. ASSUME cmd' = NoCommand PROVE IdleOwnsNothing'
  BY <1>2, ArtifactsOf DEF IdleOwnsNothing
<1>3. ASSUME cmd'.pc # "none" PROVE IdleOwnsNothing'  BY <1>3 DEF IdleOwnsNothing
<1>4. ASSUME NEW i, BeginsOther(i) \/ BeginsCases(i) \/ BeginsAllow(i) PROVE IdleOwnsNothing'
  <2>1. \E pc \in {"reply", "header", "allow"} :
          \E items, target : cmd' = Doing(pc, i, items, target)
    BY <1>4, Zenon DEF BeginsOther, BeginsCases, BeginsAllow
  <2>2. \A pc, items, target : Doing(pc, i, items, target).pc = pc  BY DEF Doing
  <2> QED  BY <1>3, <2>1, <2>2
<1>5. CASE HeaderSent
  <2>1. CASE Fail  BY <1>2, <2>1 DEF Fail
  <2>2. CASE cmd' = [cmd EXCEPT !.pc = "cards", !.left = Ttl, !.artifacts = @ \cup {nextId}]
    BY <1>3, <1>a, <2>2 DEF Inside, Cmds
  <2> QED  BY <1>5, <2>1, <2>2 DEF HeaderSent
<1>6. ASSUME NEW item, CardSent(item) PROVE IdleOwnsNothing'
  <2>1. cmd.pc = "cards"  BY <1>6 DEF CardSent, Answering
  <2>2. CASE cmd' = NoCommand  BY <1>2, <2>2
  <2>3. CASE cmd' = [cmd EXCEPT !.items = @ \ {item}, !.artifacts = @ \cup {nextId}]
    BY <1>3, <1>a, <2>1, <2>3 DEF Inside, Cmds
  <2> QED  BY <1>6, <2>2, <2>3, CardCases DEF CardAppears, Fail
<1>7. CASE ReplySent \/ Crash  BY <1>2, <1>7 DEF ReplySent, Fail, Crash
<1>8. CASE AllowDecided
  <2>1. cmd'.pc = "reply"  BY <1>8, <1>a DEF AllowDecided, Inside, Cmds
  <2> QED  BY <1>3, <2>1
<1>9. CASE Tick
  <2>1. cmd'.pc = cmd.pc /\ cmd'.artifacts = cmd.artifacts
    BY <1>9, <1>a DEF Tick, Inside, Cmds
  <2> QED  BY <1>a, <2>1 DEF IdleOwnsNothing
<1>10. ASSUME NEW x, NEW y, OwnerSends(x, y) \/ Redeliver(x) \/ Duplicate(x) \/ ErrorSent(x)
       PROVE  IdleOwnsNothing'
  BY <1>1, <1>10 DEF OwnerSends, Redeliver, Duplicate, ErrorSent, service
<1>11. ASSUME NEW s, NEW kind, BecomesCase(s, kind) \/ Release(s) \/ Forget(s)
       PROVE  IdleOwnsNothing'
  BY <1>1, <1>11 DEF BecomesCase, Release, Forget, service
<1>12. CASE CleanerTakes \/ CleanerDeletes \/ CleanerFails \/ Restart \/ UNCHANGED vars
  BY <1>1, <1>12 DEF CleanerTakes, CleanerDeletes, CleanerFails, Restart, vars, service
<1> QED
  BY <1>4, <1>5, <1>6, <1>7, <1>8, <1>9, <1>10, <1>11, <1>12, Zenon DEF Next, Answer, Clean

\* Every command and answer in Saved Messages is queued, or in the hands of a command, of
\* a failure that is still to be answered or of an update, unless a crash or a failed
\* request hid it: no path through operator_controls.py drops an artifact.
THEOREM EverythingIsTracked == Spec => []NothingUntracked
<1>1. Init => Tracking
  <2> SUFFICES ASSUME Init PROVE Tracking  OBVIOUS
  <2>1. TypeOK /\ BatchIsTried /\ KnownIds  BY SafeInitially DEF Safe
  <2>2. saved = {} /\ handled = {} /\ cmd.artifacts = {}  BY ArtifactsOf DEF Init
  <2>3. IdsOf(saved) = {}  BY <2>2 DEF IdsOf
  <2> QED
    BY <2>1, <2>2, <2>3, HeldParts DEF Tracking, HandledIsGiven, IdleOwnsNothing
<1>2. ASSUME Tracking, [Next]_vars PROVE Tracking'
  <2>1. TypeOK' /\ BatchIsTried' /\ KnownIds'  BY <1>2, TypeKept, KnownKept DEF Tracking
  <2>2. HandledIsGiven' /\ IdleOwnsNothing'  BY <1>2, HandledGivenKept, IdleKept
  <2>3. NothingUntracked' /\ HandledIsTracked'  BY <1>2, TrackedKept
  <2> QED  BY <2>1, <2>2, <2>3 DEF Tracking
<1>3. Tracking => NothingUntracked  BY DEF Tracking
<1> QED  BY <1>1, <1>2, <1>3, PTL DEF Spec
===============================================================================

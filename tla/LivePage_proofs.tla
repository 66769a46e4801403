--------------------------- MODULE LivePage_proofs ---------------------------
(***************************************************************************)
(* Proofs about the Dashboard's live pages and the review queue behind     *)
(* them, for any number of rows and messages.  A page stays with its       *)
(* address because the answer of a check is only ever used for the address *)
(* the tab is at: a navigation aborts the check, and none begins until the *)
(* navigation has ended.                                                   *)
(***************************************************************************)
EXTENDS LivePage, TLAPS

-----------------------------------------------------------------------------
(* The queue *)

\* The reference of an open row leads to the message its evidence is of.
Matches(item) == IsOpen(item) => item.reference = item.classification

\* A message merged into a row, with room for it.
LEMMA MergedItem ==
  ASSUME NEW item \in Item, NEW c \in Enqueued, item.count < MaxCount, Matches(item),
         IsOpen(item)
  PROVE  Merged(item, c) \in Item /\ Matches(Merged(item, c))
<1>1. /\ item.count \in 0 .. MaxCount /\ c \in Classifications
      /\ item.classification \in Classifications
  BY DEF Item, Classifications
<1>2. item.count + 1 \in 0 .. MaxCount  BY <1>1, ReviewQueueAssumption
<1>3. CASE item.classification = "would_quarantine" /\ c # "would_quarantine"
  <2>1. Merged(item, c) = [item EXCEPT !.status = "pending", !.count = @ + 1]  BY <1>3 DEF Merged
  <2> QED  BY <1>2, <2>1 DEF Item, Matches, IsOpen
<1>4. CASE ~(item.classification = "would_quarantine" /\ c # "would_quarantine")
  <2>1. Merged(item, c) = [item EXCEPT !.status = "pending", !.count = @ + 1,
                                      !.classification = c, !.reference = c]
    BY <1>4 DEF Merged
  <2> QED  BY <1>1, <1>2, <2>1 DEF Item, Matches, IsOpen
<1> QED  BY <1>3, <1>4

\* The other rows the statements of the store write.
LEMMA WrittenItems ==
  /\ NoItem \in Item /\ Matches(NoItem)
  /\ \A c \in Classifications : NewItem(c) \in Item /\ Matches(NewItem(c))
  /\ \A item \in Item :
       LET d == [item EXCEPT !.status = "decided", !.reference = "erased"]
       IN  d \in Item /\ Matches(d)
  /\ LET g == [NoItem EXCEPT !.status = "gone"] IN g \in Item /\ Matches(g)
<1>a. {0, 1} \subseteq 0 .. MaxCount  BY ReviewQueueAssumption
<1>1. NoItem \in Item /\ Matches(NoItem)
  BY <1>a DEF NoItem, Item, Matches, IsOpen, Classifications, Enqueued
<1>2. ASSUME NEW c \in Classifications PROVE NewItem(c) \in Item /\ Matches(NewItem(c))
  BY <1>a, <1>2 DEF NewItem, Item, Matches, IsOpen
<1>3. ASSUME NEW item \in Item
      PROVE  LET d == [item EXCEPT !.status = "decided", !.reference = "erased"]
             IN  d \in Item /\ Matches(d)
  BY <1>3 DEF Item, Matches, IsOpen
<1>4. LET g == [NoItem EXCEPT !.status = "gone"] IN g \in Item /\ Matches(g)
  BY <1>1 DEF Item, Matches, IsOpen
<1> QED  BY <1>1, <1>2, <1>3, <1>4, Zenon

QueueInv == queue \in [Items -> Item] /\ \A i \in Items : Matches(queue[i])

\* A review that is added or brought up to date holds the evidence of its message.
LEMMA EnqueueKeeps ==
  ASSUME QueueInv, NEW c \in Enqueued, CanEnqueue(queue)
  PROVE  LET q == EnqueueReview(queue, c)
         IN  q \in [Items -> Item] /\ \A i \in Items : Matches(q[i])
<1> DEFINE q == EnqueueReview(queue, c)
<1>1. ASSUME NEW i \in Items PROVE q[i] \in Item /\ Matches(q[i])
  <2>a. queue[i] \in Item /\ Matches(queue[i])  BY DEF QueueInv
  <2>1. q[i] = CASE IsOpen(queue[i]) -> Merged(queue[i], c)
                 [] Open(queue) = {} /\ queue[i].status = "none"
                      /\ (\A j \in Unused(queue) : i <= j) -> NewItem(c)
                 [] OTHER -> queue[i]
    BY DEF EnqueueReview
  <2>2. CASE IsOpen(queue[i])
    <3>1. i \in Open(queue)  BY <2>2 DEF Open
    <3>2. queue[i].count < MaxCount  BY <3>1 DEF CanEnqueue
    <3>3. q[i] = Merged(queue[i], c)  BY <2>1, <2>2 DEF IsOpen
    <3> HIDE DEF q
    <3> QED  BY <2>a, <2>2, <3>2, <3>3, MergedItem
  <2>3. CASE ~IsOpen(queue[i])
    <3>1. q[i] = NewItem(c) \/ q[i] = queue[i]  BY <2>1, <2>3
    <3>2. NewItem(c) \in Item /\ Matches(NewItem(c))
      BY WrittenItems DEF Classifications
    <3> HIDE DEF q
    <3> QED  BY <2>a, <3>1, <3>2
  <2> QED  BY <2>2, <2>3
<1>2. q = [i \in Items |-> q[i]]  BY DEF EnqueueReview
<1> HIDE DEF q
<1>3. q \in [Items -> Item]  BY <1>1, <1>2
<1> QED  BY <1>1, <1>3 DEF q

\* No step gives a queued review the evidence of another message.
LEMMA QueueKept ==
  ASSUME QueueInv, [Next]_vars
  PROVE  QueueInv'
<1>1. ASSUME UNCHANGED queue PROVE QueueInv'  BY <1>1 DEF QueueInv
<1>2. ASSUME NEW c \in Enqueued, Message(c) PROVE QueueInv'
  BY <1>2, EnqueueKeeps DEF Message, QueueInv
<1>3. ASSUME queue' = DecideSenderReviews(queue) PROVE QueueInv'
  <2>1. ASSUME NEW i \in Items PROVE queue'[i] \in Item /\ Matches(queue'[i])
    <3> DEFINE d == [queue[i] EXCEPT !.status = "decided", !.reference = "erased"]
    <3>1. queue[i] \in Item /\ Matches(queue[i])  BY DEF QueueInv
    <3>2. d \in Item /\ Matches(d)  BY <3>1 DEF Item, Matches, IsOpen
    <3>3. queue'[i] \in {d, queue[i]}  BY <1>3 DEF DecideSenderReviews
    <3> HIDE DEF d
    <3> QED  BY <3>1, <3>2, <3>3
  <2>2. queue' = [i \in Items |-> queue'[i]]  BY <1>3 DEF DecideSenderReviews
  <2> QED  BY <2>1, <2>2 DEF QueueInv
<1>4. ASSUME NEW i \in Items, Expires(i) PROVE QueueInv'
  <2> DEFINE e == [queue[i] EXCEPT !.status = "expired"]
  <2>1. queue' = [queue EXCEPT ![i] = e]  BY <1>4 DEF Expires, Expire
  <2>2. queue[i] \in Item /\ IsOpen(queue[i]) /\ Matches(queue[i])
    BY <1>4 DEF Expires, IsOpen, QueueInv
  <2>3. e \in Item /\ Matches(e)  BY <2>2 DEF Item, Matches
  <2> HIDE DEF e
  <2> QED  BY <2>1, <2>3 DEF QueueInv
<1>6. ASSUME NEW i \in Items, MaintenancePrunes(i) PROVE QueueInv'
  <2> DEFINE g == [NoItem EXCEPT !.status = "gone"]
  <2>1. queue' = [queue EXCEPT ![i] = g]  BY <1>6 DEF MaintenancePrunes, Prune
  <2>2. g \in Item /\ Matches(g)  BY WrittenItems
  <2> HIDE DEF g
  <2> QED  BY <2>1, <2>2 DEF QueueInv
<1>5. CASE \/ Polls \/ RefreshChecks \/ CheckStep \/ CheckFails \/ NavStep \/ NavFails
           \/ LoadStep \/ Hides \/ Shows \/ UNCHANGED vars
           \/ \E a \in Addresses : Navigates(a, FALSE) \/ Navigates(a, TRUE)
  BY <1>1, <1>5
     DEF Polls, RefreshChecks, CheckStep, StatusArrives, CheckReads, CheckReplaces,
         CheckFails, NavStep, NavReads, NavShows, NavFails, LoadStep, LoadReads, LoadShows,
         Hides, Shows, Navigates, vars
<1> QED
  BY <1>1, <1>2, <1>3, <1>4, <1>5, <1>6 DEF Next, DecidedElsewhere, Decides

\* enqueue_review moves the classification and the reference of a row together, or
\* neither: what a review's page says is said of the message it leads to.
THEOREM EvidenceMatches == Spec => []EvidenceIsOfItsMessage
<1>1. Init => QueueInv
  <2> SUFFICES ASSUME Init PROVE QueueInv  OBVIOUS
  <2>1. \/ queue = [i \in Items |-> NoItem]
        \/ queue = [i \in Items |-> IF i = 1 THEN NewItem("would_quarantine") ELSE NoItem]
    BY DEF Init
  <2>2. "would_quarantine" \in Classifications  BY DEF Classifications
  <2>3. NoItem \in Item /\ Matches(NoItem) /\ NewItem("would_quarantine") \in Item
        /\ Matches(NewItem("would_quarantine"))
    BY <2>2, WrittenItems, Zenon
  <2> QED  BY <2>1, <2>3 DEF QueueInv
<1>2. QueueInv => EvidenceIsOfItsMessage
  BY DEF QueueInv, Matches, EvidenceIsOfItsMessage
<1> QED  BY <1>1, <1>2, QueueKept, PTL DEF Spec

-----------------------------------------------------------------------------
(* The page and its address *)

\* A check is of the address the tab is at, and there is none during a navigation.
ChecksFit ==
  /\ check # NoFetch => check.address = loc
  /\ Navigating => check = NoFetch

\* The script's objects have the fields that are updated one at a time.
HasFields ==
  "address" \in DOMAIN page /\ "address" \in DOMAIN check /\ "phase" \in DOMAIN nav

PageInv == HasFields /\ ChecksFit /\ PageIsOfItsAddress

\* What a request starts with.
LEMMA Fetches ==
  /\ NoFetch.phase = "none"
  /\ DOMAIN NoFetch = {"phase", "address", "force", "data"}
  /\ \A ph, a : /\ Fetch(ph, a).phase = ph /\ Fetch(ph, a).address = a
               /\ DOMAIN Fetch(ph, a) = {"phase", "address", "force", "data"}
BY Zenon DEF NoFetch, Fetch

\* What a check starts with.
LEMMA Checks ==
  \A force : Checking(force).address = loc /\ "address" \in DOMAIN Checking(force)
<1> SUFFICES ASSUME NEW force
             PROVE  Checking(force).address = loc /\ "address" \in DOMAIN Checking(force)
  OBVIOUS
<1> DEFINE f == Fetch("status", loc)
<1>1. f.address = loc /\ "address" \in DOMAIN f  BY Fetches, Zenon
<1>2. Checking(force) = [f EXCEPT !.force = force]  BY DEF Checking
<1> HIDE DEF f
<1> QED  BY <1>1, <1>2, Zenon

\* Pages as they are served.
LEMMA Documents ==
  \A a, d, v :
    /\ Document(a, d, v).address = a /\ ErrorPage(a).address = a
    /\ "address" \in DOMAIN Document(a, d, v)
    /\ "address" \in DOMAIN ErrorPage(a)
BY DEF Document, ErrorPage

\* The steps that leave the page, its address and the navigation alone.
LEMMA CheckOnly ==
  ASSUME PageInv, UNCHANGED <<loc, page, nav>>,
         "address" \in DOMAIN check',
         check' # NoFetch => check'.address = loc,
         Navigating => check' = NoFetch
  PROVE  PageInv'
BY DEF PageInv, HasFields, ChecksFit, PageIsOfItsAddress, Navigating, Loading

\* One step per action: only a navigation and a load move the tab, and each of them
\* leaves no check behind that is of another address.
LEMMA PageKept ==
  ASSUME PageInv, [Next]_vars
  PROVE  PageInv'
<1> USE DEF PageInv, HasFields
<1>f. "address" \in DOMAIN NoFetch  BY Fetches
<1>1. CASE UNCHANGED <<loc, page, nav, check>>
  BY <1>1, CheckOnly DEF ChecksFit
<1>2. CASE Polls \/ RefreshChecks
  <2>1. PICK force \in BOOLEAN : check' = Checking(force)
    BY <1>2 DEF Polls, RefreshChecks
  <2>2. UNCHANGED <<loc, page, nav>> /\ ~Navigating
    BY <1>2 DEF Polls, RefreshChecks, CanCheck
  <2>3. check'.address = loc /\ "address" \in DOMAIN check'  BY <2>1, Checks
  <2> QED  BY <2>2, <2>3, CheckOnly
<1>3. CASE StatusArrives
  <2>1. UNCHANGED <<loc, nav>> /\ check.phase = "status"  BY <1>3 DEF StatusArrives
  <2>2. check # NoFetch /\ ~Navigating  BY <2>1, Fetches DEF ChecksFit
  <2>3. check' \in {Fetch("data", loc), NoFetch}  BY <1>3, Zenon DEF StatusArrives
  <2>4. page'.address = page.address /\ "address" \in DOMAIN page'
    <3>1. \/ page' = page
          \/ \E v : page' = [page EXCEPT !.version = v]
      BY <1>3, Zenon DEF StatusArrives
    <3>2. CASE page' = page  BY <3>2
    <3>3. ASSUME NEW v, page' = [page EXCEPT !.version = v]
          PROVE  page'.address = page.address /\ "address" \in DOMAIN page'
      BY <3>3
    <3> QED  BY <3>1, <3>2, <3>3, Zenon
  <2>5. "address" \in DOMAIN check' /\ (check' # NoFetch => check'.address = loc)
    BY <1>f, <2>3, Fetches
  <2> QED
    BY <2>1, <2>2, <2>4, <2>5 DEF ChecksFit, PageIsOfItsAddress, Navigating, Loading
<1>4. CASE CheckReads
  <2>1. UNCHANGED <<loc, page, nav>> /\ check.phase = "data"  BY <1>4 DEF CheckReads
  <2>2. check.address = loc /\ ~Navigating  BY <2>1, Fetches DEF ChecksFit
  <2>3. PICK d : check' = [check EXCEPT !.phase = "version", !.data = d]
    BY <1>4, Zenon DEF CheckReads
  <2>4. check'.address = check.address /\ "address" \in DOMAIN check'  BY <2>3
  <2> QED  BY <2>1, <2>2, <2>4, CheckOnly
<1>5. CASE CheckReplaces
  <2>1. UNCHANGED <<loc, nav>> /\ check.phase = "version" /\ check' = NoFetch
    BY <1>5 DEF CheckReplaces
  <2>2. check.address = loc /\ ~Navigating  BY <2>1, Fetches DEF ChecksFit
  <2>3. page'.address = check.address /\ "address" \in DOMAIN page'
    BY <1>5, Documents DEF CheckReplaces
  <2> QED
    BY <1>f, <2>1, <2>2, <2>3 DEF ChecksFit, PageIsOfItsAddress, Navigating, Loading
<1>6. CASE CheckFails
  BY <1>f, <1>6, CheckOnly DEF CheckFails
<1>7. ASSUME NEW a, NEW pop, Navigates(a, pop) PROVE PageInv'
  <2>1. nav' = Fetch("data", a) /\ check' = NoFetch /\ page' = page
    BY <1>7 DEF Navigates, Aborted
  <2>2. nav'.phase = "data" /\ "phase" \in DOMAIN nav'  BY <2>1, Fetches
  <2> QED  BY <1>f, <2>1, <2>2 DEF ChecksFit, PageIsOfItsAddress, Navigating
<1>8. CASE NavReads
  <2>1. UNCHANGED <<loc, page, check>> /\ nav.phase = "data"  BY <1>8 DEF NavReads
  <2>2. PICK d : nav' = [nav EXCEPT !.phase = "version", !.data = d]
    BY <1>8, Zenon DEF NavReads
  <2>3. nav'.phase = "version" /\ "phase" \in DOMAIN nav'  BY <2>2
  <2> QED  BY <2>1, <2>3 DEF ChecksFit, PageIsOfItsAddress, Navigating
<1>9. CASE NavShows
  <2>1. nav.phase = "version" /\ nav' = NoFetch /\ loc' = nav.address
    BY <1>9 DEF NavShows
  <2>2. check = NoFetch  BY <2>1 DEF ChecksFit, Navigating
  <2>3. check' \in {Fetch("status", nav.address), NoFetch}
    BY <1>9, <2>2, Zenon DEF NavShows, Scheduled
  <2>4. page'.address = nav.address /\ "address" \in DOMAIN page'
    BY <1>9, Documents DEF NavShows
  <2>5. "address" \in DOMAIN check' /\ (check' # NoFetch => check'.address = loc')
    BY <1>f, <2>1, <2>3, Fetches
  <2>6. nav'.phase = "none" /\ "phase" \in DOMAIN nav'  BY <2>1, Fetches
  <2> QED  BY <2>1, <2>4, <2>5, <2>6 DEF ChecksFit, PageIsOfItsAddress, Navigating
<1>10. CASE NavFails
  <2>1. Navigating /\ nav' = Fetch("load", nav.address) /\ UNCHANGED <<loc, page>>
    BY <1>10 DEF NavFails
  <2>2. check = NoFetch  BY <2>1 DEF ChecksFit
  <2>3. check' \in {Fetch("status", loc), NoFetch}  BY <1>10, <2>2, Zenon DEF NavFails
  <2>4. "address" \in DOMAIN check' /\ (check' # NoFetch => check'.address = loc)
    BY <1>f, <2>3, Fetches
  <2>5. nav'.phase = "load" /\ "phase" \in DOMAIN nav'  BY <2>1, Fetches
  <2> QED
    BY <2>1, <2>4, <2>5 DEF ChecksFit, PageIsOfItsAddress, Navigating, Loading
<1>11. CASE LoadReads
  <2>1. UNCHANGED <<loc, page, check>> /\ nav.phase = "load"  BY <1>11 DEF LoadReads
  <2>2. PICK d : nav' = [nav EXCEPT !.phase = "loading", !.data = d]
    BY <1>11, Zenon DEF LoadReads
  <2>3. nav'.phase = "loading" /\ "phase" \in DOMAIN nav'  BY <2>2
  <2> QED  BY <2>1, <2>3 DEF ChecksFit, PageIsOfItsAddress, Navigating, Loading
<1>12. CASE LoadShows
  <2>1. nav' = NoFetch /\ loc' = nav.address  BY <1>12 DEF LoadShows
  <2>2. check' \in {Fetch("status", loc'), NoFetch}  BY <1>12, Zenon DEF LoadShows
  <2>3. page'.address = nav.address /\ "address" \in DOMAIN page'
    BY <1>12, Documents DEF LoadShows
  <2>4. "address" \in DOMAIN check' /\ (check' # NoFetch => check'.address = loc')
    BY <1>f, <2>2, Fetches
  <2>5. nav'.phase = "none" /\ "phase" \in DOMAIN nav'  BY <2>1, Fetches
  <2> QED  BY <2>1, <2>3, <2>4, <2>5 DEF ChecksFit, PageIsOfItsAddress, Navigating
<1>13. CASE Decides
  <2>1. UNCHANGED <<loc, page, check>> /\ ~Navigating  BY <1>13 DEF Decides
  <2>2. \E a : nav' = Fetch("load", a)  BY <1>13, Zenon DEF Decides
  <2>3. nav'.phase = "load" /\ "phase" \in DOMAIN nav'  BY <2>2, Fetches
  <2> QED  BY <2>1, <2>3 DEF ChecksFit, PageIsOfItsAddress, Navigating, Loading
<1>14. CASE Shows
  <2>1. UNCHANGED <<loc, page, nav>>  BY <1>14 DEF Shows
  <2>2. check' = check \/ (~Navigating /\ check' = Fetch("status", loc))
    BY <1>14, Zenon DEF Shows
  <2>3. CASE check' = check  BY <1>1, <2>1, <2>3
  <2>4. CASE ~Navigating /\ check' = Fetch("status", loc)
    <3>1. check'.address = loc /\ "address" \in DOMAIN check'  BY <2>4, Fetches
    <3> QED  BY <2>1, <2>4, <3>1, CheckOnly
  <2> QED  BY <2>2, <2>3, <2>4
<1>15. CASE \/ DecidedElsewhere \/ Hides \/ UNCHANGED vars
            \/ \E c \in Enqueued : Message(c)
            \/ \E i \in Items : Expires(i) \/ MaintenancePrunes(i)
  BY <1>1, <1>15
     DEF DecidedElsewhere, Hides, Message, Expires, MaintenancePrunes, vars, tab
<1> QED
  BY <1>2, <1>3, <1>4, <1>5, <1>6, <1>7, <1>8, <1>9, <1>10, <1>11, <1>12, <1>13, <1>14,
     <1>15, Zenon DEF Next, CheckStep, NavStep, LoadStep

\* dashboard.js shows an answer only on the page it was asked for: whatever a check, a
\* navigation and a load overtake, the page of an idle tab is that of its address.
THEOREM PagesAreOfTheirAddresses == Spec => []PageIsOfItsAddress
<1>1. Init => PageInv
  <2> SUFFICES ASSUME Init PROVE PageInv  OBVIOUS
  <2>1. loc = List /\ check = NoFetch /\ nav = NoFetch  BY DEF Init
  <2>2. page.address = List /\ "address" \in DOMAIN page  BY Documents DEF Init
  <2> QED
    BY <2>1, <2>2, Fetches
       DEF PageInv, HasFields, ChecksFit, PageIsOfItsAddress, Navigating
<1>2. PageInv => PageIsOfItsAddress  BY DEF PageInv
<1> QED  BY <1>1, <1>2, PageKept, PTL DEF Spec
=============================================================================

------------------------------- MODULE LivePage -------------------------------
(***************************************************************************)
(* One tab of the Dashboard on the reviews of one sender: dashboard.js     *)
(* with its checks and navigations, the pages of dashboard_http.py, which  *)
(* read the record and its fingerprint in two calls to the core, and the   *)
(* queue that changes meanwhile.  The script runs to its next await in one *)
(* step.  A load is the browser's own navigation; it ends before the owner *)
(* does anything else in the tab.                                          *)
(***************************************************************************)
EXTENDS ReviewQueue

VARIABLES
  queue,    \* the sender's rows of review_queue
  loc,      \* location
  page,     \* the document shown
  marked,   \* the change notice is shown and the buttons are disabled
  check,    \* the check of refreshController
  nav,      \* the navigation of navigationController, or the browser's load
  visible

tab == <<loc, page, marked, check, nav, visible>>
vars == <<queue, tab>>

List == [kind |-> "list", id |-> 0]
Addresses == {List} \cup [kind : {"detail", "confirm"}, id : Items]

\* What a page shows of the queue.
Seen == [status : {"hidden", "none", "pending", "expired", "decided", "gone"}, count : 0 .. MaxCount]
Hidden == [status |-> "hidden", count |-> 0]
Content(a) ==
  [i \in Items |->
     IF (a.kind = "list" /\ queue[i].status = "pending") \/ i = a.id
     THEN [status |-> queue[i].status, count |-> queue[i].count] ELSE Hidden]

\* Mutant: the fingerprint of a page leaves the number of messages out.
FingerprintOfStatus(c) == [i \in Items |-> [c[i] EXCEPT !.count = 0]]
\* page_version
Fingerprint(c) == c

\* live: data-live-refresh, "replace", "notice" or absent.
Live(a) == CASE a.kind = "list" -> "replace" [] a.kind = "detail" -> "notice" [] OTHER -> "off"

Document(a, data, version) == [address |-> a, live |-> Live(a), data |-> data, version |-> version]
Blank == [i \in Items |-> Hidden]
ErrorPage(a) == [address |-> a, live |-> "error", data |-> Blank, version |-> Blank]

NoFetch == [phase |-> "none", address |-> List, force |-> FALSE, data |-> Blank]
Fetch(phase, a) == [NoFetch EXCEPT !.phase = phase, !.address = a]

TypeOK ==
  /\ queue \in [Items -> Item]
  /\ loc \in Addresses
  /\ page \in [address : Addresses, live : {"replace", "notice", "off", "error"},
               data : [Items -> Seen], version : [Items -> Seen]]
  /\ marked \in BOOLEAN /\ visible \in BOOLEAN
  /\ check \in [phase : {"none", "status", "data", "version"}, address : Addresses, force : BOOLEAN, data : [Items -> Seen]]
  /\ nav \in [phase : {"none", "data", "version", "load", "loading"}, address : Addresses,
              force : {FALSE}, data : [Items -> Seen]]

Init ==
  /\ queue \in {[i \in Items |-> NoItem],
               [i \in Items |-> IF i = 1 THEN NewItem("would_quarantine") ELSE NoItem]}
  /\ loc = List
  /\ page = Document(List, Content(List), Fingerprint(Content(List)))
  /\ marked = FALSE
  /\ check = NoFetch /\ nav = NoFetch
  /\ visible = TRUE

HasLive(p) == p.live \in {"replace", "notice"}
Navigating == nav.phase \in {"data", "version"}
Loading == nav.phase \in {"load", "loading"}

\* The pages of a review exist only while it is pending and has not expired.
Served(a) == IF a.kind = "list" THEN TRUE ELSE queue[a.id].status = "pending"

-----------------------------------------------------------------------------
(* The queue *)

Message(c) ==
  /\ CanEnqueue(queue)
  /\ queue' = EnqueueReview(queue, c)
  /\ UNCHANGED tab

\* A decision made in another way: a command, an allowance, another tab.
DecidedElsewhere ==
  /\ Open(queue) # {}
  /\ queue' = DecideSenderReviews(queue)
  /\ UNCHANGED tab

Expires(i) ==
  /\ queue[i].status = "pending"
  /\ queue' = Expire(queue, i)
  /\ UNCHANGED tab

MaintenancePrunes(i) ==
  /\ queue[i].status = "expired"
  /\ queue' = Prune(queue, i)
  /\ UNCHANGED tab

-----------------------------------------------------------------------------
(* check *)

CanCheck(force) ==
  /\ HasLive(page)
  /\ check = NoFetch /\ ~Navigating
  /\ force \/ visible

Checking(force) == [Fetch("status", loc) EXCEPT !.force = force]

\* The interval timer; or the refresh button of a page that is not out of date.
Polls ==
  /\ CanCheck(FALSE)
  /\ check' = Checking(FALSE)
  /\ UNCHANGED <<queue, loc, page, marked, nav, visible>>

RefreshChecks ==
  /\ ~Loading /\ CanCheck(TRUE)
  /\ ~(page.live = "notice" /\ marked)
  /\ check' = Checking(TRUE)
  /\ UNCHANGED <<queue, loc, page, marked, nav, visible>>

\* The fingerprint arrives: a list is fetched anew, a detail page marked.
StatusArrives ==
  /\ check.phase = "status"
  /\ LET version == Fingerprint(Content(check.address))
         changed == version # page.version
     IN \/ /\ page.live = "replace" /\ (check.force \/ changed)
           /\ check' = Fetch("data", loc)
           /\ UNCHANGED <<page, marked>>
        \/ /\ ~(page.live = "replace" /\ (check.force \/ changed))
           /\ check' = NoFetch
           /\ marked' = (marked \/ (page.live = "notice" /\ changed))
           /\ page' = IF page.live = "notice" /\ changed
                      THEN [page EXCEPT !.version = version] ELSE page
  /\ UNCHANGED <<queue, loc, nav, visible>>

\* The list is read, then its fingerprint; the answer replaces the live regions.
CheckReads ==
  /\ check.phase = "data" /\ Served(check.address)
  /\ check' = [check EXCEPT !.phase = "version", !.data = Content(check.address)]
  /\ UNCHANGED <<queue, loc, page, marked, nav, visible>>

CheckReplaces ==
  /\ check.phase = "version"
  /\ page' = Document(check.address, check.data, Fingerprint(Content(check.address)))
  /\ check' = NoFetch
  /\ UNCHANGED <<queue, loc, marked, nav, visible>>

\* Four seconds are over, or a request fails: "Disconnected".
CheckFails ==
  /\ check # NoFetch
  /\ check' = NoFetch
  /\ UNCHANGED <<queue, loc, page, marked, nav, visible>>

-----------------------------------------------------------------------------
(* navigate *)

\* Mutant: the answer of an aborted check is still used.
AbortedGoesOn(c) == c
Aborted(c) == NoFetch

\* A link; or, with pop, the back button or a refresh: the address changes first.
Navigates(a, pop) ==
  /\ ~Loading
  /\ nav' = Fetch("data", a)
  /\ check' = Aborted(check)
  /\ loc' = IF pop THEN a ELSE loc
  /\ UNCHANGED <<queue, page, marked, visible>>

NavReads ==
  /\ nav.phase = "data" /\ Served(nav.address)
  /\ nav' = [nav EXCEPT !.phase = "version", !.data = Content(nav.address)]
  /\ UNCHANGED <<queue, loc, page, marked, check, visible>>

\* schedule(): a visible page with live updates checks at once.
Scheduled(a) ==
  check' = IF Live(a) \in {"replace", "notice"} /\ visible /\ check = NoFetch THEN Fetch("status", a) ELSE check

NavShows ==
  /\ nav.phase = "version"
  /\ page' = Document(nav.address, nav.data, Fingerprint(Content(nav.address)))
  /\ loc' = nav.address
  /\ marked' = FALSE
  /\ nav' = NoFetch
  /\ Scheduled(nav.address)
  /\ UNCHANGED <<queue, visible>>

\* The fetch fails or finds an error page: location.assign(url), and the old page
\* goes on until the new one is there.
NavFails ==
  /\ Navigating
  /\ nav' = Fetch("load", nav.address)
  /\ check' = IF HasLive(page) /\ visible THEN Fetch("status", loc) ELSE check
  /\ UNCHANGED <<queue, loc, page, marked, visible>>

-----------------------------------------------------------------------------
(* The browser's own navigation *)

LoadReads ==
  /\ nav.phase = "load" /\ Served(nav.address)
  /\ nav' = [nav EXCEPT !.phase = "loading", !.data = Content(nav.address)]
  /\ UNCHANGED <<queue, loc, page, marked, check, visible>>

\* A new document: nothing of the old one's script is left.
LoadShows ==
  /\ \/ /\ nav.phase = "loading"
        /\ page' = Document(nav.address, nav.data, Fingerprint(Content(nav.address)))
     \/ /\ nav.phase = "load" /\ ~Served(nav.address)
        /\ page' = ErrorPage(nav.address)
  /\ loc' = nav.address
  /\ marked' = FALSE
  /\ nav' = NoFetch
  /\ check' = IF HasLive(page') /\ visible THEN Fetch("status", loc') ELSE NoFetch
  /\ UNCHANGED <<queue, visible>>

\* A form of the page is submitted; the answer leads to the list, or to an error page
\* when the review is decided already.
Decides ==
  /\ page.address.kind \in {"detail", "confirm"} /\ page.live # "error"
  /\ ~Navigating /\ ~Loading /\ ~marked
  /\ IF queue[page.address.id].status = "pending"
     THEN /\ queue' = DecideSenderReviews(queue)
          /\ nav' = Fetch("load", List)
     ELSE /\ nav' = Fetch("load", page.address)
          /\ UNCHANGED queue
  /\ UNCHANGED <<loc, page, marked, check, visible>>

Hides ==
  /\ visible
  /\ visible' = FALSE
  /\ UNCHANGED <<queue, loc, page, marked, check, nav>>

Shows ==
  /\ ~visible
  /\ visible' = TRUE
  /\ check' = IF HasLive(page) /\ check = NoFetch /\ ~Navigating
              THEN Fetch("status", loc) ELSE check
  /\ UNCHANGED <<queue, loc, page, marked, nav>>

-----------------------------------------------------------------------------
CheckStep == StatusArrives \/ CheckReads \/ CheckReplaces
NavStep == NavReads \/ NavShows
LoadStep == LoadReads \/ LoadShows

Next ==
  \/ \E c \in Enqueued : Message(c)
  \/ DecidedElsewhere
  \/ \E i \in Items : Expires(i) \/ MaintenancePrunes(i)
  \/ Polls \/ RefreshChecks \/ CheckStep \/ CheckFails
  \/ \E a \in Addresses : Navigates(a, FALSE) \/ Navigates(a, TRUE)
  \/ NavStep \/ NavFails
  \/ LoadStep
  \/ Decides
  \/ Hides \/ Shows

Spec == Init /\ [][Next]_vars

\* The interval timer of a visible page fires; a request that is made again and again
\* is answered some time; a navigation that is not ends by its time limit, and a load
\* ends.
FairSpec ==
  /\ Spec
  /\ WF_vars(Polls)
  /\ SF_vars(StatusArrives) /\ SF_vars(CheckReads) /\ SF_vars(CheckReplaces)
  /\ SF_vars(NavReads) /\ SF_vars(NavShows)
  /\ WF_vars(NavFails) /\ WF_vars(LoadStep)

-----------------------------------------------------------------------------
\* The page shown is the one the address names, so the checks watch the record whose
\* controls are on the screen: no answer to a check or to a navigation that was
\* overtaken ends up on another page.
PageIsOfItsAddress == ~Navigating /\ ~Loading => page.address = loc

\* The classification and the signals on a review's page describe the message its
\* reference leads to, however many messages were merged into the row, and also when an
\* expired row is taken up again.
EvidenceIsOfItsMessage ==
  \A i \in Items : IsOpen(queue[i]) => queue[i].reference = queue[i].classification

\* The record was not changed between the two calls that made the page.
ReadTogether == page.version = Fingerprint(page.data)

Unnoticed ==
  /\ visible /\ HasLive(page) /\ ~marked
  /\ ReadTogether /\ page.data # Content(page.address)

\* "Detail pages instead disable stale decision controls", and lists are replaced, "when
\* [their] fingerprint changes" (docs/architecture.md): a visible page never shows for
\* ever, with its controls enabled, a record that has changed since, provided it was
\* read together with its fingerprint.
StaleIsNoticed == []<>~Unnoticed
=============================================================================

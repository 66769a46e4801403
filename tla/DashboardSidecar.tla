--------------------------- MODULE DashboardSidecar ---------------------------
(***************************************************************************)
(* The Dashboard's own process: its credentials, the HTTP requests of the  *)
(* browsers, the RPC calls to the core and the life of the process.  A     *)
(* request is split where its coroutine awaits the RPC call; between two   *)
(* awaits it is atomic.  A request that is still being read has no state:  *)
(* it may carry any address at all and any cookie or login link its        *)
(* browser was ever given, so it also stands for one sent long before.     *)
(*                                                                         *)
(* The random tokens are numbers handed out in order: the login token, the *)
(* capability path and the session token of one rotation share a number    *)
(* and are never compared with each other.  0 stands for no token.  The    *)
(* session's last use and the sidecar's last activity are always set       *)
(* together, so quiet is the time since both.                              *)
(***************************************************************************)
EXTENDS Integers

CONSTANTS
  Browsers, NoBrowser,
  Requests,        \* HTTP connections that wait for the core at the same time
  SidecarIdle,     \* DEFAULT_IDLE_SECONDS
  SessionIdle,     \* DASHBOARD_SESSION_IDLE_SECONDS
  SessionLife,     \* DASHBOARD_SESSION_ABSOLUTE_SECONDS
  MaxTokens,       \* bound: rotations of the credentials
  MaxDecisions,    \* bound: forms submitted
  MaxCoreCrashes   \* bound: times the core dies

ASSUME SidecarAssumption ==
  /\ NoBrowser \notin Browsers
  /\ SidecarIdle \in Nat \ {0} /\ SessionIdle \in Nat \ {0}
  /\ SessionLife \in Nat \ {0}
  /\ MaxTokens \in Nat \ {0} /\ MaxDecisions \in Nat /\ MaxCoreCrashes \in Nat

VARIABLES
  proc,       \* off, serving, or stopping: DashboardHttpServer.stop under way
  shutdown,   \* DashboardSidecar._shutdown
  creds,      \* DashboardCredentials
  issued,     \* tokens handed out so far
  quiet,      \* time since the last authenticated activity
  age,        \* time since the login
  printed,    \* login tokens that were written to the token file
  jar,        \* session cookies each browser was ever sent
  holder,     \* history: the browser of the last accepted login
  logins,     \* history: how often each login token was accepted
  conn,       \* the HTTP requests that wait for the core
  core, coreCrashes,
  running,    \* writes the core has received
  applied,    \* how often each decision was applied
  answer      \* what the browser was told of it

session == <<creds, issued, age, printed, jar, holder, logins>>
process == <<proc, shutdown>>
theCore == <<core, coreCrashes, running, applied>>
vars == <<process, session, quiet, conn, theCore, answer>>

Tokens == 0 .. MaxTokens
Decisions == 1 .. MaxDecisions
MaxQuiet == IF SessionIdle > SidecarIdle THEN SessionIdle ELSE SidecarIdle

Credentials == [access : Tokens, capability : Tokens, session : Tokens]
NoCredentials == [access |-> 0, capability |-> 0, session |-> 0]

\* version: the second call of a page with live updates, for its fingerprint.
Conn == [kind : {"none", "read", "version", "write"}, browser : Browsers \cup {NoBrowser},
         attempt : 0 .. 2, decision : 0 .. MaxDecisions]
NoConn == [kind |-> "none", browser |-> NoBrowser, attempt |-> 0, decision |-> 0]

\* One execution of a write in the core: under way, or its result on the socket.
Execution == [decision : Decisions, try : 1 .. 2,
              result : {"none", "ok", "refused", "failed"}]

TypeOK ==
  /\ proc \in {"off", "serving", "stopping"} /\ shutdown \in BOOLEAN
  /\ creds \in Credentials /\ issued \in Tokens
  /\ quiet \in 0 .. MaxQuiet /\ age \in 0 .. SessionLife
  /\ printed \subseteq Tokens
  /\ jar \in [Browsers -> SUBSET Tokens]
  /\ holder \in Browsers \cup {NoBrowser} /\ logins \in [Tokens -> Nat]
  /\ conn \in [Requests -> Conn]
  /\ core \in BOOLEAN /\ coreCrashes \in 0 .. MaxCoreCrashes
  /\ running \subseteq Execution
  /\ applied \in [Decisions -> Nat]
  /\ answer \in [Decisions -> {"none", "done", "refused", "unknown"}]

Init ==
  /\ proc = "off" /\ shutdown = FALSE
  /\ creds = NoCredentials /\ issued = 0
  /\ quiet = 0 /\ age = 0
  /\ printed = {}
  /\ jar = [b \in Browsers |-> {}]
  /\ holder = NoBrowser /\ logins = [t \in Tokens |-> 0]
  /\ conn = [r \in Requests |-> NoConn]
  /\ core = TRUE /\ coreCrashes = 0
  /\ running = {}
  /\ applied = [d \in Decisions |-> 0]
  /\ answer = [d \in Decisions |-> "none"]

-----------------------------------------------------------------------------
(* DashboardCredentials *)

\* Mutant: the login token is not consumed.
StartSessionKeepsToken(c, g) == [c EXCEPT !.capability = g, !.session = g]
StartSession(c, g) == [access |-> g, capability |-> g, session |-> g]
InvalidateSession(c, g) == [access |-> g, capability |-> g, session |-> 0]

AcceptsLogin(token) == token = creds.access

\* Mutant: a session is open, whoever asks.
HasAnySession(cookie) ==
  creds.session # 0 /\ quiet < SessionIdle /\ age < SessionLife
HasValidSession(cookie) ==
  /\ creds.session # 0 /\ cookie = creds.session
  /\ quiet < SessionIdle
  /\ age < SessionLife

\* logical_path and has_valid_session, for an address with capability path cap.
Authorised(b, cap) ==
  /\ cap = creds.capability
  /\ \E cookie \in jar[b] \cup {0} : HasValidSession(cookie)

\* write_access_token; a failed write leaves the old file.
WriteAccessToken(token) == printed' = printed \cup {token}
WriteFails == UNCHANGED printed

-----------------------------------------------------------------------------
(* The process *)

\* DashboardSidecar.run up to its loop: the core must answer first.
Start ==
  /\ proc = "off"
  /\ core
  /\ issued < MaxTokens
  /\ proc' = "serving" /\ shutdown' = FALSE
  /\ issued' = issued + 1
  /\ creds' = [access |-> issued', capability |-> issued', session |-> 0]
  /\ WriteAccessToken(issued')
  /\ quiet' = 0 /\ age' = 0
  /\ UNCHANGED <<jar, holder, logins, conn, theCore, answer>>

\* The loop finds the idle time over; or a signal arrives.
IdleTimeout ==
  /\ proc = "serving" /\ ~shutdown
  /\ quiet >= SidecarIdle
  /\ shutdown' = TRUE
  /\ UNCHANGED <<proc, session, quiet, conn, theCore, answer>>

Signal ==
  /\ proc = "serving" /\ ~shutdown
  /\ shutdown' = TRUE
  /\ UNCHANGED <<proc, session, quiet, conn, theCore, answer>>

\* stop(): no more connections; those still being read are cancelled unanswered.
StopBegins ==
  /\ proc = "serving" /\ shutdown
  /\ proc' = "stopping"
  /\ UNCHANGED <<shutdown, session, quiet, conn, theCore, answer>>

Gone ==
  /\ proc' = "off" /\ shutdown' = FALSE
  /\ creds' = NoCredentials /\ holder' = NoBrowser
  /\ quiet' = 0 /\ age' = 0
  /\ UNCHANGED <<issued, printed, jar, logins, theCore, answer>>

\* ... and once the others have ended the socket and the token file go.
StopEnds ==
  /\ proc = "stopping"
  /\ \A r \in Requests : conn[r] = NoConn
  /\ Gone
  /\ UNCHANGED conn

Killed ==
  /\ proc # "off"
  /\ Gone
  /\ conn' = [r \in Requests |-> NoConn]

-----------------------------------------------------------------------------
(* _dispatch: a request has been read *)

\* 400, 404, 405, a form with a wrong token: nothing changes, also not the time.
\* Mutant: any request counts as activity.
RejectedCounts == quiet' = 0
Rejected == quiet' = quiet

Rejects ==
  /\ proc = "serving"
  /\ Rejected
  /\ UNCHANGED <<process, session, conn, theCore, answer>>

\* The answer reaches the browser or is lost.
Sent(b, cookie) == jar' \in {jar, [jar EXCEPT ![b] = @ \cup {cookie}]}

\* The token is consumed before the file is written; when that fails the browser
\* gets "Request Failed" and no cookie, and the session is open all the same.
LogsIn(b, token) ==
  /\ proc = "serving"
  /\ AcceptsLogin(token)
  /\ issued < MaxTokens
  /\ issued' = issued + 1
  /\ creds' = StartSession(creds, issued')
  /\ quiet' = 0 /\ age' = 0
  /\ holder' = b
  /\ logins' = [logins EXCEPT ![token] = @ + 1]
  /\ \/ WriteAccessToken(creds'.access) /\ Sent(b, creds'.session)
     \/ WriteFails /\ UNCHANGED jar
  /\ UNCHANGED <<process, conn, theCore, answer>>

\* The credentials go first; only when the file is written is the process told
\* to stop, right after this step.
LogsOut(b, cap) ==
  /\ proc = "serving"
  /\ Authorised(b, cap)
  /\ issued < MaxTokens
  /\ issued' = issued + 1
  /\ creds' = InvalidateSession(creds, issued')
  /\ holder' = NoBrowser
  /\ \/ WriteAccessToken(creds'.access) /\ shutdown' = TRUE
     \/ WriteFails /\ UNCHANGED shutdown
  /\ UNCHANGED <<proc, quiet, age, jar, logins, conn, theCore, answer>>

\* _dispatch_routes reaches the handler's first RPC call.
Called(r, b, kind, d) ==
  conn' = [conn EXCEPT ![r] = [kind |-> kind, browser |-> b, attempt |-> 1, decision |-> d]]

EntersRead(r, b, cap) ==
  /\ proc = "serving" /\ conn[r] = NoConn
  /\ Authorised(b, cap)
  /\ Called(r, b, "read", 0)
  /\ UNCHANGED <<process, session, quiet, theCore, answer>>

\* The RPC request: a core that is up receives it.
Send(d, try) ==
  running' = IF core THEN running \cup {[decision |-> d, try |-> try, result |-> "none"]}
             ELSE running

\* The form of a decision that was not submitted before.
EntersWrite(r, b, cap, d) ==
  /\ proc = "serving" /\ conn[r] = NoConn
  /\ Authorised(b, cap)
  /\ answer[d] = "none" /\ applied[d] = 0
  /\ \A q \in Requests : conn[q].decision # d
  /\ \A x \in running : x.decision # d
  /\ Called(r, b, "write", d)
  /\ Send(d, 1)
  /\ UNCHANGED <<process, session, quiet, core, coreCrashes, applied, answer>>

-----------------------------------------------------------------------------
(* DashboardRpcClient.request *)

\* Mutant: every call is tried twice.
AttemptsAlwaysTwo(kind) == 2
Attempts(kind) == IF kind = "write" THEN 1 ELSE 2

Waits(r) == conn[r] # NoConn

\* The connection is refused or breaks, or the call times out.
\* Mutant: the call has no time limit.
CallBreaks(r) == ~core
CallFails(r) == TRUE

CallAgain(r) ==
  /\ Waits(r) /\ CallFails(r)
  /\ conn[r].attempt < Attempts(conn[r].kind)
  /\ conn' = [conn EXCEPT ![r].attempt = @ + 1]
  /\ IF conn[r].kind = "write" THEN Send(conn[r].decision, conn[r].attempt + 1)
                               ELSE UNCHANGED running
  /\ UNCHANGED <<process, session, quiet, core, coreCrashes, applied, answer>>

\* The handler's answer after its calls: one below 400 counts as activity, of
\* whatever session is open by now.
Responds(r, outcome) ==
  /\ conn' = [conn EXCEPT ![r] = NoConn]
  /\ quiet' = IF outcome = "done" THEN 0 ELSE quiet
  /\ answer' = IF conn[r].decision = 0 THEN answer
               ELSE [answer EXCEPT ![conn[r].decision] = outcome]
  /\ UNCHANGED <<process, session>>

\* Mutant: a lost call is reported like a refusal.
UnavailableAsRefused == "refused"
\* _backend_error("core_unavailable"), "Dashboard Core Is Unavailable".
Unavailable == "unknown"

CallGivesUp(r) ==
  /\ Waits(r) /\ CallFails(r)
  /\ conn[r].attempt = Attempts(conn[r].kind)
  /\ Responds(r, Unavailable)
  /\ UNCHANGED theCore

\* A page is complete, or asks for its fingerprint next; an error of the backend ends
\* either call.
ReadReturns(r) ==
  /\ Waits(r) /\ conn[r].kind \in {"read", "version"}
  /\ core
  /\ \/ \E outcome \in {"done", "refused"} : Responds(r, outcome)
     \/ /\ conn[r].kind = "read"
        /\ Called(r, conn[r].browser, "version", 0)
        /\ UNCHANGED <<process, session, quiet, answer>>
  /\ UNCHANGED theCore

\* The result of the current attempt; an earlier one's socket is closed.
WriteReturns(r) ==
  /\ Waits(r) /\ conn[r].kind = "write"
  /\ \E x \in running :
       /\ x.decision = conn[r].decision /\ x.try = conn[r].attempt
       /\ x.result # "none"
       /\ running' = running \ {x}
       /\ Responds(r, CASE x.result = "ok" -> "done"
                        [] x.result = "refused" -> "refused"
                        [] OTHER -> "unknown")
  /\ UNCHANGED <<core, coreCrashes, applied>>

-----------------------------------------------------------------------------
(* DashboardRpcServer: a write is executed whether or not anybody waits for *)
(* its result.  A decision is applied, or refused with nothing changed; an  *)
(* unexpected error leaves open which.                                      *)

Executes(x) ==
  /\ core
  /\ x \in running /\ x.result = "none"
  /\ \E result \in {"ok", "refused", "failed"}, changed \in BOOLEAN :
       /\ result = "ok" => changed
       /\ result = "refused" => ~changed
       /\ applied' = IF changed THEN [applied EXCEPT ![x.decision] = @ + 1] ELSE applied
       /\ running' = (running \ {x}) \cup
            (IF \E r \in Requests : /\ conn[r].decision = x.decision
                                    /\ conn[r].attempt = x.try
             THEN {[x EXCEPT !.result = result]} ELSE {})
  /\ UNCHANGED <<process, session, quiet, conn, core, coreCrashes, answer>>

CoreCrashes ==
  /\ core /\ coreCrashes < MaxCoreCrashes
  /\ core' = FALSE /\ coreCrashes' = coreCrashes + 1
  /\ running' = {x \in running : x.result # "none"}
  /\ UNCHANGED <<process, session, quiet, conn, applied, answer>>

CoreRestarts ==
  /\ ~core
  /\ core' = TRUE
  /\ UNCHANGED <<process, session, quiet, conn, coreCrashes, running, applied, answer>>

-----------------------------------------------------------------------------
Tick ==
  /\ proc = "serving"
  /\ quiet' = IF quiet < MaxQuiet THEN quiet + 1 ELSE quiet
  /\ age' = IF creds.session # 0 /\ age < SessionLife THEN age + 1 ELSE age
  /\ UNCHANGED <<process, creds, issued, printed, jar, holder, logins, conn,
                 theCore, answer>>

CallEnds(r) == CallAgain(r) \/ CallGivesUp(r) \/ ReadReturns(r) \/ WriteReturns(r)
Stops == IdleTimeout \/ StopBegins \/ StopEnds

Next ==
  \/ Start \/ Stops \/ Signal \/ Killed \/ Tick
  \/ Rejects
  \/ \E b \in Browsers :
       \/ \E token \in printed : LogsIn(b, token)
       \/ \E cap \in Tokens :
            \/ LogsOut(b, cap)
            \/ \E r \in Requests : \/ EntersRead(r, b, cap)
                                   \/ \E d \in Decisions : EntersWrite(r, b, cap, d)
  \/ \E r \in Requests : CallEnds(r)
  \/ \E x \in running : Executes(x)
  \/ CoreCrashes \/ CoreRestarts

Spec == Init /\ [][Next]_vars

\* Time passes, the main loop notices it, and every call ends by its result or its
\* time limit.  Nothing is assumed of browsers, of the core, of the operator who
\* starts the sidecar, or of the disk.
FairSpec ==
  /\ Spec
  /\ WF_vars(Tick) /\ WF_vars(Stops)
  /\ \A r \in Requests : WF_vars(CallEnds(r))

-----------------------------------------------------------------------------
\* "Both credentials are required, so copying the URL into another browser does not
\* transfer access" and "a new login or CSRF-protected logout immediately invalidates
\* both credentials" (docs/architecture.md): whatever was copied, was in flight or
\* arrives late, a request is let in only from the browser of the last login, and
\* from none after a logout.
OnlyHolderEnters ==
  [][\A r \in Requests :
       conn[r] = NoConn /\ conn'[r] # NoConn => conn'[r].browser = holder]_vars

\* "The one-time login rotates the access token" (docs/architecture.md): no token
\* opens a second session, however many browsers present it, also when the answer
\* to the first login is lost or writing the next token failed.
LoginWorksOnce == \A t \in Tokens : logins[t] <= 1

\* No decision is carried out twice: reads are tried again after a lost answer,
\* writes are not, because the core may have executed the first attempt or may do so
\* after the browser was told that it is unavailable.
DecisionIsNotRepeated == \A d \in Decisions : applied[d] <= 1

\* A redirect means the decision was applied and a refusal that it was not, nor ever
\* will be ("Telegram Action Failed; Item Was Not Changed"); only "Dashboard Core Is
\* Unavailable" and "Request Failed" leave it open.
AnswerIsTrue ==
  \A d \in Decisions :
    /\ answer[d] = "done" => applied[d] = 1
    /\ answer[d] = "refused" => applied[d] = 0

\* Nobody has the cookie of the session or a link that opens a new one.
Stranded ==
  /\ proc = "serving"
  /\ creds.access \notin printed
  /\ \A b \in Browsers : creds.session = 0 \/ creds.session \notin jar[b]

\* "The sidecar also exits after 10 minutes without authenticated activity; invalid
\* login traffic does not extend its lifetime" (docs/architecture.md): a sidecar that
\* nobody can reach any more, because the token file could not be written, ends.
StrandedSidecarEnds == Stranded ~> proc = "off"

\* Every request that was let in is answered, also when the core hangs or dies and
\* when the sidecar is stopping.
RequestIsAnswered == \A r \in Requests : conn[r] # NoConn ~> conn[r] = NoConn
=============================================================================

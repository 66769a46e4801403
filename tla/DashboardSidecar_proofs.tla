----------------------- MODULE DashboardSidecar_proofs -----------------------
(***************************************************************************)
(* Proofs about the Dashboard's process, for any number of browsers,       *)
(* requests, logins, decisions and crashes of the core.  A login token     *)
(* works once because a token that was accepted is behind the counter and  *)
(* never current again; a decision is applied once because the core never  *)
(* receives it a second time, and whoever is told of it is told last.      *)
(***************************************************************************)
EXTENDS DashboardSidecar, TLAPS

-----------------------------------------------------------------------------
(* Types *)

\* The fields of a request that waits.
LEMMA ConnTypes ==
  /\ NoConn \in Conn
  /\ \A k \in {"read", "version", "write"}, b \in Browsers, d \in 0 .. MaxDecisions :
       [kind |-> k, browser |-> b, attempt |-> 1, decision |-> d] \in Conn
BY SidecarAssumption DEF NoConn, Conn

\* The credentials of a rotation.
LEMMA CredentialTypes ==
  /\ NoCredentials \in Credentials
  /\ \A c, g \in Tokens : [access |-> g, capability |-> g, session |-> c] \in Credentials
BY SidecarAssumption DEF NoCredentials, Credentials, Tokens

\* Clocks and counters start at zero.
LEMMA Zeros == 0 \in Tokens /\ 0 \in 0 .. MaxQuiet /\ 0 \in 0 .. SessionLife
BY SidecarAssumption DEF Tokens, MaxQuiet

\* A request that waits has made its first call, and only a write is called for a
\* decision, and called once.
Calls ==
  \A r \in Requests :
    conn[r] # NoConn =>
      /\ conn[r].attempt # 0 /\ conn[r].kind # "none"
      /\ conn[r].kind = "write" => conn[r].attempt = 1
      /\ conn[r].kind = "write" <=> conn[r].decision # 0

\* The sidecar starts with no token issued and no connection open.
LEMMA InitTypes == Init => TypeOK /\ Calls
<1> SUFFICES ASSUME Init PROVE TypeOK /\ Calls  OBVIOUS
<1>1. conn \in [Requests -> Conn] /\ creds \in Credentials
  BY ConnTypes, CredentialTypes DEF Init
<1>2. coreCrashes \in 0 .. MaxCoreCrashes  BY SidecarAssumption DEF Init
<1>3. /\ logins \in [Tokens -> Nat] /\ applied \in [Decisions -> Nat]
      /\ jar \in [Browsers -> SUBSET Tokens]
      /\ answer \in [Decisions -> {"none", "done", "refused", "unknown"}]
  BY DEF Init
<1>4. TypeOK  BY <1>1, <1>2, <1>3, Zeros DEF Init, TypeOK
<1>5. Calls  BY DEF Init, Calls
<1> QED  BY <1>4, <1>5

\* The process, and what it does with its credentials.
LEMMA ProcessTypes ==
  ASSUME TypeOK,
         \/ Start \/ Stops \/ Signal \/ Killed \/ Tick \/ Rejects
         \/ \E b \in Browsers, token \in printed : LogsIn(b, token)
         \/ \E b \in Browsers, cap \in Tokens : LogsOut(b, cap)
  PROVE  TypeOK'
<1> USE SidecarAssumption
<1>1. CASE Start
  <2>1. issued' \in Tokens /\ creds' \in Credentials
    BY <1>1, CredentialTypes DEF TypeOK, Start, Tokens
  <2> QED
    BY <1>1, <2>1, Zeros DEF TypeOK, Start, theCore, WriteAccessToken
<1>2. CASE IdleTimeout \/ Signal \/ StopBegins
  BY <1>2 DEF TypeOK, IdleTimeout, Signal, StopBegins, session, theCore
<1>3. CASE StopEnds \/ Killed
  <2>1. conn' \in [Requests -> Conn]
    BY <1>3, ConnTypes DEF StopEnds, Killed, TypeOK
  <2>2. Gone  BY <1>3 DEF StopEnds, Killed
  <2> QED
    BY <2>1, <2>2, CredentialTypes, Zeros DEF TypeOK, Gone, theCore
<1>4. CASE Tick
  BY <1>4 DEF TypeOK, Tick, process, theCore, MaxQuiet
<1>5. CASE Rejects
  BY <1>5 DEF TypeOK, Rejects, Rejected, process, session, theCore
<1>6. ASSUME NEW b \in Browsers, NEW token \in printed, LogsIn(b, token) PROVE TypeOK'
  <2>1. issued' \in Tokens /\ creds' \in Credentials /\ token \in Tokens
    BY <1>6, CredentialTypes DEF TypeOK, LogsIn, Tokens, StartSession
  <2>2. creds'.access \in Tokens /\ creds'.session \in Tokens
    BY <2>1 DEF Credentials
  <2>3. printed' \subseteq Tokens /\ jar' \in [Browsers -> SUBSET Tokens]
    BY <1>6, <2>2 DEF LogsIn, WriteAccessToken, WriteFails, Sent, TypeOK
  <2>4. logins' \in [Tokens -> Nat]  BY <1>6, <2>1 DEF LogsIn, TypeOK
  <2> QED
    BY <1>6, <2>1, <2>3, <2>4 DEF TypeOK, LogsIn, process, theCore, MaxQuiet
<1>7. ASSUME NEW b \in Browsers, NEW cap \in Tokens, LogsOut(b, cap) PROVE TypeOK'
  <2>1. issued' \in Tokens /\ creds' \in Credentials
    BY <1>7, CredentialTypes DEF TypeOK, LogsOut, Tokens, InvalidateSession
  <2>2. creds'.access \in Tokens  BY <2>1 DEF Credentials
  <2> QED
    BY <1>7, <2>1, <2>2 DEF TypeOK, LogsOut, WriteAccessToken, WriteFails, theCore
<1> QED  BY <1>1, <1>2, <1>3, <1>4, <1>5, <1>6, <1>7 DEF Stops

\* Requests, calls and their execution.
LEMMA CallTypes ==
  ASSUME TypeOK, Calls,
         \/ \E b \in Browsers, cap \in Tokens, r \in Requests :
              \/ EntersRead(r, b, cap)
              \/ \E d \in Decisions : EntersWrite(r, b, cap, d)
         \/ \E r \in Requests : CallEnds(r)
         \/ \E x \in running : Executes(x)
         \/ CoreCrashes \/ CoreRestarts
  PROVE  TypeOK'
<1> USE SidecarAssumption
<1> USE DEF process, session, theCore
<1>a. \A d \in Decisions, try \in 1 .. 2 : Send(d, try) => running' \subseteq Execution
  BY DEF Send, TypeOK, Execution
<1>b. ASSUME NEW r \in Requests, NEW o \in {"done", "refused", "unknown"}, Responds(r, o)
      PROVE  /\ conn' \in [Requests -> Conn] /\ quiet' \in 0 .. MaxQuiet
             /\ answer' \in [Decisions -> {"none", "done", "refused", "unknown"}]
  <2>1. conn' \in [Requests -> Conn]  BY <1>b, ConnTypes DEF Responds, TypeOK
  <2>2. quiet' \in 0 .. MaxQuiet  BY <1>b DEF Responds, TypeOK, MaxQuiet
  <2>3. conn[r].decision \in 0 .. MaxDecisions  BY DEF TypeOK, Conn
  <2> QED  BY <1>b, <2>1, <2>2, <2>3 DEF Responds, TypeOK, Decisions
<1>1. ASSUME NEW b \in Browsers, NEW cap \in Tokens, NEW r \in Requests,
             EntersRead(r, b, cap)
      PROVE  TypeOK'
  <2>1. conn' \in [Requests -> Conn]
    BY <1>1, ConnTypes DEF EntersRead, Called, TypeOK
  <2> QED  BY <1>1, <2>1 DEF EntersRead, TypeOK
<1>2. ASSUME NEW b \in Browsers, NEW cap \in Tokens, NEW r \in Requests,
             NEW d \in Decisions, EntersWrite(r, b, cap, d)
      PROVE  TypeOK'
  <2>1. conn' \in [Requests -> Conn]
    BY <1>2, ConnTypes DEF EntersWrite, Called, TypeOK, Decisions
  <2>2. running' \subseteq Execution  BY <1>2, <1>a DEF EntersWrite
  <2> QED  BY <1>2, <2>1, <2>2 DEF EntersWrite, TypeOK
<1>3. ASSUME NEW r \in Requests, CallAgain(r) PROVE TypeOK'
  <2>1. conn[r] \in Conn  BY DEF TypeOK
  <2>2. conn[r].attempt + 1 \in 1 .. 2
    BY <1>3, <2>1 DEF CallAgain, Attempts, Conn
  <2>3. conn' \in [Requests -> Conn]
    BY <1>3, <2>1, <2>2 DEF CallAgain, TypeOK, Conn
  <2>4. conn[r].kind # "write"
    BY <1>3, <2>1 DEF CallAgain, Waits, Attempts, Calls
  <2> QED  BY <1>3, <2>3, <2>4 DEF CallAgain, TypeOK
<1>4. ASSUME NEW r \in Requests, CallGivesUp(r) PROVE TypeOK'
  BY <1>4, <1>b DEF CallGivesUp, Unavailable, Responds, TypeOK
<1>5. ASSUME NEW r \in Requests, ReadReturns(r) PROVE TypeOK'
  <2>1. CASE \E o \in {"done", "refused"} : Responds(r, o)
    BY <1>5, <2>1, <1>b DEF ReadReturns, Responds, TypeOK
  <2>2. CASE Called(r, conn[r].browser, "version", 0) /\ UNCHANGED <<quiet, answer>>
    <3>1. conn[r].browser \in Browsers \cup {NoBrowser}  BY DEF TypeOK, Conn
    <3>2. conn' \in [Requests -> Conn]
      BY <2>2, <3>1 DEF Called, TypeOK, Conn
    <3> QED  BY <1>5, <2>2, <3>2 DEF ReadReturns, Responds, TypeOK
  <2> QED  BY <1>5, <2>1, <2>2 DEF ReadReturns
<1>6. ASSUME NEW r \in Requests, WriteReturns(r) PROVE TypeOK'
  BY <1>6, <1>b DEF WriteReturns, Responds, TypeOK
<1>7. ASSUME NEW x \in running, Executes(x) PROVE TypeOK'
  <2>1. x \in Execution /\ x.decision \in Decisions  BY DEF TypeOK, Execution
  <2>2. \A o \in {"ok", "refused", "failed"} : [x EXCEPT !.result = o] \in Execution
    BY <2>1 DEF Execution
  <2>3. running' \subseteq Execution  BY <1>7, <2>2 DEF Executes, TypeOK
  <2>4. applied' \in [Decisions -> Nat]  BY <1>7, <2>1 DEF Executes, TypeOK
  <2> QED  BY <1>7, <2>3, <2>4 DEF Executes, TypeOK
<1>8. CASE CoreCrashes
  <2>1. running' \subseteq Execution  BY <1>8 DEF CoreCrashes, TypeOK
  <2>2. coreCrashes' \in 0 .. MaxCoreCrashes  BY <1>8 DEF CoreCrashes, TypeOK
  <2> QED  BY <1>8, <2>1, <2>2 DEF CoreCrashes, TypeOK
<1>9. CASE CoreRestarts  BY <1>9 DEF CoreRestarts, TypeOK
<1> QED
  BY <1>1, <1>2, <1>3, <1>4, <1>5, <1>6, <1>7, <1>8, <1>9 DEF CallEnds

\* What a step may do to the requests: one enters, from a browser that holds the
\* session, one is called again, or requests end.
LEMMA CallsKept ==
  ASSUME TypeOK, Calls, [Next]_vars
  PROVE  Calls'
<1>a. NoConn.kind = "none"  BY DEF NoConn
<1>1. CASE UNCHANGED conn  BY <1>1 DEF Calls
<1>2. CASE Killed  BY <1>2 DEF Killed, Calls
<1>3. ASSUME NEW r \in Requests, NEW b, NEW d \in 0 .. MaxDecisions,
             NEW k \in {"read", "version", "write"}, Called(r, b, k, d),
             k = "write" <=> d # 0
      PROVE  Calls'
  <2>1. conn'[r] = [kind |-> k, browser |-> b, attempt |-> 1, decision |-> d]
    BY <1>3 DEF Called, TypeOK
  <2>2. \A q \in Requests : q # r => conn'[q] = conn[q]  BY <1>3 DEF Called, TypeOK
  <2> QED  BY <1>3, <2>1, <2>2 DEF Calls
<1>4. ASSUME NEW r \in Requests, CallAgain(r) PROVE Calls'
  <2>1. conn[r] \in Conn /\ conn \in [Requests -> Conn]  BY DEF TypeOK
  <2>2. conn[r].kind # "write"
    BY <1>4, <2>1 DEF CallAgain, Waits, Attempts, Calls
  <2>3. /\ conn'[r].kind = conn[r].kind /\ conn'[r].decision = conn[r].decision
        /\ conn'[r].attempt = conn[r].attempt + 1
    BY <1>4, <2>1 DEF CallAgain, Conn
  <2>4. \A q \in Requests : q # r => conn'[q] = conn[q]  BY <1>4, <2>1 DEF CallAgain
  <2>5. conn[r].attempt \in 0 .. 2  BY <2>1 DEF Conn
  <2> QED  BY <1>4, <2>2, <2>3, <2>4, <2>5 DEF Calls, CallAgain, Waits
<1>5. ASSUME NEW r \in Requests, NEW o, Responds(r, o) PROVE Calls'
  BY <1>5 DEF Responds, Calls, TypeOK
<1>6. ASSUME NEW r \in Requests, CallEnds(r) PROVE Calls'
  BY <1>3, <1>4, <1>5, <1>6, SidecarAssumption
     DEF CallEnds, CallGivesUp, ReadReturns, WriteReturns
<1>7. ASSUME NEW b \in Browsers, NEW cap \in Tokens, NEW r \in Requests,
             EntersRead(r, b, cap) \/ \E d \in Decisions : EntersWrite(r, b, cap, d)
      PROVE  Calls'
  BY <1>3, <1>7, SidecarAssumption DEF EntersRead, EntersWrite, Decisions
<1>8. CASE \/ Start \/ Stops \/ Signal \/ Tick \/ Rejects
           \/ \E b \in Browsers, token \in printed : LogsIn(b, token)
           \/ \E b \in Browsers, cap \in Tokens : LogsOut(b, cap)
           \/ \E x \in running : Executes(x)
           \/ CoreCrashes \/ CoreRestarts \/ UNCHANGED vars
  BY <1>1, <1>8
     DEF Start, Stops, IdleTimeout, StopBegins, StopEnds, Signal, Tick, Rejects, LogsIn,
         LogsOut, Executes, CoreCrashes, CoreRestarts, vars
<1> QED  BY <1>2, <1>6, <1>7, <1>8 DEF Next

\* One case per action.
LEMMA NextTypes == TypeOK /\ Calls /\ [Next]_vars => TypeOK' /\ Calls'
<1> SUFFICES ASSUME TypeOK, Calls, [Next]_vars PROVE TypeOK' /\ Calls'  OBVIOUS
<1>1. CASE UNCHANGED vars
  BY <1>1, CallsKept DEF TypeOK, vars, process, session, theCore
<1> QED  BY <1>1, ProcessTypes, CallTypes, CallsKept DEF Next

\* Every variable of the sidecar keeps its type, the clocks stay within their limits
\* and DashboardRpcClient.request makes one call for a write.
LEMMA SidecarTypes == Spec => [](TypeOK /\ Calls)
BY InitTypes, NextTypes, PTL DEF Spec

-----------------------------------------------------------------------------
(* Logins *)

\* A token that was accepted, or that nobody has, is not the current one; the cookie
\* of the open session was sent to nobody but the browser that logged in.
LoginInv ==
  /\ printed \subseteq 1 .. issued
  /\ creds.access \in 0 .. issued
  /\ \A t \in Tokens :
       /\ logins[t] \in {0, 1}
       /\ t > issued \/ t = 0 \/ t = creds.access => logins[t] = 0
  /\ \A b \in Browsers : /\ jar[b] \subseteq 1 .. issued
                         /\ creds.session \in jar[b] => b = holder

\* Login: one case per action that touches a token or a session.
LEMMA LoginKept ==
  ASSUME TypeOK, LoginInv, [Next]_vars
  PROVE  LoginInv'
<1>a. issued \in Nat /\ MaxTokens \in Nat
  BY SidecarAssumption DEF TypeOK, Tokens
<1>b. printed \subseteq 1 .. issued + 1 /\ printed \cup {issued + 1} \subseteq 1 .. issued + 1
  BY <1>a DEF LoginInv
<1>1. ASSUME UNCHANGED session PROVE LoginInv'
  BY <1>1 DEF LoginInv, session
<1>2. CASE Start
  <2>1. /\ issued' = issued + 1 /\ creds'.access = issued' /\ creds'.session = 0
        /\ printed' = printed \cup {issued'} /\ UNCHANGED <<jar, holder, logins>>
    BY <1>2 DEF Start, WriteAccessToken
  <2> QED  BY <1>a, <2>1 DEF LoginInv, Tokens
<1>3. CASE Gone
  <2>1. creds'.access = 0 /\ creds'.session = 0 /\ UNCHANGED <<issued, printed, jar, logins>>
    BY <1>3 DEF Gone, NoCredentials
  <2> QED  BY <1>a, <2>1 DEF LoginInv, Tokens
<1>4. CASE Tick  BY <1>4 DEF Tick, LoginInv
<1>5. ASSUME NEW b \in Browsers, NEW token \in printed, LogsIn(b, token) PROVE LoginInv'
  <2>1. /\ issued' = issued + 1 /\ creds'.access = issued' /\ creds'.session = issued'
        /\ token = creds.access /\ holder' = b
        /\ logins' = [logins EXCEPT ![token] = @ + 1]
    BY <1>5 DEF LogsIn, StartSession, AcceptsLogin
  <2>2. printed' \subseteq 1 .. issued'
    <3>1. printed' = printed \/ printed' = printed \cup {issued'}
      BY <1>5, <2>1 DEF LogsIn, WriteAccessToken, WriteFails
    <3> QED  BY <1>b, <2>1, <3>1
  <2>3. jar' = jar \/ jar' = [jar EXCEPT ![b] = @ \cup {issued'}]
    BY <1>5, <2>1 DEF LogsIn, Sent
  <2>4. ASSUME NEW c \in Browsers
        PROVE  /\ jar'[c] \subseteq 1 .. issued'
               /\ issued' \in jar'[c] => c = b
    <3>1. jar[c] \subseteq 1 .. issued /\ issued' \notin jar[c]
      BY <1>a, <2>1 DEF LoginInv
    <3>2. jar'[c] = jar[c] \/ (c = b /\ jar'[c] = jar[c] \cup {issued'})
      BY <2>3 DEF TypeOK
    <3> QED  BY <1>a, <2>1, <3>1, <3>2
  <2>5. ASSUME NEW t \in Tokens
        PROVE  /\ logins'[t] \in {0, 1}
               /\ t > issued' \/ t = 0 \/ t = issued' => logins'[t] = 0
    <3>1. logins[token] = 0 /\ token \in 1 .. issued /\ token \in Tokens
      BY <1>5, <2>1 DEF LoginInv, TypeOK
    <3>2. logins'[t] = IF t = token THEN 1 ELSE logins[t]
      BY <2>1, <3>1 DEF TypeOK
    <3>3. t \in Nat  BY DEF Tokens
    <3> QED  BY <1>a, <2>1, <3>1, <3>2, <3>3 DEF LoginInv
  <2> QED  BY <1>a, <2>1, <2>2, <2>4, <2>5 DEF LoginInv
<1>6. ASSUME NEW b \in Browsers, NEW cap \in Tokens, LogsOut(b, cap) PROVE LoginInv'
  <2>1. /\ issued' = issued + 1 /\ creds'.access = issued' /\ creds'.session = 0
        /\ UNCHANGED <<jar, logins>>
        /\ printed' = printed \cup {issued'} \/ printed' = printed
    BY <1>6 DEF LogsOut, InvalidateSession, WriteAccessToken, WriteFails
  <2>2. printed' \subseteq 1 .. issued'  BY <1>b, <2>1
  <2>3. \A c \in Browsers : jar'[c] \subseteq 1 .. issued' /\ 0 \notin jar'[c]
    BY <1>a, <2>1 DEF LoginInv
  <2>4. ASSUME NEW t \in Tokens
        PROVE  /\ logins'[t] \in {0, 1}
               /\ t > issued' \/ t = 0 \/ t = issued' => logins'[t] = 0
    BY <1>a, <2>1 DEF LoginInv, Tokens
  <2> QED  BY <1>a, <2>1, <2>2, <2>3, <2>4 DEF LoginInv
<1>7. CASE \/ IdleTimeout \/ StopBegins \/ Signal \/ Rejects
           \/ \E b \in Browsers, cap \in Tokens, r \in Requests :
                \/ EntersRead(r, b, cap)
                \/ \E d \in Decisions : EntersWrite(r, b, cap, d)
           \/ \E r \in Requests : CallEnds(r)
           \/ \E x \in running : Executes(x)
           \/ CoreCrashes \/ CoreRestarts \/ UNCHANGED vars
  BY <1>1, <1>7
     DEF IdleTimeout, StopBegins, Signal, Rejects, EntersRead, EntersWrite, CallEnds,
         CallAgain, CallGivesUp, ReadReturns, WriteReturns, Responds, Executes,
         CoreCrashes, CoreRestarts, vars
<1> QED
  BY <1>2, <1>3, <1>4, <1>5, <1>6, <1>7 DEF Next, Stops, StopEnds, Killed

\* The invariant about logins holds.
LEMMA LoginInvariant == Spec => []LoginInv
<1>1. Init => LoginInv
  <2> SUFFICES ASSUME Init PROVE LoginInv  OBVIOUS
  <2>1. creds.access = 0 /\ creds.session = 0  BY DEF Init, NoCredentials
  <2> QED  BY <2>1 DEF Init, LoginInv, Tokens
<1> QED  BY <1>1, LoginKept, SidecarTypes, PTL DEF Spec

\* start_session consumes the token before anything can fail: no token opens a second
\* session, whether or not the next one could be written to the file.
THEOREM LoginsWorkOnce == Spec => []LoginWorksOnce
<1>1. LoginInv => LoginWorksOnce  BY DEF LoginInv, LoginWorksOnce
<1> QED  BY <1>1, LoginInvariant, PTL

\* logical_path and has_valid_session let in the browser of the last login only.
THEOREM OnlyTheHolderEnters == Spec => OnlyHolderEnters
<1>1. ASSUME TypeOK, Calls, LoginInv, [Next]_vars, NEW r \in Requests,
             conn[r] = NoConn, conn'[r] # NoConn
      PROVE  conn'[r].browser = holder
  <2>a. conn \in [Requests -> Conn]  BY <1>1 DEF TypeOK
  <2>1. ASSUME UNCHANGED conn PROVE FALSE  BY <1>1, <2>1
  <2>2. ASSUME Killed PROVE FALSE  BY <1>1, <2>2 DEF Killed
  <2>3. ASSUME NEW q \in Requests, CallEnds(q) PROVE FALSE
    <3>1. conn'[r] = conn[r] \/ q = r
      BY <2>3, <2>a DEF CallEnds, CallAgain, CallGivesUp, ReadReturns, WriteReturns,
                        Responds, Called
    <3> QED
      BY <1>1, <2>3, <3>1 DEF CallEnds, CallAgain, CallGivesUp, ReadReturns, WriteReturns,
                              Waits
  <2>4. ASSUME NEW b \in Browsers, NEW cap \in Tokens, NEW q \in Requests, NEW k, NEW d,
               Authorised(b, cap), Called(q, b, k, d)
        PROVE  conn'[r].browser = holder
    <3>1. q = r  BY <1>1, <2>4, <2>a DEF Called
    <3>2. conn'[r].browser = b  BY <2>4, <3>1, <2>a DEF Called
    <3>3. creds.session \in jar[b]  BY <2>4 DEF Authorised, HasValidSession
    <3> QED  BY <1>1, <3>2, <3>3 DEF LoginInv
  <2>5. ASSUME NEW b \in Browsers, NEW cap \in Tokens, NEW q \in Requests,
               EntersRead(q, b, cap) \/ \E d \in Decisions : EntersWrite(q, b, cap, d)
        PROVE  conn'[r].browser = holder
    BY <2>4, <2>5 DEF EntersRead, EntersWrite
  <2>6. CASE \/ Start \/ Stops \/ Signal \/ Tick \/ Rejects
             \/ \E b \in Browsers, token \in printed : LogsIn(b, token)
             \/ \E b \in Browsers, cap \in Tokens : LogsOut(b, cap)
             \/ \E x \in running : Executes(x)
             \/ CoreCrashes \/ CoreRestarts \/ UNCHANGED vars
    BY <2>1, <2>6
       DEF Start, Stops, IdleTimeout, StopBegins, StopEnds, Signal, Tick, Rejects, LogsIn,
           LogsOut, Executes, CoreCrashes, CoreRestarts, vars
  <2> QED  BY <1>1, <2>2, <2>3, <2>5, <2>6 DEF Next
<1>2. TypeOK /\ Calls /\ LoginInv /\ [Next]_vars =>
        \A r \in Requests :
          conn[r] = NoConn /\ conn'[r] # NoConn => conn'[r].browser = holder
  BY <1>1
<1> QED  BY <1>2, SidecarTypes, LoginInvariant, PTL DEF Spec, OnlyHolderEnters

-----------------------------------------------------------------------------
(* Decisions *)

\* The core has received a decision once, and what it has sent back is so.
Executed ==
  /\ \A x, y \in running : x.decision = y.decision => x = y
  /\ \A x \in running :
       /\ x.result \in {"none", "refused"} => applied[x.decision] = 0
       /\ x.result = "ok" => applied[x.decision] = 1

\* One request waits for a decision, and has not been answered.
Awaited ==
  \A r \in Requests :
    conn[r].decision # 0 =>
      /\ answer[conn[r].decision] = "none"
      /\ \A q \in Requests : conn[q].decision = conn[r].decision => q = r

\* A refusal is final: no execution of the decision is left in the core.
Told ==
  \A d \in Decisions :
    /\ applied[d] \in {0, 1}
    /\ answer[d] = "done" => applied[d] = 1
    /\ answer[d] = "refused" => applied[d] = 0 /\ \A x \in running : x.decision # d

DecisionInv == Executed /\ Awaited /\ Told

\* The end of a request that waits, whether or not for a decision.
LEMMA AwaitedEnds ==
  ASSUME TypeOK, Awaited, NEW r \in Requests, NEW o, Responds(r, o)
  PROVE  /\ Awaited'
         /\ \A d \in Decisions : answer'[d] = IF d = conn[r].decision THEN o ELSE answer[d]
<1>1. conn \in [Requests -> Conn] /\ conn[r] \in Conn /\ NoConn.decision = 0
  BY DEF TypeOK, NoConn
<1>2. conn[r].decision \in 0 .. MaxDecisions  BY <1>1 DEF Conn
<1>3. \A d \in Decisions : answer'[d] = IF d = conn[r].decision THEN o ELSE answer[d]
  BY <1>2 DEF Responds, TypeOK, Decisions
<1>4. \A q \in Requests : conn'[q] = IF q = r THEN NoConn ELSE conn[q]
  BY <1>1 DEF Responds
<1>5. ASSUME NEW q \in Requests, conn'[q].decision # 0
      PROVE  /\ answer'[conn'[q].decision] = "none"
             /\ \A p \in Requests : conn'[p].decision = conn'[q].decision => p = q
  <2>1. q # r /\ conn'[q] = conn[q]  BY <1>1, <1>4, <1>5
  <2>2. /\ answer[conn[q].decision] = "none" /\ conn[q].decision # conn[r].decision
        /\ \A p \in Requests : conn[p].decision = conn[q].decision => p = q
    BY <1>5, <2>1 DEF Awaited
  <2>3. conn[q].decision \in Decisions
    BY <1>1, <1>5, <2>1 DEF Conn, Decisions
  <2> QED  BY <1>1, <1>3, <1>4, <1>5, <2>1, <2>2, <2>3
<1> QED  BY <1>3, <1>5 DEF Awaited

\* Decisions: one case per action that touches a connection or a decision.
LEMMA DecisionKept ==
  ASSUME TypeOK, Calls, DecisionInv, [Next]_vars
  PROVE  DecisionInv'
<1>a. conn \in [Requests -> Conn] /\ NoConn.decision = 0
  BY DEF TypeOK, NoConn
<1>1. ASSUME UNCHANGED <<applied, answer>>, running' \subseteq running,
             \A r \in Requests : conn'[r].decision \in {0, conn[r].decision}
      PROVE  DecisionInv'
  <2>1. Executed'  BY <1>1 DEF DecisionInv, Executed
  <2>2. Awaited'  BY <1>1 DEF DecisionInv, Awaited
  <2>3. Told'  BY <1>1 DEF DecisionInv, Told
  <2> QED  BY <2>1, <2>2, <2>3 DEF DecisionInv
<1>2. CASE \/ Start \/ Stops \/ Signal \/ Tick \/ Rejects \/ CoreCrashes \/ CoreRestarts
           \/ UNCHANGED vars
           \/ \E b \in Browsers, token \in printed : LogsIn(b, token)
           \/ \E b \in Browsers, cap \in Tokens : LogsOut(b, cap)
  <2>1. UNCHANGED <<applied, answer, conn>> /\ running' \subseteq running
    BY <1>2 DEF Start, Stops, IdleTimeout, StopBegins, StopEnds, Gone, Signal, Tick,
                Rejects, CoreCrashes, CoreRestarts, LogsIn, LogsOut, theCore, vars
  <2> QED  BY <1>1, <2>1
<1>3. CASE Killed
  <2>1. \A r \in Requests : conn'[r] = NoConn  BY <1>3 DEF Killed
  <2> QED  BY <1>1, <1>3, <1>a, <2>1 DEF Killed, Gone, theCore
<1>4. ASSUME NEW b \in Browsers, NEW cap \in Tokens, NEW r \in Requests,
             EntersRead(r, b, cap)
      PROVE  DecisionInv'
  <2>1. \A q \in Requests : conn'[q].decision \in {0, conn[q].decision}
    BY <1>4, <1>a DEF EntersRead, Called
  <2> QED  BY <1>1, <1>4, <2>1 DEF EntersRead, theCore
<1>5. ASSUME NEW b \in Browsers, NEW cap \in Tokens, NEW r \in Requests,
             NEW d \in Decisions, EntersWrite(r, b, cap, d)
      PROVE  DecisionInv'
  <2>1. /\ answer[d] = "none" /\ applied[d] = 0 /\ UNCHANGED <<applied, answer>>
        /\ \A q \in Requests : conn[q].decision # d
        /\ \A x \in running : x.decision # d
    BY <1>5 DEF EntersWrite
  <2>2. \A q \in Requests : conn'[q].decision = IF q = r THEN d ELSE conn[q].decision
    BY <1>5, <1>a DEF EntersWrite, Called
  <2>3. PICK x : /\ x.decision = d /\ x.result = "none"
                 /\ running' \in {running, running \cup {x}}
    <3> DEFINE z == [decision |-> d, try |-> 1, result |-> "none"]
    <3>1. z.decision = d /\ z.result = "none"  OBVIOUS
    <3>2. running' \in {running, running \cup {z}}  BY <1>5, Zenon DEF EntersWrite, Send
    <3> HIDE DEF z
    <3> QED  BY <3>1, <3>2
  <2>4. Executed'  BY <2>1, <2>3 DEF DecisionInv, Executed
  <2>5. Awaited'  BY <2>1, <2>2 DEF DecisionInv, Awaited
  <2>6. Told'  BY <2>1, <2>3 DEF DecisionInv, Told
  <2> QED  BY <2>4, <2>5, <2>6 DEF DecisionInv
<1>6. ASSUME NEW r \in Requests, CallAgain(r) PROVE DecisionInv'
  <2>1. conn[r].kind # "write"
    BY <1>6, <1>a DEF CallAgain, Waits, Attempts, Calls, Conn
  <2>2. \A q \in Requests : conn'[q].decision = conn[q].decision
    BY <1>6, <1>a DEF CallAgain, Conn
  <2> QED  BY <1>1, <1>6, <2>1, <2>2 DEF CallAgain
<1>7. ASSUME NEW r \in Requests, CallGivesUp(r) PROVE DecisionInv'
  <2>1. Responds(r, "unknown") /\ UNCHANGED <<applied, running>>
    BY <1>7 DEF CallGivesUp, Unavailable, theCore
  <2>2. /\ Awaited'
        /\ \A d \in Decisions : answer'[d] \in {"unknown", answer[d]}
    BY <2>1, AwaitedEnds DEF DecisionInv
  <2>3. Executed' /\ Told'  BY <2>1, <2>2 DEF DecisionInv, Executed, Told
  <2> QED  BY <2>2, <2>3 DEF DecisionInv
<1>8. ASSUME NEW r \in Requests, ReadReturns(r) PROVE DecisionInv'
  <2>1. conn[r].decision = 0
    BY <1>8, <1>a DEF ReadReturns, Waits, Calls
  <2>2. \A q \in Requests : conn'[q].decision \in {0, conn[q].decision}
    BY <1>8, <1>a DEF ReadReturns, Responds, Called
  <2>3. UNCHANGED <<applied, running, answer>>
    BY <1>8, <2>1 DEF ReadReturns, Responds, theCore
  <2> QED  BY <1>1, <2>2, <2>3
<1>9. ASSUME NEW r \in Requests, WriteReturns(r) PROVE DecisionInv'
  <2>1. PICK x \in running :
          /\ x.decision = conn[r].decision /\ x.result # "none"
          /\ running' = running \ {x}
          /\ Responds(r, CASE x.result = "ok" -> "done"
                           [] x.result = "refused" -> "refused"
                           [] OTHER -> "unknown")
    BY <1>9 DEF WriteReturns
  <2>2. UNCHANGED applied  BY <1>9 DEF WriteReturns
  <2>3. PICK o : /\ Responds(r, o)
                 /\ o = "done" => x.result = "ok"
                 /\ o = "refused" => x.result = "refused"
    BY <2>1
  <2>4. /\ Awaited'
        /\ \A d \in Decisions : answer'[d] = IF d = x.decision THEN o ELSE answer[d]
    BY <2>1, <2>3, AwaitedEnds DEF DecisionInv
  <2>5. Executed'  BY <2>1, <2>2 DEF DecisionInv, Executed
  <2>6. \A y \in running' : y.decision # x.decision
    BY <2>1 DEF DecisionInv, Executed
  <2>7. Told'
    BY <2>1, <2>2, <2>3, <2>4, <2>6 DEF DecisionInv, Executed, Told
  <2> QED  BY <2>4, <2>5, <2>7 DEF DecisionInv
<1>10. ASSUME NEW x \in running, Executes(x) PROVE DecisionInv'
  <2>1. PICK result \in {"ok", "refused", "failed"}, changed \in BOOLEAN :
          /\ result = "ok" => changed
          /\ result = "refused" => ~changed
          /\ applied' = IF changed THEN [applied EXCEPT ![x.decision] = @ + 1] ELSE applied
          /\ running' = (running \ {x}) \cup
               (IF \E r \in Requests : /\ conn[r].decision = x.decision
                                       /\ conn[r].attempt = x.try
                THEN {[x EXCEPT !.result = result]} ELSE {})
    BY <1>10 DEF Executes
  <2>2. x \in Execution /\ x.decision \in Decisions /\ UNCHANGED <<conn, answer>>
    BY <1>10 DEF TypeOK, Execution, Executes
  <2>3. PICK z : /\ z.decision = x.decision /\ z.result = result
                 /\ running' \in {running \ {x}, (running \ {x}) \cup {z}}
    <3>1. /\ [x EXCEPT !.result = result].decision = x.decision
          /\ [x EXCEPT !.result = result].result = result
      BY <2>2, Zenon DEF Execution
    <3>2. running' \in {running \ {x}, (running \ {x}) \cup {[x EXCEPT !.result = result]}}
      BY <2>1, Zenon
    <3> QED  BY <3>1, <3>2, Zenon
  <2>4. applied[x.decision] = 0 /\ \A y \in running \ {x} : y.decision # x.decision
    BY <1>10 DEF DecisionInv, Executed, Executes
  <2>5. \A d \in Decisions :
          applied'[d] = IF d = x.decision /\ changed THEN 1 ELSE applied[d]
    BY <2>1, <2>2, <2>4 DEF TypeOK
  <2>6. \A y \in running : y.decision \in Decisions  BY DEF TypeOK, Execution
  <2>7. Executed'
    BY <2>1, <2>2, <2>3, <2>4, <2>5, <2>6 DEF DecisionInv, Executed
  <2>8. Awaited'  BY <2>2 DEF DecisionInv, Awaited
  <2>9. Told'
    BY <2>2, <2>3, <2>4, <2>5 DEF DecisionInv, Told
  <2> QED  BY <2>7, <2>8, <2>9 DEF DecisionInv
<1> QED
  BY <1>2, <1>3, <1>4, <1>5, <1>6, <1>7, <1>8, <1>9, <1>10 DEF Next, CallEnds

\* The invariant about decisions holds.
LEMMA DecisionInvariant == Spec => []DecisionInv
<1>1. Init => DecisionInv
  <2>1. NoConn.decision = 0  BY DEF NoConn
  <2> QED  BY <2>1 DEF Init, DecisionInv, Executed, Awaited, Told
<1> QED  BY <1>1, DecisionKept, SidecarTypes, PTL DEF Spec

\* DashboardRpcClient.request tries a write once: whatever is lost, however late the
\* core executes it, no decision is applied twice.
THEOREM DecisionsAreNotRepeated == Spec => []DecisionIsNotRepeated
<1>1. DecisionInv => DecisionIsNotRepeated
  BY DEF DecisionInv, Told, DecisionIsNotRepeated
<1> QED  BY <1>1, DecisionInvariant, PTL

\* A redirect and a refusal tell the operator the truth, for good.
THEOREM AnswersAreTrue == Spec => []AnswerIsTrue
<1>1. DecisionInv => AnswerIsTrue  BY DEF DecisionInv, Told, AnswerIsTrue
<1> QED  BY <1>1, DecisionInvariant, PTL
=============================================================================

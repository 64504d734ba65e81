------------------------------ MODULE Sessions ------------------------------
(***************************************************************************)
(* Signing in.  AuthService keeps one Session row per refresh token and     *)
(* replaces it whenever the token is used; the admin front-end keeps the    *)
(* tokens in cookies that all windows of a browser share, and answers a 401 *)
(* by one silent refresh per window, on which every refused call waits.     *)
(*                                                                         *)
(* A refresh token is named by the row it was signed for.  Token 0 is the   *)
(* absent cookie.                                                          *)
(***************************************************************************)
EXTENDS Naturals, Sequences

CONSTANTS
  None,         \* the absent value
  Browsers,     \* cookie jars, each with its user
  Windows,      \* windows of a browser, each with its own script state
  Calls,        \* API calls a page makes at a time
  MaxLogins,    \* bound on submissions of the login form
  MaxExpiries,  \* bound on access tokens that expire
  MaxLogouts,   \* bound on logouts
  Deaths        \* bound on requests that die between two statements

VARIABLES
  sessions,  \* Session rows, by age
  jar,       \* the cookies of each browser
  tab,       \* what the script of each window knows
  call,      \* the API calls of each window
  request,   \* requests to /auth under way: a window's login, logout and the
             \* refresh that each of its calls may have started
  budget     \* bounded events so far, by kind

vars == <<sessions, jar, tab, call, request, budget>>

ASSUME SessionsAssumption ==
  /\ MaxLogins \in Nat
  /\ MaxExpiries \in Nat
  /\ MaxLogouts \in Nat
  /\ Deaths \in Nat
  /\ {None, "login", "logout"} \cap Calls = {}
  /\ None \notin {"login", "logout"}

Tabs == Browsers \X Windows
Kinds == Calls \cup {"login", "logout"}
Budgets == {"logins", "expiries", "logouts", "deaths"}
\* refreshTokenHash is 'pending' or the hash of this row's token.  `uses`
\* counts the refreshes that consumed the row; the code keeps no such count.
SessionRow == [hash : {"pending", "token"}, revoked : BOOLEAN, uses : Nat]
Jar == [access : BOOLEAN, refresh : Nat]
\* refreshPromise is the call whose refresh the others share.
Tab == [page : {"login", "app"}, refreshPromise : Calls \cup {None}]
CallState == {"idle", "refused", "waiting", "retry"}
RequestPC == {"idle", "lookup", "revoke", "create", "sign", "end",
              "answered", "refused", "failed"}
Request == [pc : RequestPC, token : Nat, session : Nat]

NoRequest == [pc |-> "idle", token |-> 0, session |-> 0]
NoCookies == [access |-> FALSE, refresh |-> 0]
Signed(s) == [access |-> TRUE, refresh |-> s]

Spend(kind, limit) ==
  /\ budget[kind] < limit
  /\ budget' = [budget EXCEPT ![kind] = @ + 1]
At(t, k, pc) == request[t][k].pc = pc
Step(t, k, pc) == request' = [request EXCEPT ![t][k].pc = pc]
Done(t, k) == request' = [request EXCEPT ![t][k] = NoRequest]
Post(t, k, pc) ==
  request' = [request EXCEPT ![t][k] = [pc |-> pc, token |-> jar[t[1]].refresh, session |-> 0]]

-----------------------------------------------------------------------------
(***************************************************************************)
(* The server.                                                              *)
(***************************************************************************)

\* refresh, the row of the token is read and its hash verified.
Consumable(s) == s > 0 /\ ~sessions[s].revoked /\ sessions[s].hash = "token"

LookupSession(t, c) ==
  /\ At(t, c, "lookup")
  /\ Step(t, c, IF Consumable(request[t][c].token) THEN "revoke" ELSE "refused")
  /\ UNCHANGED <<sessions, jar, tab, call, budget>>

Consumed(row) == [hash |-> row.hash, revoked |-> TRUE, uses |-> row.uses + 1]

\* The consumed row is revoked.  Memberships are never deactivated by the
\* code, so the check that follows finds an active one.
RevokeSession(t, c) ==
  /\ At(t, c, "revoke")
  /\ sessions' = [sessions EXCEPT ![request[t][c].token] = Consumed(@)]
  /\ Step(t, c, "create")
  /\ UNCHANGED <<jar, tab, call, budget>>

\* issueTokens inserts the row under a placeholder, and refreshTokenHash is
\* unique: while a row is pending no other can be inserted.
PendingExists == \E s \in DOMAIN sessions : sessions[s].hash = "pending"
NewSession == [hash |-> "pending", revoked |-> FALSE, uses |-> 0]

CreateSession(t, k) ==
  /\ At(t, k, "create")
  /\ IF PendingExists
     THEN Step(t, k, "failed") /\ UNCHANGED sessions
     ELSE /\ sessions' = Append(sessions, NewSession)
          /\ request' = [request EXCEPT ![t][k] =
               [@ EXCEPT !.pc = "sign", !.session = Len(sessions) + 1]]
  /\ UNCHANGED <<jar, tab, call, budget>>

\* Mutant of StoredHash: the tokens are returned without the second write.
StoredUnhashed(row) == row
StoredHash(row) == [row EXCEPT !.hash = "token"]

StoreHash(t, k) ==
  /\ At(t, k, "sign")
  /\ sessions' = [sessions EXCEPT ![request[t][k].session] = StoredHash(@)]
  /\ Step(t, k, "answered")
  /\ UNCHANGED <<jar, tab, call, budget>>

\* logout revokes the row of the token it was sent, if there is one.
EndSession(t) ==
  LET s == request[t]["logout"].token IN
  /\ At(t, "logout", "end")
  /\ sessions' = [i \in DOMAIN sessions |->
                    IF i = s THEN [sessions[i] EXCEPT !.revoked = TRUE] ELSE sessions[i]]
  /\ Step(t, "logout", "answered")
  /\ UNCHANGED <<jar, tab, call, budget>>

\* The process dies: what is committed stays, and the browser sees a network
\* error.
RequestDies(t, k) ==
  /\ request[t][k].pc \in {"lookup", "revoke", "create", "sign", "end", "answered"}
  /\ Spend("deaths", Deaths)
  /\ Step(t, k, "failed")
  /\ UNCHANGED <<sessions, jar, tab, call>>

ServerStep(t, k) ==
  \/ LookupSession(t, k)
  \/ RevokeSession(t, k)
  \/ CreateSession(t, k)
  \/ StoreHash(t, k)
  \/ EndSession(t)

-----------------------------------------------------------------------------
(***************************************************************************)
(* The browser: apps/admin/src/lib/api.ts and auth.tsx.                     *)
(***************************************************************************)

\* AuthProvider.login.
SubmitLogin(t) ==
  /\ tab[t].page = "login"
  /\ At(t, "login", "idle")
  /\ Spend("logins", MaxLogins)
  /\ Post(t, "login", "create")
  /\ UNCHANGED <<sessions, jar, tab, call>>

LoginAnswered(t) ==
  /\ \/ /\ At(t, "login", "answered")
        /\ jar' = [jar EXCEPT ![t[1]] = Signed(request[t]["login"].session)]
        /\ tab' = [tab EXCEPT ![t].page = "app"]
     \/ At(t, "login", "failed") /\ UNCHANGED <<jar, tab>>
  /\ Done(t, "login")
  /\ UNCHANGED <<sessions, call, budget>>

\* AuthProvider.logout shows the login page without waiting for the answer.
SubmitLogout(t) ==
  /\ tab[t].page = "app"
  /\ At(t, "logout", "idle")
  /\ Spend("logouts", MaxLogouts)
  /\ Post(t, "logout", "end")
  /\ tab' = [tab EXCEPT ![t].page = "login"]
  /\ UNCHANGED <<sessions, jar, call>>

LogoutAnswered(t) ==
  /\ \/ At(t, "logout", "answered") /\ jar' = [jar EXCEPT ![t[1]] = NoCookies]
     \/ At(t, "logout", "failed") /\ UNCHANGED jar
  /\ Done(t, "logout")
  /\ UNCHANGED <<sessions, tab, call, budget>>

\* The access token outlives the answer that brought it by minutes.
AccessExpires(b) ==
  /\ jar[b].access
  /\ \A w \in Windows, c \in Calls : call[<<b, w>>][c] # "retry"
  /\ Spend("expiries", MaxExpiries)
  /\ jar' = [jar EXCEPT ![b].access = FALSE]
  /\ UNCHANGED <<sessions, tab, call, request>>

\* A call without a valid access token is answered 401.  The answer reaches
\* the script later.
SendCall(t, c) ==
  /\ call[t][c] = "idle"
  /\ ~jar[t[1]].access
  /\ call' = [call EXCEPT ![t][c] = "refused"]
  /\ UNCHANGED <<sessions, jar, tab, request, budget>>

\* Mutant of MustRefresh: every refused call refreshes for itself.
RefreshAlways(t) == TRUE
\* silentRefresh: calls that find a refresh under way share it.
MustRefresh(t) == tab[t].refreshPromise = None

\* The controller refuses a refresh without a cookie at once.  A call of a
\* page that was reloaded refreshes after the one it made before was answered.
SilentRefresh(t, c) ==
  /\ call[t][c] = "refused"
  /\ call' = [call EXCEPT ![t][c] = "waiting"]
  /\ IF MustRefresh(t)
     THEN /\ At(t, c, "idle")
          /\ Post(t, c, IF jar[t[1]].refresh = 0 THEN "refused" ELSE "lookup")
          /\ tab' = [tab EXCEPT ![t].refreshPromise = c]
     ELSE UNCHANGED <<request, tab>>
  /\ UNCHANGED <<sessions, jar, budget>>

\* The answer to a refresh that nobody waits for, since the page was loaded
\* anew, sets the cookies or is dropped.
RefreshAnswered(t, c) ==
  /\ At(t, c, "answered")
  /\ Done(t, c)
  /\ \/ /\ jar' = [jar EXCEPT ![t[1]] = Signed(request[t][c].session)]
        /\ IF tab[t].refreshPromise = c
           THEN /\ tab' = [tab EXCEPT ![t].refreshPromise = None]
                /\ call' = [call EXCEPT ![t] = [d \in Calls |->
                              IF @[d] = "waiting" THEN "retry" ELSE @[d]]]
           ELSE UNCHANGED <<tab, call>>
     \/ tab[t].refreshPromise # c /\ UNCHANGED <<jar, tab, call>>
  /\ UNCHANGED <<sessions, budget>>

\* Calls that end with a 401 send an application page to the login page,
\* which starts anew; on the login page they just end.
Unauthorized(t, ended, promise) ==
  LET reload == tab[t].page = "app" IN
  /\ call' = [call EXCEPT ![t] = [d \in Calls |->
                 IF reload \/ d \in ended THEN "idle" ELSE @[d]]]
  /\ tab' = [tab EXCEPT ![t] = [page |-> "login",
                 refreshPromise |-> IF reload THEN None ELSE promise]]

\* Mutant of Settled: a refresh that failed stays the one to wait for.
SettledKept(t) == tab[t].refreshPromise
\* The promise is cleared however it settles.
Settled(t) == None

RefreshFailed(t, c) ==
  /\ request[t][c].pc \in {"refused", "failed"}
  /\ Done(t, c)
  /\ IF tab[t].refreshPromise = c
     THEN Unauthorized(t, {d \in Calls : call[t][d] = "waiting"}, Settled(t))
     ELSE UNCHANGED <<call, tab>>
  /\ UNCHANGED <<sessions, jar, budget>>

RetryCall(t, c) ==
  /\ call[t][c] = "retry"
  /\ IF jar[t[1]].access
     THEN call' = [call EXCEPT ![t][c] = "idle"] /\ UNCHANGED tab
     ELSE Unauthorized(t, {c}, tab[t].refreshPromise)
  /\ UNCHANGED <<sessions, jar, request, budget>>

BrowserStep(t) ==
  \/ LoginAnswered(t)
  \/ LogoutAnswered(t)
  \/ \E c \in Calls : \/ SilentRefresh(t, c)
                     \/ RefreshAnswered(t, c)
                     \/ RefreshFailed(t, c)
                     \/ RetryCall(t, c)

-----------------------------------------------------------------------------
Init ==
  /\ sessions = <<>>
  /\ jar = [b \in Browsers |-> NoCookies]
  /\ tab = [t \in Tabs |-> [page |-> "login", refreshPromise |-> None]]
  /\ call = [t \in Tabs |-> [c \in Calls |-> "idle"]]
  /\ request = [t \in Tabs |-> [k \in Kinds |-> NoRequest]]
  /\ budget = [k \in Budgets |-> 0]

Next ==
  \/ \E b \in Browsers : AccessExpires(b)
  \/ \E t \in Tabs :
       \/ SubmitLogin(t)
       \/ SubmitLogout(t)
       \/ BrowserStep(t)
       \/ \E c \in Calls : SendCall(t, c)
       \/ \E k \in Kinds : ServerStep(t, k) \/ RequestDies(t, k)

Spec == Init /\ [][Next]_vars

\* The types of the tables, the cookies, the script state and the requests.
TypeOK ==
  /\ sessions \in Seq(SessionRow)
  /\ jar \in [Browsers -> Jar]
  /\ tab \in [Tabs -> Tab]
  /\ call \in [Tabs -> [Calls -> CallState]]
  /\ request \in [Tabs -> [Kinds -> Request]]
  /\ budget \in [Budgets -> Nat]

-----------------------------------------------------------------------------
(***************************************************************************)
(* Properties.                                                              *)
(***************************************************************************)

Stored(s) == s \in DOMAIN sessions /\ sessions[s].hash = "token"

\* Every refresh token in a cookie or in an answer is one that the server can
\* check: its row exists and carries its hash.
TokensAreStored ==
  /\ \A b \in Browsers : jar[b].refresh # 0 => Stored(jar[b].refresh)
  /\ \A t \in Tabs, k \in Kinds \ {"logout"} :
       At(t, k, "answered") => Stored(request[t][k].session)

\* A browser with one window uses a refresh token once, however many of its
\* calls are refused at a time (silentRefresh).
UsedOnce == \A s \in DOMAIN sessions : sessions[s].uses <= 1

\* The placeholder of a new row is replaced by the request that wrote it
\* (issueTokens: "replaced below once token is signed").
PendingIsReplaced ==
  \A s \in DOMAIN sessions : sessions[s].hash = "pending" =>
    \E t \in Tabs, k \in Kinds : At(t, k, "sign") /\ request[t][k].session = s

-----------------------------------------------------------------------------
(***************************************************************************)
(* Liveness.  The server goes on with every request, and the script of a    *)
(* window handles every answer and every refused call.                      *)
(***************************************************************************)
FairSpec ==
  /\ Spec
  /\ \A t \in Tabs : \A k \in Kinds : WF_vars(ServerStep(t, k))
  /\ \A t \in Tabs : WF_vars(LoginAnswered(t)) /\ WF_vars(LogoutAnswered(t))
  /\ \A t \in Tabs : \A c \in Calls :
       WF_vars(SilentRefresh(t, c) \/ RefreshAnswered(t, c) \/ RefreshFailed(t, c) \/ RetryCall(t, c))

\* No call waits for good: whatever becomes of the refresh it shares, it ends
\* or its page is loaded anew.
CallsSettle == \A t \in Tabs : \A c \in Calls : call[t][c] = "waiting" ~> call[t][c] = "idle"
=============================================================================

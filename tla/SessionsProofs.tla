--------------------------- MODULE SessionsProofs ---------------------------
(***************************************************************************)
(* Proofs about Sessions, for any number of browsers, windows, calls,       *)
(* logins and requests that die.                                            *)
(***************************************************************************)
EXTENDS Sessions, TLAPS

\* The row a request is about to complete exists.
SigningExists ==
  \A t \in Tabs, k \in Kinds : At(t, k, "sign") => request[t][k].session \in DOMAIN sessions

StoredInv == TypeOK /\ TokensAreStored /\ SigningExists

\* Rows are never removed, and a stored hash stays.
RowsKept ==
  /\ \A s \in DOMAIN sessions : s \in DOMAIN sessions'
  /\ \A s \in DOMAIN sessions : sessions[s].hash = "token" => sessions'[s].hash = "token"

-----------------------------------------------------------------------------
(* Helpers. *)

\* Changing one row of a sequence.
LEMMA RowChanged ==
  ASSUME NEW S, NEW q \in Seq(S), NEW i, NEW r, i \in DOMAIN q => r \in S
  PROVE  /\ [q EXCEPT ![i] = r] \in Seq(S)
         /\ DOMAIN [q EXCEPT ![i] = r] = DOMAIN q
         /\ \A s \in DOMAIN q : [q EXCEPT ![i] = r][s] = IF s = i THEN r ELSE q[s]
<1> DEFINE p == [q EXCEPT ![i] = r]
<1>1. DOMAIN p = DOMAIN q /\ \A s \in DOMAIN q : p[s] = IF s = i THEN r ELSE q[s]
  OBVIOUS
<1>2. Len(q) \in Nat /\ DOMAIN q = 1 .. Len(q) /\ \A s \in 1 .. Len(q) : q[s] \in S
  OBVIOUS
<1>3. p \in [1 .. Len(q) -> S]
  BY <1>2
<1>4. p \in Seq(S)
  BY <1>2, <1>3
<1> QED BY <1>1, <1>4

\* A row that a refresh has consumed.
LEMMA ConsumedRow ==
  ASSUME NEW row \in SessionRow
  PROVE  Consumed(row) \in SessionRow /\ Consumed(row).hash = row.hash
BY DEF Consumed, SessionRow

\* A request that moves on, or starts, or ends.
LEMMA RequestChanged ==
  ASSUME TypeOK, NEW t \in Tabs, NEW k \in Kinds, NEW r \in Request,
         request' = [request EXCEPT ![t][k] = r]
  PROVE  /\ request' \in [Tabs -> [Kinds -> Request]]
         /\ request'[t][k] = r
         /\ \A u \in Tabs, l \in Kinds : <<u, l>> # <<t, k>> => request'[u][l] = request[u][l]
BY DEF TypeOK

\* A step of a request within the program.
LEMMA StepTypes ==
  ASSUME TypeOK, NEW t \in Tabs, NEW k \in Kinds, NEW pc \in RequestPC, Step(t, k, pc)
  PROVE  /\ request' \in [Tabs -> [Kinds -> Request]]
         /\ request'[t][k].pc = pc /\ request'[t][k].session = request[t][k].session
         /\ \A u \in Tabs, l \in Kinds : <<u, l>> # <<t, k>> => request'[u][l] = request[u][l]
<1> DEFINE r == [request[t][k] EXCEPT !.pc = pc]
<1>1. request[t][k] \in Request
  BY DEF TypeOK
<1>2. r \in Request /\ r.pc = pc /\ r.session = request[t][k].session
  BY <1>1 DEF Request
<1>3. request' = [request EXCEPT ![t][k] = r]
  BY DEF Step
<1>4. request \in [Tabs -> [Kinds -> Request]]
  BY DEF TypeOK
<1> HIDE DEF r
<1>5. /\ request' \in [Tabs -> [Kinds -> Request]]
      /\ request'[t][k] = r
      /\ \A u \in Tabs, l \in Kinds : <<u, l>> # <<t, k>> => request'[u][l] = request[u][l]
  BY <1>2, <1>3, <1>4
<1> QED BY <1>2, <1>5

\* A request that ends.
LEMMA DoneTypes ==
  ASSUME TypeOK, NEW t \in Tabs, NEW k \in Kinds, Done(t, k)
  PROVE  /\ request' \in [Tabs -> [Kinds -> Request]]
         /\ request'[t][k] = NoRequest
         /\ \A u \in Tabs, l \in Kinds : <<u, l>> # <<t, k>> => request'[u][l] = request[u][l]
<1>1. NoRequest \in Request
  BY DEF NoRequest, Request, RequestPC
<1>2. request' = [request EXCEPT ![t][k] = NoRequest]
  BY DEF Done
<1>3. request \in [Tabs -> [Kinds -> Request]]
  BY DEF TypeOK
<1> QED BY <1>1, <1>2, <1>3

\* A request that starts.
LEMMA PostTypes ==
  ASSUME TypeOK, NEW t \in Tabs, NEW k \in Kinds, NEW pc \in RequestPC, Post(t, k, pc)
  PROVE  /\ request' \in [Tabs -> [Kinds -> Request]]
         /\ request'[t][k].pc = pc
         /\ \A u \in Tabs, l \in Kinds : <<u, l>> # <<t, k>> => request'[u][l] = request[u][l]
<1> DEFINE r == [pc |-> pc, token |-> jar[t[1]].refresh, session |-> 0]
<1>1. t[1] \in Browsers /\ jar[t[1]] \in Jar
  BY DEF TypeOK, Tabs
<1>2. r \in Request /\ r.pc = pc
  BY <1>1 DEF Request, Jar
<1>3. request' = [request EXCEPT ![t][k] = r]
  BY DEF Post
<1>4. request \in [Tabs -> [Kinds -> Request]]
  BY DEF TypeOK
<1> HIDE DEF r
<1>5. /\ request' \in [Tabs -> [Kinds -> Request]]
      /\ request'[t][k] = r
      /\ \A u \in Tabs, l \in Kinds : <<u, l>> # <<t, k>> => request'[u][l] = request[u][l]
  BY <1>2, <1>3, <1>4
<1> QED BY <1>2, <1>5

\* One more event of a bounded kind.
LEMMA SpendTypes ==
  ASSUME TypeOK, NEW kind \in Budgets, NEW limit, Spend(kind, limit)
  PROVE  budget' \in [Budgets -> Nat]
BY DEF TypeOK, Spend

\* Two properties carry over when rows are kept, cookies come from stored rows
\* and requests answer with stored rows only.
LEMMA StoredCarries ==
  ASSUME StoredInv, RowsKept,
         \A b \in Browsers : \/ jar'[b].refresh \in {0, jar[b].refresh}
                             \/ /\ jar'[b].refresh \in DOMAIN sessions
                                /\ sessions[jar'[b].refresh].hash = "token",
         NEW t \in Tabs, NEW k \in Kinds,
         \A u \in Tabs, l \in Kinds : <<u, l>> # <<t, k>> => request'[u][l] = request[u][l],
         request'[t][k].pc = "answered" /\ k # "logout" =>
           /\ request'[t][k].session \in DOMAIN sessions'
           /\ sessions'[request'[t][k].session].hash = "token",
         request'[t][k].pc = "sign" => request'[t][k].session \in DOMAIN sessions'
  PROVE  TokensAreStored' /\ SigningExists'
<1>1. \A s : s \in DOMAIN sessions /\ sessions[s].hash = "token" =>
        s \in DOMAIN sessions' /\ sessions'[s].hash = "token"
  BY DEF RowsKept
<1>2. \A b \in Browsers : jar'[b].refresh # 0 =>
        jar'[b].refresh \in DOMAIN sessions' /\ sessions'[jar'[b].refresh].hash = "token"
  BY <1>1 DEF StoredInv, TokensAreStored, Stored
<1>3. \A u \in Tabs, l \in Kinds \ {"logout"} : request'[u][l].pc = "answered" =>
        request'[u][l].session \in DOMAIN sessions' /\ sessions'[request'[u][l].session].hash = "token"
  <2> SUFFICES ASSUME NEW u \in Tabs, NEW l \in Kinds \ {"logout"}, request'[u][l].pc = "answered"
               PROVE  request'[u][l].session \in DOMAIN sessions'
                        /\ sessions'[request'[u][l].session].hash = "token"
    OBVIOUS
  <2>1. CASE <<u, l>> = <<t, k>>
    BY <2>1
  <2>2. CASE <<u, l>> # <<t, k>>
    <3>1. Stored(request[u][l].session) /\ request'[u][l] = request[u][l]
      BY <2>2 DEF StoredInv, TokensAreStored, Stored, At
    <3> QED BY <3>1, <1>1 DEF Stored
  <2> QED BY <2>1, <2>2
<1>4. \A u \in Tabs, l \in Kinds : request'[u][l].pc = "sign" =>
        request'[u][l].session \in DOMAIN sessions'
  <2> SUFFICES ASSUME NEW u \in Tabs, NEW l \in Kinds, request'[u][l].pc = "sign"
               PROVE  request'[u][l].session \in DOMAIN sessions'
    OBVIOUS
  <2>1. CASE <<u, l>> = <<t, k>>
    BY <2>1
  <2>2. CASE <<u, l>> # <<t, k>>
    BY <2>2 DEF StoredInv, SigningExists, RowsKept, At
  <2> QED BY <2>1, <2>2
<1> QED BY <1>2, <1>3, <1>4 DEF TokensAreStored, SigningExists, At, Stored

\* The same for steps that leave rows and requests alone.
LEMMA StoredStays ==
  ASSUME StoredInv, UNCHANGED <<sessions, request>>,
         \A b \in Browsers : jar'[b].refresh = jar[b].refresh
  PROVE  TokensAreStored' /\ SigningExists'
BY DEF StoredInv, TokensAreStored, SigningExists, At, Stored

\* Ending calls and going to the login page keeps the script's types.
LEMMA UnauthorizedTypes ==
  ASSUME TypeOK, NEW t \in Tabs, NEW ended, NEW promise \in Calls \cup {None},
         Unauthorized(t, ended, promise)
  PROVE  call' \in [Tabs -> [Calls -> CallState]] /\ tab' \in [Tabs -> Tab]
<1> DEFINE reload == tab[t].page = "app"
           cs == [d \in Calls |-> IF reload \/ d \in ended THEN "idle" ELSE call[t][d]]
           w == [page |-> "login", refreshPromise |-> IF reload THEN None ELSE promise]
<1>1. cs \in [Calls -> CallState] /\ w \in Tab
  BY DEF TypeOK, CallState, Tab
<1>2. call' = [call EXCEPT ![t] = cs] /\ tab' = [tab EXCEPT ![t] = w]
  BY DEF Unauthorized
<1> QED BY <1>1, <1>2 DEF TypeOK

-----------------------------------------------------------------------------
(* The server's steps. *)

\* A step of the server or of its process keeps the invariant.
LEMMA ServerKeeps ==
  ASSUME StoredInv, NEW t \in Tabs, NEW k \in Kinds,
         ServerStep(t, k) \/ RequestDies(t, k)
  PROVE  StoredInv'
<1>0. TypeOK /\ TokensAreStored /\ SigningExists
  BY DEF StoredInv
<1>1. CASE LookupSession(t, k)
  <2> DEFINE pc == IF Consumable(request[t][k].token) THEN "revoke" ELSE "refused"
  <2>1. pc \in RequestPC /\ pc \notin {"answered", "sign"} /\ Step(t, k, pc)
    BY <1>1 DEF LookupSession, RequestPC
  <2>2. request'[t][k].pc = pc
    BY <2>1, <1>0, StepTypes
  <2>3. TokensAreStored' /\ SigningExists'
    BY <1>1, <2>1, <2>2, <1>0, StepTypes, StoredCarries DEF LookupSession, RowsKept
  <2> QED BY <1>0, <1>1, <2>1, <2>3, StepTypes DEF LookupSession, StoredInv, TypeOK
<1>2. CASE RevokeSession(t, k)
  <2> DEFINE s == request[t][k].token
             r == Consumed(sessions[s])
  <2>1. Step(t, k, "create") /\ "create" \in RequestPC
    BY <1>2 DEF RevokeSession, RequestPC
  <2>2. request'[t][k].pc = "create"
    BY <2>1, <1>0, StepTypes
  <2>3. s \in DOMAIN sessions => sessions[s] \in SessionRow
    BY <1>0 DEF TypeOK
  <2>4. s \in DOMAIN sessions => r \in SessionRow /\ r.hash = sessions[s].hash
    BY <2>3, ConsumedRow
  <2>5. sessions' = [sessions EXCEPT ![s] = r]
    BY <1>2 DEF RevokeSession
  <2>6. sessions' \in Seq(SessionRow) /\ RowsKept
    <3> HIDE DEF s, r
    <3>1. sessions \in Seq(SessionRow) /\ (s \in DOMAIN sessions => r \in SessionRow)
      BY <2>4, <1>0 DEF TypeOK
    <3>2. /\ sessions' \in Seq(SessionRow)
          /\ DOMAIN sessions' = DOMAIN sessions
          /\ \A i \in DOMAIN sessions : sessions'[i] = IF i = s THEN r ELSE sessions[i]
      BY <2>5, <3>1, RowChanged
    <3> QED BY <2>4, <3>2 DEF RowsKept
  <2>7. TokensAreStored' /\ SigningExists'
    BY <1>2, <2>1, <2>2, <2>6, StepTypes, <1>0, StoredCarries DEF RevokeSession
  <2> QED BY <1>0, <1>2, <2>1, <2>6, <2>7, StepTypes DEF RevokeSession, StoredInv, TypeOK
<1>3. CASE CreateSession(t, k)
  <2>1. CASE PendingExists
    <3>1. Step(t, k, "failed") /\ "failed" \in RequestPC /\ sessions' = sessions
      BY <1>3, <2>1 DEF CreateSession, RequestPC
    <3>2. request'[t][k].pc = "failed"
      BY <3>1, <1>0, StepTypes
    <3>3. TokensAreStored' /\ SigningExists'
      BY <1>3, <3>1, <3>2, <1>0, StepTypes, StoredCarries DEF CreateSession, RowsKept
    <3> QED BY <1>0, <1>3, <3>1, <3>3, StepTypes DEF CreateSession, StoredInv, TypeOK
  <2>2. CASE ~PendingExists
    <3> DEFINE r == [request[t][k] EXCEPT !.pc = "sign", !.session = Len(sessions) + 1]
    <3>1. request[t][k] \in Request /\ sessions \in Seq(SessionRow) /\ Len(sessions) + 1 \in Nat
      BY <1>0 DEF TypeOK
    <3>2. r \in Request /\ r.pc = "sign" /\ r.session = Len(sessions) + 1
      BY <3>1 DEF Request, RequestPC
    <3>3. request' = [request EXCEPT ![t][k] = r]
      BY <1>3, <2>2 DEF CreateSession
    <3>4. sessions' = Append(sessions, NewSession) /\ NewSession \in SessionRow
      BY <1>3, <2>2 DEF CreateSession, NewSession, SessionRow
    <3>5. /\ sessions' \in Seq(SessionRow)
          /\ Len(sessions) + 1 \in DOMAIN sessions'
          /\ RowsKept
      BY <3>1, <3>4 DEF RowsKept
    <3>6. /\ request'[t][k] = r
          /\ \A u \in Tabs, l \in Kinds : <<u, l>> # <<t, k>> => request'[u][l] = request[u][l]
      <4>1. request \in [Tabs -> [Kinds -> Request]]
        BY <1>0 DEF TypeOK
      <4> HIDE DEF r
      <4> QED BY <3>2, <3>3, <4>1
    <3>7. request'[t][k].pc = "sign" /\ request'[t][k].session \in DOMAIN sessions' /\ jar' = jar
      BY <1>3, <3>2, <3>5, <3>6 DEF CreateSession
    <3>8. TokensAreStored' /\ SigningExists'
      BY <3>5, <3>6, <3>7, StoredCarries
    <3> QED BY <1>0, <1>3, <3>2, <3>3, <3>5, <3>8, RequestChanged DEF CreateSession, StoredInv, TypeOK
  <2> QED BY <2>1, <2>2
<1>4. CASE StoreHash(t, k)
  <2> DEFINE s == request[t][k].session
             r == [sessions[s] EXCEPT !.hash = "token"]
  <2>1. Step(t, k, "answered") /\ "answered" \in RequestPC /\ s \in DOMAIN sessions
    BY <1>4, <1>0 DEF StoreHash, RequestPC, SigningExists
  <2>2. request'[t][k].pc = "answered" /\ request'[t][k].session = s
    BY <2>1, <1>0, StepTypes
  <2>3. sessions[s] \in SessionRow
    BY <1>0, <2>1 DEF TypeOK
  <2>4. r \in SessionRow /\ r.hash = "token"
    BY <2>3 DEF SessionRow
  <2>5. sessions' = [sessions EXCEPT ![s] = r]
    BY <1>4 DEF StoreHash, StoredHash
  <2>6. /\ sessions' \in Seq(SessionRow)
        /\ RowsKept
        /\ s \in DOMAIN sessions' /\ sessions'[s].hash = "token"
    <3> HIDE DEF s, r
    <3>1. sessions \in Seq(SessionRow) /\ s \in DOMAIN sessions /\ r \in SessionRow
      BY <2>1, <2>4, <1>0 DEF TypeOK
    <3>2. /\ sessions' \in Seq(SessionRow)
          /\ DOMAIN sessions' = DOMAIN sessions
          /\ \A i \in DOMAIN sessions : sessions'[i] = IF i = s THEN r ELSE sessions[i]
      BY <2>5, <3>1, RowChanged
    <3> QED BY <2>4, <3>1, <3>2 DEF RowsKept
  <2>7. TokensAreStored' /\ SigningExists'
    BY <1>4, <2>1, <2>2, <2>6, <1>0, StepTypes, StoredCarries DEF StoreHash
  <2> QED BY <1>0, <1>4, <2>1, <2>6, <2>7, StepTypes DEF StoreHash, StoredInv, TypeOK
<1>5. CASE EndSession(t) /\ "logout" \in Kinds
  <2> DEFINE s == request[t]["logout"].token
             Row(i) == IF i = s THEN [sessions[i] EXCEPT !.revoked = TRUE] ELSE sessions[i]
  <2>1. Step(t, "logout", "answered") /\ "answered" \in RequestPC
    BY <1>5 DEF EndSession, RequestPC
  <2>2. \A i \in DOMAIN sessions : sessions[i] \in SessionRow
    BY <1>0 DEF TypeOK
  <2>3. \A i \in DOMAIN sessions : Row(i) \in SessionRow /\ Row(i).hash = sessions[i].hash
    BY <2>2 DEF SessionRow
  <2>4. sessions' = [i \in DOMAIN sessions |-> Row(i)]
    BY <1>5 DEF EndSession
  <2>5. Len(sessions) \in Nat /\ DOMAIN sessions = 1 .. Len(sessions)
    BY <1>0 DEF TypeOK
  <2>6. sessions' \in [1 .. Len(sessions) -> SessionRow] /\ RowsKept
    BY <2>3, <2>4, <2>5 DEF RowsKept
  <2>7. sessions' \in Seq(SessionRow)
    BY <2>5, <2>6
  <2>8. request'[t]["logout"].pc = "answered"
    BY <2>1, <1>0, <1>5, StepTypes
  <2>9. TokensAreStored' /\ SigningExists'
    BY <1>5, <2>1, <2>6, <2>8, <1>0, StepTypes, StoredCarries DEF EndSession
  <2> QED BY <1>0, <1>5, <2>1, <2>7, <2>9, StepTypes DEF EndSession, StoredInv, TypeOK
<1>6. CASE RequestDies(t, k)
  <2>1. Step(t, k, "failed") /\ "failed" \in RequestPC /\ sessions' = sessions
    BY <1>6 DEF RequestDies, RequestPC
  <2>2. request'[t][k].pc = "failed"
    BY <2>1, <1>0, StepTypes
  <2>3. budget' \in [Budgets -> Nat]
    BY <1>6, <1>0, SpendTypes DEF RequestDies, Budgets
  <2>4. TokensAreStored' /\ SigningExists'
    BY <1>6, <2>1, <2>2, <1>0, StepTypes, StoredCarries DEF RequestDies, RowsKept
  <2> QED BY <1>0, <1>6, <2>1, <2>3, <2>4, StepTypes DEF RequestDies, StoredInv, TypeOK
<1>7. "logout" \in Kinds
  BY DEF Kinds
<1> QED BY <1>1, <1>2, <1>3, <1>4, <1>5, <1>6, <1>7 DEF ServerStep

-----------------------------------------------------------------------------
(* The browser's steps. *)

\* Cookies that name a row a request has answered with.
LEMMA SignedTypes ==
  ASSUME TypeOK, NEW b \in Browsers, NEW s \in Nat, jar' = [jar EXCEPT ![b] = Signed(s)]
  PROVE  /\ jar' \in [Browsers -> Jar]
         /\ \A a \in Browsers : jar'[a].refresh = IF a = b THEN s ELSE jar[a].refresh
BY DEF TypeOK, Signed, Jar

\* The forms for signing in and out, and their answers.
LEMMA FormsKeep ==
  ASSUME StoredInv, NEW t \in Tabs,
         SubmitLogin(t) \/ LoginAnswered(t) \/ SubmitLogout(t) \/ LogoutAnswered(t)
  PROVE  StoredInv'
<1>0. TypeOK /\ TokensAreStored /\ SigningExists /\ t[1] \in Browsers
  BY DEF StoredInv, Tabs
<1>1. /\ "login" \in Kinds /\ "logout" \in Kinds /\ "login" # "logout"
      /\ {"create", "end"} \subseteq RequestPC
      /\ NoRequest.pc = "idle"
  BY DEF Kinds, RequestPC, NoRequest
<1>2. CASE SubmitLogin(t)
  <2>1. Post(t, "login", "create") /\ UNCHANGED <<sessions, jar, tab, call>>
    BY <1>2 DEF SubmitLogin
  <2>2. budget' \in [Budgets -> Nat]
    BY <1>2, <1>0, SpendTypes DEF SubmitLogin, Budgets
  <2>3. TokensAreStored' /\ SigningExists'
    BY <2>1, <1>0, <1>1, PostTypes, StoredCarries DEF RowsKept
  <2> QED BY <1>0, <1>1, <2>1, <2>2, <2>3, PostTypes DEF StoredInv, TypeOK
<1>3. CASE LoginAnswered(t)
  <2>1. Done(t, "login") /\ UNCHANGED <<sessions, call, budget>>
    BY <1>3 DEF LoginAnswered
  <2>2. CASE At(t, "login", "failed") /\ UNCHANGED <<jar, tab>>
    <3>1. TokensAreStored' /\ SigningExists'
      BY <2>1, <2>2, <1>0, <1>1, DoneTypes, StoredCarries DEF RowsKept
    <3> QED BY <1>0, <1>1, <2>1, <2>2, <3>1, DoneTypes DEF StoredInv, TypeOK
  <2>3. CASE /\ At(t, "login", "answered")
             /\ jar' = [jar EXCEPT ![t[1]] = Signed(request[t]["login"].session)]
             /\ tab' = [tab EXCEPT ![t].page = "app"]
    <3> DEFINE s == request[t]["login"].session
    <3>1. s \in Nat /\ s \in DOMAIN sessions /\ sessions[s].hash = "token"
      BY <2>3, <1>0, <1>1 DEF TypeOK, Request, TokensAreStored, Stored
    <3>2. tab' \in [Tabs -> Tab]
      BY <2>3, <1>0 DEF TypeOK, Tab
    <3>3. /\ jar' \in [Browsers -> Jar]
          /\ \A a \in Browsers : jar'[a].refresh \in {s, jar[a].refresh}
      BY <2>3, <3>1, <1>0, SignedTypes
    <3>4. TokensAreStored' /\ SigningExists'
      BY <2>1, <3>1, <3>3, <1>0, <1>1, DoneTypes, StoredCarries DEF RowsKept
    <3> QED BY <1>0, <1>1, <2>1, <3>2, <3>3, <3>4, DoneTypes DEF StoredInv, TypeOK
  <2> QED BY <1>3, <2>2, <2>3 DEF LoginAnswered
<1>4. CASE SubmitLogout(t)
  <2>1. Post(t, "logout", "end") /\ UNCHANGED <<sessions, jar, call>>
    BY <1>4 DEF SubmitLogout
  <2>2. budget' \in [Budgets -> Nat]
    BY <1>4, <1>0, SpendTypes DEF SubmitLogout, Budgets
  <2>3. tab' \in [Tabs -> Tab]
    BY <1>4, <1>0 DEF SubmitLogout, TypeOK, Tab
  <2>4. TokensAreStored' /\ SigningExists'
    BY <2>1, <1>0, <1>1, PostTypes, StoredCarries DEF RowsKept
  <2> QED BY <1>0, <1>1, <2>1, <2>2, <2>3, <2>4, PostTypes DEF StoredInv, TypeOK
<1>5. CASE LogoutAnswered(t)
  <2>1. Done(t, "logout") /\ UNCHANGED <<sessions, tab, call, budget>>
    BY <1>5 DEF LogoutAnswered
  <2>2. jar' = jar \/ jar' = [jar EXCEPT ![t[1]] = NoCookies]
    BY <1>5 DEF LogoutAnswered
  <2>3. /\ jar' \in [Browsers -> Jar]
        /\ \A a \in Browsers : jar'[a].refresh \in {0, jar[a].refresh}
    <3>1. NoCookies \in Jar /\ NoCookies.refresh = 0
      BY DEF Jar, NoCookies
    <3> QED BY <2>2, <3>1, <1>0 DEF TypeOK
  <2>4. TokensAreStored' /\ SigningExists'
    BY <2>1, <2>3, <1>0, <1>1, DoneTypes, StoredCarries DEF RowsKept
  <2> QED BY <1>0, <1>1, <2>1, <2>3, <2>4, DoneTypes DEF StoredInv, TypeOK
<1> QED BY <1>2, <1>3, <1>4, <1>5

\* The calls of a page and the refresh they share.
LEMMA CallsKeep ==
  ASSUME StoredInv, NEW t \in Tabs, NEW c \in Calls,
         \/ SendCall(t, c) \/ SilentRefresh(t, c) \/ RefreshAnswered(t, c)
         \/ RefreshFailed(t, c) \/ RetryCall(t, c)
  PROVE  StoredInv'
<1>0. TypeOK /\ TokensAreStored /\ SigningExists /\ t[1] \in Browsers
  BY DEF StoredInv, Tabs
<1>1. /\ c \in Kinds /\ c # "logout"
      /\ {"lookup", "refused"} \subseteq RequestPC
      /\ NoRequest.pc = "idle"
  BY SessionsAssumption DEF Kinds, RequestPC, NoRequest
<1>2. CASE SendCall(t, c)
  <2>1. call' \in [Tabs -> [Calls -> CallState]]
    BY <1>2, <1>0 DEF SendCall, TypeOK, CallState
  <2>2. TokensAreStored' /\ SigningExists'
    BY <1>2, StoredStays DEF SendCall
  <2> QED BY <1>0, <1>2, <2>1, <2>2 DEF SendCall, StoredInv, TypeOK
<1>3. CASE SilentRefresh(t, c)
  <2> DEFINE pc == IF jar[t[1]].refresh = 0 THEN "refused" ELSE "lookup"
  <2>1. call' \in [Tabs -> [Calls -> CallState]] /\ UNCHANGED <<sessions, jar, budget>>
    BY <1>3, <1>0 DEF SilentRefresh, TypeOK, CallState
  <2>2. CASE MustRefresh(t)
    <3>1. Post(t, c, pc) /\ pc \in RequestPC /\ pc \notin {"answered", "sign"}
      BY <1>3, <2>2, <1>1 DEF SilentRefresh
    <3>2. tab' \in [Tabs -> Tab]
      <4>1. tab \in [Tabs -> Tab]
        BY <1>0 DEF TypeOK
      <4>2. [tab[t] EXCEPT !.refreshPromise = c] \in Tab
        BY <4>1 DEF Tab
      <4>3. tab' = [tab EXCEPT ![t].refreshPromise = c]
        BY <1>3, <2>2 DEF SilentRefresh
      <4> QED BY ONLY <4>1, <4>2, <4>3
    <3>3. TokensAreStored' /\ SigningExists'
      <4> HIDE DEF pc
      <4> QED BY <2>1, <3>1, <1>0, <1>1, PostTypes, StoredCarries DEF RowsKept
    <3>4. request' \in [Tabs -> [Kinds -> Request]]
      <4> HIDE DEF pc
      <4> QED BY <3>1, <1>0, <1>1, PostTypes
    <3> QED BY <1>0, <2>1, <3>2, <3>3, <3>4 DEF StoredInv, TypeOK
  <2>3. CASE ~MustRefresh(t)
    <3>1. UNCHANGED <<sessions, jar, budget, request, tab>>
      BY <1>3, <2>3 DEF SilentRefresh
    <3>2. TokensAreStored' /\ SigningExists'
      BY <3>1, StoredStays
    <3> QED BY <1>0, <2>1, <3>1, <3>2 DEF StoredInv, TypeOK
  <2> QED BY <2>2, <2>3
<1>4. CASE RefreshAnswered(t, c)
  <2> DEFINE s == request[t][c].session
             resumed == [d \in Calls |-> IF call[t][d] = "waiting" THEN "retry" ELSE call[t][d]]
  <2>1. Done(t, c) /\ At(t, c, "answered") /\ UNCHANGED <<sessions, budget>>
    BY <1>4 DEF RefreshAnswered
  <2>2. s \in Nat /\ s \in DOMAIN sessions /\ sessions[s].hash = "token"
    BY <2>1, <1>0, <1>1 DEF TypeOK, Request, TokensAreStored, Stored
  <2>3. \/ tab' = tab /\ call' = call
        \/ /\ tab' = [tab EXCEPT ![t].refreshPromise = None]
           /\ call' = [call EXCEPT ![t] = resumed]
    BY <1>4 DEF RefreshAnswered
  <2>4. resumed \in [Calls -> CallState]
    <3>1. \A d \in Calls : call[t][d] \in CallState
      BY <1>0 DEF TypeOK
    <3>2. "retry" \in CallState
      BY DEF CallState
    <3> QED BY ONLY <3>1, <3>2
  <2>5. tab' \in [Tabs -> Tab]
    <3>1. tab \in [Tabs -> Tab]
      BY <1>0 DEF TypeOK
    <3>2. [tab[t] EXCEPT !.refreshPromise = None] \in Tab
      BY <3>1 DEF Tab
    <3> HIDE DEF resumed
    <3> QED BY <2>3, <3>1, <3>2
  <2>6. call' \in [Tabs -> [Calls -> CallState]]
    <3> HIDE DEF resumed
    <3> QED BY <2>3, <2>4, <1>0 DEF TypeOK
  <2>7. jar' = jar \/ jar' = [jar EXCEPT ![t[1]] = Signed(s)]
    BY <1>4 DEF RefreshAnswered
  <2>8. /\ jar' \in [Browsers -> Jar]
        /\ \A a \in Browsers : jar'[a].refresh \in {s, jar[a].refresh}
    <3>1. CASE jar' = jar
      BY <3>1, <1>0 DEF TypeOK
    <3>2. CASE jar' = [jar EXCEPT ![t[1]] = Signed(s)]
      BY <3>2, <2>2, <1>0, SignedTypes
    <3> QED BY <3>1, <3>2, <2>7
  <2>9. TokensAreStored' /\ SigningExists'
    BY <2>1, <2>2, <2>8, <1>0, <1>1, DoneTypes, StoredCarries DEF RowsKept
  <2> QED BY <1>0, <1>1, <2>1, <2>5, <2>6, <2>8, <2>9, DoneTypes DEF StoredInv, TypeOK
<1>5. CASE RefreshFailed(t, c)
  <2>1. Done(t, c) /\ UNCHANGED <<sessions, jar, budget>>
    BY <1>5 DEF RefreshFailed
  <2>2. Settled(t) \in Calls \cup {None}
    BY DEF Settled
  <2>3. \/ UNCHANGED <<call, tab>>
        \/ Unauthorized(t, {d \in Calls : call[t][d] = "waiting"}, Settled(t))
    BY <1>5 DEF RefreshFailed
  <2>4. call' \in [Tabs -> [Calls -> CallState]] /\ tab' \in [Tabs -> Tab]
    BY <2>2, <2>3, <1>0, UnauthorizedTypes DEF TypeOK
  <2>5. TokensAreStored' /\ SigningExists'
    BY <2>1, <1>0, <1>1, DoneTypes, StoredCarries DEF RowsKept
  <2> QED BY <1>0, <1>1, <2>1, <2>4, <2>5, DoneTypes DEF StoredInv, TypeOK
<1>6. CASE RetryCall(t, c)
  <2>1. UNCHANGED <<sessions, jar, request, budget>>
    BY <1>6 DEF RetryCall
  <2>2. tab[t].refreshPromise \in Calls \cup {None}
    BY <1>0 DEF TypeOK, Tab
  <2>3. \/ call' = [call EXCEPT ![t][c] = "idle"] /\ tab' = tab
        \/ Unauthorized(t, {c}, tab[t].refreshPromise)
    BY <1>6 DEF RetryCall
  <2>4. call' \in [Tabs -> [Calls -> CallState]] /\ tab' \in [Tabs -> Tab]
    <3>1. CASE call' = [call EXCEPT ![t][c] = "idle"] /\ tab' = tab
      BY <3>1, <1>0 DEF TypeOK, CallState
    <3>2. CASE Unauthorized(t, {c}, tab[t].refreshPromise)
      BY <3>2, <2>2, <1>0, UnauthorizedTypes
    <3> QED BY <2>3, <3>1, <3>2
  <2>5. TokensAreStored' /\ SigningExists'
    BY <2>1, StoredStays
  <2> QED BY <1>0, <2>1, <2>4, <2>5 DEF StoredInv, TypeOK
<1> QED BY <1>2, <1>3, <1>4, <1>5, <1>6

-----------------------------------------------------------------------------
\* Every step keeps types and stored tokens.
LEMMA StoredInductive == StoredInv /\ [Next]_vars => StoredInv'
<1> SUFFICES ASSUME StoredInv, [Next]_vars PROVE StoredInv'
  OBVIOUS
<1>1. CASE UNCHANGED vars
  BY <1>1 DEF vars, StoredInv, TypeOK, TokensAreStored, SigningExists, Stored, At
<1>2. ASSUME NEW b \in Browsers, AccessExpires(b) PROVE StoredInv'
  <2>1. /\ jar' \in [Browsers -> Jar]
        /\ \A a \in Browsers : jar'[a].refresh = jar[a].refresh
    BY <1>2 DEF AccessExpires, StoredInv, TypeOK, Jar
  <2>2. budget' \in [Budgets -> Nat]
    BY <1>2, SpendTypes DEF AccessExpires, StoredInv, Budgets
  <2>3. TokensAreStored' /\ SigningExists'
    BY <1>2, <2>1, StoredStays DEF AccessExpires
  <2> QED BY <1>2, <2>1, <2>2, <2>3 DEF AccessExpires, StoredInv, TypeOK
<1>3. CASE \E b \in Browsers : AccessExpires(b)
  BY <1>2, <1>3
<1>4. ASSUME NEW t \in Tabs,
             \/ SubmitLogin(t) \/ SubmitLogout(t) \/ BrowserStep(t)
             \/ \E c \in Calls : SendCall(t, c)
             \/ \E k \in Kinds : ServerStep(t, k) \/ RequestDies(t, k)
      PROVE  StoredInv'
  BY <1>4, FormsKeep, CallsKeep, ServerKeeps DEF BrowserStep
<1> QED BY <1>1, <1>3, <1>4 DEF Next

\* The initial state has no rows, no cookies and no requests.
LEMMA InitStored == Init => StoredInv
<1> SUFFICES ASSUME Init PROVE StoredInv
  OBVIOUS
<1>1. NoRequest \in Request /\ NoRequest.pc = "idle" /\ NoCookies \in Jar /\ NoCookies.refresh = 0
  BY DEF NoRequest, Request, RequestPC, NoCookies, Jar
<1>2. sessions \in Seq(SessionRow)
  BY DEF Init
<1>3. TypeOK
  BY <1>1, <1>2 DEF Init, TypeOK, Tab, CallState
<1>4. \A t \in Tabs, k \in Kinds : request[t][k].pc = "idle"
  BY <1>1 DEF Init
<1>5. \A b \in Browsers : jar[b].refresh = 0
  BY <1>1 DEF Init
<1> QED BY <1>3, <1>4, <1>5 DEF StoredInv, TokensAreStored, SigningExists, At

\* issueTokens answers, and cookies hold, only refresh tokens whose hash is
\* stored, whatever requests die on the way.
THEOREM TokensStayStored == Spec => [](TypeOK /\ TokensAreStored)
<1>1. StoredInv => TypeOK /\ TokensAreStored
  BY DEF StoredInv
<1> QED BY InitStored, StoredInductive, <1>1, PTL DEF Spec

-----------------------------------------------------------------------------
(* One window: a token is used once.  The argument follows the token: from  *)
(* the request that signs it to the cookies to the request that presents it *)
(* it is in one place at a time, except that the cookies keep it while the  *)
(* refresh on which the window waits presents it.                           *)

OneWindow == \A v, w \in Windows : v = w

Presents(t, k) == request[t][k].pc \in {"lookup", "revoke"}
Brings(t, k) == k # "logout" /\ request[t][k].pc \in {"sign", "answered"}

OneRequest ==
  \A t, u \in Tabs, k, l \in Kinds :
    /\ Presents(t, k) => request[t][k].token \in DOMAIN sessions
    /\ Presents(t, k) /\ Presents(u, l) /\ request[t][k].token = request[u][l].token => t = u /\ k = l
    /\ Brings(t, k) /\ Brings(u, l) /\ request[t][k].session = request[u][l].session => t = u /\ k = l
    /\ Presents(t, k) /\ Brings(u, l) => request[t][k].token # request[u][l].session

OneJar ==
  /\ \A a, b \in Browsers : jar[a].refresh = jar[b].refresh => a = b \/ jar[a].refresh = 0
  /\ \A b \in Browsers, t \in Tabs, k \in Kinds :
       /\ Brings(t, k) => request[t][k].session # jar[b].refresh
       /\ Presents(t, k) /\ request[t][k].token = jar[b].refresh => t[1] = b /\ tab[t].refreshPromise = k

\* A call is sent again while the new cookies are there, or after a logout.
RetryHasAccess ==
  \A t \in Tabs, c \in Calls : call[t][c] = "retry" => jar[t[1]].access \/ jar[t[1]].refresh = 0

UsedIsRevoked ==
  /\ \A s \in DOMAIN sessions : sessions[s].uses = 0 \/ (sessions[s].uses = 1 /\ sessions[s].revoked)
  /\ \A t \in Tabs, k \in Kinds : At(t, k, "revoke") => sessions[request[t][k].token].uses = 0

UseInv == OneRequest /\ OneJar /\ RetryHasAccess /\ UsedIsRevoked

\* Rows are named from 1, and what is brought or kept in a jar has a row.
LEMMA Named ==
  ASSUME StoredInv
  PROVE  /\ DOMAIN sessions = 1 .. Len(sessions) /\ Len(sessions) \in Nat /\ 0 \notin DOMAIN sessions
         /\ \A b \in Browsers : jar[b].refresh # 0 => jar[b].refresh \in DOMAIN sessions
         /\ \A t \in Tabs, k \in Kinds : Brings(t, k) => request[t][k].session \in DOMAIN sessions
BY DEF StoredInv, TypeOK, TokensAreStored, SigningExists, Stored, Brings, At

\* Nobody presents or brings what it did not before, no jar gets a new token,
\* and a window goes on waiting for the refresh that presents its token.
LEMMA NobodyNew ==
  ASSUME StoredInv, UseInv, DOMAIN sessions \subseteq DOMAIN sessions',
         \A t \in Tabs, k \in Kinds : Presents(t, k)' => Presents(t, k) /\ request'[t][k].token = request[t][k].token,
         \A t \in Tabs, k \in Kinds : Brings(t, k)' => Brings(t, k) /\ request'[t][k].session = request[t][k].session,
         \A b \in Browsers : jar'[b].refresh \in {0, jar[b].refresh},
         \A t \in Tabs, k \in Kinds :
           Presents(t, k)' /\ request[t][k].token = jar'[t[1]].refresh => tab'[t].refreshPromise = tab[t].refreshPromise
  PROVE  OneRequest' /\ OneJar'
<1>1. OneRequest'
  BY DEF UseInv, OneRequest
<1>2. \A a, b \in Browsers : jar'[a].refresh = jar'[b].refresh => a = b \/ jar'[a].refresh = 0
  BY DEF UseInv, OneJar
<1>3. ASSUME NEW b \in Browsers, NEW t \in Tabs, NEW k \in Kinds
      PROVE  /\ Brings(t, k)' => request'[t][k].session # jar'[b].refresh
             /\ Presents(t, k)' /\ request'[t][k].token = jar'[b].refresh =>
                  t[1] = b /\ tab'[t].refreshPromise = k
  <2>1. Brings(t, k)' => request'[t][k].session \notin {0, jar[b].refresh}
    BY Named DEF UseInv, OneJar
  <2>2. Presents(t, k)' => request'[t][k].token # 0
    BY Named DEF UseInv, OneRequest
  <2> QED BY <2>1, <2>2 DEF UseInv, OneJar
<1> QED BY <1>1, <1>2, <1>3 DEF OneJar

\* The same when one request takes a step.
LEMMA OneSteps ==
  ASSUME StoredInv, UseInv, DOMAIN sessions \subseteq DOMAIN sessions', UNCHANGED <<jar, tab>>,
         NEW t \in Tabs, NEW k \in Kinds,
         \A u \in Tabs, l \in Kinds : <<u, l>> # <<t, k>> => request'[u][l] = request[u][l],
         request'[t][k].token = request[t][k].token \/ request'[t][k].pc \notin {"lookup", "revoke"},
         request'[t][k].session = request[t][k].session \/ ~Brings(t, k)',
         request'[t][k].pc \in {"lookup", "revoke"} => Presents(t, k),
         Brings(t, k)' => Brings(t, k)
  PROVE  OneRequest' /\ OneJar'
<1>1. ASSUME NEW u \in Tabs, NEW l \in Kinds
      PROVE  /\ Presents(u, l)' => Presents(u, l) /\ request'[u][l].token = request[u][l].token
             /\ Brings(u, l)' => Brings(u, l) /\ request'[u][l].session = request[u][l].session
  <2>1. CASE <<u, l>> = <<t, k>>
    BY <2>1 DEF Presents
  <2>2. CASE <<u, l>> # <<t, k>>
    BY <2>2 DEF Presents, Brings
  <2> QED BY <2>1, <2>2
<1> QED BY <1>1, NobodyNew

\* Consumed rows stay consumed, and nobody is newly about to consume one.
LEMMA NoneUsed ==
  ASSUME StoredInv, UseInv, DOMAIN sessions \subseteq DOMAIN sessions',
         \A s \in DOMAIN sessions : sessions'[s].uses = sessions[s].uses /\ (sessions[s].revoked => sessions'[s].revoked),
         \A s \in DOMAIN sessions' \ DOMAIN sessions : sessions'[s].uses = 0,
         \A t \in Tabs, k \in Kinds : At(t, k, "revoke")' => At(t, k, "revoke") /\ request'[t][k].token = request[t][k].token
  PROVE  UsedIsRevoked'
<1>1. \A t \in Tabs, k \in Kinds : At(t, k, "revoke") => request[t][k].token \in DOMAIN sessions
  BY DEF UseInv, OneRequest, Presents, At
<1>2. ASSUME NEW s \in DOMAIN sessions'
      PROVE  sessions'[s].uses = 0 \/ (sessions'[s].uses = 1 /\ sessions'[s].revoked)
  BY DEF UseInv, UsedIsRevoked
<1>3. ASSUME NEW t \in Tabs, NEW k \in Kinds, At(t, k, "revoke")'
      PROVE  sessions'[request'[t][k].token].uses = 0
  BY <1>1, <1>3 DEF UseInv, UsedIsRevoked
<1> QED BY <1>2, <1>3 DEF UsedIsRevoked

\* The cookies and calls of windows that a step leaves alone.
LEMMA RetryStays ==
  ASSUME UseInv, UNCHANGED <<jar, call>>
  PROVE  RetryHasAccess'
BY DEF UseInv, RetryHasAccess

\* What a step within the program leaves of a request.
LEMMA StepKeeps ==
  ASSUME TypeOK, NEW t \in Tabs, NEW k \in Kinds, NEW pc, Step(t, k, pc)
  PROVE  /\ request'[t][k].pc = pc
         /\ request'[t][k].token = request[t][k].token
         /\ request'[t][k].session = request[t][k].session
         /\ \A u \in Tabs, l \in Kinds : <<u, l>> # <<t, k>> => request'[u][l] = request[u][l]
<1> DEFINE old == request[t][k]
           r == [old EXCEPT !.pc = pc]
<1>1. old \in Request
  BY DEF TypeOK
<1>2. request' = [request EXCEPT ![t][k] = r]
  BY DEF Step
<1>3. request'[t][k] = r /\ \A u \in Tabs, l \in Kinds : <<u, l>> # <<t, k>> => request'[u][l] = request[u][l]
  <2> HIDE DEF r
  <2> QED BY <1>2 DEF TypeOK
<1> HIDE DEF old
<1>4. r.pc = pc /\ r.token = old.token /\ r.session = old.session
  BY <1>1 DEF Request
<1> QED BY <1>3, <1>4 DEF old

\* A step after which the request presents and brings no more than before, and
\* is not newly about to consume a row.
LEMMA QuietStep ==
  ASSUME StoredInv, UseInv, UNCHANGED <<jar, tab, call>>, NEW t \in Tabs, NEW k \in Kinds, NEW pc, Step(t, k, pc),
         pc \in {"lookup", "revoke"} => Presents(t, k),
         pc = "revoke" => At(t, k, "revoke"),
         k # "logout" /\ pc \in {"sign", "answered"} => Brings(t, k),
         DOMAIN sessions \subseteq DOMAIN sessions',
         \A s \in DOMAIN sessions : sessions'[s].uses = sessions[s].uses /\ (sessions[s].revoked => sessions'[s].revoked),
         \A s \in DOMAIN sessions' \ DOMAIN sessions : sessions'[s].uses = 0
  PROVE  UseInv'
<1> USE DEF StoredInv
<1>1. OneRequest' /\ OneJar'
  BY StepKeeps, OneSteps DEF Presents, Brings
<1>2. UsedIsRevoked'
  <2>1. ASSUME NEW u \in Tabs, NEW l \in Kinds, At(u, l, "revoke")'
        PROVE  At(u, l, "revoke") /\ request'[u][l].token = request[u][l].token
    BY <2>1, StepKeeps DEF At
  <2> QED BY <2>1, NoneUsed
<1> QED BY <1>1, <1>2, RetryStays DEF UseInv

\* A step of the server or of its process keeps tokens in one place.
LEMMA ServerUses ==
  ASSUME StoredInv, UseInv, NEW t \in Tabs, NEW k \in Kinds, ServerStep(t, k) \/ RequestDies(t, k)
  PROVE  UseInv'
<1>0. TypeOK
  BY DEF StoredInv
<1>1. CASE LookupSession(t, k)
  <2> DEFINE s == request[t][k].token
             pc == IF Consumable(s) THEN "revoke" ELSE "refused"
  <2>1. Step(t, k, pc) /\ UNCHANGED <<sessions, jar, tab, call>> /\ Presents(t, k)
    BY <1>1 DEF LookupSession, Presents, At
  <2>2. /\ request'[t][k].pc = pc /\ request'[t][k].token = s /\ request'[t][k].session = request[t][k].session
        /\ \A u \in Tabs, l \in Kinds : <<u, l>> # <<t, k>> => request'[u][l] = request[u][l]
    BY <2>1, <1>0, StepKeeps
  <2>3. OneRequest' /\ OneJar'
    BY <2>1, <2>2, OneSteps DEF Brings
  <2>4. pc = "revoke" => sessions[s].uses = 0
    BY <2>1 DEF Consumable, UseInv, UsedIsRevoked, OneRequest
  <2>5. ASSUME NEW u \in Tabs, NEW l \in Kinds, At(u, l, "revoke")'
        PROVE  sessions'[request'[u][l].token].uses = 0
    <3>1. CASE <<u, l>> = <<t, k>>
      BY <2>1, <2>2, <2>4, <2>5, <3>1 DEF At
    <3>2. CASE <<u, l>> # <<t, k>>
      BY <2>1, <2>2, <2>5, <3>2 DEF At, UseInv, UsedIsRevoked
    <3> QED BY <3>1, <3>2
  <2>6. UsedIsRevoked'
    BY <2>1, <2>5 DEF UseInv, UsedIsRevoked
  <2> QED BY <2>1, <2>3, <2>6, RetryStays DEF UseInv
<1>2. CASE RevokeSession(t, k)
  <2> DEFINE s == request[t][k].token
  <2>1. Step(t, k, "create") /\ UNCHANGED <<jar, tab, call>> /\ Presents(t, k) /\ At(t, k, "revoke")
    BY <1>2 DEF RevokeSession, Presents, At
  <2>2. s \in DOMAIN sessions /\ sessions[s].uses = 0
    BY <2>1 DEF UseInv, UsedIsRevoked, OneRequest
  <2>3. /\ DOMAIN sessions' = DOMAIN sessions
        /\ sessions'[s] = Consumed(sessions[s])
        /\ \A i \in DOMAIN sessions : i # s => sessions'[i] = sessions[i]
    <3>1. sessions' = [sessions EXCEPT ![s] = Consumed(@)]
      BY <1>2 DEF RevokeSession
    <3> QED BY <2>2, <3>1
  <2>4. sessions'[s].uses = 1 /\ sessions'[s].revoked
    BY <2>2, <2>3 DEF Consumed
  <2>5. /\ request'[t][k].pc = "create" /\ request'[t][k].token = s /\ request'[t][k].session = request[t][k].session
        /\ \A u \in Tabs, l \in Kinds : <<u, l>> # <<t, k>> => request'[u][l] = request[u][l]
    BY <2>1, <1>0, StepKeeps
  <2>6. OneRequest' /\ OneJar'
    BY <2>1, <2>3, <2>5, OneSteps DEF Brings
  <2>7. ASSUME NEW u \in Tabs, NEW l \in Kinds, At(u, l, "revoke")'
        PROVE  sessions'[request'[u][l].token].uses = 0
    <3>1. <<u, l>> # <<t, k>> /\ At(u, l, "revoke") /\ request'[u][l].token = request[u][l].token
      BY <2>5, <2>7 DEF At
    <3>2. request[u][l].token \in DOMAIN sessions /\ request[u][l].token # s
      BY <2>1, <3>1 DEF UseInv, OneRequest, Presents, At
    <3> QED BY <2>3, <3>1, <3>2 DEF UseInv, UsedIsRevoked
  <2>8. UsedIsRevoked'
    BY <2>3, <2>4, <2>7 DEF UseInv, UsedIsRevoked
  <2> QED BY <2>1, <2>6, <2>8, RetryStays DEF UseInv
<1>3. CASE CreateSession(t, k) /\ PendingExists
  BY <1>3, QuietStep DEF CreateSession
<1>4. CASE CreateSession(t, k) /\ ~PendingExists
  <2> DEFINE n == Len(sessions) + 1
             old == request[t][k]
             r == [old EXCEPT !.pc = "sign", !.session = n]
  <2>0. sessions \in Seq(SessionRow) /\ old \in Request /\ n \in Nat
    BY <1>0 DEF TypeOK
  <2>1. request' = [request EXCEPT ![t][k] = r] /\ UNCHANGED <<jar, tab, call>>
    BY <1>4 DEF CreateSession
  <2>2. sessions' = Append(sessions, NewSession)
    BY <1>4 DEF CreateSession
  <2>3. /\ DOMAIN sessions' = DOMAIN sessions \union {n} /\ n \notin DOMAIN sessions
        /\ \A s \in DOMAIN sessions : sessions'[s] = sessions[s]
        /\ sessions'[n] = NewSession
    BY <2>0, <2>2
  <2>4. r.pc = "sign" /\ r.session = n
    BY <2>0 DEF Request
  <2> HIDE DEF r, old
  <2>5. request'[t][k] = r /\ \A u \in Tabs, l \in Kinds : <<u, l>> # <<t, k>> => request'[u][l] = request[u][l]
    BY <2>1, <1>0 DEF TypeOK
  <2> HIDE DEF n
  <2>6. ASSUME NEW u \in Tabs, NEW l \in Kinds
        PROVE  /\ Presents(u, l)' => Presents(u, l) /\ request'[u][l] = request[u][l]
               /\ Brings(u, l)' => \/ <<u, l>> = <<t, k>> /\ request'[u][l].session = n
                                   \/ <<u, l>> # <<t, k>> /\ Brings(u, l) /\ request'[u][l] = request[u][l]
    <3>1. CASE u = t /\ l = k
      <4>1. request'[u][l].pc = "sign" /\ request'[u][l].session = n
        BY <2>4, <2>5, <3>1
      <4> QED BY <4>1, <3>1 DEF Presents
    <3>2. CASE <<u, l>> # <<t, k>>
      <4>1. request'[u][l] = request[u][l]
        BY <2>5, <3>2
      <4> QED BY <4>1, <3>2 DEF Presents, Brings
    <3>3. (u = t /\ l = k) = (<<u, l>> = <<t, k>>)
      OBVIOUS
    <3> QED BY ONLY <3>1, <3>2, <3>3
  <2>7. OneRequest'
    <3>1. \A u \in Tabs, l \in Kinds : /\ Presents(u, l) => request[u][l].token \in DOMAIN sessions
                                       /\ Brings(u, l) => request[u][l].session \in DOMAIN sessions
      BY Named DEF UseInv, OneRequest
    <3>2. \A u, v \in Tabs, l, m \in Kinds :
            /\ Presents(u, l)' => request'[u][l].token \in DOMAIN sessions'
            /\ Presents(u, l)' /\ Presents(v, m)' /\ request'[u][l].token = request'[v][m].token
                 => u = v /\ l = m
      BY <2>3, <2>6, <3>1 DEF UseInv, OneRequest
    <3>3. \A u, v \in Tabs, l, m \in Kinds :
            Brings(u, l)' /\ Brings(v, m)' /\ request'[u][l].session = request'[v][m].session
              => u = v /\ l = m
      <4> SUFFICES ASSUME NEW u \in Tabs, NEW v \in Tabs, NEW l \in Kinds, NEW m \in Kinds,
                          Brings(u, l)', Brings(v, m)', request'[u][l].session = request'[v][m].session
                   PROVE  u = v /\ l = m
        OBVIOUS
      <4>1. CASE <<u, l>> = <<t, k>> /\ <<v, m>> = <<t, k>>
        BY <4>1
      <4>2. CASE <<u, l>> # <<t, k>> /\ <<v, m>> # <<t, k>>
        <5>1. /\ Brings(u, l) /\ request'[u][l] = request[u][l]
              /\ Brings(v, m) /\ request'[v][m] = request[v][m]
          BY <4>2, <2>6
        <5> QED BY <5>1 DEF UseInv, OneRequest
      <4>3. ASSUME NEW w \in Tabs, NEW j \in Kinds, <<w, j>> # <<t, k>>, Brings(w, j)'
            PROVE  request'[w][j].session \in DOMAIN sessions
        <5>1. Brings(w, j) /\ request'[w][j] = request[w][j]
          BY <4>3, <2>6
        <5> QED BY <4>3, <5>1, <3>1
      <4>4. request'[t][k].session = n /\ n \notin DOMAIN sessions
        BY <2>3, <2>4, <2>5
      <4>5. CASE u = t /\ l = k /\ <<v, m>> # <<t, k>>
        <5>1. request'[v][m].session \in DOMAIN sessions
          BY <4>3, <4>5
        <5> QED BY <4>4, <4>5, <5>1
      <4>6. CASE v = t /\ m = k /\ <<u, l>> # <<t, k>>
        <5>1. request'[u][l].session \in DOMAIN sessions
          BY <4>3, <4>6
        <5> QED BY <4>4, <4>6, <5>1
      <4>7. /\ <<u, l>> = <<t, k>> => u = t /\ l = k
            /\ <<v, m>> = <<t, k>> => v = t /\ m = k
        OBVIOUS
      <4> QED BY ONLY <4>1, <4>2, <4>5, <4>6, <4>7
    <3>4. \A u, v \in Tabs, l, m \in Kinds :
            Presents(u, l)' /\ Brings(v, m)' => request'[u][l].token # request'[v][m].session
      BY <2>3, <2>6, <3>1 DEF UseInv, OneRequest
    <3> QED BY <3>2, <3>3, <3>4 DEF OneRequest
  <2>8. OneJar'
    <3>1. \A b \in Browsers : jar[b].refresh # n
      BY <2>3, Named DEF n
    <3> QED BY <2>1, <2>6, <3>1 DEF UseInv, OneJar
  <2>9. UsedIsRevoked'
    <3>1. \A s \in DOMAIN sessions' \ DOMAIN sessions : sessions'[s].uses = 0
      BY <2>3 DEF NewSession
    <3>2. \A u \in Tabs, l \in Kinds : At(u, l, "revoke")' => At(u, l, "revoke") /\ request'[u][l].token = request[u][l].token
      BY <2>6 DEF At, Presents
    <3> QED BY <2>3, <3>1, <3>2, NoneUsed
  <2> QED BY <2>1, <2>7, <2>8, <2>9, RetryStays DEF UseInv
<1>5. CASE StoreHash(t, k)
  <2> DEFINE s == request[t][k].session
  <2>1. /\ Step(t, k, "answered") /\ UNCHANGED <<jar, tab, call>> /\ At(t, k, "sign")
        /\ sessions' = [sessions EXCEPT ![s] = StoredHash(@)]
    BY <1>5 DEF StoreHash
  <2>2. s \in DOMAIN sessions /\ sessions[s] \in SessionRow
    BY <2>1 DEF StoredInv, SigningExists, TypeOK
  <2> DEFINE row == sessions[s]
  <2>3. sessions' = [sessions EXCEPT ![s] = StoredHash(row)]
    BY <2>1
  <2>4. row \in SessionRow
    BY <2>2
  <2> HIDE DEF row
  <2>5. StoredHash(row).uses = row.uses /\ StoredHash(row).revoked = row.revoked
    BY <2>4 DEF StoredHash, SessionRow
  <2>6. /\ DOMAIN sessions' = DOMAIN sessions
        /\ \A i \in DOMAIN sessions : sessions'[i].uses = sessions[i].uses /\ sessions'[i].revoked = sessions[i].revoked
    <3>1. \A i \in DOMAIN sessions : sessions'[i] = IF i = s THEN StoredHash(row) ELSE sessions[i]
      BY <2>3
    <3> QED BY <2>3, <2>5, <3>1 DEF row
  <2>7. k # "logout" => Brings(t, k)
    BY <2>1 DEF Brings, At
  <2> QED BY <2>1, <2>6, <2>7, QuietStep
<1>6. CASE EndSession(t)
  <2> DEFINE s == request[t]["logout"].token
             Row(i) == IF i = s THEN [sessions[i] EXCEPT !.revoked = TRUE] ELSE sessions[i]
  <2>1. Step(t, "logout", "answered") /\ UNCHANGED <<jar, tab, call>> /\ sessions' = [i \in DOMAIN sessions |-> Row(i)]
    BY <1>6 DEF EndSession
  <2>2. \A i \in DOMAIN sessions : sessions[i] \in SessionRow
    BY <1>0 DEF TypeOK
  <2>3. \A i \in DOMAIN sessions : Row(i).uses = sessions[i].uses /\ (sessions[i].revoked => Row(i).revoked)
    BY <2>2 DEF SessionRow
  <2> HIDE DEF Row
  <2>4. "logout" \in Kinds
    BY DEF Kinds
  <2> QED BY <2>1, <2>3, <2>4, QuietStep
<1>7. CASE RequestDies(t, k)
  BY <1>7, QuietStep DEF RequestDies
<1> QED BY <1>1, <1>2, <1>3, <1>4, <1>5, <1>6, <1>7 DEF ServerStep

\* A request that is sent or ends, in a browser whose window waits as before.
LEMMA RequestReplaced ==
  ASSUME StoredInv, UseInv, UNCHANGED sessions, NEW t \in Tabs, NEW k \in Kinds,
         NEW r, request' = [request EXCEPT ![t][k] = r],
         r.pc \notin {"lookup", "revoke"}, k # "logout" => r.pc \notin {"sign", "answered"},
         \A b \in Browsers : jar'[b].refresh \in {0, jar[b].refresh},
         \A u \in Tabs, l \in Kinds :
           <<u, l>> # <<t, k>> /\ Presents(u, l) /\ request[u][l].token = jar'[u[1]].refresh
             => tab'[u].refreshPromise = tab[u].refreshPromise
  PROVE  OneRequest' /\ OneJar' /\ UsedIsRevoked'
<1>1. request'[t][k] = r /\ \A u \in Tabs, l \in Kinds : <<u, l>> # <<t, k>> => request'[u][l] = request[u][l]
  BY DEF StoredInv, TypeOK
<1>2. ASSUME NEW u \in Tabs, NEW l \in Kinds
      PROVE  /\ Presents(u, l)' => <<u, l>> # <<t, k>> /\ Presents(u, l) /\ request'[u][l].token = request[u][l].token
             /\ Brings(u, l)' => Brings(u, l) /\ request'[u][l].session = request[u][l].session
             /\ At(u, l, "revoke")' => At(u, l, "revoke") /\ request'[u][l].token = request[u][l].token
  <2>1. CASE <<u, l>> = <<t, k>>
    BY <2>1, <1>1 DEF Presents, Brings, At
  <2>2. CASE <<u, l>> # <<t, k>>
    BY <2>2, <1>1 DEF Presents, Brings, At
  <2> QED BY <2>1, <2>2
<1>3. OneRequest' /\ OneJar'
  BY <1>2, NobodyNew
<1>4. UsedIsRevoked'
  BY <1>2, NoneUsed
<1> QED BY <1>3, <1>4

\* An answer whose tokens go into the cookies: they were in no jar and nobody
\* has presented them.
LEMMA Delivered ==
  ASSUME StoredInv, UseInv, UNCHANGED sessions, NEW t \in Tabs, NEW k \in Kinds, k # "logout",
         At(t, k, "answered"), Done(t, k),
         jar' = [jar EXCEPT ![t[1]] = Signed(request[t][k].session)],
         \A u \in Tabs : u # t => tab'[u].refreshPromise = tab[u].refreshPromise
  PROVE  OneRequest' /\ OneJar' /\ UsedIsRevoked'
<1> DEFINE s == request[t][k].session
<1>0. t[1] \in Browsers /\ jar \in [Browsers -> Jar] /\ NoRequest.pc = "idle"
  BY DEF StoredInv, TypeOK, Tabs, NoRequest
<1>1. Brings(t, k) /\ s \in DOMAIN sessions /\ s # 0
  BY Named DEF Brings, At
<1>2. jar'[t[1]].refresh = s /\ \A b \in Browsers : b # t[1] => jar'[b] = jar[b]
  BY <1>0 DEF Signed
<1>3. request'[t][k] = NoRequest /\ \A u \in Tabs, l \in Kinds : <<u, l>> # <<t, k>> => request'[u][l] = request[u][l]
  BY DoneTypes DEF StoredInv
<1>4. ASSUME NEW u \in Tabs, NEW l \in Kinds
      PROVE  /\ Presents(u, l)' => Presents(u, l) /\ <<u, l>> # <<t, k>> /\ request'[u][l] = request[u][l]
             /\ Brings(u, l)' => Brings(u, l) /\ <<u, l>> # <<t, k>> /\ request'[u][l] = request[u][l]
             /\ At(u, l, "revoke")' => At(u, l, "revoke") /\ request'[u][l].token = request[u][l].token
  <2>1. CASE <<u, l>> = <<t, k>>
    BY <2>1, <1>0, <1>3 DEF Presents, Brings, At
  <2>2. CASE <<u, l>> # <<t, k>>
    BY <2>2, <1>3 DEF Presents, Brings, At
  <2> QED BY <2>1, <2>2
<1>5. OneRequest'
  BY <1>4 DEF UseInv, OneRequest
<1>6. \A a, b \in Browsers : jar'[a].refresh = jar'[b].refresh => a = b \/ jar'[a].refresh = 0
  <2>1. \A b \in Browsers : jar[b].refresh # s
    BY <1>1 DEF UseInv, OneJar
  <2> QED BY <1>2, <2>1 DEF UseInv, OneJar
<1>7. ASSUME NEW b \in Browsers, NEW u \in Tabs, NEW l \in Kinds, Brings(u, l)'
      PROVE  request'[u][l].session # jar'[b].refresh
  <2>1. request[u][l].session # s
    BY <1>1, <1>4, <1>7 DEF UseInv, OneRequest
  <2> QED BY <1>2, <1>4, <1>7, <2>1 DEF UseInv, OneJar
<1>8. ASSUME NEW b \in Browsers, NEW u \in Tabs, NEW l \in Kinds, Presents(u, l)', request'[u][l].token = jar'[b].refresh
      PROVE  u[1] = b /\ tab'[u].refreshPromise = l
  <2>1. request[u][l].token # s
    BY <1>1, <1>4, <1>8 DEF UseInv, OneRequest
  <2>2. b # t[1] /\ request[u][l].token = jar[b].refresh
    BY <1>2, <1>4, <1>8, <2>1
  <2>3. u[1] = b /\ tab[u].refreshPromise = l
    BY <1>4, <1>8, <2>2 DEF UseInv, OneJar
  <2> QED BY <2>2, <2>3
<1>9. UsedIsRevoked'
  BY <1>4, NoneUsed
<1> QED BY <1>5, <1>6, <1>7, <1>8, <1>9 DEF OneJar

\* The forms for signing in and out.
LEMMA FormsUse ==
  ASSUME StoredInv, UseInv, NEW t \in Tabs,
         SubmitLogin(t) \/ LoginAnswered(t) \/ SubmitLogout(t) \/ LogoutAnswered(t)
  PROVE  UseInv'
<1>0. /\ t[1] \in Browsers /\ jar \in [Browsers -> Jar] /\ tab \in [Tabs -> Tab]
      /\ "login" \in Kinds /\ "logout" \in Kinds /\ "login" # "logout"
  BY DEF StoredInv, TypeOK, Tabs, Kinds
<1>1. CASE SubmitLogin(t)
  <2> DEFINE r == [pc |-> "create", token |-> jar[t[1]].refresh, session |-> 0]
  <2>1. request' = [request EXCEPT ![t]["login"] = r] /\ UNCHANGED <<sessions, jar, tab, call>>
    BY <1>1 DEF SubmitLogin, Post
  <2>2. r.pc = "create"
    OBVIOUS
  <2> HIDE DEF r
  <2> QED BY <2>1, <2>2, <1>0, RequestReplaced, RetryStays DEF UseInv
<1>2. CASE LoginAnswered(t)
  <2>1. Done(t, "login") /\ UNCHANGED <<sessions, call>>
    BY <1>2 DEF LoginAnswered
  <2>2. CASE UNCHANGED <<jar, tab>>
    <3>1. request' = [request EXCEPT ![t]["login"] = NoRequest] /\ NoRequest.pc = "idle"
      BY <2>1 DEF Done, NoRequest
    <3> QED BY <2>1, <2>2, <3>1, <1>0, RequestReplaced, RetryStays DEF UseInv
  <2>3. CASE /\ At(t, "login", "answered")
             /\ jar' = [jar EXCEPT ![t[1]] = Signed(request[t]["login"].session)]
             /\ tab' = [tab EXCEPT ![t].page = "app"]
    <3>1. \A u \in Tabs : u # t => tab'[u].refreshPromise = tab[u].refreshPromise
      BY <2>3, <1>0
    <3>2. OneRequest' /\ OneJar' /\ UsedIsRevoked'
      BY <2>1, <2>3, <3>1, <1>0, Delivered
    <3>3. \A b \in Browsers : jar'[b] = jar[b] \/ jar'[b].access
      BY <2>3, <1>0 DEF Signed
    <3>4. RetryHasAccess'
      <4> SUFFICES ASSUME NEW u \in Tabs, NEW c \in Calls, call[u][c] = "retry"
                   PROVE  jar'[u[1]].access \/ jar'[u[1]].refresh = 0
        BY <2>1 DEF RetryHasAccess
      <4>1. u[1] \in Browsers
        BY DEF Tabs
      <4> QED BY <3>3, <4>1 DEF UseInv, RetryHasAccess
    <3> QED BY <3>2, <3>4 DEF UseInv
  <2> QED BY <1>2, <2>2, <2>3 DEF LoginAnswered
<1>3. CASE SubmitLogout(t)
  <2> DEFINE r == [pc |-> "end", token |-> jar[t[1]].refresh, session |-> 0]
  <2>1. request' = [request EXCEPT ![t]["logout"] = r] /\ UNCHANGED <<sessions, jar, call>>
    BY <1>3 DEF SubmitLogout, Post
  <2>2. r.pc = "end"
    OBVIOUS
  <2>3. \A u \in Tabs : tab'[u].refreshPromise = tab[u].refreshPromise
    <3> DEFINE old == tab[t]
    <3>1. tab' = [tab EXCEPT ![t] = [old EXCEPT !.page = "login"]]
      BY <1>3 DEF SubmitLogout
    <3>2. old \in Tab
      BY <1>0
    <3> HIDE DEF old
    <3>3. [old EXCEPT !.page = "login"].refreshPromise = old.refreshPromise
      BY <3>2 DEF Tab
    <3> QED BY <3>1, <3>3, <1>0 DEF old
  <2> HIDE DEF r
  <2> QED BY <2>1, <2>2, <2>3, <1>0, RequestReplaced, RetryStays DEF UseInv
<1>4. CASE LogoutAnswered(t)
  <2>1. Done(t, "logout") /\ UNCHANGED <<sessions, tab, call>>
    BY <1>4 DEF LogoutAnswered
  <2>2. \A b \in Browsers : jar'[b] = jar[b] \/ jar'[b].refresh = 0
    BY <1>4, <1>0 DEF LogoutAnswered, NoCookies
  <2>3. request' = [request EXCEPT ![t]["logout"] = NoRequest] /\ NoRequest.pc = "idle"
    BY <2>1 DEF Done, NoRequest
  <2>4. OneRequest' /\ OneJar' /\ UsedIsRevoked'
    BY <2>1, <2>2, <2>3, <1>0, RequestReplaced
  <2>5. RetryHasAccess'
    <3> SUFFICES ASSUME NEW u \in Tabs, NEW c \in Calls, call[u][c] = "retry"
                 PROVE  jar'[u[1]].access \/ jar'[u[1]].refresh = 0
      BY <2>1 DEF RetryHasAccess
    <3>1. u[1] \in Browsers
      BY DEF Tabs
    <3> QED BY <2>2, <3>1 DEF UseInv, RetryHasAccess
  <2> QED BY <2>4, <2>5 DEF UseInv
<1> QED BY <1>1, <1>2, <1>3, <1>4

\* Where an unauthorized call leaves the window: it waits as before unless it
\* is loaded anew, and nothing is newly to be sent again.
LEMMA UnauthorizedLeaves ==
  ASSUME TypeOK, NEW t \in Tabs, NEW ended, NEW promise, Unauthorized(t, ended, promise)
  PROVE  /\ \A u \in Tabs : u # t => tab'[u] = tab[u]
         /\ tab'[t].refreshPromise \in {promise, None}
         /\ tab[t].page # "app" => tab'[t].refreshPromise = promise
         /\ \A u \in Tabs, c \in Calls : call'[u][c] = "retry" => call[u][c] = "retry"
<1> DEFINE reload == tab[t].page = "app"
           cs == [d \in Calls |-> IF reload \/ d \in ended THEN "idle" ELSE call[t][d]]
           w == [page |-> "login", refreshPromise |-> IF reload THEN None ELSE promise]
<1>1. call' = [call EXCEPT ![t] = cs] /\ tab' = [tab EXCEPT ![t] = w]
  BY DEF Unauthorized
<1>2. \A c \in Calls : cs[c] = "retry" => call[t][c] = "retry"
  OBVIOUS
<1>3. w.refreshPromise \in {promise, None} /\ (~reload => w.refreshPromise = promise)
  OBVIOUS
<1> HIDE DEF cs, w
<1>4. \A u \in Tabs : u # t => tab'[u] = tab[u] /\ call'[u] = call[u]
  BY <1>1 DEF TypeOK
<1>5. tab'[t] = w /\ call'[t] = cs
  BY <1>1 DEF TypeOK
<1> QED BY <1>2, <1>3, <1>4, <1>5

\* With one window, a window that waits for no refresh presents no token of
\* its cookies, and so may present it.
LEMMA SilentUses ==
  ASSUME StoredInv, UseInv, OneWindow, NEW t \in Tabs, NEW c \in Calls, SilentRefresh(t, c)
  PROVE  UseInv'
<1>0. /\ t[1] \in Browsers /\ jar \in [Browsers -> Jar] /\ tab \in [Tabs -> Tab]
      /\ call \in [Tabs -> [Calls -> CallState]]
      /\ c \in Kinds /\ c # "logout"
  BY SessionsAssumption DEF StoredInv, TypeOK, Tabs, Kinds
<1>1. UNCHANGED <<sessions, jar>> /\ \A u \in Tabs, d \in Calls : call'[u][d] = "retry" => call[u][d] = "retry"
  BY <1>0 DEF SilentRefresh
<1>2. RetryHasAccess'
  BY <1>1 DEF UseInv, RetryHasAccess
<1>3. CASE ~MustRefresh(t)
  <2>1. UNCHANGED <<request, tab>>
    BY <1>3 DEF SilentRefresh
  <2> QED BY <1>1, <1>2, <2>1 DEF UseInv, OneRequest, OneJar, UsedIsRevoked, Presents, Brings, At
<1>4. CASE MustRefresh(t)
  <2> DEFINE s == jar[t[1]].refresh
             r == [pc |-> IF s = 0 THEN "refused" ELSE "lookup", token |-> s, session |-> 0]
  <2>1. /\ request' = [request EXCEPT ![t][c] = r]
        /\ tab' = [tab EXCEPT ![t].refreshPromise = c]
        /\ tab[t].refreshPromise = None
    BY <1>4 DEF SilentRefresh, Post, MustRefresh
  <2>2. \A u \in Tabs : tab'[u].refreshPromise = IF u = t THEN c ELSE tab[u].refreshPromise
    <3> DEFINE old == tab[t]
    <3>1. tab' = [tab EXCEPT ![t] = [old EXCEPT !.refreshPromise = c]] /\ old \in Tab
      BY <2>1, <1>0
    <3> HIDE DEF old
    <3>2. [old EXCEPT !.refreshPromise = c].refreshPromise = c
      BY <3>1 DEF Tab
    <3> QED BY <3>1, <3>2, <1>0
  <2>3. /\ s = 0 => r.pc = "refused"
        /\ s # 0 => r.pc = "lookup" /\ s \in DOMAIN sessions
        /\ r.token = s
    BY Named, <1>0
  <2>4. ASSUME NEW u \in Tabs, NEW l \in Kinds, Presents(u, l)
        PROVE  request[u][l].token # s
    <3> SUFFICES ASSUME request[u][l].token = s PROVE FALSE
      OBVIOUS
    <3>1. u[1] = t[1] /\ tab[u].refreshPromise = l
      BY <1>0, <2>4 DEF UseInv, OneJar
    <3>2. u = t
      BY <3>1 DEF OneWindow, Tabs
    <3>3. l = None
      BY <2>1, <3>1, <3>2
    <3> QED BY <3>3, SessionsAssumption DEF Kinds
  <2>5. \A u \in Tabs, l \in Kinds : Brings(u, l) => request[u][l].session # s
    BY <1>0 DEF UseInv, OneJar
  <2>6. \A b \in Browsers : jar[b].refresh = s => b = t[1] \/ s = 0
    BY <1>0 DEF UseInv, OneJar
  <2> HIDE DEF r, s
  <2>7. request'[t][c] = r /\ \A u \in Tabs, l \in Kinds : <<u, l>> # <<t, c>> => request'[u][l] = request[u][l]
    BY <2>1, <1>0 DEF StoredInv, TypeOK
  <2>8. ASSUME NEW u \in Tabs, NEW l \in Kinds
        PROVE  /\ Presents(u, l)' => \/ u = t /\ l = c /\ request'[u][l].token = s /\ s # 0 /\ s \in DOMAIN sessions
                                     \/ <<u, l>> # <<t, c>> /\ Presents(u, l) /\ request'[u][l] = request[u][l]
               /\ Brings(u, l)' => Brings(u, l) /\ request'[u][l] = request[u][l]
               /\ At(u, l, "revoke")' => At(u, l, "revoke") /\ request'[u][l].token = request[u][l].token
    <3>1. CASE <<u, l>> = <<t, c>>
      BY <3>1, <2>3, <2>7 DEF Presents, Brings, At
    <3>2. CASE <<u, l>> # <<t, c>>
      BY <3>2, <2>7 DEF Presents, Brings, At
    <3> QED BY <3>1, <3>2
  <2>9. OneRequest'
    BY <1>1, <2>4, <2>5, <2>8 DEF UseInv, OneRequest
  <2>10. OneJar'
    <3>1. ASSUME NEW b \in Browsers, NEW u \in Tabs, NEW l \in Kinds, Presents(u, l)', request'[u][l].token = jar[b].refresh
          PROVE  u[1] = b /\ tab'[u].refreshPromise = l
      <4>1. CASE u = t /\ l = c /\ request'[u][l].token = s /\ s # 0
        BY <4>1, <3>1, <2>2, <2>6
      <4>2. CASE Presents(u, l) /\ request'[u][l] = request[u][l]
        <5>1. u[1] = b /\ tab[u].refreshPromise = l
          BY <4>2, <3>1 DEF UseInv, OneJar
        <5>2. u # t
          BY <5>1, <2>1, SessionsAssumption DEF Kinds
        <5> QED BY <5>1, <5>2, <2>2
      <4> QED BY <3>1, <2>8, <4>1, <4>2
    <3> QED BY <1>1, <2>8, <3>1 DEF UseInv, OneJar
  <2>11. UsedIsRevoked'
    BY <1>1, <2>8, NoneUsed
  <2> QED BY <1>2, <2>9, <2>10, <2>11 DEF UseInv
<1> QED BY <1>3, <1>4

LEMMA CallsUse ==
  ASSUME StoredInv, UseInv, NEW t \in Tabs, NEW c \in Calls,
         SendCall(t, c) \/ RefreshAnswered(t, c) \/ RefreshFailed(t, c) \/ RetryCall(t, c)
  PROVE  UseInv'
<1>0. /\ t[1] \in Browsers /\ jar \in [Browsers -> Jar] /\ tab \in [Tabs -> Tab]
      /\ call \in [Tabs -> [Calls -> CallState]]
      /\ c \in Kinds /\ c # "logout" /\ NoRequest.pc = "idle" /\ TypeOK
  BY SessionsAssumption DEF StoredInv, TypeOK, Tabs, Kinds, NoRequest
<1>1. CASE SendCall(t, c)
  <2>1. UNCHANGED <<sessions, jar, tab, request>>
    BY <1>1 DEF SendCall
  <2>2. \A u \in Tabs, d \in Calls : call'[u][d] = "retry" => call[u][d] = "retry"
    BY <1>0, <1>1 DEF SendCall
  <2> QED BY <2>1, <2>2 DEF UseInv, OneRequest, OneJar, UsedIsRevoked, RetryHasAccess, Presents, Brings, At
<1>2. CASE RefreshAnswered(t, c)
  <2>1. At(t, c, "answered") /\ Done(t, c) /\ UNCHANGED sessions
    BY <1>2 DEF RefreshAnswered
  <2>2. CASE UNCHANGED <<jar, tab, call>>
    <3>1. request' = [request EXCEPT ![t][c] = NoRequest]
      BY <2>1 DEF Done
    <3> QED BY <2>1, <2>2, <3>1, <1>0, RequestReplaced, RetryStays DEF UseInv
  <2>3. CASE jar' = [jar EXCEPT ![t[1]] = Signed(request[t][c].session)]
    <3>1. \A u \in Tabs : u # t => tab'[u].refreshPromise = tab[u].refreshPromise /\ call'[u] = call[u]
      BY <1>0, <1>2 DEF RefreshAnswered
    <3>2. OneRequest' /\ OneJar' /\ UsedIsRevoked'
      BY <2>1, <2>3, <3>1, <1>0, Delivered
    <3>3. jar'[t[1]].access /\ \A b \in Browsers : jar'[b] = jar[b] \/ jar'[b].access
      BY <2>3, <1>0 DEF Signed
    <3>4. RetryHasAccess'
      <4> SUFFICES ASSUME NEW u \in Tabs, NEW d \in Calls, call'[u][d] = "retry"
                   PROVE  jar'[u[1]].access \/ jar'[u[1]].refresh = 0
        BY DEF RetryHasAccess
      <4>1. CASE u = t
        BY <4>1, <3>3
      <4>2. CASE u # t
        <5>1. u[1] \in Browsers /\ call[u][d] = "retry"
          BY <3>1, <4>2 DEF Tabs
        <5> QED BY <5>1, <3>3 DEF UseInv, RetryHasAccess
      <4> QED BY <4>1, <4>2
    <3> QED BY <3>2, <3>4 DEF UseInv
  <2> QED BY <1>2, <2>2, <2>3 DEF RefreshAnswered
<1>3. CASE RefreshFailed(t, c)
  <2>1. Done(t, c) /\ UNCHANGED <<sessions, jar>>
    BY <1>3 DEF RefreshFailed
  <2>2. CASE UNCHANGED <<call, tab>>
    <3>1. request' = [request EXCEPT ![t][c] = NoRequest]
      BY <2>1 DEF Done
    <3> QED BY <2>1, <2>2, <3>1, <1>0, RequestReplaced, RetryStays DEF UseInv
  <2>3. CASE tab[t].refreshPromise = c /\ Unauthorized(t, {d \in Calls : call[t][d] = "waiting"}, Settled(t))
    <3>1. /\ \A u \in Tabs : u # t => tab'[u] = tab[u]
          /\ \A u \in Tabs, d \in Calls : call'[u][d] = "retry" => call[u][d] = "retry"
      BY <2>3, <1>0, UnauthorizedLeaves
    <3>2. ASSUME NEW u \in Tabs, NEW l \in Kinds, <<u, l>> # <<t, c>>, Presents(u, l),
                 request[u][l].token = jar'[u[1]].refresh
          PROVE  tab'[u].refreshPromise = tab[u].refreshPromise
      <4>1. u[1] \in Browsers
        BY DEF Tabs
      <4>2. tab[u].refreshPromise = l
        BY <2>1, <3>2, <4>1 DEF UseInv, OneJar
      <4>3. u # t
        BY <2>3, <3>2, <4>2
      <4> QED BY <3>1, <4>3
    <3>3. request' = [request EXCEPT ![t][c] = NoRequest]
      BY <2>1 DEF Done
    <3>4. /\ NoRequest.pc \notin {"lookup", "revoke"}
          /\ c # "logout" => NoRequest.pc \notin {"sign", "answered"}
          /\ \A b \in Browsers : jar'[b].refresh \in {0, jar[b].refresh}
      BY <2>1 DEF NoRequest
    <3>5. UNCHANGED sessions /\ c \in Kinds
      BY <2>1 DEF Kinds
    <3>6. OneRequest' /\ OneJar' /\ UsedIsRevoked'
      <4> HIDE DEF UseInv, OneJar, RetryHasAccess
      <4>1. /\ StoredInv /\ UseInv /\ UNCHANGED sessions /\ t \in Tabs /\ c \in Kinds
            /\ \A u \in Tabs, l \in Kinds :
                 <<u, l>> # <<t, c>> /\ Presents(u, l) /\ request[u][l].token = jar'[u[1]].refresh
                   => tab'[u].refreshPromise = tab[u].refreshPromise
        BY <3>2, <3>5
      <4> QED BY ONLY <4>1, <3>3, <3>4, RequestReplaced
    <3> QED BY <2>1, <3>1, <3>6 DEF UseInv, RetryHasAccess
  <2> QED BY <1>3, <2>2, <2>3 DEF RefreshFailed
<1>4. CASE RetryCall(t, c)
  <2>1. UNCHANGED <<sessions, jar, request>> /\ call[t][c] = "retry"
    BY <1>4 DEF RetryCall
  <2>2. CASE jar[t[1]].access
    <3>1. tab' = tab /\ \A u \in Tabs, d \in Calls : call'[u][d] = "retry" => call[u][d] = "retry"
      BY <1>0, <1>4, <2>2 DEF RetryCall
    <3> QED BY <2>1, <3>1 DEF UseInv, OneRequest, OneJar, UsedIsRevoked, RetryHasAccess, Presents, Brings, At
  <2>3. CASE ~jar[t[1]].access
    <3>1. jar[t[1]].refresh = 0
      BY <2>1, <2>3 DEF UseInv, RetryHasAccess
    <3>2. Unauthorized(t, {c}, tab[t].refreshPromise)
      BY <1>4, <2>3 DEF RetryCall
    <3>3. /\ \A u \in Tabs : u # t => tab'[u] = tab[u]
          /\ \A u \in Tabs, d \in Calls : call'[u][d] = "retry" => call[u][d] = "retry"
      BY <3>2, <1>0, UnauthorizedLeaves
    <3>4. \A u \in Tabs, l \in Kinds : Presents(u, l)' => Presents(u, l) /\ request'[u][l].token = request[u][l].token
      BY <2>1 DEF Presents
    <3>5. \A u \in Tabs, l \in Kinds : Brings(u, l)' => Brings(u, l) /\ request'[u][l].session = request[u][l].session
      BY <2>1 DEF Brings
    <3>6. ASSUME NEW u \in Tabs, NEW l \in Kinds, Presents(u, l)', request[u][l].token = jar'[u[1]].refresh
          PROVE  tab'[u].refreshPromise = tab[u].refreshPromise
      <4>1. request[u][l].token # 0
        BY <3>4, <3>6, Named DEF UseInv, OneRequest
      <4>2. u # t
        BY <2>1, <3>1, <3>6, <4>1
      <4> QED BY <3>3, <4>2
    <3>7. OneRequest' /\ OneJar'
      BY <2>1, <3>4, <3>5, <3>6, NobodyNew
    <3> QED BY <2>1, <3>3, <3>7 DEF UseInv, UsedIsRevoked, RetryHasAccess, At
  <2> QED BY <2>2, <2>3
<1> QED BY <1>1, <1>2, <1>3, <1>4

LEMMA ExpiryUses ==
  ASSUME StoredInv, UseInv, NEW b \in Browsers, AccessExpires(b)
  PROVE  UseInv'
<1>1. /\ UNCHANGED <<sessions, tab, call, request>>
      /\ \A a \in Browsers : jar'[a].refresh = jar[a].refresh /\ (a # b => jar'[a] = jar[a])
  BY DEF AccessExpires, StoredInv, TypeOK, Jar
<1>2. RetryHasAccess'
  <2> SUFFICES ASSUME NEW t \in Tabs, NEW c \in Calls, call[t][c] = "retry"
               PROVE  jar'[t[1]].access \/ jar'[t[1]].refresh = 0
    BY <1>1 DEF RetryHasAccess
  <2>1. PICK a \in Browsers, w \in Windows : t = <<a, w>>
    BY DEF Tabs
  <2>2. a # b
    BY <2>1 DEF AccessExpires
  <2> QED BY <1>1, <2>1, <2>2 DEF UseInv, RetryHasAccess
<1> QED BY <1>1, <1>2 DEF UseInv, OneRequest, OneJar, UsedIsRevoked, Presents, Brings, At

\* If browsers have one window, no refresh token is used twice, for any number
\* of browsers, calls that are refused at a time, logins, logouts and requests
\* that die (silentRefresh, AuthService.refresh).
THEOREM UsedOnlyOnce ==
  ASSUME OneWindow
  PROVE  Spec => []UsedOnce
<1>1. Init => UseInv
  <2> SUFFICES ASSUME Init PROVE UseInv
    OBVIOUS
  <2>1. \A t \in Tabs, k \in Kinds : request[t][k].pc = "idle"
    BY DEF Init, NoRequest
  <2>2. \A b \in Browsers : jar[b].refresh = 0
    BY DEF Init, NoCookies
  <2>3. \A t \in Tabs, c \in Calls : call[t][c] # "retry"
    BY DEF Init
  <2>4. DOMAIN sessions = {}
    BY DEF Init
  <2> QED BY <2>1, <2>2, <2>3, <2>4 DEF UseInv, OneRequest, OneJar, UsedIsRevoked, RetryHasAccess, Presents, Brings, At
<1>2. StoredInv /\ UseInv /\ [Next]_vars => UseInv'
  <2> SUFFICES ASSUME StoredInv, UseInv, [Next]_vars PROVE UseInv'
    OBVIOUS
  <2>1. CASE UNCHANGED vars
    BY <2>1 DEF vars, UseInv, OneRequest, OneJar, UsedIsRevoked, RetryHasAccess, Presents, Brings, At
  <2>2. CASE \E b \in Browsers : AccessExpires(b)
    BY <2>2, ExpiryUses
  <2>3. ASSUME NEW t \in Tabs,
               \/ SubmitLogin(t) \/ SubmitLogout(t) \/ BrowserStep(t)
               \/ \E c \in Calls : SendCall(t, c)
               \/ \E k \in Kinds : ServerStep(t, k) \/ RequestDies(t, k)
        PROVE  UseInv'
    BY <2>3, FormsUse, CallsUse, SilentUses, ServerUses DEF BrowserStep
  <2> QED BY <2>1, <2>2, <2>3 DEF Next
<1>3. UseInv => UsedOnce
  BY DEF UseInv, UsedIsRevoked, UsedOnce
<1> QED BY <1>1, <1>2, <1>3, InitStored, StoredInductive, PTL DEF Spec
=============================================================================

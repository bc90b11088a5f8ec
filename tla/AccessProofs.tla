---------------------------- MODULE AccessProofs ----------------------------
(* Theorems about Access, for any sets of ids, browsers and handlers.       *)
EXTENDS Access, TLAPS

Signing == BeforeMint \cup {"minted"}

\* A handler that signs somebody in knows who, and from which flow.
SigningKnows ==
    \A h \in Handlers : req[h].at \in Signing => req[h].flow \in Flows /\ req[h].user \in Users

\* Whatever came out of a flow, the flow is gone.
SpentFlows ==
    /\ \A h \in Handlers : req[h].flow # NoFlow => flow[req[h].flow] = "gone"
    /\ \A s \in Rows : flow[session[s].flow] = "gone"

AccessInv == TypeOK /\ SigningKnows /\ SpentFlows /\ FlowUsedOnce

LEMMA InitInv == Init => AccessInv
BY AccessAssumption DEF Init, AccessInv, TypeOK, SigningKnows, SpentFlows, FlowUsedOnce,
       Rows, Rested, Request, Requests, Doing, Signing, BeforeMint

\* The rows stay rows, of the flows they came from.
SameOrigins ==
    /\ session' \in [Sessions -> SessionRow \cup {NoSession}]
    /\ \A s \in Sessions : session'[s] = NoSession <=> session[s] = NoSession
    /\ \A s \in Rows : session'[s].flow = session[s].flow

\* A step that changes rows only so, and accounts and tokens as it may.
LEMMA RowsOnly ==
    ASSUME AccessInv, SameOrigins, UNCHANGED <<flow, cookie, req>>,
           account' \in [Users -> {"none", "enabled", "disabled"}],
           token' \in [Tokens -> {"none", "valid", "revoked"}]
    PROVE  AccessInv'
<1>1. Rows' = Rows BY DEF SameOrigins, Rows
<1>2. TypeOK' BY <1>1 DEF SameOrigins, AccessInv, TypeOK
<1>3. SigningKnows' BY DEF AccessInv, SigningKnows
<1>4. SpentFlows' BY <1>1 DEF SameOrigins, AccessInv, SpentFlows
<1>5. FlowUsedOnce' BY <1>1 DEF SameOrigins, AccessInv, FlowUsedOnce
<1> QED BY <1>2, <1>3, <1>4, <1>5 DEF AccessInv

\* A step of one handler that claims no flow and mints no session: it keeps the
\* flow it had or lets go of it, and signs nobody in who was not on the way.
LEMMA OneHandler ==
    ASSUME AccessInv, SameOrigins, UNCHANGED <<account, flow, token>>,
           NEW h \in Handlers, NEW r \in Requests, req' = [req EXCEPT ![h] = r],
           \/ r.flow = NoFlow /\ r.at \notin Signing
           \/ r.flow = req[h].flow /\ r.user = req[h].user /\ req[h].at \in BeforeMint
              /\ r.at \in BeforeMint
           \/ r.flow = req[h].flow /\ r.at \notin Signing,
           r.at \in {"minted", "renewing"} => r.session \in Rows,
           cookie' \in [Browsers -> Rows \cup {NoSession}]
    PROVE  AccessInv'
<1>1. Rows' = Rows BY DEF SameOrigins, Rows
<1>2. /\ req'[h] = r
      /\ \A i \in Handlers : i # h => req'[i] = req[i]
  BY DEF AccessInv, TypeOK
<1>3. TypeOK'
  <2>1. req' \in [Handlers -> Requests] BY DEF AccessInv, TypeOK
  <2>2. \A i \in Handlers : req'[i].at \in {"minted", "renewing"} => req'[i].session \in Rows
    BY <1>2 DEF AccessInv, TypeOK
  <2>3. cookie' \in [Browsers -> Sessions \cup {NoSession}] BY DEF Rows
  <2> QED BY <1>1, <2>1, <2>2, <2>3 DEF SameOrigins, AccessInv, TypeOK
<1>4. SigningKnows' BY <1>2 DEF AccessInv, SigningKnows, Signing
<1>5. SpentFlows' BY <1>1, <1>2 DEF SameOrigins, AccessInv, SpentFlows
<1>6. FlowUsedOnce'
  <2>1. \A i \in Handlers : req'[i].flow # NoFlow => req'[i].flow = req[i].flow BY <1>2
  <2>2. \A i, j \in Handlers : i # j /\ req'[i].flow = req'[j].flow => req'[i].flow = NoFlow
    BY <2>1 DEF AccessInv, FlowUsedOnce
  <2>3. \A i \in Handlers : req'[i].at \in BeforeMint =>
          req[i].at \in BeforeMint /\ req'[i].flow = req[i].flow
    BY <1>2 DEF Signing
  <2> QED BY <1>1, <2>2, <2>3 DEF SameOrigins, AccessInv, FlowUsedOnce
<1> QED BY <1>3, <1>4, <1>5, <1>6 DEF AccessInv

LEMMA SameRows == ASSUME AccessInv, UNCHANGED session PROVE SameOrigins
BY DEF SameOrigins, AccessInv, TypeOK

\* A handler rests.
LEMMA Resting == Rested \in Requests /\ Rested.flow = NoFlow
                                                /\ Rested.at = "idle"
BY DEF Rested, Request, Requests, Doing

\* The administration touches accounts, tokens and sessions.
LEMMA AdminInv ==
    ASSUME AccessInv, Administer
    PROVE  AccessInv'
<1>1. ASSUME NEW u \in Users, CreateUser(u) PROVE AccessInv'
  BY <1>1, SameRows, RowsOnly DEF CreateUser, AccessInv, TypeOK
<1>2. ASSUME NEW u \in Users, DisableUser(u) PROVE AccessInv'
  <2> DEFINE cut(s) == [session[s] EXCEPT !.revoked = TRUE]
  <2>1. ASSUME NEW s \in Rows
        PROVE  cut(s) \in SessionRow /\ cut(s).flow = session[s].flow
    BY <2>1 DEF Rows, AccessInv, TypeOK, SessionRow
  <2>t. session' = [s \in Sessions |->
          IF s \in Rows /\ session[s].user = u THEN cut(s) ELSE session[s]]
    BY <1>2 DEF DisableUser
  <2> HIDE DEF cut
  <2>2. \A s \in Sessions : session'[s] = session[s] \/ (s \in Rows /\ session'[s] = cut(s))
    BY <2>t
  <2>3. SameOrigins
    <3>1. \A s \in Sessions : session'[s] \in SessionRow \cup {NoSession}
      BY <2>1, <2>2 DEF AccessInv, TypeOK
    <3>2. session' \in [Sessions -> SessionRow \cup {NoSession}]
      BY <2>t, <3>1
    <3>3. \A s \in Sessions : session'[s] = NoSession <=> session[s] = NoSession
      BY <2>1, <2>2, AccessAssumption DEF Rows
    <3> QED BY <2>1, <2>2, <3>2, <3>3 DEF SameOrigins, Rows
  <2> QED BY <1>2, <2>3, RowsOnly DEF DisableUser, AccessInv, TypeOK
<1>3. ASSUME NEW t \in Tokens, CreateToken(t) \/ RevokeToken(t) PROVE AccessInv'
  BY <1>3, SameRows, RowsOnly DEF CreateToken, RevokeToken, AccessInv, TypeOK
<1> QED BY <1>1, <1>2, <1>3 DEF Administer

\* A sign-in.
LEMMA SignInInv ==
    ASSUME AccessInv, NEW h \in Handlers, SignIn(h)
    PROVE  AccessInv'
<1>t. req \in [Handlers -> Requests] /\ flow \in [Flows -> {"unborn", "open", "expired", "gone"}]
      /\ session \in [Sessions -> SessionRow \cup {NoSession}]
      /\ cookie \in [Browsers -> Rows \cup {NoSession}]
  BY DEF AccessInv, TypeOK
<1>1. ASSUME NEW b \in Browsers, NEW f \in Flows, NEW u \in Users, ClaimFlow(h, b, f, u)
      PROVE  AccessInv'
  <2>1. CASE flow[f] = "open"
    <3> DEFINE r == Request("claimed", b, f, u, NoSession)
    <3>1. r \in Requests /\ r.at = "claimed" /\ r.flow = f /\ r.user = u
      BY DEF Request, Requests, Doing
    <3> HIDE DEF r
    <3>2. req' = [req EXCEPT ![h] = r] BY <1>1, <2>1 DEF ClaimFlow, r
    <3>3. req'[h] = r /\ \A i \in Handlers : i # h => req'[i] = req[i] BY <3>2, <1>t
    <3>4. flow'[f] = "gone" /\ \A g \in Flows : g # f => flow'[g] = flow[g]
      BY <1>1, <1>t DEF ClaimFlow
    <3>5. /\ \A i \in Handlers : req[i].flow # f
          /\ \A s \in Rows : session[s].flow # f
      BY <2>1, AccessAssumption DEF AccessInv, SpentFlows
    <3>6. UNCHANGED <<account, session, token, cookie>> /\ Rows' = Rows
      BY <1>1 DEF ClaimFlow, Rows
    <3>7. TypeOK'
      <4>1. req' \in [Handlers -> Requests] BY <3>1, <3>2, <1>t
      <4>2. flow' \in [Flows -> {"unborn", "open", "expired", "gone"}]
        BY <1>1, <1>t DEF ClaimFlow
      <4>3. \A i \in Handlers : req'[i].at \in {"minted", "renewing"} => req'[i].session \in Rows
        BY <3>1, <3>3 DEF AccessInv, TypeOK
      <4> QED BY <4>1, <4>2, <4>3, <3>6 DEF AccessInv, TypeOK
    <3>8. SigningKnows' BY <3>1, <3>3 DEF AccessInv, SigningKnows
    <3>9. SpentFlows'
      <4>1. \A i \in Handlers : req'[i].flow # NoFlow => flow'[req'[i].flow] = "gone"
        <5> SUFFICES ASSUME NEW i \in Handlers, req'[i].flow # NoFlow
                     PROVE  flow'[req'[i].flow] = "gone"
          OBVIOUS
        <5>1. CASE i = h BY <5>1, <3>1, <3>3, <3>4
        <5>2. CASE i # h
          <6>1. req[i] \in Requests BY <1>t
          <6>2. req[i].flow \in Flows BY <5>2, <3>3, <6>1 DEF Requests
          <6> QED BY <5>2, <3>3, <3>4, <3>5, <6>2 DEF AccessInv, SpentFlows
        <5> QED BY <5>1, <5>2
      <4>2. \A s \in Rows : session[s].flow \in Flows BY <1>t DEF Rows, SessionRow
      <4> QED BY <4>1, <4>2, <3>4, <3>5, <3>6 DEF AccessInv, SpentFlows
    <3>10. FlowUsedOnce' BY <3>1, <3>3, <3>5, <3>6 DEF AccessInv, FlowUsedOnce
    <3> QED BY <3>7, <3>8, <3>9, <3>10 DEF AccessInv
  <2>2. CASE flow[f] # "open"
    <3>1. UNCHANGED <<account, session, token, cookie, req>> BY <1>1, <2>2 DEF ClaimFlow
    <3>2. \A g \in Flows : flow[g] = "gone" => flow'[g] = "gone" BY <1>1, <1>t DEF ClaimFlow
    <3>3. flow' \in [Flows -> {"unborn", "open", "expired", "gone"}]
      BY <1>1, <1>t DEF ClaimFlow
    <3>4. TypeOK' BY <3>1, <3>3 DEF AccessInv, TypeOK, Rows
    <3>5. SpentFlows'
      <4>1. \A i \in Handlers : req[i].flow # NoFlow => req[i].flow \in Flows
        BY <1>t DEF Requests
      <4>2. \A s \in Rows : session[s].flow \in Flows BY <1>t DEF Rows, SessionRow
      <4> QED BY <3>1, <3>2, <4>1, <4>2 DEF AccessInv, SpentFlows, Rows
    <3> QED BY <3>1, <3>4, <3>5 DEF AccessInv, SigningKnows, FlowUsedOnce, Rows
  <2> QED BY <2>1, <2>2
<1>2. ASSUME CheckAccount(h) PROVE AccessInv'
  <2>1. ASSUME NEW p \in {"verified", "minting"}, req[h].at \in BeforeMint,
               req' = [req EXCEPT ![h].at = p], UNCHANGED <<stores, cookie>>
        PROVE  AccessInv'
    <3> DEFINE r == [req[h] EXCEPT !.at = p]
    <3>1. r \in Requests /\ r.at = p /\ r.flow = req[h].flow /\ r.user = req[h].user
      BY <1>t DEF Requests, Doing
    <3>2. req' = [req EXCEPT ![h] = r] BY <2>1
    <3> HIDE DEF r
    <3> QED BY <2>1, <3>1, <3>2, <1>t, SameRows, OneHandler DEF stores, BeforeMint
  <2>2. ASSUME req' = [req EXCEPT ![h] = Rested], UNCHANGED <<stores, cookie>>
        PROVE  AccessInv'
    BY <2>2, <1>t, Resting, SameRows, OneHandler DEF stores, Signing, BeforeMint
  <2>3. CASE account[req[h].user] = "enabled"
    <3>1. PICK p \in {"verified", "minting"} : req' = [req EXCEPT ![h].at = p]
      BY <1>2, <2>3 DEF CheckAccount
    <3> QED BY <1>2, <2>1, <3>1 DEF CheckAccount, BeforeMint
  <2>4. CASE account[req[h].user] # "enabled" BY <1>2, <2>2, <2>4 DEF CheckAccount
  <2> QED BY <2>3, <2>4
<1>3. ASSUME NEW s \in Sessions, MintSession(h, s) PROVE AccessInv'
  <2> DEFINE row == [user |-> req[h].user, age |-> "fresh", revoked |-> FALSE,
                     flow |-> req[h].flow]
             r == [req[h] EXCEPT !.at = "minted", !.session = s]
  <2>1. req[h].flow \in Flows /\ req[h].user \in Users /\ req[h].at = "minting" /\ s \notin Rows
    BY <1>3 DEF MintSession, AccessInv, SigningKnows, Signing, BeforeMint
  <2>2. row \in SessionRow /\ row.flow = req[h].flow BY <2>1 DEF SessionRow
  <2>3. r \in Requests /\ r.at = "minted" /\ r.flow = req[h].flow /\ r.user = req[h].user
        /\ r.session = s
    BY <1>t DEF Requests, Doing
  <2>4. session' = [session EXCEPT ![s] = row] /\ req' = [req EXCEPT ![h] = r]
        /\ UNCHANGED <<account, flow, token, cookie>>
    BY <1>3 DEF MintSession
  <2> HIDE DEF row, r
  <2>5. session'[s] = row /\ \A q \in Sessions : q # s => session'[q] = session[q]
    BY <2>4, <1>t
  <2>6. req'[h] = r /\ \A i \in Handlers : i # h => req'[i] = req[i] BY <2>4, <1>t
  <2>7. Rows' = Rows \cup {s} BY <2>2, <2>5, AccessAssumption DEF Rows
  <2>8. TypeOK'
    <3>1. req' \in [Handlers -> Requests] BY <2>3, <2>4, <1>t
    <3>2. session' \in [Sessions -> SessionRow \cup {NoSession}] BY <2>2, <2>4, <1>t
    <3>3. \A i \in Handlers : req'[i].at \in {"minted", "renewing"} => req'[i].session \in Rows'
      BY <2>3, <2>6, <2>7 DEF AccessInv, TypeOK
    <3> QED BY <2>4, <2>7, <3>1, <3>2, <3>3 DEF AccessInv, TypeOK
  <2>9. SigningKnows' BY <2>1, <2>3, <2>6 DEF AccessInv, SigningKnows
  <2>10. SpentFlows'
    BY <2>1, <2>2, <2>3, <2>4, <2>5, <2>6, <2>7, AccessAssumption DEF AccessInv, SpentFlows, Rows
  <2>11. FlowUsedOnce'
    <3>1. \A i \in Handlers : req'[i].flow = req[i].flow BY <2>3, <2>6
    <3>2. \A q \in Rows : session'[q].flow = session[q].flow
      BY <2>1, <2>5 DEF Rows
    <3>3. \A q \in Rows : session[q].flow # req[h].flow
      BY <2>1 DEF AccessInv, FlowUsedOnce, BeforeMint
    <3>4. session'[s].flow = req[h].flow BY <2>2, <2>5
    <3>5. \A i \in Handlers : req'[i].at \in BeforeMint => i # h /\ req[i].at = req'[i].at
      BY <2>3, <2>6 DEF BeforeMint
    <3>6. \A i \in Handlers : i # h => req[i].flow # req[h].flow
      BY <2>1, AccessAssumption DEF AccessInv, FlowUsedOnce
    <3> QED BY <2>7, <3>1, <3>2, <3>3, <3>4, <3>5, <3>6 DEF AccessInv, FlowUsedOnce
  <2> QED BY <2>8, <2>9, <2>10, <2>11 DEF AccessInv
<1>4. ASSUME AnswerLogin(h) PROVE AccessInv'
  <2>1. req' = [req EXCEPT ![h] = Rested] /\ UNCHANGED stores BY <1>4 DEF AnswerLogin
  <2>2. req[h].session \in Rows BY <1>4 DEF AnswerLogin, AccessInv, TypeOK
  <2>3. cookie' \in [Browsers -> Rows \cup {NoSession}] BY <1>4, <1>t, <2>2 DEF AnswerLogin
  <2> QED BY <2>1, <2>3, Resting, SameRows, OneHandler DEF stores, Signing, BeforeMint
<1> QED BY <1>1, <1>2, <1>3, <1>4 DEF SignIn

\* The requests of those who are in, or leave.
LEMMA ServeInv ==
    ASSUME AccessInv, NEW h \in Handlers, Serve(h)
    PROVE  AccessInv'
<1>t. req \in [Handlers -> Requests]
      /\ session \in [Sessions -> SessionRow \cup {NoSession}]
      /\ cookie \in [Browsers -> Rows \cup {NoSession}]
  BY DEF AccessInv, TypeOK
<1>1. ASSUME NEW b \in Browsers, Enter(h, b) PROVE AccessInv'
  <2> DEFINE r == Request(IF session[cookie[b]].age = "old" THEN "renewing" ELSE "inside",
                          b, NoFlow, session[cookie[b]].user, cookie[b])
  <2>1. cookie[b] \in Rows BY <1>1 DEF Enter, Accepted
  <2>2. session[cookie[b]].user \in Users BY <2>1, <1>t DEF Rows, SessionRow
  <2>3. r \in Requests BY <2>1, <2>2 DEF Request, Requests, Doing, Rows
  <2>4. r.flow = NoFlow /\ r.at \in {"renewing", "inside"} /\ r.session = cookie[b]
    BY DEF Request
  <2>5. req' = [req EXCEPT ![h] = r] /\ UNCHANGED <<stores, cookie>> BY <1>1 DEF Enter
  <2> HIDE DEF r
  <2> QED
    BY <2>1, <2>3, <2>4, <2>5, <1>t, SameRows, OneHandler DEF stores, Signing, BeforeMint
<1>2. ASSUME NEW b \in Browsers, Logout(h, b) PROVE AccessInv'
  <2> DEFINE r == Request("leaving", b, NoFlow, NoUser, NoSession)
  <2>1. r \in Requests /\ r.flow = NoFlow /\ r.at = "leaving" BY DEF Request, Requests, Doing
  <2>2. req' = [req EXCEPT ![h] = r] /\ UNCHANGED <<account, flow, token, cookie>>
    BY <1>2 DEF Logout
  <2> HIDE DEF r
  <2>3. SameOrigins
    <3>1. CASE UNCHANGED session BY <3>1, SameRows
    <3>2. CASE cookie[b] \in Rows /\ session' = [session EXCEPT ![cookie[b]].revoked = TRUE]
      <4> DEFINE row == [session[cookie[b]] EXCEPT !.revoked = TRUE]
      <4>1. row \in SessionRow /\ row.flow = session[cookie[b]].flow
        BY <3>2, <1>t DEF Rows, SessionRow
      <4>2. session' = [session EXCEPT ![cookie[b]] = row] BY <3>2
      <4> HIDE DEF row
      <4> QED BY <3>2, <4>1, <4>2, <1>t, AccessAssumption DEF SameOrigins, Rows
    <3> QED BY <1>2, <3>1, <3>2 DEF Logout
  <2> QED BY <2>1, <2>2, <2>3, <1>t, OneHandler DEF Signing, BeforeMint
<1>3. ASSUME NEW t \in Tokens, EnterByToken(h, t) PROVE AccessInv'
  <2> DEFINE r == Request("inside", NoSession, NoFlow, NoUser, NoSession)
  <2>1. r \in Requests /\ r.flow = NoFlow /\ r.at = "inside" BY DEF Request, Requests, Doing
  <2>2. req' = [req EXCEPT ![h] = r] /\ UNCHANGED <<stores, cookie>>
    BY <1>3 DEF EnterByToken
  <2> HIDE DEF r
  <2> QED BY <2>1, <2>2, <1>t, SameRows, OneHandler DEF stores, Signing, BeforeMint
<1>4. ASSUME Renew(h) PROVE AccessInv'
  <2> DEFINE r == [req[h] EXCEPT !.at = "inside"]
  <2>1. r \in Requests /\ r.flow = req[h].flow /\ r.at = "inside"
    BY <1>t DEF Requests, Doing
  <2>2. req' = [req EXCEPT ![h] = r] /\ UNCHANGED <<account, flow, token, cookie>>
    BY <1>4 DEF Renew
  <2> HIDE DEF r
  <2>3. req[h].session \in Rows BY <1>4 DEF Renew, AccessInv, TypeOK
  <2>4. SameOrigins
    <3>1. CASE UNCHANGED session BY <3>1, SameRows
    <3>2. CASE session' = [session EXCEPT ![req[h].session].age = "fresh"]
      <4> DEFINE s == req[h].session
                 row == [session[s] EXCEPT !.age = "fresh"]
      <4>1. row \in SessionRow /\ row.flow = session[s].flow
        BY <2>3, <1>t DEF Rows, SessionRow
      <4>2. session' = [session EXCEPT ![s] = row] BY <3>2
      <4>3. s \in Rows BY <2>3
      <4> HIDE DEF row, s
      <4> QED BY <4>1, <4>2, <4>3, <1>t, AccessAssumption DEF SameOrigins, Rows
    <3> QED BY <1>4, <3>1, <3>2 DEF Renew
  <2> QED BY <2>1, <2>2, <2>4, <1>t, OneHandler DEF Signing, BeforeMint
<1>5. ASSUME Leave(h) PROVE AccessInv'
  BY <1>5, <1>t, Resting, SameRows, OneHandler DEF Leave, stores, Signing, BeforeMint
<1>6. ASSUME AnswerLogout(h) PROVE AccessInv'
  <2>1. cookie' \in [Browsers -> Rows \cup {NoSession}] BY <1>6, <1>t DEF AnswerLogout
  <2> QED
    BY <1>6, <2>1, Resting, SameRows, OneHandler DEF AnswerLogout, stores, Signing, BeforeMint
<1> QED BY <1>1, <1>2, <1>3, <1>4, <1>5, <1>6 DEF Serve

\* Time, and the death of the process.
LEMMA TimeInv ==
    ASSUME AccessInv,
           \/ \E f \in Flows : BeginLogin(f) \/ FlowExpires(f)
           \/ \E s \in Sessions : SessionAges(s)
           \/ \E b \in Browsers : CookieExpires(b)
           \/ Restart
    PROVE  AccessInv'
<1>1. ASSUME NEW f \in Flows, BeginLogin(f) \/ FlowExpires(f) PROVE AccessInv'
  BY <1>1, AccessAssumption DEF BeginLogin, FlowExpires, AccessInv, TypeOK, SigningKnows,
              SpentFlows, FlowUsedOnce, Rows, SessionRow, Requests
<1>2. ASSUME NEW s \in Sessions, SessionAges(s) PROVE AccessInv'
  <2> DEFINE age == IF session[s].age = "fresh" THEN "old" ELSE "expired"
             row == [session[s] EXCEPT !.age = age]
  <2>1. row \in SessionRow /\ row.flow = session[s].flow
    BY <1>2 DEF SessionAges, Rows, SessionRow, AccessInv, TypeOK
  <2>2. session' = [session EXCEPT ![s] = row] /\ s \in Rows BY <1>2 DEF SessionAges
  <2> HIDE DEF row
  <2>3. SameOrigins
    BY <2>1, <2>2, AccessAssumption DEF SameOrigins, Rows, AccessInv, TypeOK
  <2> QED BY <1>2, <2>3, RowsOnly DEF SessionAges, AccessInv, TypeOK
<1>3. ASSUME NEW b \in Browsers, CookieExpires(b) PROVE AccessInv'
  BY <1>3 DEF CookieExpires, stores, AccessInv, TypeOK, SigningKnows, SpentFlows,
              FlowUsedOnce, Rows
<1>4. ASSUME Restart PROVE AccessInv'
  <2>1. Rows' = Rows /\ UNCHANGED <<account, session, token, cookie>> BY <1>4 DEF Restart, Rows
  <2>2. \A i \in Handlers : req'[i] = Rested BY <1>4 DEF Restart
  <2>3. req' \in [Handlers -> Requests] BY <1>4, Resting DEF Restart
  <2>4. flow' \in [Flows -> {"unborn", "open", "expired", "gone"}]
        /\ \A f \in Flows : flow[f] = "gone" => flow'[f] = "gone"
    BY <1>4 DEF Restart
  <2>5. TypeOK' BY <2>1, <2>2, <2>3, <2>4, Resting DEF AccessInv, TypeOK
  <2>6. SigningKnows' BY <2>2, Resting DEF SigningKnows, Signing, BeforeMint
  <2>7. SpentFlows'
    <3>1. \A s \in Rows : session[s].flow \in Flows
      BY DEF AccessInv, TypeOK, Rows, SessionRow
    <3> QED BY <2>1, <2>2, <2>4, <3>1, Resting DEF AccessInv, SpentFlows
  <2>8. FlowUsedOnce' BY <2>1, <2>2, Resting DEF AccessInv, FlowUsedOnce, BeforeMint
  <2> QED BY <2>5, <2>6, <2>7, <2>8 DEF AccessInv
<1> QED BY <1>1, <1>2, <1>3, <1>4
LEMMA InvStep == AccessInv /\ [Next]_vars => AccessInv'
<1>1. ASSUME AccessInv, UNCHANGED vars PROVE AccessInv'
  BY <1>1 DEF vars, stores, AccessInv, TypeOK, SigningKnows, SpentFlows, FlowUsedOnce, Rows
<1>2. ASSUME AccessInv, Next PROVE AccessInv'
  BY <1>2, AdminInv, SignInInv, ServeInv, TimeInv DEF Next
<1> QED BY <1>1, <1>2

\* The types of the tables, the cookies and the handlers.
THEOREM AccessTyped == Spec => []TypeOK
<1>1. AccessInv => TypeOK BY DEF AccessInv
<1> QED BY InitInv, InvStep, <1>1, PTL DEF Spec

\* One flow signs one person in once, whatever is sent how often: a flow is gone
\* from the moment a handler has claimed it (SpentFlows), and only that handler
\* makes a session of it.
THEOREM OneSignInPerFlow == Spec => []FlowUsedOnce
<1>1. AccessInv => FlowUsedOnce BY DEF AccessInv
<1> QED BY InitInv, InvStep, <1>1, PTL DEF Spec

LEMMA Always == Spec => []AccessInv
BY InitInv, InvStep, PTL DEF Spec

\* The sessions' rows: whose they are never changes, revoked is for good, and who
\* disables an account revokes all it has.
LEMMA RowsLast ==
    ASSUME AccessInv, Next, NEW s \in Rows
    PROVE  /\ s \in Rows' /\ session'[s].user = session[s].user
           /\ session[s].revoked => session'[s].revoked
           /\ account'[session[s].user] = "disabled"
                => account[session[s].user] = "disabled" \/ session'[s].revoked
<1>t. /\ session \in [Sessions -> SessionRow \cup {NoSession}]
      /\ s \in Sessions /\ session[s] \in SessionRow /\ s # NoSession /\ NoSession \notin SessionRow
      /\ account \in [Users -> {"none", "enabled", "disabled"}]
  BY AccessAssumption DEF AccessInv, TypeOK, Rows
<1>u. session[s].user \in Users BY <1>t DEF SessionRow
\* The rest follows when the row keeps its user and its revocation.
<1> DEFINE Row(x) == x \in SessionRow /\ x.user = session[s].user /\ (session[s].revoked => x.revoked)
<1>r. ASSUME Row(session'[s]), account' = account
      PROVE  /\ s \in Rows' /\ session'[s].user = session[s].user
             /\ session[s].revoked => session'[s].revoked
             /\ account'[session[s].user] = "disabled"
                  => account[session[s].user] = "disabled" \/ session'[s].revoked
  BY <1>r, <1>t DEF Rows
<1>o. Row([session[s] EXCEPT !.revoked = TRUE]) BY <1>t DEF SessionRow
<1>a. ASSUME NEW age \in {"fresh", "old", "expired"} PROVE Row([session[s] EXCEPT !.age = age])
  BY <1>t DEF SessionRow
<1>s. Row(session[s]) BY <1>t
<1>1. ASSUME NEW i \in Handlers, SignIn(i) PROVE Row(session'[s]) /\ account' = account
  <2>1. ASSUME NEW q \in Sessions, MintSession(i, q)
        PROVE  session'[s] = session[s] /\ account' = account
    BY <1>t, <2>1 DEF MintSession
  <2> QED BY <1>1, <1>s, <2>1 DEF SignIn, ClaimFlow, CheckAccount, AnswerLogin, stores
<1>2. ASSUME NEW i \in Handlers, Serve(i) PROVE Row(session'[s]) /\ account' = account
  <2>1. ASSUME NEW b \in Browsers, Logout(i, b) PROVE Row(session'[s]) /\ account' = account
    <3>1. session'[s] \in {session[s], [session[s] EXCEPT !.revoked = TRUE]}
      BY <1>t, <2>1 DEF Logout
    <3> QED BY <3>1, <2>1, <1>s, <1>o DEF Logout
  <2>2. ASSUME Renew(i) PROVE Row(session'[s]) /\ account' = account
    <3>1. session'[s] \in {session[s], [session[s] EXCEPT !.age = "fresh"]}
      BY <1>t, <2>2 DEF Renew
    <3> QED BY <3>1, <2>2, <1>s, <1>a DEF Renew
  <2> QED BY <1>2, <1>s, <2>1, <2>2 DEF Serve, Enter, EnterByToken, Leave, AnswerLogout, stores
<1>3. ASSUME NEW q \in Sessions, SessionAges(q) PROVE Row(session'[s]) /\ account' = account
  <2>1. \E age \in {"fresh", "old", "expired"} :
          session'[s] = session[s] \/ session'[s] = [session[s] EXCEPT !.age = age]
    BY <1>t, <1>3 DEF SessionAges
  <2> QED BY <2>1, <1>3, <1>s, <1>a DEF SessionAges
<1>4. CASE \/ \E f \in Flows : BeginLogin(f) \/ FlowExpires(f)
           \/ \E b \in Browsers : CookieExpires(b)
           \/ \E t \in Tokens : CreateToken(t) \/ RevokeToken(t)
           \/ Restart
  BY <1>4, <1>r, <1>s DEF BeginLogin, FlowExpires, CookieExpires, CreateToken, RevokeToken,
                          Restart, stores
<1>5. ASSUME NEW u \in Users, DisableUser(u)
      PROVE  /\ session[s].user = u => session'[s] = [session[s] EXCEPT !.revoked = TRUE]
             /\ session[s].user # u => session'[s] = session[s]
             /\ session[s].user # u => account'[session[s].user] = account[session[s].user]
  BY <1>5, <1>t, <1>u DEF DisableUser
<1>6. ASSUME NEW u \in Users, DisableUser(u)
      PROVE  /\ s \in Rows' /\ session'[s].user = session[s].user
             /\ session[s].revoked => session'[s].revoked
             /\ account'[session[s].user] = "disabled"
                  => account[session[s].user] = "disabled" \/ session'[s].revoked
  <2>1. CASE session[s].user = u
    <3>1. session'[s] = [session[s] EXCEPT !.revoked = TRUE] BY <1>5, <1>6, <2>1
    <3>2. Row(session'[s]) /\ session'[s].revoked BY <3>1, <1>o, <1>t DEF SessionRow
    <3> QED BY <3>2, <1>t DEF Rows
  <2>2. CASE session[s].user # u
    <3>1. session'[s] = session[s] /\ account'[session[s].user] = account[session[s].user]
      BY <1>5, <1>6, <2>2
    <3> QED BY <3>1, <1>s, <1>t DEF Rows
  <2> QED BY <2>1, <2>2
<1>7. ASSUME NEW u \in Users, CreateUser(u)
      PROVE  /\ s \in Rows' /\ session'[s].user = session[s].user
             /\ session[s].revoked => session'[s].revoked
             /\ account'[session[s].user] = "disabled"
                  => account[session[s].user] = "disabled" \/ session'[s].revoked
  <2>1. account'[session[s].user] = "disabled" => account[session[s].user] = "disabled"
    BY <1>7, <1>t, <1>u DEF CreateUser
  <2>2. session' = session BY <1>7 DEF CreateUser
  <2> QED BY <2>1, <2>2, <1>t DEF Rows
<1> QED BY <1>1, <1>2, <1>3, <1>4, <1>6, <1>7, <1>r DEF Next, Administer

\* A renewal of a disabled account's session finds it revoked: the handler was
\* let in by a session that the disabling knew of.
RenewalsFade ==
    \A h \in Handlers :
        req[h].at = "renewing" =>
            /\ req[h].session \in Rows
            /\ account[session[req[h].session].user] = "disabled" => session[req[h].session].revoked

LEMMA RenewalsStep == AccessInv /\ RenewalsFade /\ [Next]_vars => RenewalsFade'
<1> SUFFICES ASSUME AccessInv, RenewalsFade, Next PROVE RenewalsFade'
  BY DEF RenewalsFade, Rows, vars, stores
<1> SUFFICES ASSUME NEW h \in Handlers, req'[h].at = "renewing"
             PROVE  /\ req'[h].session \in Rows'
                    /\ account'[session'[req'[h].session].user] = "disabled"
                         => session'[req'[h].session].revoked
  BY DEF RenewalsFade
<1>t. req \in [Handlers -> Requests] BY DEF AccessInv, TypeOK
<1>1. req'[h] = req[h] \/ \E b \in Browsers : Enter(h, b)
  <2>1. ASSUME NEW i \in Handlers, SignIn(i) PROVE req'[h] = req[h]
    <3>0. Rested.at = "idle" BY DEF Rested, Request
    <3>1. ASSUME NEW b \in Browsers, NEW f \in Flows, NEW u \in Users, ClaimFlow(i, b, f, u)
          PROVE  req'[h] = req[h]
      BY <1>t, <3>1 DEF ClaimFlow, Request
    <3>2. ASSUME CheckAccount(i) PROVE req'[h] = req[h]
      BY <1>t, <3>0, <3>2 DEF CheckAccount, Requests
    <3>3. ASSUME NEW s \in Sessions, MintSession(i, s) PROVE req'[h] = req[h]
      BY <1>t, <3>3 DEF MintSession
    <3>4. ASSUME AnswerLogin(i) PROVE req'[h] = req[h] BY <1>t, <3>0, <3>4 DEF AnswerLogin
    <3> QED BY <2>1, <3>1, <3>2, <3>3, <3>4 DEF SignIn
  <2>2. ASSUME NEW i \in Handlers, Serve(i) PROVE req'[h] = req[h] \/ \E b \in Browsers : Enter(h, b)
    <3>1. ASSUME NEW b \in Browsers, Enter(i, b) PROVE i = h \/ req'[h] = req[h]
      BY <1>t, <3>1 DEF Enter
    <3>0. Rested.at = "idle" BY DEF Rested, Request
    <3>2. ASSUME NEW b \in Browsers, Logout(i, b) PROVE req'[h] = req[h]
      BY <1>t, <3>2 DEF Logout, Request
    <3>3. ASSUME NEW t \in Tokens, EnterByToken(i, t) PROVE req'[h] = req[h]
      BY <1>t, <3>3 DEF EnterByToken, Request
    <3>4. ASSUME Renew(i) PROVE req'[h] = req[h]
      BY <1>t, <3>4 DEF Renew
    <3>5. ASSUME Leave(i) \/ AnswerLogout(i) PROVE req'[h] = req[h]
      BY <1>t, <3>0, <3>5 DEF Leave, AnswerLogout
    <3> QED BY <2>2, <3>1, <3>2, <3>3, <3>4, <3>5 DEF Serve
  <2>3. CASE Administer \/ \E f \in Flows : BeginLogin(f) \/ FlowExpires(f)
    BY <2>3 DEF Administer, CreateUser, DisableUser, CreateToken, RevokeToken, BeginLogin, FlowExpires
  <2>4. CASE (\E s \in Sessions : SessionAges(s)) \/ \E b \in Browsers : CookieExpires(b)
    BY <2>4 DEF SessionAges, CookieExpires
  <2>5. CASE Restart
    BY <2>5 DEF Restart, Rested, Request
  <2> QED BY <2>1, <2>2, <2>3, <2>4, <2>5 DEF Next
<1>2. CASE req'[h] = req[h]
  <2> DEFINE s == req[h].session
  <2>1. s \in Rows /\ (account[session[s].user] = "disabled" => session[s].revoked)
    BY <1>2 DEF RenewalsFade
  <2> HIDE DEF s
  <2>2. /\ s \in Rows' /\ session'[s].user = session[s].user
        /\ session[s].revoked => session'[s].revoked
        /\ account'[session[s].user] = "disabled"
             => account[session[s].user] = "disabled" \/ session'[s].revoked
    BY <2>1, RowsLast
  <2> QED BY <1>2, <2>1, <2>2 DEF s
<1>3. CASE \E b \in Browsers : Enter(h, b)
  <2>1. PICK b \in Browsers : Enter(h, b) BY <1>3
  <2>2. req'[h].session = cookie[b] BY <2>1, <1>t DEF Enter, Request
  <2> QED BY <2>1, <2>2 DEF Enter, Accepted, stores, Rows
<1> QED BY <1>1, <1>2, <1>3

LEMMA RenewalsInvariant == Spec => []RenewalsFade
<1>1. Init => RenewalsFade BY DEF Init, RenewalsFade, Rested, Request
<1> QED BY <1>1, Always, RenewalsStep, PTL DEF Spec

\* What a session that is not accepted is safe from, when those who are about to
\* renew it will find it revoked.
Kept(s) ==
    /\ session[s].age # "fresh" => session'[s].age # "fresh"
    /\ \A h \in Handlers : req'[h].session = s => req[h].session = s

LEMMA KeptOut ==
    ASSUME AccessInv, Next, NEW s \in Rows, ~Accepted(s),
           \A h \in Handlers : req[h].at = "renewing" /\ req[h].session = s => session[s].revoked
    PROVE  Kept(s)
<1> USE DEF Kept
<1>r. \A h \in Handlers : req[h].at = "renewing" /\ req[h].session = s => session[s].revoked
  OBVIOUS
<1>t. /\ req \in [Handlers -> Requests]
      /\ session \in [Sessions -> SessionRow \cup {NoSession}]
      /\ s \in Sessions /\ session[s] \in SessionRow /\ s # NoSession
  BY AccessAssumption DEF AccessInv, TypeOK, Rows
<1>k. Rested.session = NoSession BY DEF Rested, Request
<1>1. ASSUME NEW i \in Handlers, SignIn(i) PROVE Kept(s)
  <2>1. ASSUME NEW b \in Browsers, NEW f \in Flows, NEW u \in Users, ClaimFlow(i, b, f, u)
        PROVE  Kept(s)
    BY <1>t, <2>1 DEF ClaimFlow, Request
  <2>2. ASSUME CheckAccount(i) PROVE Kept(s)
    <3>1. session' = session BY <2>2 DEF CheckAccount, stores
    <3>2. ASSUME NEW h \in Handlers PROVE req'[h].session \in {req[h].session, NoSession}
      BY <1>t, <1>k, <2>2 DEF CheckAccount, Requests
    <3> QED BY <3>1, <3>2, <1>t
  <2>3. ASSUME NEW q \in Sessions, MintSession(i, q) PROVE Kept(s)
    <3>1. q # s BY <2>3 DEF MintSession
    <3>2. session'[s] = session[s] BY <1>t, <2>3, <3>1 DEF MintSession
    <3>3. ASSUME NEW h \in Handlers PROVE req'[h].session \in {req[h].session, q}
      BY <1>t, <2>3 DEF MintSession, Requests
    <3> QED BY <3>1, <3>2, <3>3
  <2>4. ASSUME AnswerLogin(i) PROVE Kept(s)
    BY <1>t, <1>k, <2>4 DEF AnswerLogin, stores
  <2> QED BY <1>1, <2>1, <2>2, <2>3, <2>4 DEF SignIn
<1>2. ASSUME NEW i \in Handlers, Serve(i) PROVE Kept(s)
  <2>1. ASSUME NEW b \in Browsers, Enter(i, b) PROVE Kept(s)
    <3>1. cookie[b] # s /\ session' = session BY <2>1 DEF Enter, stores
    <3> QED BY <1>t, <2>1, <3>1 DEF Enter, Request
  <2>2. ASSUME NEW b \in Browsers, Logout(i, b) PROVE Kept(s)
    <3>1. \A h \in Handlers : req'[h].session \in {req[h].session, NoSession}
      BY <1>t, <2>2 DEF Logout, Request
    <3>2. session'[s] = session[s] \/ session'[s] = [session[s] EXCEPT !.revoked = TRUE]
      BY <1>t, <2>2 DEF Logout
    <3>3. session'[s].age = session[s].age
      BY <1>t, <3>2 DEF SessionRow
    <3> QED BY <1>t, <3>1, <3>3
  <2>3. ASSUME NEW t \in Tokens, EnterByToken(i, t) PROVE Kept(s)
    BY <1>t, <2>3 DEF EnterByToken, Request, stores
  <2>4. ASSUME Renew(i) PROVE Kept(s)
    <3>1. \A h \in Handlers : req'[h].session = req[h].session
      BY <1>t, <2>4 DEF Renew, Requests
    <3>2. session'[s] = session[s]
      BY <1>t, <2>4, <1>r DEF Renew
    <3> QED BY <3>1, <3>2
  <2>5. ASSUME Leave(i) \/ AnswerLogout(i) PROVE Kept(s)
    BY <1>t, <1>k, <2>5 DEF Leave, AnswerLogout, stores
  <2> QED BY <1>2, <2>1, <2>2, <2>3, <2>4, <2>5 DEF Serve
<1>3. ASSUME Administer PROVE Kept(s)
  <2>1. ASSUME NEW u \in Users, DisableUser(u) PROVE Kept(s)
    <3>1. req' = req BY <2>1 DEF DisableUser
    <3>2. session'[s] = session[s] \/ session'[s] = [session[s] EXCEPT !.revoked = TRUE]
      BY <1>t, <2>1 DEF DisableUser
    <3>3. session'[s].age = session[s].age
      BY <1>t, <3>2 DEF SessionRow
    <3> QED BY <3>1, <3>3
  <2> QED BY <1>3, <2>1 DEF Administer, CreateUser, CreateToken, RevokeToken
<1>4. ASSUME \/ \E f \in Flows : BeginLogin(f) \/ FlowExpires(f)
             \/ \E b \in Browsers : CookieExpires(b)
             \/ Restart
      PROVE  Kept(s)
  BY <1>t, <1>k, <1>4 DEF BeginLogin, FlowExpires, CookieExpires, Restart, stores
<1>5. ASSUME NEW q \in Sessions, SessionAges(q) PROVE Kept(s)
  <2> DEFINE age == IF session[q].age = "fresh" THEN "old" ELSE "expired"
             row == [session[q] EXCEPT !.age = age]
  <2>1. session' = [session EXCEPT ![q] = row] /\ req' = req /\ q \in Rows
    BY <1>5 DEF SessionAges
  <2>2. row.revoked = session[q].revoked /\ row.age # "fresh"
    BY <1>t, <2>1 DEF SessionRow, Rows
  <2> HIDE DEF row
  <2> QED BY <1>t, <2>1, <2>2
<1> QED BY <1>1, <1>2, <1>3, <1>4, <1>5 DEF Next

\* A disabled account's sessions are over: the door reads the account, and a
\* renewal that was under way finds the session revoked (RenewalsFade), because
\* it began before the disabling, which revoked all there was to renew.
THEOREM DisabledKeptOut == Spec => DisabledForGood
<1>1. AccessInv /\ RenewalsFade /\ [Next]_vars
        => [\A s \in Rows : account[session[s].user] = "disabled" => Kept(s)]_vars
  <2> SUFFICES ASSUME AccessInv, RenewalsFade, Next, NEW s \in Rows,
                      account[session[s].user] = "disabled"
               PROVE  Kept(s)
    OBVIOUS
  <2>1. ~Accepted(s) BY DEF Accepted
  <2>2. \A h \in Handlers : req[h].at = "renewing" /\ req[h].session = s => session[s].revoked
    BY DEF RenewalsFade
  <2> QED BY <2>1, <2>2, KeptOut
<1>2. Spec => [][\A s \in Rows : account[session[s].user] = "disabled" => Kept(s)]_vars
  BY <1>1, Always, RenewalsInvariant, PTL DEF Spec
<1> QED BY <1>2 DEF DisabledForGood, Kept

\* Revoked is for good: the renewal asks again in its own statement, and the
\* door does.
THEOREM RevokedKeptOut == Spec => RevokedForGood
<1> DEFINE Step ==
      \A s \in Rows : session[s].revoked =>
         /\ session'[s].revoked
         /\ session[s].age # "fresh" => session'[s].age # "fresh"
         /\ \A h \in Handlers : req'[h].session = s => req[h].session = s
<1>1. AccessInv /\ [Next]_vars => [Step]_vars
  <2> SUFFICES ASSUME AccessInv, Next, NEW s \in Rows, session[s].revoked
               PROVE  session'[s].revoked /\ Kept(s)
    BY DEF Kept
  <2>1. ~Accepted(s) BY DEF Accepted
  <2> QED BY <2>1, RowsLast, KeptOut
<1>2. Spec => [][Step]_vars
  BY <1>1, Always, PTL DEF Spec
<1> QED BY <1>2 DEF RevokedForGood
=============================================================================

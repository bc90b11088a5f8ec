------------------------------- MODULE Access -------------------------------
(***************************************************************************)
(* Who is calling: sign-in and browser sessions, internal/identity, the    *)
(* tenants' API tokens, internal/tenant, and the handlers and middleware   *)
(* of internal/api that use them.                                          *)
(*                                                                         *)
(* A sign-in is four steps of one handler: the driver consumes the flow    *)
(* (memory, under a mutex), the driver reads the accounts, the service     *)
(* reads the linked user, the service inserts the session.  Accounts are   *)
(* disabled by the command line, another process on the same database, so  *)
(* it may do so between any two of them.                                   *)
(***************************************************************************)
CONSTANTS
    Users, Flows, Sessions, Tokens,   \* ids; each is given out once
    Browsers,                         \* cookie jars, shared by their tabs
    Handlers,                         \* goroutines serving requests
    NoUser, NoFlow, NoSession

SessionRow == [user : Users, age : {"fresh", "old", "expired"}, revoked : BOOLEAN,
               flow : Flows]

ASSUME AccessAssumption ==
    /\ NoUser \notin Users /\ NoFlow \notin Flows
    /\ NoSession \notin Sessions /\ NoSession \notin SessionRow

VARIABLES
    account,   \* users: "none", "enabled", "disabled" (disabled_at is set)
    flow,      \* Static.flows: "unborn", "open", "expired", "gone"
    session,   \* web_sessions: [user, age, revoked, flow], or NoSession
    token,     \* api_tokens: "none", "valid", "revoked"
    cookie,    \* of each browser, the session in its cookie
    req        \* what each handler is doing

stores == <<account, flow, session, token>>
vars == <<stores, cookie, req>>

Request(at, b, f, u, s) ==
    [at |-> at, browser |-> b, flow |-> f, user |-> u, session |-> s]

Rested == Request("idle", NoSession, NoFlow, NoUser, NoSession)

Rows == {s \in Sessions : session[s] # NoSession}

\* The SELECT of Service.Authenticate with its checks of expiry and account.
Accepted(s) ==
    /\ s \in Rows
    /\ ~session[s].revoked
    /\ session[s].age # "expired"
    /\ account[session[s].user] = "enabled"

Init ==
    /\ account = [u \in Users |-> "none"]
    /\ flow = [f \in Flows |-> "unborn"]
    /\ session = [s \in Sessions |-> NoSession]
    /\ token = [t \in Tokens |-> "none"]
    /\ cookie = [b \in Browsers |-> NoSession]
    /\ req = [h \in Handlers |-> Rested]

-----------------------------------------------------------------------------
(* Administration, by the command line.                                     *)

\* The user row and its static identity link, in one transaction.
CreateUser(u) ==
    /\ account[u] = "none"
    /\ account' = [account EXCEPT ![u] = "enabled"]
    /\ UNCHANGED <<flow, session, token, cookie, req>>

\* Fault: the sessions are left to disabled_at, which Authenticate reads.
DisableUserOnly(u) ==
    /\ account[u] = "enabled"
    /\ account' = [account EXCEPT ![u] = "disabled"]
    /\ UNCHANGED <<flow, session, token, cookie, req>>

\* Disables the account and revokes what sessions it has, in one transaction.
DisableUser(u) ==
    /\ account[u] = "enabled"
    /\ account' = [account EXCEPT ![u] = "disabled"]
    /\ session' = [s \in Sessions |->
         IF s \in Rows /\ session[s].user = u
         THEN [session[s] EXCEPT !.revoked = TRUE] ELSE session[s]]
    /\ UNCHANGED <<flow, token, cookie, req>>

CreateToken(t) ==
    /\ token[t] = "none"
    /\ token' = [token EXCEPT ![t] = "valid"]
    /\ UNCHANGED <<account, flow, session, cookie, req>>

RevokeToken(t) ==
    /\ token[t] = "valid"
    /\ token' = [token EXCEPT ![t] = "revoked"]
    /\ UNCHANGED <<account, flow, session, cookie, req>>

-----------------------------------------------------------------------------
(* Sign-in.                                                                 *)

\* A new flow; those whose time has passed are swept.
BeginLogin(f) ==
    /\ flow[f] = "unborn"
    /\ flow' = [g \in Flows |-> IF g = f THEN "open"
                                ELSE IF flow[g] = "expired" THEN "gone" ELSE flow[g]]
    /\ UNCHANGED <<account, session, token, cookie, req>>

\* Fault: the flow is looked up when it is claimed and deleted with the answer.
ClaimFlowKept(h, b, f, u) ==
    /\ req[h].at = "idle" /\ flow[f] = "open" /\ account[u] # "none"
    /\ req' = [req EXCEPT ![h] = Request("claimed", b, f, u, NoSession)]
    /\ UNCHANGED <<stores, cookie>>

\* Static.CompleteLogin up to its unlock: the flow is single use, and used up
\* by a late attempt too.  A page may send the same flow twice.
ClaimFlow(h, b, f, u) ==
    /\ req[h].at = "idle" /\ flow[f] # "unborn" /\ account[u] # "none"
    /\ flow' = [flow EXCEPT ![f] = "gone"]
    /\ flow[f] = "open"
       => req' = [req EXCEPT ![h] = Request("claimed", b, f, u, NoSession)]
    /\ flow[f] # "open" => UNCHANGED req
    /\ UNCHANGED <<account, session, token, cookie>>

\* Fault: the response of a sign-in is prepared before its session exists.
CheckAccountAndAnswer(h) ==
    /\ req[h].at \in {"claimed", "verified"}
    /\ IF account[req[h].user] = "enabled"
       THEN req' = [req EXCEPT ![h].at = IF @ = "claimed" THEN "verified" ELSE "minted"]
       ELSE req' = [req EXCEPT ![h] = Rested]
    /\ UNCHANGED <<stores, cookie>>

\* The driver lists the accounts ("claimed"), the service reads the user of the
\* identity ("verified"); either read may find the account disabled.
CheckAccount(h) ==
    /\ req[h].at \in {"claimed", "verified"}
    /\ IF account[req[h].user] = "enabled"
       THEN req' = [req EXCEPT ![h].at = IF @ = "claimed" THEN "verified" ELSE "minting"]
       ELSE req' = [req EXCEPT ![h] = Rested]
    /\ UNCHANGED <<stores, cookie>>

\* The session's transaction asks nothing of the account.
MintSession(h, s) ==
    /\ req[h].at = "minting" /\ s \notin Rows
    /\ session' = [session EXCEPT ![s] =
         [user |-> req[h].user, age |-> "fresh", revoked |-> FALSE, flow |-> req[h].flow]]
    /\ req' = [req EXCEPT ![h].at = "minted", ![h].session = s]
    /\ UNCHANGED <<account, flow, token, cookie>>

\* The response sets the cookie, whether or not the new session authenticates.
AnswerLogin(h) ==
    /\ req[h].at = "minted"
    /\ cookie' = [cookie EXCEPT ![req[h].browser] = req[h].session]
    /\ req' = [req EXCEPT ![h] = Rested]
    /\ UNCHANGED stores

-----------------------------------------------------------------------------
(* Requests.                                                                *)

\* auth and Authenticate for a cookie: a session that has run below its renewal
\* point is written before the handler proper starts.
Enter(h, b) ==
    /\ req[h].at = "idle" /\ Accepted(cookie[b])
    /\ req' = [req EXCEPT ![h] =
         Request(IF session[cookie[b]].age = "old" THEN "renewing" ELSE "inside",
                 b, NoFlow, session[cookie[b]].user, cookie[b])]
    /\ UNCHANGED <<stores, cookie>>

\* Fault: the renewal does not ask for revoked_at.
RenewRegardless(h) ==
    /\ req[h].at = "renewing"
    /\ session' = [session EXCEPT ![req[h].session].age = "fresh"]
    /\ req' = [req EXCEPT ![h].at = "inside"]
    /\ UNCHANGED <<account, flow, token, cookie>>

\* Best effort: the write may fail, and a revoked session is left alone.
Renew(h) ==
    /\ req[h].at = "renewing"
    /\ \/ UNCHANGED session
       \/ /\ ~session[req[h].session].revoked
          /\ session' = [session EXCEPT ![req[h].session].age = "fresh"]
    /\ req' = [req EXCEPT ![h].at = "inside"]
    /\ UNCHANGED <<account, flow, token, cookie>>

\* The same for a bearer token: no user, no renewal.
EnterByToken(h, t) ==
    /\ req[h].at = "idle" /\ token[t] = "valid"
    /\ req' = [req EXCEPT ![h] = Request("inside", NoSession, NoFlow, NoUser, NoSession)]
    /\ UNCHANGED <<stores, cookie>>

\* The handler returns.
Leave(h) ==
    /\ req[h].at = "inside"
    /\ req' = [req EXCEPT ![h] = Rested]
    /\ UNCHANGED <<stores, cookie>>

\* Logout needs no valid session; a revocation that fails is only logged.
Logout(h, b) ==
    /\ req[h].at = "idle"
    /\ \/ UNCHANGED session
       \/ /\ cookie[b] \in Rows
          /\ session' = [session EXCEPT ![cookie[b]].revoked = TRUE]
    /\ req' = [req EXCEPT ![h] = Request("leaving", b, NoFlow, NoUser, NoSession)]
    /\ UNCHANGED <<account, flow, token, cookie>>

AnswerLogout(h) ==
    /\ req[h].at = "leaving"
    /\ cookie' = [cookie EXCEPT ![req[h].browser] = NoSession]
    /\ req' = [req EXCEPT ![h] = Rested]
    /\ UNCHANGED stores

-----------------------------------------------------------------------------
(* Time and failure.                                                        *)

FlowExpires(f) ==
    /\ flow[f] = "open"
    /\ flow' = [flow EXCEPT ![f] = "expired"]
    /\ UNCHANGED <<account, session, token, cookie, req>>

\* "old" is below renewBelow, 60 of 90 days.
SessionAges(s) ==
    /\ s \in Rows /\ session[s].age # "expired"
    /\ session' = [session EXCEPT ![s].age = IF @ = "fresh" THEN "old" ELSE "expired"]
    /\ UNCHANGED <<account, flow, token, cookie, req>>

\* Flows and handlers are memory.
Restart ==
    /\ flow' = [f \in Flows |-> IF flow[f] = "unborn" THEN "unborn" ELSE "gone"]
    /\ req' = [h \in Handlers |-> Rested]
    /\ UNCHANGED <<account, session, token, cookie>>

\* The cookie keeps the date it was set with: a renewal moves the row's alone.
CookieExpires(b) ==
    /\ cookie[b] # NoSession
    /\ cookie' = [cookie EXCEPT ![b] = NoSession]
    /\ UNCHANGED <<stores, req>>

SignIn(h) ==
    \/ \E b \in Browsers, f \in Flows, u \in Users : ClaimFlow(h, b, f, u)
    \/ CheckAccount(h) \/ (\E s \in Sessions : MintSession(h, s)) \/ AnswerLogin(h)

Serve(h) ==
    \/ \E b \in Browsers : Enter(h, b) \/ Logout(h, b)
    \/ \E t \in Tokens : EnterByToken(h, t)
    \/ Renew(h) \/ Leave(h) \/ AnswerLogout(h)

Administer ==
    \/ \E u \in Users : CreateUser(u) \/ DisableUser(u)
    \/ \E t \in Tokens : CreateToken(t) \/ RevokeToken(t)

Next ==
    \/ \E h \in Handlers : SignIn(h) \/ Serve(h)
    \/ \E f \in Flows : BeginLogin(f) \/ FlowExpires(f)
    \/ \E s \in Sessions : SessionAges(s)
    \/ \E b \in Browsers : CookieExpires(b)
    \/ Administer \/ Restart

Spec == Init /\ [][Next]_vars

-----------------------------------------------------------------------------
(* Properties.                                                              *)

Doing == {"idle", "claimed", "verified", "minting", "minted", "renewing", "inside",
          "leaving"}

Requests == [at : Doing, browser : Browsers \cup {NoSession}, flow : Flows \cup {NoFlow},
             user : Users \cup {NoUser}, session : Sessions \cup {NoSession}]

\* Every table and every handler has its type; a handler that is about to set a
\* cookie or renew a session has one.
TypeOK ==
    /\ account \in [Users -> {"none", "enabled", "disabled"}]
    /\ flow \in [Flows -> {"unborn", "open", "expired", "gone"}]
    /\ session \in [Sessions -> SessionRow \cup {NoSession}]
    /\ token \in [Tokens -> {"none", "valid", "revoked"}]
    /\ cookie \in [Browsers -> Sessions \cup {NoSession}]
    /\ req \in [Handlers -> Requests]
    /\ \A h \in Handlers : req[h].at \in {"minted", "renewing"} => req[h].session \in Rows
    /\ \A b \in Browsers : cookie[b] \in Rows \cup {NoSession}

BeforeMint == {"claimed", "verified", "minting"}

\* A flow signs one person in once: of the sign-ins under way and the sessions
\* that exist, no two come from one flow, however often and from however many
\* tabs its page is sent ("single-use", static.go:72).
FlowUsedOnce ==
    /\ \A h, i \in Handlers : h # i /\ req[h].flow = req[i].flow => req[h].flow = NoFlow
    /\ \A r, s \in Rows : r # s => session[r].flow # session[s].flow
    /\ \A h \in Handlers, s \in Rows :
         req[h].at \in BeforeMint => session[s].flow # req[h].flow

\* Disabling an account ends its sessions, whoever is between two steps of his
\* own: of a session of a disabled account no request begins, and it is not made
\* fresh again, by a renewal that was under way either, whether the disabling
\* revoked it or a sign-in checked before minted it afterwards, unrevoked
\* (identity.go:208, :216, :262).  A request that was let in before is served to
\* its end.
DisabledForGood ==
    [][\A s \in Rows : account[session[s].user] = "disabled" =>
         /\ session[s].age # "fresh" => session'[s].age # "fresh"
         /\ \A h \in Handlers : req'[h].session = s => req[h].session = s]_vars

\* A session that was signed out or revoked is neither let in nor made fresh again,
\* by a renewal that was under way either (identity.go:197 and :216).
RevokedForGood ==
    [][\A s \in Rows : session[s].revoked =>
         /\ session'[s].revoked
         /\ session[s].age # "fresh" => session'[s].age # "fresh"
         /\ \A h \in Handlers : req'[h].session = s => req[h].session = s]_vars
=============================================================================

------------------------------- MODULE Sessions -------------------------------
(***************************************************************************)
(* Sign-in of one account of user-service (services/auth_service.py): its  *)
(* password, the lock after failed logins, and its user_sessions rows.     *)
(* Nothing in the code relates the rows of two accounts.                   *)
(*                                                                         *)
(* A request reads the account and its sessions in one snapshot, then      *)
(* hashes or verifies a password in a thread, and writes what it changed   *)
(* when it commits.  Other requests begin and commit in between.           *)
(***************************************************************************)
EXTENDS Integers, FiniteSets

CONSTANTS SignRequests,   \* requests served at a time
          Sids,           \* ids for rows of user_sessions
          Passwords, FirstPassword,
          MaxFailures,    \* LOGIN_MAX_FAILURES
          LockTicks,      \* LOGIN_LOCK_DURATION_HOURS
          MaxSessions,    \* MAX_ACTIVE_SESSIONS
          SessionTicks,   \* JWT_REFRESH_TOKEN_EXPIRE_DAYS
          SignHorizon,    \* bound: the last tick of the clock
          SignBudget      \* bound: the number of requests

ASSUME SessionsAssumption ==
    /\ IsFiniteSet(Sids) /\ Sids # {}
    /\ FirstPassword \in Passwords
    /\ MaxFailures \in Nat \ {0} /\ MaxSessions \in Nat \ {0}
    /\ LockTicks \in Nat \ {0} /\ SessionTicks \in Nat \ {0}
    /\ SignHorizon \in Nat \ {0} /\ SignBudget \in Nat

VARIABLES
    account,   \* users row: [password, fails, locked, status]; locked 0: NULL
    session,   \* session[s] : [jti, revoked, born, expires]
    signReq,   \* what each request is doing
    tick,
    begun,     \* number of requests so far, also the source of fresh tokens
    cut        \* ghost: sessions a completed password change found

signVars == <<account, session, signReq, tick, begun, cut>>

-----------------------------------------------------------------------------
(* born: the order of creation, 0 for an id not in use.  jti: the token    *)
(* that refreshes the session.                                             *)
SessionRow == [jti : Nat, revoked : BOOLEAN, born : Nat, expires : Nat]
NoSession == [jti |-> 0, revoked |-> FALSE, born |-> 0, expires |-> 0]

Exists(row) == row.born > 0
Active(rows) == {s \in Sids : Exists(rows[s]) /\ ~rows[s].revoked}
Latest(rows) ==
    LET births == {rows[s].born : s \in Sids}
    IN  CHOOSE b \in births : \A c \in births : c <= b

AccountRow == [password : Passwords, fails : Nat, locked : Nat,
               status : {"active", "disabled"}]

SignIdle == [op |-> "none"]
PasswordOps == {"change", "reset", "adminReset"}
SignRequest == [op : {"login", "codeLogin", "logout", "refresh"}
                     \cup PasswordOps,
                s : Sids, word : Passwords, row : AccountRow,
                rows : [Sids -> SessionRow], n : Nat]
Signing(q) == signReq[q].op # "none"

LockedAt(row, t) == row.locked > t

SessionsInit ==
    /\ account = [password |-> FirstPassword, fails |-> 0, locked |-> 0,
                  status |-> "active"]
    /\ session = [s \in Sids |-> NoSession]
    /\ signReq = [q \in SignRequests |-> SignIdle]
    /\ tick = 1 /\ begun = 0 /\ cut = {}

-----------------------------------------------------------------------------
(* Requests begin: what they are given, and the snapshot they read. *)

BeginSign(q, op, s, word) ==
    /\ ~Signing(q) /\ begun < SignBudget
    /\ begun' = begun + 1
    /\ signReq' = [signReq EXCEPT ![q] =
          [op |-> op, s |-> s, word |-> word, row |-> account,
           rows |-> session, n |-> begun + 1]]
    /\ UNCHANGED <<account, session, tick, cut>>

Fresh(s) == /\ ~Exists(session[s])
            /\ \A q \in SignRequests : Signing(q) => signReq[q].s # s

(* POST /auth/login, and the login that ends POST /auth/register.  A       *)
(* locked account refuses before the password is looked at.                *)
BeginLogin(q, s, word) ==
    /\ Fresh(s) /\ ~LockedAt(account, tick)
    /\ BeginSign(q, "login", s, word)

(* POST /auth/login-with-code: the code was right. *)
BeginCodeLogin(q, s) ==
    /\ Fresh(s) /\ account.status = "active"
    /\ BeginSign(q, "codeLogin", s, account.password)

(* POST /auth/logout with the refresh token the session has. *)
BeginLogout(q, s) ==
    /\ s \in Active(session)
    /\ BeginSign(q, "logout", s, account.password)

(* POST /auth/refresh with the refresh token the session has. *)
BeginRefresh(q, s) ==
    /\ s \in Active(session) /\ session[s].expires > tick
    /\ account.status = "active"
    /\ BeginSign(q, "refresh", s, account.password)

(* POST /auth/change-password: the old password was right, or it ends.     *)
(* POST /auth/reset-password: the code was right.  POST                    *)
(* /users/{uid}/reset-password by an administrator.  word is new.          *)
BeginPassword(q, op, word) ==
    /\ word # account.password
    /\ op # "adminReset" => account.status = "active"
    /\ BeginSign(q, op, CHOOSE s \in Sids : TRUE, word)

-----------------------------------------------------------------------------
(* Requests commit. *)

SignEnd(q) == /\ signReq' = [signReq EXCEPT ![q] = SignIdle]
              /\ UNCHANGED <<tick, begun>>

Serving(q, ops) == Signing(q) /\ signReq[q].op \in ops

(* The columns that differ from what the request loaded are written. *)
Written(row, loaded, computed) ==
    [c \in DOMAIN row |->
        IF computed[c] # loaded[c] THEN computed[c] ELSE row[c]]

Save(q, computed) ==
    account' = Written(account, signReq[q].row, computed)

(* login with a wrong password: the count it loaded, plus one. *)
LoginFails(q) ==
    /\ Serving(q, {"login"}) /\ signReq[q].word # signReq[q].row.password
    /\ LET fails == signReq[q].row.fails + 1 IN
       Save(q, [signReq[q].row EXCEPT !.fails = fails,
                   !.locked = IF fails >= MaxFailures THEN tick + LockTicks
                              ELSE @])
    /\ SignEnd(q) /\ UNCHANGED <<session, cut>>

(* _create_session_and_tokens: when there were MaxSessions sessions, the   *)
(* oldest is revoked.                                                      *)
Oldest(rows) == CHOOSE s \in Active(rows) :
                   \A r \in Active(rows) : rows[s].born <= rows[r].born

(* Variant: the oldest is revoked one session too late. *)
AddSessionLate(q) ==
    LET r == signReq[q]
        full == Cardinality(Active(r.rows)) > MaxSessions
    IN  session' = [s \in Sids |->
           IF s = r.s THEN [jti |-> r.n, revoked |-> FALSE,
                            born |-> Latest(session) + 1,
                            expires |-> tick + SessionTicks]
           ELSE IF full /\ s = Oldest(r.rows)
           THEN [session[s] EXCEPT !.revoked = TRUE]
           ELSE session[s]]

AddSession(q) ==
    LET r == signReq[q]
        full == Cardinality(Active(r.rows)) >= MaxSessions
    IN  session' = [s \in Sids |->
           IF s = r.s THEN [jti |-> r.n, revoked |-> FALSE,
                            born |-> Latest(session) + 1,
                            expires |-> tick + SessionTicks]
           ELSE IF full /\ s = Oldest(r.rows)
           THEN [session[s] EXCEPT !.revoked = TRUE]
           ELSE session[s]]

(* login, login_with_code: a disabled account is refused, and nothing is   *)
(* written.                                                                *)
LoginSucceeds(q) ==
    /\ Serving(q, {"login", "codeLogin"})
    /\ signReq[q].word = signReq[q].row.password
    /\ IF signReq[q].row.status = "active"
       THEN /\ Save(q, [signReq[q].row EXCEPT !.fails = 0, !.locked = 0])
            /\ AddSession(q)
       ELSE UNCHANGED <<account, session>>
    /\ SignEnd(q) /\ UNCHANGED cut

Logout(q) ==
    /\ Serving(q, {"logout"})
    /\ session' = [session EXCEPT ![signReq[q].s].revoked = TRUE]
    /\ SignEnd(q) /\ UNCHANGED <<account, cut>>

(* Variant: the whole row is written as it was loaded. *)
RefreshAllColumns(q) ==
    /\ Serving(q, {"refresh"})
    /\ LET r == signReq[q] IN
       session' = [session EXCEPT ![r.s] =
          [r.rows[r.s] EXCEPT !.jti = r.n, !.expires = tick + SessionTicks]]
    /\ SignEnd(q) /\ UNCHANGED <<account, cut>>

(* refresh_access_token: a new token and a new end. *)
Refresh(q) ==
    /\ Serving(q, {"refresh"})
    /\ LET r == signReq[q] IN
       session' = [session EXCEPT ![r.s] =
          Written(@, r.rows[r.s],
                  [r.rows[r.s] EXCEPT !.jti = r.n,
                                      !.expires = tick + SessionTicks])]
    /\ SignEnd(q) /\ UNCHANGED <<account, cut>>

(* change_password, reset_password and the administrator's reset: the      *)
(* sessions that were active when the request read them are revoked.       *)
SetPassword(q) ==
    /\ Serving(q, PasswordOps)
    /\ LET r == signReq[q] IN
       /\ Save(q, [r.row EXCEPT !.password = r.word])
       /\ session' = [s \in Sids |->
             IF s \in Active(r.rows) THEN [session[s] EXCEPT !.revoked = TRUE]
             ELSE session[s]]
       /\ cut' = cut \cup {s \in Sids : Exists(r.rows[s])}
    /\ SignEnd(q)

(* The administrator disables or enables the account. *)
SetAccountStatus ==
    /\ begun < SignBudget /\ begun' = begun + 1
    /\ account' = [account EXCEPT !.status = IF @ = "active" THEN "disabled"
                                             ELSE "active"]
    /\ UNCHANGED <<session, signReq, tick, cut>>

SignTick ==
    /\ tick < SignHorizon /\ tick' = tick + 1
    /\ UNCHANGED <<account, session, signReq, begun, cut>>

NextSessions ==
    \/ \E q \in SignRequests :
          \/ \E s \in Sids : \/ \E word \in Passwords : BeginLogin(q, s, word)
                             \/ BeginCodeLogin(q, s)
                             \/ BeginLogout(q, s)
                             \/ BeginRefresh(q, s)
          \/ \E op \in PasswordOps, word \in Passwords :
                BeginPassword(q, op, word)
          \/ LoginFails(q) \/ LoginSucceeds(q) \/ Logout(q) \/ Refresh(q)
          \/ SetPassword(q)
    \/ SetAccountStatus
    \/ SignTick

SessionsSpec == SessionsInit /\ [][NextSessions]_signVars

-----------------------------------------------------------------------------
SessionsTypeOK ==
    /\ account \in AccountRow
    /\ session \in [Sids -> SessionRow]
    /\ signReq \in [SignRequests -> SignRequest \cup {SignIdle}]
    /\ tick \in 1..SignHorizon /\ begun \in 0..SignBudget
    /\ cut \subseteq Sids

(* A session that existed when a password change or reset began is dead    *)
(* from its end on: no refresh, logout or login that was under way gives   *)
(* it back.  A session whose login was still under way may live on.        *)
CutSessionsDead == \A s \in cut : session[s].revoked

Ends(q) == Signing(q) /\ ~Signing(q)'

LiveSessionsLimited ==
    LET live == Active(session)
    IN  /\ Cardinality(Active(session)') > MaxSessions
        /\ Cardinality(Active(session)') > Cardinality(live)
        => \E q \in SignRequests : Ends(q) /\ Active(signReq[q].rows) # live

LockKept ==
    LockedAt(account, tick) /\ account'.locked < account.locked
        => \E q \in SignRequests :
              /\ Ends(q) /\ signReq[q].word = signReq[q].row.password
              /\ signReq[q].row.locked > 0

(* The two limits of signing in.  The number of live sessions goes above    *)
(* MAX_ACTIVE_SESSIONS only when a login had read the sessions before       *)
(* another request changed them.  A lock in force is lifted before its time *)
(* only by a login with the right password that began when an earlier lock  *)
(* had run out, or by one with a code; it is cut short by no failed login.  *)
LimitsHold == [][LiveSessionsLimited /\ LockKept]_signVars
=============================================================================

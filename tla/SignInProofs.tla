---------------------------- MODULE SignInProofs ----------------------------
(***************************************************************************)
(* Theorems about signing in to user-service, for any number of requests,  *)
(* sessions, codes and errors: the sessions and the lock of an account     *)
(* (Sessions), and the codes sent to an address (EmailCodes).  The two     *)
(* share no state, and each is proved by an invariant of its own.          *)
(***************************************************************************)
EXTENDS Sessions, EmailCodes, NumberFacts

-----------------------------------------------------------------------------
(* Sessions.  A request decides on rows it read earlier, so the invariant   *)
(* relates those rows to the ones that are there now.                       *)

(* The sessions a request has read are still there, and those it read as    *)
(* revoked still are.                                                       *)
ReadsSurvive ==
    \A q \in SignRequests, s \in Sids :
        Signing(q) /\ Exists(signReq[q].rows[s]) =>
            /\ Exists(session[s])
            /\ signReq[q].rows[s].revoked => session[s].revoked

(* The id a login will use is in no row, and no other login has it. *)
LoggingIn(q) == signReq[q].op \in {"login", "codeLogin"}

LoginsApart ==
    \A q \in SignRequests : LoggingIn(q) =>
        /\ ~Exists(session[signReq[q].s])
        /\ \A r \in SignRequests :
              LoggingIn(r) /\ signReq[r].s = signReq[q].s => r = q

(* A session that is cut exists and is dead. *)
CutsHold == \A s \in cut : Exists(session[s]) /\ session[s].revoked

(* No lock is further ahead than one made now would be. *)
LockBounded == account.locked <= tick + LockTicks

SessionsInv ==
    SessionsTypeOK /\ ReadsSurvive /\ LoginsApart /\ CutsHold /\ LockBounded

LEMMA SessionsInitially == SessionsAssumption /\ SessionsInit => SessionsInv
  BY DEF SessionsAssumption, SessionsInit, SessionsInv, SessionsTypeOK,
         ReadsSurvive, LoginsApart, LoggingIn, CutsHold, LockBounded,
         Signing, SignIdle, NoSession, SessionRow, AccountRow

(* What a request carries. *)
LEMMA SignCarries ==
    ASSUME SessionsTypeOK, NEW q \in SignRequests, Signing(q)
    PROVE  signReq[q] \in SignRequest
  BY DEF SessionsTypeOK, Signing, SignIdle

LEMMA LatestIsNumber ==
    ASSUME SessionsAssumption, NEW rows \in [Sids -> SessionRow]
    PROVE  Latest(rows) \in Nat
  <1> DEFINE births == {rows[s].born : s \in Sids}
  <1>1. births \in SUBSET Nat /\ births # {}
    BY DEF SessionRow, SessionsAssumption
  <1>2. IsFiniteSet(births)
    <2> DEFINE born == [s \in Sids |-> rows[s].born]
    <2>1. IsFiniteSet({born[s] : s \in Sids})
      BY FiniteImage DEF SessionsAssumption
    <2>2. births = {born[s] : s \in Sids}
      OBVIOUS
    <2>3. QED
      BY <2>1, <2>2
  <1>3. \E b \in births : \A c \in births : c <= b
    BY <1>1, <1>2, GreatestOfFinite
  <1>4. QED
    BY <1>1, <1>3 DEF Latest

(* Saving writes a row of the same type, column by column. *)
LEMMA WrittenAccount ==
    ASSUME NEW row \in AccountRow, NEW loaded \in AccountRow,
           NEW computed \in AccountRow
    PROVE  /\ Written(row, loaded, computed) \in AccountRow
           /\ Written(row, loaded, computed).locked =
                 IF computed.locked # loaded.locked THEN computed.locked
                 ELSE row.locked
  BY DEF AccountRow, Written

RefreshedRow(row, n, t) == [row EXCEPT !.jti = n, !.expires = t]

LEMMA WrittenSession ==
    ASSUME NEW row \in SessionRow, NEW loaded \in SessionRow,
           NEW n \in Nat, NEW t \in Nat
    PROVE  LET new == Written(row, loaded, RefreshedRow(loaded, n, t))
           IN  /\ new \in SessionRow
               /\ new.born = row.born /\ new.revoked = row.revoked
  BY DEF SessionRow, Written, RefreshedRow

(* What a step may do to the sessions: nothing that is there goes away, and *)
(* nothing that is revoked comes back.                                      *)
Survive ==
    \A s \in Sids : Exists(session[s]) =>
        Exists(session'[s]) /\ (session[s].revoked => session'[s].revoked)

(* The end of a request, whatever it was, that saves such a change, and     *)
(* creates no session but the one of a login.                               *)
LEMMA EndKeeps ==
    ASSUME SessionsInv, NEW q \in SignRequests, Signing(q), SignEnd(q),
           account' \in AccountRow, account'.locked <= tick + LockTicks,
           session' \in [Sids -> SessionRow], Survive,
           \A s \in Sids : Exists(session'[s]) /\ ~Exists(session[s])
               => LoggingIn(q) /\ s = signReq[q].s,
           cut' \subseteq Sids,
           \A s \in cut' : Exists(session'[s]) /\ session'[s].revoked
    PROVE  SessionsInv'
  <1>1. /\ signReq' \in [SignRequests -> SignRequest \cup {SignIdle}]
        /\ ~Signing(q)' /\ ~LoggingIn(q)'
        /\ \A r \in SignRequests : r # q => signReq'[r] = signReq[r]
    BY DEF SignEnd, SessionsInv, SessionsTypeOK, Signing, LoggingIn, SignIdle
  <1>2. SessionsTypeOK'
    BY <1>1 DEF SessionsInv, SessionsTypeOK, SignEnd
  <1>3. ReadsSurvive'
    <2> SUFFICES ASSUME NEW r \in SignRequests, NEW s \in Sids,
                        Signing(r)', Exists(signReq[r].rows[s])'
                 PROVE  /\ Exists(session[s])'
                        /\ signReq[r].rows[s].revoked' => session[s].revoked'
      BY DEF ReadsSurvive
    <2>1. r # q /\ signReq'[r] = signReq[r]
      BY <1>1
    <2>2. /\ Exists(session[s])
          /\ signReq[r].rows[s].revoked => session[s].revoked
      BY <2>1 DEF SessionsInv, ReadsSurvive, Signing, Exists
    <2>3. QED
      BY <2>1, <2>2 DEF Survive, Exists
  <1>4. LoginsApart'
    <2> SUFFICES ASSUME NEW r \in SignRequests, LoggingIn(r)'
                 PROVE  /\ ~Exists(session[signReq[r].s])'
                        /\ \A p \in SignRequests :
                              LoggingIn(p)' /\ signReq'[p].s = signReq'[r].s
                                  => p = r
      BY DEF LoginsApart
    <2>1. r # q /\ signReq'[r] = signReq[r] /\ LoggingIn(r)
      BY <1>1 DEF LoggingIn
    <2>2. /\ ~Exists(session[signReq[r].s])
          /\ \A p \in SignRequests :
                LoggingIn(p) /\ signReq[p].s = signReq[r].s => p = r
      BY <2>1 DEF SessionsInv, LoginsApart
    <2>3. signReq[r].s \in Sids
      BY <2>1, SignCarries DEF SessionsInv, LoggingIn, Signing, SignRequest
    <2>4. ~Exists(session'[signReq[r].s])
      BY <2>1, <2>2, <2>3
    <2>5. \A p \in SignRequests : LoggingIn(p)' /\ signReq'[p].s = signReq'[r].s
              => LoggingIn(p) /\ signReq[p].s = signReq[r].s
      BY <1>1, <2>1 DEF LoggingIn
    <2>6. QED
      BY <2>1, <2>2, <2>4, <2>5 DEF Exists
  <1>5. CutsHold'
    BY DEF CutsHold, Exists
  <1>6. LockBounded'
    BY DEF LockBounded, SignEnd
  <1>7. QED
    BY <1>2, <1>3, <1>4, <1>5, <1>6 DEF SessionsInv

LEMMA BeginKeeps ==
    ASSUME SessionsInv, NEW q \in SignRequests, NEW s \in Sids,
           NEW word \in Passwords,
           NEW op \in {"login", "codeLogin", "logout", "refresh"}
                      \cup PasswordOps,
           op \in {"login", "codeLogin"} => Fresh(s),
           SessionsAssumption, BeginSign(q, op, s, word)
    PROVE  SessionsInv'
  <1> DEFINE new == [op |-> op, s |-> s, word |-> word, row |-> account,
                     rows |-> session, n |-> begun + 1]
  <1>1. new \in SignRequest
    BY DEF SignRequest, SessionsInv, SessionsTypeOK
  <1>2. /\ UNCHANGED <<account, session, tick, cut>>
        /\ begun' \in 0..SignBudget /\ ~Signing(q)
        /\ signReq' = [signReq EXCEPT ![q] = new]
    BY DEF BeginSign, SessionsInv, SessionsTypeOK, SessionsAssumption
  <1>3. /\ signReq'[q] = new
        /\ \A r \in SignRequests : r # q => signReq'[r] = signReq[r]
    BY <1>2 DEF SessionsInv, SessionsTypeOK
  <1>4. new.op = op /\ new.s = s /\ new.rows = session
    OBVIOUS
  <1> HIDE DEF new
  <1>5. SessionsTypeOK'
    BY <1>1, <1>2 DEF SessionsInv, SessionsTypeOK
  <1>6. ReadsSurvive'
    BY <1>2, <1>3, <1>4 DEF SessionsInv, ReadsSurvive, Signing, Exists
  <1>7. LoginsApart'
    <2>1. \A r \in SignRequests : r # q =>
             (LoggingIn(r)' <=> LoggingIn(r)) /\ signReq'[r].s = signReq[r].s
      BY <1>3 DEF LoggingIn
    <2>2. LoggingIn(q)' => /\ ~Exists(session[s])
                           /\ \A r \in SignRequests :
                                 Signing(r) => signReq[r].s # s
      BY <1>3, <1>4 DEF LoggingIn, Fresh
    <2>3. \A r \in SignRequests : LoggingIn(r) => Signing(r)
      BY DEF LoggingIn, Signing
    <2>4. QED
      BY <1>2, <1>3, <1>4, <2>1, <2>2, <2>3
      DEF SessionsInv, LoginsApart, Exists
  <1>8. CutsHold' /\ LockBounded'
    BY <1>2 DEF SessionsInv, CutsHold, LockBounded, Exists
  <1>9. QED
    BY <1>5, <1>6, <1>7, <1>8 DEF SessionsInv

(* What serving a request of some kinds gives. *)
LEMMA ServedCarries ==
    ASSUME SessionsInv, NEW q \in SignRequests, NEW ops, Serving(q, ops)
    PROVE  /\ Signing(q) /\ signReq[q] \in SignRequest
           /\ signReq[q].op \in ops
           /\ signReq[q].row \in AccountRow /\ signReq[q].s \in Sids
           /\ signReq[q].rows \in [Sids -> SessionRow]
           /\ signReq[q].word \in Passwords /\ signReq[q].n \in Nat
           /\ account \in AccountRow /\ session \in [Sids -> SessionRow]
           /\ tick \in Nat
  BY SignCarries
  DEF Serving, SignRequest, SessionsInv, SessionsTypeOK

(* What the save of one column makes of a row that is the loaded one but    *)
(* for it.                                                                  *)
FailedRow(row, fails, locked) ==
    [row EXCEPT !.fails = fails, !.locked = locked]
LoggedRow(row) == [row EXCEPT !.fails = 0, !.locked = 0]
ChangedRow(row, word) == [row EXCEPT !.password = word]

LEMMA FailedRows ==
    ASSUME NEW row \in AccountRow, NEW fails \in Nat, NEW locked \in Nat
    PROVE  /\ FailedRow(row, fails, locked) \in AccountRow
           /\ FailedRow(row, fails, locked).locked = locked
  BY DEF AccountRow, FailedRow

LEMMA LoggedRows ==
    ASSUME NEW row \in AccountRow
    PROVE  LoggedRow(row) \in AccountRow /\ LoggedRow(row).locked = 0
  BY DEF AccountRow, LoggedRow

LEMMA ChangedRows ==
    ASSUME NEW row \in AccountRow, NEW word \in Passwords
    PROVE  /\ ChangedRow(row, word) \in AccountRow
           /\ ChangedRow(row, word).locked = row.locked
  BY DEF AccountRow, ChangedRow

(* A failed login never shortens a lock. *)
LEMMA LoginFailsSaves ==
    ASSUME SessionsAssumption, SessionsInv, NEW q \in SignRequests,
           LoginFails(q)
    PROVE  /\ account' \in AccountRow
           /\ account'.locked <= tick + LockTicks
           /\ account'.locked >= account.locked
  <1> DEFINE fails == signReq[q].row.fails + 1
             locked == IF fails >= MaxFailures THEN tick + LockTicks
                       ELSE signReq[q].row.locked
             computed == FailedRow(signReq[q].row, fails, locked)
  <1>1. /\ signReq[q].row \in AccountRow /\ account \in AccountRow
        /\ tick \in Nat
    BY ServedCarries DEF LoginFails
  <1>2. fails \in Nat /\ locked \in Nat
    BY <1>1 DEF AccountRow, SessionsAssumption
  <1>3. account' = Written(account, signReq[q].row, computed)
    BY DEF LoginFails, Save, FailedRow
  <1>4. locked = tick + LockTicks \/ locked = signReq[q].row.locked
    OBVIOUS
  <1>5. account.locked \in Nat /\ account.locked <= tick + LockTicks
    BY <1>1 DEF SessionsInv, LockBounded, AccountRow
  <1> HIDE DEF fails, locked
  <1>6. computed \in AccountRow /\ computed.locked = locked
    BY <1>1, <1>2, FailedRows
  <1> HIDE DEF computed
  <1>7. /\ account' \in AccountRow
        /\ account'.locked = IF computed.locked # signReq[q].row.locked
                             THEN computed.locked ELSE account.locked
    BY <1>1, <1>3, <1>6, WrittenAccount
  <1>8. QED
    BY <1>1, <1>4, <1>5, <1>6, <1>7 DEF SessionsAssumption

LEMMA LoginFailsKeeps ==
    ASSUME SessionsAssumption, SessionsInv, NEW q \in SignRequests,
           LoginFails(q)
    PROVE  SessionsInv'
  <1>1. Signing(q) /\ session \in [Sids -> SessionRow]
    BY ServedCarries DEF LoginFails
  <1>2. SignEnd(q) /\ UNCHANGED <<session, cut>>
    BY DEF LoginFails
  <1>3. \A s \in cut' : Exists(session'[s]) /\ session'[s].revoked
    BY <1>2 DEF SessionsInv, CutsHold
  <1>4. cut' \subseteq Sids /\ Survive
    BY <1>2 DEF SessionsInv, SessionsTypeOK, Survive
  <1>5. QED
    BY <1>1, <1>2, <1>3, <1>4, LoginFailsSaves, EndKeeps

RevokedRow(row) == [row EXCEPT !.revoked = TRUE]

LEMMA RevokedRows ==
    ASSUME NEW row \in SessionRow
    PROVE  /\ RevokedRow(row) \in SessionRow /\ RevokedRow(row).revoked
           /\ RevokedRow(row).born = row.born
  BY DEF SessionRow, RevokedRow

(* A login adds its session, and at most revokes another. *)
LEMMA AddSessionSurvives ==
    ASSUME SessionsAssumption, SessionsInv, NEW q \in SignRequests,
           Serving(q, {"login", "codeLogin"}), AddSession(q)
    PROVE  /\ session' \in [Sids -> SessionRow] /\ Survive
           /\ \A s \in Sids : Exists(session'[s]) /\ ~Exists(session[s])
                 => s = signReq[q].s
           /\ Active(session') \subseteq Active(session) \cup {signReq[q].s}
           /\ Cardinality(Active(signReq[q].rows)) >= MaxSessions =>
                 Active(session') \subseteq
                   (Active(session) \ {Oldest(signReq[q].rows)})
                      \cup {signReq[q].s}
  <1> DEFINE r == signReq[q]
             new == [jti |-> r.n, revoked |-> FALSE,
                     born |-> Latest(session) + 1,
                     expires |-> tick + SessionTicks]
             full == Cardinality(Active(r.rows)) >= MaxSessions
             old == Oldest(r.rows)
  <1>1. /\ r.s \in Sids /\ r.n \in Nat /\ tick \in Nat
        /\ session \in [Sids -> SessionRow]
    BY ServedCarries
  <1>2. new \in SessionRow
    BY <1>1, LatestIsNumber DEF SessionRow, SessionsAssumption
  <1>3. ~Exists(session[r.s])
    BY DEF SessionsInv, LoginsApart, LoggingIn, Serving
  <1>4. session' = [s \in Sids |-> IF s = r.s THEN new
                                   ELSE IF full /\ s = old
                                   THEN RevokedRow(session[s])
                                   ELSE session[s]]
    BY DEF AddSession, RevokedRow
  <1> HIDE DEF new, full, old, r
  <1>5. \A s \in Sids :
           \/ s = r.s /\ session'[s] = new
           \/ /\ s # r.s /\ full /\ s = old
              /\ session'[s] = RevokedRow(session[s])
           \/ s # r.s /\ ~(full /\ s = old) /\ session'[s] = session[s]
    BY <1>4
  <1>6. \A s \in Sids : session'[s] = RevokedRow(session[s])
           => /\ session'[s] \in SessionRow
              /\ session'[s].born = session[s].born /\ session'[s].revoked
    BY <1>1, RevokedRows
  <1>7. \A s \in Sids : session'[s] \in SessionRow
    BY <1>1, <1>2, <1>5, <1>6
  <1>8. session' \in [Sids -> SessionRow]
    BY <1>4, <1>7
  <1>9. Survive
    BY <1>3, <1>5, <1>6 DEF Survive, Exists
  <1>10. \A s \in Sids : Exists(session'[s]) /\ ~Exists(session[s]) => s = r.s
    BY <1>5, <1>6 DEF Exists
  <1>11. \A s \in Active(session') :
            s \in Sids /\ (s = r.s \/ (s \in Active(session) /\ ~(full /\ s = old)))
    BY <1>5, <1>6 DEF Active, Exists
  <1>12. QED
    BY <1>8, <1>9, <1>10, <1>11 DEF r, full, old

LEMMA LoginSucceedsKeeps ==
    ASSUME SessionsAssumption, SessionsInv, NEW q \in SignRequests,
           LoginSucceeds(q)
    PROVE  SessionsInv'
  <1>1. /\ Serving(q, {"login", "codeLogin"}) /\ SignEnd(q) /\ UNCHANGED cut
    BY DEF LoginSucceeds
  <1>2. /\ Signing(q) /\ LoggingIn(q)
        /\ account \in AccountRow /\ signReq[q].row \in AccountRow
        /\ session \in [Sids -> SessionRow] /\ tick \in Nat
        /\ signReq[q].s \in Sids
    BY <1>1, ServedCarries DEF LoggingIn
  <1>3. /\ account.locked <= tick + LockTicks /\ cut \subseteq Sids
        /\ \A s \in cut : Exists(session[s]) /\ session[s].revoked
    BY DEF SessionsInv, LockBounded, SessionsTypeOK, CutsHold
  <1>4. CASE signReq[q].row.status = "active"
    <2>1. AddSession(q) /\ Save(q, LoggedRow(signReq[q].row))
      BY <1>4 DEF LoginSucceeds, LoggedRow
    <2>2. account' \in AccountRow /\ account'.locked \in {0, account.locked}
      BY <1>2, <2>1, LoggedRows, WrittenAccount DEF Save
    <2>3. account'.locked <= tick + LockTicks
      BY <1>2, <1>3, <2>2 DEF SessionsAssumption
    <2>4. /\ session' \in [Sids -> SessionRow] /\ Survive
          /\ \A s \in Sids : Exists(session'[s]) /\ ~Exists(session[s])
                => s = signReq[q].s
      BY <1>1, <2>1, AddSessionSurvives
    <2>5. \A s \in cut' : Exists(session'[s]) /\ session'[s].revoked
      BY <1>1, <1>3, <2>4 DEF Survive
    <2>6. QED
      BY <1>1, <1>2, <1>3, <2>2, <2>3, <2>4, <2>5, EndKeeps
  <1>5. CASE signReq[q].row.status # "active"
    <2>1. UNCHANGED <<account, session>> /\ Survive
      BY <1>5 DEF LoginSucceeds, Survive
    <2>2. QED
      BY <1>1, <1>2, <1>3, <2>1, EndKeeps
  <1>6. QED
    BY <1>4, <1>5

(* The steps that only revoke. *)
LEMMA RevokeSurvives ==
    ASSUME session \in [Sids -> SessionRow], NEW S,
           session' = [s \in Sids |-> IF s \in S THEN RevokedRow(session[s])
                                      ELSE session[s]]
    PROVE  /\ session' \in [Sids -> SessionRow] /\ Survive
           /\ \A s \in Sids : Exists(session'[s]) => Exists(session[s])
           /\ \A s \in Sids : s \in S => session'[s].revoked
           /\ Active(session') \subseteq Active(session)
  <1>1. \A s \in Sids :
           /\ session'[s] \in SessionRow
           /\ session'[s].born = session[s].born
           /\ session[s].revoked => session'[s].revoked
           /\ s \in S => session'[s].revoked
    BY RevokedRows
  <1>2. session' \in [Sids -> SessionRow]
    BY <1>1
  <1>3. QED
    BY <1>1, <1>2 DEF Survive, Exists, Active

LEMMA LogoutSurvives ==
    ASSUME SessionsInv, NEW q \in SignRequests, Logout(q)
    PROVE  /\ session' \in [Sids -> SessionRow] /\ Survive
           /\ \A s \in Sids : Exists(session'[s]) => Exists(session[s])
           /\ Active(session') \subseteq Active(session)
  <1>1. session \in [Sids -> SessionRow] /\ signReq[q].s \in Sids
    BY ServedCarries DEF Logout
  <1>2. session' = [s \in Sids |-> IF s \in {signReq[q].s}
                                   THEN RevokedRow(session[s])
                                   ELSE session[s]]
    BY <1>1 DEF Logout, RevokedRow
  <1>3. QED
    BY <1>1, <1>2, RevokeSurvives

(* A refresh writes neither of the columns that make a session live. *)
LEMMA RefreshSurvives ==
    ASSUME SessionsAssumption, SessionsInv, NEW q \in SignRequests, Refresh(q)
    PROVE  /\ session' \in [Sids -> SessionRow] /\ Survive
           /\ \A s \in Sids : Exists(session'[s]) => Exists(session[s])
           /\ Active(session') \subseteq Active(session)
  <1> DEFINE at == signReq[q].s
             loaded == signReq[q].rows[at]
             n == signReq[q].n
             end == tick + SessionTicks
             new == Written(session[at], loaded, RefreshedRow(loaded, n, end))
  <1>1. /\ at \in Sids /\ n \in Nat /\ end \in Nat
        /\ session \in [Sids -> SessionRow]
        /\ session[at] \in SessionRow /\ loaded \in SessionRow
    BY ServedCarries DEF Refresh, SessionsAssumption
  <1>2. session' = [session EXCEPT ![at] = new]
    BY DEF Refresh, RefreshedRow
  <1> HIDE DEF at, loaded, n, end
  <1>3. /\ new \in SessionRow /\ new.born = session[at].born
        /\ new.revoked = session[at].revoked
    BY <1>1, WrittenSession
  <1> HIDE DEF new
  <1>4. QED
    BY <1>1, <1>2, <1>3 DEF Survive, Exists, Active

LEMMA LogoutRefreshKeep ==
    ASSUME SessionsAssumption, SessionsInv, NEW q \in SignRequests,
           Logout(q) \/ Refresh(q)
    PROVE  SessionsInv'
  <1>1. SignEnd(q) /\ UNCHANGED <<account, cut>> /\ Signing(q)
    BY DEF Logout, Refresh, Serving
  <1>2. account' \in AccountRow /\ account'.locked <= tick + LockTicks
    BY <1>1 DEF SessionsInv, SessionsTypeOK, LockBounded
  <1>3. /\ session' \in [Sids -> SessionRow] /\ Survive
        /\ \A s \in Sids : Exists(session'[s]) => Exists(session[s])
    BY LogoutSurvives, RefreshSurvives
  <1>4. cut' \subseteq Sids
    BY <1>1 DEF SessionsInv, SessionsTypeOK
  <1>5. \A s \in cut' : Exists(session'[s]) /\ session'[s].revoked
    BY <1>1, <1>3, <1>4 DEF SessionsInv, CutsHold, Survive
  <1>6. QED
    BY <1>1, <1>2, <1>3, <1>4, <1>5, EndKeeps

(* A new password revokes what it read as active, and what it read as       *)
(* revoked still is.                                                        *)
LEMMA SetPasswordSurvives ==
    ASSUME SessionsInv, NEW q \in SignRequests, SetPassword(q)
    PROVE  /\ session' \in [Sids -> SessionRow] /\ Survive
           /\ \A s \in Sids : Exists(session'[s]) => Exists(session[s])
           /\ \A s \in Sids : s \in Active(signReq[q].rows)
                 => session'[s].revoked
           /\ Active(session') \subseteq Active(session)
  <1>1. session \in [Sids -> SessionRow]
    BY ServedCarries DEF SetPassword
  <1>2. session' = [s \in Sids |-> IF s \in Active(signReq[q].rows)
                                   THEN RevokedRow(session[s])
                                   ELSE session[s]]
    BY DEF SetPassword, RevokedRow
  <1>3. QED
    BY <1>1, <1>2, RevokeSurvives

LEMMA SetPasswordSaves ==
    ASSUME SessionsInv, NEW q \in SignRequests, SetPassword(q)
    PROVE  account' \in AccountRow /\ account'.locked = account.locked
  <1>1. /\ account \in AccountRow /\ signReq[q].row \in AccountRow
        /\ signReq[q].word \in Passwords
    BY ServedCarries DEF SetPassword
  <1>2. account' = Written(account, signReq[q].row,
                           ChangedRow(signReq[q].row, signReq[q].word))
    BY DEF SetPassword, Save, ChangedRow
  <1>3. QED
    BY <1>1, <1>2, ChangedRows, WrittenAccount

LEMMA SetPasswordKeeps ==
    ASSUME SessionsInv, NEW q \in SignRequests, SetPassword(q)
    PROVE  SessionsInv'
  <1>1. SignEnd(q) /\ Signing(q)
    BY DEF SetPassword, Serving
  <1>2. account' \in AccountRow /\ account'.locked <= tick + LockTicks
    BY SetPasswordSaves DEF SessionsInv, LockBounded
  <1>3. cut' = cut \cup {s \in Sids : Exists(signReq[q].rows[s])}
    BY DEF SetPassword
  <1>4. cut' \subseteq Sids
    BY <1>3 DEF SessionsInv, SessionsTypeOK
  <1>5. ASSUME NEW s \in cut'
        PROVE  Exists(session'[s]) /\ session'[s].revoked
    <2>1. s \in Sids
      BY <1>4
    <2>2. CASE s \in cut
      BY <2>1, <2>2, SetPasswordSurvives DEF SessionsInv, CutsHold, Survive
    <2>3. CASE Exists(signReq[q].rows[s])
      <3>1. /\ Exists(session[s])
            /\ signReq[q].rows[s].revoked => session[s].revoked
        BY <1>1, <2>1, <2>3 DEF SessionsInv, ReadsSurvive
      <3>2. ~signReq[q].rows[s].revoked => session'[s].revoked
        BY <2>1, <2>3, SetPasswordSurvives DEF Active
      <3>3. QED
        BY <2>1, <3>1, <3>2, SetPasswordSurvives DEF Survive
    <2>4. QED
      BY <1>3, <2>2, <2>3
  <1>6. QED
    BY <1>1, <1>2, <1>4, <1>5, SetPasswordSurvives, EndKeeps

LEMMA QuietKeeps ==
    ASSUME SessionsAssumption, SessionsInv, SetAccountStatus \/ SignTick
    PROVE  SessionsInv' /\ account'.locked = account.locked
  <1>1. UNCHANGED <<session, signReq, cut>>
    BY DEF SetAccountStatus, SignTick
  <1>2. /\ account' \in AccountRow /\ account'.locked = account.locked
        /\ tick' \in 1..SignHorizon /\ tick' >= tick
        /\ begun' \in 0..SignBudget
    <2>1. CASE SetAccountStatus
      BY <2>1
      DEF SetAccountStatus, SessionsInv, SessionsTypeOK, AccountRow,
          SessionsAssumption
    <2>2. CASE SignTick
      BY <2>2 DEF SignTick, SessionsInv, SessionsTypeOK, SessionsAssumption
    <2>3. QED
      BY <2>1, <2>2
  <1>3. SessionsTypeOK'
    BY <1>1, <1>2 DEF SessionsInv, SessionsTypeOK
  <1>4. ReadsSurvive' /\ LoginsApart' /\ CutsHold'
    BY <1>1
    DEF SessionsInv, ReadsSurvive, LoginsApart, CutsHold, LoggingIn, Signing,
        Exists
  <1>5. LockBounded'
    BY <1>2 DEF SessionsInv, SessionsTypeOK, LockBounded, AccountRow,
                SessionsAssumption
  <1>6. QED
    BY <1>2, <1>3, <1>4, <1>5 DEF SessionsInv

LEMMA BeginsKeep ==
    ASSUME SessionsAssumption, SessionsInv, NEW q \in SignRequests,
           \/ \E s \in Sids : \/ \E word \in Passwords : BeginLogin(q, s, word)
                              \/ BeginCodeLogin(q, s)
                              \/ BeginLogout(q, s)
                              \/ BeginRefresh(q, s)
           \/ \E op \in PasswordOps, word \in Passwords :
                 BeginPassword(q, op, word)
    PROVE  SessionsInv' /\ UNCHANGED <<account, session>>
  <1>1. account.password \in Passwords
    BY DEF SessionsInv, SessionsTypeOK, AccountRow
  <1>2. (CHOOSE s \in Sids : TRUE) \in Sids
    BY DEF SessionsAssumption
  <1>3. \E s \in Sids, word \in Passwords,
           op \in {"login", "codeLogin", "logout", "refresh"}
                  \cup PasswordOps :
           /\ op \in {"login", "codeLogin"} => Fresh(s)
           /\ BeginSign(q, op, s, word)
    BY <1>1, <1>2
    DEF BeginLogin, BeginCodeLogin, BeginLogout, BeginRefresh, BeginPassword,
        PasswordOps
  <1>4. QED
    BY <1>3, BeginKeeps DEF BeginSign

LEMMA SessionsStep ==
    ASSUME SessionsAssumption, SessionsInv, [NextSessions]_signVars
    PROVE  SessionsInv'
  <1>1. CASE UNCHANGED signVars
    BY <1>1
    DEF signVars, SessionsInv, SessionsTypeOK, ReadsSurvive, LoginsApart,
        CutsHold, LockBounded, LoggingIn, Signing, Exists
  <1>2. QED
    BY <1>1, BeginsKeep, LoginFailsKeeps, LoginSucceedsKeeps,
       LogoutRefreshKeep, SetPasswordKeeps, QuietKeeps
    DEF NextSessions

(* For any number of requests, sessions and limits: once a password change  *)
(* or a reset has completed, every session it found is dead and stays dead. *)
THEOREM PasswordChangesCut ==
    SessionsSpec => [](SessionsTypeOK /\ CutSessionsDead)
  <1>1. SessionsInv => SessionsTypeOK /\ CutSessionsDead
    BY DEF SessionsInv, CutsHold, CutSessionsDead
  <1>2. QED
    BY <1>1, SessionsInitially, SessionsStep, SessionsAssumption, PTL
    DEF SessionsSpec

-----------------------------------------------------------------------------
(* The limits. *)

LEMMA LiveIsFinite ==
    ASSUME SessionsAssumption, NEW rows
    PROVE  /\ Active(rows) \subseteq Sids /\ IsFiniteSet(Active(rows))
           /\ Cardinality(Active(rows)) \in Nat
  <1>1. Active(rows) \subseteq Sids
    BY DEF Active
  <1>2. QED
    BY <1>1, FS_Subset, FS_CardinalityType DEF SessionsAssumption

LEMMA OldestIsLive ==
    ASSUME SessionsAssumption, NEW rows \in [Sids -> SessionRow],
           Active(rows) # {}
    PROVE  Oldest(rows) \in Active(rows)
  <1> DEFINE births == {rows[s].born : s \in Active(rows)}
  <1>1. Active(rows) \subseteq Sids
    BY DEF Active
  <1>2. births \in SUBSET Nat /\ births # {}
    BY <1>1 DEF SessionRow
  <1>3. PICK b \in births : \A c \in births : b <= c
    BY <1>2, LeastElement
  <1>4. \E s \in Active(rows) :
           \A r \in Active(rows) : rows[s].born <= rows[r].born
    BY <1>3
  <1>5. QED
    BY <1>4 DEF Oldest

(* A step that makes no session live does not pass the limit. *)
LEMMA FewerAreLimited ==
    ASSUME SessionsAssumption, Active(session)' \subseteq Active(session)
    PROVE  LiveSessionsLimited
  <1>1. /\ IsFiniteSet(Active(session)) /\ Cardinality(Active(session)) \in Nat
        /\ Cardinality(Active(session)') <= Cardinality(Active(session))
    BY LiveIsFinite, FS_Subset
  <1>2. Cardinality(Active(session)') \in Nat
    BY <1>1, FS_Subset, FS_CardinalityType
  <1>3. QED
    BY <1>1, <1>2 DEF LiveSessionsLimited

(* A login that read the sessions as they still are revokes the oldest for  *)
(* the one it adds, when there is no room for it.                           *)
LEMMA LoginLimited ==
    ASSUME SessionsAssumption, SessionsInv, NEW q \in SignRequests,
           LoginSucceeds(q)
    PROVE  LiveSessionsLimited
  <1> DEFINE live == Active(session)
             after == Active(session)'
  <1>1. /\ Serving(q, {"login", "codeLogin"}) /\ Signing(q) /\ SignEnd(q)
        /\ signReq[q].rows \in [Sids -> SessionRow]
    BY ServedCarries DEF LoginSucceeds
  <1>2. Ends(q)
    <2>1. signReq'[q] = SignIdle
      BY <1>1 DEF SignEnd, SessionsInv, SessionsTypeOK
    <2>2. QED
      BY <1>1, <2>1 DEF Ends, Signing, SignIdle
  <1>3. CASE signReq[q].row.status # "active"
    BY <1>3, FewerAreLimited DEF LoginSucceeds, Active, Exists
  <1>4. CASE signReq[q].row.status = "active"
    <2>1. AddSession(q)
      BY <1>4 DEF LoginSucceeds
    <2>2. /\ after \subseteq live \cup {signReq[q].s}
          /\ Cardinality(Active(signReq[q].rows)) >= MaxSessions =>
                after \subseteq (live \ {Oldest(signReq[q].rows)})
                                   \cup {signReq[q].s}
      BY <1>1, <2>1, AddSessionSurvives
    <2>3. /\ IsFiniteSet(live) /\ Cardinality(live) \in Nat
          /\ IsFiniteSet(after) /\ Cardinality(after) \in Nat
      BY LiveIsFinite
    <2> SUFFICES ASSUME Active(signReq[q].rows) = live
                 PROVE  Cardinality(after) <= Cardinality(live)
                           \/ Cardinality(after) <= MaxSessions
      BY <1>2, <2>3 DEF LiveSessionsLimited, SessionsAssumption
    <2>4. CASE Cardinality(live) >= MaxSessions
      <3> DEFINE old == Oldest(signReq[q].rows)
                 rest == live \ {old}
      <3>1. live # {}
        BY <2>4, FS_EmptySet DEF SessionsAssumption
      <3>2. old \in live
        BY <1>1, <3>1, OldestIsLive
      <3> HIDE DEF old
      <3>3. IsFiniteSet(rest) /\ Cardinality(rest) = Cardinality(live) - 1
        BY <2>3, <3>2, FS_RemoveElement
      <3>4. /\ IsFiniteSet(rest \cup {signReq[q].s})
            /\ Cardinality(rest \cup {signReq[q].s}) <= Cardinality(live)
        <4>1. /\ IsFiniteSet(rest \cup {signReq[q].s})
              /\ Cardinality(rest \cup {signReq[q].s})
                    <= Cardinality(rest) + 1
          BY <3>3, OneMore
        <4>2. Cardinality(rest \cup {signReq[q].s}) \in Nat
          BY <3>3, OneMore
        <4> HIDE DEF rest, live
        <4>3. QED
          BY <2>3, <3>3, <4>1, <4>2
      <3>5. after \subseteq rest \cup {signReq[q].s}
        BY <2>2, <2>4 DEF old
      <3>6. Cardinality(after) <= Cardinality(rest \cup {signReq[q].s})
        BY <3>4, <3>5, FS_Subset
      <3>7. Cardinality(rest \cup {signReq[q].s}) \in Nat
        BY <3>4, FS_CardinalityType
      <3>8. QED
        BY <2>3, <3>4, <3>6, <3>7
    <2>5. CASE Cardinality(live) < MaxSessions
      <3>1. /\ IsFiniteSet(live \cup {signReq[q].s})
            /\ Cardinality(live \cup {signReq[q].s}) <= Cardinality(live) + 1
        BY <2>3, OneMore
      <3>2. /\ Cardinality(after) <= Cardinality(live \cup {signReq[q].s})
            /\ Cardinality(live \cup {signReq[q].s}) \in Nat
        BY <2>2, <3>1, FS_Subset, FS_CardinalityType
      <3>3. QED
        BY <2>3, <2>5, <3>1, <3>2 DEF SessionsAssumption
    <2>6. QED
      BY <2>3, <2>4, <2>5 DEF SessionsAssumption
  <1>5. QED
    BY <1>3, <1>4

(* A lock is lifted by a login alone, and only by one whose row had a lock. *)
LEMMA LoginKeepsLock ==
    ASSUME SessionsInv, NEW q \in SignRequests, LoginSucceeds(q)
    PROVE  LockKept
  <1>1. /\ Serving(q, {"login", "codeLogin"}) /\ Signing(q) /\ SignEnd(q)
        /\ signReq[q].row \in AccountRow /\ account \in AccountRow
        /\ signReq[q].word = signReq[q].row.password
    BY ServedCarries DEF LoginSucceeds
  <1>2. Ends(q)
    <2>1. signReq'[q] = SignIdle
      BY <1>1 DEF SignEnd, SessionsInv, SessionsTypeOK
    <2>2. QED
      BY <1>1, <2>1 DEF Ends, Signing, SignIdle
  <1>3. signReq[q].row.locked > 0 \/ account'.locked = account.locked
    <2>1. CASE signReq[q].row.status # "active"
      BY <2>1 DEF LoginSucceeds
    <2>2. CASE signReq[q].row.status = "active"
      <3>1. account' = Written(account, signReq[q].row,
                               LoggedRow(signReq[q].row))
        BY <2>2 DEF LoginSucceeds, Save, LoggedRow
      <3>2. account'.locked = IF 0 # signReq[q].row.locked THEN 0
                              ELSE account.locked
        BY <1>1, <3>1, LoggedRows, WrittenAccount
      <3>3. signReq[q].row.locked \in Nat
        BY <1>1 DEF AccountRow
      <3>4. QED
        BY <3>2, <3>3
    <2>3. QED
      BY <2>1, <2>2
  <1>4. account.locked \in Nat
    BY <1>1 DEF AccountRow
  <1>5. QED
    BY <1>1, <1>2, <1>3, <1>4 DEF LockKept

LEMMA SameLockIsKept ==
    ASSUME SessionsInv, account'.locked \in Nat,
           account'.locked >= account.locked
    PROVE  LockKept
  BY DEF LockKept, SessionsInv, SessionsTypeOK, AccountRow

LEMMA LimitsStep ==
    ASSUME SessionsAssumption, SessionsInv, NextSessions
    PROVE  LiveSessionsLimited /\ LockKept
  <1>1. account.locked \in Nat
    BY DEF SessionsInv, SessionsTypeOK, AccountRow
  <1>2. UNCHANGED <<account, session>> => LiveSessionsLimited /\ LockKept
    BY <1>1, FewerAreLimited, SameLockIsKept DEF Active, Exists
  <1>3. ASSUME NEW q \in SignRequests, LoginFails(q)
        PROVE  LiveSessionsLimited /\ LockKept
    <2>1. account'.locked \in Nat /\ account'.locked >= account.locked
      BY <1>3, LoginFailsSaves DEF AccountRow
    <2>2. Active(session)' = Active(session)
      BY <1>3 DEF LoginFails, Active, Exists
    <2>3. QED
      BY <2>1, <2>2, FewerAreLimited, SameLockIsKept
  <1>4. ASSUME NEW q \in SignRequests, Logout(q) \/ Refresh(q)
        PROVE  LiveSessionsLimited /\ LockKept
    <2>1. Active(session)' \subseteq Active(session)
      BY <1>4, LogoutSurvives, RefreshSurvives
    <2>2. account' = account
      BY <1>4 DEF Logout, Refresh
    <2>3. QED
      BY <1>1, <2>1, <2>2, FewerAreLimited, SameLockIsKept
  <1>5. ASSUME NEW q \in SignRequests, SetPassword(q)
        PROVE  LiveSessionsLimited /\ LockKept
    BY <1>1, <1>5, SetPasswordSurvives, SetPasswordSaves, FewerAreLimited,
       SameLockIsKept
  <1>6. ASSUME SetAccountStatus \/ SignTick
        PROVE  LiveSessionsLimited /\ LockKept
    <2>1. account'.locked = account.locked
      BY <1>6, QuietKeeps
    <2>2. Active(session)' = Active(session)
      BY <1>6 DEF SetAccountStatus, SignTick, Active, Exists
    <2>3. QED
      BY <1>1, <2>1, <2>2, FewerAreLimited, SameLockIsKept
  <1>7. QED
    BY <1>2, <1>3, <1>4, <1>5, <1>6, BeginsKeep, LoginLimited, LoginKeepsLock
    DEF NextSessions

(* For any number of requests, sessions and limits: the number of live      *)
(* sessions passes MAX_ACTIVE_SESSIONS only by a login that read them       *)
(* before they changed, and a lock in force is not shortened but by a login *)
(* with the right password that had read an earlier lock.                   *)
THEOREM LimitsKept == SessionsSpec => LimitsHold
  <1>1. SessionsInv /\ [NextSessions]_signVars
            => [LiveSessionsLimited /\ LockKept]_signVars
    BY LimitsStep, SessionsAssumption
  <1>2. QED
    BY <1>1, SessionsInitially, SessionsStep, SessionsAssumption, PTL
    DEF SessionsSpec, LimitsHold

-----------------------------------------------------------------------------
(* Codes by mail. *)

(* The newest of some codes is one of them. *)
LEMMA NewestIsOne ==
    ASSUME EmailCodesAssumption, NEW S \in SUBSET Codes, S # {}
    PROVE  Newest(S) \in S
  <1>1. S \in SUBSET (0..MaxCodes) /\ MaxCodes \in Nat
    BY DEF Codes, EmailCodesAssumption
  <1>2. \E c \in S : \A d \in S : d <= c
    BY <1>1, GreatestElement
  <1>3. QED
    BY <1>2 DEF Newest

(* A request that holds the row of a code holds the newest that is unused,  *)
(* as it is; nobody else holds it, and it has an error to spare.            *)
HeldIsOwn ==
    \A q \in CodeRequests, c \in Codes : Holds(q, c) =>
        /\ codeReq[q].loaded = code[c]
        /\ code[c].state = "unused"
        /\ code[c].errors < MaxErrors
        /\ \A r \in CodeRequests : Holds(r, c) => r = q

(* What the two ghosts have counted, read off the row. *)
CodesCounted ==
    \A c \in Codes :
        /\ accepted[c] <= 1 /\ wrong[c] <= MaxErrors
        /\ code[c].state \in {"none", "unused"} => accepted[c] = 0
        /\ code[c].state = "none" => wrong[c] = 0
        /\ code[c].state = "unused" => wrong[c] = code[c].errors

(* A code that has no error to spare is locked until after it expires. *)
LockOutlives ==
    \A c \in Codes :
        /\ code[c].expires <= codeTime + CodeTicks
        /\ code[c].state = "unused" /\ code[c].errors >= MaxErrors
              => code[c].locked > code[c].expires

EmailCodesInv ==
    EmailCodesTypeOK /\ HeldIsOwn /\ CodesCounted /\ LockOutlives

LEMMA EmailCodesInitially ==
    EmailCodesAssumption /\ EmailCodesInit => EmailCodesInv
  BY DEF EmailCodesAssumption, EmailCodesInit, EmailCodesInv,
         EmailCodesTypeOK, HeldIsOwn, CodesCounted, LockOutlives, CodeRow,
         NoCode, CodeIdle, CodeRequest, Holds

(* What a request carries at each stage. *)
LEMMA RequestCarries ==
    ASSUME NEW k \in CodeRequest
    PROVE  /\ k.stage = "hashing" => k.old \subseteq Codes
           /\ k.stage \in {"mailing", "held", "using"} => k.c \in Codes
           /\ k.stage \in {"held", "using"} => k.loaded \in CodeRow
  BY DEF CodeRequest

(* What a row is after one of the changes the requests make to it. *)
Deleted(row) == [row EXCEPT !.state = "deleted"]

LEMMA RowDeleted ==
    ASSUME NEW row \in CodeRow
    PROVE  /\ Deleted(row) \in CodeRow /\ Deleted(row).state = "deleted"
           /\ Deleted(row).expires = row.expires
  BY DEF CodeRow, Deleted

LEMMA RowUsed ==
    ASSUME NEW row \in CodeRow, NEW new,
           new = [row EXCEPT !.state = "used", !.errors = 0]
    PROVE  /\ new \in CodeRow /\ new.state = "used"
           /\ new.expires = row.expires
  BY DEF CodeRow

Rejected(row, errors, locked) ==
    [row EXCEPT !.errors = errors, !.locked = locked]

LEMMA RowRejected ==
    ASSUME NEW row \in CodeRow, NEW errors \in Nat, NEW locked \in Nat
    PROVE  Rejected(row, errors, locked) \in CodeRow
  BY DEF CodeRow, Rejected

(* Holding, after one request has gone on. *)
LEMMA HoldsAfter ==
    ASSUME EmailCodesTypeOK, NEW q \in CodeRequests, NEW to \in CodeRequest,
           Goto(q, to)
    PROVE  /\ codeReq' \in [CodeRequests -> CodeRequest]
           /\ codeReq'[q] = to
           /\ \A r \in CodeRequests : r # q => codeReq'[r] = codeReq[r]
  BY DEF Goto, EmailCodesTypeOK

(* A step by which a request lets go of its row, or never had one, and the  *)
(* rows stay: nothing is held that was not.                                 *)
LEMMA NoNewHold ==
    ASSUME EmailCodesInv, NEW q \in CodeRequests, NEW to \in CodeRequest,
           to.stage \notin {"held", "using"}, Goto(q, to),
           UNCHANGED <<code, codeTime, accepted, wrong>>
    PROVE  EmailCodesInv'
  <1>1. EmailCodesTypeOK'
    BY HoldsAfter DEF EmailCodesInv, EmailCodesTypeOK
  <1>2. \A r \in CodeRequests, c \in Codes : Holds(r, c)' => Holds(r, c) /\ r # q
    BY HoldsAfter DEF EmailCodesInv, Holds
  <1>3. HeldIsOwn'
    BY <1>2, HoldsAfter DEF EmailCodesInv, HeldIsOwn
  <1>4. CodesCounted' /\ LockOutlives'
    BY DEF EmailCodesInv, CodesCounted, LockOutlives
  <1>5. QED
    BY <1>1, <1>3, <1>4 DEF EmailCodesInv

LEMMA StoreCodeKeeps ==
    ASSUME EmailCodesAssumption, EmailCodesInv, NEW q \in CodeRequests,
           StoreCode(q)
    PROVE  EmailCodesInv'
  <1> DEFINE new == CHOOSE c \in In({"none"}) : \A d \in In({"none"}) : c <= d
  <1>1. new \in In({"none"})
    <2>1. In({"none"}) \in SUBSET Nat /\ In({"none"}) # {}
      BY DEF StoreCode, In, Codes, EmailCodesAssumption
    <2>2. QED
      BY <2>1, LeastElement
  <1>2. new \in Codes /\ code[new].state = "none"
    BY <1>1 DEF In
  <1> HIDE DEF new
  <1>3. codeReq[q] \in CodeRequest /\ codeReq[q].old \subseteq Codes
    BY RequestCarries DEF StoreCode, Stage, EmailCodesInv, EmailCodesTypeOK
  <1>4. /\ [stage |-> "mailing", c |-> new] \in CodeRequest
        /\ Goto(q, [stage |-> "mailing", c |-> new])
    BY <1>2 DEF CodeRequest, StoreCode, new
  <1>5. code' = [c \in Codes |->
                   IF c = new THEN [NoCode EXCEPT !.state = "unused",
                                       !.expires = codeTime + CodeTicks]
                   ELSE IF c \in codeReq[q].old
                   THEN [code[c] EXCEPT !.state = "deleted"] ELSE code[c]]
    BY DEF StoreCode, new
  <1>6. UNCHANGED <<codeTime, accepted, wrong>>
    BY DEF StoreCode
  <1>7. \A c \in Codes :
           \/ c = new /\ code'[c] = [state |-> "unused", errors |-> 0,
                            locked |-> 0, expires |-> codeTime + CodeTicks]
           \/ /\ c # new /\ c \in codeReq[q].old
              /\ code'[c] = Deleted(code[c])
           \/ c # new /\ c \notin codeReq[q].old /\ code'[c] = code[c]
    BY <1>5 DEF NoCode, Deleted
  <1>8. EmailCodesTypeOK'
    <2>1. \A c \in Codes : code'[c] \in CodeRow
      <3>1. [state |-> "unused", errors |-> 0, locked |-> 0,
             expires |-> codeTime + CodeTicks] \in CodeRow
        BY DEF EmailCodesInv, EmailCodesTypeOK, CodeRow, EmailCodesAssumption
      <3>2. QED
        BY <1>7, <3>1, RowDeleted DEF EmailCodesInv, EmailCodesTypeOK
    <2>2. code' \in [Codes -> CodeRow]
      BY <1>5, <2>1
    <2>3. QED
      BY <1>4, <1>6, <2>2, HoldsAfter DEF EmailCodesInv, EmailCodesTypeOK
  <1>9. HeldIsOwn'
    <2>1. \A r \in CodeRequests, c \in Codes :
             Holds(r, c)' => /\ Holds(r, c) /\ codeReq'[r] = codeReq[r]
                             /\ code[c].state = "unused" /\ code'[c] = code[c]
      <3>1. \A r \in CodeRequests, c \in Codes :
               Holds(r, c)' => Holds(r, c) /\ codeReq'[r] = codeReq[r]
        BY <1>4, HoldsAfter DEF Holds, EmailCodesInv
      <3>2. \A r \in CodeRequests, c \in Codes :
               Holds(r, c) => code[c].state = "unused" /\ Locked(c)
        BY DEF EmailCodesInv, HeldIsOwn, Locked
      <3>3. \A c \in codeReq[q].old : ~Locked(c)
        BY DEF StoreCode
      <3>4. QED
        BY <1>2, <1>7, <3>1, <3>2, <3>3
    <2>2. QED
      BY <2>1 DEF EmailCodesInv, HeldIsOwn
  <1>10. \A c \in Codes :
            \/ /\ c = new /\ code'[c].state = "unused" /\ code'[c].errors = 0
               /\ code'[c].expires = codeTime + CodeTicks
            \/ /\ code'[c].state = "deleted"
               /\ code'[c].expires = code[c].expires
            \/ c # new /\ code'[c] = code[c]
    <2>1. \A c \in Codes : code[c] \in CodeRow
      BY DEF EmailCodesInv, EmailCodesTypeOK
    <2>2. QED
      BY <1>7, <2>1, RowDeleted
  <1>11. CodesCounted'
    BY <1>2, <1>6, <1>10
    DEF EmailCodesInv, EmailCodesTypeOK, CodesCounted, EmailCodesAssumption
  <1>12. LockOutlives'
    BY <1>2, <1>6, <1>10
    DEF EmailCodesInv, EmailCodesTypeOK, LockOutlives, EmailCodesAssumption
  <1>13. QED
    BY <1>8, <1>9, <1>11, <1>12 DEF EmailCodesInv

LEMMA MailFailsKeeps ==
    ASSUME EmailCodesInv, NEW q \in CodeRequests, MailFails(q)
    PROVE  EmailCodesInv'
  <1> DEFINE m == codeReq[q].c
  <1>1. m \in Codes /\ ~Locked(m) /\ codeReq[q] \in CodeRequest
    BY RequestCarries DEF MailFails, Stage, EmailCodesInv, EmailCodesTypeOK
  <1>2. CodeIdle \in CodeRequest /\ Goto(q, CodeIdle)
    BY DEF CodeRequest, CodeIdle, MailFails
  <1>3. /\ code' = [code EXCEPT ![m].state = "deleted"]
        /\ UNCHANGED <<codeTime, accepted, wrong>>
    BY DEF MailFails
  <1> HIDE DEF m
  <1>4. EmailCodesTypeOK'
    BY <1>1, <1>2, <1>3, HoldsAfter
    DEF EmailCodesInv, EmailCodesTypeOK, CodeRow
  <1>5. HeldIsOwn'
    <2>1. \A r \in CodeRequests, c \in Codes :
             Holds(r, c)' => /\ Holds(r, c) /\ codeReq'[r] = codeReq[r]
                             /\ code'[c] = code[c]
      BY <1>1, <1>2, <1>3, HoldsAfter
      DEF Holds, Locked, CodeIdle, EmailCodesInv, EmailCodesTypeOK
    <2>2. QED
      BY <2>1 DEF EmailCodesInv, HeldIsOwn
  <1>6. CodesCounted' /\ LockOutlives'
    BY <1>1, <1>3 DEF EmailCodesInv, EmailCodesTypeOK, CodeRow, CodesCounted,
                      LockOutlives
  <1>7. QED
    BY <1>4, <1>5, <1>6 DEF EmailCodesInv

(* The row a request takes is held by nobody, and has an error to spare: it *)
(* is neither locked nor expired.                                           *)
LEMMA PresentKeeps ==
    ASSUME EmailCodesAssumption, EmailCodesInv, NEW q \in CodeRequests,
           Present(q)
    PROVE  EmailCodesInv'
  <1> DEFINE n == Newest(In({"unused"}))
             to == [stage |-> "held", c |-> n, loaded |-> code[n]]
  <1>1. n \in Codes /\ code[n].state = "unused"
    BY NewestIsOne DEF Present, In
  <1>2. ~Locked(n) /\ code[n].locked <= codeTime /\ codeTime <= code[n].expires
    BY DEF Present
  <1>3. to \in CodeRequest /\ Goto(q, to)
    BY <1>1 DEF Present, CodeRequest, EmailCodesInv, EmailCodesTypeOK
  <1>4. UNCHANGED <<code, codeTime, accepted, wrong>>
    BY DEF Present
  <1> HIDE DEF n
  <1>5. code[n].errors < MaxErrors
    BY <1>1, <1>2 DEF EmailCodesInv, LockOutlives, EmailCodesTypeOK, CodeRow,
                      EmailCodesAssumption
  <1>6. EmailCodesTypeOK'
    BY <1>3, <1>4, HoldsAfter DEF EmailCodesInv, EmailCodesTypeOK
  <1>7. HeldIsOwn'
    <2>1. \A r \in CodeRequests : r # q => codeReq'[r] = codeReq[r]
      BY <1>3, HoldsAfter DEF EmailCodesInv
    <2>2. codeReq'[q] = to
      BY <1>3, HoldsAfter DEF EmailCodesInv
    <2>3. \A r \in CodeRequests : ~Holds(r, n)
      BY <1>2 DEF Locked
    <2>4. QED
      BY <1>1, <1>4, <1>5, <2>1, <2>2, <2>3
      DEF EmailCodesInv, HeldIsOwn, Holds
  <1>8. CodesCounted' /\ LockOutlives'
    BY <1>4 DEF EmailCodesInv, CodesCounted, LockOutlives
  <1>9. QED
    BY <1>6, <1>7, <1>8 DEF EmailCodesInv

LEMMA RejectCodeKeeps ==
    ASSUME EmailCodesAssumption, EmailCodesInv, NEW q \in CodeRequests,
           RejectCode(q)
    PROVE  EmailCodesInv'
  <1> DEFINE m == codeReq[q].c
             errors == codeReq[q].loaded.errors + 1
  <1>1. m \in Codes /\ codeReq[q] \in CodeRequest /\ Holds(q, m)
    BY RequestCarries
    DEF RejectCode, Stage, Holds, EmailCodesInv, EmailCodesTypeOK
  <1>2. CodeIdle \in CodeRequest /\ Goto(q, CodeIdle)
    BY DEF CodeRequest, CodeIdle, RejectCode
  <1>3. /\ code' = [code EXCEPT ![m].errors = errors,
                       ![m].locked = IF errors >= MaxErrors
                                     THEN codeTime + CodeLockTicks ELSE @]
        /\ wrong' = [wrong EXCEPT ![m] = @ + 1]
        /\ UNCHANGED <<codeTime, accepted>>
    BY DEF RejectCode
  <1>4. /\ errors = code[m].errors + 1 /\ code[m].errors < MaxErrors
        /\ code[m].state = "unused" /\ wrong[m] = code[m].errors
        /\ \A r \in CodeRequests : Holds(r, m) => r = q
    BY <1>1 DEF EmailCodesInv, HeldIsOwn, CodesCounted
  <1>5. code[m] \in CodeRow /\ codeTime \in Nat
    BY <1>1 DEF EmailCodesInv, EmailCodesTypeOK
  <1> HIDE DEF m, errors
  <1>6. /\ code'[m] = [code[m] EXCEPT !.errors = errors,
                          !.locked = IF errors >= MaxErrors
                                     THEN codeTime + CodeLockTicks
                                     ELSE code[m].locked]
        /\ \A c \in Codes : c # m => code'[c] = code[c] /\ wrong'[c] = wrong[c]
        /\ wrong'[m] = wrong[m] + 1
    BY <1>1, <1>3 DEF EmailCodesInv, EmailCodesTypeOK
  <1>7. code'[m] \in CodeRow
    <2> DEFINE locked == IF errors >= MaxErrors
                         THEN codeTime + CodeLockTicks ELSE code[m].locked
    <2>1. errors \in Nat /\ locked \in Nat
      BY <1>4, <1>5 DEF CodeRow, EmailCodesAssumption
    <2>2. code'[m] = Rejected(code[m], errors, locked)
      BY <1>6 DEF Rejected
    <2> HIDE DEF locked
    <2>3. QED
      BY <1>5, <2>1, <2>2, RowRejected
  <1>8. EmailCodesTypeOK'
    BY <1>1, <1>2, <1>3, <1>6, <1>7, HoldsAfter
    DEF EmailCodesInv, EmailCodesTypeOK
  <1>9. HeldIsOwn'
    <2>1. \A r \in CodeRequests, c \in Codes :
             Holds(r, c)' => /\ Holds(r, c) /\ codeReq'[r] = codeReq[r]
                             /\ code'[c] = code[c]
      BY <1>1, <1>2, <1>4, <1>6, HoldsAfter
      DEF Holds, CodeIdle, EmailCodesInv, EmailCodesTypeOK
    <2>2. QED
      BY <2>1 DEF EmailCodesInv, HeldIsOwn
  <1>10. CodesCounted'
    BY <1>3, <1>4, <1>5, <1>6
    DEF EmailCodesInv, EmailCodesTypeOK, CodeRow, CodesCounted,
        EmailCodesAssumption
  <1>11. LockOutlives'
    BY <1>3, <1>4, <1>5, <1>6
    DEF EmailCodesInv, EmailCodesTypeOK, CodeRow, LockOutlives,
        EmailCodesAssumption
  <1>12. QED
    BY <1>8, <1>9, <1>10, <1>11 DEF EmailCodesInv

LEMMA AcceptCodeKeeps ==
    ASSUME EmailCodesInv, NEW q \in CodeRequests, AcceptCode(q)
    PROVE  EmailCodesInv'
  <1> DEFINE to == [codeReq[q] EXCEPT !.stage = "using"]
  <1>1. /\ to \in CodeRequest /\ Goto(q, to)
        /\ to.stage = "using" /\ to.c = codeReq[q].c
        /\ to.loaded = codeReq[q].loaded /\ codeReq[q].stage = "held"
    BY DEF AcceptCode, Stage, CodeRequest, EmailCodesInv, EmailCodesTypeOK
  <1>2. UNCHANGED <<code, codeTime, accepted, wrong>>
    BY DEF AcceptCode
  <1> HIDE DEF to
  <1>3. EmailCodesTypeOK'
    BY <1>1, <1>2, HoldsAfter DEF EmailCodesInv, EmailCodesTypeOK
  <1>4. \A r \in CodeRequests, c \in Codes :
           Holds(r, c)' => /\ Holds(r, c)
                           /\ codeReq'[r].loaded = codeReq[r].loaded
    BY <1>1, HoldsAfter DEF Holds, EmailCodesInv
  <1>5. HeldIsOwn'
    BY <1>2, <1>4 DEF EmailCodesInv, HeldIsOwn
  <1>6. CodesCounted' /\ LockOutlives'
    BY <1>2 DEF EmailCodesInv, CodesCounted, LockOutlives
  <1>7. QED
    BY <1>3, <1>5, <1>6 DEF EmailCodesInv

(* The code is used by the one request that holds it, before which nobody   *)
(* has used it.                                                             *)
LEMMA UseCodeKeeps ==
    ASSUME EmailCodesInv, NEW q \in CodeRequests, UseCode(q)
    PROVE  EmailCodesInv'
  <1> DEFINE m == codeReq[q].c
  <1>1. m \in Codes /\ codeReq[q] \in CodeRequest /\ Holds(q, m)
    BY RequestCarries
    DEF UseCode, Stage, Holds, EmailCodesInv, EmailCodesTypeOK
  <1>2. CodeIdle \in CodeRequest /\ Goto(q, CodeIdle)
    BY DEF CodeRequest, CodeIdle, UseCode
  <1>3. /\ code' = [code EXCEPT ![m].state = "used", ![m].errors = 0]
        /\ accepted' = [accepted EXCEPT ![m] = @ + 1]
        /\ UNCHANGED <<codeTime, wrong>>
    BY DEF UseCode
  <1>4. /\ code[m].state = "unused" /\ accepted[m] = 0
        /\ \A r \in CodeRequests : Holds(r, m) => r = q
    BY <1>1 DEF EmailCodesInv, HeldIsOwn, CodesCounted
  <1> HIDE DEF m
  <1>5. /\ code'[m] = [code[m] EXCEPT !.state = "used", !.errors = 0]
        /\ \A c \in Codes : c # m => /\ code'[c] = code[c]
                                     /\ accepted'[c] = accepted[c]
        /\ accepted'[m] = 1
    BY <1>1, <1>3, <1>4 DEF EmailCodesInv, EmailCodesTypeOK
  <1>6. code[m] \in CodeRow /\ code'[m] \in CodeRow
    BY <1>1, <1>5, RowUsed DEF EmailCodesInv, EmailCodesTypeOK
  <1>7. EmailCodesTypeOK'
    BY <1>1, <1>2, <1>3, <1>5, <1>6, HoldsAfter
    DEF EmailCodesInv, EmailCodesTypeOK
  <1>8. HeldIsOwn'
    <2>1. \A r \in CodeRequests, c \in Codes :
             Holds(r, c)' => /\ Holds(r, c) /\ codeReq'[r] = codeReq[r]
                             /\ code'[c] = code[c]
      BY <1>1, <1>2, <1>4, <1>5, HoldsAfter
      DEF Holds, CodeIdle, EmailCodesInv, EmailCodesTypeOK
    <2>2. QED
      BY <2>1 DEF EmailCodesInv, HeldIsOwn
  <1>9. CodesCounted' /\ LockOutlives'
    BY <1>3, <1>4, <1>5, <1>6
    DEF EmailCodesInv, EmailCodesTypeOK, CodeRow, CodesCounted, LockOutlives
  <1>10. QED
    BY <1>7, <1>8, <1>9 DEF EmailCodesInv

LEMMA CodeTickKeeps ==
    ASSUME EmailCodesAssumption, EmailCodesInv, CodeTick
    PROVE  EmailCodesInv'
  <1>1. EmailCodesTypeOK'
    BY DEF EmailCodesInv, EmailCodesTypeOK, CodeTick, EmailCodesAssumption
  <1>2. HeldIsOwn' /\ CodesCounted'
    BY DEF EmailCodesInv, HeldIsOwn, CodesCounted, CodeTick, Holds
  <1>3. LockOutlives'
    BY DEF EmailCodesInv, EmailCodesTypeOK, LockOutlives, CodeTick, CodeRow,
           EmailCodesAssumption
  <1>4. QED
    BY <1>1, <1>2, <1>3 DEF EmailCodesInv

LEMMA EmailCodesStep ==
    ASSUME EmailCodesAssumption, EmailCodesInv, [NextEmailCodes]_codeVars
    PROVE  EmailCodesInv'
  <1>1. ASSUME NEW q \in CodeRequests, BeginSend(q)
        PROVE  EmailCodesInv'
    <2>1. [stage |-> "hashing", old |-> In({"unused"})] \in CodeRequest
      BY DEF CodeRequest, In
    <2>2. QED
      BY <1>1, <2>1, NoNewHold DEF BeginSend
  <1>2. ASSUME NEW q \in CodeRequests, Mailed(q) \/ AbandonCode(q)
        PROVE  EmailCodesInv'
    <2>1. CodeIdle \in CodeRequest /\ CodeIdle.stage = "idle"
      BY DEF CodeRequest, CodeIdle
    <2>2. QED
      BY <1>2, <2>1, NoNewHold DEF Mailed, AbandonCode
  <1>3. CASE UNCHANGED codeVars
    BY <1>3 DEF codeVars, EmailCodesInv, EmailCodesTypeOK, HeldIsOwn,
                CodesCounted, LockOutlives, Holds
  <1>4. QED
    BY <1>1, <1>2, <1>3, StoreCodeKeeps, MailFailsKeeps, PresentKeeps,
       RejectCodeKeeps, AcceptCodeKeeps, UseCodeKeeps, CodeTickKeeps
    DEF NextEmailCodes

(* Every code sent serves at most one request and faces at most MaxErrors   *)
(* wrong guesses, whatever the requests that present it do at the same      *)
(* time: because each holds the row from reading it to its commit.          *)
THEOREM CodesServeOnce ==
    EmailCodesSpec => [](EmailCodesTypeOK /\ OneUseFewGuesses)
  <1>1. EmailCodesInv => EmailCodesTypeOK /\ OneUseFewGuesses
    BY DEF EmailCodesInv, CodesCounted, OneUseFewGuesses
  <1>2. QED
    BY <1>1, EmailCodesInitially, EmailCodesStep, EmailCodesAssumption, PTL
    DEF EmailCodesSpec
=============================================================================

----------------------------- MODULE AdminTokens -----------------------------
(* Sign-in of one administrator (admin-service: services/auth_service.py,   *)
(* controllers/auth.py, core/dependencies.py, common/token_blacklist.py).   *)
(*                                                                          *)
(* Tokens are signed and stateless.  A sign-in and a refresh each give one  *)
(* pair, an access and a refresh token; the only state that can end a token *)
(* early is a blacklist in Redis.  Redis may be away: then the check of the *)
(* blacklist lets the token pass and a write to it fails.  A request awaits *)
(* between reading the row or the blacklist and writing, so its steps are   *)
(* actions of their own.  Which password is right is left open.             *)
EXTENDS Integers, FiniteSets

CONSTANTS
    TokenRequests,     \* requests being served at a time
    MaxPairs,          \* bound: pairs ever minted
    AdminMaxFailures,  \* LOGIN_MAX_FAILURES
    TokenBudget        \* bound: requests ever begun

ASSUME TokensAssumption ==
    /\ IsFiniteSet(TokenRequests) /\ TokenRequests # {}
    /\ MaxPairs \in Nat /\ AdminMaxFailures \in Nat \ {0}
    /\ TokenBudget \in Nat

VARIABLES
    adminRow,   \* the row of admin_users: status, failure count and lock
    pair,       \* pair[p]: whether minted, from which pair (0: a sign-in),
                \* and the state of its two tokens
    redisUp,
    everDown,   \* history: Redis has been away
    tokenReq,   \* tokenReq[q]: the request q and what it has read
    begun       \* requests begun so far

tokenVars == <<adminRow, pair, redisUp, everDown, tokenReq, begun>>

Pairs == 1..MaxPairs
PairRow == [minted : BOOLEAN, from : 0..MaxPairs,
            access : {"live", "dead", "expired"},
            refresh : {"live", "dead", "expired"}]
Unminted == [minted |-> FALSE, from |-> 0, access |-> "live", refresh |-> "live"]

TokenIdle == [op |-> "none"]
InService(q) == tokenReq[q].op # "none"
At(q, op, stage) == tokenReq[q].op = op /\ tokenReq[q].stage = stage
Continue(q, stage) == tokenReq' = [tokenReq EXCEPT ![q].stage = stage]
Answer(q) == tokenReq' = [tokenReq EXCEPT ![q] = TokenIdle]

AdminTokensInit ==
    /\ adminRow = [active |-> TRUE, fails |-> 0, locked |-> "no"]
    /\ pair = [p \in Pairs |-> Unminted]
    /\ redisUp = TRUE /\ everDown = FALSE
    /\ tokenReq = [q \in TokenRequests |-> TokenIdle]
    /\ begun = 0

TokenBegins(q, request) ==
    /\ ~InService(q) /\ begun < TokenBudget
    /\ begun' = begun + 1
    /\ tokenReq' = [tokenReq EXCEPT ![q] = request]
    /\ UNCHANGED <<adminRow, pair, redisUp, everDown>>

(* The next pair, as create_access_token and create_refresh_token make it.  *)
Mint(from) ==
    \E p \in Pairs :
        /\ ~pair[p].minted /\ \A r \in 1..p-1 : pair[r].minted
        /\ pair' = [pair EXCEPT ![p].minted = TRUE, ![p].from = from]

(* A flush writes the columns that differ from what the request had read.   *)
SaveAdmin(q, computed) ==
    adminRow' = [c \in DOMAIN adminRow |->
                    IF computed[c] # tokenReq[q].row[c] THEN computed[c]
                                                        ELSE adminRow[c]]

(* blacklist_token: fails without Redis, and for a token already expired.   *)
Blacklists(state) == redisUp /\ state # "expired"

-----------------------------------------------------------------------------
(* login reads the row, then awaits the check of the password.  A locked    *)
(* account is refused at once.                                              *)
BeginAdminLogin(q) ==
    /\ adminRow.locked # "on"
    /\ TokenBegins(q, [op |-> "login", stage |-> "read", row |-> adminRow])

AdminLoginFails(q) ==
    /\ At(q, "login", "read")
    /\ LET row == tokenReq[q].row
           fails == row.fails + 1
       IN  SaveAdmin(q, [row EXCEPT !.fails = fails,
                           !.locked = IF fails >= AdminMaxFailures THEN "on" ELSE @])
    /\ Answer(q)
    /\ UNCHANGED <<pair, redisUp, everDown, begun>>

AdminLoginSucceeds(q) ==
    /\ At(q, "login", "read")
    /\ IF tokenReq[q].row.active
       THEN /\ SaveAdmin(q, [tokenReq[q].row EXCEPT !.fails = 0, !.locked = "no"])
            /\ Mint(0)
       ELSE UNCHANGED <<adminRow, pair>>
    /\ Answer(q)
    /\ UNCHANGED <<redisUp, everDown, begun>>

-----------------------------------------------------------------------------
(* The checks of a presented token: the blacklist, which lets everything    *)
(* pass when Redis is away, then the signature and the expiry.              *)
Passes(state) == state # "expired" /\ (state = "dead" => ~redisUp)

BeginAdminRefresh(q, p) ==
    /\ pair[p].minted /\ Passes(pair[p].refresh)
    /\ TokenBegins(q, [op |-> "refresh", stage |-> "checked", pair |-> p])

(* The account is read after the token was checked.                         *)
RefreshReads(q) ==
    /\ At(q, "refresh", "checked")
    /\ IF adminRow.active THEN Continue(q, "minted") ELSE Answer(q)
    /\ UNCHANGED <<adminRow, pair, redisUp, everDown, begun>>

(* Variant: the new pair is handed out, the old token is not revoked. *)
RefreshEndsUnrevoked(q) ==
    /\ At(q, "refresh", "minted")
    /\ Mint(tokenReq[q].pair)
    /\ Answer(q)
    /\ UNCHANGED <<adminRow, redisUp, everDown, begun>>

(* The old refresh token is revoked last, and the new pair is handed out    *)
(* only if that was recorded.                                               *)
RefreshEnds(q) ==
    /\ At(q, "refresh", "minted")
    /\ LET old == tokenReq[q].pair
       IN  IF Blacklists(pair[old].refresh)
           THEN \E p \in Pairs :
                   /\ ~pair[p].minted /\ \A r \in 1..p-1 : pair[r].minted
                   /\ pair' = [pair EXCEPT ![p].minted = TRUE, ![p].from = old,
                                           ![old].refresh = "dead"]
           ELSE UNCHANGED pair
    /\ Answer(q)
    /\ UNCHANGED <<adminRow, redisUp, everDown, begun>>

-----------------------------------------------------------------------------
(* Logout and the change of password present both tokens of a pair and      *)
(* revoke them one after the other; a revocation that fails is only logged. *)
(* A change of the password commits first.                                  *)
BeginSignOut(q, p) ==
    /\ pair[p].minted /\ Passes(pair[p].access) /\ adminRow.active
    /\ TokenBegins(q, [op |-> "out", stage |-> "access", pair |-> p])

Revoked(state) == IF Blacklists(state) THEN "dead" ELSE state

SignOutAccess(q) ==
    /\ At(q, "out", "access")
    /\ pair' = [pair EXCEPT ![tokenReq[q].pair].access = Revoked(@)]
    /\ Continue(q, "refresh")
    /\ UNCHANGED <<adminRow, redisUp, everDown, begun>>

SignOutRefresh(q) ==
    /\ At(q, "out", "refresh")
    /\ pair' = [pair EXCEPT ![tokenReq[q].pair].refresh = Revoked(@)]
    /\ Answer(q)
    /\ UNCHANGED <<adminRow, redisUp, everDown, begun>>

-----------------------------------------------------------------------------
(* Time: a lock runs out; the access token of a pair expires before its     *)
(* refresh token.                                                           *)
LockRunsOut ==
    /\ adminRow.locked = "on"
    /\ adminRow' = [adminRow EXCEPT !.locked = "over"]
    /\ UNCHANGED <<pair, redisUp, everDown, tokenReq, begun>>

Expires(p) ==
    /\ pair[p].minted /\ pair[p].refresh # "expired"
    /\ pair' = [pair EXCEPT ![p].access = "expired",
                  ![p].refresh = IF pair[p].access = "expired" THEN "expired" ELSE @]
    /\ UNCHANGED <<adminRow, redisUp, everDown, tokenReq, begun>>

RedisSwitches ==
    /\ redisUp' = ~redisUp /\ everDown' = TRUE
    /\ UNCHANGED <<adminRow, pair, tokenReq, begun>>

(* Another administrator disables or enables this one.                      *)
AdminSwitched ==
    /\ adminRow' = [adminRow EXCEPT !.active = ~@]
    /\ UNCHANGED <<pair, redisUp, everDown, tokenReq, begun>>

NextAdminTokens ==
    \/ \E q \in TokenRequests :
          \/ BeginAdminLogin(q) \/ AdminLoginFails(q) \/ AdminLoginSucceeds(q)
          \/ \E p \in Pairs : BeginAdminRefresh(q, p) \/ BeginSignOut(q, p)
          \/ RefreshReads(q) \/ RefreshEnds(q)
          \/ SignOutAccess(q) \/ SignOutRefresh(q)
    \/ \E p \in Pairs : Expires(p)
    \/ LockRunsOut \/ RedisSwitches \/ AdminSwitched

AdminTokensSpec == AdminTokensInit /\ [][NextAdminTokens]_tokenVars

-----------------------------------------------------------------------------
AdminRow == [active : BOOLEAN, fails : 0..TokenBudget,
             locked : {"no", "on", "over"}]

TokenRequest == [op : {"login"}, stage : {"read"}, row : AdminRow]
                \cup [op : {"refresh"}, stage : {"checked", "minted"}, pair : Pairs]
                \cup [op : {"out"}, stage : {"access", "refresh"}, pair : Pairs]

AdminTokensTypeOK ==
    /\ adminRow \in AdminRow
    /\ pair \in [Pairs -> PairRow]
    /\ redisUp \in BOOLEAN /\ everDown \in BOOLEAN
    /\ begun \in 0..TokenBudget
    /\ tokenReq \in [TokenRequests -> TokenRequest \cup {TokenIdle}]

Children(p) == {c \in Pairs : pair[c].minted /\ pair[c].from = p}

(* refresh_access_token checks the blacklist, awaits, and only then revokes *)
(* the token, so one refresh token can be spent twice.  As long as Redis    *)
(* answers it is spent at most once by each of the requests that overlap,   *)
(* however often it is presented.                                           *)
ForksBounded ==
    ~everDown => \A p \in Pairs :
                    Cardinality(Children(p)) <= Cardinality(TokenRequests)
=============================================================================

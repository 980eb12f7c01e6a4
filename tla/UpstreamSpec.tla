---------------------------- MODULE UpstreamSpec ----------------------------
(***************************************************************************)
(* What calling a provider promises: a call is sent at most MaxAttempts    *)
(* times, not twice to a channel unless it has tried a whole published     *)
(* list; every attempt is held for or against exactly the channel it was   *)
(* sent to; and a channel is benched only by Threshold failures with no    *)
(* success in between.                                                     *)
(***************************************************************************)
EXTENDS Integers

CONSTANTS Calls, Channels, Lists, MaxAttempts, Threshold

VARIABLES call,     \* call[r] : [status, tried, sent], and at when sent
          streak,   \* streak[c] : failures since the last success
          benched   \* channels taken out of service

vars == <<call, streak, benched>>

Waiting(tried, n) == [status |-> "waiting", tried |-> tried, sent |-> n]

Sent(tried, n, c) ==
    [status |-> "sent", tried |-> tried, sent |-> n, at |-> c]

Ended == {"ok", "failed"}

Init ==
    /\ call = [r \in Calls |-> Waiting({}, 0)]
    /\ streak = [c \in Channels |-> 0]
    /\ benched = {}

Send(r, c) ==
    /\ call[r].status = "waiting"
    /\ call[r].sent < MaxAttempts
    /\ \/ c \notin call[r].tried
       \/ \E list \in Lists : c \in list /\ list \subseteq call[r].tried
    /\ call' = [call EXCEPT
                  ![r] = Sent(@.tried \cup {c}, @.sent + 1, c)]
    /\ UNCHANGED <<streak, benched>>

Succeed(r) ==
    /\ call[r].status = "sent"
    /\ call' = [call EXCEPT ![r] = [status |-> "ok"]]
    /\ streak' = [streak EXCEPT ![call[r].at] = 0]
    /\ benched' = benched \ {call[r].at}

(* A failed attempt ends the call, or lets it try again. *)
Fail(r) ==
    LET c == call[r].at
    IN  /\ call[r].status = "sent"
        /\ \/ call' = [call EXCEPT ![r] = [status |-> "failed"]]
           \/ call' = [call EXCEPT ![r] = Waiting(@.tried, @.sent)]
        /\ streak' = [streak EXCEPT
                        ![c] = IF @ + 1 >= Threshold THEN Threshold ELSE @ + 1]
        /\ \/ benched' = benched
           \/ streak'[c] = Threshold /\ benched' = benched \cup {c}

GiveUp(r) ==
    /\ call[r].status = "waiting"
    /\ call' = [call EXCEPT ![r] = [status |-> "failed"]]
    /\ UNCHANGED <<streak, benched>>

Return(c) ==
    /\ benched' = benched \ {c}
    /\ UNCHANGED <<call, streak>>

Next ==
    \/ \E r \in Calls : \/ \E c \in Channels : Send(r, c)
                        \/ Succeed(r) \/ Fail(r) \/ GiveUp(r)
    \/ \E c \in Channels : Return(c)

Spec == Init /\ [][Next]_vars
=============================================================================

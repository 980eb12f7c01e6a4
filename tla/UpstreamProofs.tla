--------------------------- MODULE UpstreamProofs ---------------------------
(***************************************************************************)
(* Theorems about a request on its way to a provider: UpstreamRetry, for   *)
(* every set of channels, lists, calls, limits and bounds (its types, and  *)
(* that it implements UpstreamSpec), and what the conversation becomes in  *)
(* the protocol of the provider (Translate), for conversations, inputs and *)
(* answers of every length.                                                *)
(*                                                                         *)
(* TypeOK is inductive: it says that a call goes on with a list that was   *)
(* published and that its attempts do not exceed MaxRetries, which is all  *)
(* the refinement needs beside what a selection may return.                *)
(***************************************************************************)
EXTENDS UpstreamRetry, Translate, NumberFacts, SequenceTheorems

(* A selection is in the list, and has not been tried, unless the whole    *)
(* list has been.                                                          *)
LEMMA SelectedInList ==
    ASSUME NEW list, NEW tried, NEW tier, NEW limited,
           NEW c \in Selected(list, tried, tier, limited)
    PROVE  c \in list /\ (c \notin tried \/ list \subseteq tried)
  <1>1. c \in Candidates(list, tried, limited)
    BY DEF Selected, Picked, Tier
  <1>2. QED
    BY <1>1 DEF Candidates

(* A new record for one call leaves the others what they were. *)
LEMMA CallUpdate ==
    ASSUME NEW r \in Calls, NEW to \in Call, call \in [Calls -> Call],
           Goes(r, to)
    PROVE  /\ call' \in [Calls -> Call]
           /\ call'[r] = to
           /\ \A q \in Calls : q # r => call'[q] = call[q]
  BY DEF Goes

(* What a call carries at each stage. *)
LEMMA Carries ==
    ASSUME NEW k \in Call
    PROVE  /\ k.stage \in {"routed", "checking"} => k.list \in Lists
           /\ k.stage = "checking" => k.pinned \in Channels \cup {None}
           /\ k.stage = "resolving" =>
                 /\ k.list \in Lists
                 /\ k.tried \subseteq Channels
                 /\ k.attempt \in 0..MaxRetries
           /\ k.stage \in {"pinning", "sent"} =>
                 /\ k.at \in Channels
                 /\ k.tried \subseteq Channels
                 /\ k.attempt \in 0..MaxRetries
           /\ k.stage = "metering" => k.at \in Channels
  BY DEF Call

LEMMA InitType == SelectorAssumption /\ RetryAssumption /\ Init => TypeOK
  BY DEF SelectorAssumption, RetryAssumption, Init, InitSelector, TypeOK, Call

-----------------------------------------------------------------------------
(* Types. *)

(* A step that only moves one call. *)
LEMMA MoveType ==
    ASSUME TypeOK, NEW r \in Calls, NEW to \in Call, Goes(r, to),
           UNCHANGED <<listed, used, pin, selector>>
    PROVE  TypeOK'
  BY CallUpdate DEF TypeOK, selector

LEMMA FindsType ==
    ASSUME SelectorAssumption, RetryAssumption, TypeOK,
           NEW r \in Calls, Finds(r)
    PROVE  TypeOK'
  <1>1. call[r] \in Call
    BY DEF TypeOK
  <1>2. CASE Route(r)
    <2>1. [stage |-> "routed", list |-> listed] \in Call
      BY DEF TypeOK, Call
    <2>2. QED
      BY <1>2, <2>1, MoveType DEF Route
  <1>3. CASE UsePin(r)
    <2>1. call[r].pinned \in Channels
      BY <1>1, <1>3, Carries DEF UsePin, PinHolds, At, RetryAssumption
    <2>2. [stage |-> "sent", at |-> call[r].pinned,
           tried |-> {call[r].pinned}, attempt |-> 0] \in Call
      BY <2>1 DEF Call, RetryAssumption
    <2>3. QED
      BY <1>3, <2>2, MoveType DEF UsePin
  <1>4. CASE MissPin(r)
    <2>1. Resolving(call[r].list, {}, 0) \in Call
      <3>1. call[r].list \in Lists /\ call[r].list \subseteq Channels
        BY <1>1, <1>4, Carries DEF MissPin, At, RetryAssumption
      <3>2. QED
        BY <3>1 DEF Call, Resolving, RetryAssumption
    <2>2. QED
      BY <1>4, <2>1, MoveType DEF MissPin
  <1>5. CASE Select(r)
    <2>1. PICK c \in Selected(call[r].list, call[r].tried, call[r].attempt,
                              call[r].limited) :
             Goes(r, Dispatched(r, IF call[r].attempt = 0
                                      /\ Conversation[r] # None
                                   THEN "pinning" ELSE "sent", c))
      BY <1>5 DEF Select
    <2>2. c \in Channels
      <3>1. call[r].list \subseteq Channels
        BY <1>1, <1>5, Carries DEF Select, Ready, At, RetryAssumption
      <3>2. c \in call[r].list
        BY <2>1, SelectedInList
      <3>3. QED
        BY <3>1, <3>2
    <2>3. Dispatched(r, IF call[r].attempt = 0 /\ Conversation[r] # None
                        THEN "pinning" ELSE "sent", c) \in Call
      BY <1>1, <1>5, <2>2 DEF Select, Ready, At, Call, Dispatched
    <2>4. counter' \in 0..(Cycle - 1)
      BY <1>5 DEF Select, CountSelection, TypeOK, SelectorAssumption
    <2>5. QED
      BY <1>5, <2>1, <2>3, <2>4, CallUpdate
      DEF Select, CountSelection, TypeOK
  <1>6. CASE Refuse(r)
    <2>1. [stage |-> "failed"] \in Call
      BY DEF Call
    <2>2. QED
      BY <1>6, <2>1, MoveType DEF Refuse
  <1>7. CASE Pin(r)
    <2>1. [call[r] EXCEPT !.stage = "sent"] \in Call /\ call[r].at \in Channels
      BY <1>1, <1>7 DEF Pin, At, Call
    <2>2. QED
      BY <1>7, <2>1, CallUpdate DEF Pin, TypeOK, selector
  <1>8. ASSUME NEW c \in Channels, ReadLimit(r, c)
        PROVE  TypeOK'
    <2>1. [call[r] EXCEPT
             !.unread = @ \ {c},
             !.limited = IF used[c] < Limit[c] THEN @ ELSE @ \cup {c}] \in Call
      BY <1>1, <1>8 DEF ReadLimit, At, Call
    <2>2. QED
      BY <1>8, <2>1, MoveType DEF ReadLimit
  <1>9. CASE ReadPin(r)
    <2>1. Pinned(r) \in Channels \cup {None}
      BY DEF Pinned, TypeOK, Conversations
    <2>2. [stage |-> "checking", list |-> call[r].list, pinned |-> Pinned(r)]
             \in Call
      BY <1>1, <1>9, <2>1, Carries DEF ReadPin, At, Call
    <2>3. QED
      BY <1>9, <2>2, MoveType DEF ReadPin
  <1>10. QED
    BY <1>2, <1>3, <1>4, <1>5, <1>6, <1>7, <1>8, <1>9 DEF Finds

LEMMA AnswersType ==
    ASSUME SelectorAssumption, RetryAssumption, TypeOK,
           NEW r \in Calls, Answers(r)
    PROVE  TypeOK'
  <1>1. /\ call[r] \in Call /\ At(r, "sent")
        /\ call[r].at \in Channels
    BY DEF TypeOK, Answers, Succeed, Fail, At, Call
  <1>2. CASE Succeed(r)
    <2>1. [stage |-> "metering", at |-> call[r].at] \in Call
      BY <1>1 DEF Call
    <2>2. QED
      BY <1>1, <1>2, <2>1, CallUpdate
      DEF Succeed, ReportSuccess, TypeOK, SelectorAssumption
  <1>3. CASE Fail(r)
    <2>1. call' \in [Calls -> Call]
      <3>1. CASE Goes(r, [stage |-> "failed"])
        <4>1. [stage |-> "failed"] \in Call
          BY DEF Call
        <4>2. QED
          BY <3>1, <4>1, CallUpdate DEF TypeOK
      <3>2. CASE /\ call[r].attempt < MaxRetries
                 /\ Goes(r, Resolving(listed, call[r].tried,
                                      call[r].attempt + 1))
        <4>1. Resolving(listed, call[r].tried, call[r].attempt + 1) \in Call
          <5>1. /\ call[r].tried \subseteq Channels
                /\ call[r].attempt + 1 \in 0..MaxRetries
            BY <1>1, <3>2, Carries DEF At, RetryAssumption
          <5>2. listed \in Lists /\ listed \subseteq Channels
            BY DEF TypeOK, RetryAssumption
          <5>3. QED
            BY <5>1, <5>2 DEF Call, Resolving
        <4>2. QED
          BY <3>2, <4>1, CallUpdate DEF TypeOK
      <3>3. QED
        BY <1>3, <3>1, <3>2 DEF Fail
    <2>2. failures' \in [Channels -> 0..Threshold]
      <3> DEFINE c == call[r].at
      <3>1. /\ c \in Channels
            /\ failures \in [Channels -> 0..Threshold]
            /\ Threshold \in Nat \ {0}
        BY <1>1 DEF TypeOK, SelectorAssumption
      <3>2. failures' = [failures EXCEPT ![c] =
                           IF failures[c] + 1 >= Threshold THEN Threshold
                           ELSE failures[c] + 1]
        BY <1>3 DEF Fail, ReportFailure
      <3> HIDE DEF c
      <3>3. QED
        BY <3>1, <3>2
    <2>3. QED
      BY <1>1, <1>3, <2>1, <2>2 DEF Fail, ReportFailure, TypeOK
  <1>4. QED
    BY <1>2, <1>3 DEF Answers

LEMMA StepType ==
    ASSUME SelectorAssumption, RetryAssumption, TypeOK, [Next]_vars
    PROVE  TypeOK'
  <1>1. ASSUME NEW r \in Calls, Meter(r)
        PROVE  TypeOK'
    <2>1. [stage |-> "ok"] \in Call
      BY DEF Call
    <2>2. call' \in [Calls -> Call]
      BY <1>1, <2>1, CallUpdate DEF Meter, TypeOK
    <2>3. used' \in [Channels -> Nat] /\ \A c \in Channels : used'[c] <= Limit[c]
      <3> DEFINE c == call[r].at
      <3>1. c \in Channels
        BY <1>1, Carries DEF Meter, At, TypeOK
      <3>2. /\ used \in [Channels -> Nat] /\ Limit \in [Channels -> Nat]
            /\ \A d \in Channels : used[d] <= Limit[d]
        BY DEF TypeOK, RetryAssumption
      <3>3. used' = [used EXCEPT ![c] = IF used[c] < Limit[c]
                                        THEN used[c] + 1 ELSE used[c]]
        BY <1>1 DEF Meter
      <3> HIDE DEF c
      <3>4. QED
        BY <3>1, <3>2, <3>3
    <2>4. QED
      BY <1>1, <2>2, <2>3 DEF Meter, TypeOK, selector
  <1>2. ASSUME NEW list \in Lists, Publish(list)
        PROVE  TypeOK'
    BY <1>2 DEF Publish, TypeOK, selector
  <1>3. ASSUME NEW c \in Channels, WindowSlides(c)
        PROVE  TypeOK'
    BY <1>3 DEF WindowSlides, TypeOK, selector, RetryAssumption
  <1>4. ASSUME NEW k \in Conversations, PinExpires(k)
        PROVE  TypeOK'
    BY <1>4 DEF PinExpires, TypeOK, selector
  <1>5. CASE Clocks
    BY <1>5, ZenonT(40) DEF Clocks, CoolDown, Reenable, HealthPoll, TypeOK, RetryAssumption
  <1>6. CASE UNCHANGED vars
    BY <1>6 DEF vars, selector, TypeOK
  <1>7. QED
    BY <1>1, <1>2, <1>3, <1>4, <1>5, <1>6, FindsType, AnswersType DEF Next

(* Every variable keeps its type, for any channels and lists: an account's *)
(* window never exceeds its limit, and no call is sent too often.          *)
THEOREM TypeCorrect ==
    ASSUME SelectorAssumption, RetryAssumption
    PROVE  Spec => []TypeOK
  <1>1. Init => TypeOK
    BY InitType
  <1>2. TypeOK /\ [Next]_vars => TypeOK'
    BY StepType
  <1>3. QED
    BY <1>1, <1>2, PTL DEF Spec

-----------------------------------------------------------------------------
(* The refinement. *)

(* What the abstract call is after one call has moved. *)
LEMMA SeenUpdate ==
    ASSUME NEW r \in Calls, NEW to \in Call, call \in [Calls -> Call],
           Goes(r, to)
    PROVE  [q \in Calls |-> Seen(call'[q])]
              = [[q \in Calls |-> Seen(call[q])] EXCEPT ![r] = Seen(to)]
  BY CallUpdate

(* A step that no caller sees. *)
LEMMA Unseen ==
    ASSUME NEW r \in Calls, NEW to \in Call, call \in [Calls -> Call],
           Goes(r, to), Seen(to) = Seen(call[r]),
           UNCHANGED <<failures, disabled>>
    PROVE  UNCHANGED Promise!vars
  BY SeenUpdate DEF Promise!vars

LEMMA InitPromise == Init => Promise!Init
  BY DEF Init, InitSelector, Promise!Init, Promise!Waiting, Seen

(* A call that was waiting is dispatched to c. *)
LEMMA SendStep ==
    ASSUME NEW r \in Calls, NEW c \in Channels, NEW to \in Call,
           NEW tried, NEW n, call \in [Calls -> Call], Goes(r, to),
           Seen(call[r]) = [status |-> "waiting", tried |-> tried, sent |-> n],
           Seen(to) = [status |-> "sent", tried |-> tried \cup {c},
                       sent |-> n + 1, at |-> c],
           n < MaxRetries + 1,
           \/ c \notin tried
           \/ \E list \in Lists : c \in list /\ list \subseteq tried,
           UNCHANGED <<failures, disabled>>
    PROVE  Promise!Next
  <1> DEFINE seen == [q \in Calls |-> Seen(call[q])]
  <1>1. seen[r] = [status |-> "waiting", tried |-> tried, sent |-> n]
    OBVIOUS
  <1>2. [q \in Calls |-> Seen(call'[q])] = [seen EXCEPT ![r] = Seen(to)]
    BY SeenUpdate
  <1>3. /\ seen[r].status = "waiting" /\ seen[r].tried = tried
        /\ seen[r].sent = n
    BY <1>1
  <1>4. [q \in Calls |-> Seen(call'[q])]
           = [seen EXCEPT ![r] = [status |-> "sent",
                                  tried |-> seen[r].tried \cup {c},
                                  sent |-> seen[r].sent + 1, at |-> c]]
    BY <1>2, <1>3
  <1>5. Promise!Send(r, c)
    BY <1>3, <1>4 DEF Promise!Send, Promise!Sent
  <1>6. QED
    BY <1>5 DEF Promise!Next

LEMMA FindsPromise ==
    ASSUME SelectorAssumption, RetryAssumption, TypeOK, TypeOK',
           NEW r \in Calls, Finds(r)
    PROVE  [Promise!Next]_(Promise!vars)
  <1>1. /\ call \in [Calls -> Call] /\ call[r] \in Call
        /\ call' \in [Calls -> Call] /\ call'[r] \in Call
    BY DEF TypeOK
  <1>2. UNCHANGED <<failures, disabled>>
    BY DEF Finds, Route, ReadPin, UsePin, MissPin, Select, CountSelection, Refuse, Pin,
           ReadLimit, selector
  <1>3. ASSUME NEW to, Goes(r, to)
        PROVE  to = call'[r] /\ to \in Call
    BY <1>1, <1>3 DEF Goes
  <1>4. CASE Route(r)
    <2>1. Seen([stage |-> "routed", list |-> listed]) = Seen(call[r])
      BY <1>4 DEF Route, At, Seen
    <2>2. QED
      BY <1>1, <1>2, <1>3, <1>4, <2>1, Unseen DEF Route
  <1>5. CASE UsePin(r)
    <2> DEFINE c == call[r].pinned
               to == [stage |-> "sent", at |-> c, tried |-> {c}, attempt |-> 0]
    <2>1. c \in Channels
      BY <1>1, <1>5, Carries DEF UsePin, PinHolds, At, RetryAssumption
    <2>2. to \in Call /\ Goes(r, to)
      BY <1>3, <1>5 DEF UsePin
    <2>3. Seen(call[r]) = [status |-> "waiting", tried |-> {}, sent |-> 0]
      BY <1>5 DEF UsePin, At, Seen
    <2>4. Seen(to) = [status |-> "sent", tried |-> {} \cup {c},
                      sent |-> 0 + 1, at |-> c]
      BY DEF Seen
    <2>5. 0 < MaxRetries + 1
      BY DEF RetryAssumption
    <2> HIDE DEF c, to
    <2>6. QED
      BY <1>1, <1>2, <2>1, <2>2, <2>3, <2>4, <2>5, SendStep
  <1>6. CASE MissPin(r)
    <2>1. Seen(Resolving(call[r].list, {}, 0)) = Seen(call[r])
      BY <1>6 DEF MissPin, At, Seen, Resolving
    <2>2. QED
      BY <1>1, <1>2, <1>3, <1>6, <2>1, Unseen DEF MissPin
  <1>7. CASE Select(r)
    <2>1. PICK c \in Selected(call[r].list, call[r].tried, call[r].attempt,
                              call[r].limited) :
             Goes(r, Dispatched(r, IF call[r].attempt = 0
                                      /\ Conversation[r] # None
                                   THEN "pinning" ELSE "sent", c))
      BY <1>7 DEF Select
    <2> DEFINE to == Dispatched(r, IF call[r].attempt = 0
                                      /\ Conversation[r] # None
                                   THEN "pinning" ELSE "sent", c)
               tried == call[r].tried
               n == call[r].attempt
    <2>2. /\ call[r].stage = "resolving"
          /\ call[r].list \in Lists
          /\ n \in 0..MaxRetries
      BY <1>1, <1>7, Carries DEF Select, Ready, At
    <2>3. c \in call[r].list /\ (c \notin tried \/ call[r].list \subseteq tried)
      BY <2>1, SelectedInList
    <2>4. c \in Channels
      BY <2>2, <2>3 DEF RetryAssumption
    <2>5. to \in Call /\ Goes(r, to)
      BY <1>3, <2>1
    <2>6. Seen(call[r]) = [status |-> "waiting", tried |-> tried, sent |-> n]
      BY <2>2 DEF Seen
    <2>7. Seen(to) = [status |-> "sent", tried |-> tried \cup {c},
                      sent |-> n + 1, at |-> c]
      BY DEF Seen, Dispatched
    <2>8. n < MaxRetries + 1
      BY <2>2 DEF RetryAssumption
    <2>9. \/ c \notin tried
          \/ \E list \in Lists : c \in list /\ list \subseteq tried
      BY <2>2, <2>3
    <2> HIDE DEF to, tried, n
    <2>10. QED
      BY <1>1, <1>2, <2>4, <2>5, <2>6, <2>7, <2>8, <2>9, SendStep
  <1>8. CASE Refuse(r)
    <2> DEFINE seen == [q \in Calls |-> Seen(call[q])]
    <2>1. seen[r].status = "waiting"
      BY <1>8 DEF Refuse, Ready, At, Seen
    <2>2. [q \in Calls |-> Seen(call'[q])]
             = [seen EXCEPT ![r] = Seen([stage |-> "failed"])]
      BY <1>1, <1>3, <1>8, SeenUpdate DEF Refuse
    <2>3. Seen([stage |-> "failed"]) = [status |-> "failed"]
      BY DEF Seen
    <2>4. Promise!GiveUp(r)
      BY <1>2, <2>1, <2>2, <2>3 DEF Promise!GiveUp
    <2>5. QED
      BY <2>4 DEF Promise!Next
  <1>9. CASE Pin(r)
    <2>1. Seen([call[r] EXCEPT !.stage = "sent"]) = Seen(call[r])
      BY <1>1, <1>9 DEF Pin, At, Call, Seen
    <2>2. QED
      BY <1>1, <1>2, <1>3, <1>9, <2>1, Unseen DEF Pin
  <1>10. ASSUME NEW c \in Channels, ReadLimit(r, c)
         PROVE  UNCHANGED Promise!vars
    <2> DEFINE to == [call[r] EXCEPT
                        !.unread = @ \ {c},
                        !.limited = IF used[c] < Limit[c] THEN @
                                    ELSE @ \cup {c}]
    <2>1. Goes(r, to) /\ to \in Call
      BY <1>3, <1>10 DEF ReadLimit
    <2>2. Seen(to) = Seen(call[r])
      BY <1>1, <1>10 DEF ReadLimit, At, Call, Seen
    <2> HIDE DEF to
    <2>3. QED
      BY <1>1, <1>2, <2>1, <2>2, Unseen
  <1>11. CASE ReadPin(r)
    <2> DEFINE to == [stage |-> "checking", list |-> call[r].list,
                      pinned |-> Pinned(r)]
    <2>1. Goes(r, to) /\ to \in Call
      BY <1>3, <1>11 DEF ReadPin
    <2>2. Seen(to) = Seen(call[r])
      BY <1>11 DEF ReadPin, At, Seen
    <2> HIDE DEF to
    <2>3. QED
      BY <1>1, <1>2, <2>1, <2>2, Unseen
  <1>12. QED
    BY <1>4, <1>5, <1>6, <1>7, <1>8, <1>9, <1>10, <1>11 DEF Finds

LEMMA AnswersPromise ==
    ASSUME SelectorAssumption, RetryAssumption, TypeOK, TypeOK',
           NEW r \in Calls, Answers(r)
    PROVE  Promise!Next
  <1> DEFINE seen == [q \in Calls |-> Seen(call[q])]
             c == call[r].at
  <1>1. /\ call \in [Calls -> Call] /\ call[r] \in Call
        /\ call' \in [Calls -> Call] /\ call'[r] \in Call
        /\ failures \in [Channels -> 0..Threshold]
    BY DEF TypeOK
  <1>2. /\ seen[r] = [status |-> "sent", tried |-> call[r].tried,
                      sent |-> call[r].attempt + 1, at |-> c]
        /\ c \in Channels
    BY <1>1, Carries DEF Answers, Succeed, Fail, At, Seen
  <1>3. ASSUME NEW to, Goes(r, to)
        PROVE  [q \in Calls |-> Seen(call'[q])] = [seen EXCEPT ![r] = Seen(to)]
    <2>1. to \in Call
      BY <1>1, <1>3 DEF Goes
    <2>2. QED
      BY <1>1, <1>3, <2>1, SeenUpdate
  <1>4. CASE Succeed(r)
    <2>1. Seen([stage |-> "metering", at |-> c]) = [status |-> "ok"]
      BY DEF Seen
    <2>2. [q \in Calls |-> Seen(call'[q])]
             = [seen EXCEPT ![r] = [status |-> "ok"]]
      BY <1>3, <1>4, <2>1 DEF Succeed
    <2>3. /\ failures' = [failures EXCEPT ![c] = 0]
          /\ disabled' = disabled \ {c}
      BY <1>4 DEF Succeed, ReportSuccess
    <2>4. seen[r].status = "sent" /\ seen[r].at = c
      BY <1>2
    <2>5. Promise!Succeed(r)
      BY <2>2, <2>3, <2>4 DEF Promise!Succeed
    <2>6. QED
      BY <2>5 DEF Promise!Next
  <1>5. CASE Fail(r)
    <2>1. \/ [q \in Calls |-> Seen(call'[q])]
               = [seen EXCEPT ![r] = [status |-> "failed"]]
          \/ [q \in Calls |-> Seen(call'[q])]
               = [seen EXCEPT ![r] = [status |-> "waiting",
                                      tried |-> call[r].tried,
                                      sent |-> call[r].attempt + 1]]
      <3>1. Seen([stage |-> "failed"]) = [status |-> "failed"]
        BY DEF Seen
      <3>2. Seen(Resolving(listed, call[r].tried, call[r].attempt + 1))
               = [status |-> "waiting", tried |-> call[r].tried,
                  sent |-> call[r].attempt + 1]
        BY DEF Seen, Resolving
      <3>3. CASE Goes(r, [stage |-> "failed"])
        BY <1>3, <3>1, <3>3
      <3>4. CASE Goes(r, Resolving(listed, call[r].tried, call[r].attempt + 1))
        BY <1>3, <3>2, <3>4
      <3>5. QED
        BY <1>5, <3>3, <3>4 DEF Fail
    <2>2. failures' = [failures EXCEPT
                         ![c] = IF failures[c] + 1 >= Threshold THEN Threshold
                                ELSE failures[c] + 1]
      BY <1>5 DEF Fail, ReportFailure
    <2>3. \/ disabled' = disabled
          \/ failures[c] + 1 >= Threshold /\ disabled' = disabled \cup {c}
      BY <1>5 DEF Fail, ReportFailure
    <2>4. \/ disabled' = disabled
          \/ failures'[c] = Threshold /\ disabled' = disabled \cup {c}
      BY <1>1, <1>2, <2>2, <2>3
    <2>5. /\ seen[r].status = "sent" /\ seen[r].at = c
          /\ seen[r].tried = call[r].tried
          /\ seen[r].sent = call[r].attempt + 1
      BY <1>2
    <2>6. Promise!Fail(r)
      BY <2>1, <2>2, <2>4, <2>5 DEF Promise!Fail, Promise!Waiting
    <2>7. QED
      BY <2>6 DEF Promise!Next
  <1>6. QED
    BY <1>4, <1>5 DEF Answers

LEMMA StepPromise ==
    ASSUME SelectorAssumption, RetryAssumption, TypeOK, TypeOK', [Next]_vars
    PROVE  [Promise!Next]_(Promise!vars)
  <1>1. ASSUME NEW r \in Calls, Meter(r)
        PROVE  UNCHANGED Promise!vars
    <2> DEFINE to == [stage |-> "ok"]
    <2>1. call \in [Calls -> Call] /\ to \in Call
      BY DEF TypeOK, Call
    <2>2. Goes(r, to) /\ UNCHANGED <<failures, disabled>>
      BY <1>1 DEF Meter, selector
    <2>3. Seen(to) = Seen(call[r])
      BY <1>1 DEF Meter, At, Seen
    <2> HIDE DEF to
    <2>4. QED
      BY <2>1, <2>2, <2>3, Unseen
  <1>2. CASE \/ \E list \in Lists : Publish(list)
             \/ \E c \in Channels : WindowSlides(c)
             \/ \E k \in Conversations : PinExpires(k)
             \/ UNCHANGED vars
    BY <1>2 DEF Publish, WindowSlides, PinExpires, vars, selector, Promise!vars
  <1>3. CASE Clocks
    <2>1. UNCHANGED <<call, failures>>
      BY <1>3 DEF Clocks, CoolDown, Reenable, HealthPoll
    <2>2. \/ UNCHANGED disabled
          \/ \E c \in Channels : disabled' = disabled \ {c}
      BY <1>3 DEF Clocks, CoolDown, Reenable, HealthPoll
    <2>3. QED
      BY <2>1, <2>2 DEF Promise!vars, Promise!Next, Promise!Return
  <1>4. QED
    BY <1>1, <1>2, <1>3, FindsPromise, AnswersPromise DEF Next

(* Calling a provider implements UpstreamSpec for any number of calls,     *)
(* channels and retries, whatever the clocks, the configuration and the    *)
(* health check do in between.                                             *)
THEOREM Refinement ==
    ASSUME SelectorAssumption, RetryAssumption
    PROVE  Spec => KeepsPromise
  <1>1. Init => Promise!Init
    BY InitPromise
  <1>2. TypeOK /\ TypeOK' /\ [Next]_vars => [Promise!Next]_(Promise!vars)
    BY StepPromise
  <1>3. Spec => []TypeOK
    BY TypeCorrect
  <1>4. QED
    BY <1>1, <1>2, <1>3, PTL DEF Spec, KeepsPromise, Promise!Spec
-----------------------------------------------------------------------------
(* What a selection chooses. *)

(* For any lists and limits: whatever the others report, publish or poll   *)
(* while a call reads the windows of its accounts, it is not selected onto *)
(* a channel that rests, is ill, is limited or was tried as long as there  *)
(* is a better one.                                                        *)
THEOREM SelectionIsBest ==
    ASSUME SelectorAssumption, RetryAssumption
    PROVE  Spec => BestEffort
  <1> DEFINE Best(r) ==
         LET down == Resting \cup unhealthy \cup call[r].tried
         IN  call[r].list \ (down \cup call[r].limited) # {}
                => call'[r].at \notin down \cup call[r].limited
  <1>1. ASSUME TypeOK, NEW r \in Calls, Select(r)
        PROVE  Best(r)
    <2>1. PICK c \in Selected(call[r].list, call[r].tried, call[r].attempt,
                              call[r].limited) :
             Goes(r, Dispatched(r, IF call[r].attempt = 0
                                      /\ Conversation[r] # None
                                   THEN "pinning" ELSE "sent", c))
      BY <1>1 DEF Select
    <2>2. call'[r].at = c
      BY <1>1, <2>1 DEF TypeOK, Goes, Dispatched
    <2>3. c \in Candidates(call[r].list, call[r].tried, call[r].limited)
      BY <2>1 DEF Selected, Picked, Tier
    <2>4. QED
      BY <2>2, <2>3 DEF Candidates
  <1>2. TypeOK /\ [Next]_vars => [\A r \in Calls : Select(r) => Best(r)]_vars
    BY <1>1
  <1>3. Spec => []TypeOK
    BY TypeCorrect
  <1>4. QED
    BY <1>2, <1>3, PTL DEF Spec, BestEffort

(* The share of a channel, as a function, so that sums over it are those   *)
(* of NumberFacts.                                                         *)
ShareOf == [c \in Channels |-> Share(c)]

LEMMA ShareType ==
    ASSUME SelectorAssumption, NEW c \in Channels
    PROVE  Share(c) \in Nat \ {0} /\ ShareOf[c] = Share(c)
  BY DEF Share, ShareOf, SelectorAssumption

LEMMA TotalIsSum ==
    ASSUME SelectorAssumption, NEW S \in SUBSET Channels
    PROVE  TotalShare(S) = SumOf(ShareOf, S)
  <1> DEFINE Table(g) ==
         g = [T \in SUBSET S |-> IF T = {} THEN 0
                                 ELSE Share(AnyOf(T)) + g[T \ {AnyOf(T)}]]
  <1>1. TotalShare(S) = (CHOOSE g : Table(g))[S]
    BY DEF TotalShare, MapThenSumSet, MapThenFoldSet, AnyOf
  <1>2. \A T \in SUBSET S : T # {} => ShareOf[AnyOf(T)] = Share(AnyOf(T))
    BY AnyOfMember DEF ShareOf
  <1>3. ASSUME NEW g
        PROVE  Table(g) <=> SumTable(ShareOf, S, g)
    BY <1>2 DEF SumTable
  <1>4. IsFiniteSet(S)
    BY FS_Subset DEF SelectorAssumption
  <1>5. PICK g : SumTable(ShareOf, S, g) /\ SumOf(ShareOf, S) = g[S]
    BY <1>4, TableOfSums
  <1>6. Table(CHOOSE h : Table(h))
    BY <1>3, <1>5
  <1>7. PICK h : h = (CHOOSE f : Table(f)) /\ SumTable(ShareOf, S, h)
    BY <1>3, <1>6
  <1>8. S \in SUBSET S /\ \A x \in S : ShareOf[x] = ShareOf[x]
    OBVIOUS
  <1>9. g[S] = h[S]
    BY <1>4, <1>5, <1>7, <1>8, TablesAgree
  <1>10. QED
    BY <1>1, <1>5, <1>7, <1>9

(* No channel has no share, and one that is added adds its own.            *)
LEMMA ShareWith ==
    ASSUME SelectorAssumption, NEW A \in SUBSET Channels, NEW c \in Channels \ A
    PROVE  /\ TotalShare({}) = 0
           /\ TotalShare(A \cup {c}) = TotalShare(A) + Share(c)
  <1>1. PICK B : B = A \cup {c}
    OBVIOUS
  <1>2. /\ {} \in SUBSET Channels /\ B \in SUBSET Channels
        /\ IsFiniteSet(A)
    BY <1>1, FS_Subset DEF SelectorAssumption
  <1>3. /\ \A y \in A : ShareOf[y] \in Int
        /\ ShareOf[c] \in Int /\ ShareOf[c] = Share(c)
    BY ShareType
  <1>4. SumOf(ShareOf, B) = SumOf(ShareOf, A) + ShareOf[c]
    BY <1>1, <1>2, <1>3, SumWith
  <1>5. /\ TotalShare(B) = SumOf(ShareOf, B)
        /\ TotalShare(A) = SumOf(ShareOf, A)
        /\ TotalShare({}) = SumOf(ShareOf, {})
    BY <1>2, TotalIsSum
  <1>6. SumOf(ShareOf, {}) = 0
    BY SumOfNone
  <1>7. QED
    BY <1>1, <1>3, <1>4, <1>5, <1>6

(* More channels have at least the share of fewer, and one that is added   *)
(* adds its own.                                                           *)
LEMMA SharesAdd ==
    ASSUME SelectorAssumption, NEW S \in SUBSET Channels, NEW A \in SUBSET S
    PROVE  /\ TotalShare(A) \in Nat /\ TotalShare(A) <= TotalShare(S)
           /\ \A c \in S \ A : TotalShare(A) + Share(c) <= TotalShare(S)
  <1>1. IsFiniteSet(S) /\ \A c \in S : ShareOf[c] \in Nat
    BY FS_Subset, ShareType DEF SelectorAssumption
  <1>2. ASSUME NEW B \in SUBSET S
        PROVE  TotalShare(B) \in Nat /\ TotalShare(B) <= TotalShare(S)
    <2>1. SumOf(ShareOf, B) \in Nat /\ SumOf(ShareOf, B) <= SumOf(ShareOf, S)
      BY <1>1, SumOfPart
    <2>2. TotalShare(B) = SumOf(ShareOf, B) /\ TotalShare(S) = SumOf(ShareOf, S)
      BY TotalIsSum
    <2>3. QED
      BY <2>1, <2>2
  <1>3. ASSUME NEW c \in S \ A
        PROVE  TotalShare(A) + Share(c) <= TotalShare(S)
    <2>1. PICK B : B = A \cup {c}
      OBVIOUS
    <2>2. B \in SUBSET S
      BY <2>1
    <2>3. TotalShare(B) = TotalShare(A) + Share(c)
      BY <2>1, ShareWith
    <2>4. QED
      BY <1>2, <2>2, <2>3
  <1>4. QED
    BY <1>2, <1>3

(* The shares of a set lie one after the other in its total.               *)
LEMMA SharesInOrder ==
    ASSUME SelectorAssumption, NEW S \in SUBSET Channels, NEW c \in S
    PROVE  /\ Before(S, c) \in Nat /\ Share(c) \in Nat \ {0}
           /\ TotalShare(S) \in Nat \ {0}
           /\ Before(S, c) + Share(c) <= TotalShare(S)
           /\ \A d \in S : d < c => Before(S, d) + Share(d) <= Before(S, c)
  <1>1. \A d \in S : d \in Nat
    BY DEF SelectorAssumption
  <1>2. PICK A : A = {d \in S : d < c}
    OBVIOUS
  <1>3. A \in SUBSET S /\ c \in S \ A /\ Before(S, c) = TotalShare(A)
    BY <1>1, <1>2 DEF Before
  <1>4. /\ Before(S, c) \in Nat /\ Before(S, c) + Share(c) <= TotalShare(S)
    BY <1>3, SharesAdd
  <1>5. Share(c) \in Nat \ {0}
    BY ShareType
  <1>6. TotalShare(S) \in Nat
    <2>1. S \in SUBSET S
      OBVIOUS
    <2>2. QED
      BY <2>1, SharesAdd
  <1>7. ASSUME NEW d \in S, d < c
        PROVE  Before(S, d) + Share(d) <= Before(S, c)
    <2>1. PICK B : B = {e \in S : e < d}
      OBVIOUS
    <2>2. /\ d \in Nat /\ c \in Nat
          /\ \A e \in S : e \in Nat
      BY <1>1
    <2>6. \A e \in S : e < d => e < c
      BY <1>7, <2>2
    <2>7. ~(d < d)
      BY <2>2
    <2>8. B \in SUBSET A /\ d \in A \ B
      BY <1>2, <1>7, <2>1, <2>6, <2>7
    <2>9. Before(S, d) = TotalShare(B)
      BY <2>1 DEF Before
    <2>3. A \in SUBSET Channels
      BY <1>3
    <2>4. TotalShare(B) + Share(d) <= TotalShare(A)
      BY <2>3, <2>8, SharesAdd
    <2>5. QED
      BY <1>3, <2>4, <2>9
  <1>8. QED
    BY <1>4, <1>5, <1>6, <1>7

(* The shares leave no gap: whatever is below the total lies in one of     *)
(* them, and select never comes to its last line.                          *)
LEMMA SharesCover ==
    ASSUME SelectorAssumption, NEW S \in SUBSET Channels, S # {},
           NEW i \in 0..(TotalShare(S) - 1)
    PROVE  \E c \in S : Before(S, c) <= i /\ i < Before(S, c) + Share(c)
  <1>1. /\ S \in SUBSET Nat /\ IsFiniteSet(S)
        /\ \A c \in S : Before(S, c) \in Nat /\ Share(c) \in Nat \ {0}
        /\ TotalShare(S) \in Nat /\ i \in Nat /\ i < TotalShare(S)
    <2>1. S \in SUBSET Nat /\ IsFiniteSet(S)
      BY FS_Subset DEF SelectorAssumption
    <2>2. \A c \in S : Before(S, c) \in Nat /\ Share(c) \in Nat \ {0}
      BY SharesInOrder
    <2>3. TotalShare(S) \in Nat
      <3>1. S \in SUBSET S
        OBVIOUS
      <3>2. QED
        BY <3>1, SharesAdd
    <2>4. i \in Nat /\ i < TotalShare(S)
      BY <2>3
    <2>5. QED
      BY <2>1, <2>2, <2>3, <2>4
  <1>2. PICK Ends : Ends = {c \in S : i < Before(S, c) + Share(c)}
    OBVIOUS
  <1>3. Ends # {}
    <2>1. PICK m \in S : \A d \in S : d <= m
      BY <1>1, GreatestOfFinite
    <2>2. PICK A : A = {d \in S : d < m}
      OBVIOUS
    <2>3. \A d \in S : d \in Nat
      BY <1>1
    <2>4. ~(m < m) /\ \A d \in S : d < m \/ d = m
      BY <2>1, <2>3
    <2>5. A \in SUBSET Channels /\ m \in Channels \ A /\ S = A \cup {m}
      BY <2>1, <2>2, <2>4
    <2>6. TotalShare(S) = Before(S, m) + Share(m)
      BY <2>2, <2>5, ShareWith DEF Before
    <2>7. QED
      BY <1>1, <1>2, <2>6
  <1>4. PICK c \in Ends : \A d \in Ends : c <= d
    BY <1>1, <1>2, <1>3, LeastElement
  <1>5. PICK A : A = {d \in S : d < c}
    OBVIOUS
  <1>6. /\ c \in S /\ A \in SUBSET S /\ A \cap Ends = {}
        /\ Before(S, c) = TotalShare(A)
    <2>1. c \in S /\ A \in SUBSET S /\ Before(S, c) = TotalShare(A)
      BY <1>2, <1>4, <1>5 DEF Before
    <2>2. \A d \in S : d \in Nat
      BY <1>1
    <2>3. \A d \in Ends : ~(d < c)
      BY <1>2, <1>4, <2>1, <2>2
    <2>4. QED
      BY <1>5, <2>1, <2>3
  <1>7. Before(S, c) <= i
    <2>1. CASE A = {}
      <3>1. TotalShare({}) = 0
        BY <1>6, ShareWith
      <3>2. QED
        BY <1>1, <1>6, <2>1, <3>1
    <2>2. CASE A # {}
      <3>1. A \in SUBSET Nat /\ IsFiniteSet(A)
        BY <1>1, <1>6, FS_Subset
      <3>2. PICK d \in A : \A e \in A : e <= d
        BY <2>2, <3>1, GreatestOfFinite
      <3>3. PICK B : B = {e \in S : e < d}
        OBVIOUS
      <3>4. c \in Nat /\ \A e \in S : e \in Nat
        BY <1>1, <1>6
      <3>5. /\ d \in S /\ d < c /\ ~(d < d)
            /\ \A e \in S : e < d => e < c
            /\ \A e \in S : e < c => e < d \/ e = d
        BY <1>5, <1>6, <3>2, <3>4
      <3>6. B \in SUBSET Channels /\ d \in Channels \ B /\ A = B \cup {d}
        BY <1>5, <3>3, <3>5
      <3>7. TotalShare(A) = Before(S, d) + Share(d)
        BY <3>3, <3>6, ShareWith DEF Before
      <3>8. d \in S /\ d \notin Ends
        BY <1>6, <3>2
      <3>9. QED
        BY <1>1, <1>2, <1>6, <3>7, <3>8
    <2>3. QED
      BY <2>1, <2>2
  <1>8. QED
    BY <1>2, <1>4, <1>6, <1>7

(* The counter picks c alone in the whole share of c, and nowhere else.    *)
LEMMA PickedAlone ==
    ASSUME SelectorAssumption, NEW S \in SUBSET Channels, NEW c \in S, NEW n \in Nat
    PROVE  Picked(S, n) = {c}
              <=> n % TotalShare(S) \in Before(S, c)..(Before(S, c) + Share(c) - 1)
  <1>1. PICK i : i = n % TotalShare(S)
    OBVIOUS
  <1>2. TotalShare(S) \in Nat \ {0}
    BY SharesInOrder
  <1>3. i \in Int
    BY <1>1, <1>2, Division
  <1>4. \A d \in S : /\ d \in Nat /\ Before(S, d) \in Nat /\ Share(d) \in Nat \ {0}
                     /\ \A e \in S : e < d => Before(S, e) + Share(e) <= Before(S, d)
    <2>1. \A d \in S : d \in Nat
      BY DEF SelectorAssumption
    <2>2. QED
      BY <2>1, SharesInOrder
  <1>5. \A d \in S : d \in Picked(S, n)
                        <=> Before(S, d) <= i /\ i < Before(S, d) + Share(d)
    <2>1. i \in 0..(TotalShare(S) - 1)
      BY <1>1, <1>2, Division
    <2>2. PICK hit : hit = {d \in S : Before(S, d) <= i /\ i < Before(S, d) + Share(d)}
      OBVIOUS
    <2>3. hit # {}
      BY <2>1, <2>2, SharesCover
    <2>4. Picked(S, n) = hit
      BY <1>1, <2>2, <2>3 DEF Picked
    <2>5. QED
      BY <2>2, <2>4
  <1>6. ASSUME NEW d \in S, NEW e \in S, d \in Picked(S, n), e \in Picked(S, n)
        PROVE  d = e
    <2>1. /\ Before(S, d) <= i /\ i < Before(S, d) + Share(d)
          /\ Before(S, e) <= i /\ i < Before(S, e) + Share(e)
      BY <1>5, <1>6
    <2>2. ~(d < e)
      BY <1>3, <1>4, <2>1
    <2>3. ~(e < d)
      BY <1>3, <1>4, <2>1
    <2>4. QED
      BY <1>4, <2>2, <2>3
  <1>7. Picked(S, n) \subseteq S
    BY DEF Picked
  <1>8. Picked(S, n) = {c} <=> c \in Picked(S, n)
    BY <1>6, <1>7
  <1>9. c \in Picked(S, n) <=> i \in Before(S, c)..(Before(S, c) + Share(c) - 1)
    BY <1>3, <1>4, <1>5
  <1>10. QED
    BY <1>1, <1>8, <1>9

(* In a round from anywhere each remainder comes once.                     *)
LEMMA RoundCounts ==
    ASSUME NEW T \in Nat \ {0}, NEW n \in Nat, NEW a \in Nat, NEW k \in Nat \ {0},
           a + k <= T
    PROVE  Cardinality({i \in 0..(T - 1) : (n + i) % T \in a..(a + k - 1)}) = k
  <1>1. PICK A : A = {i \in 0..(T - 1) : (n + i) % T \in a..(a + k - 1)}
    OBVIOUS
  <1>2. PICK m : m = n % T
    OBVIOUS
  <1>3. /\ m \in 0..(T - 1)
        /\ \A i \in 0..(T - 1) : (n + i) % T = IF m + i < T THEN m + i ELSE m + i - T
    <2>1. \A i \in 0..(T - 1) :
            /\ n % T \in 0..(T - 1)
            /\ (n + i) % T = IF (n % T) + i < T THEN (n % T) + i ELSE (n % T) + i - T
      BY TurnsAround
    <2>2. n % T \in 0..(T - 1)
      BY Division
    <2>3. QED
      BY <1>2, <2>1, <2>2
  <1>4. PICK f : f = [i \in A |-> (n + i) % T]
    OBVIOUS
  <1>5. f \in [A -> a..(a + k - 1)]
    BY <1>1, <1>4
  <1>6. ASSUME NEW i \in A, NEW j \in A, f[i] = f[j]
        PROVE  i = j
    <2>1. i \in 0..(T - 1) /\ j \in 0..(T - 1)
      BY <1>1
    <2>2. /\ f[i] = IF m + i < T THEN m + i ELSE m + i - T
          /\ f[j] = IF m + j < T THEN m + j ELSE m + j - T
      BY <1>3, <1>4, <2>1
    <2>3. m \in Nat /\ m < T /\ i \in Nat /\ i < T /\ j \in Nat /\ j < T
      BY <1>3, <2>1
    <2>4. (IF m + i < T THEN m + i ELSE m + i - T)
             = (IF m + j < T THEN m + j ELSE m + j - T)
      BY <1>6, <2>2
    <2>5. T \in Nat
      OBVIOUS
    <2>6. QED
      BY <2>3, <2>4, <2>5
  <1>7. ASSUME NEW r \in a..(a + k - 1)
        PROVE  \E i \in A : f[i] = r
    <2>1. PICK i : i = IF m <= r THEN r - m ELSE r - m + T
      OBVIOUS
    <2>2. r \in 0..(T - 1)
      OBVIOUS
    <2>3. i \in 0..(T - 1) /\ (IF m + i < T THEN m + i ELSE m + i - T) = r
      BY <1>3, <2>1, <2>2
    <2>4. (n + i) % T = r
      BY <1>3, <2>3
    <2>5. i \in A
      BY <1>1, <2>3, <2>4
    <2>6. QED
      BY <1>4, <2>4, <2>5
  <1>8. f \in Bijection(A, a..(a + k - 1))
    BY <1>5, <1>6, <1>7 DEF Bijection, Injection, Surjection, IsInjective
  <1>9. IsFiniteSet(A)
    <2>1. A \subseteq 0..(T - 1) /\ IsFiniteSet(0..(T - 1))
      BY <1>1, FS_Interval
    <2>2. QED
      BY <2>1, FS_Subset
  <1>10. Cardinality(a..(a + k - 1)) = k
    BY FS_Interval
  <1>11. Cardinality(a..(a + k - 1)) = Cardinality(A)
    BY <1>8, <1>9, FS_Bijection DEF ExistsBijection
  <1>12. QED
    BY <1>1, <1>10, <1>11

(* For any weights, of 0 too, and wherever calls with other candidates     *)
(* have left the counter: over a round each channel is picked as often as  *)
(* its share says, alone, and so never none or two.                        *)
THEOREM SharesAreKept ==
    ASSUME SelectorAssumption, RetryAssumption
    PROVE  Spec => []RoundRobinShare
  <1>1. ASSUME TypeOK
        PROVE  RoundRobinShare
    <2> SUFFICES ASSUME NEW S \in SUBSET Channels, NEW c \in S
                 PROVE  Cardinality({i \in 0..(TotalShare(S) - 1) :
                                       Picked(S, counter + i) = {c}}) = Share(c)
      BY DEF RoundRobinShare
    <2>1. PICK T : T = TotalShare(S)
      OBVIOUS
    <2>2. PICK a : a = Before(S, c)
      OBVIOUS
    <2>3. /\ T \in Nat \ {0} /\ a \in Nat /\ Share(c) \in Nat \ {0}
          /\ a + Share(c) <= T
      BY <2>1, <2>2, SharesInOrder
    <2>4. counter \in Nat
      BY <1>1 DEF TypeOK
    <2>5. \A i \in 0..(T - 1) : Picked(S, counter + i) = {c}
                                   <=> (counter + i) % T \in a..(a + Share(c) - 1)
      <3>1. \A i \in 0..(T - 1) : counter + i \in Nat
        BY <2>4
      <3>2. QED
        BY <2>1, <2>2, <3>1, PickedAlone
    <2>6. {i \in 0..(T - 1) : Picked(S, counter + i) = {c}}
             = {i \in 0..(T - 1) : (counter + i) % T \in a..(a + Share(c) - 1)}
      BY <2>5
    <2>7. Cardinality({i \in 0..(T - 1) :
                         (counter + i) % T \in a..(a + Share(c) - 1)}) = Share(c)
      <3>1. PICK k : k = Share(c)
        OBVIOUS
      <3>2. k \in Nat \ {0} /\ a + k <= T
        BY <2>3, <3>1
      <3>3. Cardinality({i \in 0..(T - 1) : (counter + i) % T \in a..(a + k - 1)}) = k
        BY <2>3, <2>4, <3>2, RoundCounts
      <3>4. QED
        BY <3>1, <3>3
    <2>8. QED
      BY <2>1, <2>6, <2>7
  <1>2. Spec => []TypeOK
    BY TypeCorrect
  <1>3. QED
    BY <1>1, <1>2, PTL

-----------------------------------------------------------------------------
(* Translate.  Sequences first: what its folds keep, join and give.         *)

(* The three folds of Translate are such folds.                             *)
KeepStep(A, S) == [x \in Seq(A) \X A |-> IF x[2] \in S THEN Append(x[1], x[2]) ELSE x[1]]
JoinStep(A) == [x \in Seq(A) \X Seq(A) |-> x[1] \o x[2]]

(* What Among keeps.                                                       *)
LEMMA AmongIsSteps ==
    ASSUME NEW A, NEW S, NEW s \in Seq(A)
    PROVE  Among(s, S) = StepsOf(KeepStep(A, S), <<>>, Seq(A), s)
  <1> DEFINE D == DOMAIN s
             Table(g) == g = [T \in SUBSET D |-> IF T = {} THEN <<>>
                                ELSE IF s[Max(T)] \in S THEN Append(g[T \ {Max(T)}], s[Max(T)]) ELSE g[T \ {Max(T)}]]
             f == CHOOSE g : Table(g)
  <1>1. D \in SUBSET Int /\ IsFiniteSet(D) /\ \A i \in D : s[i] \in A
    BY IndexesTaken
  <1>2. KeepStep(A, S) \in [Seq(A) \X A -> Seq(A)] /\ <<>> \in Seq(A)
    BY DEF KeepStep
  <1>3. \A a \in Seq(A), b \in A : KeepStep(A, S)[<<a, b>>] = IF b \in S THEN Append(a, b) ELSE a
    BY DEF KeepStep
  <1>4. PICK g : Folded(KeepStep(A, S), <<>>, Seq(A), s, g)
    BY <1>2, StepsChosen
  <1>5. g \in [SUBSET D -> Seq(A)] /\ g[{}] = <<>> /\ StepsOf(KeepStep(A, S), <<>>, Seq(A), s) = g[D]
    BY <1>4 DEF Folded
  <1>6. ASSUME NEW T \in SUBSET D, T # {}
        PROVE  g[T] = IF s[Max(T)] \in S THEN Append(g[T \ {Max(T)}], s[Max(T)]) ELSE g[T \ {Max(T)}]
    <2>1. Max(T) \in D /\ T \ {Max(T)} \in SUBSET D
      BY <1>1, <1>6, GreatestTaken
    <2>2. g[T \ {Max(T)}] \in Seq(A) /\ s[Max(T)] \in A
      BY <1>1, <1>5, <2>1
    <2>3. g[T] = KeepStep(A, S)[<<g[T \ {Max(T)}], s[Max(T)]>>]
      BY <1>4, <1>6 DEF Folded
    <2>4. QED
      BY <1>3, <2>2, <2>3
  <1>7. Table(g)
    BY <1>5, <1>6
  <1>8. Table(f)
    BY <1>7
  <1>9. f[{}] = <<>> /\ \A T \in SUBSET D : T # {} =>
           f[T] = IF s[Max(T)] \in S THEN Append(f[T \ {Max(T)}], s[Max(T)]) ELSE f[T \ {Max(T)}]
    BY <1>8
  <1>10. Among(s, S) = f[D]
    BY DEF Among, FoldLeft, MapThenFoldSet
  <1> HIDE DEF f, Table, D
  <1>11. TablesMatch(D, f, g)
    BY <1>5, <1>6, <1>9 DEF TablesMatch
  <1>12. EntriesMatch(D, f, g)
    BY <1>1, <1>11, StepsAlike
  <1>13. f[D] = g[D]
    BY <1>12 DEF EntriesMatch
  <1>14. QED
    BY <1>5, <1>10, <1>13

(* What Joined joins.                                                      *)
LEMMA JoinedIsSteps ==
    ASSUME NEW A, NEW s \in Seq(Seq(A))
    PROVE  Joined(s) = StepsOf(JoinStep(A), <<>>, Seq(A), s)
  <1> DEFINE D == DOMAIN s
             Table(g) == g = [T \in SUBSET D |-> IF T = {} THEN <<>>
                                ELSE g[T \ {Max(T)}] \o s[Max(T)]]
             f == CHOOSE g : Table(g)
  <1>1. D \in SUBSET Int /\ IsFiniteSet(D) /\ \A i \in D : s[i] \in Seq(A)
    BY IndexesTaken
  <1>2. JoinStep(A) \in [Seq(A) \X Seq(A) -> Seq(A)] /\ <<>> \in Seq(A)
    BY DEF JoinStep
  <1>3. \A a \in Seq(A), b \in Seq(A) : JoinStep(A)[<<a, b>>] = a \o b
    BY DEF JoinStep
  <1>4. PICK g : Folded(JoinStep(A), <<>>, Seq(A), s, g)
    BY <1>2, StepsChosen
  <1>5. g \in [SUBSET D -> Seq(A)] /\ g[{}] = <<>> /\ StepsOf(JoinStep(A), <<>>, Seq(A), s) = g[D]
    BY <1>4 DEF Folded
  <1>6. ASSUME NEW T \in SUBSET D, T # {}
        PROVE  g[T] = g[T \ {Max(T)}] \o s[Max(T)]
    <2>1. Max(T) \in D /\ T \ {Max(T)} \in SUBSET D
      BY <1>1, <1>6, GreatestTaken
    <2>2. g[T \ {Max(T)}] \in Seq(A) /\ s[Max(T)] \in Seq(A)
      BY <1>1, <1>5, <2>1
    <2>3. g[T] = JoinStep(A)[<<g[T \ {Max(T)}], s[Max(T)]>>]
      BY <1>4, <1>6 DEF Folded
    <2>4. QED
      BY <1>3, <2>2, <2>3
  <1>7. Table(g)
    BY <1>5, <1>6
  <1>8. Table(f)
    BY <1>7
  <1>9. f[{}] = <<>> /\ \A T \in SUBSET D : T # {} =>
           f[T] = f[T \ {Max(T)}] \o s[Max(T)]
    BY <1>8
  <1>10. Joined(s) = f[D]
    BY DEF Joined, FoldLeft, MapThenFoldSet
  <1> HIDE DEF f, Table, D
  <1>11. TablesMatch(D, f, g)
    BY <1>5, <1>6, <1>9 DEF TablesMatch
  <1>12. EntriesMatch(D, f, g)
    BY <1>1, <1>11, StepsAlike
  <1>13. f[D] = g[D]
    BY <1>12 DEF EntriesMatch
  <1>14. QED
    BY <1>5, <1>10, <1>13

LEMMA AmongTyped ==
    ASSUME NEW A, NEW S, NEW s \in Seq(A)
    PROVE  Among(s, S) \in Seq(A) /\ (s = <<>> => Among(s, S) = <<>>)
  <1>1. PICK op, C, base : op = KeepStep(A, S) /\ C = Seq(A) /\ base = <<>>
    OBVIOUS
  <1>2. op \in [C \X A -> C] /\ base \in C
    BY <1>1 DEF KeepStep
  <1>3. WellFolded(op, base, C, s)
    BY <1>2, StepsTyped
  <1>4. QED
    BY <1>1, <1>3, AmongIsSteps DEF WellFolded

LEMMA NoneAmong ==
    ASSUME NEW S
    PROVE  Among(<<>>, S) = <<>>
  <1>1. PICK e : e = <<>>
    OBVIOUS
  <1>2. e \in Seq({})
    BY <1>1
  <1>3. QED
    BY <1>1, <1>2, AmongTyped

(* One more is kept or not.                                                 *)
LEMMA AmongUnfolds ==
    ASSUME NEW A, NEW S, NEW s \in Seq(A), NEW x \in A
    PROVE  /\ Among(<<>>, S) = <<>>
           /\ Among(s, S) \in Seq(A)
           /\ Among(Append(s, x), S) = IF x \in S THEN Append(Among(s, S), x) ELSE Among(s, S)
  <1>1. PICK op : op = KeepStep(A, S)
    OBVIOUS
  <1>2. op \in [Seq(A) \X A -> Seq(A)] /\ <<>> \in Seq(A)
    BY <1>1 DEF KeepStep
  <1>3. \A a \in Seq(A), b \in A : op[<<a, b>>] = IF b \in S THEN Append(a, b) ELSE a
    BY <1>1 DEF KeepStep
  <1>4. PICK e, t : e = <<>> /\ t = Append(s, x)
    OBVIOUS
  <1>5. e \in Seq(A) /\ t \in Seq(A)
    BY <1>4
  <1>6. /\ Among(e, S) = StepsOf(op, <<>>, Seq(A), e)
        /\ Among(s, S) = StepsOf(op, <<>>, Seq(A), s)
        /\ Among(t, S) = StepsOf(op, <<>>, Seq(A), t)
    BY <1>1, <1>5, AmongIsSteps
  <1>7. /\ StepsOf(op, <<>>, Seq(A), <<>>) = <<>>
        /\ StepsOf(op, <<>>, Seq(A), s) \in Seq(A)
        /\ StepsOf(op, <<>>, Seq(A), Append(s, x)) = op[<<StepsOf(op, <<>>, Seq(A), s), x>>]
    <2>1. PICK C, base : C = Seq(A) /\ base = <<>>
      OBVIOUS
    <2>2. op \in [C \X A -> C] /\ base \in C /\ s \in Seq(A) /\ x \in A
      BY <1>2, <2>1
    <2>3. StepTaken(op, base, C, s, x)
      BY <2>2, StepsUnfold
    <2>4. QED
      BY <2>1, <2>3 DEF StepTaken
  <1>8. QED
    BY <1>3, <1>4, <1>6, <1>7

LEMMA JoinedTyped ==
    ASSUME NEW A, NEW s \in Seq(Seq(A))
    PROVE  Joined(s) \in Seq(A) /\ (s = <<>> => Joined(s) = <<>>)
  <1>1. PICK op, C, base : op = JoinStep(A) /\ C = Seq(A) /\ base = <<>>
    OBVIOUS
  <1>2. op \in [C \X Seq(A) -> C] /\ base \in C
    BY <1>1 DEF JoinStep
  <1>3. WellFolded(op, base, C, s)
    BY <1>2, StepsTyped
  <1>4. QED
    BY <1>1, <1>3, JoinedIsSteps DEF WellFolded

LEMMA NoneJoined ==
    Joined(<<>>) = <<>>
  <1>1. PICK e : e = <<>>
    OBVIOUS
  <1>2. e \in Seq(Seq({}))
    BY <1>1
  <1>3. QED
    BY <1>1, <1>2, JoinedTyped

(* One more is put behind the others.                                       *)
LEMMA JoinedUnfolds ==
    ASSUME NEW A, NEW s \in Seq(Seq(A)), NEW x \in Seq(A)
    PROVE  /\ Joined(<<>>) = <<>>
           /\ Joined(s) \in Seq(A)
           /\ Joined(Append(s, x)) = Joined(s) \o x
  <1>1. PICK op : op = JoinStep(A)
    OBVIOUS
  <1>2. op \in [Seq(A) \X Seq(A) -> Seq(A)] /\ <<>> \in Seq(A)
    BY <1>1 DEF JoinStep
  <1>3. \A a \in Seq(A), b \in Seq(A) : op[<<a, b>>] = a \o b
    BY <1>1 DEF JoinStep
  <1>4. PICK e, t : e = <<>> /\ t = Append(s, x)
    OBVIOUS
  <1>5. e \in Seq(Seq(A)) /\ t \in Seq(Seq(A))
    BY <1>4
  <1>6. /\ Joined(e) = StepsOf(op, <<>>, Seq(A), e)
        /\ Joined(s) = StepsOf(op, <<>>, Seq(A), s)
        /\ Joined(t) = StepsOf(op, <<>>, Seq(A), t)
    BY <1>1, <1>5, JoinedIsSteps
  <1>7. /\ StepsOf(op, <<>>, Seq(A), <<>>) = <<>>
        /\ StepsOf(op, <<>>, Seq(A), s) \in Seq(A)
        /\ StepsOf(op, <<>>, Seq(A), Append(s, x)) = op[<<StepsOf(op, <<>>, Seq(A), s), x>>]
    <2>1. PICK C, base : C = Seq(A) /\ base = <<>>
      OBVIOUS
    <2>2. op \in [C \X Seq(A) -> C] /\ base \in C /\ s \in Seq(Seq(A)) /\ x \in Seq(A)
      BY <1>2, <2>1
    <2>3. StepTaken(op, base, C, s, x)
      BY <2>2, StepsUnfold
    <2>4. QED
      BY <2>1, <2>3 DEF StepTaken
  <1>8. QED
    BY <1>3, <1>4, <1>6, <1>7


(* What is kept of two sequences in a row, of what is kept or dropped as a  *)
(* whole, and that nothing else is kept.                                    *)
LEMMA AmongConcat ==
    ASSUME NEW A, NEW S, NEW s \in Seq(A), NEW t \in Seq(A)
    PROVE  Among(s \o t, S) = Among(s, S) \o Among(t, S)
  <1> DEFINE Good == {u \in Seq(A) : Among(s \o u, S) = Among(s, S) \o Among(u, S)}
  <1>1. <<>> \in Good
    <2>1. Among(s, S) \in Seq(A) /\ <<>> \in Seq(A)
      BY AmongTyped
    <2>2. Among(<<>>, S) = <<>>
      BY NoneAmong
    <2>3. s \o <<>> = s /\ Among(s, S) \o <<>> = Among(s, S)
      BY <2>1, ConcatEmptySeq
    <2>4. QED
      BY <2>1, <2>2, <2>3
  <1>2. ASSUME NEW u \in Seq(A), NEW x \in A, u \in Good PROVE Append(u, x) \in Good
    <2>1. PICK a, b, w : a = Among(s, S) /\ b = Among(u, S) /\ w = s \o u
      OBVIOUS
    <2>2. a \in Seq(A) /\ b \in Seq(A) /\ w \in Seq(A)
      BY <2>1, AmongTyped, ConcatProperties
    <2>3. Among(w, S) = a \o b
      BY <1>2, <2>1
    <2>4. s \o Append(u, x) = Append(w, x)
      BY <2>1
    <2>5. Among(Append(w, x), S) = IF x \in S THEN Append(Among(w, S), x) ELSE Among(w, S)
      BY <2>2, AmongUnfolds
    <2>6. Among(Append(u, x), S) = IF x \in S THEN Append(b, x) ELSE b
      BY <2>1, AmongUnfolds
    <2>7. a \o Append(b, x) = Append(a \o b, x)
      BY <2>2
    <2>8. Among(s \o Append(u, x), S) = a \o Among(Append(u, x), S)
      BY <2>3, <2>4, <2>5, <2>6, <2>7
    <2>9. Append(u, x) \in Seq(A)
      OBVIOUS
    <2>10. QED
      BY <2>1, <2>8, <2>9
  <1> HIDE DEF Good
  <1>3. Seq(A) \subseteq Good
    BY <1>1, <1>2, SequencesStay
  <1>4. QED
    BY <1>3 DEF Good

LEMMA AmongAgrees ==
    ASSUME NEW A, NEW S, NEW R, NEW s \in Seq(A), \A x \in A : x \in S <=> x \in R
    PROVE  Among(s, S) = Among(s, R)
  <1> DEFINE Good == {u \in Seq(A) : Among(u, S) = Among(u, R)}
  <1>1. <<>> \in Good
    BY NoneAmong
  <1>2. ASSUME NEW u \in Seq(A), NEW x \in A, u \in Good PROVE Append(u, x) \in Good
    <2>1. /\ Among(Append(u, x), S) = IF x \in S THEN Append(Among(u, S), x) ELSE Among(u, S)
          /\ Among(Append(u, x), R) = IF x \in R THEN Append(Among(u, R), x) ELSE Among(u, R)
      BY AmongUnfolds
    <2>2. QED
      BY <1>2, <2>1
  <1> HIDE DEF Good
  <1>3. Seq(A) \subseteq Good
    BY <1>1, <1>2, SequencesStay
  <1>4. QED
    BY <1>3 DEF Good

LEMMA AmongAll ==
    ASSUME NEW A, NEW S, NEW s \in Seq(A), A \subseteq S
    PROVE  Among(s, S) = s
  <1> DEFINE Good == {u \in Seq(A) : Among(u, S) = u}
  <1>1. <<>> \in Good
    BY NoneAmong
  <1>2. ASSUME NEW u \in Seq(A), NEW x \in A, u \in Good PROVE Append(u, x) \in Good
    <2>1. Among(Append(u, x), S) = IF x \in S THEN Append(Among(u, S), x) ELSE Among(u, S)
      BY AmongUnfolds
    <2>2. QED
      BY <1>2, <2>1
  <1> HIDE DEF Good
  <1>3. Seq(A) \subseteq Good
    BY <1>1, <1>2, SequencesStay
  <1>4. QED
    BY <1>3 DEF Good

LEMMA AmongNone ==
    ASSUME NEW A, NEW S, NEW s \in Seq(A), A \cap S = {}
    PROVE  Among(s, S) = <<>>
  <1> DEFINE Good == {u \in Seq(A) : Among(u, S) = <<>>}
  <1>1. <<>> \in Good
    BY NoneAmong
  <1>2. ASSUME NEW u \in Seq(A), NEW x \in A, u \in Good PROVE Append(u, x) \in Good
    <2>1. Among(Append(u, x), S) = IF x \in S THEN Append(Among(u, S), x) ELSE Among(u, S)
      BY AmongUnfolds
    <2>2. QED
      BY <1>2, <2>1
  <1> HIDE DEF Good
  <1>3. Seq(A) \subseteq Good
    BY <1>1, <1>2, SequencesStay
  <1>4. QED
    BY <1>3 DEF Good

LEMMA AmongOnly ==
    ASSUME NEW A, NEW S, NEW s \in Seq(A)
    PROVE  Among(s, S) \in Seq(A \cap S)
  <1>1. PICK C : C = Seq(A \cap S)
    OBVIOUS
  <1> DEFINE Good == {u \in Seq(A) : Among(u, S) \in C}
  <1>2. <<>> \in Good
    <2>1. <<>> \in Seq(A) /\ <<>> \in C
      BY <1>1
    <2>2. QED
      BY <2>1, NoneAmong
  <1>3. ASSUME NEW u \in Seq(A), NEW x \in A, u \in Good PROVE Append(u, x) \in Good
    <2>1. Among(Append(u, x), S) = IF x \in S THEN Append(Among(u, S), x) ELSE Among(u, S)
      BY AmongUnfolds
    <2>2. PICK v \in C : v = Among(u, S)
      BY <1>3
    <2>3. x \in S => Append(v, x) \in C
      BY <1>1, <2>2
    <2>4. Append(u, x) \in Seq(A)
      OBVIOUS
    <2>5. QED
      BY <2>1, <2>2, <2>3, <2>4
  <1> HIDE DEF Good
  <1>4. Seq(A) \subseteq Good
    BY <1>2, <1>3, SequencesStay
  <1>5. QED
    BY <1>1, <1>4 DEF Good

(* What the members of a sequence give, in a row.                           *)
Mapped(f, s) == [i \in DOMAIN s |-> f[s[i]]]
JoinedOf(f, s) == Joined(Mapped(f, s))

(* One more gives one more.                                                 *)
LEMMA MappedUnfolds ==
    ASSUME NEW A, NEW B, NEW f \in [A -> B], NEW s \in Seq(A)
    PROVE  /\ Mapped(f, s) \in Seq(B)
           /\ \A x \in A : Mapped(f, Append(s, x)) = Append(Mapped(f, s), f[x])
  <1>1. /\ Len(s) \in Nat /\ DOMAIN s = 1..Len(s) /\ \A i \in DOMAIN s : s[i] \in A
    OBVIOUS
  <1>2. PICK m : m = Mapped(f, s)
    OBVIOUS
  <1>3. DOMAIN m = 1..Len(s) /\ \A i \in 1..Len(s) : m[i] = f[s[i]] /\ f[s[i]] \in B
    BY <1>1, <1>2 DEF Mapped
  <1>4. m \in [1..Len(s) -> B]
    BY <1>1, <1>2, <1>3 DEF Mapped
  <1>5. m \in Seq(B) /\ Len(m) = Len(s)
    BY <1>1, <1>4
  <1>6. ASSUME NEW x \in A
        PROVE  Mapped(f, Append(s, x)) = Append(m, f[x])
    <2>1. PICK t : t = Append(s, x)
      OBVIOUS
    <2>2. /\ t \in Seq(A) /\ Len(t) = Len(s) + 1 /\ DOMAIN t = 1..(Len(s) + 1)
          /\ t[Len(s) + 1] = x /\ \A i \in 1..Len(s) : t[i] = s[i]
      BY <1>1, <2>1
    <2>3. PICK n : n = Mapped(f, t)
      OBVIOUS
    <2>4. n \in [1..(Len(s) + 1) -> B] /\ \A i \in 1..(Len(s) + 1) : n[i] = f[t[i]]
      BY <2>2, <2>3 DEF Mapped
    <2>5. n \in Seq(B) /\ Len(n) = Len(s) + 1
      BY <1>1, <2>4
    <2>6. PICK k : k = Append(m, f[x])
      OBVIOUS
    <2>7. /\ k \in Seq(B) /\ Len(k) = Len(s) + 1 /\ k[Len(s) + 1] = f[x]
          /\ \A i \in 1..Len(s) : k[i] = m[i]
      BY <1>5, <2>6
    <2>8. \A i \in 1..Len(n) : n[i] = k[i]
      <3>1. ASSUME NEW i \in 1..(Len(s) + 1) PROVE n[i] = k[i]
        <4>1. CASE i = Len(s) + 1
          BY <1>1, <2>2, <2>4, <2>7, <4>1
        <4>2. CASE i \in 1..Len(s)
          BY <1>3, <2>2, <2>4, <2>7, <4>2
        <4>3. QED
          BY <1>1, <4>1, <4>2
      <3>2. QED
        BY <2>5, <3>1
    <2>9. n = k
      BY <2>5, <2>7, <2>8, SeqEqual
    <2>10. QED
      BY <2>1, <2>3, <2>6, <2>9
  <1>7. QED
    BY <1>2, <1>5, <1>6

LEMMA NoneMapped ==
    ASSUME NEW f
    PROVE  Mapped(f, <<>>) = <<>> /\ JoinedOf(f, <<>>) = <<>>
  <1>1. Mapped(f, <<>>) = <<>>
    BY DEF Mapped
  <1>2. QED
    BY <1>1, NoneJoined DEF JoinedOf

(* What each of a set gives.                                                *)
Gives(f, A, B) == f \in [A -> Seq(B)]

LEMMA JoinedOfUnfolds ==
    ASSUME NEW A, NEW B, NEW f, Gives(f, A, B), NEW s \in Seq(A)
    PROVE  /\ JoinedOf(f, s) \in Seq(B)
           /\ \A x \in A : JoinedOf(f, Append(s, x)) = JoinedOf(f, s) \o f[x]
  <1>1. PICK m, C : m = Mapped(f, s) /\ C = Seq(B)
    OBVIOUS
  <1>2. m \in Seq(C) /\ \A x \in A : Mapped(f, Append(s, x)) = Append(m, f[x])
    BY <1>1, MappedUnfolds DEF Gives
  <1>3. Joined(m) \in Seq(B)
    BY <1>1, <1>2, JoinedTyped
  <1>4. ASSUME NEW x \in A
        PROVE  JoinedOf(f, Append(s, x)) = Joined(m) \o f[x]
    <2>1. f[x] \in Seq(B)
      BY DEF Gives
    <2>2. Joined(Append(m, f[x])) = Joined(m) \o f[x]
      BY <1>1, <1>2, <2>1, JoinedUnfolds
    <2>3. QED
      BY <1>2, <2>2 DEF JoinedOf
  <1>5. QED
    BY <1>1, <1>3, <1>4 DEF JoinedOf

(* What two sequences in a row give is what each gives, in a row.           *)
LEMMA JoinedOfConcat ==
    ASSUME NEW A, NEW B, NEW f, Gives(f, A, B), NEW s \in Seq(A), NEW t \in Seq(A)
    PROVE  JoinedOf(f, s \o t) = JoinedOf(f, s) \o JoinedOf(f, t)
  <1> DEFINE Good == {u \in Seq(A) : JoinedOf(f, s \o u) = JoinedOf(f, s) \o JoinedOf(f, u)}
  <1>1. <<>> \in Good
    <2>1. JoinedOf(f, s) \in Seq(B) /\ <<>> \in Seq(A)
      BY JoinedOfUnfolds
    <2>2. s \o <<>> = s /\ JoinedOf(f, s) \o <<>> = JoinedOf(f, s)
      BY <2>1, ConcatEmptySeq
    <2>3. QED
      BY <2>1, <2>2, NoneMapped
  <1>2. ASSUME NEW u \in Seq(A), NEW x \in A, u \in Good PROVE Append(u, x) \in Good
    <2>1. PICK a, b, w, c : a = JoinedOf(f, s) /\ b = JoinedOf(f, u) /\ w = s \o u /\ c = f[x]
      OBVIOUS
    <2>2. a \in Seq(B) /\ b \in Seq(B) /\ w \in Seq(A) /\ c \in Seq(B)
      BY <2>1, JoinedOfUnfolds, ConcatProperties DEF Gives
    <2>3. JoinedOf(f, w) = a \o b
      BY <1>2, <2>1
    <2>4. s \o Append(u, x) = Append(w, x)
      BY <2>1
    <2>5. JoinedOf(f, Append(w, x)) = JoinedOf(f, w) \o f[x]
      BY <2>2, JoinedOfUnfolds
    <2>6. JoinedOf(f, Append(u, x)) = JoinedOf(f, u) \o f[x]
      BY JoinedOfUnfolds
    <2>7. a \o (b \o c) = (a \o b) \o c
      BY <2>2, ConcatAssociative
    <2>8. JoinedOf(f, s \o Append(u, x)) = a \o JoinedOf(f, Append(u, x))
      BY <2>1, <2>3, <2>4, <2>5, <2>6, <2>7
    <2>9. Append(u, x) \in Seq(A)
      OBVIOUS
    <2>10. QED
      BY <2>1, <2>8, <2>9
  <1> HIDE DEF Good
  <1>3. Seq(A) \subseteq Good
    BY <1>1, <1>2, SequencesStay
  <1>4. QED
    BY <1>3 DEF Good

(* What is kept gives what it gives, and the rest nothing.                  *)
Within(f, A, S) == [x \in A |-> IF x \in S THEN f[x] ELSE <<>>]

LEMMA JoinedOfAmong ==
    ASSUME NEW A, NEW B, NEW f, Gives(f, A, B), NEW S, NEW s \in Seq(A)
    PROVE  JoinedOf(f, Among(s, S)) = JoinedOf(Within(f, A, S), s)
  <1> DEFINE Good == {u \in Seq(A) : JoinedOf(f, Among(u, S)) = JoinedOf(Within(f, A, S), u)}
  <1>1. <<>> \in Good
    BY NoneMapped, NoneAmong
  <1>2. PICK g : g = Within(f, A, S)
    OBVIOUS
  <1>3. \A x \in A : f[x] \in Seq(B) /\ g[x] = IF x \in S THEN f[x] ELSE <<>>
    BY <1>2 DEF Within, Gives
  <1>4. Gives(g, A, B)
    <2>1. \A x \in A : (IF x \in S THEN f[x] ELSE <<>>) \in Seq(B)
      BY <1>3
    <2>2. QED
      BY <1>2, <2>1 DEF Within, Gives
  <1>5. ASSUME NEW u \in Seq(A), NEW x \in A, u \in Good PROVE Append(u, x) \in Good
    <2>1. PICK v : v = Among(u, S)
      OBVIOUS
    <2>2. v \in Seq(A) /\ JoinedOf(f, v) = JoinedOf(g, u) /\ JoinedOf(g, u) \in Seq(B)
      BY <1>2, <1>4, <1>5, <2>1, AmongTyped, JoinedOfUnfolds
    <2>3. Among(Append(u, x), S) = IF x \in S THEN Append(v, x) ELSE v
      BY <2>1, AmongUnfolds
    <2>4. JoinedOf(g, Append(u, x)) = JoinedOf(g, u) \o g[x]
      BY <1>4, JoinedOfUnfolds
    <2>5. JoinedOf(f, Append(v, x)) = JoinedOf(f, v) \o f[x]
      BY <2>2, JoinedOfUnfolds
    <2>6. JoinedOf(g, u) \o <<>> = JoinedOf(g, u)
      BY <2>2, ConcatEmptySeq
    <2>7. JoinedOf(f, Among(Append(u, x), S)) = JoinedOf(g, Append(u, x))
      BY <1>3, <2>2, <2>3, <2>4, <2>5, <2>6
    <2>8. Append(u, x) \in Seq(A)
      OBVIOUS
    <2>9. QED
      BY <1>2, <2>7, <2>8
  <1> HIDE DEF Good
  <1>6. Seq(A) \subseteq Good
    BY <1>1, <1>5, SequencesStay
  <1>7. QED
    BY <1>6 DEF Good

(* One by one.                                                              *)
LEMMA JoinedOfSingles ==
    ASSUME NEW A, NEW B, NEW f \in [A -> B], NEW s \in Seq(A)
    PROVE  JoinedOf([x \in A |-> <<f[x]>>], s) = Mapped(f, s)
  <1>1. PICK g : g = [x \in A |-> <<f[x]>>]
    OBVIOUS
  <1>2. Gives(g, A, B) /\ \A x \in A : g[x] = <<f[x]>>
    BY <1>1 DEF Gives
  <1> DEFINE Good == {u \in Seq(A) : JoinedOf(g, u) = Mapped(f, u)}
  <1>3. <<>> \in Good
    BY NoneMapped
  <1>4. ASSUME NEW u \in Seq(A), NEW x \in A, u \in Good PROVE Append(u, x) \in Good
    <2>1. PICK m \in Seq(B) : m = Mapped(f, u)
      BY MappedUnfolds
    <2>2. Mapped(f, Append(u, x)) = Append(m, f[x])
      BY <2>1, MappedUnfolds
    <2>3. JoinedOf(g, Append(u, x)) = JoinedOf(g, u) \o g[x]
      BY <1>2, JoinedOfUnfolds
    <2>4. JoinedOf(g, u) = m
      BY <1>4, <2>1
    <2>5. f[x] \in B
      OBVIOUS
    <2>6. m \o <<f[x]>> = Append(m, f[x])
      BY <2>1, <2>5, AppendIsConcat
    <2>7. Append(u, x) \in Seq(A)
      OBVIOUS
    <2>8. QED
      BY <1>2, <2>2, <2>3, <2>4, <2>6, <2>7
  <1> HIDE DEF Good
  <1>5. Seq(A) \subseteq Good
    BY <1>3, <1>4, SequencesStay
  <1>6. QED
    BY <1>1, <1>5 DEF Good

LEMMA MappedSelf ==
    ASSUME NEW A, NEW f, \A x \in A : f[x] = x, NEW s \in Seq(A)
    PROVE  Mapped(f, s) = s
  <1>1. /\ Len(s) \in Nat /\ DOMAIN s = 1..Len(s) /\ \A i \in DOMAIN s : s[i] \in A
    OBVIOUS
  <1>2. s = [i \in 1..Len(s) |-> s[i]]
    BY <1>1
  <1>3. [i \in 1..Len(s) |-> f[s[i]]] = [i \in 1..Len(s) |-> s[i]]
    BY <1>1
  <1>4. QED
    BY <1>1, <1>2, <1>3 DEF Mapped

-----------------------------------------------------------------------------
(* Conversations in the protocols of the providers. *)

PartKinds == {"text", "image", "call", "result", "thought", "system", "user", "assistant", "other"}
Parts == [kind : PartKinds, n : Nat]
OfKinds(kinds) == {p \in Parts : p.kind \in kinds}
Roles == {"user", "assistant", "tool", "system"}
Messages == [role : Roles, parts : Seq(Parts), calls : Seq(Parts)]
Turns == [role : {"user", "assistant"}, parts : Seq(Parts)]

LEMMA SomeOfParts ==
    ASSUME NEW kinds, NEW s \in Seq(OfKinds(kinds))
    PROVE  s \in Seq(Parts)
  <1>1. OfKinds(kinds) \subseteq Parts
    BY DEF OfKinds
  <1>2. QED
    BY <1>1, SeqMonotonic

(* The parts of some kinds, as what Among keeps of a set that is the same   *)
(* for every sequence.                                                      *)
LEMMA OnlyIsAmong ==
    ASSUME NEW kinds, NEW s \in Seq(Parts)
    PROVE  Only(s, kinds) = Among(s, OfKinds(kinds))
  <1>1. PICK A, S, R : A = Range(s) /\ S = {p \in Range(s) : p.kind \in kinds} /\ R = OfKinds(kinds)
    OBVIOUS
  <1>2. s \in Seq(A) /\ A \subseteq Parts
    BY <1>1, SeqOfRange, RangeOfSeq
  <1>3. \A x \in A : x \in S <=> x \in R
    BY <1>1, <1>2 DEF OfKinds
  <1>4. Among(s, S) = Among(s, R)
    BY <1>2, <1>3, AmongAgrees
  <1>5. QED
    BY <1>1, <1>4 DEF Only

LEMMA OnlyTyped ==
    ASSUME NEW kinds, NEW s \in Seq(Parts)
    PROVE  Only(s, kinds) \in Seq(OfKinds(kinds)) /\ Only(s, kinds) \in Seq(Parts)
  <1>1. PICK R : R = OfKinds(kinds)
    OBVIOUS
  <1>2. Parts \cap R = R
    BY <1>1 DEF OfKinds
  <1>3. Among(s, R) \in Seq(Parts \cap R)
    BY AmongOnly
  <1>4. QED
    BY <1>1, <1>2, <1>3, OnlyIsAmong, SomeOfParts

LEMMA OnlyConcat ==
    ASSUME NEW kinds, NEW s \in Seq(Parts), NEW t \in Seq(Parts)
    PROVE  Only(s \o t, kinds) = Only(s, kinds) \o Only(t, kinds)
  <1>1. s \o t \in Seq(Parts)
    BY ConcatProperties
  <1>2. Among(s \o t, OfKinds(kinds)) = Among(s, OfKinds(kinds)) \o Among(t, OfKinds(kinds))
    BY AmongConcat
  <1>3. QED
    BY <1>1, <1>2, OnlyIsAmong

LEMMA OnlyAll ==
    ASSUME NEW kinds, NEW given, given \subseteq kinds, NEW s \in Seq(OfKinds(given))
    PROVE  Only(s, kinds) = s
  <1>1. OfKinds(given) \subseteq OfKinds(kinds)
    BY DEF OfKinds
  <1>2. Among(s, OfKinds(kinds)) = s
    BY <1>1, AmongAll
  <1>3. QED
    BY <1>2, OnlyIsAmong, SomeOfParts

LEMMA OnlyNone ==
    ASSUME NEW kinds, NEW given, given \cap kinds = {}, NEW s \in Seq(OfKinds(given))
    PROVE  Only(s, kinds) = <<>>
  <1>1. OfKinds(given) \cap OfKinds(kinds) = {}
    BY DEF OfKinds
  <1>2. Among(s, OfKinds(kinds)) = <<>>
    BY <1>1, AmongNone
  <1>3. QED
    BY <1>2, OnlyIsAmong, SomeOfParts

LEMMA OnlyAgrees ==
    ASSUME NEW kinds, NEW others, NEW given,
           \A k \in given : k \in kinds <=> k \in others,
           NEW s \in Seq(OfKinds(given))
    PROVE  Only(s, kinds) = Only(s, others)
  <1>1. \A p \in OfKinds(given) : p \in OfKinds(kinds) <=> p \in OfKinds(others)
    BY DEF OfKinds
  <1>2. Among(s, OfKinds(kinds)) = Among(s, OfKinds(others))
    BY <1>1, AmongAgrees
  <1>3. QED
    BY <1>2, OnlyIsAmong, SomeOfParts

(* The functions of Translate, as what each message gives.                  *)
toOpenAI == [m \in Turns |-> ToOpenAI(m)]
flatOf == [m \in Messages |-> m.parts \o m.calls]
toolOf == [p \in Parts |-> ToolMessage(p)]
carriedOf == [m \in Turns |->
    IF m.role = "user" THEN ResultsFirst(m.parts) ELSE Only(m.parts, {"text", "call"})]

LEMMA ToolMessagesTyped ==
    ASSUME NEW s \in Seq(Parts)
    PROVE  /\ Each(s, ToolMessage) = Mapped(toolOf, s)
           /\ Each(s, ToolMessage) \in Seq(Messages)
  <1>1. toolOf \in [Parts -> Messages]
    <2>1. ASSUME NEW p \in Parts PROVE ToolMessage(p) \in Messages
      <3>1. <<p>> \in Seq(Parts) /\ <<>> \in Seq(Parts)
        OBVIOUS
      <3>2. QED
        BY <3>1 DEF ToolMessage, Message, Messages, Roles
    <2>2. QED
      BY <2>1 DEF toolOf
  <1>2. \A i \in DOMAIN s : s[i] \in Parts
    OBVIOUS
  <1>3. Each(s, ToolMessage) = Mapped(toolOf, s)
    BY <1>2 DEF Each, Mapped, toolOf
  <1>4. QED
    BY <1>1, <1>3, MappedUnfolds

(* A turn becomes messages, see ToOpenAI.                                   *)
LEMMA ToOpenAITyped ==
    ASSUME NEW m \in Turns
    PROVE  ToOpenAI(m) \in Seq(Messages)
  <1>1. m.parts \in Seq(Parts) /\ m.role \in Roles
    BY DEF Turns, Roles
  <1>2. PICK said, calls, results : /\ said = Only(m.parts, {"text", "image"})
                                   /\ calls = Only(m.parts, {"call"})
                                   /\ results = Only(m.parts, {"result"})
    OBVIOUS
  <1>3. said \in Seq(Parts) /\ calls \in Seq(Parts) /\ results \in Seq(Parts) /\ <<>> \in Seq(Parts)
    BY <1>1, <1>2, OnlyTyped
  <1>4. PICK a, b : a = Message("assistant", said, calls) /\ b = Message(m.role, said, <<>>)
    OBVIOUS
  <1>5. a \in Messages /\ b \in Messages
    BY <1>1, <1>3, <1>4 DEF Message, Messages, Roles
  <1>6. PICK first : first = IF m.role = "assistant" /\ calls # <<>> THEN <<a>> ELSE Unless(said = <<>>, <<b>>)
    OBVIOUS
  <1>7. first \in Seq(Messages)
    BY <1>5, <1>6 DEF Unless
  <1>8. PICK rest : rest = Each(results, ToolMessage)
    OBVIOUS
  <1>9. rest \in Seq(Messages)
    BY <1>3, <1>8, ToolMessagesTyped
  <1>10. ToOpenAI(m) = first \o rest
    BY <1>2, <1>4, <1>6, <1>8 DEF ToOpenAI
  <1>11. QED
    BY <1>7, <1>9, <1>10, ConcatProperties

LEMMA WhatTheyGive ==
    /\ Gives(toOpenAI, Turns, Messages)
    /\ Gives(flatOf, Messages, Parts)
    /\ Gives(carriedOf, Turns, Parts)
  <1>1. Gives(toOpenAI, Turns, Messages)
    BY ToOpenAITyped DEF toOpenAI, Gives
  <1>2. Gives(flatOf, Messages, Parts)
    <2>1. ASSUME NEW m \in Messages PROVE m.parts \o m.calls \in Seq(Parts)
      <3>1. m.parts \in Seq(Parts) /\ m.calls \in Seq(Parts)
        BY DEF Messages
      <3>2. QED
        BY <3>1, ConcatProperties
    <2>2. QED
      BY <2>1 DEF flatOf, Gives
  <1>3. Gives(carriedOf, Turns, Parts)
    <2>1. ASSUME NEW m \in Turns
          PROVE  (IF m.role = "user" THEN ResultsFirst(m.parts)
                  ELSE Only(m.parts, {"text", "call"})) \in Seq(Parts)
      <3>1. m.parts \in Seq(Parts)
        BY DEF Turns
      <3>2. PICK a, b : a = Only(m.parts, {"text", "image"}) /\ b = Only(m.parts, {"result"})
        OBVIOUS
      <3>3. a \in Seq(Parts) /\ b \in Seq(Parts) /\ Only(m.parts, {"text", "call"}) \in Seq(Parts)
        BY <3>1, <3>2, OnlyTyped
      <3>4. a \o b \in Seq(Parts)
        BY <3>3, ConcatProperties
      <3>5. QED
        BY <3>2, <3>3, <3>4 DEF ResultsFirst
    <2>2. QED
      BY <2>1 DEF carriedOf, Gives
  <1>4. QED
    BY <1>1, <1>2, <1>3

LEMMA FunctionsOfTranslate ==
    /\ \A s \in Seq(Turns) : /\ AnthropicToOpenAI(s) = JoinedOf(toOpenAI, s)
                             /\ Carried(s) = JoinedOf(carriedOf, s)
    /\ \A s \in Seq(Messages) : Flat(s) = JoinedOf(flatOf, s)
  <1>1. ASSUME NEW s \in Seq(Turns)
        PROVE  /\ AnthropicToOpenAI(s) = JoinedOf(toOpenAI, s)
               /\ Carried(s) = JoinedOf(carriedOf, s)
    <2>1. \A i \in DOMAIN s : s[i] \in Turns
      OBVIOUS
    <2>2. Mapped(toOpenAI, s) = [i \in DOMAIN s |-> ToOpenAI(s[i])]
      BY <2>1 DEF Mapped, toOpenAI
    <2>3. Mapped(carriedOf, s) = [i \in DOMAIN s |->
             IF s[i].role = "user" THEN ResultsFirst(s[i].parts)
             ELSE Only(s[i].parts, {"text", "call"})]
      BY <2>1 DEF Mapped, carriedOf
    <2>4. QED
      BY <2>2, <2>3 DEF AnthropicToOpenAI, Carried, Each, JoinedOf
  <1>2. ASSUME NEW s \in Seq(Messages)
        PROVE  Flat(s) = JoinedOf(flatOf, s)
    <2>1. \A i \in DOMAIN s : s[i] \in Messages
      OBVIOUS
    <2>2. Mapped(flatOf, s) = [i \in DOMAIN s |-> s[i].parts \o s[i].calls]
      BY <2>1 DEF Mapped, flatOf
    <2>3. QED
      BY <2>2 DEF Flat, Each, JoinedOf
  <1>3. QED
    BY <1>1, <1>2

(* One message, or none, and what it gives.                                 *)
LEMMA OneGives ==
    ASSUME NEW A, NEW B, NEW f, Gives(f, A, B), NEW x \in A
    PROVE  JoinedOf(f, <<x>>) = f[x]
  <1>1. PICK e : e = <<>>
    OBVIOUS
  <1>2. e \in Seq(A) /\ Append(e, x) = <<x>>
    BY <1>1
  <1>3. JoinedOf(f, Append(e, x)) = JoinedOf(f, e) \o f[x]
    <2>1. \A y \in A : JoinedOf(f, Append(e, y)) = JoinedOf(f, e) \o f[y]
      BY <1>2, JoinedOfUnfolds
    <2>2. QED
      BY <2>1
  <1>4. JoinedOf(f, e) = <<>> /\ f[x] \in Seq(B)
    BY <1>1, NoneMapped DEF Gives
  <1>5. QED
    BY <1>2, <1>3, <1>4, ConcatEmptySeq

(* Results alone, one message each.                                         *)
LEMMA ResultsGive ==
    ASSUME NEW s \in Seq(Parts)
    PROVE  JoinedOf(flatOf, Each(s, ToolMessage)) = s
  <1>1. PICK self : self = [p \in Parts |-> p]
    OBVIOUS
  <1>2. self \in [Parts -> Parts] /\ \A p \in Parts : self[p] = p
    BY <1>1
  <1>3. \A i \in DOMAIN s : s[i] \in Parts
    OBVIOUS
  <1>4. ASSUME NEW p \in Parts
        PROVE  flatOf[toolOf[p]] = <<self[p]>>
    <2>1. <<p>> \in Seq(Parts) /\ <<>> \in Seq(Parts)
      OBVIOUS
    <2>2. PICK m : m = ToolMessage(p)
      OBVIOUS
    <2>3. m \in Messages /\ m.parts = <<p>> /\ m.calls = <<>>
      BY <2>1, <2>2 DEF ToolMessage, Message, Messages, Roles
    <2>4. <<p>> \o <<>> = <<p>>
      BY <2>1, ConcatEmptySeq
    <2>5. QED
      BY <1>2, <2>2, <2>3, <2>4 DEF flatOf, toolOf
  <1>5. Mapped(flatOf, Mapped(toolOf, s)) = Mapped([p \in Parts |-> <<self[p]>>], s)
    BY <1>3, <1>4 DEF Mapped
  <1>6. JoinedOf([p \in Parts |-> <<self[p]>>], s) = Mapped(self, s)
    BY <1>2, JoinedOfSingles
  <1>7. Mapped(self, s) = s
    BY <1>2, MappedSelf
  <1>8. QED
    BY <1>5, <1>6, <1>7, ToolMessagesTyped DEF JoinedOf

(* A turn of the user.                                                      *)
LEMMA UserCarried ==
    ASSUME NEW m \in Turns, m.role = "user"
    PROVE  JoinedOf(flatOf, ToOpenAI(m)) = carriedOf[m]
  <1>1. m.parts \in Seq(Parts)
    BY DEF Turns
  <1>2. PICK said, results : said = Only(m.parts, {"text", "image"}) /\ results = Only(m.parts, {"result"})
    OBVIOUS
  <1>3. said \in Seq(Parts) /\ results \in Seq(Parts) /\ <<>> \in Seq(Parts)
    BY <1>1, <1>2, OnlyTyped
  <1>4. PICK b, first, rest : /\ b = Message("user", said, <<>>)
                              /\ first = Unless(said = <<>>, <<b>>)
                              /\ rest = Each(results, ToolMessage)
    OBVIOUS
  <1>5. b \in Messages /\ b.parts = said /\ b.calls = <<>>
    BY <1>3, <1>4 DEF Message, Messages, Roles
  <1>6. first \in Seq(Messages) /\ rest \in Seq(Messages)
    BY <1>3, <1>4, <1>5, ToolMessagesTyped DEF Unless
  <1>7. JoinedOf(flatOf, first) = said
    <2>1. CASE said = <<>>
      BY <1>4, <2>1, NoneMapped DEF Unless
    <2>2. CASE said # <<>>
      <3>1. JoinedOf(flatOf, <<b>>) = flatOf[b]
        BY <1>5, OneGives, WhatTheyGive
      <3>2. flatOf[b] = said \o <<>>
        BY <1>5 DEF flatOf
      <3>3. said \o <<>> = said
        BY <1>3, ConcatEmptySeq
      <3>4. QED
        BY <1>4, <2>2, <3>1, <3>2, <3>3 DEF Unless
    <2>3. QED
      BY <2>1, <2>2
  <1>8. JoinedOf(flatOf, rest) = results
    BY <1>3, <1>4, ResultsGive
  <1>9. JoinedOf(flatOf, first \o rest) = said \o results
    <2>1. Gives(flatOf, Messages, Parts)
      BY WhatTheyGive
    <2>2. JoinedOf(flatOf, first \o rest) = JoinedOf(flatOf, first) \o JoinedOf(flatOf, rest)
      BY <1>6, <2>1, JoinedOfConcat
    <2>3. QED
      BY <1>7, <1>8, <2>2
  <1>10. ToOpenAI(m) = first \o rest
    BY <1>2, <1>4 DEF ToOpenAI
  <1>11. carriedOf[m] = said \o results
    BY <1>2 DEF carriedOf, ResultsFirst
  <1>12. QED
    BY <1>9, <1>10, <1>11

(* A turn of the assistant, who calls last.                                 *)
CallsLast(m) ==
    \E before \in Seq(OfKinds({"text", "thought"})), calls \in Seq(OfKinds({"call"})) :
       m.parts = before \o calls

(* A turn of the assistant becomes one message, with its calls.             *)
LEMMA AssistantTold ==
    ASSUME NEW m \in Turns, m.role = "assistant", CallsLast(m)
    PROVE  /\ ToOpenAI(m) = LET said == Only(m.parts, {"text", "image"})
                                calls == Only(m.parts, {"call"})
                            IN  IF calls # <<>> THEN <<Message("assistant", said, calls)>>
                                ELSE Unless(said = <<>>, <<Message("assistant", said, <<>>)>>)
           /\ Only(m.parts, {"result"}) = <<>>
           /\ Only(m.parts, {"text", "call"}) =
                 Only(m.parts, {"text", "image"}) \o Only(m.parts, {"call"})
  <1>1. PICK before \in Seq(OfKinds({"text", "thought"})), calls \in Seq(OfKinds({"call"})) :
           m.parts = before \o calls
    BY DEF CallsLast
  <1>2. before \in Seq(Parts) /\ calls \in Seq(Parts) /\ m.parts \in Seq(Parts)
    BY SomeOfParts DEF Turns
  <1>3. Only(before, {"result"}) = <<>> /\ Only(calls, {"result"}) = <<>>
    BY OnlyNone
  <1>4. Only(calls, {"text", "image"}) = <<>> /\ Only(before, {"call"}) = <<>>
    BY OnlyNone
  <1>5. Only(calls, {"call"}) = calls /\ Only(calls, {"text", "call"}) = calls
    BY OnlyAll
  <1>6. Only(before, {"text", "call"}) = Only(before, {"text", "image"})
    BY OnlyAgrees
  <1>7. PICK a : a = Only(before, {"text", "image"})
    OBVIOUS
  <1>8. a \in Seq(Parts) /\ <<>> \in Seq(Parts)
    BY <1>2, <1>7, OnlyTyped
  <1>9. a \o <<>> = a /\ <<>> \o calls = calls /\ <<>> \o <<>> = <<>>
    BY <1>2, <1>8, ConcatEmptySeq
  <1>10. Only(m.parts, {"result"}) = <<>>
    BY <1>1, <1>2, <1>3, <1>9, OnlyConcat
  <1>11. Only(m.parts, {"text", "image"}) = a
    BY <1>1, <1>2, <1>4, <1>7, <1>9, OnlyConcat
  <1>12. Only(m.parts, {"call"}) = calls
    BY <1>1, <1>2, <1>4, <1>5, <1>9, OnlyConcat
  <1>13. Only(m.parts, {"text", "call"}) = a \o calls
    <2>1. Only(before \o calls, {"text", "call"}) =
             Only(before, {"text", "call"}) \o Only(calls, {"text", "call"})
      BY <1>2, OnlyConcat
    <2>2. QED
      BY <1>1, <1>5, <1>6, <1>7, <2>1
  <1>14. Each(<<>>, ToolMessage) = <<>>
    BY DEF Each
  <1>15. PICK first : first = IF calls # <<>> THEN <<Message("assistant", a, calls)>>
                              ELSE Unless(a = <<>>, <<Message("assistant", a, <<>>)>>)
    OBVIOUS
  <1>16. first \in Seq(Messages)
    <2>1. /\ Message("assistant", a, calls) \in Messages
          /\ Message("assistant", a, <<>>) \in Messages
      BY <1>2, <1>8 DEF Message, Messages, Roles
    <2>2. QED
      BY <1>15, <2>1 DEF Unless
  <1>17. ToOpenAI(m) = first \o <<>>
    BY <1>10, <1>11, <1>12, <1>14, <1>15 DEF ToOpenAI
  <1>18. ToOpenAI(m) = first
    BY <1>16, <1>17, ConcatEmptySeq
  <1>19. QED
    BY <1>10, <1>11, <1>12, <1>13, <1>15, <1>18

(* Of it arrives what is said and called, not what is thought.              *)
LEMMA AssistantCarried ==
    ASSUME NEW m \in Turns, m.role = "assistant", CallsLast(m)
    PROVE  JoinedOf(flatOf, ToOpenAI(m)) = carriedOf[m]
  <1>1. PICK said, calls : said = Only(m.parts, {"text", "image"}) /\ calls = Only(m.parts, {"call"})
    OBVIOUS
  <1>2. m.parts \in Seq(Parts)
    BY DEF Turns
  <1>3. said \in Seq(Parts) /\ calls \in Seq(Parts) /\ <<>> \in Seq(Parts)
    BY <1>1, <1>2, OnlyTyped
  <1>4. PICK b, c : b = Message("assistant", said, <<>>) /\ c = Message("assistant", said, calls)
    OBVIOUS
  <1>5. ToOpenAI(m) = IF calls # <<>> THEN <<c>> ELSE Unless(said = <<>>, <<b>>)
    BY <1>1, <1>4, AssistantTold
  <1>6. carriedOf[m] = said \o calls
    BY <1>1, AssistantTold DEF carriedOf
  <1>7. /\ b \in Messages /\ b.parts = said /\ b.calls = <<>>
        /\ c \in Messages /\ c.parts = said /\ c.calls = calls
    BY <1>3, <1>4 DEF Message, Messages, Roles
  <1>8. flatOf[b] = said \o <<>> /\ flatOf[c] = said \o calls
    BY <1>7 DEF flatOf
  <1>9. JoinedOf(flatOf, <<b>>) = flatOf[b] /\ JoinedOf(flatOf, <<c>>) = flatOf[c]
    BY <1>7, OneGives, WhatTheyGive
  <1>10. JoinedOf(flatOf, <<>>) = <<>> /\ <<>> \o <<>> = <<>>
    BY <1>3, NoneMapped, ConcatEmptySeq
  <1>11. QED
    BY <1>5, <1>6, <1>8, <1>9, <1>10 DEF Unless

(* A tool message follows its call, see TalkArrives.                        *)
Follows(messages, turns, i) ==
    messages[i].role = "tool" =>
       /\ \E j \in 1 .. i - 1 : Part("call", messages[i].parts[1].n) \in Range(messages[j].calls)
       /\ Between(messages, i) \subseteq {"tool", "user"}
       /\ "user" \in Between(messages, i) =>
             \E k \in DOMAIN turns : /\ messages[i].parts[1] \in Range(turns[k].parts)
                                     /\ Only(turns[k].parts, {"text", "image"}) # <<>>

(* What the last turn asks for, and that it is the last that is said.       *)
AskedIn(turns) == IF turns = <<>> THEN <<>> ELSE Only(Last(turns).parts, {"call"})
AsksLast(messages, asked) ==
    asked # <<>> => messages # <<>> /\ messages[Len(messages)].calls = asked

(* It still does when messages and a turn are added.                        *)
LEMMA FollowsStill ==
    ASSUME NEW M \in Seq(Messages), NEW N \in Seq(Messages), NEW turns \in Seq(Turns),
           NEW m \in Turns, NEW i \in DOMAIN M, Follows(M, turns, i)
    PROVE  Follows(M \o N, Append(turns, m), i)
  <1>1. PICK P, T : P = M \o N /\ T = Append(turns, m)
    OBVIOUS
  <1>2. i \in Nat /\ i <= Len(M) /\ Len(M) \in Nat
    OBVIOUS
  <1>3. \A k \in 1..i : P[k] = M[k]
    <2>1. \A k \in 1..Len(M) : P[k] = M[k]
      BY <1>1, ConcatProperties
    <2>2. QED
      BY <1>2, <2>1
  <1>4. Between(P, i) = Between(M, i)
    <2>1. \A k \in 1 .. i - 1 : \A l \in k .. i - 1 : P[l] = M[l]
      BY <1>2, <1>3
    <2>2. {k \in 1 .. i - 1 : \A l \in k .. i - 1 : P[l].calls = <<>>} =
          {k \in 1 .. i - 1 : \A l \in k .. i - 1 : M[l].calls = <<>>}
      BY <2>1
    <2>3. PICK K : K = {k \in 1 .. i - 1 : \A l \in k .. i - 1 : M[l].calls = <<>>}
      OBVIOUS
    <2>4. \A k \in K : P[k].role = M[k].role
      BY <1>2, <1>3, <2>3
    <2>5. {P[j].role : j \in K} = {M[j].role : j \in K}
      BY <2>4
    <2>6. QED
      BY <2>2, <2>3, <2>5 DEF Between
  <1>5. P[i] = M[i] /\ \A j \in 1 .. i - 1 : P[j] = M[j]
    BY <1>2, <1>3
  <1>6. \A k \in DOMAIN turns : k \in DOMAIN T /\ T[k] = turns[k]
    BY <1>1
  <1>7. Follows(P, T, i)
    BY <1>4, <1>5, <1>6 DEF Follows
  <1>8. QED
    BY <1>1, <1>7

(* The turns of the user: what was asked for is answered, and more is said. *)
AnswersAll(m, asked) ==
    \E says \in Seq(OfKinds({"text", "image"})) : m.parts = Each(asked, AnswerTo) \o says

(* Each call that is asked is answered by one result.                       *)
LEMMA AnswersTyped ==
    ASSUME NEW asked \in Seq(OfKinds({"call"}))
    PROVE  /\ Each(asked, AnswerTo) \in Seq(OfKinds({"result"}))
           /\ Len(Each(asked, AnswerTo)) = Len(asked)
           /\ \A i \in 1..Len(asked) : /\ Each(asked, AnswerTo)[i] = Part("result", asked[i].n)
                                       /\ asked[i] = Part("call", asked[i].n)
  <1>1. /\ Len(asked) \in Nat /\ DOMAIN asked = 1..Len(asked)
        /\ \A i \in 1..Len(asked) : asked[i] \in OfKinds({"call"})
    OBVIOUS
  <1>2. ASSUME NEW p \in OfKinds({"call"})
        PROVE  AnswerTo(p) \in OfKinds({"result"}) /\ p = Part("call", p.n)
    <2>1. p \in Parts /\ p.kind = "call"
      BY DEF OfKinds
    <2>2. p = [kind |-> p.kind, n |-> p.n] /\ p.n \in Nat
      BY <2>1 DEF Parts
    <2>3. PICK q : q = AnswerTo(p)
      OBVIOUS
    <2>4. q = [kind |-> "result", n |-> p.n]
      BY <2>3 DEF AnswerTo, Part
    <2>5. q \in Parts /\ q.kind = "result"
      BY <2>2, <2>4 DEF Parts, PartKinds
    <2>6. QED
      BY <2>1, <2>2, <2>3, <2>5 DEF OfKinds, Part
  <1>3. PICK a : a = Each(asked, AnswerTo)
    OBVIOUS
  <1>4. a = [i \in 1..Len(asked) |-> AnswerTo(asked[i])]
    BY <1>1, <1>3 DEF Each
  <1>5. a \in [1..Len(asked) -> OfKinds({"result"})]
    BY <1>1, <1>2, <1>4
  <1>6. a \in Seq(OfKinds({"result"})) /\ Len(a) = Len(asked)
    BY <1>1, <1>5
  <1>7. \A i \in 1..Len(asked) : a[i] = Part("result", asked[i].n)
    BY <1>4 DEF AnswerTo
  <1>8. QED
    BY <1>1, <1>2, <1>3, <1>6, <1>7

(* Of such a turn the results are the answers, and nothing is called.       *)
LEMMA UserTold ==
    ASSUME NEW m \in Turns, m.role = "user", NEW asked \in Seq(OfKinds({"call"})), AnswersAll(m, asked)
    PROVE  /\ Only(m.parts, {"call"}) = <<>>
           /\ Only(m.parts, {"result"}) = Each(asked, AnswerTo)
           /\ Range(Each(asked, AnswerTo)) \subseteq Range(m.parts)
  <1>1. PICK says \in Seq(OfKinds({"text", "image"})) : m.parts = Each(asked, AnswerTo) \o says
    BY DEF AnswersAll
  <1>2. PICK a : a = Each(asked, AnswerTo)
    OBVIOUS
  <1>3. a \in Seq(OfKinds({"result"}))
    BY <1>2, AnswersTyped
  <1>4. a \in Seq(Parts) /\ says \in Seq(Parts) /\ <<>> \in Seq(Parts)
    BY <1>3, SomeOfParts
  <1>5. Only(a, {"call"}) = <<>> /\ Only(says, {"call"}) = <<>> /\ Only(says, {"result"}) = <<>>
    BY <1>3, OnlyNone
  <1>6. Only(a, {"result"}) = a
    BY <1>3, OnlyAll
  <1>7. a \o <<>> = a /\ <<>> \o <<>> = <<>>
    BY <1>4, ConcatEmptySeq
  <1>8. /\ Only(a \o says, {"call"}) = Only(a, {"call"}) \o Only(says, {"call"})
        /\ Only(a \o says, {"result"}) = Only(a, {"result"}) \o Only(says, {"result"})
    BY <1>4, OnlyConcat
  <1>9. Range(a \o says) = Range(a) \cup Range(says)
    BY <1>4, RangeConcatenation
  <1>10. QED
    BY <1>1, <1>2, <1>5, <1>6, <1>7, <1>8, <1>9

(* Its messages: one at most in which the user speaks, and the results.     *)
LEMMA UserMessages ==
    ASSUME NEW m \in Turns, m.role = "user", NEW asked \in Seq(OfKinds({"call"})), AnswersAll(m, asked)
    PROVE  \E first \in Seq(Messages) :
              /\ ToOpenAI(m) = first \o Each(Each(asked, AnswerTo), ToolMessage)
              /\ \A k \in 1..Len(first) : /\ first[k].role = "user" /\ first[k].calls = <<>>
                                          /\ Only(m.parts, {"text", "image"}) # <<>>
  <1>1. m.parts \in Seq(Parts)
    BY DEF Turns
  <1>2. PICK said, b, first : /\ said = Only(m.parts, {"text", "image"})
                              /\ b = Message("user", said, <<>>)
                              /\ first = Unless(said = <<>>, <<b>>)
    OBVIOUS
  <1>3. said \in Seq(Parts) /\ <<>> \in Seq(Parts)
    BY <1>1, <1>2, OnlyTyped
  <1>4. b \in Messages /\ b.role = "user" /\ b.calls = <<>>
    BY <1>2, <1>3 DEF Message, Messages, Roles
  <1>5. first \in Seq(Messages)
    BY <1>2, <1>4 DEF Unless
  <1>6. \A k \in 1..Len(first) : first[k].role = "user" /\ first[k].calls = <<>> /\ said # <<>>
    <2>1. CASE said = <<>>
      <3>1. first = <<>>
        BY <1>2, <2>1 DEF Unless
      <3>2. QED
        BY <3>1
    <2>2. CASE said # <<>>
      <3>1. first = <<b>>
        BY <1>2, <2>2 DEF Unless
      <3>2. QED
        BY <1>4, <2>2, <3>1
    <2>3. QED
      BY <2>1, <2>2
  <1>7. ToOpenAI(m) = first \o Each(Only(m.parts, {"result"}), ToolMessage)
    BY <1>2 DEF ToOpenAI
  <1>8. Only(m.parts, {"result"}) = Each(asked, AnswerTo)
    BY UserTold
  <1>9. QED
    BY <1>2, <1>5, <1>6, <1>7, <1>8

(* The places of a sequence that is two in a row.                           *)
Rowed(s, t, u) ==
    /\ Len(s) \in Nat /\ Len(t) \in Nat /\ Len(u) = Len(s) + Len(t)
    /\ \A k \in 1..Len(s) : u[k] = s[k]
    /\ \A k \in 1..Len(t) : u[Len(s) + k] = t[k]

(* Which is what concatenation makes.                                       *)
LEMMA ConcatRowed ==
    ASSUME NEW A, NEW s \in Seq(A), NEW t \in Seq(A)
    PROVE  s \o t \in Seq(A) /\ Rowed(s, t, s \o t)
  <1>1. PICK u : u = s \o t
    OBVIOUS
  <1>2. /\ u \in Seq(A) /\ Len(u) = Len(s) + Len(t)
        /\ \A k \in 1..(Len(s) + Len(t)) : u[k] = IF k <= Len(s) THEN s[k] ELSE t[k - Len(s)]
    BY <1>1, ConcatProperties
  <1>3. Len(s) \in Nat /\ Len(t) \in Nat
    OBVIOUS
  <1>4. \A k \in 1..Len(s) : u[k] = s[k]
    BY <1>2, <1>3
  <1>5. ASSUME NEW k \in 1..Len(t)
        PROVE  u[Len(s) + k] = t[k]
    <2>1. PICK l : l = Len(s) + k
      OBVIOUS
    <2>2. l \in 1..(Len(s) + Len(t)) /\ ~(l <= Len(s)) /\ l - Len(s) = k
      BY <1>3, <2>1
    <2>3. u[l] = t[l - Len(s)]
      BY <1>2, <2>2
    <2>4. QED
      BY <2>1, <2>2, <2>3
  <1>6. QED
    BY <1>1, <1>2, <1>3, <1>4, <1>5 DEF Rowed

(* The results that come with a turn follow what asked for them.            *)
LEMMA ResultsFollow ==
    ASSUME NEW M \in Seq(Messages), NEW turns \in Seq(Turns), NEW m \in Turns, m.role = "user",
           NEW asked \in Seq(OfKinds({"call"})), AnswersAll(m, asked), AsksLast(M, asked),
           NEW i \in DOMAIN (M \o ToOpenAI(m)), i > Len(M)
    PROVE  Follows(M \o ToOpenAI(m), Append(turns, m), i)
  <1>1. PICK N, P, T, a, R : /\ N = ToOpenAI(m) /\ P = M \o N /\ T = Append(turns, m)
                             /\ a = Each(asked, AnswerTo) /\ R = Each(a, ToolMessage)
    OBVIOUS
  <1>2. PICK first \in Seq(Messages) :
           /\ N = first \o R
           /\ \A k \in 1..Len(first) : /\ first[k].role = "user" /\ first[k].calls = <<>>
                                       /\ Only(m.parts, {"text", "image"}) # <<>>
    BY <1>1, UserMessages
  <1>3. a \in Seq(Parts) /\ Len(a) = Len(asked)
    BY <1>1, AnswersTyped, SomeOfParts
  <1>4. R \in Seq(Messages) /\ R = Mapped(toolOf, a)
    BY <1>1, <1>3, ToolMessagesTyped
  <1>5. /\ Len(M) \in Nat /\ Len(first) \in Nat /\ Len(asked) \in Nat /\ Len(R) = Len(asked)
        /\ \A k \in 1..Len(asked) : R[k] = ToolMessage(a[k])
    <2>1. /\ Len(a) \in Nat /\ DOMAIN a = 1..Len(a) /\ \A k \in 1..Len(a) : a[k] \in Parts
      BY <1>3
    <2>2. R = [k \in 1..Len(a) |-> ToolMessage(a[k])]
      BY <2>1, <1>4 DEF Mapped, toolOf
    <2>3. Len(R) \in Nat /\ DOMAIN R = 1..Len(R)
      BY <1>4
    <2>4. DOMAIN R = 1..Len(a)
      BY <2>2
    <2>5. Len(R) = Len(a)
      <3>1. PICK x \in Nat, y \in Nat : x = Len(R) /\ y = Len(a) /\ 1..x = 1..y
        BY <2>1, <2>3, <2>4
      <3>2. ~(x < y) /\ ~(y < x)
        <4>1. x < y => y \in 1..y /\ ~(y \in 1..x)
          OBVIOUS
        <4>2. y < x => x \in 1..x /\ ~(x \in 1..y)
          OBVIOUS
        <4>3. QED
          BY <3>1, <4>1, <4>2
      <3>3. QED
        BY <3>1, <3>2
    <2>6. QED
      BY <1>3, <2>1, <2>2, <2>5
  <1>6. /\ N \in Seq(Messages) /\ Len(N) = Len(first) + Len(asked)
        /\ \A k \in 1..Len(first) : N[k] = first[k]
        /\ \A k \in 1..Len(asked) : N[Len(first) + k] = R[k]
    <2>1. N \in Seq(Messages) /\ Rowed(first, R, N)
      BY <1>2, <1>4, ConcatRowed
    <2>2. QED
      BY <1>5, <2>1 DEF Rowed
  <1>7. /\ P \in Seq(Messages) /\ Len(P) = Len(M) + Len(N)
        /\ \A k \in 1..Len(M) : P[k] = M[k]
        /\ \A k \in 1..Len(N) : P[Len(M) + k] = N[k]
    <2>1. P \in Seq(Messages) /\ Rowed(M, N, P)
      BY <1>1, <1>6, ConcatRowed
    <2>2. QED
      BY <2>1 DEF Rowed
  <1>8. i \in Nat /\ i - Len(M) \in 1..Len(N)
    <2>1. DOMAIN P = 1..Len(P) /\ i \in DOMAIN P
      BY <1>1, <1>7
    <2>2. QED
      BY <1>5, <1>6, <1>7, <2>1
  <1>9. \A k \in 1..Len(N) : /\ P[Len(M) + k].calls = <<>>
                             /\ P[Len(M) + k].role \in {"user", "tool"}
                             /\ P[Len(M) + k].role = "user" => k <= Len(first)
    <2>1. ASSUME NEW k \in 1..Len(asked) PROVE R[k].role = "tool" /\ R[k].calls = <<>>
      <3>1. R[k] = ToolMessage(a[k])
        BY <1>5
      <3>2. QED
        BY <3>1 DEF ToolMessage, Message
    <2>2. ASSUME NEW k \in 1..Len(N)
          PROVE  /\ N[k].calls = <<>> /\ N[k].role \in {"user", "tool"}
                 /\ N[k].role = "user" => k <= Len(first)
      <3>1. CASE k <= Len(first)
        <4>1. k \in 1..Len(first)
          BY <1>5, <1>6, <2>2, <3>1
        <4>2. QED
          BY <1>2, <1>6, <3>1, <4>1
      <3>2. CASE k > Len(first)
        <4>1. PICK l \in 1..Len(asked) : k = Len(first) + l
          <5>1. k - Len(first) \in 1..Len(asked) /\ k = Len(first) + (k - Len(first))
            BY <1>5, <1>6, <2>2, <3>2
          <5>2. QED
            BY <5>1
        <4>2. N[k] = R[l]
          BY <1>6, <4>1
        <4>3. QED
          BY <2>1, <4>2
      <3>3. QED
        BY <1>5, <2>2, <3>1, <3>2
    <2>3. QED
      BY <1>7, <2>2
  <1>10. SUFFICES ASSUME P[i].role = "tool" PROVE Follows(P, T, i)
    BY <1>1 DEF Follows
  <1>11. PICK l \in 1..Len(asked) : i = Len(M) + (Len(first) + l)
    <2>1. ~(i - Len(M) <= Len(first))
      <3>1. SUFFICES ASSUME i - Len(M) <= Len(first) PROVE FALSE
        OBVIOUS
      <3>2. PICK k \in 1..Len(first) : i = Len(M) + k
        <4>1. i - Len(M) \in 1..Len(first) /\ i = Len(M) + (i - Len(M))
          BY <1>5, <1>8, <3>1
        <4>2. QED
          BY <4>1
      <3>3. k \in 1..Len(N)
        BY <1>5, <1>6, <3>2
      <3>4. P[i] = first[k]
        BY <1>6, <1>7, <3>2, <3>3
      <3>5. QED
        BY <1>2, <1>10, <3>2, <3>4
    <2>2. /\ i - Len(M) - Len(first) \in 1..Len(asked)
          /\ i = Len(M) + (Len(first) + (i - Len(M) - Len(first)))
      BY <1>5, <1>6, <1>8, <2>1
    <2>3. QED
      BY <2>2
  <1>12. P[i] = ToolMessage(a[l])
    <2>1. Len(first) + l \in 1..Len(N)
      BY <1>5, <1>6, <1>11
    <2>2. QED
      BY <1>5, <1>6, <1>7, <1>11, <2>1
  <1>13. a[l] = Part("result", asked[l].n) /\ asked[l] = Part("call", asked[l].n)
    BY <1>1, <1>11, AnswersTyped
  <1>14. P[i].parts[1] = a[l] /\ a[l].n = asked[l].n
    BY <1>12, <1>13 DEF ToolMessage, Message, Part
  <1>15. asked # <<>>
    BY <1>11
  <1>16. M # <<>> /\ M[Len(M)].calls = asked
    BY <1>15 DEF AsksLast
  <1>17. Len(M) \in 1..(i - 1) /\ P[Len(M)] = M[Len(M)]
    <2>1. Len(M) \in Nat /\ Len(M) # 0
      BY <1>1, <1>16, EmptySeq
    <2>2. PICK x \in Nat, y \in Nat : x = Len(M) /\ y = Len(N)
      BY <1>6, LenProperties, <2>1
    <2>3. x \in 1..x
      BY <2>1, <2>2
    <2>4. x \in 1..(i - 1)
      <3>1. i - x \in 1..y
        BY <1>8, <2>2
      <3>2. QED
        BY <1>8, <2>1, <2>2, <3>1
    <2>5. P[x] = M[x]
      BY <1>7, <2>2, <2>3
    <2>6. QED
      BY <2>2, <2>4, <2>5
  <1>18. Part("call", P[i].parts[1].n) \in Range(P[Len(M)].calls)
    <2>1. DOMAIN asked = 1..Len(asked)
      OBVIOUS
    <2>2. asked[l] \in Range(asked)
      BY <1>11, <2>1 DEF Range
    <2>3. QED
      BY <1>13, <1>14, <1>16, <1>17, <2>2
  <1>19. ASSUME NEW k \in 1..(i - 1), \A x \in k..(i - 1) : P[x].calls = <<>>
         PROVE  \E x \in 1..Len(N) : k = Len(M) + x
    <2>1. ~(k <= Len(M))
      <3>1. SUFFICES ASSUME k <= Len(M) PROVE FALSE
        OBVIOUS
      <3>2. Len(M) \in k..(i - 1)
        BY <1>5, <1>8, <1>17, <1>19, <3>1
      <3>3. QED
        BY <1>15, <1>16, <1>17, <1>19, <3>2
    <2>2. k - Len(M) \in 1..Len(N) /\ k = Len(M) + (k - Len(M))
      BY <1>5, <1>6, <1>8, <1>19, <2>1
    <2>3. QED
      BY <2>2
  <1>20. \A r \in Between(P, i) : \E k \in 1..Len(N) : r = P[Len(M) + k].role
    <2>1. ASSUME NEW r \in Between(P, i)
          PROVE  \E k \in 1..Len(N) : r = P[Len(M) + k].role
      <3>1. PICK j \in 1..(i - 1) : r = P[j].role /\ \A x \in j..(i - 1) : P[x].calls = <<>>
        BY <2>1 DEF Between
      <3>2. PICK k \in 1..Len(N) : j = Len(M) + k
        BY <1>19, <3>1
      <3>3. QED
        BY <3>1, <3>2
    <2>2. QED
      BY <2>1
  <1>21. Between(P, i) \subseteq {"tool", "user"}
    BY <1>9, <1>20
  <1>22. ASSUME "user" \in Between(P, i)
         PROVE  \E k \in DOMAIN T : /\ P[i].parts[1] \in Range(T[k].parts)
                                    /\ Only(T[k].parts, {"text", "image"}) # <<>>
    <2>1. PICK k \in 1..Len(N) : "user" = P[Len(M) + k].role
      BY <1>20, <1>22
    <2>2. k \in 1..Len(first)
      BY <1>5, <1>9, <2>1
    <2>3. Only(m.parts, {"text", "image"}) # <<>>
      BY <1>2, <2>2
    <2>4. PICK t : t = Len(turns) + 1
      OBVIOUS
    <2>5. t \in DOMAIN T /\ T[t] = m
      BY <1>1, <2>4
    <2>6. a[l] \in Range(a)
      <3>1. DOMAIN a = 1..Len(asked)
        BY <1>3
      <3>2. QED
        BY <1>11, <3>1 DEF Range
    <2>7. a[l] \in Range(m.parts)
      BY <1>1, <2>6, UserTold
    <2>8. QED
      BY <1>14, <2>3, <2>5, <2>7
  <1>23. QED
    BY <1>17, <1>18, <1>21, <1>22 DEF Follows

(* What is kept of a conversation as it grows.                              *)
TalkKept(turns) ==
    /\ turns \in Seq(Turns)
    /\ Flat(AnthropicToOpenAI(turns)) = Carried(turns)
    /\ \A i \in DOMAIN AnthropicToOpenAI(turns) : Follows(AnthropicToOpenAI(turns), turns, i)
    /\ AsksLast(AnthropicToOpenAI(turns), AskedIn(turns))

LEMMA AskedTyped ==
    ASSUME NEW turns \in Seq(Turns)
    PROVE  AskedIn(turns) \in Seq(OfKinds({"call"}))
  <1>1. CASE turns = <<>>
    BY <1>1 DEF AskedIn
  <1>2. CASE turns # <<>>
    <2>1. Last(turns) \in Turns
      <3>1. Len(turns) \in DOMAIN turns
        BY <1>2
      <3>2. QED
        BY <3>1 DEF Last
    <2>2. Last(turns).parts \in Seq(Parts)
      BY <2>1 DEF Turns
    <2>3. QED
      BY <1>2, <2>2, OnlyTyped DEF AskedIn
  <1>3. QED
    BY <1>1, <1>2

(* A turn that answers what was asked, or calls last, keeps it so.          *)
LEMMA TurnAdded ==
    ASSUME NEW turns, TalkKept(turns), NEW m \in Turns,
           \/ m.role = "user" /\ AnswersAll(m, AskedIn(turns))
           \/ m.role = "assistant" /\ CallsLast(m)
    PROVE  TalkKept(Append(turns, m))
  <1>1. PICK M, N, T, asked : /\ M = AnthropicToOpenAI(turns) /\ N = ToOpenAI(m)
                              /\ T = Append(turns, m) /\ asked = AskedIn(turns)
    OBVIOUS
  <1>2. /\ turns \in Seq(Turns) /\ Flat(M) = Carried(turns)
        /\ \A i \in DOMAIN M : Follows(M, turns, i)
        /\ AsksLast(M, asked)
    BY <1>1 DEF TalkKept
  <1>3. T \in Seq(Turns) /\ asked \in Seq(OfKinds({"call"}))
    BY <1>1, <1>2, AskedTyped
  <1>4. /\ Gives(toOpenAI, Turns, Messages) /\ Gives(flatOf, Messages, Parts)
        /\ Gives(carriedOf, Turns, Parts)
    BY WhatTheyGive
  <1>5. M = JoinedOf(toOpenAI, turns) /\ M \in Seq(Messages)
    BY <1>1, <1>2, <1>4, FunctionsOfTranslate, JoinedOfUnfolds
  <1>6. N \in Seq(Messages) /\ toOpenAI[m] = N
    BY <1>1, ToOpenAITyped DEF toOpenAI
  <1>7. AnthropicToOpenAI(T) = M \o N
    <2>1. \A x \in Turns : JoinedOf(toOpenAI, Append(turns, x)) = JoinedOf(toOpenAI, turns) \o toOpenAI[x]
      BY <1>2, <1>4, JoinedOfUnfolds
    <2>2. AnthropicToOpenAI(T) = JoinedOf(toOpenAI, T)
      BY <1>3, FunctionsOfTranslate
    <2>3. QED
      BY <1>1, <1>5, <1>6, <2>1, <2>2
  <1>8. PICK P : P = M \o N
    OBVIOUS
  <1>9. P \in Seq(Messages) /\ Rowed(M, N, P)
    BY <1>5, <1>6, <1>8, ConcatRowed
  <1>10. Flat(P) = Carried(T)
    <2>1. JoinedOf(flatOf, N) = carriedOf[m]
      BY <1>1, UserCarried, AssistantCarried
    <2>2. JoinedOf(flatOf, M \o N) = JoinedOf(flatOf, M) \o JoinedOf(flatOf, N)
      <3>1. Gives(flatOf, Messages, Parts) /\ M \in Seq(Messages) /\ N \in Seq(Messages)
        BY <1>4, <1>5, <1>6
      <3>2. QED
        BY <3>1, JoinedOfConcat
    <2>3. \A x \in Turns : JoinedOf(carriedOf, Append(turns, x)) = JoinedOf(carriedOf, turns) \o carriedOf[x]
      BY <1>2, <1>4, JoinedOfUnfolds
    <2>4. /\ Flat(P) = JoinedOf(flatOf, P) /\ Flat(M) = JoinedOf(flatOf, M)
          /\ Carried(T) = JoinedOf(carriedOf, T) /\ Carried(turns) = JoinedOf(carriedOf, turns)
      BY <1>2, <1>3, <1>5, <1>9, FunctionsOfTranslate
    <2>5. QED
      BY <1>1, <1>2, <1>8, <2>1, <2>2, <2>3, <2>4
  <1>11. AskedIn(T) = Only(m.parts, {"call"})
    <2>1. T # <<>> /\ Last(T) = m
      BY <1>1, <1>2 DEF Last
    <2>2. QED
      BY <2>1 DEF AskedIn
  <1>12. CASE m.role = "user" /\ AnswersAll(m, asked)
    <2>1. AskedIn(T) = <<>>
      BY <1>3, <1>11, <1>12, UserTold
    <2>2. ASSUME NEW i \in DOMAIN P PROVE Follows(P, T, i)
      <3>1. CASE i \in DOMAIN M
        BY <1>1, <1>2, <1>5, <1>6, <1>8, <3>1, FollowsStill
      <3>2. CASE i \notin DOMAIN M
        <4>1. i > Len(M)
          BY <1>5, <1>9, <3>2
        <4>2. QED
          BY <1>1, <1>2, <1>3, <1>5, <1>8, <1>12, <4>1, ResultsFollow
      <3>3. QED
        BY <3>1, <3>2
    <2>3. AsksLast(P, AskedIn(T))
      BY <2>1 DEF AsksLast
    <2>4. TalkKept(T)
      BY <1>3, <1>7, <1>8, <1>10, <2>2, <2>3 DEF TalkKept
    <2>5. QED
      BY <1>1, <2>4
  <1>13. CASE m.role = "assistant" /\ CallsLast(m)
    <2>1. PICK said, calls : said = Only(m.parts, {"text", "image"}) /\ calls = Only(m.parts, {"call"})
      OBVIOUS
    <2>2. PICK b, c : b = Message("assistant", said, <<>>) /\ c = Message("assistant", said, calls)
      OBVIOUS
    <2>3. N = IF calls # <<>> THEN <<c>> ELSE Unless(said = <<>>, <<b>>)
      BY <1>1, <1>13, <2>1, <2>2, AssistantTold
    <2>4. b.role = "assistant" /\ c.role = "assistant" /\ c.calls = calls
      BY <2>2 DEF Message
    <2>5. \A k \in 1..Len(N) : N[k].role = "assistant"
      BY <2>3, <2>4 DEF Unless
    <2>6. ASSUME NEW i \in DOMAIN P PROVE Follows(P, T, i)
      <3>1. CASE i \in DOMAIN M
        BY <1>1, <1>2, <1>5, <1>6, <1>8, <3>1, FollowsStill
      <3>2. CASE i \notin DOMAIN M
        <4>1. PICK k \in 1..Len(N) : i = Len(M) + k
          <5>1. i \in 1..Len(P) /\ DOMAIN M = 1..Len(M)
            BY <1>5, <1>9
          <5>2. i - Len(M) \in 1..Len(N) /\ i = Len(M) + (i - Len(M))
            BY <1>9, <3>2, <5>1 DEF Rowed
          <5>3. QED
            BY <5>2
        <4>2. P[i] = N[k]
          BY <1>9, <4>1 DEF Rowed
        <4>3. QED
          BY <2>5, <4>1, <4>2 DEF Follows
      <3>3. QED
        BY <3>1, <3>2
    <2>7. AsksLast(P, AskedIn(T))
      <3>1. CASE calls = <<>>
        BY <1>11, <2>1, <3>1 DEF AsksLast
      <3>2. CASE calls # <<>>
        <4>1. N = <<c>>
          BY <2>3, <3>2
        <4>2. Len(N) = 1 /\ N[1] = c
          BY <4>1
        <4>3. Len(P) = Len(M) + 1 /\ P[Len(M) + 1] = c /\ Len(M) \in Nat
          BY <1>9, <4>2 DEF Rowed
        <4>4. P # <<>> /\ P[Len(P)] = c
          BY <4>3
        <4>5. QED
          BY <1>11, <2>1, <2>4, <4>4 DEF AsksLast
      <3>3. QED
        BY <3>1, <3>2
    <2>8. TalkKept(T)
      BY <1>3, <1>7, <1>8, <1>10, <2>6, <2>7 DEF TalkKept
    <2>9. QED
      BY <1>1, <2>8
  <1>14. QED
    BY <1>1, <1>12, <1>13

LEMMA TalkStarts ==
    TalkKept(<<>>)
  <1>1. PICK e : e = <<>>
    OBVIOUS
  <1>2. e \in Seq(Turns) /\ e \in Seq(Messages) /\ DOMAIN e = {}
    BY <1>1
  <1>3. AnthropicToOpenAI(e) = <<>> /\ Carried(e) = <<>> /\ Flat(e) = <<>>
    BY <1>1, <1>2, FunctionsOfTranslate, NoneMapped
  <1>4. AskedIn(e) = <<>>
    BY <1>1 DEF AskedIn
  <1>5. TalkKept(e)
    BY <1>1, <1>2, <1>3, <1>4 DEF TalkKept, AsksLast
  <1>6. QED
    BY <1>1, <1>5

(* It is what TalkArrives says, and more.                                   *)
LEMMA TalkKeptArrives ==
    ASSUME TalkKept(talk)
    PROVE  TalkArrives
  BY DEF TalkKept, TalkArrives, Follows

(* What is said, part by part.                                              *)
LEMMA SpokenTyped ==
    ASSUME NEW K \in SUBSET PartKinds, NEW kinds \in Seq(K), NEW n \in Nat
    PROVE  PartsOf(kinds, n) \in Seq(OfKinds(K))
  <1>1. Len(kinds) \in Nat /\ DOMAIN kinds = 1..Len(kinds) /\ \A i \in 1..Len(kinds) : kinds[i] \in K
    OBVIOUS
  <1>2. \A i \in 1..Len(kinds) : Part(kinds[i], n + i) \in OfKinds(K)
    BY <1>1 DEF Part, OfKinds, Parts
  <1>3. PICK p : p = PartsOf(kinds, n)
    OBVIOUS
  <1>4. p = [i \in 1..Len(kinds) |-> Part(kinds[i], n + i)]
    BY <1>1, <1>3 DEF PartsOf
  <1>5. p \in [1..Len(kinds) -> OfKinds(K)]
    BY <1>2, <1>4
  <1>6. QED
    BY <1>1, <1>3, <1>5

LEMMA WrittenCounted ==
    ASSUME talk \in Seq(Turns)
    PROVE  Len(Written) \in Nat
  <1>1. PICK f : f = [m \in Turns |-> m.parts]
    OBVIOUS
  <1>2. Gives(f, Turns, Parts)
    BY <1>1 DEF Gives, Turns
  <1>3. \A i \in DOMAIN talk : talk[i] \in Turns
    OBVIOUS
  <1>4. Mapped(f, talk) = [i \in DOMAIN talk |-> talk[i].parts]
    BY <1>1, <1>3 DEF Mapped
  <1>5. Written = JoinedOf(f, talk)
    BY <1>4 DEF Written, Each, JoinedOf
  <1>6. Written \in Seq(Parts)
    BY <1>2, <1>5, JoinedOfUnfolds
  <1>7. QED
    BY <1>6

(* What the user says keeps it so.                                          *)
LEMMA UserKeeps ==
    ASSUME TalkKept(talk), NEW kinds \in Phrasings, UserSays(kinds)
    PROVE  TalkKept(talk')
  <1>1. talk \in Seq(Turns)
    BY DEF TalkKept
  <1>2. PICK n \in Nat : n = Len(Written)
    BY <1>1, WrittenCounted
  <1>3. PICK says : says = PartsOf(kinds, n)
    OBVIOUS
  <1>4. says \in Seq(OfKinds({"text", "image"}))
    <2>1. PICK K : K = {"text", "image"}
      OBVIOUS
    <2>2. K \in SUBSET PartKinds
      BY <2>1 DEF PartKinds
    <2>3. kinds \in Seq(K)
      <3>1. PICK t, j : t = "text" /\ j = "image"
        OBVIOUS
      <3>2. t \in K /\ j \in K
        BY <2>1, <3>1
      <3>3. kinds = <<>> \/ kinds = <<t>> \/ kinds = <<j, t>>
        BY <3>1 DEF Phrasings
      <3>4. <<>> \in Seq(K) /\ <<t>> \in Seq(K) /\ <<j, t>> \in Seq(K)
        BY <3>2
      <3>5. QED
        BY <3>3, <3>4
    <2>4. QED
      BY <1>3, <2>1, <2>2, <2>3, SpokenTyped
  <1>5. PICK asked, m : /\ asked = AskedIn(talk)
                        /\ m = [role |-> "user", parts |-> Each(asked, AnswerTo) \o says]
    OBVIOUS
  <1>6. Asked = asked
    BY <1>5 DEF Asked, AskedIn
  <1>7. asked \in Seq(OfKinds({"call"}))
    BY <1>1, <1>5, AskedTyped
  <1>8. Each(asked, AnswerTo) \in Seq(Parts) /\ says \in Seq(Parts)
    BY <1>4, <1>7, AnswersTyped, SomeOfParts
  <1>9. Each(asked, AnswerTo) \o says \in Seq(Parts)
    BY <1>8, ConcatProperties
  <1>10. m \in Turns /\ m.role = "user" /\ m.parts = Each(asked, AnswerTo) \o says
    BY <1>5, <1>9 DEF Turns
  <1>11. AnswersAll(m, asked)
    BY <1>4, <1>10 DEF AnswersAll
  <1>12. talk' = Append(talk, m)
    BY <1>2, <1>3, <1>5, <1>6 DEF UserSays
  <1>13. TalkKept(Append(talk, m))
    BY <1>5, <1>10, <1>11, TurnAdded
  <1>14. QED
    BY <1>12, <1>13

AssistantPhrasings ==
    {<<"text">>, <<"call">>, <<"text", "call">>, <<"thought", "call", "call">>, <<"thought">>}

LEMMA OneThenOne ==
    ASSUME NEW a, NEW b
    PROVE  <<a>> \o <<b>> = <<a, b>>
  <1>1. PICK S : S = {a, b}
    OBVIOUS
  <1>2. a \in S /\ b \in S
    BY <1>1
  <1>3. PICK s, t, u : s = <<a>> /\ t = <<b>> /\ u = <<a, b>>
    OBVIOUS
  <1>4. s \in Seq(S) /\ t \in Seq(S) /\ u \in Seq(S)
    BY <1>2, <1>3
  <1>5. PICK v : v = s \o t
    OBVIOUS
  <1>6. v \in Seq(S) /\ Rowed(s, t, v)
    BY <1>4, <1>5, ConcatRowed
  <1>7. /\ Len(s) = 1 /\ Len(t) = 1 /\ Len(u) = 2 /\ s[1] = a
        /\ t[1] = b
    BY <1>3
  <1>8. Len(v) = 2 /\ v[1] = a /\ v[2] = b
    <2>1. 1 \in 1..1 /\ 1 \in 1..1
      OBVIOUS
    <2>2. v[1] = s[1] /\ v[1 + 1] = t[1] /\ Len(v) = 1 + 1
      BY <1>6, <1>7, <2>1 DEF Rowed
    <2>3. QED
      BY <1>7, <2>2
  <1>9. u[1] = a /\ u[2] = b
    BY <1>3
  <1>10. \A i \in 1..Len(v) : v[i] = u[i]
    BY <1>8, <1>9
  <1>11. v = u
    BY <1>4, <1>6, <1>7, <1>8, <1>10, SeqEqual
  <1>12. QED
    BY <1>3, <1>5, <1>11

LEMMA OneThenTwo ==
    ASSUME NEW a, NEW b, NEW c
    PROVE  <<a>> \o <<b, c>> = <<a, b, c>>
  <1>1. PICK S : S = {a, b, c}
    OBVIOUS
  <1>2. a \in S /\ b \in S /\ c \in S
    BY <1>1
  <1>3. PICK s, t, u : s = <<a>> /\ t = <<b, c>> /\ u = <<a, b, c>>
    OBVIOUS
  <1>4. s \in Seq(S) /\ t \in Seq(S) /\ u \in Seq(S)
    BY <1>2, <1>3
  <1>5. PICK v : v = s \o t
    OBVIOUS
  <1>6. v \in Seq(S) /\ Rowed(s, t, v)
    BY <1>4, <1>5, ConcatRowed
  <1>7. /\ Len(s) = 1 /\ Len(t) = 2 /\ Len(u) = 3 /\ s[1] = a
        /\ t[1] = b /\ t[2] = c
    BY <1>3
  <1>8. Len(v) = 3 /\ v[1] = a /\ v[2] = b /\ v[3] = c
    <2>1. 1 \in 1..1 /\ 1 \in 1..2 /\ 2 \in 1..2
      OBVIOUS
    <2>2. v[1] = s[1] /\ v[1 + 1] = t[1] /\ v[1 + 2] = t[2] /\ Len(v) = 1 + 2
      BY <1>6, <1>7, <2>1 DEF Rowed
    <2>3. QED
      BY <1>7, <2>2
  <1>9. u[1] = a /\ u[2] = b /\ u[3] = c
    BY <1>3
  <1>10. \A i \in 1..Len(v) : v[i] = u[i]
    BY <1>8, <1>9
  <1>11. v = u
    BY <1>4, <1>6, <1>7, <1>8, <1>10, SeqEqual
  <1>12. QED
    BY <1>3, <1>5, <1>11

(* In each of its phrasings the assistant calls last.                       *)
LEMMA AssistantCallsLast ==
    ASSUME NEW kinds \in AssistantPhrasings, NEW n \in Nat
    PROVE  \E before \in Seq(OfKinds({"text", "thought"})), calls \in Seq(OfKinds({"call"})) :
              PartsOf(kinds, n) = before \o calls
  <1>1. PICK B, C : B = OfKinds({"text", "thought"}) /\ C = OfKinds({"call"})
    OBVIOUS
  <1>2. \A i \in Nat : /\ Part("text", n + i) \in B /\ Part("thought", n + i) \in B
                       /\ Part("call", n + i) \in C
    BY <1>1 DEF Part, OfKinds, Parts, PartKinds
  <1>3. PICK t, h, c1, c2, c3 : /\ t = Part("text", n + 1) /\ h = Part("thought", n + 1)
                                /\ c1 = Part("call", n + 1) /\ c2 = Part("call", n + 2)
                                /\ c3 = Part("call", n + 3)
    OBVIOUS
  <1>4. t \in B /\ h \in B /\ c1 \in C /\ c2 \in C /\ c3 \in C
    BY <1>2, <1>3
  <1>5. CASE kinds = <<"text">>
    <2>1. PartsOf(kinds, n) = <<t>>
      BY <1>3, <1>5 DEF PartsOf
    <2>2. <<t>> \in Seq(B) /\ <<>> \in Seq(C) /\ <<t>> \o <<>> = <<t>>
      BY <1>4
    <2>3. QED
      BY <1>1, <2>1, <2>2
  <1>6. CASE kinds = <<"call">>
    <2>1. PartsOf(kinds, n) = <<c1>>
      BY <1>3, <1>6 DEF PartsOf
    <2>2. <<>> \in Seq(B) /\ <<c1>> \in Seq(C) /\ <<>> \o <<c1>> = <<c1>>
      BY <1>4
    <2>3. QED
      BY <1>1, <2>1, <2>2
  <1>7. CASE kinds = <<"text", "call">>
    <2>1. PartsOf(kinds, n) = <<t, c2>>
      BY <1>3, <1>7 DEF PartsOf
    <2>2. <<t>> \in Seq(B) /\ <<c2>> \in Seq(C) /\ <<t>> \o <<c2>> = <<t, c2>>
      BY <1>4, OneThenOne
    <2>3. QED
      BY <1>1, <2>1, <2>2
  <1>8. CASE kinds = <<"thought", "call", "call">>
    <2>1. PartsOf(kinds, n) = <<h, c2, c3>>
      BY <1>3, <1>8 DEF PartsOf
    <2>2. <<h>> \in Seq(B) /\ <<c2, c3>> \in Seq(C) /\ <<h>> \o <<c2, c3>> = <<h, c2, c3>>
      BY <1>4, OneThenTwo
    <2>3. QED
      BY <1>1, <2>1, <2>2
  <1>9. CASE kinds = <<"thought">>
    <2>1. PartsOf(kinds, n) = <<h>>
      BY <1>3, <1>9 DEF PartsOf
    <2>2. <<h>> \in Seq(B) /\ <<>> \in Seq(C) /\ <<h>> \o <<>> = <<h>>
      BY <1>4
    <2>3. QED
      BY <1>1, <2>1, <2>2
  <1>10. QED
    BY <1>5, <1>6, <1>7, <1>8, <1>9 DEF AssistantPhrasings

(* What the assistant says keeps it so.                                     *)
LEMMA AssistantKeeps ==
    ASSUME TalkKept(talk), NEW kinds \in AssistantPhrasings, AssistantSays(kinds)
    PROVE  TalkKept(talk')
  <1>1. talk \in Seq(Turns)
    BY DEF TalkKept
  <1>2. PICK n \in Nat : n = Len(Written)
    BY <1>1, WrittenCounted
  <1>3. PICK p, m : p = PartsOf(kinds, n) /\ m = [role |-> "assistant", parts |-> p]
    OBVIOUS
  <1>4. PICK before \in Seq(OfKinds({"text", "thought"})), calls \in Seq(OfKinds({"call"})) :
           p = before \o calls
    BY <1>3, AssistantCallsLast
  <1>5. before \in Seq(Parts) /\ calls \in Seq(Parts)
    BY SomeOfParts
  <1>6. p \in Seq(Parts)
    BY <1>4, <1>5, ConcatProperties
  <1>7. m \in Turns /\ m.role = "assistant" /\ m.parts = p
    BY <1>3, <1>6 DEF Turns
  <1>8. CallsLast(m)
    BY <1>4, <1>7 DEF CallsLast
  <1>9. talk' = Append(talk, m)
    BY <1>2, <1>3 DEF AssistantSays
  <1>10. TalkKept(Append(talk, m))
    BY <1>7, <1>8, TurnAdded
  <1>11. QED
    BY <1>9, <1>10

-----------------------------------------------------------------------------
(* Inputs of the Responses protocol. *)

ItemKinds == {"call", "result", "system", "user", "assistant", "other"}
Items == OfKinds(ItemKinds)

(* Messages that are made of them: the assistant says texts only, and only  *)
(* the assistant calls.                                                     *)
OutMessages == {m \in Messages :
    IF m.role = "assistant" THEN m.parts \in Seq(OfKinds({"text"})) ELSE m.calls = <<>>}
States == [out : Seq(OutMessages), pending : Seq(OfKinds({"call"}))]
NothingTaken == [out |-> <<>>, pending |-> <<>>]
Taken(s) == FoldLeft(TakeItem, NothingTaken, s)
TakeStep == [x \in States \X Items |-> TakeItem(x[1], x[2])]

LEMMA NothingTyped ==
    NothingTaken \in States /\ NothingTaken.out = <<>> /\ NothingTaken.pending = <<>>
  <1>1. <<>> \in Seq(OutMessages) /\ <<>> \in Seq(OfKinds({"call"}))
    OBVIOUS
  <1>2. QED
    BY <1>1 DEF NothingTaken, States

(* Calls that were kept become one message of the assistant.                *)
LEMMA FlushedTyped ==
    ASSUME NEW state \in States
    PROVE  /\ state.pending \in Seq(OfKinds({"call"})) /\ state.out \in Seq(OutMessages)
           /\ Message("assistant", <<>>, state.pending) \in OutMessages
           /\ Flushed(state) \in Seq(OutMessages)
  <1>1. state.out \in Seq(OutMessages) /\ state.pending \in Seq(OfKinds({"call"}))
    BY DEF States
  <1>2. state.pending \in Seq(Parts)
    BY <1>1, SomeOfParts
  <1>3. PICK m : m = Message("assistant", <<>>, state.pending)
    OBVIOUS
  <1>4. <<>> \in Seq(Parts) /\ <<>> \in Seq(OfKinds({"text"}))
    OBVIOUS
  <1>5. m \in OutMessages
    BY <1>2, <1>3, <1>4 DEF Message, Messages, Roles, OutMessages
  <1>6. Unless(state.pending = <<>>, <<m>>) \in Seq(OutMessages)
    BY <1>5 DEF Unless
  <1>7. state.out \o Unless(state.pending = <<>>, <<m>>) \in Seq(OutMessages)
    BY <1>1, <1>6, ConcatProperties
  <1>8. QED
    BY <1>1, <1>3, <1>5, <1>7 DEF Flushed

(* The messages of single items.                                            *)
SpokenAs(item) == Message(item.kind, <<Part("text", item.n)>>, <<>>)

LEMMA ItemMessages ==
    ASSUME NEW item \in Items
    PROVE  /\ item.kind \in ItemKinds /\ item \in Parts
           /\ ToolMessage(item) \in OutMessages
           /\ item.kind \in {"system", "user", "assistant"} => SpokenAs(item) \in OutMessages
           /\ Part("text", item.n) \in OfKinds({"text"})
  <1>1. item \in Parts /\ item.kind \in ItemKinds /\ item.n \in Nat
    BY DEF Items, OfKinds, Parts
  <1>2. PICK t : t = Part("text", item.n)
    OBVIOUS
  <1>3. t \in OfKinds({"text"}) /\ t \in Parts
    BY <1>1, <1>2 DEF OfKinds, Parts, Part, PartKinds
  <1>4. /\ <<>> \in Seq(Parts) /\ <<item>> \in Seq(Parts) /\ <<t>> \in Seq(Parts)
        /\ <<t>> \in Seq(OfKinds({"text"}))
    BY <1>1, <1>3
  <1>5. ToolMessage(item) \in OutMessages
    BY <1>4 DEF ToolMessage, Message, Messages, Roles, OutMessages
  <1>6. ASSUME item.kind \in {"system", "user", "assistant"}
        PROVE  SpokenAs(item) \in OutMessages
    <2>1. PICK m : m = SpokenAs(item)
      OBVIOUS
    <2>2. m.role = item.kind /\ m.parts = <<t>> /\ m.calls = <<>>
      BY <1>2, <2>1 DEF SpokenAs, Message
    <2>3. m = [role |-> item.kind, parts |-> <<t>>, calls |-> <<>>]
      BY <1>2, <2>1 DEF SpokenAs, Message
    <2>4. m \in Messages
      BY <1>4, <1>6, <2>3 DEF Messages, Roles
    <2>5. QED
      BY <1>4, <2>1, <2>2, <2>4 DEF OutMessages
  <1>7. QED
    BY <1>1, <1>2, <1>3, <1>5, <1>6

(* What TakeItem does, by the kind of an item.                              *)
LEMMA TakenByKind ==
    ASSUME NEW state \in States, NEW item \in Items
    PROVE  /\ item.kind = "call" => /\ TakeItem(state, item).out = state.out
                                    /\ TakeItem(state, item).pending = Append(state.pending, item)
                                    /\ item \in OfKinds({"call"})
           /\ item.kind = "result" =>
                 /\ TakeItem(state, item).out = Append(Flushed(state), ToolMessage(item))
                 /\ TakeItem(state, item).pending = <<>>
           /\ item.kind \in {"system", "user", "assistant"} =>
                 /\ TakeItem(state, item).out = Append(Flushed(state), SpokenAs(item))
                 /\ TakeItem(state, item).pending = <<>>
           /\ item.kind = "other" => TakeItem(state, item) = state
           /\ TakeItem(state, item) \in [out : {TakeItem(state, item).out},
                                         pending : {TakeItem(state, item).pending}]
  <1>1. PICK st : st = TakeItem(state, item)
    OBVIOUS
  <1>2. item.kind \in ItemKinds /\ item \in Parts
    BY ItemMessages
  <1>3. state = [out |-> state.out, pending |-> state.pending]
    BY DEF States
  <1>4. CASE item.kind = "call"
    <2>1. st = [state EXCEPT !.pending = Append(@, item)]
      BY <1>1, <1>4 DEF TakeItem
    <2>2. st = [out |-> state.out, pending |-> Append(state.pending, item)]
      BY <1>3, <2>1
    <2>3. item \in OfKinds({"call"})
      BY <1>2, <1>4 DEF OfKinds
    <2>4. QED
      BY <1>1, <1>4, <2>2, <2>3
  <1>5. CASE item.kind = "result"
    <2>1. st = [out |-> Append(Flushed(state), ToolMessage(item)), pending |-> <<>>]
      BY <1>1, <1>5 DEF TakeItem
    <2>2. QED
      BY <1>1, <1>5, <2>1
  <1>6. CASE item.kind \in {"system", "user", "assistant"}
    <2>1. item.kind # "call" /\ item.kind # "result" /\ item.kind # "other"
      BY <1>6
    <2>2. st = [out |-> Append(Flushed(state), SpokenAs(item)), pending |-> <<>>]
      BY <1>1, <1>6, <2>1 DEF TakeItem, SpokenAs
    <2>3. QED
      BY <1>1, <1>6, <2>1, <2>2
  <1>7. CASE item.kind = "other"
    <2>1. /\ item.kind # "call" /\ item.kind # "result"
          /\ item.kind \notin {"system", "user", "assistant"}
      BY <1>7
    <2>2. st = state
      BY <1>1, <2>1 DEF TakeItem
    <2>3. QED
      BY <1>1, <1>3, <1>7, <2>1, <2>2
  <1>8. QED
    BY <1>2, <1>4, <1>5, <1>6, <1>7 DEF ItemKinds

(* TakeItem goes from a state to a state.                                   *)
LEMMA TakeTyped ==
    ASSUME NEW state \in States, NEW item \in Items
    PROVE  TakeItem(state, item) \in States
  <1>1. PICK st : st = TakeItem(state, item)
    OBVIOUS
  <1>2. /\ state.pending \in Seq(OfKinds({"call"})) /\ state.out \in Seq(OutMessages)
        /\ Flushed(state) \in Seq(OutMessages)
    BY FlushedTyped
  <1>3. item.kind \in ItemKinds /\ ToolMessage(item) \in OutMessages
    BY ItemMessages
  <1>4. item.kind \in {"system", "user", "assistant"} => SpokenAs(item) \in OutMessages
    BY ItemMessages
  <1>5. /\ item.kind = "call" => /\ st.out = state.out
                                 /\ st.pending = Append(state.pending, item)
                                 /\ item \in OfKinds({"call"})
        /\ item.kind = "result" => /\ st.out = Append(Flushed(state), ToolMessage(item))
                                   /\ st.pending = <<>>
        /\ item.kind \in {"system", "user", "assistant"} =>
              /\ st.out = Append(Flushed(state), SpokenAs(item)) /\ st.pending = <<>>
        /\ item.kind = "other" => st = state
        /\ st \in [out : {st.out}, pending : {st.pending}]
    BY <1>1, TakenByKind
  <1>6. st.out \in Seq(OutMessages) /\ st.pending \in Seq(OfKinds({"call"}))
    <2>1. CASE item.kind = "call"
      <3>1. st.out = state.out /\ st.pending = Append(state.pending, item) /\ item \in OfKinds({"call"})
        BY <1>5, <2>1
      <3>2. Append(state.pending, item) \in Seq(OfKinds({"call"}))
        BY <1>2, <3>1, AppendProperties
      <3>3. QED
        BY <1>2, <3>1, <3>2
    <2>2. CASE item.kind = "result"
      <3>1. st.out = Append(Flushed(state), ToolMessage(item)) /\ st.pending = <<>>
        BY <1>5, <2>2
      <3>2. Append(Flushed(state), ToolMessage(item)) \in Seq(OutMessages)
        BY <1>2, <1>3, AppendProperties
      <3>3. <<>> \in Seq(OfKinds({"call"}))
        OBVIOUS
      <3>4. QED
        BY <3>1, <3>2, <3>3
    <2>3. CASE item.kind \in {"system", "user", "assistant"}
      <3>1. st.out = Append(Flushed(state), SpokenAs(item)) /\ st.pending = <<>>
        BY <1>5, <2>3
      <3>2. Append(Flushed(state), SpokenAs(item)) \in Seq(OutMessages)
        BY <1>2, <1>4, <2>3, AppendProperties
      <3>3. <<>> \in Seq(OfKinds({"call"}))
        OBVIOUS
      <3>4. QED
        BY <3>1, <3>2, <3>3
    <2>4. CASE item.kind = "other"
      BY <1>2, <1>5, <2>4
    <2>5. QED
      BY <1>3, <2>1, <2>2, <2>3, <2>4 DEF ItemKinds
  <1>7. QED
    BY <1>1, <1>5, <1>6 DEF States

(* What TakeItem makes of an input.                                        *)
LEMMA TakenIsSteps ==
    ASSUME NEW s \in Seq(Items)
    PROVE  Taken(s) = StepsOf(TakeStep, NothingTaken, States, s)
  <1> DEFINE D == DOMAIN s
             Table(g) == g = [T \in SUBSET D |-> IF T = {} THEN NothingTaken
                                ELSE TakeItem(g[T \ {Max(T)}], s[Max(T)])]
             f == CHOOSE g : Table(g)
  <1>1. D \in SUBSET Int /\ IsFiniteSet(D) /\ \A i \in D : s[i] \in Items
    BY IndexesTaken
  <1>2. TakeStep \in [States \X Items -> States] /\ NothingTaken \in States
    BY TakeTyped, NothingTyped DEF TakeStep
  <1>3. \A a \in States, b \in Items : TakeStep[<<a, b>>] = TakeItem(a, b)
    BY DEF TakeStep
  <1>4. PICK g : Folded(TakeStep, NothingTaken, States, s, g)
    BY <1>2, StepsChosen
  <1>5. g \in [SUBSET D -> States] /\ g[{}] = NothingTaken /\ StepsOf(TakeStep, NothingTaken, States, s) = g[D]
    BY <1>4 DEF Folded
  <1>6. ASSUME NEW T \in SUBSET D, T # {}
        PROVE  g[T] = TakeItem(g[T \ {Max(T)}], s[Max(T)])
    <2>1. Max(T) \in D /\ T \ {Max(T)} \in SUBSET D
      BY <1>1, <1>6, GreatestTaken
    <2>2. g[T \ {Max(T)}] \in States /\ s[Max(T)] \in Items
      BY <1>1, <1>5, <2>1
    <2>3. g[T] = TakeStep[<<g[T \ {Max(T)}], s[Max(T)]>>]
      BY <1>4, <1>6 DEF Folded
    <2>4. QED
      BY <1>3, <2>2, <2>3
  <1>7. Table(g)
    BY <1>5, <1>6
  <1>8. Table(f)
    BY <1>7
  <1>9. f[{}] = NothingTaken /\ \A T \in SUBSET D : T # {} =>
           f[T] = TakeItem(f[T \ {Max(T)}], s[Max(T)])
    BY <1>8
  <1>10. Taken(s) = f[D]
    BY DEF Taken, FoldLeft, MapThenFoldSet
  <1> HIDE DEF f, Table, D
  <1>11. TablesMatch(D, f, g)
    BY <1>5, <1>6, <1>9 DEF TablesMatch
  <1>12. EntriesMatch(D, f, g)
    BY <1>1, <1>11, StepsAlike
  <1>13. f[D] = g[D]
    BY <1>12 DEF EntriesMatch
  <1>14. QED
    BY <1>5, <1>10, <1>13

(* One item more is one TakeItem more.                                      *)
LEMMA TakenUnfolds ==
    ASSUME NEW s \in Seq(Items), NEW x \in Items
    PROVE  /\ Taken(<<>>) = NothingTaken
           /\ Taken(s) \in States
           /\ Taken(Append(s, x)) = TakeItem(Taken(s), x)
  <1>1. PICK op, base, C : op = TakeStep /\ base = NothingTaken /\ C = States
    OBVIOUS
  <1>2. op \in [C \X Items -> C] /\ base \in C
    BY <1>1, TakeTyped, NothingTyped DEF TakeStep
  <1>3. \A a \in C, b \in Items : op[<<a, b>>] = TakeItem(a, b)
    BY <1>1 DEF TakeStep
  <1>4. PICK e, t : e = <<>> /\ t = Append(s, x)
    OBVIOUS
  <1>5. e \in Seq(Items) /\ t \in Seq(Items)
    BY <1>4
  <1>6. /\ Taken(e) = StepsOf(op, base, C, e)
        /\ Taken(s) = StepsOf(op, base, C, s)
        /\ Taken(t) = StepsOf(op, base, C, t)
    BY <1>1, <1>5, TakenIsSteps
  <1>7. StepTaken(op, base, C, s, x)
    BY <1>2, StepsUnfold
  <1>8. QED
    BY <1>1, <1>3, <1>4, <1>6, <1>7 DEF StepTaken

(* A way to read messages, and what it should read of items.                *)
Reads(r, w) ==
    /\ Gives(r, OutMessages, Parts) /\ Gives(w, Items, Parts)
    /\ \A x \in Items :
          /\ x.kind = "other" => w[x] = <<>>
          /\ x.kind = "result" => r[ToolMessage(x)] = w[x]
          /\ x.kind \in {"system", "user", "assistant"} => r[SpokenAs(x)] = w[x]
    /\ \A p \in Seq(OfKinds({"call"})) : r[Message("assistant", <<>>, p)] = JoinedOf(w, p)

(* Read so, a state has what has been taken.                                *)
HasRead(r, w, state, s) ==
    JoinedOf(r, state.out) \o JoinedOf(w, state.pending) = JoinedOf(w, s)

LEMMA CallsAreItems ==
    ASSUME NEW p \in Seq(OfKinds({"call"}))
    PROVE  p \in Seq(Items)
  <1>1. OfKinds({"call"}) \subseteq Items
    BY DEF OfKinds, Items, ItemKinds
  <1>2. QED
    BY <1>1, SeqMonotonic

(* Flushing adds what the calls that were kept are read as.                 *)
LEMMA FlushedReads ==
    ASSUME NEW r, NEW w, Reads(r, w), NEW state \in States
    PROVE  JoinedOf(r, Flushed(state)) = JoinedOf(r, state.out) \o JoinedOf(w, state.pending)
  <1>1. PICK o, p, m : o = state.out /\ p = state.pending /\ m = Message("assistant", <<>>, p)
    OBVIOUS
  <1>2. o \in Seq(OutMessages) /\ p \in Seq(OfKinds({"call"})) /\ m \in OutMessages
    BY <1>1, FlushedTyped
  <1>3. Gives(r, OutMessages, Parts) /\ r[m] = JoinedOf(w, p)
    BY <1>1, <1>2 DEF Reads
  <1>4. JoinedOf(r, o) \in Seq(Parts)
    BY <1>2, <1>3, JoinedOfUnfolds
  <1>5. CASE p = <<>>
    <2>1. Flushed(state) = o \o <<>>
      BY <1>1, <1>5 DEF Flushed, Unless
    <2>2. o \o <<>> = o /\ JoinedOf(r, o) \o <<>> = JoinedOf(r, o)
      BY <1>2, <1>4, ConcatEmptySeq
    <2>3. JoinedOf(w, p) = <<>>
      BY <1>5, NoneMapped
    <2>4. QED
      BY <1>1, <2>1, <2>2, <2>3
  <1>6. CASE p # <<>>
    <2>1. Flushed(state) = o \o <<m>>
      BY <1>1, <1>6 DEF Flushed, Unless
    <2>2. PICK one : one = <<m>>
      OBVIOUS
    <2>3. one \in Seq(OutMessages)
      BY <1>2, <2>2
    <2>4. JoinedOf(r, o \o one) = JoinedOf(r, o) \o JoinedOf(r, one)
      BY <1>2, <1>3, <2>3, JoinedOfConcat
    <2>5. JoinedOf(r, one) = r[m]
      BY <1>2, <1>3, <2>2, OneGives
    <2>6. QED
      BY <1>1, <1>3, <2>1, <2>2, <2>4, <2>5
  <1>7. QED
    BY <1>5, <1>6

(* A message that is added to what is flushed.                              *)
LEMMA MessageReads ==
    ASSUME NEW r, NEW w, Reads(r, w), NEW state \in States, NEW s \in Seq(Items),
           HasRead(r, w, state, s), NEW x \in Items, NEW m \in OutMessages, r[m] = w[x],
           NEW st, st.out = Append(Flushed(state), m), st.pending = <<>>
    PROVE  HasRead(r, w, st, Append(s, x))
  <1>1. Gives(r, OutMessages, Parts) /\ Gives(w, Items, Parts)
    BY DEF Reads
  <1>2. PICK f : f = Flushed(state)
    OBVIOUS
  <1>3. f \in Seq(OutMessages)
    BY <1>2, FlushedTyped
  <1>4. \A y \in OutMessages : JoinedOf(r, Append(f, y)) = JoinedOf(r, f) \o r[y]
    BY <1>1, <1>3, JoinedOfUnfolds
  <1>5. JoinedOf(w, s) \in Seq(Parts) /\ \A y \in Items : JoinedOf(w, Append(s, y)) = JoinedOf(w, s) \o w[y]
    BY <1>1, JoinedOfUnfolds
  <1>6. JoinedOf(r, f) = JoinedOf(w, s)
    BY <1>2, FlushedReads DEF HasRead
  <1>7. w[x] \in Seq(Parts)
    BY <1>1 DEF Gives
  <1>8. PICK a, b : a = JoinedOf(w, s) /\ b = w[x]
    OBVIOUS
  <1>9. (a \o b) \o <<>> = a \o b
    <2>1. a \o b \in Seq(Parts)
      BY <1>5, <1>7, <1>8, ConcatProperties
    <2>2. QED
      BY <2>1, ConcatEmptySeq
  <1>10. JoinedOf(w, st.pending) = <<>>
    BY NoneMapped
  <1>11. JoinedOf(r, st.out) = a \o b
    BY <1>2, <1>4, <1>6, <1>8
  <1>12. JoinedOf(w, Append(s, x)) = a \o b
    BY <1>5, <1>8
  <1>13. QED
    BY <1>9, <1>10, <1>11, <1>12 DEF HasRead

(* TakeItem adds what the item should be read as.                           *)
LEMMA TakingReads ==
    ASSUME NEW r, NEW w, Reads(r, w), NEW state \in States, NEW s \in Seq(Items),
           HasRead(r, w, state, s), NEW x \in Items
    PROVE  HasRead(r, w, TakeItem(state, x), Append(s, x))
  <1>1. PICK st : st = TakeItem(state, x)
    OBVIOUS
  <1>2. Gives(r, OutMessages, Parts) /\ Gives(w, Items, Parts)
    BY DEF Reads
  <1>3. /\ x.kind \in ItemKinds /\ ToolMessage(x) \in OutMessages
        /\ x.kind \in {"system", "user", "assistant"} => SpokenAs(x) \in OutMessages
    BY ItemMessages
  <1>4. JoinedOf(w, s) \in Seq(Parts) /\ \A y \in Items : JoinedOf(w, Append(s, y)) = JoinedOf(w, s) \o w[y]
    BY <1>2, JoinedOfUnfolds
  <1>5. CASE x.kind = "call"
    <2>1. /\ st.out = state.out /\ st.pending = Append(state.pending, x)
      BY <1>1, <1>5, TakenByKind
    <2>2. PICK o, p : o = state.out /\ p = state.pending
      OBVIOUS
    <2>3. p \in Seq(Items) /\ o \in Seq(OutMessages)
      BY <2>2, FlushedTyped, CallsAreItems
    <2>4. \A y \in Items : JoinedOf(w, Append(p, y)) = JoinedOf(w, p) \o w[y]
      BY <1>2, <2>3, JoinedOfUnfolds
    <2>5. JoinedOf(r, o) \in Seq(Parts) /\ JoinedOf(w, p) \in Seq(Parts)
      BY <1>2, <2>3, JoinedOfUnfolds
    <2>6. PICK a, b, c : a = JoinedOf(r, o) /\ b = JoinedOf(w, p) /\ c = w[x]
      OBVIOUS
    <2>7. a \in Seq(Parts) /\ b \in Seq(Parts) /\ c \in Seq(Parts)
      BY <1>2, <2>5, <2>6 DEF Gives
    <2>8. a \o (b \o c) = (a \o b) \o c
      BY <2>7, ConcatAssociative
    <2>9. a \o b = JoinedOf(w, s)
      BY <2>2, <2>6 DEF HasRead
    <2>10. JoinedOf(w, st.pending) = b \o c
      BY <2>1, <2>2, <2>4, <2>6
    <2>11. JoinedOf(w, Append(s, x)) = (a \o b) \o c
      BY <1>4, <2>6, <2>9
    <2>12. HasRead(r, w, st, Append(s, x))
      BY <2>1, <2>2, <2>6, <2>8, <2>10, <2>11 DEF HasRead
    <2>13. QED
      BY <1>1, <2>12
  <1>6. CASE x.kind = "result"
    <2>1. st.out = Append(Flushed(state), ToolMessage(x)) /\ st.pending = <<>>
      BY <1>1, <1>6, TakenByKind
    <2>2. r[ToolMessage(x)] = w[x]
      BY <1>6 DEF Reads
    <2>3. PICK m : m = ToolMessage(x)
      OBVIOUS
    <2>4. HasRead(r, w, st, Append(s, x))
      BY <1>3, <2>1, <2>2, <2>3, MessageReads
    <2>5. QED
      BY <1>1, <2>4
  <1>7. CASE x.kind \in {"system", "user", "assistant"}
    <2>1. st.out = Append(Flushed(state), SpokenAs(x)) /\ st.pending = <<>>
      BY <1>1, <1>7, TakenByKind
    <2>2. r[SpokenAs(x)] = w[x]
      BY <1>7 DEF Reads
    <2>3. PICK m : m = SpokenAs(x)
      OBVIOUS
    <2>4. HasRead(r, w, st, Append(s, x))
      BY <1>3, <1>7, <2>1, <2>2, <2>3, MessageReads
    <2>5. QED
      BY <1>1, <2>4
  <1>8. CASE x.kind = "other"
    <2>1. st = state
      BY <1>1, <1>8, TakenByKind
    <2>2. w[x] = <<>>
      BY <1>8 DEF Reads
    <2>3. JoinedOf(w, s) \o <<>> = JoinedOf(w, s)
      BY <1>4, ConcatEmptySeq
    <2>4. JoinedOf(w, Append(s, x)) = JoinedOf(w, s)
      BY <1>4, <2>2, <2>3
    <2>5. HasRead(r, w, st, Append(s, x))
      BY <2>1, <2>4 DEF HasRead
    <2>6. QED
      BY <1>1, <2>5
  <1>9. QED
    BY <1>3, <1>5, <1>6, <1>7, <1>8 DEF ItemKinds

(* So a whole input is read.                                                *)
LEMMA InputRead ==
    ASSUME NEW r, NEW w, Reads(r, w), NEW s \in Seq(Items)
    PROVE  JoinedOf(r, ResponsesToOpenAI(s)) = JoinedOf(w, s)
  <1> DEFINE Good == {u \in Seq(Items) : HasRead(r, w, Taken(u), u)}
  <1>1. PICK e : e = <<>>
    OBVIOUS
  <1>2. e \in Good
    <2>1. e \in Seq(Items) /\ e \o e = e
      BY <1>1
    <2>2. Taken(e) = NothingTaken
      <3>1. PICK x : x = Part("call", 0)
        OBVIOUS
      <3>2. x \in Items
        BY <3>1 DEF Part, Items, OfKinds, Parts, PartKinds, ItemKinds
      <3>3. QED
        BY <1>1, <2>1, <3>2, TakenUnfolds
    <2>3. Taken(e).out = e /\ Taken(e).pending = e
      BY <1>1, <2>2, NothingTyped
    <2>4. JoinedOf(r, e) = e /\ JoinedOf(w, e) = e
      BY <1>1, NoneMapped
    <2>5. HasRead(r, w, Taken(e), e)
      BY <2>1, <2>3, <2>4 DEF HasRead
    <2>6. QED
      BY <2>1, <2>5
  <1>3. ASSUME NEW u \in Seq(Items), NEW x \in Items, u \in Good PROVE Append(u, x) \in Good
    <2>1. PICK state : state = Taken(u)
      OBVIOUS
    <2>2. state \in States /\ Taken(Append(u, x)) = TakeItem(state, x)
      BY <2>1, TakenUnfolds
    <2>3. HasRead(r, w, TakeItem(state, x), Append(u, x))
      BY <1>3, <2>1, <2>2, TakingReads
    <2>4. Append(u, x) \in Seq(Items)
      OBVIOUS
    <2>5. QED
      BY <2>2, <2>3, <2>4
  <1> HIDE DEF Good
  <1>4. Seq(Items) \subseteq Good
    BY <1>1, <1>2, <1>3, SequencesStay
  <1>5. HasRead(r, w, Taken(s), s)
    BY <1>4 DEF Good
  <1>6. Taken(s) \in States
    <2>1. PICK x : x = Part("call", 0)
      OBVIOUS
    <2>2. x \in Items
      BY <2>1 DEF Part, Items, OfKinds, Parts, PartKinds, ItemKinds
    <2>3. QED
      BY <2>2, TakenUnfolds
  <1>7. JoinedOf(r, Flushed(Taken(s))) = JoinedOf(w, s)
    BY <1>5, <1>6, FlushedReads DEF HasRead
  <1>8. QED
    BY <1>7 DEF ResponsesToOpenAI, Taken, NothingTaken

(* The items that are wanted, as parts.                                     *)
wantedOf(kinds) == [x \in Items |-> IF x.kind \in kinds THEN <<AsPart(x)>> ELSE <<>>]

LEMMA AsPartTyped ==
    ASSUME NEW x \in Items
    PROVE  /\ AsPart(x) \in Parts
           /\ x.kind \in {"system", "user", "assistant"} => AsPart(x) = Part("text", x.n)
           /\ x.kind \notin {"system", "user", "assistant"} => AsPart(x) = x
  <1>1. x \in Parts /\ Part("text", x.n) \in OfKinds({"text"})
    BY ItemMessages
  <1>2. Part("text", x.n) \in Parts
    BY <1>1 DEF OfKinds
  <1>3. QED
    BY <1>1, <1>2 DEF AsPart

LEMMA WantedGives ==
    ASSUME NEW kinds
    PROVE  /\ Gives(wantedOf(kinds), Items, Parts)
           /\ \A x \in Items : wantedOf(kinds)[x] = IF x.kind \in kinds THEN <<AsPart(x)>> ELSE <<>>
  <1>1. ASSUME NEW x \in Items
        PROVE  (IF x.kind \in kinds THEN <<AsPart(x)>> ELSE <<>>) \in Seq(Parts)
    <2>1. <<AsPart(x)>> \in Seq(Parts) /\ <<>> \in Seq(Parts)
      BY AsPartTyped
    <2>2. QED
      BY <2>1
  <1>2. QED
    BY <1>1 DEF wantedOf, Gives

LEMMA NothingGiven ==
    ASSUME NEW A, NEW f, \A x \in A : f[x] = <<>>, Gives(f, A, {}), NEW s \in Seq(A)
    PROVE  JoinedOf(f, s) = <<>>
  <1>1. JoinedOf(f, s) \in Seq({})
    BY JoinedOfUnfolds
  <1>2. QED
    BY <1>1

(* Calls among them.                                                        *)
LEMMA CallsWanted ==
    ASSUME NEW kinds, NEW p \in Seq(OfKinds({"call"}))
    PROVE  JoinedOf(wantedOf(kinds), p) = IF "call" \in kinds THEN p ELSE <<>>
  <1>1. PICK C, w : C = OfKinds({"call"}) /\ w = wantedOf(kinds)
    OBVIOUS
  <1>2. \A x \in C : x \in Items /\ x.kind = "call" /\ x \in Parts
    BY <1>1 DEF OfKinds, Items, ItemKinds
  <1>3. \A x \in C : w[x] = IF "call" \in kinds THEN <<x>> ELSE <<>>
    <2>1. ASSUME NEW x \in C PROVE w[x] = IF "call" \in kinds THEN <<x>> ELSE <<>>
      <3>1. AsPart(x) = x
        BY <1>2 DEF AsPart
      <3>2. w[x] = IF x.kind \in kinds THEN <<AsPart(x)>> ELSE <<>>
        BY <1>1, <1>2, WantedGives
      <3>3. QED
        BY <1>2, <3>1, <3>2
    <2>2. QED
      BY <2>1
  <1>4. \A i \in DOMAIN p : p[i] \in C
    BY <1>1
  <1>5. CASE "call" \in kinds
    <2>1. PICK self : self = [x \in C |-> x]
      OBVIOUS
    <2>2. self \in [C -> C] /\ \A x \in C : self[x] = x
      BY <2>1
    <2>3. Mapped(w, p) = Mapped([x \in C |-> <<self[x]>>], p)
      BY <1>3, <1>4, <1>5, <2>2 DEF Mapped
    <2>4. JoinedOf([x \in C |-> <<self[x]>>], p) = Mapped(self, p)
      BY <1>1, <2>2, JoinedOfSingles
    <2>5. Mapped(self, p) = p
      BY <1>1, <2>2, MappedSelf
    <2>6. QED
      BY <1>1, <1>5, <2>3, <2>4, <2>5 DEF JoinedOf
  <1>6. CASE "call" \notin kinds
    <2>1. PICK f : f = [x \in C |-> <<>>]
      OBVIOUS
    <2>2. Gives(f, C, {}) /\ \A x \in C : f[x] = <<>>
      BY <2>1 DEF Gives
    <2>3. JoinedOf(f, p) = <<>>
      BY <1>1, <2>2, NothingGiven
    <2>4. Mapped(w, p) = Mapped(f, p)
      BY <1>3, <1>4, <1>6, <2>2 DEF Mapped
    <2>5. QED
      BY <1>1, <1>6, <2>3, <2>4 DEF JoinedOf
  <1>7. QED
    BY <1>5, <1>6

(* What is wanted of the input, as what each item gives.                    *)
LEMMA WantedIsJoined ==
    ASSUME NEW kinds, input \in Seq(Items)
    PROVE  Wanted(kinds) = JoinedOf(wantedOf(kinds), input)
  <1>1. PICK S, t : S = OfKinds(kinds) /\ t = Among(input, S)
    OBVIOUS
  <1>2. input \in Seq(Parts)
    BY SomeOfParts DEF Items
  <1>3. Only(input, kinds) = t
    BY <1>1, <1>2, OnlyIsAmong
  <1>4. t \in Seq(Items)
    BY <1>1, AmongTyped
  <1>5. PICK f, g : f = [x \in Items |-> AsPart(x)] /\ g = [x \in Items |-> <<f[x]>>]
    OBVIOUS
  <1>6. f \in [Items -> Parts] /\ \A x \in Items : f[x] = AsPart(x)
    BY <1>5, AsPartTyped
  <1>7. Gives(g, Items, Parts) /\ \A x \in Items : g[x] = <<AsPart(x)>>
    <2>1. ASSUME NEW x \in Items PROVE <<f[x]>> \in Seq(Parts)
      <3>1. f[x] \in Parts
        BY <1>6
      <3>2. QED
        BY <3>1
    <2>2. QED
      BY <1>5, <1>6, <2>1 DEF Gives
  <1>8. \A i \in DOMAIN t : t[i] \in Items
    BY <1>4
  <1>9. Each(t, AsPart) = Mapped(f, t)
    BY <1>6, <1>8 DEF Each, Mapped
  <1>10. Mapped(f, t) = JoinedOf(g, t)
    <2>1. JoinedOf([x \in Items |-> <<f[x]>>], t) = Mapped(f, t)
      BY <1>4, <1>6, JoinedOfSingles
    <2>2. QED
      BY <1>5, <2>1
  <1>11. JoinedOf(g, t) = JoinedOf(Within(g, Items, S), input)
    BY <1>1, <1>7, JoinedOfAmong
  <1>12. Within(g, Items, S) = wantedOf(kinds)
    <2>1. \A x \in Items : x \in S <=> x.kind \in kinds
      BY <1>1 DEF OfKinds, Items
    <2>2. QED
      BY <1>7, <2>1 DEF Within, wantedOf
  <1>13. QED
    BY <1>3, <1>9, <1>10, <1>11, <1>12 DEF Wanted

(* The three ways to read.                                                  *)
AllKinds == {"call", "result", "system", "user", "assistant"}
ownParts == [m \in OutMessages |-> m.parts]
turnParts == [m \in OutMessages |->
    CASE m.role = "tool" -> m.parts
      [] m.role = "assistant" -> Only(m.parts, {"text"}) \o m.calls
      [] OTHER -> m.parts]
BySystem == {m \in OutMessages : m.role = "system"}
ByOthers == {m \in OutMessages : m.role # "system"}
flatOut == [m \in OutMessages |-> m.parts \o m.calls]

(* What each of them reads in a message.                                    *)
LEMMA OutMessageTyped ==
    ASSUME NEW m \in OutMessages
    PROVE  /\ m \in Messages /\ m.parts \in Seq(Parts) /\ m.calls \in Seq(Parts)
           /\ m.role = "assistant" => Only(m.parts, {"text"}) = m.parts
           /\ m.role # "assistant" => m.calls = <<>>
           /\ m.parts \o m.calls \in Seq(Parts)
           /\ turnParts[m] = m.parts \o m.calls
  <1>1. m \in Messages /\ m.parts \in Seq(Parts) /\ m.calls \in Seq(Parts)
    BY DEF OutMessages, Messages
  <1>2. m.role = "assistant" => Only(m.parts, {"text"}) = m.parts
    <2>1. CASE m.role = "assistant"
      <3>1. m.parts \in Seq(OfKinds({"text"}))
        BY <2>1 DEF OutMessages
      <3>2. Only(m.parts, {"text"}) = m.parts
        BY <3>1, OnlyAll
      <3>3. QED
        BY <3>2
    <2>2. QED
      BY <2>1
  <1>3. m.role # "assistant" => m.calls = <<>>
    BY DEF OutMessages
  <1>4. m.parts \o m.calls \in Seq(Parts) /\ m.parts \o <<>> = m.parts
    BY <1>1, ConcatProperties, ConcatEmptySeq
  <1>5. turnParts[m] = m.parts \o m.calls
    <2>1. CASE m.role = "assistant"
      BY <1>2, <2>1 DEF turnParts
    <2>2. CASE m.role # "assistant"
      BY <1>3, <1>4, <2>2 DEF turnParts
    <2>3. QED
      BY <2>1, <2>2
  <1>6. QED
    BY <1>1, <1>2, <1>3, <1>4, <1>5

(* Each reads of the messages what is wanted of the items.                  *)
LEMMA WaysToRead ==
    /\ Reads(flatOut, wantedOf(AllKinds))
    /\ Reads(Within(ownParts, OutMessages, BySystem), wantedOf({"system"}))
    /\ Reads(Within(turnParts, OutMessages, ByOthers),
             wantedOf({"call", "result", "user", "assistant"}))
    /\ Gives(ownParts, OutMessages, Parts) /\ Gives(turnParts, OutMessages, Parts)
  <1>1. PICK r1, r2, r3 : /\ r1 = flatOut
                          /\ r2 = Within(ownParts, OutMessages, BySystem)
                          /\ r3 = Within(turnParts, OutMessages, ByOthers)
    OBVIOUS
  <1>2. ASSUME NEW m \in OutMessages
        PROVE  /\ r1[m] = m.parts \o m.calls
               /\ r2[m] = IF m.role = "system" THEN m.parts ELSE <<>>
               /\ r3[m] = IF m.role # "system" THEN m.parts \o m.calls ELSE <<>>
               /\ ownParts[m] = m.parts /\ turnParts[m] = m.parts \o m.calls
    BY <1>1, OutMessageTyped DEF Within, flatOut, ownParts, BySystem, ByOthers
  <1>3. /\ Gives(r1, OutMessages, Parts) /\ Gives(r2, OutMessages, Parts)
        /\ Gives(r3, OutMessages, Parts)
        /\ Gives(ownParts, OutMessages, Parts) /\ Gives(turnParts, OutMessages, Parts)
    <2>1. ASSUME NEW m \in OutMessages
          PROVE  /\ r1[m] \in Seq(Parts) /\ r2[m] \in Seq(Parts) /\ r3[m] \in Seq(Parts)
                 /\ ownParts[m] \in Seq(Parts) /\ turnParts[m] \in Seq(Parts)
      <3>1. m.parts \in Seq(Parts) /\ m.parts \o m.calls \in Seq(Parts)
        BY OutMessageTyped
      <3>2. <<>> \in Seq(Parts)
        OBVIOUS
      <3>3. QED
        BY <1>2, <3>1, <3>2
    <2>2. /\ r1 = [m \in OutMessages |-> r1[m]] /\ r2 = [m \in OutMessages |-> r2[m]]
          /\ r3 = [m \in OutMessages |-> r3[m]]
          /\ ownParts = [m \in OutMessages |-> ownParts[m]]
          /\ turnParts = [m \in OutMessages |-> turnParts[m]]
      BY <1>1 DEF Within, flatOut, ownParts, turnParts
    <2>3. QED
      BY <2>1, <2>2 DEF Gives
  <1>4. ASSUME NEW x \in Items, x.kind = "result"
        PROVE  /\ r1[ToolMessage(x)] = <<x>> /\ r2[ToolMessage(x)] = <<>>
               /\ r3[ToolMessage(x)] = <<x>> /\ AsPart(x) = x
    <2>1. PICK m : m = ToolMessage(x)
      OBVIOUS
    <2>2. m \in OutMessages /\ m.role = "tool" /\ m.parts = <<x>> /\ m.calls = <<>> /\ x \in Parts
      BY <2>1, ItemMessages DEF ToolMessage, Message
    <2>3. <<x>> \o <<>> = <<x>>
      <3>1. <<x>> \in Seq(Parts)
        BY <2>2
      <3>2. QED
        BY <3>1, ConcatEmptySeq
    <2>4. AsPart(x) = x
      BY <1>4, AsPartTyped
    <2>5. QED
      BY <1>2, <2>1, <2>2, <2>3, <2>4
  <1>5. ASSUME NEW x \in Items, x.kind \in {"system", "user", "assistant"}
        PROVE  /\ r1[SpokenAs(x)] = <<AsPart(x)>>
               /\ r2[SpokenAs(x)] = IF x.kind = "system" THEN <<AsPart(x)>> ELSE <<>>
               /\ r3[SpokenAs(x)] = IF x.kind # "system" THEN <<AsPart(x)>> ELSE <<>>
    <2>1. PICK m, t : m = SpokenAs(x) /\ t = AsPart(x)
      OBVIOUS
    <2>2. t = Part("text", x.n) /\ t \in Parts
      BY <1>5, <2>1, AsPartTyped
    <2>3. m \in OutMessages /\ m.role = x.kind /\ m.parts = <<t>> /\ m.calls = <<>>
      BY <1>5, <2>1, <2>2, ItemMessages DEF SpokenAs, Message
    <2>4. <<t>> \o <<>> = <<t>>
      <3>1. <<t>> \in Seq(Parts)
        BY <2>2
      <3>2. QED
        BY <3>1, ConcatEmptySeq
    <2>5. QED
      BY <1>2, <2>1, <2>3, <2>4
  <1>6. ASSUME NEW p \in Seq(OfKinds({"call"}))
        PROVE  /\ r1[Message("assistant", <<>>, p)] = p /\ r2[Message("assistant", <<>>, p)] = <<>>
               /\ r3[Message("assistant", <<>>, p)] = p
    <2>1. PICK m : m = Message("assistant", <<>>, p)
      OBVIOUS
    <2>2. p \in Seq(Parts) /\ <<>> \in Seq(Parts) /\ <<>> \in Seq(OfKinds({"text"}))
      BY SomeOfParts
    <2>3. m \in OutMessages /\ m.role = "assistant" /\ m.parts = <<>> /\ m.calls = p
      BY <2>1, <2>2 DEF Message, Messages, Roles, OutMessages
    <2>4. <<>> \o p = p
      BY <2>2, ConcatEmptySeq
    <2>5. QED
      BY <1>2, <2>1, <2>3, <2>4
  <1>7. PICK K1, K2, K3 : K1 = AllKinds /\ K2 = {"system"} /\ K3 = {"call", "result", "user", "assistant"}
    OBVIOUS
  <1>8. Reads(r1, wantedOf(K1))
    <2>1. ASSUME NEW x \in Items
          PROVE  /\ x.kind = "other" => wantedOf(K1)[x] = <<>>
                 /\ x.kind = "result" => r1[ToolMessage(x)] = wantedOf(K1)[x]
                 /\ x.kind \in {"system", "user", "assistant"} => r1[SpokenAs(x)] = wantedOf(K1)[x]
      <3>1. wantedOf(K1)[x] = IF x.kind \in K1 THEN <<AsPart(x)>> ELSE <<>>
        BY WantedGives
      <3>2. QED
        BY <1>4, <1>5, <1>7, <3>1 DEF AllKinds
    <2>2. ASSUME NEW p \in Seq(OfKinds({"call"}))
          PROVE  r1[Message("assistant", <<>>, p)] = JoinedOf(wantedOf(K1), p)
      <3>1. JoinedOf(wantedOf(K1), p) = p
        BY <1>7, CallsWanted DEF AllKinds
      <3>2. QED
        BY <1>6, <3>1
    <2>3. QED
      BY <1>3, <2>1, <2>2, WantedGives DEF Reads
  <1>9. Reads(r2, wantedOf(K2))
    <2>1. ASSUME NEW x \in Items
          PROVE  /\ x.kind = "other" => wantedOf(K2)[x] = <<>>
                 /\ x.kind = "result" => r2[ToolMessage(x)] = wantedOf(K2)[x]
                 /\ x.kind \in {"system", "user", "assistant"} => r2[SpokenAs(x)] = wantedOf(K2)[x]
      <3>1. wantedOf(K2)[x] = IF x.kind \in K2 THEN <<AsPart(x)>> ELSE <<>>
        BY WantedGives
      <3>2. QED
        BY <1>4, <1>5, <1>7, <3>1
    <2>2. ASSUME NEW p \in Seq(OfKinds({"call"}))
          PROVE  r2[Message("assistant", <<>>, p)] = JoinedOf(wantedOf(K2), p)
      <3>1. JoinedOf(wantedOf(K2), p) = <<>>
        BY <1>7, CallsWanted
      <3>2. QED
        BY <1>6, <3>1
    <2>3. QED
      BY <1>3, <2>1, <2>2, WantedGives DEF Reads
  <1>10. Reads(r3, wantedOf(K3))
    <2>1. ASSUME NEW x \in Items
          PROVE  /\ x.kind = "other" => wantedOf(K3)[x] = <<>>
                 /\ x.kind = "result" => r3[ToolMessage(x)] = wantedOf(K3)[x]
                 /\ x.kind \in {"system", "user", "assistant"} => r3[SpokenAs(x)] = wantedOf(K3)[x]
      <3>1. wantedOf(K3)[x] = IF x.kind \in K3 THEN <<AsPart(x)>> ELSE <<>>
        BY WantedGives
      <3>2. QED
        BY <1>4, <1>5, <1>7, <3>1
    <2>2. ASSUME NEW p \in Seq(OfKinds({"call"}))
          PROVE  r3[Message("assistant", <<>>, p)] = JoinedOf(wantedOf(K3), p)
      <3>1. JoinedOf(wantedOf(K3), p) = p
        BY <1>7, CallsWanted
      <3>2. QED
        BY <1>6, <3>1
    <2>3. QED
      BY <1>3, <2>1, <2>2, WantedGives DEF Reads
  <1>11. QED
    BY <1>1, <1>3, <1>7, <1>8, <1>9, <1>10

LEMMA InputMessages ==
    ASSUME NEW s \in Seq(Items)
    PROVE  ResponsesToOpenAI(s) \in Seq(OutMessages)
  <1>1. PICK x : x = Part("call", 0)
    OBVIOUS
  <1>2. x \in Items
    BY <1>1 DEF Part, Items, OfKinds, Parts, PartKinds, ItemKinds
  <1>3. Taken(s) \in States
    BY <1>2, TakenUnfolds
  <1>4. Flushed(Taken(s)) \in Seq(OutMessages)
    BY <1>3, FlushedTyped
  <1>5. QED
    BY <1>4 DEF ResponsesToOpenAI, Taken, NothingTaken

(* What is chosen among messages.                                           *)
LEMMA ChosenMessages ==
    ASSUME NEW messages \in Seq(OutMessages)
    PROVE  /\ Among(messages, {m \in Range(messages) : m.role = "system"}) = Among(messages, BySystem)
           /\ Among(messages, {m \in Range(messages) : m.role # "system"}) = Among(messages, ByOthers)
  <1>1. PICK A, S, O : /\ A = Range(messages)
                       /\ S = {m \in Range(messages) : m.role = "system"}
                       /\ O = {m \in Range(messages) : m.role # "system"}
    OBVIOUS
  <1>2. messages \in Seq(A) /\ A \subseteq OutMessages
    BY <1>1, SeqOfRange, RangeOfSeq
  <1>3. \A x \in A : x \in S <=> x \in BySystem
    BY <1>1, <1>2 DEF BySystem
  <1>4. \A x \in A : x \in O <=> x \in ByOthers
    BY <1>1, <1>2 DEF ByOthers
  <1>5. Among(messages, S) = Among(messages, BySystem)
    BY <1>2, <1>3, AmongAgrees
  <1>6. Among(messages, O) = Among(messages, ByOthers)
    BY <1>2, <1>4, AmongAgrees
  <1>7. QED
    BY <1>1, <1>5, <1>6

(* A request to Anthropic has what the system says apart, and the turns of  *)
(* the others, in their order.                                              *)
LEMMA CarriedToAnthropic ==
    ASSUME NEW messages \in Seq(OutMessages)
    PROVE  /\ Flat(messages) = JoinedOf(flatOut, messages)
           /\ OpenAIToAnthropic(messages).system =
                 JoinedOf(Within(ownParts, OutMessages, BySystem), messages)
           /\ Joined(Each(OpenAIToAnthropic(messages).turns, LAMBDA m : m.parts)) =
                 JoinedOf(Within(turnParts, OutMessages, ByOthers), messages)
  <1>1. PICK system, others : system = Among(messages, BySystem) /\ others = Among(messages, ByOthers)
    OBVIOUS
  <1>2. system \in Seq(OutMessages) /\ others \in Seq(OutMessages)
    BY <1>1, AmongTyped
  <1>3. /\ \A i \in DOMAIN messages : messages[i] \in OutMessages
        /\ \A i \in DOMAIN system : system[i] \in OutMessages
        /\ \A i \in DOMAIN others : others[i] \in OutMessages
    BY <1>2
  <1>4. /\ Among(messages, {m \in Range(messages) : m.role = "system"}) = system
        /\ Among(messages, {m \in Range(messages) : m.role # "system"}) = others
    BY <1>1, ChosenMessages
  <1>5. Gives(ownParts, OutMessages, Parts) /\ Gives(turnParts, OutMessages, Parts)
    BY WaysToRead
  <1>6. Flat(messages) = JoinedOf(flatOut, messages)
    <2>1. Mapped(flatOut, messages) = [i \in DOMAIN messages |-> messages[i].parts \o messages[i].calls]
      BY <1>3 DEF Mapped, flatOut
    <2>2. QED
      BY <2>1 DEF Flat, Each, JoinedOf
  <1>7. PICK c : c = OpenAIToAnthropic(messages)
    OBVIOUS
  <1>8. c.system = Joined([i \in DOMAIN system |-> system[i].parts])
    BY <1>4, <1>7 DEF OpenAIToAnthropic, Each
  <1>9. c.turns = [i \in DOMAIN others |->
           CASE others[i].role = "tool" -> ToolTurn(others[i])
             [] others[i].role = "assistant" -> AssistantTurn(others[i])
             [] OTHER -> UserTurn(others[i])]
    BY <1>4, <1>7 DEF OpenAIToAnthropic, Each
  <1>10. c.system = JoinedOf(ownParts, system)
    <2>1. Mapped(ownParts, system) = [i \in DOMAIN system |-> system[i].parts]
      BY <1>3 DEF Mapped, ownParts
    <2>2. QED
      BY <1>8, <2>1 DEF JoinedOf
  <1>11. JoinedOf(ownParts, system) = JoinedOf(Within(ownParts, OutMessages, BySystem), messages)
    BY <1>1, <1>5, JoinedOfAmong
  <1>12. JoinedOf(turnParts, others) = JoinedOf(Within(turnParts, OutMessages, ByOthers), messages)
    BY <1>1, <1>5, JoinedOfAmong
  <1>13. [i \in DOMAIN c.turns |-> c.turns[i].parts] = Mapped(turnParts, others)
    <2>1. PICK T : T = c.turns
      OBVIOUS
    <2>2. DOMAIN T = DOMAIN others
      BY <1>9, <2>1
    <2>3. ASSUME NEW i \in DOMAIN others
          PROVE  T[i].parts = turnParts[others[i]]
      <3>1. PICK m \in OutMessages : m = others[i]
        BY <1>3
      <3>2. T[i] = CASE m.role = "tool" -> ToolTurn(m)
                     [] m.role = "assistant" -> AssistantTurn(m)
                     [] OTHER -> UserTurn(m)
        BY <1>9, <2>1, <3>1
      <3>3. turnParts[m] = CASE m.role = "tool" -> m.parts
                             [] m.role = "assistant" -> Only(m.parts, {"text"}) \o m.calls
                             [] OTHER -> m.parts
        BY DEF turnParts
      <3>4. CASE m.role = "tool"
        BY <3>1, <3>2, <3>3, <3>4 DEF ToolTurn
      <3>5. CASE m.role = "assistant"
        <4>1. m.role # "tool"
          BY <3>5
        <4>2. T[i] = AssistantTurn(m)
          BY <3>2, <3>5, <4>1
        <4>3. turnParts[m] = Only(m.parts, {"text"}) \o m.calls
          BY <3>3, <3>5, <4>1, Zenon
        <4>4. PICK b : b = Only(m.parts, {"text"}) \o m.calls
          OBVIOUS
        <4>5. T[i] = [role |-> "assistant", parts |-> b]
          BY <4>2, <4>4 DEF AssistantTurn
        <4>6. turnParts[m] = b
          BY <4>3, <4>4
        <4>7. QED
          BY <3>1, <4>5, <4>6
      <3>6. CASE m.role # "tool" /\ m.role # "assistant"
        BY <3>1, <3>2, <3>3, <3>6 DEF UserTurn
      <3>7. QED
        BY <3>4, <3>5, <3>6
    <2>4. QED
      BY <2>1, <2>2, <2>3 DEF Mapped
  <1>14. Joined(Each(c.turns, LAMBDA m : m.parts)) = JoinedOf(turnParts, others)
    BY <1>13 DEF Each, JoinedOf
  <1>15. QED
    BY <1>6, <1>7, <1>10, <1>11, <1>12, <1>14

(* An input of the Responses protocol arrives.                              *)
LEMMA AnyInputArrives ==
    ASSUME input \in Seq(Items)
    PROVE  InputArrives
  <1>1. PICK messages : messages = ResponsesToOpenAI(input)
    OBVIOUS
  <1>2. messages \in Seq(OutMessages)
    BY <1>1, InputMessages
  <1>3. Flat(messages) = Wanted({"call", "result", "system", "user", "assistant"})
    <2>1. JoinedOf(flatOut, messages) = JoinedOf(wantedOf(AllKinds), input)
      BY <1>1, WaysToRead, InputRead
    <2>2. QED
      BY <1>2, <2>1, CarriedToAnthropic, WantedIsJoined DEF AllKinds
  <1>4. OpenAIToAnthropic(messages).system = Wanted({"system"})
    <2>1. PICK rr, ww : /\ rr = Within(ownParts, OutMessages, BySystem) /\ ww = wantedOf({"system"})
      OBVIOUS
    <2>2. Reads(rr, ww)
      BY <2>1, WaysToRead
    <2>3. JoinedOf(rr, messages) = JoinedOf(ww, input)
      BY <1>1, <2>2, InputRead
    <2>4. QED
      BY <1>2, <2>1, <2>3, CarriedToAnthropic, WantedIsJoined
  <1>5. Joined(Each(OpenAIToAnthropic(messages).turns, LAMBDA m : m.parts)) =
           Wanted({"call", "result", "user", "assistant"})
    <2>1. PICK rr, ww : /\ rr = Within(turnParts, OutMessages, ByOthers)
                        /\ ww = wantedOf({"call", "result", "user", "assistant"})
      OBVIOUS
    <2>2. Reads(rr, ww)
      BY <2>1, WaysToRead
    <2>3. JoinedOf(rr, messages) = JoinedOf(ww, input)
      BY <1>1, <2>2, InputRead
    <2>4. Joined(Each(OpenAIToAnthropic(messages).turns, LAMBDA m : m.parts)) = JoinedOf(rr, messages)
      BY <1>2, <2>1, CarriedToAnthropic
    <2>5. QED
      BY <2>1, <2>3, <2>4, WantedIsJoined
  <1>6. QED
    BY <1>1, <1>3, <1>4, <1>5 DEF InputArrives

-----------------------------------------------------------------------------
(* Answers. *)

(* The last is the first when it is turned round.                           *)
LEMMA ReverseTyped ==
    ASSUME NEW A, NEW s \in Seq(A)
    PROVE  /\ Reverse(s) \in Seq(A)
           /\ s = <<>> <=> Reverse(s) = <<>>
           /\ s # <<>> => Head(Reverse(s)) = Last(s) /\ Last(s) \in A
  <1>1. /\ Len(s) \in Nat /\ \A i \in 1..Len(s) : s[i] \in A
    OBVIOUS
  <1>2. PICK r : r = Reverse(s)
    OBVIOUS
  <1>3. r = [i \in 1..Len(s) |-> s[(Len(s) - i) + 1]]
    BY <1>2 DEF Reverse
  <1>4. \A i \in 1..Len(s) : (Len(s) - i) + 1 \in 1..Len(s)
    BY <1>1
  <1>5. r \in [1..Len(s) -> A]
    BY <1>1, <1>3, <1>4
  <1>6. r \in Seq(A) /\ Len(r) = Len(s)
    BY <1>1, <1>5
  <1>7. s = <<>> <=> r = <<>>
    BY <1>1, <1>6
  <1>8. ASSUME s # <<>>
        PROVE  Head(r) = Last(s) /\ Last(s) \in A
    <2>1. 1 \in 1..Len(s) /\ Len(s) \in 1..Len(s) /\ (Len(s) - 1) + 1 = Len(s)
      BY <1>1, <1>8
    <2>2. r[1] = s[(Len(s) - 1) + 1]
      BY <1>3, <2>1
    <2>3. Head(r) = r[1]
      BY <1>6, <1>7, <1>8
    <2>4. QED
      BY <1>1, <2>1, <2>2, <2>3 DEF Last
  <1>9. QED
    BY <1>2, <1>6, <1>7, <1>8

AnswerParts == OfKinds({"thought", "text", "call"})

(* An answer arrives, whatever it consists of.                              *)
LEMMA AnyAnswerArrives ==
    ASSUME uttered \in Seq(AnswerParts)
    PROVE  AnswerArrives
  <1>1. PICK th, tx, ca, R : /\ th = Only(uttered, {"thought"}) /\ tx = Only(uttered, {"text"})
                             /\ ca = Only(uttered, {"call"}) /\ R = Reverse(th)
    OBVIOUS
  <1>2. uttered \in Seq(Parts)
    BY SomeOfParts DEF AnswerParts
  <1>3. /\ th \in Seq(OfKinds({"thought"})) /\ tx \in Seq(OfKinds({"text"}))
        /\ ca \in Seq(OfKinds({"call"}))
    BY <1>1, <1>2, OnlyTyped
  <1>4. /\ R \in Seq(OfKinds({"thought"})) /\ (th = <<>> <=> R = <<>>)
        /\ th # <<>> => Head(R) = Last(th) /\ Last(th) \in OfKinds({"thought"})
    BY <1>1, <1>3, ReverseTyped
  <1>5. th \in Seq(Parts) /\ tx \in Seq(Parts) /\ ca \in Seq(Parts) /\ R \in Seq(Parts)
    BY <1>3, <1>4, SomeOfParts
  <1>6. <<>> \in Seq(Parts)
    OBVIOUS
  <1>7. <<>> \o tx = tx /\ R \o <<>> = R /\ <<>> \o <<>> = <<>>
    BY <1>5, <1>6, ConcatEmptySeq
  <1>8. Only(R, {"text"}) = <<>> /\ Only(tx, {"thought"}) = <<>> /\ Only(ca, {"thought"}) = <<>>
    BY <1>3, <1>4, OnlyNone
  <1>9. Only(tx, {"text"}) = tx /\ Only(R, {"thought"}) = R
    BY <1>3, <1>4, OnlyAll
  <1>10. Only(R \o tx, {"text"}) = tx
    <2>1. Only(R \o tx, {"text"}) = Only(R, {"text"}) \o Only(tx, {"text"})
      BY <1>5, OnlyConcat
    <2>2. QED
      BY <1>7, <1>8, <1>9, <2>1
  <1>11. Only(R \o tx, {"thought"}) = R
    <2>1. Only(R \o tx, {"thought"}) = Only(R, {"thought"}) \o Only(tx, {"thought"})
      BY <1>5, OnlyConcat
    <2>2. QED
      BY <1>7, <1>8, <1>9, <2>1
  <1>12. PICK m, n, wanted : /\ m = AnthropicAnswerToOpenAI(uttered) /\ n = Stripped(m)
                             /\ wanted = tx \o ca
    OBVIOUS
  <1>13. m = [role |-> "assistant", parts |-> R \o tx, calls |-> ca]
    BY <1>1, <1>12 DEF AnthropicAnswerToOpenAI, Message
  <1>14. m.parts = R \o tx /\ m.calls = ca
    BY <1>13
  <1>15. n.parts = tx /\ n.calls = ca
    BY <1>10, <1>12, <1>13 DEF Stripped
  <1>16. OpenAIAnswerToResponses(n) = OrEmpty(wanted)
    BY <1>12, <1>15 DEF OpenAIAnswerToResponses
  <1>17. PICK U, shown : U = Unless(R = <<>>, <<Head(R)>>) /\ shown = OpenAIAnswerToAnthropic(m)
    OBVIOUS
  <1>18. shown = OrEmpty(U \o tx \o ca)
    BY <1>10, <1>11, <1>14, <1>17 DEF OpenAIAnswerToAnthropic
  <1>19. CASE th = <<>>
    <2>1. U = <<>>
      BY <1>4, <1>17, <1>19 DEF Unless
    <2>2. shown = OrEmpty(wanted)
      BY <1>7, <1>12, <1>18, <2>1
    <2>3. PICK D : D = OfKinds({"text", "call"})
      OBVIOUS
    <2>4. tx \in Seq(D) /\ ca \in Seq(D)
      <3>1. OfKinds({"text"}) \subseteq D /\ OfKinds({"call"}) \subseteq D
        BY <2>3 DEF OfKinds
      <3>2. QED
        BY <1>3, <3>1, SeqMonotonic
    <2>5. wanted \in Seq(D)
      BY <1>12, <2>4, ConcatProperties
    <2>6. PICK t : t = Part("text", 0)
      OBVIOUS
    <2>7. t \in D
      BY <2>3, <2>6 DEF Part, OfKinds, Parts, PartKinds
    <2>8. <<t>> \in Seq(D)
      BY <2>7
    <2>9. shown \in Seq(D)
      BY <2>2, <2>5, <2>6, <2>8 DEF OrEmpty
    <2>10. Only(shown, {"thought"}) = <<>>
      BY <2>3, <2>9, OnlyNone
    <2>11. QED
      BY <1>1, <1>12, <1>16, <1>17, <1>19, <2>2, <2>10 DEF AnswerArrives, Unless
  <1>20. CASE th # <<>>
    <2>1. PICK h \in OfKinds({"thought"}) : h = Last(th)
      BY <1>4, <1>20
    <2>2. U = <<h>>
      BY <1>4, <1>17, <1>20, <2>1 DEF Unless
    <2>3. U \in Seq(OfKinds({"thought"}))
      BY <2>2
    <2>4. U \in Seq(Parts)
      BY <2>3, SomeOfParts
    <2>5. PICK V, W : V = U \o tx /\ W = V \o ca
      OBVIOUS
    <2>6. V \in Seq(Parts) /\ W \in Seq(Parts)
      BY <1>5, <2>4, <2>5, ConcatProperties
    <2>7. Only(U, {"thought"}) = U
      BY <2>3, OnlyAll
    <2>8. Only(V, {"thought"}) = Only(U, {"thought"}) \o Only(tx, {"thought"})
      BY <1>5, <2>4, <2>5, OnlyConcat
    <2>9. Only(W, {"thought"}) = Only(V, {"thought"}) \o Only(ca, {"thought"})
      BY <1>5, <2>5, <2>6, OnlyConcat
    <2>10. U \o <<>> = U
      BY <2>4, ConcatEmptySeq
    <2>11. Only(W, {"thought"}) = U
      BY <1>8, <2>7, <2>8, <2>9, <2>10
    <2>12. W # <<>>
      <3>1. V # <<>>
        BY <1>5, <2>2, <2>4, <2>5, ConcatEqualIffEmpty
      <3>2. QED
        BY <1>5, <2>5, <2>6, <3>1, ConcatEqualIffEmpty
    <2>13. shown = W
      BY <1>18, <2>5, <2>12 DEF OrEmpty
    <2>14. U = <<Last(th)>>
      BY <2>1, <2>2
    <2>15. QED
      BY <1>1, <1>12, <1>16, <1>17, <1>20, <2>11, <2>13, <2>14 DEF AnswerArrives, Unless
  <1>21. QED
    BY <1>19, <1>20

-----------------------------------------------------------------------------
(* Wishes. *)

Wishes == [choice : ToolChoices \ {"nameless"}, extras : SUBSET Extras]

(* What the last conjunct of ConversationKept says of one door and provider. *)
Translated(door, provider) ==
    <<door, provider>> \notin {<<"chat", "openai">>, <<"responses", "openai">>,
                              <<"messages", "anthropic">>}

WishSent(door, provider) ==
    LET said == wish.extras \cap SayableAt(door)
        got  == DispatchedWish(door, provider, [wish EXCEPT !.extras = said])
    IN  /\ \/ got.choice = wish.choice
           \/ wish.choice = "none" /\ Translated(door, provider)
           \/ wish.choice = "tool" /\ door = "responses"
        /\ (said \cap SayableTo(provider)) \ got.extras \subseteq
              IF Translated(door, provider) /\ provider = "anthropic"
              THEN {"user", "hosted", "top_k"} ELSE {}
        /\ provider = "openai" => got.extras \subseteq SayableTo("openai") \cup {"top_k", "hosted"}

(* A wish arrives at each provider from each door.                          *)
LEMMA AnyWishArrives ==
    ASSUME wish \in Wishes
    PROVE  WishArrives
  <1>1. wish.choice # "nameless" /\ wish.extras \subseteq Extras
    BY DEF Wishes
  <1>2. WishSent("chat", "openai")
    <2>1. PICK said : said = wish.extras \cap SayableAt("chat")
      OBVIOUS
    <2>2. said = wish.extras \cap (Extras \ {"hosted"})
      BY <2>1 DEF SayableAt
    <2>3. PICK w : w = [wish EXCEPT !.extras = said]
      OBVIOUS
    <2>4. w = [choice |-> wish.choice, extras |-> said]
      BY <2>3 DEF Wishes
    <2>5. w.choice = wish.choice /\ w.extras = said
      BY <2>4
    <2>6. PICK got : got = DispatchedWish("chat", "openai", w)
      OBVIOUS
    <2>7. got = w
      BY <2>6 DEF DispatchedWish, NativeWish
    <2>8. /\ got.choice = (wish.choice)
          /\ got.extras = said
      BY <2>5, <2>7 DEF AnthropicWish, ResponsesWish, NativeWish, WishToAnthropic
    <2>9. ~Translated("chat", "openai")
      BY DEF Translated
    <2>10. QED
      BY <1>1, <2>1, <2>2, <2>3, <2>6, <2>8, <2>9 DEF WishSent, SayableTo, Extras
  <1>3. WishSent("chat", "anthropic")
    <2>1. PICK said : said = wish.extras \cap SayableAt("chat")
      OBVIOUS
    <2>2. said = wish.extras \cap (Extras \ {"hosted"})
      BY <2>1 DEF SayableAt
    <2>3. PICK w : w = [wish EXCEPT !.extras = said]
      OBVIOUS
    <2>4. w = [choice |-> wish.choice, extras |-> said]
      BY <2>3 DEF Wishes
    <2>5. w.choice = wish.choice /\ w.extras = said
      BY <2>4
    <2>6. PICK got : got = DispatchedWish("chat", "anthropic", w)
      OBVIOUS
    <2>7. got = WishToAnthropic(w)
      BY <2>6 DEF DispatchedWish, NativeWish
    <2>8. /\ got.choice = (IF wish.choice = "none" THEN "unset" ELSE wish.choice)
          /\ got.extras = (said \ {"top_k", "user", "hosted"}) \cup {"limit"}
      BY <2>5, <2>7 DEF AnthropicWish, ResponsesWish, NativeWish, WishToAnthropic
    <2>9. Translated("chat", "anthropic")
      BY DEF Translated
    <2>10. QED
      BY <1>1, <2>1, <2>2, <2>3, <2>6, <2>8, <2>9 DEF WishSent, SayableTo, Extras
  <1>4. WishSent("messages", "openai")
    <2>1. PICK said : said = wish.extras \cap SayableAt("messages")
      OBVIOUS
    <2>2. said = wish.extras \cap (Extras)
      BY <2>1 DEF SayableAt
    <2>3. PICK w : w = [wish EXCEPT !.extras = said]
      OBVIOUS
    <2>4. w = [choice |-> wish.choice, extras |-> said]
      BY <2>3 DEF Wishes
    <2>5. w.choice = wish.choice /\ w.extras = said
      BY <2>4
    <2>6. PICK got : got = DispatchedWish("messages", "openai", w)
      OBVIOUS
    <2>7. got = AnthropicWish(w)
      BY <2>6 DEF DispatchedWish, NativeWish
    <2>8. /\ got.choice = (IF wish.choice = "none" THEN "unset" ELSE wish.choice)
          /\ got.extras = said \ {"hosted"}
      BY <2>5, <2>7 DEF AnthropicWish, ResponsesWish, NativeWish, WishToAnthropic
    <2>9. Translated("messages", "openai")
      BY DEF Translated
    <2>10. QED
      BY <1>1, <2>1, <2>2, <2>3, <2>6, <2>8, <2>9 DEF WishSent, SayableTo, Extras
  <1>5. WishSent("messages", "anthropic")
    <2>1. PICK said : said = wish.extras \cap SayableAt("messages")
      OBVIOUS
    <2>2. said = wish.extras \cap (Extras)
      BY <2>1 DEF SayableAt
    <2>3. PICK w : w = [wish EXCEPT !.extras = said]
      OBVIOUS
    <2>4. w = [choice |-> wish.choice, extras |-> said]
      BY <2>3 DEF Wishes
    <2>5. w.choice = wish.choice /\ w.extras = said
      BY <2>4
    <2>6. PICK got : got = DispatchedWish("messages", "anthropic", w)
      OBVIOUS
    <2>7. got = w
      BY <2>6 DEF DispatchedWish, NativeWish
    <2>8. /\ got.choice = (wish.choice)
          /\ got.extras = said
      BY <2>5, <2>7 DEF AnthropicWish, ResponsesWish, NativeWish, WishToAnthropic
    <2>9. ~Translated("messages", "anthropic")
      BY DEF Translated
    <2>10. QED
      BY <1>1, <2>1, <2>2, <2>3, <2>6, <2>8, <2>9 DEF WishSent, SayableTo, Extras
  <1>6. WishSent("responses", "openai")
    <2>1. PICK said : said = wish.extras \cap SayableAt("responses")
      OBVIOUS
    <2>2. said = wish.extras \cap ({"limit", "warmth", "tools", "hosted"})
      BY <2>1 DEF SayableAt
    <2>3. PICK w : w = [wish EXCEPT !.extras = said]
      OBVIOUS
    <2>4. w = [choice |-> wish.choice, extras |-> said]
      BY <2>3 DEF Wishes
    <2>5. w.choice = wish.choice /\ w.extras = said
      BY <2>4
    <2>6. PICK got : got = DispatchedWish("responses", "openai", w)
      OBVIOUS
    <2>7. got = ResponsesWish(w)
      BY <2>6 DEF DispatchedWish, NativeWish
    <2>8. /\ got.choice = (IF wish.choice = "tool" THEN "nameless" ELSE wish.choice)
          /\ got.extras = said \ {"top_k", "stop", "user"}
      BY <2>5, <2>7 DEF AnthropicWish, ResponsesWish, NativeWish, WishToAnthropic
    <2>9. ~Translated("responses", "openai")
      BY DEF Translated
    <2>10. QED
      BY <1>1, <2>1, <2>2, <2>3, <2>6, <2>8, <2>9 DEF WishSent, SayableTo, Extras
  <1>7. WishSent("responses", "anthropic")
    <2>1. PICK said : said = wish.extras \cap SayableAt("responses")
      OBVIOUS
    <2>2. said = wish.extras \cap ({"limit", "warmth", "tools", "hosted"})
      BY <2>1 DEF SayableAt
    <2>3. PICK w : w = [wish EXCEPT !.extras = said]
      OBVIOUS
    <2>4. w = [choice |-> wish.choice, extras |-> said]
      BY <2>3 DEF Wishes
    <2>5. w.choice = wish.choice /\ w.extras = said
      BY <2>4
    <2>6. PICK got : got = DispatchedWish("responses", "anthropic", w)
      OBVIOUS
    <2>7. got = WishToAnthropic(ResponsesWish(w))
      BY <2>6 DEF DispatchedWish, NativeWish
    <2>8. /\ got.choice = (LET c == IF wish.choice = "tool" THEN "nameless" ELSE wish.choice IN IF c = "none" THEN "unset" ELSE c)
          /\ got.extras = ((said \ {"top_k", "stop", "user"}) \ {"top_k", "user", "hosted"}) \cup {"limit"}
      BY <2>5, <2>7 DEF AnthropicWish, ResponsesWish, NativeWish, WishToAnthropic
    <2>9. Translated("responses", "anthropic")
      BY DEF Translated
    <2>10. QED
      BY <1>1, <2>1, <2>2, <2>3, <2>6, <2>8, <2>9 DEF WishSent, SayableTo, Extras
  <1>8. WishArrives <=> \A door \in {"chat", "messages", "responses"},
                           provider \in {"openai", "anthropic"} : WishSent(door, provider)
    BY DEF WishArrives, WishSent, Translated
  <1>9. QED
    BY <1>2, <1>3, <1>4, <1>5, <1>6, <1>7, <1>8

-----------------------------------------------------------------------------
(* The invariant.  What is said of talk is said of every beginning of it,   *)
(* which is what makes it inductive; of the others any value will do.       *)
TranslateInv ==
    /\ TalkKept(talk) /\ input \in Seq(Items) /\ uttered \in Seq(AnswerParts) /\ wish \in Wishes

(* It holds at first,                                                       *)
LEMMA TranslateStarts == TranslateInit => TranslateInv
  <1> SUFFICES ASSUME TranslateInit PROVE TranslateInv
    OBVIOUS
  <1>1. TalkKept(talk)
    BY TalkStarts DEF TranslateInit
  <1>2. input \in Seq(Items) /\ uttered \in Seq(AnswerParts)
    BY DEF TranslateInit
  <1>3. wish \in Wishes
    BY DEF TranslateInit, Wishes
  <1>4. QED
    BY <1>1, <1>2, <1>3 DEF TranslateInv

(* An item of the input is one of those the invariant speaks of.            *)
LEMMA ItemKeeps ==
    ASSUME input \in Seq(Items), NEW kind \in ItemKinds, NEW n \in 1 .. TalkBound,
           ItemComes(Part(kind, n))
    PROVE  input' \in Seq(Items)
  <1>1. n \in Nat
    BY TranslateAssumption
  <1>2. PICK item : item = Part(kind, n)
    OBVIOUS
  <1>3. item \in Parts
    BY <1>1, <1>2 DEF Part, Parts, ItemKinds, PartKinds
  <1>4. item.kind \in ItemKinds
    BY <1>2 DEF Part
  <1>5. item \in Items
    BY <1>3, <1>4 DEF Items, OfKinds
  <1>6. input' = Append(input, item)
    BY <1>2 DEF ItemComes
  <1>7. QED
    BY <1>5, <1>6, AppendProperties

(* So is a part of an answer.                                               *)
LEMMA AnswerKeeps ==
    ASSUME uttered \in Seq(AnswerParts), NEW kind \in {"thought", "text", "call"},
           ProviderSays(kind)
    PROVE  uttered' \in Seq(AnswerParts)
  <1>1. PICK n \in Nat : n = Len(uttered) + 1
    <2>1. Len(uttered) \in Nat
      BY LenProperties
    <2>2. QED
      BY <2>1
  <1>2. PICK p : p = Part(kind, n)
    OBVIOUS
  <1>3. p \in Parts /\ p.kind \in {"thought", "text", "call"}
    BY <1>1, <1>2 DEF Part, Parts, PartKinds
  <1>4. p \in AnswerParts
    BY <1>3 DEF AnswerParts, OfKinds
  <1>5. uttered' = Append(uttered, p)
    BY <1>1, <1>2 DEF ProviderSays
  <1>6. QED
    BY <1>4, <1>5, AppendProperties

(* and every step keeps it.                                                 *)
LEMMA TranslateKept == TranslateInv /\ [NextTranslate]_translateVars => TranslateInv'
  <1> SUFFICES ASSUME TranslateInv, [NextTranslate]_translateVars PROVE TranslateInv'
    OBVIOUS
  <1>1. /\ TalkKept(talk) /\ input \in Seq(Items) /\ uttered \in Seq(AnswerParts)
        /\ wish \in Wishes
    BY DEF TranslateInv
  <1>2. ASSUME NEW kinds \in Phrasings, UserSays(kinds)
        PROVE  TranslateInv'
    <2>1. TalkKept(talk')
      BY <1>1, <1>2, UserKeeps
    <2>2. input' = input /\ uttered' = uttered /\ wish' = wish
      BY <1>2 DEF UserSays
    <2>3. QED
      BY <1>1, <2>1, <2>2 DEF TranslateInv
  <1>3. ASSUME NEW kinds \in AssistantPhrasings, AssistantSays(kinds)
        PROVE  TranslateInv'
    <2>1. TalkKept(talk')
      BY <1>1, <1>3, AssistantKeeps
    <2>2. input' = input /\ uttered' = uttered /\ wish' = wish
      BY <1>3 DEF AssistantSays
    <2>3. QED
      BY <1>1, <2>1, <2>2 DEF TranslateInv
  <1>4. ASSUME NEW kind \in ItemKinds, NEW n \in 1 .. TalkBound, ItemComes(Part(kind, n))
        PROVE  TranslateInv'
    <2>1. input' \in Seq(Items)
      BY <1>1, <1>4, ItemKeeps
    <2>2. talk' = talk /\ uttered' = uttered /\ wish' = wish
      BY <1>4 DEF ItemComes
    <2>3. QED
      BY <1>1, <2>1, <2>2 DEF TranslateInv
  <1>5. ASSUME NEW kind \in {"thought", "text", "call"}, ProviderSays(kind)
        PROVE  TranslateInv'
    <2>1. uttered' \in Seq(AnswerParts)
      BY <1>1, <1>5, AnswerKeeps
    <2>2. talk' = talk /\ input' = input /\ wish' = wish
      BY <1>5 DEF ProviderSays
    <2>3. QED
      BY <1>1, <2>1, <2>2 DEF TranslateInv
  <1>6. CASE UNCHANGED translateVars
    <2>1. talk' = talk /\ input' = input /\ uttered' = uttered /\ wish' = wish
      BY <1>6 DEF translateVars
    <2>2. QED
      BY <1>1, <2>1 DEF TranslateInv
  <1>7. QED
    BY <1>2, <1>3, <1>4, <1>5, <1>6 DEF NextTranslate, AssistantPhrasings, ItemKinds

(* What the parts of the invariant say of the translations.                 *)
LEMMA TranslateTells == TranslateInv => ConversationKept
  <1> SUFFICES ASSUME TranslateInv PROVE ConversationKept
    OBVIOUS
  <1>1. /\ TalkKept(talk) /\ input \in Seq(Items) /\ uttered \in Seq(AnswerParts)
        /\ wish \in Wishes
    BY DEF TranslateInv
  <1>2. TalkArrives
    BY <1>1, TalkKeptArrives
  <1>3. InputArrives
    BY <1>1, AnyInputArrives
  <1>4. AnswerArrives
    BY <1>1, AnyAnswerArrives
  <1>5. WishArrives
    BY <1>1, AnyWishArrives
  <1>6. QED
    BY <1>2, <1>3, <1>4, <1>5 DEF ConversationKept

(* A conversation of any length, an input and an answer of any length and   *)
(* every wish arrive at a provider of either protocol as ConversationKept   *)
(* says: once, in order, each result behind the call it answers.            *)
THEOREM ConversationsArrive == TranslateSpec => []ConversationKept
  <1>1. TranslateInit => TranslateInv
    BY TranslateStarts
  <1>2. TranslateInv /\ [NextTranslate]_translateVars => TranslateInv'
    BY TranslateKept
  <1>3. TranslateInv => ConversationKept
    BY TranslateTells
  <1>4. QED
    BY <1>1, <1>2, <1>3, PTL DEF TranslateSpec
=============================================================================

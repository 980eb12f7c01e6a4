--------------------------- MODULE ServingProofs ---------------------------
(* Theorems about what happens to a call on its way through the services:   *)
(* the internal calls of the router (InternalCalls), the choice of a model  *)
(* (Classify), the bucket it is counted in (UsageStats), the row it leaves  *)
(* at one of the doors (Doors), how its text is judged (Engine), how a      *)
(* streamed answer is told (AnthropicStream, ResponsesStream) and what is   *)
(* shown of it afterwards (Reports), for every set of requests, texts,      *)
(* rows, configurations and batches, and for every limit, count and price.  *)
EXTENDS AnthropicStream, ResponsesStream, Classify, UsageStats, InternalCalls, Doors,
        Engine, Reports, NumberFacts

-----------------------------------------------------------------------------
(* Internal calls. *)

(* How long ago things were not well: what is under way and not clean, or   *)
(* has opened the breaker, dates it.                                        *)
AsksDated ==
    \A v \in Validations :
       ask[v].stage = "waiting" /\ ~ask[v].clean => quiet <= ask[v].age
FlushDated == flush.stage = "waiting" /\ ~flush.clean => quiet <= flush.age
BreakerDated == breaker.open > 0 => quiet <= CoolDown - breaker.open + AskLimit
OutageDated == ~Well(link) => quiet = 0

(* A row that may still be sent has flushes left. *)
RowsLeft ==
    \A x \in LogRows :
       row[x].place \in {"none", "buffer", "sent"} => row[x].tries <= LogRetries

InternalInv ==
    /\ InternalTypeOK
    /\ AsksDated /\ FlushDated /\ BreakerDated /\ OutageDated /\ RowsLeft

LEMMA InternalNumbers ==
    ASSUME InternalAssumption
    PROVE  /\ AskAttempts \in Nat \ {0} /\ OpenThreshold \in Nat \ {0}
           /\ CoolDown \in Nat \ {0} /\ AskLimit \in Nat /\ FlushLimit \in Nat
           /\ LogRetries \in Nat /\ Ttl \in Nat /\ MaxSkew \in Nat
           /\ Bound \in Nat
  <1>1. /\ AskAttempts \in Nat \ {0} /\ OpenThreshold \in Nat \ {0}
        /\ CoolDown \in Nat \ {0} /\ AskLimit \in Nat /\ FlushLimit \in Nat
        /\ LogRetries \in Nat /\ Ttl \in Nat /\ MaxSkew \in Nat
    BY DEF InternalAssumption
  <1>2. QED
    BY <1>1 DEF Bound

LEMMA InternalInitially ==
    ASSUME InternalAssumption, InternalInit
    PROVE  InternalInv
  <1> USE InternalNumbers
  <1>1. Resting \in Ask /\ Resting.stage = "idle"
    BY DEF Resting, Ask
  <1>2. ask \in [Validations -> Ask] /\ \A v \in Validations : ask[v].stage = "idle"
    BY <1>1 DEF InternalInit
  <1>3. flush \in FlushTask /\ flush.stage = "sleeping"
    BY DEF InternalInit, Sleeping, FlushTask
  <1>4. NoRow \in LogRow /\ NoRow.tries = 0
    BY DEF NoRow, LogRow
  <1>5. row \in [LogRows -> LogRow] /\ \A x \in LogRows : row[x].tries = 0
    BY <1>4 DEF InternalInit
  <1>6. /\ breaker \in [fails : 0..OpenThreshold, open : 0..CoolDown]
        /\ breaker.open = 0
    BY DEF InternalInit
  <1>7. link \in [up : BOOLEAN, sameSecret : BOOLEAN, skew : 0..MaxSkew]
    BY DEF InternalInit
  <1>8. Well(link)
    BY DEF InternalInit, Well, Accepts, Signature
  <1>9. quiet \in 0..Bound
    BY DEF InternalInit
  <1>10. AsksDated /\ FlushDated /\ BreakerDated /\ OutageDated /\ RowsLeft
    BY <1>2, <1>3, <1>5, <1>6, <1>8
    DEF AsksDated, FlushDated, BreakerDated, OutageDated, RowsLeft
  <1>11. QED
    BY <1>2, <1>3, <1>5, <1>6, <1>7, <1>9, <1>10 DEF InternalInv, InternalTypeOK

(* What _record_success and _record_failure leave. *)
LEMMA Recorded ==
    ASSUME InternalAssumption, InternalTypeOK, BreakerDated, UNCHANGED quiet,
           NEW ending \in Endings(FALSE), NEW threshold \in {0, OpenThreshold},
           Record(ending, threshold),
           ending \in {"failed", "garbled"} /\ threshold # 0 => quiet <= AskLimit
    PROVE  /\ breaker' \in [fails : 0..OpenThreshold, open : 0..CoolDown]
           /\ BreakerDated'
  <1> USE InternalNumbers
  <1>1. /\ breaker.fails \in 0..OpenThreshold /\ breaker.open \in 0..CoolDown
        /\ quiet \in Nat
    BY DEF InternalTypeOK
  <1>2. CASE ending \in {"done", "refused", "denied"}
    <2>1. breaker' = [fails |-> 0, open |-> 0]
      BY <1>2 DEF Record, Succeeds, RecordSucceeded
    <2>2. QED
      BY <2>1 DEF BreakerDated
  <1>3. CASE ending = "failed"
    <2>1. RecordFailed(threshold, breaker.fails)
      BY <1>3 DEF Record, Succeeds
    <2>2. PICK count \in 1..OpenThreshold :
             breaker' = [fails |-> count,
                         open |-> IF threshold > 0 /\ count >= threshold
                                  THEN CoolDown ELSE breaker.open]
      BY <1>1, <2>1 DEF RecordFailed
    <2>3. breaker'.fails = count /\ breaker'.open \in {CoolDown, breaker.open}
      BY <2>2
    <2>4. breaker'.open # breaker.open => breaker'.open = CoolDown /\ threshold # 0
      BY <2>2
    <2>5. breaker' \in [fails : 0..OpenThreshold, open : 0..CoolDown]
      BY <1>1, <2>2
    <2>6. BreakerDated'
      BY <1>1, <1>3, <2>3, <2>4 DEF BreakerDated
    <2>7. QED
      BY <2>5, <2>6
  <1>4. CASE ending = "garbled"
    <2>1. breaker' = [fails |-> 1, open |-> IF threshold = 1 THEN CoolDown ELSE 0]
      BY <1>4 DEF Record, Succeeds
    <2>2. /\ breaker'.open \in {CoolDown, 0}
          /\ breaker'.open # 0 => breaker'.open = CoolDown /\ threshold # 0
          /\ breaker' \in [fails : 0..OpenThreshold, open : 0..CoolDown]
      BY <2>1
    <2>3. QED
      BY <1>1, <1>4, <2>2 DEF BreakerDated
  <1>5. QED
    BY <1>2, <1>3, <1>4 DEF Endings

(* A step that changes one validation and keeps the time. *)
LEMMA AskKept ==
    ASSUME InternalAssumption, InternalInv, NEW v \in Validations, NEW new \in Ask,
           ask' = [ask EXCEPT ![v] = new],
           new.stage = "waiting" /\ ~new.clean => quiet <= new.age,
           breaker' \in [fails : 0..OpenThreshold, open : 0..CoolDown],
           BreakerDated',
           UNCHANGED <<flush, row, link, quiet>>
    PROVE  InternalInv'
  <1>1. /\ ask' \in [Validations -> Ask] /\ ask'[v] = new
        /\ \A w \in Validations : w # v => ask'[w] = ask[w]
    BY DEF InternalInv, InternalTypeOK
  <1>2. InternalTypeOK'
    BY <1>1 DEF InternalInv, InternalTypeOK
  <1>3. AsksDated'
    BY <1>1 DEF InternalInv, AsksDated
  <1>4. QED
    BY <1>2, <1>3
    DEF InternalInv, FlushDated, OutageDated, RowsLeft

LEMMA BeginAskSound ==
    ASSUME InternalAssumption, InternalInv, NEW v \in Validations, BeginAsk(v)
    PROVE  InternalInv'
  <1> USE InternalNumbers
  <1>1. PICK new : new = [Resting EXCEPT !.stage = "waiting", !.clean = Well(link)]
    OBVIOUS
  <1>2. /\ new \in Ask /\ new.age = 0 /\ (new.clean <=> Well(link))
        /\ ask' = [ask EXCEPT ![v] = new]
    BY <1>1 DEF Resting, Ask, BeginAsk, Well, Accepts, InternalInv, InternalTypeOK
  <1>3. ~new.clean => quiet <= new.age
    BY <1>2 DEF InternalInv, OutageDated
  <1>4. UNCHANGED <<flush, row, breaker, link, quiet>>
    BY DEF BeginAsk
  <1>5. QED
    BY <1>2, <1>3, <1>4, AskKept DEF InternalInv, InternalTypeOK, BreakerDated

LEMMA AskAgainSound ==
    ASSUME InternalAssumption, InternalInv, NEW v \in Validations, AskAgain(v)
    PROVE  InternalInv'
  <1> USE InternalNumbers
  <1>1. PICK new : new = [stage |-> "waiting", attempt |-> ask[v].attempt + 1,
                          age |-> 0, clean |-> Well(link)]
    OBVIOUS
  <1>2. ask[v].attempt \in 1..AskAttempts /\ ask[v].attempt < AskAttempts
    BY DEF InternalInv, InternalTypeOK, Ask, AskAgain
  <1>3. Well(link) \in BOOLEAN
    BY DEF Well, Accepts, InternalInv, InternalTypeOK
  <1>4. /\ new \in Ask /\ new.age = 0 /\ (new.clean <=> Well(link))
        /\ ask' = [ask EXCEPT ![v] = new]
    BY <1>1, <1>2, <1>3 DEF Ask, AskAgain
  <1>5. ~new.clean => quiet <= new.age
    BY <1>4 DEF InternalInv, OutageDated
  <1>6. UNCHANGED <<flush, row, breaker, link, quiet>>
    BY DEF AskAgain
  <1>7. QED
    BY <1>4, <1>5, <1>6, AskKept DEF InternalInv, InternalTypeOK, BreakerDated

LEMMA EndAskSound ==
    ASSUME InternalAssumption, InternalInv, NEW v \in Validations,
           NEW ending \in Endings(FALSE), EndAsk(v, ending)
    PROVE  InternalInv'
  <1> USE InternalNumbers
  <1>1. Resting \in Ask /\ Resting.stage = "idle"
    BY DEF Resting, Ask
  <1>2. /\ ask[v].stage = "waiting" /\ ending \in Endings(ask[v].clean)
        /\ ask[v] \in Ask
        /\ ask' = [ask EXCEPT ![v] = Resting] /\ Record(ending, OpenThreshold)
        /\ UNCHANGED <<flush, row, link, quiet>>
    BY DEF EndAsk, InternalInv, InternalTypeOK
  <1>3. ending \in {"failed", "garbled"} => quiet <= AskLimit
    <2>1. ending \in {"failed", "garbled"} => ~ask[v].clean
      BY <1>2 DEF Endings
    <2>2. ask[v].age \in 0..AskLimit /\ quiet \in Nat
      BY <1>2 DEF Ask, InternalInv, InternalTypeOK
    <2>3. QED
      BY <1>2, <2>1, <2>2 DEF InternalInv, AsksDated
  <1>4. /\ breaker' \in [fails : 0..OpenThreshold, open : 0..CoolDown]
        /\ BreakerDated'
    BY <1>2, <1>3, Recorded DEF InternalInv
  <1>5. QED
    BY <1>1, <1>2, <1>4, AskKept

-----------------------------------------------------------------------------
(* The rows and the task that flushes. *)
LEMMA RecordRowSound ==
    ASSUME InternalAssumption, InternalInv, NEW x \in LogRows, RecordRow(x)
    PROVE  InternalInv'
  <1> USE InternalNumbers
  <1>1. PICK new : new = [row[x] EXCEPT !.place = "buffer"]
    OBVIOUS
  <1>2. /\ new \in LogRow /\ new.tries = 0 /\ row' = [row EXCEPT ![x] = new]
    <2>1. row[x] = NoRow
      BY DEF RecordRow
    <2>2. row' = [row EXCEPT ![x] = new]
      BY <1>1 DEF RecordRow
    <2>3. NoRow \in LogRow /\ NoRow.tries = 0
      BY DEF NoRow, LogRow
    <2>4. row[x] \in LogRow /\ row[x].tries = 0
      BY <2>1, <2>3
    <2>5. new \in LogRow /\ new.tries = 0
      BY <1>1, <2>4 DEF LogRow
    <2>6. QED
      BY <2>2, <2>5
  <1>3. /\ row' \in [LogRows -> LogRow] /\ row'[x] = new
        /\ \A y \in LogRows : y # x => row'[y] = row[y]
    BY <1>2 DEF InternalInv, InternalTypeOK
  <1>4. UNCHANGED <<ask, flush, breaker, link, quiet>>
    BY DEF RecordRow
  <1>5. RowsLeft'
    BY <1>2, <1>3 DEF InternalInv, RowsLeft
  <1>6. QED
    BY <1>3, <1>4, <1>5
    DEF InternalInv, InternalTypeOK, AsksDated, FlushDated, BreakerDated, OutageDated

(* A step of the task that flushes. *)
LEMMA FlushKept ==
    ASSUME InternalAssumption, InternalInv,
           row' \in [LogRows -> LogRow], RowsLeft',
           flush' \in FlushTask, FlushDated',
           breaker' \in [fails : 0..OpenThreshold, open : 0..CoolDown],
           BreakerDated',
           UNCHANGED <<ask, link, quiet>>
    PROVE  InternalInv'
  <1>1. InternalTypeOK'
    BY DEF InternalInv, InternalTypeOK
  <1>2. AsksDated' /\ OutageDated'
    BY DEF InternalInv, AsksDated, OutageDated
  <1>3. QED
    BY <1>1, <1>2 DEF InternalInv

LEMMA SleepingFlush ==
    ASSUME InternalAssumption, flush' = Sleeping
    PROVE  flush' \in FlushTask /\ FlushDated'
  BY InternalNumbers DEF Sleeping, FlushTask, FlushDated

(* Rows that go back, or are given up. *)
LEMMA ReturnedRows ==
    ASSUME InternalAssumption, InternalInv, NEW batch \in SUBSET LogRows,
           NEW stored \in BOOLEAN,
           \A x \in batch : row[x].place \in {"buffer", "sent"},
           Returned(batch, stored)
    PROVE  /\ row' \in [LogRows -> LogRow] /\ RowsLeft'
           /\ \A x \in LogRows :
                 row'[x].place = "lost" /\ row[x].place # "lost" =>
                    /\ x \in batch /\ row'[x].tries = LogRetries + 1
                    /\ stored => row'[x].stored
  <1> USE InternalNumbers
  <1>1. ASSUME NEW x \in LogRows
        PROVE  /\ row'[x] \in LogRow
               /\ row'[x].place \in {"none", "buffer", "sent"} =>
                     row'[x].tries <= LogRetries
               /\ row'[x].place = "lost" /\ row[x].place # "lost" =>
                    /\ x \in batch /\ row'[x].tries = LogRetries + 1
                    /\ stored => row'[x].stored
    <2>1. row[x] \in LogRow /\ row[x].tries \in 0..LogRetries + 1
          /\ row[x].stored \in BOOLEAN
      BY DEF InternalInv, InternalTypeOK, LogRow
    <2>2. CASE x \notin batch
      <3>1. row'[x] = row[x]
        BY <2>2 DEF Returned
      <3>2. QED
        BY <2>1, <3>1 DEF InternalInv, RowsLeft
    <2>3. CASE x \in batch
      <3>1. row[x].tries <= LogRetries
        BY <2>3 DEF InternalInv, RowsLeft
      <3>2. PICK place \in {"buffer", "lost"} :
               place = IF row[x].tries < LogRetries THEN "buffer" ELSE "lost"
        OBVIOUS
      <3>3. PICK tries \in 0..LogRetries + 1 : tries = row[x].tries + 1
        BY <2>1, <3>1
      <3>4. PICK kept \in BOOLEAN : kept = (row[x].stored \/ stored)
        OBVIOUS
      <3>5. row'[x] = [place |-> place, tries |-> tries, stored |-> kept]
        BY <2>3, <3>2, <3>3, <3>4 DEF Returned
      <3>6. /\ row'[x].place = place /\ row'[x].tries = tries
            /\ row'[x].stored = kept /\ row'[x] \in LogRow
        BY <3>5 DEF LogRow
      <3>7. /\ place = "buffer" => tries <= LogRetries
            /\ place = "lost" => tries = LogRetries + 1
        BY <2>1, <3>1, <3>2, <3>3
      <3>8. stored => kept
        BY <3>4
      <3>9. QED
        BY <2>3, <3>6, <3>7, <3>8
    <2>4. QED
      BY <2>2, <2>3
  <1>2. row' \in [LogRows -> LogRow]
    <2>1. row' = [x \in LogRows |-> row'[x]]
      BY DEF Returned
    <2>2. QED
      BY <1>1, <2>1
  <1>3. QED
    BY <1>1, <1>2 DEF RowsLeft

LEMMA FlushNothingSound ==
    ASSUME InternalAssumption, InternalInv, FlushNothing
    PROVE  InternalInv'
  <1>1. flush' = Sleeping /\ UNCHANGED <<ask, row, breaker, link, quiet>>
    BY DEF FlushNothing
  <1>2. QED
    BY <1>1, SleepingFlush
    DEF InternalInv, InternalTypeOK, AsksDated, BreakerDated, OutageDated, RowsLeft

LEMMA BatchRows ==
    ASSUME NEW place \in {"buffer", "sent"}
    PROVE  /\ Batch(place) \in SUBSET LogRows
           /\ \A x \in Batch(place) : row[x].place \in {"buffer", "sent"}
  BY DEF Batch

LEMMA FlushRefusedSound ==
    ASSUME InternalAssumption, InternalInv, FlushRefused
    PROVE  InternalInv' /\ LosesNearOutage
  <1>1. /\ Open /\ Returned(Batch("buffer"), FALSE) /\ flush' = Sleeping
        /\ UNCHANGED <<ask, breaker, link, quiet>>
    BY DEF FlushRefused
  <1>2. /\ row' \in [LogRows -> LogRow] /\ RowsLeft'
        /\ \A x \in LogRows :
              row'[x].place = "lost" /\ row[x].place # "lost" =>
                 row'[x].tries = LogRetries + 1
    BY <1>1, BatchRows, ReturnedRows
  <1>3. quiet <= CoolDown - breaker.open + AskLimit
    BY <1>1 DEF Open, InternalInv, BreakerDated
  <1>4. LosesNearOutage
    BY <1>1, <1>2, <1>3 DEF LosesNearOutage
  <1>5. InternalInv'
    BY <1>1, <1>2, SleepingFlush, FlushKept
    DEF InternalInv, InternalTypeOK, BreakerDated
  <1>6. QED
    BY <1>4, <1>5

(* A row is on its way, or acknowledged; its flushes are what they were. *)
MovedRow(r, place, stored) == [r EXCEPT !.place = place, !.stored = stored]

LEMMA MovedRows ==
    ASSUME NEW r \in LogRow, NEW place \in {"sent", "acknowledged"},
           NEW stored \in BOOLEAN
    PROVE  /\ MovedRow(r, place, stored) \in LogRow
           /\ MovedRow(r, place, stored).place = place
           /\ MovedRow(r, place, stored).tries = r.tries
  BY DEF LogRow, MovedRow

LEMMA FlushSentSound ==
    ASSUME InternalAssumption, InternalInv, FlushSent
    PROVE  InternalInv'
  <1> USE InternalNumbers
  <1>1. /\ row' = [x \in LogRows |-> IF x \in Batch("buffer")
                                     THEN [row[x] EXCEPT !.place = "sent"] ELSE row[x]]
        /\ flush' = [stage |-> "waiting", age |-> 0, clean |-> Well(link)]
        /\ UNCHANGED <<ask, breaker, link, quiet>>
    BY DEF FlushSent
  <1>2. ASSUME NEW x \in LogRows
        PROVE  /\ row'[x] \in LogRow
               /\ row'[x].place \in {"none", "buffer", "sent"} =>
                     row'[x].tries <= LogRetries
    <2>1. row[x] \in LogRow /\ row[x].stored \in BOOLEAN
      BY DEF InternalInv, InternalTypeOK, LogRow
    <2>2. CASE x \in Batch("buffer")
      <3>1. row'[x] = MovedRow(row[x], "sent", row[x].stored)
        BY <1>1, <2>1, <2>2 DEF MovedRow, LogRow
      <3>2. row[x].tries <= LogRetries
        BY <2>2 DEF Batch, InternalInv, RowsLeft
      <3>3. QED
        BY <2>1, <3>1, <3>2, MovedRows
    <2>3. CASE x \notin Batch("buffer")
      BY <1>1, <2>1, <2>3 DEF InternalInv, RowsLeft
    <2>4. QED
      BY <2>2, <2>3
  <1>3. row' \in [LogRows -> LogRow] /\ RowsLeft'
    BY <1>1, <1>2 DEF RowsLeft
  <1>4. Well(link) \in BOOLEAN
    BY DEF Well, Accepts, InternalInv, InternalTypeOK
  <1>5. flush' \in FlushTask /\ FlushDated'
    BY <1>1, <1>4 DEF FlushTask, FlushDated, InternalInv, OutageDated
  <1>6. QED
    BY <1>1, <1>3, <1>5, FlushKept DEF InternalInv, InternalTypeOK, BreakerDated

LEMMA FlushEndsSound ==
    ASSUME InternalAssumption, InternalInv, NEW ending \in Endings(FALSE),
           FlushEnds(ending)
    PROVE  InternalInv' /\ LosesNearOutage
  <1> USE InternalNumbers
  <1>1. /\ flush.stage = "waiting" /\ ending \in Endings(flush.clean) \ {"refused"}
        /\ flush' = Sleeping /\ Record(ending, 0)
        /\ UNCHANGED <<ask, link, quiet>>
    BY DEF FlushEnds
  <1>2. /\ breaker' \in [fails : 0..OpenThreshold, open : 0..CoolDown]
        /\ BreakerDated'
    BY <1>1, Recorded DEF InternalInv
  <1>3. /\ row' \in [LogRows -> LogRow] /\ RowsLeft' /\ LosesNearOutage
    <2>1. CASE ending = "done"
      <3>1. row' = [x \in LogRows |->
                      IF x \in Batch("sent")
                      THEN [row[x] EXCEPT !.place = "acknowledged", !.stored = TRUE]
                      ELSE row[x]]
        BY <2>1 DEF FlushEnds
      <3>2. ASSUME NEW x \in LogRows
            PROVE  /\ row'[x] \in LogRow
                   /\ row'[x].place \in {"none", "buffer", "sent"} =>
                         row'[x].tries <= LogRetries
                   /\ row'[x].place = "lost" => row[x].place = "lost"
        <4>1. row[x] \in LogRow
          BY DEF InternalInv, InternalTypeOK
        <4>2. CASE x \in Batch("sent")
          <5>1. row'[x] = MovedRow(row[x], "acknowledged", TRUE)
            BY <3>1, <4>2 DEF MovedRow
          <5>2. QED
            BY <4>1, <5>1, MovedRows
        <4>3. CASE x \notin Batch("sent")
          BY <3>1, <4>1, <4>3 DEF InternalInv, RowsLeft
        <4>4. QED
          BY <4>2, <4>3
      <3>3. row' \in [LogRows -> LogRow]
        BY <3>1, <3>2
      <3>4. QED
        BY <3>2, <3>3 DEF RowsLeft, LosesNearOutage
    <2>2. CASE ending # "done"
      <3>1. PICK stored \in BOOLEAN : Returned(Batch("sent"), stored)
        BY <2>2 DEF FlushEnds
      <3>2. /\ row' \in [LogRows -> LogRow] /\ RowsLeft'
            /\ \A x \in LogRows :
                  row'[x].place = "lost" /\ row[x].place # "lost" =>
                     row'[x].tries = LogRetries + 1
        BY <3>1, BatchRows, ReturnedRows
      <3>3. quiet <= FlushLimit
        <4>1. ~flush.clean
          BY <1>1, <2>2 DEF Endings
        <4>2. flush.age \in 0..FlushLimit /\ quiet \in Nat
          BY DEF InternalInv, InternalTypeOK, FlushTask
        <4>3. QED
          BY <1>1, <4>1, <4>2 DEF InternalInv, FlushDated
      <3>4. Open => quiet <= CoolDown - breaker.open + AskLimit
        BY DEF Open, InternalInv, BreakerDated
      <3>5. QED
        BY <3>2, <3>3, <3>4 DEF LosesNearOutage
    <2>3. QED
      BY <2>1, <2>2
  <1>4. InternalInv'
    BY <1>1, <1>2, <1>3, SleepingFlush, FlushKept
  <1>5. QED
    BY <1>3, <1>4

-----------------------------------------------------------------------------
(* Something happens to the link: what is under way is not clean any more   *)
(* when not all is well.                                                    *)
Soiled(a, well) == [a EXCEPT !.clean = IF a.stage = "waiting" THEN @ /\ well ELSE @]

LEMMA SoiledAsks ==
    ASSUME NEW a \in Ask, NEW well \in BOOLEAN
    PROVE  /\ Soiled(a, well) \in Ask
           /\ Soiled(a, well).stage = a.stage /\ Soiled(a, well).age = a.age
           /\ a.stage = "waiting" => (Soiled(a, well).clean <=> a.clean /\ well)
  BY DEF Ask, Soiled

LEMMA SoiledFlush ==
    ASSUME NEW a \in FlushTask, NEW well \in BOOLEAN
    PROVE  /\ Soiled(a, well) \in FlushTask
           /\ Soiled(a, well).stage = a.stage /\ Soiled(a, well).age = a.age
           /\ a.stage = "waiting" => (Soiled(a, well).clean <=> a.clean /\ well)
  BY DEF FlushTask, Soiled

LEMMA LinkTurnsSound ==
    ASSUME InternalAssumption, InternalInv,
           NEW l \in [up : BOOLEAN, sameSecret : BOOLEAN, skew : 0..MaxSkew],
           LinkTurns(l)
    PROVE  InternalInv'
  <1> USE InternalNumbers
  <1>1. PICK well \in BOOLEAN : well = Well(l)
    BY DEF Well, Accepts
  <1>2. /\ link' = l /\ UNCHANGED <<row, breaker>>
        /\ quiet' = IF well THEN quiet ELSE 0
        /\ ask' = [v \in Validations |-> Soiled(ask[v], well)]
        /\ flush' = Soiled(flush, well)
    BY <1>1 DEF LinkTurns, Soiled
  <1>3. /\ quiet \in 0..Bound /\ quiet' \in 0..Bound /\ quiet' <= quiet
        /\ breaker.open \in 0..CoolDown
        /\ flush \in FlushTask /\ flush.age \in Nat
        /\ \A v \in Validations : ask[v] \in Ask /\ ask[v].age \in Nat
    BY <1>2 DEF InternalInv, InternalTypeOK, Ask, FlushTask
  <1>4. ASSUME NEW v \in Validations
        PROVE  /\ ask'[v] \in Ask
               /\ ask'[v].stage = "waiting" /\ ~ask'[v].clean =>
                     quiet' <= ask'[v].age
    <2>1. /\ ask'[v] \in Ask /\ ask'[v].stage = ask[v].stage
          /\ ask'[v].age = ask[v].age
          /\ ask[v].stage = "waiting" => (ask'[v].clean <=> ask[v].clean /\ well)
      BY <1>2, <1>3, SoiledAsks, SMTT(30)
    <2>2. ask[v].stage = "waiting" /\ ~ask[v].clean => quiet <= ask[v].age
      BY DEF InternalInv, AsksDated
    <2>3. ~well => quiet' = 0
      BY <1>2
    <2>4. QED
      BY <1>3, <2>1, <2>2, <2>3
  <1>5. ask' \in [Validations -> Ask] /\ AsksDated'
    BY <1>2, <1>4 DEF AsksDated
  <1>6. flush' \in FlushTask /\ FlushDated'
    <2>1. /\ flush' \in FlushTask /\ flush'.stage = flush.stage
          /\ flush'.age = flush.age
          /\ flush.stage = "waiting" => (flush'.clean <=> flush.clean /\ well)
      BY <1>2, <1>3, SoiledFlush
    <2>2. flush.stage = "waiting" /\ ~flush.clean => quiet <= flush.age
      BY DEF InternalInv, FlushDated
    <2>3. ~well => quiet' = 0
      BY <1>2
    <2>4. QED
      BY <1>3, <2>1, <2>2, <2>3 DEF FlushDated
  <1>7. BreakerDated'
    BY <1>2, <1>3 DEF InternalInv, BreakerDated
  <1>8. OutageDated'
    BY <1>1, <1>2 DEF OutageDated
  <1>9. RowsLeft'
    BY <1>2 DEF InternalInv, RowsLeft
  <1>10. InternalTypeOK'
    BY <1>2, <1>3, <1>5, <1>6 DEF InternalInv, InternalTypeOK
  <1>11. QED
    BY <1>5, <1>6, <1>7, <1>8, <1>9, <1>10 DEF InternalInv

(* An interval ends: what waits is older, and so is every outage.           *)
Older(a, age) == [a EXCEPT !.age = age]

LEMMA IntervalEndsSound ==
    ASSUME InternalAssumption, InternalInv, IntervalEnds
    PROVE  InternalInv'
  <1> USE InternalNumbers
  <1>1. /\ quiet \in 0..Bound /\ breaker.open \in 0..CoolDown
        /\ breaker.fails \in 0..OpenThreshold
        /\ flush \in FlushTask /\ flush.age \in 0..FlushLimit
        /\ \A v \in Validations : ask[v] \in Ask /\ ask[v].age \in 0..AskLimit
    BY DEF InternalInv, InternalTypeOK, Ask, FlushTask
  <1>2. /\ quiet' \in 0..Bound /\ quiet' <= quiet + 1
        /\ ~Well(link) => quiet' = 0
    BY <1>1 DEF IntervalEnds
  <1>3. UNCHANGED <<row, link>>
    BY DEF IntervalEnds
  <1>4. ASSUME NEW v \in Validations
        PROVE  /\ ask'[v] \in Ask
               /\ ask'[v].stage = "waiting" /\ ~ask'[v].clean =>
                     quiet' <= ask'[v].age
    <2>1. PICK age \in 0..AskLimit :
             age = IF ask[v].stage = "waiting" THEN ask[v].age + 1 ELSE ask[v].age
      BY <1>1 DEF IntervalEnds
    <2>2. ask'[v] = Older(ask[v], age)
      BY <2>1 DEF IntervalEnds, Older
    <2>3. /\ ask'[v] \in Ask /\ ask'[v].stage = ask[v].stage
          /\ ask'[v].clean = ask[v].clean /\ ask'[v].age = age
      BY <1>1, <2>2 DEF Ask, Older
    <2>4. ask[v].stage = "waiting" /\ ~ask[v].clean => quiet <= ask[v].age
      BY DEF InternalInv, AsksDated
    <2>5. QED
      BY <1>1, <1>2, <2>1, <2>3, <2>4
  <1>5. ask' \in [Validations -> Ask] /\ AsksDated'
    <2>1. ask' = [v \in Validations |-> ask'[v]]
      BY DEF IntervalEnds
    <2>2. QED
      BY <1>4, <2>1 DEF AsksDated
  <1>6. flush' \in FlushTask /\ FlushDated'
    <2>1. CASE flush.stage = "sleeping"
      <3>1. flush' = [flush EXCEPT !.stage = "due"]
        BY <2>1 DEF IntervalEnds
      <3>2. flush' \in FlushTask /\ flush'.stage = "due"
        BY <1>1, <3>1 DEF FlushTask
      <3>3. QED
        BY <3>2 DEF FlushDated
    <2>2. CASE flush.stage # "sleeping"
      <3>1. PICK age \in 0..FlushLimit : age = flush.age + 1
        BY <1>1 DEF IntervalEnds
      <3>2. flush' = Older(flush, age) /\ flush.stage = "waiting"
        BY <1>1, <2>2, <3>1 DEF IntervalEnds, Older, FlushTask
      <3>3. /\ flush' \in FlushTask /\ flush'.clean = flush.clean
            /\ flush'.age = flush.age + 1
        BY <1>1, <3>1, <3>2 DEF FlushTask, Older
      <3>4. ~flush.clean => quiet <= flush.age
        BY <3>2 DEF InternalInv, FlushDated
      <3>5. QED
        BY <1>1, <1>2, <3>3, <3>4 DEF FlushDated
    <2>3. QED
      BY <2>1, <2>2
  <1>7. /\ breaker' \in [fails : 0..OpenThreshold, open : 0..CoolDown]
        /\ BreakerDated'
    <2>1. PICK open \in 0..CoolDown :
             open = IF breaker.open > 0 THEN breaker.open - 1 ELSE 0
      BY <1>1
    <2>2. breaker' = [breaker EXCEPT !.open = open]
      BY <2>1 DEF IntervalEnds
    <2>3. /\ breaker' \in [fails : 0..OpenThreshold, open : 0..CoolDown]
          /\ breaker'.open = open
      BY <2>2 DEF InternalInv, InternalTypeOK
    <2>4. breaker.open > 0 => quiet <= CoolDown - breaker.open + AskLimit
      BY DEF InternalInv, BreakerDated
    <2>5. open > 0 => breaker.open > 0 /\ open = breaker.open - 1
      BY <2>1
    <2>6. open > 0 => quiet' <= CoolDown - open + AskLimit
      BY <1>1, <1>2, <2>4, <2>5
    <2>7. QED
      BY <2>3, <2>6 DEF BreakerDated
  <1>8. OutageDated' /\ RowsLeft'
    BY <1>2, <1>3 DEF InternalInv, OutageDated, RowsLeft
  <1>9. InternalTypeOK'
    BY <1>2, <1>3, <1>5, <1>6, <1>7 DEF InternalInv, InternalTypeOK
  <1>10. QED
    BY <1>5, <1>6, <1>7, <1>8, <1>9 DEF InternalInv

LEMMA InternalStep ==
    ASSUME InternalAssumption, InternalInv, [NextInternal]_internalVars
    PROVE  InternalInv' /\ [LosesNearOutage]_internalVars
  <1>1. CASE UNCHANGED internalVars
    BY <1>1
    DEF internalVars, InternalInv, InternalTypeOK, AsksDated, FlushDated,
        BreakerDated, OutageDated, RowsLeft
  <1>2. ASSUME row' = row
        PROVE  LosesNearOutage
    BY <1>2 DEF LosesNearOutage
  <1>3. ASSUME NEW v \in Validations, BeginAsk(v)
        PROVE  InternalInv' /\ LosesNearOutage
    BY <1>2, <1>3, BeginAskSound DEF BeginAsk
  <1>4. ASSUME NEW v \in Validations, AskAgain(v)
        PROVE  InternalInv' /\ LosesNearOutage
    BY <1>2, <1>4, AskAgainSound DEF AskAgain
  <1>5. ASSUME NEW v \in Validations, NEW ending \in Endings(FALSE),
               EndAsk(v, ending)
        PROVE  InternalInv' /\ LosesNearOutage
    BY <1>2, <1>5, EndAskSound DEF EndAsk
  <1>6. ASSUME NEW x \in LogRows, RecordRow(x)
        PROVE  InternalInv' /\ LosesNearOutage
    <2>1. \A y \in LogRows : row'[y].place = "lost" => row[y].place = "lost"
      BY <1>6 DEF RecordRow, InternalInv, InternalTypeOK, LogRow
    <2>2. QED
      BY <1>6, <2>1, RecordRowSound DEF LosesNearOutage
  <1>7. CASE FlushNothing
    BY <1>2, <1>7, FlushNothingSound DEF FlushNothing
  <1>8. CASE FlushRefused
    BY <1>8, FlushRefusedSound
  <1>9. CASE FlushSent
    <2>1. \A y \in LogRows : row'[y].place = "lost" => row[y].place = "lost"
      BY <1>9 DEF FlushSent, InternalInv, InternalTypeOK, LogRow
    <2>2. QED
      BY <1>9, <2>1, FlushSentSound DEF LosesNearOutage
  <1>10. ASSUME NEW ending \in Endings(FALSE), FlushEnds(ending)
         PROVE  InternalInv' /\ LosesNearOutage
    BY <1>10, FlushEndsSound
  <1>11. ASSUME NEW up \in BOOLEAN, NEW same \in BOOLEAN, NEW skew \in 0..MaxSkew,
                LinkTurns([up |-> up, sameSecret |-> same, skew |-> skew])
         PROVE  InternalInv' /\ LosesNearOutage
    <2>1. PICK l \in [up : BOOLEAN, sameSecret : BOOLEAN, skew : 0..MaxSkew] :
             LinkTurns(l)
      BY <1>11
    <2>2. QED
      BY <1>2, <2>1, LinkTurnsSound DEF LinkTurns
  <1>12. CASE IntervalEnds
    BY <1>2, <1>12, IntervalEndsSound DEF IntervalEnds
  <1>13. QED
    BY <1>1, <1>3, <1>4, <1>5, <1>6, <1>7, <1>8, <1>9, <1>10, <1>11, <1>12
    DEF NextInternal

(* A row of the call log that user-service does not have is given up only   *)
(* after all its flushes, and only near a time when not all was well: as    *)
(* long after it as one flush may wait, or, while the breaker is open, as   *)
(* long as its cool-down has lasted and one attempt before it may wait.     *)
THEOREM RowsLostNearOutages == InternalSpec => []InternalTypeOK /\ LostOnlyNearOutage
  <1>1. InternalInv /\ [NextInternal]_internalVars => [LosesNearOutage]_internalVars
    BY InternalStep, InternalAssumption
  <1>2. InternalInv /\ [NextInternal]_internalVars => InternalInv'
    BY InternalStep, InternalAssumption
  <1>3. InternalInv => InternalTypeOK
    BY DEF InternalInv
  <1>4. InternalInit => InternalInv
    BY InternalInitially, InternalAssumption
  <1>5. QED
    BY <1>1, <1>2, <1>3, <1>4, PTL DEF InternalSpec, LostOnlyNearOutage

-----------------------------------------------------------------------------
(* The hourly bucket. *)

Tally == [stage : {"idle", "settled", "read"}, calls : SUBSET Logged,
          found : BOOLEAN, read : Nat]

(* The calls that count, and what the bucket may count at most. *)
Counted == {c \in Logged : worth[c] > 0}
UsageBound == SumOf(worth, Logged)

(* As long as nothing was rolled back, what counts has a row, and so has    *)
(* what is still to be counted.                                             *)
CallsThere ==
    ~overlap =>
       /\ \A c \in Counted : outcome[c] # "absent"
       /\ \A w \in Writers : \A c \in tally[w].calls : outcome[c] # "absent"

(* Nothing that was read counts more than what may be counted. *)
ReadsBounded ==
    /\ bucket.count <= UsageBound
    /\ \A w \in Writers : Reading(w) => tally[w].read <= UsageBound

(* Without an overlap, what was read is what is there.                      *)
ReadsFresh ==
    ~overlap =>
       /\ Cardinality(Counted) <= bucket.count
       /\ \A w \in Writers : Reading(w) => tally[w].read = bucket.count /\ Alone(w)
       /\ Reading(HourlyJob) => Counted \subseteq tally[HourlyJob].calls

UsageInv == UsageTypeOK /\ CallsThere /\ ReadsBounded /\ ReadsFresh

LEMMA SomeLogged ==
    ASSUME UsageAssumption, NEW S \in SUBSET Logged
    PROVE  IsFiniteSet(S) /\ Cardinality(S) \in Nat
  <1>1. IsFiniteSet(S)
    BY FS_Subset DEF UsageAssumption
  <1>2. QED
    BY <1>1, FS_CardinalityType

LEMMA UsageRanges ==
    ASSUME UsageAssumption, UsageTypeOK
    PROVE  /\ Counted \in SUBSET Logged /\ Cardinality(Counted) \in Nat
           /\ worth \in [Logged -> Nat] /\ UsageBound \in Nat /\ bucket.count \in Nat
           /\ bucket.there \in BOOLEAN
           /\ tally \in [Writers -> Tally]
           /\ \A w \in Writers : tally[w].calls \in SUBSET Logged /\ tally[w].read \in Nat
  <1>1. Counted \in SUBSET Logged
    BY DEF Counted
  <1>2. Cardinality(Counted) \in Nat
    BY <1>1, SomeLogged
  <1>3. worth \in [Logged -> Nat]
    BY DEF UsageTypeOK
  <1>4. UsageBound \in Nat
    BY <1>3, SumAtLeast DEF UsageBound, UsageAssumption
  <1>5. bucket.count \in Nat /\ bucket.there \in BOOLEAN /\ tally \in [Writers -> Tally]
    BY DEF UsageTypeOK, Tally
  <1>6. QED
    BY <1>1, <1>2, <1>3, <1>4, <1>5 DEF Tally

(* One for each member of a part, and the same on top of other values.      *)
LEMMA OnesCount ==
    ASSUME NEW S, IsFiniteSet(S), NEW A \in SUBSET S, NEW e,
           e = [x \in S |-> IF x \in A THEN 1 ELSE 0]
    PROVE  /\ \A x \in S : e[x] \in Int
           /\ SumOf(e, S) = Cardinality(A) /\ Cardinality(A) \in Nat
  <1>1. IsFiniteSet(A)
    BY FS_Subset
  <1>2. Cardinality(A) \in Nat
    BY <1>1, FS_CardinalityType
  <1>3. (\A x \in S : e[x] \in Int) /\ (\A x \in S \ A : e[x] = 0)
    OBVIOUS
  <1>4. SumOf(e, S) = SumOf(e, A)
    BY <1>3, SumNarrows
  <1>5. Cardinality(A) = SumOf(e, A)
    BY <1>1, CountIsSum
  <1>6. QED
    BY <1>2, <1>3, <1>4, <1>5

LEMMA OnesOnTop ==
    ASSUME NEW S, IsFiniteSet(S), NEW A \in SUBSET S, NEW f \in [S -> Nat], NEW g,
           g = [x \in S |-> IF x \in A THEN f[x] + 1 ELSE f[x]]
    PROVE  SumOf(g, S) = SumOf(f, S) + Cardinality(A)
  <1>1. PICK e : e = [x \in S |-> IF x \in A THEN 1 ELSE 0]
    OBVIOUS
  <1>2. (\A x \in S : e[x] \in Int) /\ SumOf(e, S) = Cardinality(A)
    BY <1>1, OnesCount
  <1>3. \A x \in S : f[x] \in Int /\ g[x] = f[x] + e[x]
    BY <1>1
  <1>4. SumOf(g, S) = SumOf(f, S) + SumOf(e, S)
    BY <1>2, <1>3, SumAdds
  <1>5. QED
    BY <1>2, <1>4

LEMMA OnesBelow ==
    ASSUME NEW S, IsFiniteSet(S), NEW A \in SUBSET S, NEW f \in [S -> Nat],
           \A x \in A : f[x] > 0
    PROVE  Cardinality(A) <= SumOf(f, S)
  <1>1. PICK e : e = [x \in S |-> IF x \in A THEN 1 ELSE 0]
    OBVIOUS
  <1>2. (\A x \in S : e[x] \in Int) /\ SumOf(e, S) = Cardinality(A)
    BY <1>1, OnesCount
  <1>3. \A x \in S : f[x] \in Int /\ e[x] <= f[x]
    BY <1>1
  <1>4. SumOf(e, S) <= SumOf(f, S)
    BY <1>2, <1>3, SumGrows
  <1>5. QED
    BY <1>2, <1>4

(* Calls that are counted besides add what they are, or less. *)
LEMMA CountsAtMost ==
    ASSUME UsageAssumption, NEW S \in SUBSET Logged, NEW T \in SUBSET Logged
    PROVE  /\ Cardinality(S) \in Nat /\ Cardinality(T) \in Nat
           /\ Cardinality(S \cup T) \in Nat
           /\ Cardinality(S \cup T) <= Cardinality(S) + Cardinality(T)
  <1>1. PICK R \in SUBSET Logged : R = T \ S
    OBVIOUS
  <1>2. /\ IsFiniteSet(S) /\ IsFiniteSet(T) /\ IsFiniteSet(R)
        /\ Cardinality(S) \in Nat /\ Cardinality(T) \in Nat /\ Cardinality(R) \in Nat
    BY SomeLogged
  <1>3. Cardinality(S \cup R) = Cardinality(S) + Cardinality(R)
    BY <1>1, <1>2, CountOfBoth, S \cap R = {}
  <1>4. Cardinality(R) <= Cardinality(T)
    BY <1>1, <1>2, FS_Subset
  <1>5. Cardinality(S \cup T) = Cardinality(S) + Cardinality(R)
    BY <1>1, <1>3, S \cup R = S \cup T
  <1>6. QED
    BY <1>2, <1>4, <1>5

LEMMA TallyKept ==
    ASSUME UsageTypeOK, NEW w \in Writers, NEW t \in Tally,
           tally' = [tally EXCEPT ![w] = t]
    PROVE  /\ tally' \in [Writers -> Tally] /\ tally'[w] = t
           /\ \A v \in Writers : v # w => tally'[v] = tally[v]
  BY DEF UsageTypeOK, Tally

LEMMA NoTallies ==
    NoTally \in Tally /\ NoTally.calls = {} /\ NoTally.stage = "idle"
  BY DEF NoTally, Tally

LEMMA UsageInitially ==
    ASSUME UsageAssumption, UsageInit
    PROVE  UsageInv
  <1>1. /\ tally \in [Writers -> Tally]
        /\ \A w \in Writers : tally[w].calls = {} /\ tally[w].stage = "idle"
    BY NoTallies DEF UsageInit
  <1>2. /\ overlap = FALSE /\ worth = [c \in Logged |-> 0]
        /\ bucket.count = 0 /\ bucket \in [there : BOOLEAN, count : Nat]
    BY DEF UsageInit
  <1>3. UsageTypeOK
    <2>1. /\ outcome \in [Logged -> {"absent", "open", "settled"}]
          /\ ran \in 0..JobBudget /\ came \in 0..BatchBudget
      BY DEF UsageInit, UsageAssumption
    <2>2. overlap \in BOOLEAN /\ worth \in [Logged -> Nat]
      BY <1>2
    <2>3. QED
      BY <1>1, <1>2, <2>1, <2>2 DEF UsageTypeOK, Tally
  <1>4. Counted = {} /\ Cardinality({}) = 0
    BY <1>2, FS_EmptySet DEF Counted
  <1>5. \A w \in Writers : ~Reading(w)
    BY <1>1 DEF Reading
  <1>6. HourlyJob \in Writers /\ Batches \subseteq Writers
    BY DEF Writers
  <1>7. CallsThere
    BY <1>1, <1>4, <1>6 DEF CallsThere
  <1>8. UsageBound \in Nat
    BY <1>3, UsageRanges
  <1>9. ReadsBounded /\ ReadsFresh
    BY <1>2, <1>4, <1>5, <1>6, <1>8 DEF ReadsBounded, ReadsFresh
  <1>10. QED
    BY <1>3, <1>7, <1>9 DEF UsageInv

(* The first commits: what counts, and who reads what, stays.               *)
LEMMA ReadsStay ==
    ASSUME ReadsBounded, ReadsFresh, UNCHANGED <<bucket, worth>>, overlap' = FALSE => ~overlap,
           overlap' \in BOOLEAN,
           \A v \in Writers : /\ Reading(v)' <=> Reading(v)
                              /\ Reading(v) => tally'[v] = tally[v]
    PROVE  ReadsBounded' /\ ReadsFresh'
  <1>1. Counted' = Counted /\ UsageBound' = UsageBound
    BY DEF Counted, UsageBound
  <1>2. ReadsBounded'
    BY <1>1 DEF ReadsBounded
  <1>3. HourlyJob \in Writers
    BY DEF Writers
  <1>4. \A v \in Writers : Alone(v)' <=> Alone(v)
    BY DEF Alone
  <1>5. ReadsFresh'
    BY <1>1, <1>3, <1>4 DEF ReadsFresh
  <1>6. QED
    BY <1>2, <1>5

LEMMA OpenCallSound ==
    ASSUME UsageAssumption, UsageInv, NEW c \in Logged, OpenCall(c)
    PROVE  UsageInv'
  <1>1. /\ outcome[c] = "absent" /\ outcome' = [outcome EXCEPT ![c] = "open"]
        /\ UNCHANGED <<bucket, tally, ran, came, worth, overlap>>
    BY DEF OpenCall
  <1>2. UsageTypeOK'
    BY <1>1 DEF UsageInv, UsageTypeOK, Writers
  <1>3. /\ outcome'[c] = "open"
        /\ \A d \in Logged : d # c => outcome'[d] = outcome[d]
    BY <1>1 DEF UsageInv, UsageTypeOK
  <1>4. CallsThere'
    <2>1. \A d \in Logged : outcome[d] # "absent" => outcome'[d] # "absent"
      BY <1>1, <1>3
    <2>2. /\ \A w \in Writers : tally[w].calls \subseteq Logged
          /\ Counted \subseteq Logged /\ Counted' = Counted
      BY <1>1, UsageRanges DEF UsageInv, Counted
    <2>3. QED
      BY <1>1, <2>1, <2>2 DEF UsageInv, CallsThere
  <1>5. \A v \in Writers : /\ Reading(v)' <=> Reading(v)
                           /\ Reading(v) => tally'[v] = tally[v]
    BY <1>1 DEF Reading
  <1>6. ReadsBounded' /\ ReadsFresh'
    BY <1>1, <1>2, <1>5, ReadsStay DEF UsageInv, UsageTypeOK
  <1>7. QED
    BY <1>2, <1>4, <1>6 DEF UsageInv

(* A batch that arrives. *)
LEMMA ArrivesSound ==
    ASSUME UsageAssumption, UsageTypeOK, NEW w \in Batches, NEW calls \in SUBSET Logged,
           Arrives(w, calls), Tallying(w, calls) \/ UNCHANGED tally
    PROVE  /\ tally' \in [Writers -> Tally] /\ came' \in 0..BatchBudget
           /\ \A v \in Writers : /\ Reading(v)' <=> Reading(v)
                                 /\ Reading(v) => tally'[v] = tally[v]
           /\ tally'[w].calls \subseteq calls
           /\ \A v \in Writers : v # w => tally'[v] = tally[v]
  <1>1. w \in Writers
    BY DEF Writers
  <1>2. PICK t : t = [NoTally EXCEPT !.stage = "settled", !.calls = calls]
    OBVIOUS
  <1>3. t \in Tally /\ t.calls = calls /\ t.stage = "settled"
    BY <1>2 DEF NoTally, Tally
  <1>4. tally[w] = NoTally
    BY DEF Arrives
  <1>5. came' \in 0..BatchBudget
    BY DEF Arrives, UsageTypeOK, UsageAssumption
  <1>6. CASE Tallying(w, calls)
    <2>1. tally' = [tally EXCEPT ![w] = t]
      BY <1>2, <1>6 DEF Tallying
    <2>2. /\ tally' \in [Writers -> Tally] /\ tally'[w] = t
          /\ \A v \in Writers : v # w => tally'[v] = tally[v]
      BY <1>1, <1>3, <2>1, TallyKept
    <2>3. \A v \in Writers : /\ Reading(v)' <=> Reading(v)
                             /\ Reading(v) => tally'[v] = tally[v]
      BY <1>3, <1>4, <2>2, NoTallies DEF Reading
    <2>4. QED
      BY <1>3, <1>5, <2>2, <2>3
  <1>7. CASE UNCHANGED tally
    <2>1. tally' \in [Writers -> Tally]
      BY <1>7, UsageRanges
    <2>2. QED
      BY <1>1, <1>4, <1>5, <1>7, <2>1, NoTallies DEF Reading
  <1>8. QED
    BY <1>6, <1>7

LEMMA SettledIs ==
    ASSUME UsageTypeOK, NEW calls \in SUBSET Logged, outcome' = Settled(calls)
    PROVE  /\ outcome' \in [Logged -> {"absent", "open", "settled"}]
           /\ \A d \in Logged : /\ outcome[d] # "absent" => outcome'[d] # "absent"
                                /\ d \in calls => outcome'[d] = "settled"
  BY DEF UsageTypeOK, Settled

LEMMA SettleCallsSound ==
    ASSUME UsageAssumption, UsageInv, NEW w \in Batches, NEW calls \in SUBSET Logged,
           SettleCalls(w, calls)
    PROVE  UsageInv'
  <1>1. /\ Arrives(w, calls) /\ Tallying(w, calls) /\ outcome' = Settled(calls)
        /\ UNCHANGED <<bucket, ran, worth, overlap>>
    BY DEF SettleCalls
  <1>2. /\ tally' \in [Writers -> Tally] /\ came' \in 0..BatchBudget
        /\ \A v \in Writers : /\ Reading(v)' <=> Reading(v)
                              /\ Reading(v) => tally'[v] = tally[v]
        /\ tally'[w].calls \subseteq calls
        /\ \A v \in Writers : v # w => tally'[v] = tally[v]
    BY <1>1, ArrivesSound DEF UsageInv
  <1>3. /\ outcome' \in [Logged -> {"absent", "open", "settled"}]
        /\ \A d \in Logged : /\ outcome[d] # "absent" => outcome'[d] # "absent"
                             /\ d \in calls => outcome'[d] = "settled"
    BY <1>1, SettledIs DEF UsageInv
  <1>4. UsageTypeOK'
    BY <1>1, <1>2, <1>3 DEF UsageInv, UsageTypeOK, Tally
  <1>5. CallsThere'
    <2>1. SUFFICES ASSUME ~overlap PROVE CallsThere'
      BY <1>1 DEF CallsThere
    <2>2. Counted' = Counted /\ Counted \subseteq Logged
      BY <1>1 DEF Counted
    <2>3. \A c \in Counted' : outcome'[c] # "absent"
      BY <1>3, <2>1, <2>2 DEF UsageInv, CallsThere
    <2>4. ASSUME NEW v \in Writers, NEW c \in tally'[v].calls
          PROVE  outcome'[c] # "absent"
      <3>1. CASE v = w
        BY <1>2, <1>3, <2>4, <3>1
      <3>2. CASE v # w
        <4>1. tally'[v] = tally[v]
          BY <1>2, <3>2
        <4>2. c \in Logged /\ outcome[c] # "absent"
          BY <2>1, <2>4, <4>1, UsageRanges DEF UsageInv, CallsThere
        <4>3. QED
          BY <1>3, <4>2
      <3>3. QED
        BY <3>1, <3>2
    <2>5. QED
      BY <2>3, <2>4 DEF CallsThere
  <1>6. ReadsBounded' /\ ReadsFresh'
    BY <1>1, <1>2, <1>4, ReadsStay DEF UsageInv, UsageTypeOK
  <1>7. QED
    BY <1>4, <1>5, <1>6 DEF UsageInv

(* Entries that are rolled back are excused from here on. *)
LEMMA SettleClashingSound ==
    ASSUME UsageAssumption, UsageInv, NEW w \in Batches, NEW calls \in SUBSET Logged,
           NEW lost \in SUBSET calls, SettleClashing(w, calls, lost)
    PROVE  UsageInv'
  <1>1. /\ Arrives(w, calls)
        /\ Tallying(w, calls) \/ UNCHANGED tally
        /\ outcome' = Settled(calls \ lost) /\ overlap' = TRUE
        /\ UNCHANGED <<bucket, ran, worth>>
    BY DEF SettleClashing
  <1>2. /\ tally' \in [Writers -> Tally] /\ came' \in 0..BatchBudget
        /\ \A v \in Writers : /\ Reading(v)' <=> Reading(v)
                              /\ Reading(v) => tally'[v] = tally[v]
    BY <1>1, ArrivesSound DEF UsageInv
  <1>3. outcome' \in [Logged -> {"absent", "open", "settled"}]
    BY <1>1, SettledIs, calls \ lost \in SUBSET Logged DEF UsageInv
  <1>4. UsageTypeOK'
    <2>1. overlap' \in BOOLEAN
      BY <1>1
    <2>2. QED
      BY <1>1, <1>2, <1>3, <2>1 DEF UsageInv, UsageTypeOK, Tally
  <1>5. CallsThere'
    BY <1>1 DEF CallsThere
  <1>6. ReadsBounded' /\ ReadsFresh'
    BY <1>1, <1>2, <1>4, ReadsStay DEF UsageInv, UsageTypeOK
  <1>7. QED
    BY <1>4, <1>5, <1>6 DEF UsageInv

(* The calls of one writer are what they were, let go, or read. *)
LEMMA ThereStill ==
    ASSUME UsageAssumption, CallsThere, UsageTypeOK, NEW w \in Writers, NEW t \in Tally,
           tally' = [tally EXCEPT ![w] = t],
           t.calls \subseteq tally[w].calls \/ \A c \in t.calls : outcome[c] # "absent",
           ~overlap' => ~overlap, UNCHANGED <<outcome, worth>>
    PROVE  CallsThere'
  <1>1. /\ tally'[w] = t
        /\ \A v \in Writers : v # w => tally'[v] = tally[v]
    BY TallyKept
  <1>2. \A v \in Writers : \/ tally'[v].calls \subseteq tally[v].calls
                           \/ \A c \in tally'[v].calls : outcome[c] # "absent"
    BY <1>1
  <1>3. Counted' = Counted
    BY DEF Counted
  <1>4. QED
    BY <1>2, <1>3 DEF CallsThere

LEMMA ReadBucketSound ==
    ASSUME UsageAssumption, UsageInv, NEW w \in Batches, ReadBucket(w)
    PROVE  UsageInv'
  <1>1. w \in Writers /\ w # HourlyJob
    BY DEF Writers, UsageAssumption
  <1>2. tally[w] \in Tally /\ bucket.there \in BOOLEAN /\ bucket.count \in Nat
    BY <1>1, UsageRanges DEF UsageInv
  <1>3. PICK t : t = [tally[w] EXCEPT !.stage = "read", !.found = bucket.there,
                                      !.read = bucket.count]
    OBVIOUS
  <1>4. /\ t \in Tally /\ t.calls = tally[w].calls /\ t.stage = "read"
        /\ t.read = bucket.count
    BY <1>2, <1>3 DEF Tally
  <1>5. /\ tally' = [tally EXCEPT ![w] = t] /\ tally[w].stage = "settled"
        /\ UNCHANGED <<outcome, bucket, ran, came, worth>>
    BY <1>3 DEF ReadBucket
  <1>6. overlap' = (overlap \/ ~Alone(w))
    BY DEF ReadBucket
  <1>7. /\ tally' \in [Writers -> Tally] /\ tally'[w] = t
        /\ \A v \in Writers : v # w => tally'[v] = tally[v]
    BY <1>1, <1>4, <1>5, TallyKept DEF UsageInv
  <1>8. UsageTypeOK'
    <2>1. overlap' \in BOOLEAN
      BY <1>6 DEF UsageInv, UsageTypeOK
    <2>2. QED
      BY <1>5, <1>7, <2>1 DEF UsageInv, UsageTypeOK, Tally
  <1>9. CallsThere'
    BY <1>1, <1>4, <1>5, <1>6, ThereStill DEF UsageInv
  <1>10. ReadsBounded'
    BY <1>4, <1>5, <1>7
    DEF UsageInv, ReadsBounded, UsageBound, Counted, Reading
  <1>11. ReadsFresh'
    <2>1. SUFFICES ASSUME ~overlap' PROVE ReadsFresh'
      BY DEF ReadsFresh
    <2>2. ~overlap /\ \A v \in Writers \ {w} : ~Reading(v)
      BY <1>6, <2>1 DEF Alone
    <2>3. \A v \in Writers \ {w} : ~Reading(v)'
      BY <1>7, <2>2 DEF Reading
    <2>4. ~Reading(HourlyJob)'
      BY <1>1, <2>3 DEF Writers
    <2>5. \A v \in Writers : Reading(v)' => v = w /\ Alone(v)'
      BY <2>3 DEF Alone
    <2>6. QED
      BY <1>4, <1>5, <1>7, <2>2, <2>4, <2>5 DEF UsageInv, ReadsFresh, Counted
  <1>12. QED
    BY <1>8, <1>9, <1>10, <1>11 DEF UsageInv

LEMMA TallyFailsSound ==
    ASSUME UsageAssumption, UsageInv, NEW w \in Writers, TallyFails(w)
    PROVE  UsageInv'
  <1>1. /\ tally' = [tally EXCEPT ![w] = NoTally] /\ overlap' = TRUE
        /\ UNCHANGED <<outcome, bucket, ran, came, worth>>
    BY DEF TallyFails, Released
  <1>2. /\ tally' \in [Writers -> Tally] /\ tally'[w] = NoTally
        /\ \A v \in Writers : v # w => tally'[v] = tally[v]
    BY <1>1, NoTallies, TallyKept DEF UsageInv
  <1>3. UsageTypeOK'
    <2>1. overlap' \in BOOLEAN
      BY <1>1
    <2>2. QED
      BY <1>1, <1>2, <2>1 DEF UsageInv, UsageTypeOK, Tally
  <1>4. CallsThere'
    BY <1>1, NoTallies, ThereStill DEF UsageInv
  <1>5. \A v \in Writers : Reading(v)' => Reading(v) /\ tally'[v] = tally[v]
    BY <1>2, NoTallies DEF Reading
  <1>6. ReadsBounded' /\ ReadsFresh'
    BY <1>1, <1>5
    DEF UsageInv, ReadsBounded, ReadsFresh, UsageBound, Counted
  <1>7. QED
    BY <1>3, <1>4, <1>6 DEF UsageInv

(* The second commit of a batch: each of its calls counts once more.        *)
LEMMA CommitTallySound ==
    ASSUME UsageAssumption, UsageInv, NEW w \in Writers, CommitTally(w)
    PROVE  UsageInv'
  <1>1. /\ w \in Batches /\ w # HourlyJob /\ Reading(w)
        /\ HourlyJob \in Writers /\ Batches \subseteq Writers
    BY DEF CommitTally, Writers, UsageAssumption
  <1>2. PICK calls \in SUBSET Logged : calls = tally[w].calls
    BY UsageRanges DEF UsageInv
  <1>3. /\ bucket' = [there |-> TRUE, count |-> tally[w].read + Cardinality(calls)]
        /\ worth' = [c \in Logged |-> IF c \in calls THEN worth[c] + 1 ELSE worth[c]]
        /\ tally' = [tally EXCEPT ![w] = NoTally]
        /\ UNCHANGED <<outcome, ran, came, overlap>>
    BY <1>2 DEF CommitTally, Released
  <1>4. /\ tally' \in [Writers -> Tally] /\ tally'[w] = NoTally
        /\ \A v \in Writers : v # w => tally'[v] = tally[v]
    BY <1>3, NoTallies, TallyKept DEF UsageInv
  <1>5. /\ tally[w].read \in Nat /\ Cardinality(calls) \in Nat
        /\ Counted \in SUBSET Logged /\ Cardinality(Counted) \in Nat
        /\ worth \in [Logged -> Nat] /\ UsageBound \in Nat /\ bucket.count \in Nat
    BY UsageRanges, SomeLogged DEF UsageInv
  <1>6. UsageTypeOK'
    <2>1. bucket' \in [there : BOOLEAN, count : Nat]
      BY <1>3, <1>5
    <2>2. worth' \in [Logged -> Nat]
      BY <1>3, <1>5
    <2>3. QED
      BY <1>3, <1>4, <2>1, <2>2 DEF UsageInv, UsageTypeOK, Tally
  <1>7. Counted' = Counted \cup calls
    BY <1>3, <1>5 DEF Counted
  <1>8. CallsThere'
    <2>1. SUFFICES ASSUME ~overlap PROVE CallsThere'
      BY <1>3 DEF CallsThere
    <2>2. \A c \in Counted' : outcome[c] # "absent"
      BY <1>1, <1>2, <1>7, <2>1 DEF UsageInv, CallsThere
    <2>3. \A v \in Writers : tally'[v].calls \subseteq tally[v].calls
      BY <1>4, NoTallies
    <2>4. QED
      BY <1>3, <2>1, <2>2, <2>3 DEF UsageInv, CallsThere
  <1>9. UsageBound' = UsageBound + Cardinality(calls)
    <2>1. SumOf(worth', Logged) = SumOf(worth, Logged) + Cardinality(calls)
      BY <1>3, <1>5, OnesOnTop DEF UsageAssumption
    <2>2. QED
      BY <2>1 DEF UsageBound
  <1>10. \A v \in Writers : Reading(v)' => v # w /\ Reading(v) /\ tally'[v] = tally[v]
    BY <1>4, NoTallies DEF Reading
  <1>11. bucket'.count = tally[w].read + Cardinality(calls)
    BY <1>3
  <1>12. ReadsBounded'
    <2>1. tally[w].read <= UsageBound
      BY <1>1 DEF UsageInv, ReadsBounded
    <2>2. bucket'.count <= UsageBound'
      BY <1>5, <1>9, <1>11, <2>1
    <2>3. ASSUME NEW v \in Writers, Reading(v)'
          PROVE  tally'[v].read <= UsageBound'
      <3>1. tally[v].read <= UsageBound /\ tally[v].read \in Nat /\ tally'[v] = tally[v]
        BY <1>10, <2>3, UsageRanges DEF UsageInv, ReadsBounded
      <3>2. QED
        BY <1>5, <1>9, <3>1
    <2>4. QED
      BY <2>2, <2>3 DEF ReadsBounded
  <1>13. ReadsFresh'
    <2>1. SUFFICES ASSUME ~overlap PROVE ReadsFresh'
      BY <1>3 DEF ReadsFresh
    <2>2. tally[w].read = bucket.count /\ Alone(w) /\ Cardinality(Counted) <= bucket.count
      BY <1>1, <2>1 DEF UsageInv, ReadsFresh
    <2>3. \A v \in Writers : ~Reading(v)'
      BY <1>10, <2>2 DEF Alone
    <2>4. /\ Cardinality(Counted \cup calls) \in Nat
          /\ Cardinality(Counted \cup calls) <= Cardinality(Counted) + Cardinality(calls)
      BY <1>5, CountsAtMost
    <2>5. Cardinality(Counted') <= bucket'.count
      BY <1>5, <1>7, <1>11, <2>2, <2>4
    <2>6. ~Reading(HourlyJob)'
      BY <1>1, <2>3
    <2>7. QED
      BY <2>3, <2>5, <2>6 DEF ReadsFresh
  <1>14. QED
    BY <1>6, <1>8, <1>12, <1>13 DEF UsageInv

(* The job. *)
LEMMA ReadHourSound ==
    ASSUME UsageAssumption, UsageInv, ReadHour
    PROVE  UsageInv'
  <1>1. HourlyJob \in Writers /\ HourlyJob \notin Batches /\ Batches \subseteq Writers
    BY DEF Writers, UsageAssumption
  <1>2. PICK read \in SUBSET Logged : read = {c \in Logged : outcome[c] # "absent"}
    OBVIOUS
  <1>3. PICK t : t = [stage |-> "read", calls |-> read,
                      found |-> bucket.there, read |-> bucket.count]
    OBVIOUS
  <1>4. /\ t \in Tally /\ t.calls = read /\ t.stage = "read" /\ t.read = bucket.count
    BY <1>3, UsageRanges DEF UsageInv, Tally
  <1>5. /\ tally' = [tally EXCEPT ![HourlyJob] = t] /\ ran' = ran + 1 /\ ran < JobBudget
        /\ UNCHANGED <<outcome, bucket, came, worth>>
    BY <1>2, <1>3 DEF ReadHour
  <1>6. overlap' = (overlap \/ ~Alone(HourlyJob))
    BY DEF ReadHour
  <1>7. /\ tally' \in [Writers -> Tally] /\ tally'[HourlyJob] = t
        /\ \A v \in Writers : v # HourlyJob => tally'[v] = tally[v]
    BY <1>1, <1>4, <1>5, TallyKept DEF UsageInv
  <1>8. UsageTypeOK'
    <2>1. overlap' \in BOOLEAN
      BY <1>6 DEF UsageInv, UsageTypeOK
    <2>2. ran' \in 0..JobBudget
      BY <1>5 DEF UsageInv, UsageTypeOK, UsageAssumption
    <2>3. QED
      BY <1>5, <1>7, <2>1, <2>2 DEF UsageInv, UsageTypeOK, Tally
  <1>9. CallsThere'
    BY <1>1, <1>2, <1>4, <1>5, <1>6, ThereStill DEF UsageInv
  <1>10. ReadsBounded'
    BY <1>4, <1>5, <1>7
    DEF UsageInv, ReadsBounded, UsageBound, Counted, Reading
  <1>11. ReadsFresh'
    <2>1. SUFFICES ASSUME ~overlap' PROVE ReadsFresh'
      BY DEF ReadsFresh
    <2>2. ~overlap /\ \A v \in Writers \ {HourlyJob} : ~Reading(v)
      BY <1>6, <2>1 DEF Alone
    <2>3. \A v \in Writers \ {HourlyJob} : ~Reading(v)'
      BY <1>7, <2>2 DEF Reading
    <2>4. Counted \subseteq read
      BY <1>2, <2>2 DEF UsageInv, CallsThere, Counted
    <2>5. \A v \in Writers : Reading(v)' => v = HourlyJob /\ Alone(v)'
      BY <2>3 DEF Alone
    <2>6. QED
      BY <1>4, <1>5, <1>7, <2>2, <2>4, <2>5 DEF UsageInv, ReadsFresh, Counted
  <1>12. QED
    BY <1>8, <1>9, <1>10, <1>11 DEF UsageInv

LEMMA CommitHourSound ==
    ASSUME UsageAssumption, UsageInv, CommitHour
    PROVE  UsageInv'
  <1>1. /\ HourlyJob \in Writers /\ HourlyJob \notin Batches /\ Batches \subseteq Writers
        /\ Reading(HourlyJob)
    BY DEF CommitHour, Writers, UsageAssumption
  <1>2. PICK calls \in SUBSET Logged : calls = tally[HourlyJob].calls
    BY <1>1, UsageRanges DEF UsageInv
  <1>3. PICK counted \in Nat : counted = Cardinality(calls)
    BY SomeLogged
  <1>4. /\ bucket' = IF tally[HourlyJob].found /\ tally[HourlyJob].read = counted
                     THEN bucket ELSE [there |-> TRUE, count |-> counted]
        /\ worth' = [c \in Logged |-> IF c \in calls /\ worth[c] = 0 THEN 1 ELSE worth[c]]
        /\ tally' = [tally EXCEPT ![HourlyJob] = NoTally]
        /\ UNCHANGED <<outcome, ran, came, overlap>>
    BY <1>2, <1>3 DEF CommitHour, WorthCounted, Released
  <1>5. /\ tally' \in [Writers -> Tally] /\ tally'[HourlyJob] = NoTally
        /\ \A v \in Writers : v # HourlyJob => tally'[v] = tally[v]
    BY <1>1, <1>4, NoTallies, TallyKept DEF UsageInv
  <1>6. /\ Counted \in SUBSET Logged /\ Cardinality(Counted) \in Nat
        /\ worth \in [Logged -> Nat] /\ UsageBound \in Nat /\ bucket.count \in Nat
    BY UsageRanges DEF UsageInv
  <1>7. /\ bucket' \in [there : BOOLEAN, count : Nat]
        /\ \/ bucket' = bucket /\ tally[HourlyJob].read = counted
           \/ bucket'.count = counted
    <2>1. bucket \in [there : BOOLEAN, count : Nat]
      BY DEF UsageInv, UsageTypeOK
    <2>2. QED
      BY <1>4, <2>1
  <1>8. worth' \in [Logged -> Nat]
    BY <1>4, <1>6
  <1>9. UsageTypeOK'
    BY <1>4, <1>5, <1>7, <1>8 DEF UsageInv, UsageTypeOK, Tally
  <1>10. Counted' = Counted \cup calls
    BY <1>4, <1>6 DEF Counted
  <1>11. ReadsFresh' /\ CallsThere'
    <2>1. SUFFICES ASSUME ~overlap PROVE ReadsFresh' /\ CallsThere'
      BY <1>4 DEF ReadsFresh, CallsThere
    <2>2. /\ tally[HourlyJob].read = bucket.count /\ Alone(HourlyJob)
          /\ Counted \subseteq calls
      BY <1>1, <1>2, <2>1 DEF UsageInv, ReadsFresh
    <2>3. \A v \in Writers : ~Reading(v)'
      BY <1>5, <2>2, NoTallies DEF Reading, Alone
    <2>4. Counted' = calls /\ bucket'.count = counted
      BY <1>7, <1>10, <2>2
    <2>5. Cardinality(Counted') <= bucket'.count
      BY <1>3, <2>4
    <2>6. ~Reading(HourlyJob)'
      BY <1>1, <2>3
    <2>7. ReadsFresh'
      BY <2>3, <2>5, <2>6 DEF ReadsFresh
    <2>8. \A c \in calls : outcome[c] # "absent"
      BY <1>1, <1>2, <2>1 DEF UsageInv, CallsThere
    <2>9. QED
      BY <1>4, <1>5, <2>1, <2>4, <2>7, <2>8, NoTallies DEF UsageInv, CallsThere
  <1>12. UsageBound <= UsageBound' /\ counted <= UsageBound' /\ UsageBound' \in Nat
    <2>1. \A x \in Logged : worth[x] \in Int /\ worth'[x] \in Int /\ worth[x] <= worth'[x]
      BY <1>4, <1>6, <1>8
    <2>2. SumOf(worth, Logged) <= SumOf(worth', Logged)
      BY <2>1, SumGrows DEF UsageAssumption
    <2>3. \A x \in calls : worth'[x] > 0
      BY <1>4, <1>6
    <2>4. counted <= SumOf(worth', Logged)
      BY <1>3, <1>8, <2>3, OnesBelow DEF UsageAssumption
    <2>5. SumOf(worth', Logged) \in Nat
      BY <1>8, SumAtLeast DEF UsageAssumption
    <2>6. QED
      BY <2>2, <2>4, <2>5 DEF UsageBound
  <1>13. \A v \in Writers :
            Reading(v)' => v # HourlyJob /\ Reading(v) /\ tally'[v] = tally[v]
    BY <1>5, NoTallies DEF Reading
  <1>14. ReadsBounded'
    <2>1. bucket'.count <= UsageBound'
      BY <1>6, <1>7, <1>12 DEF UsageInv, ReadsBounded
    <2>2. ASSUME NEW v \in Writers, Reading(v)'
          PROVE  tally'[v].read <= UsageBound'
      <3>1. tally[v].read <= UsageBound /\ tally[v].read \in Nat /\ tally'[v] = tally[v]
        BY <1>13, <2>2, UsageRanges DEF UsageInv, ReadsBounded
      <3>2. QED
        BY <1>6, <1>12, <3>1
    <2>3. QED
      BY <2>1, <2>2 DEF ReadsBounded
  <1>15. QED
    BY <1>9, <1>11, <1>14 DEF UsageInv

LEMMA UsageStep ==
    ASSUME UsageAssumption, UsageInv, [NextUsageStats]_usageVars
    PROVE  UsageInv'
  <1>1. CASE UNCHANGED usageVars
    BY <1>1
    DEF usageVars, UsageInv, UsageTypeOK, CallsThere, ReadsBounded, ReadsFresh,
        UsageBound, Counted, Reading, Alone
  <1>2. ASSUME NEW c \in Logged, OpenCall(c)
        PROVE  UsageInv'
    BY <1>2, OpenCallSound
  <1>3. ASSUME NEW w \in Batches, NEW calls \in SUBSET Logged, SettleCalls(w, calls)
        PROVE  UsageInv'
    BY <1>3, SettleCallsSound
  <1>4. ASSUME NEW w \in Batches, NEW calls \in SUBSET Logged, NEW lost \in SUBSET calls,
               SettleClashing(w, calls, lost)
        PROVE  UsageInv'
    BY <1>4, SettleClashingSound
  <1>5. ASSUME NEW w \in Batches, ReadBucket(w)
        PROVE  UsageInv'
    BY <1>5, ReadBucketSound
  <1>6. ASSUME NEW w \in Batches, CommitTally(w)
        PROVE  UsageInv'
    BY <1>6, CommitTallySound DEF Writers
  <1>7. CASE ReadHour
    BY <1>7, ReadHourSound
  <1>8. CASE CommitHour
    BY <1>8, CommitHourSound
  <1>9. ASSUME NEW w \in Writers, TallyFails(w)
        PROVE  UsageInv'
    BY <1>9, TallyFailsSound
  <1>10. QED
    BY <1>1, <1>2, <1>3, <1>4, <1>5, <1>6, <1>7, <1>8, <1>9 DEF NextUsageStats

(* However batches are sent again, and batches and the job interleave and   *)
(* fail: the bucket counts a call at most once for each of its deliveries   *)
(* that was committed, and once more if a job had counted it before them;   *)
(* and while no two transactions on the bucket overlap and none fails, it   *)
(* misses none.                                                             *)
THEOREM UsageIsBounded == UsageSpec => [](UsageTypeOK /\ UsageWithinLogs)
  <1>1. UsageInv => UsageTypeOK /\ UsageWithinLogs
    <2> SUFFICES ASSUME UsageInv PROVE UsageTypeOK /\ UsageWithinLogs
      OBVIOUS
    <2>1. DOMAIN worth = Logged
      BY DEF UsageInv, UsageTypeOK
    <2>2. SumFunction(worth) = UsageBound
      BY <2>1, SumFunctionIsSum DEF UsageBound
    <2>3. Cardinality(Counted) \in Nat /\ bucket.count \in Nat
      BY UsageRanges, UsageAssumption DEF UsageInv
    <2>4. QED
      BY <2>2, <2>3 DEF UsageInv, ReadsBounded, ReadsFresh, Counted, UsageWithinLogs
  <1>2. QED
    BY <1>1, UsageInitially, UsageStep, UsageAssumption, PTL DEF UsageSpec

-----------------------------------------------------------------------------
(* The choice of a model. *)

(* A request that goes on, and was not there when the router polled, holds  *)
(* what the router has; one that is routed has a price there; and why it is *)
(* refused, or free, is what RefusedOnlyBySkew says of it.                  *)
RequestSound(q, has) ==
    /\ q.stage \in {"asking", "routed"} /\ ~q.moved => q.held = has
    /\ q.stage = "routed" => q.model \in q.held.prices
    /\ /\ q.stage \in {"unpriced", "unserved", "nofallback"}
       /\ Complete(q.held) /\ Priced(q.held, q.name)
       => q.used.tier # q.held.tier
    /\ q.stage = "free" => q.moved

ClassifyInv ==
    /\ ClassifyTypeOK
    /\ \A r \in Asking : RequestSound(request[r], routerHas)

LEMMA ConfigFields ==
    ASSUME ClassifyAssumption, NEW c \in RouterSide \cup EngineSide
    PROVE  /\ c.channels \in SUBSET Models /\ c.prices \in SUBSET Models
           /\ \A t \in Tiers : c.tier[t] \in Models
           /\ LastTier \in Tiers
  <1>1. c \in Configs
    BY DEF ClassifyAssumption, RouterSide, EngineSide
  <1>2. QED
    BY <1>1 DEF Configs, ClassifyAssumption

LEMMA ClassifyNumbers ==
    ASSUME ClassifyAssumption
    PROVE  /\ ClassifyAttempts \in Nat \ {0} /\ ClassifyThreshold \in Nat \ {0}
           /\ GpuLimit \in Nat \ {0} /\ Alias \notin Names
  BY DEF ClassifyAssumption

(* A model that the held configuration offers at its price is served.       *)
LEMMA VerdictRouted ==
    ASSUME NEW c, NEW model
    PROVE  /\ Verdict(c, model) \in {"unpriced", "unserved", "routed"}
           /\ Verdict(c, model) = "routed" => model \in c.prices
           /\ model \in c.prices /\ model \in c.channels =>
                 Verdict(c, model) = "routed"
  BY DEF Verdict, Resolvable

LEMMA RoutedSound ==
    ASSUME ClassifyAssumption, NEW q \in Request, NEW has,
           ~q.moved => q.held = has,
           NEW model \in Models, NEW used \in RouterSide \cup EngineSide,
           /\ Complete(q.held) /\ Priced(q.held, q.name) /\ used.tier = q.held.tier
           => model \in q.held.prices /\ model \in q.held.channels,
           NEW new, new = Routed(q, model, used)
    PROVE  new \in Request /\ RequestSound(new, has)
  <1>1. PICK stage \in {"unpriced", "unserved", "routed"} : stage = Verdict(q.held, model)
    BY VerdictRouted
  <1>2. /\ new.stage = stage /\ new.model = model /\ new.used = used
        /\ new.held = q.held /\ new.name = q.name /\ new.moved = q.moved
        /\ new \in Request
    BY <1>1 DEF Routed, Request, Stages
  <1>3. stage = "routed" => model \in q.held.prices
    BY <1>1, VerdictRouted
  <1>4. model \in q.held.prices /\ model \in q.held.channels => stage = "routed"
    BY <1>1, VerdictRouted
  <1>5. QED
    BY <1>1, <1>2, <1>3, <1>4 DEF RequestSound

LEMMA FallenBackSound ==
    ASSUME ClassifyAssumption, NEW q \in Request, NEW has,
           ~q.moved => q.held = has,
           NEW new, new = FallenBack(q)
    PROVE  new \in Request /\ RequestSound(new, has)
  <1>1. q.held \in RouterSide
    BY DEF Request
  <1>2. PICK model \in Models : model = q.held.tier[LastTier]
    BY <1>1, ConfigFields
  <1>3. Complete(q.held) => model \in q.held.prices /\ model \in q.held.channels
    BY <1>1, <1>2, ConfigFields DEF Complete
  <1>4. CASE model \in Available(q.held)
    <2>1. new = Routed(q, model, q.held)
      BY <1>2, <1>4 DEF FallenBack
    <2>2. QED
      BY <1>1, <1>3, <2>1, RoutedSound
  <1>5. CASE model \notin Available(q.held)
    <2>1. new = [q EXCEPT !.stage = "nofallback", !.used = q.held]
      BY <1>2, <1>5 DEF FallenBack
    <2>2. /\ new.stage = "nofallback" /\ new.held = q.held /\ new \in Request
      BY <1>1, <2>1 DEF Request, Stages
    <2>3. ~Complete(new.held)
      BY <1>3, <1>5, <2>2 DEF Available
    <2>4. QED
      BY <2>2, <2>3 DEF RequestSound
  <1>6. QED
    BY <1>4, <1>5

(* A step that changes one request. *)
LEMMA RequestKept ==
    ASSUME ClassifyInv, NEW r \in Asking, NEW new \in Request,
           RequestSound(new, routerHas), Put(r, new)
    PROVE  /\ request' \in [Asking -> Request]
           /\ \A s \in Asking : RequestSound(request'[s], routerHas)
  <1>1. /\ request' \in [Asking -> Request] /\ request'[r] = new
        /\ \A s \in Asking : s # r => request'[s] = request[s]
    BY DEF Put, ClassifyInv, ClassifyTypeOK
  <1>2. QED
    BY <1>1 DEF ClassifyInv

LEMMA PutSound ==
    ASSUME ClassifyInv, NEW r \in Asking, NEW new \in Request,
           RequestSound(new, routerHas), Put(r, new),
           silent' \in 0 .. ClassifyThreshold, cooling' \in BOOLEAN,
           UNCHANGED <<published, routerHas, engineHas, question>>
    PROVE  ClassifyInv'
  <1>1. UNCHANGED Running
    BY DEF Running
  <1>2. QED
    BY <1>1, RequestKept DEF ClassifyInv, ClassifyTypeOK

LEMMA NoRequests ==
    ASSUME ClassifyAssumption
    PROVE  NoRequest \in Request /\ NoRequest.stage = "none" /\ ~NoRequest.moved
  <1>1. RouterFile \in RouterSide /\ 0 \in 0 .. ClassifyAttempts
    BY ClassifyNumbers DEF RouterSide
  <1>2. QED
    BY <1>1 DEF NoRequest, Request, Stages

LEMMA NoRequestSound ==
    ASSUME ClassifyAssumption, NEW has
    PROVE  RequestSound(NoRequest, has)
  BY NoRequests DEF RequestSound

LEMMA NoQuestions ==
    NoQuestion \in Question /\ NoQuestion.stage = "none"
  BY DEF NoQuestion, Question, EngineSide

LEMMA ClassifyInitially ==
    ASSUME ClassifyAssumption, ClassifyInit
    PROVE  ClassifyInv
  <1>1. published \in Published /\ routerHas \in RouterSide /\ engineHas \in EngineSide
    BY DEF ClassifyInit, RouterSide, EngineSide
  <1>2. /\ request \in [Asking -> Request]
        /\ \A r \in Asking : RequestSound(request[r], routerHas)
    BY NoRequests, NoRequestSound DEF ClassifyInit
  <1>3. /\ question \in [Asking -> [1 .. ClassifyAttempts -> Question]]
        /\ \A r \in Asking, k \in 1 .. ClassifyAttempts : question[r][k].stage = "none"
    BY NoQuestions DEF ClassifyInit
  <1>4. Running = {}
    BY <1>3 DEF Running
  <1>5. IsFiniteSet(Running) /\ Cardinality(Running) <= GpuLimit
    <2>1. Cardinality({}) = 0 /\ IsFiniteSet({})
      BY FS_EmptySet
    <2>2. QED
      BY <1>4, <2>1, ClassifyNumbers
  <1>6. silent \in 0 .. ClassifyThreshold /\ cooling \in BOOLEAN
    <2>1. silent = 0 /\ cooling = FALSE
      BY DEF ClassifyInit
    <2>2. cooling \in BOOLEAN
      BY <2>1
    <2>3. silent \in 0 .. ClassifyThreshold
      BY <2>1, ClassifyNumbers
    <2>4. QED
      BY <2>2, <2>3
  <1>7. QED
    BY <1>1, <1>2, <1>3, <1>5, <1>6 DEF ClassifyInv, ClassifyTypeOK

(* Configurations. *)
LEMMA PublishSound ==
    ASSUME ClassifyAssumption, ClassifyInv, NEW c \in Published, Publish(c)
    PROVE  ClassifyInv'
  <1>1. published' = c
        /\ UNCHANGED <<routerHas, engineHas, request, question, silent, cooling>>
    BY DEF Publish
  <1>2. UNCHANGED Running
    BY <1>1 DEF Running
  <1>3. QED
    BY <1>1, <1>2 DEF ClassifyInv, ClassifyTypeOK

MovedRequest(q) == [q EXCEPT !.moved = TRUE]

LEMMA PollRouterSound ==
    ASSUME ClassifyAssumption, ClassifyInv, PollRouter
    PROVE  ClassifyInv'
  <1>1. /\ routerHas' = published /\ routerHas' \in RouterSide
        /\ request' = [r \in Asking |-> IF request[r].stage \in {"asking", "routed"}
                                        THEN MovedRequest(request[r]) ELSE request[r]]
        /\ UNCHANGED <<published, engineHas, question, silent, cooling>>
    BY DEF PollRouter, ClassifyInv, ClassifyTypeOK, RouterSide, MovedRequest
  <1>2. ASSUME NEW r \in Asking
        PROVE  request'[r] \in Request /\ RequestSound(request'[r], routerHas')
    <2>1. PICK q \in Request : q = request[r]
      BY DEF ClassifyInv, ClassifyTypeOK
    <2>2. RequestSound(q, routerHas)
      BY <2>1 DEF ClassifyInv
    <2>3. CASE q.stage \in {"asking", "routed"}
      <3>1. PICK new : new = MovedRequest(q)
        OBVIOUS
      <3>2. /\ new \in Request /\ new.moved = TRUE /\ new.stage = q.stage
            /\ new.model = q.model /\ new.held = q.held
        BY <3>1 DEF MovedRequest, Request
      <3>3. request'[r] = new
        BY <1>1, <2>1, <2>3, <3>1
      <3>4. QED
        BY <2>2, <2>3, <3>2, <3>3 DEF RequestSound
    <2>4. CASE q.stage \notin {"asking", "routed"}
      <3>1. request'[r] = q
        BY <1>1, <2>1, <2>4
      <3>2. QED
        BY <2>2, <2>4, <3>1 DEF RequestSound
    <2>5. QED
      BY <2>3, <2>4
  <1>3. request' \in [Asking -> Request]
    BY <1>1, <1>2
  <1>4. UNCHANGED Running
    BY <1>1 DEF Running
  <1>5. QED
    BY <1>1, <1>2, <1>3, <1>4 DEF ClassifyInv, ClassifyTypeOK

LEMMA PollEngineSound ==
    ASSUME ClassifyAssumption, ClassifyInv, PollEngine
    PROVE  ClassifyInv'
  <1>1. engineHas' = published
        /\ UNCHANGED <<published, routerHas, request, question, silent, cooling>>
    BY DEF PollEngine
  <1>2. UNCHANGED Running
    BY <1>1 DEF Running
  <1>3. QED
    BY <1>1, <1>2 DEF ClassifyInv, ClassifyTypeOK, EngineSide

(* A request begins. *)
LEMMA BeginRequestSound ==
    ASSUME ClassifyAssumption, ClassifyInv, NEW r \in Asking,
           NEW name \in {Alias} \cup Names, BeginRequest(r, name)
    PROVE  ClassifyInv'
  <1>1. routerHas \in RouterSide /\ silent \in 0 .. ClassifyThreshold
    BY DEF ClassifyInv, ClassifyTypeOK
  <1>2. PICK q : q = [NoRequest EXCEPT !.held = routerHas, !.used = routerHas, !.name = name]
    OBVIOUS
  <1>3. /\ q \in Request /\ q.held = routerHas /\ q.name = name /\ ~q.moved
    BY <1>1, <1>2, NoRequests DEF Request
  <1>4. PICK direct \in BOOLEAN : direct = (name # Alias /\ name \in Available(routerHas))
    OBVIOUS
  <1>5. PICK asks \in BOOLEAN : asks = (~direct /\ ~(Tripped /\ cooling))
    OBVIOUS
  <1>6. /\ IF name # Alias /\ name \notin routerHas.names
           THEN Put(r, [q EXCEPT !.stage = "invalid"]) /\ UNCHANGED silent
           ELSE /\ Put(r, IF direct THEN Routed(q, name, routerHas)
                          ELSE IF asks THEN [q EXCEPT !.stage = "asking", !.attempt = 1]
                          ELSE FallenBack(q))
                /\ silent' = IF asks /\ Tripped THEN 0 ELSE silent
        /\ UNCHANGED <<published, routerHas, engineHas, question, cooling>>
    BY <1>2, <1>4, <1>5 DEF BeginRequest
  <1>7. silent' \in 0 .. ClassifyThreshold /\ cooling' \in BOOLEAN
    <2>1. 0 \in 0 .. ClassifyThreshold
      BY ClassifyNumbers
    <2>2. silent' \in {silent, 0}
      BY <1>6
    <2>3. cooling' \in BOOLEAN
      BY <1>6 DEF ClassifyInv, ClassifyTypeOK
    <2>4. QED
      BY <1>1, <2>1, <2>2, <2>3
  <1>8. \E new \in Request : RequestSound(new, routerHas) /\ Put(r, new)
    <2>1. CASE name # Alias /\ name \notin routerHas.names
      <3>1. PICK new : new = [q EXCEPT !.stage = "invalid"]
        OBVIOUS
      <3>2. new \in Request /\ new.stage = "invalid"
        BY <1>3, <3>1 DEF Request, Stages
      <3>3. QED
        BY <1>6, <2>1, <3>1, <3>2 DEF RequestSound
    <2>2. CASE ~(name # Alias /\ name \notin routerHas.names) /\ direct
      <3>1. PICK new : new = Routed(q, name, routerHas)
        OBVIOUS
      <3>2. name \in routerHas.channels
        BY <1>4, <2>2 DEF Available
      <3>3. name \in Models
        BY <1>1, <3>2, ConfigFields
      <3>4. Priced(q.held, q.name) => name \in q.held.prices /\ name \in q.held.channels
        BY <1>3, <3>2 DEF Priced, Available
      <3>5. new \in Request /\ RequestSound(new, routerHas)
        BY <1>1, <1>3, <3>1, <3>3, <3>4, RoutedSound
      <3>6. QED
        BY <1>6, <2>2, <3>1, <3>5
    <2>3. CASE ~(name # Alias /\ name \notin routerHas.names) /\ ~direct /\ asks
      <3>1. PICK new : new = [q EXCEPT !.stage = "asking", !.attempt = 1]
        OBVIOUS
      <3>2. 1 \in 0 .. ClassifyAttempts
        BY ClassifyNumbers
      <3>3. new \in Request /\ new.stage = "asking" /\ new.held = routerHas
        BY <1>3, <3>1, <3>2 DEF Request, Stages
      <3>4. QED
        BY <1>6, <2>3, <3>1, <3>3 DEF RequestSound
    <2>4. CASE ~(name # Alias /\ name \notin routerHas.names) /\ ~direct /\ ~asks
      <3>1. PICK new : new = FallenBack(q)
        OBVIOUS
      <3>2. new \in Request /\ RequestSound(new, routerHas)
        BY <1>3, <3>1, FallenBackSound
      <3>3. QED
        BY <1>6, <2>4, <3>1, <3>2
    <2>5. QED
      BY <2>1, <2>2, <2>3, <2>4
  <1>9. QED
    BY <1>6, <1>7, <1>8, PutSound

(* Questions at inference-service. *)
LEMMA QuestionKept ==
    ASSUME ClassifyInv, NEW r \in Asking, NEW k \in 1 .. ClassifyAttempts,
           NEW new \in Question, question' = [question EXCEPT ![r][k] = new]
    PROVE  /\ question' \in [Asking -> [1 .. ClassifyAttempts -> Question]]
           /\ new.stage # "running" => Running' \subseteq Running
           /\ Running' \subseteq Running \cup {<<r, k>>}
  <1>1. /\ question' \in [Asking -> [1 .. ClassifyAttempts -> Question]]
        /\ question'[r][k] = new
        /\ \A s \in Asking : \A l \in 1 .. ClassifyAttempts :
              s # r \/ l # k => question'[s][l] = question[s][l]
    BY DEF ClassifyInv, ClassifyTypeOK
  <1>2. ASSUME NEW a \in Running'
        PROVE  /\ a \in Running \/ a = <<r, k>>
               /\ new.stage # "running" => a \in Running
    <2>1. PICK s \in Asking, l \in 1 .. ClassifyAttempts : a = <<s, l>>
      BY <1>2 DEF Running
    <2>2. question'[s][l].stage = "running"
      BY <1>2, <2>1 DEF Running
    <2>3. CASE s = r /\ l = k
      BY <1>1, <2>1, <2>2, <2>3
    <2>4. CASE ~(s = r /\ l = k)
      <3>1. question[s][l].stage = "running"
        BY <1>1, <2>2, <2>4
      <3>2. QED
        BY <2>1, <3>1 DEF Running
    <2>5. QED
      BY <2>3, <2>4
  <1>3. QED
    BY <1>1, <1>2

LEMMA FewerRunning ==
    ASSUME ClassifyAssumption, ClassifyInv, Running' \subseteq Running
    PROVE  IsFiniteSet(Running') /\ Cardinality(Running') <= GpuLimit
  <1>1. IsFiniteSet(Running) /\ Cardinality(Running) <= GpuLimit
    BY DEF ClassifyInv, ClassifyTypeOK
  <1>2. /\ IsFiniteSet(Running') /\ Cardinality(Running') <= Cardinality(Running)
        /\ Cardinality(Running) \in Nat /\ Cardinality(Running') \in Nat
    BY <1>1, FS_Subset, FS_CardinalityType
  <1>3. QED
    BY <1>1, <1>2, ClassifyNumbers

LEMMA QuestionArrivesSound ==
    ASSUME ClassifyAssumption, ClassifyInv, NEW r \in Asking,
           NEW k \in 1 .. ClassifyAttempts, QuestionArrives(r, k)
    PROVE  ClassifyInv'
  <1>1. PICK new : new = [stage |-> "queued", config |-> engineHas]
    OBVIOUS
  <1>2. new \in Question /\ new.stage = "queued"
    BY <1>1 DEF Question, ClassifyInv, ClassifyTypeOK
  <1>3. /\ question' = [question EXCEPT ![r][k] = new]
        /\ UNCHANGED <<published, routerHas, engineHas, request, silent, cooling>>
    BY <1>1 DEF QuestionArrives
  <1>4. /\ question' \in [Asking -> [1 .. ClassifyAttempts -> Question]]
        /\ Running' \subseteq Running
    BY <1>2, <1>3, QuestionKept
  <1>5. QED
    BY <1>3, <1>4, FewerRunning DEF ClassifyInv, ClassifyTypeOK

LEMMA TakeEngineSound ==
    ASSUME ClassifyAssumption, ClassifyInv, NEW r \in Asking,
           NEW k \in 1 .. ClassifyAttempts, TakeEngine(r, k)
    PROVE  ClassifyInv'
  <1>1. question[r][k] \in Question
    BY DEF ClassifyInv, ClassifyTypeOK
  <1>2. PICK new : new = [question[r][k] EXCEPT !.stage = "running"]
    OBVIOUS
  <1>3. new \in Question
    BY <1>1, <1>2 DEF Question
  <1>4. /\ question' = [question EXCEPT ![r][k] = new]
        /\ Cardinality(Running) < GpuLimit
        /\ UNCHANGED <<published, routerHas, engineHas, request, silent, cooling>>
    BY <1>2 DEF TakeEngine
  <1>5. /\ question' \in [Asking -> [1 .. ClassifyAttempts -> Question]]
        /\ Running' \subseteq Running \cup {<<r, k>>}
    BY <1>3, <1>4, QuestionKept
  <1>6. IsFiniteSet(Running') /\ Cardinality(Running') <= GpuLimit
    <2>1. IsFiniteSet(Running) /\ Cardinality(Running) \in Nat
      BY FS_CardinalityType DEF ClassifyInv, ClassifyTypeOK
    <2>2. /\ IsFiniteSet(Running \cup {<<r, k>>})
          /\ Cardinality(Running \cup {<<r, k>>}) \in Nat
          /\ Cardinality(Running \cup {<<r, k>>}) <= Cardinality(Running) + 1
      <3>1. IsFiniteSet(Running \cup {<<r, k>>})
        BY <2>1, FS_AddElement
      <3>2. Cardinality(Running \cup {<<r, k>>}) \in Nat
        BY <3>1, FS_CardinalityType
      <3>3. \/ Cardinality(Running \cup {<<r, k>>}) = Cardinality(Running)
            \/ Cardinality(Running \cup {<<r, k>>}) = Cardinality(Running) + 1
        BY <2>1, FS_AddElement
      <3>4. QED
        BY <2>1, <3>1, <3>2, <3>3
    <2>3. /\ IsFiniteSet(Running') /\ Cardinality(Running') \in Nat
          /\ Cardinality(Running') <= Cardinality(Running \cup {<<r, k>>})
      BY <1>5, <2>2, FS_Subset, FS_CardinalityType
    <2>4. QED
      BY <1>4, <2>1, <2>2, <2>3, ClassifyNumbers
  <1>7. QED
    BY <1>4, <1>5, <1>6 DEF ClassifyInv, ClassifyTypeOK

(* An attempt without a usable answer. *)
LEMMA GiveUpSound ==
    ASSUME ClassifyAssumption, ClassifyInv, NEW r \in Asking,
           request[r].stage = "asking", GiveUpAttempt(r)
    PROVE  /\ \E new \in Request : RequestSound(new, routerHas) /\ Put(r, new)
           /\ silent' \in 0 .. ClassifyThreshold /\ cooling' \in BOOLEAN
  <1>1. PICK q \in Request : q = request[r]
    BY DEF ClassifyInv, ClassifyTypeOK
  <1>2. /\ q.stage = "asking" /\ RequestSound(q, routerHas)
        /\ q.attempt \in 0 .. ClassifyAttempts
        /\ silent \in 0 .. ClassifyThreshold /\ cooling \in BOOLEAN
    BY <1>1 DEF ClassifyInv, ClassifyTypeOK, Request
  <1>3. ~q.moved => q.held = routerHas
    BY <1>2 DEF RequestSound
  <1>4. CASE q.attempt < ClassifyAttempts
    <2>1. PICK new : new = [q EXCEPT !.attempt = q.attempt + 1]
      OBVIOUS
    <2>2. q.attempt + 1 \in 0 .. ClassifyAttempts
      BY <1>2, <1>4, ClassifyNumbers
    <2>3. /\ new \in Request /\ new.stage = "asking" /\ new.held = q.held
          /\ new.moved = q.moved
      BY <1>2, <2>1, <2>2 DEF Request
    <2>4. Put(r, new) /\ UNCHANGED <<silent, cooling>>
      BY <1>1, <1>4, <2>1 DEF GiveUpAttempt
    <2>5. QED
      BY <1>2, <1>3, <2>3, <2>4 DEF RequestSound
  <1>5. CASE ~(q.attempt < ClassifyAttempts)
    <2>1. PICK new : new = FallenBack(q)
      OBVIOUS
    <2>2. new \in Request /\ RequestSound(new, routerHas)
      BY <1>3, <2>1, FallenBackSound
    <2>3. /\ Put(r, new) /\ Fails
          /\ cooling' = (cooling \/ silent + 1 >= ClassifyThreshold)
      BY <1>1, <1>5, <2>1 DEF GiveUpAttempt
    <2>4. silent' \in 0 .. ClassifyThreshold
      BY <1>2, <2>3, ClassifyNumbers DEF Fails, Tripped
    <2>5. cooling' \in BOOLEAN
      BY <2>3
    <2>6. QED
      BY <2>2, <2>3, <2>4, <2>5
  <1>6. QED
    BY <1>4, <1>5

LEMMA EngineAnswersSound ==
    ASSUME ClassifyAssumption, ClassifyInv, NEW r \in Asking,
           NEW k \in 1 .. ClassifyAttempts, NEW tier \in Tiers \cup {0},
           EngineAnswers(r, k, tier)
    PROVE  ClassifyInv'
  <1>1. PICK c \in EngineSide : c = question[r][k].config
    BY DEF ClassifyInv, ClassifyTypeOK, Question
  <1>2. /\ question' = [question EXCEPT ![r][k] = NoQuestion]
        /\ UNCHANGED <<published, routerHas, engineHas>>
        /\ IF ~Waits(r, k) THEN UNCHANGED <<request, silent, cooling>>
           ELSE IF tier \in Tiers
           THEN /\ Put(r, Routed(request[r], c.tier[tier], c))
                /\ silent' = 0 /\ UNCHANGED cooling
           ELSE GiveUpAttempt(r)
    BY <1>1 DEF EngineAnswers
  <1>3. /\ question' \in [Asking -> [1 .. ClassifyAttempts -> Question]]
        /\ Running' \subseteq Running
    BY <1>2, NoQuestions, QuestionKept
  <1>4. IsFiniteSet(Running') /\ Cardinality(Running') <= GpuLimit
    BY <1>3, FewerRunning
  <1>5. /\ request' \in [Asking -> Request]
        /\ \A s \in Asking : RequestSound(request'[s], routerHas)
        /\ silent' \in 0 .. ClassifyThreshold /\ cooling' \in BOOLEAN
    <2>1. CASE ~Waits(r, k)
      BY <1>2, <2>1 DEF ClassifyInv, ClassifyTypeOK
    <2>2. CASE Waits(r, k) /\ tier \in Tiers
      <3>1. PICK q \in Request : q = request[r]
        BY DEF ClassifyInv, ClassifyTypeOK
      <3>2. ~q.moved => q.held = routerHas
        BY <2>2, <3>1 DEF Waits, ClassifyInv, RequestSound
      <3>3. PICK model \in Models : model = c.tier[tier]
        BY <2>2, ConfigFields
      <3>4. PICK new : new = Routed(q, model, c)
        OBVIOUS
      <3>5. Complete(q.held) /\ c.tier = q.held.tier =>
               model \in q.held.prices /\ model \in q.held.channels
        BY <2>2, <3>3 DEF Complete
      <3>6. new \in Request /\ RequestSound(new, routerHas)
        BY <3>2, <3>4, <3>5, RoutedSound
      <3>7. Put(r, new) /\ silent' = 0 /\ UNCHANGED cooling
        BY <1>2, <2>2, <3>1, <3>3, <3>4
      <3>8. 0 \in 0 .. ClassifyThreshold
        BY ClassifyNumbers
      <3>9. QED
        BY <3>6, <3>7, <3>8, RequestKept DEF ClassifyInv, ClassifyTypeOK
    <2>3. CASE Waits(r, k) /\ tier \notin Tiers
      <3>1. GiveUpAttempt(r) /\ request[r].stage = "asking"
        BY <1>2, <2>3 DEF Waits
      <3>2. QED
        BY <3>1, GiveUpSound, RequestKept
    <2>4. QED
      BY <2>1, <2>2, <2>3
  <1>6. QED
    BY <1>2, <1>3, <1>4, <1>5 DEF ClassifyInv, ClassifyTypeOK

LEMMA AttemptFailsSound ==
    ASSUME ClassifyAssumption, ClassifyInv, NEW r \in Asking, AttemptFails(r)
    PROVE  ClassifyInv'
  BY GiveUpSound, PutSound DEF AttemptFails

LEMMA QuestionRefusedSound ==
    ASSUME ClassifyAssumption, ClassifyInv, NEW r \in Asking, NEW secret \in BOOLEAN,
           QuestionRefused(r, secret)
    PROVE  ClassifyInv'
  <1>1. PICK q \in Request : q = request[r]
    BY DEF ClassifyInv, ClassifyTypeOK
  <1>2. /\ q.stage = "asking" /\ RequestSound(q, routerHas)
        /\ Put(r, IF secret /\ q.name = Alias
                  THEN [q EXCEPT !.stage = "error"] ELSE FallenBack(q))
        /\ silent' = 0 /\ UNCHANGED <<published, routerHas, engineHas, question, cooling>>
    BY <1>1 DEF QuestionRefused, ClassifyInv
  <1>3. \E new \in Request : RequestSound(new, routerHas) /\ Put(r, new)
    <2>1. CASE secret /\ q.name = Alias
      <3>1. PICK new : new = [q EXCEPT !.stage = "error"]
        OBVIOUS
      <3>2. new \in Request /\ new.stage = "error"
        BY <3>1 DEF Request, Stages
      <3>3. QED
        BY <1>2, <2>1, <3>1, <3>2 DEF RequestSound
    <2>2. CASE ~(secret /\ q.name = Alias)
      <3>1. PICK new : new = FallenBack(q)
        OBVIOUS
      <3>2. new \in Request /\ RequestSound(new, routerHas)
        BY <1>2, <3>1, FallenBackSound DEF RequestSound
      <3>3. QED
        BY <1>2, <2>2, <3>1, <3>2
    <2>3. QED
      BY <2>1, <2>2
  <1>4. silent' \in 0 .. ClassifyThreshold /\ cooling' \in BOOLEAN
    BY <1>2, ClassifyNumbers DEF ClassifyInv, ClassifyTypeOK
  <1>5. QED
    BY <1>2, <1>3, <1>4, PutSound

LEMMA QuestionBreaksSound ==
    ASSUME ClassifyAssumption, ClassifyInv, NEW r \in Asking, QuestionBreaks(r)
    PROVE  ClassifyInv'
  <1>1. PICK new : new = [request[r] EXCEPT !.stage = "error"]
    OBVIOUS
  <1>2. /\ Put(r, new) /\ silent' \in {silent, 0}
        /\ UNCHANGED <<published, routerHas, engineHas, question, cooling>>
    BY <1>1 DEF QuestionBreaks
  <1>3. new \in Request /\ new.stage = "error"
    BY <1>1, ZenonT(40) DEF ClassifyInv, ClassifyTypeOK, Request, Stages
  <1>4. RequestSound(new, routerHas)
    BY <1>3 DEF RequestSound
  <1>5. silent' \in 0 .. ClassifyThreshold /\ cooling' \in BOOLEAN
    BY <1>2, ClassifyNumbers DEF ClassifyInv, ClassifyTypeOK
  <1>6. QED
    BY <1>2, <1>3, <1>4, <1>5, PutSound

(* The price of the held configuration is gone only if the router has       *)
(* polled.                                                                  *)
LEMMA SettleRequestSound ==
    ASSUME ClassifyAssumption, ClassifyInv, NEW r \in Asking, SettleRequest(r)
    PROVE  ClassifyInv'
  <1>1. PICK q \in Request : q = request[r]
    BY DEF ClassifyInv, ClassifyTypeOK
  <1>2. PICK stage \in {"charged", "free"} :
           stage = IF q.model \in routerHas.prices THEN "charged" ELSE "free"
    OBVIOUS
  <1>3. PICK new : new = [q EXCEPT !.stage = stage]
    OBVIOUS
  <1>4. /\ q.stage = "routed" /\ Put(r, new)
        /\ UNCHANGED <<published, routerHas, engineHas, question, silent, cooling>>
    BY <1>1, <1>2, <1>3 DEF SettleRequest
  <1>5. new \in Request /\ new.stage = stage /\ new.moved = q.moved
    BY <1>2, <1>3 DEF Request, Stages
  <1>6. ~q.moved => q.model \in routerHas.prices
    BY <1>1, <1>4 DEF ClassifyInv, RequestSound
  <1>7. RequestSound(new, routerHas)
    BY <1>2, <1>5, <1>6 DEF RequestSound
  <1>8. silent' \in 0 .. ClassifyThreshold /\ cooling' \in BOOLEAN
    BY <1>4 DEF ClassifyInv, ClassifyTypeOK
  <1>9. QED
    BY <1>4, <1>5, <1>7, <1>8, PutSound

LEMMA LeaveRouterSound ==
    ASSUME ClassifyAssumption, ClassifyInv, NEW r \in Asking, LeaveRouter(r)
    PROVE  ClassifyInv'
  <1>1. /\ Put(r, NoRequest)
        /\ UNCHANGED <<published, routerHas, engineHas, question, silent, cooling>>
    BY DEF LeaveRouter
  <1>2. silent' \in 0 .. ClassifyThreshold /\ cooling' \in BOOLEAN
    BY <1>1 DEF ClassifyInv, ClassifyTypeOK
  <1>3. QED
    BY <1>1, <1>2, NoRequests, NoRequestSound, PutSound

LEMMA ClassifyStep ==
    ASSUME ClassifyAssumption, ClassifyInv, [NextClassify]_classifyVars
    PROVE  ClassifyInv'
  <1>1. CASE UNCHANGED classifyVars
    <2>1. UNCHANGED Running
      BY <1>1 DEF classifyVars, Running
    <2>2. QED
      BY <1>1, <2>1 DEF classifyVars, ClassifyInv, ClassifyTypeOK
  <1>2. ASSUME NEW c \in Published, Publish(c)
        PROVE  ClassifyInv'
    BY <1>2, PublishSound
  <1>3. CASE PollRouter
    BY <1>3, PollRouterSound
  <1>4. CASE PollEngine
    BY <1>4, PollEngineSound
  <1>5. CASE BreakerCools
    <2>1. cooling' = FALSE
          /\ UNCHANGED <<published, routerHas, engineHas, request, question, silent>>
      BY <1>5 DEF BreakerCools
    <2>2. UNCHANGED Running /\ cooling' \in BOOLEAN
      BY <2>1 DEF Running
    <2>3. QED
      BY <2>1, <2>2 DEF ClassifyInv, ClassifyTypeOK
  <1>6. ASSUME NEW r \in Asking, NEW name \in {Alias} \cup Names, BeginRequest(r, name)
        PROVE  ClassifyInv'
    BY <1>6, BeginRequestSound
  <1>7. ASSUME NEW r \in Asking, NEW k \in 1 .. ClassifyAttempts, QuestionArrives(r, k)
        PROVE  ClassifyInv'
    BY <1>7, QuestionArrivesSound
  <1>8. ASSUME NEW r \in Asking, NEW k \in 1 .. ClassifyAttempts, TakeEngine(r, k)
        PROVE  ClassifyInv'
    BY <1>8, TakeEngineSound
  <1>9. ASSUME NEW r \in Asking, NEW k \in 1 .. ClassifyAttempts,
               NEW tier \in Tiers \cup {0}, EngineAnswers(r, k, tier)
        PROVE  ClassifyInv'
    BY <1>9, EngineAnswersSound
  <1>10. ASSUME NEW r \in Asking, NEW secret \in BOOLEAN, QuestionRefused(r, secret)
         PROVE  ClassifyInv'
    BY <1>10, QuestionRefusedSound
  <1>11. ASSUME NEW r \in Asking,
                \/ AttemptFails(r) \/ QuestionBreaks(r)
                \/ SettleRequest(r) \/ LeaveRouter(r)
         PROVE  ClassifyInv'
    BY <1>11, AttemptFailsSound, QuestionBreaksSound, SettleRequestSound, LeaveRouterSound
  <1>12. QED
    BY <1>1, <1>2, <1>3, <1>4, <1>5, <1>6, <1>7, <1>8, <1>9, <1>10, <1>11
    DEF NextClassify

(* Whatever is published, and however the two services poll while requests  *)
(* wait: no client is refused for want of a price, a channel or a fallback  *)
(* by a configuration that is complete, unless inference-service chose by   *)
(* another map of tiers; and no call is free unless the router has polled   *)
(* since it began.                                                          *)
THEOREM RefusalsAreExplained == ClassifySpec => [](ClassifyTypeOK /\ RefusedOnlyBySkew)
  <1>1. ClassifyInv => ClassifyTypeOK /\ RefusedOnlyBySkew
    BY DEF ClassifyInv, RequestSound, RefusedOnlyBySkew
  <1>2. QED
    BY <1>1, ClassifyInitially, ClassifyStep, ClassifyAssumption, PTL DEF ClassifySpec

-----------------------------------------------------------------------------
(* A call at a door. *)
TheDoors == {"chat", "messages", "responses"}
AtTheDoor == {"routing", "calling", "answered", "speaking", "ending", "leaving"}
Answering == {"answered", "speaking", "ending", "leaving"}

Handled ==
    [door : TheDoors \cup {"none"}, stream : BOOLEAN, stage : AtTheDoor \cup {"new", "over"},
     provider : {"none", "openai", "anthropic"}, moved : BOOLEAN, said : Nat,
     ended : BOOLEAN, left : BOOLEAN, code : Nat, blamed : {"nobody", "client", "server"}]
Sights == [prompt : Nat, cached : Nat, completion : Nat]
Rows ==
    [kept : BOOLEAN, status : Nat, provider : {"none", "openai", "anthropic"},
     scored : BOOLEAN, shown : BOOLEAN, seen : Sights, cost : Int]
Spoken == [count : Tokens \cup {NoSight}, reported : {"none", "start", "all"}]

DoorsTypeOK == handled \in Handled /\ logged \in Rows /\ spoken \in Spoken

(* How far the call is, and what its client has been told by then. *)
CallSound ==
    /\ ~Stage("new") => handled.door \in TheDoors
    /\ ~Stage("over") => handled.blamed = "nobody"
    /\ handled.stage \in {"new", "routing", "calling"} => ~handled.moved
    /\ handled.stage \in {"new", "routing", "calling", "answered", "speaking"} => ~handled.ended
    /\ handled.stage \in {"new", "routing", "calling", "answered", "speaking", "ending"}
          => ~handled.left
    /\ handled.stage \in Answering => handled.code = 200 /\ spoken.count \in Counts
    /\ Stage("answered") => ~handled.stream
    /\ handled.stage \in {"speaking", "ending", "leaving"} => handled.stream
    /\ Stage("ending") => handled.ended
    /\ Stage("leaving") => handled.left

(* The row of a call under way is open, and tells where the call went. *)
RowOpen ==
    /\ Stage("new") => ~logged.kept
    /\ ~Stage("over") => logged.status = 0 /\ logged.cost = 0 /\ ~logged.shown
    /\ handled.stage \in Answering \cup {"calling"} /\ logged.kept =>
          /\ logged.scored <=> handled.door \in Scored
          /\ ~handled.moved => logged.provider = handled.provider

DoorsInv == DoorsTypeOK /\ CallSound /\ RowOpen /\ RowTellsOutcome

-----------------------------------------------------------------------------
(* What is charged. *)

LEMMA DoorsNumbers ==
    ASSUME DoorsAssumption
    PROVE  /\ Unit \in Nat \ {0}
           /\ Price.fresh \in Nat /\ Price.cached \in Nat /\ Price.output \in Nat
           /\ \A c \in Counts : c \in Tokens
           /\ Refusals \subseteq {400, 428, 502, 503}
  BY DEF DoorsAssumption, Tokens

LEMMA CeilDivGrows ==
    ASSUME NEW u \in Nat \ {0}, NEW a \in Int, NEW b \in Int, a <= b
    PROVE  CeilDiv(a, u) \in Int /\ CeilDiv(a, u) <= CeilDiv(b, u)
  <1>1. PICK x, y : x = a + u - 1 /\ y = b + u - 1
    OBVIOUS
  <1>2. x \in Int /\ y \in Int /\ x <= y
    BY <1>1
  <1>3. x \div u \in Int /\ y \div u \in Int /\ x \div u <= y \div u
    BY <1>2, QuotientGrows
  <1>4. QED
    BY <1>1, <1>3 DEF CeilDiv

(* Cost, of a sight of natural numbers. *)
LEMMA CostIsInt ==
    ASSUME DoorsAssumption, NEW s \in Sights
    PROVE  Cost(s) \in Int
  <1>1. /\ s.prompt \in Nat /\ s.cached \in Nat /\ s.completion \in Nat
    BY DEF Sights
  <1>2. NonCached(s) \in Nat
    BY <1>1 DEF NonCached
  <1>3. PICK t : t = NonCached(s) * Price.fresh + s.cached * Price.cached
                       + s.completion * Price.output
    OBVIOUS
  <1>4. t \in Int
    BY <1>1, <1>2, <1>3, DoorsNumbers, Products
  <1>5. CeilDiv(t, Unit) \in Int
    BY <1>4, DoorsNumbers, CeilDivGrows
  <1>6. QED
    BY <1>3, <1>5 DEF Cost

(* What a handler sees is charged with what the tokens are worth, or less.  *)
LEMMA SightsCost ==
    ASSUME DoorsAssumption, NEW c \in Counts
    PROVE  /\ OpenAISees(c) \in Sights /\ Cost(OpenAISees(c)) = Worth(c)
           /\ AnthropicSees(c) \in Sights /\ Cost(AnthropicSees(c)) <= Worth(c)
           /\ NormalizedSees(c) \in Sights /\ Cost(NormalizedSees(c)) <= Worth(c)
           /\ c.cached = 0 => /\ Cost(AnthropicSees(c)) = Worth(c)
                              /\ Cost(NormalizedSees(c)) = Worth(c)
  <1>1. c.fresh \in Nat /\ c.cached \in Nat /\ c.output \in Nat
    BY DoorsNumbers DEF Tokens
  <1>2. /\ Unit \in Nat \ {0}
        /\ Price.fresh \in Nat /\ Price.cached \in Nat /\ Price.output \in Nat
    BY DoorsNumbers
  <1>3. PICK f, k, o : /\ f = c.fresh * Price.fresh
                       /\ k = c.cached * Price.cached
                       /\ o = c.output * Price.output
    OBVIOUS
  <1>4. f \in Nat /\ k \in Nat /\ o \in Nat
    BY <1>1, <1>2, <1>3, Products
  <1>5. Worth(c) = CeilDiv(f + k + o, Unit)
    BY <1>3 DEF Worth
  <1>6. /\ OpenAISees(c) \in Sights /\ AnthropicSees(c) \in Sights
        /\ NormalizedSees(c) \in Sights
    BY <1>1 DEF OpenAISees, AnthropicSees, NormalizedSees, Sights
  <1>7. Cost(OpenAISees(c)) = Worth(c)
    <2>1. NonCached(OpenAISees(c)) = c.fresh
      BY <1>1 DEF NonCached, OpenAISees
    <2>2. QED
      BY <1>3, <1>5, <2>1 DEF Cost, OpenAISees
  <1>8. Cost(AnthropicSees(c)) <= Worth(c) /\ (c.cached = 0 => Cost(AnthropicSees(c)) = Worth(c))
    <2>1. PICK n : n = NonCached(AnthropicSees(c))
      OBVIOUS
    <2>2. n \in Nat /\ n <= c.fresh /\ (c.cached = 0 => n = c.fresh)
      BY <1>1, <2>1 DEF NonCached, AnthropicSees
    <2>3. PICK m : m = n * Price.fresh
      OBVIOUS
    <2>4. m \in Nat /\ m <= f
      BY <1>1, <1>2, <1>3, <2>2, <2>3, Products
    <2>5. Cost(AnthropicSees(c)) = CeilDiv(m + k + o, Unit)
      BY <1>3, <2>1, <2>3 DEF Cost, AnthropicSees
    <2>6. m + k + o \in Int /\ f + k + o \in Int /\ m + k + o <= f + k + o
      BY <1>4, <2>4
    <2>7. CeilDiv(m + k + o, Unit) <= CeilDiv(f + k + o, Unit)
      BY <1>2, <2>6, CeilDivGrows
    <2>8. c.cached = 0 => m = f
      BY <1>3, <2>2, <2>3
    <2>9. QED
      BY <1>5, <2>5, <2>7, <2>8
  <1>9. /\ Cost(NormalizedSees(c)) <= Worth(c)
        /\ c.cached = 0 => Cost(NormalizedSees(c)) = Worth(c)
    <2>1. NonCached(NormalizedSees(c)) = c.fresh
      BY <1>1 DEF NonCached, NormalizedSees
    <2>2. 0 * Price.cached = 0
      BY <1>2
    <2>3. Cost(NormalizedSees(c)) = CeilDiv(f + 0 + o, Unit)
      BY <1>3, <2>1, <2>2 DEF Cost, NormalizedSees
    <2>4. f + 0 + o \in Int /\ f + k + o \in Int /\ f + 0 + o <= f + k + o
      BY <1>4
    <2>5. CeilDiv(f + 0 + o, Unit) <= CeilDiv(f + k + o, Unit)
      BY <1>2, <2>4, CeilDivGrows
    <2>6. c.cached = 0 => k = 0
      BY <1>2, <1>3
    <2>7. QED
      BY <1>5, <2>3, <2>5, <2>6
  <1>10. QED
    BY <1>6, <1>7, <1>8, <1>9

-----------------------------------------------------------------------------
(* The doors, step by step. *)

LEMMA DoorsInitially ==
    ASSUME DoorsInit
    PROVE  DoorsInv
  <1>1. NoSight \in Sights
    BY DEF NoSight, Sights
  <1>2. handled \in Handled /\ logged \in Rows /\ spoken \in Spoken
    BY <1>1 DEF DoorsInit, Handled, Rows, Spoken, TheDoors, AtTheDoor
  <1>3. CallSound /\ RowOpen
    BY DEF DoorsInit, CallSound, RowOpen, Stage, AtTheDoor, Answering
  <1>4. RowTellsOutcome
    BY DEF DoorsInit, RowTellsOutcome, BlameFits, Stage
  <1>5. QED
    BY <1>2, <1>3, <1>4 DEF DoorsInv, DoorsTypeOK

(* What a call, or its row, is after a change. *)
IsCall(h, door, stream, stage, provider, moved, ended, left, code, blamed) ==
    /\ h \in Handled
    /\ h.door = door /\ h.stream = stream /\ h.stage = stage /\ h.provider = provider
    /\ h.moved = moved /\ h.ended = ended /\ h.left = left
    /\ h.code = code /\ h.blamed = blamed
IsRow(r, kept, status, provider, scored, shown, cost) ==
    /\ r \in Rows
    /\ r.kept = kept /\ r.status = status /\ r.provider = provider
    /\ r.scored = scored /\ r.shown = shown /\ r.cost = cost

(* The changes. *)
Staged(h, stage) == [h EXCEPT !.stage = stage]
Ended(h, ended) == [h EXCEPT !.ended = ended]
AtDoor(h, door) == [h EXCEPT !.door = door]
Entered(h, door, stream) == [h EXCEPT !.door = door, !.stream = stream]
SentOn(h, stage, provider) == [h EXCEPT !.stage = stage, !.provider = provider]
Replied(h, provider, moved, stage, code) ==
    [h EXCEPT !.provider = provider, !.moved = moved, !.stage = stage, !.code = code]
Told(h, stage, ended) == [h EXCEPT !.stage = stage, !.ended = ended]
Left(h, stage) == [h EXCEPT !.stage = stage, !.left = TRUE]
Closed(r, status) == [r EXCEPT !.status = status]
Shown(r) == [r EXCEPT !.shown = TRUE]
KeptRow(r, kept, status) == [r EXCEPT !.kept = kept, !.status = status]
ClosedShown(r, status) == [r EXCEPT !.status = status, !.shown = TRUE]
RowSent(r, provider, scored) == [r EXCEPT !.provider = provider, !.scored = scored]
Charged(r, status, sight, cost) ==
    [r EXCEPT !.status = status, !.seen = sight, !.cost = cost]

LEMMA CallEnds ==
    ASSUME handled \in Handled, NEW code \in Nat, NEW blamed \in {"nobody", "client", "server"}
    PROVE  IsCall(Over(code, blamed), handled.door, handled.stream, "over", handled.provider,
                  handled.moved, handled.ended, handled.left, code, blamed)
  <1>1. Over(code, blamed) \in Handled
    BY DEF Over, Handled
  <1>2. QED
    BY <1>1 DEF Over, Handled, IsCall

LEMMA CallStage ==
    ASSUME NEW h \in Handled, NEW stage \in AtTheDoor \cup {"new", "over"}
    PROVE  IsCall(Staged(h, stage),
                  h.door, h.stream, stage, h.provider, h.moved,
                  h.ended, h.left, h.code, h.blamed)
  <1>1. Staged(h, stage) \in Handled
    BY DEF Handled, Staged
  <1>2. QED
    BY <1>1 DEF Handled, IsCall, Staged

LEMMA CallEnded ==
    ASSUME NEW h \in Handled, NEW ended \in BOOLEAN
    PROVE  IsCall(Ended(h, ended),
                  h.door, h.stream, h.stage, h.provider, h.moved,
                  ended, h.left, h.code, h.blamed)
  <1>1. Ended(h, ended) \in Handled
    BY DEF Handled, Ended
  <1>2. QED
    BY <1>1 DEF Handled, IsCall, Ended

LEMMA CallDoor ==
    ASSUME NEW h \in Handled, NEW door \in TheDoors
    PROVE  IsCall(AtDoor(h, door),
                  door, h.stream, h.stage, h.provider, h.moved,
                  h.ended, h.left, h.code, h.blamed)
  <1>1. AtDoor(h, door) \in Handled
    BY DEF Handled, AtDoor
  <1>2. QED
    BY <1>1 DEF Handled, IsCall, AtDoor

LEMMA CallEntered ==
    ASSUME NEW h \in Handled, NEW door \in TheDoors, NEW stream \in BOOLEAN
    PROVE  IsCall(Entered(h, door, stream),
                  door, stream, h.stage, h.provider, h.moved,
                  h.ended, h.left, h.code, h.blamed)
  <1>1. Entered(h, door, stream) \in Handled
    BY DEF Handled, Entered
  <1>2. QED
    BY <1>1 DEF Handled, IsCall, Entered

LEMMA CallRouted ==
    ASSUME NEW h \in Handled, NEW provider \in {"openai", "anthropic"},
           NEW stage \in AtTheDoor \cup {"new", "over"}
    PROVE  IsCall(SentOn(h, stage, provider),
                  h.door, h.stream, stage, provider, h.moved,
                  h.ended, h.left, h.code, h.blamed)
  <1>1. SentOn(h, stage, provider) \in Handled
    BY DEF Handled, SentOn
  <1>2. QED
    BY <1>1 DEF Handled, IsCall, SentOn

LEMMA CallAnswered ==
    ASSUME NEW h \in Handled, NEW provider \in {"openai", "anthropic"},
           NEW moved \in BOOLEAN, NEW code \in Nat, NEW stage \in AtTheDoor \cup {"new", "over"}
    PROVE  IsCall(Replied(h, provider, moved, stage, code),
                  h.door, h.stream, stage, provider, moved,
                  h.ended, h.left, code, h.blamed)
  <1>1. Replied(h, provider, moved, stage, code) \in Handled
    BY DEF Handled, Replied
  <1>2. QED
    BY <1>1 DEF Handled, IsCall, Replied

LEMMA CallTold ==
    ASSUME NEW h \in Handled, NEW ended \in BOOLEAN,
           NEW stage \in AtTheDoor \cup {"new", "over"}
    PROVE  IsCall(Told(h, stage, ended),
                  h.door, h.stream, stage, h.provider, h.moved,
                  ended, h.left, h.code, h.blamed)
  <1>1. Told(h, stage, ended) \in Handled
    BY DEF Handled, Told
  <1>2. QED
    BY <1>1 DEF Handled, IsCall, Told

LEMMA CallLeft ==
    ASSUME NEW h \in Handled, NEW stage \in AtTheDoor \cup {"new", "over"}
    PROVE  IsCall(Left(h, stage),
                  h.door, h.stream, stage, h.provider, h.moved,
                  h.ended, TRUE, h.code, h.blamed)
  <1>1. Left(h, stage) \in Handled
    BY DEF Handled, Left
  <1>2. QED
    BY <1>1 DEF Handled, IsCall, Left

LEMMA CallSpeaks ==
    ASSUME NEW h \in Handled
    PROVE  IsCall([h EXCEPT !.said = @ + 1], h.door, h.stream, h.stage, h.provider,
                  h.moved, h.ended, h.left, h.code, h.blamed)
  <1>1. h.said + 1 \in Nat
    BY DEF Handled
  <1>2. PICK n : n = h.said + 1
    OBVIOUS
  <1>3. [h EXCEPT !.said = n] \in Handled
    BY <1>1, <1>2 DEF Handled
  <1>4. [h EXCEPT !.said = @ + 1] = [h EXCEPT !.said = n]
    BY <1>2
  <1>5. QED
    BY <1>3, <1>4 DEF Handled, IsCall

LEMMA RowStatus ==
    ASSUME NEW r \in Rows, NEW status \in Nat
    PROVE  IsRow(Closed(r, status),
                 r.kept, status, r.provider, r.scored, r.shown, r.cost)
  <1>1. Closed(r, status) \in Rows
    BY DEF Rows, Closed
  <1>2. QED
    BY <1>1 DEF Rows, IsRow, Closed

LEMMA RowShown ==
    ASSUME NEW r \in Rows
    PROVE  IsRow(Shown(r),
                 r.kept, r.status, r.provider, r.scored, TRUE, r.cost)
  <1>1. Shown(r) \in Rows
    BY DEF Rows, Shown
  <1>2. QED
    BY <1>1 DEF Rows, IsRow, Shown

LEMMA RowKept ==
    ASSUME NEW r \in Rows, NEW kept \in BOOLEAN, NEW status \in Nat
    PROVE  IsRow(KeptRow(r, kept, status),
                 kept, status, r.provider, r.scored, r.shown, r.cost)
  <1>1. KeptRow(r, kept, status) \in Rows
    BY DEF Rows, KeptRow
  <1>2. QED
    BY <1>1 DEF Rows, IsRow, KeptRow

LEMMA RowStatusShown ==
    ASSUME NEW r \in Rows, NEW status \in Nat
    PROVE  IsRow(ClosedShown(r, status),
                 r.kept, status, r.provider, r.scored, TRUE, r.cost)
  <1>1. ClosedShown(r, status) \in Rows
    BY DEF Rows, ClosedShown
  <1>2. QED
    BY <1>1 DEF Rows, IsRow, ClosedShown

LEMMA RowRouted ==
    ASSUME NEW r \in Rows, NEW provider \in {"openai", "anthropic"}, NEW scored \in BOOLEAN
    PROVE  IsRow(RowSent(r, provider, scored),
                 r.kept, r.status, provider, scored, r.shown, r.cost)
  <1>1. RowSent(r, provider, scored) \in Rows
    BY DEF Rows, RowSent
  <1>2. QED
    BY <1>1 DEF Rows, IsRow, RowSent

LEMMA RowCharged ==
    ASSUME NEW r \in Rows, NEW status \in Nat, NEW sight \in Sights, NEW cost \in Int
    PROVE  IsRow(Charged(r, status, sight, cost),
                 r.kept, status, r.provider, r.scored, r.shown, cost)
  <1>1. Charged(r, status, sight, cost) \in Rows
    BY DEF Rows, Charged
  <1>2. QED
    BY <1>1 DEF Rows, IsRow, Charged

LEMMA RowBilled ==
    ASSUME DoorsAssumption, NEW r \in Rows, NEW sight \in Sights
    PROVE  IsRow(Billed(r, sight), r.kept, 200, r.provider, r.scored, r.shown, Cost(sight))
  <1>1. PICK s, c : s = 200 /\ c = Cost(sight)
    OBVIOUS
  <1>2. s \in Nat
    BY <1>1
  <1>3. c \in Int
    BY <1>1, CostIsInt
  <1>4. Billed(r, sight) = Charged(r, s, sight, c)
    BY <1>1 DEF Billed, Charged
  <1>5. IsRow(Charged(r, s, sight, c), r.kept, s, r.provider, r.scored, r.shown, c)
    BY <1>2, <1>3, RowCharged
  <1>6. QED
    BY <1>1, <1>4, <1>5

(* An update of the row of a call that is not logged does nothing. *)
LEMMA RowLogged ==
    ASSUME logged \in Rows, NEW r \in Rows, r.kept = logged.kept, Log(r)
    PROVE  /\ logged' \in Rows /\ logged'.kept = logged.kept
           /\ logged.kept => logged' = r
  <1>1. logged.kept \in BOOLEAN
    BY DEF Rows
  <1>2. QED
    BY <1>1 DEF Log

-----------------------------------------------------------------------------
(* What keeps the invariant: a call that goes on, and one that is over. *)

LEMMA GoesOn ==
    ASSUME DoorsInv, DoorsTypeOK', CallSound', RowOpen',
           ~Stage("over")'
    PROVE  DoorsInv'
  <1>1. handled'.blamed = "nobody"
    BY DEF CallSound
  <1>2. QED
    BY <1>1 DEF DoorsInv, RowTellsOutcome, BlameFits, Stage

LEMMA IsOver ==
    ASSUME DoorsTypeOK', Stage("over")', handled'.door \in TheDoors, RowTellsOutcome'
    PROVE  DoorsInv'
  <1>1. CallSound' /\ RowOpen'
    BY DEF CallSound, RowOpen, Stage, Answering, AtTheDoor
  <1>2. QED
    BY <1>1 DEF DoorsInv

LEMMA EndsEarly ==
    ASSUME DoorsInv, handled.stage \in {"routing", "calling"},
           NEW code \in Nat, NEW blamed \in {"client", "server"},
           handled' = Over(code, blamed), spoken' = spoken, BlameFits',
           NEW status \in Nat \ {200, 499}, status = 0 <=> code = 500, status \in {0, code},
           logged' \in Rows, logged'.kept = logged.kept,
           logged.kept => logged'.status = status /\ logged'.cost = 0
    PROVE  DoorsInv'
  <1>1. /\ handled \in Handled /\ spoken' \in Spoken /\ handled.door \in TheDoors
        /\ ~handled.ended /\ ~handled.left
    BY DEF DoorsInv, DoorsTypeOK, CallSound, Stage
  <1>2. IsCall(handled', handled.door, handled.stream, "over", handled.provider,
               handled.moved, handled.ended, handled.left, code, blamed)
    BY <1>1, CallEnds
  <1>3. ASSUME logged'.kept
        PROVE  /\ logged'.status = status /\ logged'.cost = 0
               /\ handled'.code = code /\ ~handled'.ended /\ ~handled'.left
    BY <1>1, <1>2, <1>3 DEF IsCall, IsRow
  <1>4. RowTellsOutcome'
    BY <1>3 DEF RowTellsOutcome
  <1>5. QED
    BY <1>1, <1>2, <1>4, IsOver DEF IsCall, DoorsTypeOK, Stage

LEMMA EnterSound ==
    ASSUME DoorsAssumption, DoorsInv, NEW door \in TheDoors, NEW stream \in BOOLEAN,
           NEW buffered \in BOOLEAN, NEW funds \in BOOLEAN,
           Enter(door, stream, buffered, funds)
    PROVE  DoorsInv'
  <1>1. handled \in Handled /\ logged \in Rows /\ spoken' \in Spoken /\ handled.stage = "new"
    BY DEF DoorsInv, DoorsTypeOK, Enter, Stage
  <1>2. /\ ~handled.moved /\ ~handled.ended /\ ~handled.left /\ handled.blamed = "nobody"
        /\ ~logged.kept /\ logged.cost = 0 /\ ~logged.shown
    BY <1>1 DEF DoorsInv, CallSound, RowOpen, Stage
  <1>3. CASE funds
    <2>1. PICK h : h = Staged(handled, "routing")
      OBVIOUS
    <2>2. handled' = Entered(h, door, stream)
      BY <1>3, <2>1 DEF Enter, Entered, Staged
    <2>3. IsCall(h, handled.door, handled.stream, "routing", handled.provider, handled.moved,
                 handled.ended, handled.left, handled.code, handled.blamed)
      BY <1>1, <2>1, CallStage DEF AtTheDoor
    <2>4. IsCall(handled', door, stream, "routing", handled.provider, handled.moved,
                 handled.ended, handled.left, handled.code, handled.blamed)
      BY <2>2, <2>3, CallEntered DEF IsCall
    <2>5. IsRow(logged', buffered, 0, logged.provider, logged.scored, logged.shown, logged.cost)
      <3>1. logged' = KeptRow(logged, buffered, 0)
        BY <1>3 DEF Enter, KeptRow
      <3>2. QED
        BY <1>1, <3>1, RowKept
    <2>6. CallSound'
      BY <1>2, <2>4 DEF IsCall, CallSound, Stage, Answering
    <2>7. RowOpen'
      BY <1>2, <2>4, <2>5 DEF IsCall, IsRow, RowOpen, Stage, Answering
    <2>8. QED
      BY <1>1, <2>4, <2>5, <2>6, <2>7, GoesOn DEF IsCall, IsRow, Stage, DoorsTypeOK
  <1>4. CASE ~funds
    <2>1. PICK h : h = Over(402, "client")
      OBVIOUS
    <2>2. handled' = Entered(h, door, stream)
      BY <1>4, <2>1 DEF Enter, Entered
    <2>3. 402 \in Nat
      OBVIOUS
    <2>4. IsCall(h, handled.door, handled.stream, "over", handled.provider, handled.moved,
                 handled.ended, handled.left, 402, "client")
      BY <1>1, <2>1, <2>3, CallEnds
    <2>5. IsCall(handled', door, stream, "over", handled.provider, handled.moved,
                 handled.ended, handled.left, 402, "client")
      BY <2>2, <2>4, CallEntered DEF IsCall
    <2>6. PICK status : status = IF buffered THEN 402 ELSE 0
      OBVIOUS
    <2>7. status \in Nat /\ logged' = KeptRow(logged, buffered, status)
      BY <1>4, <2>6 DEF Enter, KeptRow
    <2>8. IsRow(logged', buffered, status,
                logged.provider, logged.scored, logged.shown, logged.cost)
      BY <1>1, <2>7, RowKept
    <2>9. CallSound' /\ RowOpen'
      BY <1>2, <2>5 DEF IsCall, CallSound, RowOpen, Stage, Answering, AtTheDoor
    <2>10. RowTellsOutcome'
      BY <1>2, <2>5, <2>6, <2>8 DEF IsCall, IsRow, RowTellsOutcome, BlameFits
    <2>11. QED
      BY <1>1, <2>5, <2>8, <2>9, <2>10 DEF DoorsInv, IsCall, IsRow, DoorsTypeOK
  <1>5. QED
    BY <1>3, <1>4

LEMMA TurnedAwaySound ==
    ASSUME DoorsInv, NEW door \in TheDoors, NEW code \in GateCodes, TurnedAway(door, code)
    PROVE  DoorsInv'
  <1>1. handled \in Handled /\ logged' \in Rows /\ spoken' \in Spoken /\ ~logged'.kept
    BY DEF DoorsInv, DoorsTypeOK, TurnedAway, RowOpen, Stage
  <1>2. PICK blamed : blamed = PathBlames(door, code)
    OBVIOUS
  <1>3. code \in {401, 403, 410, 422, 429, 502, 503}
    BY DEF GateCodes
  <1>4. code \in Nat /\ blamed \in {"nobody", "client", "server"}
    BY <1>2, <1>3 DEF PathBlames, Blames
  <1>5. PICK h : h = Over(code, blamed)
    OBVIOUS
  <1>6. handled' = AtDoor(h, door)
    BY <1>2, <1>5 DEF TurnedAway, AtDoor
  <1>7. IsCall(h, handled.door, handled.stream, "over", handled.provider, handled.moved,
               handled.ended, handled.left, code, blamed)
    BY <1>1, <1>4, <1>5, CallEnds
  <1>8. IsCall(handled', door, h.stream, "over", h.provider, h.moved, h.ended, h.left,
               code, blamed)
    BY <1>6, <1>7, CallDoor DEF IsCall
  <1>9. BlameFits'
    BY <1>2, <1>3, <1>8 DEF IsCall, BlameFits, PathBlames, Blames, Through
  <1>10. RowTellsOutcome'
    BY <1>1, <1>9 DEF RowTellsOutcome
  <1>11. QED
    BY <1>1, <1>8, <1>10, IsOver DEF IsCall, DoorsTypeOK, Stage

LEMMA RoutingRefusesSound ==
    ASSUME DoorsAssumption, DoorsInv, NEW code \in Refusals, RoutingRefuses(code)
    PROVE  DoorsInv'
  <1>1. /\ handled \in Handled /\ logged \in Rows /\ handled.door \in TheDoors
        /\ logged.cost = 0 /\ DoorsTypeOK
    BY DEF DoorsInv, DoorsTypeOK, CallSound, RowOpen, Stage, RoutingRefuses
  <1>2. code \in {400, 428, 502, 503} /\ code \in Refusals
    BY DoorsNumbers
  <1>3. PICK blamed : blamed = DoorBlames(code)
    OBVIOUS
  <1>4. code \in Nat \ {200, 499} /\ code # 0 /\ code # 500 /\ blamed \in {"client", "server"}
    BY <1>2, <1>3 DEF DoorBlames, Blames
  <1>5. handled' = Over(code, blamed) /\ Log(Closed(logged, code))
    BY <1>3 DEF RoutingRefuses, Closed
  <1>6. IsCall(handled', handled.door, handled.stream, "over", handled.provider,
               handled.moved, handled.ended, handled.left, code, blamed)
    BY <1>1, <1>4, <1>5, CallEnds
  <1>7. BlameFits'
    BY <1>2, <1>3, <1>6 DEF IsCall, BlameFits, DoorBlames, Blames, Through
  <1>8. IsRow(Closed(logged, code), logged.kept, code, logged.provider,
              logged.scored, logged.shown, logged.cost)
    BY <1>1, <1>4, RowStatus
  <1>9. /\ logged' \in Rows /\ logged'.kept = logged.kept
        /\ logged.kept => logged'.status = code /\ logged'.cost = 0
    BY <1>1, <1>5, <1>8, RowLogged DEF IsRow
  <1>10. handled.stage \in {"routing", "calling"} /\ spoken' = spoken
    BY DEF RoutingRefuses, Stage
  <1>11. QED
    BY <1>1, <1>4, <1>5, <1>7, <1>9, <1>10, EndsEarly

LEMMA AllLimitedSound ==
    ASSUME DoorsInv, AllLimited
    PROVE  DoorsInv'
  <1>1. /\ handled \in Handled /\ logged \in Rows /\ handled.door \in TheDoors
        /\ logged.cost = 0 /\ DoorsTypeOK
    BY DEF DoorsInv, DoorsTypeOK, CallSound, RowOpen, Stage, AllLimited
  <1>2. PICK code : code = 429
    OBVIOUS
  <1>3. code \in Nat \ {200, 499} /\ code # 0 /\ code # 500
    BY <1>2
  <1>4. handled' = Over(code, "client") /\ Log(Closed(logged, code))
    BY <1>2 DEF AllLimited, Closed
  <1>5. IsCall(handled', handled.door, handled.stream, "over", handled.provider,
               handled.moved, handled.ended, handled.left, code, "client")
    BY <1>1, <1>3, <1>4, CallEnds
  <1>6. BlameFits'
    BY <1>2, <1>5 DEF IsCall, BlameFits
  <1>7. IsRow(Closed(logged, code), logged.kept, code, logged.provider,
              logged.scored, logged.shown, logged.cost)
    BY <1>1, <1>3, RowStatus
  <1>8. /\ logged' \in Rows /\ logged'.kept = logged.kept
        /\ logged.kept => logged'.status = code /\ logged'.cost = 0
    BY <1>1, <1>4, <1>7, RowLogged DEF IsRow
  <1>9. handled.stage \in {"routing", "calling"} /\ spoken' = spoken
    BY DEF AllLimited, Stage
  <1>10. QED
    BY <1>1, <1>3, <1>4, <1>6, <1>8, <1>9, EndsEarly

LEMMA UnexpectedSound ==
    ASSUME DoorsInv, Unexpected
    PROVE  DoorsInv'
  <1>1. /\ handled \in Handled /\ logged \in Rows /\ handled.door \in TheDoors
        /\ logged.cost = 0 /\ logged.status = 0
    BY DEF DoorsInv, DoorsTypeOK, CallSound, RowOpen, Stage, Unexpected
  <1>2. PICK code, blamed : code = 500 /\ blamed = PathBlames(handled.door, 500)
    OBVIOUS
  <1>3. code \in Nat /\ code = 500 /\ blamed = "server"
    BY <1>2 DEF PathBlames, Blames
  <1>4. handled' = Over(code, blamed) /\ logged' = logged /\ spoken' = spoken
    BY <1>2 DEF Unexpected
  <1>5. IsCall(handled', handled.door, handled.stream, "over", handled.provider,
               handled.moved, handled.ended, handled.left, code, blamed)
    BY <1>1, <1>3, <1>4, CallEnds
  <1>6. BlameFits'
    BY <1>3, <1>5 DEF IsCall, BlameFits
  <1>7. handled.stage \in {"routing", "calling"}
    BY DEF Unexpected
  <1>8. 0 \in Nat \ {200, 499}
    OBVIOUS
  <1>9. QED
    BY <1>1, <1>3, <1>4, <1>6, <1>7, <1>8, EndsEarly

LEMMA RoutesSound ==
    ASSUME DoorsInv, NEW provider \in {"openai", "anthropic"}, Routes(provider)
    PROVE  DoorsInv'
  <1>1. /\ handled \in Handled /\ logged \in Rows /\ handled.door \in TheDoors
        /\ spoken' \in Spoken /\ handled.stage = "routing" /\ handled.blamed = "nobody"
        /\ ~handled.moved /\ ~handled.ended /\ ~handled.left
        /\ logged.cost = 0 /\ logged.status = 0 /\ ~logged.shown
    BY DEF DoorsInv, DoorsTypeOK, CallSound, RowOpen, Stage, Routes
  <1>2. handled' = SentOn(handled, "calling", provider)
    BY DEF Routes, SentOn
  <1>3. IsCall(handled', handled.door, handled.stream, "calling", provider,
               handled.moved, handled.ended, handled.left, handled.code, handled.blamed)
    BY <1>1, <1>2, CallRouted DEF AtTheDoor
  <1>4. PICK scored : scored = (handled.door \in Scored)
    OBVIOUS
  <1>5. scored \in BOOLEAN
    BY <1>4
  <1>6. PICK r : r = RowSent(logged, provider, scored)
    OBVIOUS
  <1>7. IsRow(r, logged.kept, logged.status, provider, scored, logged.shown, logged.cost)
    BY <1>1, <1>5, <1>6, RowRouted
  <1>8. Log(r)
    BY <1>4, <1>6 DEF Routes, RowSent
  <1>9. logged' \in Rows /\ logged'.kept = logged.kept /\ (logged.kept => logged' = r)
    BY <1>1, <1>7, <1>8, RowLogged DEF IsRow
  <1>10. CallSound'
    BY <1>1, <1>3 DEF IsCall, CallSound, Stage, Answering
  <1>11. ~logged.kept => logged' = logged
    BY DEF Routes, Log
  <1>12. RowOpen'
    BY <1>1, <1>3, <1>4, <1>7, <1>9, <1>11 DEF IsCall, IsRow, RowOpen, Stage, Rows
  <1>13. QED
    BY <1>1, <1>3, <1>9, <1>10, <1>12, GoesOn DEF IsCall, Stage, DoorsTypeOK

LEMMA UpstreamAnswersSound ==
    ASSUME DoorsAssumption, DoorsInv, NEW provider \in {"openai", "anthropic"},
           NEW moved \in BOOLEAN, NEW count \in Counts, UpstreamAnswers(provider, moved, count)
    PROVE  DoorsInv'
  <1>1. /\ handled \in Handled /\ logged' \in Rows /\ spoken \in Spoken
        /\ handled.door \in TheDoors /\ handled.stage = "calling" /\ handled.blamed = "nobody"
        /\ ~handled.moved /\ ~handled.ended /\ ~handled.left
        /\ logged' = logged /\ RowOpen
    BY DEF DoorsInv, DoorsTypeOK, CallSound, Stage, UpstreamAnswers
  <1>2. PICK stage : stage = IF handled.stream THEN "speaking" ELSE "answered"
    OBVIOUS
  <1>3. PICK code : code = 200
    OBVIOUS
  <1>4. code \in Nat /\ stage \in AtTheDoor \cup {"new", "over"}
    BY <1>2, <1>3 DEF AtTheDoor
  <1>5. handled' = Replied(handled, provider, moved, stage, code)
    BY <1>2, <1>3 DEF UpstreamAnswers, Replied
  <1>6. IsCall(handled', handled.door, handled.stream, stage, provider,
               moved, handled.ended, handled.left, code, handled.blamed)
    BY <1>1, <1>4, <1>5, CallAnswered
  <1>7. spoken' \in Spoken /\ spoken'.count = count
    <2>1. spoken' = [spoken EXCEPT !.count = count] /\ count \in Tokens
      BY DoorsNumbers DEF UpstreamAnswers
    <2>2. QED
      BY <1>1, <2>1 DEF Spoken
  <1>8. CallSound'
    BY <1>1, <1>2, <1>3, <1>6, <1>7 DEF IsCall, CallSound, Stage, Answering
  <1>9. ~moved => provider = handled.provider
    BY DEF UpstreamAnswers
  <1>10. RowOpen'
    BY <1>1, <1>2, <1>6, <1>9 DEF IsCall, RowOpen, Stage
  <1>11. QED
    BY <1>1, <1>2, <1>6, <1>7, <1>8, <1>10, GoesOn DEF IsCall, Stage, DoorsTypeOK

LEMMA UpstreamFailsSound ==
    ASSUME DoorsInv, UpstreamFails
    PROVE  DoorsInv'
  <1>1. /\ handled \in Handled /\ logged \in Rows /\ handled.door \in TheDoors
        /\ logged.cost = 0 /\ handled.blamed = "nobody" /\ handled.stage = "calling"
        /\ spoken' \in Spoken /\ spoken' = spoken /\ ~handled.left
    BY DEF DoorsInv, DoorsTypeOK, CallSound, RowOpen, Stage, UpstreamFails
  <1>2. PICK code : code = 502
    OBVIOUS
  <1>3. code \in Nat \ {200, 499} /\ code # 0 /\ code # 500
    BY <1>2
  <1>4. Log(Closed(logged, code)) \/ Log(ClosedShown(logged, code))
    BY <1>2 DEF UpstreamFails, ChatFails, MessagesFails, ResponsesFails, Closed, ClosedShown
  <1>5. PICK r : r \in {Closed(logged, code), ClosedShown(logged, code)} /\ Log(r)
    BY <1>4
  <1>6. r \in Rows /\ r.kept = logged.kept /\ r.status = code /\ r.cost = 0
    <2>1. IsRow(Closed(logged, code), logged.kept, code, logged.provider,
                logged.scored, logged.shown, logged.cost)
      BY <1>1, <1>3, RowStatus
    <2>2. IsRow(ClosedShown(logged, code), logged.kept, code, logged.provider,
                logged.scored, TRUE, logged.cost)
      BY <1>1, <1>3, RowStatusShown
    <2>3. QED
      BY <1>1, <1>5, <2>1, <2>2 DEF IsRow
  <1>7. /\ logged' \in Rows /\ logged'.kept = logged.kept
        /\ logged.kept => logged'.status = code /\ logged'.cost = 0
    BY <1>1, <1>5, <1>6, RowLogged
  <1>8. CASE handled' = Over(502, "server")
    <2>1. IsCall(handled', handled.door, handled.stream, "over", handled.provider,
                 handled.moved, handled.ended, handled.left, code, "server")
      BY <1>1, <1>2, <1>3, <1>8, CallEnds
    <2>2. BlameFits'
      BY <1>2, <2>1 DEF IsCall, BlameFits
    <2>3. QED
      BY <1>1, <1>2, <1>3, <1>7, <1>8, <2>2, EndsEarly
  <1>9. CASE /\ Through("responses") /\ handled.stream
             /\ handled' = [Over(200, "nobody") EXCEPT !.ended = TRUE]
    <2>1. PICK h : h = Over(200, "nobody")
      OBVIOUS
    <2>10. PICK ended : ended = TRUE
      OBVIOUS
    <2>2. handled' = Ended(h, ended) /\ ended \in BOOLEAN
      BY <1>9, <2>1, <2>10 DEF Ended
    <2>3. 200 \in Nat
      OBVIOUS
    <2>4. IsCall(h, handled.door, handled.stream, "over", handled.provider,
                 handled.moved, handled.ended, handled.left, 200, "nobody")
      BY <1>1, <2>1, <2>3, CallEnds
    <2>11. IsCall(handled', h.door, h.stream, h.stage, h.provider,
                  h.moved, ended, h.left, h.code, h.blamed)
      BY <2>2, <2>4, CallEnded DEF IsCall
    <2>5. IsCall(handled', handled.door, handled.stream, "over", handled.provider,
                 handled.moved, ended, handled.left, 200, "nobody")
      BY <2>4, <2>11 DEF IsCall
    <2>12. handled.door = "responses" /\ handled.stream
      BY <1>9 DEF Through
    <2>6. /\ handled'.stream /\ ~handled'.left /\ handled'.code = 200
          /\ handled'.door = "responses" /\ handled'.blamed = "nobody"
      BY <1>1, <2>5, <2>12 DEF IsCall
    <2>7. ASSUME logged'.kept
          PROVE  logged'.status = 502 /\ logged'.cost = 0
      BY <1>2, <1>7, <2>7
    <2>8. RowTellsOutcome'
      BY <2>6, <2>7 DEF RowTellsOutcome, BlameFits, Through
    <2>9. QED
      BY <1>1, <1>7, <2>5, <2>8, IsOver DEF IsCall, DoorsTypeOK, Stage
  <1>10. QED
    BY <1>8, <1>9 DEF UpstreamFails, ChatFails, MessagesFails, ResponsesFails

(* What has been seen of the count, and what it is charged with. *)
LEMMA SeesCost ==
    ASSUME DoorsAssumption, DoorsTypeOK, NEW c \in Counts
    PROVE  /\ Sees(c) \in Sights
           /\ IF handled.provider = "anthropic" /\ c.cached > 0
              THEN Cost(Sees(c)) <= Worth(c) ELSE Cost(Sees(c)) = Worth(c)
  <1>1. c.cached \in Nat
    BY DoorsNumbers DEF Tokens
  <1>2. /\ OpenAISees(c) \in Sights /\ Cost(OpenAISees(c)) = Worth(c)
        /\ AnthropicSees(c) \in Sights /\ Cost(AnthropicSees(c)) <= Worth(c)
        /\ NormalizedSees(c) \in Sights /\ Cost(NormalizedSees(c)) <= Worth(c)
        /\ c.cached = 0 => /\ Cost(AnthropicSees(c)) = Worth(c)
                           /\ Cost(NormalizedSees(c)) = Worth(c)
    BY SightsCost
  <1>3. CASE handled.provider # "anthropic"
    BY <1>2, <1>3 DEF Sees
  <1>4. CASE handled.provider = "anthropic"
    <2>1. Sees(c) \in {NormalizedSees(c), AnthropicSees(c)}
      BY <1>4 DEF Sees
    <2>2. QED
      BY <1>1, <1>2, <1>4, <2>1
  <1>5. QED
    BY <1>3, <1>4

LEMMA SeenSoFarIs ==
    ASSUME DoorsAssumption, DoorsTypeOK, spoken.count \in Counts
    PROVE  /\ SeenSoFar \in Sights
           /\ spoken.reported = "all" => SeenSoFar = Sees(spoken.count)
  <1>1. Sees(spoken.count) \in Sights /\ AnthropicSees(spoken.count) \in Sights
    BY SeesCost, SightsCost
  <1>2. NoSight \in Sights
    BY DEF NoSight, Sights
  <1>3. [AnthropicSees(spoken.count) EXCEPT !.completion = 0] \in Sights
    <2>1. PICK a : a = AnthropicSees(spoken.count)
      OBVIOUS
    <2>2. a \in Sights /\ 0 \in Nat
      BY <1>1, <2>1
    <2>3. [a EXCEPT !.completion = 0] \in Sights
      BY <2>2 DEF Sights
    <2>4. QED
      BY <2>1, <2>3
  <1>4. spoken.reported \in {"none", "start", "all"}
    BY DEF DoorsTypeOK, Spoken
  <1>5. QED
    BY <1>1, <1>2, <1>3, <1>4 DEF SeenSoFar

(* At the door of the Responses protocol the text is not shown. *)
ByDoor(r) == IF Through("responses") THEN r ELSE Shown(r)
ShownHere(r) == IF Through("responses") THEN r.shown ELSE TRUE

LEMMA ShownByDoor ==
    ASSUME NEW r \in Rows
    PROVE  /\ ByDoor(r) \in Rows /\ ByDoor(r).kept = r.kept /\ ByDoor(r).status = r.status
           /\ ByDoor(r).provider = r.provider /\ ByDoor(r).scored = r.scored
           /\ ByDoor(r).cost = r.cost /\ ByDoor(r).shown = ShownHere(r)
  <1>1. CASE Through("responses")
    BY <1>1 DEF ByDoor, ShownHere
  <1>2. CASE ~Through("responses")
    <2>1. ByDoor(r) = Shown(r) /\ ShownHere(r) = TRUE
      BY <1>2 DEF ByDoor, ShownHere
    <2>2. IsRow(ByDoor(r), r.kept, r.status, r.provider, r.scored, TRUE, r.cost)
      BY <2>1, RowShown
    <2>3. QED
      BY <2>1, <2>2 DEF IsRow
  <1>3. QED
    BY <1>1, <1>2

(* The row that a stream leaves, whatever its door and its end. *)
LEMMA FinallyWrites ==
    ASSUME DoorsAssumption, DoorsInv, handled.stage \in {"speaking", "ending", "leaving"},
           NEW status \in {200, 499, 502}, Finally(status)
    PROVE  /\ logged' \in Rows /\ logged'.kept = logged.kept
           /\ logged.kept =>
                /\ logged'.status = status /\ logged'.provider = logged.provider
                /\ logged'.shown <=> logged'.scored
                /\ status # 200 => logged'.cost = 0
                /\ status = 200 /\ spoken.reported = "all" =>
                      logged'.cost = Cost(Sees(spoken.count))
  <1>1. /\ DoorsTypeOK /\ logged \in Rows /\ handled.door \in TheDoors
        /\ spoken.count \in Counts /\ logged.cost = 0 /\ ~logged.shown
        /\ logged.kept => (logged.scored <=> handled.door \in Scored)
        /\ status \in Nat
    BY DEF DoorsInv, DoorsTypeOK, CallSound, RowOpen, Stage, Answering
  <1>2. PICK b : b = Billed(logged, SeenSoFar)
    OBVIOUS
  <1>3. PICK e : e = Closed(logged, status)
    OBVIOUS
  <1>4. IsRow(b, logged.kept, 200, logged.provider, logged.scored, logged.shown,
              Cost(SeenSoFar))
    BY <1>1, <1>2, RowBilled, SeenSoFarIs
  <1>5. IsRow(e, logged.kept, status, logged.provider, logged.scored, logged.shown, logged.cost)
    BY <1>1, <1>3, RowStatus
  <1>6. PICK w : \/ w = b /\ status = 200
                 \/ w = e /\ (status = 200 => spoken.reported # "all")
        /\ Log(ByDoor(w))
    <2>1. CASE Through("chat")
      <3>1. ~Through("responses")
        BY <2>1 DEF Through
      <3>2. PICK w : w = IF status = 200 /\ spoken.reported = "all" THEN b ELSE e
        OBVIOUS
      <3>3. Log([w EXCEPT !.shown = TRUE])
        BY <1>2, <1>3, <2>1, <3>2 DEF Finally, ChatFinally, Closed
      <3>4. Log(ByDoor(w))
        BY <3>1, <3>3 DEF Shown, ByDoor
      <3>5. QED
        BY <3>2, <3>4
    <2>2. CASE Through("messages") /\ Native
      <3>1. ~Through("responses")
        BY <2>2 DEF Through
      <3>2. PICK w : w = IF status = 200 THEN b ELSE e
        OBVIOUS
      <3>3. Log([w EXCEPT !.shown = TRUE])
        BY <1>2, <1>3, <2>2, <3>2 DEF Finally, NativeFinally, Closed
      <3>4. Log(ByDoor(w))
        BY <3>1, <3>3 DEF Shown, ByDoor
      <3>5. QED
        BY <3>2, <3>4
    <2>3. CASE Through("messages") /\ ~Native
      <3>1. ~Through("responses")
        BY <2>3 DEF Through
      <3>2. PICK w : w = IF status = 200 /\ spoken.reported = "all" THEN b ELSE e
        OBVIOUS
      <3>3. Log([w EXCEPT !.shown = TRUE])
        BY <1>2, <1>3, <2>3, <3>2 DEF Finally, MessagesFinally, Closed
      <3>4. Log(ByDoor(w))
        BY <3>1, <3>3 DEF Shown, ByDoor
      <3>5. QED
        BY <3>2, <3>4
    <2>4. CASE Through("responses")
      BY <1>2, <1>3, <2>4 DEF Finally, ResponsesFinally, Closed, ByDoor
    <2>5. QED
      BY <1>1, <2>1, <2>2, <2>3, <2>4 DEF TheDoors, Through
  <1>7. /\ w \in Rows /\ w.kept = logged.kept /\ w.provider = logged.provider
        /\ w.scored = logged.scored /\ w.shown = logged.shown /\ w.status = status
        /\ status # 200 => w.cost = 0
        /\ status = 200 /\ spoken.reported = "all" => w.cost = Cost(Sees(spoken.count))
    BY <1>1, <1>4, <1>5, <1>6, SeenSoFarIs DEF IsRow
  <1>8. PICK x : x = ByDoor(w)
    OBVIOUS
  <1>9. /\ x \in Rows /\ x.kept = w.kept /\ x.status = w.status /\ x.provider = w.provider
        /\ x.scored = w.scored /\ x.cost = w.cost
        /\ x.shown = ShownHere(w)
    BY <1>7, <1>8, ShownByDoor
  <1>10. /\ x \in Rows /\ x.kept = logged.kept /\ x.provider = logged.provider
         /\ x.scored = logged.scored /\ x.status = status /\ x.cost = w.cost
         /\ x.shown = ShownHere(logged)
    BY <1>7, <1>9 DEF ShownHere
  <1>11. logged' \in Rows /\ logged'.kept = logged.kept /\ (logged.kept => logged' = x)
    BY <1>1, <1>6, <1>8, <1>10, RowLogged
  <1>12. Through("responses") <=> handled.door \notin Scored
    BY <1>1 DEF Through, Scored, TheDoors
  <1>13. logged.kept => (logged'.shown <=> logged'.scored)
    <2> SUFFICES ASSUME logged.kept PROVE logged'.shown <=> logged'.scored
      OBVIOUS
    <2>1. logged'.scored = logged.scored /\ logged'.shown = x.shown
      BY <1>10, <1>11
    <2>2. CASE Through("responses")
      BY <1>1, <1>10, <1>12, <2>1, <2>2 DEF ShownHere
    <2>3. CASE ~Through("responses")
      BY <1>1, <1>10, <1>12, <2>1, <2>3 DEF ShownHere
    <2>4. QED
      BY <2>2, <2>3
  <1>14. QED
    BY <1>7, <1>10, <1>11, <1>13

(* A stream is over: it has ended, or broken off, or its client has gone. *)
LEMMA StreamIsOver ==
    ASSUME DoorsAssumption, DoorsInv, handled.stage \in {"speaking", "ending", "leaving"},
           NEW status \in {200, 499, 502}, Finally(status), spoken' = spoken,
           NEW ended \in BOOLEAN,
           IsCall(handled', handled.door, handled.stream, "over", handled.provider,
                  handled.moved, ended, handled.left, handled.code, handled.blamed),
           status = 200 => ended /\ ~handled.left,
           status = 499 <=> handled.left,
           status = 502 /\ ended => ~Through("chat")
    PROVE  DoorsInv'
  <1>1. /\ DoorsTypeOK /\ spoken.count \in Counts /\ handled.stream
        /\ handled.code = 200 /\ handled.blamed = "nobody" /\ handled.door \in TheDoors
        /\ logged.kept => (~handled.moved => logged.provider = handled.provider)
    BY DEF DoorsInv, CallSound, RowOpen, Stage, Answering
  <1>2. /\ logged' \in Rows /\ logged'.kept = logged.kept
        /\ logged.kept =>
             /\ logged'.status = status /\ logged'.provider = logged.provider
             /\ logged'.shown <=> logged'.scored
             /\ status # 200 => logged'.cost = 0
             /\ status = 200 /\ spoken.reported = "all" =>
                   logged'.cost = Cost(Sees(spoken.count))
    BY FinallyWrites
  <1>3. IF handled.provider = "anthropic" /\ spoken.count.cached > 0
        THEN Cost(Sees(spoken.count)) <= Worth(spoken.count)
        ELSE Cost(Sees(spoken.count)) = Worth(spoken.count)
    BY <1>1, SeesCost
  <1>4. /\ handled'.door = handled.door /\ handled'.provider = handled.provider
        /\ handled'.moved = handled.moved /\ handled'.ended = ended
        /\ handled'.left = handled.left /\ handled'.code = 200 /\ handled'.blamed = "nobody"
        /\ handled'.stream = handled.stream /\ handled' \in Handled /\ handled'.stage = "over"
    BY <1>1 DEF IsCall
  <1>5. BlameFits'
    BY <1>4 DEF BlameFits
  <1>6. ASSUME logged'.kept
        PROVE  /\ logged'.status = 0 <=> handled'.code = 500
               /\ ~handled'.stream /\ logged'.status # 0 => logged'.status = handled'.code
               /\ logged'.status = 200 => handled'.ended /\ ~handled'.left
               /\ logged'.status = 499 <=> handled'.left
               /\ logged'.status = 502 /\ handled'.ended => handled'.stream /\ ~Through("chat")'
               /\ logged'.cost > 0 => logged'.status = 200
    BY <1>1, <1>2, <1>4, <1>6 DEF Through
  <1>7. ASSUME logged'.kept, logged'.status = 200, spoken'.reported = "all"
        PROVE  IF handled'.provider = "anthropic" /\ spoken'.count.cached > 0
               THEN logged'.cost <= Worth(spoken'.count)
               ELSE logged'.cost = Worth(spoken'.count)
    <2>1. status = 200 /\ logged'.cost = Cost(Sees(spoken.count))
      BY <1>2, <1>7
    <2>2. QED
      BY <1>3, <1>4, <2>1
  <1>8. ASSUME logged'.kept
        PROVE  /\ ~handled'.moved => logged'.provider = handled'.provider
               /\ logged'.shown = logged'.scored
    <2>1. logged'.shown \in BOOLEAN /\ logged'.scored \in BOOLEAN
      BY <1>2 DEF Rows
    <2>2. QED
      BY <1>1, <1>2, <1>4, <1>8, <2>1
  <1>9. RowTellsOutcome'
    BY <1>5, <1>6, <1>7, <1>8 DEF RowTellsOutcome, Worth
  <1>10. spoken' \in Spoken
    BY <1>1 DEF DoorsTypeOK
  <1>11. QED
    BY <1>1, <1>2, <1>4, <1>9, <1>10, IsOver DEF DoorsTypeOK, Stage

LEMMA StreamEndsSound ==
    ASSUME DoorsAssumption, DoorsInv, StreamEnds \/ StreamBreaks \/ AbortReported
    PROVE  DoorsInv'
  <1>1. /\ handled \in Handled /\ handled.ended \in BOOLEAN /\ spoken' = spoken
        /\ handled.stage \in {"speaking", "ending", "leaving"}
    BY DEF DoorsInv, DoorsTypeOK, Handled, StreamEnds, StreamBreaks, AbortReported, Streamed, Stage
  <1>2. /\ handled.stage = "ending" => handled.ended
        /\ handled.stage = "speaking" => ~handled.ended
        /\ handled.stage = "leaving" <=> handled.left
    BY <1>1 DEF DoorsInv, CallSound, Stage
  <1>3. CASE StreamEnds
    <2>1. handled' = Staged(handled, "over") /\ handled.stage = "ending" /\ Finally(200)
      BY <1>3 DEF StreamEnds, Staged, Stage
    <2>2. IsCall(handled', handled.door, handled.stream, "over", handled.provider,
                 handled.moved, handled.ended, handled.left, handled.code, handled.blamed)
      BY <1>1, <2>1, CallStage
    <2>3. PICK status : status = 200
      OBVIOUS
    <2>4. status \in {200, 499, 502} /\ Finally(status)
      BY <2>1, <2>3
    <2>5. QED
      BY <1>1, <1>2, <2>1, <2>2, <2>3, <2>4, StreamIsOver
  <1>4. CASE StreamBreaks
    <2>1. PICK ended : ended = (handled.ended \/ Through("responses"))
      OBVIOUS
    <2>2. ended \in BOOLEAN
      BY <2>1
    <2>3. handled' = Told(handled, "over", ended)
      BY <1>4, <2>1 DEF StreamBreaks, Told
    <2>4. IsCall(handled', handled.door, handled.stream, "over", handled.provider,
                 handled.moved, ended, handled.left, handled.code, handled.blamed)
      BY <1>1, <2>2, <2>3, CallTold
    <2>5. PICK status : status = 502
      OBVIOUS
    <2>6. status \in {200, 499, 502} /\ Finally(status)
      BY <1>4, <2>5 DEF StreamBreaks
    <2>7. handled.stage \in {"speaking", "ending"} /\ (handled.stage = "ending" => ~Through("chat"))
      BY <1>4 DEF StreamBreaks, Streamed, Stage
    <2>8. ended => ~Through("chat")
      BY <1>2, <2>1, <2>7 DEF Through
    <2>9. QED
      BY <1>1, <1>2, <2>2, <2>4, <2>5, <2>6, <2>7, <2>8, StreamIsOver
  <1>5. CASE AbortReported
    <2>1. handled' = Staged(handled, "over") /\ handled.stage = "leaving" /\ Finally(499)
      BY <1>5 DEF AbortReported, Staged, Stage
    <2>2. IsCall(handled', handled.door, handled.stream, "over", handled.provider,
                 handled.moved, handled.ended, handled.left, handled.code, handled.blamed)
      BY <1>1, <2>1, CallStage
    <2>3. PICK status : status = 499
      OBVIOUS
    <2>4. status \in {200, 499, 502} /\ Finally(status)
      BY <2>1, <2>3
    <2>5. QED
      BY <1>1, <1>2, <2>1, <2>2, <2>3, <2>4, StreamIsOver
  <1>6. QED
    BY <1>3, <1>4, <1>5

LEMMA AnswersSound ==
    ASSUME DoorsAssumption, DoorsInv, NEW counted \in BOOLEAN, Answers(counted)
    PROVE  DoorsInv'
  <1>1. /\ DoorsTypeOK /\ handled \in Handled /\ logged \in Rows /\ handled.door \in TheDoors
        /\ handled.stage = "answered" /\ ~handled.left /\ ~handled.stream
        /\ handled.code = 200 /\ handled.blamed = "nobody" /\ spoken.count \in Counts
        /\ ~logged.shown
        /\ logged.kept =>
             /\ logged.scored <=> handled.door \in Scored
             /\ ~handled.moved => logged.provider = handled.provider
    BY DEF DoorsInv, DoorsTypeOK, CallSound, RowOpen, Stage, Answering, Answers
  <1>21. PICK ended : ended = TRUE
    OBVIOUS
  <1>2. handled' = Told(handled, "over", ended) /\ ended \in BOOLEAN
    BY <1>21 DEF Answers, Told
  <1>3. IsCall(handled', handled.door, handled.stream, "over", handled.provider,
               handled.moved, ended, handled.left, handled.code, handled.blamed)
    BY <1>1, <1>2, CallTold
  <1>4. /\ spoken' \in Spoken /\ spoken'.count = spoken.count
        /\ spoken'.reported = "all" <=> counted
    <2>1. PICK reported : reported = IF counted THEN "all" ELSE "none"
      OBVIOUS
    <2>2. spoken' = [spoken EXCEPT !.reported = reported]
      BY <2>1 DEF Answers
    <2>3. QED
      BY <1>1, <2>1, <2>2 DEF DoorsTypeOK, Spoken
  <1>5. PICK sight : sight = IF counted THEN Sees(spoken.count) ELSE NoSight
    OBVIOUS
  <1>6. sight \in Sights
    BY <1>1, <1>5, SeesCost DEF NoSight, Sights
  <1>7. PICK bill : bill = Billed(logged, sight)
    OBVIOUS
  <1>8. IsRow(bill, logged.kept, 200, logged.provider, logged.scored, logged.shown,
              Cost(sight))
    BY <1>1, <1>6, <1>7, RowBilled
  <1>9. Log(ByDoor(bill))
    <2>1. Native => Sees(spoken.count) = AnthropicSees(spoken.count)
      BY <1>1 DEF Native, Sees
    <2>2. CASE ChatAnswers(counted)
      BY <1>5, <1>7, <2>2, SMTT(30) DEF ChatAnswers, Shown, ByDoor, Through
    <2>3. CASE NativeAnswers(counted)
      <3>1. /\ ~Through("responses")
            /\ Sees(spoken.count) = AnthropicSees(spoken.count)
        BY <2>1, <2>3 DEF NativeAnswers, Native, Through
      <3>2. bill = Billed(logged, IF counted THEN AnthropicSees(spoken.count) ELSE NoSight)
        BY <1>5, <1>7, <3>1
      <3>3. Log([bill EXCEPT !.shown = TRUE])
        BY <2>3, <3>2 DEF NativeAnswers
      <3>4. QED
        BY <3>1, <3>3 DEF Shown, ByDoor
    <2>4. CASE MessagesAnswers(counted)
      BY <1>5, <1>7, <2>4, SMTT(30) DEF MessagesAnswers, Shown, ByDoor, Through
    <2>5. CASE ResponsesAnswers(counted)
      BY <1>5, <1>7, <2>5 DEF ResponsesAnswers, ByDoor
    <2>6. QED
      BY <2>2, <2>3, <2>4, <2>5 DEF Answers
  <1>10. PICK x : x = ByDoor(bill)
    OBVIOUS
  <1>11. /\ x \in Rows /\ x.kept = logged.kept /\ x.status = 200
         /\ x.provider = logged.provider /\ x.scored = logged.scored /\ x.cost = Cost(sight)
         /\ x.shown = ShownHere(logged)
    <2>1. /\ bill \in Rows /\ bill.kept = logged.kept /\ bill.status = 200
          /\ bill.provider = logged.provider /\ bill.scored = logged.scored
          /\ bill.cost = Cost(sight) /\ bill.shown = logged.shown
      BY <1>8 DEF IsRow
    <2>2. /\ x \in Rows /\ x.kept = bill.kept /\ x.status = bill.status
          /\ x.provider = bill.provider /\ x.scored = bill.scored /\ x.cost = bill.cost
          /\ x.shown = ShownHere(bill)
      BY <1>10, <2>1, ShownByDoor
    <2>3. QED
      BY <2>1, <2>2 DEF ShownHere
  <1>12. logged' \in Rows /\ logged'.kept = logged.kept /\ (logged.kept => logged' = x)
    BY <1>1, <1>9, <1>10, <1>11, RowLogged DEF IsRow
  <1>13. Through("responses") <=> handled.door \notin Scored
    BY <1>1 DEF Through, Scored, TheDoors
  <1>14. /\ handled'.door = handled.door /\ handled'.provider = handled.provider
         /\ handled'.moved = handled.moved /\ handled'.ended
         /\ ~handled'.left /\ handled'.code = 200 /\ handled'.blamed = "nobody"
         /\ ~handled'.stream /\ handled' \in Handled /\ handled'.stage = "over"
    BY <1>1, <1>3, <1>21 DEF IsCall
  <1>15. ASSUME logged'.kept
         PROVE  /\ logged'.status = 200 /\ logged'.provider = logged.provider
                /\ logged'.shown = logged'.scored
                /\ logged'.cost = Cost(sight)
    <2>1. /\ logged.kept /\ logged' = x /\ logged.scored \in BOOLEAN
          /\ logged.shown \in BOOLEAN /\ ~logged.shown
      BY <1>1, <1>12, <1>15 DEF Rows
    <2>2. /\ logged'.status = 200 /\ logged'.provider = logged.provider
          /\ logged'.scored = logged.scored /\ logged'.cost = Cost(sight)
          /\ logged'.shown = ShownHere(logged)
      BY <1>11, <2>1 DEF IsRow
    <2>3. CASE Through("responses")
      <3>1. handled.door \notin Scored /\ ~logged.scored
        BY <1>1, <1>13, <2>1, <2>3
      <3>2. logged.shown = logged.scored
        BY <2>1, <3>1
      <3>3. ShownHere(logged) = logged.shown
        BY <2>3 DEF ShownHere
      <3>4. QED
        BY <2>2, <3>2, <3>3
    <2>4. CASE ~Through("responses")
      <3>1. handled.door \in Scored /\ logged.scored
        BY <1>1, <1>13, <2>1, <2>4
      <3>2. ShownHere(logged) \in BOOLEAN /\ ShownHere(logged)
        BY <2>4 DEF ShownHere
      <3>3. ShownHere(logged) = logged.scored
        BY <2>1, <3>1, <3>2
      <3>4. QED
        BY <2>2, <3>3
    <2>5. QED
      BY <2>3, <2>4
  <1>16. ASSUME logged'.kept, spoken'.reported = "all"
         PROVE  IF handled'.provider = "anthropic" /\ spoken'.count.cached > 0
                THEN logged'.cost <= Worth(spoken'.count)
                ELSE logged'.cost = Worth(spoken'.count)
    <2>1. logged'.cost = Cost(Sees(spoken.count))
      BY <1>4, <1>5, <1>15, <1>16
    <2>2. IF handled.provider = "anthropic" /\ spoken.count.cached > 0
          THEN Cost(Sees(spoken.count)) <= Worth(spoken.count)
          ELSE Cost(Sees(spoken.count)) = Worth(spoken.count)
      BY <1>1, SeesCost
    <2>3. QED
      BY <1>4, <1>14, <2>1, <2>2
  <1>17. BlameFits'
    BY <1>14 DEF BlameFits
  <1>18. ASSUME logged'.kept
         PROVE  ~handled'.moved => logged'.provider = handled'.provider
    BY <1>1, <1>12, <1>14, <1>15, <1>18
  <1>19. RowTellsOutcome'
    BY <1>14, <1>15, <1>16, <1>17, <1>18 DEF RowTellsOutcome, Worth
  <1>20. QED
    BY <1>1, <1>4, <1>12, <1>14, <1>19, IsOver DEF DoorsTypeOK, Stage

LEMMA SpeaksSound ==
    ASSUME DoorsInv, SaysPiece \/ SaysEnd \/ ClientLeaves
    PROVE  DoorsInv'
  <1>1. /\ handled \in Handled /\ logged' \in Rows /\ spoken' \in Spoken
        /\ handled.door \in TheDoors /\ handled.blamed = "nobody" /\ handled.code = 200
        /\ handled.stage \in {"speaking", "ending"} /\ handled.stream /\ ~handled.left
        /\ handled.stage = "speaking" => ~handled.ended
        /\ handled.stage = "ending" => handled.ended
        /\ spoken.count \in Counts /\ RowOpen /\ logged' = logged /\ spoken' = spoken
    BY DEF DoorsInv, DoorsTypeOK, CallSound, Stage, Answering, SaysPiece, SaysEnd, ClientLeaves,
       Streamed
  <1>2. PICK stage, ended, left :
          /\ IsCall(handled', handled.door, handled.stream, stage, handled.provider,
                    handled.moved, ended, left, handled.code, handled.blamed)
          /\ \/ stage = handled.stage /\ ended = handled.ended /\ left = handled.left
             \/ stage = "ending" /\ ended = TRUE /\ left = handled.left
             \/ stage = "leaving" /\ left = TRUE
    <2>1. CASE SaysPiece
      <3>1. handled' = [handled EXCEPT !.said = @ + 1]
        BY <2>1 DEF SaysPiece
      <3>2. IsCall(handled', handled.door, handled.stream, handled.stage, handled.provider,
                   handled.moved, handled.ended, handled.left, handled.code, handled.blamed)
        BY <1>1, <3>1, CallSpeaks
      <3>3. QED
        BY <3>2
    <2>2. CASE SaysEnd
      <3>1. handled' = Told(handled, "ending", TRUE)
        BY <2>2 DEF SaysEnd, Told
      <3>2. IsCall(handled', handled.door, handled.stream, "ending", handled.provider,
                   handled.moved, TRUE, handled.left, handled.code, handled.blamed)
        BY <1>1, <3>1, CallTold DEF AtTheDoor
      <3>3. QED
        BY <3>2
    <2>3. CASE ClientLeaves
      <3>1. handled' = Left(handled, "leaving")
        BY <2>3 DEF ClientLeaves, Left
      <3>2. IsCall(handled', handled.door, handled.stream, "leaving", handled.provider,
                   handled.moved, handled.ended, TRUE, handled.code, handled.blamed)
        BY <1>1, <3>1, CallLeft DEF AtTheDoor
      <3>3. QED
        BY <3>2
    <2>4. QED
      BY <2>1, <2>2, <2>3
  <1>3. CallSound'
    BY <1>1, <1>2 DEF IsCall, CallSound, Stage, Answering
  <1>4. RowOpen'
    BY <1>1, <1>2 DEF IsCall, RowOpen, Stage, Answering
  <1>5. QED
    BY <1>1, <1>2, <1>3, <1>4, GoesOn DEF IsCall, Stage, DoorsTypeOK

LEMMA CountsSound ==
    ASSUME DoorsInv, NativeCounts \/ ChunkCounts
    PROVE  DoorsInv'
  <1>1. /\ spoken \in Spoken /\ handled' = handled /\ logged' = logged
        /\ handled.stage \in {"speaking", "ending"}
    BY DEF DoorsInv, DoorsTypeOK, NativeCounts, ChunkCounts, Streamed
  <1>2. PICK reported \in {"start", "all"} : spoken' = [spoken EXCEPT !.reported = reported]
    BY <1>1 DEF NativeCounts, ChunkCounts
  <1>3. spoken' \in Spoken /\ spoken'.count = spoken.count
    BY <1>1, <1>2 DEF Spoken
  <1>4. CallSound' /\ RowOpen'
    BY <1>1, <1>3 DEF DoorsInv, CallSound, RowOpen, Stage, Answering
  <1>5. DoorsTypeOK' /\ ~Stage("over")'
    BY <1>1, <1>3 DEF DoorsInv, DoorsTypeOK, Stage
  <1>6. QED
    BY <1>4, <1>5, GoesOn

LEMMA DoorsStep ==
    ASSUME DoorsAssumption, DoorsInv, [NextDoors]_doorVars
    PROVE  DoorsInv'
  <1>1. ASSUME NEW door \in TheDoors, NEW stream \in BOOLEAN, NEW buffered \in BOOLEAN,
               NEW funds \in BOOLEAN, Enter(door, stream, buffered, funds)
        PROVE  DoorsInv'
    BY <1>1, EnterSound
  <1>2. ASSUME NEW door \in TheDoors, NEW code \in GateCodes, TurnedAway(door, code)
        PROVE  DoorsInv'
    BY <1>2, TurnedAwaySound
  <1>3. ASSUME NEW code \in Refusals, RoutingRefuses(code)
        PROVE  DoorsInv'
    BY <1>3, RoutingRefusesSound
  <1>4. CASE AllLimited
    BY <1>4, AllLimitedSound
  <1>5. ASSUME NEW provider \in {"openai", "anthropic"}, Routes(provider)
        PROVE  DoorsInv'
    BY <1>5, RoutesSound
  <1>6. ASSUME NEW provider \in {"openai", "anthropic"}, NEW moved \in BOOLEAN,
               NEW count \in Counts, UpstreamAnswers(provider, moved, count)
        PROVE  DoorsInv'
    BY <1>6, UpstreamAnswersSound
  <1>7. CASE UpstreamFails
    BY <1>7, UpstreamFailsSound
  <1>8. CASE Unexpected
    BY <1>8, UnexpectedSound
  <1>9. ASSUME NEW counted \in BOOLEAN, Answers(counted)
        PROVE  DoorsInv'
    BY <1>9, AnswersSound
  <1>10. CASE SaysPiece \/ SaysEnd \/ ClientLeaves
    BY <1>10, SpeaksSound
  <1>11. CASE NativeCounts \/ ChunkCounts
    BY <1>11, CountsSound
  <1>12. CASE StreamEnds \/ StreamBreaks \/ AbortReported
    BY <1>12, StreamEndsSound
  <1>13. CASE UNCHANGED doorVars
    BY <1>13 DEF doorVars, DoorsInv, DoorsTypeOK, CallSound, RowOpen, RowTellsOutcome,
       BlameFits, Stage, Through, Worth
  <1>14. QED
    BY <1>1, <1>2, <1>3, <1>4, <1>5, <1>6, <1>7, <1>8, <1>9, <1>10, <1>11, <1>12, <1>13
    DEF NextDoors, TheDoors

(* Whatever is counted, priced and refused, and wherever the stream breaks  *)
(* off or its client leaves: the row tells what became of the call.         *)
THEOREM OutcomesAreTold == DoorsSpec => [](DoorsTypeOK /\ RowTellsOutcome)
  <1>1. DoorsInv => DoorsTypeOK /\ RowTellsOutcome
    BY DEF DoorsInv
  <1>2. QED
    BY <1>1, DoorsInitially, DoorsStep, DoorsAssumption, PTL DEF DoorsSpec

-----------------------------------------------------------------------------
(* How a question is judged. *)

(* The scale and the spread of scores keep their order.                     *)
LEMMA ClipGrows ==
    ASSUME NEW a \in Int, NEW b \in Int, a <= b, NEW low \in Int, NEW high \in Int,
           low <= high
    PROVE  /\ Clip(a, low, high) \in low..high /\ Clip(b, low, high) \in low..high
           /\ Clip(a, low, high) <= Clip(b, low, high)
  BY DEF Clip, Least, Most

LEMMA ScaledGrows ==
    ASSUME JudgementAssumption, NEW a \in Int, NEW b \in Int, a <= b
    PROVE  Scaled(a) \in Int /\ Scaled(b) \in Int /\ Scaled(a) <= Scaled(b)
  <1>1. PICK x, y, d : /\ x = 200 * (Clip(a, RangeLow, RangeHigh) - RangeLow)
                       /\ y = 200 * (Clip(b, RangeLow, RangeHigh) - RangeLow)
                       /\ d = RangeHigh - RangeLow
    OBVIOUS
  <1>2. x \in Int /\ y \in Int /\ x <= y /\ d \in Nat \ {0}
    <2>1. RangeLow \in Int /\ RangeHigh \in Int /\ RangeLow < RangeHigh
      BY DEF JudgementAssumption
    <2>2. PICK v, w : v = Clip(a, RangeLow, RangeHigh) /\ w = Clip(b, RangeLow, RangeHigh)
      OBVIOUS
    <2>3. RangeLow <= RangeHigh
      BY <2>1
    <2>4. v \in RangeLow..RangeHigh /\ w \in RangeLow..RangeHigh /\ v <= w
      BY <2>1, <2>2, <2>3, ClipGrows
    <2>5. QED
      BY <1>1, <2>1, <2>2, <2>4
  <1>3. QED
    BY <1>1, <1>2, QuotientGrows DEF Scaled

LEMMA SpreadGrows ==
    ASSUME NEW a \in Int, NEW b \in Int, a <= b
    PROVE  Spread(a) \in Int /\ Spread(b) \in Int /\ Spread(a) <= Spread(b)
  <1>1. PICK x, y : x = 1000 * (a - 40) /\ y = 1000 * (b - 40)
    OBVIOUS
  <1>2. x \in Int /\ y \in Int /\ x <= y /\ 105 \in Nat \ {0}
    BY <1>1
  <1>3. x \div 105 \in Int /\ y \div 105 \in Int /\ x \div 105 <= y \div 105
    BY <1>2, QuotientGrows
  <1>4. QED
    BY <1>1, <1>3, ClipGrows DEF Spread

(* A judge that finds a question harder does not lower the average, since   *)
(* no weight is negative.                                                   *)
LEMMA AverageGrows ==
    ASSUME JudgementAssumption,
           NEW s \in [Judges -> Int], NEW t \in [Judges -> Int],
           \A j \in Judges : s[j] <= t[j],
           NEW w \in [Judges -> Nat], \E j \in Judges : w[j] > 0
    PROVE  /\ Average(s, w) \in Int /\ Average(t, w) \in Int
           /\ Average(s, w) <= Average(t, w)
  <1>1. PICK f, g, h : /\ f = [j \in Judges |-> s[j] * w[j]]
                       /\ g = [j \in Judges |-> t[j] * w[j]]
                       /\ h = [j \in Judges |-> w[j]]
    OBVIOUS
  <1>2. IsFiniteSet(Judges)
    BY DEF JudgementAssumption
  <1>3. \A j \in Judges : f[j] \in Int /\ g[j] \in Int /\ f[j] <= g[j]
    <2> SUFFICES ASSUME NEW j \in Judges
                 PROVE  f[j] \in Int /\ g[j] \in Int /\ f[j] <= g[j]
      OBVIOUS
    <2>1. s[j] \in Int /\ t[j] \in Int /\ s[j] <= t[j] /\ w[j] \in Nat
      OBVIOUS
    <2>2. s[j] * w[j] \in Int /\ t[j] * w[j] \in Int /\ s[j] * w[j] <= t[j] * w[j]
      BY <2>1, ProductsGrow
    <2>3. QED
      BY <1>1, <2>2
  <1>4. SumOf(f, Judges) \in Int /\ SumOf(g, Judges) \in Int
        /\ SumOf(f, Judges) <= SumOf(g, Judges)
    BY <1>2, <1>3, SumIsInt, SumGrows
  <1>5. SumOf(h, Judges) \in Nat \ {0}
    <2>1. PICK j \in Judges : w[j] > 0
      OBVIOUS
    <2>2. \A i \in Judges : h[i] \in Nat
      BY <1>1
    <2>3. h[j] <= SumOf(h, Judges) /\ SumOf(h, Judges) \in Int
      BY <1>2, <2>2, SumAtLeast, SumIsInt
    <2>4. QED
      BY <1>1, <2>1, <2>3
  <1>6. /\ Average(s, w) = SumOf(f, Judges) \div SumOf(h, Judges)
        /\ Average(t, w) = SumOf(g, Judges) \div SumOf(h, Judges)
    <2>1. DOMAIN f = Judges /\ DOMAIN g = Judges /\ DOMAIN h = Judges
      BY <1>1
    <2>2. /\ FoldFunction(+, 0, f) = SumOf(f, Judges)
          /\ FoldFunction(+, 0, g) = SumOf(g, Judges)
          /\ FoldFunction(+, 0, h) = SumOf(h, Judges)
      BY <2>1, FoldIsSum
    <2>3. QED
      BY <1>1, <2>2 DEF Average
  <1>7. QED
    BY <1>4, <1>5, <1>6, QuotientGrows

LEMMA BandsTyped ==
    ASSUME NEW bands \in Bands, Banded(bands)
    PROVE  /\ Len(bands) \in Nat /\ DOMAIN bands = 1..Len(bands) /\ Len(bands) # 0
           /\ 1 \in DOMAIN bands /\ Len(bands) \in DOMAIN bands
           /\ \A m \in 1..Len(bands) :
                 /\ bands[m].from \in Int /\ bands[m].to \in Int /\ bands[m].tier \in Int
                 /\ bands[m].from <= bands[m].to
  <1>1. Len(bands) \in Nat /\ DOMAIN bands = 1..Len(bands) /\ Len(bands) # 0
    BY DEF Bands, Banded
  <1>2. \A m \in 1..Len(bands) : bands[m] \in [from: Int, to: Int, tier: Int]
    <2>1. PICK Fields : Fields = [from: Int, to: Int, tier: Int]
      OBVIOUS
    <2>2. bands \in Seq(Fields)
      BY <2>1 DEF Bands
    <2>3. \A m \in 1..Len(bands) : bands[m] \in Fields
      BY <2>2
    <2>4. QED
      BY <2>1, <2>3
  <1>3. \A m \in 1..Len(bands) : bands[m].from <= bands[m].to
    BY <1>1 DEF Banded
  <1>4. QED
    BY <1>1, <1>2, <1>3

(* A better score is in a band that is no earlier, of graded bands.         *)
LEMMA BandsAscend ==
    ASSUME NEW bands \in Bands, Banded(bands), Graded(bands),
           NEW i \in DOMAIN bands, NEW k \in DOMAIN bands, i <= k
    PROVE  /\ bands[i].tier >= bands[k].tier /\ bands[i].from <= bands[k].from
           /\ i < k => bands[i].to <= bands[k].from
  <1> DEFINE Ascends(m) == /\ bands[i].tier >= bands[m].tier
                           /\ bands[i].from <= bands[m].from
                           /\ i < m => bands[i].to <= bands[m].from
             Odd == {m \in i..Len(bands) : ~Ascends(m)}
  <1>1. /\ Len(bands) \in Nat /\ i \in 1..Len(bands) /\ k \in i..Len(bands)
        /\ \A m \in 1..Len(bands) :
              /\ bands[m].from \in Int /\ bands[m].to \in Int /\ bands[m].tier \in Int
              /\ bands[m].from <= bands[m].to
    <2>1. /\ Len(bands) \in Nat /\ DOMAIN bands = 1..Len(bands)
          /\ \A m \in 1..Len(bands) :
                /\ bands[m].from \in Int /\ bands[m].to \in Int /\ bands[m].tier \in Int
                /\ bands[m].from <= bands[m].to
      BY BandsTyped
    <2>2. i \in 1..Len(bands) /\ k \in 1..Len(bands)
      BY <2>1
    <2>3. k \in i..Len(bands)
      BY <2>1, <2>2
    <2>4. QED
      BY <2>1, <2>2, <2>3
  <1>2. Odd \in SUBSET Nat
    BY <1>1
  <1>3. ASSUME Odd # {}
        PROVE  FALSE
    <2>1. PICK m \in Odd : \A n \in Odd : m <= n
      BY <1>2, <1>3, LeastElement
    <2>2. m \in i..Len(bands) /\ ~Ascends(m)
      BY <2>1
    <2>3. Ascends(i)
      BY <1>1
    <2>4. m # i
      BY <2>2, <2>3
    <2>5. PICK n : n = m - 1
      OBVIOUS
    <2>6. /\ n \in i..Len(bands) /\ n \in 1..(Len(bands) - 1) /\ n \in 1..Len(bands)
          /\ m \in 1..Len(bands) /\ m = n + 1 /\ ~(m <= n) /\ i < m
      BY <1>1, <2>2, <2>4, <2>5
    <2>7. Ascends(n)
      BY <2>1, <2>6
    <2>8. bands[n].to = bands[n + 1].from /\ bands[n].tier >= bands[n + 1].tier
      BY <2>6 DEF Graded
    <2>9. PICK x, y, z : x = bands[i] /\ y = bands[n] /\ z = bands[m]
      OBVIOUS
    <2>10. /\ x.tier >= y.tier /\ x.from <= y.from /\ y.to = z.from /\ y.tier >= z.tier
           /\ i < n => x.to <= y.from
      BY <2>6, <2>7, <2>8, <2>9
    <2>11. /\ x.from \in Int /\ x.to \in Int /\ x.tier \in Int
           /\ y.from \in Int /\ y.to \in Int /\ y.tier \in Int /\ y.from <= y.to
           /\ z.from \in Int /\ z.to \in Int /\ z.tier \in Int
      BY <1>1, <2>6, <2>9
    <2>12. i = n => x = y
      BY <2>9
    <2>13. i = n \/ i < n
      BY <1>1, <2>6
    <2>14. x.tier >= z.tier /\ x.from <= z.from /\ x.to <= z.from
      BY <2>10, <2>11, <2>12, <2>13
    <2>15. QED
      BY <2>2, <2>9, <2>14
  <1>4. Ascends(k)
    BY <1>1, <1>3
  <1>5. QED
    BY <1>4

Hits(score, bands) == {i \in DOMAIN bands : bands[i].from <= score /\ score <= bands[i].to}

LEMMA NoGap ==
    ASSUME NEW bands \in Bands, Banded(bands), Graded(bands), NEW score \in Int,
           bands[1].from <= score, score <= bands[Len(bands)].to
    PROVE  Hits(score, bands) # {}
  <1> DEFINE Begun == {i \in DOMAIN bands : bands[i].from <= score}
  <1>1. Len(bands) \in Nat /\ DOMAIN bands = 1..Len(bands) /\ Len(bands) # 0
    BY DEF Bands, Banded
  <1>2. \A m \in 1..Len(bands) :
           /\ bands[m].from \in Int /\ bands[m].to \in Int
           /\ bands[m].from <= bands[m].to
    BY BandsTyped
  <1>3. 1 \in Begun /\ Begun \in SUBSET (0..Len(bands))
    BY <1>1
  <1>4. PICK i \in Begun : \A k \in Begun : k <= i
    BY <1>1, <1>3, GreatestElement
  <1>5. i \in 1..Len(bands) /\ bands[i].from <= score
    BY <1>1, <1>4
  <1>6. score <= bands[i].to
    <2>1. CASE i = Len(bands)
      BY <2>1
    <2>2. CASE i # Len(bands)
      <3>1. i \in 1..(Len(bands) - 1) /\ i + 1 \in 1..Len(bands) /\ ~(i + 1 <= i)
        BY <1>1, <1>5, <2>2
      <3>2. i + 1 \notin Begun
        BY <1>4, <3>1
      <3>3. ~(bands[i + 1].from <= score)
        BY <1>1, <3>1, <3>2
      <3>4. bands[i].to = bands[i + 1].from
        BY <3>1 DEF Graded
      <3>5. QED
        BY <1>2, <3>1, <3>3, <3>4
    <2>3. QED
      BY <2>1, <2>2
  <1>7. QED
    BY <1>1, <1>5, <1>6 DEF Hits

LEMMA BandOf ==
    ASSUME NEW bands \in Bands, Banded(bands), NEW score
    PROVE  \/ \E i \in Hits(score, bands) : /\ BandTier(score, bands) = bands[i].tier
                                             /\ \A k \in Hits(score, bands) : i <= k
           \/ /\ Hits(score, bands) = {} /\ score < bands[1].from
              /\ BandTier(score, bands) = bands[1].tier
           \/ /\ Hits(score, bands) = {} /\ ~(score < bands[1].from)
              /\ BandTier(score, bands) = bands[Len(bands)].tier
  <1>1. Hits(score, bands) \in SUBSET Nat
    BY DEF Hits, Bands
  <1>2. CASE Hits(score, bands) # {}
    <2>1. PICK i : i = Min(Hits(score, bands))
      OBVIOUS
    <2>2. i \in Hits(score, bands) /\ \A k \in Hits(score, bands) : i <= k
      BY <1>1, <1>2, <2>1, MinOfNats
    <2>3. BandTier(score, bands) = bands[i].tier
      BY <1>2, <2>1 DEF BandTier, Hits
    <2>4. QED
      BY <2>2, <2>3
  <1>3. CASE Hits(score, bands) = {}
    <2>1. BandTier(score, bands) = IF score < bands[1].from THEN bands[1].tier
                                   ELSE bands[Len(bands)].tier
      BY <1>3 DEF BandTier, Hits, Last
    <2>2. QED
      BY <1>3, <2>1
  <1>4. QED
    BY <1>2, <1>3

LEMMA TierDescends ==
    ASSUME NEW bands \in Bands, Banded(bands), Graded(bands),
           NEW s \in Int, NEW t \in Int, s <= t
    PROVE  BandTier(s, bands) >= BandTier(t, bands)
  <1>1. Len(bands) \in Nat /\ DOMAIN bands = 1..Len(bands) /\ Len(bands) # 0
    BY DEF Bands, Banded
  <1>2. \A m \in 1..Len(bands) :
           /\ bands[m].from \in Int /\ bands[m].to \in Int /\ bands[m].tier \in Int
           /\ bands[m].from <= bands[m].to
    BY BandsTyped
  <1>3. 1 \in 1..Len(bands) /\ Len(bands) \in 1..Len(bands)
    BY <1>1
  <1>4. \A i \in 1..Len(bands) :
           /\ bands[1].tier >= bands[i].tier /\ bands[i].tier >= bands[Len(bands)].tier
           /\ bands[1].from <= bands[i].from
    <2> SUFFICES ASSUME NEW i \in 1..Len(bands)
                 PROVE  /\ bands[1].tier >= bands[i].tier
                        /\ bands[i].tier >= bands[Len(bands)].tier
                        /\ bands[1].from <= bands[i].from
      OBVIOUS
    <2>1. 1 <= i /\ i <= Len(bands)
      BY <1>1
    <2>2. QED
      BY <1>1, <1>3, <2>1, BandsAscend
  <1>5. ASSUME NEW u \in Int
        PROVE  \A i \in Hits(u, bands) :
                  i \in 1..Len(bands) /\ bands[i].from <= u /\ u <= bands[i].to
    BY <1>1 DEF Hits
  <1>6. CASE s < bands[1].from /\ Hits(s, bands) = {}
    <2>1. BandTier(s, bands) = bands[1].tier
      BY <1>6, BandOf
    <2>2. \E i \in 1..Len(bands) : BandTier(t, bands) = bands[i].tier
      BY <1>3, <1>5, BandOf
    <2>3. QED
      BY <1>4, <2>1, <2>2
  <1>7. CASE ~(s < bands[1].from) /\ Hits(s, bands) = {}
    <2>1. ~(s <= bands[Len(bands)].to)
      BY <1>2, <1>3, <1>7, NoGap
    <2>2. Hits(t, bands) = {}
      <3> SUFFICES ASSUME NEW i \in Hits(t, bands) PROVE FALSE
        OBVIOUS
      <3>1. i \in 1..Len(bands) /\ bands[i].from <= t /\ t <= bands[i].to
        BY <1>5
      <3>2. CASE i = Len(bands)
        BY <1>2, <1>3, <2>1, <3>1, <3>2
      <3>3. CASE i # Len(bands)
        <4>1. i < Len(bands) /\ i <= Len(bands)
          <5>1. i \in Int /\ i <= Len(bands) /\ Len(bands) \in Int
            BY <1>1, <3>1
          <5>2. PICK n : n = Len(bands)
            OBVIOUS
          <5>3. i \in Int /\ n \in Int /\ i <= n /\ i # n
            BY <3>3, <5>1, <5>2
          <5>4. i < n
            BY <5>3
          <5>5. QED
            BY <5>1, <5>2, <5>4
        <4>2. bands[i].to <= bands[Len(bands)].from
          BY <1>1, <1>3, <3>1, <4>1, BandsAscend
        <4>3. QED
          BY <1>2, <1>3, <2>1, <3>1, <4>2
      <3>4. QED
        BY <3>2, <3>3
    <2>3. ~(t < bands[1].from)
      BY <1>2, <1>3, <1>7
    <2>4. BandTier(t, bands) = bands[Len(bands)].tier
      BY <2>2, <2>3, BandOf
    <2>5. BandTier(s, bands) = bands[Len(bands)].tier
      BY <1>7, BandOf
    <2>6. QED
      BY <1>2, <1>3, <2>4, <2>5
  <1>8. CASE Hits(s, bands) # {}
    <2>1. PICK i \in Hits(s, bands) : /\ BandTier(s, bands) = bands[i].tier
                                      /\ \A k \in Hits(s, bands) : i <= k
      BY <1>8, BandOf
    <2>2. i \in 1..Len(bands) /\ bands[i].from <= s /\ s <= bands[i].to
      BY <1>5
    <2>3. ~(t < bands[1].from)
      BY <1>2, <1>3, <1>4, <2>2
    <2>4. CASE Hits(t, bands) = {}
      <3>1. BandTier(t, bands) = bands[Len(bands)].tier
        BY <2>3, <2>4, BandOf
      <3>2. QED
        BY <1>4, <2>1, <2>2, <3>1
    <2>5. CASE Hits(t, bands) # {}
      <3>1. PICK k \in Hits(t, bands) : /\ BandTier(t, bands) = bands[k].tier
                                        /\ \A n \in Hits(t, bands) : k <= n
        BY <2>5, BandOf
      <3>2. k \in 1..Len(bands) /\ bands[k].from <= t /\ t <= bands[k].to
        BY <1>5
      <3>3. i <= k
        <4> SUFFICES ASSUME ~(i <= k) PROVE FALSE
          OBVIOUS
        <4>1. k < i /\ k <= i
          BY <2>2, <3>2
        <4>2. bands[k].to <= bands[i].from
          BY <1>1, <2>2, <3>2, <4>1, BandsAscend
        <4>3. s = t
          BY <1>2, <2>2, <3>2, <4>2
        <4>4. QED
          BY <2>1, <3>1, <4>3
      <3>4. bands[i].tier >= bands[k].tier
        BY <1>1, <2>2, <3>2, <3>3, BandsAscend
      <3>5. QED
        BY <2>1, <3>1, <3>4
    <2>6. QED
      BY <2>4, <2>5
  <1>9. QED
    BY <1>6, <1>7, <1>8

-----------------------------------------------------------------------------
(* What is judged. *)

LEMMA TalkTyped ==
    ASSUME NEW talk \in Seq(Messages)
    PROVE  /\ Len(talk) \in Nat /\ DOMAIN talk = 1..Len(talk)
           /\ IsFiniteSet(DOMAIN talk) /\ DOMAIN talk \in SUBSET Nat
           /\ \A i \in DOMAIN talk :
                 talk[i].text \in JudgedTexts /\ talk[i].calls \in BOOLEAN
  <1>1. Len(talk) \in Nat /\ DOMAIN talk = 1..Len(talk)
    OBVIOUS
  <1>2. IsFiniteSet(DOMAIN talk)
    BY <1>1, FS_Interval
  <1>3. \A i \in 1..Len(talk) : talk[i] \in Messages
    <2>1. PICK Sorts : Sorts = Messages
      OBVIOUS
    <2>2. QED
      BY <2>1
  <1>4. \A i \in 1..Len(talk) : talk[i].text \in JudgedTexts /\ talk[i].calls \in BOOLEAN
    BY <1>3 DEF Messages
  <1>5. QED
    BY <1>1, <1>2, <1>4

(* The last of some messages of a conversation. *)
LEMMA LastOfSome ==
    ASSUME NEW talk \in Seq(Messages), NEW some \in SUBSET DOMAIN talk, some # {}
    PROVE  Max(some) \in some /\ \A i \in some : i <= Max(some)
  BY TalkTyped, FS_Subset, MaxOfInts

LEMMA TextsJudged ==
    ASSUME JudgementAssumption, NEW talk \in Seq(Messages)
    PROVE  ToolText(talk) \in JudgedTexts /\ ProtoText(talk) \in JudgedTexts
  <1>1. {NoText, "N/A", "whole", "marked", "calls"} \subseteq JudgedTexts
    BY DEF JudgementAssumption
  <1>2. ToolText(talk) \in JudgedTexts
    <2>1. PICK said : said = OfUser(talk) \cap Said(talk)
      OBVIOUS
    <2>2. said \in SUBSET DOMAIN talk
      BY <2>1 DEF Said
    <2>3. said # {} => talk[Max(said)].text \in JudgedTexts
      BY <2>2, LastOfSome, TalkTyped
    <2>4. QED
      BY <1>1, <2>1, <2>3 DEF ToolText
  <1>3. ProtoText(talk) \in JudgedTexts
    <2>1. OfUser(talk) \in SUBSET DOMAIN talk
      BY DEF OfUser
    <2>2. OfUser(talk) # {} => talk[Max(OfUser(talk))].text \in JudgedTexts
      BY <2>1, LastOfSome, TalkTyped
    <2>3. QED
      BY <1>1, <2>2 DEF ProtoText
  <1>4. QED
    BY <1>2, <1>3

LEMMA TurnsFinite ==
    ASSUME NEW talk \in Seq(Messages), NEW turn
    PROVE  IsFiniteSet({turn[i] : i \in DOMAIN talk})
  <1>1. IsFiniteSet(DOMAIN talk)
    BY TalkTyped
  <1>2. QED
    BY <1>1, FiniteImage, Zenon

LEMMA FullChatJudged ==
    ASSUME JudgementAssumption, NEW talk \in Seq(Messages)
    PROVE  FullChat(talk) \subseteq JudgedTexts /\ IsFiniteSet(FullChat(talk))
           /\ FullChat(talk) # {}
  <1>1. {NoText, "N/A", "whole", "marked", "calls"} \subseteq JudgedTexts
    BY DEF JudgementAssumption
  <1>2. PICK turn : turn = [i \in DOMAIN talk |-> Turn(talk[i])]
    OBVIOUS
  <1>3. \A i \in DOMAIN talk : turn[i] \in JudgedTexts
    <2>1. ASSUME NEW m, m.text \in JudgedTexts
          PROVE  Turn(m) \in JudgedTexts
      BY <1>1, <2>1 DEF Turn
    <2>2. QED
      BY <1>2, <2>1, TalkTyped
  <1>4. PICK turns : turns = {turn[i] : i \in DOMAIN talk} \ {NoText}
    OBVIOUS
  <1>5. IsFiniteSet(turns)
    <2>1. IsFiniteSet({turn[i] : i \in DOMAIN talk})
      BY TurnsFinite
    <2>2. QED
      BY <1>4, <2>1, FS_Subset
  <1>6. turns \subseteq JudgedTexts
    BY <1>3, <1>4
  <1>7. FullChat(talk) = IF turns = {} THEN {"N/A"} ELSE turns
    BY <1>2, <1>4 DEF FullChat
  <1>8. IsFiniteSet({"N/A"})
    BY FS_Singleton
  <1>9. QED
    BY <1>1, <1>5, <1>6, <1>7, <1>8

LEMMA OwnTexts ==
    ASSUME JudgementAssumption, NEW talk \in Seq(Messages),
           NEW p \in {"tool", "other", "proto"}
    PROVE  Own(talk, p) \subseteq JudgedTexts /\ IsFiniteSet(Own(talk, p))
           /\ Own(talk, p) # {}
  <1>1. IsFiniteSet({ToolText(talk)}) /\ IsFiniteSet({ProtoText(talk)})
    BY FS_Singleton
  <1>2. CASE p = "tool"
    BY <1>1, <1>2, TextsJudged DEF Own
  <1>3. CASE p = "other"
    BY <1>3, FullChatJudged DEF Own
  <1>4. CASE p = "proto"
    BY <1>1, <1>4, TextsJudged DEF Own
  <1>5. QED
    BY <1>2, <1>3, <1>4

LEMMA RawIsInt ==
    ASSUME JudgementAssumption, NEW texts \in SUBSET JudgedTexts,
           IsFiniteSet(texts), texts # {}
    PROVE  RawScore(texts) \in Int
  <1>1. PICK f : f = [t \in texts |-> IF Hard[t] = NotFinite THEN Unfinite ELSE Hard[t]]
    OBVIOUS
  <1>2. PICK raw : raw = {f[t] : t \in texts}
    OBVIOUS
  <1>3. \A t \in texts : f[t] \in Int
    BY <1>1 DEF JudgementAssumption
  <1>4. raw \in SUBSET Int /\ raw # {} /\ IsFiniteSet(raw)
    BY <1>2, <1>3, FiniteImage
  <1>5. Max(raw) \in Int
    BY <1>4, MaxOfInts
  <1>6. RawScore(texts) = Max(raw)
    BY <1>1, <1>2 DEF RawScore
  <1>7. QED
    BY <1>5, <1>6

(* The last text of the user, if it says something, is the last one that    *)
(* says something.                                                          *)
LEMMA SameText ==
    ASSUME NEW talk \in Seq(Messages), OfUser(talk) # {},
           talk[Max(OfUser(talk))].text # NoText,
           \A i \in DOMAIN talk : ~talk[i].bare
    PROVE  ToolText(talk) = ProtoText(talk) /\ ToolText(talk) \in FullChat(talk)
  <1>1. PICK asked, said : asked = OfUser(talk) /\ said = OfUser(talk) \cap Said(talk)
    OBVIOUS
  <1>2. asked \in SUBSET DOMAIN talk /\ said \in SUBSET asked /\ said \in SUBSET DOMAIN talk
    BY <1>1 DEF OfUser
  <1>3. Max(asked) \in asked /\ \A i \in asked : i <= Max(asked)
    BY <1>1, <1>2, LastOfSome
  <1>4. Max(asked) \in said
    BY <1>1, <1>2, <1>3 DEF Said
  <1>5. Max(said) \in said /\ \A i \in said : i <= Max(said)
    BY <1>2, <1>4, LastOfSome
  <1>6. Max(said) = Max(asked)
    <2>1. Max(said) <= Max(asked) /\ Max(asked) <= Max(said)
      BY <1>2, <1>3, <1>4, <1>5
    <2>2. Max(said) \in Nat /\ Max(asked) \in Nat
      BY <1>2, <1>3, <1>5, TalkTyped
    <2>3. QED
      BY <2>1, <2>2
  <1>7. PICK i : i = Max(asked)
    OBVIOUS
  <1>8. i \in DOMAIN talk /\ talk[i].role = "user" /\ talk[i].text # NoText
    BY <1>1, <1>2, <1>3, <1>7 DEF OfUser
  <1>9. ToolText(talk) = talk[i].text
    BY <1>1, <1>4, <1>6, <1>7 DEF ToolText
  <1>10. ProtoText(talk) = talk[i].text
    BY <1>1, <1>7 DEF ProtoText
  <1>11. Turn(talk[i]) = talk[i].text
    BY <1>8 DEF Turn
  <1>12. PICK turns : turns = {Turn(talk[k]) : k \in DOMAIN talk} \ {NoText}
    OBVIOUS
  <1>13. talk[i].text \in turns
    BY <1>8, <1>11, <1>12
  <1>14. talk[i].text \in FullChat(talk)
    BY <1>12, <1>13 DEF FullChat
  <1>15. QED
    BY <1>9, <1>10, <1>14

(* The tier of a question by itself. *)
OwnScores(talk) ==
    [j \in Judges |-> Scaled(RawScore(Own(talk, IF j = ToolJudge THEN "tool" ELSE "other")))]

FairTier(proto, talk, c) ==
    BandTier(TotalScore(OwnScores(talk), proto, ProtoText(talk), c.weights), c.bands)

LEMMA ConfigTyped ==
    ASSUME EngineAssumption, NEW c \in EngineConfigs, Normal(c)
    PROVE  /\ c.weights \in [Judges -> Nat] /\ \E j \in Judges : c.weights[j] > 0
           /\ c.bands \in Bands /\ Banded(c.bands)
  <1>1. c \in [weights: [Judges -> Int], bands: Bands, tiers: SUBSET Int]
    BY DEF EngineAssumption
  <1>2. c.weights \in [Judges -> Int] /\ c.bands \in Bands
    BY <1>1
  <1>3. Weighed(c.weights) /\ Banded(c.bands)
    BY DEF Normal
  <1>4. QED
    BY <1>2, <1>3 DEF Weighed

LEMMA TotalIsInt ==
    ASSUME JudgementAssumption, NEW s \in [Judges -> Int], NEW t \in [Judges -> Int],
           \A j \in Judges : s[j] <= t[j],
           NEW proto \in BOOLEAN, NEW text \in JudgedTexts,
           NEW w \in [Judges -> Nat], \E j \in Judges : w[j] > 0
    PROVE  /\ TotalScore(s, proto, text, w) \in Int /\ TotalScore(t, proto, text, w) \in Int
           /\ TotalScore(s, proto, text, w) <= TotalScore(t, proto, text, w)
  <1>1. CASE proto
    <2>1. Likeness[text] \in [Judges -> Nat] /\ \E j \in Judges : Likeness[text][j] > 0
      <3>1. Likeness[text] \in [Judges -> Nat \ {0}] /\ Judges # {}
        BY DEF JudgementAssumption
      <3>2. QED
        BY <3>1
    <2>2. PICK a, b : a = Average(s, Likeness[text]) /\ b = Average(t, Likeness[text])
      OBVIOUS
    <2>3. a \in Int /\ b \in Int /\ a <= b
      BY <2>1, <2>2, AverageGrows
    <2>4. Spread(a) \in Int /\ Spread(b) \in Int /\ Spread(a) <= Spread(b)
      BY <2>3, SpreadGrows
    <2>5. QED
      BY <1>1, <2>2, <2>4 DEF TotalScore
  <1>2. CASE ~proto
    <2>1. PICK a, b : a = Average(s, w) /\ b = Average(t, w)
      OBVIOUS
    <2>2. a \in Int /\ b \in Int /\ a <= b
      BY <2>1, AverageGrows
    <2>3. TotalScore(s, proto, text, w) = 5 * a /\ TotalScore(t, proto, text, w) = 5 * b
      BY <1>2, <2>1 DEF TotalScore
    <2>4. QED
      BY <2>2, <2>3
  <1>3. QED
    BY <1>1, <1>2

LEMMA OwnScoresTyped ==
    ASSUME JudgementAssumption, NEW talk \in Seq(Messages)
    PROVE  /\ \A p \in Passes : RawScore(Own(talk, p)) \in Int
           /\ OwnScores(talk) \in [Judges -> Int]
  <1>1. ASSUME NEW p \in Passes
        PROVE  RawScore(Own(talk, p)) \in Int
    <2>1. p \in {"tool", "other", "proto"}
      BY DEF Passes
    <2>2. QED
      BY <2>1, OwnTexts, RawIsInt
  <1>2. ASSUME NEW j \in Judges
        PROVE  Scaled(RawScore(Own(talk, IF j = ToolJudge THEN "tool" ELSE "other"))) \in Int
    <2>1. PICK p : p = IF j = ToolJudge THEN "tool" ELSE "other"
      OBVIOUS
    <2>2. p \in Passes
      BY <2>1 DEF Passes
    <2>3. PICK r : r = RawScore(Own(talk, p))
      OBVIOUS
    <2>4. r \in Int /\ r <= r
      BY <1>1, <2>2, <2>3
    <2>5. Scaled(r) \in Int
      BY <2>4, ScaledGrows
    <2>6. QED
      BY <2>1, <2>3, <2>5
  <1>3. QED
    BY <1>1, <1>2 DEF OwnScores

LEMMA TierTyped ==
    ASSUME NEW bands \in Bands, Banded(bands), NEW score
    PROVE  BandTier(score, bands) \in Int
  <1>1. \E i \in DOMAIN bands : BandTier(score, bands) = bands[i].tier
    <2>1. 1 \in DOMAIN bands /\ Len(bands) \in DOMAIN bands
      BY BandsTyped
    <2>2. Hits(score, bands) \subseteq DOMAIN bands
      BY DEF Hits
    <2>3. QED
      BY <2>1, <2>2, BandOf
  <1>2. QED
    BY <1>1, BandsTyped

LEMMA FairTierDescends ==
    ASSUME JudgementAssumption, EngineAssumption, NEW a \in Seq(Messages),
           NEW b \in Seq(Messages), NoHarder(a, b), NEW proto \in BOOLEAN,
           NEW c \in EngineConfigs, Normal(c), Graded(c.bands)
    PROVE  FairTier(proto, a, c) >= FairTier(proto, b, c)
  <1>1. /\ c.weights \in [Judges -> Nat] /\ \E j \in Judges : c.weights[j] > 0
        /\ c.bands \in Bands /\ Banded(c.bands)
    BY ConfigTyped
  <1>2. PICK s, t : s = OwnScores(a) /\ t = OwnScores(b)
    OBVIOUS
  <1>3. s \in [Judges -> Int] /\ t \in [Judges -> Int]
    BY <1>2, OwnScoresTyped
  <1>4. \A j \in Judges : s[j] <= t[j]
    <2> SUFFICES ASSUME NEW j \in Judges PROVE s[j] <= t[j]
      OBVIOUS
    <2>1. PICK p : p = IF j = ToolJudge THEN "tool" ELSE "other"
      OBVIOUS
    <2>2. p \in Passes
      BY <2>1 DEF Passes
    <2>3. PICK x, y : x = RawScore(Own(a, p)) /\ y = RawScore(Own(b, p))
      OBVIOUS
    <2>4. x \in Int /\ y \in Int
      BY <2>2, <2>3, OwnScoresTyped
    <2>5. x <= y
      BY <2>2, <2>3 DEF NoHarder
    <2>6. Scaled(x) <= Scaled(y)
      BY <2>4, <2>5, ScaledGrows
    <2>7. s[j] = Scaled(x) /\ t[j] = Scaled(y)
      BY <1>2, <2>1, <2>3 DEF OwnScores
    <2>8. QED
      BY <2>6, <2>7
  <1>5. PICK text : text = ProtoText(a)
    OBVIOUS
  <1>6. text \in JudgedTexts /\ text = ProtoText(b)
    BY <1>5, TextsJudged DEF NoHarder
  <1>7. PICK x, y : /\ x = TotalScore(s, proto, text, c.weights)
                    /\ y = TotalScore(t, proto, text, c.weights)
    OBVIOUS
  <1>8. x \in Int /\ y \in Int /\ x <= y
    BY <1>1, <1>3, <1>4, <1>6, <1>7, TotalIsInt
  <1>9. BandTier(x, c.bands) >= BandTier(y, c.bands)
    BY <1>1, <1>8, TierDescends
  <1>10. QED
    BY <1>2, <1>5, <1>6, <1>7, <1>9 DEF FairTier

-----------------------------------------------------------------------------
(* Hooks, and what they have kept. *)

JudgeStages == {"idle", "queued", "tool", "other", "proto", "answered", "failed"}
Judging ==
    [stage: JudgeStages, running: BOOLEAN, at: 0..Depth, talk: Seq(Messages),
     caught: [Passes -> [Layers -> SUBSET JudgedTexts]], followed: BOOLEAN, tier: Int,
     config: EngineConfigs]

(* A thread has hooks only of the pass that it runs, and all of them until  *)
(* that has gone through the layers.                                        *)
HooksSound(h, j) ==
    /\ h # {} => j.running /\ j.stage \in Passes /\ h \subseteq {j.stage} \X Targets(j.stage)
    /\ j.running => j.stage \in {"tool", "other", "proto"}
    /\ j.running /\ j.at < Depth /\ j.stage \in Passes => {j.stage} \X Targets(j.stage) \subseteq h

(* The pass p has gone through the layer l. *)
Behind(j, p, l) ==
    \/ j.stage = p /\ j.running /\ l <= j.at
    \/ p = "tool" /\ j.stage \in {"other", "proto", "answered"}
    \/ p = "other" /\ j.stage \in {"proto", "answered"}

CaughtSound(j) ==
    ~j.followed => \A p \in Passes : \A l \in Targets(p) :
                      Behind(j, p, l) => j.caught[p][l] = Own(j.talk, p)

TierSound(proto, j) ==
    j.stage = "answered" /\ ~j.followed => j.tier = FairTier(proto, j.talk, j.config)

ThreadSound(proto, h, j) ==
    /\ h \in SUBSET (Passes \X Layers) /\ j \in Judging /\ Normal(j.config)
    /\ HooksSound(h, j) /\ CaughtSound(j) /\ TierSound(proto, j)

EngineInv ==
    /\ EngineTypeOK /\ prototypes \in BOOLEAN
    /\ DOMAIN hooked = Threads /\ DOMAIN judging = Threads
    /\ hooked = [q \in Threads |-> hooked[q]] /\ judging = [q \in Threads |-> judging[q]]
    /\ \A q \in Threads : ThreadSound(prototypes, hooked[q], judging[q])

LEMMA TargetsAreLayers ==
    ASSUME EngineAssumption, NEW p
    PROVE  /\ Targets(p) \subseteq Layers
           /\ p = "proto" => Targets(p) = {}
           /\ \A j \in Judges : /\ HeadsOf[j] \subseteq Targets(IF j = ToolJudge THEN "tool" ELSE "other")
                                /\ HeadsOf[j] # {}
  <1>1. \A j \in Judges : HeadsOf[j] \subseteq Layers /\ HeadsOf[j] # {}
    BY DEF EngineAssumption, Layers
  <1>2. ToolJudge \in Judges
    BY DEF EngineAssumption
  <1>3. /\ Targets("tool") = HeadsOf[ToolJudge] /\ Targets("proto") = {}
        /\ Targets("other") = UNION {HeadsOf[j] : j \in Judges \ {ToolJudge}}
        /\ p \notin Passes => Targets(p) = {}
    BY DEF Targets, Passes
  <1>4. Targets(p) \subseteq Layers
    BY <1>1, <1>2, <1>3 DEF Passes
  <1>5. \A j \in Judges : HeadsOf[j] \subseteq Targets(IF j = ToolJudge THEN "tool" ELSE "other")
    BY <1>3
  <1>6. QED
    BY <1>1, <1>3, <1>4, <1>5

(* One thread changes: the others are as they were.                         *)
LEMMA OneJudging ==
    ASSUME EngineAssumption, EngineInv, NEW q \in Threads, NEW h, NEW j,
           ThreadSound(prototypes, h, j),
           judging' = [judging EXCEPT ![q] = j], hooked' = [hooked EXCEPT ![q] = h],
           UNCHANGED <<prototypes, engineConfig>>,
           j.stage \in {"tool", "other", "proto"} =>
              judging[q].stage \in {"tool", "other", "proto"} \/ Cardinality(InEngine) < AtOnce
    PROVE  EngineInv'
  <1>1. /\ judging'[q] = j /\ \A r \in Threads : r # q => judging'[r] = judging[r]
        /\ hooked'[q] = h /\ \A r \in Threads : r # q => hooked'[r] = hooked[r]
        /\ DOMAIN hooked' = Threads /\ DOMAIN judging' = Threads
        /\ judging' = [r \in Threads |-> judging'[r]]
        /\ hooked' = [r \in Threads |-> hooked'[r]]
    BY DEF EngineInv
  <1>2. \A r \in Threads : ThreadSound(prototypes, hooked'[r], judging'[r])
    BY <1>1 DEF EngineInv
  <1>3. \A r \in Threads : hooked'[r] \subseteq Passes \X Layers /\ judging'[r].at \in 0..Depth
    BY <1>2 DEF ThreadSound, Judging
  <1>4. Cardinality(InEngine') <= AtOnce
    <2>1. IsFiniteSet(Threads) /\ AtOnce \in Nat
      BY DEF EngineAssumption
    <2>2. InEngine \in SUBSET Threads /\ InEngine' \in SUBSET Threads
      BY DEF InEngine
    <2>3. IsFiniteSet(InEngine) /\ IsFiniteSet(InEngine') /\ Cardinality(InEngine) \in Nat
          /\ Cardinality(InEngine') \in Nat /\ Cardinality(InEngine) <= AtOnce
      BY <2>1, <2>2, FS_Subset, FS_CardinalityType DEF EngineInv, EngineTypeOK
    <2>4. InEngine' \subseteq InEngine \cup {q}
      BY <1>1 DEF InEngine
    <2>5. CASE InEngine' \subseteq InEngine
      <3>1. Cardinality(InEngine') <= Cardinality(InEngine)
        BY <2>3, <2>5, FS_Subset
      <3>2. QED
        BY <2>1, <2>3, <3>1
    <2>6. CASE ~(InEngine' \subseteq InEngine)
      <3>1. q \in InEngine' /\ q \notin InEngine
        BY <2>4, <2>6
      <3>2. Cardinality(InEngine) < AtOnce
        BY <1>1, <3>1 DEF InEngine
      <3>3. Cardinality(InEngine \cup {q}) <= Cardinality(InEngine) + 1
            /\ IsFiniteSet(InEngine \cup {q}) /\ Cardinality(InEngine \cup {q}) \in Nat
        BY <2>3, OneMore
      <3>4. Cardinality(InEngine') <= Cardinality(InEngine \cup {q})
        BY <2>4, <3>3, FS_Subset
      <3>5. QED
        BY <2>1, <2>3, <3>2, <3>3, <3>4
    <2>7. QED
      BY <2>5, <2>6
  <1>5. QED
    BY <1>1, <1>2, <1>3, <1>4 DEF EngineInv, EngineTypeOK

(* What a step makes of a question. *)
IsJudging(j, o, stage, running, at) ==
    /\ j \in Judging /\ j.stage = stage /\ j.running = running /\ j.at = at
    /\ j.talk = o.talk /\ j.caught = o.caught /\ j.followed = o.followed
    /\ j.tier = o.tier /\ j.config = o.config

Moved(o, stage, running, at) == [o EXCEPT !.stage = stage, !.running = running, !.at = at]

LEMMA MovedIs ==
    ASSUME EngineAssumption, NEW o \in Judging, NEW stage \in JudgeStages,
           NEW running \in BOOLEAN, NEW at \in 0..Depth
    PROVE  IsJudging(Moved(o, stage, running, at), o, stage, running, at)
  <1>1. PICK j : j = Moved(o, stage, running, at)
    OBVIOUS
  <1>2. j \in Judging
    BY <1>1, Zenon DEF Judging, Moved
  <1>3. /\ j.stage = stage /\ j.running = running /\ j.at = at
        /\ j.talk = o.talk /\ j.caught = o.caught /\ j.followed = o.followed
        /\ j.tier = o.tier /\ j.config = o.config
    BY <1>1 DEF Judging, Moved
  <1>4. QED
    BY <1>1, <1>2, <1>3 DEF IsJudging

LEMMA SameRecord ==
    ASSUME NEW o \in Judging
    PROVE  /\ \A stage : [o EXCEPT !.stage = stage] = Moved(o, stage, o.running, o.at)
           /\ \A stage, running : [o EXCEPT !.stage = stage, !.running = running]
                                      = Moved(o, stage, running, o.at)
           /\ \A running, at : [o EXCEPT !.running = running, !.at = at]
                                  = Moved(o, o.stage, running, at)
  BY DEF Judging, Moved

LEMMA EngineInitially ==
    ASSUME JudgementAssumption, EngineAssumption, EngineInit
    PROVE  EngineInv
  <1>1. PICK c : c = CHOOSE d \in EngineConfigs : Normal(d)
    OBVIOUS
  <1>2. c \in EngineConfigs /\ Normal(c)
    BY <1>1 DEF EngineInit
  <1>3. /\ NoJudging.stage = "idle" /\ NoJudging.running = FALSE /\ NoJudging.at = 0
        /\ NoJudging.config = c
    BY <1>1 DEF NoJudging
  <1>4. NoJudging \in Judging
    <2>1. <<>> \in Seq(Messages) /\ 0 \in 0..Depth /\ 0 \in Int
      BY DEF EngineAssumption
    <2>2. [p \in Passes |-> [l \in Layers |-> {}]] \in [Passes -> [Layers -> SUBSET JudgedTexts]]
      OBVIOUS
    <2>3. QED
      BY <1>1, <1>2, <2>1, <2>2 DEF NoJudging, Judging, JudgeStages
  <1>5. HooksSound({}, NoJudging)
    BY <1>3 DEF HooksSound
  <1>6. CaughtSound(NoJudging) /\ TierSound(prototypes, NoJudging)
    BY <1>3 DEF CaughtSound, Behind, TierSound
  <1>7. ThreadSound(prototypes, {}, NoJudging)
    BY <1>2, <1>3, <1>4, <1>5, <1>6 DEF ThreadSound
  <1>8. InEngine = {}
    BY <1>3 DEF EngineInit, InEngine
  <1>9. Cardinality(InEngine) <= AtOnce
    BY <1>8, FS_EmptySet DEF EngineAssumption
  <1>10. QED
    BY <1>3, <1>7, <1>9 DEF EngineInit, EngineInv, EngineTypeOK

LEMMA LoadConfigSound ==
    ASSUME EngineInv, NEW c \in EngineConfigs, LoadConfig(c)
    PROVE  EngineInv'
  <1>1. engineConfig' = c /\ Normal(c) /\ UNCHANGED <<prototypes, hooked, judging>>
    BY DEF LoadConfig
  <1>2. InEngine' = InEngine
    BY <1>1 DEF InEngine
  <1>3. QED
    BY <1>1, <1>2 DEF EngineInv, EngineTypeOK

LEMMA Old ==
    ASSUME EngineInv, NEW q \in Threads
    PROVE  /\ judging[q] \in Judging /\ ThreadSound(prototypes, hooked[q], judging[q])
           /\ hooked = [hooked EXCEPT ![q] = hooked[q]]
  BY DEF EngineInv, ThreadSound

LEMMA BeginJudgingSound ==
    ASSUME JudgementAssumption, EngineAssumption, EngineInv,
           NEW q \in Threads, NEW talk \in Talks, BeginJudging(q, talk)
    PROVE  EngineInv'
  <1>1. PICK n, j : /\ n = NoJudging
                    /\ j = [n EXCEPT !.stage = "queued", !.talk = talk, !.config = engineConfig]
    OBVIOUS
  <1>2. /\ judging' = [judging EXCEPT ![q] = j] /\ judging[q].stage = "idle"
        /\ UNCHANGED <<prototypes, engineConfig, hooked>>
    BY <1>1 DEF BeginJudging
  <1>3. j = [stage |-> "queued", running |-> FALSE, at |-> 0, talk |-> talk,
             caught |-> [p \in Passes |-> [l \in Layers |-> {}]],
             followed |-> FALSE, tier |-> 0, config |-> engineConfig]
    BY <1>1 DEF NoJudging
  <1>4. engineConfig \in EngineConfigs /\ Normal(engineConfig)
    BY DEF EngineInv, EngineTypeOK
  <1>5. j \in Judging
    <2>1. talk \in Seq(Messages) /\ 0 \in 0..Depth /\ 0 \in Int
      BY DEF EngineAssumption
    <2>2. [p \in Passes |-> [l \in Layers |-> {}]] \in [Passes -> [Layers -> SUBSET JudgedTexts]]
      OBVIOUS
    <2>3. QED
      BY <1>3, <1>4, <2>1, <2>2 DEF Judging, JudgeStages
  <1>6. j.stage = "queued" /\ ~j.running /\ j.config = engineConfig
    BY <1>3
  <1>7. hooked[q] = {} /\ hooked[q] \in SUBSET (Passes \X Layers)
    <2>1. HooksSound(hooked[q], judging[q]) /\ hooked[q] \in SUBSET (Passes \X Layers)
      BY Old DEF ThreadSound
    <2>2. QED
      BY <1>2, <2>1 DEF HooksSound, Passes
  <1>8. ThreadSound(prototypes, hooked[q], j)
    BY <1>4, <1>5, <1>6, <1>7
    DEF ThreadSound, HooksSound, CaughtSound, Behind, TierSound
  <1>9. hooked' = [hooked EXCEPT ![q] = hooked[q]]
    BY <1>2, Old
  <1>10. QED
    BY <1>2, <1>6, <1>8, <1>9, OneJudging

LEMMA EnterEngineSound ==
    ASSUME EngineAssumption, EngineInv, NEW q \in Threads, EnterEngine(q)
    PROVE  EngineInv'
  <1>1. PICK o, j : o = judging[q] /\ j = [o EXCEPT !.stage = "tool"]
    OBVIOUS
  <1>2. /\ judging' = [judging EXCEPT ![q] = j] /\ o.stage = "queued"
        /\ Cardinality(InEngine) < AtOnce /\ UNCHANGED <<prototypes, engineConfig, hooked>>
    BY <1>1 DEF EnterEngine
  <1>3. o \in Judging /\ ThreadSound(prototypes, hooked[q], o)
    BY <1>1, Old
  <1>4. IsJudging(j, o, "tool", o.running, o.at)
    <2>1. "tool" \in JudgeStages /\ o.running \in BOOLEAN /\ o.at \in 0..Depth
      BY <1>3 DEF JudgeStages, Judging
    <2>2. j = Moved(o, "tool", o.running, o.at)
      BY <1>1, <1>3, SameRecord
    <2>3. QED
      BY <1>3, <2>1, <2>2, MovedIs
  <1>5. HooksSound(hooked[q], o)
    BY <1>3 DEF ThreadSound
  <1>6. ~o.running /\ hooked[q] = {}
    BY <1>2, <1>5 DEF HooksSound, Passes
  <1>7. HooksSound(hooked[q], j) /\ CaughtSound(j) /\ TierSound(prototypes, j)
    BY <1>4, <1>6 DEF IsJudging, HooksSound, CaughtSound, Behind, TierSound
  <1>8. ThreadSound(prototypes, hooked[q], j)
    BY <1>3, <1>4, <1>7 DEF ThreadSound, IsJudging
  <1>9. hooked' = [hooked EXCEPT ![q] = hooked[q]]
    BY <1>2, Old
  <1>10. QED
    BY <1>2, <1>8, <1>9, OneJudging

LEMMA StartPassSound ==
    ASSUME EngineAssumption, EngineInv, NEW q \in Threads, StartPass(q)
    PROVE  EngineInv'
  <1>1. PICK o, j, h : /\ o = judging[q] /\ j = [o EXCEPT !.running = TRUE, !.at = 0]
                       /\ h = hooked[q] \cup ({o.stage} \X Targets(o.stage))
    OBVIOUS
  <1>2. /\ judging' = [judging EXCEPT ![q] = j] /\ hooked' = [hooked EXCEPT ![q] = h]
        /\ o.stage \in {"tool", "other", "proto"} /\ ~o.running
        /\ UNCHANGED <<prototypes, engineConfig>>
    BY <1>1 DEF StartPass, InEngine
  <1>3. o \in Judging /\ ThreadSound(prototypes, hooked[q], o)
    BY <1>1, Old
  <1>4. IsJudging(j, o, o.stage, TRUE, 0)
    <2>1. PICK yes : yes = TRUE
      OBVIOUS
    <2>2. o.stage \in JudgeStages /\ yes \in BOOLEAN /\ 0 \in 0..Depth
      BY <1>3, <2>1 DEF Judging, EngineAssumption
    <2>3. j = Moved(o, o.stage, yes, 0)
      BY <1>1, <1>3, <2>1 DEF Judging, Moved
    <2>4. IsJudging(j, o, o.stage, yes, 0)
      BY <1>3, <2>2, <2>3, MovedIs
    <2>5. QED
      BY <2>1, <2>4
  <1>5. hooked[q] = {}
    BY <1>2, <1>3 DEF ThreadSound, HooksSound
  <1>6. h = {o.stage} \X Targets(o.stage)
    BY <1>1, <1>5
  <1>7. h \in SUBSET (Passes \X Layers) /\ (o.stage \notin Passes => h = {})
    <2>1. Targets(o.stage) \subseteq Layers /\ (o.stage = "proto" => Targets(o.stage) = {})
      BY TargetsAreLayers
    <2>2. QED
      BY <1>2, <1>6, <2>1 DEF Passes
  <1>8. HooksSound(h, j)
    BY <1>2, <1>4, <1>6, <1>7 DEF IsJudging, HooksSound
  <1>9. CaughtSound(j)
    <2>1. CaughtSound(o)
      BY <1>3 DEF ThreadSound
    <2>2. \A p \in Passes : \A l \in Targets(p) : Behind(j, p, l) => Behind(o, p, l)
      <3>1. \A p : \A l \in Targets(p) : ~(l <= 0)
        BY TargetsAreLayers DEF Layers
      <3>2. QED
        BY <1>4, <3>1 DEF Behind, IsJudging
    <2>3. QED
      BY <1>4, <2>1, <2>2 DEF CaughtSound, IsJudging
  <1>10. ThreadSound(prototypes, h, j)
    BY <1>2, <1>3, <1>4, <1>7, <1>8, <1>9 DEF ThreadSound, IsJudging, TierSound
  <1>11. QED
    BY <1>1, <1>2, <1>10, OneJudging

LEMMA UnhookSound ==
    ASSUME EngineAssumption, EngineInv, NEW q \in Threads, NEW l \in Layers, Unhook(q, l)
    PROVE  EngineInv'
  <1>1. PICK o, h : o = judging[q] /\ h = hooked[q] \ {<<o.stage, l>>}
    OBVIOUS
  <1>2. /\ hooked' = [hooked EXCEPT ![q] = h] /\ o.running /\ o.at = Depth
        /\ UNCHANGED <<prototypes, engineConfig, judging>>
    BY <1>1 DEF Unhook, Passed
  <1>3. o \in Judging /\ ThreadSound(prototypes, hooked[q], o)
    BY <1>1, Old
  <1>4. ~(o.at < Depth)
    BY <1>2 DEF EngineAssumption
  <1>5. h \subseteq hooked[q]
    BY <1>1
  <1>6. HooksSound(h, o)
    BY <1>2, <1>3, <1>4, <1>5 DEF ThreadSound, HooksSound
  <1>7. ThreadSound(prototypes, h, o)
    BY <1>3, <1>5, <1>6 DEF ThreadSound
  <1>8. judging' = [judging EXCEPT ![q] = o]
    BY <1>1, <1>2 DEF EngineInv
  <1>9. o.stage \in {"tool", "other", "proto"} =>
           judging[q].stage \in {"tool", "other", "proto"} \/ Cardinality(InEngine) < AtOnce
    BY <1>1
  <1>10. QED
    BY <1>2, <1>7, <1>8, <1>9, OneJudging

LEMMA EndPassSound ==
    ASSUME EngineAssumption, EngineInv, NEW q \in Threads, EndPass(q)
    PROVE  EngineInv'
  <1>1. PICK no : no = FALSE
    OBVIOUS
  <1>2. PICK o, j : /\ o = judging[q]
                    /\ j = [o EXCEPT !.stage = After(o.stage), !.running = no]
    OBVIOUS
  <1>3. /\ judging' = [judging EXCEPT ![q] = j] /\ hooked[q] = {} /\ o.stage # "proto"
        /\ o.running /\ o.at = Depth
        /\ UNCHANGED <<prototypes, engineConfig, hooked>>
    BY <1>1, <1>2 DEF EndPass, Passed
  <1>4. o \in Judging /\ ThreadSound(prototypes, hooked[q], o)
    BY <1>2, Old
  <1>5. o.stage \in {"tool", "other"}
    BY <1>3, <1>4 DEF ThreadSound, HooksSound
  <1>6. After(o.stage) = IF o.stage = "tool" THEN "other" ELSE "proto"
    BY <1>5 DEF After
  <1>7. IsJudging(j, o, After(o.stage), no, o.at)
    <2>1. After(o.stage) \in JudgeStages /\ no \in BOOLEAN /\ o.at \in 0..Depth
      BY <1>1, <1>4, <1>6 DEF JudgeStages, Judging
    <2>2. j = Moved(o, After(o.stage), no, o.at)
      BY <1>2, <1>4, SameRecord
    <2>3. QED
      BY <1>4, <2>1, <2>2, MovedIs
  <1>8. ~j.running
    BY <1>1, <1>7 DEF IsJudging
  <1>9. HooksSound(hooked[q], j)
    BY <1>3, <1>8 DEF HooksSound
  <1>10. CaughtSound(j)
    <2>1. CaughtSound(o)
      BY <1>4 DEF ThreadSound
    <2>2. \A p \in Passes : \A l \in Targets(p) : l <= o.at
      BY <1>3, TargetsAreLayers DEF Layers, EngineAssumption
    <2>3. \A p \in Passes : \A l \in Targets(p) : Behind(j, p, l) => Behind(o, p, l)
      BY <1>3, <1>5, <1>6, <1>7, <1>8, <2>2 DEF Behind, IsJudging, Passes
    <2>4. QED
      BY <1>7, <2>1, <2>3 DEF CaughtSound, IsJudging
  <1>11. TierSound(prototypes, j)
    BY <1>6, <1>7 DEF TierSound, IsJudging
  <1>12. ThreadSound(prototypes, hooked[q], j)
    BY <1>4, <1>7, <1>9, <1>10, <1>11 DEF ThreadSound, IsJudging
  <1>13. hooked' = [hooked EXCEPT ![q] = hooked[q]]
    BY <1>3, Old
  <1>14. o.stage \in {"tool", "other", "proto"}
    BY <1>5
  <1>15. QED
    BY <1>2, <1>3, <1>12, <1>13, <1>14, OneJudging

(* What the judges look at is what their hooks have kept of the question.   *)
LEMMA ScoresAreOwn ==
    ASSUME JudgementAssumption, EngineAssumption, EngineInv, NEW q \in Threads,
           judging[q].stage = "proto", ~judging[q].followed
    PROVE  Scores(q) = OwnScores(judging[q].talk)
  <1>1. PICK o : o = judging[q]
    OBVIOUS
  <1>2. CaughtSound(o)
    BY <1>1, Old DEF ThreadSound
  <1>3. \A p \in Passes : \A l \in Targets(p) : o.caught[p][l] = Own(o.talk, p)
    BY <1>1, <1>2 DEF CaughtSound, Behind, Passes
  <1>4. ASSUME NEW j \in Judges
        PROVE  Scores(q)[j] = OwnScores(judging[q].talk)[j]
    <2>1. PICK p : p = IF j = ToolJudge THEN "tool" ELSE "other"
      OBVIOUS
    <2>2. p \in Passes
      BY <2>1 DEF Passes
    <2>3. HeadsOf[j] \subseteq Targets(p) /\ HeadsOf[j] # {}
      BY <2>1, TargetsAreLayers
    <2>4. PICK own : own = Own(o.talk, p)
      OBVIOUS
    <2>5. PICK kept : kept = o.caught[p]
      OBVIOUS
    <2>6. \A l \in HeadsOf[j] : kept[l] = own
      BY <1>3, <2>2, <2>3, <2>4, <2>5
    <2>7. UNION {kept[l] : l \in HeadsOf[j]} = own
      BY <2>3, <2>6
    <2>8. Scores(q)[j] = Scaled(RawScore(UNION {kept[l] : l \in HeadsOf[j]}))
      BY <1>1, <2>1, <2>5 DEF Scores
    <2>9. OwnScores(judging[q].talk)[j] = Scaled(RawScore(own))
      BY <1>1, <2>1, <2>4 DEF OwnScores
    <2>10. QED
      BY <2>7, <2>8, <2>9
  <1>5. QED
    BY <1>4 DEF Scores, OwnScores

LEMMA DecideSound ==
    ASSUME JudgementAssumption, EngineAssumption, EngineInv, NEW q \in Threads, Decide(q)
    PROVE  EngineInv'
  <1>1. PICK no : no = FALSE
    OBVIOUS
  <1>2. PICK o : o = judging[q]
    OBVIOUS
  <1>3. PICK t : t = BandTier(TotalScore(Scores(q), prototypes, ProtoText(o.talk),
                                         o.config.weights), o.config.bands)
    OBVIOUS
  <1>4. PICK st : st = IF t \in o.config.tiers THEN "answered" ELSE "failed"
    OBVIOUS
  <1>5. PICK j : j = [o EXCEPT !.stage = st, !.tier = t, !.running = no]
    OBVIOUS
  <1>6. /\ judging' = [judging EXCEPT ![q] = j] /\ o.stage = "proto"
        /\ UNCHANGED <<prototypes, engineConfig, hooked>>
    BY <1>1, <1>2, <1>3, <1>4, <1>5 DEF Decide
  <1>7. o \in Judging /\ ThreadSound(prototypes, hooked[q], o)
    BY <1>2, Old
  <1>8. t \in Int
    <2>1. o.config \in EngineConfigs /\ Normal(o.config)
      BY <1>7 DEF ThreadSound, Judging
    <2>2. o.config.bands \in Bands /\ Banded(o.config.bands)
      BY <2>1, ConfigTyped
    <2>3. QED
      BY <1>3, <2>2, TierTyped
  <1>9. st \in JudgeStages /\ st \in {"answered", "failed"}
    BY <1>4 DEF JudgeStages
  <1>10. j \in Judging
    <2>1. no \in BOOLEAN
      BY <1>1
    <2>2. QED
      BY <1>5, <1>7, <1>8, <1>9, <2>1, Zenon DEF Judging
  <1>11. /\ j.stage = st /\ ~j.running /\ j.tier = t /\ j.followed = o.followed
         /\ j.caught = o.caught /\ j.talk = o.talk /\ j.config = o.config
    BY <1>1, <1>5, <1>7 DEF Judging
  <1>12. hooked[q] = {}
    BY <1>6, <1>7 DEF ThreadSound, HooksSound, Passes
  <1>13. HooksSound(hooked[q], j)
    BY <1>11, <1>12 DEF HooksSound
  <1>14. CaughtSound(j)
    <2>1. CaughtSound(o)
      BY <1>7 DEF ThreadSound
    <2>2. \A p \in Passes : \A l \in Targets(p) : Behind(j, p, l) => Behind(o, p, l)
      BY <1>6, <1>11 DEF Behind, Passes
    <2>3. QED
      BY <1>11, <2>1, <2>2 DEF CaughtSound
  <1>15. TierSound(prototypes, j)
    <2>1. ~o.followed => Scores(q) = OwnScores(o.talk)
      BY <1>2, <1>6, ScoresAreOwn
    <2>2. QED
      BY <1>3, <1>11, <2>1 DEF TierSound, FairTier
  <1>16. ThreadSound(prototypes, hooked[q], j)
    BY <1>7, <1>10, <1>11, <1>13, <1>14, <1>15 DEF ThreadSound
  <1>17. hooked' = [hooked EXCEPT ![q] = hooked[q]]
    BY <1>6, Old
  <1>18. QED
    BY <1>2, <1>6, <1>16, <1>17, OneJudging

LEMMA PassFailsSound ==
    ASSUME EngineAssumption, EngineInv, NEW q \in Threads, PassFails(q)
    PROVE  EngineInv'
  <1>1. PICK no : no = FALSE
    OBVIOUS
  <1>2. PICK o, j : /\ o = judging[q]
                    /\ j = [o EXCEPT !.stage = "failed", !.running = no]
    OBVIOUS
  <1>3. /\ judging' = [judging EXCEPT ![q] = j] /\ hooked' = [hooked EXCEPT ![q] = {}]
        /\ UNCHANGED <<prototypes, engineConfig>>
    BY <1>1, <1>2 DEF PassFails
  <1>4. o \in Judging /\ ThreadSound(prototypes, hooked[q], o)
    BY <1>2, Old
  <1>5. IsJudging(j, o, "failed", no, o.at)
    <2>1. "failed" \in JudgeStages /\ no \in BOOLEAN /\ o.at \in 0..Depth
      BY <1>1, <1>4 DEF JudgeStages, Judging
    <2>2. j = Moved(o, "failed", no, o.at)
      BY <1>2, <1>4, SameRecord
    <2>3. QED
      BY <1>4, <2>1, <2>2, MovedIs
  <1>6. j.stage = "failed" /\ ~j.running
    BY <1>1, <1>5 DEF IsJudging
  <1>7. HooksSound({}, j) /\ CaughtSound(j) /\ TierSound(prototypes, j)
    BY <1>6 DEF HooksSound, CaughtSound, Behind, TierSound
  <1>8. ThreadSound(prototypes, {}, j)
    BY <1>4, <1>5, <1>7 DEF ThreadSound, IsJudging
  <1>9. QED
    BY <1>3, <1>6, <1>8, OneJudging

LEMMA LeaveEngineSound ==
    ASSUME EngineAssumption, EngineInv, NEW q \in Threads, LeaveEngine(q)
    PROVE  EngineInv'
  <1>1. PICK c : c = CHOOSE d \in EngineConfigs : Normal(d)
    OBVIOUS
  <1>2. c \in EngineConfigs /\ Normal(c)
    BY <1>1 DEF EngineInv, EngineTypeOK
  <1>3. PICK j : j = NoJudging
    OBVIOUS
  <1>4. j.stage = "idle" /\ ~j.running /\ j.config = c
    BY <1>1, <1>3 DEF NoJudging
  <1>5. j \in Judging
    <2>1. <<>> \in Seq(Messages) /\ 0 \in 0..Depth /\ 0 \in Int
      BY DEF EngineAssumption
    <2>2. [p \in Passes |-> [l \in Layers |-> {}]] \in [Passes -> [Layers -> SUBSET JudgedTexts]]
      OBVIOUS
    <2>3. QED
      BY <1>1, <1>2, <1>3, <2>1, <2>2 DEF NoJudging, Judging, JudgeStages
  <1>6. /\ judging' = [judging EXCEPT ![q] = j] /\ judging[q].stage \in {"answered", "failed"}
        /\ UNCHANGED <<prototypes, engineConfig, hooked>>
    BY <1>3 DEF LeaveEngine
  <1>7. hooked[q] = {} /\ hooked[q] \in SUBSET (Passes \X Layers)
    BY <1>6, Old DEF ThreadSound, HooksSound, Passes
  <1>8. HooksSound(hooked[q], j) /\ CaughtSound(j) /\ TierSound(prototypes, j)
    BY <1>4, <1>7 DEF HooksSound, CaughtSound, Behind, TierSound
  <1>9. ThreadSound(prototypes, hooked[q], j)
    BY <1>2, <1>4, <1>5, <1>7, <1>8 DEF ThreadSound
  <1>10. hooked' = [hooked EXCEPT ![q] = hooked[q]]
    BY <1>6, Old
  <1>11. QED
    BY <1>4, <1>6, <1>9, <1>10, OneJudging

(* A pass goes through a layer: every hook there keeps its input.           *)
FollowedAt(j, h, l, another) == j.followed \/ (another /\ Fires(h, l) /\ j.at >= l)

IsKept(j, o, h, l, input, another) ==
    /\ j \in Judging /\ j.stage = o.stage /\ j.running = o.running /\ j.at = o.at
    /\ j.talk = o.talk /\ j.tier = o.tier /\ j.config = o.config
    /\ j.followed <=> o.followed \/ (another /\ Fires(h, l) /\ o.at >= l)
    /\ \A p \in Passes : \A m \in Layers :
          j.caught[p][m] = IF m = l /\ <<p, l>> \in h THEN input ELSE o.caught[p][m]

LEMMA KeptIs ==
    ASSUME EngineAssumption, NEW o \in Judging, NEW h, NEW l \in Layers,
           NEW input \in SUBSET JudgedTexts, NEW another \in BOOLEAN
    PROVE  IsKept(Kept(o, h, l, input, another), o, h, l, input, another)
  <1>1. PICK caught : caught = CaughtAt(o.caught, h, l, input)
    OBVIOUS
  <1>2. PICK followed : followed = FollowedAt(o, h, l, another)
    OBVIOUS
  <1>3. PICK j : j = [o EXCEPT !.caught = caught, !.followed = followed]
    OBVIOUS
  <1>4. j = Kept(o, h, l, input, another)
    <2>1. Kept(o, h, l, input, another)
             = [o EXCEPT !.caught = CaughtAt(o.caught, h, l, input),
                         !.followed = FollowedAt(o, h, l, another)]
      BY Zenon DEF Kept, FollowedAt
    <2>2. QED
      BY <1>1, <1>2, <1>3, <2>1
  <1>5. o.caught \in [Passes -> [Layers -> SUBSET JudgedTexts]] /\ o.followed \in BOOLEAN
    BY DEF Judging
  <1>6. /\ caught \in [Passes -> [Layers -> SUBSET JudgedTexts]]
        /\ \A p \in Passes : \A m \in Layers :
              caught[p][m] = IF m = l /\ <<p, l>> \in h THEN input ELSE o.caught[p][m]
    BY <1>1, <1>5 DEF CaughtAt
  <1>7. followed \in BOOLEAN
    BY <1>2 DEF FollowedAt
  <1>8. j \in Judging
    BY <1>3, <1>6, <1>7, Zenon DEF Judging
  <1>9. /\ j.stage = o.stage /\ j.running = o.running /\ j.at = o.at
        /\ j.talk = o.talk /\ j.tier = o.tier /\ j.config = o.config
        /\ j.followed = followed /\ j.caught = caught
    BY <1>3 DEF Judging
  <1>10. followed <=> o.followed \/ (another /\ Fires(h, l) /\ o.at >= l)
    BY <1>2 DEF FollowedAt
  <1>11. QED
    BY <1>4, <1>6, <1>8, <1>9, <1>10 DEF IsKept

(* The hooks of a thread behind another one's pass: what they keep then is  *)
(* not of its question, and it was followed.                                *)
LEMMA OtherPasses ==
    ASSUME EngineAssumption, NEW o \in Judging, NEW h, NEW l \in Layers,
           NEW input \in SUBSET JudgedTexts, NEW another \in BOOLEAN, another,
           ThreadSound(prototypes, h, o)
    PROVE  ThreadSound(prototypes, h, Kept(o, h, l, input, another))
  <1>1. PICK j : j = Kept(o, h, l, input, another)
    OBVIOUS
  <1>2. /\ j \in Judging /\ j.stage = o.stage /\ j.running = o.running /\ j.at = o.at
        /\ j.talk = o.talk /\ j.tier = o.tier /\ j.config = o.config
        /\ j.followed <=> o.followed \/ (another /\ Fires(h, l) /\ o.at >= l)
        /\ \A p \in Passes : \A m \in Layers :
              j.caught[p][m] = IF m = l /\ <<p, l>> \in h THEN input ELSE o.caught[p][m]
    <2>1. IsKept(j, o, h, l, input, another)
      BY <1>1, KeptIs
    <2>2. QED
      BY <2>1 DEF IsKept
  <1>3. HooksSound(h, j)
    BY <1>2 DEF HooksSound, ThreadSound
  <1>4. CaughtSound(j)
    <2> SUFFICES ASSUME ~j.followed, NEW p \in Passes, NEW m \in Targets(p), Behind(j, p, m)
                 PROVE  j.caught[p][m] = Own(j.talk, p)
      BY DEF CaughtSound
    <2>1. m \in Layers
      BY TargetsAreLayers
    <2>2. ~o.followed /\ Behind(o, p, m)
      BY <1>2 DEF Behind
    <2>3. o.caught[p][m] = Own(o.talk, p)
      BY <2>2 DEF ThreadSound, CaughtSound
    <2>4. ~(m = l /\ <<p, l>> \in h)
      <3> SUFFICES ASSUME m = l, <<p, l>> \in h PROVE FALSE
        OBVIOUS
      <3>1. Fires(h, l)
        BY DEF Fires
      <3>2. ~(o.at >= l)
        BY <1>2, <3>1
      <3>3. o.running /\ p = o.stage
        BY DEF ThreadSound, HooksSound
      <3>4. l <= o.at
        BY <2>2, <3>3 DEF Behind
      <3>5. o.at \in Int /\ l \in Int
        BY DEF Judging, Layers
      <3>6. QED
        BY <3>2, <3>4, <3>5
    <2>5. QED
      BY <1>2, <2>1, <2>3, <2>4
  <1>5. TierSound(prototypes, j)
    BY <1>2 DEF ThreadSound, TierSound
  <1>6. QED
    BY <1>1, <1>2, <1>3, <1>4, <1>5 DEF ThreadSound

LEMMA OwnPasses ==
    ASSUME EngineAssumption, NEW o \in Judging, NEW h, NEW l \in Layers,
           NEW no, no = FALSE, NEW n \in 0..Depth, n = l, o.running, l = o.at + 1,
           Own(o.talk, o.stage) \in SUBSET JudgedTexts,
           ThreadSound(prototypes, h, o)
    PROVE  ThreadSound(prototypes, h,
              Moved(Kept(o, h, l, Own(o.talk, o.stage), no), o.stage, o.running, n))
  <1>1. PICK input : input = Own(o.talk, o.stage)
    OBVIOUS
  <1>2. PICK k : k = Kept(o, h, l, input, no)
    OBVIOUS
  <1>3. no \in BOOLEAN /\ input \in SUBSET JudgedTexts
    BY <1>1
  <1>4. /\ k \in Judging /\ k.stage = o.stage /\ k.running = o.running /\ k.at = o.at
        /\ k.talk = o.talk /\ k.tier = o.tier /\ k.config = o.config
        /\ k.followed <=> o.followed \/ (no /\ Fires(h, l) /\ o.at >= l)
        /\ \A p \in Passes : \A m \in Layers :
              k.caught[p][m] = IF m = l /\ <<p, l>> \in h THEN input ELSE o.caught[p][m]
    <2>1. IsKept(k, o, h, l, input, no)
      BY <1>2, <1>3, KeptIs
    <2>2. QED
      BY <2>1 DEF IsKept
  <1>5. k.followed <=> o.followed
    BY <1>4
  <1>6. PICK j : j = Moved(k, o.stage, o.running, n)
    OBVIOUS
  <1>7. IsJudging(j, k, o.stage, o.running, n)
    <2>1. o.stage \in JudgeStages /\ o.running \in BOOLEAN
      BY DEF Judging
    <2>2. QED
      BY <1>4, <1>6, <2>1, MovedIs
  <1>8. /\ j \in Judging /\ j.stage = o.stage /\ j.running = o.running /\ j.at = l
        /\ j.talk = o.talk /\ j.tier = o.tier /\ j.config = o.config
        /\ j.followed <=> o.followed
        /\ \A p \in Passes : \A m \in Layers :
              j.caught[p][m] = IF m = l /\ <<p, l>> \in h THEN input ELSE o.caught[p][m]
    BY <1>4, <1>5, <1>7 DEF IsJudging
  <1>9. o.at \in Nat /\ l \in Nat /\ Depth \in Nat /\ l <= Depth /\ o.at < Depth
    BY DEF Judging, Layers, EngineAssumption
  <1>10. HooksSound(h, j)
    BY <1>8, <1>9 DEF HooksSound, ThreadSound
  <1>11. CaughtSound(j)
    <2> SUFFICES ASSUME ~j.followed, NEW p \in Passes, NEW m \in Targets(p), Behind(j, p, m)
                 PROVE  j.caught[p][m] = Own(j.talk, p)
      BY DEF CaughtSound
    <2>1. m \in Layers /\ m \in Nat
      BY TargetsAreLayers DEF Layers
    <2>2. CASE p = o.stage /\ m = l
      <3>1. <<p, l>> \in h
        BY <1>9, <2>2 DEF ThreadSound, HooksSound
      <3>2. QED
        BY <1>1, <1>8, <2>1, <2>2, <3>1
    <2>3. CASE ~(p = o.stage /\ m = l)
      <3>1. ~(m = l /\ <<p, l>> \in h)
        BY <2>3 DEF ThreadSound, HooksSound
      <3>2. m <= l /\ m # l => m <= o.at
        BY <1>9, <2>1
      <3>3. Behind(o, p, m)
        BY <1>8, <2>3, <3>2 DEF Behind
      <3>4. o.caught[p][m] = Own(o.talk, p)
        BY <1>8, <3>3 DEF ThreadSound, CaughtSound
      <3>5. QED
        BY <1>8, <2>1, <3>1, <3>4
    <2>4. QED
      BY <2>2, <2>3
  <1>12. TierSound(prototypes, j)
    BY <1>8 DEF ThreadSound, TierSound
  <1>13. ThreadSound(prototypes, h, j)
    BY <1>8, <1>10, <1>11, <1>12 DEF ThreadSound
  <1>14. QED
    BY <1>1, <1>2, <1>6, <1>13

LEMMA ForwardSound ==
    ASSUME JudgementAssumption, EngineAssumption, EngineInv, NEW q \in Threads, Forward(q)
    PROVE  EngineInv'
  <1>1. PICK l, input : l = judging[q].at + 1 /\ input = Own(judging[q].talk, judging[q].stage)
    OBVIOUS
  <1>2. /\ judging[q].running /\ l \in Layers /\ UNCHANGED <<prototypes, engineConfig, hooked>>
    BY <1>1 DEF Forward
  <1>3. judging' = [r \in Threads |->
           IF r = q THEN [Kept(judging[r], hooked[r], l, input, r # q) EXCEPT !.at = l]
                    ELSE Kept(judging[r], hooked[r], l, input, r # q)]
    BY <1>1 DEF Forward
  <1>4. input \in SUBSET JudgedTexts
    <2>1. judging[q].stage \in {"tool", "other", "proto"}
      BY <1>2, Old DEF ThreadSound, HooksSound
    <2>2. judging[q].talk \in Seq(Messages)
      BY Old DEF Judging
    <2>3. QED
      BY <1>1, <2>1, <2>2, OwnTexts
  <1>5. ASSUME NEW r \in Threads, r # q
        PROVE  ThreadSound(prototypes, hooked[r], judging'[r])
               /\ judging'[r].stage = judging[r].stage
    <2>1. PICK o, h : o = judging[r] /\ h = hooked[r]
      OBVIOUS
    <2>2. PICK another : another = (r # q)
      OBVIOUS
    <2>3. another \in BOOLEAN
      BY <2>2
    <2>4. judging'[r] = Kept(o, h, l, input, another)
      BY <1>3, <1>5, <2>1, <2>2
    <2>5. o \in Judging /\ ThreadSound(prototypes, h, o)
      BY <2>1, Old
    <2>6. ThreadSound(prototypes, h, Kept(o, h, l, input, another))
      <3>1. another
        BY <1>5, <2>2
      <3>2. QED
        BY <1>2, <1>4, <2>3, <2>5, <3>1, OtherPasses
    <2>7. IsKept(Kept(o, h, l, input, another), o, h, l, input, another)
      <3>1. l \in Layers /\ o \in Judging
        BY <1>2, <2>5
      <3>2. QED
        BY <1>4, <2>3, <3>1, KeptIs, SMTT(20)
    <2>8. Kept(o, h, l, input, another).stage = o.stage
      BY <2>7 DEF IsKept
    <2>9. QED
      BY <2>1, <2>4, <2>6, <2>8
  <1>6. ThreadSound(prototypes, hooked[q], judging'[q])
        /\ judging'[q].stage = judging[q].stage
    <2>1. PICK o, h : o = judging[q] /\ h = hooked[q]
      OBVIOUS
    <2>2. PICK no : no = (q # q)
      OBVIOUS
    <2>3. no = FALSE
      BY <2>2
    <2>4. PICK k : k = Kept(o, h, l, input, no)
      OBVIOUS
    <2>5. judging'[q] = [k EXCEPT !.at = l]
      BY <1>3, <2>1, <2>2, <2>4
    <2>6. o \in Judging /\ ThreadSound(prototypes, h, o)
      BY <2>1, Old
    <2>7. IsKept(k, o, h, l, input, no)
      BY <1>2, <1>4, <2>3, <2>4, <2>6, KeptIs
    <2>8. k \in Judging /\ k.stage = o.stage /\ k.running = o.running
      BY <2>7 DEF IsKept
    <2>9. judging'[q] = Moved(k, o.stage, o.running, l)
      BY <2>5, <2>8 DEF Moved, Judging
    <2>10. l \in 0..Depth
      BY <1>2 DEF Layers, EngineAssumption
    <2>11. ThreadSound(prototypes, h, Moved(k, o.stage, o.running, l))
      BY <1>1, <1>2, <1>4, <2>1, <2>3, <2>4, <2>6, <2>10, OwnPasses
    <2>12. IsJudging(Moved(k, o.stage, o.running, l), k, o.stage, o.running, l)
      <3>1. o.stage \in JudgeStages /\ o.running \in BOOLEAN
        BY <2>6 DEF Judging
      <3>2. QED
        BY <2>8, <2>10, <3>1, MovedIs
    <2>13. QED
      BY <2>1, <2>9, <2>11, <2>12 DEF IsJudging
  <1>7. /\ DOMAIN judging' = Threads /\ judging' = [r \in Threads |-> judging'[r]]
        /\ \A r \in Threads : judging'[r].stage = judging[r].stage
    <2>1. DOMAIN judging' = Threads /\ judging' = [r \in Threads |-> judging'[r]]
      BY <1>3
    <2>2. QED
      BY <1>5, <1>6, <2>1
  <1>8. InEngine' = InEngine
    BY <1>7 DEF InEngine
  <1>9. \A r \in Threads : ThreadSound(prototypes, hooked[r], judging'[r])
    BY <1>5, <1>6
  <1>10. \A r \in Threads : hooked[r] \subseteq Passes \X Layers /\ judging'[r].at \in 0..Depth
    BY <1>9 DEF ThreadSound, Judging
  <1>11. QED
    BY <1>2, <1>7, <1>8, <1>9, <1>10 DEF EngineInv, EngineTypeOK

LEMMA EngineStep ==
    ASSUME JudgementAssumption, EngineAssumption, EngineInv, [NextEngine]_engineVars
    PROVE  EngineInv'
  <1>1. CASE NextEngine
    <2>1. ASSUME NEW c \in EngineConfigs, LoadConfig(c) PROVE EngineInv'
      BY <2>1, LoadConfigSound
    <2>2. ASSUME NEW q \in Threads, NEW talk \in Talks, BeginJudging(q, talk) PROVE EngineInv'
      BY <2>2, BeginJudgingSound
    <2>3. ASSUME NEW q \in Threads, NEW l \in Layers, Unhook(q, l) PROVE EngineInv'
      BY <2>3, UnhookSound
    <2>4. ASSUME NEW q \in Threads, EnterEngine(q) PROVE EngineInv'
      BY <2>4, EnterEngineSound
    <2>5. ASSUME NEW q \in Threads, StartPass(q) PROVE EngineInv'
      BY <2>5, StartPassSound
    <2>6. ASSUME NEW q \in Threads, Forward(q) PROVE EngineInv'
      BY <2>6, ForwardSound
    <2>7. ASSUME NEW q \in Threads, EndPass(q) PROVE EngineInv'
      BY <2>7, EndPassSound
    <2>8. ASSUME NEW q \in Threads, Decide(q) PROVE EngineInv'
      BY <2>8, DecideSound
    <2>9. ASSUME NEW q \in Threads, PassFails(q) PROVE EngineInv'
      BY <2>9, PassFailsSound
    <2>10. ASSUME NEW q \in Threads, LeaveEngine(q) PROVE EngineInv'
      BY <2>10, LeaveEngineSound
    <2>11. QED
      BY <1>1, <2>1, <2>2, <2>3, <2>4, <2>5, <2>6, <2>7, <2>8, <2>9, <2>10 DEF NextEngine
  <1>2. CASE UNCHANGED engineVars
    <2>1. UNCHANGED <<prototypes, engineConfig, hooked, judging>>
      BY <1>2 DEF engineVars
    <2>2. InEngine' = InEngine
      BY <2>1 DEF InEngine
    <2>3. QED
      BY <2>1, <2>2 DEF EngineInv, EngineTypeOK
  <1>3. QED
    BY <1>1, <1>2

LEMMA FairIfSound ==
    ASSUME JudgementAssumption, EngineAssumption, EngineInv
    PROVE  JudgedFairly
  <1>1. \A q \in Threads : judging[q] \in Judging /\ ThreadSound(prototypes, hooked[q], judging[q])
    BY Old
  <1>2. OwnTextsJudged
    <2> SUFFICES ASSUME NEW q \in Threads, Answered(q), NEW p \in Passes, NEW l \in Targets(p)
                 PROVE  judging[q].caught[p][l] = Own(judging[q].talk, p)
      BY DEF OwnTextsJudged
    <2>1. Behind(judging[q], p, l)
      BY DEF Answered, Behind, Passes
    <2>2. QED
      BY <1>1, <2>1 DEF Answered, ThreadSound, CaughtSound
  <1>3. SameTextJudged
    <2> SUFFICES ASSUME NEW q \in Threads, OfUser(judging[q].talk) # {},
                        judging[q].talk[Max(OfUser(judging[q].talk))].text # NoText,
                        \A i \in DOMAIN judging[q].talk : ~judging[q].talk[i].bare
                 PROVE  /\ ToolText(judging[q].talk) = ProtoText(judging[q].talk)
                        /\ ToolText(judging[q].talk) \in FullChat(judging[q].talk)
      BY DEF SameTextJudged
    <2>1. judging[q].talk \in Seq(Messages)
      BY <1>1 DEF Judging
    <2>2. QED
      BY <2>1, SameText
  <1>4. HarderNoWeaker
    <2> SUFFICES ASSUME NEW q \in Threads, NEW r \in Threads, Answered(q), Answered(r),
                        judging[q].config = judging[r].config,
                        Graded(judging[q].config.bands),
                        NoHarder(judging[q].talk, judging[r].talk)
                 PROVE  judging[q].tier >= judging[r].tier
      BY DEF HarderNoWeaker
    <2>1. PICK a, b, c : a = judging[q].talk /\ b = judging[r].talk /\ c = judging[q].config
      OBVIOUS
    <2>2. a \in Seq(Messages) /\ b \in Seq(Messages) /\ c \in EngineConfigs
      BY <1>1, <2>1 DEF Judging
    <2>3. Normal(c)
      BY <1>1, <2>1 DEF ThreadSound
    <2>4. judging[q].tier = FairTier(prototypes, a, c)
          /\ judging[r].tier = FairTier(prototypes, b, c)
      BY <1>1, <2>1 DEF Answered, ThreadSound, TierSound
    <2>5. prototypes \in BOOLEAN
      BY DEF EngineInv
    <2>6. FairTier(prototypes, a, c) >= FairTier(prototypes, b, c)
      BY <2>1, <2>2, <2>3, <2>5, FairTierDescends
    <2>7. QED
      BY <2>4, <2>6
  <1>5. QED
    BY <1>2, <1>3, <1>4 DEF JudgedFairly

(* For any threads, layers, heads, judges, texts and conversations, and     *)
(* whatever configurations come in between: a question that no pass has     *)
(* followed is judged by its own texts, and the harder never weaker.        *)
THEOREM QuestionsAreJudgedFairly == EngineSpec => [](EngineTypeOK /\ JudgedFairly)
  <1>1. EngineInv => EngineTypeOK /\ JudgedFairly
    BY FairIfSound, JudgementAssumption, EngineAssumption DEF EngineInv
  <1>2. QED
    BY <1>1, EngineInitially, EngineStep, JudgementAssumption, EngineAssumption, PTL DEF EngineSpec

-----------------------------------------------------------------------------
(* How an answer is told. *)

(* Which blocks have begun, which have been stopped, before event i.        *)
HasBegun(s, i, m) ==
    \E k \in DOMAIN s : k < i /\ s[k].what = "start" /\ s[k].index = m
HasStopped(s, i, m) ==
    \E k \in DOMAIN s : k < i /\ s[k].what = "stop" /\ s[k].index = m
BegunAs(s, i, m, kind) ==
    \E k \in DOMAIN s : k < i /\ s[k].what = "start" /\ s[k].index = m /\ s[k].kind = kind

(* The blocks below b have begun, those below e have been stopped.          *)
UpTo(s, i, b, e) ==
    \A m \in Nat : (HasBegun(s, i, m) <=> m < b) /\ (HasStopped(s, i, m) <=> m < e)

(* An event finds the blocks as it needs them.                              *)
EventSound(s, i, loose) ==
    /\ s[i].what = "start" => UpTo(s, i, s[i].index, s[i].index)
    /\ s[i].what = "stop" => UpTo(s, i, s[i].index + 1, s[i].index)
    /\ s[i].what = "delta" => \/ loose
                              \/ /\ UpTo(s, i, s[i].index + 1, s[i].index)
                                 /\ BegunAs(s, i, s[i].index, s[i].kind)
    /\ s[i].what = "message_stop" => i = Len(s) /\ \E m \in Nat : UpTo(s, i, m, m)
    /\ s[i].what = "message_start" => i = 1

(* What has been told of a message that goes on.                            *)
HistorySound(s, block, index, loose) ==
    /\ s \in Seq(StreamEvents) /\ s # <<>> /\ s[1].what = "message_start"
    /\ \A i \in DOMAIN s : EventSound(s, i, loose) /\ s[i].what # "message_stop"
    /\ UpTo(s, Len(s) + 1, IF block = Outside THEN index ELSE index + 1, index)
    /\ block # Outside => BegunAs(s, Len(s) + 1, index, block)

(* What has been told of a message that is over.                            *)
MessageSound(s, loose) ==
    /\ s \in Seq(StreamEvents) /\ s # <<>> /\ s[Len(s)].what = "message_stop"
    /\ \A i \in DOMAIN s : EventSound(s, i, loose)

(* What is told later changes nothing for what was told.                    *)
LEMMA EarlierKept ==
    ASSUME NEW s \in Seq(StreamEvents), NEW e \in StreamEvents
    PROVE  /\ Append(s, e) \in Seq(StreamEvents) /\ Len(Append(s, e)) = Len(s) + 1
           /\ \A i \in DOMAIN s : Append(s, e)[i] = s[i]
           /\ DOMAIN s = 1..Len(s) /\ Len(s) \in Nat /\ DOMAIN Append(s, e) = 1..(Len(s) + 1)
           /\ Append(s, e)[Len(s) + 1] = e
           /\ \A i \in 1..(Len(s) + 1) : \A m :
                 /\ HasBegun(Append(s, e), i, m) <=> HasBegun(s, i, m)
                 /\ HasStopped(Append(s, e), i, m) <=> HasStopped(s, i, m)
                 /\ \A kind : BegunAs(Append(s, e), i, m, kind) <=> BegunAs(s, i, m, kind)
           /\ \A m : /\ HasBegun(Append(s, e), Len(s) + 2, m)
                        <=> HasBegun(s, Len(s) + 1, m) \/ (e.what = "start" /\ e.index = m)
                     /\ HasStopped(Append(s, e), Len(s) + 2, m)
                        <=> HasStopped(s, Len(s) + 1, m) \/ (e.what = "stop" /\ e.index = m)
                     /\ \A kind : BegunAs(s, Len(s) + 1, m, kind)
                                  => BegunAs(Append(s, e), Len(s) + 2, m, kind)
           /\ e.what = "start" => BegunAs(Append(s, e), Len(s) + 2, e.index, e.kind)
  <1> DEFINE t == Append(s, e)
  <1>1. /\ t \in Seq(StreamEvents) /\ Len(t) = Len(s) + 1 /\ Len(s) \in Nat
        /\ \A i \in 1..Len(s) : t[i] = s[i]
        /\ DOMAIN s = 1..Len(s) /\ DOMAIN t = 1..(Len(s) + 1) /\ t[Len(s) + 1] = e
    OBVIOUS
  <1> HIDE DEF t
  <1>2. ASSUME NEW i \in 1..(Len(s) + 1), NEW m, NEW kind
        PROVE  /\ HasBegun(t, i, m) <=> HasBegun(s, i, m)
               /\ HasStopped(t, i, m) <=> HasStopped(s, i, m)
               /\ BegunAs(t, i, m, kind) <=> BegunAs(s, i, m, kind)
    <2>1. \A k : k \in DOMAIN t /\ k < i <=> k \in DOMAIN s /\ k < i
      BY <1>1
    <2>2. \A k \in DOMAIN s : t[k] = s[k]
      BY <1>1
    <2>3. QED
      BY <2>1, <2>2 DEF HasBegun, HasStopped, BegunAs
  <1>3. ASSUME NEW m, NEW kind
        PROVE  /\ HasBegun(t, Len(s) + 2, m)
                  <=> HasBegun(s, Len(s) + 1, m) \/ (e.what = "start" /\ e.index = m)
               /\ HasStopped(t, Len(s) + 2, m)
                  <=> HasStopped(s, Len(s) + 1, m) \/ (e.what = "stop" /\ e.index = m)
               /\ BegunAs(s, Len(s) + 1, m, kind) => BegunAs(t, Len(s) + 2, m, kind)
    <2>1. \A k : k \in DOMAIN t /\ k < Len(s) + 2
                 <=> (k \in DOMAIN s /\ k < Len(s) + 1) \/ k = Len(s) + 1
      BY <1>1
    <2>2. \A k \in DOMAIN s : t[k] = s[k]
      BY <1>1
    <2>3. QED
      BY <1>1, <2>1, <2>2 DEF HasBegun, HasStopped, BegunAs
  <1>4. e.what = "start" => BegunAs(t, Len(s) + 2, e.index, e.kind)
    BY <1>1 DEF BegunAs
  <1>5. QED
    BY <1>1, <1>2, <1>3, <1>4 DEF t

(* So what was sound stays sound, unless it had to be the last.             *)
LEMMA EarlierSound ==
    ASSUME NEW s \in Seq(StreamEvents), NEW e \in StreamEvents,
           NEW loose, NEW i \in DOMAIN s, EventSound(s, i, loose),
           s[i].what # "message_stop"
    PROVE  EventSound(Append(s, e), i, loose)
  <1> DEFINE t == Append(s, e)
  <1>1. i \in 1..(Len(s) + 1) /\ t[i] = s[i]
    BY EarlierKept
  <1>2. \A b, c : UpTo(t, i, b, c) <=> UpTo(s, i, b, c)
    BY <1>1, EarlierKept DEF UpTo
  <1>3. \A m, kind : BegunAs(t, i, m, kind) <=> BegunAs(s, i, m, kind)
    BY <1>1, EarlierKept
  <1> HIDE DEF t
  <1>4. EventSound(t, i, loose)
    BY <1>1, <1>2, <1>3 DEF EventSound
  <1>5. QED
    BY <1>4 DEF t

(* A message goes on with an event that finds what it needs.                *)
LEMMA HistoryGrows ==
    ASSUME NEW s, NEW block, NEW n, NEW loose, HistorySound(s, block, n, loose),
           NEW e \in StreamEvents, e.what # "message_stop",
           NEW t, t = Append(s, e), EventSound(t, Len(s) + 1, loose),
           NEW after, NEW m,
           UpTo(t, Len(s) + 2, IF after = Outside THEN m ELSE m + 1, m),
           after # Outside => BegunAs(t, Len(s) + 2, m, after)
    PROVE  HistorySound(t, after, m, loose)
  <1>1. s \in Seq(StreamEvents)
    BY DEF HistorySound
  <1>2. /\ t \in Seq(StreamEvents) /\ Len(t) = Len(s) + 1 /\ Len(s) \in Nat
        /\ DOMAIN s = 1..Len(s) /\ DOMAIN t = 1..(Len(s) + 1) /\ t[Len(s) + 1] = e
        /\ \A i \in DOMAIN s : t[i] = s[i]
    BY <1>1, EarlierKept
  <1>3. \A i \in DOMAIN s : EventSound(t, i, loose)
    BY <1>1, EarlierSound DEF HistorySound
  <1>4. s # <<>> /\ s[1].what = "message_start" /\ 1 \in DOMAIN s
    BY <1>1 DEF HistorySound
  <1>5. \A i \in DOMAIN t : EventSound(t, i, loose) /\ t[i].what # "message_stop"
    BY <1>2, <1>3 DEF HistorySound
  <1>6. t # <<>> /\ t[1].what = "message_start" /\ Len(t) + 1 = Len(s) + 2
    BY <1>2, <1>4
  <1>7. QED
    BY <1>2, <1>5, <1>6 DEF HistorySound

(* What is there when an event is told, and after it.                       *)
LEMMA BlocksCounted ==
    ASSUME NEW s \in Seq(StreamEvents), NEW e \in StreamEvents, NEW b \in Nat, NEW c \in Nat,
           UpTo(s, Len(s) + 1, b, c)
    PROVE  /\ UpTo(Append(s, e), Len(s) + 1, b, c)
           /\ e.what \notin {"start", "stop"} => UpTo(Append(s, e), Len(s) + 2, b, c)
           /\ e.what = "start" /\ e.index = b => UpTo(Append(s, e), Len(s) + 2, b + 1, c)
           /\ e.what = "stop" /\ e.index = c => UpTo(Append(s, e), Len(s) + 2, b, c + 1)
  <1>1. Len(s) + 1 \in 1..(Len(s) + 1)
    OBVIOUS
  <1>2. UpTo(Append(s, e), Len(s) + 1, b, c)
    BY <1>1, EarlierKept DEF UpTo
  <1>3. \A m \in Nat :
           /\ HasBegun(Append(s, e), Len(s) + 2, m) <=> m < b \/ (e.what = "start" /\ e.index = m)
           /\ HasStopped(Append(s, e), Len(s) + 2, m) <=> m < c \/ (e.what = "stop" /\ e.index = m)
    BY EarlierKept DEF UpTo
  <1>4. QED
    BY <1>2, <1>3 DEF UpTo

(* A block begins where none is open.                                       *)
LEMMA BlockBegins ==
    ASSUME NEW s, NEW n \in Nat, NEW loose, HistorySound(s, Outside, n, loose),
           NEW kind \in Kinds
    PROVE  HistorySound(Append(s, Event("start", kind, n)), kind, n, loose)
  <1> DEFINE e == Event("start", kind, n)
             t == Append(s, e)
  <1>1. s \in Seq(StreamEvents) /\ e \in StreamEvents
    BY DEF HistorySound, StreamEvents, Event
  <1>2. e.what = "start" /\ e.kind = kind /\ e.index = n
    BY DEF Event
  <1> HIDE DEF e
  <1>3. UpTo(s, Len(s) + 1, n, n)
    BY DEF HistorySound
  <1>4. UpTo(t, Len(s) + 1, n, n) /\ UpTo(t, Len(s) + 2, n + 1, n)
    BY <1>1, <1>2, <1>3, BlocksCounted
  <1>5. BegunAs(t, Len(s) + 2, n, kind) /\ t[Len(s) + 1] = e
    BY <1>1, <1>2, EarlierKept
  <1> HIDE DEF t
  <1>6. EventSound(t, Len(s) + 1, loose)
    BY <1>2, <1>4, <1>5 DEF EventSound
  <1>7. kind # Outside
    BY DEF Kinds, Outside
  <1>8. HistorySound(t, kind, n, loose)
    BY <1>1, <1>2, <1>4, <1>5, <1>6, <1>7, HistoryGrows DEF t
  <1>9. QED
    BY <1>8 DEF t, e

(* The block that is open stops.                                            *)
LEMMA BlockStops ==
    ASSUME NEW s, NEW n \in Nat, NEW loose, NEW block, block # Outside,
           HistorySound(s, block, n, loose)
    PROVE  HistorySound(Append(s, Event("stop", Outside, n)), Outside, n + 1, loose)
  <1> DEFINE e == Event("stop", Outside, n)
             t == Append(s, e)
  <1>1. s \in Seq(StreamEvents) /\ e \in StreamEvents
    BY DEF HistorySound, StreamEvents, Event
  <1>2. e.what = "stop" /\ e.index = n
    BY DEF Event
  <1> HIDE DEF e
  <1>3. UpTo(s, Len(s) + 1, n + 1, n)
    BY DEF HistorySound
  <1>4. UpTo(t, Len(s) + 1, n + 1, n) /\ UpTo(t, Len(s) + 2, n + 1, n + 1)
    BY <1>1, <1>2, <1>3, BlocksCounted
  <1>5. t[Len(s) + 1] = e
    BY <1>1, EarlierKept
  <1> HIDE DEF t
  <1>6. EventSound(t, Len(s) + 1, loose)
    BY <1>2, <1>4, <1>5 DEF EventSound
  <1>7. HistorySound(t, Outside, n + 1, loose)
    BY <1>1, <1>2, <1>4, <1>6, HistoryGrows DEF t
  <1>8. QED
    BY <1>7 DEF t, e

(* A delta goes to the block that is open, as it was begun.                 *)
LEMMA DeltaTold ==
    ASSUME NEW s, NEW n \in Nat, NEW loose, NEW block, HistorySound(s, block, n, loose),
           NEW e \in StreamEvents, e.what = "delta",
           loose \/ (block # Outside /\ e.index = n /\ e.kind = block)
    PROVE  HistorySound(Append(s, e), block, n, loose)
  <1> DEFINE t == Append(s, e)
             b == IF block = Outside THEN n ELSE n + 1
  <1>1. s \in Seq(StreamEvents) /\ UpTo(s, Len(s) + 1, b, n) /\ b \in Nat
    BY DEF HistorySound
  <1>2. UpTo(t, Len(s) + 1, b, n) /\ UpTo(t, Len(s) + 2, b, n)
    BY <1>1, BlocksCounted
  <1>3. t[Len(s) + 1] = e
    BY <1>1, EarlierKept
  <1>4. block # Outside => /\ BegunAs(t, Len(s) + 1, n, block)
                           /\ BegunAs(t, Len(s) + 2, n, block)
    <2>1. block # Outside => BegunAs(s, Len(s) + 1, n, block)
      BY DEF HistorySound
    <2>2. Len(s) + 1 \in 1..(Len(s) + 1)
      BY <1>1
    <2>3. QED
      BY <1>1, <2>1, <2>2, EarlierKept
  <1> HIDE DEF t
  <1>5. EventSound(t, Len(s) + 1, loose)
    BY <1>2, <1>3, <1>4 DEF EventSound
  <1>6. HistorySound(t, block, n, loose)
    BY <1>1, <1>2, <1>4, <1>5, HistoryGrows DEF t
  <1>7. QED
    BY <1>6 DEF t

(* A message stops where no block is open.                                  *)
LEMMA MessageStops ==
    ASSUME NEW s, NEW n \in Nat, NEW loose, HistorySound(s, Outside, n, loose)
    PROVE  MessageSound(Append(s, Event("message_stop", Outside, 0)), loose)
  <1> DEFINE e == Event("message_stop", Outside, 0)
             t == Append(s, e)
  <1>1. s \in Seq(StreamEvents) /\ e \in StreamEvents
    BY DEF HistorySound, StreamEvents, Event
  <1>2. e.what = "message_stop"
    BY DEF Event
  <1> HIDE DEF e
  <1>3. UpTo(s, Len(s) + 1, n, n)
    BY DEF HistorySound
  <1>4. UpTo(t, Len(s) + 1, n, n)
    BY <1>1, <1>3, BlocksCounted
  <1>5. /\ t \in Seq(StreamEvents) /\ Len(t) = Len(s) + 1 /\ Len(s) \in Nat
        /\ DOMAIN s = 1..Len(s) /\ DOMAIN t = 1..(Len(s) + 1) /\ t[Len(s) + 1] = e
    BY <1>1, EarlierKept
  <1>6. \A i \in DOMAIN s : EventSound(t, i, loose)
    BY <1>1, EarlierSound DEF HistorySound
  <1> HIDE DEF t
  <1>7. EventSound(t, Len(s) + 1, loose)
    BY <1>2, <1>4, <1>5 DEF EventSound
  <1>8. MessageSound(t, loose)
    BY <1>2, <1>5, <1>6, <1>7 DEF MessageSound
  <1>9. QED
    BY <1>8 DEF t, e

(* A message starts.                                                        *)
LEMMA MessageStarts ==
    ASSUME NEW loose
    PROVE  HistorySound(Append(<<>>, Event("message_start", Outside, 0)), Outside, 0, loose)
  <1> DEFINE e == Event("message_start", Outside, 0)
             t == Append(<<>>, e)
  <1>1. e \in StreamEvents /\ e.what = "message_start"
    BY DEF StreamEvents, Event
  <1> HIDE DEF e
  <1>2. t \in Seq(StreamEvents) /\ Len(t) = 1 /\ DOMAIN t = {1} /\ t[1] = e /\ t # <<>>
    BY <1>1
  <1> HIDE DEF t
  <1>3. EventSound(t, 1, loose)
    BY <1>1, <1>2 DEF EventSound
  <1>4. UpTo(t, 2, 0, 0)
    BY <1>1, <1>2 DEF UpTo, HasBegun, HasStopped
  <1>5. HistorySound(t, Outside, 0, loose)
    BY <1>1, <1>2, <1>3, <1>4 DEF HistorySound
  <1>6. QED
    BY <1>5 DEF t, e

(* What is sound stays so when upstream strays.                             *)
LEMMA LooserSound ==
    ASSUME NEW s, NEW block, NEW n, NEW loose, NEW looser, loose => looser,
           HistorySound(s, block, n, loose)
    PROVE  HistorySound(s, block, n, looser)
  <1>1. \A i \in DOMAIN s : EventSound(s, i, loose) => EventSound(s, i, looser)
    BY DEF EventSound
  <1>2. QED
    BY <1>1 DEF HistorySound

LEMMA EventTyped ==
    ASSUME NEW s \in Seq(StreamEvents)
    PROVE  /\ DOMAIN s = 1..Len(s) /\ Len(s) \in Nat
           /\ \A i \in DOMAIN s : s[i].index \in Nat /\ s[i].index + 1 \in Nat
  <1>1. PICK E : E = StreamEvents
    OBVIOUS
  <1>2. \A i \in DOMAIN s : s[i] \in E
    BY <1>1
  <1>3. \A e \in E : e.index \in Nat
    BY <1>1 DEF StreamEvents
  <1>4. QED
    BY <1>2, <1>3

(* How a client reads what was told.                                        *)
ToldSound == /\ told.sent \in Seq(StreamEvents)
             /\ \A i \in DOMAIN told.sent : EventSound(told.sent, i, told.strayed)

LEMMA OpenIs ==
    ASSUME told.sent \in Seq(StreamEvents), NEW i \in DOMAIN told.sent,
           NEW b \in Nat, NEW e \in Nat, UpTo(told.sent, i, b, e)
    PROVE  OpenAt(i) = {m \in Nat : e <= m /\ m < b}
  <1> DEFINE began == {told.sent[j].index : j \in {k \in At("start") : k < i}}
             stopped == {told.sent[j].index : j \in {k \in At("stop") : k < i}}
  <1>1. \A k \in DOMAIN told.sent : told.sent[k].index \in Nat
    BY EventTyped
  <1>2. \A m \in Nat : m \in began <=> m < b
    BY DEF At, UpTo, HasBegun
  <1>3. \A m \in Nat : m \in stopped <=> m < e
    BY DEF At, UpTo, HasStopped
  <1>4. began \subseteq Nat /\ stopped \subseteq Nat
    BY <1>1 DEF At
  <1>5. OpenAt(i) = began \ stopped
    BY DEF OpenAt
  <1> HIDE DEF began, stopped
  <1>6. \A m \in Nat : m \in OpenAt(i) <=> e <= m /\ m < b
    BY <1>2, <1>3, <1>5
  <1>7. OpenAt(i) \subseteq Nat
    BY <1>4, <1>5
  <1>8. QED
    BY <1>6, <1>7

(* Blocks are numbered in the order in which they begin.                    *)
LEMMA StartsNumbered ==
    ASSUME ToldSound, NEW i \in At("start")
    PROVE  told.sent[i].index = Cardinality({j \in At("start") : j < i})
  <1> DEFINE S == {j \in At("start") : j < i}
             n == told.sent[i].index
             f == [j \in S |-> told.sent[j].index]
  <1>1. /\ DOMAIN told.sent \subseteq Nat /\ At("start") \subseteq DOMAIN told.sent
        /\ \A j \in At("start") : told.sent[j].what = "start" /\ told.sent[j].index \in Nat
    BY EventTyped DEF ToldSound, At
  <1>2. \A j \in At("start") : UpTo(told.sent, j, told.sent[j].index, told.sent[j].index)
    BY <1>1 DEF ToldSound, EventSound
  <1>3. \A j, k \in At("start") : j < k => told.sent[j].index < told.sent[k].index
    <2>1. \A j, k \in At("start") : j < k => HasBegun(told.sent, k, told.sent[j].index)
      BY <1>1 DEF HasBegun
    <2>2. QED
      BY <1>1, <1>2, <2>1 DEF UpTo
  <1>4. f \in [S -> 0..(n - 1)]
    <2>1. \A j \in S : told.sent[j].index \in 0..(n - 1)
      BY <1>1, <1>3
    <2>2. QED
      BY <2>1
  <1>5. \A j, k \in S : f[j] = f[k] => j = k
    BY <1>1, <1>3
  <1>6. \A m \in 0..(n - 1) : \E j \in S : f[j] = m
    <2>1. \A m \in 0..(n - 1) : HasBegun(told.sent, i, m)
      BY <1>1, <1>2 DEF UpTo
    <2>2. QED
      BY <2>1 DEF HasBegun, At
  <1>7. f \in Bijection(S, 0..(n - 1))
    BY <1>4, <1>5, <1>6 DEF Bijection, Injection, Surjection, IsInjective
  <1>8. IsFiniteSet(0..(n - 1)) /\ Cardinality(0..(n - 1)) = n
    <2>1. PICK k : k = n - 1
      OBVIOUS
    <2>2. k \in Int /\ n \in Nat /\ n = k + 1
      BY <1>1, <2>1
    <2>3. /\ IsFiniteSet(0..k)
          /\ Cardinality(0..k) = IF 0 > k THEN 0 ELSE k - 0 + 1
      BY <2>2, FS_Interval
    <2>4. QED
      BY <2>1, <2>2, <2>3
  <1>9. S \in SUBSET (0..i) /\ i \in Nat
    BY <1>1
  <1>10. IsFiniteSet(S)
    <2>1. IsFiniteSet(0..i)
      BY <1>9, FS_Interval
    <2> HIDE DEF S
    <2>2. QED
      BY <1>9, <2>1, FS_Subset
  <1>11. QED
    BY <1>7, <1>8, <1>10, FS_Bijection DEF ExistsBijection

(* The blocks of what was told can be read.                                 *)
LEMMA BlocksRead ==
    ASSUME ToldSound
    PROVE  /\ \A i \in At("start") : OpenAt(i) = {}
           /\ \A i \in At("stop") : OpenAt(i) = {told.sent[i].index}
           /\ \A i \in At("message_stop") : OpenAt(i) = {} /\ i = Len(told.sent)
           /\ \A i \in At("delta") :
                 told.strayed \/ /\ OpenAt(i) = {told.sent[i].index}
                                 /\ KindOf(told.sent[i].index) = {told.sent[i].kind}
           /\ At("message_start") \subseteq {1}
  <1>1. ASSUME NEW i \in DOMAIN told.sent
        PROVE  /\ EventSound(told.sent, i, told.strayed)
               /\ told.sent[i].index \in Nat /\ told.sent[i].index + 1 \in Nat
    BY EventTyped DEF ToldSound
  <1>2. told.sent \in Seq(StreamEvents)
    BY DEF ToldSound
  <1>3. \A m \in Nat : {n \in Nat : m <= n /\ n < m} = {}
    OBVIOUS
  <1>4. \A m \in Nat : {n \in Nat : m <= n /\ n < m + 1} = {m}
    OBVIOUS
  <1>5. \A i \in At("start") : OpenAt(i) = {}
    <2>1. \A i \in At("start") : i \in DOMAIN told.sent /\ told.sent[i].what = "start"
      BY DEF At
    <2>2. \A i \in At("start") : UpTo(told.sent, i, told.sent[i].index, told.sent[i].index)
      BY <1>1, <2>1 DEF EventSound
    <2>3. QED
      BY <1>1, <1>2, <1>3, <2>1, <2>2, OpenIs
  <1>6. \A i \in At("stop") : OpenAt(i) = {told.sent[i].index}
    <2>1. \A i \in At("stop") : i \in DOMAIN told.sent /\ told.sent[i].what = "stop"
      BY DEF At
    <2>2. \A i \in At("stop") : UpTo(told.sent, i, told.sent[i].index + 1, told.sent[i].index)
      BY <1>1, <2>1 DEF EventSound
    <2>3. QED
      BY <1>1, <1>2, <1>4, <2>1, <2>2, OpenIs
  <1>7. \A i \in At("message_stop") : OpenAt(i) = {} /\ i = Len(told.sent)
    <2>1. \A i \in At("message_stop") : i \in DOMAIN told.sent /\ told.sent[i].what = "message_stop"
      BY DEF At
    <2>2. \A i \in At("message_stop") :
             i = Len(told.sent) /\ \E m \in Nat : UpTo(told.sent, i, m, m)
      BY <1>1, <2>1 DEF EventSound
    <2>3. QED
      BY <1>2, <1>3, <2>1, <2>2, OpenIs
  <1>8. ASSUME NEW i \in At("delta"), ~told.strayed
        PROVE  /\ OpenAt(i) = {told.sent[i].index}
               /\ KindOf(told.sent[i].index) = {told.sent[i].kind}
    <2>1. i \in DOMAIN told.sent /\ told.sent[i].what = "delta"
      BY DEF At
    <2>2. /\ UpTo(told.sent, i, told.sent[i].index + 1, told.sent[i].index)
          /\ BegunAs(told.sent, i, told.sent[i].index, told.sent[i].kind)
      BY <1>1, <1>8, <2>1 DEF EventSound
    <2>3. OpenAt(i) = {told.sent[i].index}
      BY <1>1, <1>2, <1>4, <2>1, <2>2, OpenIs
    <2>4. PICK k \in At("start") : /\ told.sent[k].index = told.sent[i].index
                                   /\ told.sent[k].kind = told.sent[i].kind
      BY <2>2 DEF BegunAs, At
    <2>5. \A j \in At("start") : told.sent[j].index = told.sent[i].index => j = k
      <3>1. /\ \A j \in At("start") : j \in DOMAIN told.sent /\ told.sent[j].what = "start"
            /\ DOMAIN told.sent \subseteq Nat
        BY <1>2 DEF At
      <3>2. \A j \in At("start") :
               /\ UpTo(told.sent, j, told.sent[j].index, told.sent[j].index)
               /\ told.sent[j].index \in Nat
        BY <1>1, <3>1 DEF EventSound
      <3>3. \A j, l \in At("start") : j < l => told.sent[j].index < told.sent[l].index
        <4>1. \A j, l \in At("start") : j < l => HasBegun(told.sent, l, told.sent[j].index)
          BY <3>1 DEF HasBegun
        <4>2. QED
          BY <3>2, <4>1 DEF UpTo
      <3>4. QED
        BY <2>4, <3>1, <3>2, <3>3
    <2>6. KindOf(told.sent[i].index) = {told.sent[i].kind}
      BY <2>4, <2>5 DEF KindOf
    <2>7. QED
      BY <2>3, <2>6
  <1>9. At("message_start") \subseteq {1}
    BY <1>1 DEF At, EventSound
  <1>10. QED
    BY <1>5, <1>6, <1>7, <1>8, <1>9

(* A block is begun once, as one kind.                                      *)
LEMMA BegunOnce ==
    ASSUME NEW s, NEW block, NEW n, NEW loose, HistorySound(s, block, n, loose),
           NEW m, NEW kind, NEW other,
           BegunAs(s, Len(s) + 1, m, kind), BegunAs(s, Len(s) + 1, m, other)
    PROVE  kind = other
  <1>1. s \in Seq(StreamEvents) /\ \A i \in DOMAIN s : EventSound(s, i, loose)
    BY DEF HistorySound
  <1>2. DOMAIN s \subseteq Nat /\ \A i \in DOMAIN s : s[i].index \in Nat
    BY <1>1, EventTyped
  <1>3. \A i, j \in DOMAIN s : s[i].what = "start" /\ s[j].what = "start" /\ i < j
                               => s[i].index < s[j].index
    <2>1. \A i, j \in DOMAIN s : s[i].what = "start" /\ i < j => HasBegun(s, j, s[i].index)
      BY DEF HasBegun
    <2>2. \A j \in DOMAIN s : s[j].what = "start" => UpTo(s, j, s[j].index, s[j].index)
      BY <1>1 DEF EventSound
    <2>3. QED
      BY <1>2, <2>1, <2>2 DEF UpTo
  <1>4. PICK i \in DOMAIN s : s[i].what = "start" /\ s[i].index = m /\ s[i].kind = kind
    BY DEF BegunAs
  <1>5. PICK j \in DOMAIN s : s[j].what = "start" /\ s[j].index = m /\ s[j].kind = other
    BY DEF BegunAs
  <1>6. i = j
    BY <1>2, <1>3, <1>4, <1>5
  <1>7. QED
    BY <1>4, <1>5, <1>6

(* The converter of a message that goes on, and of one that is over.        *)
CallsBegun(c) ==
    \A i \in CallIndexes :
        c.toolAt[i] # Unmapped => BegunAs(c.sent, Len(c.sent) + 1, c.toolAt[i], "tool")

Going(c) ==
    /\ c \in Converters /\ c.started /\ ~c.finished
    /\ HistorySound(c.sent, c.block, c.index, c.strayed)
    /\ CallsBegun(c)

InThought(c) ==
    c.think = "thinking" => c.block # Outside /\ (c.strayed \/ c.block = "thinking")

Coherent(c) == Going(c) /\ InThought(c)

MessageOver(c) ==
    /\ c \in Converters /\ c.finished
    /\ MessageSound(c.sent, c.strayed)
    /\ c.started => c.sent[1].what = "message_start"
    /\ c.held = "none" \/ c.think # "idle"

(* Two converters that differ only in what was told.                        *)
Alike(c, d) ==
    /\ d.started = c.started /\ d.finished = c.finished /\ d.block = c.block
    /\ d.index = c.index /\ d.toolAt = c.toolAt /\ d.think = c.think /\ d.held = c.held
    /\ d.strayed = c.strayed

LEMMA EmitSays ==
    ASSUME NEW c \in Converters, NEW e \in StreamEvents, NEW d, d = Emit(c, e)
    PROVE  /\ d \in Converters /\ Alike(c, d)
           /\ d.sent = Append(c.sent, e) \/ (e.what = "delta" /\ d.sent = c.sent)
  <1>1. CASE e.what = "delta" /\ c.sent # <<>> /\ Last(c.sent) = e
    <2>1. d = c
      BY <1>1 DEF Emit
    <2>2. QED
      BY <1>1, <2>1 DEF Alike
  <1>2. CASE ~(e.what = "delta" /\ c.sent # <<>> /\ Last(c.sent) = e)
    <2>1. PICK s : s = Append(c.sent, e)
      OBVIOUS
    <2>2. d = [c EXCEPT !.sent = s]
      BY <1>2, <2>1 DEF Emit
    <2>3. c.sent \in Seq(StreamEvents)
      BY DEF Converters
    <2>4. s \in Seq(StreamEvents)
      BY <2>1, <2>3, EarlierKept
    <2>5. d \in Converters
      BY <2>2, <2>4, Zenon DEF Converters
    <2>6. Alike(c, d) /\ d.sent = s
      BY <2>2 DEF Alike, Converters
    <2>7. QED
      BY <2>1, <2>5, <2>6
  <1>3. QED
    BY <1>1, <1>2

LEMMA CallsKept ==
    ASSUME NEW s \in Seq(StreamEvents), NEW e \in StreamEvents, NEW m, NEW kind,
           BegunAs(s, Len(s) + 1, m, kind)
    PROVE  BegunAs(Append(s, e), Len(Append(s, e)) + 1, m, kind)
  <1>1. Len(Append(s, e)) + 1 = Len(s) + 2
    BY EarlierKept
  <1>2. QED
    BY <1>1, EarlierKept

(* A block begins.                                                          *)
LEMMA OpenSays ==
    ASSUME NEW c, Going(c), c.block = Outside, NEW kind \in Kinds,
           NEW d, d = OpenBlock(c, kind)
    PROVE  /\ Going(d) /\ d.block = kind /\ d.index = c.index /\ d.toolAt = c.toolAt
           /\ d.think = c.think /\ d.held = c.held /\ d.strayed = c.strayed
           /\ BegunAs(d.sent, Len(d.sent) + 1, d.index, kind)
  <1>1. c \in Converters /\ c.index \in Nat /\ c.sent \in Seq(StreamEvents)
    BY DEF Going, Converters
  <1>2. PICK x : x = [c EXCEPT !.block = kind]
    OBVIOUS
  <1>3. x \in Converters
    BY <1>1, <1>2, Zenon DEF Converters
  <1>4. /\ x.started = c.started /\ x.finished = c.finished /\ x.block = kind
        /\ x.index = c.index /\ x.toolAt = c.toolAt /\ x.think = c.think /\ x.held = c.held
        /\ x.strayed = c.strayed /\ x.sent = c.sent
    BY <1>1, <1>2 DEF Converters
  <1>5. PICK e : e = Event("start", kind, c.index)
    OBVIOUS
  <1>6. e \in StreamEvents /\ e.what = "start"
    BY <1>1, <1>5 DEF Event, StreamEvents
  <1>7. d = Emit(x, e)
    BY <1>2, <1>5 DEF OpenBlock
  <1>8. d \in Converters /\ Alike(x, d) /\ d.sent = Append(c.sent, e)
    BY <1>3, <1>4, <1>6, <1>7, EmitSays
  <1>9. HistorySound(d.sent, kind, c.index, c.strayed)
    BY <1>1, <1>5, <1>8, BlockBegins DEF Going
  <1>10. \A i \in CallIndexes :
            c.toolAt[i] # Unmapped => BegunAs(d.sent, Len(d.sent) + 1, c.toolAt[i], "tool")
    BY <1>1, <1>6, <1>8, CallsKept DEF Going, CallsBegun
  <1>11. /\ d.started = c.started /\ d.finished = c.finished /\ d.block = kind
         /\ d.index = c.index /\ d.toolAt = c.toolAt /\ d.think = c.think /\ d.held = c.held
         /\ d.strayed = c.strayed
    BY <1>4, <1>8 DEF Alike
  <1>12. Going(d)
    BY <1>8, <1>9, <1>10, <1>11 DEF Going, CallsBegun
  <1>13. BegunAs(d.sent, Len(d.sent) + 1, d.index, kind)
    BY <1>9, <1>11 DEF HistorySound, Kinds, Outside
  <1>14. QED
    BY <1>11, <1>12, <1>13

(* The block that is open stops.                                            *)
LEMMA StopSays ==
    ASSUME NEW c, Going(c), c.block # Outside, NEW d, d = StopBlock(c)
    PROVE  /\ Going(d) /\ d.block = Outside /\ d.toolAt = c.toolAt
           /\ d.think = c.think /\ d.held = c.held /\ d.strayed = c.strayed
  <1>1. c \in Converters /\ c.index \in Nat /\ c.sent \in Seq(StreamEvents)
    BY DEF Going, Converters
  <1>2. PICK n : n = c.index + 1
    OBVIOUS
  <1>3. PICK x : x = [c EXCEPT !.block = Outside, !.index = n]
    OBVIOUS
  <1>4. x \in Converters
    <2>1. n \in Nat
      BY <1>1, <1>2
    <2>2. QED
      BY <1>1, <1>3, <2>1, Zenon DEF Converters
  <1>5. /\ x.started = c.started /\ x.finished = c.finished /\ x.block = Outside
        /\ x.index = n /\ x.toolAt = c.toolAt /\ x.think = c.think /\ x.held = c.held
        /\ x.strayed = c.strayed /\ x.sent = c.sent
    BY <1>1, <1>3 DEF Converters
  <1>6. PICK e : e = Event("stop", Outside, c.index)
    OBVIOUS
  <1>7. e \in StreamEvents /\ e.what = "stop"
    BY <1>1, <1>6 DEF Event, StreamEvents
  <1>8. d = Emit(x, e)
    BY <1>2, <1>3, <1>6 DEF StopBlock
  <1>9. d \in Converters /\ Alike(x, d) /\ d.sent = Append(c.sent, e)
    BY <1>4, <1>5, <1>7, <1>8, EmitSays
  <1>10. HistorySound(d.sent, Outside, n, c.strayed)
    BY <1>1, <1>2, <1>6, <1>9, BlockStops DEF Going
  <1>11. \A i \in CallIndexes :
            c.toolAt[i] # Unmapped => BegunAs(d.sent, Len(d.sent) + 1, c.toolAt[i], "tool")
    BY <1>1, <1>7, <1>9, CallsKept DEF Going, CallsBegun
  <1>12. /\ d.started = c.started /\ d.finished = c.finished /\ d.block = Outside
         /\ d.index = n /\ d.toolAt = c.toolAt /\ d.think = c.think /\ d.held = c.held
         /\ d.strayed = c.strayed
    BY <1>5, <1>9 DEF Alike
  <1>13. Going(d)
    BY <1>9, <1>10, <1>11, <1>12 DEF Going, CallsBegun
  <1>14. QED
    BY <1>12, <1>13

LEMMA StopIfOpenSays ==
    ASSUME NEW c, Going(c), NEW d, d = StopIfOpen(c)
    PROVE  /\ Going(d) /\ d.block = Outside /\ d.toolAt = c.toolAt
           /\ d.think = c.think /\ d.held = c.held /\ d.strayed = c.strayed
  BY StopSays DEF StopIfOpen

(* A delta.                                                                 *)
LEMMA DeltaSays ==
    ASSUME NEW c, Going(c), NEW e \in StreamEvents, e.what = "delta",
           c.strayed \/ (c.block # Outside /\ e.index = c.index /\ e.kind = c.block),
           NEW d, d = Emit(c, e)
    PROVE  Going(d) /\ Alike(c, d)
  <1>1. c \in Converters /\ c.index \in Nat /\ c.sent \in Seq(StreamEvents)
    BY DEF Going, Converters
  <1>2. /\ d \in Converters /\ Alike(c, d)
        /\ d.sent = Append(c.sent, e) \/ d.sent = c.sent
    BY <1>1, EmitSays
  <1>3. HistorySound(d.sent, c.block, c.index, c.strayed)
    BY <1>1, <1>2, DeltaTold DEF Going
  <1>4. \A i \in CallIndexes :
            c.toolAt[i] # Unmapped => BegunAs(d.sent, Len(d.sent) + 1, c.toolAt[i], "tool")
    BY <1>1, <1>2, CallsKept DEF Going, CallsBegun
  <1>5. QED
    BY <1>2, <1>3, <1>4 DEF Going, CallsBegun, Alike

(* What is kept back, and whether a thought is under way, is not told.      *)
LEMMA QuietSays ==
    ASSUME NEW c, Going(c), NEW d \in Converters, c.strayed => d.strayed,
           d.started = c.started, d.finished = c.finished, d.block = c.block,
           d.index = c.index, d.toolAt = c.toolAt, d.sent = c.sent
    PROVE  Going(d)
  <1>1. HistorySound(c.sent, c.block, c.index, d.strayed)
    BY LooserSound DEF Going
  <1>2. QED
    BY <1>1 DEF Going, CallsBegun

LEMMA HeldSays ==
    ASSUME NEW c, Going(c), NEW h \in {"none", "blank", "text"},
           NEW d, d = [c EXCEPT !.held = h]
    PROVE  /\ Going(d) /\ d.block = c.block /\ d.think = c.think /\ d.held = h
           /\ d.strayed = c.strayed
  <1>1. c \in Converters
    BY DEF Going
  <1>2. d \in Converters
    BY <1>1, Zenon DEF Converters
  <1>3. /\ d.started = c.started /\ d.finished = c.finished /\ d.block = c.block
        /\ d.index = c.index /\ d.toolAt = c.toolAt /\ d.sent = c.sent
        /\ d.think = c.think /\ d.held = h /\ d.strayed = c.strayed
    BY <1>1 DEF Converters
  <1>4. QED
    BY <1>2, <1>3, QuietSays

LEMMA PlainTextSays ==
    ASSUME NEW c, Going(c), NEW d, d = PlainText(c)
    PROVE  /\ Going(d) /\ d.block = "text" /\ d.toolAt = c.toolAt
           /\ d.think = c.think /\ d.held = c.held /\ d.strayed = c.strayed
  <1>1. PICK o : o = IF c.block = "text" THEN c ELSE OpenBlock(StopIfOpen(c), "text")
    OBVIOUS
  <1>2. /\ Going(o) /\ o.block = "text" /\ o.toolAt = c.toolAt
        /\ o.think = c.think /\ o.held = c.held /\ o.strayed = c.strayed
    <2>1. PICK x : x = StopIfOpen(c)
      OBVIOUS
    <2>2. "text" \in Kinds
      BY DEF Kinds
    <2>3. QED
      BY <1>1, <2>1, <2>2, StopIfOpenSays, OpenSays
  <1>3. PICK e : e = Event("delta", "text", o.index)
    OBVIOUS
  <1>4. e \in StreamEvents /\ e.what = "delta" /\ e.index = o.index /\ e.kind = "text"
    BY <1>2, <1>3 DEF Event, StreamEvents, Kinds, Going, Converters
  <1>5. d = Emit(o, e)
    BY <1>1, <1>3 DEF PlainText
  <1>6. o.block # Outside
    BY <1>2 DEF Outside
  <1>7. Going(d) /\ Alike(o, d)
    BY <1>2, <1>4, <1>5, <1>6, DeltaSays
  <1>8. QED
    BY <1>2, <1>7 DEF Alike

(* Pieces of a text.                                                        *)
LEMMA IdleCoherent ==
    ASSUME NEW c, Coherent(c), c.think = "idle", NEW p \in TextPieces
    PROVE  Coherent(Idle(c, p))
  <1>1. Going(c) /\ c \in Converters
    BY DEF Coherent, Going
  <1>2. CASE p \in {"blank", "word"}
    <2>1. PICK h : h = IF p = "blank" /\ c.held # "none" THEN c.held
                       ELSE IF p = "blank" THEN "blank" ELSE "text"
      OBVIOUS
    <2>2. h \in {"none", "blank", "text"}
      BY <1>1, <2>1 DEF Converters
    <2>3. PICK d : d = [c EXCEPT !.held = h]
      OBVIOUS
    <2>4. Idle(c, p) = d
      BY <1>2, <2>1, <2>3 DEF Idle
    <2>5. Going(d) /\ d.think = "idle"
      BY <1>1, <2>2, <2>3, HeldSays
    <2>6. QED
      BY <2>4, <2>5 DEF Coherent, InThought
  <1>3. CASE p = "think"
    <2>1. PICK b : b = IF c.held = "text" THEN PlainText(c) ELSE c
      OBVIOUS
    <2>2. Going(b)
      BY <1>1, <2>1, PlainTextSays
    <2>3. PICK x : x = StopIfOpen(b)
      OBVIOUS
    <2>4. Going(x) /\ x.block = Outside
      BY <2>2, <2>3, StopIfOpenSays
    <2>5. PICK o : o = OpenBlock(x, "thinking")
      OBVIOUS
    <2>6. Going(o) /\ o.block = "thinking"
      BY <2>4, <2>5, OpenSays DEF Kinds
    <2>7. PICK d : d = [o EXCEPT !.think = "thinking", !.held = "none"]
      OBVIOUS
    <2>8. o \in Converters
      BY <2>6 DEF Going
    <2>9. d \in Converters
      BY <2>7, <2>8, Zenon DEF Converters
    <2>10. /\ d.started = o.started /\ d.finished = o.finished /\ d.block = o.block
           /\ d.index = o.index /\ d.toolAt = o.toolAt /\ d.sent = o.sent
           /\ d.strayed = o.strayed
      BY <2>7, <2>8 DEF Converters
    <2>11. Going(d)
      BY <2>6, <2>9, <2>10, QuietSays
    <2>12. Idle(c, p) = d
      BY <1>3, <2>1, <2>3, <2>5, <2>7 DEF Idle
    <2>13. QED
      BY <2>6, <2>10, <2>11, <2>12 DEF Coherent, InThought, Outside
  <1>4. CASE p \notin {"blank", "word", "think"}
    <2>1. PICK x : x = PlainText(c)
      OBVIOUS
    <2>2. Going(x) /\ x.think = "idle"
      BY <1>1, <2>1, PlainTextSays
    <2>3. PICK d : d = [x EXCEPT !.held = "text"]
      OBVIOUS
    <2>4. Going(d) /\ d.think = "idle"
      BY <2>2, <2>3, HeldSays
    <2>5. Idle(c, p) = d
      BY <1>4, <2>1, <2>3 DEF Idle
    <2>6. QED
      BY <2>4, <2>5 DEF Coherent, InThought
  <1>5. QED
    BY <1>2, <1>3, <1>4

LEMMA ThinkingCoherent ==
    ASSUME NEW c, Coherent(c), c.think = "thinking", NEW p \in TextPieces
    PROVE  Coherent(Thinking(c, p))
  <1>1. /\ Going(c) /\ c \in Converters /\ c.block # Outside
        /\ c.strayed \/ c.block = "thinking"
    BY DEF Coherent, Going, InThought
  <1>2. CASE p = "unthink"
    <2>1. PICK x : x = StopBlock(c)
      OBVIOUS
    <2>2. Going(x) /\ x \in Converters
      BY <1>1, <2>1, StopSays DEF Going
    <2>3. PICK d : d = [x EXCEPT !.think = "done"]
      OBVIOUS
    <2>4. d \in Converters
      BY <2>2, <2>3, Zenon DEF Converters
    <2>5. /\ d.started = x.started /\ d.finished = x.finished /\ d.block = x.block
          /\ d.index = x.index /\ d.toolAt = x.toolAt /\ d.sent = x.sent
          /\ d.strayed = x.strayed /\ d.think = "done"
      BY <2>2, <2>3 DEF Converters
    <2>6. Going(d)
      BY <2>2, <2>4, <2>5, QuietSays
    <2>7. Thinking(c, p) = d
      BY <1>2, <2>1, <2>3 DEF Thinking
    <2>8. QED
      BY <2>5, <2>6, <2>7 DEF Coherent, InThought
  <1>3. CASE p # "unthink"
    <2>1. PICK e : e = Event("delta", "thinking", c.index)
      OBVIOUS
    <2>2. e \in StreamEvents /\ e.what = "delta" /\ e.index = c.index /\ e.kind = "thinking"
      BY <1>1, <2>1 DEF Event, StreamEvents, Kinds, Converters
    <2>3. PICK d : d = Emit(c, e)
      OBVIOUS
    <2>4. Going(d) /\ Alike(c, d)
      BY <1>1, <2>2, <2>3, DeltaSays
    <2>5. Thinking(c, p) = d
      BY <1>3, <2>1, <2>3 DEF Thinking, Thought
    <2>6. QED
      BY <1>1, <2>4, <2>5 DEF Coherent, InThought, Alike
  <1>4. QED
    BY <1>2, <1>3

LEMMA PieceCoherent ==
    ASSUME NEW c, Coherent(c), NEW p \in TextPieces
    PROVE  Coherent(ProcessPiece(c, p))
  <1>1. CASE c.think = "idle"
    BY <1>1, IdleCoherent DEF ProcessPiece
  <1>2. CASE c.think = "thinking"
    BY <1>2, ThinkingCoherent DEF ProcessPiece
  <1>3. CASE c.think \notin {"idle", "thinking"}
    <2>1. ProcessPiece(c, p) = PlainText(c)
      BY <1>3 DEF ProcessPiece
    <2>2. Going(c)
      BY DEF Coherent
    <2>3. QED
      BY <1>3, <2>1, <2>2, PlainTextSays DEF Coherent, InThought
  <1>4. QED
    BY <1>1, <1>2, <1>3

(* A call of a tool.                                                        *)
LEMMA CallTyped ==
    ASSUME NEW call \in ToolCalls
    PROVE  call.at \in CallIndexes /\ call.args \in BOOLEAN
  BY DEF ToolCalls

LEMMA BeginCallSays ==
    ASSUME NEW c, Going(c), c.block = Outside, NEW call \in ToolCalls,
           NEW d, d = BeginCall(c, call)
    PROVE  /\ Going(d) /\ d.block = "tool" /\ d.toolAt[call.at] = d.index
           /\ d.think = c.think /\ d.strayed = c.strayed
  <1>1. PICK o : o = OpenBlock(c, "tool")
    OBVIOUS
  <1>2. /\ Going(o) /\ o.block = "tool" /\ o.index = c.index /\ o.toolAt = c.toolAt
        /\ o.think = c.think /\ o.strayed = c.strayed
        /\ BegunAs(o.sent, Len(o.sent) + 1, o.index, "tool")
    BY <1>1, OpenSays DEF Kinds
  <1>3. o \in Converters /\ c \in Converters /\ c.index \in Nat
    BY <1>2 DEF Going, Converters
  <1>4. PICK a : a = [o.toolAt EXCEPT ![call.at] = c.index]
    OBVIOUS
  <1>5. call.at \in CallIndexes
    BY CallTyped
  <1>6. o.toolAt \in [CallIndexes -> Nat \cup {Unmapped}]
    BY <1>3 DEF Converters
  <1>7. /\ a \in [CallIndexes -> Nat \cup {Unmapped}]
        /\ a[call.at] = c.index
        /\ \A i \in CallIndexes : i # call.at => a[i] = o.toolAt[i]
    BY <1>3, <1>4, <1>5, <1>6
  <1>8. d = [o EXCEPT !.toolAt = a]
    BY <1>1, <1>4 DEF BeginCall
  <1>9. d \in Converters
    BY <1>3, <1>7, <1>8, Zenon DEF Converters
  <1>10. /\ d.started = o.started /\ d.finished = o.finished /\ d.block = o.block
         /\ d.index = o.index /\ d.toolAt = a /\ d.sent = o.sent /\ d.think = o.think
         /\ d.strayed = o.strayed
    BY <1>3, <1>8 DEF Converters
  <1>11. \A i \in CallIndexes :
            a[i] # Unmapped => BegunAs(o.sent, Len(o.sent) + 1, a[i], "tool")
    BY <1>2, <1>7 DEF Going, CallsBegun
  <1>12. Going(d)
    BY <1>2, <1>9, <1>10, <1>11 DEF Going, CallsBegun
  <1>13. QED
    BY <1>2, <1>7, <1>10, <1>12

LEMMA ArgumentsSay ==
    ASSUME NEW c, Going(c), NEW call \in ToolCalls, c.toolAt[call.at] # Unmapped,
           c.strayed \/ (c.block = "tool" /\ c.toolAt[call.at] = c.index),
           NEW d, d = Arguments(c, call)
    PROVE  Going(d) /\ d.block = c.block /\ d.think = c.think /\ d.strayed = c.strayed
  <1>1. CASE call.args
    <2>1. PICK e : e = Event("delta", "tool", c.toolAt[call.at])
      OBVIOUS
    <2>2. c.toolAt[call.at] \in Nat
      <3>1. c.toolAt \in [CallIndexes -> Nat \cup {Unmapped}]
        BY DEF Going, Converters
      <3>2. QED
        BY <3>1, CallTyped
    <2>3. /\ e \in StreamEvents /\ e.what = "delta" /\ e.kind = "tool"
          /\ e.index = c.toolAt[call.at]
      BY <2>1, <2>2 DEF Event, StreamEvents, Kinds
    <2>4. d = Emit(c, e)
      BY <1>1, <2>1 DEF Arguments
    <2>5. QED
      BY <2>3, <2>4, DeltaSays DEF Alike, Outside
  <1>2. CASE ~call.args
    BY <1>2 DEF Arguments
  <1>3. QED
    BY <1>1, <1>2

LEMMA CallCoherent ==
    ASSUME AnthropicAssumption, NEW c, Coherent(c), NEW call \in ToolCalls
    PROVE  Coherent(ToolCall(c, call))
  <1>1. /\ Going(c) /\ InThought(c) /\ c \in Converters /\ c.index \in Nat
        /\ c.toolAt \in [CallIndexes -> Nat \cup {Unmapped}] /\ c.strayed \in BOOLEAN
    BY DEF Coherent, Going, Converters
  <1>2. PICK y : y = (c.strayed \/ Strays(c, call))
    OBVIOUS
  <1>3. PICK x : x = [c EXCEPT !.strayed = y]
    OBVIOUS
  <1>4. y \in BOOLEAN /\ (c.strayed => y)
    BY <1>1, <1>2 DEF Strays
  <1>5. x \in Converters
    BY <1>1, <1>3, <1>4, Zenon DEF Converters
  <1>6. /\ x.started = c.started /\ x.finished = c.finished /\ x.block = c.block
        /\ x.index = c.index /\ x.toolAt = c.toolAt /\ x.sent = c.sent
        /\ x.think = c.think /\ x.strayed = y
    BY <1>1, <1>3 DEF Converters
  <1>7. Going(x)
    BY <1>1, <1>4, <1>5, <1>6, QuietSays
  <1>8. ToolCall(c, call) = Arguments(IF c.toolAt[call.at] = Unmapped
                                      THEN BeginCall(StopIfOpen(x), call) ELSE x, call)
    BY <1>2, <1>3 DEF ToolCall
  <1>9. call.at \in CallIndexes
    BY CallTyped
  <1>10. CASE c.toolAt[call.at] = Unmapped
    <2>1. c.think = "thinking" => y
      BY <1>2, <1>10 DEF Strays
    <2>2. PICK s : s = StopIfOpen(x)
      OBVIOUS
    <2>3. /\ Going(s) /\ s.block = Outside /\ s.think = c.think /\ s.strayed = y
      BY <1>6, <1>7, <2>2, StopIfOpenSays
    <2>4. PICK o : o = BeginCall(s, call)
      OBVIOUS
    <2>5. /\ Going(o) /\ o.block = "tool" /\ o.toolAt[call.at] = o.index
          /\ o.think = c.think /\ o.strayed = y
      BY <2>3, <2>4, BeginCallSays
    <2>6. o.toolAt[call.at] # Unmapped
      <3>1. o.index \in Nat
        BY <2>5 DEF Going, Converters
      <3>2. QED
        BY <2>5, <3>1 DEF Unmapped
    <2>7. PICK d : d = Arguments(o, call)
      OBVIOUS
    <2>8. Going(d) /\ d.block = "tool" /\ d.think = c.think /\ d.strayed = y
      BY <2>5, <2>6, <2>7, ArgumentsSay
    <2>9. ToolCall(c, call) = d
      BY <1>8, <1>10, <2>2, <2>4, <2>7
    <2>10. QED
      BY <2>1, <2>8, <2>9 DEF Coherent, InThought, Outside
  <1>11. CASE c.toolAt[call.at] # Unmapped
    <2>1. ~y => c.block # Outside /\ c.toolAt[call.at] = c.index
      BY <1>2, <1>11 DEF Strays
    <2>2. ~y => c.block = "tool"
      <3>1. BegunAs(c.sent, Len(c.sent) + 1, c.toolAt[call.at], "tool")
        BY <1>1, <1>9, <1>11 DEF Going, CallsBegun
      <3>2. HistorySound(c.sent, c.block, c.index, c.strayed)
        BY <1>1 DEF Going
      <3>3. ~y => BegunAs(c.sent, Len(c.sent) + 1, c.index, c.block)
        BY <2>1, <3>2 DEF HistorySound
      <3>4. QED
        BY <2>1, <3>1, <3>2, <3>3, BegunOnce
    <2>3. PICK d : d = Arguments(x, call)
      OBVIOUS
    <2>4. Going(d) /\ d.block = c.block /\ d.think = c.think /\ d.strayed = y
      BY <1>6, <1>7, <1>11, <2>1, <2>2, <2>3, ArgumentsSay
    <2>5. ToolCall(c, call) = d
      BY <1>8, <1>11, <2>3
    <2>6. QED
      BY <1>1, <1>4, <2>4, <2>5 DEF Coherent, InThought
  <1>12. QED
    BY <1>10, <1>11

(* A message is finished.                                                   *)
LEMMA FinishOver ==
    ASSUME NEW c, Going(c)
    PROVE  /\ MessageOver(FinishMessage(c)) /\ FinishMessage(c).started
  <1>1. PICK f : f = FlushHeld(c)
    OBVIOUS
  <1>2. Going(f) /\ (f.held = "none" \/ f.think # "idle")
    <2>1. CASE c.held # "none" /\ c.think = "idle"
      <3>1. PICK p : p = PlainText(c)
        OBVIOUS
      <3>2. f = [p EXCEPT !.held = "none"]
        BY <1>1, <2>1, <3>1 DEF FlushHeld
      <3>3. QED
        BY <3>1, <3>2, PlainTextSays, HeldSays
    <2>2. CASE ~(c.held # "none" /\ c.think = "idle")
      BY <1>1, <2>2 DEF FlushHeld
    <2>3. QED
      BY <2>1, <2>2
  <1>3. PICK s : s = StopIfOpen(f)
    OBVIOUS
  <1>4. /\ Going(s) /\ s.block = Outside
        /\ s.held = "none" \/ s.think # "idle"
    BY <1>2, <1>3, StopIfOpenSays
  <1>5. s \in Converters /\ s.index \in Nat /\ s.sent \in Seq(StreamEvents)
    BY <1>4 DEF Going, Converters
  <1>6. PICK x : x = [s EXCEPT !.finished = TRUE]
    OBVIOUS
  <1>7. x \in Converters
    BY <1>5, <1>6, Zenon DEF Converters
  <1>8. /\ x.started = s.started /\ x.finished /\ x.sent = s.sent /\ x.held = s.held
        /\ x.think = s.think /\ x.strayed = s.strayed
    BY <1>5, <1>6 DEF Converters
  <1>9. PICK e : e = Event("message_stop", Outside, 0)
    OBVIOUS
  <1>10. e \in StreamEvents /\ e.what = "message_stop"
    BY <1>9 DEF Event, StreamEvents
  <1>11. PICK d : d = Emit(x, e)
    OBVIOUS
  <1>12. d \in Converters /\ Alike(x, d) /\ d.sent = Append(s.sent, e)
    BY <1>7, <1>8, <1>10, <1>11, EmitSays
  <1>13. MessageSound(d.sent, s.strayed)
    BY <1>4, <1>5, <1>9, <1>12, MessageStops DEF Going
  <1>14. d.sent[1].what = "message_start"
    <2>1. s.sent # <<>> /\ s.sent[1].what = "message_start" /\ 1 \in DOMAIN s.sent
      BY <1>4, <1>5 DEF Going, HistorySound
    <2>2. QED
      BY <1>5, <1>10, <1>12, <2>1, EarlierKept
  <1>15. FinishMessage(c) = d
    BY <1>1, <1>3, <1>6, <1>9, <1>11 DEF FinishMessage
  <1>16. QED
    BY <1>4, <1>8, <1>12, <1>13, <1>14, <1>15 DEF MessageOver, Alike, Going

(* A text, piece by piece.                                                  *)
LEMMA TextCoherent ==
    ASSUME NEW c, Coherent(c), NEW s \in Seq(TextPieces)
    PROVE  Coherent(ProcessText(c, s))
  <1> DEFINE A == {d \in Converters : Coherent(d)}
             D == DOMAIN s
             op == [x \in A \X D |-> ProcessPiece(x[1], s[x[2]])]
             Table(g) == g = [T \in SUBSET D |-> IF T = {} THEN c
                                ELSE ProcessPiece(g[T \ {Max(T)}], s[Max(T)])]
             f == CHOOSE g : Table(g)
             Good == {T \in SUBSET D : f[T] \in A}
  <1>1. \A d : Coherent(d) <=> d \in A
    BY DEF Coherent, Going
  <1>2. D \in SUBSET Int /\ IsFiniteSet(D) /\ \A i \in D : s[i] \in TextPieces
    BY IndexesTaken
  <1>3. \A a \in A, i \in D : ProcessPiece(a, s[i]) \in A
    BY <1>1, <1>2, PieceCoherent
  <1> HIDE DEF D
  <1>4. \A T \in SUBSET D : T # {} => Max(T) \in D /\ T \ {Max(T)} \in SUBSET D
    BY <1>2, GreatestTaken
  <1>5. PICK g \in [SUBSET D -> A] : StepTable(op, c, D, g)
    <2>1. op \in [A \X D -> A] /\ c \in A
      BY <1>1, <1>3
    <2> HIDE DEF op, A
    <2>2. QED
      BY <1>2, <2>1, StepsTable
  <1>6. Table(g)
    <2>1. ASSUME NEW T \in SUBSET D, T # {}
          PROVE  op[<<g[T \ {Max(T)}], Max(T)>>] = ProcessPiece(g[T \ {Max(T)}], s[Max(T)])
      <3>1. g[T \ {Max(T)}] \in A /\ Max(T) \in D
        BY <1>4, <1>5, <2>1
      <3>2. QED
        BY <3>1
    <2> HIDE DEF op
    <2>2. QED
      BY <1>5, <2>1 DEF StepTable
  <1>7. Table(f)
    BY <1>6
  <1>8. f[{}] = c /\ \A T \in SUBSET D : T # {} => f[T] = ProcessPiece(f[T \ {Max(T)}], s[Max(T)])
    BY <1>7
  <1>9. ProcessText(c, s) = f[D]
    BY DEF D, ProcessText, FoldLeft, MapThenFoldSet
  <1> HIDE DEF f, Table, op, A
  <1>10. ASSUME NEW T \in SUBSET D, T # {}, T \ {Max(T)} \in Good
         PROVE  T \in Good
    <2>1. f[T] = ProcessPiece(f[T \ {Max(T)}], s[Max(T)]) /\ Max(T) \in D
      BY <1>4, <1>8, <1>10
    <2>2. QED
      BY <1>3, <1>10, <2>1
  <1>11. {} \in Good
    BY <1>1, <1>8
  <1>12. D \in Good
    <2> HIDE DEF Good
    <2>1. QED
      BY <1>2, <1>10, <1>11, StepsStay
  <1>13. QED
    BY <1>1, <1>9, <1>12

(* Calls, one after the other.                                              *)
LEMMA CallsCoherent ==
    ASSUME AnthropicAssumption, NEW c, Coherent(c), NEW s \in Seq(ToolCalls)
    PROVE  Coherent(FoldLeft(ToolCall, c, s))
  <1> DEFINE A == {d \in Converters : Coherent(d)}
             D == DOMAIN s
             op == [x \in A \X D |-> ToolCall(x[1], s[x[2]])]
             Table(g) == g = [T \in SUBSET D |-> IF T = {} THEN c
                                ELSE ToolCall(g[T \ {Max(T)}], s[Max(T)])]
             f == CHOOSE g : Table(g)
             Good == {T \in SUBSET D : f[T] \in A}
  <1>1. \A d : Coherent(d) <=> d \in A
    BY DEF Coherent, Going
  <1>2. D \in SUBSET Int /\ IsFiniteSet(D) /\ \A i \in D : s[i] \in ToolCalls
    BY IndexesTaken
  <1>3. \A a \in A, i \in D : ToolCall(a, s[i]) \in A
    BY <1>1, <1>2, CallCoherent
  <1> HIDE DEF D
  <1>4. \A T \in SUBSET D : T # {} => Max(T) \in D /\ T \ {Max(T)} \in SUBSET D
    BY <1>2, GreatestTaken
  <1>5. PICK g \in [SUBSET D -> A] : StepTable(op, c, D, g)
    <2>1. op \in [A \X D -> A] /\ c \in A
      BY <1>1, <1>3
    <2> HIDE DEF op, A
    <2>2. QED
      BY <1>2, <2>1, StepsTable
  <1>6. Table(g)
    <2>1. ASSUME NEW T \in SUBSET D, T # {}
          PROVE  op[<<g[T \ {Max(T)}], Max(T)>>] = ToolCall(g[T \ {Max(T)}], s[Max(T)])
      <3>1. g[T \ {Max(T)}] \in A /\ Max(T) \in D
        BY <1>4, <1>5, <2>1
      <3>2. QED
        BY <3>1
    <2> HIDE DEF op
    <2>2. QED
      BY <1>5, <2>1 DEF StepTable
  <1>7. Table(f)
    BY <1>6
  <1>8. f[{}] = c /\ \A T \in SUBSET D : T # {} => f[T] = ToolCall(f[T \ {Max(T)}], s[Max(T)])
    BY <1>7
  <1>9. FoldLeft(ToolCall, c, s) = f[D]
    BY DEF D, FoldLeft, MapThenFoldSet
  <1> HIDE DEF f, Table, op, A
  <1>10. ASSUME NEW T \in SUBSET D, T # {}, T \ {Max(T)} \in Good
         PROVE  T \in Good
    <2>1. f[T] = ToolCall(f[T \ {Max(T)}], s[Max(T)]) /\ Max(T) \in D
      BY <1>4, <1>8, <1>10
    <2>2. QED
      BY <1>3, <1>10, <2>1
  <1>11. {} \in Good
    BY <1>1, <1>8
  <1>12. D \in Good
    <2> HIDE DEF Good
    <2>1. QED
      BY <1>2, <1>10, <1>11, StepsStay
  <1>13. QED
    BY <1>1, <1>9, <1>12

(* A message starts with the first chunk.                                   *)
LEMMA StartCoherent ==
    Coherent(MessageStart(NewConverter))
  <1>1. PICK x : x = [NewConverter EXCEPT !.started = TRUE]
    OBVIOUS
  <1>2. NewConverter \in Converters
    <2>1. [i \in CallIndexes |-> Unmapped] \in [CallIndexes -> Nat \cup {Unmapped}]
      OBVIOUS
    <2>2. <<>> \in Seq(StreamEvents)
      OBVIOUS
    <2>3. QED
      BY <2>1, <2>2 DEF NewConverter, Converters, Outside, Kinds
  <1>3. x \in Converters
    BY <1>1, <1>2, Zenon DEF Converters
  <1>4. /\ x.started /\ ~x.finished /\ x.block = Outside /\ x.index = 0 /\ x.think = "idle"
        /\ x.sent = <<>> /\ x.toolAt = [i \in CallIndexes |-> Unmapped]
    BY <1>1 DEF NewConverter
  <1>5. PICK e : e = Event("message_start", Outside, 0)
    OBVIOUS
  <1>6. e \in StreamEvents /\ e.what = "message_start"
    BY <1>5 DEF Event, StreamEvents
  <1>7. PICK d : d = Emit(x, e)
    OBVIOUS
  <1>8. d \in Converters /\ Alike(x, d) /\ d.sent = Append(<<>>, e)
    BY <1>3, <1>4, <1>6, <1>7, EmitSays
  <1>9. HistorySound(d.sent, Outside, 0, d.strayed)
    BY <1>5, <1>8, MessageStarts
  <1>10. CallsBegun(d)
    BY <1>4, <1>8 DEF CallsBegun, Alike
  <1>11. Going(d) /\ InThought(d)
    BY <1>4, <1>8, <1>9, <1>10 DEF Going, InThought, Alike
  <1>12. QED
    BY <1>1, <1>5, <1>7, <1>11 DEF MessageStart, Coherent

(* A message may be over before it has started.                             *)
LEMMA NothingOver ==
    MessageOver(FinishMessage(NewConverter)) /\ NewConverter \in Converters
  <1>1. PICK x : x = [NewConverter EXCEPT !.finished = TRUE]
    OBVIOUS
  <1>2. NewConverter \in Converters
    <2>1. [i \in CallIndexes |-> Unmapped] \in [CallIndexes -> Nat \cup {Unmapped}]
      OBVIOUS
    <2>2. <<>> \in Seq(StreamEvents)
      OBVIOUS
    <2>3. QED
      BY <2>1, <2>2 DEF NewConverter, Converters, Outside, Kinds
  <1>3. x \in Converters
    BY <1>1, <1>2, Zenon DEF Converters
  <1>4. ~x.started /\ x.finished /\ x.held = "none" /\ x.sent = <<>>
    BY <1>1 DEF NewConverter
  <1>5. PICK e : e = Event("message_stop", Outside, 0)
    OBVIOUS
  <1>6. e \in StreamEvents /\ e.what = "message_stop"
    BY <1>5 DEF Event, StreamEvents
  <1>7. PICK d : d = Emit(x, e)
    OBVIOUS
  <1>8. d \in Converters /\ Alike(x, d) /\ d.sent = Append(<<>>, e)
    BY <1>3, <1>4, <1>6, <1>7, EmitSays
  <1>9. PICK t : t = d.sent
    OBVIOUS
  <1>10. /\ t \in Seq(StreamEvents) /\ Len(t) = 1 /\ DOMAIN t = {1} /\ t[1] = e /\ t # <<>>
    BY <1>6, <1>8, <1>9
  <1>11. UpTo(t, 1, 0, 0)
    BY <1>10 DEF UpTo, HasBegun, HasStopped
  <1>12. EventSound(t, 1, d.strayed)
    BY <1>6, <1>10, <1>11 DEF EventSound
  <1>13. MessageSound(t, d.strayed)
    BY <1>6, <1>10, <1>12 DEF MessageSound
  <1>14. FlushHeld(NewConverter) = NewConverter /\ StopIfOpen(NewConverter) = NewConverter
    BY DEF FlushHeld, StopIfOpen, NewConverter
  <1>15. FinishMessage(NewConverter) = d
    BY <1>1, <1>5, <1>7, <1>14 DEF FinishMessage
  <1>16. QED
    BY <1>2, <1>4, <1>8, <1>9, <1>13, <1>15 DEF MessageOver, Alike

LEMMA ChunkTyped ==
    ASSUME AnthropicAssumption, NEW chunk \in ChunksSent
    PROVE  chunk.text \in Seq(TextPieces) /\ chunk.calls \in Seq(ToolCalls)
  <1>1. CASE chunk \in UsageChunks
    <2>1. PICK u \in BOOLEAN : chunk = [Chunk(<<>>, <<>>, FALSE) EXCEPT !.choices = FALSE, !.usage = u]
      BY <1>1 DEF UsageChunks
    <2>2. chunk.text = <<>> /\ chunk.calls = <<>>
      BY <2>1 DEF Chunk
    <2>3. QED
      BY <2>2
  <1>2. CASE chunk \notin UsageChunks
    <2>1. PICK d \in Deltas, b \in BOOLEAN : chunk = Chunk(d[1], d[2], b)
      <3>1. chunk \in {Chunk(d[1], d[2], b) : d \in Deltas, b \in BOOLEAN}
        BY <1>2 DEF ChunksSent
      <3>2. QED
        BY <3>1
    <2>2. d \in Seq(TextPieces) \X Seq(ToolCalls)
      BY DEF AnthropicAssumption
    <2>3. d[1] \in Seq(TextPieces) /\ d[2] \in Seq(ToolCalls)
      BY <2>2
    <2>4. chunk.text = d[1] /\ chunk.calls = d[2]
      BY <2>1 DEF Chunk
    <2>5. QED
      BY <2>3, <2>4
  <1>3. QED
    BY <1>1, <1>2

(* A message that has not begun, one that goes on, one that is over.        *)
ToldInv(c) == c = NewConverter \/ Coherent(c) \/ MessageOver(c)

LEMMA ChunkConverted ==
    ASSUME AnthropicAssumption, NEW c, ToldInv(c), c.finished => c.started,
           NEW chunk \in ChunksSent
    PROVE  /\ Coherent(ConvertChunk(c, chunk)) \/ MessageOver(ConvertChunk(c, chunk))
           /\ ConvertChunk(c, chunk).started
  <1>1. CASE c.finished
    <2>1. ConvertChunk(c, chunk) = c
      BY <1>1 DEF ConvertChunk
    <2>2. MessageOver(c)
      BY <1>1 DEF ToldInv, NewConverter, Coherent, Going
    <2>3. QED
      BY <1>1, <2>1, <2>2
  <1>2. CASE ~c.finished
    <2>1. PICK s : s = IF c.started THEN c ELSE MessageStart(c)
      OBVIOUS
    <2>2. Coherent(s)
      <3>1. Coherent(c) \/ c = NewConverter
        BY <1>2 DEF ToldInv, MessageOver
      <3>2. Coherent(c) => c.started
        BY DEF Coherent, Going
      <3>3. c = NewConverter => ~c.started
        BY DEF NewConverter
      <3>4. QED
        BY <2>1, <3>1, <3>2, <3>3, StartCoherent
    <2>3. PICK t : t = ProcessText(s, chunk.text)
      OBVIOUS
    <2>4. Coherent(t)
      BY <2>2, <2>3, ChunkTyped, TextCoherent
    <2>5. PICK f : f = FoldLeft(ToolCall, t, chunk.calls)
      OBVIOUS
    <2>6. Coherent(f)
      BY <2>4, <2>5, ChunkTyped, CallsCoherent
    <2>7. Going(f) /\ f.started
      BY <2>6 DEF Coherent, Going
    <2>8. ConvertChunk(c, chunk) = f \/ ConvertChunk(c, chunk) = FinishMessage(f)
      BY <1>2, <2>1, <2>3, <2>5 DEF ConvertChunk
    <2>9. QED
      BY <2>6, <2>7, <2>8, FinishOver
  <1>3. QED
    BY <1>1, <1>2

AnthropicInv ==
    /\ AnthropicTypeOK /\ ToldInv(told)
    /\ chunks > 0 => told.started
    /\ told.finished => told.started \/ answer # "streaming"
    /\ answer \in {"closing", "200"} => told.finished

(* For any texts, calls and chunks: the events that a client of Anthropic's *)
(* protocol is sent can be read.                                            *)
THEOREM AnswersCanBeRead ==
    ASSUME AnthropicAssumption
    PROVE  AnthropicSpec => [](AnthropicTypeOK /\ AnthropicFramed)
  <1>1. AnthropicInit => AnthropicInv
    BY NothingOver DEF AnthropicInit, AnthropicInv, AnthropicTypeOK, AnthropicAssumption, ToldInv, NewConverter
  <1>2. AnthropicInv /\ [NextAnthropicStream]_anthropicVars => AnthropicInv'
    <2> SUFFICES ASSUME AnthropicInv, [NextAnthropicStream]_anthropicVars
                 PROVE  AnthropicInv'
      OBVIOUS
    <2>1. /\ ToldInv(told) /\ chunks \in 0..AnthropicChunks /\ AnthropicChunks \in Nat
          /\ told.finished => told.started \/ answer # "streaming"
          /\ chunks > 0 => told.started
      BY DEF AnthropicInv, AnthropicTypeOK, AnthropicAssumption
    <2>2. ASSUME NEW chunk \in ChunksSent, ChunkArrives(chunk)
          PROVE  AnthropicInv'
      <3>1. PICK d : d = ConvertChunk(told, chunk)
        OBVIOUS
      <3>2. (Coherent(d) \/ MessageOver(d)) /\ d.started
        BY <2>1, <2>2, <3>1, ChunkConverted DEF ChunkArrives
      <3>3. d \in Converters
        BY <3>2 DEF Coherent, Going, MessageOver
      <3>4. told' = d /\ answer' = answer /\ answer = "streaming" /\ chunks' \in 0..AnthropicChunks
        BY <2>1, <2>2, <3>1 DEF ChunkArrives
      <3>5. QED
        BY <3>2, <3>3, <3>4 DEF AnthropicInv, AnthropicTypeOK, ToldInv
    <2>3. CASE UpstreamEnds
      <3>1. PICK d : d = IF told.finished THEN told ELSE FinishMessage(told)
        OBVIOUS
      <3>2. MessageOver(d) /\ (told.started => d.started)
        <4>1. CASE told.finished
          BY <2>1, <3>1, <4>1 DEF ToldInv, NewConverter, Coherent, Going
        <4>2. CASE ~told.finished
          <5>1. told = NewConverter \/ Coherent(told)
            BY <2>1, <4>2 DEF ToldInv, MessageOver
          <5>2. CASE Coherent(told)
            BY <3>1, <4>2, <5>2, FinishOver DEF Coherent
          <5>3. CASE told = NewConverter
            BY <3>1, <4>2, <5>3, NothingOver DEF NewConverter
          <5>4. QED
            BY <5>1, <5>2, <5>3
        <4>3. QED
          BY <4>1, <4>2
      <3>3. told' = d /\ answer' = "closing" /\ chunks' = chunks
        BY <2>3, <3>1 DEF UpstreamEnds
      <3>4. d \in Converters /\ d.finished
        BY <3>2 DEF MessageOver
      <3>5. QED
        BY <2>1, <3>2, <3>3, <3>4 DEF AnthropicInv, AnthropicTypeOK, ToldInv
    <2>4. CASE LogAnswer \/ UpstreamBreaks \/ ClientGoes
      <3>1. told' = told /\ chunks' = chunks
            /\ answer' \in {"200", "502", "499"} /\ (answer' = "200" => answer = "closing")
        BY <2>4 DEF LogAnswer, UpstreamBreaks, ClientGoes
      <3>2. QED
        BY <3>1 DEF AnthropicInv, AnthropicTypeOK, ToldInv
    <2>5. CASE UNCHANGED anthropicVars
      BY <2>5 DEF anthropicVars, AnthropicInv, AnthropicTypeOK, ToldInv
    <2>6. QED
      BY <2>2, <2>3, <2>4, <2>5 DEF NextAnthropicStream
  <1>3. AnthropicInv => AnthropicTypeOK /\ AnthropicFramed
    <2> SUFFICES ASSUME AnthropicInv PROVE AnthropicFramed
      BY DEF AnthropicInv
    <2>1. ToldInv(told) /\ told \in Converters /\ told.sent \in Seq(StreamEvents)
      BY DEF AnthropicInv, AnthropicTypeOK, Converters
    <2>2. ToldSound
      <3>1. CASE told = NewConverter
        <4>1. told.sent = <<>> /\ DOMAIN told.sent = {}
          BY <3>1 DEF NewConverter
        <4>2. QED
          BY <2>1, <4>1 DEF ToldSound
      <3>2. CASE Coherent(told)
        BY <3>2 DEF Coherent, Going, HistorySound, ToldSound
      <3>3. CASE MessageOver(told)
        BY <3>3 DEF MessageOver, MessageSound, ToldSound
      <3>4. QED
        BY <2>1, <3>1, <3>2, <3>3 DEF ToldInv
    <2>3. chunks > 0 /\ told.sent # <<>> => At("message_start") = {1}
      <3>1. SUFFICES ASSUME chunks > 0, told.sent # <<>> PROVE At("message_start") = {1}
        OBVIOUS
      <3>2. told.started /\ told # NewConverter
        BY <3>1 DEF AnthropicInv, NewConverter
      <3>3. told.sent[1].what = "message_start"
        BY <2>1, <3>2 DEF ToldInv, Coherent, Going, HistorySound, MessageOver
      <3>4. 1 \in DOMAIN told.sent
        BY <2>1, <3>1
      <3>5. 1 \in At("message_start")
        BY <3>3, <3>4 DEF At
      <3>6. QED
        BY <2>2, <3>5, BlocksRead
    <2>4. told.finished => MessageOver(told)
      BY <2>1 DEF ToldInv, NewConverter, Coherent, Going
    <2>5. answer = "200" => At("message_stop") # {}
      <3>1. SUFFICES ASSUME answer = "200" PROVE At("message_stop") # {}
        OBVIOUS
      <3>2. MessageSound(told.sent, told.strayed)
        BY <2>4, <3>1 DEF AnthropicInv, MessageOver
      <3>3. Len(told.sent) \in DOMAIN told.sent /\ told.sent[Len(told.sent)].what = "message_stop"
        BY <2>1, <3>2 DEF MessageSound
      <3>4. QED
        BY <3>3 DEF At
    <2>6. told.finished => told.held = "none" \/ told.think # "idle"
      BY <2>4 DEF MessageOver
    <2>7. QED
      BY <2>2, <2>3, <2>5, <2>6, BlocksRead, StartsNumbered DEF AnthropicFramed
  <1>4. QED
    BY <1>1, <1>2, <1>3, PTL DEF AnthropicSpec

-----------------------------------------------------------------------------
(* How a response is told. *)

IsTold(s, i, what, x) == i \in DOMAIN s /\ s[i].what = what /\ s[i].item = x

(* Each item has been added once, before its deltas; others not at all.     *)
Listed(s, items) ==
    /\ s \in Seq(ReplyEvents)
    /\ \A i \in DOMAIN s : s[i].what \in {"added", "delta", "done"} => s[i].item \in items
    /\ \A x \in items : \E a \in DOMAIN s :
          /\ IsTold(s, a, "added", x)
          /\ \A i : IsTold(s, i, "added", x) => i = a
          /\ \A i : IsTold(s, i, "delta", x) => a < i

NotDone(s, x) == \A i : ~IsTold(s, i, "done", x)

DoneOnce(s, x) ==
    \E e \in DOMAIN s :
        /\ IsTold(s, e, "done", x)
        /\ \A i : IsTold(s, i, "done", x) => i = e
        /\ \A i : IsTold(s, i, "delta", x) => i < e

(* The text comes first, and the calls as they are numbered.                *)
Placed(s, text) ==
    \A i \in DOMAIN s : s[i].what = "added" =>
        s[i].at = IF s[i].item = Text THEN 0
                  ELSE (IF text THEN 1 ELSE 0) + (s[i].item - 1)

NotOver(s) == \A i \in DOMAIN s : s[i].what # "completed"

(* What the next event adds to what has been told.                          *)
Grows(s, e, t) ==
    /\ t \in Seq(ReplyEvents) /\ Len(t) = Len(s) + 1 /\ Len(s) \in Nat
    /\ DOMAIN s = 1..Len(s) /\ DOMAIN t = 1..(Len(s) + 1)
    /\ \A i \in DOMAIN s : t[i] = s[i]
    /\ t[Len(s) + 1] = e
    /\ \A i, what, x : IsTold(t, i, what, x)
          <=> IsTold(s, i, what, x) \/ (i = Len(s) + 1 /\ e.what = what /\ e.item = x)
    /\ \A i, what, x : IsTold(s, i, what, x) => i \in Nat /\ i < Len(s) + 1

LEMMA NextTold ==
    ASSUME NEW s \in Seq(ReplyEvents), NEW e \in ReplyEvents
    PROVE  Grows(s, e, Append(s, e))
  <1>0. PICK t : t = Append(s, e)
    OBVIOUS
  <1>1. /\ t \in Seq(ReplyEvents) /\ Len(t) = Len(s) + 1 /\ Len(s) \in Nat
        /\ DOMAIN s = 1..Len(s) /\ DOMAIN t = 1..(Len(s) + 1)
        /\ \A i \in DOMAIN s : t[i] = s[i]
        /\ t[Len(s) + 1] = e
    BY <1>0
  <1>2. \A i : i \in DOMAIN t <=> i \in DOMAIN s \/ i = Len(s) + 1
    BY <1>1
  <1>3. Len(s) + 1 \notin DOMAIN s /\ \A i \in DOMAIN s : i \in Nat /\ i < Len(s) + 1
    BY <1>1
  <1>4. \A i, what, x : IsTold(t, i, what, x)
           <=> IsTold(s, i, what, x) \/ (i = Len(s) + 1 /\ e.what = what /\ e.item = x)
    BY <1>1, <1>2, <1>3 DEF IsTold
  <1>5. \A i, what, x : IsTold(s, i, what, x) => i \in Nat /\ i < Len(s) + 1
    BY <1>3 DEF IsTold
  <1>6. QED
    BY <1>0, <1>1, <1>4, <1>5 DEF Grows

(* What an event leaves of what was so.                                     *)
LEMMA DoneKept ==
    ASSUME NEW s \in Seq(ReplyEvents), NEW e \in ReplyEvents, NEW x
    PROVE  /\ NotDone(s, x) /\ ~(e.what = "done" /\ e.item = x) => NotDone(Append(s, e), x)
           /\ DoneOnce(s, x) /\ ~(e.what \in {"delta", "done"} /\ e.item = x)
                 => DoneOnce(Append(s, e), x)
           /\ NotDone(s, x) /\ e.what = "done" /\ e.item = x => DoneOnce(Append(s, e), x)
  <1>1. PICK t : t = Append(s, e)
    OBVIOUS
  <1>1a. Grows(s, e, t)
    BY <1>1, NextTold
  <1>2. /\ \A i, what, y : IsTold(t, i, what, y)
              <=> IsTold(s, i, what, y) \/ (i = Len(s) + 1 /\ e.what = what /\ e.item = y)
        /\ \A i, what, y : IsTold(s, i, what, y) => i \in Nat /\ i < Len(s) + 1
        /\ DOMAIN s = 1..Len(s) /\ DOMAIN t = 1..(Len(s) + 1) /\ Len(s) \in Nat
    BY <1>1a DEF Grows
  <1>3. NotDone(s, x) /\ ~(e.what = "done" /\ e.item = x) => NotDone(t, x)
    BY <1>2 DEF NotDone
  <1>4. ASSUME DoneOnce(s, x), ~(e.what \in {"delta", "done"} /\ e.item = x)
        PROVE  DoneOnce(t, x)
    <2>1. PICK d \in DOMAIN s : /\ IsTold(s, d, "done", x)
                                /\ \A i : IsTold(s, i, "done", x) => i = d
                                /\ \A i : IsTold(s, i, "delta", x) => i < d
      BY <1>4 DEF DoneOnce
    <2>2. d \in DOMAIN t
      BY <1>2
    <2>3. /\ IsTold(t, d, "done", x)
          /\ \A i : IsTold(t, i, "done", x) => i = d
          /\ \A i : IsTold(t, i, "delta", x) => i < d
      BY <1>2, <1>4, <2>1
    <2>4. QED
      BY <2>2, <2>3 DEF DoneOnce
  <1>5. ASSUME NotDone(s, x), e.what = "done", e.item = x
        PROVE  DoneOnce(t, x)
    <2>1. PICK d \in DOMAIN t : d = Len(s) + 1
      BY <1>2
    <2>2. IsTold(t, d, "done", x)
      BY <1>2, <1>5, <2>1
    <2>3. \A i : IsTold(t, i, "done", x) => i = d
      BY <1>2, <1>5, <2>1 DEF NotDone
    <2>4. \A i : IsTold(t, i, "delta", x) => i < d
      BY <1>2, <1>5, <2>1
    <2>5. QED
      BY <2>2, <2>3, <2>4 DEF DoneOnce
  <1>6. QED
    BY <1>1, <1>3, <1>4, <1>5

LEMMA ListKept ==
    ASSUME NEW items, NEW s, Listed(s, items), NEW e \in ReplyEvents
    PROVE  /\ e.what \in {"delta", "done"} /\ e.item \in items => Listed(Append(s, e), items)
           /\ e.what \in {"created", "completed"} => Listed(Append(s, e), items)
           /\ e.what = "added" /\ e.item \notin items
                 => Listed(Append(s, e), items \cup {e.item}) /\ NotDone(s, e.item)
  <1>1. PICK t : t = Append(s, e)
    OBVIOUS
  <1>2. s \in Seq(ReplyEvents)
    BY DEF Listed
  <1>2a. Grows(s, e, t)
    BY <1>1, <1>2, NextTold
  <1>3. /\ \A i, what, y : IsTold(t, i, what, y)
              <=> IsTold(s, i, what, y) \/ (i = Len(s) + 1 /\ e.what = what /\ e.item = y)
        /\ \A i, what, y : IsTold(s, i, what, y) => i \in Nat /\ i < Len(s) + 1
        /\ DOMAIN s = 1..Len(s) /\ DOMAIN t = 1..(Len(s) + 1) /\ Len(s) \in Nat
        /\ t \in Seq(ReplyEvents) /\ \A i \in DOMAIN s : t[i] = s[i]
        /\ t[Len(s) + 1] = e
    BY <1>2a DEF Grows
  <1>4. ASSUME NEW x \in items, ~(e.what = "added" /\ e.item = x)
        PROVE  \E a \in DOMAIN t : /\ IsTold(t, a, "added", x)
                                   /\ \A i : IsTold(t, i, "added", x) => i = a
                                   /\ \A i : IsTold(t, i, "delta", x) => a < i
    <2>1. PICK a \in DOMAIN s : /\ IsTold(s, a, "added", x)
                                /\ \A i : IsTold(s, i, "added", x) => i = a
                                /\ \A i : IsTold(s, i, "delta", x) => a < i
      BY DEF Listed
    <2>2. a \in DOMAIN t /\ a < Len(s) + 1
      BY <1>3
    <2>3. /\ IsTold(t, a, "added", x)
          /\ \A i : IsTold(t, i, "added", x) => i = a
          /\ \A i : IsTold(t, i, "delta", x) => a < i
      BY <1>3, <1>4, <2>1, <2>2
    <2>4. QED
      BY <2>2, <2>3
  <1>5. \A i \in DOMAIN t : t[i].what \in {"added", "delta", "done"}
                            => t[i].item \in items \/ (i = Len(s) + 1 /\ t[i] = e)
    <2>1. \A i \in DOMAIN s : s[i].what \in {"added", "delta", "done"} => s[i].item \in items
      BY DEF Listed
    <2>2. \A i \in DOMAIN t : i \in DOMAIN s \/ i = Len(s) + 1
      BY <1>3
    <2>3. QED
      BY <1>3, <2>1, <2>2
  <1>6. e.what \in {"delta", "done"} /\ e.item \in items => Listed(t, items)
    BY <1>3, <1>4, <1>5 DEF Listed
  <1>7. e.what \in {"created", "completed"} => Listed(t, items)
    BY <1>3, <1>4, <1>5 DEF Listed
  <1>8. ASSUME e.what = "added", e.item \notin items
        PROVE  Listed(t, items \cup {e.item}) /\ NotDone(s, e.item)
    <2>1. \A i, what : what \in {"added", "delta", "done"} => ~IsTold(s, i, what, e.item)
      BY <1>8 DEF Listed, IsTold
    <2>2. PICK a \in DOMAIN t : a = Len(s) + 1
      BY <1>3
    <2>3. /\ IsTold(t, a, "added", e.item)
          /\ \A i : IsTold(t, i, "added", e.item) => i = a
          /\ \A i : IsTold(t, i, "delta", e.item) => a < i
      BY <1>3, <1>8, <2>1, <2>2
    <2>4. \A x \in items : x # e.item
      BY <1>8
    <2>5. \A i \in DOMAIN t : t[i].what \in {"added", "delta", "done"}
                              => t[i].item \in items \cup {e.item}
      BY <1>5
    <2>6. \A x \in items \cup {e.item} : \E b \in DOMAIN t :
             /\ IsTold(t, b, "added", x)
             /\ \A i : IsTold(t, i, "added", x) => i = b
             /\ \A i : IsTold(t, i, "delta", x) => b < i
      BY <1>4, <2>3, <2>4
    <2>7. Listed(t, items \cup {e.item})
      BY <1>3, <2>5, <2>6 DEF Listed
    <2>8. QED
      BY <2>1, <2>7 DEF NotDone
  <1>9. QED
    BY <1>1, <1>6, <1>7, <1>8

(* A response that goes on: its items are those that have been added.       *)
Same(r, d) == /\ d.created = r.created /\ d.text = r.text /\ d.tools = r.tools
              /\ d.pending = r.pending /\ d.finished = r.finished
ItemsOf(r) == {x \in Nat : IF x = Text THEN r.text ELSE x - 1 \in r.tools}
AllOpen(r) == \A x \in ItemsOf(r) : NotDone(r.sent, x)
AllDone(r) == \A x \in ItemsOf(r) : DoneOnce(r.sent, x)
Lists(r, late) == /\ r \in Replies /\ IsFiniteSet(r.tools)
                  /\ Listed(r.sent, ItemsOf(r)) /\ (late \/ Placed(r.sent, r.text))
Ongoing(r, late) == Lists(r, late) /\ ~r.finished /\ NotOver(r.sent)

LEMMA TellSays ==
    ASSUME NEW r \in Replies, NEW e \in ReplyEvents, NEW d, d = Tell(r, e)
    PROVE  /\ d \in Replies /\ Same(r, d) /\ ItemsOf(d) = ItemsOf(r)
           /\ d.sent = Append(r.sent, e) \/ (e.what = "delta" /\ d.sent = r.sent)
  <1>1. CASE e.what = "delta" /\ r.sent # <<>> /\ Last(r.sent) = e
    <2>1. d = r
      BY <1>1 DEF Tell
    <2>2. QED
      BY <1>1, <2>1 DEF Same
  <1>2. CASE ~(e.what = "delta" /\ r.sent # <<>> /\ Last(r.sent) = e)
    <2>1. PICK s : s = Append(r.sent, e)
      OBVIOUS
    <2>2. d = [r EXCEPT !.sent = s]
      BY <1>2, <2>1 DEF Tell
    <2>3. r.sent \in Seq(ReplyEvents)
      BY DEF Replies
    <2>4. s \in Seq(ReplyEvents)
      BY <2>1, <2>3
    <2>5. d \in Replies
      BY <2>2, <2>4, Zenon DEF Replies
    <2>6. Same(r, d) /\ d.sent = s
      BY <2>2 DEF Same, Replies
    <2>7. ItemsOf(d) = ItemsOf(r)
      BY <2>6 DEF ItemsOf, Same
    <2>8. QED
      BY <2>1, <2>5, <2>6, <2>7
  <1>3. QED
    BY <1>1, <1>2

(* A next event keeps the places and the end, if it is none of an addition  *)
(* or of the completion.                                                    *)
LEMMA PlacesKept ==
    ASSUME NEW s \in Seq(ReplyEvents), NEW e \in ReplyEvents, NEW text
    PROVE  /\ e.what # "completed" /\ NotOver(s) => NotOver(Append(s, e))
           /\ NotOver(s) => \A i \in DOMAIN Append(s, e) :
                 Append(s, e)[i].what = "completed" => i = Len(Append(s, e))
           /\ Placed(s, text) /\ e.what # "added" => Placed(Append(s, e), text)
           /\ Placed(s, text) /\ e.at = (IF e.item = Text THEN 0
                                         ELSE (IF text THEN 1 ELSE 0) + (e.item - 1))
                 => Placed(Append(s, e), text)
  <1>1. PICK t : t = Append(s, e)
    OBVIOUS
  <1>2. Grows(s, e, t)
    BY <1>1, NextTold
  <1>3. /\ \A i \in DOMAIN t : (i \in DOMAIN s /\ t[i] = s[i]) \/ (i = Len(s) + 1 /\ t[i] = e)
        /\ Len(t) = Len(s) + 1
    BY <1>2 DEF Grows
  <1>4. e.what # "completed" /\ NotOver(s) => NotOver(t)
    BY <1>3 DEF NotOver
  <1>5. NotOver(s) => \A i \in DOMAIN t : t[i].what = "completed" => i = Len(t)
    BY <1>3 DEF NotOver
  <1>6. Placed(s, text) /\ e.what # "added" => Placed(t, text)
    BY <1>3 DEF Placed
  <1>7. Placed(s, text) /\ e.at = (IF e.item = Text THEN 0
                                   ELSE (IF text THEN 1 ELSE 0) + (e.item - 1))
           => Placed(t, text)
    BY <1>3 DEF Placed
  <1>8. QED
    BY <1>1, <1>4, <1>5, <1>6, <1>7

(* A delta of an item leaves open what is open.                             *)
LEMMA ItemDeltaTold ==
    ASSUME NEW r, NEW late, Ongoing(r, late), NEW e \in ReplyEvents, e.what = "delta",
           e.item \in ItemsOf(r), NEW d, d = Tell(r, e)
    PROVE  Ongoing(d, late) /\ Same(r, d) /\ (AllOpen(r) => AllOpen(d))
  <1>1. r \in Replies /\ r.sent \in Seq(ReplyEvents)
    BY DEF Ongoing, Lists, Replies
  <1>2. /\ d \in Replies /\ Same(r, d) /\ ItemsOf(d) = ItemsOf(r)
        /\ d.sent = Append(r.sent, e) \/ d.sent = r.sent
    BY <1>1, TellSays
  <1>3. NotOver(d.sent) /\ (late \/ Placed(d.sent, d.text))
    BY <1>1, <1>2, PlacesKept DEF Ongoing, Lists, Same
  <1>4. Listed(d.sent, ItemsOf(d))
    <2>1. Listed(r.sent, ItemsOf(r))
      BY DEF Ongoing, Lists
    <2>2. Listed(Append(r.sent, e), ItemsOf(r))
      BY <2>1, ListKept
    <2>3. QED
      BY <1>2, <2>1, <2>2
  <1>5. AllOpen(r) => AllOpen(d)
    BY <1>1, <1>2, DoneKept DEF AllOpen
  <1>6. QED
    BY <1>2, <1>3, <1>4, <1>5 DEF Ongoing, Lists, Same

(* An item that is closed: this one, once, and no other.                    *)
LEMMA DoneTold ==
    ASSUME NEW r, NEW late, Ongoing(r, late), NEW e \in ReplyEvents, e.what = "done",
           e.item \in ItemsOf(r), NEW d, d = Tell(r, e)
    PROVE  /\ Ongoing(d, late) /\ Same(r, d)
           /\ NotDone(r.sent, e.item) => DoneOnce(d.sent, e.item)
           /\ \A y : y # e.item => /\ NotDone(r.sent, y) => NotDone(d.sent, y)
                                   /\ DoneOnce(r.sent, y) => DoneOnce(d.sent, y)
  <1>1. r \in Replies /\ r.sent \in Seq(ReplyEvents)
    BY DEF Ongoing, Lists, Replies
  <1>2. /\ d \in Replies /\ Same(r, d) /\ ItemsOf(d) = ItemsOf(r)
        /\ d.sent = Append(r.sent, e)
    BY <1>1, TellSays
  <1>3. NotOver(d.sent) /\ (late \/ Placed(d.sent, d.text))
    BY <1>1, <1>2, PlacesKept DEF Ongoing, Lists, Same
  <1>4. Listed(d.sent, ItemsOf(d))
    BY <1>1, <1>2, ListKept DEF Ongoing, Lists
  <1>5. /\ NotDone(r.sent, e.item) => DoneOnce(d.sent, e.item)
        /\ \A y : y # e.item => /\ NotDone(r.sent, y) => NotDone(d.sent, y)
                                /\ DoneOnce(r.sent, y) => DoneOnce(d.sent, y)
    BY <1>1, <1>2, DoneKept
  <1>6. QED
    BY <1>2, <1>3, <1>4, <1>5 DEF Ongoing, Lists, Same

(* An event that is about no item.                                          *)
LEMMA OtherTold ==
    ASSUME NEW r, NEW late, Ongoing(r, late), NEW e \in ReplyEvents,
           e.what \in {"created", "completed"}, NEW d, d = Tell(r, e)
    PROVE  /\ Lists(d, late) /\ Same(r, d) /\ ItemsOf(d) = ItemsOf(r)
           /\ e.what = "created" => NotOver(d.sent)
           /\ \A i \in DOMAIN d.sent : d.sent[i].what = "completed" => i = Len(d.sent)
           /\ \A y : /\ NotDone(r.sent, y) => NotDone(d.sent, y)
                     /\ DoneOnce(r.sent, y) => DoneOnce(d.sent, y)
  <1>1. r \in Replies /\ r.sent \in Seq(ReplyEvents) /\ NotOver(r.sent)
    BY DEF Ongoing, Lists, Replies
  <1>2. /\ d \in Replies /\ Same(r, d) /\ ItemsOf(d) = ItemsOf(r)
        /\ d.sent = Append(r.sent, e)
    BY <1>1, TellSays
  <1>3. late \/ Placed(d.sent, d.text)
    BY <1>1, <1>2, PlacesKept DEF Ongoing, Lists, Same
  <1>4. /\ e.what = "created" => NotOver(d.sent)
        /\ \A i \in DOMAIN d.sent : d.sent[i].what = "completed" => i = Len(d.sent)
    <2>1. /\ e.what = "created" => NotOver(Append(r.sent, e))
          /\ \A i \in DOMAIN Append(r.sent, e) :
                Append(r.sent, e)[i].what = "completed" => i = Len(Append(r.sent, e))
      BY <1>1, PlacesKept
    <2>2. QED
      BY <1>2, <2>1
  <1>5. Listed(d.sent, ItemsOf(d))
    <2>1. Listed(r.sent, ItemsOf(r))
      BY DEF Ongoing, Lists
    <2>2. Listed(Append(r.sent, e), ItemsOf(r))
      BY <2>1, ListKept
    <2>3. QED
      BY <1>2, <2>2
  <1>6. \A y : /\ NotDone(r.sent, y) => NotDone(d.sent, y)
               /\ DoneOnce(r.sent, y) => DoneOnce(d.sent, y)
    BY <1>1, <1>2, DoneKept
  <1>7. QED
    BY <1>2, <1>3, <1>4, <1>5, <1>6 DEF Ongoing, Lists, Same

(* What a step of the converter keeps of a response that goes on.           *)
Continues(r, d, late) ==
    /\ Ongoing(d, late) /\ d.text = r.text /\ d.pending = r.pending
    /\ AllOpen(r) => AllOpen(d)

(* The text begins.                                                         *)
LEMMA TextBegins ==
    ASSUME NEW r, NEW late, Ongoing(r, late), ~r.text, late \/ r.tools = {},
           NEW d, d = TextAdded(r)
    PROVE  /\ Ongoing(d, late) /\ d.text /\ d.pending = r.pending /\ d.tools = r.tools
           /\ AllOpen(r) => AllOpen(d)
  <1>1. PICK q : q = [r EXCEPT !.text = TRUE]
    OBVIOUS
  <1>2. r \in Replies /\ r.sent \in Seq(ReplyEvents)
    BY DEF Ongoing, Lists, Replies
  <1>3. /\ q \in Replies
    BY <1>1, <1>2, Zenon DEF Replies
  <1>4. /\ q.text /\ q.tools = r.tools /\ q.pending = r.pending /\ q.finished = r.finished
        /\ q.sent = r.sent
    BY <1>1, <1>2 DEF Replies
  <1>5. PICK e : e = ItemEvent("added", Text, 0)
    OBVIOUS
  <1>6. e \in ReplyEvents /\ e.what = "added" /\ e.item = Text /\ e.at = 0
    BY <1>5 DEF ReplyEvents, ItemEvent, Text
  <1>7. d = Tell(q, e)
    BY <1>1, <1>5 DEF TextAdded
  <1>8. d \in Replies /\ Same(q, d) /\ d.sent = Append(r.sent, e)
    BY <1>3, <1>4, <1>6, <1>7, TellSays
  <1>9. ItemsOf(d) = ItemsOf(r) \cup {Text} /\ Text \notin ItemsOf(r)
    <2>1. \A x : x \in ItemsOf(d) <=> x \in Nat /\ (x = Text \/ x - 1 \in r.tools)
      BY <1>4, <1>8 DEF ItemsOf, Same
    <2>2. \A x : x \in ItemsOf(r) <=> x \in Nat /\ x # Text /\ x - 1 \in r.tools
      BY DEF ItemsOf
    <2>3. Text \in Nat
      BY DEF Text
    <2>4. \A x : x \in ItemsOf(d) <=> x \in ItemsOf(r) \/ x = Text
      BY <2>1, <2>2, <2>3
    <2>5. QED
      BY <2>2, <2>4, Zenon
  <1>10. Listed(d.sent, ItemsOf(d)) /\ NotDone(r.sent, Text)
    <2>1. e.item \notin ItemsOf(r) /\ Listed(r.sent, ItemsOf(r))
      BY <1>6, <1>9 DEF Ongoing, Lists
    <2>2. /\ Listed(Append(r.sent, e), ItemsOf(r) \cup {e.item})
          /\ NotDone(r.sent, e.item)
      BY <1>6, <2>1, ListKept
    <2>3. QED
      BY <1>6, <1>8, <1>9, <2>2
  <1>11. NotOver(d.sent)
    BY <1>2, <1>6, <1>8, PlacesKept DEF Ongoing
  <1>12. late \/ Placed(d.sent, d.text)
    <2>1. SUFFICES ASSUME ~late PROVE Placed(d.sent, d.text)
      OBVIOUS
    <2>2. \A x \in ItemsOf(d) : x = Text
      BY <1>4, <1>8, <2>1 DEF ItemsOf, Same
    <2>3. \A i \in DOMAIN r.sent : r.sent[i].what # "added"
      BY <1>9, <2>2 DEF Ongoing, Lists, Listed
    <2>4. Placed(r.sent, d.text)
      BY <2>3 DEF Placed
    <2>5. QED
      BY <1>2, <1>6, <1>8, <2>4, PlacesKept
  <1>13. AllOpen(r) => AllOpen(d)
    <2>1. \A x \in ItemsOf(d) : NotDone(r.sent, x) => NotDone(d.sent, x)
      BY <1>2, <1>6, <1>8, DoneKept
    <2>2. QED
      BY <1>9, <1>10, <2>1 DEF AllOpen
  <1>14. QED
    BY <1>4, <1>8, <1>10, <1>11, <1>12, <1>13 DEF Ongoing, Lists, Same

(* A call begins.                                                           *)
LEMMA ToolBegins ==
    ASSUME ResponsesAssumption, NEW r, NEW late, Ongoing(r, late),
           NEW n \in ItemIndexes, n \notin r.tools, NEW d, d = ToolAdded(r, n)
    PROVE  Continues(r, d, late) /\ d.tools = r.tools \cup {n}
  <1>1. PICK q : q = [r EXCEPT !.tools = r.tools \cup {n}]
    OBVIOUS
  <1>2. r \in Replies /\ r.sent \in Seq(ReplyEvents) /\ r.tools \subseteq ItemIndexes
        /\ IsFiniteSet(r.tools) /\ n \in Nat
    BY DEF Ongoing, Lists, Replies, ResponsesAssumption
  <1>3. q \in Replies
    <2>1. r.tools \cup {n} \in SUBSET ItemIndexes
      BY <1>2
    <2>2. QED
      BY <1>1, <1>2, <2>1, Zenon DEF Replies
  <1>4. /\ q.text = r.text /\ q.tools = r.tools \cup {n} /\ q.pending = r.pending
        /\ q.finished = r.finished /\ q.sent = r.sent
    BY <1>1, <1>2 DEF Replies
  <1>5. PICK e : e = ItemEvent("added", ItemOf(n), (IF r.text THEN 1 ELSE 0) + n)
    OBVIOUS
  <1>6. /\ e \in ReplyEvents /\ e.what = "added" /\ e.item = n + 1
        /\ e.at = (IF r.text THEN 1 ELSE 0) + n
    BY <1>2, <1>5 DEF ReplyEvents, ItemEvent, ItemOf
  <1>7. d = Tell(q, e)
    BY <1>1, <1>5 DEF ToolAdded
  <1>8. d \in Replies /\ Same(q, d) /\ d.sent = Append(r.sent, e)
    BY <1>3, <1>4, <1>6, <1>7, TellSays
  <1>9. ItemsOf(d) = ItemsOf(r) \cup {n + 1} /\ n + 1 \notin ItemsOf(r)
    <2>1. n + 1 \in Nat /\ n + 1 # Text /\ (n + 1) - 1 = n
      BY <1>2 DEF Text
    <2>2. \A x \in Nat : x # Text => (x - 1 = n <=> x = n + 1)
      BY <1>2
    <2>3. d.text = r.text /\ d.tools = r.tools \cup {n}
      BY <1>4, <1>8 DEF Same
    <2>4. \A x \in Nat : x \in ItemsOf(d) <=> x \in ItemsOf(r) \/ x = n + 1
      BY <2>1, <2>2, <2>3 DEF ItemsOf
    <2>5. n + 1 \notin ItemsOf(r)
      BY <2>1 DEF ItemsOf
    <2>6. ItemsOf(d) \subseteq Nat /\ ItemsOf(r) \subseteq Nat
      BY DEF ItemsOf
    <2>7. QED
      BY <2>1, <2>4, <2>5, <2>6, Zenon
  <1>10. Listed(d.sent, ItemsOf(d)) /\ NotDone(r.sent, n + 1)
    <2>1. e.item \notin ItemsOf(r) /\ Listed(r.sent, ItemsOf(r))
      BY <1>6, <1>9 DEF Ongoing, Lists
    <2>2. /\ Listed(Append(r.sent, e), ItemsOf(r) \cup {e.item})
          /\ NotDone(r.sent, e.item)
      BY <1>6, <2>1, ListKept
    <2>3. QED
      BY <1>6, <1>8, <1>9, <2>2
  <1>11. NotOver(d.sent)
    BY <1>2, <1>6, <1>8, PlacesKept DEF Ongoing
  <1>12. late \/ Placed(d.sent, d.text)
    <2>1. e.at = IF e.item = Text THEN 0 ELSE (IF r.text THEN 1 ELSE 0) + (e.item - 1)
      BY <1>2, <1>6 DEF Text
    <2>2. late \/ Placed(r.sent, r.text)
      BY DEF Ongoing, Lists
    <2>3. d.text = r.text
      BY <1>4, <1>8 DEF Same
    <2>4. QED
      BY <1>2, <1>6, <1>8, <2>1, <2>2, <2>3, PlacesKept
  <1>13. AllOpen(r) => AllOpen(d)
    <2>1. \A x \in ItemsOf(d) : NotDone(r.sent, x) => NotDone(d.sent, x)
      BY <1>2, <1>6, <1>8, DoneKept
    <2>2. QED
      BY <1>9, <1>10, <2>1 DEF AllOpen
  <1>14. IsFiniteSet(d.tools) /\ d.tools = r.tools \cup {n}
    <2>1. d.tools = r.tools \cup {n}
      BY <1>4, <1>8 DEF Same
    <2>2. QED
      BY <1>2, <2>1, FS_AddElement
  <1>15. QED
    BY <1>4, <1>8, <1>10, <1>11, <1>12, <1>13, <1>14 DEF Ongoing, Lists, Same, Continues

(* The place of an item is one that was told, or the first.                 *)
LEMMA PlaceTyped ==
    ASSUME NEW r \in Replies, NEW x
    PROVE  Place(r, x) \in Nat
  <1> DEFINE added == {i \in DOMAIN r.sent : r.sent[i].what = "added" /\ r.sent[i].item = x}
  <1>1. PICK E : E = ReplyEvents
    OBVIOUS
  <1>2. r.sent \in Seq(E)
    BY <1>1 DEF Replies
  <1>3. \A i \in DOMAIN r.sent : r.sent[i] \in E
    BY <1>2
  <1>4. \A e \in E : e.at \in Nat
    BY <1>1 DEF ReplyEvents
  <1>5. CASE added = {}
    BY <1>5 DEF Place
  <1>6. CASE added # {}
    <2>1. PICK i : i = CHOOSE j \in added : TRUE
      OBVIOUS
    <2>2. i \in added
      BY <1>6, <2>1
    <2>3. Place(r, x) = r.sent[i].at
      BY <1>6, <2>1 DEF Place
    <2>4. QED
      BY <1>3, <1>4, <2>2, <2>3
  <1>7. QED
    BY <1>5, <1>6

LEMMA ItemNamed ==
    ASSUME ResponsesAssumption, NEW r, NEW late, Ongoing(r, late)
    PROVE  /\ r.text => Text \in ItemsOf(r)
           /\ \A n \in r.tools : /\ ItemOf(n) \in ItemsOf(r) /\ ItemOf(n) # Text
                                 /\ ItemOf(n) \in Nat /\ n \in Nat
           /\ \A x \in ItemsOf(r) : \/ x = Text /\ r.text
                                    \/ x - 1 \in r.tools /\ x = ItemOf(x - 1)
  <1>1. \A n \in r.tools : n \in Nat
    BY DEF ResponsesAssumption, Ongoing, Lists, Replies
  <1>2. QED
    BY <1>1 DEF ItemsOf, ItemOf, Text

(* A delta of the text; the text begins with its first.                     *)
LEMMA TextContinues ==
    ASSUME NEW r, NEW late, Ongoing(r, late), r.text \/ late \/ r.tools = {},
           NEW d, d = TextDelta(r)
    PROVE  /\ Ongoing(d, late) /\ d.text /\ d.pending = r.pending
           /\ AllOpen(r) => AllOpen(d)
  <1>1. PICK q : q = IF r.text THEN r ELSE TextAdded(r)
    OBVIOUS
  <1>2. /\ Ongoing(q, late) /\ q.text /\ q.pending = r.pending
        /\ AllOpen(r) => AllOpen(q)
    <2>1. CASE r.text
      BY <1>1, <2>1
    <2>2. CASE ~r.text
      BY <1>1, <2>2, TextBegins
    <2>3. QED
      BY <2>1, <2>2
  <1>3. PICK e : e = ItemEvent("delta", Text, 0)
    OBVIOUS
  <1>4. e \in ReplyEvents /\ e.what = "delta" /\ e.item = Text
    BY <1>3 DEF ReplyEvents, ItemEvent, Text
  <1>5. d = Tell(q, e)
    BY <1>1, <1>3 DEF TextDelta
  <1>6. e.item \in ItemsOf(q)
    BY <1>2, <1>4 DEF ItemsOf, Text
  <1>7. Ongoing(d, late) /\ Same(q, d) /\ (AllOpen(q) => AllOpen(d))
    BY <1>2, <1>4, <1>5, <1>6, ItemDeltaTold
  <1>8. QED
    BY <1>2, <1>7 DEF Same

(* A chunk's call: it begins if it is new, and may have arguments.          *)
LEMMA CallContinues ==
    ASSUME ResponsesAssumption, NEW r, NEW late, Ongoing(r, late),
           NEW call \in ReplyCalls, NEW d, d = ToolDelta(r, call)
    PROVE  Continues(r, d, late)
  <1>1. PICK n \in ItemIndexes : n = call.at
    BY DEF ReplyCalls
  <1>2. PICK q : q = IF n \in r.tools THEN r ELSE ToolAdded(r, n)
    OBVIOUS
  <1>3. Continues(r, q, late) /\ n \in q.tools
    <2>1. CASE n \in r.tools
      BY <1>2, <2>1 DEF Continues
    <2>2. CASE n \notin r.tools
      BY <1>2, <2>2, ToolBegins
    <2>3. QED
      BY <2>1, <2>2
  <1>4. PICK e : e = ItemEvent("delta", ItemOf(n), Place(q, ItemOf(n)))
    OBVIOUS
  <1>5. ItemOf(n) \in ItemsOf(q) /\ ItemOf(n) \in Nat /\ q \in Replies
    BY <1>3, ItemNamed DEF Continues, Ongoing, Lists
  <1>6. e \in ReplyEvents /\ e.what = "delta" /\ e.item = ItemOf(n)
    <2>1. Place(q, ItemOf(n)) \in Nat
      BY <1>5, PlaceTyped
    <2>2. QED
      BY <1>4, <1>5, <2>1 DEF ReplyEvents, ItemEvent
  <1>7. d = IF call.args THEN Tell(q, e) ELSE q
    BY <1>1, <1>2, <1>4 DEF ToolDelta
  <1>8. CASE call.args
    <2>1. Ongoing(d, late) /\ Same(q, d) /\ (AllOpen(q) => AllOpen(d))
      BY <1>3, <1>5, <1>6, <1>7, <1>8, ItemDeltaTold DEF Continues
    <2>2. QED
      BY <1>3, <2>1 DEF Continues, Same
  <1>9. CASE ~call.args
    BY <1>3, <1>7, <1>9
  <1>10. QED
    BY <1>8, <1>9

(* Calls, one after the other.                                              *)
LEMMA CallsContinue ==
    ASSUME ResponsesAssumption, NEW r, NEW late, Ongoing(r, late),
           NEW s \in Seq(ReplyCalls)
    PROVE  Continues(r, FoldLeft(ToolDelta, r, s), late)
  <1> DEFINE A == {d \in Replies : Continues(r, d, late)}
             D == DOMAIN s
             op == [x \in A \X D |-> ToolDelta(x[1], s[x[2]])]
             Table(g) == g = [T \in SUBSET D |-> IF T = {} THEN r
                                ELSE ToolDelta(g[T \ {Max(T)}], s[Max(T)])]
             f == CHOOSE g : Table(g)
             Good == {T \in SUBSET D : f[T] \in A}
  <1>1. r \in A
    BY DEF Continues, Ongoing, Lists
  <1>2. D \in SUBSET Int /\ IsFiniteSet(D) /\ \A i \in D : s[i] \in ReplyCalls
    BY IndexesTaken
  <1>3. ASSUME NEW a \in A, NEW i \in D
        PROVE  ToolDelta(a, s[i]) \in A
    <2>1. PICK d : d = ToolDelta(a, s[i])
      OBVIOUS
    <2>2. Continues(r, a, late) /\ s[i] \in ReplyCalls
      BY <1>2
    <2>3. Continues(a, d, late)
      BY <2>1, <2>2, CallContinues DEF Continues
    <2>4. Continues(r, d, late) /\ d \in Replies
      BY <2>2, <2>3 DEF Continues, Ongoing, Lists
    <2>5. QED
      BY <2>1, <2>4
  <1> HIDE DEF D
  <1>4. \A T \in SUBSET D : T # {} => Max(T) \in D /\ T \ {Max(T)} \in SUBSET D
    BY <1>2, GreatestTaken
  <1>5. PICK g \in [SUBSET D -> A] : StepTable(op, r, D, g)
    <2>1. op \in [A \X D -> A] /\ r \in A
      BY <1>1, <1>3
    <2> HIDE DEF op, A
    <2>2. QED
      BY <1>2, <2>1, StepsTable
  <1>6. Table(g)
    <2>1. ASSUME NEW T \in SUBSET D, T # {}
          PROVE  op[<<g[T \ {Max(T)}], Max(T)>>] = ToolDelta(g[T \ {Max(T)}], s[Max(T)])
      <3>1. g[T \ {Max(T)}] \in A /\ Max(T) \in D
        BY <1>4, <1>5, <2>1
      <3>2. QED
        BY <3>1
    <2> HIDE DEF op
    <2>2. QED
      BY <1>5, <2>1 DEF StepTable
  <1>7. Table(f)
    BY <1>6
  <1>8. f[{}] = r /\ \A T \in SUBSET D : T # {} => f[T] = ToolDelta(f[T \ {Max(T)}], s[Max(T)])
    BY <1>7
  <1>9. FoldLeft(ToolDelta, r, s) = f[D]
    BY DEF D, FoldLeft, MapThenFoldSet
  <1> HIDE DEF f, Table, op, A
  <1>10. ASSUME NEW T \in SUBSET D, T # {}, T \ {Max(T)} \in Good
         PROVE  T \in Good
    <2>1. f[T] = ToolDelta(f[T \ {Max(T)}], s[Max(T)]) /\ Max(T) \in D
      BY <1>4, <1>8, <1>10
    <2>2. QED
      BY <1>3, <1>10, <2>1
  <1>11. {} \in Good
    BY <1>1, <1>8
  <1>12. D \in Good
    <2> HIDE DEF Good
    <2>1. QED
      BY <1>2, <1>10, <1>11, StepsStay
  <1>13. f[D] \in A
    BY <1>12
  <1>14. QED
    BY <1>9, <1>13 DEF A

(* The text is closed, if there is one.                                     *)
LEMMA TextCloses ==
    ASSUME NEW r, NEW late, Ongoing(r, late), NEW d, d = TextDone(r)
    PROVE  /\ Ongoing(d, late) /\ Same(r, d)
           /\ r.text /\ NotDone(r.sent, Text) => DoneOnce(d.sent, Text)
           /\ \A y : y # Text => (NotDone(r.sent, y) => NotDone(d.sent, y))
  <1>1. CASE r.text
    <2>1. PICK e : e = ItemEvent("done", Text, 0)
      OBVIOUS
    <2>2. e \in ReplyEvents /\ e.what = "done" /\ e.item = Text
      BY <2>1 DEF ReplyEvents, ItemEvent, Text
    <2>3. d = Tell(r, e) /\ e.item \in ItemsOf(r)
      BY <1>1, <2>1, <2>2 DEF TextDone, ItemsOf, Text
    <2>4. QED
      BY <2>2, <2>3, DoneTold
  <1>2. CASE ~r.text
    BY <1>2 DEF TextDone, Same
  <1>3. QED
    BY <1>1, <1>2

(* A call is closed.                                                        *)
LEMMA CallCloses ==
    ASSUME ResponsesAssumption, NEW r, NEW late, Ongoing(r, late), NEW n \in r.tools,
           NEW d, d = ToolDone(r, n)
    PROVE  /\ Ongoing(d, late) /\ Same(r, d)
           /\ NotDone(r.sent, ItemOf(n)) => DoneOnce(d.sent, ItemOf(n))
           /\ \A y : y # ItemOf(n) => /\ NotDone(r.sent, y) => NotDone(d.sent, y)
                                      /\ DoneOnce(r.sent, y) => DoneOnce(d.sent, y)
  <1>1. PICK e : e = ItemEvent("done", ItemOf(n), Place(r, ItemOf(n)))
    OBVIOUS
  <1>2. ItemOf(n) \in ItemsOf(r) /\ ItemOf(n) \in Nat /\ r \in Replies
    BY ItemNamed DEF Ongoing, Lists
  <1>3. e \in ReplyEvents /\ e.what = "done" /\ e.item = ItemOf(n)
    <2>1. Place(r, ItemOf(n)) \in Nat
      BY <1>2, PlaceTyped
    <2>2. QED
      BY <1>1, <1>2, <2>1 DEF ReplyEvents, ItemEvent
  <1>4. d = Tell(r, e)
    BY <1>1 DEF ToolDone
  <1>5. QED
    BY <1>2, <1>3, <1>4, DoneTold

(* What is closed of the items of r when the calls T are.                   *)
ClosedUpTo(r, d, T) ==
    /\ r.text => DoneOnce(d.sent, Text)
    /\ \A n \in r.tools : /\ n \in T => DoneOnce(d.sent, ItemOf(n))
                          /\ n \notin T => NotDone(d.sent, ItemOf(n))

(* The items are closed, the text first.                                    *)
LEMMA ItemsClose ==
    ASSUME ResponsesAssumption, NEW r, NEW late, Ongoing(r, late)
    PROVE  /\ Ongoing(ItemsDone(r), late) /\ Same(r, ItemsDone(r))
           /\ AllOpen(r) => AllDone(ItemsDone(r))
  <1> DEFINE base == TextDone(r)
             A == {d \in Replies : Ongoing(d, late) /\ Same(r, d)}
             D == r.tools
             op == [x \in A \X D |-> ToolDone(x[1], x[2])]
             Table(g) == g = [T \in SUBSET D |-> IF T = {} THEN base
                                ELSE ToolDone(g[T \ {Max(T)}], Max(T))]
             f == CHOOSE g : Table(g)
             Good == {T \in SUBSET D : f[T] \in A /\ (AllOpen(r) => ClosedUpTo(r, f[T], T))}
  <1>1. /\ base \in A
        /\ AllOpen(r) => ClosedUpTo(r, base, {})
    <2>1. PICK d : d = TextDone(r)
      OBVIOUS
    <2>2. /\ Ongoing(d, late) /\ Same(r, d)
          /\ r.text /\ NotDone(r.sent, Text) => DoneOnce(d.sent, Text)
          /\ \A y : y # Text => (NotDone(r.sent, y) => NotDone(d.sent, y))
      BY <2>1, TextCloses
    <2>3. d \in Replies
      BY <2>2 DEF Ongoing, Lists
    <2>4. AllOpen(r) => ClosedUpTo(r, d, {})
      BY <2>2, ItemNamed DEF AllOpen, ClosedUpTo
    <2>5. QED
      BY <2>1, <2>2, <2>3, <2>4
  <1>2. D \in SUBSET Int /\ IsFiniteSet(D) /\ D \subseteq Nat
    <2>1. r.tools \subseteq ItemIndexes /\ IsFiniteSet(r.tools)
      BY DEF Ongoing, Lists, Replies
    <2>2. r.tools \subseteq Nat
      BY <2>1 DEF ResponsesAssumption
    <2>3. QED
      BY <2>1, <2>2
  <1>3. ASSUME NEW a \in A, NEW n \in D
        PROVE  /\ ToolDone(a, n) \in A
               /\ NotDone(a.sent, ItemOf(n)) => DoneOnce(ToolDone(a, n).sent, ItemOf(n))
               /\ \A y : y # ItemOf(n) =>
                     /\ NotDone(a.sent, y) => NotDone(ToolDone(a, n).sent, y)
                     /\ DoneOnce(a.sent, y) => DoneOnce(ToolDone(a, n).sent, y)
    <2>1. PICK d : d = ToolDone(a, n)
      OBVIOUS
    <2>2. Ongoing(a, late) /\ Same(r, a) /\ n \in a.tools
      BY DEF Same
    <2>3. /\ Ongoing(d, late) /\ Same(a, d)
          /\ NotDone(a.sent, ItemOf(n)) => DoneOnce(d.sent, ItemOf(n))
          /\ \A y : y # ItemOf(n) => /\ NotDone(a.sent, y) => NotDone(d.sent, y)
                                     /\ DoneOnce(a.sent, y) => DoneOnce(d.sent, y)
      BY <2>1, <2>2, CallCloses
    <2>4. Same(r, d) /\ d \in Replies
      BY <2>2, <2>3 DEF Same, Ongoing, Lists
    <2>5. QED
      BY <2>1, <2>3, <2>4
  <1> HIDE DEF D, base
  <1>4. \A T \in SUBSET D : T # {} => /\ Max(T) \in D /\ T \ {Max(T)} \in SUBSET D
                                      /\ Max(T) \in T
    BY <1>2, GreatestTaken
  <1>5. PICK g \in [SUBSET D -> A] : StepTable(op, base, D, g)
    <2>1. op \in [A \X D -> A] /\ base \in A
      BY <1>1, <1>3
    <2> HIDE DEF op, A
    <2>2. QED
      BY <1>2, <2>1, StepsTable
  <1>6. Table(g)
    <2>1. ASSUME NEW T \in SUBSET D, T # {}
          PROVE  op[<<g[T \ {Max(T)}], Max(T)>>] = ToolDone(g[T \ {Max(T)}], Max(T))
      <3>1. g[T \ {Max(T)}] \in A /\ Max(T) \in D
        BY <1>4, <1>5, <2>1
      <3>2. QED
        BY <3>1
    <2> HIDE DEF op
    <2>2. QED
      BY <1>5, <2>1 DEF StepTable
  <1>7. Table(f)
    BY <1>6
  <1>8. f[{}] = base /\ \A T \in SUBSET D : T # {} => f[T] = ToolDone(f[T \ {Max(T)}], Max(T))
    BY <1>7
  <1>9. ItemsDone(r) = f[D]
    BY DEF D, base, ItemsDone, MapThenFoldSet
  <1> HIDE DEF f, Table, op, A
  <1>10. ASSUME NEW T \in SUBSET D, T # {}, T \ {Max(T)} \in Good
         PROVE  T \in Good
    <2>1. PICK n : n = Max(T)
      OBVIOUS
    <2>2. PICK a : a = f[T \ {n}]
      OBVIOUS
    <2>3. PICK d : d = ToolDone(a, n)
      OBVIOUS
    <2>4. n \in D /\ n \in T /\ a \in A /\ f[T] = d
      BY <1>4, <1>8, <1>10, <2>1, <2>2, <2>3
    <2>5. /\ d \in A
          /\ NotDone(a.sent, ItemOf(n)) => DoneOnce(d.sent, ItemOf(n))
          /\ \A y : y # ItemOf(n) => /\ NotDone(a.sent, y) => NotDone(d.sent, y)
                                     /\ DoneOnce(a.sent, y) => DoneOnce(d.sent, y)
      BY <1>3, <2>3, <2>4
    <2>6. \A m \in D : m # n => ItemOf(m) # ItemOf(n)
      BY <1>2, <2>4 DEF ItemOf
    <2>7. ItemOf(n) # Text
      BY <1>2, <2>4 DEF ItemOf, Text
    <2>8. AllOpen(r) => ClosedUpTo(r, a, T \ {n})
      BY <1>10, <2>1, <2>2
    <2>9. AllOpen(r) => ClosedUpTo(r, d, T)
      BY <2>4, <2>5, <2>6, <2>7, <2>8 DEF ClosedUpTo, D
    <2>10. QED
      BY <2>4, <2>5, <2>9
  <1>11. {} \in Good
    BY <1>1, <1>8
  <1>12. D \in Good
    <2> HIDE DEF Good
    <2>1. QED
      BY <1>2, <1>10, <1>11, StepsStay
  <1>13. PICK d : d = ItemsDone(r)
    OBVIOUS
  <1>14. d \in A /\ (AllOpen(r) => ClosedUpTo(r, d, r.tools))
    BY <1>9, <1>12, <1>13 DEF D
  <1>15. Ongoing(d, late) /\ Same(r, d)
    BY <1>14 DEF A
  <1>16. AllOpen(r) => AllDone(d)
    <2>1. \A x \in ItemsOf(d) : \/ x = Text /\ r.text
                                \/ x - 1 \in r.tools /\ x = ItemOf(x - 1)
      BY <1>15, ItemNamed DEF Same
    <2>2. QED
      BY <1>14, <2>1 DEF ClosedUpTo, AllDone
  <1>17. QED
    BY <1>13, <1>15, <1>16

(* The response is completed.                                               *)
LEMMA ReplyCompleted ==
    ASSUME NEW r, NEW late, Ongoing(r, late), NEW d, d = Completed(r)
    PROVE  /\ Lists(d, late) /\ d.finished /\ d.pending = r.pending
           /\ ItemsOf(d) = ItemsOf(r)
           /\ \A i \in DOMAIN d.sent : d.sent[i].what = "completed" => i = Len(d.sent)
           /\ \A y : /\ NotDone(r.sent, y) => NotDone(d.sent, y)
                     /\ DoneOnce(r.sent, y) => DoneOnce(d.sent, y)
  <1>1. PICK e : e = ItemEvent("completed", Text, 0)
    OBVIOUS
  <1>2. e \in ReplyEvents /\ e.what = "completed"
    BY <1>1 DEF ReplyEvents, ItemEvent, Text
  <1>3. PICK q : q = Tell(r, e)
    OBVIOUS
  <1>4. /\ Lists(q, late) /\ Same(r, q) /\ ItemsOf(q) = ItemsOf(r)
        /\ \A i \in DOMAIN q.sent : q.sent[i].what = "completed" => i = Len(q.sent)
        /\ \A y : /\ NotDone(r.sent, y) => NotDone(q.sent, y)
                  /\ DoneOnce(r.sent, y) => DoneOnce(q.sent, y)
    BY <1>2, <1>3, OtherTold
  <1>5. d = [q EXCEPT !.finished = TRUE]
    <2>1. PICK x : x = [r EXCEPT !.finished = TRUE]
      OBVIOUS
    <2>2. r \in Replies
      BY DEF Ongoing, Lists
    <2>3. x.sent = r.sent
      BY <2>1, <2>2 DEF Replies
    <2>4. q = [r EXCEPT !.sent = Append(r.sent, e)]
      BY <1>2, <1>3 DEF Tell
    <2>5. d = [x EXCEPT !.sent = Append(r.sent, e)]
      BY <1>1, <1>2, <2>1, <2>3 DEF Completed, Tell
    <2>6. QED
      BY <2>1, <2>2, <2>4, <2>5 DEF Replies
  <1>6. q \in Replies
    BY <1>4 DEF Lists
  <1>7. d \in Replies
    BY <1>5, <1>6, Zenon DEF Replies
  <1>8. /\ d.finished /\ d.pending = q.pending /\ d.text = q.text /\ d.tools = q.tools
        /\ d.sent = q.sent
    BY <1>5, <1>6 DEF Replies
  <1>9. ItemsOf(d) = ItemsOf(q)
    BY <1>8 DEF ItemsOf
  <1>10. Lists(d, late)
    BY <1>4, <1>7, <1>8, <1>9 DEF Lists
  <1>11. QED
    BY <1>4, <1>8, <1>9, <1>10 DEF Same

(* A chunk, as far as the converter looks at it.                            *)
ReplyChunkOK(chunk) ==
    /\ chunk.calls \in Seq(ReplyCalls)
    /\ chunk.text \in BOOLEAN /\ chunk.finish \in BOOLEAN
    /\ chunk.usage \in BOOLEAN /\ chunk.choices \in BOOLEAN

(* A chunk with choices.                                                    *)
LEMMA FilledSays ==
    ASSUME ResponsesAssumption, NEW r, NEW late, Ongoing(r, late), NEW chunk,
           ReplyChunkOK(chunk), chunk.text => r.text \/ late \/ r.tools = {},
           NEW d, d = Filled(r, chunk)
    PROVE  /\ Ongoing(d, late)
           /\ ~chunk.finish => d.pending = r.pending /\ (AllOpen(r) => AllOpen(d))
           /\ chunk.finish => d.pending /\ (AllOpen(r) => AllDone(d))
  <1>1. PICK t : t = IF chunk.text THEN TextDelta(r) ELSE r
    OBVIOUS
  <1>2. Ongoing(t, late) /\ t.pending = r.pending /\ (AllOpen(r) => AllOpen(t))
    <2>1. CASE chunk.text
      BY <1>1, <2>1, TextContinues
    <2>2. CASE ~chunk.text
      BY <1>1, <2>2
    <2>3. QED
      BY <2>1, <2>2
  <1>3. PICK c : c = FoldLeft(ToolDelta, t, chunk.calls)
    OBVIOUS
  <1>4. Continues(t, c, late)
    BY <1>2, <1>3, CallsContinue DEF ReplyChunkOK
  <1>5. Ongoing(c, late) /\ c.pending = r.pending /\ (AllOpen(r) => AllOpen(c))
    BY <1>2, <1>4 DEF Continues
  <1>6. CASE ~chunk.finish
    <2>1. d = c
      BY <1>1, <1>3, <1>6 DEF Filled
    <2>2. QED
      BY <1>5, <1>6, <2>1
  <1>7. CASE chunk.finish
    <2>1. PICK e : e = ItemsDone(c)
      OBVIOUS
    <2>2. Ongoing(e, late) /\ (AllOpen(c) => AllDone(e))
      BY <1>5, <2>1, ItemsClose
    <2>3. d = [e EXCEPT !.pending = TRUE]
      BY <1>1, <1>3, <1>7, <2>1 DEF Filled
    <2>4. e \in Replies
      BY <2>2 DEF Ongoing, Lists
    <2>5. d \in Replies
      BY <2>3, <2>4, Zenon DEF Replies
    <2>6. /\ d.pending /\ d.text = e.text /\ d.tools = e.tools /\ d.sent = e.sent
          /\ d.finished = e.finished
      BY <2>3, <2>4 DEF Replies
    <2>7. ItemsOf(d) = ItemsOf(e)
      BY <2>6 DEF ItemsOf
    <2>8. Ongoing(d, late) /\ (AllDone(e) => AllDone(d))
      BY <2>2, <2>5, <2>6, <2>7 DEF Ongoing, Lists, AllDone
    <2>9. QED
      BY <1>5, <1>7, <2>2, <2>6, <2>8
  <1>8. QED
    BY <1>6, <1>7 DEF ReplyChunkOK

(* A response that is over, and what has been closed.                       *)
ReplyEnded(d, late) ==
    /\ Lists(d, late) /\ d.finished
    /\ \A i \in DOMAIN d.sent : d.sent[i].what = "completed" => i = Len(d.sent)

LEMMA UsageSays ==
    ASSUME ResponsesAssumption, NEW r, NEW late, Ongoing(r, late), NEW chunk,
           ReplyChunkOK(chunk), NEW d, d = UsageOnly(r, chunk)
    PROVE  \/ /\ ~r.pending /\ ~chunk.usage /\ d = r
           \/ /\ ReplyEnded(d, late)
              /\ r.pending /\ AllDone(r) => AllDone(d)
              /\ ~r.pending /\ AllOpen(r) => AllDone(d)
  <1>1. CASE r.pending
    <2>1. PICK q : q = [r EXCEPT !.pending = FALSE]
      OBVIOUS
    <2>2. r \in Replies
      BY DEF Ongoing, Lists
    <2>3. q \in Replies
      BY <2>1, <2>2, Zenon DEF Replies
    <2>4. /\ q.text = r.text /\ q.tools = r.tools /\ q.sent = r.sent
          /\ q.finished = r.finished
      BY <2>1, <2>2 DEF Replies
    <2>5. ItemsOf(q) = ItemsOf(r)
      BY <2>4 DEF ItemsOf
    <2>6. Ongoing(q, late)
      BY <2>3, <2>4, <2>5 DEF Ongoing, Lists
    <2>7. d = Completed(q)
      BY <1>1, <2>1 DEF UsageOnly
    <2>8. /\ ReplyEnded(d, late) /\ ItemsOf(d) = ItemsOf(q)
          /\ \A y : DoneOnce(q.sent, y) => DoneOnce(d.sent, y)
      BY <2>6, <2>7, ReplyCompleted DEF ReplyEnded
    <2>9. AllDone(r) => AllDone(d)
      BY <2>4, <2>5, <2>8 DEF AllDone
    <2>10. QED
      BY <1>1, <2>8, <2>9
  <1>2. CASE ~r.pending /\ chunk.usage
    <2>1. PICK q : q = ItemsDone(r)
      OBVIOUS
    <2>2. Ongoing(q, late) /\ (AllOpen(r) => AllDone(q))
      BY <2>1, ItemsClose
    <2>3. d = Completed(q)
      BY <1>2, <2>1 DEF UsageOnly
    <2>4. /\ ReplyEnded(d, late) /\ ItemsOf(d) = ItemsOf(q)
          /\ \A y : DoneOnce(q.sent, y) => DoneOnce(d.sent, y)
      BY <2>2, <2>3, ReplyCompleted DEF ReplyEnded
    <2>5. AllDone(q) => AllDone(d)
      BY <2>4 DEF AllDone
    <2>6. QED
      BY <1>2, <2>2, <2>4, <2>5
  <1>3. CASE ~r.pending /\ ~chunk.usage
    BY <1>3 DEF UsageOnly
  <1>4. QED
    BY <1>1, <1>2, <1>3

(* The response is created with its first chunk.                            *)
LEMMA ReplyCreated ==
    ASSUME NEW r, NEW late, Ongoing(r, late), NEW d, d = Created(r)
    PROVE  /\ Ongoing(d, late) /\ d.text = r.text /\ d.tools = r.tools /\ d.pending = r.pending
           /\ AllOpen(r) => AllOpen(d)
           /\ AllDone(r) => AllDone(d)
  <1>1. PICK q : q = [r EXCEPT !.created = TRUE]
    OBVIOUS
  <1>2. r \in Replies
    BY DEF Ongoing, Lists
  <1>3. q \in Replies
    BY <1>1, <1>2, Zenon DEF Replies
  <1>4. /\ q.text = r.text /\ q.tools = r.tools /\ q.sent = r.sent
        /\ q.finished = r.finished /\ q.pending = r.pending
    BY <1>1, <1>2 DEF Replies
  <1>5. ItemsOf(q) = ItemsOf(r)
    BY <1>4 DEF ItemsOf
  <1>6. Ongoing(q, late)
    BY <1>3, <1>4, <1>5 DEF Ongoing, Lists
  <1>7. PICK e : e = ItemEvent("created", Text, 0)
    OBVIOUS
  <1>8. e \in ReplyEvents /\ e.what = "created"
    BY <1>7 DEF ReplyEvents, ItemEvent, Text
  <1>9. d = Tell(q, e)
    BY <1>1, <1>7 DEF Created
  <1>10. /\ Lists(d, late) /\ Same(q, d) /\ ItemsOf(d) = ItemsOf(q) /\ NotOver(d.sent)
         /\ \A y : /\ NotDone(q.sent, y) => NotDone(d.sent, y)
                   /\ DoneOnce(q.sent, y) => DoneOnce(d.sent, y)
    BY <1>6, <1>8, <1>9, OtherTold
  <1>11. (AllOpen(r) => AllOpen(d)) /\ (AllDone(r) => AllDone(d))
    BY <1>4, <1>5, <1>10 DEF AllOpen, AllDone
  <1>12. QED
    BY <1>4, <1>6, <1>10, <1>11 DEF Same, Ongoing

(* A response with what has upset it: one that goes on has all its items    *)
(* open until it waits for its end, and then closed; one that is over has   *)
(* them closed, or, if upstream ended without a finish reason, the text.    *)
ReplyGoesOn(r, ups) ==
    /\ Ongoing(r, "late" \in ups)
    /\ "closed" \in ups => r.pending
    /\ "loose" \notin ups => /\ r.pending => AllDone(r)
                             /\ ~r.pending => AllOpen(r)

ReplyIsOver(r, ups) ==
    /\ ReplyEnded(r, "late" \in ups)
    /\ "loose" \notin ups /\ "broken" \notin ups =>
          \/ AllDone(r)
          \/ /\ "closed" \notin ups
             /\ \A x \in ItemsOf(r) : DoneOnce(r.sent, x) \/ (NotDone(r.sent, x) /\ x # Text)

LEMMA ReplyConverted ==
    ASSUME ResponsesAssumption, ReplyGoesOn(made, upset) \/ ReplyIsOver(made, upset),
           NEW chunk, ReplyChunkOK(chunk), ~chunk.choices => ~chunk.finish,
           NEW d, d = ConvertReply(made, chunk),
           NEW ups, ups = upset \cup Upsets(chunk)
    PROVE  ReplyGoesOn(d, ups) \/ ReplyIsOver(d, ups)
  <1>1. CASE made.finished
    <2>1. d = made
      BY <1>1 DEF ConvertReply
    <2>2. ups = upset
      BY <1>1 DEF Upsets
    <2>3. QED
      BY <2>1, <2>2
  <1>2. CASE ~made.finished
    <2>1. ReplyGoesOn(made, upset)
      BY <1>2 DEF ReplyIsOver, ReplyEnded
    <2>2. PICK late : late = ("late" \in ups)
      OBVIOUS
    <2>3. /\ "closed" \in ups <=> \/ "closed" \in upset
                                  \/ chunk.finish \/ (~chunk.choices /\ chunk.usage)
          /\ "loose" \in ups <=> "loose" \in upset \/ (chunk.choices /\ made.pending)
          /\ "late" \in ups <=> \/ "late" \in upset
                                \/ chunk.text /\ ~made.text /\ made.tools # {}
      BY <1>2 DEF Upsets
    <2>4. PICK c : c = IF made.created THEN made ELSE Created(made)
      OBVIOUS
    <2>5. /\ Ongoing(c, late) /\ c.text = made.text /\ c.tools = made.tools
          /\ c.pending = made.pending
          /\ AllOpen(made) => AllOpen(c)
          /\ AllDone(made) => AllDone(c)
      <3>1. Ongoing(made, late)
        BY <2>1, <2>2, <2>3 DEF ReplyGoesOn, Ongoing, Lists
      <3>2. CASE made.created
        BY <2>4, <3>1, <3>2
      <3>3. CASE ~made.created
        BY <2>4, <3>1, <3>3, ReplyCreated
      <3>4. QED
        BY <3>2, <3>3
    <2>6. CASE chunk.choices
      <3>1. d = Filled(c, chunk)
        BY <1>2, <2>4, <2>6 DEF ConvertReply
      <3>2. chunk.text => c.text \/ late \/ c.tools = {}
        BY <2>2, <2>3, <2>5
      <3>3. /\ Ongoing(d, late)
            /\ ~chunk.finish => d.pending = c.pending /\ (AllOpen(c) => AllOpen(d))
            /\ chunk.finish => d.pending /\ (AllOpen(c) => AllDone(d))
        BY <2>5, <3>1, <3>2, FilledSays
      <3>4. "closed" \in ups => d.pending
        BY <2>1, <2>3, <2>5, <2>6, <3>3 DEF ReplyGoesOn
      <3>5. "loose" \notin ups => (d.pending => AllDone(d)) /\ (~d.pending => AllOpen(d))
        BY <2>1, <2>3, <2>5, <2>6, <3>3 DEF ReplyGoesOn
      <3>6. ReplyGoesOn(d, ups)
        BY <2>2, <3>3, <3>4, <3>5 DEF ReplyGoesOn
      <3>7. QED
        BY <3>6
    <2>7. CASE ~chunk.choices
      <3>1. d = UsageOnly(c, chunk)
        BY <1>2, <2>4, <2>7 DEF ConvertReply
      <3>2. \/ ~c.pending /\ ~chunk.usage /\ d = c
            \/ /\ ReplyEnded(d, late)
               /\ c.pending /\ AllDone(c) => AllDone(d)
               /\ ~c.pending /\ AllOpen(c) => AllDone(d)
        BY <2>5, <3>1, UsageSays
      <3>3. CASE ~c.pending /\ ~chunk.usage /\ d = c
        <4>1. "closed" \in ups => d.pending
          BY <2>1, <2>3, <2>5, <2>7, <3>3 DEF ReplyGoesOn
        <4>2. "loose" \notin ups => (d.pending => AllDone(d)) /\ (~d.pending => AllOpen(d))
          BY <2>1, <2>3, <2>5, <2>7, <3>3 DEF ReplyGoesOn
        <4>3. ReplyGoesOn(d, ups)
          BY <2>2, <2>5, <3>3, <4>1, <4>2 DEF ReplyGoesOn
        <4>4. QED
          BY <4>3
      <3>4. CASE /\ ReplyEnded(d, late)
                 /\ c.pending /\ AllDone(c) => AllDone(d)
                 /\ ~c.pending /\ AllOpen(c) => AllDone(d)
        <4>1. "loose" \notin ups => AllDone(d)
          BY <2>1, <2>3, <2>5, <2>7, <3>4 DEF ReplyGoesOn
        <4>2. ReplyIsOver(d, ups)
          BY <2>2, <3>4, <4>1 DEF ReplyIsOver
        <4>3. QED
          BY <4>2
      <3>5. QED
        BY <3>2, <3>3, <3>4
    <2>8. QED
      BY <2>6, <2>7
  <1>3. QED
    BY <1>1, <1>2

(* Chunks of an OpenAI-like upstream.                                       *)
LEMMA ReplyChunkTyped ==
    ASSUME ResponsesAssumption, NEW chunk \in OpenAIChunks
    PROVE  ReplyChunkOK(chunk) /\ (~chunk.choices => ~chunk.finish)
  <1>1. /\ chunk.text \in BOOLEAN /\ chunk.finish \in BOOLEAN
        /\ chunk.usage \in BOOLEAN /\ chunk.choices \in BOOLEAN
        /\ ~chunk.choices => ~chunk.finish
    BY DEF OpenAIChunks
  <1>2. chunk.calls \in CallLists \/ chunk.calls = <<>>
    <2>1. PICK none : none = <<>>
      OBVIOUS
    <2>2. \/ chunk \in [text: BOOLEAN, calls: CallLists, finish: BOOLEAN,
                        usage: {FALSE}, choices: {TRUE}]
          \/ chunk \in [text: {FALSE}, calls: {none}, finish: {FALSE},
                        usage: BOOLEAN, choices: {FALSE}]
      BY <2>1, Zenon DEF OpenAIChunks
    <2>3. chunk.calls \in CallLists \/ chunk.calls = none
      BY <2>2
    <2>4. QED
      BY <2>1, <2>3
  <1>3. chunk.calls \in Seq(ReplyCalls)
    <2>1. \A calls \in CallLists : calls \in Seq(ReplyCalls)
      BY DEF ResponsesAssumption
    <2>2. <<>> \in Seq(ReplyCalls)
      OBVIOUS
    <2>3. QED
      BY <1>2, <2>1, <2>2, Zenon
  <1>4. QED
    BY <1>1, <1>3 DEF ReplyChunkOK

(* Chunks made from the events of Anthropic.                                *)
FeedOK ==
    /\ feed \in [kind: {"openai", "anthropic"}, chunks: Nat,
                 block: {"none", "text", "tool", "stopped"}, next: Nat]
    /\ feed.block = "tool" => feed.next - 1 \in ItemIndexes

LEMMA NormalizedTyped ==
    ASSUME ResponsesAssumption, FeedOK, NEW event \in AnthropicEvents(feed),
           Begins(feed, event) => feed.next \in ItemIndexes,
           NEW chunk, chunk = NormalizedChunk(feed, event)
    PROVE  ReplyChunkOK(chunk) /\ chunk.choices
  <1>1. event \in {"text_delta", "tool_use", "message_delta", "input_json_delta"}
    BY DEF AnthropicEvents
  <1>2. CASE event \in {"text_delta", "message_delta"}
    BY <1>2 DEF NormalizedChunk, ReplyChunk, ReplyChunkOK
  <1>3. CASE event = "tool_use"
    <2>1. PICK call : call = [at |-> feed.next, args |-> FALSE]
      OBVIOUS
    <2>2. call \in ReplyCalls
      BY <1>3, <2>1 DEF Begins, ReplyCalls
    <2>3. <<call>> \in Seq(ReplyCalls)
      BY <2>2
    <2>4. chunk = ReplyChunk(FALSE, <<call>>, FALSE, FALSE)
      BY <1>3, <2>1 DEF NormalizedChunk
    <2>5. QED
      BY <2>3, <2>4 DEF ReplyChunk, ReplyChunkOK
  <1>4. CASE event = "input_json_delta"
    <2>1. PICK call : call = [at |-> feed.next - 1, args |-> TRUE]
      OBVIOUS
    <2>2. feed.block = "tool"
      BY <1>4 DEF AnthropicEvents
    <2>3. call \in ReplyCalls
      BY <2>1, <2>2 DEF FeedOK, ReplyCalls
    <2>4. <<call>> \in Seq(ReplyCalls)
      BY <2>3
    <2>5. chunk = ReplyChunk(FALSE, <<call>>, FALSE, FALSE)
      BY <1>4, <2>1 DEF NormalizedChunk
    <2>6. QED
      BY <2>4, <2>5 DEF ReplyChunk, ReplyChunkOK
  <1>5. QED
    BY <1>1, <1>2, <1>3, <1>4

ReplyInv ==
    /\ ResponsesTypeOK /\ FeedOK
    /\ ReplyGoesOn(made, upset) \/ ReplyIsOver(made, upset)
    /\ reply = "calling" => ~made.finished
    /\ reply \in {"closing", "200"} => made.finished

LEMMA ReplyBegins ==
    ReplyGoesOn(NewReply, {}) /\ NewReply \in Replies /\ ~NewReply.finished
  <1>1. PICK r : r = NewReply
    OBVIOUS
  <1>2. /\ r.text = FALSE /\ r.tools = {} /\ r.sent = <<>> /\ r.finished = FALSE
        /\ r.pending = FALSE
    BY <1>1 DEF NewReply
  <1>3. r \in Replies
    <2>1. <<>> \in Seq(ReplyEvents)
      OBVIOUS
    <2>2. QED
      BY <1>1, <2>1 DEF NewReply, Replies
  <1>4. ItemsOf(r) = {}
    BY <1>2 DEF ItemsOf
  <1>5. <<>> \in Seq(ReplyEvents) /\ DOMAIN r.sent = {}
    BY <1>2
  <1>6. Listed(r.sent, ItemsOf(r)) /\ Placed(r.sent, r.text) /\ NotOver(r.sent)
    BY <1>2, <1>4, <1>5 DEF Listed, Placed, NotOver
  <1>7. IsFiniteSet(r.tools)
    BY <1>2, FS_EmptySet
  <1>8. Ongoing(r, "late" \in {})
    BY <1>2, <1>3, <1>6, <1>7 DEF Ongoing, Lists
  <1>9. AllOpen(r)
    BY <1>4 DEF AllOpen
  <1>10. QED
    BY <1>1, <1>2, <1>3, <1>8, <1>9 DEF ReplyGoesOn

(* The answer is over without more from upstream: at the end of its stream, *)
(* or, broken, where it was.                                                *)
LEMMA ReplyCut ==
    ASSUME ReplyGoesOn(made, upset), NEW d
    PROVE  /\ d = Completed(IF made.pending THEN made ELSE TextDone(made))
                 => ReplyIsOver(d, upset)
           /\ d = Completed(made) => ReplyIsOver(d, upset \cup {"broken"})
           /\ d = Completed(Created(made)) => ReplyIsOver(d, upset \cup {"broken"})
  <1>1. PICK late : late = ("late" \in upset)
    OBVIOUS
  <1>2. Ongoing(made, late)
    BY <1>1 DEF ReplyGoesOn
  <1>3. ("late" \in upset \cup {"broken"}) = late /\ "broken" \in upset \cup {"broken"}
    BY <1>1
  <1>4. ASSUME d = Completed(IF made.pending THEN made ELSE TextDone(made))
        PROVE  ReplyIsOver(d, upset)
    <2>1. CASE made.pending
      <3>1. /\ ReplyEnded(d, late) /\ ItemsOf(d) = ItemsOf(made)
            /\ \A y : DoneOnce(made.sent, y) => DoneOnce(d.sent, y)
        BY <1>2, <1>4, <2>1, ReplyCompleted DEF ReplyEnded
      <3>2. "loose" \notin upset => AllDone(d)
        BY <2>1, <3>1 DEF ReplyGoesOn, AllDone
      <3>3. QED
        BY <1>1, <3>1, <3>2 DEF ReplyIsOver
    <2>2. CASE ~made.pending
      <3>1. PICK t : t = TextDone(made)
        OBVIOUS
      <3>2. /\ Ongoing(t, late) /\ Same(made, t)
            /\ made.text /\ NotDone(made.sent, Text) => DoneOnce(t.sent, Text)
            /\ \A y : y # Text => (NotDone(made.sent, y) => NotDone(t.sent, y))
        BY <1>2, <3>1, TextCloses
      <3>3. d = Completed(t)
        BY <1>4, <2>2, <3>1
      <3>4. /\ ReplyEnded(d, late) /\ ItemsOf(d) = ItemsOf(t)
            /\ \A y : /\ NotDone(t.sent, y) => NotDone(d.sent, y)
                      /\ DoneOnce(t.sent, y) => DoneOnce(d.sent, y)
        BY <3>2, <3>3, ReplyCompleted DEF ReplyEnded
      <3>5. ItemsOf(t) = ItemsOf(made) /\ (Text \in ItemsOf(made) => made.text)
        BY <3>2 DEF ItemsOf, Same
      <3>6. "loose" \notin upset => "closed" \notin upset /\ AllOpen(made)
        BY <2>2 DEF ReplyGoesOn
      <3>7. "loose" \notin upset =>
               \A x \in ItemsOf(d) : DoneOnce(d.sent, x) \/ (NotDone(d.sent, x) /\ x # Text)
        BY <3>2, <3>4, <3>5, <3>6 DEF AllOpen
      <3>8. QED
        BY <1>1, <3>4, <3>6, <3>7 DEF ReplyIsOver
    <2>3. QED
      BY <2>1, <2>2
  <1>5. d = Completed(made) => ReplyIsOver(d, upset \cup {"broken"})
    <2>1. d = Completed(made) => ReplyEnded(d, late)
      BY <1>2, ReplyCompleted DEF ReplyEnded
    <2>2. QED
      BY <1>3, <2>1 DEF ReplyIsOver
  <1>6. d = Completed(Created(made)) => ReplyIsOver(d, upset \cup {"broken"})
    <2>1. PICK c : c = Created(made)
      OBVIOUS
    <2>2. Ongoing(c, late)
      BY <1>2, <2>1, ReplyCreated
    <2>3. d = Completed(c) => ReplyEnded(d, late)
      BY <2>2, ReplyCompleted DEF ReplyEnded
    <2>4. QED
      BY <1>3, <2>1, <2>3 DEF ReplyIsOver
  <1>7. QED
    BY <1>4, <1>5, <1>6

(* What a client reads of a response: its items, and when they are over.    *)
LEMMA PlaceRead ==
    ASSUME Lists(made, FALSE), NEW x \in ItemsOf(made)
    PROVE  Place(made, x) = IF x = Text THEN 0 ELSE (IF made.text THEN 1 ELSE 0) + (x - 1)
  <1> DEFINE added == {i \in DOMAIN made.sent : made.sent[i].what = "added"
                                                /\ made.sent[i].item = x}
  <1>1. added # {}
    <2>1. \E a \in DOMAIN made.sent : IsTold(made.sent, a, "added", x)
      BY DEF Lists, Listed
    <2>2. QED
      BY <2>1 DEF IsTold
  <1>2. PICK i : i = CHOOSE j \in added : TRUE
    OBVIOUS
  <1>3. i \in added
    BY <1>1, <1>2
  <1>4. Place(made, x) = made.sent[i].at
    BY <1>1, <1>2 DEF Place
  <1>5. Placed(made.sent, made.text)
    BY DEF Lists
  <1>6. QED
    BY <1>3, <1>4, <1>5 DEF Placed

LEMMA ItemsRead ==
    ASSUME NEW late, Lists(made, late), NEW x \in ItemsTold
    PROVE  /\ x \in ItemsOf(made)
           /\ Cardinality(EventsOf("added", x)) = 1
           /\ \A a \in EventsOf("added", x), d \in EventsOf("delta", x) : a < d
           /\ DoneOnce(made.sent, x) =>
                 /\ Cardinality(EventsOf("done", x)) = 1
                 /\ \A d \in EventsOf("delta", x), e \in EventsOf("done", x) : d < e
           /\ NotDone(made.sent, x) => EventsOf("done", x) = {}
  <1>1. x \in ItemsOf(made)
    BY DEF ItemsTold, Lists, Listed
  <1>2. \A what, i : i \in EventsOf(what, x) <=> IsTold(made.sent, i, what, x)
    BY DEF EventsOf, IsTold
  <1>3. PICK a \in DOMAIN made.sent : /\ IsTold(made.sent, a, "added", x)
                                      /\ \A i : IsTold(made.sent, i, "added", x) => i = a
                                      /\ \A i : IsTold(made.sent, i, "delta", x) => a < i
    BY <1>1 DEF Lists, Listed
  <1>4. EventsOf("added", x) = {a}
    BY <1>2, <1>3, Zenon
  <1>5. Cardinality(EventsOf("added", x)) = 1
    BY <1>4, FS_Singleton
  <1>6. \A b \in EventsOf("added", x), d \in EventsOf("delta", x) : b < d
    BY <1>2, <1>3
  <1>7. ASSUME DoneOnce(made.sent, x)
        PROVE  /\ Cardinality(EventsOf("done", x)) = 1
               /\ \A d \in EventsOf("delta", x), e \in EventsOf("done", x) : d < e
    <2>1. PICK e \in DOMAIN made.sent : /\ IsTold(made.sent, e, "done", x)
                                        /\ \A i : IsTold(made.sent, i, "done", x) => i = e
                                        /\ \A i : IsTold(made.sent, i, "delta", x) => i < e
      BY <1>7 DEF DoneOnce
    <2>2. EventsOf("done", x) = {e}
      BY <1>2, <2>1, Zenon
    <2>3. Cardinality(EventsOf("done", x)) = 1
      BY <2>2, FS_Singleton
    <2>4. \A d \in EventsOf("delta", x), f \in EventsOf("done", x) : d < f
      BY <1>2, <2>1
    <2>5. QED
      BY <2>3, <2>4
  <1>8. NotDone(made.sent, x) => EventsOf("done", x) = {}
    BY <1>2 DEF NotDone
  <1>9. QED
    BY <1>1, <1>5, <1>6, <1>7, <1>8

(* For any chunks, calls and order of events: a client of the Responses API *)
(* has each item added once and closed, and nothing after the end.          *)
THEOREM ItemsAreCompleted ==
    ASSUME ResponsesAssumption
    PROVE  ResponsesSpec => [](ResponsesTypeOK /\ ItemsCompleted)
  <1>1. ResponsesInit => ReplyInv
    <2> SUFFICES ASSUME ResponsesInit PROVE ReplyInv
      OBVIOUS
    <2>1. made = NewReply /\ reply = "calling" /\ upset = {}
      BY DEF ResponsesInit
    <2>2. FeedOK
      BY DEF ResponsesInit, FeedOK
    <2>3. ResponsesTypeOK
      BY <2>1, ReplyBegins DEF ResponsesTypeOK
    <2>4. ReplyGoesOn(made, upset) /\ ~made.finished
      BY <2>1, ReplyBegins
    <2>5. QED
      BY <2>1, <2>2, <2>3, <2>4 DEF ReplyInv
  <1>2. ReplyInv /\ [NextResponsesStream]_responsesVars => ReplyInv'
    <2> SUFFICES ASSUME ReplyInv, [NextResponsesStream]_responsesVars
                 PROVE  ReplyInv'
      OBVIOUS
    <2>1. /\ ReplyGoesOn(made, upset) \/ ReplyIsOver(made, upset)
          /\ FeedOK /\ upset \subseteq {"closed", "loose", "late", "broken"}
      BY DEF ReplyInv, ResponsesTypeOK
    <2>2. \A r, ups : ReplyGoesOn(r, ups) \/ ReplyIsOver(r, ups) => r \in Replies
      BY DEF ReplyGoesOn, ReplyIsOver, ReplyEnded, Ongoing, Lists
    <2>3. \A r, ups : /\ ReplyGoesOn(r, ups) => ~r.finished
                      /\ ReplyIsOver(r, ups) => r.finished
      BY DEF ReplyGoesOn, ReplyIsOver, ReplyEnded, Ongoing
    <2>4. ASSUME NEW chunk, ReplyChunkOK(chunk), ~chunk.choices => ~chunk.finish,
                 Takes(chunk), FeedOK'
          PROVE  ReplyInv'
      <3>1. PICK d : d = ConvertReply(made, chunk)
        OBVIOUS
      <3>2. PICK ups : ups = upset \cup Upsets(chunk)
        OBVIOUS
      <3>3. ReplyGoesOn(d, ups) \/ ReplyIsOver(d, ups)
        BY <2>1, <2>4, <3>1, <3>2, ReplyConverted
      <3>4. made' = d /\ upset' = ups /\ reply' = reply /\ reply = "streaming"
        BY <2>4, <3>1, <3>2 DEF Takes
      <3>5. ups \subseteq {"closed", "loose", "late", "broken"}
        BY <2>1, <3>2 DEF Upsets
      <3>6. QED
        BY <2>2, <2>4, <3>3, <3>4, <3>5 DEF ReplyInv, ResponsesTypeOK
    <2>5. ASSUME NEW chunk \in OpenAIChunks, OpenAIChunk(chunk)
          PROVE  ReplyInv'
      <3>1. feed' = [feed EXCEPT !.chunks = @ + 1] /\ Takes(chunk)
        BY <2>5 DEF OpenAIChunk
      <3>2. FeedOK'
        BY <2>1, <3>1 DEF FeedOK
      <3>3. QED
        BY <2>4, <3>1, <3>2, ReplyChunkTyped
    <2>6. ASSUME NEW event \in AnthropicEvents(feed), AnthropicEvent(event)
          PROVE  ReplyInv'
      <3>1. PICK chunk : chunk = NormalizedChunk(feed, event)
        OBVIOUS
      <3>2. Takes(chunk) /\ (Begins(feed, event) => feed.next \in ItemIndexes)
        BY <2>6, <3>1 DEF AnthropicEvent
      <3>3. ReplyChunkOK(chunk) /\ chunk.choices
        BY <2>1, <3>1, <3>2, NormalizedTyped
      <3>4. FeedOK'
        <4>1. PICK k : k = IF event = "text_delta" THEN "text"
                           ELSE IF event = "message_delta" THEN "stopped" ELSE "tool"
          OBVIOUS
        <4>2. PICK n : n = IF Begins(feed, event) THEN feed.next + 1 ELSE feed.next
          OBVIOUS
        <4>3. feed' = [feed EXCEPT !.chunks = @ + 1, !.block = k, !.next = n]
          BY <2>6, <4>1, <4>2 DEF AnthropicEvent
        <4>4. /\ feed'.block = k /\ feed'.next = n
              /\ feed' \in [kind: {"openai", "anthropic"}, chunks: Nat,
                            block: {"none", "text", "tool", "stopped"}, next: Nat]
          <5>1. PICK c : c = feed.chunks + 1
            OBVIOUS
          <5>2. feed' = [feed EXCEPT !.chunks = c, !.block = k, !.next = n]
            BY <4>3, <5>1
          <5>3. c \in Nat /\ n \in Nat /\ k \in {"none", "text", "tool", "stopped"}
            BY <2>1, <4>1, <4>2, <5>1 DEF FeedOK
          <5>4. feed' \in [kind: {"openai", "anthropic"}, chunks: Nat,
                           block: {"none", "text", "tool", "stopped"}, next: Nat]
            BY <2>1, <5>2, <5>3, Zenon DEF FeedOK
          <5>5. QED
            BY <2>1, <5>2, <5>4 DEF FeedOK
        <4>5. event \in {"text_delta", "tool_use", "message_delta", "input_json_delta"}
          BY DEF AnthropicEvents
        <4>6. event = "tool_use" => n - 1 \in ItemIndexes
          BY <2>1, <3>2, <4>2 DEF Begins, FeedOK
        <4>7. event = "input_json_delta" => n - 1 \in ItemIndexes
          <5>1. event = "input_json_delta" => feed.block = "tool"
            BY DEF AnthropicEvents
          <5>2. event = "input_json_delta" => ~Begins(feed, event)
            BY DEF Begins
          <5>3. QED
            BY <2>1, <4>2, <5>1, <5>2 DEF FeedOK
        <4>8. QED
          BY <4>1, <4>4, <4>5, <4>6, <4>7 DEF FeedOK
      <3>5. QED
        BY <2>4, <3>2, <3>3, <3>4
    <2>7. CASE UpstreamRefuses
      <3>1. ReplyGoesOn(made, upset)
        BY <2>1, <2>3, <2>7 DEF UpstreamRefuses, ReplyInv
      <3>2. PICK d : d = Completed(Created(made))
        OBVIOUS
      <3>3. ReplyIsOver(d, upset \cup {"broken"})
        BY <3>1, <3>2, ReplyCut
      <3>4. /\ made' = d /\ upset' = upset \cup {"broken"} /\ reply' = "502"
            /\ feed' = feed
        BY <2>7, <3>2 DEF UpstreamRefuses
      <3>5. QED
        BY <2>1, <2>2, <3>3, <3>4 DEF ReplyInv, ResponsesTypeOK, FeedOK
    <2>8. CASE FeedEnds
      <3>1. PICK d : d = IF made.finished THEN made
                         ELSE Completed(IF made.pending THEN made ELSE TextDone(made))
        OBVIOUS
      <3>2. ReplyIsOver(d, upset)
        BY <2>1, <2>3, <3>1, ReplyCut
      <3>3. made' = d /\ upset' = upset /\ reply' = "closing" /\ feed' = feed
        BY <2>8, <3>1 DEF FeedEnds
      <3>4. QED
        BY <2>1, <2>2, <2>3, <3>2, <3>3 DEF ReplyInv, ResponsesTypeOK, FeedOK
    <2>9. CASE FeedBreaks
      <3>1. PICK d : d = IF made.finished THEN made ELSE Completed(made)
        OBVIOUS
      <3>2. ReplyIsOver(d, upset \cup {"broken"})
        <4>1. CASE made.finished
          <5>1. ReplyIsOver(made, upset)
            BY <2>1, <2>3, <4>1
          <5>2. ("late" \in upset \cup {"broken"}) = ("late" \in upset)
            OBVIOUS
          <5>3. QED
            BY <3>1, <4>1, <5>1, <5>2 DEF ReplyIsOver
        <4>2. CASE ~made.finished
          BY <2>1, <2>3, <3>1, <4>2, ReplyCut
        <4>3. QED
          BY <4>1, <4>2
      <3>3. /\ made' = d /\ upset' = upset \cup {"broken"} /\ reply' = "502"
            /\ feed' = feed
        BY <2>9, <3>1 DEF FeedBreaks
      <3>4. QED
        BY <2>1, <2>2, <3>2, <3>3 DEF ReplyInv, ResponsesTypeOK, FeedOK
    <2>10. CASE StreamBegins \/ LogReply \/ ReaderGoes \/ UNCHANGED responsesVars
      <3>1. /\ made' = made /\ upset' = upset /\ feed' = feed
            /\ reply' \in {"streaming", "200", "499", reply}
            /\ reply' = "200" => reply \in {"closing", "200"}
            /\ reply' = "calling" \/ reply' = "closing" => reply = reply'
        BY <2>10 DEF StreamBegins, LogReply, ReaderGoes, responsesVars
      <3>2. QED
        BY <3>1 DEF ReplyInv, ResponsesTypeOK, FeedOK
    <2>11. QED
      BY <2>5, <2>6, <2>7, <2>8, <2>9, <2>10 DEF NextResponsesStream
  <1>3. ReplyInv => ResponsesTypeOK /\ ItemsCompleted
    <2> SUFFICES ASSUME ReplyInv PROVE ItemsCompleted
      BY DEF ReplyInv
    <2>1. PICK late : late = ("late" \in upset)
      OBVIOUS
    <2>2. /\ Ongoing(made, late) \/ ReplyEnded(made, late)
          /\ Lists(made, late)
      BY <2>1 DEF ReplyInv, ReplyGoesOn, ReplyIsOver, Ongoing, ReplyEnded
    <2>3. \A i \in EventsOf("completed", Text) : i = Len(made.sent)
      BY <2>2 DEF Ongoing, ReplyEnded, NotOver, EventsOf
    <2>4. reply = "200" => made.finished
      BY DEF ReplyInv
    <2>5. ASSUME NEW item \in ItemsTold
          PROVE  /\ Cardinality(EventsOf("added", item)) = 1
                 /\ \A a \in EventsOf("added", item), d \in EventsOf("delta", item) : a < d
                 /\ made.finished /\ upset \cap {"loose", "broken"} = {} =>
                       /\ item = Text \/ "closed" \in upset =>
                             Cardinality(EventsOf("done", item)) = 1
                       /\ \A d \in EventsOf("delta", item), e \in EventsOf("done", item) : d < e
      <3>1. /\ item \in ItemsOf(made)
            /\ Cardinality(EventsOf("added", item)) = 1
            /\ \A a \in EventsOf("added", item), d \in EventsOf("delta", item) : a < d
            /\ DoneOnce(made.sent, item) =>
                  /\ Cardinality(EventsOf("done", item)) = 1
                  /\ \A d \in EventsOf("delta", item), e \in EventsOf("done", item) : d < e
            /\ NotDone(made.sent, item) => EventsOf("done", item) = {}
        BY <2>2, ItemsRead
      <3>2. made.finished /\ upset \cap {"loose", "broken"} = {} =>
               \/ DoneOnce(made.sent, item)
               \/ "closed" \notin upset /\ NotDone(made.sent, item) /\ item # Text
        <4>1. made.finished => ReplyIsOver(made, upset)
          BY DEF ReplyInv, ReplyGoesOn, Ongoing
        <4>2. QED
          BY <3>1, <4>1 DEF ReplyIsOver, AllDone
      <3>3. QED
        BY <3>1, <3>2
    <2>6. "late" \notin upset =>
             \A x, y \in ItemsTold : Place(made, x) = Place(made, y) => x = y
      <3>1. SUFFICES ASSUME "late" \notin upset, NEW x \in ItemsTold, NEW y \in ItemsTold,
                            Place(made, x) = Place(made, y)
                     PROVE  x = y
        OBVIOUS
      <3>2. Lists(made, FALSE)
        BY <2>1, <2>2, <3>1 DEF Lists
      <3>3. x \in ItemsOf(made) /\ y \in ItemsOf(made)
        BY <2>2, ItemsRead
      <3>4. /\ Place(made, x) = IF x = Text THEN 0 ELSE (IF made.text THEN 1 ELSE 0) + (x - 1)
            /\ Place(made, y) = IF y = Text THEN 0 ELSE (IF made.text THEN 1 ELSE 0) + (y - 1)
        BY <3>2, <3>3, PlaceRead
      <3>5. /\ x \in Nat /\ (x = Text => made.text)
            /\ y \in Nat /\ (y = Text => made.text)
        BY <3>3 DEF ItemsOf
      <3>6. CASE made.text
        <4>1. Place(made, x) = x /\ Place(made, y) = y
          BY <3>4, <3>5, <3>6 DEF Text
        <4>2. QED
          BY <3>1, <4>1
      <3>7. CASE ~made.text
        <4>1. Place(made, x) = x - 1 /\ Place(made, y) = y - 1
          BY <3>4, <3>5, <3>7 DEF Text
        <4>2. x - 1 = y - 1
          BY <3>1, <4>1
        <4>3. QED
          BY <3>5, <4>2
      <3>8. QED
        BY <3>6, <3>7
    <2>7. QED
      BY <2>3, <2>4, <2>5, <2>6 DEF ItemsCompleted
  <1>4. QED
    BY <1>1, <1>2, <1>3, PTL DEF ResponsesSpec

-----------------------------------------------------------------------------
(* Pages of a list (Reports). *)

(* A row, and whose pages are turned. *)
Statuses == {"open", "ok", "failed", "aborted"}
RowType == [at : Nat, status : Statuses, invalid : BOOLEAN, named : CalledNames,
            chosen : CalledNames, cost : Nat, tokens : Nat,
            score : Nat \cup {None}, latency : Nat \cup {None}]
ListNames == {"logs", "succeeded", "users"}

ReportsTypeOK ==
    /\ rows \in Seq(RowType) /\ joined \in Seq(Nat) /\ present \in Nat
    /\ turning.list \in ListNames \cup {"none"} /\ turning.page \in Nat /\ turning.over \in BOOLEAN
    /\ turning.list = "none" => turning = Unturned
    /\ turning.list # "none" => turning.meant \subseteq Entries(turning.list)

(* The entries that come before one, and whether its second is its own.     *)
Ahead(list, i) == {j \in Entries(list) : Precedes(list, j, i)}
SecondIsOwn(list, i) == list # "users" => \A j \in DOMAIN rows \ {i} : rows[j].at # rows[i].at

(* What was meant to be seen and is not yet still stands behind as many     *)
(* entries as have been turned.                                             *)
UnseenIsAhead ==
    \A i \in turning.meant \ turning.shown :
        SecondIsOwn(turning.list, i) =>
            /\ ~turning.over
            /\ turning.page * PageSize <= Cardinality(Ahead(turning.list, i))

PagesInv == ReportsTypeOK /\ UnseenIsAhead

LEMMA RowIsTyped ==
    ASSUME ReportsAssumption, NEW at \in Nat
    PROVE  /\ Row(at, InFlight) \in RowType
           /\ \A kind \in Reported : Row(at, kind) \in RowType
  <1>1. None \in Nat \cup {None} /\ 0 \in Nat
    OBVIOUS
  <1>2. Row(at, InFlight) \in RowType
    <2>1. Row(at, InFlight) =
            [at |-> at, status |-> "open", invalid |-> FALSE, named |-> Named,
             chosen |-> "none", cost |-> 0, tokens |-> 0, score |-> None, latency |-> None]
      BY DEF Row, InFlight
    <2>2. /\ Named \in CalledNames /\ "none" \in CalledNames
          /\ "open" \in Statuses /\ FALSE \in BOOLEAN
      BY Zenon DEF ReportsAssumption, Statuses
    <2>3. QED
      BY <1>1, <2>1, <2>2, SMT DEF RowType
  <1>3. ASSUME NEW kind \in Reported
        PROVE  Row(at, kind) \in RowType
    <2>1. kind \in [status : {"ok", "failed", "aborted"}, invalid : BOOLEAN,
                    named : CalledNames, chosen : CalledNames, cost : Nat, tokens : Nat,
                    score : Nat \cup {None}, latency : Nat \cup {None}]
      BY DEF ReportsAssumption
    <2>2. QED
      BY <2>1 DEF Row, RowType, Statuses
  <1>4. QED
    BY <1>2, <1>3

LEMMA ReportsInitially ==
    ASSUME ReportsAssumption, ReportsInit
    PROVE  PagesInv
  <1>1. turning.meant = {} /\ turning.list = "none" /\ turning.page = 0 /\ turning.over = FALSE
    BY DEF ReportsInit, Unturned
  <1>2. rows \in Seq(RowType) /\ joined \in Seq(Nat) /\ present \in Nat
    BY DEF ReportsInit
  <1>3. turning = Unturned
    BY DEF ReportsInit
  <1>4. turning.list # "none" => turning.meant \subseteq Entries(turning.list)
    BY <1>1
  <1>5. ReportsTypeOK
    <2>1. turning.over \in BOOLEAN
      BY <1>1, Zenon
    <2>2. turning.list \in ListNames \cup {"none"} /\ turning.page \in Nat
      BY <1>1
    <2>3. QED
      BY <2>1, <2>2, <1>2, <1>3, <1>4, Zenon DEF ReportsTypeOK
  <1>6. UnseenIsAhead
    BY <1>1 DEF UnseenIsAhead
  <1>7. QED
    BY <1>5, <1>6 DEF PagesInv

(* The entries of a list are finitely many numbers, each with a stamp.      *)
LEMMA EntriesKnown ==
    ASSUME rows \in Seq(RowType), joined \in Seq(Nat), NEW list \in ListNames
    PROVE  /\ IsFiniteSet(Entries(list)) /\ Entries(list) \subseteq Nat
           /\ \A i \in Entries(list) : StampOf(list, i) \in Nat
           /\ list # "users" => Entries(list) \subseteq DOMAIN rows
  <1>1. DOMAIN rows = 1..Len(rows) /\ Len(rows) \in Nat
        /\ DOMAIN joined = 1..Len(joined) /\ Len(joined) \in Nat
    OBVIOUS
  <1>2. IsFiniteSet(DOMAIN rows) /\ IsFiniteSet(DOMAIN joined)
    BY <1>1, FS_Interval
  <1>3. /\ \A i \in DOMAIN rows : rows[i] \in RowType
        /\ \A i \in DOMAIN joined : joined[i] \in Nat
    OBVIOUS
  <1>4. \A i \in DOMAIN rows : rows[i].at \in Nat
    BY <1>3 DEF RowType
  <1>5. CASE list = "users"
    <2>1. Entries(list) = DOMAIN joined
      BY <1>5 DEF Entries
    <2>2. QED
      BY <1>1, <1>2, <1>3, <1>5, <2>1 DEF StampOf
  <1>6. CASE list # "users"
    <2>1. Entries(list) \subseteq DOMAIN rows
      BY <1>6 DEF Entries, All, Succeeded, ListNames
    <2>2. IsFiniteSet(Entries(list))
      BY <1>2, <2>1, FS_Subset
    <2>3. QED
      BY <1>1, <1>4, <1>6, <2>1, <2>2 DEF StampOf
  <1>7. QED
    BY <1>5, <1>6

(* While no page is turned, the entries of the list that is turned only     *)
(* grow, and their stamps stay.                                             *)
Additions(list) ==
    /\ Entries(list) \subseteq Entries(list)'
    /\ \A i, j \in Entries(list) : Precedes(list, i, j) => Precedes(list, i, j)'
    /\ \A i \in Entries(list) : SecondIsOwn(list, i)' => SecondIsOwn(list, i)

LEMMA AdditionsKeep ==
    ASSUME ReportsAssumption, PagesInv, ReportsTypeOK', UNCHANGED turning,
           NEW list \in ListNames, turning.list = list, Additions(list)
    PROVE  UnseenIsAhead'
  <1>1. SUFFICES ASSUME NEW i \in turning.meant \ turning.shown, SecondIsOwn(list, i)'
        PROVE  /\ ~turning.over
               /\ turning.page * PageSize <= Cardinality(Ahead(list, i)')
    BY DEF UnseenIsAhead, Ahead
  <1>2. i \in Entries(list)
    BY DEF PagesInv, ReportsTypeOK, ListNames
  <1>3. SecondIsOwn(list, i)
    BY <1>1, <1>2 DEF Additions
  <1>4. ~turning.over /\ turning.page * PageSize <= Cardinality(Ahead(list, i))
    BY <1>3 DEF PagesInv, UnseenIsAhead
  <1>5. Ahead(list, i) \subseteq Ahead(list, i)'
    BY <1>2 DEF Additions, Ahead
  <1>6. IsFiniteSet(Entries(list)')
    <2>1. /\ IsFiniteSet(1..Len(rows')) /\ IsFiniteSet(1..Len(joined'))
          /\ DOMAIN rows' = 1..Len(rows') /\ DOMAIN joined' = 1..Len(joined')
      <3>1. rows' \in Seq(RowType) /\ joined' \in Seq(Nat)
        BY DEF ReportsTypeOK
      <3>2. Len(rows') \in Nat /\ Len(joined') \in Nat
        BY <3>1
      <3>3. QED
        BY <3>1, <3>2, FS_Interval
    <2>2. Entries(list)' \subseteq DOMAIN rows' \/ Entries(list)' = DOMAIN joined'
      BY DEF Entries, All, Succeeded, ListNames
    <2>3. QED
      BY <2>1, <2>2, FS_Subset
  <1>7. /\ Cardinality(Ahead(list, i)) \in Nat /\ Cardinality(Ahead(list, i)') \in Nat
        /\ Cardinality(Ahead(list, i)) <= Cardinality(Ahead(list, i)')
    <2>1. Ahead(list, i)' \subseteq Entries(list)'
      BY DEF Ahead
    <2>2. IsFiniteSet(Ahead(list, i)')
      BY <1>6, <2>1, FS_Subset
    <2>3. IsFiniteSet(Ahead(list, i))
      BY <1>5, <2>2, FS_Subset
    <2>4. QED
      BY <1>5, <2>2, <2>3, FS_Subset, FS_CardinalityType
  <1>8. turning.page * PageSize \in Int
    BY DEF PagesInv, ReportsTypeOK, ReportsAssumption
  <1>9. QED
    BY <1>4, <1>7, <1>8

(* A list nobody has begun to turn has nothing awaited. *)
LEMMA NothingUnseen ==
    ASSUME turning' = Unturned
    PROVE  UnseenIsAhead'
  <1>1. turning'.meant = {}
    BY DEF Unturned
  <1>2. QED
    BY <1>1 DEF UnseenIsAhead

LEMMA OpenRowAdds ==
    ASSUME ReportsAssumption, PagesInv, NEW at \in Moments \cup {0}, OpenRow(at),
           NEW list \in ListNames
    PROVE  Additions(list) /\ rows' \in Seq(RowType)
  <1>1. rows \in Seq(RowType) /\ joined \in Seq(Nat) /\ at \in Nat
    BY DEF PagesInv, ReportsTypeOK, ReportsAssumption
  <1>2. PICK new \in RowType : /\ new = Row(at, InFlight) /\ rows' = Append(rows, new)
    BY <1>1, RowIsTyped DEF OpenRow
  <1>3. new.status = "open"
    BY <1>2 DEF Row, InFlight
  <1>4. /\ rows' \in Seq(RowType) /\ Len(rows) \in Nat
        /\ DOMAIN rows = 1..Len(rows) /\ DOMAIN rows' = 1..(Len(rows) + 1)
        /\ \A i \in DOMAIN rows : rows'[i] = rows[i]
        /\ rows'[Len(rows) + 1] = new
    BY <1>1, <1>2
  <1>5. DOMAIN rows \subseteq DOMAIN rows' /\ joined' = joined
    BY <1>4 DEF OpenRow
  <1>6. Entries(list) \subseteq Entries(list)'
    <2>1. CASE list = "users"
      BY <1>5, <2>1 DEF Entries
    <2>2. CASE list = "logs"
      BY <1>5, <2>2 DEF Entries, All
    <2>3. CASE list = "succeeded"
      BY <1>4, <1>5, <2>3 DEF Entries, All, Succeeded
    <2>4. QED
      BY <2>1, <2>2, <2>3 DEF ListNames
  <1>7. \A i \in Entries(list) : StampOf(list, i)' = StampOf(list, i)
    BY <1>1, <1>4, <1>5, EntriesKnown DEF StampOf
  <1>8. \A i, j \in Entries(list) : Precedes(list, i, j) => Precedes(list, i, j)'
    BY <1>7 DEF Precedes
  <1>9. \A i \in Entries(list) : SecondIsOwn(list, i)' => SecondIsOwn(list, i)
    BY <1>1, <1>4, <1>5, EntriesKnown DEF SecondIsOwn
  <1>10. QED
    BY <1>4, <1>6, <1>8, <1>9 DEF Additions

LEMMA SettleRowAdds ==
    ASSUME ReportsAssumption, PagesInv, NEW k \in DOMAIN rows, NEW kind \in Reported,
           SettleRow(k, kind), NEW list \in ListNames
    PROVE  Additions(list) /\ rows' \in Seq(RowType)
  <1>1. rows \in Seq(RowType) /\ joined \in Seq(Nat)
    BY DEF PagesInv, ReportsTypeOK
  <1>2. rows[k].at \in Nat /\ rows[k].status = "open"
    <2>1. rows[k] \in RowType
      BY <1>1
    <2>2. QED
      BY <2>1 DEF RowType, SettleRow
  <1>3. PICK new \in RowType : new = Row(rows[k].at, kind) /\ rows' = [rows EXCEPT ![k] = new]
    BY <1>2, RowIsTyped DEF SettleRow
  <1>4. new.at = rows[k].at
    BY <1>3 DEF Row
  <1>5. /\ rows' \in Seq(RowType) /\ DOMAIN rows' = DOMAIN rows /\ joined' = joined
        /\ \A i \in DOMAIN rows : i # k => rows'[i] = rows[i]
        /\ \A i \in DOMAIN rows : rows'[i].at = rows[i].at
    BY <1>1, <1>3, <1>4 DEF SettleRow
  <1>6. Entries(list) \subseteq Entries(list)'
    <2>1. CASE list = "users"
      BY <1>5, <2>1 DEF Entries
    <2>2. CASE list = "logs"
      BY <1>5, <2>2 DEF Entries, All
    <2>3. CASE list = "succeeded"
      BY <1>2, <1>5, <2>3 DEF Entries, All, Succeeded
    <2>4. QED
      BY <2>1, <2>2, <2>3 DEF ListNames
  <1>7. \A i \in Entries(list) : StampOf(list, i)' = StampOf(list, i)
    BY <1>1, <1>5, EntriesKnown DEF StampOf
  <1>8. \A i, j \in Entries(list) : Precedes(list, i, j) => Precedes(list, i, j)'
    BY <1>7 DEF Precedes
  <1>9. \A i \in Entries(list) : SecondIsOwn(list, i)' => SecondIsOwn(list, i)
    BY <1>1, <1>5, EntriesKnown DEF SecondIsOwn
  <1>10. QED
    BY <1>5, <1>6, <1>8, <1>9 DEF Additions

LEMMA RegisterAdds ==
    ASSUME PagesInv, Register, NEW list \in ListNames
    PROVE  Additions(list) /\ joined' \in Seq(Nat)
  <1>1. rows \in Seq(RowType) /\ joined \in Seq(Nat) /\ present \in Nat /\ rows' = rows
    BY DEF PagesInv, ReportsTypeOK, Register
  <1>2. /\ joined' \in Seq(Nat) /\ DOMAIN joined \subseteq DOMAIN joined'
        /\ \A i \in DOMAIN joined : joined'[i] = joined[i]
    BY <1>1 DEF Register
  <1>3. Entries(list) \subseteq Entries(list)'
    <2>1. CASE list = "users"
      BY <1>2, <2>1 DEF Entries
    <2>2. CASE list = "logs"
      BY <1>1, <2>2 DEF Entries, All
    <2>3. CASE list = "succeeded"
      BY <1>1, <2>3 DEF Entries, All, Succeeded
    <2>4. QED
      BY <2>1, <2>2, <2>3 DEF ListNames
  <1>4. \A i \in Entries(list) : StampOf(list, i)' = StampOf(list, i)
    <2>1. CASE list = "users"
      BY <1>2, <2>1 DEF StampOf, Entries
    <2>2. CASE list # "users"
      BY <1>1, <2>2 DEF StampOf
    <2>3. QED
      BY <2>1, <2>2
  <1>5. \A i, j \in Entries(list) : Precedes(list, i, j) => Precedes(list, i, j)'
    BY <1>4 DEF Precedes
  <1>6. \A i \in Entries(list) : SecondIsOwn(list, i)' => SecondIsOwn(list, i)
    BY <1>1 DEF SecondIsOwn
  <1>7. QED
    BY <1>2, <1>3, <1>5, <1>6 DEF Additions

(* What is added keeps everything awaited, whichever list is turned.        *)
LEMMA AddingStep ==
    ASSUME ReportsAssumption, PagesInv, UNCHANGED turning,
           rows' \in Seq(RowType), joined' \in Seq(Nat), present' \in Nat,
           \A list \in ListNames : Additions(list)
    PROVE  PagesInv'
  <1>1. CASE turning.list = "none"
    <2>1. turning = Unturned
      BY <1>1 DEF PagesInv, ReportsTypeOK
    <2>2. UnseenIsAhead'
      BY <2>1, NothingUnseen
    <2>3. ReportsTypeOK'
      BY <1>1, <2>1 DEF PagesInv, ReportsTypeOK
    <2>4. QED
      BY <2>2, <2>3 DEF PagesInv
  <1>2. CASE turning.list # "none"
    <2>1. PICK list \in ListNames : turning.list = list
      BY <1>2 DEF PagesInv, ReportsTypeOK
    <2>2. turning.meant \subseteq Entries(list)
      BY <1>2, <2>1 DEF PagesInv, ReportsTypeOK
    <2>3. turning.meant \subseteq Entries(list)'
      BY <2>1, <2>2 DEF Additions
    <2>4. ReportsTypeOK'
      BY <1>2, <2>1, <2>3 DEF PagesInv, ReportsTypeOK
    <2>5. UnseenIsAhead'
      BY <2>1, <2>4, AdditionsKeep
    <2>6. QED
      BY <2>4, <2>5 DEF PagesInv
  <1>3. QED
    BY <1>1, <1>2

(* The place of an entry in an order of the list: behind those that are     *)
(* before it and no other, if it is a user or has its second alone.         *)
LEMMA PlacedBehind ==
    ASSUME rows \in Seq(RowType), joined \in Seq(Nat), NEW list \in ListNames,
           NEW order \in Orders(list), NEW i \in Entries(list), SecondIsOwn(list, i)
    PROVE  /\ Len(order) \in Nat /\ DOMAIN order = 1..Len(order)
           /\ \E k \in 1..Len(order) : order[k] = i /\ Cardinality(Ahead(list, i)) = k - 1
  <1> DEFINE S == Entries(list)
             n == Cardinality(S)
             B == Ahead(list, i)
  <1>1. /\ IsFiniteSet(S) /\ S \subseteq Nat /\ \A j \in S : StampOf(list, j) \in Nat
        /\ list # "users" => S \subseteq DOMAIN rows
    BY EntriesKnown
  <1>2. n \in Nat
    BY <1>1, FS_CardinalityType
  <1>3. /\ order \in [1..n -> S]
        /\ \A k, l \in 1..n : k # l => order[k] # order[l]
        /\ \A k, l \in DOMAIN order : k < l => ~Precedes(list, order[l], order[k])
    BY DEF Orders, SetToSeqs
  <1> HIDE DEF n
  <1>4. order \in Seq(S) /\ Len(order) = n /\ DOMAIN order = 1..n
    BY <1>2, <1>3
  <1>5. B \subseteq S /\ i \notin B
    <2>1. ~Precedes(list, i, i)
      BY <1>1 DEF Precedes
    <2>2. QED
      BY <2>1 DEF Ahead
  <1>6. ASSUME NEW j \in S, j # i, ~Precedes(list, i, j)
        PROVE  Precedes(list, j, i)
    <2>1. StampOf(list, i) \in Nat /\ StampOf(list, j) \in Nat /\ i \in Nat /\ j \in Nat
      BY <1>1
    <2>2. CASE list = "users"
      BY <1>6, <2>1, <2>2 DEF Precedes
    <2>3. CASE list # "users"
      <3>1. j \in DOMAIN rows \ {i} /\ i \in DOMAIN rows
        BY <1>1, <1>6, <2>3
      <3>2. StampOf(list, i) # StampOf(list, j)
        BY <2>3, <3>1 DEF StampOf, SecondIsOwn
      <3>3. QED
        BY <1>6, <2>1, <3>2 DEF Precedes
    <2>4. QED
      BY <2>2, <2>3
  <1>7. ASSUME NEW k \in 1..n, NEW l \in 1..n, order[k] = i
        PROVE  order[l] \in B <=> l < k
    <2>1. order[l] \in S /\ k \in Nat /\ l \in Nat
      BY <1>2, <1>3
    <2>2. CASE l < k
      <3>1. order[l] # i /\ ~Precedes(list, i, order[l])
        BY <1>3, <1>4, <1>7, <2>2
      <3>2. Precedes(list, order[l], i)
        BY <1>6, <2>1, <3>1
      <3>3. QED
        BY <2>1, <2>2, <3>2 DEF Ahead
    <2>3. CASE l = k
      BY <1>5, <1>7, <2>3
    <2>4. CASE k < l
      <3>1. ~Precedes(list, order[l], i)
        BY <1>3, <1>4, <1>7, <2>4
      <3>2. QED
        BY <2>1, <2>4, <3>1 DEF Ahead
    <2>5. QED
      BY <2>1, <2>2, <2>3, <2>4
  <1> HIDE DEF S, B
  <1>8. i \in S
    BY DEF S
  <1>9. \E k \in 1..n : order[k] = i /\ Cardinality(B) = k - 1
    <2>1. IsFiniteSet(S) /\ B \in SUBSET S /\ i \notin B
      BY <1>1, <1>5
    <2>2. /\ order \in [1..Cardinality(S) -> S]
          /\ \A k, l \in 1..Cardinality(S) : k # l => order[k] # order[l]
          /\ \A k, l \in 1..Cardinality(S) : order[k] = i => (order[l] \in B <=> l < k)
      BY <1>3, <1>7 DEF n
    <2>3. Arranged(S, order, i, B)
      BY <1>8, <2>1, <2>2 DEF Arranged
    <2>4. \E k \in 1..Cardinality(S) : order[k] = i /\ Cardinality(B) = k - 1
      BY <2>1, <2>3, PlaceCounts
    <2>5. QED
      BY <2>4 DEF n
  <1>10. QED
    BY <1>2, <1>4, <1>9 DEF B

(* A page shows what has its place in it. *)
LEMMA PageShows ==
    ASSUME ReportsAssumption, NEW S, NEW order \in Seq(S), NEW page \in Nat \ {0},
           NEW k \in 1..Len(order),
           (page - 1) * PageSize < k, k <= page * PageSize
    PROVE  order[k] \in PageOf(order, page)
  <1> DEFINE first == (page - 1) * PageSize + 1
             last == Min({page * PageSize, Len(order)})
             shown == SubSeq(order, first, last)
  <1>1. PageSize \in Nat \ {0} /\ Len(order) \in Nat
    BY DEF ReportsAssumption
  <1>2. page * PageSize \in Nat /\ (page - 1) * PageSize \in Nat /\ first \in Nat /\ 1 <= first
    <2>1. page - 1 \in Nat
      OBVIOUS
    <2>2. (page - 1) * PageSize \in Nat /\ page * PageSize \in Nat
      BY <1>1, <2>1
    <2>3. QED
      BY <2>2
  <1>3. last \in {page * PageSize, Len(order)} /\ last \in Nat /\ last <= Len(order)
    <2> DEFINE T == {page * PageSize, Len(order)}
    <2>1. T \in SUBSET Nat /\ T # {} /\ Len(order) \in T
      BY <1>1, <1>2
    <2>2. Min(T) \in T /\ Min(T) <= Len(order)
      <3> HIDE DEF T
      <3>1. QED
        BY <2>1, MinOfNats
    <2>3. QED
      BY <2>1, <2>2
  <1> HIDE DEF last, first
  <1>4. k <= last /\ first <= k
    BY <1>1, <1>2, <1>3 DEF first
  <1> DEFINE q == k - first + 1
  <1>5. q \in 1..(last - first + 1) /\ q + first - 1 = k
    BY <1>2, <1>3, <1>4
  <1>6. shown[q] = order[k] /\ q \in DOMAIN shown
    BY <1>1, <1>2, <1>3, <1>5
  <1> HIDE DEF q, shown
  <1>7. order[k] \in Range(shown)
    BY <1>6 DEF Range
  <1>8. QED
    BY <1>7 DEF PageOf, shown, first, last

LEMMA TurnPageStep ==
    ASSUME ReportsAssumption, PagesInv, NEW list \in ListNames, TurnPage(list)
    PROVE  PagesInv'
  <1>1. /\ rows \in Seq(RowType) /\ joined \in Seq(Nat) /\ present \in Nat
        /\ rows' = rows /\ joined' = joined /\ present' = present
        /\ turning.page \in Nat /\ ~turning.over
        /\ turning.list \in {"none", list}
    BY DEF PagesInv, ReportsTypeOK, TurnPage
  <1>2. PageSize \in Nat \ {0}
    BY DEF ReportsAssumption
  <1>3. PICK order \in Orders(list) :
           turning' = [list |-> list, page |-> turning.page + 1,
                       over |-> (turning.page + 1) * PageSize >= Len(order),
                       meant |-> IF turning.page + 1 = 1 THEN Entries(list) ELSE turning.meant,
                       shown |-> turning.shown \cup PageOf(order, turning.page + 1)]
    BY DEF TurnPage
  <1> DEFINE page == turning.page + 1
  <1>4. page \in Nat \ {0} /\ page - 1 = turning.page
    BY <1>1
  <1>5. /\ turning'.list = list /\ turning'.page = page
        /\ turning'.over = (page * PageSize >= Len(order))
        /\ turning'.meant = IF page = 1 THEN Entries(list) ELSE turning.meant
        /\ turning'.shown = turning.shown \cup PageOf(order, page)
    BY <1>3
  <1>6. turning.list = "none" => turning.page = 0
    BY DEF PagesInv, ReportsTypeOK, Unturned
  <1>7. turning'.meant \subseteq Entries(list)
    <2>1. CASE page = 1
      BY <1>5, <2>1
    <2>2. CASE page # 1
      <3>1. turning.list = list /\ turning.list # "none"
        BY <1>1, <1>4, <1>6, <2>2 DEF ListNames
      <3>2. turning.meant \subseteq Entries(list)
        BY <3>1 DEF PagesInv, ReportsTypeOK
      <3>3. QED
        BY <1>5, <2>2, <3>2
    <2>3. QED
      BY <2>1, <2>2
  <1> HIDE DEF page
  <1>8. ReportsTypeOK'
    <2>1. turning'.over \in BOOLEAN
      BY <1>5
    <2>2. Entries(list)' = Entries(list)
      BY <1>1 DEF Entries, All, Succeeded, ListNames
    <2>3. list # "none"
      BY DEF ListNames
    <2>4. QED
      BY <1>1, <1>4, <1>5, <1>7, <2>1, <2>2, <2>3 DEF ReportsTypeOK
  <1>9. ASSUME NEW i \in turning'.meant \ turning'.shown, SecondIsOwn(list, i)'
        PROVE  ~turning'.over /\ page * PageSize <= Cardinality(Ahead(list, i)')
    <2>1. i \in Entries(list) /\ i \notin turning.shown /\ i \notin PageOf(order, page)
      BY <1>5, <1>7, <1>9
    <2>2. SecondIsOwn(list, i) /\ Ahead(list, i)' = Ahead(list, i)
      BY <1>1, <1>9 DEF SecondIsOwn, Ahead, Entries, All, Succeeded, Precedes, StampOf
    <2>3. PICK k \in 1..Len(order) :
             order[k] = i /\ Cardinality(Ahead(list, i)) = k - 1
      BY <1>1, <2>1, <2>2, PlacedBehind
    <2>4. Len(order) \in Nat /\ order \in Seq(Entries(list))
      <3>1. Len(order) \in Nat /\ DOMAIN order = 1..Len(order)
        BY <1>1, <2>1, <2>2, PlacedBehind
      <3>2. order \in [DOMAIN order -> Entries(list)]
        BY DEF Orders, SetToSeqs
      <3>3. QED
        BY <3>1, <3>2
    <2>5. turning.page * PageSize <= Cardinality(Ahead(list, i))
      <3>1. CASE page = 1
        BY <1>2, <1>4, <2>3, <2>4, <3>1
      <3>2. CASE page # 1
        <4>1. turning.list = list
          BY <1>1, <1>4, <1>6, <3>2
        <4>2. i \in turning.meant \ turning.shown
          BY <1>5, <1>9, <2>1, <3>2
        <4>3. QED
          BY <2>2, <4>1, <4>2 DEF PagesInv, UnseenIsAhead
      <3>3. QED
        BY <3>1, <3>2
    <2>6. (page - 1) * PageSize < k
      BY <1>1, <1>2, <1>4, <2>3, <2>4, <2>5
    <2>7. ~(k <= page * PageSize)
      BY <1>4, <2>1, <2>3, <2>4, <2>6, PageShows
    <2>8. page * PageSize \in Nat
      BY <1>2, <1>4
    <2>9. page * PageSize <= k - 1 /\ ~(page * PageSize >= Len(order))
      BY <2>3, <2>4, <2>7, <2>8
    <2>10. QED
      BY <1>5, <2>2, <2>3, <2>9
  <1>10. UnseenIsAhead'
    BY <1>5, <1>9 DEF UnseenIsAhead, Ahead
  <1>11. QED
    BY <1>8, <1>10 DEF PagesInv

LEMMA ReportsStep ==
    ASSUME ReportsAssumption, PagesInv, [NextReports]_reportVars
    PROVE  PagesInv'
  <1>1. rows \in Seq(RowType) /\ joined \in Seq(Nat) /\ present \in Nat
    BY DEF PagesInv, ReportsTypeOK
  <1>2. CASE Time
    <2>1. /\ UNCHANGED turning /\ rows' = rows /\ joined' = joined /\ present' \in Nat
      BY <1>2 DEF Time, ReportsAssumption
    <2>2. \A list \in ListNames : Additions(list)
      BY <2>1 DEF Additions, SecondIsOwn, Entries, All, Succeeded, Precedes, StampOf
    <2>3. QED
      BY <1>1, <2>1, <2>2, AddingStep
  <1>3. ASSUME NEW at \in Moments \cup {0}, OpenRow(at)
        PROVE  PagesInv'
    <2>1. UNCHANGED turning /\ joined' \in Seq(Nat) /\ present' \in Nat
      BY <1>1, <1>3 DEF OpenRow
    <2>2. rows' \in Seq(RowType) /\ \A list \in ListNames : Additions(list)
      BY <1>3, OpenRowAdds DEF ListNames
    <2>3. QED
      BY <2>1, <2>2, AddingStep
  <1>4. ASSUME NEW k \in DOMAIN rows, NEW kind \in Reported, SettleRow(k, kind)
        PROVE  PagesInv'
    <2>1. UNCHANGED turning /\ joined' \in Seq(Nat) /\ present' \in Nat
      BY <1>1, <1>4 DEF SettleRow
    <2>2. rows' \in Seq(RowType) /\ \A list \in ListNames : Additions(list)
      BY <1>4, SettleRowAdds DEF ListNames
    <2>3. QED
      BY <2>1, <2>2, AddingStep
  <1>5. CASE Register
    <2>1. UNCHANGED turning /\ rows' \in Seq(RowType) /\ present' \in Nat
      BY <1>1, <1>5 DEF Register
    <2>2. joined' \in Seq(Nat) /\ \A list \in ListNames : Additions(list)
      BY <1>5, RegisterAdds DEF ListNames
    <2>3. QED
      BY <2>1, <2>2, AddingStep
  <1>6. CASE UNCHANGED reportVars
    <2>1. rows' = rows /\ joined' = joined /\ present' = present /\ turning' = turning
      BY <1>6 DEF reportVars
    <2>2. \A list \in ListNames : Additions(list)
      BY <2>1 DEF Additions, SecondIsOwn, Entries, All, Succeeded, Precedes, StampOf
    <2>3. QED
      BY <1>1, <2>1, <2>2, AddingStep
  <1>7. QED
    BY <1>2, <1>3, <1>4, <1>5, <1>6, TurnPageStep DEF NextReports, ListNames

LEMMA PagesKept == ReportsSpec => []PagesInv
  <1>1. ReportsInit => PagesInv
    BY ReportsAssumption, ReportsInitially
  <1>2. PagesInv /\ [NextReports]_reportVars => PagesInv'
    BY ReportsAssumption, ReportsStep
  <1>3. QED
    BY <1>1, <1>2, PTL DEF ReportsSpec

(* Whoever turns the pages of a list to its end has seen every user that    *)
(* was registered when he began, and every row whose second is its own,     *)
(* however many are added meanwhile and whatever becomes of them.           *)
THEOREM PagesAreComplete == ReportsSpec => []PagesMissOnlyTies
  <1>1. PagesInv => PagesMissOnlyTies
    <2>1. SUFFICES ASSUME PagesInv, turning.over, NEW i \in turning.meant \ turning.shown
          PROVE  turning.list # "users" /\ \E j \in DOMAIN rows \ {i} : rows[j].at = rows[i].at
      BY DEF PagesMissOnlyTies
    <2>2. ~SecondIsOwn(turning.list, i)
      BY <2>1 DEF PagesInv, UnseenIsAhead
    <2>3. QED
      BY <2>2 DEF SecondIsOwn
  <1>2. QED
    BY <1>1, PagesKept, PTL

-----------------------------------------------------------------------------
(* Figures of one window (Reports).                                         *)

(* The hour or day of a time begins at or before it, one unit goes on to    *)
(* the next, and of two times the later has no earlier beginning.           *)

LEMMA FloorIsBelow ==
    ASSUME NEW u \in Nat \ {0}, NEW t \in Int
    PROVE  /\ Floor(t, u) \in Int /\ Floor(t, u) <= t /\ t < Floor(t, u) + u
           /\ Floor(t, u) = u * (t \div u) /\ t \div u \in Int
  <1>1. t % u \in 0..(u - 1) /\ t = u * (t \div u) + (t % u) /\ t \div u \in Int
    BY Division
  <1>2. u * (t \div u) \in Int
    BY <1>1, Distributes
  <1>3. QED
    BY <1>1, <1>2 DEF Floor

LEMMA FloorGrows ==
    ASSUME NEW u \in Nat \ {0}, NEW s \in Int, NEW t \in Int, s <= t
    PROVE  Floor(s, u) <= Floor(t, u)
  <1>1. PICK p, q : p = s \div u /\ q = t \div u
    OBVIOUS
  <1>2. p \in Int /\ q \in Int /\ p <= q
    BY <1>1, QuotientGrows
  <1>3. p * u <= q * u /\ p * u \in Int /\ q * u \in Int
    BY <1>2, ProductsGrow
  <1>4. u * p = p * u /\ u * q = q * u
    BY <1>2
  <1>5. Floor(s, u) = u * p /\ Floor(t, u) = u * q
    BY <1>1, FloorIsBelow
  <1>6. QED
    BY <1>3, <1>4, <1>5

LEMMA FloorOnGrid ==
    ASSUME NEW u \in Nat \ {0}, NEW a \in Int, a % u = 0, NEW t \in Int, a <= t
    PROVE  a <= Floor(t, u) /\ (Floor(t, u) - a) % u = 0
  <1>1. PICK k : k = a \div u
    OBVIOUS
  <1>2. k \in Int /\ a = u * k
    BY <1>1, OnMultiple
  <1>3. PICK q : q = t \div u
    OBVIOUS
  <1>4. q \in Int /\ Floor(t, u) = u * q
    BY <1>3, FloorIsBelow
  <1>5. u * (q - k) = u * q - u * k
    <2>1. PICK m : m = -k
      OBVIOUS
    <2>2. m \in Int /\ q - k = q + m /\ k + m = 0
      BY <1>2, <1>4, <2>1
    <2>3. u * (q + m) = u * q + u * m /\ u * (k + m) = u * k + u * m
          /\ u * q \in Int /\ u * m \in Int /\ u * k \in Int
      BY <1>2, <1>4, <2>2, Distributes
    <2>4. u * (k + m) = 0
      BY <2>2
    <2>5. QED
      BY <2>2, <2>3, <2>4
  <1>6. (u * (q - k)) % u = 0
    BY <1>2, <1>4, Multiples
  <1>7. Floor(a, u) = a
    BY DEF Floor
  <1>8. QED
    BY <1>2, <1>4, <1>5, <1>6, <1>7, FloorGrows

LEMMA RowsKnown ==
    ASSUME rows \in Seq(RowType)
    PROVE  /\ IsFiniteSet(All) /\ All \subseteq Nat
           /\ \A i \in All : /\ rows[i].at \in Nat /\ rows[i].status \in Statuses
                             /\ rows[i].cost \in Nat /\ rows[i].tokens \in Nat
                             /\ rows[i].score \in Nat \cup {None}
                             /\ rows[i].latency \in Nat \cup {None}
  <1>1. DOMAIN rows = 1..Len(rows) /\ Len(rows) \in Nat
    OBVIOUS
  <1>2. IsFiniteSet(DOMAIN rows)
    BY <1>1, FS_Interval
  <1>3. \A i \in DOMAIN rows : rows[i] \in RowType
    OBVIOUS
  <1>4. QED
    BY <1>1, <1>2, <1>3 DEF All, RowType

(* Groups of rows, by a key: a row has the key of one group.                *)
GroupedBy(groups, S, key) ==
    /\ IsFiniteSet(DOMAIN groups)
    /\ \A i \in S : key[i] \in DOMAIN groups
    /\ \A k \in DOMAIN groups : groups[k] = OfKey(S, key, k)

(* The cost and the tokens of some rows are sums of one table each.         *)
LEMMA CostIsSum ==
    ASSUME rows \in Seq(RowType), NEW f, f = [i \in All |-> rows[i].cost], NEW S \in SUBSET All
    PROVE  CostOf(S) = SumOf(f, S)
  <1>1. PICK e : e = [i \in S |-> rows[i].cost]
    OBVIOUS
  <1>2. CostOf(S) = SumOf(e, S)
    BY <1>1, SumFunctionIsSum DEF CostOf
  <1>3. IsFiniteSet(S) /\ \A i \in S : e[i] = f[i]
    BY <1>1, RowsKnown, FS_Subset
  <1>4. QED
    BY <1>2, <1>3, SumAgrees

LEMMA TokensAreSum ==
    ASSUME rows \in Seq(RowType), NEW f, f = [i \in All |-> rows[i].tokens],
           NEW S \in SUBSET All
    PROVE  TokensOf(S) = SumOf(f, S)
  <1>1. PICK e : e = [i \in S |-> rows[i].tokens]
    OBVIOUS
  <1>2. TokensOf(S) = SumOf(e, S)
    BY <1>1, SumFunctionIsSum DEF TokensOf
  <1>3. IsFiniteSet(S) /\ \A i \in S : e[i] = f[i]
    BY <1>1, RowsKnown, FS_Subset
  <1>4. QED
    BY <1>2, <1>3, SumAgrees

(* What the groups of some rows have together is what the rows have.        *)
LEMMA GroupsAddUp ==
    ASSUME rows \in Seq(RowType), NEW S \in SUBSET All, NEW groups, NEW key,
           GroupedBy(groups, S, key)
    PROVE  /\ Together(groups, Cardinality) = Cardinality(S)
           /\ Together(groups, CostOf) = CostOf(S)
           /\ Together(groups, TokensOf) = TokensOf(S)
  <1> DEFINE K == DOMAIN groups
  <1>1. /\ IsFiniteSet(S) /\ IsFiniteSet(K)
        /\ \A i \in S : key[i] \in K
        /\ \A k \in K : groups[k] = OfKey(S, key, k)
        /\ \A k \in K : groups[k] \in SUBSET S /\ IsFiniteSet(groups[k])
    BY RowsKnown, FS_Subset DEF GroupedBy, OfKey
  <1>2. PICK one, cost, tokens :
          /\ one = [i \in All |-> 1]
          /\ cost = [i \in All |-> rows[i].cost]
          /\ tokens = [i \in All |-> rows[i].tokens]
    OBVIOUS
  <1>3. \A i \in S : one[i] = 1 /\ one[i] \in Int /\ cost[i] \in Int /\ tokens[i] \in Int
    BY <1>2, RowsKnown
  <1>4. PICK a, b, c :
          /\ a = [k \in K |-> Cardinality(groups[k])]
          /\ b = [k \in K |-> CostOf(groups[k])]
          /\ c = [k \in K |-> TokensOf(groups[k])]
    OBVIOUS
  <1>5. /\ Together(groups, Cardinality) = SumOf(a, K)
        /\ Together(groups, CostOf) = SumOf(b, K)
        /\ Together(groups, TokensOf) = SumOf(c, K)
    <2>1. DOMAIN a = K /\ DOMAIN b = K /\ DOMAIN c = K
      BY <1>4
    <2>2. /\ Together(groups, Cardinality) = SumFunction(a)
          /\ Together(groups, CostOf) = SumFunction(b)
          /\ Together(groups, TokensOf) = SumFunction(c)
      BY <1>4 DEF Together
    <2> HIDE DEF K
    <2>3. QED
      BY <2>1, <2>2, SumFunctionIsSum
  <1>6. /\ Cardinality(S) = SumOf(one, S)
        /\ CostOf(S) = SumOf(cost, S)
        /\ TokensOf(S) = SumOf(tokens, S)
    BY <1>1, <1>2, <1>3, CountIsSum, CostIsSum, TokensAreSum
  <1>7. ASSUME NEW k \in K
        PROVE  /\ a[k] = SumOf(one, OfKey(S, key, k))
               /\ b[k] = SumOf(cost, OfKey(S, key, k))
               /\ c[k] = SumOf(tokens, OfKey(S, key, k))
    <2>1. PICK g : g = OfKey(S, key, k)
      OBVIOUS
    <2>2. g = groups[k] /\ g \in SUBSET S /\ g \in SUBSET All /\ IsFiniteSet(g)
      BY <1>1, <2>1
    <2>3. \A i \in g : one[i] = 1
      BY <1>3, <2>2
    <2>4. /\ Cardinality(g) = SumOf(one, g)
          /\ CostOf(g) = SumOf(cost, g)
          /\ TokensOf(g) = SumOf(tokens, g)
      BY <1>2, <2>2, <2>3, CountIsSum, CostIsSum, TokensAreSum
    <2>5. QED
      BY <1>4, <2>1, <2>2, <2>4
  <1> HIDE DEF K
  <1>8. SumOf(a, K) = SumOf(one, S)
    <2>1. /\ \A i \in S : one[i] \in Int
          /\ \A k \in K : a[k] = SumOf(one, OfKey(S, key, k))
      BY <1>3, <1>7
    <2>2. QED
      BY <1>1, <2>1, SumByKey
  <1>9. SumOf(b, K) = SumOf(cost, S)
    <2>1. /\ \A i \in S : cost[i] \in Int
          /\ \A k \in K : b[k] = SumOf(cost, OfKey(S, key, k))
      BY <1>3, <1>7
    <2>2. QED
      BY <1>1, <2>1, SumByKey
  <1>10. SumOf(c, K) = SumOf(tokens, S)
    <2>1. /\ \A i \in S : tokens[i] \in Int
          /\ \A k \in K : c[k] = SumOf(tokens, OfKey(S, key, k))
      BY <1>3, <1>7
    <2>2. QED
      BY <1>1, <2>1, SumByKey
  <1>11. QED
    BY <1>5, <1>6, <1>8, <1>9, <1>10

(* Hours, days and models group every row that is asked for.                *)
LEMMA ByTimeGroups ==
    ASSUME rows \in Seq(RowType), NEW S \in SUBSET All, NEW u
    PROVE  GroupedBy(ByTime(S, u), S, [i \in S |-> Floor(rows[i].at, u)])
  <1>1. PICK key : key = [i \in S |-> Floor(rows[i].at, u)]
    OBVIOUS
  <1>2. IsFiniteSet({key[i] : i \in S})
    <2>1. IsFiniteSet(S)
      BY RowsKnown, FS_Subset
    <2>2. QED
      BY <2>1, FiniteImage
  <1>3. {key[i] : i \in S} = DOMAIN ByTime(S, u)
    BY <1>1 DEF ByTime
  <1>4. \A k \in DOMAIN ByTime(S, u) : ByTime(S, u)[k] = OfKey(S, key, k)
    BY <1>1 DEF ByTime, OfKey
  <1>5. QED
    BY <1>1, <1>2, <1>3, <1>4 DEF GroupedBy

LEMMA ByModelGroups ==
    ASSUME rows \in Seq(RowType), NEW S \in SUBSET All
    PROVE  GroupedBy(ByModel(S), S, [i \in S |-> EffectiveModel(i)])
  <1>1. PICK key : key = [i \in S |-> EffectiveModel(i)]
    OBVIOUS
  <1>2. IsFiniteSet({key[i] : i \in S})
    <2>1. IsFiniteSet(S)
      BY RowsKnown, FS_Subset
    <2>2. QED
      BY <2>1, FiniteImage
  <1>3. {key[i] : i \in S} = DOMAIN ByModel(S)
    BY <1>1 DEF ByModel
  <1>4. \A k \in DOMAIN ByModel(S) : ByModel(S)[k] = OfKey(S, key, k)
    BY <1>1 DEF ByModel, OfKey
  <1>5. QED
    BY <1>1, <1>2, <1>3, <1>4 DEF GroupedBy

-----------------------------------------------------------------------------
(* Windows that are not refused have an hour or a day as their unit.        *)
WindowOK(w) == w.from \in Int /\ w.to \in Int /\ w.grain \in {Hour, Day}

LEMMA UnitsAre ==
    ASSUME ReportsAssumption, NEW u \in {Hour, Day}
    PROVE  u \in Nat \ {0}
  BY DEF ReportsAssumption

(* A named range starts with one of its own buckets.                        *)
LEMMA PresetsAreOnGrid ==
    ASSUME ReportsAssumption, NEW p \in Presets, NEW at \in Nat
    PROVE  WindowOK(PresetWindow(p, at)) /\ OnGrid(PresetWindow(p, at))
  <1>1. PICK n, u : n = p.buckets /\ u = p.unit
    OBVIOUS
  <1>2. n \in Nat /\ u \in {Hour, Day} /\ u \in Nat \ {0}
    BY <1>1, UnitsAre DEF ReportsAssumption
  <1>3. PICK q : q = at \div u
    OBVIOUS
  <1>4. q \in Int /\ Floor(at, u) = u * q /\ Floor(at, u) \in Int
    <2>1. at \in Int
      OBVIOUS
    <2>2. Floor(at, u) = u * (at \div u) /\ at \div u \in Int /\ Floor(at, u) \in Int
      BY <1>2, <2>1, FloorIsBelow
    <2>3. QED
      BY <1>3, <2>2
  <1>5. PICK k : k = q + 1 - n
    OBVIOUS
  <1>6. k \in Int /\ k + n = q + 1
    BY <1>2, <1>4, <1>5
  <1>7. u * k + u * n = u * q + u /\ u * k \in Int /\ u * n \in Int /\ n * u = u * n
    <2>1. u * (k + n) = u * k + u * n /\ u * k \in Int /\ u * n \in Int
      BY <1>2, <1>6, Distributes
    <2>2. u * (q + 1) = u * q + u * 1 /\ u * 1 = u
      BY <1>2, <1>4, Distributes
    <2>3. n * u = u * n
      BY <1>2
    <2>4. QED
      BY <1>6, <2>1, <2>2, <2>3
  <1>8. /\ PresetWindow(p, at).from = u * q + u - n * u
        /\ PresetWindow(p, at).to = u * q + u
        /\ PresetWindow(p, at).grain = u
    BY <1>1, <1>4 DEF PresetWindow
  <1>9. PresetWindow(p, at).from = u * k
    BY <1>4, <1>7, <1>8, <1>2
  <1>10. (u * k) % u = 0
    BY <1>2, <1>6, Multiples
  <1>11. QED
    BY <1>2, <1>4, <1>7, <1>8, <1>9, <1>10 DEF WindowOK, OnGrid

LEMMA CustomIsWindow ==
    ASSUME NEW a \in Int, NEW b \in Int
    PROVE  WindowOK(CustomWindow(a, b))
  BY DEF WindowOK, CustomWindow

LEMMA WindowsAre ==
    ASSUME ReportsAssumption, present \in Nat, NEW q \in Questions
    PROVE  /\ AnalyticsWindow(q, present) # Refused => WindowOK(AnalyticsWindow(q, present))
           /\ MonitorWindow(q, present) # Refused => WindowOK(MonitorWindow(q, present))
  <1>1. q.from \in Int /\ q.to \in Int /\ q.preset \in Presets
    BY DEF Questions, ReportsAssumption, None
  <1>2. \A span \in Int : EndOr(q, present) \in Int /\ StartOr(q, present, span) \in Int
    BY <1>1 DEF EndOr, StartOr
  <1>3. DefaultSpan \in Int /\ Day \in Int
    BY DEF ReportsAssumption
  <1>4. ListWindow(q, present) # Refused => WindowOK(ListWindow(q, present))
    <2>1. ListWindow(q, present) # Refused =>
            ListWindow(q, present) =
              CustomWindow(StartOr(q, present, DefaultSpan), EndOr(q, present))
      BY DEF ListWindow
    <2>2. QED
      BY <1>2, <1>3, <2>1, CustomIsWindow
  <1>5. \A a, b \in Int : WindowOK(ShownWindow(q, a, b, present))
    BY <1>1, CustomIsWindow, PresetsAreOnGrid DEF ShownWindow
  <1>6. AnalyticsWindow(q, present) # Refused => WindowOK(AnalyticsWindow(q, present))
    <2>1. None \in Int
      BY DEF None
    <2>2. QED
      BY <1>1, <1>4, <1>5, <2>1 DEF AnalyticsWindow, UserWindow, AdminWindow
  <1>7. MonitorWindow(q, present) # Refused => WindowOK(MonitorWindow(q, present))
    <2>1. MonitorWindow(q, present) # Refused =>
            MonitorWindow(q, present) =
              CustomWindow(StartOr(q, present, Day), EndOr(q, present))
      BY DEF MonitorWindow
    <2>2. QED
      BY <1>2, <1>3, <2>1, CustomIsWindow
  <1>8. QED
    BY <1>6, <1>7

-----------------------------------------------------------------------------
LEMMA RowsOfWindow ==
    ASSUME NEW w
    PROVE  /\ Monitored(w) \in SUBSET All /\ Charted(w) \in SUBSET Monitored(w)
           /\ Charted(w) \in SUBSET All /\ Succeeded(Charted(w)) \in SUBSET All
           /\ \A i \in Charted(w) : Within(w, rows[i].at)
  BY DEF Monitored, Charted, ExcludeInvalidModel, Succeeded

(* From such a start every row of the window has a bucket, though some      *)
(* buckets have no row.                                                     *)
LEMMA BucketsGroup ==
    ASSUME ReportsAssumption, rows \in Seq(RowType), NEW w, WindowOK(w), OnGrid(w)
    PROVE  GroupedBy(Analytics(w).buckets, Charted(w),
                     [i \in Charted(w) |-> Floor(rows[i].at, w.grain)])
  <1>1. PICK key, u : key = [i \in Charted(w) |-> Floor(rows[i].at, w.grain)] /\ u = w.grain
    OBVIOUS
  <1>2. u \in Nat \ {0} /\ w.from \in Int /\ w.to \in Int /\ w.from % u = 0
    BY <1>1, UnitsAre DEF WindowOK, OnGrid
  <1>3. /\ DOMAIN Analytics(w).buckets = BucketStarts(w)
        /\ \A k \in BucketStarts(w) : Analytics(w).buckets[k] = Bucket(w, k)
    BY DEF Analytics
  <1>4. IsFiniteSet(BucketStarts(w))
    <2>1. w.from \in Int /\ w.to - 1 \in Int
      BY <1>2
    <2>2. IsFiniteSet(w.from .. (w.to - 1))
      BY <2>1, FS_Interval
    <2>3. BucketStarts(w) \in SUBSET (w.from .. (w.to - 1))
      BY DEF BucketStarts
    <2>4. QED
      BY <2>2, <2>3, FS_Subset
  <1>5. ASSUME NEW i \in Charted(w)
        PROVE  key[i] \in BucketStarts(w)
    <2>1. PICK t : t = rows[i].at
      OBVIOUS
    <2>2. t \in Int /\ w.from <= t /\ t < w.to
      BY <2>1, RowsKnown, RowsOfWindow DEF Within
    <2>3. w.from <= Floor(t, u) /\ (Floor(t, u) - w.from) % u = 0
      BY <1>2, <2>2, FloorOnGrid
    <2>4. Floor(t, u) \in Int /\ Floor(t, u) <= t
      BY <1>2, <2>2, FloorIsBelow
    <2>5. Floor(t, u) \in w.from .. (w.to - 1)
      BY <1>2, <2>2, <2>3, <2>4
    <2>6. key[i] = Floor(t, u)
      BY <1>1, <2>1
    <2>7. QED
      BY <1>1, <2>3, <2>5, <2>6 DEF BucketStarts
  <1>6. \A k \in BucketStarts(w) : Bucket(w, k) = OfKey(Charted(w), key, k)
    BY <1>1 DEF Bucket, BucketStart, OfKey
  <1>7. QED
    BY <1>1, <1>3, <1>4, <1>5, <1>6 DEF GroupedBy

LEMMA AnalyticsAgree ==
    ASSUME ReportsAssumption, rows \in Seq(RowType), NEW w, WindowOK(w)
    PROVE  AnalyticsAddUp(w)
  <1>1. /\ Analytics(w).requests = Cardinality(Charted(w))
        /\ Analytics(w).cost = CostOf(Charted(w))
        /\ Analytics(w).models = ByModel(Charted(w))
    BY DEF Analytics
  <1>2. PICK C : C = Charted(w) /\ C \in SUBSET All
    BY RowsOfWindow
  <1>3. /\ Together(ByModel(C), Cardinality) = Cardinality(C)
        /\ Together(ByModel(C), CostOf) = CostOf(C)
    BY <1>2, ByModelGroups, GroupsAddUp
  <1>4. OnGrid(w) => Together(Analytics(w).buckets, CostOf) = CostOf(C)
    BY <1>2, BucketsGroup, GroupsAddUp
  <1>5. QED
    BY <1>1, <1>2, <1>3, <1>4 DEF AnalyticsAddUp

-----------------------------------------------------------------------------
(* Ranks: rounding moves by a half at most, so a larger percentage has no   *)
(* smaller rank.                                                            *)

LEMMA RoundedIsNear ==
    ASSUME NEW x \in Nat
    PROVE  /\ Rounded(x) \in Nat /\ 100 * Rounded(x) <= x + 50 /\ x <= 100 * Rounded(x) + 50
  <1>1. PICK q, r : q = x \div 100 /\ r = x % 100
    OBVIOUS
  <1>2. q \in Int /\ r \in 0..99 /\ x = 100 * q + r
    BY <1>1, Division
  <1>3. \/ Rounded(x) = q /\ r <= 50
        \/ Rounded(x) = q + 1 /\ r >= 50
    BY <1>1, <1>2 DEF Rounded
  <1>4. QED
    BY <1>2, <1>3

LEMMA RankIs ==
    ASSUME NEW n \in Nat \ {0}, NEW p \in {50, 95, 99}
    PROVE  /\ Rank(n, p) \in 1..n
           /\ Rank(n, p) = IF Rounded(p * n) >= 1 THEN Rounded(p * n) ELSE 1
  <1>1. PICK x : x = p * n
    OBVIOUS
  <1>2. PICK k : k = Rounded(x)
    OBVIOUS
  <1>3. k \in Nat /\ 100 * k <= 100 * n + 50
    <2>1. x \in Nat /\ x <= 100 * n
      BY <1>1
    <2>2. k \in Nat /\ 100 * k <= x + 50
      BY <1>2, <2>1, RoundedIsNear
    <2>3. QED
      BY <2>1, <2>2
  <1>4. k <= n
    BY <1>3
  <1>5. Min({n, k}) = k
    BY <1>3, <1>4, LesserOfTwo
  <1>6. Max({1, k}) = IF 1 >= k THEN 1 ELSE k
    BY <1>3, GreaterOfTwo
  <1>7. Rank(n, p) = Max({1, k})
    BY <1>1, <1>2, <1>5 DEF Rank
  <1>8. QED
    BY <1>1, <1>2, <1>3, <1>4, <1>6, <1>7

LEMMA RanksGrow ==
    ASSUME NEW n \in Nat \ {0}
    PROVE  Rank(n, 50) <= Rank(n, 95) /\ Rank(n, 95) <= Rank(n, 99)
  <1>1. /\ 50 * n \in Nat /\ 95 * n \in Nat /\ 99 * n \in Nat
        /\ 50 * n < 95 * n /\ 95 * n < 99 * n
    OBVIOUS
  <1>2. PICK a, b, c : a = Rounded(50 * n) /\ b = Rounded(95 * n) /\ c = Rounded(99 * n)
    OBVIOUS
  <1>3. /\ a \in Nat /\ 100 * a <= 50 * n + 50
        /\ b \in Nat /\ 100 * b <= 95 * n + 50 /\ 95 * n <= 100 * b + 50
        /\ c \in Nat /\ 99 * n <= 100 * c + 50
    BY <1>1, <1>2, RoundedIsNear
  <1>4. a <= b /\ b <= c
    BY <1>3
  <1>5. /\ Rank(n, 50) = IF a >= 1 THEN a ELSE 1
        /\ Rank(n, 95) = IF b >= 1 THEN b ELSE 1
        /\ Rank(n, 99) = IF c >= 1 THEN c ELSE 1
    BY <1>2, RankIs
  <1>6. QED
    BY <1>3, <1>4, <1>5

(* The latencies of a window come in order, and a percentile is one.        *)
WithLatency(w) == {i \in Charted(w) : rows[i].latency # None}

LEMMA LatenciesInOrder ==
    ASSUME rows \in Seq(RowType), NEW w
    PROVE  LET n == Cardinality(WithLatency(w)) IN
           /\ n \in Nat /\ Len(Latencies(w)) = n
           /\ Latencies(w) \in [1..n -> WithLatency(w)]
           /\ \A i \in WithLatency(w) : rows[i].latency \in Nat
           /\ \A k, l \in 1..n : k < l =>
                 rows[Latencies(w)[k]].latency <= rows[Latencies(w)[l]].latency
  <1>1. PICK M, n : M = WithLatency(w) /\ n = Cardinality(M)
    OBVIOUS
  <1>2. M \in SUBSET All /\ \A i \in M : rows[i].latency # None
    BY <1>1, RowsOfWindow DEF WithLatency
  <1>3. IsFiniteSet(M) /\ \A i \in M : rows[i].latency \in Nat
    BY <1>2, RowsKnown, FS_Subset
  <1>4. n \in Nat
    BY <1>1, <1>3, FS_CardinalityType
  <1>5. PICK f : f = [i \in M |-> rows[i].latency]
    OBVIOUS
  <1>6. PICK s : Sorted(M, f, s)
    <2>1. \A i \in M : f[i] \in Int
      BY <1>3, <1>5
    <2>2. QED
      BY <1>3, <2>1, SortedExists
  <1> DEFINE Climbing(order) == \A k, l \in DOMAIN order : k < l =>
                                   rows[order[k]].latency <= rows[order[l]].latency
  <1>7. s \in SetToSeqs(M) /\ Climbing(s)
    <2>1. /\ s \in [1..n -> M]
          /\ \A i, j \in 1..n : i # j => s[i] # s[j]
          /\ \A i, j \in 1..n : i < j => f[s[i]] <= f[s[j]]
      BY <1>1, <1>6 DEF Sorted
    <2>2. \A i, j \in 1..n : i < j => rows[s[i]].latency <= rows[s[j]].latency
      BY <1>5, <2>1
    <2>3. QED
      BY <1>1, <2>1, <2>2 DEF SetToSeqs
  <1>8. Latencies(w) = CHOOSE order \in SetToSeqs(M) : Climbing(order)
    BY <1>1 DEF Latencies, WithLatency
  <1>9. PICK L : L = Latencies(w)
    OBVIOUS
  <1>10. L \in SetToSeqs(M) /\ Climbing(L)
    <2> HIDE DEF Climbing
    <2>1. QED
      BY <1>7, <1>8, <1>9
  <1>11. L \in [1..n -> M] /\ DOMAIN L = 1..n
    BY <1>1, <1>10 DEF SetToSeqs
  <1>12. Len(L) = n
    BY <1>4, <1>11
  <1>13. \A k, l \in 1..n : k < l => rows[L[k]].latency <= rows[L[l]].latency
    BY <1>10, <1>11
  <1>14. QED
    BY <1>1, <1>3, <1>4, <1>9, <1>11, <1>12, <1>13

LEMMA PercentilesGrow ==
    ASSUME rows \in Seq(RowType), NEW w, Latencies(w) # <<>>
    PROVE  /\ Percentile(w, 50) <= Percentile(w, 95)
           /\ Percentile(w, 95) <= Percentile(w, 99)
  <1>1. PICK L, M, n : L = Latencies(w) /\ M = WithLatency(w) /\ n = Cardinality(M)
    OBVIOUS
  <1>2. /\ n \in Nat /\ Len(L) = n /\ L \in [1..n -> M]
        /\ \A i \in M : rows[i].latency \in Nat
        /\ \A k, l \in 1..n : k < l => rows[L[k]].latency <= rows[L[l]].latency
    BY <1>1, LatenciesInOrder
  <1>3. n # 0
    <2>1. SUFFICES ASSUME n = 0 PROVE FALSE
      OBVIOUS
    <2>2. L \in Seq(M)
      BY <1>2
    <2>3. L = <<>>
      BY <1>2, <2>1, <2>2
    <2>4. QED
      BY <1>1, <2>3
  <1>4. /\ Rank(n, 50) \in 1..n /\ Rank(n, 95) \in 1..n /\ Rank(n, 99) \in 1..n
        /\ Rank(n, 50) <= Rank(n, 95) /\ Rank(n, 95) <= Rank(n, 99)
    BY <1>2, <1>3, RankIs, RanksGrow
  <1>5. \A k, l \in 1..n : k <= l => rows[L[k]].latency <= rows[L[l]].latency
    <2>1. \A k \in 1..n : L[k] \in M /\ rows[L[k]].latency \in Nat
      BY <1>2
    <2>2. QED
      BY <1>2, <2>1
  <1>6. \A p \in {50, 95, 99} : Percentile(w, p) = rows[L[Rank(n, p)]].latency
    BY <1>1, <1>2 DEF Percentile
  <1>7. QED
    BY <1>4, <1>5, <1>6

-----------------------------------------------------------------------------
(* Scores: the rows of one score are one group, which shows it up to 9.     *)
WithScore(w) == {i \in Charted(w) : rows[i].score # None}

LEMMA ScoresAgree ==
    ASSUME rows \in Seq(RowType), NEW w
    PROVE  \A a, b \in MonitorScores(w) : a.floor = b.floor /\ a # b => a.floor = 9
  <1>1. \A i \in WithScore(w) : rows[i].score \in Nat
    BY RowsOfWindow, RowsKnown DEF WithScore
  <1> DEFINE Score(g, s) == /\ s \in Nat /\ g = {i \in WithScore(w) : rows[i].score = s}
                            /\ \E i \in g : TRUE
             FloorOf(g) == IF \E i \in g : rows[i].score > 9 THEN 9
                           ELSE rows[CHOOSE i \in g : TRUE].score
  <1>2. ASSUME NEW a \in MonitorScores(w)
        PROVE  \E g, s : /\ Score(g, s) /\ a = [floor |-> FloorOf(g), calls |-> g]
                         /\ FloorOf(g) = IF s > 9 THEN 9 ELSE s
    <2>1. PICK g \in {{i \in WithScore(w) : rows[i].score = s} : s \in {rows[i].score : i \in WithScore(w)}} :
             a = [floor |-> FloorOf(g), calls |-> g]
      BY DEF MonitorScores, WithScore
    <2>2. PICK s \in {rows[i].score : i \in WithScore(w)} : g = {i \in WithScore(w) : rows[i].score = s}
      BY <2>1
    <2>3. Score(g, s)
      BY <1>1, <2>2
    <2>4. FloorOf(g) = IF s > 9 THEN 9 ELSE s
      <3>1. \A i \in g : rows[i].score = s
        BY <2>3
      <3>2. (CHOOSE i \in g : TRUE) \in g
        BY <2>3
      <3>3. QED
        BY <2>3, <3>1, <3>2
    <2>5. QED
      BY <2>1, <2>3, <2>4
  <1>3. ASSUME NEW a \in MonitorScores(w), NEW b \in MonitorScores(w),
               a.floor = b.floor, a # b
        PROVE  a.floor = 9
    <2>1. PICK g, s : /\ Score(g, s) /\ a = [floor |-> FloorOf(g), calls |-> g]
                      /\ FloorOf(g) = IF s > 9 THEN 9 ELSE s
      BY <1>2
    <2>2. PICK h, t : /\ Score(h, t) /\ b = [floor |-> FloorOf(h), calls |-> h]
                      /\ FloorOf(h) = IF t > 9 THEN 9 ELSE t
      BY <1>2
    <2> HIDE DEF FloorOf
    <2>3. a.floor = FloorOf(g) /\ b.floor = FloorOf(h)
      BY <2>1, <2>2
    <2>4. s # t
      <3>1. s = t => g = h
        BY <2>1, <2>2
      <3>2. QED
        BY <1>3, <2>1, <2>2, <3>1
    <2>5. QED
      BY <1>3, <2>1, <2>2, <2>3, <2>4
  <1>4. QED
    BY <1>3

LEMMA MonitorAgrees ==
    ASSUME ReportsAssumption, rows \in Seq(RowType), NEW w
    PROVE  MonitorAddsUp(w)
  <1>1. PICK M, C : M = Monitored(w) /\ C = Charted(w)
    OBVIOUS
  <1>2. /\ M \in SUBSET All /\ C \in SUBSET All
        /\ IsFiniteSet(C) /\ Cardinality(C) \in Nat
    <2>1. M \in SUBSET All /\ C \in SUBSET All
      BY <1>1, RowsOfWindow
    <2>2. IsFiniteSet(C)
      BY <2>1, RowsKnown, FS_Subset
    <2>3. QED
      BY <2>1, <2>2, FS_CardinalityType
  <1>3. Together(ChartedTimes(w), Cardinality) = Cardinality(C)
    <2>1. PICK key, T : /\ key = [i \in M |-> Floor(rows[i].at, MonitorWidth(w))]
                        /\ T = MonitorTimes(w)
      OBVIOUS
    <2>2. GroupedBy(T, M, key)
      BY <1>1, <1>2, <2>1, ByTimeGroups DEF MonitorTimes
    <2>3. C = ExcludeInvalidModel(M)
      BY <1>1 DEF Charted
    <2>4. GroupedBy(ChartedTimes(w), C, key)
      <3>1. ChartedTimes(w) = [t \in DOMAIN T |-> ExcludeInvalidModel(T[t])]
        BY <2>1 DEF ChartedTimes
      <3>2. \A t \in DOMAIN T : ExcludeInvalidModel(T[t]) = OfKey(C, key, t)
        BY <2>2, <2>3 DEF GroupedBy, OfKey, ExcludeInvalidModel
      <3>3. C \subseteq M
        BY <2>3 DEF ExcludeInvalidModel
      <3>4. QED
        BY <2>2, <3>1, <3>2, <3>3 DEF GroupedBy
    <2>5. QED
      BY <1>2, <2>4, GroupsAddUp
  <1>4. Together(MonitorModels(w), Cardinality) <= Cardinality(C)
    <2>1. PICK R, key : /\ R = {i \in C : rows[i].chosen # "none"}
                        /\ key = [i \in R |-> rows[i].chosen]
      OBVIOUS
    <2>2. R \in SUBSET C /\ R \in SUBSET All /\ IsFiniteSet(R) /\ Cardinality(R) <= Cardinality(C)
      <3>1. R \in SUBSET C /\ R \in SUBSET All
        BY <1>2, <2>1
      <3>2. QED
        BY <1>2, <3>1, FS_Subset
    <2>3. GroupedBy(MonitorModels(w), R, key)
      <3>1. IsFiniteSet({key[i] : i \in R})
        BY <2>2, FiniteImage
      <3>2. {key[i] : i \in R} = DOMAIN MonitorModels(w)
        BY <1>1, <2>1 DEF MonitorModels
      <3>3. \A k \in DOMAIN MonitorModels(w) : MonitorModels(w)[k] = OfKey(R, key, k)
        BY <1>1, <2>1 DEF MonitorModels, OfKey
      <3>4. QED
        BY <3>1, <3>2, <3>3 DEF GroupedBy
    <2>4. Together(MonitorModels(w), Cardinality) = Cardinality(R)
      BY <2>2, <2>3, GroupsAddUp
    <2>5. QED
      BY <2>2, <2>4
  <1>5. MonitorErrors(w) \cap C = Erred(C)
    <2>1. \A i \in C : rows[i].status \in Statuses /\ i \in M
      BY <1>1, <1>2, RowsKnown, RowsOfWindow
    <2>2. QED
      BY <1>1, <2>1 DEF MonitorErrors, Erred, Statuses
  <1>6. QED
    BY <1>1, <1>3, <1>4, <1>5, ScoresAgree, PercentilesGrow DEF MonitorAddsUp

-----------------------------------------------------------------------------
(* The dashboard: who registered before the window did so no later than the *)
(* day of anybody in it.                                                    *)

LEMMA TrendsGroup ==
    ASSUME rows \in Seq(RowType), NEW w
    PROVE  \E key : GroupedBy(UsageTrends(w), Charted(w), key)
  <1>1. Charted(w) \in SUBSET All
    BY RowsOfWindow
  <1>2. \E u : UsageTrends(w) = ByTime(Charted(w), u)
    BY DEF UsageTrends, DailyStats
  <1>3. QED
    BY <1>1, <1>2, ByTimeGroups

LEMMA GrowthCounts ==
    ASSUME ReportsAssumption, joined \in Seq(Nat), NEW w, WindowOK(w),
           \A u \in DOMAIN joined : joined[u] < w.to,
           NEW d \in DOMAIN UserGrowth(w)
    PROVE  UserGrowth(w)[d] = Cardinality({u \in DOMAIN joined : Floor(joined[u], Day) <= d})
  <1>1. PICK J, R : J = DOMAIN joined /\ R = Registered(w)
    OBVIOUS
  <1>2. /\ IsFiniteSet(J) /\ Cardinality(J) = Len(joined) /\ Len(joined) \in Nat
        /\ \A u \in J : joined[u] \in Nat
    <2>1. J = 1..Len(joined) /\ Len(joined) \in Nat /\ \A u \in J : joined[u] \in Nat
      BY <1>1
    <2>2. QED
      BY <2>1, FS_Interval
  <1>3. PICK A, E : A = {u \in R : Floor(joined[u], Day) <= d} /\ E = J \ R
    OBVIOUS
  <1>4. /\ R \in SUBSET J /\ A \in SUBSET J /\ E \in SUBSET J
        /\ R = {u \in J : w.from <= joined[u] /\ joined[u] < w.to}
    BY <1>1, <1>3 DEF Registered, Within
  <1>5. UserGrowth(w)[d] = Len(joined) - Cardinality(R) + Cardinality(A)
    BY <1>1, <1>3 DEF UserGrowth, UsersBefore
  <1>6. \E v \in R : d = Floor(joined[v], Day)
    BY <1>1 DEF UserGrowth
  <1>7. \A u \in E : Floor(joined[u], Day) <= d
    <2>1. PICK v \in R : d = Floor(joined[v], Day)
      BY <1>6
    <2>2. Day \in Nat \ {0} /\ w.from \in Int
      BY DEF ReportsAssumption, WindowOK
    <2>3. ASSUME NEW u \in E
          PROVE  Floor(joined[u], Day) <= d
      <3>1. PICK s, t : s = joined[u] /\ t = joined[v]
        OBVIOUS
      <3>2. s \in Int /\ t \in Int /\ w.from <= t /\ ~(w.from <= s)
        BY <1>1, <1>2, <1>3, <1>4, <3>1
      <3>3. s <= t
        BY <2>2, <3>2
      <3>4. QED
        BY <2>1, <2>2, <3>1, <3>2, <3>3, FloorGrows
    <2>4. QED
      BY <2>3
  <1>8. {u \in J : Floor(joined[u], Day) <= d} = A \cup E /\ A \cap E = {}
    BY <1>3, <1>4, <1>7
  <1>9. /\ IsFiniteSet(R) /\ IsFiniteSet(A) /\ IsFiniteSet(E)
        /\ Cardinality(R) \in Nat /\ Cardinality(A) \in Nat /\ Cardinality(E) \in Nat
    <2>1. IsFiniteSet(R) /\ IsFiniteSet(A) /\ IsFiniteSet(E)
      BY <1>2, <1>4, FS_Subset
    <2>2. QED
      BY <2>1, FS_CardinalityType
  <1>10. Cardinality(A \cup E) = Cardinality(A) + Cardinality(E)
    BY <1>8, <1>9, CountOfBoth
  <1>11. Cardinality(J) = Cardinality(R) + Cardinality(E)
    <2>1. R \cup E = J /\ R \cap E = {}
      BY <1>3, <1>4
    <2>2. Cardinality(R \cup E) = Cardinality(R) + Cardinality(E)
      BY <1>9, <2>1, CountOfBoth
    <2>3. QED
      BY <2>1, <2>2
  <1>12. Len(joined) - Cardinality(R) + Cardinality(A) = Cardinality(A \cup E)
    BY <1>2, <1>9, <1>10, <1>11
  <1>13. {u \in DOMAIN joined : Floor(joined[u], Day) <= d} = A \cup E
    BY <1>1, <1>8
  <1>14. QED
    BY <1>5, <1>12, <1>13

LEMMA DashboardAgrees ==
    ASSUME ReportsAssumption, rows \in Seq(RowType), joined \in Seq(Nat), NEW w, WindowOK(w)
    PROVE  DashboardAddsUp(w)
  <1>1. PICK C, S, U : C = Charted(w) /\ S = Succeeded(C) /\ U = UsageTrends(w)
    OBVIOUS
  <1>2. C \in SUBSET All /\ S \in SUBSET All
    BY <1>1, RowsOfWindow
  <1>3. PICK key : GroupedBy(U, C, key)
    BY <1>1, TrendsGroup
  <1>4. Together(U, Cardinality) = Cardinality(C) /\ Together(U, CostOf) = CostOf(C)
    BY <1>2, <1>3, GroupsAddUp
  <1>5. /\ Together(ModelCalls(w), Cardinality) = Cardinality(C)
        /\ Together(ModelCalls(w), CostOf) = CostOf(C)
    BY <1>1, <1>2, ByModelGroups, GroupsAddUp DEF ModelCalls
  <1>6. UNION {U[t] : t \in DOMAIN U} = C
    BY <1>3 DEF GroupedBy, OfKey
  <1>7. Together(RpmTrend(w, Hour), Cardinality) = Cardinality(S)
    BY <1>1, <1>2, ByTimeGroups, GroupsAddUp DEF RpmTrend
  <1>8. SumFunction(TpmTrend(w, Hour)) = TokensOf(S)
    <2>1. Together(ByTime(S, Hour), TokensOf) = TokensOf(S)
      BY <1>2, ByTimeGroups, GroupsAddUp
    <2>2. SumFunction(TpmTrend(w, Hour)) = Together(ByTime(S, Hour), TokensOf)
      BY <1>1 DEF TpmTrend, Together
    <2>3. QED
      BY <2>1, <2>2
  <1>9. ASSUME \A u \in DOMAIN joined : joined[u] < w.to, NEW d \in DOMAIN UserGrowth(w)
        PROVE  UserGrowth(w)[d] = Cardinality({u \in DOMAIN joined : Floor(joined[u], Day) <= d})
    BY <1>9, GrowthCounts
  <1>10. /\ Together(UsageTrends(w), Cardinality) = Together(ModelCalls(w), Cardinality)
         /\ Together(UsageTrends(w), CostOf) = Together(ModelCalls(w), CostOf)
    BY <1>1, <1>4, <1>5
  <1>11. Together(RpmTrend(w, Hour), Cardinality)
           = Cardinality(Succeeded(UNION {UsageTrends(w)[t] : t \in DOMAIN UsageTrends(w)}))
    BY <1>1, <1>6, <1>7
  <1>12. QED
    BY <1>1, <1>8, <1>9, <1>10, <1>11 DEF DashboardAddsUp

LEMMA FiguresOfRows ==
    ASSUME ReportsAssumption, rows \in Seq(RowType), joined \in Seq(Nat), present \in Nat
    PROVE  FiguresAgree
  <1>1. ASSUME NEW w \in {AnalyticsWindow(q, present) : q \in Questions} \ {Refused}
        PROVE  AnalyticsAddUp(w) /\ DashboardAddsUp(w)
    BY WindowsAre, AnalyticsAgree, DashboardAgrees
  <1>2. ASSUME NEW w \in {MonitorWindow(q, present) : q \in Questions} \ {Refused}
        PROVE  MonitorAddsUp(w)
    BY MonitorAgrees
  <1>3. ASSUME NEW q \in Questions, q.from = None, q.to = None
        PROVE  OnGrid(AnalyticsWindow(q, present))
    <2>1. q.preset \in Presets
      BY DEF Questions
    <2>2. AnalyticsWindow(q, present) = PresetWindow(q.preset, present)
      BY <1>3 DEF AnalyticsWindow, UserWindow, AdminWindow, ShownWindow
    <2>3. QED
      BY <2>1, <2>2, PresetsAreOnGrid
  <1>4. ASSUME NEW q \in Questions, q.from # None, q.to # None
        PROVE  /\ SummaryInRange(q, present) = Charted(CustomWindow(q.from, q.to))
               /\ NewUsersInRange(q, present) = Registered(CustomWindow(q.from, q.to))
    <2>1. PICK a, b : a = q.from /\ b = q.to /\ a \in Int /\ b \in Int
      BY DEF Questions, ReportsAssumption, None
    <2>2. \A t \in Nat : InRange(q, present, t) <=> Within(CustomWindow(a, b), t)
      BY <1>4, <2>1 DEF InRange, Within, CustomWindow
    <2>3. \A i \in All : rows[i].at \in Nat
      BY RowsKnown
    <2>4. \A u \in DOMAIN joined : joined[u] \in Nat
      OBVIOUS
    <2>5. SummaryInRange(q, present) = Charted(CustomWindow(a, b))
      BY <2>2, <2>3 DEF SummaryInRange, Charted, Monitored, ExcludeInvalidModel
    <2>6. NewUsersInRange(q, present) = Registered(CustomWindow(a, b))
      BY <2>2, <2>4 DEF NewUsersInRange, Registered
    <2>7. QED
      BY <2>1, <2>5, <2>6
  <1>5. QED
    BY <1>1, <1>2, <1>3, <1>4 DEF FiguresAgree

(* Whatever rows there are, and whoever has registered, the figures that    *)
(* are shown of one window agree: each query counts every row of it once,   *)
(* under the key it groups by.                                              *)
THEOREM FiguresAddUp == ReportsSpec => []FiguresAgree
  <1>1. PagesInv => FiguresAgree
    BY ReportsAssumption, FiguresOfRows DEF PagesInv, ReportsTypeOK
  <1>2. QED
    BY <1>1, PagesKept, PTL
=============================================================================

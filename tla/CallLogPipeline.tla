-------------------------- MODULE CallLogPipeline --------------------------
(***************************************************************************)
(* How a call gets from the handler in router-service to its row, its      *)
(* charge and its place in the statistics in user-service: the buffer and  *)
(* the batch endpoint, joined by an HTTP request that is not retried by    *)
(* the transport (max_retries=0), may not arrive, and may be given up      *)
(* while user-service goes on working.                                     *)
(***************************************************************************)
EXTENDS CallLogBatch

vars == <<call, entries, batch, flusher, rows, charged, counted, work>>

Init == InitBuffer /\ InitBatch

Awaited(w) == work[w].waited

(* user-service gets the batch of the flush, if it is not too long.        *)
Receive(w) ==
    /\ Flushing
    /\ \A v \in Workers : ~Awaited(v)
    /\ Busy(w, "idle")
    /\ Cardinality(Keyed(batch)) <= MaxBatch
    /\ work' = [work EXCEPT ![w] = NewTransaction(batch)]
    /\ UNCHANGED <<rows, charged, counted>>
    /\ UNCHANGED bufferVars

(* No connection, or the batch is refused for its length (422).            *)
Refused ==
    /\ \A v \in Workers : ~Awaited(v)
    /\ FlushFail
    /\ UNCHANGED batchVars

(* The router waits for 10 s at most; user-service does not stop for that. *)
Timeout(w) ==
    /\ Awaited(w)
    /\ FlushFail
    /\ work' = [work EXCEPT ![w].waited = FALSE]
    /\ UNCHANGED <<rows, charged, counted>>

Answer(w) ==
    /\ CountBatch(w)
    /\ IF Awaited(w) THEN FlushOk ELSE UNCHANGED bufferVars

Fail(w) ==
    /\ AbortBatch(w)
    /\ IF Awaited(w) THEN FlushFail ELSE UNCHANGED bufferVars

(* One step of the transaction of w. *)
Work(w) ==
    /\ \/ \E r \in Requests : \/ UpdateRow(w, r) \/ InsertRow(w, r)
                              \/ DuplicateRow(w, r) \/ SkipEntry(w, r)
       \/ CommitBatch(w)
    /\ UNCHANGED bufferVars

Handler(r) ==
    /\ Record(r) \/ Route(r) \/ \E o \in Outcomes : Finish(r, o)
    /\ UNCHANGED batchVars

Flush == StartFlush /\ UNCHANGED batchVars

Shutdown ==
    /\ Stop
    /\ work' = [w \in Workers |-> [work[w] EXCEPT !.waited = FALSE]]
    /\ UNCHANGED <<rows, charged, counted>>

Next ==
    \/ \E r \in Requests : Handler(r)
    \/ Flush
    \/ \E w \in Workers : Receive(w) \/ Timeout(w) \/ Work(w)
                          \/ Answer(w) \/ Fail(w)
    \/ Refused
    \/ Shutdown

Spec == Init /\ [][Next]_vars

(* The background task and the workers do not stop on their own.  Nothing  *)
(* is assumed of the handlers, nor that anything fails.                    *)
Fairness ==
    /\ WF_vars(Flush)
    /\ \A w \in Workers : WF_vars(Receive(w)) /\ WF_vars(Work(w) \/ Answer(w))

LiveSpec == Spec /\ Fairness

-----------------------------------------------------------------------------
(* Properties. *)

Dictionary == [of : [Requests -> Entry \cup {None}], order : Seq(Requests)]

(* The order of a dictionary lists its keys once each. *)
DictOK(d) ==
    /\ d \in Dictionary
    /\ {d.order[i] : i \in DOMAIN d.order} = Keyed(d)
    /\ \A i, j \in DOMAIN d.order : d.order[i] = d.order[j] => i = j

Transaction ==
    [stage : {"entries"}, waited : BOOLEAN, todo : Dictionary,
     seen : SUBSET Requests, seenBilled : SUBSET Requests,
     wrote : [Requests -> Rows], inserted : SUBSET Requests,
     bills : SUBSET Requests, finalized : SUBSET Requests,
     loaded : SUBSET Requests, expired : SUBSET Requests]

Counting == [stage : {"stats"}, waited : BOOLEAN,
             finalized : SUBSET Requests, expired : SUBSET Requests]

(* Every variable has its type, and every dictionary is one.               *)
TypeOK ==
    /\ call \in [Requests -> {"new", "recorded", "routed"} \cup Outcomes]
    /\ DictOK(entries) /\ DictOK(batch)
    /\ flusher \in {"sleeping", "flushing", "stopping", "stopped"}
    /\ rows \in [Requests -> Rows]
    /\ charged \subseteq Requests
    /\ counted \in [Requests -> Nat]
    /\ work \in [Workers -> {IdleWorker} \cup Transaction \cup Counting]
    /\ \A w \in Workers : Busy(w, "entries") => DictOK(work[w].todo)

Promise == INSTANCE CallLogSpec WITH
              outcome <- [r \in Requests |->
                             IF call[r] \in Outcomes THEN call[r]
                             ELSE "pending"]

(* Whatever is retried, delivered twice, delivered late or rolled back, a  *)
(* row only moves on to the outcome its handler reported, and a call is    *)
(* charged only with or after a row that says it was paid.                 *)
KeepsPromise == Promise!Spec

HasOutcome(d, r) == d.of[r] # None /\ d.of[r].status # "none"
InBuffer(r) == HasOutcome(entries, r) \/ HasOutcome(batch, r)

(* Once the handler has reported it, the outcome of a call stays with the  *)
(* router until user-service has answered for it, or it has been tried     *)
(* MaxRetries + 1 times, or a full buffer evicts it as the oldest entry,   *)
(* or the process stops.  Putting a failed batch back never loses it to    *)
(* an entry that came since.                                               *)
OutcomeKept ==
    [][\A r \in Requests :
          InBuffer(r) /\ ~InBuffer(r)' =>
             \/ \E w \in Workers : Awaited(w) /\ Answer(w)
             \/ HasOutcome(batch, r) /\ batch.of[r].retries = MaxRetries
             \/ Full /\ r = Head(entries.order)
             \/ flusher' \in {"stopping", "stopped"}]_vars

(* A call is counted into usage_stats at most once for every time its      *)
(* outcome is sent, so at most MaxRetries + 1 times; it is NOT counted at  *)
(* most once.                                                              *)
CountedAtMost == \A r \in Requests : counted[r] <= MaxRetries + 1

(* Every call of a batch that was answered with success, and that had what *)
(* its row needs, has a row: the router takes the answer for the batch as  *)
(* a whole, and logs "flushed %d call-log entries".                        *)
AckIsLogged ==
    [][\A w \in Workers : Awaited(w) /\ Answer(w) =>
          \A r \in Keyed(batch) : batch.of[r].opened => rows[r] # "absent"]_vars

(* Nothing goes wrong beyond one failure of an entry: no two batches are   *)
(* worked on at a time, each entry in flight has what its row needs or a   *)
(* row, batches fit, the buffer is not full and the router is running.     *)
Calm ==
    /\ Running /\ ~Full
    /\ Cardinality({w \in Workers : ~Busy(w, "idle")}) <= 1
    /\ Cardinality(Keyed(batch)) <= MaxBatch
    /\ \A r \in Keyed(batch) : /\ batch.of[r].retries < MaxRetries
                               /\ batch.of[r].opened \/ rows[r] # "absent"

Settled(r) ==
    /\ rows[r] = call[r]
    /\ call[r] = "paid" /\ Owner[r] \notin Broke => r \in charged

(* As long as nothing goes wrong beyond that, every reported outcome is    *)
(* eventually in the row of its call, and a paid call is charged, also     *)
(* when the first attempt to send it failed before, in or after the work   *)
(* of user-service.                                                        *)
EventuallySettled ==
    []Calm => \A r \in Requests : (call[r] \in Outcomes) ~> Settled(r)
=============================================================================

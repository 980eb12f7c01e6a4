---------------------------- MODULE CallLogBuffer ----------------------------
(***************************************************************************)
(* The call-log buffer of router-service, and the request handlers that    *)
(* feed it.  A handler records a call when it starts, adds routing fields, *)
(* and reports the outcome at the end; a background task sends what has    *)
(* gathered to user-service every few seconds, one batch at a time, and    *)
(* puts a batch that failed back.  All of it is in the memory of one       *)
(* router process, and each of the critical sections below runs without    *)
(* giving the event loop back, so it is one step.                          *)
(***************************************************************************)
EXTENDS Naturals, Sequences, FiniteSets

CONSTANTS Requests,    \* request ids; each names one call
          MaxBuffer,   \* CALLLOG_MAX_BUFFER
          MaxRetries,  \* CALLLOG_MAX_RETRIES
          None

VARIABLES
    call,     \* call[r] : how far the handler of r has come
    entries,  \* self._entries, a dictionary
    batch,    \* the dictionary being flushed
    flusher   \* the background task, and then stop()

bufferVars == <<call, entries, batch, flusher>>

(* What a handler reports: status 200 with a positive cost, or anything    *)
(* else (200 without a cost, or 402, 429, 499, 502, ...).                  *)
Outcomes == {"paid", "unpaid"}

(* opened: has the fields of create_call_log, user_id and model_name among *)
(* them.  status: "none" until an update brings one.  The only update that *)
(* has a status is the last, so has_billing is status = "paid", and the    *)
(* action field of the request follows from status too.                    *)
Entry == [opened : BOOLEAN, status : {"none"} \cup Outcomes,
          retries : 0..MaxRetries]

ASSUME BufferAssumption == /\ MaxBuffer \in Nat \ {0}
                           /\ MaxRetries \in Nat
                           /\ None \notin Entry

-----------------------------------------------------------------------------
(* Dictionaries: what each key maps to, and the keys in insertion order.   *)

Empty == [of |-> [r \in Requests |-> None], order |-> <<>>]
Keyed(d) == {r \in Requests : d.of[r] # None}

Put(d, r, e) ==
    [of    |-> [d.of EXCEPT ![r] = e],
     order |-> IF d.of[r] = None THEN Append(d.order, r) ELSE d.order]

DropOldest(d) ==
    [of |-> [d.of EXCEPT ![Head(d.order)] = None], order |-> Tail(d.order)]

(* The keys of S, in the order of s.                                       *)
Those(s, S) ==
    LET kept[i \in 0..Len(s)] ==
            IF i = 0 THEN <<>>
            ELSE IF s[i] \in S THEN Append(kept[i - 1], s[i])
            ELSE kept[i - 1]
    IN  kept[Len(s)]

(* d, with the keys of S in the order of e appended. *)
PutAll(d, e, S) ==
    [of    |-> [r \in Requests |-> IF r \in S THEN e.of[r] ELSE d.of[r]],
     order |-> d.order \o Those(e.order, S)]

InitBuffer ==
    /\ call = [r \in Requests |-> "new"]
    /\ entries = Empty
    /\ batch = Empty
    /\ flusher = "sleeping"

Running  == flusher \in {"sleeping", "flushing"}
Flushing == flusher \in {"flushing", "stopping"}

-----------------------------------------------------------------------------
(* The handlers. *)

Full == Cardinality(Keyed(entries)) >= MaxBuffer

(* CallLogBuffer.record. *)
Record(r) ==
    /\ Running
    /\ call[r] = "new"
    /\ call' = [call EXCEPT ![r] = "recorded"]
    /\ entries' = Put(IF Full THEN DropOldest(entries) ELSE entries, r,
                      [opened |-> TRUE, status |-> "none", retries |-> 0])
    /\ UNCHANGED <<batch, flusher>>

(* CallLogBuffer.update.  The entry may be gone: flushed, or evicted.      *)
Update(r, status) ==
    entries' = Put(entries, r,
        IF entries.of[r] = None
        THEN [opened |-> FALSE, status |-> status, retries |-> 0]
        ELSE [entries.of[r] EXCEPT !.status =
                                   IF status = "none" THEN @ ELSE status])

(* The call is routed: an update without a status. *)
Route(r) ==
    /\ Running
    /\ call[r] = "recorded"
    /\ call' = [call EXCEPT ![r] = "routed"]
    /\ Update(r, "none")
    /\ UNCHANGED <<batch, flusher>>

(* The handler ends.  Without a route it can only have failed (no balance, *)
(* no route, every channel rate-limited).                                  *)
Finish(r, outcome) ==
    /\ Running
    /\ call[r] = "routed" \/ (call[r] = "recorded" /\ outcome = "unpaid")
    /\ call' = [call EXCEPT ![r] = outcome]
    /\ Update(r, outcome)
    /\ UNCHANGED <<batch, flusher>>

-----------------------------------------------------------------------------
(* Flushing. *)

(* The interval has passed: the dictionary is swapped for an empty one.    *)
StartFlush ==
    /\ flusher = "sleeping"
    /\ entries # Empty
    /\ batch' = entries
    /\ entries' = Empty
    /\ flusher' = "flushing"
    /\ UNCHANGED call

FlushEnds ==
    /\ Flushing
    /\ batch' = Empty
    /\ flusher' = IF flusher = "flushing" THEN "sleeping" ELSE "stopped"
    /\ UNCHANGED call

FlushOk == FlushEnds /\ UNCHANGED entries

(* Entries of the batch that may be tried again. *)
Retriable == {r \in Keyed(batch) : batch.of[r].retries < MaxRetries}

Retried == [batch EXCEPT !.of = [r \in Requests |->
               IF r \in Retriable
               THEN [batch.of[r] EXCEPT !.retries = @ + 1]
               ELSE batch.of[r]]]

(* Variant: a retried entry replaces the one that came since.              *)
FlushFailOverwriting ==
    /\ FlushEnds
    /\ entries' = PutAll(entries, Retried, Retriable)

(* Variant: the retry count starts again.                                  *)
FlushFailUncounted ==
    /\ FlushEnds
    /\ entries' = PutAll(entries, batch, Keyed(batch) \ Keyed(entries))

(* The failed batch goes back: not what has been retried enough, and not   *)
(* what has an entry of its own again.                                     *)
FlushFail ==
    /\ FlushEnds
    /\ entries' = PutAll(entries, Retried, Retriable \ Keyed(entries))

(* stop(), at shutdown, when no handler runs: the task is cancelled, and a *)
(* batch it is waiting for is forgotten; the rest is flushed once.         *)
Stop ==
    /\ Running
    /\ \A r \in Requests : call[r] \in {"new"} \cup Outcomes
    /\ batch' = entries
    /\ entries' = Empty
    /\ flusher' = IF entries = Empty THEN "stopped" ELSE "stopping"
    /\ UNCHANGED call
=============================================================================

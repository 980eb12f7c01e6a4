---------------------------- MODULE CallLogBatch ----------------------------
(***************************************************************************)
(* POST /internal/call-logs/batch of user-service.  A worker serves one    *)
(* batch in one database transaction: it walks the entries, inserting or   *)
(* updating api_call_logs rows and billing the paid ones, commits, and     *)
(* then counts the finished calls into usage_stats in a second one.        *)
(*                                                                         *)
(* A transaction reads from the snapshot of its first read, plus what it   *)
(* has written itself.  An INSERT of a request id waits for another        *)
(* transaction that has inserted it, and fails if that one commits.  The   *)
(* handler rolls the WHOLE transaction back on an insert that fails, and   *)
(* goes on with the entry and the rest of the batch in a new one.          *)
(***************************************************************************)
EXTENDS CallLogBuffer

CONSTANTS Workers,   \* requests user-service is serving at a time
          MaxBatch,  \* the longest batch it accepts (500)
          Owner,     \* Owner[r] : the user of the call
          Broke      \* users whose balance does not cover a call

ASSUME BatchAssumption == MaxBatch \in Nat /\ IsFiniteSet(Workers)

VARIABLES
    rows,     \* rows[r] : "absent", or the status of the committed row
    charged,  \* calls with a committed CONSUME row in the ledger
    counted,  \* counted[r] : how often usage_stats counted the call
    work      \* work[w] : what the worker is doing

batchVars == <<rows, charged, counted, work>>

(* todo: entries not yet handled.  seen, seenBilled: the snapshot.  wrote: *)
(* new statuses of the rows it has written.  inserted: the new ones among  *)
(* those.  bills: ledger rows it has written.  finalized: finalized_logs;  *)
(* loaded: those of them that were read, not inserted; expired: those of   *)
(* them that a rollback has expired.  waited: the router is still waiting  *)
(* for the answer.                                                         *)
IdleWorker == [stage |-> "idle", waited |-> FALSE]

Rows == {"absent", "none"} \cup Outcomes

(* The snapshot, of what the transaction may still read. *)
View(t) ==
    [t EXCEPT !.seen = {r \in Keyed(t.todo) : rows[r] # "absent"},
              !.seenBilled = Keyed(t.todo) \cap charged]

NewTransaction(todo) ==
    View([stage |-> "entries", waited |-> TRUE, todo |-> todo,
          seen |-> {}, seenBilled |-> {},
          wrote |-> [r \in Requests |-> "absent"],
          inserted |-> {}, bills |-> {},
          finalized |-> {}, loaded |-> {}, expired |-> {}])

InitBatch ==
    /\ rows = [r \in Requests |-> "absent"]
    /\ charged = {}
    /\ counted = [r \in Requests |-> 0]
    /\ work = [w \in Workers |-> IdleWorker]

Busy(w, stage) == work[w].stage = stage
Peers(w) == {v \in Workers \ {w} : work[v].stage = "entries"}

-----------------------------------------------------------------------------
(* One entry of a batch. *)

(* session.rollback(): nothing written remains.  A finalized log that was  *)
(* read from the database is expired, one that was inserted is not.        *)
RolledBack(t) ==
    View([t EXCEPT !.wrote = [r \in Requests |-> "absent"],
                   !.inserted = {}, !.bills = {}, !.expired = t.loaded])

(* BalanceService.consume_for_call_log: once per call, if the user can.    *)
Billable(t, r) ==
    /\ t.todo.of[r].status = "paid"
    /\ r \notin t.seenBilled \cup t.bills
    /\ Owner[r] \notin Broke

(* Variant: a status that is not in the entry clears the column.           *)
SetStatusOrNull(t, r) ==
    [t EXCEPT !.wrote[r] = t.todo.of[r].status]

(* A field that is not in the entry leaves its column alone.               *)
SetStatus(t, r) ==
    LET status == t.todo.of[r].status
    IN  [t EXCEPT !.wrote[r] = IF status = "none" /\ r \notin t.inserted
                               THEN @ ELSE status]

(* The fields of the entry are set on the row; a final one is remembered   *)
(* for the statistics, and a paid one is billed.                           *)
Written(t, r) ==
    LET final == IF t.todo.of[r].status = "none" THEN {} ELSE {r}
    IN  [SetStatus(t, r) EXCEPT
            !.finalized = @ \cup final,
            !.loaded = @ \cup (final \ t.inserted),
            !.bills = IF Billable(t, r) THEN @ \cup {r} ELSE @,
            !.todo = DropOldest(t.todo)]

(* FOR UPDATE on the user waits for transactions that billed the user or   *)
(* inserted a row that refers to it.                                       *)
UserFree(w, t, r) ==
    Billable(t, r) =>
        \A v \in Peers(w) : \A q \in work[v].inserted \cup work[v].bills :
            Owner[q] # Owner[r]

(* The ledger row must be new, also to transactions not in the snapshot;   *)
(* if it is not, Abort is what happens.                                    *)
NewCharge(t, r) == Billable(t, r) => r \notin charged

Write(w, t, r) ==
    /\ UserFree(w, t, r)
    /\ NewCharge(t, r)
    /\ work' = [work EXCEPT ![w] = Written(t, r)]
    /\ UNCHANGED <<rows, charged, counted>>

Handles(w, r) ==
    /\ Busy(w, "entries")
    /\ work[w].todo.order # <<>>
    /\ r = Head(work[w].todo.order)

Visible(w, r) == r \in work[w].seen \cup work[w].inserted

(* The row is there. *)
UpdateRow(w, r) ==
    /\ Handles(w, r) /\ Visible(w, r)
    /\ Write(w, work[w], r)

(* Variant: a new row ends the entry, before the paid call is billed.      *)
InsertRowOnly(w, r) ==
    /\ Handles(w, r) /\ ~Visible(w, r)
    /\ work[w].todo.of[r].opened
    /\ rows[r] = "absent"
    /\ work' = [work EXCEPT ![w] =
                  [SetStatus([@ EXCEPT !.inserted = @ \cup {r}], r) EXCEPT
                      !.todo = DropOldest(@)]]
    /\ UNCHANGED <<rows, charged, counted>>

(* It is not, and the entry has what a row needs.                          *)
InsertRow(w, r) ==
    /\ Handles(w, r) /\ ~Visible(w, r)
    /\ work[w].todo.of[r].opened
    /\ rows[r] = "absent"
    /\ \A v \in Peers(w) :
          /\ r \notin work[v].inserted
          /\ \A q \in work[v].bills : Owner[q] # Owner[r]
    /\ Write(w, [work[w] EXCEPT !.inserted = @ \cup {r}], r)

(* The insert fails, for the row another transaction has committed since   *)
(* the snapshot.  After the rollback the row is seen, and UpdateRow is     *)
(* next.                                                                   *)
DuplicateRow(w, r) ==
    /\ Handles(w, r) /\ ~Visible(w, r)
    /\ rows[r] # "absent"
    /\ work' = [work EXCEPT ![w] = RolledBack(@)]
    /\ UNCHANGED <<rows, charged, counted>>

(* The insert fails, for want of user_id and model_name; after the         *)
(* rollback there is still no row, and the entry is skipped.               *)
SkipEntry(w, r) ==
    /\ Handles(w, r) /\ ~Visible(w, r)
    /\ ~work[w].todo.of[r].opened
    /\ rows[r] = "absent"
    /\ work' = [work EXCEPT ![w] =
                  [RolledBack(work[w]) EXCEPT !.todo = DropOldest(@)]]
    /\ UNCHANGED <<rows, charged, counted>>

-----------------------------------------------------------------------------
(* The two commits. *)

CommitBatch(w) ==
    /\ Busy(w, "entries")
    /\ work[w].todo.order = <<>>
    /\ rows' = [r \in Requests |-> IF work[w].wrote[r] = "absent" THEN rows[r]
                                   ELSE work[w].wrote[r]]
    /\ charged' = charged \cup work[w].bills
    /\ work' = [work EXCEPT ![w] =
                  [stage |-> "stats", waited |-> @.waited,
                   finalized |-> @.finalized, expired |-> @.expired]]
    /\ UNCHANGED counted

(* UsageStatService.upsert_from_log of every finalized log, and the        *)
(* answer.  Reading an expired log raises.                                 *)
CountBatch(w) ==
    /\ Busy(w, "stats")
    /\ work[w].expired = {}
    /\ counted' = [r \in Requests |->
                      counted[r] + IF r \in work[w].finalized THEN 1 ELSE 0]
    /\ work' = [work EXCEPT ![w] = IdleWorker]
    /\ UNCHANGED <<rows, charged>>

(* An exception nothing catches: a ledger row that is there already, a     *)
(* deadlock or lock-wait timeout, an expired log, a lost connection, the   *)
(* death of the process.                                                   *)
AbortBatch(w) ==
    /\ work[w].stage # "idle"
    /\ work' = [work EXCEPT ![w] = IdleWorker]
    /\ UNCHANGED <<rows, charged, counted>>
=============================================================================

----------------------------- MODULE UsageStats -----------------------------
(* One hourly bucket of usage_stats (user-service:                          *)
(* services/usage_stat_service.py).                                         *)
(*                                                                          *)
(* A batch of call logs commits the outcomes, then adds its calls to the    *)
(* bucket in a second transaction: it reads the bucket, adds in memory and  *)
(* writes the sum at its commit.  It adds them whatever their rows said     *)
(* before, so a batch that the router sends again, after a timeout, is      *)
(* counted again.  Once an hour a job reads the rows of the hour, counts    *)
(* them all, those in flight too, and writes that number if it differs from *)
(* the one it has read.  Neither locks.                                     *)
EXTENDS Naturals, FiniteSetsExt

CONSTANTS Logged,     \* calls of the hour, of one user, key and model
          Batches,    \* requests that settle calls
          HourlyJob,  \* the job
          JobBudget,  \* bound: runs of the job
          BatchBudget \* bound: batches that arrive, those sent again included

ASSUME UsageAssumption ==
    /\ IsFiniteSet(Logged) /\ HourlyJob \notin Batches
    /\ JobBudget \in Nat /\ BatchBudget \in Nat

VARIABLES
    outcome,  \* outcome[c] : "absent", "open" or "settled"
    bucket,   \* the committed row: is it there, how many calls it counts
    tally,    \* tally[w] : what the transaction of w has read
    ran,      \* runs of the job
    came,     \* batches that have arrived
    worth,    \* worth[c] : how often c may count by now, see UsageWithinLogs
    overlap   \* two transactions on the bucket have overlapped, or one failed

usageVars == <<outcome, bucket, tally, ran, came, worth, overlap>>

Writers == Batches \cup {HourlyJob}
NoTally == [stage |-> "idle", calls |-> {}, found |-> FALSE, read |-> 0]

UsageInit ==
    /\ outcome = [c \in Logged |-> "absent"]
    /\ bucket = [there |-> FALSE, count |-> 0]
    /\ tally = [w \in Writers |-> NoTally]
    /\ ran = 0 /\ came = 0 /\ overlap = FALSE
    /\ worth = [c \in Logged |-> 0]

Reading(w) == tally[w].stage = "read"
Alone(w) == \A v \in Writers \ {w} : ~Reading(v)

(* The row of a call is created; it counts for the hour from here.          *)
OpenCall(c) ==
    /\ outcome[c] = "absent"
    /\ outcome' = [outcome EXCEPT ![c] = "open"]
    /\ UNCHANGED <<bucket, tally, ran, came, worth, overlap>>

Arrives(w, calls) ==
    /\ tally[w] = NoTally /\ calls # {}
    /\ came < BatchBudget /\ came' = came + 1

Settled(calls) == [c \in Logged |-> IF c \in calls THEN "settled" ELSE outcome[c]]
Tallying(w, calls) ==
    tally' = [tally EXCEPT ![w] = [NoTally EXCEPT !.stage = "settled", !.calls = calls]]

(* The first commit of a batch: outcomes, with a new row for a call that    *)
(* had none.  A row that has an outcome is written, and counted, like any.  *)
SettleCalls(w, calls) ==
    /\ Arrives(w, calls) /\ Tallying(w, calls)
    /\ outcome' = Settled(calls)
    /\ UNCHANGED <<bucket, ran, worth, overlap>>

(* Another request has inserted the row of a call since it was looked up.   *)
(* The rollback takes the entries before it along: they stay what they      *)
(* were, but are still to be counted.  That works for the new ones; one     *)
(* that had a row has to be loaded again, which raises.                     *)
SettleClashing(w, calls, lost) ==
    /\ Arrives(w, calls) /\ lost # {}
    /\ \E c \in calls \ lost : outcome[c] # "absent"
    /\ outcome' = Settled(calls \ lost)
    /\ IF \A c \in lost : outcome[c] = "absent" THEN Tallying(w, calls) ELSE UNCHANGED tally
    /\ overlap' = TRUE
    /\ UNCHANGED <<bucket, ran, worth>>

Inserting(w) == Reading(w) /\ ~tally[w].found

(* get_bucket, and the insert of a bucket that is not there: it waits for   *)
(* another one that is in progress.                                         *)
ReadBucket(w) ==
    /\ tally[w].stage = "settled"
    /\ bucket.there \/ \A v \in Batches : ~Inserting(v)
    /\ tally' = [tally EXCEPT ![w].stage = "read", ![w].found = bucket.there,
                              ![w].read = bucket.count]
    /\ overlap' = (overlap \/ ~Alone(w))
    /\ UNCHANGED <<outcome, bucket, ran, came, worth>>

(* The insert of a bucket fails if one has been committed since.            *)
Fits(w) == tally[w].found = bucket.there

Released(w) == tally' = [tally EXCEPT ![w] = NoTally]

(* The second commit. *)
CommitTally(w) ==
    /\ w \in Batches /\ Reading(w) /\ Fits(w)
    /\ bucket' = [there |-> TRUE, count |-> tally[w].read + Cardinality(tally[w].calls)]
    /\ worth' = [c \in Logged |-> IF c \in tally[w].calls THEN worth[c] + 1 ELSE worth[c]]
    /\ Released(w)
    /\ UNCHANGED <<outcome, ran, came, overlap>>

(* aggregate_hour reads the rows, then the bucket, in one snapshot.         *)
ReadHour ==
    /\ tally[HourlyJob] = NoTally /\ ran < JobBudget
    /\ ran' = ran + 1
    /\ LET rows == {c \in Logged : outcome[c] # "absent"}
       IN  /\ rows # {}
           /\ tally' = [tally EXCEPT ![HourlyJob] =
                          [stage |-> "read", calls |-> rows,
                           found |-> bucket.there, read |-> bucket.count]]
    /\ overlap' = (overlap \/ ~Alone(HourlyJob))
    /\ UNCHANGED <<outcome, bucket, came, worth>>

(* What the job has counted counts once at least.                           *)
WorthCounted ==
    worth' = [c \in Logged |-> IF c \in tally[HourlyJob].calls /\ worth[c] = 0 THEN 1
                               ELSE worth[c]]

(* Variant: the job adds what it counts. *)
CommitHourAdding ==
    /\ Reading(HourlyJob) /\ Fits(HourlyJob)
    /\ bucket' = [there |-> TRUE,
                  count |-> tally[HourlyJob].read + Cardinality(tally[HourlyJob].calls)]
    /\ WorthCounted /\ Released(HourlyJob)
    /\ UNCHANGED <<outcome, ran, came, overlap>>

(* Only a column that has changed is written.                               *)
CommitHour ==
    /\ Reading(HourlyJob) /\ Fits(HourlyJob)
    /\ LET counted == Cardinality(tally[HourlyJob].calls)
       IN  bucket' = IF tally[HourlyJob].found /\ tally[HourlyJob].read = counted
                     THEN bucket ELSE [there |-> TRUE, count |-> counted]
    /\ WorthCounted /\ Released(HourlyJob)
    /\ UNCHANGED <<outcome, ran, came, overlap>>

(* A duplicate bucket, a lost connection, the death of the process.         *)
TallyFails(w) ==
    /\ tally[w] # NoTally
    /\ Released(w)
    /\ overlap' = TRUE
    /\ UNCHANGED <<outcome, bucket, ran, came, worth>>

NextUsageStats ==
    \/ \E c \in Logged : OpenCall(c)
    \/ \E w \in Batches :
          \/ \E calls \in SUBSET Logged :
                SettleCalls(w, calls) \/ \E lost \in SUBSET calls : SettleClashing(w, calls, lost)
          \/ ReadBucket(w) \/ CommitTally(w)
    \/ ReadHour \/ CommitHour
    \/ \E w \in Writers : TallyFails(w)

UsageSpec == UsageInit /\ [][NextUsageStats]_usageVars

-----------------------------------------------------------------------------
UsageTypeOK ==
    /\ outcome \in [Logged -> {"absent", "open", "settled"}]
    /\ bucket \in [there : BOOLEAN, count : Nat]
    /\ tally \in [Writers -> [stage : {"idle", "settled", "read"}, calls : SUBSET Logged,
                              found : BOOLEAN, read : Nat]]
    /\ ran \in 0 .. JobBudget /\ came \in 0 .. BatchBudget
    /\ worth \in [Logged -> Nat] /\ overlap \in BOOLEAN

(* A bucket counts a call at most once for each delivery of its batch that  *)
(* has been committed to it, and once more if a job had counted the call    *)
(* before the first of them; and it misses none of the calls that a batch   *)
(* or a job has committed, as long as no two transactions overlap on the    *)
(* bucket and none fails.                                                   *)
UsageWithinLogs ==
    /\ bucket.count <= SumFunction(worth)
    /\ ~overlap => bucket.count >= Cardinality({c \in Logged : worth[c] > 0})
=============================================================================

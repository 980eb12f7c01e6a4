------------------------------- MODULE Reports -------------------------------
(* What user-service shows of its call logs: the usage of one user, the     *)
(* dashboard of the platform, the route monitor and the lists that are      *)
(* turned page by page.  Every figure is computed from the rows at the time *)
(* of the question, each by a query of its own: sums over a window of time, *)
(* by buckets of time, by model and by score.                               *)
(*                                                                          *)
(* Times are whole units, a row keeps the second of its batch (created_at   *)
(* has no fraction), and the rows of one batch mostly share it.  Of the     *)
(* sums, those of calls, of outcomes, of cost and of tokens are here.       *)
EXTENDS Integers, SequencesExt

CONSTANTS Reported,     \* outcomes a batch reports, see SettleRow
          CalledNames,  \* names of models, and "none"
          Named,        \* the model of a request that is in flight
          Hour, Day,    \* units of time
          FineSpan,     \* longest custom window shown by the hour
          MaxSpan,      \* longest window of a question
          DefaultSpan,  \* the window when no start is given
          Presets,      \* named ranges: [buckets, unit]
          Moments,      \* bound: the times at which something happens
          Bounds,       \* bound: the times a question names
          RowLimit,     \* bound: rows
          UserLimit,    \* bound: users
          PageSize

None == -1

ASSUME ReportsAssumption ==
    /\ Hour \in Nat \ {0} /\ Day \in Nat \ {0} /\ Day % Hour = 0 /\ PageSize \in Nat \ {0}
    /\ Presets \subseteq [buckets : Nat, unit : {Hour, Day}]
    /\ Moments \subseteq Nat /\ Bounds \cup {DefaultSpan} \subseteq Int /\ {Named, "none"} \subseteq CalledNames
    /\ Reported \subseteq [status : {"ok", "failed", "aborted"}, invalid : BOOLEAN,
                           named : CalledNames, chosen : CalledNames, cost : Nat,
                           tokens : Nat, score : Nat \cup {None}, latency : Nat \cup {None}]

VARIABLES
    rows,    \* api_call_logs, in the order of their ids
    joined,  \* the times at which users registered
    present, \* now()
    turning  \* somebody who turns the pages of a list

reportVars == <<rows, joined, present, turning>>

Unturned == [list |-> "none", page |-> 0, over |-> FALSE, meant |-> {}, shown |-> {}]
InFlight == [status |-> "open", invalid |-> FALSE, named |-> Named, chosen |-> "none",
             cost |-> 0, tokens |-> 0, score |-> None, latency |-> None]

(* A row: what is reported of a call, at a time. *)
Row(at, report) ==
    [at |-> at, status |-> report.status, invalid |-> report.invalid,
     named |-> report.named, chosen |-> report.chosen, cost |-> report.cost,
     tokens |-> report.tokens, score |-> report.score, latency |-> report.latency]

ReportsInit == rows = <<>> /\ joined = <<>> /\ present = 0 /\ turning = Unturned

-----------------------------------------------------------------------------
(* Windows: [from, to). *)

Floor(t, unit) == t - (t % unit)
Within(w, t) == w.from <= t /\ t < w.to
Refused == [from |-> 0, to |-> 0, grain |-> 0]

PresetFromNow(preset, at) ==
    [from |-> at - preset.buckets * preset.unit, to |-> at + preset.unit, grain |-> preset.unit]

(* A named range ends with the hour or the day that has begun.  The one of  *)
(* a question that names none is one of them.                               *)
PresetWindow(preset, at) ==
    LET to == Floor(at, preset.unit) + preset.unit IN
    [from |-> to - preset.buckets * preset.unit, to |-> to, grain |-> preset.unit]

CustomWindow(from, to) ==
    [from |-> from, to |-> to, grain |-> IF to - from <= FineSpan THEN Hour ELSE Day]

EndOr(q, at) == IF q.to = None THEN at ELSE q.to
StartOr(q, at, span) == IF q.from = None THEN EndOr(q, at) - span ELSE q.from

(* A list takes a window that is not empty and not too long. *)
ListWindow(q, at) ==
    LET from == StartOr(q, at, DefaultSpan)  to == EndOr(q, at) IN
    IF from >= to \/ to - from > MaxSpan THEN Refused ELSE CustomWindow(from, to)

(* The user's own analytics complete a window if one end is given; those of *)
(* an administrator take one only if both are, and do not check it.         *)
ShownWindow(q, from, to, at) ==
    IF from # None /\ to # None THEN CustomWindow(from, to) ELSE PresetWindow(q.preset, at)
UserWindow(q, at) ==
    IF q.from # None \/ q.to # None THEN ListWindow(q, at)
    ELSE ShownWindow(q, None, None, at)
AdminWindow(q, at) == ShownWindow(q, q.from, q.to, at)
AnalyticsWindow(q, at) == IF q.door = "user" THEN UserWindow(q, at) ELSE AdminWindow(q, at)

-----------------------------------------------------------------------------
(* Sums. *)

All == DOMAIN rows
ExcludeInvalidModel(chosen) == {i \in chosen : ~rows[i].invalid}
Monitored(w) == {i \in All : Within(w, rows[i].at)}
Charted(w) == ExcludeInvalidModel(Monitored(w))
CostOf(chosen) == SumFunction([i \in chosen |-> rows[i].cost])
TokensOf(chosen) == SumFunction([i \in chosen |-> rows[i].tokens])
Succeeded(chosen) == {i \in chosen : rows[i].status = "ok"}
Erred(chosen) == {i \in chosen : rows[i].status \in {"failed", "aborted"}}
EffectiveModel(i) == IF rows[i].chosen = "none" THEN rows[i].named ELSE rows[i].chosen
ByModel(chosen) ==
    [m \in {EffectiveModel(i) : i \in chosen} |-> {i \in chosen : EffectiveModel(i) = m}]
ByTime(chosen, width) ==
    [t \in {Floor(rows[i].at, width) : i \in chosen} |->
        {i \in chosen : Floor(rows[i].at, width) = t}]
Together(groups, Count(_)) == SumFunction([k \in DOMAIN groups |-> Count(groups[k])])

(* The buckets of the analytics start at the window and go on by hours or   *)
(* days; a row is found under the start of its own hour or day.             *)
BucketStarts(w) == {t \in w.from .. (w.to - 1) : (t - w.from) % w.grain = 0}
BucketStart(t, w) == Floor(t, w.grain)
Bucket(w, start) == {i \in Charted(w) : BucketStart(rows[i].at, w) = start}
Analytics(w) ==
    [requests |-> Cardinality(Charted(w)),
     successes |-> Cardinality(Succeeded(Charted(w))),
     cost |-> CostOf(Charted(w)),
     models |-> ByModel(Charted(w)),
     buckets |-> [start \in BucketStarts(w) |-> Bucket(w, start)]]

(* The dashboard.  Its charts take any window. *)
TrendWidth(w) == IF w.to - w.from <= Day THEN Hour
                 ELSE IF w.to - w.from <= 3 * Day THEN 2 * Hour ELSE Day
DailyStats(w) == ByTime(Charted(w), Day)
UsageTrends(w) ==
    IF TrendWidth(w) = Day THEN DailyStats(w) ELSE ByTime(Charted(w), TrendWidth(w))
ModelCalls(w) == ByModel(Charted(w))
RpmTrend(w, width) == ByTime(Succeeded(Charted(w)), width)
TpmTrend(w, width) ==
    LET calls == ByTime(Succeeded(Charted(w)), width) IN
    [t \in DOMAIN calls |-> TokensOf(calls[t])]

(* With no range the summary is that of today; a range may have one end.    *)
InRange(q, at, t) ==
    IF q.from = None /\ q.to = None THEN t >= Floor(at, Day)
    ELSE (q.from = None \/ t >= q.from) /\ (q.to = None \/ t < q.to)
SummaryInRange(q, at) == ExcludeInvalidModel({i \in All : InRange(q, at, rows[i].at)})
NewUsersInRange(q, at) == {u \in DOMAIN joined : InRange(q, at, joined[u])}

(* Days with a registration, and the number of users at the end of each.    *)
Registered(w) == {u \in DOMAIN joined : Within(w, joined[u])}
UsersBefore(w) == Len(joined) - Cardinality(Registered(w))
UserGrowth(w) ==
    [d \in {Floor(joined[u], Day) : u \in Registered(w)} |->
        UsersBefore(w) + Cardinality({u \in Registered(w) : Floor(joined[u], Day) <= d})]

(* The route monitor counts calls to names that are no model too, although  *)
(* its docstring says otherwise, except by model and by score, where a      *)
(* score of ten has a row of its own.  Its buckets of less than an hour are *)
(* all one unit here.                                                       *)
MonitorErrors(w) == {i \in Monitored(w) : rows[i].status \notin {"open", "ok"}}
MonitorWidth(w) == IF w.to - w.from <= Day THEN 1
                   ELSE IF w.to - w.from <= 3 * Day THEN Hour ELSE Day
MonitorTimes(w) == ByTime(Monitored(w), MonitorWidth(w))
MonitorModels(w) ==
    LET routed == {i \in Charted(w) : rows[i].chosen # "none"} IN
    [m \in {rows[i].chosen : i \in routed} |-> {i \in routed : rows[i].chosen = m}]
MonitorScores(w) ==
    LET scored == {i \in Charted(w) : rows[i].score # None}
        groups == {{i \in scored : rows[i].score = s} : s \in {rows[i].score : i \in scored}}
    IN  {[floor |-> IF \E i \in g : rows[i].score > 9 THEN 9
                    ELSE rows[CHOOSE i \in g : TRUE].score,
          calls |-> g] : g \in groups}
MonitorWindow(q, at) ==
    LET from == StartOr(q, at, Day)  to == EndOr(q, at) IN
    IF from >= to \/ Floor(to - from, Day) > MaxSpan THEN Refused ELSE CustomWindow(from, to)

(* int(round(p * n)), which rounds a half to the even number, as a rank of  *)
(* n samples.  p is a percentage.                                           *)
Rounded(x) == LET half == x % 100 IN
    IF half < 50 \/ (half = 50 /\ (x \div 100) % 2 = 0) THEN x \div 100 ELSE x \div 100 + 1
Rank(n, p) == Max({1, Min({n, Rounded(p * n)})})

Latencies(w) ==
    CHOOSE order \in SetToSeqs({i \in Charted(w) : rows[i].latency # None}) :
        \A k, l \in DOMAIN order : k < l => rows[order[k]].latency <= rows[order[l]].latency
Percentile(w, p) == rows[Latencies(w)[Rank(Len(Latencies(w)), p)]].latency

-----------------------------------------------------------------------------
Time == /\ present' \in Moments /\ present' > present
        /\ UNCHANGED <<rows, joined, turning>>

(* A batch takes the time for each of its rows, which are there when it     *)
(* commits.  Another batch may have committed in between.                   *)
OpenRow(at) ==
    /\ Len(rows) < RowLimit
    /\ at \in Moments \cup {0} /\ at <= present
    /\ ~\E t \in Moments : at < t /\ t < present
    /\ rows' = Append(rows, Row(at, InFlight))
    /\ UNCHANGED <<joined, present, turning>>

SettleRow(i, kind) ==
    /\ rows[i].status = "open"
    /\ rows' = [rows EXCEPT ![i] = Row(rows[i].at, kind)]
    /\ UNCHANGED <<joined, present, turning>>

Register ==
    /\ Len(joined) < UserLimit
    /\ joined' = Append(joined, present)
    /\ UNCHANGED <<rows, present, turning>>

(* A page: what a list has is sorted anew for each.  Call logs, and every   *)
(* list made by get_list, are sorted by the second only, so those of one    *)
(* second come in any order; users are sorted by second and id.  A list of  *)
(* the route monitor may be of one status.  The window of a list stays: the *)
(* default one of the user's own list, which moves on between two pages, is *)
(* left out.                                                                *)
Entries(list) ==
    CASE list = "users" -> DOMAIN joined
      [] list = "logs" -> All
      [] list = "succeeded" -> Succeeded(All)
StampOf(list, i) == IF list = "users" THEN joined[i] ELSE rows[i].at
Untied(list, i, j) == StampOf(list, i) > StampOf(list, j)
Precedes(list, i, j) ==
    \/ StampOf(list, i) > StampOf(list, j)
    \/ list = "users" /\ StampOf(list, i) = StampOf(list, j) /\ i > j
Orders(list) ==
    {order \in SetToSeqs(Entries(list)) :
        \A k, l \in DOMAIN order : k < l => ~Precedes(list, order[l], order[k])}
PageOf(order, page) ==
    Range(SubSeq(order, (page - 1) * PageSize + 1, Min({page * PageSize, Len(order)})))

TurnPage(list) ==
    /\ ~turning.over /\ turning.list \in {"none", list} /\ Entries(list) # {}
    /\ \E order \in Orders(list) :
         LET page == turning.page + 1 IN
         turning' = [list |-> list, page |-> page,
                     over |-> page * PageSize >= Len(order),
                     meant |-> IF page = 1 THEN Entries(list) ELSE turning.meant,
                     shown |-> turning.shown \cup PageOf(order, page)]
    /\ UNCHANGED <<rows, joined, present>>

NextReports ==
    \/ Time
    \/ \E at \in Moments \cup {0} : OpenRow(at)
    \/ \E i \in DOMAIN rows, kind \in Reported : SettleRow(i, kind)
    \/ Register
    \/ \E list \in {"logs", "succeeded", "users"} : TurnPage(list)

ReportsSpec == ReportsInit /\ [][NextReports]_reportVars

-----------------------------------------------------------------------------
(* Who turns the pages of a list while rows are added sees every row that   *)
(* was there when he began: users always, call logs unless another one has  *)
(* the same second, since nothing then keeps it from going to a page that   *)
(* has been turned.                                                         *)
PagesMissOnlyTies ==
    turning.over =>
        \A i \in turning.meant \ turning.shown :
            turning.list # "users" /\ \E j \in DOMAIN rows \ {i} : rows[j].at = rows[i].at

Questions == [door : {"user", "admin"}, from : Bounds \cup {None}, to : Bounds \cup {None},
              preset : Presets]
OnGrid(w) == w.from % w.grain = 0

AnalyticsAddUp(w) ==
    LET a == Analytics(w) IN
    /\ Together(a.models, Cardinality) = a.requests
    /\ Together(a.models, CostOf) = a.cost
    /\ OnGrid(w) => Together(a.buckets, CostOf) = a.cost

(* What the series of the route monitor has of the calls that the others    *)
(* have.                                                                    *)
ChartedTimes(w) ==
    [t \in DOMAIN MonitorTimes(w) |-> ExcludeInvalidModel(MonitorTimes(w)[t])]

MonitorAddsUp(w) ==
    /\ Together(ChartedTimes(w), Cardinality) = Cardinality(Charted(w))
    /\ Together(MonitorModels(w), Cardinality) <= Cardinality(Charted(w))
    /\ MonitorErrors(w) \cap Charted(w) = Erred(Charted(w))
    /\ \A a, b \in MonitorScores(w) : a.floor = b.floor /\ a # b => a.floor = 9
    /\ Latencies(w) # <<>> => /\ Percentile(w, 50) <= Percentile(w, 95)
                              /\ Percentile(w, 95) <= Percentile(w, 99)

DashboardAddsUp(w) ==
    /\ Together(UsageTrends(w), Cardinality) = Together(ModelCalls(w), Cardinality)
    /\ Together(UsageTrends(w), CostOf) = Together(ModelCalls(w), CostOf)
    /\ Together(RpmTrend(w, Hour), Cardinality)
         = Cardinality(Succeeded(UNION {UsageTrends(w)[t] : t \in DOMAIN UsageTrends(w)}))
    /\ SumFunction(TpmTrend(w, Hour)) = TokensOf(Succeeded(Charted(w)))
    /\ (\A u \in DOMAIN joined : joined[u] < w.to) =>
         \A d \in DOMAIN UserGrowth(w) :
            UserGrowth(w)[d] = Cardinality({u \in DOMAIN joined : Floor(joined[u], Day) <= d})

(* The figures shown of one window, each from a query of its own, agree:    *)
(* buckets and models add up to the totals (buckets of the analytics only   *)
(* if the window starts with one of them, and so for every named range),    *)
(* the route monitor has every call that the charts have (what it does with *)
(* a call to a name that is no model is left open), only its highest score  *)
(* can have two rows, its percentiles are in order, and a chart of          *)
(* registrations says how many users there were, unless some came after it. *)
FiguresAgree ==
    rows # <<>> \/ joined # <<>> =>
        /\ \A w \in {AnalyticsWindow(q, present) : q \in Questions} \ {Refused} :
              AnalyticsAddUp(w) /\ DashboardAddsUp(w)
        /\ \A w \in {MonitorWindow(q, present) : q \in Questions} \ {Refused} :
              MonitorAddsUp(w)
        /\ \A q \in Questions :
              /\ q.from = None /\ q.to = None => OnGrid(AnalyticsWindow(q, present))
              /\ q.from # None /\ q.to # None =>
                    /\ SummaryInRange(q, present) = Charted(CustomWindow(q.from, q.to))
                    /\ NewUsersInRange(q, present) = Registered(CustomWindow(q.from, q.to))
=============================================================================

--------------------------- MODULE CallLogProofs ---------------------------
(***************************************************************************)
(* The call-log pipeline: types, how often a call is counted, what the     *)
(* buffer keeps, and that the rows and charges of user-service keep the    *)
(* promise of CallLogSpec, for every number of requests and workers, every *)
(* buffer, batch and retry limit, and whatever fails.                      *)
(*                                                                         *)
(* The module goes from the data outwards.  First, dictionaries: that the  *)
(* order of a dictionary lists its keys once each is what makes "the       *)
(* oldest entry" and "the entries not yet handled" mean something.  Then   *)
(* one lemma per step of the code, which says what it does to the entry of *)
(* each request, so that the invariants need not look into a dictionary or *)
(* a transaction again.  Then the parts of the invariant, one after the    *)
(* other: each uses the ones before it.                                    *)
(***************************************************************************)
EXTENDS CallLogPipeline, NumberFacts, SequenceTheorems

-----------------------------------------------------------------------------
(* The inductive invariant. *)

(* Whatever status is on its way is the one the handler reported.          *)
Told(r, status) == status \in {"none", call[r]}

ToldByRouter ==
    \A r \in Requests :
        /\ entries.of[r] # None => Told(r, entries.of[r].status)
        /\ batch.of[r] # None => Told(r, batch.of[r].status)

(* Nothing replaces the outcome of a call that is being sent, only one     *)
(* batch is sent at a time, and a worker the router waits for has it.      *)
OneBatch ==
    /\ \A r \in Requests : HasOutcome(batch, r) => entries.of[r] = None
    /\ Flushing \/ batch = Empty
    /\ \A w \in Workers : Awaited(w) => Flushing
    /\ \A v, w \in Workers : Awaited(v) /\ Awaited(w) => v = w

(* How often the outcome of r can still be sent. *)
IsSent == \E w \in Workers : Awaited(w)

Left(r) ==
    IF call[r] \notin Outcomes THEN MaxRetries + 1
    ELSE IF HasOutcome(entries, r) THEN MaxRetries + 1 - entries.of[r].retries
    ELSE IF HasOutcome(batch, r)
         THEN MaxRetries + (IF IsSent THEN 0 ELSE 1) - batch.of[r].retries
    ELSE 0

(* The transactions that can count r. *)
Carries(t, r) ==
    \/ t.stage = "entries" /\ (HasOutcome(t.todo, r) \/ r \in t.finalized)
    \/ t.stage = "stats" /\ r \in t.finalized

Carriers(r) == {w \in Workers : Carries(work[w], r)}

Sendings ==
    \A r \in Requests :
        counted[r] + Cardinality(Carriers(r)) + Left(r) <= MaxRetries + 1

(* Rows say what was reported, and a transaction writes a row once, and    *)
(* only what the router told it, inserts no row that is there or that      *)
(* another one inserts, and bills only calls it has written as paid.       *)
TransactionOK(t) ==
    /\ \A r \in Requests :
          /\ t.todo.of[r] # None => /\ Told(r, t.todo.of[r].status)
                                    /\ t.wrote[r] = "absent"
                                    /\ r \notin t.inserted \cup t.bills
          /\ t.wrote[r] \in {"absent", "none", call[r]}
          /\ t.wrote[r] = "none" => r \in t.inserted
          /\ t.wrote[r] # "absent" => r \in t.inserted \/ rows[r] # "absent"
    /\ \A r \in t.inserted : rows[r] = "absent"
    /\ \A r \in t.bills : t.wrote[r] = "paid"
    /\ \A r \in t.seen : rows[r] # "absent"

RowsTold ==
    /\ \A r \in Requests : rows[r] \in {"absent", "none", call[r]}
    /\ \A w \in Workers : Busy(w, "entries") => TransactionOK(work[w])
    /\ \A v, w \in Workers :
          Busy(v, "entries") /\ Busy(w, "entries") /\ v # w
              => work[v].inserted \cap work[w].inserted = {}

-----------------------------------------------------------------------------
(* Dictionaries. *)

(* What Those computes on the way: the kept ones of the first i.           *)
Keeps(s, S, n, g) ==
    g = [i \in 0..n |-> IF i = 0 THEN <<>>
                        ELSE IF s[i] \in S THEN Append(g[i - 1], s[i])
                        ELSE g[i - 1]]

LEMMA KeepsExists ==
    ASSUME NEW s, NEW S, NEW m \in Nat
    PROVE  \E g : Keeps(s, S, m, g)
  <1> DEFINE Missing == {n \in Nat : ~\E g : Keeps(s, S, n, g)}
  <1>1. SUFFICES Missing = {}
    OBVIOUS
  <1>2. SUFFICES ASSUME Missing # {} PROVE FALSE
    OBVIOUS
  <1>3. PICK n \in Missing : \A k \in Missing : n <= k
    BY <1>2, LeastElement
  <1>4. CASE n = 0
    <2>1. PICK g : g = [i \in 0..0 |-> <<>>]
      OBVIOUS
    <2>2. \A i \in 0..0 : i = 0
      OBVIOUS
    <2>3. Keeps(s, S, 0, g)
      BY <2>1, <2>2 DEF Keeps
    <2>4. QED
      BY <1>3, <1>4, <2>3
  <1>5. CASE n # 0
    <2>1. n \in Nat /\ n - 1 \in Nat /\ ~(n <= n - 1)
      BY <1>3, <1>5
    <2>2. PICK h : Keeps(s, S, n - 1, h)
      BY <1>3, <2>1
    <2>3. PICK new : new = IF s[n] \in S THEN Append(h[n - 1], s[n]) ELSE h[n - 1]
      OBVIOUS
    <2>4. PICK g : g = [i \in 0..n |-> IF i = n THEN new ELSE h[i]]
      OBVIOUS
    <2>5. /\ DOMAIN g = 0..n
          /\ g = [i \in 0..n |-> g[i]]
          /\ g[n] = new /\ \A i \in 0..(n - 1) : g[i] = h[i]
      BY <2>1, <2>4
    <2>6. ASSUME NEW i \in 0..n
          PROVE  g[i] = IF i = 0 THEN <<>>
                        ELSE IF s[i] \in S THEN Append(g[i - 1], s[i])
                        ELSE g[i - 1]
      <3>1. CASE i = n
        <4>1. g[n - 1] = h[n - 1] /\ i # 0
          <5>1. n - 1 \in 0..(n - 1)
            BY <2>1
          <5>2. QED
            BY <1>5, <2>5, <3>1, <5>1
        <4>2. QED
          BY <2>3, <2>5, <3>1, <4>1
      <3>2. CASE i # n
        <4>1. i \in 0..(n - 1)
          BY <2>1, <3>2
        <4>2. i # 0 => i - 1 \in 0..(n - 1)
          BY <4>1
        <4>3. h[i] = IF i = 0 THEN <<>>
                     ELSE IF s[i] \in S THEN Append(h[i - 1], s[i])
                     ELSE h[i - 1]
          BY <2>2, <4>1 DEF Keeps
        <4>4. QED
          BY <2>5, <4>1, <4>2, <4>3
      <3>3. QED
        BY <3>1, <3>2
    <2>7. Keeps(s, S, n, g)
      BY <2>5, <2>6 DEF Keeps
    <2>8. QED
      BY <1>3, <2>7
  <1>6. QED
    BY <1>4, <1>5

(* A sequence without repetition, of the elements of a set.                *)
Lists(s, A) ==
    /\ {s[i] : i \in DOMAIN s} = A
    /\ \A i, j \in DOMAIN s : s[i] = s[j] => i = j

LEMMA ListsMore ==
    ASSUME NEW R, NEW s \in Seq(R), NEW A, Lists(s, A), NEW x \in R, x \notin A
    PROVE  Append(s, x) \in Seq(R) /\ Lists(Append(s, x), A \cup {x})
  <1>1. PICK n \in Nat : n = Len(s) /\ DOMAIN s = 1..n
    BY LenProperties
  <1>2. PICK t : t = Append(s, x)
    OBVIOUS
  <1>3. /\ t \in Seq(R) /\ DOMAIN t = 1..(n + 1) /\ t[n + 1] = x
        /\ \A i \in 1..n : t[i] = s[i]
    BY <1>1, <1>2
  <1>4. \A y \in A : \E i \in 1..n : s[i] = y
    BY <1>1 DEF Lists
  <1>5. \A i \in 1..n : s[i] \in A /\ s[i] # x
    BY <1>1 DEF Lists
  <1>6. {t[i] : i \in DOMAIN t} = A \cup {x}
    <2>1. ASSUME NEW i \in 1..(n + 1)
          PROVE  t[i] \in A \cup {x}
      <3>1. i \in 1..n \/ i = n + 1
        BY <1>1
      <3>2. QED
        BY <1>3, <1>5, <3>1
    <2>2. ASSUME NEW y \in A \cup {x}
          PROVE  \E i \in 1..(n + 1) : t[i] = y
      <3>1. CASE y \in A
        <4>1. PICK i \in 1..n : s[i] = y
          BY <1>4, <3>1
        <4>2. i \in 1..(n + 1)
          BY <1>1
        <4>3. QED
          BY <1>3, <4>1, <4>2
      <3>2. CASE y = x
        BY <1>1, <1>3, <3>2
      <3>3. QED
        BY <3>1, <3>2
    <2>3. QED
      BY <1>3, <2>1, <2>2
  <1>7. ASSUME NEW i \in 1..(n + 1), NEW j \in 1..(n + 1), t[i] = t[j]
        PROVE  i = j
    <2>1. (i \in 1..n \/ i = n + 1) /\ (j \in 1..n \/ j = n + 1)
      BY <1>1
    <2>2. CASE i \in 1..n /\ j \in 1..n
      BY <1>1, <1>3, <1>7, <2>2 DEF Lists
    <2>3. CASE i = n + 1 \/ j = n + 1
      BY <1>3, <1>5, <1>7, <2>1, <2>3
    <2>4. QED
      BY <2>1, <2>2, <2>3
  <1>8. QED
    BY <1>2, <1>3, <1>6, <1>7 DEF Lists

LEMMA ThoseLists ==
    ASSUME NEW R, NEW s \in Seq(R), NEW A, Lists(s, A), NEW S
    PROVE  Those(s, S) \in Seq(R) /\ Lists(Those(s, S), A \cap S)
  <1>1. PICK n \in Nat : n = Len(s) /\ DOMAIN s = 1..n
    BY LenProperties
  <1>2. PICK g : Keeps(s, S, n, g) /\ Those(s, S) = g[n]
    <2>1. PICK h : Keeps(s, S, n, h)
      BY <1>1, KeepsExists
    <2>2. Keeps(s, S, n, CHOOSE g : Keeps(s, S, n, g))
      BY <2>1
    <2>3. Those(s, S) = (CHOOSE g : Keeps(s, S, n, g))[n]
      BY <1>1 DEF Those, Keeps
    <2>4. QED
      BY <2>2, <2>3
  <1> DEFINE First(i) == {s[j] : j \in 1..i}
             Good(i) == g[i] \in Seq(R) /\ Lists(g[i], First(i) \cap S)
             Odd == {i \in 0..n : ~Good(i)}
  <1>3. SUFFICES ASSUME Odd # {} PROVE FALSE
    <2>1. Odd = {} => Good(n)
      <3>1. n \in 0..n
        BY <1>1
      <3> HIDE DEF Good
      <3>2. QED
        BY <3>1
    <2>2. First(n) = A
      BY <1>1 DEF Lists
    <2>3. QED
      BY <1>2, <2>1, <2>2
  <1>4. Odd \in SUBSET Nat
    BY <1>1
  <1>5. PICK i \in Odd : \A k \in Odd : i <= k
    BY <1>3, <1>4, LeastElement
  <1>6. i \in 0..n
    BY <1>5
  <1>7. CASE i = 0
    <2>1. g[0] = <<>>
      BY <1>2, <1>6, <1>7 DEF Keeps
    <2>2. First(0) \cap S = {}
      OBVIOUS
    <2>3. <<>> \in Seq(R) /\ Lists(<<>>, {})
      BY DEF Lists
    <2>4. Good(0)
      BY <2>1, <2>2, <2>3
    <2>5. QED
      BY <1>5, <1>7, <2>4
  <1>8. CASE i # 0
    <2>1. /\ i \in Nat /\ i - 1 \in 0..n /\ ~(i <= i - 1) /\ i \in 1..n
          /\ i - 1 \in Nat
      BY <1>1, <1>6, <1>8
    <2>2. Good(i - 1)
      BY <1>5, <2>1
    <2>3. g[i] = IF s[i] \in S THEN Append(g[i - 1], s[i]) ELSE g[i - 1]
      BY <1>2, <1>6, <1>8 DEF Keeps
    <2>4. First(i) = First(i - 1) \cup {s[i]}
      <3>1. \A j \in 1..i : j \in 1..(i - 1) \/ j = i
        BY <2>1
      <3>2. \A j \in 1..(i - 1) : j \in 1..i
        BY <2>1
      <3>3. i \in 1..i
        BY <2>1
      <3>4. QED
        BY <3>1, <3>2, <3>3
    <2>5. s[i] \in R
      BY <1>1, <2>1
    <2>6. s[i] \notin First(i - 1)
      <3>1. \A j \in 1..(i - 1) : j \in 1..n /\ j # i
        BY <1>1, <2>1
      <3>2. \A j \in 1..(i - 1) : s[j] # s[i]
        BY <1>1, <2>1, <3>1 DEF Lists
      <3>3. QED
        BY <3>2
    <2>7. Good(i)
      <3>1. CASE s[i] \in S
        <4>1. PICK B : B = First(i - 1) \cap S /\ s[i] \notin B
          BY <2>6
        <4>2. PICK t \in Seq(R) : t = g[i - 1] /\ Lists(t, B)
          BY <2>2, <4>1
        <4>3. Append(t, s[i]) \in Seq(R) /\ Lists(Append(t, s[i]), B \cup {s[i]})
          BY <2>5, <4>1, <4>2, ListsMore
        <4>4. First(i) \cap S = B \cup {s[i]}
          BY <2>4, <3>1, <4>1
        <4>5. QED
          BY <2>3, <3>1, <4>2, <4>3, <4>4
      <3>2. CASE s[i] \notin S
        <4>1. First(i) \cap S = First(i - 1) \cap S
          BY <2>4, <3>2
        <4>2. QED
          BY <2>2, <2>3, <3>2, <4>1
      <3>3. QED
        BY <3>1, <3>2
    <2>8. QED
      BY <1>5, <2>7
  <1>9. QED
    BY <1>7, <1>8

LEMMA TailLists ==
    ASSUME NEW R, NEW s \in Seq(R), NEW A, Lists(s, A), s # <<>>
    PROVE  /\ Head(s) \in A /\ Head(s) \in R
           /\ Tail(s) \in Seq(R) /\ Lists(Tail(s), A \ {Head(s)})
  <1>1. PICK n \in Nat : n = Len(s) /\ DOMAIN s = 1..n /\ n # 0
    BY LenProperties, EmptySeq
  <1>2. PICK t : t = Tail(s)
    OBVIOUS
  <1>3. /\ t \in Seq(R) /\ DOMAIN t = 1..(n - 1) /\ Head(s) = s[1] /\ Head(s) \in R
        /\ \A i \in 1..(n - 1) : t[i] = s[i + 1]
    <2>1. t \in Seq(R) /\ Len(t) = n - 1 /\ \A i \in 1..(n - 1) : t[i] = s[i + 1]
      BY <1>1, <1>2, HeadTailProperties
    <2>2. DOMAIN t = 1..(n - 1)
      BY <2>1, LenProperties
    <2>3. Head(s) = s[1]
      BY <1>1
    <2>4. QED
      BY <2>1, <2>2, <2>3, HeadTailProperties
  <1>4. \A i, j \in 1..n : s[i] = s[j] => i = j
    BY <1>1 DEF Lists
  <1>5. \A i \in 1..(n - 1) : i + 1 \in 1..n /\ i + 1 # 1
    BY <1>1
  <1>6. Head(s) \in A
    BY <1>1, <1>3 DEF Lists
  <1>7. ASSUME NEW i \in 1..(n - 1)
        PROVE  t[i] \in A \ {Head(s)}
    <2>1. 1 \in 1..n
      BY <1>1
    <2>2. s[i + 1] \in A /\ s[i + 1] # s[1]
      BY <1>1, <1>4, <1>5, <2>1 DEF Lists
    <2>3. QED
      BY <1>3, <2>2
  <1>8. ASSUME NEW y \in A \ {Head(s)}
        PROVE  \E i \in 1..(n - 1) : t[i] = y
    <2>1. PICK j \in 1..n : s[j] = y
      BY <1>1 DEF Lists
    <2>2. j # 1
      BY <1>3, <2>1
    <2>3. j - 1 \in 1..(n - 1) /\ (j - 1) + 1 = j
      BY <1>1, <2>1, <2>2
    <2>4. t[j - 1] = y
      BY <1>3, <2>1, <2>3
    <2>5. QED
      BY <2>3, <2>4
  <1>9. {t[i] : i \in DOMAIN t} = A \ {Head(s)}
    <2>1. {t[i] : i \in 1..(n - 1)} = A \ {Head(s)}
      BY <1>7, <1>8
    <2>2. QED
      BY <1>3, <2>1
  <1>10. ASSUME NEW i \in 1..(n - 1), NEW j \in 1..(n - 1), t[i] = t[j]
         PROVE  i = j
    <2>1. s[i + 1] = s[j + 1]
      BY <1>3, <1>10
    <2>2. i + 1 \in 1..n /\ j + 1 \in 1..n
      BY <1>5
    <2>3. i + 1 = j + 1
      BY <1>4, <2>1, <2>2
    <2>4. QED
      BY <1>1, <2>3
  <1>11. QED
    BY <1>2, <1>3, <1>6, <1>9, <1>10 DEF Lists

LEMMA ConcatLists ==
    ASSUME NEW R, NEW s \in Seq(R), NEW A, Lists(s, A),
           NEW t \in Seq(R), NEW B, Lists(t, B), A \cap B = {}
    PROVE  s \o t \in Seq(R) /\ Lists(s \o t, A \cup B)
  <1>1. PICK n \in Nat : n = Len(s) /\ DOMAIN s = 1..n
    BY LenProperties
  <1>2. PICK m \in Nat : m = Len(t) /\ DOMAIN t = 1..m
    BY LenProperties
  <1>3. PICK u : u = s \o t
    OBVIOUS
  <1>4. /\ u \in Seq(R) /\ DOMAIN u = 1..(n + m)
        /\ \A i \in 1..(n + m) : u[i] = IF i <= n THEN s[i] ELSE t[i - n]
    <2>1. /\ u \in Seq(R) /\ Len(u) = n + m
          /\ \A i \in 1..(n + m) : u[i] = IF i <= n THEN s[i] ELSE t[i - n]
      BY <1>1, <1>2, <1>3, ConcatProperties
    <2>2. QED
      BY <2>1, LenProperties
  <1>5. \A i \in 1..(n + m) : \/ i \in 1..n /\ i <= n
                              \/ i - n \in 1..m /\ ~(i <= n)
    BY <1>1, <1>2
  <1>6. \A i \in 1..(n + m) : \/ i \in 1..n /\ u[i] = s[i] /\ u[i] \in A
                              \/ i - n \in 1..m /\ u[i] = t[i - n] /\ u[i] \in B
    <2>1. (\A i \in 1..n : s[i] \in A) /\ (\A i \in 1..m : t[i] \in B)
      BY <1>1, <1>2 DEF Lists
    <2>2. QED
      BY <1>4, <1>5, <2>1
  <1>7. ASSUME NEW y \in A \cup B
        PROVE  \E i \in 1..(n + m) : u[i] = y
    <2>1. CASE y \in A
      <3>1. PICK i \in 1..n : s[i] = y
        BY <1>1, <2>1 DEF Lists
      <3>2. i \in 1..(n + m) /\ i <= n
        BY <1>1, <1>2
      <3>3. QED
        BY <1>4, <3>1, <3>2
    <2>2. CASE y \in B
      <3>1. PICK i \in 1..m : t[i] = y
        BY <1>2, <2>2 DEF Lists
      <3>2. i + n \in 1..(n + m) /\ ~(i + n <= n) /\ (i + n) - n = i
        BY <1>1, <1>2
      <3>3. QED
        BY <1>4, <3>1, <3>2
    <2>3. QED
      BY <2>1, <2>2
  <1>8. ASSUME NEW i \in 1..(n + m), NEW j \in 1..(n + m), u[i] = u[j]
        PROVE  i = j
    <2>1. CASE i \in 1..n /\ u[i] = s[i] /\ u[i] \in A
      <3>1. ~(u[j] \in B)
        BY <1>8, <2>1
      <3>2. j \in 1..n /\ u[j] = s[j]
        BY <1>6, <3>1
      <3>3. QED
        BY <1>1, <1>8, <2>1, <3>2 DEF Lists
    <2>2. CASE i - n \in 1..m /\ u[i] = t[i - n] /\ u[i] \in B
      <3>1. ~(u[j] \in A)
        BY <1>8, <2>2
      <3>2. j - n \in 1..m /\ u[j] = t[j - n]
        BY <1>6, <3>1
      <3>3. i - n = j - n
        BY <1>2, <1>8, <2>2, <3>2 DEF Lists
      <3>4. QED
        BY <1>1, <1>2, <3>3
    <2>3. QED
      BY <1>6, <2>1, <2>2
  <1>9. {u[i] : i \in DOMAIN u} = A \cup B
    <2>1. \A i \in 1..(n + m) : u[i] \in A \cup B
      BY <1>6
    <2>2. {u[i] : i \in 1..(n + m)} = A \cup B
      BY <1>7, <2>1, SMTT(30)
    <2>3. QED
      BY <1>4, <2>2
  <1>10. \A i, j \in DOMAIN u : u[i] = u[j] => i = j
    BY <1>4, <1>8
  <1>11. Lists(u, A \cup B)
    BY <1>9, <1>10 DEF Lists
  <1>12. QED
    BY <1>3, <1>4, <1>11

LEMMA DictIs ==
    ASSUME NEW d
    PROVE  /\ DictOK(d) <=> d \in Dictionary /\ Lists(d.order, Keyed(d))
           /\ d \in Dictionary => /\ d.of \in [Requests -> Entry \cup {None}]
                                  /\ d.order \in Seq(Requests)
                                  /\ Keyed(d) \in SUBSET Requests
  BY DEF DictOK, Lists, Dictionary, Keyed

LEMMA EmptyIs ==
    /\ DictOK(Empty)
    /\ \A r \in Requests : Empty.of[r] = None
    /\ Keyed(Empty) = {}
  <1>1. \A r \in Requests : Empty.of[r] = None
    BY DEF Empty
  <1>2. Keyed(Empty) = {}
    BY <1>1 DEF Keyed
  <1>3. Empty.of \in [Requests -> Entry \cup {None}]
    BY DEF Empty
  <1>4. Empty.order = <<>> /\ <<>> \in Seq(Requests) /\ Lists(<<>>, {})
    BY DEF Empty, Lists
  <1>5. Empty = [of |-> Empty.of, order |-> Empty.order]
    BY DEF Empty
  <1>6. Empty \in Dictionary
    BY <1>3, <1>4, <1>5 DEF Dictionary
  <1>7. QED
    BY <1>1, <1>2, <1>4, <1>6, DictIs

LEMMA PutIs ==
    ASSUME BufferAssumption, NEW d, DictOK(d), NEW r \in Requests, NEW e \in Entry
    PROVE  /\ DictOK(Put(d, r, e))
           /\ Put(d, r, e).of[r] = e /\ e # None
           /\ \A q \in Requests : q # r => Put(d, r, e).of[q] = d.of[q]
  <1>1. /\ d.of \in [Requests -> Entry \cup {None}]
        /\ d.order \in Seq(Requests) /\ Keyed(d) \in SUBSET Requests
        /\ Lists(d.order, Keyed(d))
    BY DictIs
  <1>2. e # None
    BY DEF BufferAssumption
  <1>3. PICK of : of = [d.of EXCEPT ![r] = e]
    OBVIOUS
  <1>4. PICK order : order = IF d.of[r] = None THEN Append(d.order, r) ELSE d.order
    OBVIOUS
  <1>5. PICK new : new = [of |-> of, order |-> order]
    OBVIOUS
  <1>6. new = Put(d, r, e)
    BY <1>3, <1>4, <1>5 DEF Put
  <1>7. /\ of \in [Requests -> Entry \cup {None}] /\ of[r] = e
        /\ \A q \in Requests : q # r => of[q] = d.of[q]
    BY <1>1, <1>3
  <1>8. Keyed(new) = Keyed(d) \cup {r}
    BY <1>2, <1>5, <1>7 DEF Keyed
  <1>9. order \in Seq(Requests) /\ Lists(order, Keyed(d) \cup {r})
    <2>1. CASE d.of[r] = None
      <3>1. r \notin Keyed(d)
        BY <2>1 DEF Keyed
      <3>2. QED
        BY <1>1, <1>4, <2>1, <3>1, ListsMore
    <2>2. CASE d.of[r] # None
      <3>1. Keyed(d) \cup {r} = Keyed(d)
        BY <2>2 DEF Keyed
      <3>2. QED
        BY <1>1, <1>4, <2>2, <3>1
    <2>3. QED
      BY <2>1, <2>2
  <1>10. new \in Dictionary
    BY <1>5, <1>7, <1>9 DEF Dictionary
  <1>11. new.order = order /\ new.of = of
    BY <1>5
  <1>12. QED
    BY <1>2, <1>6, <1>7, <1>8, <1>9, <1>10, <1>11, DictIs

LEMMA DropIs ==
    ASSUME NEW d, DictOK(d), d.order # <<>>
    PROVE  /\ Head(d.order) \in Requests /\ d.of[Head(d.order)] # None
           /\ DictOK(DropOldest(d))
           /\ DropOldest(d).of[Head(d.order)] = None
           /\ \A q \in Requests : q # Head(d.order) => DropOldest(d).of[q] = d.of[q]
  <1>1. /\ d.of \in [Requests -> Entry \cup {None}]
        /\ d.order \in Seq(Requests) /\ Keyed(d) \in SUBSET Requests
        /\ Lists(d.order, Keyed(d))
    BY DictIs
  <1>2. PICK r : r = Head(d.order)
    OBVIOUS
  <1>3. PICK order : order = Tail(d.order)
    OBVIOUS
  <1>4. /\ r \in Requests /\ r \in Keyed(d)
        /\ order \in Seq(Requests) /\ Lists(order, Keyed(d) \ {r})
    BY <1>1, <1>2, <1>3, TailLists
  <1>5. PICK of : of = [d.of EXCEPT ![r] = None]
    OBVIOUS
  <1>6. /\ of \in [Requests -> Entry \cup {None}] /\ of[r] = None
        /\ \A q \in Requests : q # r => of[q] = d.of[q]
    BY <1>1, <1>4, <1>5
  <1>7. PICK new : new = [of |-> of, order |-> order]
    OBVIOUS
  <1>8. new = DropOldest(d)
    BY <1>2, <1>3, <1>5, <1>7 DEF DropOldest
  <1>9. Keyed(new) = Keyed(d) \ {r}
    BY <1>6, <1>7 DEF Keyed
  <1>10. new \in Dictionary /\ new.order = order /\ new.of = of
    BY <1>4, <1>6, <1>7 DEF Dictionary
  <1>11. d.of[r] # None
    BY <1>4 DEF Keyed
  <1>12. QED
    BY <1>2, <1>4, <1>6, <1>8, <1>9, <1>10, <1>11, DictIs

LEMMA PutAllIs ==
    ASSUME NEW d, DictOK(d), NEW e, DictOK(e), NEW S \in SUBSET Keyed(e),
           S \cap Keyed(d) = {}
    PROVE  /\ DictOK(PutAll(d, e, S))
           /\ \A r \in Requests : PutAll(d, e, S).of[r] =
                                     IF r \in S THEN e.of[r] ELSE d.of[r]
  <1>1. /\ d.of \in [Requests -> Entry \cup {None}] /\ e.of \in [Requests -> Entry \cup {None}]
        /\ d.order \in Seq(Requests) /\ Keyed(d) \in SUBSET Requests
        /\ e.order \in Seq(Requests) /\ Keyed(e) \in SUBSET Requests
        /\ Lists(d.order, Keyed(d)) /\ Lists(e.order, Keyed(e))
    BY DictIs
  <1>2. PICK more : more = Those(e.order, S)
    OBVIOUS
  <1>3. more \in Seq(Requests) /\ Lists(more, S)
    <2>1. more \in Seq(Requests) /\ Lists(more, Keyed(e) \cap S)
      BY <1>1, <1>2, ThoseLists
    <2>2. Keyed(e) \cap S = S
      OBVIOUS
    <2>3. QED
      BY <2>1, <2>2
  <1>4. PICK order : order = d.order \o more
    OBVIOUS
  <1>5. order \in Seq(Requests) /\ Lists(order, Keyed(d) \cup S)
    BY <1>1, <1>3, <1>4, ConcatLists
  <1>6. PICK of : of = [r \in Requests |-> IF r \in S THEN e.of[r] ELSE d.of[r]]
    OBVIOUS
  <1>7. of \in [Requests -> Entry \cup {None}]
    BY <1>1, <1>6
  <1>8. PICK new : new = [of |-> of, order |-> order]
    OBVIOUS
  <1>9. new = PutAll(d, e, S)
    BY <1>2, <1>4, <1>6, <1>8 DEF PutAll
  <1>10. Keyed(new) = Keyed(d) \cup S
    <2>1. \A r \in S : r \in Requests /\ e.of[r] # None
      BY DEF Keyed
    <2>2. QED
      BY <1>6, <1>8, <2>1 DEF Keyed
  <1>11. new \in Dictionary /\ new.order = order /\ new.of = of
    BY <1>5, <1>7, <1>8 DEF Dictionary
  <1>12. QED
    BY <1>5, <1>6, <1>9, <1>10, <1>11, DictIs

(* A buffer that is full has an oldest entry.                              *)
LEMMA FullHasOldest ==
    ASSUME BufferAssumption, DictOK(entries), Full
    PROVE  entries.order # <<>>
  <1>1. Lists(entries.order, Keyed(entries))
    BY DictIs
  <1>2. SUFFICES ASSUME entries.order = <<>> PROVE FALSE
    OBVIOUS
  <1>3. Keyed(entries) = {}
    BY <1>1, <1>2 DEF Lists
  <1>4. Cardinality(Keyed(entries)) = 0
    BY <1>3, FS_EmptySet
  <1>5. QED
    BY <1>4 DEF Full, BufferAssumption

(* What goes back of a batch that failed.                                  *)
LEMMA RetriedIs ==
    ASSUME BufferAssumption, DictOK(batch)
    PROVE  /\ DictOK(Retried) /\ Keyed(Retried) = Keyed(batch)
           /\ Retriable \in SUBSET Keyed(batch)
           /\ \A r \in Retriable :
                 /\ batch.of[r] \in Entry
                 /\ Retried.of[r].status = batch.of[r].status
                 /\ Retried.of[r].retries = batch.of[r].retries + 1
  <1>1. /\ batch \in Dictionary /\ batch.of \in [Requests -> Entry \cup {None}]
        /\ batch.order \in Seq(Requests) /\ Lists(batch.order, Keyed(batch))
    BY DictIs
  <1>2. Retriable \in SUBSET Keyed(batch) /\ Keyed(batch) \in SUBSET Requests
    BY DEF Retriable, Keyed
  <1>3. PICK up : up = [r \in Requests |-> [batch.of[r] EXCEPT !.retries = batch.of[r].retries + 1]]
    OBVIOUS
  <1>4. ASSUME NEW r \in Retriable
        PROVE  /\ batch.of[r] \in Entry /\ up[r] \in Entry
               /\ up[r].status = batch.of[r].status
               /\ up[r].retries = batch.of[r].retries + 1
    <2>1. PICK e : e = batch.of[r]
      OBVIOUS
    <2>2. e \in Entry /\ e.retries < MaxRetries
      BY <1>1, <1>2, <2>1 DEF Retriable, Keyed
    <2>3. up[r] = [e EXCEPT !.retries = e.retries + 1]
      BY <1>2, <1>3, <2>1
    <2>4. e.retries + 1 \in 0..MaxRetries
      BY <2>2 DEF Entry, BufferAssumption
    <2>5. QED
      BY <2>1, <2>2, <2>3, <2>4 DEF Entry
  <1>5. PICK of : of = [r \in Requests |-> IF r \in Retriable THEN up[r] ELSE batch.of[r]]
    OBVIOUS
  <1>6. of \in [Requests -> Entry \cup {None}]
    BY <1>1, <1>4, <1>5
  <1>7. PICK new : new = [of |-> of, order |-> batch.order]
    OBVIOUS
  <1>8. Retried = new
    <2>1. of = [r \in Requests |-> IF r \in Retriable
                                   THEN [batch.of[r] EXCEPT !.retries = @ + 1]
                                   ELSE batch.of[r]]
      BY <1>2, <1>3, <1>5
    <2>2. Retried = [batch EXCEPT !.of = of]
      BY <2>1 DEF Retried
    <2>3. QED
      BY <1>1, <1>7, <2>2 DEF Dictionary
  <1>9. new.of = of /\ new.order = batch.order /\ new \in Dictionary
    BY <1>1, <1>6, <1>7 DEF Dictionary
  <1>10. Keyed(new) = Keyed(batch)
    <2>1. ASSUME NEW r \in Requests
          PROVE  new.of[r] # None <=> batch.of[r] # None
      <3>1. CASE r \in Retriable
        BY <1>2, <1>4, <1>5, <1>9, <3>1 DEF Keyed, BufferAssumption
      <3>2. CASE r \notin Retriable
        BY <1>5, <1>9, <3>2
      <3>3. QED
        BY <3>1, <3>2
    <2>2. QED
      BY <2>1 DEF Keyed
  <1>11. DictOK(new)
    BY <1>1, <1>9, <1>10, DictIs
  <1>12. \A r \in Retriable : new.of[r] = up[r]
    BY <1>2, <1>5, <1>9
  <1>13. QED
    BY <1>2, <1>4, <1>8, <1>10, <1>11, <1>12

-----------------------------------------------------------------------------
(* What the steps of the router do. *)

LEMMA BufferIs ==
    ASSUME TypeOK
    PROVE  /\ DictOK(entries) /\ DictOK(batch)
           /\ entries \in Dictionary /\ batch \in Dictionary
           /\ \A r \in Requests :
                 /\ entries.of[r] # None => entries.of[r] \in Entry
                 /\ batch.of[r] # None => batch.of[r] \in Entry
                 /\ call[r] \in {"new", "recorded", "routed"} \cup Outcomes
  <1>1. DictOK(entries) /\ DictOK(batch)
    BY DEF TypeOK
  <1>2. /\ entries \in Dictionary /\ batch \in Dictionary
        /\ entries.of \in [Requests -> Entry \cup {None}]
        /\ batch.of \in [Requests -> Entry \cup {None}]
    BY <1>1, DictIs
  <1>3. QED
    BY <1>1, <1>2 DEF TypeOK

(* The call of r is at v.                                                  *)
CallAt(r, v) == /\ call' = [call EXCEPT ![r] = v]
                /\ v \in {"recorded", "routed"} \cup Outcomes

LEMMA CallIs ==
    ASSUME TypeOK, NEW r \in Requests, NEW v, CallAt(r, v)
    PROVE  /\ call' \in [Requests -> {"new", "recorded", "routed"} \cup Outcomes]
           /\ call'[r] = v
           /\ \A q \in Requests : q # r => call'[q] = call[q]
  BY DEF TypeOK, CallAt

LEMMA RecordIs ==
    ASSUME BufferAssumption, TypeOK, NEW r \in Requests, Record(r)
    PROVE  /\ call[r] = "new" /\ CallAt(r, "recorded")
           /\ DictOK(entries') /\ UNCHANGED <<batch, flusher>>
           /\ entries'.of[r] \in Entry /\ entries'.of[r] # None
           /\ entries'.of[r].status = "none"
           /\ \A q \in Requests : q # r =>
                 \/ entries'.of[q] = entries.of[q]
                 \/ Full /\ q = Head(entries.order) /\ entries'.of[q] = None
  <1>1. PICK d : d = IF Full THEN DropOldest(entries) ELSE entries
    OBVIOUS
  <1>2. /\ DictOK(d)
        /\ \A q \in Requests : \/ d.of[q] = entries.of[q]
                               \/ Full /\ q = Head(entries.order) /\ d.of[q] = None
    BY <1>1, BufferIs, FullHasOldest, DropIs
  <1>3. PICK e : e = [opened |-> TRUE, status |-> "none", retries |-> 0]
    OBVIOUS
  <1>4. e \in Entry /\ e.status = "none"
    BY <1>3 DEF Entry, BufferAssumption
  <1>5. entries' = Put(d, r, e)
    BY <1>1, <1>3 DEF Record
  <1>6. /\ DictOK(entries') /\ entries'.of[r] = e /\ e # None
        /\ \A q \in Requests : q # r => entries'.of[q] = d.of[q]
    BY <1>2, <1>4, <1>5, PutIs
  <1>7. QED
    BY <1>2, <1>4, <1>6 DEF Record, CallAt

LEMMA UpdateIs ==
    ASSUME BufferAssumption, TypeOK, NEW r \in Requests,
           NEW status \in {"none"} \cup Outcomes, Update(r, status)
    PROVE  /\ DictOK(entries')
           /\ entries'.of[r] \in Entry /\ entries'.of[r] # None
           /\ entries'.of[r].status =
                 IF status = "none" /\ entries.of[r] # None
                 THEN entries.of[r].status ELSE status
           /\ \A q \in Requests : q # r => entries'.of[q] = entries.of[q]
  <1>1. PICK old : old = entries.of[r]
    OBVIOUS
  <1>2. PICK e : e = IF old = None
                     THEN [opened |-> FALSE, status |-> status, retries |-> 0]
                     ELSE [old EXCEPT !.status = IF status = "none" THEN old.status
                                                 ELSE status]
    OBVIOUS
  <1>3. old # None => old \in Entry
    BY <1>1, BufferIs
  <1>4. e \in Entry /\ e.status = IF status = "none" /\ old # None THEN old.status ELSE status
    <2>1. CASE old = None
      BY <1>2, <2>1 DEF Entry, BufferAssumption
    <2>2. CASE old # None
      BY <1>2, <1>3, <2>2 DEF Entry
    <2>3. QED
      BY <2>1, <2>2
  <1>5. entries' = Put(entries, r, e)
    BY <1>1, <1>2 DEF Update
  <1>6. QED
    BY <1>1, <1>4, <1>5, BufferIs, PutIs

LEMMA RouteIs ==
    ASSUME BufferAssumption, TypeOK, NEW r \in Requests, Route(r)
    PROVE  /\ call[r] = "recorded" /\ CallAt(r, "routed")
           /\ DictOK(entries') /\ UNCHANGED <<batch, flusher>>
           /\ entries'.of[r] \in Entry /\ entries'.of[r] # None
           /\ entries'.of[r].status = IF entries.of[r] # None
                                      THEN entries.of[r].status ELSE "none"
           /\ \A q \in Requests : q # r => entries'.of[q] = entries.of[q]
  <1>1. Update(r, "none")
    BY DEF Route
  <1>2. QED
    BY <1>1, UpdateIs DEF Route, CallAt

LEMMA FinishIs ==
    ASSUME BufferAssumption, TypeOK, NEW r \in Requests, NEW o \in Outcomes, Finish(r, o)
    PROVE  /\ call[r] \notin Outcomes /\ CallAt(r, o)
           /\ DictOK(entries') /\ UNCHANGED <<batch, flusher>>
           /\ entries'.of[r] \in Entry /\ entries'.of[r] # None
           /\ entries'.of[r].status = o
           /\ \A q \in Requests : q # r => entries'.of[q] = entries.of[q]
  <1>1. Update(r, o) /\ o # "none"
    BY DEF Finish, Outcomes
  <1>2. call[r] \notin Outcomes
    BY DEF Finish, Outcomes
  <1>3. QED
    BY <1>1, <1>2, UpdateIs DEF Finish, CallAt

(* What goes back, and only that.                                          *)
GoesBack(r) == /\ entries.of[r] = None /\ batch.of[r] # None
               /\ batch.of[r].retries < MaxRetries

LEMMA FlushFailIs ==
    ASSUME BufferAssumption, TypeOK, FlushFail
    PROVE  /\ Flushing /\ batch' = Empty /\ flusher' \in {"sleeping", "stopped"}
           /\ UNCHANGED call /\ DictOK(entries')
           /\ \A r \in Requests :
                 IF GoesBack(r)
                 THEN /\ entries'.of[r] \in Entry /\ entries'.of[r] # None
                      /\ entries'.of[r].status = batch.of[r].status
                      /\ entries'.of[r].retries = batch.of[r].retries + 1
                 ELSE entries'.of[r] = entries.of[r]
  <1>1. PICK S : S = Retriable \ Keyed(entries)
    OBVIOUS
  <1>2. /\ DictOK(Retried) /\ Keyed(Retried) = Keyed(batch)
        /\ S \in SUBSET Retriable /\ Retriable \in SUBSET Keyed(batch)
        /\ S \cap Keyed(entries) = {}
        /\ \A r \in Retriable :
              /\ Retried.of[r].status = batch.of[r].status
              /\ Retried.of[r].retries = batch.of[r].retries + 1
    BY <1>1, BufferIs, RetriedIs
  <1>3. entries' = PutAll(entries, Retried, S)
    BY <1>1 DEF FlushFail
  <1>4. S \in SUBSET Keyed(Retried)
    BY <1>2
  <1>5. /\ DictOK(entries')
        /\ \A r \in Requests : entries'.of[r] = IF r \in S THEN Retried.of[r]
                                                ELSE entries.of[r]
    BY <1>2, <1>3, <1>4, BufferIs, PutAllIs
  <1>6. \A r \in Requests : r \in S <=> GoesBack(r)
    BY <1>1 DEF GoesBack, Retriable, Keyed
  <1>7. \A r \in S : Retried.of[r] \in Entry /\ Retried.of[r] # None
    <2>1. Retried.of \in [Requests -> Entry \cup {None}]
      BY <1>2, DictIs
    <2>2. \A r \in S : r \in Requests /\ Retried.of[r] # None
      BY <1>4 DEF Keyed
    <2>3. QED
      BY <2>1, <2>2
  <1>8. /\ Flushing /\ batch' = Empty /\ flusher' \in {"sleeping", "stopped"}
        /\ UNCHANGED call
    BY DEF FlushFail, FlushEnds
  <1>9. QED
    BY <1>2, <1>5, <1>6, <1>7, <1>8

LEMMA FlushOkIs ==
    ASSUME FlushOk
    PROVE  /\ Flushing /\ batch' = Empty /\ flusher' \in {"sleeping", "stopped"}
           /\ UNCHANGED <<call, entries>>
  BY DEF FlushOk, FlushEnds

-----------------------------------------------------------------------------
(* What the workers do. *)

LEMMA WorkIs ==
    ASSUME TypeOK, NEW w \in Workers
    PROVE  /\ work[w] \in {IdleWorker} \cup Transaction \cup Counting
           /\ Busy(w, "entries") => work[w] \in Transaction /\ DictOK(work[w].todo)
           /\ Busy(w, "stats") => work[w] \in Counting
           /\ Busy(w, "idle") => work[w] = IdleWorker
           /\ work[w].stage \in {"idle", "entries", "stats"}
           /\ work[w].waited \in BOOLEAN
           /\ work[w].waited => work[w].stage # "idle"
  <1>1. PICK t : t = work[w]
    OBVIOUS
  <1>2. t \in {IdleWorker} \cup Transaction \cup Counting
    BY <1>1 DEF TypeOK
  <1>3. t = IdleWorker => t.stage = "idle" /\ t.waited = FALSE
    BY DEF IdleWorker
  <1>4. t \in Transaction => t.stage = "entries" /\ t.waited \in BOOLEAN
    BY DEF Transaction
  <1>5. t \in Counting => t.stage = "stats" /\ t.waited \in BOOLEAN
    BY DEF Counting
  <1>6. Busy(w, "entries") => DictOK(work[w].todo)
    BY DEF TypeOK
  <1>7. QED
    BY <1>1, <1>2, <1>3, <1>4, <1>5, <1>6 DEF Busy

(* Worker w goes on as new. *)
Becomes(w, new) ==
    /\ work' = [work EXCEPT ![w] = new]
    /\ new \in {IdleWorker} \cup Transaction \cup Counting
    /\ new.stage = "entries" => DictOK(new.todo)

LEMMA BecomesIs ==
    ASSUME TypeOK, NEW w \in Workers, NEW new, Becomes(w, new)
    PROVE  /\ work' \in [Workers -> {IdleWorker} \cup Transaction \cup Counting]
           /\ \A v \in Workers : Busy(v, "entries")' => DictOK(work'[v].todo)
           /\ work'[w] = new
           /\ \A v \in Workers : v # w => work'[v] = work[v]
  <1>1. /\ work' \in [Workers -> {IdleWorker} \cup Transaction \cup Counting]
        /\ work'[w] = new
        /\ \A v \in Workers : v # w => work'[v] = work[v]
    BY DEF TypeOK, Becomes
  <1>2. ASSUME NEW v \in Workers, Busy(v, "entries")'
        PROVE  DictOK(work'[v].todo)
    <2>1. CASE v = w
      BY <1>1, <1>2, <2>1 DEF Becomes, Busy
    <2>2. CASE v # w
      BY <1>1, <1>2, <2>2 DEF TypeOK, Busy
    <2>3. QED
      BY <2>1, <2>2
  <1>3. QED
    BY <1>1, <1>2

LEMMA ViewIs ==
    ASSUME NEW t \in Transaction
    PROVE  /\ View(t) \in Transaction /\ View(t).stage = "entries"
           /\ View(t).todo = t.todo /\ View(t).waited = t.waited
           /\ View(t).wrote = t.wrote /\ View(t).inserted = t.inserted
           /\ View(t).bills = t.bills /\ View(t).finalized = t.finalized
           /\ View(t).loaded = t.loaded /\ View(t).expired = t.expired
           /\ \A r \in View(t).seen : rows[r] # "absent"
  <1>1. PICK seen, seenBilled : /\ seen = {r \in Keyed(t.todo) : rows[r] # "absent"}
                                /\ seenBilled = Keyed(t.todo) \cap charged
    OBVIOUS
  <1>2. seen \in SUBSET Requests /\ seenBilled \in SUBSET Requests
    BY <1>1 DEF Keyed
  <1>3. View(t) = [t EXCEPT !.seen = seen, !.seenBilled = seenBilled]
    BY <1>1 DEF View
  <1>4. PICK v : v = [t EXCEPT !.seen = seen, !.seenBilled = seenBilled]
    OBVIOUS
  <1>5. /\ v \in Transaction /\ v.stage = "entries"
        /\ v.todo = t.todo /\ v.waited = t.waited
        /\ v.wrote = t.wrote /\ v.inserted = t.inserted
        /\ v.bills = t.bills /\ v.finalized = t.finalized
        /\ v.loaded = t.loaded /\ v.expired = t.expired
        /\ v.seen = seen
    BY <1>2, <1>4 DEF Transaction
  <1>6. \A r \in seen : rows[r] # "absent"
    BY <1>1
  <1>7. View(t) = v
    BY <1>3, <1>4
  <1>8. QED
    BY <1>5, <1>6, <1>7

(* A transaction that has done nothing yet. *)
Fresh(t, d) ==
    /\ t \in Transaction /\ t.stage = "entries" /\ t.waited = TRUE
    /\ t.todo = d /\ t.inserted = {} /\ t.bills = {} /\ t.finalized = {}
    /\ \A r \in Requests : t.wrote[r] = "absent"
    /\ \A r \in t.seen : rows[r] # "absent"

LEMMA NewTransactionIs ==
    ASSUME NEW d, DictOK(d), NEW t, t = NewTransaction(d)
    PROVE  Fresh(t, d)
  <1>1. PICK first : first = [stage |-> "entries", waited |-> TRUE, todo |-> d,
          seen |-> {}, seenBilled |-> {},
          wrote |-> [r \in Requests |-> "absent"],
          inserted |-> {}, bills |-> {},
          finalized |-> {}, loaded |-> {}, expired |-> {}]
    OBVIOUS
  <1>2. /\ first \in Transaction /\ first.todo = d /\ first.waited = TRUE
        /\ first.inserted = {} /\ first.bills = {} /\ first.finalized = {}
        /\ \A r \in Requests : first.wrote[r] = "absent"
    <2>1. d \in Dictionary
      BY DictIs
    <2>2. [r \in Requests |-> "absent"] \in [Requests -> Rows]
      BY DEF Rows
    <2>3. QED
      BY <1>1, <2>1, <2>2 DEF Transaction
  <1>3. t = View(first)
    BY <1>1 DEF NewTransaction
  <1>4. QED
    BY <1>2, <1>3, ViewIs DEF Fresh

LEMMA RolledBackIs ==
    ASSUME NEW t \in Transaction, NEW u, u = RolledBack(t)
    PROVE  /\ u \in Transaction /\ u.stage = "entries" /\ u.waited = t.waited
           /\ u.todo = t.todo /\ u.inserted = {} /\ u.bills = {}
           /\ u.finalized = t.finalized
           /\ \A r \in Requests : u.wrote[r] = "absent"
           /\ \A r \in u.seen : rows[r] # "absent"
  <1>1. PICK none : none = [r \in Requests |-> "absent"]
    OBVIOUS
  <1>2. none \in [Requests -> Rows] /\ \A r \in Requests : none[r] = "absent"
    BY <1>1 DEF Rows
  <1>3. PICK back : back = [t EXCEPT !.wrote = none, !.inserted = {}, !.bills = {},
                                     !.expired = t.loaded]
    OBVIOUS
  <1>4. /\ back \in Transaction /\ back.waited = t.waited /\ back.todo = t.todo
        /\ back.inserted = {} /\ back.bills = {} /\ back.finalized = t.finalized
        /\ back.wrote = none
    BY <1>2, <1>3 DEF Transaction
  <1>5. u = View(back)
    BY <1>1, <1>3 DEF RolledBack
  <1>6. QED
    BY <1>2, <1>4, <1>5, ViewIs

(* The transaction t has handled r, its oldest entry. *)
Handled(t, u, r) ==
    /\ u \in Transaction /\ u.stage = "entries" /\ u.waited = t.waited
    /\ DictOK(u.todo)
    /\ u.todo.of[r] = None
    /\ \A q \in Requests : q # r => u.todo.of[q] = t.todo.of[q]

LEMMA WrittenIs ==
    ASSUME NEW t \in Transaction, DictOK(t.todo), t.todo.order # <<>>,
           NEW r, r = Head(t.todo.order), NEW u, u = Written(t, r)
    PROVE  /\ r \in Requests /\ t.todo.of[r] # None /\ t.todo.of[r] \in Entry
           /\ Handled(t, u, r)
           /\ u.finalized = t.finalized \cup (IF t.todo.of[r].status = "none" THEN {} ELSE {r})
           /\ u.inserted = t.inserted /\ u.seen = t.seen
           /\ u.wrote[r] = IF t.todo.of[r].status = "none" /\ r \notin t.inserted
                           THEN t.wrote[r] ELSE t.todo.of[r].status
           /\ \A q \in Requests : q # r => u.wrote[q] = t.wrote[q]
           /\ u.bills = t.bills \/ (u.bills = t.bills \cup {r} /\ t.todo.of[r].status = "paid")
  <1>1. /\ r \in Requests /\ t.todo.of[r] # None
        /\ DictOK(DropOldest(t.todo)) /\ DropOldest(t.todo).of[r] = None
        /\ \A q \in Requests : q # r => DropOldest(t.todo).of[q] = t.todo.of[q]
    BY DropIs
  <1>2. t.todo.of[r] \in Entry
    <2>1. t.todo.of \in [Requests -> Entry \cup {None}]
      BY DictIs
    <2>2. QED
      BY <1>1, <2>1
  <1>3. PICK status : status = t.todo.of[r].status
    OBVIOUS
  <1>4. status \in {"none"} \cup Outcomes /\ status \in Rows
    BY <1>2, <1>3 DEF Entry, Rows
  <1>5. PICK todo : todo = DropOldest(t.todo)
    OBVIOUS
  <1>6. todo \in Dictionary
    BY <1>1, <1>5, DictIs
  <1>7. PICK final : final = IF status = "none" THEN {} ELSE {r}
    OBVIOUS
  <1>8. final \in SUBSET Requests
    BY <1>1, <1>7
  <1>9. PICK bills : bills = IF Billable(t, r) THEN t.bills \cup {r} ELSE t.bills
    OBVIOUS
  <1>10. /\ bills \in SUBSET Requests
         /\ bills = t.bills \/ (bills = t.bills \cup {r} /\ status = "paid")
    BY <1>1, <1>3, <1>9 DEF Billable, Transaction
  <1>11. PICK wrote : wrote = [t.wrote EXCEPT ![r] =
                                  IF status = "none" /\ r \notin t.inserted
                                  THEN t.wrote[r] ELSE status]
    OBVIOUS
  <1>12. t.wrote \in [Requests -> Rows]
    BY DEF Transaction
  <1>13. /\ wrote \in [Requests -> Rows]
         /\ wrote[r] = IF status = "none" /\ r \notin t.inserted
                       THEN t.wrote[r] ELSE status
         /\ \A q \in Requests : q # r => wrote[q] = t.wrote[q]
    BY <1>1, <1>4, <1>11, <1>12
  <1>14. PICK set : set = [t EXCEPT !.wrote = wrote]
    OBVIOUS
  <1>15. SetStatus(t, r) = set
    BY <1>3, <1>11, <1>14 DEF SetStatus
  <1>16. /\ set \in Transaction /\ set.wrote = wrote
         /\ set.waited = t.waited /\ set.inserted = t.inserted /\ set.seen = t.seen
         /\ set.finalized = t.finalized /\ set.loaded = t.loaded /\ set.bills = t.bills
    BY <1>13, <1>14 DEF Transaction
  <1>17. PICK more : more = t.loaded \cup (final \ t.inserted)
    OBVIOUS
  <1>18. u = [set EXCEPT !.finalized = t.finalized \cup final, !.loaded = more,
                         !.bills = bills, !.todo = todo]
    BY <1>3, <1>5, <1>7, <1>9, <1>15, <1>16, <1>17 DEF Written
  <1>19. t.finalized \cup final \in SUBSET Requests /\ more \in SUBSET Requests
    BY <1>8, <1>17 DEF Transaction
  <1>20. /\ u \in Transaction /\ u.wrote = wrote /\ u.waited = t.waited
         /\ u.inserted = t.inserted /\ u.seen = t.seen /\ u.stage = "entries"
         /\ u.finalized = t.finalized \cup final /\ u.bills = bills /\ u.todo = todo
    BY <1>6, <1>10, <1>16, <1>18, <1>19 DEF Transaction
  <1>21. Handled(t, u, r)
    BY <1>1, <1>5, <1>20 DEF Handled
  <1>22. QED
    BY <1>1, <1>2, <1>3, <1>7, <1>10, <1>13, <1>20, <1>21

(* An entry that is in the table, or is put there, is written.             *)
LEMMA UpdateRowIs ==
    ASSUME TypeOK, NEW w \in Workers, NEW r \in Requests, UpdateRow(w, r),
           NEW t, t = work[w], NEW u, u = Written(t, r)
    PROVE  /\ t \in Transaction /\ DictOK(t.todo)
           /\ t.todo.order # <<>> /\ r = Head(t.todo.order)
           /\ r \in t.seen \cup t.inserted
           /\ Becomes(w, u) /\ UNCHANGED <<rows, charged, counted>>
  <1>1. Busy(w, "entries")
    BY DEF UpdateRow, Handles
  <1>2. /\ t \in Transaction /\ DictOK(t.todo)
        /\ t.todo.order # <<>> /\ r = Head(t.todo.order)
        /\ r \in t.seen \cup t.inserted
    BY <1>1, WorkIs DEF UpdateRow, Handles, Visible
  <1>3. Handled(t, u, r)
    BY <1>2, WrittenIs
  <1>4. work' = [work EXCEPT ![w] = u] /\ UNCHANGED <<rows, charged, counted>>
    BY DEF UpdateRow, Write
  <1>5. QED
    BY <1>2, <1>3, <1>4 DEF Becomes, Handled

WithRow(t, r) == [t EXCEPT !.inserted = t.inserted \cup {r}]

LEMMA InsertRowIs ==
    ASSUME TypeOK, NEW w \in Workers, NEW r \in Requests, InsertRow(w, r),
           NEW old, old = work[w], NEW t, t = WithRow(old, r),
           NEW u, u = Written(t, r)
    PROVE  /\ old \in Transaction /\ DictOK(old.todo)
           /\ t \in Transaction /\ t.todo = old.todo /\ t.waited = old.waited
           /\ t.wrote = old.wrote /\ t.bills = old.bills /\ t.seen = old.seen
           /\ t.finalized = old.finalized /\ t.inserted = old.inserted \cup {r}
           /\ t.todo.order # <<>> /\ r = Head(t.todo.order)
           /\ rows[r] = "absent"
           /\ \A v \in Workers : v # w /\ Busy(v, "entries") => r \notin work[v].inserted
           /\ Becomes(w, u) /\ UNCHANGED <<rows, charged, counted>>
  <1>1. Busy(w, "entries")
    BY DEF InsertRow, Handles
  <1>2. /\ old \in Transaction /\ DictOK(old.todo)
        /\ old.todo.order # <<>> /\ r = Head(old.todo.order)
    BY <1>1, WorkIs DEF InsertRow, Handles
  <1>3. old.inserted \cup {r} \in SUBSET Requests
    BY <1>2 DEF Transaction
  <1>4. /\ t \in Transaction /\ t.todo = old.todo /\ t.waited = old.waited
        /\ t.wrote = old.wrote /\ t.bills = old.bills /\ t.seen = old.seen
        /\ t.finalized = old.finalized /\ t.inserted = old.inserted \cup {r}
    <2>1. PICK more : more = old.inserted \cup {r}
      OBVIOUS
    <2>2. t = [old EXCEPT !.inserted = more] /\ more \in SUBSET Requests
      BY <1>3, <2>1 DEF WithRow
    <2>3. QED
      BY <1>2, <2>1, <2>2 DEF Transaction
  <1>5. Handled(t, u, r)
    BY <1>2, <1>4, WrittenIs, ZenonT(40)
  <1>6. work' = [work EXCEPT ![w] = u] /\ UNCHANGED <<rows, charged, counted>>
    BY DEF InsertRow, Write, WithRow
  <1>7. /\ rows[r] = "absent"
        /\ \A v \in Workers : v # w /\ Busy(v, "entries") => r \notin work[v].inserted
    BY DEF InsertRow, Peers, Busy
  <1>8. QED
    BY <1>2, <1>4, <1>5, <1>6, <1>7 DEF Becomes, Handled

(* An insert that fails takes back what the transaction has written.       *)
Undone(t, u) ==
    /\ u \in Transaction /\ u.stage = "entries" /\ u.waited = t.waited /\ DictOK(u.todo)
    /\ u.inserted = {} /\ u.bills = {} /\ u.finalized = t.finalized
    /\ \A r \in Requests : u.wrote[r] = "absent"
    /\ \A r \in u.seen : rows[r] # "absent"
    /\ \A r \in Requests : u.todo.of[r] = None \/ u.todo.of[r] = t.todo.of[r]

LEMMA FailedRowIs ==
    ASSUME TypeOK, NEW w \in Workers, NEW r \in Requests,
           DuplicateRow(w, r) \/ SkipEntry(w, r), NEW t, t = work[w]
    PROVE  /\ t \in Transaction
           /\ UNCHANGED <<rows, charged, counted>>
           /\ \E u : Becomes(w, u) /\ Undone(t, u)
  <1>1. Busy(w, "entries") /\ t.todo.order # <<>>
    BY DEF DuplicateRow, SkipEntry, Handles
  <1>2. t \in Transaction /\ DictOK(t.todo)
    BY <1>1, WorkIs
  <1>3. PICK back : back = RolledBack(t)
    OBVIOUS
  <1>4. /\ back \in Transaction /\ back.stage = "entries" /\ back.waited = t.waited
        /\ back.todo = t.todo /\ back.inserted = {} /\ back.bills = {}
        /\ back.finalized = t.finalized
        /\ \A q \in Requests : back.wrote[q] = "absent"
        /\ \A q \in back.seen : rows[q] # "absent"
    BY <1>2, <1>3, RolledBackIs
  <1>5. CASE DuplicateRow(w, r)
    <2>1. work' = [work EXCEPT ![w] = back] /\ UNCHANGED <<rows, charged, counted>>
      BY <1>3, <1>5 DEF DuplicateRow
    <2>2. Undone(t, back)
      BY <1>2, <1>4 DEF Undone
    <2>3. Becomes(w, back)
      BY <1>2, <1>4, <2>1 DEF Becomes
    <2>4. QED
      BY <1>2, <2>1, <2>2, <2>3
  <1>6. CASE SkipEntry(w, r)
    <2>1. PICK todo : todo = DropOldest(t.todo)
      OBVIOUS
    <2>2. /\ DictOK(todo) /\ todo \in Dictionary
          /\ \A q \in Requests : todo.of[q] = None \/ todo.of[q] = t.todo.of[q]
      <3>1. /\ DictOK(todo) /\ todo.of[Head(t.todo.order)] = None
            /\ \A q \in Requests : q # Head(t.todo.order) => todo.of[q] = t.todo.of[q]
        BY <1>1, <1>2, <2>1, DropIs
      <3>2. QED
        BY <3>1, DictIs
    <2>3. PICK u : u = [back EXCEPT !.todo = todo]
      OBVIOUS
    <2>4. /\ u \in Transaction /\ u.stage = "entries" /\ u.waited = t.waited
          /\ u.todo = todo /\ u.inserted = {} /\ u.bills = {}
          /\ u.finalized = t.finalized /\ u.wrote = back.wrote /\ u.seen = back.seen
      BY <1>4, <2>2, <2>3 DEF Transaction
    <2>5. work' = [work EXCEPT ![w] = u] /\ UNCHANGED <<rows, charged, counted>>
      BY <1>3, <1>4, <1>6, <2>1, <2>3 DEF SkipEntry
    <2>6. Undone(t, u)
      BY <1>4, <2>2, <2>4 DEF Undone
    <2>7. Becomes(w, u)
      BY <2>2, <2>4, <2>5 DEF Becomes
    <2>8. QED
      BY <1>2, <2>5, <2>6, <2>7
  <1>7. QED
    BY <1>5, <1>6

LEMMA CommitIs ==
    ASSUME TypeOK, NEW w \in Workers, CommitBatch(w), NEW t, t = work[w]
    PROVE  /\ t \in Transaction /\ UNCHANGED counted
           /\ \E u : /\ Becomes(w, u) /\ u \in Counting /\ u.stage = "stats"
                     /\ u.waited = t.waited /\ u.finalized = t.finalized
           /\ rows' \in [Requests -> Rows] /\ charged' \subseteq Requests
           /\ \A r \in Requests : rows'[r] = IF t.wrote[r] = "absent" THEN rows[r]
                                             ELSE t.wrote[r]
           /\ charged' = charged \cup t.bills
  <1>1. t \in Transaction
    BY WorkIs DEF CommitBatch
  <1>2. PICK u : u = [stage |-> "stats", waited |-> t.waited,
                      finalized |-> t.finalized, expired |-> t.expired]
    OBVIOUS
  <1>3. /\ u \in Counting /\ u.stage = "stats"
        /\ u.waited = t.waited /\ u.finalized = t.finalized
    BY <1>1, <1>2 DEF Counting, Transaction
  <1>4. work' = [work EXCEPT ![w] = u]
    BY <1>2 DEF CommitBatch
  <1>5. Becomes(w, u)
    BY <1>3, <1>4 DEF Becomes
  <1>6. rows' = [r \in Requests |-> IF t.wrote[r] = "absent" THEN rows[r] ELSE t.wrote[r]]
    BY DEF CommitBatch
  <1>7. rows' \in [Requests -> Rows]
    BY <1>1, <1>6 DEF TypeOK, Transaction
  <1>8. charged' = charged \cup t.bills /\ UNCHANGED counted
    BY DEF CommitBatch
  <1>9. charged' \subseteq Requests
    BY <1>1, <1>8 DEF TypeOK, Transaction
  <1>10. QED
    BY <1>1, <1>3, <1>5, <1>6, <1>7, <1>8, <1>9

LEMMA HandledCarries ==
    ASSUME NEW t, t.stage = "entries", NEW u, NEW r \in Requests,
           t.todo.of[r] # None, Handled(t, u, r),
           u.finalized = t.finalized \cup (IF t.todo.of[r].status = "none" THEN {} ELSE {r}),
           NEW q \in Requests, Carries(u, q)
    PROVE  Carries(t, q)
  <1>1. u.stage = "entries"
    BY DEF Handled
  <1>2. CASE HasOutcome(u.todo, q)
    <2>1. q # r
      BY <1>2 DEF HasOutcome, Handled
    <2>2. HasOutcome(t.todo, q)
      BY <1>2, <2>1 DEF HasOutcome, Handled
    <2>3. QED
      BY <2>2 DEF Carries
  <1>3. CASE q \in u.finalized
    <2>1. q \in t.finalized \/ (q = r /\ t.todo.of[r].status # "none")
      BY <1>3
    <2>2. QED
      BY <2>1 DEF Carries, HasOutcome
  <1>4. QED
    BY <1>1, <1>2, <1>3 DEF Carries

(* Whatever a worker does before its answer, it takes up nothing new.      *)
LEMMA WorkStep ==
    ASSUME TypeOK, NEW w \in Workers, Work(w)
    PROVE  \E new : /\ Becomes(w, new) /\ Busy(w, "entries")
                    /\ new.waited = work[w].waited /\ new.stage # "idle"
                    /\ \A q \in Requests : Carries(new, q) => Carries(work[w], q)
  <1>1. PICK t : t = work[w]
    OBVIOUS
  <1>2. t \in Transaction => t.stage = "entries" /\ Busy(w, "entries")
    BY <1>1 DEF Transaction, Busy
  <1>3. ASSUME NEW r \in Requests, UpdateRow(w, r)
        PROVE  \E new : /\ Becomes(w, new) /\ Busy(w, "entries")
                        /\ new.waited = t.waited /\ new.stage # "idle"
                        /\ \A q \in Requests : Carries(new, q) => Carries(t, q)
    <2>1. PICK u : u = Written(t, r)
      OBVIOUS
    <2>2. /\ t \in Transaction /\ DictOK(t.todo)
          /\ t.todo.order # <<>> /\ r = Head(t.todo.order) /\ Becomes(w, u)
      BY <1>1, <1>3, <2>1, UpdateRowIs
    <2>3. /\ t.todo.of[r] # None /\ Handled(t, u, r)
          /\ u.finalized = t.finalized \cup
                (IF t.todo.of[r].status = "none" THEN {} ELSE {r})
      BY <2>1, <2>2, WrittenIs
    <2>4. \A q \in Requests : Carries(u, q) => Carries(t, q)
      BY <1>2, <2>2, <2>3, HandledCarries
    <2>5. QED
      BY <1>2, <2>2, <2>3, <2>4 DEF Handled
  <1>4. ASSUME NEW r \in Requests, InsertRow(w, r)
        PROVE  \E new : /\ Becomes(w, new) /\ Busy(w, "entries")
                        /\ new.waited = t.waited /\ new.stage # "idle"
                        /\ \A q \in Requests : Carries(new, q) => Carries(t, q)
    <2>1. PICK s : s = WithRow(t, r)
      OBVIOUS
    <2>2. PICK u : u = Written(s, r)
      OBVIOUS
    <2>3. /\ t \in Transaction /\ s \in Transaction /\ DictOK(t.todo)
          /\ s.todo = t.todo /\ s.waited = t.waited /\ s.finalized = t.finalized
          /\ s.todo.order # <<>> /\ r = Head(s.todo.order) /\ Becomes(w, u)
      BY <1>1, <1>4, <2>1, <2>2, InsertRowIs
    <2>4. /\ s.todo.of[r] # None /\ Handled(s, u, r)
          /\ u.finalized = s.finalized \cup
                (IF s.todo.of[r].status = "none" THEN {} ELSE {r})
      BY <2>2, <2>3, WrittenIs
    <2>5. s.stage = "entries"
      BY <2>3 DEF Transaction
    <2>6. \A q \in Requests : Carries(u, q) => Carries(s, q)
      BY <2>4, <2>5, HandledCarries
    <2>7. \A q \in Requests : Carries(s, q) => Carries(t, q)
      BY <1>2, <2>3, <2>5 DEF Carries
    <2>8. QED
      BY <1>2, <2>3, <2>4, <2>6, <2>7 DEF Handled
  <1>5. ASSUME NEW r \in Requests, DuplicateRow(w, r) \/ SkipEntry(w, r)
        PROVE  \E new : /\ Becomes(w, new) /\ Busy(w, "entries")
                        /\ new.waited = t.waited /\ new.stage # "idle"
                        /\ \A q \in Requests : Carries(new, q) => Carries(t, q)
    <2>1. t \in Transaction
      BY <1>1, <1>5, FailedRowIs
    <2>2. PICK u : Becomes(w, u) /\ Undone(t, u)
      BY <1>1, <1>5, FailedRowIs
    <2>3. u.stage = "entries" /\ u.waited = t.waited /\ u.finalized = t.finalized
      BY <2>2 DEF Undone
    <2>4. ASSUME NEW q \in Requests, Carries(u, q)
          PROVE  Carries(t, q)
      <3>1. HasOutcome(u.todo, q) => HasOutcome(t.todo, q)
        BY <2>2 DEF HasOutcome, Undone
      <3>2. QED
        BY <1>2, <2>1, <2>3, <2>4, <3>1 DEF Carries
    <2>5. QED
      BY <1>2, <2>1, <2>2, <2>3, <2>4
  <1>6. ASSUME CommitBatch(w)
        PROVE  \E new : /\ Becomes(w, new) /\ Busy(w, "entries")
                        /\ new.waited = t.waited /\ new.stage # "idle"
                        /\ \A q \in Requests : Carries(new, q) => Carries(t, q)
    <2>1. t \in Transaction
      BY <1>1, <1>6, CommitIs
    <2>2. PICK u : /\ Becomes(w, u) /\ u \in Counting /\ u.stage = "stats"
                   /\ u.waited = t.waited /\ u.finalized = t.finalized
      BY <1>1, <1>6, CommitIs
    <2>3. \A q \in Requests : Carries(u, q) => Carries(t, q)
      BY <1>2, <2>1, <2>2 DEF Carries
    <2>4. QED
      BY <1>2, <2>1, <2>2, <2>3
  <1>7. QED
    BY <1>1, <1>3, <1>4, <1>5, <1>6 DEF Work

-----------------------------------------------------------------------------
(* Giving up on an answer, the answer, and the shutdown. *)

Unwaited(t) == [t EXCEPT !.waited = FALSE]

(* u is t but for the router that waits for it.                            *)
Alike(t, u) ==
    /\ u.stage = t.stage
    /\ t = IdleWorker => u = IdleWorker
    /\ t \in Counting => u \in Counting /\ u.finalized = t.finalized
    /\ t \in Transaction => /\ u \in Transaction /\ u.todo = t.todo
                            /\ u.finalized = t.finalized
                            /\ u.wrote = t.wrote /\ u.inserted = t.inserted
                            /\ u.bills = t.bills /\ u.seen = t.seen

LEMMA UnwaitedIs ==
    ASSUME NEW t \in {IdleWorker} \cup Transaction \cup Counting, NEW u, u = Unwaited(t)
    PROVE  u.waited = FALSE /\ Alike(t, u)
  <1>1. CASE t = IdleWorker
    <2>1. u = IdleWorker
      BY <1>1 DEF Unwaited, IdleWorker
    <2>2. ~(t \in Counting) /\ ~(t \in Transaction)
      <3>1. t.stage = "idle"
        BY <1>1 DEF IdleWorker
      <3>2. QED
        BY <3>1 DEF Counting, Transaction
    <2>3. IdleWorker.waited = FALSE
      BY DEF IdleWorker
    <2>4. QED
      BY <1>1, <2>1, <2>2, <2>3 DEF Alike
  <1>2. CASE t \in Counting
    <2>1. t.stage = "stats"
      BY <1>2 DEF Counting
    <2>2. t # IdleWorker /\ ~(t \in Transaction)
      BY <2>1 DEF IdleWorker, Transaction
    <2>3. /\ u \in Counting /\ u.finalized = t.finalized /\ u.stage = t.stage
          /\ u.waited = FALSE
      BY <1>2 DEF Unwaited, Counting
    <2>4. QED
      BY <2>2, <2>3 DEF Alike
  <1>3. CASE t \in Transaction
    <2>1. t.stage = "entries"
      BY <1>3 DEF Transaction
    <2>2. t # IdleWorker /\ ~(t \in Counting)
      BY <2>1 DEF IdleWorker, Counting
    <2>3. /\ u \in Transaction /\ u.stage = t.stage /\ u.waited = FALSE
          /\ u.todo = t.todo /\ u.finalized = t.finalized
          /\ u.wrote = t.wrote /\ u.inserted = t.inserted
          /\ u.bills = t.bills /\ u.seen = t.seen
      BY <1>3 DEF Unwaited, Transaction
    <2>4. QED
      BY <2>2, <2>3 DEF Alike
  <1>4. QED
    BY <1>1, <1>2, <1>3

LEMMA AlikeCarries ==
    ASSUME NEW t \in {IdleWorker} \cup Transaction \cup Counting, NEW u, Alike(t, u),
           NEW r
    PROVE  Carries(u, r) => Carries(t, r)
  <1>1. t = IdleWorker => t.stage = "idle"
    BY DEF IdleWorker
  <1>2. t \in Transaction => t.stage = "entries"
    BY DEF Transaction
  <1>3. t \in Counting => t.stage = "stats"
    BY DEF Counting
  <1>4. QED
    BY <1>1, <1>2, <1>3 DEF Alike, Carries

LEMMA IdleIs ==
    /\ IdleWorker.stage = "idle" /\ IdleWorker.waited = FALSE
    /\ \A r : ~Carries(IdleWorker, r)
  <1>1. IdleWorker.stage = "idle" /\ IdleWorker.waited = FALSE
    BY DEF IdleWorker
  <1>2. QED
    BY <1>1 DEF Carries

LEMMA ReceiveIs ==
    ASSUME TypeOK, NEW w \in Workers, Receive(w)
    PROVE  \E t : /\ Becomes(w, t)
                  /\ Flushing /\ \A v \in Workers : ~Awaited(v)
                  /\ Busy(w, "idle") /\ work[w] = IdleWorker
                  /\ t \in Transaction /\ t.stage = "entries" /\ t.waited = TRUE
                  /\ t.todo = batch /\ t.inserted = {} /\ t.bills = {}
                  /\ t.finalized = {}
                  /\ \A r \in Requests : t.wrote[r] = "absent"
                  /\ \A r \in t.seen : rows[r] # "absent"
                  /\ UNCHANGED <<rows, charged, counted, call, entries, batch, flusher>>
  <1>0. PICK d : d = batch /\ DictOK(d)
    BY BufferIs
  <1>1. PICK t : t = NewTransaction(d)
    OBVIOUS
  <1>2. /\ t \in Transaction /\ t.stage = "entries" /\ t.waited = TRUE
        /\ t.todo = batch /\ t.inserted = {} /\ t.bills = {} /\ t.finalized = {}
        /\ \A r \in Requests : t.wrote[r] = "absent"
        /\ \A r \in t.seen : rows[r] # "absent"
    <2>1. Fresh(t, d)
      BY <1>0, <1>1, NewTransactionIs
    <2>2. QED
      BY <1>0, <2>1 DEF Fresh
  <1>3. work' = [work EXCEPT ![w] = t]
    BY <1>0, <1>1 DEF Receive
  <1>4. Becomes(w, t)
    BY <1>2, <1>3, BufferIs DEF Becomes
  <1>5. Busy(w, "idle") => work[w] = IdleWorker
    BY WorkIs
  <1>6. QED
    BY <1>2, <1>4, <1>5 DEF Receive, bufferVars

LEMMA TimeoutIs ==
    ASSUME TypeOK, NEW w \in Workers, Timeout(w)
    PROVE  /\ Awaited(w) /\ FlushFail /\ UNCHANGED <<rows, charged, counted>>
           /\ \E u : Becomes(w, u) /\ u.waited = FALSE /\ Alike(work[w], u)
  <1>1. PICK t : t = work[w]
    OBVIOUS
  <1>2. t \in {IdleWorker} \cup Transaction \cup Counting
    BY <1>1, WorkIs
  <1>3. PICK u : u = Unwaited(t)
    OBVIOUS
  <1>4. u.waited = FALSE /\ Alike(t, u)
    BY <1>2, <1>3, UnwaitedIs
  <1>5. work' = [work EXCEPT ![w] = u]
    BY <1>1, <1>3 DEF Timeout, Unwaited
  <1>6. u \in {IdleWorker} \cup Transaction \cup Counting
    BY <1>2, <1>4 DEF Alike
  <1>7. u.stage = "entries" => DictOK(u.todo)
    <2>1. u.stage = "entries" => Busy(w, "entries") /\ t \in Transaction /\ DictOK(t.todo)
      BY <1>1, <1>4, WorkIs DEF Busy, Alike
    <2>2. QED
      BY <1>4, <2>1 DEF Alike
  <1>8. Becomes(w, u)
    BY <1>5, <1>6, <1>7 DEF Becomes
  <1>9. QED
    BY <1>1, <1>4, <1>8 DEF Timeout

LEMMA IdleBecomes ==
    ASSUME NEW w, work' = [work EXCEPT ![w] = IdleWorker]
    PROVE  Becomes(w, IdleWorker)
  BY IdleIs DEF Becomes

LEMMA AnswerIs ==
    ASSUME TypeOK, NEW w \in Workers, Answer(w)
    PROVE  /\ Becomes(w, IdleWorker) /\ UNCHANGED <<rows, charged>>
           /\ Busy(w, "stats") /\ work[w] \in Counting
           /\ counted' \in [Requests -> Nat]
           /\ \A r \in Requests : counted'[r] = IF Carries(work[w], r)
                                                THEN counted[r] + 1 ELSE counted[r]
           /\ Awaited(w) => FlushOk
           /\ ~Awaited(w) => UNCHANGED <<call, entries, batch, flusher>>
  <1>1. CountBatch(w)
    BY DEF Answer
  <1>2. Busy(w, "stats") /\ work[w] \in Counting
    BY <1>1, WorkIs DEF CountBatch
  <1>3. counted' = [r \in Requests |->
                      counted[r] + IF r \in work[w].finalized THEN 1 ELSE 0]
    BY <1>1 DEF CountBatch
  <1>4. counted \in [Requests -> Nat]
    BY DEF TypeOK
  <1>5. \A r \in Requests : Carries(work[w], r) <=> r \in work[w].finalized
    BY <1>2 DEF Carries, Busy
  <1>6. /\ counted' \in [Requests -> Nat]
        /\ \A r \in Requests : counted'[r] = IF Carries(work[w], r)
                                             THEN counted[r] + 1 ELSE counted[r]
    BY <1>3, <1>4, <1>5
  <1>7. Becomes(w, IdleWorker) /\ UNCHANGED <<rows, charged>>
    BY <1>1, IdleBecomes DEF CountBatch
  <1>8. QED
    BY <1>2, <1>6, <1>7 DEF Answer, bufferVars

LEMMA FailIs ==
    ASSUME TypeOK, NEW w \in Workers, Fail(w)
    PROVE  /\ Becomes(w, IdleWorker) /\ UNCHANGED <<rows, charged, counted>>
           /\ Awaited(w) => FlushFail
           /\ ~Awaited(w) => UNCHANGED <<call, entries, batch, flusher>>
  BY IdleBecomes DEF Fail, AbortBatch, bufferVars

LEMMA StopIs ==
    ASSUME Stop
    PROVE  /\ Running /\ batch' = entries /\ entries' = Empty
           /\ flusher' \in {"stopping", "stopped"}
           /\ entries # Empty => flusher' = "stopping"
           /\ UNCHANGED call
  BY DEF Stop

LEMMA ShutdownIs ==
    ASSUME TypeOK, Shutdown
    PROVE  /\ Stop /\ UNCHANGED <<rows, charged, counted>>
           /\ work' \in [Workers -> {IdleWorker} \cup Transaction \cup Counting]
           /\ \A w \in Workers : work'[w].waited = FALSE /\ Alike(work[w], work'[w])
  <1>1. work' = [w \in Workers |-> Unwaited(work[w])]
    BY DEF Shutdown, Unwaited
  <1>2. \A w \in Workers : /\ work'[w].waited = FALSE /\ Alike(work[w], work'[w])
                           /\ work'[w] \in {IdleWorker} \cup Transaction \cup Counting
    <2>1. TAKE w \in Workers
    <2>2. PICK t \in {IdleWorker} \cup Transaction \cup Counting : t = work[w]
      BY WorkIs
    <2>3. PICK u : u = Unwaited(t)
      OBVIOUS
    <2>4. u.waited = FALSE /\ Alike(t, u)
      BY <2>3, UnwaitedIs
    <2>5. work'[w] = u
      BY <1>1, <2>2, <2>3
    <2>6. QED
      BY <2>2, <2>4, <2>5 DEF Alike
  <1>3. work' \in [Workers -> {IdleWorker} \cup Transaction \cup Counting]
    BY <1>1, <1>2
  <1>4. QED
    BY <1>2, <1>3 DEF Shutdown

-----------------------------------------------------------------------------
(* Types. *)

LEMMA TypesInit == BufferAssumption /\ Init => TypeOK
  <1> SUFFICES ASSUME BufferAssumption, Init PROVE TypeOK
    OBVIOUS
  <1>2. entries = Empty /\ batch = Empty
    BY DEF Init, InitBuffer
  <1>3. DictOK(entries) /\ DictOK(batch)
    BY <1>2, EmptyIs
  <1>4. work \in [Workers -> {IdleWorker}] /\ \A w \in Workers : work[w] = IdleWorker
    BY DEF Init, InitBatch
  <1>5. \A w \in Workers : ~Busy(w, "entries")
    BY <1>4, IdleIs DEF Busy
  <1>6. rows \in [Requests -> Rows] /\ charged \subseteq Requests
    BY DEF Init, InitBatch, Rows
  <1>7. counted \in [Requests -> Nat]
    BY DEF Init, InitBatch
  <1>8. /\ call \in [Requests -> {"new", "recorded", "routed"} \cup Outcomes]
        /\ flusher \in {"sleeping", "flushing", "stopping", "stopped"}
    BY DEF Init, InitBuffer
  <1>9. QED
    BY <1>3, <1>4, <1>5, <1>6, <1>7, <1>8 DEF TypeOK

(* What TypeOK says of the router, and of the work.                        *)
RouterTyped ==
    /\ call \in [Requests -> {"new", "recorded", "routed"} \cup Outcomes]
    /\ DictOK(entries) /\ DictOK(batch)
    /\ flusher \in {"sleeping", "flushing", "stopping", "stopped"}

WorkTyped ==
    /\ work \in [Workers -> {IdleWorker} \cup Transaction \cup Counting]
    /\ \A w \in Workers : Busy(w, "entries") => DictOK(work[w].todo)

RowsTyped ==
    /\ rows \in [Requests -> Rows]
    /\ charged \subseteq Requests
    /\ counted \in [Requests -> Nat]

LEMMA TypeParts == TypeOK <=> RouterTyped /\ WorkTyped /\ RowsTyped
  BY DEF TypeOK, RouterTyped, WorkTyped, RowsTyped

LEMMA BecomesTyped ==
    ASSUME TypeOK, NEW w \in Workers, NEW new, Becomes(w, new)
    PROVE  WorkTyped'
  BY BecomesIs DEF WorkTyped

LEMMA FailTyped ==
    ASSUME BufferAssumption, TypeOK, FlushFail \/ FlushOk
    PROVE  RouterTyped'
  <1>1. CASE FlushFail
    BY <1>1, FlushFailIs, EmptyIs DEF TypeOK, RouterTyped
  <1>2. CASE FlushOk
    BY <1>2, FlushOkIs, EmptyIs DEF TypeOK, RouterTyped
  <1>3. QED
    BY <1>1, <1>2

LEMMA TypesStep == BufferAssumption /\ TypeOK /\ [Next]_vars => TypeOK'
  <1> SUFFICES ASSUME BufferAssumption, TypeOK, [Next]_vars
               PROVE  TypeOK'
    OBVIOUS
  <1>1. RouterTyped /\ WorkTyped /\ RowsTyped
    BY TypeParts
  <1>a. TypeOK' <=> RouterTyped' /\ WorkTyped' /\ RowsTyped'
    BY TypeParts, PTL
  <1>b. (UNCHANGED bufferVars => RouterTyped') /\ (UNCHANGED <<rows, charged, counted>> => RowsTyped')
    BY <1>1 DEF RouterTyped, RowsTyped, bufferVars
  <1>c. UNCHANGED work => WorkTyped'
    BY <1>1 DEF WorkTyped, Busy
  <1>2. ASSUME NEW r \in Requests, Handler(r)
        PROVE  TypeOK'
    <2>1. ASSUME Record(r) PROVE RouterTyped'
      <3>1. CallAt(r, "recorded") /\ DictOK(entries') /\ UNCHANGED <<batch, flusher>>
        BY <2>1, RecordIs
      <3>2. QED
        BY <1>1, <3>1, CallIs DEF RouterTyped
    <2>2. ASSUME Route(r) PROVE RouterTyped'
      <3>1. CallAt(r, "routed") /\ DictOK(entries') /\ UNCHANGED <<batch, flusher>>
        BY <2>2, RouteIs
      <3>2. QED
        BY <1>1, <3>1, CallIs DEF RouterTyped
    <2>3. ASSUME NEW o \in Outcomes, Finish(r, o) PROVE RouterTyped'
      <3>1. CallAt(r, o) /\ DictOK(entries') /\ UNCHANGED <<batch, flusher>>
        BY <2>3, FinishIs
      <3>2. QED
        BY <1>1, <3>1, CallIs DEF RouterTyped
    <2>4. QED
      BY <1>2, <1>a, <1>b, <1>c, <2>1, <2>2, <2>3 DEF Handler, batchVars
  <1>3. CASE Flush
    BY <1>1, <1>3, <1>a, <1>b, <1>c, EmptyIs
    DEF Flush, StartFlush, RouterTyped, batchVars
  <1>4. ASSUME NEW w \in Workers, Receive(w)
        PROVE  TypeOK'
    BY <1>4, <1>a, <1>b, ReceiveIs, BecomesTyped DEF bufferVars
  <1>5. ASSUME NEW w \in Workers, Timeout(w)
        PROVE  TypeOK'
    BY <1>5, <1>a, <1>b, TimeoutIs, BecomesTyped, FailTyped
  <1>6. ASSUME NEW w \in Workers, Work(w)
        PROVE  TypeOK'
    <2>1. WorkTyped'
      BY <1>6, WorkStep, BecomesTyped
    <2>2. RouterTyped'
      BY <1>6, <1>b DEF Work
    <2>3. RowsTyped'
      <3>1. ASSUME CommitBatch(w) PROVE RowsTyped'
        <4>1. /\ rows' \in [Requests -> Rows] /\ charged' \subseteq Requests
              /\ UNCHANGED counted
          BY <3>1, CommitIs
        <4>2. QED
          BY <1>1, <4>1 DEF RowsTyped
      <3>2. CommitBatch(w) \/ UNCHANGED <<rows, charged, counted>>
        BY <1>6 DEF Work, UpdateRow, InsertRow, DuplicateRow, SkipEntry, Write
      <3>3. QED
        BY <1>b, <3>1, <3>2
    <2>4. QED
      BY <1>a, <2>1, <2>2, <2>3
  <1>7. ASSUME NEW w \in Workers, Answer(w)
        PROVE  TypeOK'
    <2>1. /\ Becomes(w, IdleWorker) /\ UNCHANGED <<rows, charged>>
          /\ counted' \in [Requests -> Nat]
          /\ FlushOk \/ UNCHANGED <<call, entries, batch, flusher>>
      BY <1>7, AnswerIs
    <2>2. WorkTyped'
      BY <2>1, BecomesTyped
    <2>3. RowsTyped'
      BY <1>1, <2>1 DEF RowsTyped
    <2>4. RouterTyped'
      BY <1>b, <2>1, FailTyped DEF bufferVars
    <2>5. QED
      BY <1>a, <2>2, <2>3, <2>4
  <1>8. ASSUME NEW w \in Workers, Fail(w)
        PROVE  TypeOK'
    <2>1. /\ Becomes(w, IdleWorker) /\ UNCHANGED <<rows, charged, counted>>
          /\ FlushFail \/ UNCHANGED <<call, entries, batch, flusher>>
      BY <1>8, FailIs
    <2>2. WorkTyped'
      BY <2>1, BecomesTyped
    <2>3. RouterTyped'
      BY <1>b, <2>1, FailTyped DEF bufferVars
    <2>4. QED
      BY <1>a, <1>b, <2>1, <2>2, <2>3
  <1>9. CASE Refused
    BY <1>9, <1>a, <1>b, <1>c, FailTyped DEF Refused, batchVars
  <1>10. CASE Shutdown
    <2>1. /\ Stop /\ UNCHANGED <<rows, charged, counted>>
          /\ work' \in [Workers -> {IdleWorker} \cup Transaction \cup Counting]
          /\ \A w \in Workers : Alike(work[w], work'[w])
      BY <1>10, ShutdownIs
    <2>2. RouterTyped'
      BY <1>1, <2>1, StopIs, EmptyIs DEF RouterTyped
    <2>3. ASSUME NEW w \in Workers, Busy(w, "entries")'
          PROVE  DictOK(work'[w].todo)
      <3>1. Busy(w, "entries")
        BY <2>1, <2>3 DEF Busy, Alike
      <3>2. work[w] \in Transaction /\ DictOK(work[w].todo)
        BY <3>1, WorkIs
      <3>3. QED
        BY <2>1, <3>2 DEF Alike
    <2>4. WorkTyped'
      BY <2>1, <2>3 DEF WorkTyped
    <2>5. QED
      BY <1>a, <1>b, <2>1, <2>2, <2>4
  <1>11. CASE UNCHANGED vars
    BY <1>11, <1>a, <1>b, <1>c DEF vars, bufferVars
  <1>12. QED
    BY <1>2, <1>3, <1>4, <1>5, <1>6, <1>7, <1>8, <1>9, <1>10, <1>11 DEF Next

-----------------------------------------------------------------------------
(* Statuses, and who is waited for. *)

LEMMA StatusIs ==
    ASSUME TypeOK, ToldByRouter, NEW r \in Requests
    PROVE  /\ entries.of[r] # None => entries.of[r].status \in {"none"} \cup Outcomes
           /\ batch.of[r] # None => batch.of[r].status \in {"none"} \cup Outcomes
           /\ call[r] \notin Outcomes => ~HasOutcome(entries, r) /\ ~HasOutcome(batch, r)
  <1>1. /\ entries.of[r] # None => entries.of[r].status \in {"none"} \cup Outcomes
        /\ batch.of[r] # None => batch.of[r].status \in {"none"} \cup Outcomes
    BY BufferIs DEF Entry
  <1>2. /\ entries.of[r] # None => entries.of[r].status \in {"none", call[r]}
        /\ batch.of[r] # None => batch.of[r].status \in {"none", call[r]}
    BY DEF ToldByRouter, Told
  <1>3. QED
    BY <1>1, <1>2 DEF HasOutcome

(* What a handler does: one entry of its own, with the outcome it has; and *)
(* perhaps the oldest is gone.                                             *)
Says(r, v) ==
    /\ call[r] \notin Outcomes /\ CallAt(r, v)
    /\ DictOK(entries') /\ UNCHANGED <<batch, flusher>>
    /\ entries'.of[r] \in Entry /\ entries'.of[r] # None
    /\ entries'.of[r].status = IF v \in Outcomes THEN v ELSE "none"
    /\ \A q \in Requests : q # r =>
          \/ entries'.of[q] = entries.of[q]
          \/ Full /\ q = Head(entries.order) /\ entries'.of[q] = None

LEMMA HandlerIs ==
    ASSUME BufferAssumption, TypeOK, ToldByRouter, NEW r \in Requests, Handler(r)
    PROVE  /\ UNCHANGED <<rows, charged, counted, work>>
           /\ \E v : Says(r, v)
  <1>1. UNCHANGED <<rows, charged, counted, work>>
    BY DEF Handler, batchVars
  <1>a. /\ "new" \notin Outcomes /\ "recorded" \notin Outcomes /\ "routed" \notin Outcomes
        /\ "none" \notin Outcomes
    BY DEF Outcomes
  <1>2. CASE Record(r)
    <2>1. Says(r, "recorded")
      BY <1>2, <1>a, RecordIs DEF Says
    <2>2. QED
      BY <1>1, <2>1
  <1>3. CASE Route(r)
    <2>1. call[r] \notin Outcomes
      BY <1>a, <1>3, RouteIs
    <2>2. ~HasOutcome(entries, r)
      BY <2>1, StatusIs
    <2>3. entries'.of[r].status = "none"
      BY <1>3, <2>2, RouteIs DEF HasOutcome
    <2>4. Says(r, "routed")
      BY <1>3, <1>a, <2>1, <2>3, RouteIs DEF Says
    <2>5. QED
      BY <1>1, <2>4
  <1>4. ASSUME NEW o \in Outcomes, Finish(r, o)
        PROVE  \E v : Says(r, v)
    <2>1. Says(r, o)
      BY <1>4, FinishIs DEF Says
    <2>2. QED
      BY <2>1
  <1>5. QED
    BY <1>1, <1>2, <1>3, <1>4 DEF Handler

LEMMA WaitedIs ==
    ASSUME TypeOK, NEW w \in Workers, NEW new, Becomes(w, new)
    PROVE  /\ Awaited(w)' <=> new.waited
           /\ \A v \in Workers : v # w => (Awaited(v)' <=> Awaited(v))
  BY BecomesIs DEF Awaited

(* The flush is over and nobody is waited for any more.                    *)
LEMMA NobodyWaits ==
    ASSUME TypeOK, OneBatch
    PROVE  /\ Refused => \A v \in Workers : ~Awaited(v)'
           /\ \A w \in Workers : Timeout(w) \/ (Awaited(w) /\ (Answer(w) \/ Fail(w)))
                 => \A v \in Workers : ~Awaited(v)'
           /\ Shutdown => \A v \in Workers : ~Awaited(v)'
  <1>1. Refused => \A v \in Workers : ~Awaited(v)'
    BY DEF Refused, batchVars, Awaited
  <1>2. ASSUME NEW w \in Workers, Timeout(w) \/ (Awaited(w) /\ (Answer(w) \/ Fail(w)))
        PROVE  \A v \in Workers : ~Awaited(v)'
    <2>1. Awaited(w) /\ \A v \in Workers : v # w => ~Awaited(v)
      BY <1>2 DEF OneBatch, Timeout
    <2>2. PICK new : Becomes(w, new) /\ new.waited = FALSE
      BY <1>2, TimeoutIs, AnswerIs, FailIs, IdleIs
    <2>3. QED
      BY <2>1, <2>2, WaitedIs
  <1>3. Shutdown => \A v \in Workers : ~Awaited(v)'
    BY ShutdownIs DEF Awaited
  <1>4. QED
    BY <1>1, <1>2, <1>3

LEMMA EmptyHasNone == \A r \in Requests : ~HasOutcome(Empty, r)
  BY EmptyIs DEF HasOutcome

-----------------------------------------------------------------------------
(* Every status is the one reported. *)

LEMMA ToldInit == BufferAssumption /\ Init => ToldByRouter
  <1> SUFFICES ASSUME BufferAssumption, Init PROVE ToldByRouter
    OBVIOUS
  <1>1. entries = Empty /\ batch = Empty
    BY DEF Init, InitBuffer
  <1>2. QED
    BY <1>1, EmptyIs DEF ToldByRouter

LEMMA ToldFlushed ==
    ASSUME BufferAssumption, TypeOK, ToldByRouter, FlushFail \/ FlushOk
    PROVE  ToldByRouter'
  <1>1. UNCHANGED call /\ batch' = Empty
    BY FlushFailIs, FlushOkIs
  <1>2. ASSUME NEW r \in Requests, entries'.of[r] # None
        PROVE  entries'.of[r].status \in {"none", call[r]}
    <2>1. CASE FlushFail
      <3>1. CASE GoesBack(r)
        BY <2>1, <3>1, FlushFailIs DEF GoesBack, ToldByRouter, Told
      <3>2. CASE ~GoesBack(r)
        BY <1>2, <2>1, <3>2, FlushFailIs DEF ToldByRouter, Told
      <3>3. QED
        BY <3>1, <3>2
    <2>2. CASE FlushOk
      BY <1>2, <2>2, FlushOkIs DEF ToldByRouter, Told
    <2>3. QED
      BY <2>1, <2>2
  <1>3. QED
    BY <1>1, <1>2, EmptyIs DEF ToldByRouter, Told

LEMMA ToldStep ==
    BufferAssumption /\ TypeOK /\ ToldByRouter /\ [Next]_vars => ToldByRouter'
  <1> SUFFICES ASSUME BufferAssumption, TypeOK, ToldByRouter, [Next]_vars
               PROVE  ToldByRouter'
    OBVIOUS
  <1>1. UNCHANGED bufferVars => ToldByRouter'
    BY DEF bufferVars, ToldByRouter, Told
  <1>2. ASSUME NEW r \in Requests, Handler(r)
        PROVE  ToldByRouter'
    <2>1. PICK v : Says(r, v)
      BY <1>2, HandlerIs
    <2>2. call'[r] = v /\ \A q \in Requests : q # r => call'[q] = call[q]
      BY <2>1, CallIs DEF Says
    <2>3. ASSUME NEW q \in Requests
          PROVE  /\ entries'.of[q] # None => entries'.of[q].status \in {"none", call'[q]}
                 /\ batch'.of[q] # None => batch'.of[q].status \in {"none", call'[q]}
      <3>1. CASE q = r
        <4>1. ~HasOutcome(batch, r) /\ batch' = batch
          BY <2>1, StatusIs DEF Says
        <4>2. QED
          BY <2>1, <2>2, <3>1, <4>1 DEF Says, HasOutcome
      <3>2. CASE q # r
        BY <2>1, <2>2, <3>2 DEF Says, ToldByRouter, Told
      <3>3. QED
        BY <3>1, <3>2
    <2>4. QED
      BY <2>3 DEF ToldByRouter, Told
  <1>3. CASE Flush
    BY <1>3, EmptyIs DEF Flush, StartFlush, ToldByRouter, Told
  <1>4. ASSUME NEW w \in Workers, Receive(w) \/ Work(w)
        PROVE  ToldByRouter'
    BY <1>1, <1>4 DEF Receive, Work
  <1>5. ASSUME NEW w \in Workers, Timeout(w) \/ Answer(w) \/ Fail(w)
        PROVE  ToldByRouter'
    BY <1>1, <1>5, ToldFlushed DEF Timeout, Answer, Fail
  <1>6. CASE Refused
    BY <1>6, ToldFlushed DEF Refused
  <1>7. CASE Shutdown
    BY <1>7, EmptyIs DEF Shutdown, Stop, ToldByRouter, Told
  <1>8. CASE UNCHANGED vars
    BY <1>1, <1>8 DEF vars, bufferVars
  <1>9. QED
    BY <1>2, <1>3, <1>4, <1>5, <1>6, <1>7, <1>8 DEF Next

-----------------------------------------------------------------------------
(* One batch at a time. *)

LEMMA OneInit == BufferAssumption /\ Init => OneBatch
  <1> SUFFICES ASSUME BufferAssumption, Init PROVE OneBatch
    OBVIOUS
  <1>1. entries = Empty /\ batch = Empty
    BY DEF Init, InitBuffer
  <1>2. \A w \in Workers : work[w] = IdleWorker
    BY DEF Init, InitBatch
  <1>3. \A w \in Workers : ~Awaited(w)
    BY <1>2, IdleIs DEF Awaited
  <1>4. \A r \in Requests : entries.of[r] = None
    BY <1>1, EmptyIs
  <1>5. QED
    BY <1>1, <1>3, <1>4 DEF OneBatch

LEMMA OneFlushed ==
    ASSUME BufferAssumption, TypeOK, OneBatch, FlushFail \/ FlushOk,
           \A v \in Workers : ~Awaited(v)'
    PROVE  OneBatch'
  <1>1. batch' = Empty
    BY FlushFailIs, FlushOkIs
  <1>2. \A r \in Requests : ~HasOutcome(batch, r)'
    BY <1>1, EmptyHasNone DEF HasOutcome
  <1>3. QED
    BY <1>1, <1>2 DEF OneBatch, Empty

LEMMA OneGoesOn ==
    ASSUME OneBatch, UNCHANGED <<call, entries, batch, flusher>>,
           \A v \in Workers : Awaited(v)' => Awaited(v)
    PROVE  OneBatch'
  <1>1. \A r \in Requests : HasOutcome(batch, r)' <=> HasOutcome(batch, r)
    BY DEF HasOutcome
  <1>2. QED
    BY <1>1 DEF OneBatch, Flushing, Empty

LEMMA OneStep ==
    BufferAssumption /\ TypeOK /\ ToldByRouter /\ OneBatch /\ [Next]_vars => OneBatch'
  <1> SUFFICES ASSUME BufferAssumption, TypeOK, ToldByRouter, OneBatch, [Next]_vars
               PROVE  OneBatch'
    OBVIOUS
  <1>1. ASSUME NEW r \in Requests, Handler(r)
        PROVE  OneBatch'
    <2>1. PICK v : Says(r, v)
      BY <1>1, HandlerIs
    <2>2. UNCHANGED <<batch, flusher, work>> /\ ~HasOutcome(batch, r)
      BY <1>1, <2>1, HandlerIs, StatusIs DEF Says
    <2>3. ASSUME NEW q \in Requests, HasOutcome(batch, q)'
          PROVE  entries'.of[q] = None
      <3>1. HasOutcome(batch, q) /\ q # r
        BY <2>2, <2>3 DEF HasOutcome
      <3>2. QED
        BY <2>1, <3>1 DEF Says, OneBatch
    <2>4. QED
      BY <2>2, <2>3 DEF OneBatch, Flushing, Awaited, Empty
  <1>2. CASE Flush
    <2>1. /\ ~Flushing /\ Flushing' /\ entries' = Empty /\ UNCHANGED work
      BY <1>2 DEF Flush, StartFlush, Flushing, batchVars
    <2>2. \A w \in Workers : ~Awaited(w)'
      BY <2>1 DEF OneBatch, Awaited
    <2>3. \A q \in Requests : entries'.of[q] = None
      BY <2>1, EmptyIs
    <2>4. QED
      BY <2>1, <2>2, <2>3 DEF OneBatch
  <1>3. ASSUME NEW w \in Workers, Receive(w)
        PROVE  OneBatch'
    <2>1. PICK t : /\ Becomes(w, t) /\ Flushing /\ \A v \in Workers : ~Awaited(v)
                   /\ UNCHANGED <<call, entries, batch, flusher>>
      BY <1>3, ReceiveIs
    <2>2. \A v \in Workers : Awaited(v)' => v = w
      BY <2>1, WaitedIs
    <2>3. Flushing'
      BY <2>1 DEF Flushing
    <2>4. \A r \in Requests : HasOutcome(batch, r)' <=> HasOutcome(batch, r)
      BY <2>1 DEF HasOutcome
    <2>5. QED
      BY <2>1, <2>2, <2>3, <2>4 DEF OneBatch
  <1>4. ASSUME NEW w \in Workers, Work(w)
        PROVE  OneBatch'
    <2>1. PICK new : Becomes(w, new) /\ new.waited = work[w].waited
      BY <1>4, WorkStep
    <2>2. \A v \in Workers : Awaited(v)' => Awaited(v)
      BY <2>1, WaitedIs DEF Awaited
    <2>3. QED
      BY <1>4, <2>2, OneGoesOn DEF Work, bufferVars
  <1>5. ASSUME NEW w \in Workers, Timeout(w)
        PROVE  OneBatch'
    BY <1>5, NobodyWaits, OneFlushed DEF Timeout
  <1>6. ASSUME NEW w \in Workers, Answer(w) \/ Fail(w)
        PROVE  OneBatch'
    <2>1. CASE Awaited(w)
      BY <1>6, <2>1, NobodyWaits, OneFlushed DEF Answer, Fail
    <2>2. CASE ~Awaited(w)
      <3>1. UNCHANGED <<call, entries, batch, flusher>> /\ Becomes(w, IdleWorker)
        BY <1>6, <2>2, AnswerIs, FailIs
      <3>2. \A v \in Workers : Awaited(v)' => Awaited(v)
        BY <3>1, WaitedIs, IdleIs
      <3>3. QED
        BY <3>1, <3>2, OneGoesOn
    <2>3. QED
      BY <2>1, <2>2
  <1>7. CASE Refused
    BY <1>7, NobodyWaits, OneFlushed DEF Refused
  <1>8. CASE Shutdown
    <2>1. /\ entries' = Empty /\ batch' = entries /\ \A v \in Workers : ~Awaited(v)'
          /\ entries # Empty => Flushing'
      BY <1>8, ShutdownIs, StopIs, NobodyWaits DEF Flushing
    <2>2. \A q \in Requests : entries'.of[q] = None
      BY <2>1, EmptyIs
    <2>3. QED
      BY <2>1, <2>2 DEF OneBatch, Empty
  <1>9. CASE UNCHANGED vars
    BY <1>9, OneGoesOn DEF vars, Awaited
  <1>10. QED
    BY <1>1, <1>2, <1>3, <1>4, <1>5, <1>6, <1>7, <1>8, <1>9 DEF Next

-----------------------------------------------------------------------------
(* How often an outcome is sent. *)

LEMMA FewerSent ==
    ASSUME NEW A, IsFiniteSet(A), NEW B \in SUBSET A,
           NEW n \in Nat, NEW k \in Nat, NEW m \in Nat, m <= k, NEW top \in Nat,
           n + Cardinality(A) + k <= top
    PROVE  n + Cardinality(B) + m <= top
  <1>1. IsFiniteSet(B) /\ Cardinality(B) <= Cardinality(A)
    BY FS_Subset
  <1>2. Cardinality(A) \in Nat /\ Cardinality(B) \in Nat
    BY <1>1, FS_CardinalityType
  <1>3. QED
    BY <1>1, <1>2

(* Another one carries it, or one has counted it.                          *)
LEMMA OneCarriesIt ==
    ASSUME NEW A, IsFiniteSet(A), NEW w, w \notin A, NEW B \in SUBSET (A \cup {w}),
           NEW n \in Nat, NEW k \in Nat \ {0}, NEW top \in Nat,
           n + Cardinality(A) + k <= top
    PROVE  n + Cardinality(B) + (k - 1) <= top
  <1>1. IsFiniteSet(A \cup {w}) /\ Cardinality(A \cup {w}) = Cardinality(A) + 1
    BY FS_AddElement
  <1>2. IsFiniteSet(B) /\ Cardinality(B) <= Cardinality(A \cup {w})
    BY <1>1, FS_Subset
  <1>3. Cardinality(A) \in Nat /\ Cardinality(B) \in Nat
    BY <1>2, FS_CardinalityType
  <1>4. QED
    BY <1>1, <1>2, <1>3

LEMMA OneCountedIt ==
    ASSUME NEW A, IsFiniteSet(A), NEW w \in A, NEW B \in SUBSET (A \ {w}),
           NEW n \in Nat, NEW k \in Nat, NEW m \in Nat, m <= k, NEW top \in Nat,
           n + Cardinality(A) + k <= top
    PROVE  (n + 1) + Cardinality(B) + m <= top
  <1>1. IsFiniteSet(A \ {w}) /\ Cardinality(A \ {w}) = Cardinality(A) - 1
    BY FS_RemoveElement
  <1>2. IsFiniteSet(B) /\ Cardinality(B) <= Cardinality(A \ {w})
    BY <1>1, FS_Subset
  <1>3. Cardinality(A) \in Nat /\ Cardinality(B) \in Nat
    BY <1>2, FS_CardinalityType
  <1>4. QED
    BY <1>1, <1>2, <1>3

Sent(r) == counted[r] + Cardinality(Carriers(r)) + Left(r) <= MaxRetries + 1

LEMMA CarriersFinite ==
    ASSUME BatchAssumption, NEW r
    PROVE  IsFiniteSet(Carriers(r)) /\ Carriers(r) \in SUBSET Workers
  <1>1. Carriers(r) \in SUBSET Workers
    BY DEF Carriers
  <1>2. QED
    BY <1>1, FS_Subset DEF BatchAssumption

LEMMA LeftIs ==
    ASSUME BufferAssumption, TypeOK, NEW r \in Requests
    PROVE  Left(r) \in Nat /\ Left(r) <= MaxRetries + 1
  <1>1. /\ entries.of[r] # None => entries.of[r].retries \in 0..MaxRetries
        /\ batch.of[r] # None => batch.of[r].retries \in 0..MaxRetries
    BY BufferIs DEF Entry
  <1>2. QED
    BY <1>1 DEF Left, HasOutcome, BufferAssumption

LEMMA StillSent ==
    ASSUME BufferAssumption, BatchAssumption, TypeOK, TypeOK', NEW r \in Requests, Sent(r),
           counted'[r] = counted[r], Carriers(r)' \subseteq Carriers(r),
           Left(r)' <= Left(r)
    PROVE  Sent(r)'
  <1>1. PICK A, B, k, m : /\ A = Carriers(r) /\ B = Carriers(r)'
                          /\ k = Left(r) /\ m = Left(r)'
    OBVIOUS
  <1>2. IsFiniteSet(A) /\ B \in SUBSET A
    BY <1>1, CarriersFinite
  <1>3. k \in Nat /\ m \in Nat /\ m <= k
    <2>1. (Left(r) \in Nat)'
      BY LeftIs, PTL
    <2>2. QED
      BY <1>1, <2>1, LeftIs
  <1>4. PICK n \in Nat : n = counted[r]
    BY DEF TypeOK
  <1>5. PICK top \in Nat : top = MaxRetries + 1
    BY DEF BufferAssumption
  <1>6. n + Cardinality(A) + k <= top
    BY <1>1, <1>4, <1>5 DEF Sent
  <1>7. n + Cardinality(B) + m <= top
    BY <1>2, <1>3, <1>6, FewerSent
  <1>8. QED
    BY <1>1, <1>4, <1>5, <1>7 DEF Sent

LEMMA CarriersOf ==
    ASSUME TypeOK, NEW w \in Workers, NEW new, Becomes(w, new), NEW r
    PROVE  /\ Carriers(r)' \subseteq Carriers(r) \cup {w}
           /\ Carriers(r)' \ {w} = Carriers(r) \ {w}
           /\ w \in Carriers(r)' <=> Carries(new, r)
  <1>1. Carriers(r)' = {v \in Workers : Carries(work'[v], r)}
    BY DEF Carriers, Carries, HasOutcome
  <1>2. work'[w] = new /\ \A v \in Workers : v # w => work'[v] = work[v]
    BY BecomesIs
  <1>3. QED
    BY <1>1, <1>2 DEF Carriers

(* The flush that failed leaves no more to send than there was.            *)
LEMMA LeftFlushed ==
    ASSUME BufferAssumption, TypeOK, FlushFail \/ FlushOk, NEW r \in Requests
    PROVE  Left(r)' <= Left(r)
  <1>1. UNCHANGED call /\ batch' = Empty /\ ~HasOutcome(batch, r)'
    <2>1. UNCHANGED call /\ batch' = Empty
      BY FlushFailIs, FlushOkIs
    <2>2. QED
      BY <2>1, EmptyHasNone DEF HasOutcome
  <1>2. /\ entries.of[r] # None => entries.of[r].retries \in 0..MaxRetries
        /\ batch.of[r] # None => batch.of[r].retries \in 0..MaxRetries
    BY BufferIs DEF Entry
  <1>3. MaxRetries \in Nat
    BY DEF BufferAssumption
  <1>4. Left(r)' = IF call[r] \notin Outcomes THEN MaxRetries + 1
                   ELSE IF HasOutcome(entries, r)' THEN MaxRetries + 1 - entries'.of[r].retries
                   ELSE 0
    BY <1>1 DEF Left, HasOutcome
  <1>5. CASE FlushFail /\ GoesBack(r)
    <2>1. /\ ~HasOutcome(entries, r) /\ batch.of[r] # None
          /\ HasOutcome(entries, r)' <=> HasOutcome(batch, r)
          /\ entries'.of[r].retries = batch.of[r].retries + 1
      BY <1>5, FlushFailIs DEF GoesBack, HasOutcome
    <2>2. Left(r) = IF call[r] \notin Outcomes THEN MaxRetries + 1
                    ELSE IF HasOutcome(batch, r)
                    THEN MaxRetries + (IF IsSent THEN 0 ELSE 1) - batch.of[r].retries
                    ELSE 0
      BY <2>1 DEF Left
    <2>3. PICK e : e = batch.of[r].retries
      OBVIOUS
    <2>4. e \in 0..MaxRetries
      BY <1>2, <2>1, <2>3
    <2>5. QED
      BY <1>3, <1>4, <2>1, <2>2, <2>3, <2>4
  <1>6. CASE ~(FlushFail /\ GoesBack(r))
    <2>1. entries'.of[r] = entries.of[r]
      BY <1>6, FlushFailIs, FlushOkIs
    <2>2. HasOutcome(entries, r)' <=> HasOutcome(entries, r)
      BY <2>1 DEF HasOutcome
    <2>3. CASE call[r] \notin Outcomes \/ HasOutcome(entries, r)
      <3>1. Left(r)' = Left(r)
        BY <1>4, <2>1, <2>2, <2>3 DEF Left
      <3>2. QED
        BY <3>1, LeftIs
    <2>4. CASE ~(call[r] \notin Outcomes \/ HasOutcome(entries, r))
      <3>1. Left(r)' = 0
        BY <1>4, <2>2, <2>4
      <3>2. QED
        BY <3>1, LeftIs
    <2>5. QED
      BY <2>3, <2>4
  <1>7. QED
    BY <1>5, <1>6

(* Nothing of the router has changed, nor whether somebody is waited for.  *)
LEMMA LeftSame ==
    ASSUME BufferAssumption, TypeOK, UNCHANGED <<call, entries, batch>>,
           IsSent' <=> IsSent, NEW r \in Requests
    PROVE  Left(r)' = Left(r) /\ Left(r)' <= Left(r)
  <1>1. Left(r)' = Left(r)
    <2>1. /\ HasOutcome(entries, r)' <=> HasOutcome(entries, r)
          /\ HasOutcome(batch, r)' <=> HasOutcome(batch, r)
      BY DEF HasOutcome
    <2>2. QED
      BY <2>1 DEF Left
  <1>2. QED
    BY <1>1, LeftIs

LEMMA SentInit == BufferAssumption /\ Init => Sendings
  <1> SUFFICES ASSUME BufferAssumption, Init, NEW r \in Requests
               PROVE  counted[r] + Cardinality(Carriers(r)) + Left(r) <= MaxRetries + 1
    BY DEF Sendings
  <1>1. Carriers(r) = {}
    <2>1. \A w \in Workers : work[w] = IdleWorker
      BY DEF Init, InitBatch
    <2>2. QED
      BY <2>1, IdleIs DEF Carriers
  <1>2. counted[r] = 0 /\ call[r] \notin Outcomes
    BY DEF Init, InitBatch, InitBuffer, Outcomes
  <1>3. Cardinality(Carriers(r)) = 0
    BY <1>1, FS_EmptySet
  <1>4. QED
    BY <1>2, <1>3 DEF Left, BufferAssumption

LEMMA SentStep ==
    /\ BufferAssumption /\ BatchAssumption
    /\ TypeOK /\ ToldByRouter /\ OneBatch /\ Sendings /\ [Next]_vars
    => Sendings'
  <1> SUFFICES ASSUME BufferAssumption, BatchAssumption,
                      TypeOK, ToldByRouter, OneBatch, Sendings, [Next]_vars,
                      NEW r \in Requests
               PROVE  Sent(r)'
    BY DEF Sendings, Sent
  <1>a. TypeOK' /\ Sent(r)
    BY TypesStep DEF Sendings, Sent
  <1>b. MaxRetries \in Nat
    BY DEF BufferAssumption
  <1>c. UNCHANGED work => (IsSent' <=> IsSent) /\ Carriers(r)' = Carriers(r)
    BY DEF IsSent, Awaited, Carriers, Carries, HasOutcome
  <1>1. ASSUME NEW q \in Requests, Handler(q)
        PROVE  Sent(r)'
    <2>1. PICK v : Says(q, v)
      BY <1>1, HandlerIs
    <2>2. /\ call'[q] = v /\ \A p \in Requests : p # q => call'[p] = call[p]
          /\ UNCHANGED <<batch, counted, work>>
      BY <1>1, <2>1, HandlerIs, CallIs DEF Says
    <2>3. HasOutcome(batch, r)' <=> HasOutcome(batch, r)
      BY <2>2 DEF HasOutcome
    <2>4. (Left(r) \in Nat /\ Left(r) <= MaxRetries + 1)'
      BY <1>a, LeftIs, PTL
    <2>5. Left(r)' <= Left(r)
      <3>1. CASE r = q
        <4>1. Left(r) = MaxRetries + 1
          BY <2>1, <3>1 DEF Says, Left
        <4>2. QED
          BY <2>4, <4>1
      <3>2. CASE r # q /\ entries'.of[r] = entries.of[r]
        <4>1. HasOutcome(entries, r)' <=> HasOutcome(entries, r)
          BY <3>2 DEF HasOutcome
        <4>2. Left(r)' = Left(r)
          BY <1>c, <2>2, <2>3, <3>2, <4>1 DEF Left
        <4>3. QED
          BY <4>2, LeftIs
      <3>3. CASE r # q /\ entries'.of[r] = None
        <4>1. ~HasOutcome(entries, r)' /\ call'[r] = call[r]
          BY <2>2, <3>3 DEF HasOutcome
        <4>2. CASE HasOutcome(entries, r) /\ call[r] \in Outcomes
          <5>1. ~HasOutcome(batch, r)
            BY <4>2 DEF OneBatch, HasOutcome
          <5>2. Left(r)' = 0
            BY <2>3, <4>1, <4>2, <5>1 DEF Left
          <5>3. QED
            BY <5>2, LeftIs
        <4>3. CASE ~(HasOutcome(entries, r) /\ call[r] \in Outcomes)
          <5>1. Left(r)' = Left(r)
            BY <1>c, <2>2, <2>3, <4>1, <4>3 DEF Left
          <5>2. QED
            BY <5>1, LeftIs
        <4>4. QED
          BY <4>2, <4>3
      <3>4. QED
        BY <2>1, <3>1, <3>2, <3>3 DEF Says
    <2>6. QED
      BY <1>a, <1>c, <2>2, <2>5, StillSent
  <1>2. CASE Flush
    <2>1. /\ batch' = entries /\ entries' = Empty /\ ~Flushing
          /\ UNCHANGED <<call, counted, work>>
      BY <1>2 DEF Flush, StartFlush, Flushing, batchVars
    <2>2. ~IsSent /\ ~IsSent' /\ batch = Empty
      BY <1>c, <2>1 DEF OneBatch, IsSent
    <2>3. /\ ~HasOutcome(entries, r)' /\ ~HasOutcome(batch, r)
          /\ HasOutcome(batch, r)' <=> HasOutcome(entries, r)
      BY <2>1, <2>2, EmptyHasNone DEF HasOutcome
    <2>4. Left(r)' = Left(r)
      BY <2>1, <2>2, <2>3 DEF Left
    <2>5. QED
      BY <1>a, <1>c, <2>1, <2>4, LeftIs, StillSent
  <1>3. ASSUME NEW w \in Workers, Receive(w)
        PROVE  Sent(r)'
    <2>1. PICK t : /\ Becomes(w, t) /\ \A v \in Workers : ~Awaited(v)
                   /\ work[w] = IdleWorker
                   /\ t.stage = "entries" /\ t.waited = TRUE
                   /\ t.todo = batch /\ t.finalized = {}
                   /\ UNCHANGED <<counted, call, entries, batch>>
      BY <1>3, ReceiveIs
    <2>2. ~IsSent /\ IsSent'
      BY <2>1, WaitedIs DEF IsSent
    <2>3. Carries(t, r) <=> HasOutcome(batch, r)
      BY <2>1 DEF Carries
    <2>4. w \notin Carriers(r)
      BY <2>1, IdleIs DEF Carriers
    <2>5. /\ HasOutcome(entries, r)' <=> HasOutcome(entries, r)
          /\ HasOutcome(batch, r)' <=> HasOutcome(batch, r)
      BY <2>1 DEF HasOutcome
    <2>6. CASE HasOutcome(batch, r)
      <3>1. call[r] \in Outcomes /\ ~HasOutcome(entries, r) /\ batch.of[r] # None
        BY <2>6, StatusIs DEF OneBatch, HasOutcome
      <3>2. PICK e : e = batch.of[r].retries
        OBVIOUS
      <3>3. e \in 0..MaxRetries
        BY <3>1, <3>2, BufferIs DEF Entry
      <3>4. Left(r) = MaxRetries + 1 - e /\ Left(r)' = MaxRetries - e
        BY <1>b, <2>1, <2>2, <2>5, <2>6, <3>1, <3>2, <3>3 DEF Left
      <3>5. PICK A, B, k : A = Carriers(r) /\ B = Carriers(r)' /\ k = Left(r)
        OBVIOUS
      <3>6. IsFiniteSet(A) /\ B \in SUBSET (A \cup {w}) /\ w \notin A
        BY <2>1, <2>4, <3>5, CarriersFinite, CarriersOf
      <3>7. k \in Nat \ {0} /\ Left(r)' = k - 1
        BY <1>b, <3>3, <3>4, <3>5
      <3>8. PICK n \in Nat, top \in Nat : n = counted[r] /\ top = MaxRetries + 1
        BY <1>b DEF TypeOK
      <3>9. n + Cardinality(A) + k <= top
        BY <1>a, <3>5, <3>8 DEF Sent
      <3>10. n + Cardinality(B) + (k - 1) <= top
        BY <3>6, <3>7, <3>9, OneCarriesIt
      <3>11. QED
        BY <2>1, <3>5, <3>7, <3>8, <3>10 DEF Sent
    <2>7. CASE ~HasOutcome(batch, r)
      <3>1. Carriers(r)' \subseteq Carriers(r)
        BY <2>1, <2>3, <2>7, CarriersOf
      <3>2. Left(r)' = Left(r)
        BY <2>1, <2>5, <2>7 DEF Left
      <3>3. QED
        BY <1>a, <2>1, <3>1, <3>2, LeftIs, StillSent
    <2>8. QED
      BY <2>6, <2>7
  <1>4. ASSUME NEW w \in Workers, Work(w)
        PROVE  Sent(r)'
    <2>1. PICK new : /\ Becomes(w, new) /\ new.waited = work[w].waited
                     /\ \A q \in Requests : Carries(new, q) => Carries(work[w], q)
      BY <1>4, WorkStep
    <2>2. IsSent' <=> IsSent
      BY <2>1, WaitedIs DEF IsSent, Awaited
    <2>3. Carriers(r)' \subseteq Carriers(r)
      <3>1. Carries(new, r) => w \in Carriers(r)
        BY <2>1 DEF Carriers
      <3>2. QED
        BY <2>1, <3>1, CarriersOf
    <2>4. UNCHANGED <<call, entries, batch, counted>>
      BY <1>4 DEF Work, bufferVars, UpdateRow, InsertRow, DuplicateRow, SkipEntry,
                  Write, CommitBatch
    <2>5. QED
      BY <1>a, <2>2, <2>3, <2>4, LeftSame, StillSent
  <1>5. ASSUME NEW w \in Workers, Timeout(w)
        PROVE  Sent(r)'
    <2>1. PICK u : /\ Becomes(w, u) /\ Alike(work[w], u)
                   /\ FlushFail /\ UNCHANGED counted
      BY <1>5, TimeoutIs
    <2>2. Carriers(r)' \subseteq Carriers(r)
      <3>1. PICK t \in {IdleWorker} \cup Transaction \cup Counting : t = work[w]
        BY WorkIs
      <3>2. Carries(u, r) => Carries(t, r)
        BY <2>1, <3>1, AlikeCarries
      <3>3. Carries(u, r) => w \in Carriers(r)
        BY <3>1, <3>2 DEF Carriers
      <3>4. QED
        BY <2>1, <3>3, CarriersOf
    <2>3. QED
      BY <1>a, <2>1, <2>2, LeftFlushed, StillSent
  <1>6. ASSUME NEW w \in Workers, Answer(w)
        PROVE  Sent(r)'
    <2>1. /\ Becomes(w, IdleWorker)
          /\ counted'[r] = IF Carries(work[w], r) THEN counted[r] + 1 ELSE counted[r]
          /\ Awaited(w) => FlushOk
          /\ ~Awaited(w) => UNCHANGED <<call, entries, batch, flusher>>
      BY <1>6, AnswerIs
    <2>2. Left(r)' <= Left(r)
      <3>1. CASE Awaited(w)
        BY <2>1, <3>1, LeftFlushed
      <3>2. CASE ~Awaited(w)
        <4>1. IsSent' <=> IsSent
          BY <2>1, <3>2, WaitedIs, IdleIs DEF IsSent
        <4>2. QED
          BY <2>1, <3>2, <4>1, LeftSame
      <3>3. QED
        BY <3>1, <3>2
    <2>3. Carriers(r)' \subseteq Carriers(r) \ {w}
      BY <2>1, IdleIs, CarriersOf
    <2>4. CASE Carries(work[w], r)
      <3>1. PICK A, B, k, m : /\ A = Carriers(r) /\ B = Carriers(r)'
                              /\ k = Left(r) /\ m = Left(r)'
        OBVIOUS
      <3>2. IsFiniteSet(A) /\ w \in A /\ B \in SUBSET (A \ {w})
        BY <2>3, <2>4, <3>1, CarriersFinite DEF Carriers
      <3>3. k \in Nat /\ m \in Nat /\ m <= k
        <4>1. (Left(r) \in Nat)'
          BY <1>a, LeftIs, PTL
        <4>2. QED
          BY <2>2, <3>1, <4>1, LeftIs
      <3>4. PICK n \in Nat, top \in Nat : n = counted[r] /\ top = MaxRetries + 1
        BY <1>b DEF TypeOK
      <3>5. n + Cardinality(A) + k <= top
        BY <1>a, <3>1, <3>4 DEF Sent
      <3>6. (n + 1) + Cardinality(B) + m <= top
        BY <3>2, <3>3, <3>5, OneCountedIt
      <3>7. QED
        BY <2>1, <2>4, <3>1, <3>4, <3>6 DEF Sent
    <2>5. CASE ~Carries(work[w], r)
      BY <1>a, <2>1, <2>2, <2>3, <2>5, StillSent
    <2>6. QED
      BY <2>4, <2>5
  <1>7. ASSUME NEW w \in Workers, Fail(w)
        PROVE  Sent(r)'
    <2>1. /\ Becomes(w, IdleWorker) /\ UNCHANGED counted
          /\ Awaited(w) => FlushFail
          /\ ~Awaited(w) => UNCHANGED <<call, entries, batch, flusher>>
      BY <1>7, FailIs
    <2>2. Left(r)' <= Left(r)
      <3>1. CASE Awaited(w)
        BY <2>1, <3>1, LeftFlushed
      <3>2. CASE ~Awaited(w)
        <4>1. IsSent' <=> IsSent
          BY <2>1, <3>2, WaitedIs, IdleIs DEF IsSent
        <4>2. QED
          BY <2>1, <3>2, <4>1, LeftSame
      <3>3. QED
        BY <3>1, <3>2
    <2>3. Carriers(r)' \subseteq Carriers(r)
      BY <2>1, IdleIs, CarriersOf
    <2>4. QED
      BY <1>a, <2>1, <2>2, <2>3, StillSent
  <1>8. CASE Refused
    <2>1. FlushFail /\ UNCHANGED <<counted, work>>
      BY <1>8 DEF Refused, batchVars
    <2>2. QED
      BY <1>a, <1>c, <2>1, LeftFlushed, StillSent
  <1>9. CASE Shutdown
    <2>1. /\ batch' = entries /\ entries' = Empty /\ UNCHANGED <<call, counted>>
          /\ ~IsSent'
      BY <1>9, ShutdownIs, StopIs, NobodyWaits DEF IsSent
    <2>2. ASSUME NEW w \in Workers, Carries(work'[w], r)
          PROVE  Carries(work[w], r)
      <3>1. PICK t \in {IdleWorker} \cup Transaction \cup Counting : t = work[w]
        BY WorkIs
      <3>2. PICK u : u = work'[w] /\ Alike(t, u)
        BY <1>9, <3>1, ShutdownIs
      <3>3. QED
        BY <2>2, <3>1, <3>2, AlikeCarries
    <2>3. Carriers(r)' \subseteq Carriers(r)
      <3>1. Carriers(r)' = {v \in Workers : Carries(work'[v], r)}
        BY DEF Carriers, Carries, HasOutcome
      <3>2. QED
        BY <2>2, <3>1 DEF Carriers
    <2>4. /\ ~HasOutcome(entries, r)'
          /\ HasOutcome(batch, r)' <=> HasOutcome(entries, r)
      BY <2>1, EmptyHasNone DEF HasOutcome
    <2>5. Left(r)' <= Left(r)
      <3>1. CASE call[r] \notin Outcomes \/ HasOutcome(entries, r)
        <4>1. Left(r)' = Left(r)
          BY <2>1, <2>4, <3>1 DEF Left
        <4>2. QED
          BY <4>1, LeftIs
      <3>2. CASE ~(call[r] \notin Outcomes \/ HasOutcome(entries, r))
        <4>1. Left(r)' = 0
          BY <2>1, <2>4, <3>2 DEF Left
        <4>2. QED
          BY <4>1, LeftIs
      <3>3. QED
        BY <3>1, <3>2
    <2>6. QED
      BY <1>a, <2>1, <2>3, <2>5, StillSent
  <1>10. CASE UNCHANGED vars
    BY <1>10, <1>a, <1>c, LeftSame, StillSent DEF vars
  <1>11. QED
    BY <1>1, <1>2, <1>3, <1>4, <1>5, <1>6, <1>7, <1>8, <1>9, <1>10 DEF Next

-----------------------------------------------------------------------------
(* The theorems on the router and the counting. *)

CallLogInv == TypeOK /\ ToldByRouter /\ OneBatch /\ Sendings

LEMMA InvHolds == Spec => []CallLogInv
  <1>1. Init => CallLogInv
    BY BufferAssumption, TypesInit, ToldInit, OneInit, SentInit DEF CallLogInv
  <1>2. CallLogInv /\ [Next]_vars => CallLogInv'
    BY BufferAssumption, BatchAssumption, TypesStep, ToldStep, OneStep, SentStep
    DEF CallLogInv
  <1>3. QED
    BY <1>1, <1>2, PTL DEF Spec

(* Every variable of the pipeline has its type, and each dictionary, in    *)
(* the buffer, in the flush and in a transaction, lists its keys once.     *)
THEOREM CallLogTyped == Spec => []TypeOK
  <1>1. CallLogInv => TypeOK
    BY DEF CallLogInv
  <1>2. QED
    BY <1>1, InvHolds, PTL

(* However often a batch is sent, given up, rolled back and sent again,    *)
(* usage_stats counts no call more than MaxRetries + 1 times.              *)
THEOREM CountsAreBounded == Spec => []CountedAtMost
  <1>1. CallLogInv => CountedAtMost
    <2>1. SUFFICES ASSUME CallLogInv, NEW r \in Requests
                   PROVE  counted[r] <= MaxRetries + 1
      BY DEF CountedAtMost
    <2>2. TypeOK /\ Sent(r)
      BY <2>1 DEF CallLogInv, Sendings, Sent
    <2>3. PICK A : A = Carriers(r) /\ Cardinality(A) \in Nat
      BY BatchAssumption, CarriersFinite, FS_CardinalityType
    <2>4. Left(r) \in Nat /\ counted[r] \in Nat /\ MaxRetries \in Nat
      BY <2>2, BufferAssumption, LeftIs DEF TypeOK, BufferAssumption
    <2>5. QED
      BY <2>2, <2>3, <2>4 DEF Sent
  <1>2. QED
    BY <1>1, InvHolds, PTL

(* The buffer lets go of a reported outcome only when it was acknowledged, *)
(* tried as often as allowed, evicted as the oldest of a full buffer, or   *)
(* when the process stops.                                                 *)
THEOREM OutcomesAreKept == Spec => OutcomeKept
  <1>1. ASSUME CallLogInv, [Next]_vars, NEW r \in Requests, InBuffer(r), ~InBuffer(r)'
        PROVE  \/ \E w \in Workers : Awaited(w) /\ Answer(w)
               \/ HasOutcome(batch, r) /\ batch.of[r].retries = MaxRetries
               \/ Full /\ r = Head(entries.order)
               \/ flusher' \in {"stopping", "stopped"}
    <2>1. TypeOK /\ ToldByRouter /\ OneBatch /\ BufferAssumption
      BY <1>1, BufferAssumption DEF CallLogInv
    <2>2. call[r] \in Outcomes
      BY <1>1, <2>1, StatusIs DEF InBuffer
    <2>a. UNCHANGED <<entries, batch>> => (InBuffer(r)' <=> InBuffer(r))
      BY DEF InBuffer, HasOutcome
    <2>b. ~HasOutcome(entries, r)' /\ ~HasOutcome(batch, r)'
      BY <1>1 DEF InBuffer
    <2>3. ASSUME FlushFail
          PROVE  HasOutcome(batch, r) /\ batch.of[r].retries = MaxRetries
      <3>1. ~GoesBack(r) \/ ~HasOutcome(batch, r)
        BY <2>1, <2>3, <2>b, FlushFailIs DEF HasOutcome
      <3>2. ~HasOutcome(entries, r)
        <4>1. GoesBack(r) => entries.of[r] = None
          BY DEF GoesBack
        <4>2. ~GoesBack(r) => entries'.of[r] = entries.of[r]
          BY <2>1, <2>3, FlushFailIs
        <4>3. QED
          BY <2>b, <4>1, <4>2 DEF HasOutcome
      <3>3. HasOutcome(batch, r)
        BY <1>1, <3>2 DEF InBuffer
      <3>4. entries.of[r] = None /\ batch.of[r] # None
        BY <2>1, <3>3 DEF OneBatch, HasOutcome
      <3>5. ~(batch.of[r].retries < MaxRetries)
        BY <3>1, <3>3, <3>4 DEF GoesBack
      <3>6. batch.of[r].retries \in 0..MaxRetries
        BY <2>1, <3>4, BufferIs DEF Entry
      <3>7. QED
        BY <2>1, <3>3, <3>5, <3>6 DEF BufferAssumption
    <2>4. ASSUME NEW q \in Requests, Handler(q)
          PROVE  Full /\ r = Head(entries.order)
      <3>1. PICK v : Says(q, v)
        BY <2>1, <2>4, HandlerIs
      <3>2. r # q /\ UNCHANGED batch
        BY <2>2, <3>1 DEF Says
      <3>3. HasOutcome(entries, r)
        BY <1>1, <2>b, <3>2 DEF InBuffer, HasOutcome
      <3>4. entries'.of[r] # entries.of[r]
        BY <2>b, <3>3 DEF HasOutcome
      <3>5. QED
        BY <3>1, <3>2, <3>4 DEF Says
    <2>5. CASE Flush
      <3>1. batch = Empty /\ batch' = entries
        BY <2>1, <2>5 DEF Flush, StartFlush, OneBatch, Flushing
      <3>2. HasOutcome(entries, r)
        BY <1>1, <3>1, EmptyHasNone DEF InBuffer
      <3>3. QED
        BY <2>b, <3>1, <3>2 DEF HasOutcome
    <2>6. ASSUME NEW w \in Workers, Receive(w) \/ Work(w) \/ (~Awaited(w) /\ (Answer(w) \/ Fail(w)))
          PROVE  FALSE
      BY <1>1, <2>6, <2>a DEF Receive, Work, Answer, Fail, bufferVars
    <2>7. ASSUME NEW w \in Workers, Timeout(w) \/ (Awaited(w) /\ Fail(w))
          PROVE  FlushFail
      BY <2>7 DEF Timeout, Fail
    <2>8. CASE Refused
      BY <2>3, <2>8 DEF Refused
    <2>9. CASE Shutdown
      BY <2>9 DEF Shutdown, Stop
    <2>10. CASE UNCHANGED vars
      BY <1>1, <2>10, <2>a DEF vars
    <2>11. QED
      BY <1>1, <2>3, <2>4, <2>5, <2>6, <2>7, <2>8, <2>9, <2>10 DEF Next
  <1>2. CallLogInv /\ [Next]_vars =>
          [\A r \in Requests :
              InBuffer(r) /\ ~InBuffer(r)' =>
                 \/ \E w \in Workers : Awaited(w) /\ Answer(w)
                 \/ HasOutcome(batch, r) /\ batch.of[r].retries = MaxRetries
                 \/ Full /\ r = Head(entries.order)
                 \/ flusher' \in {"stopping", "stopped"}]_vars
    BY <1>1
  <1>3. QED
    BY <1>2, InvHolds, PTL DEF Spec, OutcomeKept

-----------------------------------------------------------------------------
(* What the rows say. *)

(* What a handler reports, it reports once.                                *)
CallsGoOn ==
    \A r \in Requests : call'[r] = call[r] \/ call[r] \notin Outcomes

LEMMA CallsDo ==
    ASSUME BufferAssumption, TypeOK, ToldByRouter, NEW r \in Requests, Handler(r)
    PROVE  CallsGoOn
  <1>1. PICK v : Says(r, v)
    BY HandlerIs
  <1>2. QED
    BY <1>1, CallIs DEF Says, CallsGoOn

LEMMA TransactionIs ==
    ASSUME NEW t \in Transaction, DictOK(t.todo), NEW r \in Requests
    PROVE  /\ t.todo.of[r] # None => t.todo.of[r].status \in {"none"} \cup Outcomes
           /\ t.wrote[r] \in {"absent", "none"} \cup Outcomes
  <1>1. t.todo.of \in [Requests -> Entry \cup {None}]
    BY DictIs
  <1>2. t.wrote \in [Requests -> Rows]
    BY DEF Transaction
  <1>3. QED
    BY <1>1, <1>2 DEF Entry, Rows

LEMMA StaysOK ==
    ASSUME NEW t \in Transaction, DictOK(t.todo), TransactionOK(t),
           CallsGoOn, UNCHANGED rows
    PROVE  TransactionOK(t)'
  <1>1. ASSUME NEW r \in Requests
        PROVE  /\ t.todo.of[r] # None => /\ t.todo.of[r].status \in {"none", call'[r]}
                                         /\ t.wrote[r] = "absent"
                                         /\ r \notin t.inserted \cup t.bills
               /\ t.wrote[r] \in {"absent", "none", call'[r]}
               /\ t.wrote[r] = "none" => r \in t.inserted
               /\ t.wrote[r] # "absent" => r \in t.inserted \/ rows[r] # "absent"
    <2>1. /\ t.todo.of[r] # None => /\ t.todo.of[r].status \in {"none", call[r]}
                                    /\ t.wrote[r] = "absent"
                                    /\ r \notin t.inserted \cup t.bills
          /\ t.wrote[r] \in {"absent", "none", call[r]}
          /\ t.wrote[r] = "none" => r \in t.inserted
          /\ t.wrote[r] # "absent" => r \in t.inserted \/ rows[r] # "absent"
      BY DEF TransactionOK, Told
    <2>2. /\ t.todo.of[r] # None => t.todo.of[r].status \in {"none"} \cup Outcomes
          /\ t.wrote[r] \in {"absent", "none"} \cup Outcomes
      BY TransactionIs
    <2>3. call'[r] = call[r] \/ call[r] \notin Outcomes
      BY DEF CallsGoOn
    <2>4. QED
      BY <2>1, <2>2, <2>3
  <1>2. /\ \A r \in t.inserted : rows[r] = "absent"
        /\ \A r \in t.bills : t.wrote[r] = "paid"
        /\ \A r \in t.seen : rows[r] # "absent"
    BY DEF TransactionOK
  <1>3. QED
    BY <1>1, <1>2 DEF TransactionOK, Told

(* s is t with r known to be there, or inserted now; u has handled r.      *)
Ready(t, s, r) ==
    /\ s.todo = t.todo /\ s.wrote = t.wrote /\ s.bills = t.bills /\ s.seen = t.seen
    /\ t.todo.of[r] # None
    /\ \/ s.inserted = t.inserted /\ r \in t.seen
       \/ s.inserted = t.inserted \cup {r} /\ rows[r] = "absent"

Wrote(s, u, r) ==
    /\ Handled(s, u, r)
    /\ u.inserted = s.inserted /\ u.seen = s.seen
    /\ u.wrote[r] = IF s.todo.of[r].status = "none" /\ r \notin s.inserted
                    THEN s.wrote[r] ELSE s.todo.of[r].status
    /\ \A q \in Requests : q # r => u.wrote[q] = s.wrote[q]
    /\ u.bills = s.bills \/ (u.bills = s.bills \cup {r} /\ s.todo.of[r].status = "paid")

(* A transaction that has handled r as before, r inserted first or not.    *)
LEMMA HandledOK ==
    ASSUME NEW t \in Transaction, DictOK(t.todo), TransactionOK(t),
           NEW r \in Requests, NEW s, Ready(t, s, r), NEW u, Wrote(s, u, r)
    PROVE  TransactionOK(u)
  <1> USE DEF Ready, Wrote
  <1>1. PICK status : status = t.todo.of[r].status
    OBVIOUS
  <1>2. /\ status \in {"none", call[r]} /\ status \in {"none"} \cup Outcomes
        /\ t.wrote[r] = "absent" /\ r \notin t.inserted /\ r \notin t.bills
    BY <1>1, TransactionIs DEF TransactionOK, Told
  <1>3. u.wrote[r] = IF status = "none" /\ r \notin s.inserted THEN "absent" ELSE status
    BY <1>1, <1>2
  <1>4. u.todo.of[r] = None /\ \A q \in Requests : q # r => u.todo.of[q] = t.todo.of[q]
    BY DEF Handled
  <1>5. ASSUME NEW q \in Requests
        PROVE  /\ u.todo.of[q] # None => /\ Told(q, u.todo.of[q].status)
                                         /\ u.wrote[q] = "absent"
                                         /\ q \notin u.inserted \cup u.bills
               /\ u.wrote[q] \in {"absent", "none", call[q]}
               /\ u.wrote[q] = "none" => q \in u.inserted
               /\ u.wrote[q] # "absent" => q \in u.inserted \/ rows[q] # "absent"
    <2>1. CASE q = r
      <3>1. r \in s.inserted \/ rows[r] # "absent"
        BY DEF TransactionOK
      <3>2. u.wrote[r] \in {"absent", "none", call[r]}
        BY <1>2, <1>3
      <3>3. u.wrote[r] = "none" => r \in u.inserted
        BY <1>3
      <3>4. QED
        BY <1>4, <2>1, <3>1, <3>2, <3>3
    <2>2. CASE q # r
      <3>1. /\ t.todo.of[q] # None => /\ Told(q, t.todo.of[q].status)
                                      /\ t.wrote[q] = "absent"
                                      /\ q \notin t.inserted \cup t.bills
            /\ t.wrote[q] \in {"absent", "none", call[q]}
            /\ t.wrote[q] = "none" => q \in t.inserted
            /\ t.wrote[q] # "absent" => q \in t.inserted \/ rows[q] # "absent"
        BY DEF TransactionOK
      <3>2. u.wrote[q] = t.wrote[q] /\ u.todo.of[q] = t.todo.of[q]
        BY <1>4, <2>2
      <3>3. (q \in u.inserted <=> q \in t.inserted) /\ (q \in u.bills <=> q \in t.bills)
        BY <2>2
      <3>4. QED
        BY <3>1, <3>2, <3>3
    <2>3. QED
      BY <2>1, <2>2
  <1>6. \A q \in u.inserted : rows[q] = "absent"
    BY DEF TransactionOK
  <1>7. ASSUME NEW q \in u.bills PROVE u.wrote[q] = "paid"
    <2>1. CASE q \in t.bills
      <3>1. q # r /\ q \in Requests /\ t.wrote[q] = "paid"
        BY <1>2, <2>1 DEF TransactionOK, Transaction
      <3>2. QED
        BY <3>1
    <2>2. CASE q \notin t.bills
      <3>1. q = r /\ status = "paid"
        BY <1>1, <1>7, <2>2
      <3>2. QED
        BY <1>3, <3>1
    <2>3. QED
      BY <2>1, <2>2
  <1>8. \A q \in u.seen : rows[q] # "absent"
    BY DEF TransactionOK
  <1>9. QED
    BY <1>5, <1>6, <1>7, <1>8 DEF TransactionOK

LEMMA UndoneOK ==
    ASSUME NEW t, TransactionOK(t), NEW u, Undone(t, u)
    PROVE  TransactionOK(u)
  <1>1. ASSUME NEW q \in Requests, u.todo.of[q] # None
        PROVE  Told(q, u.todo.of[q].status)
    <2>1. u.todo.of[q] = t.todo.of[q]
      BY <1>1 DEF Undone
    <2>2. QED
      BY <1>1, <2>1 DEF TransactionOK
  <1>2. /\ u.inserted = {} /\ u.bills = {}
        /\ \A q \in Requests : u.wrote[q] = "absent"
        /\ \A q \in u.seen : rows[q] # "absent"
    BY DEF Undone
  <1>3. QED
    BY <1>1, <1>2 DEF TransactionOK

LEMMA AlikeOK ==
    ASSUME NEW t \in Transaction, TransactionOK(t), NEW u, Alike(t, u)
    PROVE  TransactionOK(u) /\ u.inserted = t.inserted
  BY DEF Alike, TransactionOK

(* One worker goes on, and the committed rows stay.                        *)
LEMMA RowsGoOn ==
    ASSUME TypeOK, RowsTold, NEW w \in Workers, NEW new, Becomes(w, new),
           UNCHANGED <<call, rows>>,
           new.stage = "entries" =>
              /\ TransactionOK(new)
              /\ \A v \in Workers : v # w /\ Busy(v, "entries")
                                       => new.inserted \cap work[v].inserted = {}
    PROVE  RowsTold'
  <1>1. work'[w] = new /\ \A v \in Workers : v # w => work'[v] = work[v]
    BY BecomesIs
  <1>2. \A t : TransactionOK(t)' <=> TransactionOK(t)
    BY DEF TransactionOK, Told
  <1>3. ASSUME NEW v \in Workers, work'[v].stage = "entries"
        PROVE  TransactionOK(work'[v])
    BY <1>1, <1>3 DEF RowsTold, Busy
  <1>4. ASSUME NEW v \in Workers, Busy(v, "entries")'
        PROVE  TransactionOK(work[v])'
    <2>1. PICK t : t = work'[v] /\ TransactionOK(t)
      BY <1>3, <1>4 DEF Busy
    <2>2. TransactionOK(t)'
      BY <1>2, <2>1
    <2>3. QED
      BY <2>1, <2>2 DEF TransactionOK, Told
  <1>5. ASSUME NEW v \in Workers, NEW x \in Workers, v # x,
               work'[v].stage = "entries", work'[x].stage = "entries"
        PROVE  work'[v].inserted \cap work'[x].inserted = {}
    <2>1. CASE v # w /\ x # w
      BY <1>1, <1>5, <2>1 DEF RowsTold, Busy
    <2>2. CASE v = w
      BY <1>1, <1>5, <2>2 DEF Busy
    <2>3. CASE x = w
      BY <1>1, <1>5, <2>3 DEF Busy
    <2>4. QED
      BY <2>1, <2>2, <2>3
  <1>6. \A r \in Requests : rows'[r] \in {"absent", "none", call'[r]}
    BY DEF RowsTold
  <1>7. QED
    BY <1>4, <1>5, <1>6 DEF RowsTold, Busy

(* What the transaction of w has become is right, and shares no insert.    *)
LEMMA WorkOK ==
    ASSUME TypeOK, RowsTold, NEW w \in Workers, NEW r \in Requests,
           UpdateRow(w, r) \/ InsertRow(w, r) \/ DuplicateRow(w, r) \/ SkipEntry(w, r)
    PROVE  \E u : /\ Becomes(w, u) /\ TransactionOK(u) /\ UNCHANGED rows
                  /\ \A v \in Workers : v # w /\ Busy(v, "entries")
                                           => u.inserted \cap work[v].inserted = {}
  <1>1. PICK t : t = work[w]
    OBVIOUS
  <1>2. Busy(w, "entries")
    BY DEF UpdateRow, InsertRow, DuplicateRow, SkipEntry, Handles
  <1>3. /\ t \in Transaction /\ DictOK(t.todo) /\ TransactionOK(t)
        /\ \A v \in Workers : v # w /\ Busy(v, "entries")
                                 => t.inserted \cap work[v].inserted = {}
    BY <1>1, <1>2, WorkIs DEF RowsTold
  <1>4. CASE UpdateRow(w, r)
    <2>1. PICK u : u = Written(t, r)
      OBVIOUS
    <2>2. /\ t.todo.order # <<>> /\ r = Head(t.todo.order)
          /\ r \in t.seen \cup t.inserted
          /\ Becomes(w, u) /\ UNCHANGED rows
      BY <1>1, <1>4, <2>1, UpdateRowIs
    <2>3. /\ t.todo.of[r] # None /\ Handled(t, u, r)
          /\ u.inserted = t.inserted /\ u.seen = t.seen
          /\ u.wrote[r] = IF t.todo.of[r].status = "none" /\ r \notin t.inserted
                          THEN t.wrote[r] ELSE t.todo.of[r].status
          /\ \A q \in Requests : q # r => u.wrote[q] = t.wrote[q]
          /\ u.bills = t.bills \/ (u.bills = t.bills \cup {r} /\ t.todo.of[r].status = "paid")
      BY <1>3, <2>1, <2>2, WrittenIs
    <2>4. r \in t.seen
      BY <1>3, <2>2, <2>3 DEF TransactionOK
    <2>5. Ready(t, t, r) /\ Wrote(t, u, r)
      BY <2>3, <2>4 DEF Ready, Wrote
    <2>6. TransactionOK(u)
      BY <1>3, <2>5, HandledOK
    <2>7. QED
      BY <1>3, <2>2, <2>3, <2>6
  <1>5. CASE InsertRow(w, r)
    <2>1. PICK s : s = WithRow(t, r)
      OBVIOUS
    <2>2. PICK u : u = Written(s, r)
      OBVIOUS
    <2>3. /\ s \in Transaction /\ s.todo = t.todo
          /\ s.wrote = t.wrote /\ s.bills = t.bills /\ s.seen = t.seen
          /\ s.inserted = t.inserted \cup {r}
          /\ s.todo.order # <<>> /\ r = Head(s.todo.order)
          /\ rows[r] = "absent"
          /\ \A v \in Workers : v # w /\ Busy(v, "entries") => r \notin work[v].inserted
          /\ Becomes(w, u) /\ UNCHANGED rows
      BY <1>1, <1>5, <2>1, <2>2, InsertRowIs
    <2>4. /\ s.todo.of[r] # None /\ Handled(s, u, r)
          /\ u.inserted = s.inserted /\ u.seen = s.seen
          /\ u.wrote[r] = IF s.todo.of[r].status = "none" /\ r \notin s.inserted
                          THEN s.wrote[r] ELSE s.todo.of[r].status
          /\ \A q \in Requests : q # r => u.wrote[q] = s.wrote[q]
          /\ u.bills = s.bills \/ (u.bills = s.bills \cup {r} /\ s.todo.of[r].status = "paid")
      BY <1>3, <2>2, <2>3, WrittenIs, SMTT(30)
    <2>5. Ready(t, s, r) /\ Wrote(s, u, r)
      BY <2>3, <2>4 DEF Ready, Wrote
    <2>6. TransactionOK(u)
      BY <1>3, <2>5, HandledOK
    <2>7. QED
      BY <1>3, <2>3, <2>4, <2>6
  <1>6. CASE DuplicateRow(w, r) \/ SkipEntry(w, r)
    <2>1. PICK u : Becomes(w, u) /\ Undone(t, u)
      BY <1>1, <1>6, FailedRowIs
    <2>2. TransactionOK(u) /\ u.inserted = {}
      BY <1>3, <2>1, UndoneOK DEF Undone
    <2>3. UNCHANGED rows
      BY <1>6 DEF DuplicateRow, SkipEntry
    <2>4. QED
      BY <2>1, <2>2, <2>3
  <1>7. QED
    BY <1>4, <1>5, <1>6

(* A commit changes no row that another transaction relies on.             *)
LEMMA CommitOK ==
    ASSUME TypeOK, RowsTold, NEW w \in Workers, CommitBatch(w), UNCHANGED call
    PROVE  RowsTold'
  <1>1. PICK t : t = work[w]
    OBVIOUS
  <1>2. Busy(w, "entries")
    BY DEF CommitBatch
  <1>3. t \in Transaction /\ TransactionOK(t)
    BY <1>1, <1>2, WorkIs DEF RowsTold
  <1>4. /\ \E u : Becomes(w, u) /\ u.stage = "stats"
        /\ \A r \in Requests : rows'[r] = IF t.wrote[r] = "absent" THEN rows[r]
                                          ELSE t.wrote[r]
    BY <1>1, CommitIs
  <1>5. work'[w].stage = "stats" /\ \A v \in Workers : v # w => work'[v] = work[v]
    BY <1>4, BecomesIs
  <1>6. \A r \in Requests : rows'[r] \in {"absent", "none", call'[r]}
    BY <1>3, <1>4 DEF RowsTold, TransactionOK
  <1>7. \A r \in Requests : rows[r] # "absent" => rows'[r] # "absent"
    BY <1>4
  <1>8. ASSUME NEW v \in Workers, v # w, Busy(v, "entries")
        PROVE  TransactionOK(work[v])'
    <2>1. PICK x \in Transaction : x = work[v] /\ x = work'[v] /\ TransactionOK(x)
      BY <1>5, <1>8, WorkIs DEF RowsTold
    <2>2. t.inserted \cap x.inserted = {}
      BY <1>1, <1>2, <1>8, <2>1 DEF RowsTold
    <2>3. \A r \in x.inserted : rows'[r] = "absent"
      <3>1. TAKE r \in x.inserted
      <3>2. r \in Requests /\ rows[r] = "absent" /\ r \notin t.inserted
        BY <2>1, <2>2 DEF TransactionOK, Transaction
      <3>3. t.wrote[r] = "absent"
        BY <1>3, <3>2 DEF TransactionOK
      <3>4. QED
        BY <1>4, <3>2, <3>3
    <2>4. \A r \in x.seen : rows'[r] # "absent"
      BY <1>7, <2>1 DEF TransactionOK, Transaction
    <2>5. /\ \A r \in Requests :
                /\ x.todo.of[r] # None => /\ Told(r, x.todo.of[r].status)
                                          /\ x.wrote[r] = "absent"
                                          /\ r \notin x.inserted \cup x.bills
                /\ x.wrote[r] \in {"absent", "none", call[r]}
                /\ x.wrote[r] = "none" => r \in x.inserted
                /\ x.wrote[r] # "absent" => r \in x.inserted \/ rows'[r] # "absent"
          /\ \A r \in x.bills : x.wrote[r] = "paid"
      BY <1>7, <2>1 DEF TransactionOK
    <2>6. TransactionOK(x)'
      BY <2>3, <2>4, <2>5 DEF TransactionOK, Told
    <2>7. QED
      BY <2>1, <2>6 DEF TransactionOK, Told
  <1>9. \A v \in Workers : Busy(v, "entries")' => v # w /\ Busy(v, "entries")
    BY <1>5 DEF Busy
  <1>10. \A v, x \in Workers : Busy(v, "entries")' /\ Busy(x, "entries")' /\ v # x
              => work'[v].inserted \cap work'[x].inserted = {}
    BY <1>5, <1>9 DEF RowsTold
  <1>11. QED
    BY <1>6, <1>8, <1>9, <1>10 DEF RowsTold

LEMMA RowsInit == BufferAssumption /\ Init => RowsTold
  <1> SUFFICES ASSUME BufferAssumption, Init PROVE RowsTold
    OBVIOUS
  <1>1. \A w \in Workers : ~Busy(w, "entries")
    <2>1. \A w \in Workers : work[w] = IdleWorker
      BY DEF Init, InitBatch
    <2>2. QED
      BY <2>1, IdleIs DEF Busy
  <1>2. \A r \in Requests : rows[r] = "absent"
    BY DEF Init, InitBatch
  <1>3. QED
    BY <1>1, <1>2 DEF RowsTold

LEMMA RowsStep ==
    /\ BufferAssumption
    /\ TypeOK /\ ToldByRouter /\ RowsTold /\ [Next]_vars
    => RowsTold'
  <1> SUFFICES ASSUME BufferAssumption, TypeOK, ToldByRouter, RowsTold, [Next]_vars
               PROVE  RowsTold'
    OBVIOUS
  <1>1. ASSUME NEW r \in Requests, Handler(r)
        PROVE  RowsTold'
    <2>1. CallsGoOn /\ UNCHANGED <<rows, work>>
      BY <1>1, CallsDo, HandlerIs
    <2>2. ASSUME NEW w \in Workers, Busy(w, "entries")'
          PROVE  TransactionOK(work[w])'
      <3>1. PICK t \in Transaction :
               t = work[w] /\ t = work'[w] /\ DictOK(t.todo) /\ TransactionOK(t)
        BY <2>1, <2>2, WorkIs DEF RowsTold, Busy
      <3>2. TransactionOK(t)'
        BY <2>1, <3>1, StaysOK
      <3>3. QED
        BY <3>1, <3>2 DEF TransactionOK, Told
    <2>3. \A q \in Requests : rows'[q] \in {"absent", "none", call'[q]}
      <3>1. \A q \in Requests : /\ rows[q] \in {"absent", "none", call[q]}
                                /\ rows[q] \in {"absent", "none"} \cup Outcomes
        BY DEF RowsTold, TypeOK, Rows
      <3>2. QED
        BY <2>1, <3>1 DEF CallsGoOn
    <2>4. QED
      BY <2>1, <2>2, <2>3 DEF RowsTold, Busy
  <1>2. ASSUME UNCHANGED <<call, rows, work>>
        PROVE  RowsTold'
    <2>1. ASSUME NEW w \in Workers, Busy(w, "entries")'
          PROVE  TransactionOK(work[w])'
      BY <1>2, <2>1 DEF RowsTold, Busy, TransactionOK, Told
    <2>2. QED
      BY <1>2, <2>1 DEF RowsTold, Busy
  <1>3. ASSUME NEW w \in Workers, Receive(w)
        PROVE  RowsTold'
    <2>1. PICK t :
            /\ Becomes(w, t)
            /\ Flushing /\ \A v \in Workers : ~Awaited(v)
            /\ Busy(w, "idle") /\ work[w] = IdleWorker
            /\ t \in Transaction /\ t.stage = "entries" /\ t.waited = TRUE
            /\ t.todo = batch /\ t.inserted = {} /\ t.bills = {}
            /\ t.finalized = {}
            /\ \A r \in Requests : t.wrote[r] = "absent"
            /\ \A r \in t.seen : rows[r] # "absent"
            /\ UNCHANGED <<rows, charged, counted, call, entries, batch, flusher>>
      BY <1>3, ReceiveIs
    <2>2. TransactionOK(t)
      <3>1. \A r \in Requests : t.todo.of[r] # None => Told(r, t.todo.of[r].status)
        BY <2>1 DEF ToldByRouter
      <3>2. QED
        BY <2>1, <3>1 DEF TransactionOK
    <2>3. t.inserted = {}
      BY <2>1
    <2>4. QED
      BY <2>1, <2>2, <2>3, RowsGoOn
  <1>4. ASSUME NEW w \in Workers, Work(w)
        PROVE  RowsTold'
    <2>1. UNCHANGED call
      BY <1>4 DEF Work, bufferVars
    <2>2. CASE CommitBatch(w)
      BY <2>1, <2>2, CommitOK
    <2>3. CASE ~CommitBatch(w)
      <3>1. PICK r \in Requests : \/ UpdateRow(w, r) \/ InsertRow(w, r)
                                  \/ DuplicateRow(w, r) \/ SkipEntry(w, r)
        BY <1>4, <2>3 DEF Work
      <3>2. PICK u : /\ Becomes(w, u) /\ TransactionOK(u) /\ UNCHANGED rows
                     /\ \A v \in Workers : v # w /\ Busy(v, "entries")
                                              => u.inserted \cap work[v].inserted = {}
        BY <3>1, WorkOK
      <3>3. QED
        BY <2>1, <3>2, RowsGoOn
    <2>4. QED
      BY <2>2, <2>3
  <1>5. ASSUME NEW w \in Workers, Timeout(w)
        PROVE  RowsTold'
    <2>1. PICK u : Becomes(w, u) /\ Alike(work[w], u)
      BY <1>5, TimeoutIs
    <2>2. UNCHANGED <<call, rows>>
      BY <1>5 DEF Timeout, FlushFail, FlushEnds
    <2>3. ASSUME u.stage = "entries"
          PROVE  /\ TransactionOK(u)
                 /\ \A v \in Workers : v # w /\ Busy(v, "entries")
                                          => u.inserted \cap work[v].inserted = {}
      <3>1. Busy(w, "entries")
        BY <2>1, <2>3 DEF Busy, Alike
      <3>2. PICK t \in Transaction : t = work[w] /\ TransactionOK(t)
        BY <3>1, WorkIs DEF RowsTold
      <3>3. TransactionOK(u) /\ u.inserted = t.inserted
        BY <2>1, <3>2, AlikeOK
      <3>4. QED
        BY <3>1, <3>2, <3>3 DEF RowsTold
    <2>4. QED
      BY <2>1, <2>2, <2>3, RowsGoOn
  <1>6. ASSUME NEW w \in Workers, Answer(w) \/ Fail(w)
        PROVE  RowsTold'
    <2>1. Becomes(w, IdleWorker) /\ UNCHANGED rows
      BY <1>6, AnswerIs, FailIs
    <2>2. UNCHANGED call
      BY <1>6 DEF Answer, Fail, FlushOk, FlushFail, FlushEnds, bufferVars
    <2>3. IdleWorker.stage # "entries"
      BY IdleIs
    <2>4. QED
      BY <2>1, <2>2, <2>3, RowsGoOn
  <1>7. CASE Flush \/ Refused
    BY <1>2, <1>7 DEF Flush, StartFlush, Refused, FlushFail, FlushEnds, batchVars
  <1>8. CASE Shutdown
    <2>1. UNCHANGED <<call, rows>>
      BY <1>8 DEF Shutdown, Stop
    <2>2. ASSUME NEW w \in Workers, Busy(w, "entries")'
          PROVE  /\ Busy(w, "entries") /\ work'[w].inserted = work[w].inserted
                 /\ TransactionOK(work[w])'
      <3>1. PICK u : u = work'[w] /\ Alike(work[w], u)
        BY <1>8, ShutdownIs
      <3>2. Busy(w, "entries")
        BY <2>2, <3>1 DEF Busy, Alike
      <3>3. PICK t \in Transaction : t = work[w] /\ TransactionOK(t)
        BY <3>2, WorkIs DEF RowsTold
      <3>4. TransactionOK(u) /\ u.inserted = t.inserted
        BY <3>1, <3>3, AlikeOK
      <3>5. TransactionOK(u)'
        BY <2>1, <3>4 DEF TransactionOK, Told
      <3>6. QED
        BY <3>1, <3>2, <3>3, <3>4, <3>5 DEF TransactionOK, Told
    <2>3. QED
      BY <2>1, <2>2 DEF RowsTold
  <1>9. CASE UNCHANGED vars
    BY <1>2, <1>9 DEF vars
  <1>10. QED
    BY <1>1, <1>3, <1>4, <1>5, <1>6, <1>7, <1>8, <1>9 DEF Next

-----------------------------------------------------------------------------
(* The pipeline keeps the promise. *)

LEMMA PromiseInit == BufferAssumption /\ Init => Promise!Init
  <1> SUFFICES ASSUME BufferAssumption, Init PROVE Promise!Init
    OBVIOUS
  <1>1. \A r \in Requests : call[r] \notin Outcomes
    BY DEF Init, InitBuffer, Outcomes
  <1>2. QED
    BY <1>1 DEF Promise!Init, Init, InitBatch

LEMMA PromiseStep ==
    ASSUME BufferAssumption, TypeOK, ToldByRouter, RowsTold, [Next]_vars
    PROVE  [Promise!Next]_(Promise!vars)
  <1>1. ASSUME UNCHANGED <<call, rows, charged>>
        PROVE  UNCHANGED Promise!vars
    BY <1>1 DEF Promise!vars
  <1>2. ASSUME NEW q \in Requests, Handler(q)
        PROVE  Promise!Next \/ UNCHANGED Promise!vars
    <2>1. UNCHANGED <<rows, charged>>
      BY <1>2, HandlerIs
    <2>2. PICK v : Says(q, v)
      BY <1>2, HandlerIs
    <2>3. /\ call[q] \notin Outcomes /\ call'[q] = v
          /\ \A r \in Requests : r # q => call'[r] = call[r]
      BY <2>2, CallIs DEF Says
    <2>4. PICK old, new :
             /\ old = [r \in Requests |-> IF call[r] \in Outcomes THEN call[r] ELSE "pending"]
             /\ new = [r \in Requests |-> IF call'[r] \in Outcomes THEN call'[r] ELSE "pending"]
      OBVIOUS
    <2>5. CASE v \in Outcomes
      <3>1. old[q] = "pending" /\ new = [old EXCEPT ![q] = v]
        BY <2>3, <2>4, <2>5
      <3>2. Promise!Report(q, v)
        BY <2>1, <2>4, <3>1 DEF Promise!Report
      <3>3. v \in Promise!Outcomes
        BY <2>5 DEF Outcomes, Promise!Outcomes
      <3>4. QED
        BY <3>2, <3>3 DEF Promise!Next
    <2>6. CASE v \notin Outcomes
      <3>1. new = old
        BY <2>3, <2>4, <2>6
      <3>2. QED
        BY <2>1, <2>4, <3>1 DEF Promise!vars
    <2>7. QED
      BY <2>5, <2>6
  <1>3. ASSUME NEW w \in Workers, CommitBatch(w), UNCHANGED call
        PROVE  Promise!Next
    <2>1. PICK t : t = work[w]
      OBVIOUS
    <2>2. Busy(w, "entries")
      BY <1>3 DEF CommitBatch
    <2>3. t \in Transaction /\ TransactionOK(t)
      BY <2>1, <2>2, WorkIs DEF RowsTold
    <2>4. /\ rows' \in [Requests -> Rows]
          /\ \A r \in Requests : rows'[r] = IF t.wrote[r] = "absent" THEN rows[r]
                                            ELSE t.wrote[r]
          /\ charged' = charged \cup t.bills
      BY <1>3, <2>1, CommitIs
    <2>5. PICK out : out = [r \in Requests |-> IF call[r] \in Outcomes THEN call[r]
                                               ELSE "pending"]
      OBVIOUS
    <2>6. ASSUME NEW r \in Requests
          PROVE  rows'[r] \in {rows[r]} \cup
                    (IF rows[r] \in Outcomes THEN {}
                     ELSE {"none"} \cup ({out[r]} \ {"pending"}))
      <3>1. /\ t.wrote[r] \in {"absent", "none", call[r]}
            /\ t.wrote[r] = "none" => rows[r] = "absent"
            /\ rows[r] \in {"absent", "none", call[r]}
        BY <2>3 DEF TransactionOK, RowsTold
      <3>2. t.wrote[r] \in {"absent", "none"} \cup Outcomes
        BY <2>3 DEF Transaction, Rows
      <3>3. "absent" \notin Outcomes /\ "none" \notin Outcomes /\ "pending" \notin Outcomes
        BY DEF Outcomes
      <3>4. CASE t.wrote[r] = "absent"
        BY <2>4, <3>4
      <3>5. CASE t.wrote[r] = "none"
        BY <2>4, <3>1, <3>3, <3>5
      <3>6. CASE t.wrote[r] \in Outcomes
        <4>1. rows'[r] = call[r] /\ call[r] \in Outcomes /\ out[r] = call[r]
          BY <2>4, <2>5, <3>1, <3>3, <3>6
        <4>2. rows[r] \in Outcomes => rows[r] = call[r]
          BY <3>1, <3>3
        <4>3. QED
          BY <3>3, <4>1, <4>2
      <3>7. QED
        BY <3>2, <3>4, <3>5, <3>6
    <2>7. \A r \in Requests : rows'[r] \in Promise!Onward(r)
      BY <2>5, <2>6 DEF Promise!Onward, Promise!Outcomes, Outcomes
    <2>8. ASSUME NEW r \in charged' \ charged
          PROVE  r \in Requests /\ rows'[r] = "paid"
      <3>1. r \in Requests /\ t.wrote[r] = "paid"
        BY <2>3, <2>4, <2>8 DEF TransactionOK, Transaction
      <3>2. QED
        BY <2>4, <3>1
    <2>9. rows' \in [Requests -> {"absent", "none"} \cup Promise!Outcomes]
      BY <2>4 DEF Rows, Outcomes, Promise!Outcomes
    <2>10. Promise!Log
      BY <1>3, <2>4, <2>7, <2>8, <2>9 DEF Promise!Log
    <2>11. QED
      BY <2>10 DEF Promise!Next
  <1>4. ASSUME NEW w \in Workers, Receive(w) \/ Timeout(w) \/ Answer(w) \/ Fail(w)
        PROVE  UNCHANGED Promise!vars
    BY <1>1, <1>4
    DEF Receive, Timeout, Answer, CountBatch, Fail, AbortBatch, FlushOk, FlushFail,
        FlushEnds, bufferVars
  <1>5. ASSUME NEW w \in Workers, Work(w), ~CommitBatch(w)
        PROVE  UNCHANGED Promise!vars
    BY <1>1, <1>5
    DEF Work, UpdateRow, InsertRow, Write, DuplicateRow, SkipEntry, bufferVars
  <1>6. ASSUME NEW w \in Workers, Work(w)
        PROVE  Promise!Next \/ UNCHANGED Promise!vars
    BY <1>3, <1>5, <1>6 DEF Work, bufferVars
  <1>7. CASE Flush \/ Refused \/ Shutdown
    BY <1>1, <1>7 DEF Flush, StartFlush, Refused, FlushFail, FlushEnds, Shutdown, Stop,
                      batchVars
  <1>8. CASE UNCHANGED vars
    BY <1>1, <1>8 DEF vars
  <1>9. QED
    BY <1>2, <1>4, <1>6, <1>7, <1>8 DEF Next

(* Every step of router-service and user-service writes rows and charges   *)
(* as CallLogSpec promises: rows only move on to what the handler reported,*)
(* and only a call whose row says it was paid is charged.                  *)
THEOREM PromiseIsKept == Spec => KeepsPromise
  <1>1. BufferAssumption
    BY BufferAssumption
  <1>2. Init => TypeOK /\ ToldByRouter /\ RowsTold /\ Promise!Init
    BY <1>1, TypesInit, ToldInit, RowsInit, PromiseInit
  <1>3. TypeOK /\ ToldByRouter /\ RowsTold /\ [Next]_vars
           => TypeOK' /\ ToldByRouter' /\ RowsTold'
    BY <1>1, TypesStep, ToldStep, RowsStep
  <1>4. TypeOK /\ ToldByRouter /\ RowsTold /\ [Next]_vars
           => [Promise!Next]_(Promise!vars)
    BY <1>1, PromiseStep
  <1>5. QED
    BY <1>2, <1>3, <1>4, PTL DEF Spec, KeepsPromise, Promise!Spec
=============================================================================

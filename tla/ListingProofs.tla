---------------------------- MODULE ListingProofs ----------------------------
(***************************************************************************)
(* Theorems about Listing, for any rows, queries, limits and clocks.       *)
(***************************************************************************)
EXTENDS Listing, FiniteSetTheorems, TLAPS

-----------------------------------------------------------------------------
(* Pages and places.                                                        *)

\* The smaller of two numbers.
LEMMA MinOfTwo ==
  ASSUME NEW a \in Int, NEW b \in Int
  PROVE  Min({a, b}) = IF a <= b THEN a ELSE b
<1> DEFINE m == IF a <= b THEN a ELSE b
<1>1. m \in {a, b} /\ \A y \in {a, b} : m <= y
  OBVIOUS
<1>2. \A x \in {a, b} : (\A y \in {a, b} : x <= y) => x = m
  OBVIOUS
<1> HIDE DEF m
<1>3. Min({a, b}) = m
  BY <1>1, <1>2 DEF Min
<1> QED
  BY <1>3 DEF m

\* How many places an interval has.
LEMMA IntervalSize ==
  ASSUME NEW a \in Int, NEW b \in Int, a <= b + 1
  PROVE  IsFiniteSet(a..b) /\ Cardinality(a..b) = b - a + 1
<1>1. IsFiniteSet(a..b) /\ Cardinality(a..b) = IF a > b THEN 0 ELSE b - a + 1
  BY FS_Interval
<1> QED
  BY <1>1

\* An injection keeps the size of a set.
LEMMA ImageSize ==
  ASSUME NEW A, IsFiniteSet(A), NEW f, \A i, j \in A : f[i] = f[j] => i = j,
         NEW T, \A x : x \in T <=> \E i \in A : x = f[i]
  PROVE  IsFiniteSet(T) /\ Cardinality(T) = Cardinality(A)
<1> DEFINE g == [i \in A |-> f[i]]
<1>1. g \in Bijection(A, T)
  BY DEF Bijection, Injection, IsInjective, Surjection
<1>2. ExistsBijection(A, T)
  BY <1>1 DEF ExistsBijection
<1> QED
  BY <1>2, FS_Bijection

\* What an order of finitely many rows is.
LEMMA OrderFacts ==
  ASSUME NEW rows, IsFiniteSet(rows), NEW f \in Orders(rows)
  PROVE  /\ Cardinality(rows) \in Nat
         /\ f \in Injection(1..Cardinality(rows), rows)
         /\ \A r \in rows : \E i \in 1..Cardinality(rows) : f[i] = r
         /\ \A i, j \in 1..Cardinality(rows) :
              i < j => createdAt[f[i]] >= createdAt[f[j]]
<1>1. Cardinality(rows) \in Nat
  BY FS_CardinalityType
<1>2. f \in Bijection(1..Cardinality(rows), rows)
  BY DEF Orders
<1> QED
  BY <1>1, <1>2 DEF Orders, Bijection, Surjection

\* A row whose age no other row has takes the place after the newer ones in
\* every order.
LEMMA PlaceIsRank ==
  ASSUME NEW rows \in SUBSET Rows, IsFiniteSet(rows), createdAt \in [Rows -> Nat],
         NEW f \in Orders(rows), NEW i \in 1..Cardinality(rows),
         \A x \in rows \ {f[i]} : createdAt[x] # createdAt[f[i]]
  PROVE  Cardinality(Newer(rows, f[i])) = i - 1
<1> DEFINE n == Cardinality(rows)
<1>1. /\ n \in Nat /\ f \in Injection(1..n, rows)
      /\ \A r \in rows : \E j \in 1..n : f[j] = r
      /\ \A j, k \in 1..n : j < k => createdAt[f[j]] >= createdAt[f[k]]
  BY OrderFacts
<1>2. f \in [1..n -> rows] /\ \A j, k \in 1..n : f[j] = f[k] => j = k
  BY <1>1 DEF Injection, IsInjective
<1>3. \A j \in 1..n : createdAt[f[j]] \in Nat
  BY <1>2
<1>4. ASSUME NEW j \in 1..n
      PROVE  createdAt[f[j]] > createdAt[f[i]] <=> j < i
  <2>1. CASE j < i
    <3>1. f[j] \in rows \ {f[i]}
      BY <1>2, <2>1
    <3> QED
      BY <1>1, <1>3, <2>1, <3>1
  <2>2. CASE j >= i
    <3>1. createdAt[f[i]] >= createdAt[f[j]]
      BY <1>1, <1>3, <2>2
    <3> QED
      BY <1>3, <2>2, <3>1
  <2> QED
    BY <2>1, <2>2
<1>5. Newer(rows, f[i]) = {f[j] : j \in 1..(i - 1)}
  <2>1. ASSUME NEW x \in Newer(rows, f[i]) PROVE \E j \in 1..(i - 1) : x = f[j]
    <3>1. PICK j \in 1..n : f[j] = x
      BY <1>1 DEF Newer
    <3>2. j < i
      BY <1>4, <3>1 DEF Newer
    <3> QED
      BY <3>1, <3>2
  <2>2. ASSUME NEW j \in 1..(i - 1) PROVE f[j] \in Newer(rows, f[i])
    BY <1>1, <1>2, <1>4 DEF Newer
  <2> QED
    BY <2>1, <2>2
<1>6. IsFiniteSet(1..(i - 1)) /\ Cardinality(1..(i - 1)) = i - 1
  <2>1. 1 \in Int /\ i - 1 \in Int /\ 1 <= (i - 1) + 1 /\ (i - 1) - 1 + 1 = i - 1
    BY <1>1
  <2> QED
    BY <2>1, IntervalSize, Zenon
<1>7. \A j, k \in 1..(i - 1) : f[j] = f[k] => j = k
  BY <1>1, <1>2
<1>8. \A x : x \in Newer(rows, f[i]) <=> \E j \in 1..(i - 1) : x = f[j]
  BY <1>5
<1> DEFINE A == 1..(i - 1)
<1> HIDE DEF A
<1>9. Cardinality(Newer(rows, f[i])) = Cardinality(A)
  BY <1>6, <1>7, <1>8, ImageSize DEF A
<1> QED
  BY <1>6, <1>9 DEF A

\* How long a page is, and which places it shows.
LEMMA PageFacts ==
  ASSUME NEW rows \in SUBSET Rows, IsFiniteSet(rows), createdAt \in [Rows -> Nat],
         NEW limit \in Nat, NEW from \in Nat, NEW page \in Pages(rows, limit, from)
  PROVE  /\ page \subseteq rows /\ IsFiniteSet(page)
         /\ Cardinality(page) = IF Cardinality(rows) <= from THEN 0
                                ELSE IF from + limit <= Cardinality(rows) THEN limit
                                ELSE Cardinality(rows) - from
         /\ \A r \in rows : (\A x \in rows \ {r} : createdAt[x] # createdAt[r]) =>
              LET rank == Cardinality(Newer(rows, r))
              IN  /\ rank \in Nat /\ rank < Cardinality(rows)
                  /\ r \in page <=> from <= rank /\ rank < from + limit
<1> DEFINE n == Cardinality(rows)
           last == IF from + limit <= n THEN from + limit ELSE n
<1>1. PICK f \in Orders(rows) : page = {f[i] : i \in (from + 1)..last}
  <2>1. n \in Nat
    BY FS_CardinalityType
  <2>2. Min({from + limit, n}) = last
    BY <2>1, MinOfTwo
  <2> QED
    BY <2>2 DEF Pages
<1>2. /\ n \in Nat /\ f \in Injection(1..n, rows)
      /\ \A r \in rows : \E j \in 1..n : f[j] = r
  BY <1>1, OrderFacts
<1>3. f \in [1..n -> rows] /\ \A j, k \in 1..n : f[j] = f[k] => j = k
  BY <1>2 DEF Injection, IsInjective
<1>4. last \in 0..n /\ \A i \in (from + 1)..last : i \in 1..n
  BY <1>2
<1>5. page \subseteq rows
  BY <1>1, <1>3, <1>4
<1>6. /\ IsFiniteSet(page)
      /\ Cardinality(page) = IF from + 1 > last THEN 0 ELSE last - from
  <2>1. CASE from + 1 > last
    <3>1. page = {}
      BY <1>1, <1>2, <2>1
    <3> QED
      BY <2>1, <3>1, FS_EmptySet
  <2>2. CASE from + 1 <= last
    <3> DEFINE A == (from + 1)..last
    <3>1. IsFiniteSet(A) /\ Cardinality(A) = last - from
      <4>1. /\ from + 1 \in Int /\ last \in Int /\ from + 1 <= last + 1
            /\ last - (from + 1) + 1 = last - from
        BY <1>4, <2>2
      <4> HIDE DEF last
      <4> QED
        BY <4>1, IntervalSize, Zenon
    <3>2. \A i, j \in A : f[i] = f[j] => i = j
      BY <1>3, <1>4
    <3>3. \A x : x \in page <=> \E i \in A : x = f[i]
      BY <1>1
    <3> HIDE DEF A
    <3>4. IsFiniteSet(page) /\ Cardinality(page) = Cardinality(A)
      BY <3>1, <3>2, <3>3, ImageSize
    <3> QED
      BY <1>2, <1>4, <2>2, <3>1, <3>4
  <2> QED
    BY <1>2, <2>1, <2>2
<1>7. ASSUME NEW r \in rows, \A x \in rows \ {r} : createdAt[x] # createdAt[r]
      PROVE  LET rank == Cardinality(Newer(rows, r))
             IN  /\ rank \in Nat /\ rank < n
                 /\ r \in page <=> from <= rank /\ rank < from + limit
  <2>1. PICK i \in 1..n : f[i] = r
    BY <1>2
  <2>2. Cardinality(Newer(rows, r)) = i - 1
    BY <1>7, <2>1, PlaceIsRank
  <2>3. r \in page <=> i \in (from + 1)..last
    BY <1>1, <1>3, <1>4, <2>1
  <2> QED
    BY <1>2, <2>2, <2>3
<1> QED
  BY <1>2, <1>5, <1>6, <1>7

\* A page holds at least one row.
LEMMA LimitPositive ==
  ASSUME NEW param \in Nat
  PROVE  PageSize(param) \in Nat /\ PageSize(param) > 0
BY LimitsAssumption, MinOfTwo DEF PageSize

\* Of two rows of a list the newer one has fewer before it.
LEMMA NewerHasFewer ==
  ASSUME NEW rows \in SUBSET Rows, IsFiniteSet(rows), createdAt \in [Rows -> Nat],
         NEW r \in Rows
  PROVE  /\ IsFiniteSet(Newer(rows, r)) /\ Cardinality(Newer(rows, r)) \in Nat
         /\ \A x \in rows : createdAt[x] > createdAt[r] =>
              Cardinality(Newer(rows, x)) < Cardinality(Newer(rows, r))
<1>1. ASSUME NEW q \in Rows
      PROVE  IsFiniteSet(Newer(rows, q)) /\ Cardinality(Newer(rows, q)) \in Nat
  BY FS_Subset, FS_CardinalityType DEF Newer
<1>2. ASSUME NEW x \in rows, createdAt[x] > createdAt[r]
      PROVE  Cardinality(Newer(rows, x)) < Cardinality(Newer(rows, r))
  <2>1. Newer(rows, x) \subseteq Newer(rows, r) /\ x \in Newer(rows, r) /\ x \notin Newer(rows, x)
    BY <1>2 DEF Newer
  <2>2. /\ Cardinality(Newer(rows, x)) <= Cardinality(Newer(rows, r))
        /\ Cardinality(Newer(rows, x)) # Cardinality(Newer(rows, r))
    BY <1>1, <2>1, FS_Subset
  <2> QED
    BY <1>1, <2>2
<1> QED
  BY <1>1, <1>2

\* A row more before a place shifts it by at most one.
LEMMA OneMoreShifts ==
  ASSUME NEW S \in SUBSET Rows, IsFiniteSet(S), createdAt \in [Rows -> Nat],
         NEW y \in Rows \ S, NEW T, T = S \cup {y}, NEW r \in Rows
  PROVE  /\ Cardinality(Newer(S, r)) \in Nat
         /\ Cardinality(Newer(T, r)) =
              IF createdAt[y] > createdAt[r] THEN Cardinality(Newer(S, r)) + 1
              ELSE Cardinality(Newer(S, r))
<1>1. IsFiniteSet(Newer(S, r)) /\ Cardinality(Newer(S, r)) \in Nat
  BY NewerHasFewer
<1>2. Newer(T, r) =
        IF createdAt[y] > createdAt[r] THEN Newer(S, r) \cup {y} ELSE Newer(S, r)
  BY DEF Newer
<1>3. y \notin Newer(S, r)
  BY DEF Newer
<1>4. Cardinality(Newer(S, r) \cup {y}) = Cardinality(Newer(S, r)) + 1
  BY <1>1, <1>3, FS_AddElement
<1> QED
  BY <1>1, <1>2, <1>4

\* The row that comes or goes, and the rows it moves across a given place, are
\* one row.
LEMMA OneCrosses ==
  ASSUME NEW S \in SUBSET Rows, IsFiniteSet(S), createdAt \in [Rows -> Nat],
         NEW y \in Rows \ S, NEW T, T = S \cup {y}, NEW k \in Nat,
         NEW q \in T, NEW r \in T,
         \A x \in T : x # q => createdAt[x] # createdAt[q],
         \A x \in T : x # r => createdAt[x] # createdAt[r],
         Cardinality(Newer(T, q)) >= k, Cardinality(Newer(T, r)) >= k,
         q = y \/ ~(Cardinality(Newer(S, q)) >= k),
         r = y \/ ~(Cardinality(Newer(S, r)) >= k)
  PROVE  q = r
<1>1. IsFiniteSet(T) /\ T \in SUBSET Rows
  BY FS_AddElement
<1>2. ASSUME NEW a \in T, NEW b \in T, createdAt[a] > createdAt[b],
             Cardinality(Newer(T, a)) >= k,
             a = y \/ ~(Cardinality(Newer(S, a)) >= k),
             b = y \/ ~(Cardinality(Newer(S, b)) >= k)
      PROVE  FALSE
  <2>0. a \in Rows /\ b \in Rows /\ createdAt[y] \in Nat
    BY <1>1
  <2>1. /\ Cardinality(Newer(T, a)) < Cardinality(Newer(T, b))
        /\ Cardinality(Newer(T, a)) \in Nat /\ Cardinality(Newer(T, b)) \in Nat
    BY <1>1, <1>2, <2>0, NewerHasFewer
  <2>2. /\ Cardinality(Newer(S, a)) \in Nat /\ Cardinality(Newer(S, b)) \in Nat
        /\ Cardinality(Newer(T, b)) <= Cardinality(Newer(S, b)) + 1
        /\ createdAt[y] <= createdAt[a] =>
             Cardinality(Newer(T, a)) = Cardinality(Newer(S, a))
    BY <2>0, OneMoreShifts
  <2>3. b = y
    BY <1>2, <2>1, <2>2
  <2>4. Cardinality(Newer(T, a)) = Cardinality(Newer(S, a)) /\ a # y
    BY <1>2, <2>0, <2>2, <2>3
  <2> QED
    BY <1>2, <2>2, <2>4
<1>3. q # r => createdAt[q] > createdAt[r] \/ createdAt[r] > createdAt[q]
  BY <1>1
<1> QED
  BY <1>2, <1>3

\* A set with at most one element that another lacks is at most one larger.
LEMMA AtMostOneMore ==
  ASSUME NEW A, IsFiniteSet(A), NEW B, \A p, q \in B \ A : p = q
  PROVE  IsFiniteSet(B) /\ Cardinality(B) <= Cardinality(A) + 1
<1>1. Cardinality(A) \in Nat
  BY FS_CardinalityType
<1>2. CASE B \subseteq A
  BY <1>1, <1>2, FS_Subset, FS_CardinalityType
<1>3. ASSUME NEW p \in B \ A
      PROVE  IsFiniteSet(B) /\ Cardinality(B) <= Cardinality(A) + 1
  <2>1. B \subseteq A \cup {p}
    BY <1>3
  <2>2. IsFiniteSet(A \cup {p}) /\ Cardinality(A \cup {p}) = Cardinality(A) + 1
    BY <1>3, FS_AddElement
  <2> QED
    BY <2>1, <2>2, FS_Subset
<1> QED
  BY <1>2, <1>3

-----------------------------------------------------------------------------
(* What the writers do to the rows.                                         *)

\* What a query is, and what it selects.
LEMMA QueryFacts ==
  ASSUME TypeOK
  PROVE  \/ query = Nothing /\ Matching(query) = {}
         \/ /\ query \in TaskQueries /\ query.table = "tasks"
            /\ Matching(query) = MatchingTasks(query)
         \/ /\ query \in EventQueries /\ query.table = "events"
            /\ Matching(query) = MatchingEvents(query)
  BY DEF TypeOK, TaskQueries, EventQueries, Nothing, Matching

\* A write leaves the rows there are as old as they are, and gives a timestamp to
\* at most one that had none.
LEMMA StampStep ==
  ASSUME TypeOK, RowsInv, Write
  PROVE  /\ \A r \in Stamped : createdAt'[r] = createdAt[r] /\ r \in Stamped'
         /\ \E y \in Rows : Stamped' \subseteq Stamped \cup {y}
         /\ createdAt' \in [Rows -> 0..clock'] /\ clock' \in Nat /\ clock' > 0
<1> USE DEF TypeOK, RowsInv
<1>1. CASE UNCHANGED <<clock, createdAt>>
  <2>1. \E y : y \in Rows
    BY DEF Write, Rows
  <2> QED
    BY <1>1, <2>1 DEF Stamped
<1>2. ASSUME NEW y \in Rows, Stamp(y), createdAt[y] = 0
      PROVE  /\ \A r \in Stamped : createdAt'[r] = createdAt[r] /\ r \in Stamped'
             /\ Stamped' \subseteq Stamped \cup {y}
             /\ createdAt' \in [Rows -> 0..clock'] /\ clock' \in Nat /\ clock' > 0
  BY <1>2 DEF Stamp, Stamped
<1>3. ASSUME NEW t \in Tasks, BuildTask(t)
      PROVE  t \in Rows /\ Stamp(t) /\ createdAt[t] = 0
  BY <1>3 DEF BuildTask, Rows
<1>4. ASSUME NEW e \in EventIds, BuildEvent(e)
      PROVE  e \in Rows /\ Stamp(e) /\ createdAt[e] = 0
  BY <1>4 DEF BuildEvent, Rows
<1> QED
  BY <1>1, <1>2, <1>3, <1>4 DEF Write, InsertTask, DispatchTask, InsertEvent, ApplyState

\* What a row of the log says.
LEMMA EventFacts ==
  ASSUME TypeOK, RowsInv, NEW r \in events
  PROVE  /\ r.id \in EventIds /\ r.id \in Stamped /\ epc[r.id] \in {"state", "done"}
         /\ r.task \in Tasks /\ post[r.id] = [task |-> r.task, type |-> r.type]
<1>1. r.id \in EventIds /\ r.task \in Tasks
  BY DEF TypeOK, TablesTypeOK, EventRows
<1>2. epc[r.id] \in {"state", "done"} /\ post[r.id] = [task |-> r.task, type |-> r.type]
  BY DEF RowsInv
<1>3. createdAt[r.id] # 0
  BY <1>1, <1>2 DEF RowsInv
<1> QED
  BY <1>1, <1>2, <1>3 DEF Stamped, Rows

\* How far each request got keeps telling which rows there are.
LEMMA StepRowsInv ==
  ASSUME TypeOK, RowsInv, [Next]_vars
  PROVE  RowsInv'
<1> USE DEF TypeOK, TablesTypeOK, tables, Rows
<1>1. CASE UNCHANGED <<tables, writers>>
  BY <1>1 DEF RowsInv, Stamped, writers
<1>2. CASE Write
  <2>1. IsFiniteSet(Stamped')
    BY <1>2, StampStep, FS_AddElement, FS_Subset DEF RowsInv
  <2>2. clock' > 0
    BY <1>2, StampStep
  <2>3. \A r \in Stamped : createdAt'[r] = createdAt[r] /\ createdAt[r] # 0
    BY <1>2, StampStep DEF Stamped
  <2>4. ASSUME NEW t \in Tasks, BuildTask(t)
        PROVE  RowsInv'
    BY <2>1, <2>2, <2>4, IdsAssumption DEF BuildTask, Stamp, RowsInv
  <2>5. ASSUME NEW t \in Tasks, InsertTask(t)
        PROVE  RowsInv'
    BY <2>1, <2>2, <2>5 DEF InsertTask, CreateTask, RowsInv
  <2>6. ASSUME NEW t \in Tasks, DispatchTask(t)
        PROVE  RowsInv'
    BY <2>1, <2>2, <2>6 DEF DispatchTask, UpdateTaskState, RowsInv
  <2>7. ASSUME NEW e \in EventIds, BuildEvent(e)
        PROVE  RowsInv'
    <3>1. \A t \in Tasks, type \in PostTypes : [task |-> t, type |-> type] # Nothing
      BY DEF Nothing
    <3>2. \A r \in events : r.id # e /\ r.id \in EventIds
      BY <2>7, EventFacts DEF BuildEvent
    <3>3. /\ UNCHANGED <<taskState, events, cpc>>
          /\ epc' = [epc EXCEPT ![e] = "append"]
          /\ createdAt' = [createdAt EXCEPT ![e] = clock']
      BY <2>7 DEF BuildEvent, Stamp
    <3>4. post'[e] # Nothing /\ \A d \in EventIds : d # e => post'[d] = post[d]
      BY <2>7, <3>1 DEF BuildEvent
    <3>5. \A t \in Tasks : /\ createdAt'[t] # 0 <=> cpc'[t] # "none"
                           /\ taskState'[t] # Absent => cpc'[t] \notin {"none", "insert"}
      BY <3>3, IdsAssumption DEF RowsInv
    <3>6. ASSUME NEW d \in EventIds
          PROVE  /\ createdAt'[d] # 0 <=> epc'[d] # "none"
                 /\ epc'[d] # "none" => post'[d] # Nothing
                 /\ epc'[d] = "state" =>
                      /\ post'[d].type \in TerminalTypes \cup {"task.started"}
                      /\ \E r \in events' : r.id = d
      <4>1. CASE d = e
        BY <2>2, <3>3, <3>4, <4>1
      <4>2. CASE d # e
        BY <3>3, <3>4, <4>2 DEF RowsInv
      <4> QED
        BY <4>1, <4>2
    <3>7. \A r \in events' : /\ epc'[r.id] \in {"state", "done"}
                            /\ post'[r.id] = [task |-> r.task, type |-> r.type]
      <4>1. \A r \in events : epc'[r.id] = epc[r.id] /\ post'[r.id] = post[r.id]
        BY <3>2, <3>3, <3>4
      <4> QED
        BY <3>3, <4>1, EventFacts
    <3> QED
      BY <2>1, <2>2, <3>5, <3>6, <3>7 DEF RowsInv
  <2>8. ASSUME NEW e \in EventIds, InsertEvent(e)
        PROVE  RowsInv'
    <3>1. post[e] \in [task : Tasks, type : PostTypes]
      BY <2>8 DEF InsertEvent, RowsInv
    <3>2. events' = events \cup {[id |-> e, task |-> post[e].task, type |-> post[e].type,
                                  bearer |-> ServerToken(post[e].task)]}
      BY <2>8 DEF InsertEvent, AppendEvent, Applied
    <3>3. UNCHANGED <<taskState, clock, createdAt, cpc, post>>
      BY <2>8 DEF InsertEvent, AppendEvent
    <3>4. /\ epc[e] = "append" /\ epc'[e] \in {"state", "done"}
          /\ epc'[e] = "state" => post[e].type \in TerminalTypes \cup {"task.started"}
          /\ \A d \in EventIds \ {e} : epc'[d] = epc[d]
      <4>1. /\ epc[e] = "append"
            /\ epc' = [epc EXCEPT ![e] =
                 IF post[e].type \in TerminalTypes \cup {"task.started"}
                 THEN "state" ELSE "done"]
        BY <2>8 DEF InsertEvent
      <4> QED
        BY <4>1 DEF RowsInv
    <3>5. \A r \in events : r.id \in EventIds \ {e}
      BY <3>4, EventFacts
    <3>6. ASSUME NEW r \in events'
          PROVE  /\ epc'[r.id] \in {"state", "done"}
                 /\ post'[r.id] = [task |-> r.task, type |-> r.type]
      BY <3>1, <3>2, <3>3, <3>4, <3>5 DEF RowsInv
    <3>7. ASSUME NEW d \in EventIds
          PROVE  /\ createdAt'[d] # 0 <=> epc'[d] # "none"
                 /\ epc'[d] # "none" => post'[d] # Nothing
                 /\ epc'[d] = "state" =>
                      /\ post'[d].type \in TerminalTypes \cup {"task.started"}
                      /\ \E r \in events' : r.id = d
      <4>1. CASE d = e
        <5> DEFINE row == [id |-> e, task |-> post[e].task, type |-> post[e].type,
                           bearer |-> ServerToken(post[e].task)]
        <5>1. row \in events' /\ row.id = e
          BY <3>2
        <5> QED
          BY <3>3, <3>4, <4>1, <5>1 DEF RowsInv
      <4>2. CASE d # e
        <5>1. events \subseteq events' /\ epc'[d] = epc[d]
          BY <3>2, <3>4, <4>2
        <5> QED
          BY <3>3, <5>1 DEF RowsInv
      <4> QED
        BY <4>1, <4>2
    <3> QED
      BY <2>1, <2>2, <3>3, <3>6, <3>7 DEF RowsInv
  <2>9. ASSUME NEW e \in EventIds, ApplyState(e)
        PROVE  RowsInv'
    <3>1. /\ UNCHANGED <<events, clock, createdAt, cpc, post>>
          /\ epc' = [epc EXCEPT ![e] = "done"] /\ epc[e] = "state"
      BY <2>9 DEF ApplyState, UpdateTaskState
    <3>2. \A t \in Tasks : taskState'[t] # Absent => taskState[t] # Absent
      BY <2>9 DEF ApplyState, UpdateTaskState, Applied
    <3> QED
      BY <2>1, <2>2, <3>1, <3>2 DEF RowsInv, EventRows
  <2> QED
    BY <1>2, <2>4, <2>5, <2>6, <2>7, <2>8, <2>9 DEF Write
<1> QED
  BY <1>1, <1>2 DEF Next, GetTask, BeginWalk, NextPage, Status, vars

\* Only rows with a timestamp are selected, all from one table.
LEMMA SelectedFacts ==
  ASSUME TypeOK, RowsInv
  PROVE  /\ Matching(query) \subseteq Stamped /\ Stamped \subseteq Rows
         /\ IsFiniteSet(Matching(query)) /\ IsFiniteSet(Stamped)
         /\ createdAt \in [Rows -> Nat]
         /\ \A x, r \in Matching(query) : x \in Tasks <=> r \in Tasks
<1> USE DEF TypeOK, Rows
<1>1. MatchingTasks(query) \subseteq Stamped \cap Tasks
  BY DEF MatchingTasks, RowsInv, Stamped
<1>2. MatchingEvents(query) \subseteq Stamped \cap EventIds
  <2>1. \A r \in events : r.id \in EventIds /\ createdAt[r.id] # 0
    BY EventFacts DEF Stamped
  <2>2. \A x \in MatchingEvents(query) : \E r \in events : x = r.id
    BY DEF MatchingEvents
  <2> QED
    BY <2>1, <2>2 DEF Stamped
<1>3. /\ Matching(query) \subseteq Stamped
      /\ \A x, r \in Matching(query) : x \in Tasks <=> r \in Tasks
  BY <1>1, <1>2, QueryFacts, IdsAssumption
<1>4. IsFiniteSet(Matching(query)) /\ IsFiniteSet(Stamped)
  BY <1>3, FS_Subset DEF RowsInv
<1>5. createdAt \in [Rows -> Nat]
  OBVIOUS
<1> QED
  BY <1>3, <1>4, <1>5 DEF Stamped

\* A write moves at most one row into or out of what a query selects, and none
\* out of the log.
LEMMA WriteMoves ==
  ASSUME TypeOK, RowsInv, Write, query' = query
  PROVE  /\ Matching(query)' \subseteq Stamped
         /\ \E y \in Rows : Matching(query)' \ {y} = Matching(query) \ {y}
         /\ query.table = "events" => Matching(query) \subseteq Matching(query)'
<1>0. \/ Matching(query)' = Matching(query) /\ query.table \notin {"tasks", "events"}
      \/ /\ query.table = "tasks" /\ Matching(query) = MatchingTasks(query)
         /\ Matching(query)' = MatchingTasks(query)'
      \/ /\ query.table = "events" /\ Matching(query) = MatchingEvents(query)
         /\ Matching(query)' = MatchingEvents(query)'
  BY QueryFacts DEF Matching, Nothing
<1> USE DEF TypeOK, TablesTypeOK, Rows
<1>1. /\ MatchingTasks(query)' =
           {t \in Tasks : taskState'[t] # Absent /\ query.state \in {NoFilter, taskState'[t]}}
      /\ MatchingEvents(query)' =
           {r.id : r \in {e \in events' : /\ query.task \in {NoFilter, e.task}
                                          /\ query.type \in {NoFilter, e.type}
                                          /\ createdAt'[e.id] >= query.since}}
  BY DEF MatchingTasks, MatchingEvents
<1>2. \A e \in events : createdAt'[e.id] = createdAt[e.id]
  BY StampStep, EventFacts
<1>3. CASE UNCHANGED <<taskState, events>>
  <2>1. MatchingTasks(query)' = MatchingTasks(query)
    BY <1>1, <1>3 DEF MatchingTasks
  <2>2. MatchingEvents(query)' = MatchingEvents(query)
    BY <1>1, <1>2, <1>3 DEF MatchingEvents
  <2>3. \E y : y \in Rows
    BY DEF Write
  <2>4. Matching(query)' = Matching(query)
    BY <1>0, <2>1, <2>2
  <2> QED
    BY <2>3, <2>4, SelectedFacts
<1>4. ASSUME NEW t \in Tasks, t \in Stamped, NEW s, taskState' = [taskState EXCEPT ![t] = s],
             events' = events
      PROVE  /\ Matching(query)' \subseteq Stamped
             /\ Matching(query)' \ {t} = Matching(query) \ {t}
             /\ query.table = "events" => Matching(query) \subseteq Matching(query)'
  <2>1. MatchingTasks(query)' \ {t} = MatchingTasks(query) \ {t}
    BY <1>1, <1>4 DEF MatchingTasks
  <2>2. MatchingEvents(query)' = MatchingEvents(query)
    BY <1>1, <1>2, <1>4 DEF MatchingEvents
  <2>3. /\ Matching(query)' \ {t} = Matching(query) \ {t}
        /\ query.table = "events" => Matching(query) \subseteq Matching(query)'
    BY <1>0, <2>1, <2>2
  <2> QED
    BY <1>4, <2>3, SelectedFacts
<1>5. ASSUME NEW e \in EventIds, e \in Stamped, NEW r, r.id = e, events' = events \cup {r},
             taskState' = taskState
      PROVE  /\ Matching(query)' \subseteq Stamped
             /\ Matching(query)' \ {e} = Matching(query) \ {e}
             /\ query.table = "events" => Matching(query) \subseteq Matching(query)'
  <2>1. MatchingTasks(query)' = MatchingTasks(query)
    BY <1>1, <1>5 DEF MatchingTasks
  <2>2. MatchingEvents(query) \subseteq MatchingEvents(query)'
    BY <1>1, <1>2, <1>5 DEF MatchingEvents
  <2>3. MatchingEvents(query)' \subseteq MatchingEvents(query) \cup {e}
    BY <1>1, <1>2, <1>5 DEF MatchingEvents
  <2>4. MatchingEvents(query)' \ {e} = MatchingEvents(query) \ {e}
    BY <2>2, <2>3
  <2>5. /\ Matching(query)' \ {e} = Matching(query) \ {e}
        /\ query.table = "events" => Matching(query) \subseteq Matching(query)'
    BY <1>0, <2>1, <2>2, <2>4
  <2> QED
    BY <1>5, <2>5, SelectedFacts
<1>6. ASSUME NEW t \in Tasks, BuildTask(t) \/ InsertTask(t) \/ DispatchTask(t)
      PROVE  \/ UNCHANGED <<taskState, events>>
             \/ /\ t \in Stamped /\ events' = events
                /\ \E s : taskState' = [taskState EXCEPT ![t] = s]
  BY <1>6 DEF BuildTask, InsertTask, CreateTask, DispatchTask, UpdateTaskState, tables,
     RowsInv, Stamped
<1>7. ASSUME NEW e \in EventIds, BuildEvent(e) \/ InsertEvent(e)
      PROVE  \/ UNCHANGED <<taskState, events>>
             \/ /\ e \in Stamped /\ taskState' = taskState
                /\ \E r : r.id = e /\ events' = events \cup {r}
  BY <1>7 DEF BuildEvent, InsertEvent, AppendEvent, tables, RowsInv, Stamped
<1>8. ASSUME NEW e \in EventIds, ApplyState(e)
      PROVE  \/ UNCHANGED <<taskState, events>>
             \/ \E t \in Tasks :
                  /\ t \in Stamped /\ events' = events
                  /\ \E s : taskState' = [taskState EXCEPT ![t] = s]
  <2>1. post[e].task \in Tasks
    BY <1>8 DEF ApplyState, RowsInv
  <2>2. post[e].task \in Stamped
    BY <1>8, <2>1 DEF ApplyState, UpdateTaskState, RowsInv, Stamped
  <2> QED
    BY <1>8, <2>1, <2>2 DEF ApplyState, UpdateTaskState
<1> QED
  BY <1>3, <1>4, <1>5, <1>6, <1>7, <1>8 DEF Write

-----------------------------------------------------------------------------
(* What becomes of a walk.                                                  *)

\* Ages that differ still differ after a write.
LEMMA PlacedBefore ==
  ASSUME TypeOK, RowsInv, Write, NEW r \in Stamped, Placed(r)'
  PROVE  Placed(r)
<1>1. ASSUME NEW x \in Rows, x \in Tasks <=> r \in Tasks, x # r
      PROVE  createdAt[x] # createdAt[r]
  <2>1. createdAt'[x] # createdAt'[r]
    BY <1>1 DEF Placed
  <2>2. createdAt'[r] = createdAt[r] /\ createdAt[r] # 0
    BY StampStep DEF Stamped
  <2>3. createdAt[x] # 0 => createdAt'[x] = createdAt[x]
    BY StampStep DEF Stamped
  <2> QED
    BY <2>1, <2>2, <2>3
<1> QED
  BY <1>1 DEF Placed

\* What a write does to a walk: the rows selected change by one at most, the
\* counters count it, and no place is compared by other ages than before.
LEMMA WatchStep ==
  ASSUME TypeOK, RowsInv, Write, Watch
  PROVE  /\ UNCHANGED <<reader, query, offset, returned, base, saw, report>>
         /\ Matching(query)' \subseteq Stamped
         /\ \A r \in Stamped : Newer(Matching(query), r)' = Newer(Matching(query)', r)
         /\ \/ /\ Matching(query)' = Matching(query)
               /\ came' = came /\ left' = left
            \/ \E y \in Rows \ Matching(query) :
                 /\ Matching(query)' = Matching(query) \cup {y}
                 /\ came' = came + 1 /\ left' = left
            \/ \E y \in Rows \ Matching(query)' :
                 /\ Matching(query) = Matching(query)' \cup {y}
                 /\ came' = came /\ left' = left + 1 /\ query.table # "events"
<1> DEFINE M == Matching(query)
           N == Matching(query)'
<1>1. /\ UNCHANGED <<reader, query, offset, returned, base, saw, report>>
      /\ came' = came + Cardinality(N \ M) /\ left' = left + Cardinality(M \ N)
      /\ came \in Nat /\ left \in Nat
  BY DEF Watch, TypeOK
<1>2. PICK y \in Rows : N \ {y} = M \ {y}
  BY <1>1, WriteMoves
<1>3. query.table = "events" => M \subseteq N
  BY <1>1, WriteMoves
<1>4. \A r \in Stamped : Newer(N, r) = Newer(M, r)'
  <2>1. N \subseteq Stamped
    BY <1>1, WriteMoves
  <2> QED
    BY <2>1, StampStep DEF Newer
<1>5. N \subseteq Stamped
  BY <1>1, WriteMoves
<1>6. CASE N = M
  <2>1. N \ M = {} /\ M \ N = {}
    BY <1>6
  <2> QED
    BY <1>1, <1>4, <1>5, <1>6, <2>1, FS_EmptySet
<1>7. CASE y \in N \ M
  <2>1. N = M \cup {y} /\ N \ M = {y} /\ M \ N = {}
    BY <1>2, <1>7
  <2>2. Cardinality(N \ M) = 1 /\ Cardinality(M \ N) = 0
    BY <2>1, FS_EmptySet, FS_Singleton
  <2> QED
    BY <1>1, <1>4, <1>5, <1>7, <2>1, <2>2
<1>8. CASE y \in M \ N
  <2>1. M = N \cup {y} /\ N \ M = {} /\ M \ N = {y}
    BY <1>2, <1>8
  <2>2. Cardinality(N \ M) = 0 /\ Cardinality(M \ N) = 1
    BY <2>1, FS_EmptySet, FS_Singleton
  <2> QED
    BY <1>1, <1>3, <1>4, <1>5, <1>8, <2>1, <2>2
<1> QED
  BY <1>2, <1>6, <1>7, <1>8

\* A write loses the walk at most the row that goes, or the one that row shifts
\* back across the offset.
LEMMA WatchPassed ==
  ASSUME TypeOK, RowsInv, WalkInv, MissesAtMostLeavers, Write, Watch
  PROVE  /\ reader' = "walking" => Cardinality(Passed') <= left'
         /\ MissesAtMostLeavers'
<1> DEFINE M == Matching(query)
           N == Matching(query)'
<1>1. /\ M \subseteq Stamped /\ Stamped \subseteq Rows /\ N \subseteq Stamped
      /\ IsFiniteSet(M) /\ IsFiniteSet(Stamped) /\ createdAt \in [Rows -> Nat]
      /\ \A x, r \in M : x \in Tasks <=> r \in Tasks
  BY SelectedFacts, WatchStep
<1>2. /\ UNCHANGED <<reader, query, offset, returned, base>>
      /\ left' \in Nat /\ left' >= left
      /\ base \subseteq Stamped
  BY WatchStep DEF WalkInv, TypeOK
<1>3. /\ Missed \subseteq base /\ Missed' \subseteq Missed
      /\ IsFiniteSet(Missed) /\ IsFiniteSet(Missed')
  <2>1. Missed \subseteq base /\ Missed' \subseteq Missed
    BY <1>2, PlacedBefore DEF Missed
  <2> QED
    BY <1>1, <1>2, <2>1, FS_Subset
<1>4. MissesAtMostLeavers'
  BY <1>2, <1>3, FS_Subset, FS_CardinalityType DEF MissesAtMostLeavers, TypeOK
<1>5. IsFiniteSet(Passed) /\ Cardinality(Passed) \in Nat
  BY <1>3, FS_Subset, FS_CardinalityType DEF Passed
<1>6. Passed' = {r \in Missed' : r \in N => Cardinality(Newer(N, r)) < offset}
  <2>1. \A r \in Missed' : Newer(Matching(query), r)' = Newer(N, r)
    BY <1>2, <1>3, WatchStep
  <2> QED
    BY <1>2, <2>1 DEF Passed
<1>7. CASE N = M
  <2>1. Passed' \subseteq Passed
    BY <1>3, <1>6, <1>7 DEF Passed
  <2> QED
    BY <1>2, <1>4, <1>5, <2>1, FS_Subset, FS_CardinalityType DEF WalkInv, TypeOK
<1>8. ASSUME NEW y \in Rows \ M, N = M \cup {y}
      PROVE  Passed' \subseteq Passed
  <2>1. ASSUME NEW r \in Passed', r \in M PROVE Cardinality(Newer(M, r)) < offset
    <3>1. Cardinality(Newer(N, r)) < offset
      BY <1>6, <1>8, <2>1
    <3>2. /\ M \in SUBSET Rows /\ r \in Rows
          /\ createdAt[y] > createdAt[r] \/ ~(createdAt[y] > createdAt[r])
      BY <1>1, <2>1
    <3> HIDE DEF M, N
    <3>3. /\ Cardinality(Newer(M, r)) \in Nat
          /\ Cardinality(Newer(N, r)) =
               IF createdAt[y] > createdAt[r] THEN Cardinality(Newer(M, r)) + 1
               ELSE Cardinality(Newer(M, r))
      BY <1>1, <1>8, <3>2, OneMoreShifts
    <3>4. offset \in Nat
      BY DEF TypeOK
    <3> QED
      BY <3>1, <3>3, <3>4
  <2> QED
    BY <1>3, <1>6, <2>1 DEF Passed
<1>9. ASSUME NEW y \in Rows \ N, M = N \cup {y}
      PROVE  \A q, r \in Passed' \ Passed : q = r
  <2>1. ASSUME NEW q \in Passed' \ Passed
        PROVE  /\ q \in M /\ Cardinality(Newer(M, q)) >= offset
               /\ q = y \/ ~(Cardinality(Newer(N, q)) >= offset)
               /\ \A x \in M : x # q => createdAt[x] # createdAt[q]
    <3>1. /\ q \in Missed /\ q \in Missed' /\ q \in M
          /\ ~(Cardinality(Newer(M, q)) < offset)
          /\ q \in N => Cardinality(Newer(N, q)) < offset
      BY <1>3, <1>6, <2>1 DEF Passed
    <3>2. /\ Cardinality(Newer(M, q)) \in Nat /\ Cardinality(Newer(N, q)) \in Nat
          /\ offset \in Nat
      BY <1>1, <3>1, FS_Subset, NewerHasFewer DEF TypeOK
    <3>3. \A x \in M : x # q => createdAt[x] # createdAt[q]
      BY <1>1, <3>1 DEF Missed, Placed
    <3> QED
      BY <1>9, <3>1, <3>2, <3>3
  <2>2. N \in SUBSET Rows /\ IsFiniteSet(N) /\ offset \in Nat
    BY <1>1, FS_Subset DEF TypeOK
  <2> HIDE DEF M, N
  <2> QED
    BY <1>1, <1>9, <2>1, <2>2, OneCrosses
<1>10. ASSUME NEW y \in Rows \ N, M = N \cup {y}, left' = left + 1
       PROVE  reader' = "walking" => Cardinality(Passed') <= left'
  BY <1>2, <1>5, <1>9, <1>10, AtMostOneMore, FS_CardinalityType DEF WalkInv, TypeOK
<1>11. ASSUME Passed' \subseteq Passed
       PROVE  reader' = "walking" => Cardinality(Passed') <= left'
  BY <1>2, <1>5, <1>11, FS_Subset, FS_CardinalityType DEF WalkInv, TypeOK
<1>12. \/ N = M
       \/ \E y \in Rows \ M : N = M \cup {y}
       \/ \E y \in Rows \ N : M = N \cup {y} /\ left' = left + 1
  BY WatchStep
<1> HIDE DEF M, N
<1> QED
  BY <1>4, <1>7, <1>8, <1>10, <1>11, <1>12

\* What is counted of the times the rows came.
LEMMA AfterFirstFacts ==
  ASSUME NEW times, NEW p
  PROVE  p \in AfterFirst(times) <=>
           \E r \in Rows : Placed(r) /\ \E k \in 2..times[r] : p = <<r, k>>
<1>1. ASSUME NEW r PROVE p \in {r} \X (2..times[r]) <=> \E k \in 2..times[r] : p = <<r, k>>
  OBVIOUS
<1> QED
  BY <1>1 DEF AfterFirst

\* A write makes at most one row come once more: the one that comes, or the one it
\* shifts across the offset.
LEMMA WatchDue ==
  ASSUME TypeOK, TypeOK', RowsInv, WalkInv, Write, Watch
  PROVE  /\ IsFiniteSet(AfterFirst(Due)')
         /\ Cardinality(AfterFirst(Due)') <= came'
<1> DEFINE M == Matching(query)
           N == Matching(query)'
<1>1. /\ M \subseteq Stamped /\ Stamped \subseteq Rows /\ N \subseteq Stamped
      /\ M \in SUBSET Rows /\ N \in SUBSET Rows
      /\ IsFiniteSet(M) /\ createdAt \in [Rows -> Nat]
  BY SelectedFacts, WatchStep
<1>2. /\ query' = query /\ offset' = offset /\ returned' = returned
      /\ offset \in Nat /\ returned \in [Rows -> Nat]
      /\ came \in Nat /\ came' \in Nat /\ came' >= came
      /\ \A r \in Rows : returned[r] > 0 => r \in Stamped
  BY WatchStep DEF WalkInv, TypeOK
<1>3. \A x, r \in N : x \in Tasks <=> r \in Tasks
  <2>1. N \subseteq Tasks \/ N \subseteq EventIds
    <3>1. MatchingTasks(query)' \subseteq Tasks
      BY DEF MatchingTasks
    <3>2. \A e \in events' : e.id \in EventIds
      BY DEF TypeOK, TablesTypeOK, EventRows
    <3>3. MatchingEvents(query)' \subseteq EventIds
      BY <3>2 DEF MatchingEvents
    <3>4. N = {} \/ N = MatchingTasks(query)' \/ N = MatchingEvents(query)'
      BY <1>2, QueryFacts DEF Matching, Nothing
    <3> QED
      BY <3>1, <3>3, <3>4
  <2> QED
    BY <2>1, IdsAssumption
<1>4. Again' = {r \in N : /\ returned[r] > 0 /\ Placed(r)'
                          /\ Cardinality(Newer(N, r)) >= offset}
  <2>1. \A r \in N : Newer(Matching(query), r)' = Newer(N, r)
    BY <1>1, WatchStep
  <2> QED
    BY <1>2, <2>1 DEF Again
<1>5. \A r \in Again' : r \in N /\ returned[r] > 0 /\ Placed(r)
  BY <1>1, <1>4, PlacedBefore
<1>6. ASSUME NEW p \in AfterFirst(Due)', p \notin AfterFirst(Due)
      PROVE  \E r \in Again' \ Again : p = <<r, returned[r] + 1>>
  <2>1. PICK r \in Rows : Placed(r)' /\ \E k \in 2..Due'[r] : p = <<r, k>>
    <3>1. p \in UNION {{r} \X (2..Due'[r]) : r \in {x \in Rows : Placed(x)'}}
      BY <1>6 DEF AfterFirst, Rows
    <3> QED
      BY <3>1
  <2>2. PICK k \in 2..Due'[r] : p = <<r, k>>
    BY <2>1
  <2>3. Due'[r] = returned[r] + IF r \in Again' THEN 1 ELSE 0
    BY <1>2 DEF Due, Rows
  <2>4. Due[r] = returned[r] + IF r \in Again THEN 1 ELSE 0
    BY DEF Due
  <2>5. returned[r] \in Nat
    BY <1>2
  <2>6. returned[r] > 0
    BY <2>2, <2>3, <2>5
  <2>7. Placed(r)
    BY <1>2, <2>1, <2>6, PlacedBefore
  <2>8. ~(k \in 2..Due[r])
    BY <1>6, <2>2, <2>7, AfterFirstFacts
  <2> HIDE DEF M, N
  <2> QED
    BY <2>2, <2>3, <2>4, <2>5, <2>8
<1>7. ASSUME Again' \subseteq Again
      PROVE  /\ IsFiniteSet(AfterFirst(Due)')
             /\ Cardinality(AfterFirst(Due)') <= came'
  <2>1. AfterFirst(Due)' \subseteq AfterFirst(Due)
    BY <1>6, <1>7
  <2> QED
    BY <1>2, <2>1, FS_Subset, FS_CardinalityType DEF WalkInv
<1>8. CASE N = M
  <2>1. Again' \subseteq Again
    BY <1>4, <1>5, <1>8 DEF Again
  <2> QED
    BY <1>7, <2>1
<1>9. ASSUME NEW y \in Rows \ M, N = M \cup {y}, came' = came + 1
      PROVE  /\ IsFiniteSet(AfterFirst(Due)')
             /\ Cardinality(AfterFirst(Due)') <= came'
  <2>1. ASSUME NEW q \in Again' \ Again
        PROVE  /\ q \in N /\ Cardinality(Newer(N, q)) >= offset
               /\ q = y \/ ~(Cardinality(Newer(M, q)) >= offset)
               /\ \A x \in N : x # q => createdAt[x] # createdAt[q]
    <3>1. q \in N /\ returned[q] > 0 /\ Placed(q) /\ Cardinality(Newer(N, q)) >= offset
      BY <1>4, <1>5, <2>1
    <3>2. q = y \/ ~(Cardinality(Newer(M, q)) >= offset)
      BY <1>9, <2>1, <3>1 DEF Again
    <3> QED
      BY <1>1, <1>3, <3>1, <3>2 DEF Placed
  <2> HIDE DEF M, N
  <2>2. \A q, r \in Again' \ Again : q = r
    BY <1>1, <1>2, <1>9, <2>1, OneCrosses
  <2>3. \A a, b \in AfterFirst(Due)' \ AfterFirst(Due) : a = b
    BY <1>6, <2>2
  <2>4. IsFiniteSet(AfterFirst(Due)) /\ Cardinality(AfterFirst(Due)) <= came
    BY DEF WalkInv
  <2> QED
    BY <1>2, <1>9, <2>3, <2>4, AtMostOneMore, FS_CardinalityType
<1>10. ASSUME NEW y \in Rows \ N, M = N \cup {y}
       PROVE  Again' \subseteq Again
  <2>1. ASSUME NEW r \in Again' PROVE r \in M /\ Cardinality(Newer(M, r)) >= offset
    <3>1. r \in N /\ Cardinality(Newer(N, r)) >= offset /\ r \in Rows
      BY <1>1, <1>4, <2>1
    <3>2. IsFiniteSet(N) /\ N \in SUBSET Rows
      BY <1>1, <1>10, FS_Subset
    <3> HIDE DEF M, N
    <3>3. /\ Cardinality(Newer(N, r)) \in Nat
          /\ Cardinality(Newer(M, r)) =
               IF createdAt[y] > createdAt[r] THEN Cardinality(Newer(N, r)) + 1
               ELSE Cardinality(Newer(N, r))
      BY <1>1, <1>10, <3>1, <3>2, OneMoreShifts
    <3> QED
      BY <1>2, <1>10, <3>1, <3>3
  <2> QED
    BY <1>5, <2>1 DEF Again
<1>11. \/ N = M
       \/ \E y \in Rows \ M : N = M \cup {y} /\ came' = came + 1
       \/ \E y \in Rows \ N : M = N \cup {y}
  BY WatchStep
<1> HIDE DEF M, N
<1> QED
  BY <1>7, <1>8, <1>9, <1>10, <1>11

\* A page brings only what was due, and goes past no more than it would have.
LEMMA PageStep ==
  ASSUME TypeOK, RowsInv, WalkInv, MissesAtMostLeavers, NextPage
  PROVE  WalkInv' /\ MissesAtMostLeavers'
<1> DEFINE M == Matching(query)
           limit == PageSize(query.limit)
<1>1. PICK page \in Pages(M, limit, offset) :
        /\ returned' = [r \in Rows |-> returned[r] + IF r \in page THEN 1 ELSE 0]
        /\ offset' = offset + Cardinality(page)
        /\ reader' = IF page = {} THEN "ended" ELSE "walking"
  BY DEF NextPage, Answers
<1>2. /\ UNCHANGED <<tables, writers, query, base, came, left>> /\ reader = "walking"
      /\ UNCHANGED <<taskState, events, createdAt>>
  BY DEF NextPage, tables, writers
<1>3. /\ query \in TaskQueries \cup EventQueries
      /\ query.limit \in Nat
  BY <1>2, LimitsAssumption DEF TypeOK, WalkInv, TaskQueries, EventQueries
<1>4. limit \in Nat /\ limit > 0
  BY <1>3, LimitPositive
<1>5. /\ M \subseteq Stamped /\ Stamped \subseteq Rows /\ M \in SUBSET Rows
      /\ IsFiniteSet(M) /\ IsFiniteSet(Stamped) /\ createdAt \in [Rows -> Nat]
      /\ \A x, r \in M : x \in Tasks <=> r \in Tasks
  BY SelectedFacts
<1>6. /\ offset \in Nat /\ returned \in [Rows -> Nat] /\ came \in Nat /\ left \in Nat
      /\ \A r \in Rows : returned[r] > 0 => r \in Stamped
      /\ base \subseteq Stamped
  BY DEF TypeOK, WalkInv
<1>7. /\ M' = M /\ Stamped' = Stamped
      /\ \A r : Newer(Matching(query), r)' = Newer(M, r) /\ Placed(r)' = Placed(r)
  BY <1>2 DEF Matching, MatchingTasks, MatchingEvents, Newer, Stamped, Placed
<1> HIDE DEF limit
<1>8. /\ page \subseteq M /\ IsFiniteSet(page) /\ Cardinality(page) \in Nat
      /\ Cardinality(M) \in Nat
      /\ Cardinality(page) = IF Cardinality(M) <= offset THEN 0
                             ELSE IF offset + limit <= Cardinality(M) THEN limit
                             ELSE Cardinality(M) - offset
  BY <1>1, <1>4, <1>5, <1>6, PageFacts, FS_CardinalityType
<1>9. ASSUME NEW r \in M, Placed(r)
      PROVE  /\ Cardinality(Newer(M, r)) \in Nat
             /\ Cardinality(Newer(M, r)) < Cardinality(M)
             /\ r \in page <=> /\ offset <= Cardinality(Newer(M, r))
                               /\ Cardinality(Newer(M, r)) < offset + limit
  <2>1. \A x \in M \ {r} : createdAt[x] # createdAt[r]
    BY <1>5, <1>9 DEF Placed
  <2> HIDE DEF M
  <2> QED
    BY <1>1, <1>4, <1>5, <1>6, <2>1, PageFacts
<1>10. /\ page = {} => Cardinality(page) = 0
       /\ Cardinality(page) = 0 => page = {}
  BY <1>8, FS_EmptySet
<1>11. \A r \in Rows : returned'[r] = returned[r] + IF r \in page THEN 1 ELSE 0
  BY <1>1
<1>12. ASSUME NEW r \in Missed'
       PROVE  r \in Missed /\ r \notin page /\ Placed(r)
  BY <1>2, <1>5, <1>6, <1>7, <1>11, <1>12 DEF Missed
<1>13. Passed' \subseteq Passed
  <2>1. ASSUME NEW r \in Passed', r \in M
        PROVE  Cardinality(Newer(M, r)) < offset
    <3>1. r \in Missed' /\ Cardinality(Newer(M, r)) < offset'
      BY <1>7, <2>1 DEF Passed
    <3>2. r \notin page /\ Placed(r)
      BY <1>12, <3>1
    <3> HIDE DEF M
    <3> QED
      BY <1>1, <1>4, <1>6, <1>8, <1>9, <2>1, <3>1, <3>2
  <2> QED
    BY <1>12, <2>1 DEF Passed
<1>14. page = {} => Missed' \subseteq Passed
  <2>1. ASSUME page = {}, NEW r \in Missed', r \in M
        PROVE  Cardinality(Newer(M, r)) < offset
    <3> HIDE DEF M
    <3> QED
      BY <1>4, <1>6, <1>8, <1>9, <1>10, <1>12, <2>1
  <2> QED
    BY <1>12, <2>1 DEF Passed
<1>15. IsFiniteSet(Passed) /\ Cardinality(Passed) \in Nat /\ Cardinality(Passed) <= left
  <2>1. Passed \subseteq Stamped
    BY <1>6 DEF Passed, Missed
  <2> QED
    BY <1>2, <1>5, <2>1, FS_Subset, FS_CardinalityType DEF WalkInv
<1>16. /\ reader' = "walking" => Cardinality(Passed') <= left'
       /\ MissesAtMostLeavers'
  <2>1. Cardinality(Passed') <= Cardinality(Passed) /\ Cardinality(Passed') \in Nat
    BY <1>13, <1>15, FS_Subset, FS_CardinalityType
  <2>2. ASSUME reader' = "ended" PROVE Cardinality(Missed') <= left'
    <3>1. Missed' \subseteq Passed
      BY <1>1, <1>14, <2>2
    <3>2. Cardinality(Missed') <= Cardinality(Passed) /\ Cardinality(Missed') \in Nat
      BY <1>15, <3>1, FS_Subset, FS_CardinalityType
    <3> QED
      BY <1>2, <1>6, <1>15, <3>2
  <2> QED
    BY <1>2, <1>6, <1>15, <2>1, <2>2 DEF MissesAtMostLeavers
<1>17. AfterFirst(Due)' \subseteq AfterFirst(Due)
  <2>1. ASSUME NEW r \in Rows, Placed(r)
        PROVE  Due'[r] <= 1 \/ Due'[r] <= Due[r]
    <3>1. /\ Due'[r] = returned'[r] + IF r \in Again' THEN 1 ELSE 0
          /\ Due[r] = returned[r] + IF r \in Again THEN 1 ELSE 0
          /\ returned[r] \in Nat
          /\ returned'[r] = returned[r] + IF r \in page THEN 1 ELSE 0
      BY <1>6, <1>11 DEF Due, Rows
    <3>2. r \in Again' <=> /\ r \in M /\ returned'[r] > 0
                           /\ Cardinality(Newer(M, r)) >= offset'
      BY <1>7, <2>1 DEF Again
    <3>3. r \in Again <=> /\ r \in M /\ returned[r] > 0
                          /\ Cardinality(Newer(M, r)) >= offset
      BY <2>1 DEF Again
    <3>4. r \in page => r \in M
      BY <1>8
    <3> HIDE DEF M
    <3>5. CASE r \in page
      <4>1. r \notin Again'
        BY <1>1, <1>4, <1>6, <1>8, <1>9, <2>1, <3>2, <3>4, <3>5
      <4>2. returned[r] > 0 => r \in Again
        BY <1>9, <1>6, <2>1, <3>3, <3>4, <3>5
      <4> QED
        BY <3>1, <3>5, <4>1, <4>2
    <3>6. CASE r \notin page
      <4>1. r \in Again' => r \in Again
        BY <1>1, <1>6, <1>8, <1>9, <2>1, <3>1, <3>2, <3>3, <3>6
      <4> QED
        BY <3>1, <3>6, <4>1
    <3> QED
      BY <3>5, <3>6
  <2>2. \A r \in Rows : Due[r] \in Nat /\ Due'[r] \in Nat
    BY <1>6, <1>11 DEF Due, Rows
  <2>3. ASSUME NEW p \in AfterFirst(Due)' PROVE p \in AfterFirst(Due)
    <3>1. PICK r \in Rows : Placed(r)' /\ \E k \in 2..Due'[r] : p = <<r, k>>
      <4>1. p \in UNION {{r} \X (2..Due'[r]) : r \in {x \in Rows : Placed(x)'}}
        BY <2>3 DEF AfterFirst, Rows
      <4> QED
        BY <4>1
    <3>2. PICK k \in 2..Due'[r] : p = <<r, k>>
      BY <3>1
    <3>3. Placed(r) /\ k \in 2..Due[r]
      BY <1>7, <2>1, <2>2, <3>1, <3>2
    <3> QED
      BY <3>2, <3>3, AfterFirstFacts
  <2> QED
    BY <2>3
<1>18. IsFiniteSet(AfterFirst(Due)') /\ Cardinality(AfterFirst(Due)') <= came'
  BY <1>2, <1>6, <1>17, FS_Subset, FS_CardinalityType DEF WalkInv
<1>19. \A r \in Rows : returned'[r] > 0 => r \in Stamped'
  BY <1>5, <1>6, <1>7, <1>8, <1>11
<1>20. reader' \in {"walking", "ended"} /\ query' # Nothing
  BY <1>1, <1>2 DEF WalkInv
<1> QED
  BY <1>2, <1>6, <1>7, <1>16, <1>18, <1>19, <1>20 DEF WalkInv, Rows

\* A client that has received nothing is due nothing again.
LEMMA NothingReceived ==
  TypeOK /\ RowsInv /\ (\A r \in Rows : returned[r] = 0) => AfterFirst(Due) = {}
<1> SUFFICES ASSUME TypeOK, RowsInv, \A r \in Rows : returned[r] = 0
    PROVE  AfterFirst(Due) = {}
  OBVIOUS
<1>1. Again = {}
  BY SelectedFacts DEF Again
<1>2. \A r \in Rows : Due[r] = 0
  BY <1>1 DEF Due
<1>3. \A p : p \notin AfterFirst(Due)
  BY <1>2, AfterFirstFacts
<1> QED
  BY <1>3

\* Nor is it after a step.
LEMMA NothingReceivedNext ==
  (TypeOK /\ RowsInv /\ (\A r \in Rows : returned[r] = 0) => AfterFirst(Due) = {})'
BY NothingReceived, PTL

-----------------------------------------------------------------------------
(* Types.                                                                   *)

\* The tasks a report is about.
LEMMA AllTasks ==
  ASSUME TypeOK, RowsInv
  PROVE  LET tasks == MatchingTasks([state |-> NoFilter])
         IN  /\ tasks = {t \in Tasks : taskState[t] # Absent}
             /\ tasks \in SUBSET Rows /\ IsFiniteSet(tasks)
             /\ createdAt \in [Rows -> Nat]
<1> DEFINE tasks == MatchingTasks([state |-> NoFilter])
<1>1. tasks = {t \in Tasks : taskState[t] # Absent}
  BY DEF MatchingTasks
<1>2. tasks \subseteq Stamped /\ tasks \subseteq Rows
  BY <1>1 DEF RowsInv, Stamped, Rows
<1>3. IsFiniteSet(tasks)
  BY <1>2, FS_Subset DEF RowsInv
<1> QED
  BY <1>1, <1>2, <1>3, SelectedFacts

\* Reports are made of numbers.
LEMMA ReportType ==
  ASSUME TypeOK, RowsInv, StatusAnswer
  PROVE  report' \in [counts : [TaskStates -> Nat], total : Nat, rows : Nat]
<1> DEFINE tasks == MatchingTasks([state |-> NoFilter])
<1>1. PICK page \in Pages(tasks, StatusLimit, 0) : report' = Report(page, tasks)
  BY DEF StatusAnswer
<1>2. IsFiniteSet(tasks) /\ tasks \in SUBSET Rows /\ createdAt \in [Rows -> Nat]
  BY AllTasks
<1> HIDE DEF tasks
<1>3. IsFiniteSet(page)
  BY <1>1, <1>2, LimitsAssumption, PageFacts
<1>4. \A s \in TaskStates : Cardinality({t \in page : taskState[t] = s}) \in Nat
  <2>1. ASSUME NEW s \in TaskStates
        PROVE  Cardinality({t \in page : taskState[t] = s}) \in Nat
    <3>1. {t \in page : taskState[t] = s} \subseteq page
      OBVIOUS
    <3> QED
      BY <1>3, <3>1, FS_Subset, FS_CardinalityType
  <2> QED
    BY <2>1
<1>5. Cardinality(page) \in Nat /\ Cardinality(tasks) \in Nat
  BY <1>2, <1>3, FS_CardinalityType
<1> QED
  BY <1>1, <1>4, <1>5 DEF Report

\* Writes keep the types of the tables and of the requests.
LEMMA WriteTypes ==
  ASSUME TypeOK, RowsInv, Write
  PROVE  /\ TablesTypeOK'
         /\ cpc' \in [Tasks -> {"none", "insert", "inserted", "created", "rolledBack"}]
         /\ epc' \in [EventIds -> {"none", "append", "state", "done"}]
         /\ post' \in [EventIds -> [task : Tasks, type : PostTypes] \cup {Nothing}]
<1> USE DEF TypeOK, TablesTypeOK, TaskStates, TerminalStates, tables
<1>1. ASSUME NEW t \in Tasks, BuildTask(t) \/ InsertTask(t) \/ DispatchTask(t)
      PROVE  /\ TablesTypeOK'
             /\ cpc' \in [Tasks -> {"none", "insert", "inserted", "created", "rolledBack"}]
             /\ epc' = epc /\ post' = post
  BY <1>1 DEF BuildTask, InsertTask, CreateTask, DispatchTask, UpdateTaskState
<1>2. ASSUME NEW e \in EventIds, BuildEvent(e)
      PROVE  /\ TablesTypeOK' /\ cpc' = cpc
             /\ epc' \in [EventIds -> {"none", "append", "state", "done"}]
             /\ post' \in [EventIds -> [task : Tasks, type : PostTypes] \cup {Nothing}]
  BY <1>2 DEF BuildEvent
<1>3. ASSUME NEW e \in EventIds, InsertEvent(e)
      PROVE  /\ TablesTypeOK' /\ cpc' = cpc /\ post' = post
             /\ epc' \in [EventIds -> {"none", "append", "state", "done"}]
  <2>1. post[e] \in [task : Tasks, type : PostTypes]
    BY <1>3 DEF InsertEvent, RowsInv
  <2>2. ServerToken(post[e].task) \in Tokens
    BY <2>1 DEF Tokens
  <2>3. events' \subseteq EventRows
    BY <1>3, <2>1, <2>2, PostTypesAssumption DEF InsertEvent, AppendEvent, EventRows
  <2> QED
    BY <1>3, <2>3 DEF InsertEvent, AppendEvent
<1>4. ASSUME NEW e \in EventIds, ApplyState(e)
      PROVE  /\ TablesTypeOK' /\ cpc' = cpc /\ post' = post
             /\ epc' \in [EventIds -> {"none", "append", "state", "done"}]
  <2>1. post[e].type \in TerminalTypes \cup {"task.started"}
    BY <1>4 DEF ApplyState, RowsInv
  <2>2. StateFor(post[e].type) \in TaskStates
    BY <2>1 DEF StateFor, TerminalTypes
  <2> QED
    BY <1>4, <2>2 DEF ApplyState, UpdateTaskState
<1> QED
  BY <1>1, <1>2, <1>3, <1>4 DEF Write

\* Steps keep the types.
LEMMA StepTypeOK ==
  ASSUME TypeOK, RowsInv, WalkInv, [Next]_vars
  PROVE  TypeOK'
<1>1. CASE UNCHANGED vars
  BY <1>1 DEF TypeOK, TablesTypeOK, vars, tables, writers, client, walk
<1>2. CASE Write /\ Watch
  <2>1. createdAt' \in [Rows -> 0..clock'] /\ clock' \in Nat
    BY <1>2, StampStep
  <2>2. came' \in Nat /\ left' \in Nat
    BY <1>2, WatchStep DEF TypeOK
  <2> QED
    BY <1>2, <2>1, <2>2, WriteTypes DEF Watch, TypeOK, Rows
<1>3. ASSUME NEW t \in Tasks, GetTask(t) PROVE TypeOK'
  BY <1>3 DEF GetTask, ForgetWalk, TypeOK, TablesTypeOK, tables, writers, Rows
<1>4. ASSUME NEW q \in TaskQueries \cup EventQueries, BeginWalk(q) PROVE TypeOK'
  <2>1. base' \subseteq Rows
    <3>1. base' \subseteq MatchingTasks(q) \/ base' \subseteq MatchingEvents(q)
      BY <1>4 DEF BeginWalk, Matching, TaskQueries, EventQueries
    <3>2. MatchingTasks(q) \subseteq Rows /\ MatchingEvents(q) \subseteq Rows
      BY DEF MatchingTasks, MatchingEvents, Rows, TypeOK, TablesTypeOK, EventRows
    <3> QED
      BY <3>1, <3>2
  <2> QED
    BY <1>4, <2>1 DEF BeginWalk, TypeOK, TablesTypeOK, tables, writers, Rows
<1>5. CASE NextPage
  <2>1. PICK page \in Pages(Matching(query), PageSize(query.limit), offset) :
          /\ returned' = [r \in Rows |-> returned[r] + IF r \in page THEN 1 ELSE 0]
          /\ offset' = offset + Cardinality(page)
          /\ reader' = IF page = {} THEN "ended" ELSE "walking"
    BY <1>5 DEF NextPage, Answers
  <2>2. PageSize(query.limit) \in Nat
    <3>1. query.limit \in Nat
      BY <1>5, LimitsAssumption DEF NextPage, TypeOK, WalkInv, TaskQueries, EventQueries
    <3> QED
      BY <3>1, LimitPositive
  <2>3. offset \in Nat /\ returned \in [Rows -> Nat]
    BY DEF TypeOK
  <2>4. Cardinality(page) \in Nat
    BY <2>1, <2>2, <2>3, SelectedFacts, PageFacts, FS_CardinalityType
  <2>5. offset' \in Nat /\ returned' \in [Rows -> Nat] /\ reader' \in {"walking", "ended"}
    BY <2>1, <2>3, <2>4
  <2> QED
    BY <1>5, <2>5 DEF NextPage, TypeOK, TablesTypeOK, tables, writers, Rows
<1>6. CASE Status
  BY <1>6, ReportType DEF Status, ForgetWalk, TypeOK, TablesTypeOK, tables, writers, Rows
<1> QED
  BY <1>1, <1>2, <1>3, <1>4, <1>5, <1>6 DEF Next

\* And what is selected after it has a timestamp.
LEMMA SelectedNext ==
  (TypeOK /\ RowsInv => Matching(query) \subseteq Stamped /\ IsFiniteSet(Matching(query)))'
<1>1. TypeOK /\ RowsInv => Matching(query) \subseteq Stamped /\ IsFiniteSet(Matching(query))
  BY SelectedFacts
<1> QED
  BY <1>1, PTL

-----------------------------------------------------------------------------
(* The steps.                                                               *)

\* Every step keeps what was promised of the walk.
LEMMA StepWalkInv ==
  ASSUME TypeOK, TypeOK', RowsInv, RowsInv', WalkInv, MissesAtMostLeavers, [Next]_vars
  PROVE  WalkInv' /\ MissesAtMostLeavers'
<1>1. CASE UNCHANGED vars
  <2>1. UNCHANGED <<tables, taskState, events, writers, createdAt, reader, query, offset,
                    returned, base, came, left>>
    BY <1>1 DEF vars, tables, writers, client, walk
  <2>2. /\ Matching(query)' = Matching(query) /\ Stamped' = Stamped
        /\ \A r : Newer(Matching(query), r)' = Newer(Matching(query), r)
        /\ \A r : Placed(r)' = Placed(r)
    BY <2>1 DEF Matching, MatchingTasks, MatchingEvents, Stamped, Newer, Placed
  <2>3. Missed' = Missed /\ Again' = Again
    BY <2>1, <2>2 DEF Missed, Again
  <2>4. Passed' = Passed /\ Due' = Due
    BY <2>1, <2>2, <2>3 DEF Passed, Due, Rows
  <2>5. AfterFirst(Due)' = AfterFirst(Due)
    BY <2>2, <2>4 DEF AfterFirst, Rows
  <2> QED
    BY <2>1, <2>2, <2>3, <2>4, <2>5 DEF WalkInv, MissesAtMostLeavers, Rows
<1>2. CASE Write /\ Watch
  <2>1. \A r \in Stamped : r \in Stamped'
    BY <1>2, StampStep
  <2>2. /\ UNCHANGED <<reader, query, returned, base>>
        /\ query.table = "events" => left' = left
        /\ reader = "idle" => came' = came /\ left' = left
    <3>1. reader = "idle" => Matching(query) = {} /\ Matching(query)' = {}
      BY <1>2, WatchStep DEF WalkInv, Matching, Nothing
    <3> QED
      BY <1>2, <3>1, WatchStep
  <2>3. /\ reader' = "walking" => Cardinality(Passed') <= left'
        /\ MissesAtMostLeavers'
    BY <1>2, WatchPassed
  <2>4. IsFiniteSet(AfterFirst(Due)') /\ Cardinality(AfterFirst(Due)') <= came'
    BY <1>2, WatchDue
  <2>5. offset' = offset
    BY <1>2, WatchStep
  <2> QED
    BY <2>1, <2>2, <2>3, <2>4, <2>5 DEF WalkInv, Rows
<1>3. ASSUME ForgetWalk, reader' = "idle"
      PROVE  WalkInv' /\ MissesAtMostLeavers'
  <2>1. \A r \in Rows : returned'[r] = 0
    BY <1>3 DEF ForgetWalk
  <2>2. AfterFirst(Due)' = {}
    BY <2>1, NothingReceivedNext DEF Rows
  <2>3. IsFiniteSet({}) /\ Cardinality({}) = 0
    BY FS_EmptySet
  <2> QED
    BY <1>3, <2>1, <2>2, <2>3 DEF ForgetWalk, WalkInv, MissesAtMostLeavers, Rows, Nothing
<1>4. ASSUME NEW q \in TaskQueries \cup EventQueries, BeginWalk(q)
      PROVE  WalkInv' /\ MissesAtMostLeavers'
  <2>1. /\ reader = "idle" /\ reader' = "walking" /\ query' = q /\ base' = Matching(q)
        /\ UNCHANGED <<taskState, events, createdAt, offset, returned, came, left>>
    BY <1>4 DEF BeginWalk, tables, writers
  <2>2. /\ \A r \in Rows : returned'[r] = 0
        /\ offset' = 0 /\ left' = 0 /\ came' = 0
    BY <2>1 DEF WalkInv
  <2>3. AfterFirst(Due)' = {}
    BY <2>2, NothingReceivedNext DEF Rows
  <2>4. (Matching(query) \subseteq Stamped /\ IsFiniteSet(Matching(query)))'
    BY SelectedNext
  <2>5. Matching(query)' = base'
    BY <2>1 DEF Matching, MatchingTasks, MatchingEvents
  <2>6. Passed' = {}
    <3>1. ASSUME NEW r \in Passed' PROVE FALSE
      <4>1. r \in base'
        BY <3>1 DEF Passed, Missed
      <4>2. Cardinality(Newer(Matching(query), r)') < 0
        BY <2>2, <2>5, <3>1, <4>1 DEF Passed
      <4>3. Newer(Matching(query), r)' \subseteq Matching(query)'
        BY DEF Newer
      <4>4. Cardinality(Newer(Matching(query), r)') \in Nat
        BY <2>4, <4>3, FS_Subset, FS_CardinalityType
      <4> QED
        BY <4>2, <4>4
    <3> QED
      BY <3>1
  <2>7. query' # Nothing
    BY <2>1 DEF TaskQueries, EventQueries, Nothing
  <2>8. IsFiniteSet({}) /\ Cardinality({}) = 0
    BY FS_EmptySet
  <2> QED
    BY <2>1, <2>2, <2>3, <2>4, <2>5, <2>6, <2>7, <2>8
    DEF WalkInv, MissesAtMostLeavers, Rows
<1>5. CASE NextPage
  BY <1>5, PageStep
<1>6. ASSUME NEW t \in Tasks, GetTask(t)
      PROVE  ForgetWalk /\ reader' = "idle"
  BY <1>6 DEF GetTask
<1>7. CASE Status
  BY <1>3, <1>7 DEF Status
<1> QED
  BY <1>1, <1>2, <1>3, <1>4, <1>5, <1>6, <1>7 DEF Next

\* Every step keeps the event that completed a task in the log, and with it what a
\* query of the log selected when the walk began.
LEMMA StepReadInv ==
  ASSUME TypeOK, RowsInv, WalkInv, ReadInv, [Next]_vars
  PROVE  ReadInv'
<1>1. ASSUME events \subseteq events',
             \A t \in Tasks : taskState'[t] = "completed" =>
               taskState[t] = "completed" \/ \E r \in events' : Completes(r, t)
      PROVE  \A t \in Tasks : taskState'[t] = "completed" =>
               \E r \in events' : Completes(r, t)
  BY <1>1 DEF ReadInv
<1>2. CASE Write /\ Watch
  <2>1. UNCHANGED <<reader, query, base, saw>>
    BY <1>2, WatchStep
  <2>2. /\ events \subseteq events'
        /\ \A t \in Tasks : taskState'[t] = "completed" =>
             taskState[t] = "completed" \/ \E r \in events' : Completes(r, t)
    <3>1. ASSUME NEW t \in Tasks, BuildTask(t) \/ InsertTask(t) \/ DispatchTask(t)
          PROVE  /\ events \subseteq events'
                 /\ \A u \in Tasks : taskState'[u] = "completed" => taskState[u] = "completed"
      BY <3>1 DEF BuildTask, InsertTask, CreateTask, DispatchTask, UpdateTaskState, tables,
         TypeOK, TablesTypeOK
    <3>2. ASSUME NEW e \in EventIds, BuildEvent(e) \/ InsertEvent(e)
          PROVE  events \subseteq events' /\ taskState' = taskState
      BY <3>2 DEF BuildEvent, InsertEvent, AppendEvent, tables
    <3>3. ASSUME NEW e \in EventIds, ApplyState(e)
          PROVE  /\ events' = events
                 /\ \A u \in Tasks : taskState'[u] = "completed" =>
                      taskState[u] = "completed" \/ \E r \in events' : Completes(r, u)
      <4>1. PICK r \in events : r.id = e
        BY <3>3 DEF ApplyState, RowsInv
      <4>2. post[e].task = r.task /\ post[e].type = r.type
        <5>1. post[r.id] = [task |-> r.task, type |-> r.type]
          BY DEF RowsInv
        <5> QED
          BY <4>1, <5>1
      <4>3. post[e].type \in TerminalTypes \cup {"task.started"}
        BY <3>3 DEF ApplyState, RowsInv
      <4>4. StateFor(post[e].type) = "completed" => post[e].type = "task.completed"
        BY <4>3 DEF StateFor, TerminalTypes
      <4>5. /\ events' = events
            /\ taskState' \in {taskState,
                               [taskState EXCEPT ![post[e].task] = StateFor(post[e].type)]}
        BY <3>3 DEF ApplyState, UpdateTaskState
      <4> QED
        BY <4>1, <4>2, <4>4, <4>5 DEF Completes, TypeOK, TablesTypeOK
    <3> QED
      BY <1>2, <3>1, <3>2, <3>3 DEF Write
  <2>3. \A t \in Tasks : taskState'[t] = "completed" => \E r \in events' : Completes(r, t)
    BY <1>1, <2>2
  <2> QED
    BY <2>1, <2>2, <2>3 DEF ReadInv, SelectsCompletion
<1>3. ASSUME UNCHANGED tables
      PROVE  /\ events' = events
             /\ \A t \in Tasks : taskState'[t] = "completed" => \E r \in events' : Completes(r, t)
  BY <1>3 DEF tables, ReadInv
<1>4. ASSUME UNCHANGED <<tables, reader, query, base, saw>> PROVE ReadInv'
  BY <1>3, <1>4 DEF ReadInv, SelectsCompletion
<1>5. ASSUME NEW t \in Tasks, GetTask(t) PROVE ReadInv'
  <2>1. saw' \in Tasks => saw' = t /\ taskState'[t] = "completed"
    BY <1>5, IdsAssumption DEF GetTask, tables
  <2>2. reader' = "idle" /\ UNCHANGED tables
    BY <1>5 DEF GetTask
  <2> QED
    BY <1>3, <2>1, <2>2 DEF ReadInv
<1>6. ASSUME NEW q \in TaskQueries \cup EventQueries, BeginWalk(q) PROVE ReadInv'
  <2>1. /\ UNCHANGED tables /\ events' = events /\ createdAt' = createdAt
        /\ query' = q /\ base' = Matching(q)
        /\ saw' \in Tasks => saw' = saw
    BY <1>6, IdsAssumption DEF BeginWalk, tables, writers
  <2>2. ASSUME saw' \in Tasks, NEW r \in events, Completes(r, saw), SelectsCompletion(saw)'
        PROVE  r.id \in base'
    <3>2. createdAt[r.id] \in Nat
      BY SelectedFacts DEF TypeOK, TablesTypeOK, EventRows, Rows
    <3>3. /\ q.table = "events" /\ q.since = 0 /\ q.task \in {NoFilter, r.task}
          /\ q.type \in {NoFilter, r.type}
      BY <2>1, <2>2 DEF SelectsCompletion, Completes
    <3>4. r.id \in MatchingEvents(q)
      BY <3>2, <3>3 DEF MatchingEvents
    <3> QED
      BY <2>1, <3>3, <3>4 DEF Matching
  <2>3. saw' \in Tasks => \E r \in events' : /\ Completes(r, saw')
                                             /\ SelectsCompletion(saw)' => r.id \in base'
    BY <2>1, <2>2 DEF ReadInv
  <2> QED
    BY <1>3, <2>1, <2>3 DEF ReadInv, SelectsCompletion
<1>7. CASE NextPage
  <2>1. reader = "walking" /\ UNCHANGED <<tables, query, base, saw>>
    BY <1>7 DEF NextPage
  <2> QED
    BY <1>3, <2>1 DEF ReadInv, SelectsCompletion
<1>8. CASE Status
  <2>1. saw' \notin Tasks /\ UNCHANGED tables
    BY <1>8, IdsAssumption DEF Status
  <2> QED
    BY <1>3, <2>1 DEF ReadInv
<1> QED
  BY <1>2, <1>4, <1>5, <1>6, <1>7, <1>8 DEF Next, vars, client, walk

\* Disjoint sets together have as many elements as both.
LEMMA DisjointSizes ==
  ASSUME NEW A, IsFiniteSet(A), NEW B, IsFiniteSet(B), A \cap B = {}
  PROVE  IsFiniteSet(A \cup B) /\ Cardinality(A \cup B) = Cardinality(A) + Cardinality(B)
<1>1. /\ IsFiniteSet(A \cup B)
      /\ Cardinality(A \cup B) = Cardinality(A) + Cardinality(B) - Cardinality(A \cap B)
  BY FS_Union
<1>2. Cardinality(A \cap B) = 0
  BY FS_EmptySet
<1>3. Cardinality(A) \in Nat /\ Cardinality(B) \in Nat
  BY FS_CardinalityType
<1> QED
  BY <1>1, <1>2, <1>3

\* The five lines of a report count every task of the page once, and the page holds
\* all tasks when there are no more than the limit.
LEMMA StepStatus ==
  ASSUME TypeOK, RowsInv, StatusWithinLimitIsComplete, [Next]_vars
  PROVE  StatusWithinLimitIsComplete'
<1>1. CASE StatusAnswer
  <2> DEFINE tasks == MatchingTasks([state |-> NoFilter])
             Line(page, s) == {t \in page : taskState[t] = s}
  <2>1. PICK page \in Pages(tasks, StatusLimit, 0) : report' = Report(page, tasks)
    BY <1>1 DEF StatusAnswer
  <2>2. /\ tasks = {t \in Tasks : taskState[t] # Absent}
        /\ tasks \in SUBSET Rows /\ IsFiniteSet(tasks) /\ createdAt \in [Rows -> Nat]
        /\ Cardinality(tasks) \in Nat /\ StatusLimit \in Nat /\ 0 \in Nat
    BY AllTasks, FS_CardinalityType, LimitsAssumption
  <2>3. /\ page \subseteq tasks /\ IsFiniteSet(page)
        /\ Cardinality(page) = IF Cardinality(tasks) <= 0 THEN 0
                               ELSE IF 0 + StatusLimit <= Cardinality(tasks) THEN StatusLimit
                               ELSE Cardinality(tasks) - 0
    <3> HIDE DEF tasks
    <3> QED
      BY <2>1, <2>2, PageFacts
  <2>4. Cardinality(tasks) <= StatusLimit => Cardinality(page) = Cardinality(tasks)
    <3> HIDE DEF tasks
    <3> QED
      BY <2>2, <2>3
  <2>5. page = Line(page, "pending") \cup (Line(page, "running") \cup (Line(page, "completed")
                 \cup (Line(page, "failed") \cup Line(page, "timeout"))))
    <3>1. \A t \in page : taskState[t] \in TaskStates
      BY <2>2, <2>3 DEF TypeOK, TablesTypeOK
    <3> QED
      BY <3>1 DEF TaskStates, TerminalStates
  <2>6. \A s : IsFiniteSet(Line(page, s)) /\ Cardinality(Line(page, s)) \in Nat
    BY <2>3, FS_Subset, FS_CardinalityType
  <2>7. Cardinality(page) =
          Cardinality(Line(page, "pending")) + Cardinality(Line(page, "running"))
            + Cardinality(Line(page, "completed")) + Cardinality(Line(page, "failed"))
            + Cardinality(Line(page, "timeout"))
    <3> DEFINE D == Line(page, "failed") \cup Line(page, "timeout")
               C == Line(page, "completed") \cup D
               B == Line(page, "running") \cup C
    <3>1. /\ IsFiniteSet(D)
          /\ Cardinality(D) =
               Cardinality(Line(page, "failed")) + Cardinality(Line(page, "timeout"))
      BY <2>6, DisjointSizes
    <3>2. /\ IsFiniteSet(C)
          /\ Cardinality(C) = Cardinality(Line(page, "completed")) + Cardinality(D)
      BY <2>6, <3>1, DisjointSizes
    <3>3. /\ IsFiniteSet(B)
          /\ Cardinality(B) = Cardinality(Line(page, "running")) + Cardinality(C)
      BY <2>6, <3>2, DisjointSizes
    <3>4. Line(page, "pending") \cap B = {}
      OBVIOUS
    <3> HIDE DEF D, C, B
    <3>5. Cardinality(Line(page, "pending") \cup B) =
            Cardinality(Line(page, "pending")) + Cardinality(B)
      BY <2>6, <3>3, <3>4, DisjointSizes
    <3>6. page = Line(page, "pending") \cup B
      BY <2>5 DEF B, C, D
    <3>7. /\ Cardinality(Line(page, "pending")) \in Nat
          /\ Cardinality(Line(page, "running")) \in Nat
          /\ Cardinality(Line(page, "completed")) \in Nat
          /\ Cardinality(Line(page, "failed")) \in Nat
          /\ Cardinality(Line(page, "timeout")) \in Nat
      BY <2>6
    <3>8. Cardinality(page) = Cardinality(Line(page, "pending")) + Cardinality(B)
      BY <3>5, <3>6
    <3> HIDE DEF Line
    <3> QED
      BY <3>1, <3>2, <3>3, <3>7, <3>8
  <2>8. /\ report'.total = Cardinality(page) /\ report'.rows = Cardinality(tasks)
        /\ \A s \in TaskStates : report'.counts[s] = Cardinality(Line(page, s))
    BY <2>1 DEF Report
  <2>9. {"pending", "running", "completed", "failed", "timeout"} = TaskStates
    BY DEF TaskStates, TerminalStates
  <2> HIDE DEF tasks, Line
  <2> QED
    BY <2>4, <2>7, <2>8, <2>9 DEF StatusWithinLimitIsComplete
<1>2. CASE report' = report \/ report' = Nothing
  BY <1>2 DEF StatusWithinLimitIsComplete
<1> QED
  BY <1>1, <1>2 DEF Next, Watch, GetTask, BeginWalk, NextPage, Status, vars, client

\* At first there are no rows and no walk.
LEMMA InitIInv == Init => IInv
<1> SUFFICES ASSUME Init PROVE IInv
  OBVIOUS
<1>1. TypeOK
  BY DEF Init, TablesInit, TypeOK, TablesTypeOK, Tokens, EventRows
<1>2. Stamped = {}
  BY DEF Init, Stamped
<1>3. IsFiniteSet({}) /\ Cardinality({}) = 0
  BY FS_EmptySet
<1>4. RowsInv
  BY <1>2, <1>3 DEF Init, TablesInit, RowsInv, Rows
<1>5. WalkInv
  <2>1. AfterFirst(Due) = {}
    BY <1>1, <1>4, NothingReceived DEF Init
  <2> QED
    BY <1>3, <2>1 DEF Init, WalkInv
<1>6. ReadInv
  BY IdsAssumption DEF Init, TablesInit, ReadInv, Absent
<1> QED
  BY <1>1, <1>4, <1>5, <1>6 DEF Init, IInv, MissesAtMostLeavers, StatusWithinLimitIsComplete

\* Every step keeps the invariant.
LEMMA StepIInv == IInv /\ [Next]_vars => IInv'
<1> SUFFICES ASSUME IInv, [Next]_vars PROVE IInv'
  OBVIOUS
<1> USE DEF IInv
<1>1. TypeOK' /\ RowsInv'
  BY StepTypeOK, StepRowsInv
<1>2. WalkInv' /\ MissesAtMostLeavers'
  BY <1>1, StepWalkInv
<1> QED
  BY <1>1, <1>2, StepReadInv, StepStatus

-----------------------------------------------------------------------------
(* What holds of every list and report.                                     *)

\* The invariant holds of every behaviour of the handlers and the client.
THEOREM Inductive == Spec => []IInv
BY InitIInv, StepIInv, PTL DEF Spec

\* Every variable keeps its type, whatever is listed and posted.
THEOREM TypeCorrect == Spec => []TypeOK
BY Inductive, PTL DEF IInv

\* A walk by offset misses no more rows than ceased to be selected meanwhile.
THEOREM WalksMissAtMostLeavers == Spec => []MissesAtMostLeavers
BY Inductive, PTL DEF IInv

\* A walk by offset repeats rows no more often than rows came in meanwhile.
THEOREM WalksRepeatAtMostNewcomers == Spec => []RepeatsAtMostNewcomers
<1>1. IInv => RepeatsAtMostNewcomers
  <2> SUFFICES ASSUME IInv PROVE RepeatsAtMostNewcomers
    OBVIOUS
  <2>1. IsFiniteSet(AfterFirst(Due)) /\ Cardinality(AfterFirst(Due)) <= came /\ came \in Nat
    BY DEF IInv, WalkInv, TypeOK
  <2>2. \A r \in Rows : returned[r] \in Nat /\ Due[r] \in Nat /\ returned[r] <= Due[r]
    BY DEF Due, IInv, TypeOK
  <2>3. AfterFirst(returned) \subseteq AfterFirst(Due)
    BY <2>2, AfterFirstFacts
  <2> QED
    BY <2>1, <2>3, FS_Subset, FS_CardinalityType DEF RepeatsAtMostNewcomers
<1> QED
  BY <1>1, Inductive, PTL

\* Who reads that a task is completed finds in the log what completed it.
THEOREM ReadsAreExplained == Spec => []ReadIsExplained
<1>1. IInv => ReadIsExplained
  <2> SUFFICES ASSUME IInv, reader = "ended", query.table = "events", saw \in Tasks,
                      query.task \in {NoFilter, saw}, query.since = 0,
                      query.type \in {NoFilter, "task.completed"},
                      \A e \in base : Placed(e)
      PROVE  \E e \in EventIds : /\ returned[e] > 0
                                 /\ post[e] = [task |-> saw, type |-> "task.completed"]
    BY DEF ReadIsExplained
  <2>1. PICK r \in events : Completes(r, saw) /\ r.id \in base
    BY DEF IInv, ReadInv, SelectsCompletion
  <2>2. Missed = {}
    <3>1. IsFiniteSet(Missed)
      BY FS_Subset DEF IInv, RowsInv, WalkInv, Missed
    <3>2. Cardinality(Missed) <= 0
      BY DEF IInv, WalkInv, MissesAtMostLeavers
    <3> QED
      BY <3>1, <3>2, FS_EmptySet, FS_CardinalityType
  <2>3. returned[r.id] # 0 /\ r.id \in EventIds
    BY <2>1, <2>2 DEF Missed, IInv, TypeOK, TablesTypeOK, EventRows
  <2>4. returned[r.id] \in Nat
    BY <2>3 DEF IInv, TypeOK, Rows
  <2>5. post[r.id] = [task |-> saw, type |-> "task.completed"]
    BY <2>1 DEF IInv, RowsInv, Completes
  <2> QED
    BY <2>3, <2>4, <2>5
<1> QED
  BY <1>1, Inductive, PTL

\* The lines of a status report add up to its total, which is the number of tasks
\* as long as there are no more than the query asks for.
THEOREM StatusReportsAddUp == Spec => []StatusWithinLimitIsComplete
BY Inductive, PTL DEF IInv
=============================================================================

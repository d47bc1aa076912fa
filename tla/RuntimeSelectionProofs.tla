----------------------- MODULE RuntimeSelectionProofs -----------------------
(***************************************************************************)
(* Theorems about RuntimeSelection, for any runtimes, capacities and size  *)
(* of the counter, and any number of picks and of changes of load.         *)
(***************************************************************************)
EXTENDS RuntimeSelection, FiniteSetTheorems, TLAPS

-----------------------------------------------------------------------------
(* Arithmetic.                                                              *)

LEMMA DivMod == \A a \in Nat, b \in Nat \ {0} :
  a \div b \in Nat /\ a % b \in 0 .. b - 1 /\ a = b * (a \div b) + (a % b)
  BY SMT

LEMMA Multiples == \A b, u, v \in Nat : u < v => b * u + b <= b * v
  BY SMT

\* A remainder is the only one.
LEMMA Remainder ==
  ASSUME NEW b \in Nat \ {0}, NEW p \in Nat, NEW q \in Nat,
         NEW r \in 0 .. b - 1, NEW s \in 0 .. b - 1,
         b * p + r = b * q + s
  PROVE  r = s
<1>0. b * p \in Nat /\ b * q \in Nat
  OBVIOUS
<1>1. CASE p < q
  <2>1. b * p + b <= b * q
    BY <1>1, Multiples
  <2> QED
    BY <1>0, <2>1
<1>2. CASE q < p
  <2>1. b * q + b <= b * p
    BY <1>2, Multiples
  <2> QED
    BY <1>0, <2>1
<1>3. CASE p = q
  BY <1>0, <1>3
<1> QED
  BY <1>1, <1>2, <1>3

\* The position of the next turn.
LEMMA NextPosition ==
  ASSUME NEW a \in Nat, NEW b \in Nat \ {0}
  PROVE  (a + 1) % b = IF (a % b) + 1 < b THEN (a % b) + 1 ELSE 0
<1> DEFINE q == a \div b
           r == a % b
           p == (a + 1) \div b
           s == (a + 1) % b
<1>0. a + 1 \in Nat
  OBVIOUS
<1>1. /\ q \in Nat /\ r \in 0 .. b - 1 /\ a = b * q + r
      /\ p \in Nat /\ s \in 0 .. b - 1 /\ a + 1 = b * p + s
  <2>1. q \in Nat /\ r \in 0 .. b - 1 /\ a = b * q + r
    BY DivMod
  <2>2. p \in Nat /\ s \in 0 .. b - 1 /\ a + 1 = b * p + s
    BY <1>0, DivMod
  <2> QED
    BY <2>1, <2>2
<1> HIDE DEF q, r, p, s
<1>2. b * q \in Nat /\ b * p \in Nat /\ b * (q + 1) = b * q + b /\ b * (q + 1) \in Nat
  BY <1>1
<1>3. CASE r + 1 < b
  <2>1. b * p + s = b * q + (r + 1)
    BY <1>1, <1>2, <1>3
  <2>2. r + 1 \in 0 .. b - 1
    BY <1>1, <1>3
  <2> QED
    BY <1>1, <1>3, <2>1, <2>2, Remainder DEF r, s
<1>4. CASE ~(r + 1 < b)
  <2>1. b * p + s = b * (q + 1) + 0
    BY <1>1, <1>2, <1>4
  <2>2. s = 0
    BY <1>1, <2>1, Remainder
  <2> QED
    BY <1>4, <2>2 DEF r, s
<1> QED
  BY <1>3, <1>4

\* Ratios compared as products: c / z < b / y and b / y <= a / x.
LEMMA LowerRatio == \A a, b, c \in Nat, x, y, z \in Nat \ {0} :
  c * y < b * z /\ b * x <= a * y => c * x <= a * z
  BY SMT

\* A ratio below 2 and one that is not.
LEMMA BelowTwo == \A a, c \in Nat, x, z \in Nat \ {0} :
  c < 2 * z /\ 2 * x <= a => c * x <= a * z
  BY SMT

-----------------------------------------------------------------------------
(* Round-robin.                                                             *)

LEMMA NumberOfRuntimes ==
  ASSUME runtimes \subseteq Runtimes
  PROVE  IsFiniteSet(runtimes) /\ N \in Nat /\ (runtimes # {} => N \in Nat \ {0})
  BY RuntimesAssumption, FS_Subset, FS_CardinalityType, FS_EmptySet DEF N

\* The counter, and its wrap-around.
LEMMA Turn ==
  ASSUME rrIndex \in 0..CounterSize-1
  PROVE  /\ Add \in 0..CounterSize-1
         /\ Add = IF rrIndex + 1 < CounterSize THEN rrIndex + 1 ELSE 0
<1>1. rrIndex \in Nat /\ CounterSize \in Nat \ {0} /\ CounterSize > 1
  BY CounterAssumption
<1>2. rrIndex % CounterSize = rrIndex
  BY <1>1
<1>3. Add = IF rrIndex + 1 < CounterSize THEN rrIndex + 1 ELSE 0
  BY <1>1, <1>2, NextPosition DEF Add
<1> QED
  BY <1>1, <1>3

\* A pick in turn moves the position on, and the runtime it passes catches up.
LEMMA StepTurn ==
  ASSUME TypeOK, TurnInv, SelectRoundRobin
  PROVE  /\ picks' \in [Runtimes -> Nat]
         /\ rrIndex' \in 0..CounterSize-1
         /\ wraps' \in Nat
         /\ TurnInv'
<1> DEFINE c == rrIndex % N
           d == rrIndex' % N
<1>1. /\ N \in Nat \ {0} /\ N' = N /\ runtimes' = runtimes /\ rrNames' = rrNames
      /\ rrIndex \in Nat /\ wraps \in Nat
  BY NumberOfRuntimes DEF SelectRoundRobin, TypeOK, N
<1>2. /\ rrIndex' \in 0..CounterSize-1
      /\ rrIndex' = IF rrIndex + 1 < CounterSize THEN rrIndex + 1 ELSE 0
  BY Turn DEF SelectRoundRobin, TypeOK
<1>3. c \in 0..N-1
  BY <1>1, DivMod
<1>4. \/ /\ wraps' = wraps
         /\ d = IF c + 1 < N THEN c + 1 ELSE 0
      \/ /\ wraps' = wraps + 1
         /\ d = 0
  <2>1. CASE rrIndex + 1 < CounterSize
    <3>1. rrIndex' = rrIndex + 1 /\ ~(rrIndex' < rrIndex)
      BY <1>1, <1>2, <2>1
    <3>2. wraps' = wraps
      BY <1>1, <3>1 DEF SelectRoundRobin
    <3>3. (rrIndex + 1) % N = IF c + 1 < N THEN c + 1 ELSE 0
      BY <1>1, NextPosition
    <3>4. d = IF c + 1 < N THEN c + 1 ELSE 0
      BY <3>1, <3>3
    <3> QED
      BY <3>2, <3>4
  <2>2. CASE ~(rrIndex + 1 < CounterSize)
    <3>1. rrIndex' = 0 /\ rrIndex' < rrIndex
      BY <1>1, <1>2, <2>2, CounterAssumption DEF TypeOK
    <3>2. wraps' = wraps + 1
      BY <1>1, <3>1 DEF SelectRoundRobin
    <3>3. N * (0 \div N) + (0 % N) = N * 0 + 0 /\ 0 \div N \in Nat /\ 0 % N \in 0..N-1
      BY <1>1, DivMod
    <3>4. 0 % N = 0
      BY <1>1, <3>3, Remainder
    <3>5. d = 0
      BY <3>1, <3>4
    <3> QED
      BY <3>2, <3>5
  <2> QED
    BY <2>1, <2>2
<1>5. /\ picks \in [Runtimes -> Nat]
      /\ picks' = [picks EXCEPT ![rrNames[c]] = picks[rrNames[c]] + 1]
      /\ runtimes \subseteq Runtimes
      /\ rrNames \in [0..N-1 -> runtimes]
      /\ \A i, j \in 0..N-1 : rrNames[i] = rrNames[j] => i = j
  BY DEF SelectRoundRobin, TypeOK, TurnInv, Orders
<1>6. picks' \in [Runtimes -> Nat]
  BY <1>3, <1>5
<1> HIDE DEF c, d
<1>7. \A i \in 0..N-1 : picks'[rrNames[i]] = picks[rrNames[i]] + IF i = c THEN 1 ELSE 0
  BY <1>3, <1>5
<1>8. ASSUME NEW i \in 0..N-1, NEW j \in 0..N-1
      PROVE  picks'[rrNames[i]] + Ahead(j, d) <= picks'[rrNames[j]] + wraps' + Ahead(i, d)
  <2>1. picks[rrNames[i]] + Ahead(j, c) <= picks[rrNames[j]] + wraps + Ahead(i, c)
    BY DEF TurnInv, c
  <2>2. picks[rrNames[i]] \in Nat /\ picks[rrNames[j]] \in Nat
    BY <1>5
  <2> QED
    BY <1>1, <1>3, <1>4, <1>7, <2>1, <2>2 DEF Ahead
<1>9. rrNames' \in Orders'
  BY <1>1 DEF TurnInv, Orders
<1>10. \A i, j \in 0..N'-1 :
         picks'[rrNames'[i]] + Ahead(j, rrIndex' % N') <=
           picks'[rrNames'[j]] + wraps' + Ahead(i, rrIndex' % N')
  BY <1>1, <1>8 DEF d
<1> QED
  BY <1>1, <1>2, <1>4, <1>6, <1>9, <1>10 DEF TurnInv, Ahead

\* Steps that are not picks in turn.
LEMMA TurnKeeps ==
  ASSUME TurnInv, UNCHANGED <<runtimes, rrNames, turn>> PROVE TurnInv'
<1>1. N' = N
  BY DEF N
<1> QED
  BY <1>1 DEF TurnInv, Orders, Ahead, turn

-----------------------------------------------------------------------------
(* By load.                                                                 *)

\* What a call that scans knows.
LoadInv == DriftInv /\ BestInv /\ CallInv

\* A Status that failed says nothing.
LEMMA StepFailed ==
  ASSUME TypeOK, LoadInv, NEW r \in runtimes,
         call = "scan", seen[r] = Unread,
         seen' = [seen EXCEPT ![r] = Failed],
         UNCHANGED <<runtimes, active, best, call, moves>>
  PROVE  LoadInv'
<1>1. r \in Runtimes /\ seen \in [Runtimes -> Nat \cup {Unread, Failed}]
  BY DEF TypeOK
<1>2. ~(seen'[r] >= 0) /\ ~(seen[r] >= 0) /\ seen'[r] # Unread
  BY <1>1 DEF Failed, Unread
<1>3. \A q \in Runtimes : q # r => seen'[q] = seen[q]
  BY <1>1
<1>4. DriftInv'
  BY <1>1, <1>2, <1>3 DEF LoadInv, DriftInv
<1>5. BestInv'
  BY <1>1, <1>2, <1>3 DEF LoadInv, BestInv, TypeOK
<1>6. CallInv'
  BY DEF LoadInv, CallInv, Unavailable, NotFound
<1> QED
  BY <1>4, <1>5, <1>6 DEF LoadInv

\* A Status that answered: what was read is what is.
LEMMA StepRead ==
  ASSUME TypeOK, LoadInv, NEW r \in runtimes,
         call = "scan", seen[r] = Unread,
         seen' = [seen EXCEPT ![r] = active[r]],
         best' = IF Capacity[r] > 0 /\ Below(r, active[r]) THEN r ELSE best,
         UNCHANGED <<runtimes, active, call, moves>>
  PROVE  LoadInv' /\ best' \in runtimes' \cup {None}
<1> DEFINE a == active[r]
<1>1. /\ r \in Runtimes /\ runtimes \subseteq Runtimes
      /\ seen \in [Runtimes -> Nat \cup {Unread, Failed}]
      /\ active \in [Runtimes -> Nat] /\ Capacity \in [Runtimes -> Nat]
      /\ a \in Nat /\ moves \in Nat /\ best \in runtimes \cup {None}
      /\ r # None
  BY CapacityAssumption, RuntimesAssumption DEF TypeOK
<1>2. seen'[r] = a /\ ~(seen[r] >= 0)
  BY <1>1 DEF Unread
<1>3. \A q \in Runtimes : q # r => seen'[q] = seen[q]
  BY <1>1
<1>4. DriftInv'
  <2>1. \A q \in Runtimes : seen'[q] >= 0 =>
          active[q] <= seen'[q] + moves /\ seen'[q] <= active[q] + moves
    BY <1>1, <1>2, <1>3 DEF LoadInv, DriftInv
  <2>2. ASSUME NEW p \in Runtimes, NEW q \in Runtimes,
               p # q, seen'[p] >= 0, seen'[q] >= 0
        PROVE  active[p] + seen'[q] <= seen'[p] + active[q] + moves
    <3>1. active[p] \in Nat /\ active[q] \in Nat
      BY <1>1
    <3>2. CASE p = r
      <4>1. seen'[q] = seen[q] /\ seen[q] \in Nat /\ seen[q] <= active[q] + moves
        BY <1>1, <1>3, <2>2, <3>2 DEF LoadInv, DriftInv, Unread, Failed
      <4> QED
        BY <1>1, <1>2, <3>1, <3>2, <4>1
    <3>3. CASE q = r
      <4>1. seen'[p] = seen[p] /\ seen[p] \in Nat /\ active[p] <= seen[p] + moves
        BY <1>1, <1>3, <2>2, <3>3 DEF LoadInv, DriftInv, Unread, Failed
      <4> QED
        BY <1>1, <1>2, <3>1, <3>3, <4>1
    <3>4. CASE p # r /\ q # r
      BY <1>3, <2>2, <3>4 DEF LoadInv, DriftInv
    <3> QED
      BY <3>2, <3>3, <3>4
  <2> QED
    BY <1>1, <2>1, <2>2 DEF DriftInv
<1>5. BestInv' /\ best' \in runtimes' \cup {None}
  <2>1. CASE Capacity[r] > 0 /\ Below(r, a)
    <3>1. best' = r
      BY <2>1
    <3>2. ASSUME NEW q \in runtimes, seen'[q] >= 0, Capacity[q] > 0
          PROVE  a * Capacity[q] <= seen'[q] * Capacity[r]
      <4>1. CASE q = r
        BY <1>1, <1>2, <4>1
      <4>2. CASE q # r /\ best = None
        <5>1. seen[q] \in Nat /\ seen'[q] = seen[q] /\ seen[q] >= 2 * Capacity[q]
          BY <1>1, <1>3, <3>2, <4>2 DEF LoadInv, BestInv, Unread, Failed
        <5>2. a < 2 * Capacity[r]
          BY <2>1, <4>2 DEF Below
        <5> QED
          BY <1>1, <2>1, <3>2, <5>1, <5>2, BelowTwo
      <4>3. CASE q # r /\ best # None
        <5>1. /\ seen[q] \in Nat /\ seen'[q] = seen[q]
              /\ seen[best] \in Nat /\ Capacity[best] \in Nat \ {0}
              /\ seen[best] * Capacity[q] <= seen[q] * Capacity[best]
          BY <1>1, <1>3, <3>2, <4>3 DEF LoadInv, BestInv, Unread, Failed
        <5>2. a * Capacity[best] < seen[best] * Capacity[r]
          BY <2>1, <4>3 DEF Below
        <5>3. Capacity[q] \in Nat \ {0} /\ Capacity[r] \in Nat \ {0}
          BY <1>1, <2>1, <3>2
        <5> QED
          BY <1>1, <5>1, <5>2, <5>3, LowerRatio
      <4> QED
        BY <4>1, <4>2, <4>3
    <3>3. seen'[best'] >= 0 /\ Capacity[best'] > 0
      BY <1>1, <1>2, <2>1, <3>1
    <3> QED
      BY <1>1, <1>2, <3>1, <3>2, <3>3 DEF BestInv
  <2>2. CASE ~(Capacity[r] > 0 /\ Below(r, a)) /\ best = None
    <3>1. best' = None /\ a >= 2 * Capacity[r]
      BY <1>1, <2>2 DEF Below
    <3>2. \A q \in runtimes : seen'[q] >= 0 => seen'[q] >= 2 * Capacity[q]
      BY <1>1, <1>2, <1>3, <2>2, <3>1 DEF LoadInv, BestInv
    <3> QED
      BY <3>1, <3>2 DEF BestInv
  <2>3. CASE ~(Capacity[r] > 0 /\ Below(r, a)) /\ best # None
    <3>1. best' = best /\ best # r
      BY <1>2, <2>3 DEF LoadInv, BestInv
    <3>2. best \in Runtimes /\ seen'[best] = seen[best] /\ seen[best] \in Nat
          /\ Capacity[best] \in Nat \ {0}
      BY <1>1, <1>3, <2>3, <3>1 DEF LoadInv, BestInv, Unread, Failed
    <3>3. Capacity[r] > 0 => seen[best] * Capacity[r] <= a * Capacity[best]
      BY <1>1, <2>3, <3>2 DEF Below
    <3>4. \A q \in runtimes : seen'[q] >= 0 /\ Capacity[q] > 0 =>
            seen'[best] * Capacity[q] <= seen'[q] * Capacity[best]
      BY <1>1, <1>2, <1>3, <2>3, <3>2, <3>3 DEF LoadInv, BestInv
    <3> QED
      BY <1>1, <2>3, <3>1, <3>2, <3>4 DEF BestInv
  <2> QED
    BY <2>1, <2>2, <2>3
<1>6. CallInv'
  BY DEF LoadInv, CallInv, Unavailable, NotFound
<1> QED
  BY <1>4, <1>5, <1>6 DEF LoadInv

\* A load that changes is one change more.
LEMMA StepMove ==
  ASSUME TypeOK, LoadInv, NEW r \in runtimes, NEW by \in {-1, 1}, Move(r, by)
  PROVE  LoadInv' /\ active' \in [Runtimes -> Nat] /\ moves' \in Nat
<1>1. /\ r \in Runtimes
      /\ seen \in [Runtimes -> Nat \cup {Unread, Failed}]
      /\ active \in [Runtimes -> Nat] /\ active[r] + by \in Nat
      /\ active' = [active EXCEPT ![r] = active[r] + by]
      /\ moves \in Nat /\ moves' = IF call = "idle" THEN 0 ELSE moves + 1
      /\ UNCHANGED <<runtimes, call, seen, best>>
  BY CapacityAssumption DEF TypeOK, Move
<1>2. active' \in [Runtimes -> Nat] /\ moves' \in Nat
  BY <1>1
<1>3. BestInv' /\ CallInv'
  BY <1>1 DEF LoadInv, BestInv, CallInv, Unavailable, NotFound
<1>4. DriftInv'
  <2>1. CASE call = "idle"
    BY <1>1, <2>1 DEF LoadInv, DriftInv, CallInv, Unread
  <2>2. CASE call # "idle"
    <3>1. moves' = moves + 1
      BY <1>1, <2>2
    <3>2. /\ active'[r] <= active[r] + 1 /\ active[r] <= active'[r] + 1
          /\ \A q \in Runtimes : q # r => active'[q] = active[q]
      BY <1>1
    <3>3. ASSUME NEW q \in Runtimes, seen[q] >= 0
          PROVE  active'[q] <= seen[q] + moves' /\ seen[q] <= active'[q] + moves'
      <4>1. /\ seen[q] \in Nat /\ active[q] \in Nat /\ active'[q] \in Nat
            /\ active[q] <= seen[q] + moves /\ seen[q] <= active[q] + moves
        BY <1>1, <1>2, <3>3 DEF LoadInv, DriftInv, Unread, Failed
      <4>2. active'[q] <= active[q] + 1 /\ active[q] <= active'[q] + 1
        BY <3>2, <4>1
      <4> QED
        BY <1>1, <3>1, <4>1, <4>2
    <3>4. ASSUME NEW p \in Runtimes, NEW q \in Runtimes,
                 p # q, seen[p] >= 0, seen[q] >= 0
          PROVE  active'[p] + seen[q] <= seen[p] + active'[q] + moves'
      <4>1. /\ seen[p] \in Nat /\ active[p] \in Nat /\ active'[p] \in Nat
            /\ seen[q] \in Nat /\ active[q] \in Nat /\ active'[q] \in Nat
            /\ active[p] + seen[q] <= seen[p] + active[q] + moves
        BY <1>1, <1>2, <3>4 DEF LoadInv, DriftInv, Unread, Failed
      <4>2. active'[p] + active[q] <= active[p] + active'[q] + 1
        BY <3>2, <3>4, <4>1
      <4> QED
        BY <1>1, <3>1, <4>1, <4>2
    <3> QED
      BY <1>1, <3>3, <3>4 DEF DriftInv
  <2> QED
    BY <2>1, <2>2
<1> QED
  BY <1>2, <1>3, <1>4 DEF LoadInv

\* Nothing a call knows has changed.
LEMMA LoadKeeps ==
  ASSUME LoadInv, UNCHANGED <<runtimes, active, scan>> PROVE LoadInv'
  BY DEF LoadInv, DriftInv, BestInv, CallInv, scan

-----------------------------------------------------------------------------
(* The theorems.                                                            *)

LEMMA InitIInv == Init => IInv
<1> SUFFICES ASSUME Init PROVE IInv
  OBVIOUS
<1>1. N \in Nat /\ (runtimes # {} => N > 0)
  BY NumberOfRuntimes DEF Init
<1>2. TypeOK
  BY CounterAssumption DEF Init, TypeOK, Orders, Unread
<1>3. TurnInv
  <2> SUFFICES ASSUME NEW i \in 0..N-1, NEW j \in 0..N-1
               PROVE  picks[rrNames[i]] + Ahead(j, rrIndex % N) <=
                        picks[rrNames[j]] + wraps + Ahead(i, rrIndex % N)
    BY DEF Init, TurnInv
  <2>1. N \in Nat \ {0} /\ rrIndex = 0 /\ wraps = 0
    BY <1>1 DEF Init
  <2>2. rrIndex % N = 0
    <3>1. N * (0 \div N) + (0 % N) = N * 0 + 0 /\ 0 \div N \in Nat /\ 0 % N \in 0..N-1
      BY <2>1, DivMod
    <3> QED
      BY <2>1, <3>1, Remainder
  <2>3. picks[rrNames[i]] = 0 /\ picks[rrNames[j]] = 0
    BY DEF Init, Orders
  <2> QED
    BY <2>1, <2>2, <2>3 DEF Ahead
<1>4. DriftInv /\ BestInv /\ CallInv
  BY DEF Init, DriftInv, BestInv, CallInv, Unread, Unavailable, NotFound
<1> QED
  BY <1>2, <1>3, <1>4 DEF IInv

LEMMA StepIInv == IInv /\ [Next]_vars => IInv'
<1> SUFFICES ASSUME IInv, [Next]_vars PROVE IInv'
  OBVIOUS
<1>0. TypeOK /\ TurnInv /\ LoadInv
  BY DEF IInv, LoadInv
<1>1. SUFFICES TypeOK' /\ TurnInv' /\ LoadInv'
  BY DEF IInv, LoadInv
<1>2. CASE SelectRoundRobin
  <2>1. /\ picks' \in [Runtimes -> Nat] /\ rrIndex' \in 0..CounterSize-1
        /\ wraps' \in Nat /\ TurnInv'
    BY <1>0, <1>2, StepTurn
  <2>2. UNCHANGED <<runtimes, rrNames, active, scan>>
    BY <1>2 DEF SelectRoundRobin
  <2>3. TypeOK'
    BY <1>0, <2>1, <2>2 DEF TypeOK, scan, N
  <2> QED
    BY <1>0, <2>1, <2>2, <2>3, LoadKeeps
<1>3. ASSUME NEW name \in Runtimes, SelectByName(name)
      PROVE  TypeOK' /\ TurnInv' /\ LoadInv'
  <2>1. TypeOK'
    BY <1>0, <1>3 DEF SelectByName, TypeOK, turn, N, Unavailable, NotFound
  <2>2. TurnInv'
    BY <1>0, <1>3, TurnKeeps DEF SelectByName
  <2>3. LoadInv'
    BY <1>0, <1>3, RuntimesAssumption
       DEF SelectByName, LoadInv, DriftInv, BestInv, CallInv, Unread, Unavailable, NotFound, TypeOK
  <2> QED
    BY <2>1, <2>2, <2>3
<1>4. CASE BeginSelectLowestLoad
  <2>1. TypeOK'
    BY <1>0, <1>4 DEF BeginSelectLowestLoad, TypeOK, turn, N, NotFound
  <2>2. TurnInv'
    BY <1>0, <1>4, TurnKeeps DEF BeginSelectLowestLoad
  <2>3. LoadInv'
    BY <1>0, <1>4 DEF BeginSelectLowestLoad, LoadInv, DriftInv, BestInv, CallInv,
       Unread, Unavailable, NotFound, TypeOK
  <2> QED
    BY <2>1, <2>2, <2>3
<1>5. ASSUME NEW r \in runtimes, ReadStatus(r)
      PROVE  TypeOK' /\ TurnInv' /\ LoadInv'
  <2>1. TurnInv'
    BY <1>0, <1>5, TurnKeeps DEF ReadStatus
  <2>2. /\ call = "scan" /\ seen[r] = Unread
        /\ UNCHANGED <<runtimes, rrNames, turn, active, call, moves>>
    BY <1>5 DEF ReadStatus
  <2>3. CASE seen' = [seen EXCEPT ![r] = Failed] /\ UNCHANGED best
    <3>1. LoadInv'
      BY <1>0, <2>2, <2>3, StepFailed
    <3>2. TypeOK'
      BY <1>0, <2>2, <2>3 DEF TypeOK, turn, N
    <3> QED
      BY <2>1, <3>1, <3>2
  <2>4. CASE /\ seen' = [seen EXCEPT ![r] = active[r]]
             /\ best' = IF Capacity[r] > 0 /\ Below(r, active[r]) THEN r ELSE best
    <3>1. LoadInv' /\ best' \in runtimes' \cup {None}
      BY <1>0, <2>2, <2>4, StepRead
    <3>2. seen' \in [Runtimes -> Nat \cup {Unread, Failed}]
      BY <1>0, <2>4 DEF TypeOK
    <3>3. TypeOK'
      BY <1>0, <2>2, <3>1, <3>2 DEF TypeOK, turn, N
    <3> QED
      BY <2>1, <3>1, <3>3
  <2> QED
    BY <1>5, <2>3, <2>4 DEF ReadStatus
<1>6. CASE EndSelectLowestLoad
  <2>1. TypeOK'
    BY <1>0, <1>6 DEF EndSelectLowestLoad, TypeOK, turn, N, Unavailable
  <2>2. TurnInv'
    BY <1>0, <1>6, TurnKeeps DEF EndSelectLowestLoad
  <2>3. LoadInv'
    <3>1. CASE best = None
      BY <1>0, <1>6, <3>1 DEF EndSelectLowestLoad, LoadInv, DriftInv, BestInv, CallInv,
         Unread, Unavailable, NotFound
    <3>2. CASE best # None
      BY <1>0, <1>6, <3>2 DEF EndSelectLowestLoad, LoadInv, DriftInv, BestInv, CallInv,
         Unread, Unavailable, NotFound
    <3> QED
      BY <3>1, <3>2
  <2> QED
    BY <2>1, <2>2, <2>3
<1>7. CASE Return
  <2>1. TypeOK'
    BY <1>0, <1>7 DEF Return, TypeOK, turn, N
  <2>2. TurnInv'
    BY <1>0, <1>7, TurnKeeps DEF Return
  <2>3. LoadInv'
    BY <1>7 DEF Return, LoadInv, DriftInv, BestInv, CallInv, Unread, Unavailable, NotFound
  <2> QED
    BY <2>1, <2>2, <2>3
<1>8. ASSUME NEW r \in runtimes, NEW by \in {-1, 1}, Move(r, by)
      PROVE  TypeOK' /\ TurnInv' /\ LoadInv'
  <2>1. LoadInv' /\ active' \in [Runtimes -> Nat] /\ moves' \in Nat
    BY <1>0, <1>8, StepMove
  <2>2. TypeOK'
    BY <1>0, <1>8, <2>1 DEF Move, TypeOK, turn, N
  <2>3. TurnInv'
    BY <1>0, <1>8, TurnKeeps DEF Move
  <2> QED
    BY <2>1, <2>2, <2>3
<1>9. CASE UNCHANGED vars
  <2>1. TypeOK'
    BY <1>0, <1>9 DEF vars, TypeOK, turn, scan, N
  <2> QED
    BY <1>0, <1>9, <2>1, TurnKeeps, LoadKeeps DEF vars
<1> QED
  BY <1>2, <1>3, <1>4, <1>5, <1>6, <1>7, <1>8, <1>9 DEF Next

\* Everything above, for every state the scheduler can reach.
THEOREM Inductive == Spec => []IInv
  BY InitIInv, StepIInv, PTL DEF Spec

\* Types of the counter, the loads and the call.
THEOREM TypeCorrect == Spec => []TypeOK
  BY Inductive, PTL DEF IInv

\* No runtime is picked in turn more than once oftener than another, and once
\* more for each time the counter has wrapped around.
THEOREM TurnsAreBalanced == Spec => []RoundRobinIsBalanced
<1>1. IInv => RoundRobinIsBalanced
  <2> SUFFICES ASSUME IInv, NEW a \in runtimes, NEW b \in runtimes
               PROVE  picks[a] <= picks[b] + 1 + wraps
    BY DEF RoundRobinIsBalanced
  <2>1. PICK i \in 0..N-1, j \in 0..N-1 : rrNames[i] = a /\ rrNames[j] = b
    BY DEF IInv, TurnInv, Orders
  <2>2. picks[a] \in Nat /\ picks[b] \in Nat /\ wraps \in Nat
    BY DEF IInv, TypeOK
  <2>3. picks[a] + Ahead(j, rrIndex % N) <= picks[b] + wraps + Ahead(i, rrIndex % N)
    BY <2>1 DEF IInv, TurnInv
  <2>4. Ahead(i, rrIndex % N) \in {0, 1} /\ Ahead(j, rrIndex % N) \in {0, 1}
    BY DEF Ahead
  <2> QED
    BY <2>2, <2>3, <2>4
<1> QED
  BY Inductive, <1>1, PTL

\* Without a runtime to offer, each failed to report or was twice over its limit,
\* up to the changes since the call began.
THEOREM RefusalsAreJustified == Spec => []UnavailableIsJustified
<1>1. IInv => UnavailableIsJustified
  <2> SUFFICES ASSUME IInv, call = Unavailable, NEW r \in runtimes, seen[r] # Failed
               PROVE  active[r] + moves >= 2 * Capacity[r]
    BY DEF UnavailableIsJustified
  <2>1. /\ r \in Runtimes /\ active[r] \in Nat /\ Capacity[r] \in Nat /\ moves \in Nat
        /\ seen[r] \in Nat
    BY CapacityAssumption DEF IInv, TypeOK, CallInv
  <2>2. seen[r] >= 2 * Capacity[r] /\ seen[r] <= active[r] + moves
    BY <2>1 DEF IInv, BestInv, CallInv, DriftInv
  <2> QED
    BY <2>1, <2>2
<1> QED
  BY Inductive, <1>1, PTL

\* What holds of the loads as they were read holds of those they have become, up
\* to the changes between the two.
LEMMA Drift ==
  ASSUME NEW a \in Nat, NEW b \in Nat, NEW s \in Nat, NEW t \in Nat,
         NEW m \in Nat, NEW x \in Nat, NEW y \in Nat,
         s * y <= t * x,
         a <= s + m, t <= b + m, a + t <= s + b + m
  PROVE  a * y <= b * x + m * Largest(y, x)
<1> DEFINE l == Largest(y, x)
<1>1. l \in Nat /\ x <= l /\ y <= l
  BY DEF Largest
<1> HIDE DEF l
\* The change of each of the two, as far as it counts.
<1> DEFINE d == IF a >= s THEN a - s ELSE 0
           e == IF t >= b THEN t - b ELSE 0
<1>2. d \in Nat /\ e \in Nat /\ d + e <= m /\ a <= s + d /\ t <= b + e
  OBVIOUS
<1> HIDE DEF d, e
<1>3. /\ a * y <= s * y + d * y
      /\ t * x <= b * x + e * x
  <2>1. \A u, v, w \in Nat : u <= v => u * w <= v * w
    BY SMT
  <2>2. a * y <= (s + d) * y /\ t * x <= (b + e) * x
    BY <1>2, <2>1
  <2>3. (s + d) * y = s * y + d * y /\ (b + e) * x = b * x + e * x
    BY <1>2
  <2> QED
    BY <2>2, <2>3
<1>4. d * y <= d * l /\ e * x <= e * l /\ d * l + e * l <= m * l
  <2>1. \A u, v, w \in Nat : u <= v => w * u <= w * v /\ u * w <= v * w
    BY SMT
  <2>2. d * y <= d * l /\ e * x <= e * l
    BY <1>1, <1>2, <2>1
  <2>3. (d + e) * l <= m * l /\ (d + e) * l = d * l + e * l
    BY <1>1, <1>2, <2>1
  <2> QED
    BY <2>2, <2>3
<1>5. /\ a * y \in Nat /\ s * y \in Nat /\ t * x \in Nat /\ b * x \in Nat
      /\ d * y \in Nat /\ e * x \in Nat /\ d * l \in Nat /\ e * l \in Nat
      /\ m * l \in Nat
  BY <1>1, <1>2
<1> QED
  BY <1>3, <1>4, <1>5 DEF l

\* A choice by load is the lowest ratio of the loads as they are when the call
\* returns, up to one agent for each change since it began.
THEOREM ChoicesAreNearlyLowest == Spec => []ChoiceIsNearlyLowest
<1>1. IInv => ChoiceIsNearlyLowest
  <2> SUFFICES ASSUME IInv, call = "found",
                      NEW r \in runtimes, seen[r] >= 0, Capacity[r] > 0
               PROVE  active[best] * Capacity[r] <=
                        active[r] * Capacity[best]
                          + moves * Largest(Capacity[r], Capacity[best])
    BY DEF ChoiceIsNearlyLowest
  <2>1. best \in Runtimes /\ best # None /\ r \in Runtimes
    BY DEF IInv, TypeOK, CallInv
  <2>2. /\ active[best] \in Nat /\ active[r] \in Nat /\ moves \in Nat
        /\ Capacity[best] \in Nat /\ Capacity[r] \in Nat
    BY <2>1, CapacityAssumption DEF IInv, TypeOK
  <2>3. CASE best = r
    <3>1. Largest(Capacity[r], Capacity[best]) \in Nat
      BY <2>2 DEF Largest
    <3>2. moves * Largest(Capacity[r], Capacity[best]) \in Nat
      BY <2>2, <3>1
    <3>3. active[best] * Capacity[r] \in Nat
          /\ active[r] * Capacity[best] = active[best] * Capacity[r]
      BY <2>2, <2>3
    <3> QED
      BY <3>2, <3>3
  <2>4. CASE best # r
    <3>1. seen[best] >= 0 /\ seen[best] * Capacity[r] <= seen[r] * Capacity[best]
      BY <2>1 DEF IInv, BestInv
    <3>0. seen \in [Runtimes -> Nat \cup {Unread, Failed}]
      BY DEF IInv, TypeOK
    <3>2. seen[best] \in Nat /\ seen[r] \in Nat
      BY <2>1, <3>0, <3>1 DEF Unread, Failed
    <3>3. /\ active[best] <= seen[best] + moves
          /\ seen[r] <= active[r] + moves
          /\ active[best] + seen[r] <= seen[best] + active[r] + moves
      BY <2>1, <2>4, <3>1 DEF IInv, DriftInv
    <3> QED
      BY <2>2, <3>1, <3>2, <3>3, Drift
  <2> QED
    BY <2>3, <2>4
<1> QED
  BY Inductive, <1>1, PTL
=============================================================================

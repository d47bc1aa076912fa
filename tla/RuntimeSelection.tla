--------------------------- MODULE RuntimeSelection ---------------------------
(***************************************************************************)
(* Scheduler.SelectRuntime (internal/scheduler/scheduler.go), which picks  *)
(* a runtime by round-robin, by load or by name.  Nothing in cmd/ calls it *)
(* yet: its callers here are those its tests stand for, any number of      *)
(* goroutines.                                                             *)
(*                                                                         *)
(* A round-robin pick is one atomic addition, so picks of concurrent calls *)
(* are steps in some order.  A pick by load reads the Status of one        *)
(* runtime after the other, and the loads go on changing: tasks name their *)
(* runtime themselves, agents end.  Such calls only read, so one of them   *)
(* stands for all.                                                         *)
(***************************************************************************)
EXTENDS Integers, FiniteSets

CONSTANTS Runtimes,     \* names of runtimes
          Capacity,     \* the max each Status returns
          Ceiling,      \* bound on the agents of each: over Capacity where the
                        \* driver enforces no limit, 0 for the stub
          MayFail,      \* runtimes whose Status may fail
          CounterSize,  \* 2^64 in the code
          MaxPicks,     \* bound on the picks by round-robin
          MaxMoves      \* bound on the changes of load during one call

None == "none"

ASSUME RuntimesAssumption == IsFiniteSet(Runtimes) /\ None \notin Runtimes
ASSUME CapacityAssumption ==
  /\ Capacity \in [Runtimes -> Nat]
  /\ Ceiling \in [Runtimes -> Nat]
ASSUME CounterAssumption == CounterSize \in Nat \ {0, 1}

VARIABLES runtimes,  \* the keys of Scheduler.runtimes
          rrNames,   \* Scheduler.rrNames, counted from 0
          rrIndex,   \* Scheduler.rrIndex
          picks,     \* history: how often each runtime was picked in turn
          wraps,     \* history: how often rrIndex went back to 0
          active,    \* the load each runtime would report now
          call,      \* control of a call, and what it returned
          seen,      \* what Status returned to it, per runtime
          best,      \* bestRT
          moves      \* history: changes of load since the call began

turn == <<rrIndex, picks, wraps>>
scan == <<call, seen, best, moves>>
vars == <<runtimes, rrNames, turn, active, scan>>

Unread  == -1
Failed  == -2
Unavailable == "ErrRuntimeUnavailable"
NotFound    == "ErrRuntimeNotFound"

N == Cardinality(runtimes)

TypeOK ==
  /\ runtimes \subseteq Runtimes
  /\ rrNames \in [0..N-1 -> runtimes]
  /\ rrIndex \in 0..CounterSize-1
  /\ picks \in [Runtimes -> Nat]
  /\ wraps \in Nat
  /\ active \in [Runtimes -> Nat]
  /\ call \in {"idle", "scan", "found", Unavailable, NotFound}
  /\ seen \in [Runtimes -> Nat \cup {Unread, Failed}]
  /\ best \in runtimes \cup {None}
  /\ moves \in Nat

\* The orders a Go map may be ranged over in.
Orders == {f \in [0..N-1 -> runtimes] :
             /\ \A i, j \in 0..N-1 : f[i] = f[j] => i = j
             /\ \A r \in runtimes : \E i \in 0..N-1 : f[i] = r}

\* NewScheduler.
Init ==
  /\ runtimes \in SUBSET Runtimes
  /\ rrNames \in Orders
  /\ rrIndex = 0
  /\ picks = [r \in Runtimes |-> 0]
  /\ wraps = 0
  /\ active = [r \in Runtimes |-> 0]
  /\ call = "idle"
  /\ seen = [r \in Runtimes |-> Unread]
  /\ best = None
  /\ moves = 0

-----------------------------------------------------------------------------
(* Round-robin and by name.                                                 *)

\* Mutants: the counter is advanced twice; it is wider than it is.
AddTwice == (rrIndex + 2) % CounterSize
AddWide == rrIndex + 1

\* rrIndex.Add(1).
Add == (rrIndex + 1) % CounterSize

SelectRoundRobin ==
  /\ runtimes # {}
  /\ wraps * CounterSize + rrIndex < MaxPicks
  /\ rrIndex' = Add
  /\ wraps' = wraps + IF rrIndex' < rrIndex THEN 1 ELSE 0
  /\ picks' = [picks EXCEPT ![rrNames[rrIndex % N]] = @ + 1]
  /\ UNCHANGED <<runtimes, rrNames, active, scan>>

\* Any other policy is the name of a runtime.
SelectByName(name) ==
  /\ call = "idle"
  /\ \/ name \in runtimes /\ best' = name /\ call' = "found"
     \/ name \notin runtimes /\ best' = None /\ call' = NotFound
  /\ UNCHANGED <<runtimes, rrNames, turn, active, seen, moves>>

-----------------------------------------------------------------------------
(* By load.                                                                 *)

BeginSelectLowestLoad ==
  /\ call = "idle"
  /\ call' = IF runtimes = {} THEN NotFound ELSE "scan"
  /\ UNCHANGED <<runtimes, rrNames, turn, active, seen, best, moves>>

\* Mutants: bestRatio is not written; it begins at 1, as if no ratio were higher.
BelowForgets(r, a) == a < 2 * Capacity[r]
BelowOne(r, a) ==
  IF best = None THEN a < Capacity[r]
  ELSE a * Capacity[best] < seen[best] * Capacity[r]

\* Whether the ratio of r, with a agents active, is below bestRatio, which is
\* 2.0 at first.
Below(r, a) ==
  IF best = None THEN a < 2 * Capacity[r]
  ELSE a * Capacity[best] < seen[best] * Capacity[r]

\* The map is ranged over in any order.
ReadStatus(r) ==
  /\ call = "scan"
  /\ seen[r] = Unread
  /\ \/ /\ r \in MayFail
        /\ seen' = [seen EXCEPT ![r] = Failed]
        /\ UNCHANGED best
     \/ /\ seen' = [seen EXCEPT ![r] = active[r]]
        /\ best' = IF Capacity[r] > 0 /\ Below(r, active[r]) THEN r ELSE best
  /\ UNCHANGED <<runtimes, rrNames, turn, active, call, moves>>

EndSelectLowestLoad ==
  /\ call = "scan"
  /\ \A r \in runtimes : seen[r] # Unread
  /\ call' = IF best = None THEN Unavailable ELSE "found"
  /\ UNCHANGED <<runtimes, rrNames, turn, active, seen, best, moves>>

\* The caller has what it asked for, and forgets the call.
Return ==
  /\ call \in {"found", Unavailable, NotFound}
  /\ call' = "idle"
  /\ seen' = [r \in Runtimes |-> Unread]
  /\ best' = None
  /\ moves' = 0
  /\ UNCHANGED <<runtimes, rrNames, turn, active>>

-----------------------------------------------------------------------------
(* The runtimes.                                                            *)

\* An agent is counted, or no longer counted, by the driver.
Move(r, by) ==
  /\ active[r] + by \in 0..Ceiling[r]
  /\ moves < MaxMoves
  /\ active' = [active EXCEPT ![r] = @ + by]
  /\ moves' = IF call = "idle" THEN 0 ELSE moves + 1
  /\ UNCHANGED <<runtimes, rrNames, turn, call, seen, best>>

Next ==
  \/ SelectRoundRobin
  \/ \E name \in Runtimes : SelectByName(name)
  \/ BeginSelectLowestLoad
  \/ \E r \in runtimes : ReadStatus(r)
  \/ EndSelectLowestLoad
  \/ Return
  \/ \E r \in runtimes, by \in {-1, 1} : Move(r, by)

Spec == Init /\ [][Next]_vars

-----------------------------------------------------------------------------
(* Properties.                                                              *)

\* "cycles through all available runtimes": whatever calls run concurrently, no
\* runtime is picked in turn more than once oftener than another, and once more
\* each time the counter has wrapped around, for its size need not be a multiple
\* of their number.
RoundRobinIsBalanced == \A a, b \in runtimes :
  picks[a] <= picks[b] + 1 + wraps

Largest(a, b) == IF a >= b THEN a ELSE b

\* "picks the runtime with the lowest active/max ratio": of the loads as they are
\* when the call returns, up to one agent for each change since it began.
ChoiceIsNearlyLowest == call = "found" =>
  \A r \in runtimes : seen[r] >= 0 /\ Capacity[r] > 0 =>
    active[best] * Capacity[r] <=
      active[r] * Capacity[best] + moves * Largest(Capacity[r], Capacity[best])

\* ErrRuntimeUnavailable says that no runtime could be asked, or that each was
\* twice over its limit, up to the changes since the call began.  (scheduler.go:99
\* calls 2.0 "above any possible ratio"; a runtime that enforces no limit can get
\* there, and is left alone then.)
UnavailableIsJustified == call = Unavailable =>
  \A r \in runtimes : \/ seen[r] = Failed
                      \/ active[r] + moves >= 2 * Capacity[r]
-----------------------------------------------------------------------------
(* The inductive invariant.                                                 *)

\* Between two positions in rrNames, counted from where the next turn is, the
\* one that is still to come is behind by one.
Ahead(i, turnAt) == IF i < turnAt THEN 1 ELSE 0

TurnInv ==
  /\ rrNames \in Orders
  /\ \A i, j \in 0..N-1 :
       picks[rrNames[i]] + Ahead(j, rrIndex % N) <=
         picks[rrNames[j]] + wraps + Ahead(i, rrIndex % N)

\* What a call has read is at most moves away from what is, all runtimes
\* together.
DriftInv ==
  /\ \A r \in Runtimes : seen[r] >= 0 =>
       active[r] <= seen[r] + moves /\ seen[r] <= active[r] + moves
  /\ \A q, r \in Runtimes : q # r /\ seen[q] >= 0 /\ seen[r] >= 0 =>
       active[q] + seen[r] <= seen[q] + active[r] + moves

\* bestRT is the lowest of what was read, and there is none only while all that
\* was read is twice over its limit.
BestInv ==
  /\ best = None /\ call \in {"scan", Unavailable} =>
       \A r \in runtimes : seen[r] >= 0 => seen[r] >= 2 * Capacity[r]
  /\ best # None /\ call = "scan" => seen[best] >= 0 /\ Capacity[best] > 0
  /\ best # None /\ call \in {"scan", "found"} =>
       \A r \in runtimes : seen[r] >= 0 /\ Capacity[r] > 0 =>
         /\ seen[best] >= 0 /\ Capacity[best] > 0
         /\ seen[best] * Capacity[r] <= seen[r] * Capacity[best]

CallInv ==
  /\ call = "idle" => moves = 0 /\ best = None
  /\ call \in {"idle", NotFound} => \A r \in Runtimes : seen[r] = Unread
  /\ call = Unavailable => best = None /\ \A r \in runtimes : seen[r] # Unread
  /\ call = "found" => best # None

IInv == TypeOK /\ TurnInv /\ DriftInv /\ BestInv /\ CallInv
=============================================================================

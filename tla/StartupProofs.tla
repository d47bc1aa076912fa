---------------------------- MODULE StartupProofs ----------------------------
(***************************************************************************)
(* Theorems about Startup and SkillLoader, for any number of slots, any    *)
(* drivers and directories, and any failures, signals and kills.           *)
(***************************************************************************)
EXTENDS Startup, FiniteSetTheorems, TLAPS

-----------------------------------------------------------------------------
(* The loader.                                                              *)

\* The work of a loader is not lost by what others do.
LEMMA LoadingKeeps ==
  ASSUME NEW s \in Servers, LoadingInv(s), skills' = skills, dir'[s] = dir[s],
         loaded'[s] = loaded[s], firstErr'[s] = firstErr[s], results'[s] = results[s]
  PROVE  LoadingInv(s)'
  BY DEF LoadingInv, Tried, Positions

\* A sequence and one element more.
LEMMA OneMore ==
  ASSUME NEW S, NEW q \in Seq(S), NEW x \in S
  PROVE  /\ Append(q, x) \in Seq(S)
         /\ Len(q) \in Nat /\ DOMAIN q = 1..Len(q)
         /\ DOMAIN Append(q, x) = 1..Len(q) + 1
         /\ Len(Append(q, x)) = Len(q) + 1
         /\ \A i \in 1..Len(q) : Append(q, x)[i] = q[i]
         /\ Append(q, x)[Len(q) + 1] = x
  OBVIOUS

\* The positions of a result, when one more comes.
LEMMA MorePositions ==
  ASSUME NEW s \in Servers, NEW x \in {"skipped", "loaded", "error"},
         results \in [Servers -> Seq({"skipped", "loaded", "error"})],
         results' = [results EXCEPT ![s] = Append(results[s], x)]
  PROVE  /\ \A r : Positions(s, r) \subseteq 1..Len(results[s])
         /\ Positions(s, x)' = Positions(s, x) \cup {Turn(s)}
         /\ \A r : r # x => Positions(s, r)' = Positions(s, r)
         /\ Turn(s) \in Nat \ {0} /\ Turn(s) \notin 1..Len(results[s])
         /\ \A r : IsFiniteSet(Positions(s, r))
<1> DEFINE q == results[s]
<1>1. q \in Seq({"skipped", "loaded", "error"}) /\ results'[s] = Append(q, x)
  OBVIOUS
<1>2. /\ Len(q) \in Nat /\ DOMAIN q = 1..Len(q)
      /\ DOMAIN Append(q, x) = 1..Len(q) + 1
      /\ \A i \in 1..Len(q) : Append(q, x)[i] = q[i]
      /\ Append(q, x)[Len(q) + 1] = x
  BY <1>1, OneMore
<1>3. \A r : Positions(s, r) = {i \in 1..Len(q) : q[i] = r}
  BY <1>2 DEF Positions
<1>4. \A r : Positions(s, r)' = {i \in 1..Len(q) + 1 : Append(q, x)[i] = r}
  BY <1>1, <1>2 DEF Positions
<1>5. IsFiniteSet(1..Len(q))
  BY <1>2, FS_Interval
<1> HIDE DEF q
<1>6. {i \in 1..Len(q) + 1 : Append(q, x)[i] = x} =
        {i \in 1..Len(q) : q[i] = x} \cup {Len(q) + 1}
  BY <1>2
<1>8. ASSUME NEW r, r # x
      PROVE  {i \in 1..Len(q) + 1 : Append(q, x)[i] = r} = {i \in 1..Len(q) : q[i] = r}
  <2> DEFINE a == Append(q, x)
  <2>1. /\ Len(q) \in Nat /\ a[Len(q) + 1] = x
        /\ \A i \in 1..Len(q) : a[i] = q[i]
    BY <1>2
  <2> HIDE DEF a
  <2>2. ASSUME NEW i \in 1..Len(q) + 1, a[i] = r
        PROVE  i \in 1..Len(q) /\ q[i] = r
    <3>1. i # Len(q) + 1
      BY <1>8, <2>1, <2>2
    <3> QED
      BY <2>1, <2>2, <3>1
  <2>3. \A i \in 1..Len(q) : i \in 1..Len(q) + 1 /\ a[i] = q[i]
    BY <2>1
  <2>4. {i \in 1..Len(q) + 1 : a[i] = r} = {i \in 1..Len(q) : q[i] = r}
    BY <2>2, <2>3
  <2> QED
    BY <2>4 DEF a
<1>7. \A r : IsFiniteSet({i \in 1..Len(q) : q[i] = r})
  BY <1>5, FS_Subset
<1>9. Turn(s) = Len(q) + 1 /\ results[s] = q
  BY DEF Turn, q
<1>10. \A r : Positions(s, r) \subseteq 1..Len(q)
  BY <1>3
<1>11. Positions(s, x)' = Positions(s, x) \cup {Len(q) + 1}
  BY <1>3, <1>4, <1>6
<1>12. ASSUME NEW r, r # x PROVE Positions(s, r)' = Positions(s, r)
  BY <1>3, <1>4, <1>8, <1>12
<1>13. \A r : IsFiniteSet(Positions(s, r))
  BY <1>3, <1>7
<1>14. Len(q) + 1 \in Nat \ {0} /\ Len(q) + 1 \notin 1..Len(q)
  BY <1>2
<1> QED
  BY <1>9, <1>10, <1>11, <1>12, <1>13, <1>14

\* What a directory holds is a sequence of entries.
LEMMA Entries == \A d \in Directories \cup {<<>>} :
  d \in Seq(SkillNames \cup {Skipped, Broken})
<1>1. <<>> \in Seq(SkillNames \cup {Skipped, Broken})
  OBVIOUS
<1> QED
  BY <1>1, DirectoriesAssumption

\* One turn of the loop carries on what was so far.
LEMMA EntryLoaded ==
  ASSUME LoaderTypeOK, NEW s \in Servers, LoadingInv(s),
         NEW outcome \in {"ok", "failed", "lost"}, LoadEntry(s, outcome)
  PROVE  LoaderTypeOK' /\ LoadingInv(s)'
<1> DEFINE n == Len(results[s])
           entry == dir[s][Turn(s)]
<1>1. /\ results[s] \in Seq({"skipped", "loaded", "error"}) /\ n \in Nat
      /\ dir[s] \in Seq(SkillNames \cup {Skipped, Broken}) /\ Len(dir[s]) \in Nat
      /\ n < Len(dir[s]) /\ Turn(s) = n + 1
      /\ loaded[s] \in Nat /\ firstErr[s] \in Nat
      /\ skills \in [SkillNames -> Nat]
      /\ DOMAIN results[s] = 1..n
  <2>1. results[s] \in Seq({"skipped", "loaded", "error"}) /\ dir[s] \in Directories \cup {<<>>}
    BY DEF LoaderTypeOK
  <2>2. dir[s] \in Seq(SkillNames \cup {Skipped, Broken})
    BY <2>1, Entries
  <2> QED
    BY <2>1, <2>2 DEF LoaderTypeOK, LoadEntry, AllRead, Turn, LoadingInv
<1>2. Skipped \notin SkillNames /\ Broken \notin SkillNames
  BY DirectoriesAssumption
<1>3. /\ results \in [Servers -> Seq({"skipped", "loaded", "error"})]
      /\ loaded \in [Servers -> Nat] /\ firstErr \in [Servers -> Nat]
      /\ dir \in [Servers -> Directories \cup {<<>>}]
  BY DEF LoaderTypeOK
<1>4. dir' = dir
  BY DEF LoadEntry, Fails
\* What any result adds.
<1>5. ASSUME NEW x \in {"skipped", "loaded", "error"},
             results' = [results EXCEPT ![s] = Append(@, x)]
      PROVE  /\ results' \in [Servers -> Seq({"skipped", "loaded", "error"})]
             /\ Len(results'[s]) = n + 1 /\ results'[s][n + 1] = x
             /\ \A i \in 1..n : results'[s][i] = results[s][i]
             /\ \A name : name = entry => Tried(s, name)' = Tried(s, name) \cup {n + 1}
             /\ \A name : name # entry => Tried(s, name)' = Tried(s, name)
             /\ \A name : Tried(s, name) \subseteq 1..n
             /\ Positions(s, x)' = Positions(s, x) \cup {n + 1}
             /\ \A r : r # x => Positions(s, r)' = Positions(s, r)
             /\ \A r : Positions(s, r) \subseteq 1..n /\ IsFiniteSet(Positions(s, r))
  <2>1. results'[s] = Append(results[s], x)
    BY <1>3, <1>5
  <2>2. /\ Append(results[s], x) \in Seq({"skipped", "loaded", "error"})
        /\ DOMAIN results'[s] = 1..n + 1 /\ Len(results'[s]) = n + 1
        /\ results'[s][n + 1] = x
        /\ \A i \in 1..n : results'[s][i] = results[s][i]
    BY <1>1, <2>1, OneMore
  <2>3. /\ Positions(s, x)' = Positions(s, x) \cup {n + 1}
        /\ \A r : r # x => Positions(s, r)' = Positions(s, r)
        /\ \A r : Positions(s, r) \subseteq 1..n /\ IsFiniteSet(Positions(s, r))
    BY <1>1, <1>3, <1>5, MorePositions
  <2>4. \A name : Tried(s, name) = {i \in 1..n : dir[s][i] = name}
    BY <1>1 DEF Tried
  <2>5. \A name : Tried(s, name)' = {i \in 1..n + 1 : dir[s][i] = name}
    BY <1>4, <2>2 DEF Tried
  <2>6. entry = dir[s][n + 1]
    BY <1>1
  <2> HIDE DEF n, entry
  <2>10. n \in Nat
    BY <1>1
  <2>7. {i \in 1..n + 1 : dir[s][i] = entry} =
          {i \in 1..n : dir[s][i] = entry} \cup {n + 1}
    BY <2>6, <2>10
  <2>9. ASSUME NEW name, name # entry
        PROVE  {i \in 1..n + 1 : dir[s][i] = name} = {i \in 1..n : dir[s][i] = name}
    BY <2>6, <2>9, <2>10
  <2>8. results' \in [Servers -> Seq({"skipped", "loaded", "error"})]
    BY <1>3, <1>5, <2>2
  <2> QED
    <3>1. \A name : name = entry => Tried(s, name)' = Tried(s, name) \cup {n + 1}
      BY <2>4, <2>5, <2>7
    <3>2. \A name : name # entry => Tried(s, name)' = Tried(s, name)
      BY <2>4, <2>5, <2>9
    <3>3. \A name : Tried(s, name) \subseteq 1..n
      BY <2>4
    <3> QED
      BY <2>2, <2>3, <2>8, <3>1, <3>2, <3>3
\* The rows stay as they are, or the one of this entry is written.
<1>6. ASSUME NEW x \in {"skipped", "loaded", "error"},
             results' = [results EXCEPT ![s] = Append(@, x)],
             \/ skills' = skills /\ (x = "loaded" => entry \notin SkillNames)
             \/ entry \in SkillNames /\ skills' = [skills EXCEPT ![entry] = n + 1]
      PROVE  /\ skills' \in [SkillNames -> Nat]
             /\ \A name \in SkillNames :
                  /\ skills'[name] \in Tried(s, name)' \cup {0}
                  /\ \A i \in Tried(s, name)' :
                       (\A j \in Tried(s, name)' : j <= i) /\ results'[s][i] = "loaded" =>
                         skills'[name] = i
  <2>1. skills' \in [SkillNames -> Nat]
    BY <1>1, <1>6
  <2>2. ASSUME NEW name \in SkillNames
        PROVE  /\ skills'[name] \in Tried(s, name)' \cup {0}
               /\ \A i \in Tried(s, name)' :
                    (\A j \in Tried(s, name)' : j <= i) /\ results'[s][i] = "loaded" =>
                      skills'[name] = i
    <3>0. /\ skills[name] \in Tried(s, name) \cup {0}
          /\ \A i \in Tried(s, name) :
               (\A j \in Tried(s, name) : j <= i) /\ results[s][i] = "loaded" =>
                 skills[name] = i
      BY DEF LoadingInv
    <3>1. CASE entry # name
      <4>1. Tried(s, name)' = Tried(s, name) /\ Tried(s, name) \subseteq 1..n
        BY <1>5, <1>6, <3>1
      <4>2. skills'[name] = skills[name]
        BY <1>1, <1>6, <3>1
      <4>3. \A i \in Tried(s, name) : results'[s][i] = results[s][i]
        BY <1>5, <1>6, <4>1
      <4> QED
        BY <3>0, <4>1, <4>2, <4>3
    <3>2. CASE entry = name
      <4>1. /\ Tried(s, name)' = Tried(s, name) \cup {n + 1}
            /\ Tried(s, name) \subseteq 1..n
            /\ results'[s][n + 1] = x
        BY <1>5, <1>6, <3>2
      <4>2. \A i \in Tried(s, name)' :
              (\A j \in Tried(s, name)' : j <= i) => i = n + 1
        <5>1. n + 1 \in Tried(s, name)' /\ Tried(s, name)' \subseteq 1..n + 1
          BY <1>1, <4>1
        <5>2. \A i \in 1..n + 1 : n + 1 <= i => i = n + 1
          BY <1>1
        <5> QED
          BY <5>1, <5>2
      <4>3. CASE skills' = skills /\ x # "loaded"
        BY <3>0, <4>1, <4>2, <4>3
      <4>4. CASE skills' = [skills EXCEPT ![entry] = n + 1]
        <5>1. skills'[name] = n + 1
          BY <1>1, <3>2, <4>4
        <5> QED
          BY <4>1, <4>2, <5>1
      <4> QED
        BY <1>6, <3>2, <4>3, <4>4
    <3> QED
      BY <3>1, <3>2
  <2> QED
    BY <2>1, <2>2
<1>7. CASE /\ entry = Skipped
           /\ results' = [results EXCEPT ![s] = Append(@, "skipped")]
           /\ UNCHANGED <<skills, dir, loaded, firstErr>>
  <2>1. \A r \in {"loaded", "error"} : Positions(s, r)' = Positions(s, r)
    BY <1>5, <1>7
  <2>2. Len(results'[s]) <= Len(dir'[s])
    BY <1>1, <1>5, <1>7
  <2>3. /\ skills' \in [SkillNames -> Nat]
        /\ \A name \in SkillNames :
             /\ skills'[name] \in Tried(s, name)' \cup {0}
             /\ \A i \in Tried(s, name)' :
                  (\A j \in Tried(s, name)' : j <= i) /\ results'[s][i] = "loaded" =>
                    skills'[name] = i
    BY <1>6, <1>7
  <2>4. LoadingInv(s)'
    BY <1>7, <2>1, <2>2, <2>3 DEF LoadingInv
  <2> QED
    BY <1>3, <1>5, <1>7, <2>3, <2>4 DEF LoaderTypeOK
<1>8. ASSUME Fails(s),
             \/ skills' = skills
             \/ entry \in SkillNames /\ skills' = [skills EXCEPT ![entry] = n + 1]
      PROVE  LoaderTypeOK' /\ LoadingInv(s)'
  <2>1. /\ results' = [results EXCEPT ![s] = Append(@, "error")]
        /\ firstErr' = [firstErr EXCEPT ![s] = IF @ = 0 THEN n + 1 ELSE @]
        /\ UNCHANGED <<dir, loaded>>
    BY <1>1, <1>8 DEF Fails
  <2>2. /\ Positions(s, "loaded")' = Positions(s, "loaded")
        /\ Positions(s, "error")' = Positions(s, "error") \cup {n + 1}
        /\ Positions(s, "error") \subseteq 1..n
        /\ Len(results'[s]) = n + 1
    BY <1>5, <2>1
  <2>3. /\ skills' \in [SkillNames -> Nat]
        /\ \A name \in SkillNames :
             /\ skills'[name] \in Tried(s, name)' \cup {0}
             /\ \A i \in Tried(s, name)' :
                  (\A j \in Tried(s, name)' : j <= i) /\ results'[s][i] = "loaded" =>
                    skills'[name] = i
    BY <1>6, <1>8, <2>1
  <2>4. firstErr' \in [Servers -> Nat]
        /\ firstErr'[s] = IF firstErr[s] = 0 THEN n + 1 ELSE firstErr[s]
    BY <1>1, <1>3, <2>1
  <2>5. /\ firstErr[s] \in Positions(s, "error") \cup {0}
        /\ \A i \in Positions(s, "error") : 0 < firstErr[s] /\ firstErr[s] <= i
    BY DEF LoadingInv
  <2>6. /\ firstErr'[s] \in Positions(s, "error")' \cup {0}
        /\ \A i \in Positions(s, "error")' : 0 < firstErr'[s] /\ firstErr'[s] <= i
    <3>1. CASE firstErr[s] = 0
      <4>1. Positions(s, "error") = {}
        BY <2>5, <3>1
      <4> QED
        BY <1>1, <2>2, <2>4, <3>1, <4>1
    <3>2. CASE firstErr[s] # 0
      <4>1. firstErr[s] \in 1..n
        BY <2>2, <2>5, <3>2
      <4> QED
        BY <1>1, <2>2, <2>4, <2>5, <3>2, <4>1
    <3> QED
      BY <3>1, <3>2
  <2>7. LoadingInv(s)'
    <3>1. Len(results'[s]) <= Len(dir'[s])
      BY <1>1, <2>1, <2>2
    <3>2. loaded'[s] = Cardinality(Positions(s, "loaded")')
      BY <2>1, <2>2 DEF LoadingInv
    <3> QED
      BY <2>3, <2>6, <3>1, <3>2 DEF LoadingInv
  <2> QED
    BY <1>3, <1>5, <2>1, <2>3, <2>4, <2>7 DEF LoaderTypeOK
<1>9. CASE /\ entry \in SkillNames
           /\ skills' = [skills EXCEPT ![entry] = n + 1]
           /\ loaded' = [loaded EXCEPT ![s] = @ + 1]
           /\ results' = [results EXCEPT ![s] = Append(@, "loaded")]
           /\ UNCHANGED <<dir, firstErr>>
  <2>1. /\ Positions(s, "error")' = Positions(s, "error")
        /\ Positions(s, "loaded")' = Positions(s, "loaded") \cup {n + 1}
        /\ Positions(s, "loaded") \subseteq 1..n /\ IsFiniteSet(Positions(s, "loaded"))
        /\ Len(results'[s]) = n + 1
    BY <1>5, <1>9
  <2>2. /\ skills' \in [SkillNames -> Nat]
        /\ \A name \in SkillNames :
             /\ skills'[name] \in Tried(s, name)' \cup {0}
             /\ \A i \in Tried(s, name)' :
                  (\A j \in Tried(s, name)' : j <= i) /\ results'[s][i] = "loaded" =>
                    skills'[name] = i
    BY <1>6, <1>9
  <2>3. loaded'[s] = Cardinality(Positions(s, "loaded")')
    <3>1. n + 1 \notin Positions(s, "loaded")
      BY <1>1, <2>1
    <3>2. Cardinality(Positions(s, "loaded") \cup {n + 1}) =
            Cardinality(Positions(s, "loaded")) + 1
      BY <2>1, <3>1, FS_AddElement
    <3>3. loaded'[s] = loaded[s] + 1 /\ loaded[s] = Cardinality(Positions(s, "loaded"))
      BY <1>3, <1>9 DEF LoadingInv
    <3> QED
      BY <2>1, <3>2, <3>3
  <2>4. LoadingInv(s)'
    <3>1. Len(results'[s]) <= Len(dir'[s])
      BY <1>1, <1>9, <2>1
    <3> QED
      BY <1>9, <2>1, <2>2, <2>3, <3>1 DEF LoadingInv
  <2>5. loaded' \in [Servers -> Nat]
    BY <1>1, <1>3, <1>9
  <2> QED
    BY <1>3, <1>5, <1>9, <2>2, <2>4, <2>5 DEF LoaderTypeOK
<1>10. \/ /\ entry = Skipped
          /\ results' = [results EXCEPT ![s] = Append(@, "skipped")]
          /\ UNCHANGED <<skills, dir, loaded, firstErr>>
       \/ /\ Fails(s)
          /\ \/ skills' = skills
             \/ entry \in SkillNames /\ skills' = [skills EXCEPT ![entry] = n + 1]
       \/ /\ entry \in SkillNames
          /\ skills' = [skills EXCEPT ![entry] = n + 1]
          /\ loaded' = [loaded EXCEPT ![s] = @ + 1]
          /\ results' = [results EXCEPT ![s] = Append(@, "loaded")]
          /\ UNCHANGED <<dir, firstErr>>
  <2>1. CASE entry = Skipped
    BY <1>2, <2>1 DEF LoadEntry, Skipped, Broken
  <2>2. CASE entry = Broken
    BY <1>2, <2>2 DEF LoadEntry, Skipped, Broken
  <2>3. CASE entry \in SkillNames
    <3>1. UpsertSkill(entry, n + 1, outcome)
      BY <1>1, <1>2, <2>3 DEF LoadEntry
    <3>2. \/ skills' = skills /\ outcome # "ok"
          \/ skills' = [skills EXCEPT ![entry] = n + 1]
      BY <1>1, <2>3, <3>1 DEF UpsertSkill
    <3> QED
      BY <1>2, <2>3, <3>2 DEF LoadEntry
  <2> QED
    BY <2>1, <2>2, <2>3 DEF LoadEntry
<1> QED
  BY <1>7, <1>8, <1>9, <1>10

\* Once every entry was looked at, all that is owed is there.
LEMMA LoadingDone ==
  ASSUME LoaderTypeOK, NEW s \in Servers, LoadingInv(s), AllRead(s)
  PROVE  IsReported(s) /\ IsStored(s)
<1>1. /\ results[s] \in Seq({"skipped", "loaded", "error"})
      /\ dir[s] \in Seq(SkillNames \cup {Skipped, Broken})
  <2>1. results[s] \in Seq({"skipped", "loaded", "error"}) /\ dir[s] \in Directories \cup {<<>>}
    BY DEF LoaderTypeOK
  <2> QED
    BY <2>1, Entries
<1>2. DOMAIN results[s] = DOMAIN dir[s]
  BY <1>1 DEF AllRead
<1>3. \A name : Tried(s, name) = {i \in DOMAIN dir[s] : dir[s][i] = name}
  BY <1>2 DEF Tried
<1> QED
  BY <1>3 DEF IsReported, IsStored, LoadingInv

-----------------------------------------------------------------------------
(* What a step does to the slots.                                           *)

\* Writing a flag of one slot.
LEMMA FlagSet ==
  ASSUME NEW f \in [Servers -> BOOLEAN], NEW t \in Servers, NEW b \in BOOLEAN
  PROVE  /\ [f EXCEPT ![t] = b] \in [Servers -> BOOLEAN]
         /\ [f EXCEPT ![t] = b][t] = b
         /\ \A q \in Servers \ {t} : [f EXCEPT ![t] = b][q] = f[q]
  BY Zenon

LEMMA Exited ==
  ASSUME TypeOK, NEW t \in Servers, Exit(t)
  PROVE  /\ pc' \in [Servers -> Alive \cup {"down"}]
         /\ request' \in [Servers -> {"none", "active", "stuck", "cut"}]
         /\ pc'[t] = "down" /\ request'[t] \in {"none", "cut"}
         /\ \A q \in Servers : q # t => pc'[q] = pc[q] /\ request'[q] = request[q]
         /\ UNCHANGED <<signalled, rules, runtimes>>
  BY DEF Exit, TypeOK

LocalTypes ==
  /\ schema \in BOOLEAN
  /\ pc \in [Servers -> Alive \cup {"down"}]
  /\ signalled \in [Servers -> BOOLEAN]
  /\ rules \in [Servers -> BOOLEAN]
  /\ runtimes \in [Servers -> SUBSET Drivers]
  /\ request \in [Servers -> {"none", "active", "stuck", "cut"}]
  /\ \A s \in Servers : request[s] \in {"active", "stuck"} => pc[s] \in {"serve", "drain"}

\* Another slot is left alone.
Alone(q) ==
  /\ pc'[q] = pc[q] /\ rules'[q] = rules[q]
  /\ runtimes'[q] = runtimes[q] /\ request'[q] = request[q]

\* What main has set up in one slot.
SetUp(s) ==
  /\ pc[s] \in {"build", "serve", "drain"} /\ NoFile \notin PolicyFiles => rules[s]
  /\ pc[s] \in {"serve", "drain"} => runtimes[s] = Drivers

\* A step of main in one slot that neither migrates nor loads: it can end, or go
\* on as far as the skills allow.
Quiet(t) ==
  /\ UNCHANGED loaderVars
  /\ schema => schema'
  /\ pc'[t] = "skills" => pc[t] = "skills"
  /\ pc'[t] \in {"load", "policy", "build", "serve", "drain"} =>
       pc[t] \in {"load", "policy", "build", "serve", "drain"}
  /\ pc'[t] \in {"policy", "build", "serve", "drain"} =>
       AllRead(t) \/ pc[t] \in {"policy", "build", "serve", "drain"}

Step(t) == Start(t) \/ MainStep(t) \/ Accept(t) \/ Answer(t) \/ Signal(t) \/ Kill(t)

\* The end of a process.
LEMMA StepExit ==
  ASSUME TypeOK, SetupInv, NEW t \in Servers, Exit(t), UNCHANGED loaderVars,
         schema' \in BOOLEAN, schema => schema'
  PROVE  /\ LocalTypes' /\ SetUp(t)'
         /\ \A q \in Servers : q # t => Alone(q)
         /\ Quiet(t)
<1>1. /\ pc' \in [Servers -> Alive \cup {"down"}]
      /\ request' \in [Servers -> {"none", "active", "stuck", "cut"}]
      /\ pc'[t] = "down" /\ request'[t] \in {"none", "cut"}
      /\ \A q \in Servers : q # t => pc'[q] = pc[q] /\ request'[q] = request[q]
      /\ UNCHANGED <<signalled, rules, runtimes>>
  BY Exited
<1>2. LocalTypes'
  BY <1>1 DEF TypeOK, LocalTypes
<1>3. SetUp(t)'
  BY <1>1 DEF SetUp
<1>4. Quiet(t)
  BY <1>1 DEF Quiet
<1> QED
  BY <1>1, <1>2, <1>3, <1>4 DEF Alone

\* A step from one place in main to the next.
LEMMA StepGoto ==
  ASSUME TypeOK, NEW t \in Servers, NEW from, NEW to \in Alive, Goto(t, from, to),
         from \in Starting \/ to \in {"serve", "drain"},
         schema' \in BOOLEAN, request' = request,
         signalled' \in [Servers -> BOOLEAN],
         rules' \in [Servers -> BOOLEAN],
         \A q \in Servers \ {t} : rules'[q] = rules[q],
         runtimes' = runtimes
  PROVE  /\ LocalTypes' /\ pc[t] = from /\ pc'[t] = to
         /\ \A q \in Servers : q # t => Alone(q)
<1>1. /\ pc[t] = from /\ pc' \in [Servers -> Alive \cup {"down"}] /\ pc'[t] = to
      /\ \A q \in Servers : q # t => pc'[q] = pc[q]
  BY DEF Goto, TypeOK
<1>2. request'[t] \in {"active", "stuck"} => pc'[t] \in {"serve", "drain"}
  BY <1>1 DEF TypeOK, Starting
<1>3. \A q \in Servers : q # t /\ request'[q] \in {"active", "stuck"} =>
        pc'[q] \in {"serve", "drain"}
  BY <1>1 DEF TypeOK
<1>4. LocalTypes'
  BY <1>1, <1>2, <1>3 DEF LocalTypes, TypeOK
<1> QED
  BY <1>1, <1>4 DEF Alone

\* What any step of a slot comes to.
Outcome(t) ==
  \/ Quiet(t)
  \/ /\ ~schema /\ schema' /\ pc[t] = "migrate" /\ pc'[t] = "skills"
     /\ UNCHANGED loaderVars
  \/ /\ schema' = schema /\ pc[t] = "skills" /\ pc'[t] = "load"
     /\ OpenDir(t)
  \/ /\ schema' = schema /\ pc[t] = "load" /\ pc'[t] = "load"
     /\ \E outcome \in {"ok", "failed", "lost"} : LoadEntry(t, outcome)

LEMMA StepSlot ==
  ASSUME TypeOK, SetupInv, NEW t \in Servers, Step(t)
  PROVE  /\ LocalTypes' /\ SetUp(t)' /\ Outcome(t)
         /\ \A q \in Servers : q # t => Alone(q)
<1> DEFINE Goal == /\ LocalTypes' /\ SetUp(t)' /\ Outcome(t)
                   /\ \A q \in Servers : q # t => Alone(q)
<1>0. LocalTypes /\ SetUp(t)
  BY DEF TypeOK, LocalTypes, SetupInv, SetUp
<1>e. ASSUME Exit(t), UNCHANGED loaderVars, schema' \in BOOLEAN, schema => schema'
      PROVE  Goal
  BY <1>e, StepExit DEF Outcome
<1>1. CASE Start(t)
  <2>1. /\ pc' \in [Servers -> Alive \cup {"down"}] /\ pc'[t] = "connect"
        /\ request' \in [Servers -> {"none", "active", "stuck", "cut"}]
        /\ request'[t] = "none"
        /\ \A q \in Servers : q # t => pc'[q] = pc[q] /\ request'[q] = request[q]
    BY <1>0, <1>1 DEF Start, Goto, LocalTypes, Alive, Starting
  <2>2. /\ rules' \in [Servers -> BOOLEAN] /\ signalled' \in [Servers -> BOOLEAN]
        /\ \A q \in Servers \ {t} : rules'[q] = rules[q]
    BY <1>0, <1>1, FlagSet DEF Start, LocalTypes
  <2>3. /\ runtimes' \in [Servers -> SUBSET Drivers]
        /\ \A q \in Servers : q # t => runtimes'[q] = runtimes[q]
    BY <1>0, <1>1 DEF Start, LocalTypes
  <2>4. UNCHANGED <<schema, loaderVars>>
    BY <1>1 DEF Start
  <2>5. LocalTypes'
    BY <1>0, <2>1, <2>2, <2>3, <2>4 DEF LocalTypes
  <2>6. SetUp(t)' /\ Outcome(t)
    BY <2>1, <2>4 DEF SetUp, Outcome, Quiet
  <2> QED
    BY <2>1, <2>2, <2>3, <2>5, <2>6 DEF Alone
<1>2. CASE Connect(t)
  <2>1. CASE Exit(t)
    BY <1>0, <1>2, <1>e, <2>1 DEF Connect, LocalTypes
  <2>2. CASE Goto(t, "connect", "migrate") /\ UNCHANGED <<signalled, rules, runtimes, request>>
    <3>1. UNCHANGED <<schema, loaderVars>>
      BY <1>2 DEF Connect
    <3>2. /\ LocalTypes' /\ pc[t] = "connect" /\ pc'[t] = "migrate"
          /\ \A q \in Servers : q # t => Alone(q)
      BY <1>0, <2>2, <3>1, StepGoto DEF LocalTypes, Alive, Starting
    <3> QED
      BY <3>1, <3>2 DEF SetUp, Outcome, Quiet
  <2> QED
    BY <1>2, <2>1, <2>2 DEF Connect
<1>3. CASE Migrate(t)
  <2>1. CASE Exit(t)
    BY <1>0, <1>3, <1>e, <2>1 DEF Migrate, LocalTypes
  <2>2. CASE /\ ~schema /\ schema' = TRUE /\ Goto(t, "migrate", "skills")
             /\ UNCHANGED <<signalled, rules, runtimes, request>>
    <3>1. UNCHANGED loaderVars
      BY <1>3 DEF Migrate
    <3>2. /\ LocalTypes' /\ pc[t] = "migrate" /\ pc'[t] = "skills"
          /\ \A q \in Servers : q # t => Alone(q)
      BY <1>0, <2>2, StepGoto DEF LocalTypes, Alive, Starting
    <3> QED
      BY <2>2, <3>1, <3>2 DEF SetUp, Outcome
  <2> QED
    BY <1>3, <2>1, <2>2 DEF Migrate
<1>4. CASE OpenSkills(t)
  <2>1. /\ Goto(t, "skills", "load") /\ OpenDir(t)
        /\ UNCHANGED <<schema, signalled, rules, runtimes, request>>
    BY <1>4 DEF OpenSkills
  <2>2. /\ LocalTypes' /\ pc[t] = "skills" /\ pc'[t] = "load"
        /\ \A q \in Servers : q # t => Alone(q)
    BY <1>0, <2>1, StepGoto DEF LocalTypes, Alive, Starting
  <2> QED
    BY <2>1, <2>2 DEF SetUp, Outcome
<1>5. CASE LoadSkill(t)
  <2>1. /\ pc[t] = "load"
        /\ \E outcome \in {"ok", "failed", "lost"} : LoadEntry(t, outcome)
        /\ UNCHANGED <<schema, pc, signalled, rules, runtimes, request>>
    BY <1>5 DEF LoadSkill, UpsertOutcomes
  <2> QED
    BY <1>0, <2>1 DEF LocalTypes, SetUp, Outcome, Alone
<1>6. CASE EndSkills(t)
  <2>1. /\ AllRead(t) /\ Goto(t, "load", "policy")
        /\ UNCHANGED <<schema, loaderVars, signalled, rules, runtimes, request>>
    BY <1>6 DEF EndSkills
  <2>2. /\ LocalTypes' /\ pc[t] = "load" /\ pc'[t] = "policy"
        /\ \A q \in Servers : q # t => Alone(q)
    BY <1>0, <2>1, StepGoto DEF LocalTypes, Alive, Starting
  <2> QED
    BY <2>1, <2>2 DEF SetUp, Outcome, Quiet
<1>7. CASE LoadPolicy(t)
  <2>0. UNCHANGED <<schema, loaderVars>>
    BY <1>7 DEF LoadPolicy
  <2>1. CASE Exit(t)
    BY <1>0, <1>e, <2>0, <2>1 DEF LocalTypes
  <2>2. CASE /\ NoFile \in PolicyFiles
             /\ Goto(t, "policy", "build")
             /\ UNCHANGED <<signalled, rules, runtimes, request>>
    <3>1. /\ LocalTypes' /\ pc[t] = "policy" /\ pc'[t] = "build"
          /\ \A q \in Servers : q # t => Alone(q)
      BY <1>0, <2>0, <2>2, StepGoto DEF LocalTypes, Alive, Starting
    <3> QED
      BY <2>0, <2>2, <3>1 DEF SetUp, Outcome, Quiet
  <2>3. CASE /\ Goto(t, "policy", "build")
             /\ rules' = [rules EXCEPT ![t] = TRUE]
             /\ UNCHANGED <<signalled, runtimes, request>>
    <3>0. /\ rules' \in [Servers -> BOOLEAN] /\ rules'[t]
          /\ \A q \in Servers \ {t} : rules'[q] = rules[q]
      BY <1>0, <2>3, FlagSet DEF LocalTypes
    <3>1. /\ LocalTypes' /\ pc[t] = "policy" /\ pc'[t] = "build"
          /\ \A q \in Servers : q # t => Alone(q)
      BY <1>0, <2>0, <2>3, <3>0, StepGoto DEF LocalTypes, Alive, Starting
    <3> QED
      BY <2>0, <3>0, <3>1 DEF SetUp, Outcome, Quiet
  <2> QED
    BY <1>7, <2>1, <2>2, <2>3 DEF LoadPolicy
<1>8. CASE Build(t)
  <2>0. UNCHANGED <<schema, loaderVars>> /\ pc[t] = "build"
    BY <1>8 DEF Build
  <2>1. CASE Exit(t)
    BY <1>0, <1>e, <2>0, <2>1 DEF LocalTypes
  <2>2. ASSUME NEW d \in Drivers \ runtimes[t],
               runtimes' = [runtimes EXCEPT ![t] = @ \cup {d}],
               UNCHANGED <<pc, signalled, rules, request>>
        PROVE  Goal
    <3>1. /\ runtimes' \in [Servers -> SUBSET Drivers]
          /\ \A q \in Servers : q # t => runtimes'[q] = runtimes[q]
      BY <1>0, <2>2 DEF LocalTypes
    <3>2. LocalTypes'
      BY <1>0, <2>0, <2>2, <3>1 DEF LocalTypes
    <3> QED
      BY <1>0, <2>0, <2>2, <3>1, <3>2 DEF SetUp, Outcome, Quiet, Alone
  <2> QED
    BY <1>8, <2>1, <2>2 DEF Build
<1>9. CASE Listen(t)
  <2>1. /\ runtimes[t] = Drivers /\ Goto(t, "build", "serve")
        /\ UNCHANGED <<schema, loaderVars, signalled, rules, runtimes, request>>
    BY <1>9 DEF Listen
  <2>2. /\ LocalTypes' /\ pc[t] = "build" /\ pc'[t] = "serve"
        /\ \A q \in Servers : q # t => Alone(q)
    BY <1>0, <2>1, StepGoto DEF LocalTypes, Alive, Starting
  <2> QED
    BY <1>0, <2>1, <2>2 DEF SetUp, Outcome, Quiet
<1>10. CASE BeginDrain(t)
  <2>1. /\ Goto(t, "serve", "drain")
        /\ UNCHANGED <<schema, loaderVars, signalled, rules, runtimes, request>>
    BY <1>10 DEF BeginDrain
  <2>2. /\ LocalTypes' /\ pc[t] = "serve" /\ pc'[t] = "drain"
        /\ \A q \in Servers : q # t => Alone(q)
    BY <1>0, <2>1, StepGoto DEF LocalTypes, Alive, Starting
  <2> QED
    BY <1>0, <2>1, <2>2 DEF SetUp, Outcome, Quiet
<1>11. CASE EndDrain(t) \/ Kill(t)
  BY <1>0, <1>e, <1>11 DEF EndDrain, Kill, LocalTypes
<1>12. CASE Accept(t) \/ Answer(t)
  <2>1. /\ pc[t] \in {"serve", "drain"}
        /\ request' \in [Servers -> {"none", "active", "stuck", "cut"}]
        /\ \A q \in Servers : q # t => request'[q] = request[q]
        /\ UNCHANGED <<schema, loaderVars, pc, signalled, rules, runtimes>>
    BY <1>0, <1>12 DEF Accept, Answer, LocalTypes
  <2>2. LocalTypes'
    BY <1>0, <2>1 DEF LocalTypes
  <2> QED
    BY <1>0, <2>1, <2>2 DEF SetUp, Outcome, Quiet, Alone
<1>13. CASE Signal(t)
  <2>1. /\ signalled' \in [Servers -> BOOLEAN]
        /\ UNCHANGED <<schema, loaderVars, pc, rules, runtimes, request>>
    BY <1>0, <1>13, FlagSet DEF Signal, LocalTypes
  <2>2. LocalTypes'
    BY <1>0, <2>1 DEF LocalTypes
  <2> QED
    BY <1>0, <2>1, <2>2 DEF SetUp, Outcome, Quiet, Alone
<1> QED
  BY <1>1, <1>2, <1>3, <1>4, <1>5, <1>6, <1>7, <1>8, <1>9, <1>10, <1>11, <1>12, <1>13
     DEF Step, MainStep

-----------------------------------------------------------------------------
(* One process migrates, and it alone loads skills.                         *)

LEMMA StepMigration ==
  ASSUME TypeOK, MigrationInv, NEW t \in Servers, Outcome(t),
         \A q \in Servers : q # t => Alone(q)
  PROVE  MigrationInv'
<1>0. \A q \in Servers : q # t => pc'[q] = pc[q]
  BY DEF Alone
<1> USE DEF MigrationInv, HasMigrated
<1>1. CASE Quiet(t)
  <2>1. /\ skills' = skills
        /\ schema => schema'
        /\ HasMigrated(t)' => HasMigrated(t)
        /\ pc'[t] = "skills" => pc[t] = "skills"
    BY <1>1 DEF Quiet, loaderVars
  <2>2. \A q \in Servers : HasMigrated(q)' => HasMigrated(q)
    BY <1>0, <2>1
  <2>3. \A q \in Servers : pc'[q] = "skills" => pc[q] = "skills"
    BY <1>0, <2>1
  <2>4. ~schema' => ~schema
    BY <2>1, Zenon
  <2> HIDE DEF HasMigrated
  <2>5. \A q \in Servers : HasMigrated(q)' => schema'
    BY <2>1, <2>2, Zenon
  <2>6. \A q, r \in Servers : HasMigrated(q)' /\ HasMigrated(r)' => q = r
    BY <2>2
  <2>7. ~schema' \/ (\E q \in Servers : pc'[q] = "skills") =>
          \A name \in SkillNames : skills'[name] = 0
    BY <2>1, <2>3, <2>4, Zenon
  <2> QED
    BY <2>5, <2>6, <2>7
<1>2. CASE /\ ~schema /\ schema' /\ pc[t] = "migrate" /\ pc'[t] = "skills"
           /\ UNCHANGED loaderVars
  <2>1. /\ \A q \in Servers : ~HasMigrated(q)
        /\ \A name \in SkillNames : skills'[name] = 0
    BY <1>2 DEF loaderVars
  <2>2. \A q \in Servers : HasMigrated(q)' => q = t
    BY <1>0, <2>1
  <2> QED
    BY <1>2, <2>1, <2>2
<1>3. CASE schema' = schema /\ pc[t] = "skills" /\ pc'[t] = "load" /\ OpenDir(t)
  <2>1. skills' = skills /\ HasMigrated(t)
    BY <1>3 DEF OpenDir
  <2>2. \A q \in Servers : HasMigrated(q)' => HasMigrated(q)
    BY <1>0, <2>1
  <2>3. \A q \in Servers : pc'[q] = "skills" => pc[q] = "skills"
    BY <1>0, <1>3
  <2> HIDE DEF HasMigrated
  <2> QED
    BY <1>3, <2>1, <2>2, <2>3
<1>4. CASE /\ schema' = schema /\ pc[t] = "load" /\ pc'[t] = "load"
           /\ \E outcome \in {"ok", "failed", "lost"} : LoadEntry(t, outcome)
  <2>1. HasMigrated(t) /\ schema
    BY <1>4
  <2>2. \A q \in Servers : HasMigrated(q)' => HasMigrated(q)
    BY <1>0, <2>1
  <2>3. \A q \in Servers : pc'[q] # "skills"
    BY <1>0, <1>4, <2>1
  <2> HIDE DEF HasMigrated
  <2> QED
    BY <1>4, <2>1, <2>2, <2>3
<1> QED
  BY <1>1, <1>2, <1>3, <1>4 DEF Outcome

LEMMA StepSkills ==
  ASSUME TypeOK, MigrationInv, SkillsInv, NEW t \in Servers, Outcome(t),
         \A q \in Servers : q # t => Alone(q)
  PROVE  LoaderTypeOK' /\ SkillsInv'
<1> DEFINE InLoad(q) == HasMigrated(q) /\ pc[q] # "skills"
           Loaded(q) == pc[q] \in {"policy", "build", "serve", "drain"}
<1>0. /\ LoaderTypeOK
      /\ \A q \in Servers : q # t => pc'[q] = pc[q]
      /\ \A q \in Servers : InLoad(q) => LoadingInv(q)
      /\ \A q \in Servers : Loaded(q) => AllRead(q)
      /\ \A q \in Servers : q # t => InLoad(q)' = InLoad(q) /\ Loaded(q)' = Loaded(q)
  BY DEF TypeOK, SkillsInv, Alone, HasMigrated
<1>9. SUFFICES LoaderTypeOK' /\ \A q \in Servers :
                 (InLoad(q)' => LoadingInv(q)') /\ (Loaded(q)' => AllRead(q)')
  BY DEF SkillsInv
<1>1. CASE Quiet(t)
  <2>1. /\ UNCHANGED loaderVars
        /\ InLoad(t)' => InLoad(t)
        /\ Loaded(t)' => AllRead(t) \/ Loaded(t)
    BY <1>1 DEF Quiet, HasMigrated
  <2>2. LoaderTypeOK'
    BY <1>0, <2>1 DEF LoaderTypeOK, loaderVars
  <2>3. \A q \in Servers : LoadingInv(q) => LoadingInv(q)'
    BY <2>1, LoadingKeeps DEF loaderVars
  <2>4. \A q \in Servers : AllRead(q)' = AllRead(q)
    BY <2>1 DEF loaderVars, AllRead
  <2> HIDE DEF InLoad, Loaded
  <2>5. ASSUME NEW q \in Servers
        PROVE  (InLoad(q)' => LoadingInv(q)') /\ (Loaded(q)' => AllRead(q)')
    <3>1. CASE q = t
      BY <1>0, <2>1, <2>3, <2>4, <3>1
    <3>2. CASE q # t
      BY <1>0, <2>3, <2>4, <3>2
    <3> QED
      BY <3>1, <3>2
  <2> QED
    BY <2>2, <2>5
\* Nobody else has come past Migrate when t is there.
<1>2. ASSUME HasMigrated(t), NEW q \in Servers, q # t
      PROVE  ~InLoad(q)' /\ ~Loaded(q)'
  <2>1. ~HasMigrated(q)
    BY <1>2 DEF MigrationInv
  <2> QED
    BY <1>0, <1>2, <2>1 DEF HasMigrated
<1>3. CASE /\ ~schema /\ schema' /\ pc[t] = "migrate" /\ pc'[t] = "skills"
           /\ UNCHANGED loaderVars
  <2>1. LoaderTypeOK'
    BY <1>0, <1>3 DEF LoaderTypeOK, loaderVars
  <2>2. \A q \in Servers : ~InLoad(q)' /\ ~Loaded(q)'
    <3>1. ~InLoad(t)' /\ ~Loaded(t)'
      BY <1>3
    <3>2. ASSUME NEW q \in Servers, q # t PROVE ~InLoad(q)' /\ ~Loaded(q)'
      <4>1. ~HasMigrated(q)
        BY <1>3 DEF MigrationInv
      <4> QED
        BY <1>0, <3>2, <4>1 DEF HasMigrated
    <3> QED
      BY <3>1, <3>2
  <2> HIDE DEF InLoad, Loaded
  <2> QED
    BY <2>1, <2>2
<1>4. CASE schema' = schema /\ pc[t] = "skills" /\ pc'[t] = "load" /\ OpenDir(t)
  <2>1. HasMigrated(t)
    BY <1>4 DEF HasMigrated
  <2>2. /\ LoaderTypeOK'
        /\ loaded'[t] = 0 /\ firstErr'[t] = 0 /\ results'[t] = <<>>
        /\ dir'[t] \in Directories /\ skills' = skills
    <3>1. PICK d \in Directories : dir' = [dir EXCEPT ![t] = d]
      BY <1>4 DEF OpenDir
    <3>2. /\ loaded' = [loaded EXCEPT ![t] = 0] /\ firstErr' = [firstErr EXCEPT ![t] = 0]
          /\ results' = [results EXCEPT ![t] = <<>>] /\ skills' = skills
      BY <1>4 DEF OpenDir
    <3>3. <<>> \in Seq({"skipped", "loaded", "error"})
      OBVIOUS
    <3> QED
      BY <1>0, <3>1, <3>2, <3>3 DEF LoaderTypeOK
  <2>3. LoadingInv(t)'
    <3>1. dir'[t] \in Seq(SkillNames \cup {Skipped, Broken})
      BY <2>2, Entries
    <3>2. Len(results'[t]) = 0 /\ DOMAIN results'[t] = {} /\ Len(dir'[t]) \in Nat
      BY <2>2, <3>1
    <3>3. /\ \A r : Positions(t, r)' = {}
          /\ \A name : Tried(t, name)' = {}
      BY <3>2 DEF Positions, Tried
    <3>4. \A name \in SkillNames : skills'[name] = 0
      BY <1>4, <2>2 DEF MigrationInv
    <3>5. Cardinality({}) = 0
      BY FS_EmptySet
    <3>6. loaded'[t] = Cardinality(Positions(t, "loaded")')
      BY <2>2, <3>3, <3>5
    <3> QED
      BY <2>2, <3>2, <3>3, <3>4, <3>6 DEF LoadingInv
  <2>4. ~Loaded(t)'
    BY <1>4
  <2> HIDE DEF InLoad, Loaded
  <2> QED
    BY <1>2, <2>1, <2>2, <2>3, <2>4
<1>5. CASE /\ schema' = schema /\ pc[t] = "load" /\ pc'[t] = "load"
           /\ \E outcome \in {"ok", "failed", "lost"} : LoadEntry(t, outcome)
  <2>1. HasMigrated(t) /\ InLoad(t)
    BY <1>5 DEF HasMigrated
  <2>2. LoaderTypeOK' /\ LoadingInv(t)'
    BY <1>0, <1>5, <2>1, EntryLoaded
  <2>3. ~Loaded(t)'
    BY <1>5
  <2> HIDE DEF InLoad, Loaded
  <2> QED
    BY <1>2, <2>1, <2>2, <2>3
<1> QED
  BY <1>1, <1>3, <1>4, <1>5 DEF Outcome

-----------------------------------------------------------------------------
(* The theorems.                                                            *)

LEMMA InitIInv == Init => IInv
<1> SUFFICES ASSUME Init PROVE IInv
  OBVIOUS
<1>1. LoaderTypeOK
  <2>1. <<>> \in Seq({"skipped", "loaded", "error"})
    OBVIOUS
  <2> QED
    BY <2>1 DEF Init, LoaderInit, LoaderTypeOK
<1>2. /\ signalled \in [Servers -> BOOLEAN] /\ rules \in [Servers -> BOOLEAN]
  BY Zenon DEF Init
<1>3. TypeOK
  BY <1>1, <1>2 DEF Init, TypeOK
<1>4. MigrationInv /\ SkillsInv /\ SetupInv
  BY DEF Init, LoaderInit, MigrationInv, SkillsInv, SetupInv, HasMigrated
<1> QED
  BY <1>3, <1>4 DEF IInv

LEMMA StepIInv == IInv /\ [Next]_vars => IInv'
<1> SUFFICES ASSUME IInv, [Next]_vars PROVE IInv'
  OBVIOUS
<1>0. TypeOK /\ MigrationInv /\ SkillsInv /\ SetupInv
  BY DEF IInv
<1>1. CASE UNCHANGED vars
  <2>1. /\ UNCHANGED <<skills, dir, loaded, firstErr, results>>
        /\ UNCHANGED <<schema, pc, signalled, rules, runtimes, request>>
    BY <1>1 DEF vars, loaderVars, locals
  <2>2. TypeOK'
    BY <1>0, <2>1 DEF TypeOK, LoaderTypeOK
  <2>3. MigrationInv'
    BY <1>0, <2>1 DEF MigrationInv, HasMigrated
  <2>4. SkillsInv'
    BY <1>0, <2>1, LoadingKeeps DEF SkillsInv, HasMigrated, AllRead
  <2>5. SetupInv'
    BY <1>0, <2>1 DEF SetupInv
  <2> QED
    BY <2>2, <2>3, <2>4, <2>5 DEF IInv
<1>2. ASSUME NEW t \in Servers, Step(t) PROVE IInv'
  <2>1. /\ LocalTypes' /\ SetUp(t)' /\ Outcome(t)
        /\ \A q \in Servers : q # t => Alone(q)
    BY <1>0, <1>2, StepSlot
  <2>2. MigrationInv'
    BY <1>0, <2>1, StepMigration
  <2>3. LoaderTypeOK' /\ SkillsInv'
    BY <1>0, <2>1, StepSkills
  <2>4. TypeOK'
    BY <2>1, <2>3 DEF LocalTypes, TypeOK
  <2>5. SetupInv'
    BY <1>0, <2>1 DEF SetupInv, SetUp, Alone
  <2> QED
    BY <2>2, <2>3, <2>4, <2>5 DEF IInv
<1> QED
  BY <1>1, <1>2 DEF Next, Step

\* Everything above, for every state the processes can reach.
THEOREM Inductive == Spec => []IInv
  BY InitIInv, StepIInv, PTL DEF Spec

\* Types of the processes, the database and the loaders.
THEOREM TypeCorrect == Spec => []TypeOK
  BY Inductive, PTL DEF IInv

\* No request meets a server that is half set up.
THEOREM ServersAreReady == Spec => []ServingIsReady
<1>1. IInv => ServingIsReady
  BY DEF IInv, MigrationInv, SetupInv, HasMigrated, ServingIsReady
<1> QED
  BY Inductive, <1>1, PTL

\* A server past its skills has tried every file, reports truly what came of it,
\* and finds in the table what its directory says, whatever other processes do.
THEOREM SkillsAreTrue == Spec => []SkillsAreLoaded
<1>1. IInv => SkillsAreLoaded
  <2> SUFFICES ASSUME IInv, NEW s \in Servers,
                      pc[s] \in {"policy", "build", "serve", "drain"}
               PROVE  IsReported(s) /\ IsStored(s)
    BY DEF SkillsAreLoaded
  <2>1. LoaderTypeOK /\ LoadingInv(s) /\ AllRead(s)
    BY DEF IInv, TypeOK, SkillsInv, HasMigrated
  <2> QED
    BY <2>1, LoadingDone
<1> QED
  BY Inductive, <1>1, PTL

\* The one process that got past Migrate has ended.
Over == schema /\ \A s \in Servers : ~HasMigrated(s)

\* The process that was let through is the last one that serves: once it has ended,
\* for whatever reason, no slot and no restart brings up a server again.  This is
\* the safety behind the restart that RestartServes expects.
THEOREM NobodyServesAgain == Spec => [](Over => [](\A s \in Servers : pc[s] # "serve"))
<1>1. ASSUME IInv, Over, [Next]_vars PROVE Over'
  <2>1. CASE UNCHANGED vars
    <3>1. UNCHANGED <<schema, pc>>
      BY <2>1 DEF vars, locals
    <3> QED
      BY <1>1, <3>1 DEF Over, HasMigrated
  <2>2. ASSUME NEW t \in Servers, Step(t) PROVE Over'
    <3>1. TypeOK /\ SetupInv
      BY <1>1 DEF IInv
    <3>2. Outcome(t) /\ \A q \in Servers : q # t => Alone(q)
      BY <2>2, <3>1, StepSlot
    <3>3. \A q \in Servers : q # t => pc'[q] = pc[q]
      BY <3>2 DEF Alone
    <3>4. schema' /\ ~HasMigrated(t)'
      BY <1>1, <3>2 DEF Over, Outcome, Quiet, HasMigrated
    <3> QED
      BY <1>1, <3>3, <3>4 DEF Over, HasMigrated
  <2> QED
    BY <1>1, <2>1, <2>2 DEF Next, Step
<1>2. IInv /\ Over /\ [Next]_vars => Over'
  BY <1>1
<1>3. Over => \A s \in Servers : pc[s] # "serve"
  BY DEF Over, HasMigrated
<1> QED
  BY <1>2, <1>3, Inductive, PTL DEF Spec
=============================================================================

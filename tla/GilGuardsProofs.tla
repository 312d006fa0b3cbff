--------------------------- MODULE GilGuardsProofs ---------------------------
(***************************************************************************)
(* What the guards of GilGuards promise, for every set of threads and      *)
(* every number of nested guards.                                          *)
(***************************************************************************)
EXTENDS GilGuards, FiniteSetTheorems, SequenceTheorems, TLAPS

(***************************************************************************)
(* The lock agrees with the guards in every reachable state only because   *)
(* each guard remembers the truth (GuardsNest) and because the counter is  *)
(* exact, so that the destructor that deletes a thread state is always one *)
(* that had to drop the lock anyway.                                       *)
(***************************************************************************)
IInv == TypeOK /\ GilFollowsGuards /\ GuardsNest /\ CounterCountsGuards

-----------------------------------------------------------------------------
(* Lemmas about stacks of guards.                                           *)

(* A stack of guards has finitely many guards of either kind.               *)
LEMMA EnsuresFinite ==
  ASSUME NEW s \in Seq(Guard)
  PROVE  IsFiniteSet(Ensures(s)) /\ Cardinality(Ensures(s)) \in Nat
<1>1. IsFiniteSet(1..Len(s))
  BY FS_Interval
<1>2. Ensures(s) \subseteq 1..Len(s)
  BY DEF Ensures
<1> QED
  BY <1>1, <1>2, FS_Subset, FS_CardinalityType

(* Opening a guard: the stack grows at its end and keeps what it had.       *)
LEMMA AppendGuard ==
  ASSUME NEW s \in Seq(Guard), NEW g \in Guard
  PROVE  /\ Append(s, g) \in Seq(Guard)
         /\ Len(Append(s, g)) = Len(s) + 1
         /\ Append(s, g) # <<>>
         /\ Last(Append(s, g)) = g
         /\ Append(s, g)[Len(s) + 1] = g
         /\ \A i \in 1..Len(s) : Append(s, g)[i] = s[i]
  BY DEF Last

(* Closing a guard: the stack loses its last element only.                  *)
LEMMA FrontGuard ==
  ASSUME NEW s \in Seq(Guard), s # <<>>
  PROVE  /\ Front(s) \in Seq(Guard)
         /\ Len(s) \in Nat \ {0}
         /\ Len(Front(s)) = Len(s) - 1
         /\ \A i \in 1..(Len(s) - 1) : Front(s)[i] = s[i]
         /\ Last(s) \in Guard
         /\ Front(s) = <<>> <=> Len(s) = 1
         /\ Len(s) > 1 => Last(Front(s)) = s[Len(s) - 1]
<1>1. Len(s) \in Nat \ {0}
  OBVIOUS
<1>2. /\ Front(s) \in Seq(Guard)
      /\ Len(Front(s)) = Len(s) - 1
      /\ \A i \in 1..(Len(s) - 1) : Front(s)[i] = s[i]
  <2>1. \A i \in 1..(Len(s) - 1) : s[i] \in Guard
    BY <1>1
  <2>2. 1 \in Int /\ Len(s) - 1 \in Int
    BY <1>1
  <2> DEFINE n == Len(s) - 1
             f == SubSeq(s, 1, n)
  <2>3. /\ f \in Seq(Guard)
        /\ Len(f) = IF 1 <= n THEN n - 1 + 1 ELSE 0
        /\ \A i \in 1..(n - 1 + 1) : f[i] = s[1 + i - 1]
    <3> HIDE DEF n
    <3> QED
      BY <2>1, <2>2, SubSeqProperties DEF n
  <2>4. Front(s) = f
    BY DEF Front
  <2>5. n \in Nat
    BY <1>1
  <2> HIDE DEF f
  <2> QED
    BY <2>3, <2>4, <2>5
<1>3. Last(s) \in Guard
  BY <1>1 DEF Last
<1>4. Front(s) = <<>> <=> Len(s) = 1
  BY <1>1, <1>2
<1>5. Len(s) > 1 => Last(Front(s)) = s[Len(s) - 1]
  BY <1>1, <1>2 DEF Last
<1> QED
  BY <1>1, <1>2, <1>3, <1>4, <1>5

(* One more PyGilStateLock is one more PyGILState_Release to come.          *)
LEMMA AppendEnsures ==
  ASSUME NEW s \in Seq(Guard), NEW g \in Guard
  PROVE  Cardinality(Ensures(Append(s, g)))
           = Cardinality(Ensures(s)) + (IF g = "saved" THEN 0 ELSE 1)
<1>1. CASE g = "saved"
  <2>1. Ensures(Append(s, g)) = Ensures(s)
    BY <1>1, AppendGuard DEF Ensures
  <2> QED
    BY <1>1, <2>1, EnsuresFinite
<1>2. CASE g # "saved"
  <2>1. Ensures(Append(s, g)) = Ensures(s) \cup {Len(s) + 1}
    BY <1>2, AppendGuard DEF Ensures
  <2>2. Len(s) + 1 \notin Ensures(s)
    BY DEF Ensures
  <2> QED
    BY <1>2, <2>1, <2>2, EnsuresFinite, FS_AddElement
<1> QED
  BY <1>1, <1>2

(* Closing a guard takes one away exactly when it was a PyGilStateLock.     *)
LEMMA FrontEnsures ==
  ASSUME NEW s \in Seq(Guard), s # <<>>
  PROVE  Cardinality(Ensures(Front(s)))
           = Cardinality(Ensures(s)) - (IF Last(s) = "saved" THEN 0 ELSE 1)
<1>1. CASE Last(s) = "saved"
  <2>1. Ensures(Front(s)) = Ensures(s)
    <3>1. ASSUME NEW i \in Ensures(s)  PROVE i \in Ensures(Front(s))
      BY <1>1, FrontGuard, SMTT(30) DEF Ensures, Last
    <3>2. ASSUME NEW i \in Ensures(Front(s))  PROVE i \in Ensures(s)
      <4>1. i \in 1..(Len(s) - 1) /\ Front(s)[i] # "saved"
        BY FrontGuard DEF Ensures
      <4> QED
        BY <4>1, FrontGuard DEF Ensures
    <3> QED
      BY <3>1, <3>2
  <2> QED
    BY <1>1, <2>1, EnsuresFinite
<1>2. CASE Last(s) # "saved"
  <2>1. Ensures(Front(s)) = Ensures(s) \ {Len(s)}
    BY <1>2, FrontGuard, SMTT(30) DEF Ensures, Last
  <2>2. Len(s) \in Ensures(s)
    BY <1>2, FrontGuard DEF Ensures, Last
  <2> QED
    BY <1>2, <2>1, <2>2, EnsuresFinite, FS_RemoveElement
<1> QED
  BY <1>1, <1>2

(* A set with an element, or with two, has at least that many.              *)
LEMMA CardinalityAtLeast ==
  ASSUME NEW S, IsFiniteSet(S), NEW a \in S
  PROVE  /\ Cardinality(S) >= 1
         /\ \A b \in S : a # b => Cardinality(S) >= 2
<1>1. /\ IsFiniteSet(S \ {a})
      /\ Cardinality(S \ {a}) = Cardinality(S) - 1
      /\ Cardinality(S) \in Nat /\ Cardinality(S \ {a}) \in Nat
  BY FS_RemoveElement, FS_CardinalityType
<1>2. ASSUME NEW b \in S, a # b  PROVE Cardinality(S) >= 2
  <2>1. b \in S \ {a}
    BY <1>2
  <2>2. /\ Cardinality((S \ {a}) \ {b}) = Cardinality(S \ {a}) - 1
        /\ Cardinality((S \ {a}) \ {b}) \in Nat
    BY <1>1, <2>1, FS_RemoveElement, FS_CardinalityType
  <2> QED
    BY <1>1, <2>2
<1> QED
  BY <1>1, <1>2

-----------------------------------------------------------------------------
(* Facts about a state that satisfies the invariant.                        *)

(* When the last PyGilStateLock of a thread without a state of its own      *)
(* closes, it is one that found the interpreter lock not held.              *)
LEMMA LastOneUnlocks ==
  ASSUME IInv, NEW t \in Threads, guards[t] # <<>>, Last(guards[t]) # "saved"
  PROVE  /\ counter[t] >= 1
         /\ counter[t] = 1 => Last(guards[t]) = "unlocked"
<1> DEFINE s == guards[t]
           n == Len(s)
<1>1. s \in Seq(Guard) /\ s # <<>>
  BY DEF IInv, TypeOK
<1>2. n \in Nat \ {0} /\ Last(s) = s[n]
  BY <1>1, FrontGuard DEF Last
<1>3. n \in Ensures(s)
  BY <1>2 DEF Ensures
<1>4. IsFiniteSet(Ensures(s)) /\ Cardinality(Ensures(s)) \in Nat
  BY <1>1, EnsuresFinite
<1>5. counter[t] = Cardinality(Ensures(s)) + Base(t) /\ Base(t) \in {0, 1}
  BY DEF IInv, CounterCountsGuards, Base
<1>6. Cardinality(Ensures(s)) >= 1
  BY <1>3, <1>4, CardinalityAtLeast
<1>7. ASSUME counter[t] = 1, Last(s) # "unlocked"  PROVE FALSE
  <2>1. s[n] = "locked" /\ n \in 1..n
    BY <1>1, <1>2, <1>7, FrontGuard DEF Guard
  <2>2. Cardinality(Ensures(s)) = 1 /\ t \notin PyThreads
    BY <1>4, <1>5, <1>6, <1>7 DEF Base
  <2>3. n > 1 /\ s[n-1] # "saved"
    <3>1. (n = 1 => t \in PyThreads) /\ (n # 1 => s[n-1] # "saved")
      BY <2>1 DEF IInv, GuardsNest, Nested
    <3>2. n \in Nat /\ n # 0 /\ t \notin PyThreads
      BY <1>2, <2>2
    <3> HIDE DEF n, s
    <3>3. n # 1
      BY <3>1, <3>2
    <3> QED
      BY <3>1, <3>2, <3>3
  <2>4. n - 1 \in Ensures(s) /\ n # n - 1
    BY <1>2, <2>3 DEF Ensures
  <2> QED
    BY <1>3, <1>4, <2>2, <2>4, CardinalityAtLeast
<1> QED
  BY <1>4, <1>5, <1>6, <1>7

(* Opening a guard that remembers where the thread is keeps a stack nested. *)
LEMMA NestedAppend ==
  ASSUME NEW t, NEW s \in Seq(Guard), NEW g \in Guard, Nested(t, s),
         \/ g \in {"locked", "saved"} /\ Inside(t, s)
         \/ g = "unlocked" /\ ~Inside(t, s)
  PROVE  Nested(t, Append(s, g))
<1> DEFINE a == Append(s, g)
<1>1. /\ Len(a) = Len(s) + 1 /\ Len(s) \in Nat
      /\ a[Len(s) + 1] = g
      /\ \A i \in 1..Len(s) : a[i] = s[i]
  BY AppendGuard
<1>2. Inside(t, s) <=> IF Len(s) = 0 THEN t \in PyThreads ELSE s[Len(s)] # "saved"
  BY DEF Inside, Last
<1>3. ASSUME NEW i \in 1..Len(a)
      PROVE  LET inside == IF i = 1 THEN t \in PyThreads ELSE a[i-1] # "saved"
             IN  \/ a[i] = "locked"   /\ inside
                 \/ a[i] = "unlocked" /\ ~inside
                 \/ a[i] = "saved"    /\ (inside \/ (i = 1 /\ t = HostThread))
  <2>1. CASE i = Len(s) + 1
    <3>1. Inside(t, s) <=> IF i = 1 THEN t \in PyThreads ELSE a[i-1] # "saved"
      BY <1>1, <1>2, <2>1
    <3>2. a[i] = g
      BY <1>1, <2>1
    <3> HIDE DEF a
    <3> QED
      BY <3>1, <3>2
  <2>2. CASE i \in 1..Len(s)
    <3>1. a[i] = s[i] /\ (i # 1 => a[i-1] = s[i-1])
      BY <1>1, <2>2
    <3> HIDE DEF a
    <3> QED
      BY <2>2, <3>1 DEF Nested
  <2> QED
    BY <1>1, <2>1, <2>2
<1> HIDE DEF a
<1>4. Nested(t, a)
  BY <1>3 DEF Nested
<1> QED
  BY <1>4 DEF a

(* Closing a guard keeps a stack nested, and takes the thread back to the   *)
(* side of the lock that the guard remembers.                               *)
LEMMA NestedFront ==
  ASSUME NEW t, NEW s \in Seq(Guard), s # <<>>, Nested(t, s),
         t = HostThread => Last(s) # "saved" \/ Len(s) > 1
  PROVE  /\ Nested(t, Front(s))
         /\ Last(s) = "locked" => Inside(t, Front(s))
         /\ Last(s) = "unlocked" => ~Inside(t, Front(s))
         /\ Last(s) = "saved" => Inside(t, Front(s))
<1> DEFINE f == Front(s)
           n == Len(s)
<1>1. /\ n \in Nat \ {0} /\ Len(f) = n - 1 /\ f \in Seq(Guard)
      /\ \A i \in 1..(n - 1) : f[i] = s[i]
      /\ Last(s) = s[n]
      /\ f = <<>> <=> n = 1
      /\ n > 1 => Last(f) = s[n - 1]
  BY FrontGuard DEF Last
<1>2. Nested(t, f)
  <2>1. ASSUME NEW i \in 1..(n - 1)
        PROVE  f[i] = s[i] /\ (i # 1 => f[i-1] = s[i-1]) /\ i \in 1..n
    BY <1>1
  <2>2. Len(f) = n - 1
    BY <1>1
  <2> HIDE DEF f
  <2> QED
    BY <2>1, <2>2 DEF Nested
<1>3. Inside(t, f) <=> IF n = 1 THEN t \in PyThreads ELSE s[n-1] # "saved"
  <2> HIDE DEF f
  <2> QED
    BY <1>1 DEF Inside
<1>4. LET inside == IF n = 1 THEN t \in PyThreads ELSE s[n-1] # "saved"
      IN  \/ s[n] = "locked"   /\ inside
          \/ s[n] = "unlocked" /\ ~inside
          \/ s[n] = "saved"    /\ (inside \/ (n = 1 /\ t = HostThread))
  <2>1. n \in 1..n
    BY <1>1
  <2> QED
    BY <2>1 DEF Nested
<1> HIDE DEF f, n
<1>5. /\ Nested(t, f)
      /\ Last(s) = "locked" => Inside(t, f)
      /\ Last(s) = "unlocked" => ~Inside(t, f)
      /\ Last(s) = "saved" => Inside(t, f)
  BY <1>1, <1>2, <1>3, <1>4 DEF n
<1> QED
  BY <1>5 DEF f

-----------------------------------------------------------------------------
(* The invariant holds initially and every action preserves it.             *)

(* How a step of thread t that opens or closes guards, or parks, keeps the  *)
(* lock and the guards in agreement: t's own state decides, and the others  *)
(* see the lock go from not theirs to not theirs.                           *)
LEMMA AgreementKept ==
  ASSUME TypeOK, GilFollowsGuards, NEW t \in Threads,
         gil \in {t, NoThread},
         gil' \in {t, NoThread},
         NEW s, guards' = [guards EXCEPT ![t] = s],
         NEW p, parked' = [parked EXCEPT ![t] = p],
         gil' = t <=> Inside(t, s) /\ ~p,
         p => Inside(t, s)
  PROVE  GilFollowsGuards'
<1>1. SUFFICES ASSUME NEW u \in Threads
               PROVE  /\ gil' = u <=> Inside(u, guards'[u]) /\ ~parked'[u]
                      /\ parked'[u] => Inside(u, guards'[u])
  BY DEF GilFollowsGuards, Inside
<1>2. CASE u = t
  BY <1>2 DEF TypeOK
<1>3. CASE u # t
  <2>1. guards'[u] = guards[u] /\ parked'[u] = parked[u]
    BY <1>3 DEF TypeOK
  <2>2. gil # u /\ gil' # u
    BY <1>3, GilAssumption
  <2>3. /\ ~(Inside(u, guards[u]) /\ ~parked[u])
        /\ parked[u] => Inside(u, guards[u])
    BY <2>2 DEF GilFollowsGuards
  <2> QED
    BY <2>1, <2>2, <2>3
<1> QED
  BY <1>2, <1>3

(* Opening a guard that remembers where the thread is.                      *)
LEMMA OpenKeeps ==
  ASSUME IInv, NEW t \in Threads, NEW g \in Guard,
         gil \in {t, NoThread}, ~parked[t],
         \/ g \in {"locked", "saved"} /\ gil = t
         \/ g = "unlocked" /\ gil # t,
         gil' = (IF g = "saved" THEN NoThread ELSE t),
         Push(t, g),
         counter' = [counter EXCEPT ![t] = @ + (IF g = "saved" THEN 0 ELSE 1)],
         parked' = parked
  PROVE  IInv'
<1> DEFINE s == guards[t]
           a == Append(s, g)
<1>1. /\ s \in Seq(Guard) /\ guards' = [guards EXCEPT ![t] = a]
      /\ guards \in [Threads -> Seq(Guard)] /\ counter \in [Threads -> Nat]
      /\ parked \in [Threads -> BOOLEAN]
  BY DEF IInv, TypeOK, Push
<1>2. a \in Seq(Guard) /\ a # <<>> /\ Last(a) = g
  BY <1>1, AppendGuard
<1>3. gil = t <=> Inside(t, s)
  BY DEF IInv, GilFollowsGuards
<1>4. TypeOK'
  BY <1>1, <1>2 DEF TypeOK
<1>5. GilFollowsGuards'
  <2>1. gil' = t <=> Inside(t, a) /\ ~parked[t]
    BY <1>2, GilAssumption DEF Inside
  <2>2. parked' = [parked EXCEPT ![t] = parked[t]]
    BY <1>1
  <2>3. gil' \in {t, NoThread}
    OBVIOUS
  <2> QED
    BY <1>1, <2>1, <2>2, <2>3, AgreementKept DEF IInv
<1>6. GuardsNest'
  <2>1. Nested(t, a)
    <3>1. Nested(t, s)
      BY DEF IInv, GuardsNest
    <3> QED
      BY <1>1, <1>3, <3>1, NestedAppend
  <2> QED
    BY <1>1, <2>1 DEF IInv, GuardsNest, Nested
<1>7. CounterCountsGuards'
  <2>1. counter'[t] = Cardinality(Ensures(a)) + Base(t)
    <3>1. counter[t] = Cardinality(Ensures(s)) + Base(t)
      BY DEF IInv, CounterCountsGuards
    <3>2. counter'[t] = counter[t] + (IF g = "saved" THEN 0 ELSE 1)
      BY <1>1
    <3>3. Cardinality(Ensures(a)) = Cardinality(Ensures(s)) + (IF g = "saved" THEN 0 ELSE 1)
      BY <1>1, AppendEnsures
    <3>4. Cardinality(Ensures(s)) \in Nat /\ Base(t) \in Nat
      BY <1>1, EnsuresFinite DEF Base
    <3> HIDE DEF a, s
    <3> QED
      BY <3>1, <3>2, <3>3, <3>4
  <2>2. ASSUME NEW u \in Threads, u # t
        PROVE  counter'[u] = counter[u] /\ guards'[u] = guards[u]
    BY <1>1, <2>2
  <2>3. guards'[t] = a
    BY <1>1
  <2> HIDE DEF a, s
  <2>4. ASSUME NEW u \in Threads
        PROVE  counter'[u] = Cardinality(Ensures(guards'[u])) + Base(u)
    <3>1. CASE u = t
      BY <2>1, <2>3, <3>1
    <3>2. CASE u # t
      <4>1. counter[u] = Cardinality(Ensures(guards[u])) + Base(u)
        BY DEF IInv, CounterCountsGuards
      <4> QED
        BY <2>2, <3>2, <4>1
    <3> QED
      BY <3>1, <3>2
  <2> QED
    BY <2>4 DEF CounterCountsGuards, Ensures, Base
<1> QED
  BY <1>4, <1>5, <1>6, <1>7 DEF IInv

(* Closing a guard that puts back what it remembers.                        *)
LEMMA CloseKeeps ==
  ASSUME IInv, NEW t \in Threads, gil \in {t, NoThread}, ~parked[t],
         guards[t] # <<>>,
         t = HostThread => Last(guards[t]) # "saved" \/ Len(guards[t]) > 1,
         gil' = (IF Last(guards[t]) = "unlocked" THEN NoThread ELSE t),
         Pop(t),
         counter' = [counter EXCEPT ![t] = @ - (IF Last(guards[t]) = "saved" THEN 0 ELSE 1)],
         parked' = parked
  PROVE  IInv' /\ (gil' = t <=> Inside(t, Front(guards[t])))
<1> DEFINE s == guards[t]
           f == Front(s)
           g == Last(s)
<1>1. /\ s \in Seq(Guard) /\ guards' = [guards EXCEPT ![t] = f]
      /\ guards \in [Threads -> Seq(Guard)] /\ counter \in [Threads -> Nat]
      /\ parked \in [Threads -> BOOLEAN]
  BY DEF IInv, TypeOK, Pop
<1>2. f \in Seq(Guard) /\ g \in Guard
  BY <1>1, FrontGuard
<1>3. Nested(t, f) /\ (g = "unlocked" <=> ~Inside(t, f))
  <2>1. Nested(t, s)
    BY DEF IInv, GuardsNest
  <2> QED
    BY <1>1, <1>2, <2>1, NestedFront DEF Guard
<1>4. counter[t] = Cardinality(Ensures(s)) + Base(t) /\ Base(t) \in Nat
  BY DEF IInv, CounterCountsGuards, Base
<1>5. /\ Cardinality(Ensures(f)) = Cardinality(Ensures(s)) - (IF g = "saved" THEN 0 ELSE 1)
      /\ Cardinality(Ensures(s)) \in Nat /\ Cardinality(Ensures(f)) \in Nat
  BY <1>1, <1>2, FrontEnsures, EnsuresFinite
<1>6. counter'[t] = counter[t] - (IF g = "saved" THEN 0 ELSE 1)
  BY <1>1
<1>7. counter'[t] = Cardinality(Ensures(f)) + Base(t) /\ counter'[t] \in Nat
  <2> HIDE DEF s, f, g
  <2> QED
    BY <1>4, <1>5, <1>6
<1>8. TypeOK'
  <2>1. counter' \in [Threads -> Nat]
    BY <1>1, <1>7
  <2> QED
    BY <1>1, <1>2, <2>1 DEF TypeOK
<1>9. gil' = t <=> Inside(t, f)
  BY <1>3, GilAssumption
<1>10. GilFollowsGuards'
  <2>1. parked' = [parked EXCEPT ![t] = parked[t]]
    BY <1>1
  <2>2. gil' \in {t, NoThread}
    OBVIOUS
  <2> QED
    BY <1>1, <1>9, <2>1, <2>2, AgreementKept DEF IInv
<1>11. GuardsNest'
  BY <1>1, <1>3 DEF IInv, GuardsNest, Nested
<1>12. CounterCountsGuards'
  <2>1. ASSUME NEW u \in Threads, u # t
        PROVE  counter'[u] = counter[u] /\ guards'[u] = guards[u]
    BY <1>1, <2>1
  <2>2. guards'[t] = f
    BY <1>1
  <2> HIDE DEF f, s, g
  <2>3. ASSUME NEW u \in Threads
        PROVE  counter'[u] = Cardinality(Ensures(guards'[u])) + Base(u)
    <3>1. CASE u = t
      BY <1>7, <2>2, <3>1
    <3>2. CASE u # t
      BY <2>1, <3>2 DEF IInv, CounterCountsGuards
    <3> QED
      BY <3>1, <3>2
  <2> QED
    BY <2>3 DEF CounterCountsGuards, Ensures, Base
<1> QED
  BY <1>8, <1>9, <1>10, <1>11, <1>12 DEF IInv

(* A thread without open guards has nothing to remember.                    *)
LEMMA EmptyStack ==
  ASSUME NEW t
  PROVE  Nested(t, <<>>)
  BY DEF Nested

(* The lock starts free, one guard open at most and that one the host's.    *)
LEMMA InitInvariant == Init => IInv
<1> SUFFICES ASSUME Init PROVE IInv
  OBVIOUS
<1>1. TypeOK
  <2>1. <<>> \in Seq(Guard) /\ <<"saved">> \in Seq(Guard)
    BY DEF Guard
  <2>2. guards \in [Threads -> Seq(Guard)]
    BY <2>1 DEF Init
  <2>3. counter \in [Threads -> Nat]
    BY DEF Init
  <2>4. parked \in [Threads -> BOOLEAN]
    BY DEF Init
  <2> QED
    BY <2>2, <2>3, <2>4 DEF Init, TypeOK
<1>2. ASSUME NEW t \in Threads
      PROVE  /\ gil = t <=> Inside(t, guards[t]) /\ ~parked[t]
             /\ parked[t] => Inside(t, guards[t])
             /\ Nested(t, guards[t])
             /\ Cardinality(Ensures(guards[t])) = 0
  <2>1. CASE t = HostThread
    <3>1. guards[t] = <<"saved">> /\ t \notin PyThreads /\ gil # t
      BY <2>1, GilAssumption DEF Init
    <3> DEFINE s == <<"saved">>
    <3>2. Len(s) = 1 /\ s[1] = "saved" /\ s # <<>>
      OBVIOUS
    <3> HIDE DEF s
    <3>3. Ensures(s) = {}
      BY <3>2 DEF Ensures
    <3>4. Nested(t, s) /\ ~Inside(t, s)
      BY <2>1, <3>2 DEF Nested, Inside, Last
    <3>5. guards[t] = s /\ ~parked[t]
      BY <2>1, <3>1 DEF s, Init
    <3> QED
      BY <3>1, <3>3, <3>4, <3>5, FS_EmptySet
  <2>2. CASE t # HostThread
    <3>1. guards[t] = <<>> /\ gil # t /\ (parked[t] <=> t \in PyThreads)
      BY <2>2, GilAssumption DEF Init
    <3>2. Ensures(<<>>) = {}
      BY DEF Ensures
    <3> QED
      BY <3>1, <3>2, FS_EmptySet, EmptyStack DEF Inside
  <2> QED
    BY <2>1, <2>2
<1>3. CounterCountsGuards
  BY <1>2 DEF Init, CounterCountsGuards, Base
<1> QED
  BY <1>1, <1>2, <1>3 DEF IInv, GilFollowsGuards, GuardsNest

(* What a step that closes a guard of t leaves.                             *)
Restores(t) ==
  Len(guards'[t]) < Len(guards[t]) => (gil' = t <=> Inside(t, Front(guards[t])))

(* Every operation of a guard, and the evaluation loop, keep the invariant. *)
LEMMA StepInvariant ==
  ASSUME IInv, [Next]_gilVars
  PROVE  IInv' /\ \A t \in Threads : Restores(t)
<1> USE DEF IInv
<1>1. CASE UNCHANGED gilVars
  BY <1>1 DEF gilVars, TypeOK, GilFollowsGuards, GuardsNest, Nested, Inside,
              CounterCountsGuards, Ensures, Base, Restores
<1>2. ASSUME NEW t \in Threads, Next,
             guards' = [guards EXCEPT ![t] = guards'[t]], Restores(t)
      PROVE  \A u \in Threads : Restores(u)
  BY <1>2 DEF TypeOK, Restores
<1>3. ASSUME NEW t \in Threads, Ensure(t)
      PROVE  IInv' /\ \A u \in Threads : Restores(u)
  <2> DEFINE g == IF gil = t THEN "locked" ELSE "unlocked"
  <2>1. IInv'
    BY <1>3, OpenKeeps DEF Ensure, Guard
  <2>2. Restores(t)
    BY <1>3, AppendGuard DEF Ensure, Push, TypeOK, Guard, Restores
  <2> QED
    BY <1>2, <1>3, <2>1, <2>2 DEF Next, Ensure, Push, TypeOK
<1>4. ASSUME NEW t \in Threads, Release(t)
      PROVE  IInv' /\ \A u \in Threads : Restores(u)
  <2>1. gil' = (IF Last(guards[t]) = "unlocked" THEN NoThread ELSE t)
    BY <1>4, LastOneUnlocks DEF Release
  <2>2. IInv' /\ (gil' = t <=> Inside(t, Front(guards[t])))
    BY <1>4, <2>1, CloseKeeps DEF Release
  <2> QED
    BY <1>2, <1>4, <2>2 DEF Next, Release, Pop, TypeOK, Restores
<1>5. ASSUME NEW t \in Threads, Save(t)
      PROVE  IInv' /\ \A u \in Threads : Restores(u)
  <2>1. IInv'
    BY <1>5, OpenKeeps DEF Save, Guard, TypeOK
  <2>2. Restores(t)
    BY <1>5, AppendGuard DEF Save, Push, TypeOK, Guard, Restores
  <2> QED
    BY <1>2, <1>5, <2>1, <2>2 DEF Next, Save, Push, TypeOK
<1>6. ASSUME NEW t \in Threads, Restore(t)
      PROVE  IInv' /\ \A u \in Threads : Restores(u)
  <2>1. ~parked[t]
    BY <1>6 DEF Restore, GilFollowsGuards, Inside
  <2>2. IInv' /\ (gil' = t <=> Inside(t, Front(guards[t])))
    BY <1>6, <2>1, CloseKeeps DEF Restore, TypeOK
  <2> QED
    BY <1>2, <1>6, <2>2 DEF Next, Restore, Pop, TypeOK, Restores
<1>7. ASSUME NEW t \in Threads, Park(t) \/ Unpark(t)
      PROVE  IInv' /\ \A u \in Threads : Restores(u)
  <2>1. guards' = guards /\ counter' = counter
    BY <1>7 DEF Park, Unpark
  <2>2. TypeOK'
    BY <1>7 DEF TypeOK, Park, Unpark
  <2>3. GilFollowsGuards'
    <3>1. Inside(t, guards[t])
      BY <1>7 DEF Park, Unpark, GilFollowsGuards
    <3> QED
      BY <1>7, <3>1, AgreementKept, GilAssumption DEF Park, Unpark, TypeOK
  <2> QED
    BY <2>1, <2>2, <2>3 DEF GuardsNest, Nested, CounterCountsGuards, Ensures, Base, Restores, TypeOK
<1> QED
  <2> USE DEF Next
  <2> QED
    BY <1>1, <1>3, <1>4, <1>5, <1>6, <1>7

-----------------------------------------------------------------------------
(* The theorems.                                                            *)

THEOREM InvariantHolds == Spec => []IInv
<1>1. IInv /\ [Next]_gilVars => IInv'
  BY StepInvariant
<1> QED
  BY InitInvariant, <1>1, PTL DEF Spec

(* Every variable keeps its type (PyObjectUtils.hpp, the guards' members).  *)
THEOREM TypeCorrect == Spec => []TypeOK
  BY InvariantHolds, PTL DEF IInv

(* A thread holds the lock exactly when its own guards say it is inside the *)
(* interpreter and it is not parked (the four guard operations).            *)
THEOREM LockFollowsGuards == Spec => []GilFollowsGuards
  BY InvariantHolds, PTL DEF IInv

(* What each guard remembers is what the guards beneath it say.             *)
THEOREM GuardsAlwaysNest == Spec => []GuardsNest
  BY InvariantHolds, PTL DEF IInv

(* gilstate_counter is exact, whatever guards a thread has opened.          *)
THEOREM CounterExact == Spec => []CounterCountsGuards
  BY InvariantHolds, PTL DEF IInv

(* The thread state that a PyThreadStateLock is to restore is never deleted *)
(* by a PyGilStateLock that closes before it.                               *)
THEOREM SavedStateKept == Spec => []SavedStateAlive
<1>1. ASSUME IInv, NEW t \in Threads, NEW i \in 1..Len(guards[t]),
             guards[t][i] = "saved"
      PROVE  counter[t] >= 1
  <2> DEFINE s == guards[t]
  <2>1. s \in Seq(Guard) /\ Len(s) \in Nat
    BY <1>1 DEF IInv, TypeOK
  <2>2. IsFiniteSet(Ensures(s)) /\ Cardinality(Ensures(s)) \in Nat
    BY <2>1, EnsuresFinite
  <2>3. counter[t] = Cardinality(Ensures(s)) + Base(t)
    BY <1>1 DEF IInv, CounterCountsGuards
  <2>4. CASE t \in PyThreads \cup {HostThread}
    BY <2>2, <2>3, <2>4 DEF Base
  <2>5. CASE t \notin PyThreads \cup {HostThread}
    <3>1. i # 1 /\ s[i-1] # "saved"
      BY <1>1, <2>5 DEF IInv, GuardsNest, Nested
    <3>2. i - 1 \in Ensures(s)
      BY <2>1, <3>1 DEF Ensures
    <3> QED
      BY <2>2, <2>3, <3>2, CardinalityAtLeast DEF Base
  <2> QED
    BY <2>4, <2>5
<1>2. IInv => SavedStateAlive
  BY <1>1 DEF SavedStateAlive
<1> QED
  BY InvariantHolds, <1>2, PTL

(* A step that closes a guard leaves the thread inside the interpreter with *)
(* the lock, or outside it without, as it was when the guard was opened.    *)
THEOREM CloseRestoresAlways == Spec => CloseRestores
<1>1. IInv /\ [Next]_gilVars =>
        [\A t \in Threads :
           Len(guards'[t]) < Len(guards[t]) =>
             (gil' = t <=> Inside(t, Front(guards[t])))]_gilVars
  BY StepInvariant DEF Restores
<1> QED
  BY InvariantHolds, <1>1, PTL DEF Spec, CloseRestores
=============================================================================

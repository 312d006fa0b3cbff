--------------------------- MODULE HandleRefsProofs ---------------------------
(***************************************************************************)
(* Proofs that the invariants of HandleRefs hold for any number of         *)
(* threads, objects, handles and variables.  The inductive invariant is    *)
(* the conjunction of all of them: a counter stays exact because only a    *)
(* live object gets another owner, which is so because a shared handle has *)
(* its reference and a call has its locals.                                *)
(***************************************************************************)
EXTENDS HandleRefs, FiniteSetTheorems, TLAPS

RefsType ==
  /\ rc \in [Objects -> Int]
  /\ alive \in [Objects -> BOOLEAN]
  /\ own \in [Owners -> Objects \cup {None}]
  /\ torn \subseteq Objects

ThreadType ==
  /\ hold \in [Sharers -> Handles \cup {None}]
  /\ dying \in [Threads -> Handles \cup {None}]
  /\ pc \in [Threads -> Steps]
  /\ seen \in [Threads -> Int]

Counted == RefsType /\ CountExact /\ AliveWhileOwned

IInv == Counted /\ ThreadType /\ HandleLifetime /\ CallBalanced

-----------------------------------------------------------------------------
(* Counting owners.                                                         *)

(* The owners of an object are finitely many: as many as a natural number.  *)
LEMMA OwnersFinite ==
  ASSUME NEW o
  PROVE  IsFiniteSet(OwnersOf(o)) /\ Cardinality(OwnersOf(o)) \in Nat
  BY RefsAssumption, FS_Subset, FS_CardinalityType DEF OwnersOf

(* An owner that had nothing and gets a reference to o adds one to the      *)
(* owners of o, and to no others.                                           *)
LEMMA OwnerGained ==
  ASSUME RefsType, NEW k \in Owners, NEW o \in Objects,
         own[k] = None, own' = [own EXCEPT ![k] = o]
  PROVE  /\ Cardinality(OwnersOf(o)') = Cardinality(OwnersOf(o)) + 1
         /\ OwnersOf(o)' # {}
         /\ \A p \in Objects \ {o} : OwnersOf(p)' = OwnersOf(p)
<1>1. None \notin Objects
  BY RefsAssumption
<1>2. OwnersOf(o)' = OwnersOf(o) \cup {k} /\ k \notin OwnersOf(o)
  BY <1>1 DEF OwnersOf, RefsType
<1>3. Cardinality(OwnersOf(o)') = Cardinality(OwnersOf(o)) + 1
  BY <1>2, OwnersFinite, FS_AddElement
<1>4. \A p \in Objects \ {o} : OwnersOf(p)' = OwnersOf(p)
  BY <1>1 DEF OwnersOf, RefsType
<1> QED BY <1>2, <1>3, <1>4

(* An owner that gives up a reference to o takes one from the owners of o.  *)
LEMMA OwnerLost ==
  ASSUME RefsType, NEW k \in Owners, NEW o \in Objects,
         own[k] = o, own' = [own EXCEPT ![k] = None]
  PROVE  /\ Cardinality(OwnersOf(o)') = Cardinality(OwnersOf(o)) - 1
         /\ OwnersOf(o)' = {} <=> Cardinality(OwnersOf(o)) = 1
         /\ \A p \in Objects \ {o} : OwnersOf(p)' = OwnersOf(p)
<1>1. None \notin Objects
  BY RefsAssumption
<1>2. OwnersOf(o)' = OwnersOf(o) \ {k} /\ k \in OwnersOf(o)
  BY <1>1 DEF OwnersOf, RefsType
<1>3. Cardinality(OwnersOf(o)') = Cardinality(OwnersOf(o)) - 1
  BY <1>2, OwnersFinite, FS_RemoveElement
<1>4. IsFiniteSet(OwnersOf(o)')
  BY <1>2, OwnersFinite, FS_RemoveElement
<1>5. OwnersOf(o)' = {} <=> Cardinality(OwnersOf(o)') = 0
  BY <1>4, FS_EmptySet
<1>6. OwnersOf(o)' = {} <=> Cardinality(OwnersOf(o)) = 1
  BY <1>3, <1>5, OwnersFinite
<1>7. \A p \in Objects \ {o} : OwnersOf(p)' = OwnersOf(p)
  BY <1>1 DEF OwnersOf, RefsType
<1> QED BY <1>3, <1>6, <1>7

-----------------------------------------------------------------------------
(* What the steps of the counter preserve.                                  *)

(* Sharing an object that has an owner keeps its count exact.               *)
LEMMA ShareKeeps ==
  ASSUME Counted, NEW k \in Owners, NEW o \in Objects,
         \E j \in Owners : own[j] = o, Share(k, o, 1)
  PROVE  Counted'
<1>1. OwnersOf(o) # {}
  BY DEF OwnersOf
<1>2. RefsType'
  BY DEF Counted, RefsType, Share
<1>3. /\ Cardinality(OwnersOf(o)') = Cardinality(OwnersOf(o)) + 1
      /\ OwnersOf(o)' # {}
      /\ \A p \in Objects \ {o} : OwnersOf(p)' = OwnersOf(p)
  BY OwnerGained DEF Counted, Share
<1>4. CountExact'
  <2> SUFFICES ASSUME NEW p \in Objects \ torn
               PROVE  rc'[p] = Cardinality(OwnersOf(p)')
    BY DEF CountExact, Share
  <2>1. rc[p] = Cardinality(OwnersOf(p))
    BY DEF Counted, CountExact
  <2>2. rc' = [rc EXCEPT ![o] = @ + 1]
    BY DEF Share
  <2>3. CASE p = o
    BY <2>1, <2>2, <2>3, <1>3 DEF Counted, RefsType
  <2>4. CASE p # o
    BY <2>1, <2>2, <2>4, <1>3 DEF Counted, RefsType
  <2> QED BY <2>3, <2>4
<1>5. AliveWhileOwned'
  <2> SUFFICES ASSUME NEW p \in Objects \ torn
               PROVE  alive'[p] <=> OwnersOf(p)' # {}
    BY DEF AliveWhileOwned, Share
  <2>1. alive[p] <=> OwnersOf(p) # {}
    BY DEF Counted, AliveWhileOwned
  <2>2. alive' = alive
    BY DEF Share
  <2>3. CASE p = o
    BY <2>1, <2>2, <2>3, <1>1, <1>3
  <2>4. CASE p # o
    BY <2>1, <2>2, <2>4, <1>3
  <2> QED BY <2>3, <2>4
<1> QED BY <1>2, <1>4, <1>5 DEF Counted

(* An object that is made starts with one owner, and a count of one.        *)
LEMMA MakeKeeps ==
  ASSUME Counted, NEW k \in Owners, NEW o \in Objects, Make(k, o, 1)
  PROVE  Counted'
<1>1. OwnersOf(o) = {}
  BY DEF Counted, AliveWhileOwned, Make
<1>2. RefsType'
  BY DEF Counted, RefsType, Make
<1>3. /\ Cardinality(OwnersOf(o)') = Cardinality(OwnersOf(o)) + 1
      /\ OwnersOf(o)' # {}
      /\ \A p \in Objects \ {o} : OwnersOf(p)' = OwnersOf(p)
  BY OwnerGained DEF Counted, Make
<1>4. Cardinality(OwnersOf(o)') = 1
  BY <1>1, <1>3, FS_EmptySet
<1>5. /\ rc' = [rc EXCEPT ![o] = 1]
      /\ alive' = [alive EXCEPT ![o] = TRUE]
      /\ torn' = torn \ {o}
  BY DEF Make
<1>6. CountExact'
  <2> SUFFICES ASSUME NEW p \in Objects \ torn'
               PROVE  rc'[p] = Cardinality(OwnersOf(p)')
    BY DEF CountExact
  <2>1. CASE p = o
    BY <2>1, <1>4, <1>5 DEF Counted, RefsType
  <2>2. CASE p # o
    <3>1. rc[p] = Cardinality(OwnersOf(p))
      BY <2>2, <1>5 DEF Counted, CountExact
    <3> QED BY <2>2, <3>1, <1>3, <1>5 DEF Counted, RefsType
  <2> QED BY <2>1, <2>2
<1>7. AliveWhileOwned'
  <2> SUFFICES ASSUME NEW p \in Objects \ torn'
               PROVE  alive'[p] <=> OwnersOf(p)' # {}
    BY DEF AliveWhileOwned
  <2>1. CASE p = o
    BY <2>1, <1>3, <1>5 DEF Counted, RefsType
  <2>2. CASE p # o
    <3>1. alive[p] <=> OwnersOf(p) # {}
      BY <2>2, <1>5 DEF Counted, AliveWhileOwned
    <3> QED BY <2>2, <3>1, <1>3, <1>5 DEF Counted, RefsType
  <2> QED BY <2>1, <2>2
<1> QED BY <1>2, <1>6, <1>7 DEF Counted

(* A reference that is dropped frees its object when it was the last.       *)
LEMMA DropKeeps ==
  ASSUME Counted, NEW k \in Owners, Drop(k)
  PROVE  Counted'
<1>1. CASE own[k] = None
  <2>1. UNCHANGED <<rc, alive, own, torn>>
    BY <1>1 DEF Drop
  <2> QED BY <2>1 DEF Counted, RefsType, CountExact, AliveWhileOwned, OwnersOf
<1>2. CASE own[k] # None
  <2>1. PICK o \in Objects : o = own[k]
    BY <1>2 DEF Counted, RefsType
  <2>2. /\ own' = [own EXCEPT ![k] = None]
        /\ rc' = [rc EXCEPT ![o] = @ - 1]
        /\ alive' = [alive EXCEPT ![o] = @ /\ rc[o] # 1]
        /\ torn' = torn
    BY <1>2, <2>1 DEF Drop
  <2>3. /\ Cardinality(OwnersOf(o)') = Cardinality(OwnersOf(o)) - 1
        /\ OwnersOf(o)' = {} <=> Cardinality(OwnersOf(o)) = 1
        /\ \A p \in Objects \ {o} : OwnersOf(p)' = OwnersOf(p)
    BY <2>1, <2>2, OwnerLost DEF Counted
  <2>4. OwnersOf(o) # {}
    BY <2>1 DEF OwnersOf
  <2>5. RefsType'
    BY <2>1, <2>2 DEF Counted, RefsType
  <2>6. CountExact'
    <3> SUFFICES ASSUME NEW p \in Objects \ torn
                 PROVE  rc'[p] = Cardinality(OwnersOf(p)')
      BY <2>2 DEF CountExact
    <3>1. rc[p] = Cardinality(OwnersOf(p))
      BY DEF Counted, CountExact
    <3>2. CASE p = o
      BY <3>1, <3>2, <2>2, <2>3 DEF Counted, RefsType
    <3>3. CASE p # o
      BY <3>1, <3>3, <2>2, <2>3 DEF Counted, RefsType
    <3> QED BY <3>2, <3>3
  <2>7. AliveWhileOwned'
    <3> SUFFICES ASSUME NEW p \in Objects \ torn
                 PROVE  alive'[p] <=> OwnersOf(p)' # {}
      BY <2>2 DEF AliveWhileOwned
    <3>1. rc[p] = Cardinality(OwnersOf(p)) /\ (alive[p] <=> OwnersOf(p) # {})
      BY DEF Counted, CountExact, AliveWhileOwned
    <3>2. CASE p = o
      <4>1. alive'[o] <=> rc[o] # 1
        BY <3>1, <3>2, <2>1, <2>2, <2>4 DEF Counted, RefsType
      <4> QED BY <4>1, <3>1, <3>2, <2>3
    <3>3. CASE p # o
      <4>1. alive'[p] = alive[p]
        BY <3>3, <2>1, <2>2 DEF Counted, RefsType
      <4> QED BY <4>1, <3>1, <3>3, <2>3
    <3> QED BY <3>2, <3>3
  <2> QED BY <2>5, <2>6, <2>7 DEF Counted
<1> QED BY <1>1, <1>2

(* The store of an unlocked increment is exact when no other update came in *)
(* between; otherwise the object is one that lost an update.                *)
LEMMA StoreKeeps ==
  ASSUME Counted, NEW s \in Owners, NEW o \in Objects, NEW n \in Int,
         \E j \in Owners : own[j] = o, own[s] = None,
         own' = [own EXCEPT ![s] = o], rc' = [rc EXCEPT ![o] = n + 1],
         torn' = (IF rc[o] = n THEN torn ELSE torn \cup {o}), UNCHANGED alive
  PROVE  Counted'
<1>1. CASE rc[o] = n
  <2>1. Share(s, o, 1)
    BY <1>1 DEF Share, Counted, RefsType
  <2> QED BY <2>1, ShareKeeps
<1>2. CASE rc[o] # n
  <2>1. RefsType'
    BY <1>2 DEF Counted, RefsType
  <2>2. \A p \in Objects \ {o} : OwnersOf(p)' = OwnersOf(p)
    BY OwnerGained DEF Counted
  <2>3. CountExact'
    <3> SUFFICES ASSUME NEW p \in Objects \ torn'
                 PROVE  rc'[p] = Cardinality(OwnersOf(p)')
      BY DEF CountExact
    <3>1. p \in Objects \ torn /\ p # o
      BY <1>2
    <3>2. rc[p] = Cardinality(OwnersOf(p))
      BY <3>1 DEF Counted, CountExact
    <3> QED BY <3>1, <3>2, <2>2 DEF Counted, RefsType
  <2>4. AliveWhileOwned'
    <3> SUFFICES ASSUME NEW p \in Objects \ torn'
                 PROVE  alive'[p] <=> OwnersOf(p)' # {}
      BY DEF AliveWhileOwned
    <3>1. p \in Objects \ torn /\ p # o
      BY <1>2
    <3>2. alive[p] <=> OwnersOf(p) # {}
      BY <3>1 DEF Counted, AliveWhileOwned
    <3> QED BY <3>1, <3>2, <2>2
  <2> QED BY <2>1, <2>3, <2>4 DEF Counted
<1> QED BY <1>1, <1>2

-----------------------------------------------------------------------------
(* What the steps of handles and sharers preserve.                          *)

(* Steps of owners that are no handles, with the same sharers.              *)
LEMMA OtherOwnersKeep ==
  ASSUME HandleLifetime, ThreadType, UNCHANGED <<hold, dying>>,
         \A h \in Handles : own'[h] = own[h]
  PROVE  HandleLifetime'
  BY DEF HandleLifetime, ThreadType, Held

(* A new handle and its first sharer.                                       *)
LEMMA NewHandleKeeps ==
  ASSUME HandleLifetime, ThreadType, RefsType,
         NEW h \in Handles, NEW x \in Sharers, NEW o \in Objects,
         own[h] = None, own' = [own EXCEPT ![h] = o],
         Hold(x, h), UNCHANGED dying
  PROVE  HandleLifetime'
<1>1. None \notin Objects /\ None \notin Handles /\ h \in Owners
  BY RefsAssumption DEF Owners
<1>2. \A t \in Threads : dying[t] # h
  BY <1>1 DEF HandleLifetime
<1>3. \A y \in Sharers : hold[y] # h
  BY <1>1 DEF HandleLifetime
<1>4. hold' = [hold EXCEPT ![x] = h] /\ hold[x] = None
  BY DEF Hold
<1>5. \A g \in Handles : own'[g] = IF g = h THEN o ELSE own[g]
  BY <1>1 DEF RefsType, Owners
<1>6. \A y \in Sharers : hold'[y] = IF y = x THEN h ELSE hold[y]
  BY <1>4 DEF ThreadType
<1>7. \A y \in Sharers : hold'[y] # None => own'[hold'[y]] # None
  BY <1>1, <1>5, <1>6 DEF HandleLifetime, ThreadType
<1>8. \A g \in Handles : own'[g] # None => Held(g)' \/ \E t \in Threads : dying'[t] = g
  <2> SUFFICES ASSUME NEW g \in Handles, own'[g] # None
               PROVE  Held(g)' \/ \E t \in Threads : dying'[t] = g
    OBVIOUS
  <2>1. CASE g = h
    BY <2>1, <1>6 DEF Held
  <2>2. CASE g # h
    BY <2>2, <1>1, <1>4, <1>5, <1>6 DEF Held, HandleLifetime
  <2> QED BY <2>1, <2>2
<1>9. \A t \in Threads : dying'[t] # None =>
        /\ own'[dying'[t]] # None /\ ~Held(dying[t])'
        /\ \A u \in Threads \ {t} : dying'[u] # dying'[t]
  BY <1>2, <1>5, <1>6 DEF Held, HandleLifetime, ThreadType
<1> QED BY <1>7, <1>8, <1>9 DEF HandleLifetime

(* One more sharer of a handle that is shared.                              *)
LEMMA SharerKeeps ==
  ASSUME HandleLifetime, ThreadType,
         NEW x \in Sharers, NEW y \in Sharers, hold[y] # None,
         Hold(x, hold[y]), UNCHANGED <<own, dying>>
  PROVE  HandleLifetime'
<1>1. \A z \in Sharers : hold'[z] = IF z = x THEN hold[y] ELSE hold[z]
  BY DEF Hold, ThreadType
<1>2. hold[x] = None
  BY DEF Hold
<1>3. None \notin Handles
  BY RefsAssumption
<1>4. \A h \in Handles : Held(h)' <=> Held(h)
  BY <1>1, <1>2, <1>3 DEF Held
<1>5. \A z \in Sharers : hold'[z] # None => own'[hold'[z]] # None
  BY <1>1 DEF HandleLifetime
<1>6. \A t \in Threads : dying[t] # None => dying[t] \in Handles
  BY DEF ThreadType
<1>7. \A t \in Threads : dying[t] # None => ~Held(dying[t])'
  BY <1>4, <1>6 DEF HandleLifetime
<1>8. \A h \in Handles : own'[h] # None => Held(h)' \/ \E t \in Threads : dying'[t] = h
  BY <1>4 DEF HandleLifetime
<1>9. \A t \in Threads : dying'[t] # None =>
        /\ own'[dying'[t]] # None /\ ~Held(dying[t])'
        /\ \A u \in Threads \ {t} : dying'[u] # dying'[t]
  BY <1>7 DEF HandleLifetime
<1> QED BY <1>5, <1>8, <1>9 DEF HandleLifetime

(* A sharer lets go: either others share the handle, or its thread destroys *)
(* it.                                                                      *)
LEMMA LetGoKeeps ==
  ASSUME HandleLifetime, ThreadType,
         NEW t \in Threads, NEW x \in Sharers, dying[t] = None, LetGo(t, x),
         \A h \in Handles : own'[h] = own[h]
  PROVE  HandleLifetime'
<1>1. None \notin Handles
  BY RefsAssumption
<1>2. \A y \in Sharers : hold'[y] = IF y = x THEN None ELSE hold[y]
  BY DEF LetGo, ThreadType
<1>3. \A u \in Threads \ {t} : dying'[u] = dying[u]
  BY DEF LetGo, ThreadType
<1>4. \/ dying'[t] = None /\ \E y \in Sharers \ {x} : hold[y] = hold[x]
      \/ dying'[t] = hold[x] /\ ~\E y \in Sharers \ {x} : hold[y] = hold[x]
  BY DEF LetGo, ThreadType
<1>5. \A h \in Handles : Held(h)' => Held(h)
  BY <1>1, <1>2 DEF Held
<1>6. \A h \in Handles : Held(h) /\ ~Held(h)' => hold[x] = h /\ dying'[t] = h
  BY <1>1, <1>2, <1>4 DEF Held
<1>7. \A y \in Sharers : hold'[y] # None => own'[hold'[y]] # None
  BY <1>2 DEF HandleLifetime, ThreadType
<1>8. \A h \in Handles : own'[h] # None => Held(h)' \/ \E u \in Threads : dying'[u] = h
  <2> SUFFICES ASSUME NEW h \in Handles, own'[h] # None, ~Held(h)'
               PROVE  \E u \in Threads : dying'[u] = h
    OBVIOUS
  <2>1. CASE Held(h)
    BY <2>1, <1>6
  <2>2. CASE ~Held(h)
    <3>1. PICK u \in Threads : dying[u] = h
      BY <2>2 DEF HandleLifetime
    <3>2. u # t
      BY <3>1, <1>1
    <3> QED BY <3>1, <3>2, <1>3
  <2> QED BY <2>1, <2>2
<1>9. \A u \in Threads : dying'[u] # None =>
        /\ own'[dying'[u]] # None /\ ~Held(dying[u])'
        /\ \A w \in Threads \ {u} : dying'[w] # dying'[u]
  <2>1. \A u \in Threads : dying[u] \in Handles \cup {None}
    BY DEF ThreadType
  <2>2. \A u \in Threads : dying[u] # None => dying[u] # hold[x]
    BY DEF HandleLifetime, Held
  <2>3. ASSUME NEW u \in Threads, u # t, dying'[u] # None
        PROVE  /\ own'[dying'[u]] # None /\ ~Held(dying[u])'
               /\ \A w \in Threads \ {u} : dying'[w] # dying'[u]
    <3>1. dying'[u] = dying[u] /\ dying[u] \in Handles
      BY <2>1, <2>3, <1>3
    <3>2. own'[dying'[u]] # None /\ ~Held(dying[u])
      BY <3>1, <2>3 DEF HandleLifetime
    <3>3. ~Held(dying[u])'
      BY <3>1, <3>2, <1>2, <1>1 DEF Held
    <3>4. \A w \in Threads \ {u} : dying'[w] # dying'[u]
      <4> SUFFICES ASSUME NEW w \in Threads, w # u
                   PROVE  dying'[w] # dying[u]
        BY <3>1
      <4>1. CASE w = t
        BY <4>1, <3>1, <2>2, <2>3, <1>4
      <4>2. CASE w # t
        BY <4>2, <3>1, <2>3, <1>3 DEF HandleLifetime
      <4> QED BY <4>1, <4>2
    <3> QED BY <3>2, <3>3, <3>4
  <2>4. ASSUME dying'[t] # None
        PROVE  /\ own'[dying'[t]] # None /\ ~Held(dying[t])'
               /\ \A w \in Threads \ {t} : dying'[w] # dying'[t]
    <3>1. hold[x] \in Handles /\ own[hold[x]] # None /\ hold[x] # None
      BY <1>4, <2>4 DEF HandleLifetime, ThreadType, LetGo
    <3>2. dying'[t] = hold[x] /\ \A y \in Sharers \ {x} : hold[y] # hold[x]
      BY <1>4, <2>4
    <3>3. ~Held(dying[t])'
      BY <3>1, <3>2, <1>2 DEF Held
    <3>4. \A w \in Threads \ {t} : dying'[w] # dying'[t]
      BY <3>1, <3>2, <2>2, <1>3
    <3> QED BY <3>1, <3>2, <3>3, <3>4
  <2> QED BY <2>3, <2>4
<1> QED BY <1>7, <1>8, <1>9 DEF HandleLifetime

(* The handle that is destroyed has no sharer and no other destroyer.       *)
LEMMA DestroyKeeps ==
  ASSUME HandleLifetime, ThreadType, RefsType,
         NEW t \in Threads, dying[t] # None,
         dying' = [dying EXCEPT ![t] = None],
         own' = [own EXCEPT ![dying[t]] = None], UNCHANGED hold
  PROVE  HandleLifetime'
<1>1. PICK h \in Handles : h = dying[t]
  BY DEF ThreadType
<1>2. h \in Owners /\ \A g \in Handles : own'[g] = IF g = h THEN None ELSE own[g]
  BY <1>1 DEF Owners, RefsType
<1>3. \A u \in Threads : dying'[u] = IF u = t THEN None ELSE dying[u]
  BY DEF ThreadType
<1>4. ~Held(h) /\ \A u \in Threads \ {t} : dying[u] # h
  BY <1>1 DEF HandleLifetime
<1>5. \A x \in Sharers : hold'[x] # None => own'[hold'[x]] # None
  BY <1>2, <1>4 DEF HandleLifetime, ThreadType, Held
<1>6. \A g \in Handles : own'[g] # None => Held(g)' \/ \E u \in Threads : dying'[u] = g
  <2> SUFFICES ASSUME NEW g \in Handles, own'[g] # None, ~Held(g)'
               PROVE  \E u \in Threads : dying'[u] = g
    OBVIOUS
  <2>1. g # h /\ own[g] # None /\ ~Held(g)
    BY <1>2 DEF Held
  <2>2. PICK u \in Threads : dying[u] = g
    BY <2>1 DEF HandleLifetime
  <2> QED BY <2>1, <2>2, <1>1, <1>3
<1>7. \A u \in Threads : dying'[u] # None =>
        /\ own'[dying'[u]] # None /\ ~Held(dying[u])'
        /\ \A w \in Threads \ {u} : dying'[w] # dying'[u]
  BY <1>2, <1>3, <1>4 DEF HandleLifetime, ThreadType, Held
<1> QED BY <1>5, <1>6, <1>7 DEF HandleLifetime

-----------------------------------------------------------------------------
(* What the steps of a call preserve.                                       *)

(* A step of thread t leaves the calls of the others as they are.           *)
LEMMA OtherCallsKeep ==
  ASSUME CallBalanced, NEW t \in Threads, Balanced(t)',
         \A u \in Threads \ {t} :
           /\ pc'[u] = pc[u] /\ hold'[u] = hold[u]
           /\ hold'[<<"x", u>>] = hold[<<"x", u>>]
           /\ own'[<<"attrObj", u>>] = own[<<"attrObj", u>>]
           /\ own'[<<"argsObj", u>>] = own[<<"argsObj", u>>]
           /\ own'[<<"result", u>>] = own[<<"result", u>>]
           /\ own'[<<"temp", u>>] = own[<<"temp", u>>]
  PROVE  CallBalanced'
<1> SUFFICES ASSUME NEW u \in Threads, u # t
             PROVE  Balanced(u)'
  BY DEF CallBalanced
<1>1. Balanced(u)
  BY DEF CallBalanced
<1> QED BY <1>1 DEF Balanced

(* Steps that touch no thread's call.                                       *)
LEMMA CallsKeep ==
  ASSUME CallBalanced, UNCHANGED pc,
         \A u \in Threads :
           /\ hold'[u] = hold[u] /\ hold'[<<"x", u>>] = hold[<<"x", u>>]
           /\ own'[<<"attrObj", u>>] = own[<<"attrObj", u>>]
           /\ own'[<<"argsObj", u>>] = own[<<"argsObj", u>>]
           /\ own'[<<"result", u>>] = own[<<"result", u>>]
           /\ own'[<<"temp", u>>] = own[<<"temp", u>>]
  PROVE  CallBalanced'
<1> SUFFICES ASSUME NEW u \in Threads
             PROVE  Balanced(u)'
  BY DEF CallBalanced
<1>1. Balanced(u)
  BY DEF CallBalanced
<1> QED BY <1>1 DEF Balanced

(* Variables of Python, handles and locals of calls are different owners.   *)
LEMMA OwnersApart ==
  /\ None \notin Objects /\ None \notin Handles
  /\ \A s \in Slots : s \in Owners /\ s \notin Handles /\ s \notin Locals
  /\ \A h \in Handles : h \in Owners /\ h \notin Locals
  /\ \A t \in Threads : \A l \in {"attrObj", "argsObj", "result", "temp"} :
       <<l, t>> \in Owners /\ <<l, t>> \in Locals /\ <<l, t>> \notin Handles
  BY RefsAssumption DEF Owners, Locals

(* Variables, threads and their boxes are different sharers.                *)
LEMMA SharersApart ==
  /\ \A v \in Vars : v \in Sharers /\ v \notin Threads /\ v \notin Boxes
  /\ \A u \in Threads : u \in Sharers /\ <<"x", u>> \in Sharers
                          /\ <<"x", u>> \in Boxes /\ u \notin Boxes
  BY RefsAssumption DEF Sharers, Boxes

(* What a step on a sharer does to the sharers of the threads.              *)
LEMMA SharerChange ==
  ASSUME ThreadType, NEW x \in Sharers, NEW h, hold' = [hold EXCEPT ![x] = h]
  PROVE  /\ hold'[x] = h
         /\ \A u \in Threads : u # x => hold'[u] = hold[u]
         /\ \A u \in Threads : <<"x", u>> # x => hold'[<<"x", u>>] = hold[<<"x", u>>]
  BY SharersApart DEF ThreadType

(* What a step on an owner does to the owners.                              *)
LEMMA OwnChange ==
  ASSUME NEW k \in Owners,
         \/ \E o \in Objects, n \in Int : Share(k, o, n) \/ Make(k, o, n)
         \/ Drop(k),
         RefsType
  PROVE  \A j \in Owners \ {k} : own'[j] = own[j]
  BY DEF Share, Make, Drop, RefsType

(* The initial state has no references and satisfies the invariant.         *)
LEMMA InitInvariant == Init => IInv
<1> SUFFICES ASSUME Init PROVE IInv
  OBVIOUS
<1>1. None \notin Objects /\ None \notin Handles
  BY OwnersApart
<1>2. RefsType
  BY DEF Init, RefsType
<1>3. \A o \in Objects : OwnersOf(o) = {}
  BY <1>1 DEF Init, OwnersOf
<1>4. CountExact /\ AliveWhileOwned
  BY <1>3, FS_EmptySet DEF Init, CountExact, AliveWhileOwned
<1>5. ThreadType
  BY DEF Init, ThreadType, Steps
<1>6. HandleLifetime
  BY DEF Init, HandleLifetime, Held, Owners
<1>7. CallBalanced
  BY OwnersApart, SharersApart DEF Init, CallBalanced, Balanced, Accessing, Unboxing
<1> QED BY <1>2, <1>4, <1>5, <1>6, <1>7 DEF IInv, Counted

(* A step of Python code on a slot of its own.                              *)
LEMMA PyStepKeeps ==
  ASSUME IInv, PyStep
  PROVE  IInv'
<1>1. PICK s \in Slots :
        \/ \E o \in Objects : PyNew(s, o)
        \/ \E o \in InPython : PyCopy(s, o)
        \/ PyDrop(s)
  BY DEF PyStep
<1>2. s \in Owners /\ s \notin Handles /\ s \notin Locals
  BY OwnersApart
<1>3. UNCHANGED <<hold, dying, pc, seen>>
  BY <1>1 DEF PyNew, PyCopy, PyDrop
<1>4. \A o \in InPython : o \in Objects /\ \E j \in Owners : own[j] = o
  BY OwnersApart DEF InPython, IInv, Counted, RefsType
<1>5. Counted'
  <2>1. ASSUME NEW o \in Objects, PyNew(s, o) PROVE Counted'
    BY <2>1, <1>2, MakeKeeps DEF PyNew, IInv
  <2>2. ASSUME NEW o \in InPython, PyCopy(s, o) PROVE Counted'
    BY <2>2, <1>2, <1>4, ShareKeeps DEF PyCopy, IInv
  <2>3. ASSUME PyDrop(s) PROVE Counted'
    BY <2>3, <1>2, DropKeeps DEF PyDrop, IInv
  <2> QED BY <1>1, <2>1, <2>2, <2>3
<1>6. \A j \in Owners \ {s} : own'[j] = own[j]
  <2>1. \/ \E o \in Objects, n \in Int : Share(s, o, n) \/ Make(s, o, n)
        \/ Drop(s)
    BY <1>1, <1>4 DEF PyNew, PyCopy, PyDrop
  <2> QED BY <2>1, <1>2, OwnChange DEF IInv, Counted
<1>7. ThreadType'
  BY <1>3 DEF IInv, ThreadType
<1>8. HandleLifetime'
  BY <1>2, <1>3, <1>6, OtherOwnersKeep, OwnersApart DEF IInv
<1>9. CallBalanced'
  BY <1>2, <1>3, <1>6, CallsKeep, OwnersApart DEF IInv
<1> QED BY <1>5, <1>7, <1>8, <1>9 DEF IInv

(* A handle for an object, and its first sharer, whatever the call does     *)
(* with its other state.                                                    *)
LEMMA WrapKeeps ==
  ASSUME IInv, NEW t \in Threads, NEW p \in Steps, NEW q \in Steps,
         NEW h \in Handles, NEW x \in Sharers, NEW o \in Objects,
         Goes(t, p, q), Hold(x, h), UNCHANGED <<dying, seen>>,
         \/ Share(h, o, 1) /\ \E j \in Owners : own[j] = o
         \/ Make(h, o, 1)
  PROVE  /\ Counted' /\ ThreadType' /\ HandleLifetime'
         /\ \A j \in Locals : own'[j] = own[j]
<1>1. h \in Owners /\ h \notin Locals
  BY OwnersApart
<1>2. Counted'
  BY <1>1, ShareKeeps, MakeKeeps DEF IInv
<1>3. ThreadType'
  BY DEF IInv, ThreadType, Goes, Hold
<1>4. own[h] = None /\ own' = [own EXCEPT ![h] = o]
  BY DEF Share, Make
<1>5. HandleLifetime'
  BY <1>4, NewHandleKeeps DEF IInv, Counted
<1>6. \A j \in Locals : own'[j] = own[j]
  BY <1>1, <1>4 DEF IInv, Counted, RefsType, Owners
<1> QED BY <1>2, <1>3, <1>5, <1>6

(* The variable that a proxy is assigned to is the local of no call.        *)
LEMMA VarKeepsThreads ==
  ASSUME ThreadType, NEW v \in Vars, NEW h,
         hold' = [hold EXCEPT ![v] = h]
  PROVE  \A u \in Threads : /\ hold'[u] = hold[u]
                            /\ hold'[<<"x", u>>] = hold[<<"x", u>>]
  BY SharersApart, SharerChange

(* A step of a thread that is in no call, with the locals of all calls and  *)
(* the threads' handles unchanged.                                          *)
LEMMA IdleKeepsCalls ==
  ASSUME IInv, NEW t \in Threads, Goes(t, "idle", "idle"),
         \A u \in Threads : /\ hold'[u] = hold[u]
                            /\ hold'[<<"x", u>>] = hold[<<"x", u>>],
         \A j \in Locals : own'[j] = own[j]
  PROVE  CallBalanced'
<1>1. pc' = pc
  BY DEF Goes, IInv, ThreadType
<1> QED BY <1>1, CallsKeep, OwnersApart DEF IInv

(* An object that a proxy's handle refers to has an owner, and the handle   *)
(* a reference.                                                             *)
LEMMA SharedIsOwned ==
  ASSUME IInv, NEW x \in Sharers, hold[x] # None
  PROVE  /\ hold[x] \in Handles /\ hold[x] \in Owners
         /\ ObjectOf(x) \in Objects /\ \E j \in Owners : own[j] = ObjectOf(x)
<1>1. hold[x] \in Handles /\ own[hold[x]] # None
  BY DEF IInv, HandleLifetime, ThreadType
<1>2. hold[x] \in Owners
  BY <1>1, OwnersApart
<1> QED BY <1>1, <1>2 DEF ObjectOf, IInv, Counted, RefsType

(* What Goes says.                                                          *)
LEMMA Moved ==
  ASSUME ThreadType, NEW t \in Threads, NEW p, NEW q, Goes(t, p, q)
  PROVE  /\ dying[t] = None /\ pc[t] = p /\ pc'[t] = q
         /\ \A u \in Threads \ {t} : pc'[u] = pc[u]
  BY DEF Goes, ThreadType

(* A step of a call that changes no owner but a handle: with the locals as  *)
(* they were, the call is left to show.                                     *)
LEMMA SharerStepKeeps ==
  ASSUME IInv, NEW t \in Threads, NEW p, NEW q, Goes(t, p, q),
         \A j \in Locals : own'[j] = own[j],
         NEW x \in Sharers, NEW h, hold' = [hold EXCEPT ![x] = h],
         x \in Vars \cup {t, <<"x", t>>},
         Balanced(t)'
  PROVE  CallBalanced'
<1>1. \A u \in Threads \ {t} : u # x /\ <<"x", u>> # x
  <2> SUFFICES ASSUME NEW u \in Threads, u # t PROVE u # x /\ <<"x", u>> # x
    OBVIOUS
  <2>1. <<"x", u>> # <<"x", t>>
    OBVIOUS
  <2>2. CASE x \in Vars
    BY <2>2, SharersApart
  <2>3. CASE x = t
    BY <2>3, SharersApart
  <2>4. CASE x = <<"x", t>>
    BY <2>1, <2>4, SharersApart
  <2> QED BY <2>2, <2>3, <2>4
<1>2. \A u \in Threads \ {t} :
        hold'[u] = hold[u] /\ hold'[<<"x", u>>] = hold[<<"x", u>>]
  BY <1>1, SharersApart, SharerChange DEF IInv
<1>3. \A u \in Threads \ {t} : \A m \in {"attrObj", "argsObj", "result", "temp"} :
        own'[<<m, u>>] = own[<<m, u>>]
  BY OwnersApart
<1>4. \A u \in Threads \ {t} : pc'[u] = pc[u]
  BY Moved DEF IInv
<1> QED BY <1>2, <1>3, <1>4, OtherCallsKeep DEF IInv

(* A step that makes, copies, returns or drops a proxy.                     *)
LEMMA ProxyStepKeeps ==
  ASSUME IInv, NEW t \in Threads, ProxyStep(t)
  PROVE  IInv'
<1> USE DEF IInv
<1>0. /\ \A v \in Vars : v \in Sharers
      /\ \A u \in Threads : u \in Sharers
      /\ "idle" \in Steps /\ "storing" \in Steps
  BY DEF Sharers, Steps
<1>1. ASSUME NEW v \in Vars, NEW h \in Handles, NEW o \in InPython,
             WrapBorrowed(t, v, h, o)
      PROVE  IInv'
  <2>1. o \in Objects /\ \E j \in Owners : own[j] = o
    BY OwnersApart DEF InPython, Counted, RefsType
  <2>2. Share(h, o, 1) /\ Hold(v, h) /\ Goes(t, "idle", "idle")
        /\ UNCHANGED <<dying, seen>>
    BY <1>1 DEF WrapBorrowed, HandleCounts
  <2>3. /\ Counted' /\ ThreadType' /\ HandleLifetime'
        /\ \A j \in Locals : own'[j] = own[j]
    BY <2>1, <2>2, <1>0, WrapKeeps
  <2>4. CallBalanced'
    BY <2>2, <2>3, VarKeepsThreads, IdleKeepsCalls DEF Hold
  <2> QED BY <2>3, <2>4
<1>2. ASSUME NEW v \in Vars, NEW h \in Handles, NEW o \in Objects,
             WrapNew(t, v, h, o)
      PROVE  IInv'
  <2>1. Make(h, o, 1) /\ Hold(v, h) /\ Goes(t, "idle", "idle")
        /\ UNCHANGED <<dying, seen>>
    BY <1>2 DEF WrapNew, HandleCounts
  <2>2. /\ Counted' /\ ThreadType' /\ HandleLifetime'
        /\ \A j \in Locals : own'[j] = own[j]
    BY <2>1, <1>0, WrapKeeps
  <2>3. CallBalanced'
    BY <2>1, <2>2, VarKeepsThreads, IdleKeepsCalls DEF Hold
  <2> QED BY <2>2, <2>3
<1>3. ASSUME NEW v \in Vars, NEW w \in Vars, CopyProxy(t, v, w)
      PROVE  IInv'
  <2>1. UNCHANGED <<rc, alive, own, dying, seen, torn>>
    BY <1>3 DEF CopyProxy
  <2>2. hold[v] # None /\ Hold(w, hold[v]) /\ Goes(t, "idle", "idle")
    BY <1>3 DEF CopyProxy
  <2>3. Counted'
    BY <2>1 DEF Counted, RefsType, CountExact, AliveWhileOwned, OwnersOf
  <2>4. ThreadType'
    BY <2>1, <2>2, <1>0 DEF ThreadType, Hold, Goes
  <2>5. HandleLifetime'
    BY <2>1, <2>2, <1>0, SharerKeeps
  <2>6. CallBalanced'
    BY <2>1, <2>2, VarKeepsThreads, IdleKeepsCalls DEF Hold
  <2> QED BY <2>3, <2>4, <2>5, <2>6
<1>4. ASSUME NEW v \in Vars, DropProxy(t, v)
      PROVE  IInv'
  <2>1. UNCHANGED <<rc, alive, own, seen, torn>>
    BY <1>4 DEF DropProxy
  <2>2. LetGo(t, v) /\ Goes(t, "idle", "idle")
    BY <1>4 DEF DropProxy
  <2>3. Counted'
    BY <2>1 DEF Counted, RefsType, CountExact, AliveWhileOwned, OwnersOf
  <2>4. ThreadType'
    BY <2>1, <2>2, <1>0 DEF ThreadType, LetGo, Goes
  <2>5. HandleLifetime'
    BY <2>1, <2>2, <1>0, LetGoKeeps DEF Goes
  <2>6. CallBalanced'
    BY <2>1, <2>2, VarKeepsThreads, IdleKeepsCalls DEF LetGo
  <2> QED BY <2>3, <2>4, <2>5, <2>6
<1>5. ASSUME NEW v \in Vars, ReturnLoad(t, v)
      PROVE  IInv'
  <2>1. UNCHANGED <<rc, alive, own, dying, torn>>
    BY <1>5 DEF ReturnLoad
  <2>2. hold[v] # None /\ Hold(t, hold[v]) /\ Goes(t, "idle", "storing")
    BY <1>5 DEF ReturnLoad, Mine
  <2>3. Counted'
    BY <2>1 DEF Counted, RefsType, CountExact, AliveWhileOwned, OwnersOf
  <2>4. ThreadType'
    <3>1. rc[ObjectOf(v)] \in Int
      BY <2>2, <1>0, SharedIsOwned DEF Counted, RefsType
    <3> QED BY <3>1, <2>1, <2>2, <1>0, <1>5 DEF ThreadType, Hold, Goes, ReturnLoad, Load
  <2>5. HandleLifetime'
    BY <2>1, <2>2, <1>0, SharerKeeps
  <2>6. pc[t] = "idle" /\ pc'[t] = "storing"
    BY <2>2, Moved
  <2>7. hold'[t] # None /\ hold'[<<"x", t>>] = hold[<<"x", t>>]
    BY <2>2, <1>0, SharersApart, SharerChange DEF Hold
  <2>8. Balanced(t)'
    BY <2>1, <2>6, <2>7 DEF CallBalanced, Balanced, Accessing, Unboxing
  <2>9. CallBalanced'
    BY <2>1, <2>2, <2>8, <1>0, SharerStepKeeps DEF Hold
  <2> QED BY <2>3, <2>4, <2>5, <2>9
<1>6. ASSUME NEW s \in Slots, ReturnStore(t, s)
      PROVE  IInv'
  <2>1. hold[t] # None
    BY <1>6 DEF ReturnStore, Goes, CallBalanced, Balanced
  <2>2. PICK o \in Objects : o = ObjectOf(t) /\ \E j \in Owners : own[j] = o
    BY <2>1, <1>0, SharedIsOwned
  <2>3. /\ own[s] = None /\ own' = [own EXCEPT ![s] = o]
        /\ rc' = [rc EXCEPT ![o] = seen[t] + 1]
        /\ torn' = IF rc[o] = seen[t] THEN torn ELSE torn \cup {o}
        /\ UNCHANGED alive
    BY <1>6, <2>2 DEF ReturnStore, Store
  <2>4. LetGo(t, t) /\ Goes(t, "storing", "idle") /\ seen' = [seen EXCEPT ![t] = 0]
    BY <1>6 DEF ReturnStore, Store
  <2>5. Counted'
    BY <2>2, <2>3, StoreKeeps, OwnersApart DEF ThreadType
  <2>6. ThreadType'
    BY <2>4, <1>0 DEF ThreadType, LetGo, Goes
  <2>7. \A h \in Handles \cup Locals : own'[h] = own[h]
    BY <2>3, OwnersApart DEF Counted, RefsType, Owners
  <2>8. HandleLifetime'
    BY <2>4, <2>7, <1>0, LetGoKeeps DEF Goes
  <2>9. pc[t] = "storing" /\ pc'[t] = "idle"
    BY <2>4, Moved
  <2>10. hold'[t] = None /\ hold'[<<"x", t>>] = hold[<<"x", t>>]
    BY <2>4, <1>0, SharersApart, SharerChange DEF LetGo
  <2>11. Balanced(t)'
    BY <2>7, <2>9, <2>10, OwnersApart DEF CallBalanced, Balanced, Accessing, Unboxing
  <2>12. CallBalanced'
    BY <2>4, <2>7, <2>11, <1>0, SharerStepKeeps DEF LetGo
  <2> QED BY <2>5, <2>6, <2>8, <2>12
<1>7. ASSUME Destroy(t)
      PROVE  IInv'
  <2>1. dying[t] # None /\ dying' = [dying EXCEPT ![t] = None] /\ Drop(dying[t])
        /\ UNCHANGED <<hold, pc, seen>>
    BY <1>7 DEF Destroy
  <2>2. dying[t] \in Handles /\ own[dying[t]] # None
    BY <2>1 DEF ThreadType, HandleLifetime
  <2>3. dying[t] \in Owners /\ dying[t] \notin Locals
    BY <2>2, OwnersApart
  <2>4. Counted'
    BY <2>1, <2>3, DropKeeps
  <2>5. ThreadType'
    BY <2>1 DEF ThreadType
  <2>6. own' = [own EXCEPT ![dying[t]] = None]
    BY <2>1, <2>2 DEF Drop
  <2>7. HandleLifetime'
    BY <2>1, <2>6, DestroyKeeps DEF Counted
  <2>8. \A j \in Locals : own'[j] = own[j]
    BY <2>3, <2>6 DEF Counted, RefsType, Owners
  <2>9. CallBalanced'
    BY <2>1, <2>8, CallsKeep, OwnersApart
  <2> QED BY <2>4, <2>5, <2>7, <2>9
<1> QED BY <1>1, <1>2, <1>3, <1>4, <1>5, <1>6, <1>7 DEF ProxyStep

(* A step of a call on one of its locals l, with the same sharers: the      *)
(* counts and the handles are as they should be, and so are the others'     *)
(* calls; the call itself is left to show.                                  *)
LEMMA LocalStepKeeps ==
  ASSUME IInv, NEW t \in Threads, NEW p \in Steps, NEW q \in Steps,
         NEW l \in {"attrObj", "argsObj", "result", "temp"},
         Goes(t, p, q), UNCHANGED <<hold, dying, seen>>,
         \/ \E o \in Objects : /\ \E j \in Owners : own[j] = o
                               /\ Share(<<l, t>>, o, 1)
         \/ \E o \in Objects : Make(<<l, t>>, o, 1)
         \/ Drop(<<l, t>>),
         Balanced(t)'
  PROVE  IInv'
<1>1. <<l, t>> \in Owners /\ <<l, t>> \notin Handles
  BY OwnersApart
<1>2. Counted'
  BY <1>1, ShareKeeps, MakeKeeps, DropKeeps DEF IInv
<1>3. ThreadType'
  BY DEF IInv, ThreadType, Goes
<1>4. \A j \in Owners \ {<<l, t>>} : own'[j] = own[j]
  BY <1>1, OwnChange DEF IInv, Counted
<1>5. HandleLifetime'
  BY <1>1, <1>4, OtherOwnersKeep, OwnersApart DEF IInv
<1>6. \A u \in Threads \ {t} : \A m \in {"attrObj", "argsObj", "result", "temp"} :
        own'[<<m, u>>] = own[<<m, u>>]
  BY <1>4, OwnersApart
<1>7. \A u \in Threads \ {t} : pc'[u] = pc[u]
  BY DEF Goes, IInv, ThreadType
<1>8. CallBalanced'
  BY <1>6, <1>7, OtherCallsKeep DEF IInv
<1> QED BY <1>2, <1>3, <1>5, <1>8 DEF IInv

(* A reference that is taken or dropped changes its owner's entry only.     *)
LEMMA LocalTaken ==
  ASSUME RefsType, NEW t \in Threads, NEW l \in {"attrObj", "argsObj", "result", "temp"},
         NEW o, Share(<<l, t>>, o, 1) \/ Make(<<l, t>>, o, 1)
  PROVE  /\ own'[<<l, t>>] = o
         /\ \A m \in {"attrObj", "argsObj", "result", "temp"} \ {l} :
              own'[<<m, t>>] = own[<<m, t>>]
<1>1. <<l, t>> \in Owners
  BY OwnersApart
<1>2. \A m \in {"attrObj", "argsObj", "result", "temp"} \ {l} :
        <<m, t>> \in Owners /\ <<m, t>> # <<l, t>>
  BY OwnersApart
<1> QED BY <1>1, <1>2 DEF Share, Make, RefsType

LEMMA LocalDropped ==
  ASSUME RefsType, NEW t \in Threads, NEW l \in {"attrObj", "argsObj", "result", "temp"},
         Drop(<<l, t>>)
  PROVE  /\ own'[<<l, t>>] = None
         /\ \A m \in {"attrObj", "argsObj", "result", "temp"} \ {l} :
              own'[<<m, t>>] = own[<<m, t>>]
<1>1. <<l, t>> \in Owners
  BY OwnersApart
<1>2. \A m \in {"attrObj", "argsObj", "result", "temp"} \ {l} :
        <<m, t>> \in Owners /\ <<m, t>> # <<l, t>>
  BY OwnersApart
<1> QED BY <1>1, <1>2 DEF Drop, RefsType

(* The steps of call() that make a handle for an object that has an owner,  *)
(* or for a new one.                                                        *)
LEMMA HandleStepKeeps ==
  ASSUME IInv, NEW t \in Threads,
         \/ \E v \in Vars, h \in Handles : CallField(t, v, h) \/ CallWrap(t, v, h)
         \/ \E h \in Handles, o \in Objects : CallConvertArg(t, h, o)
         \/ \E h \in Handles : CallBox(t, h)
  PROVE  IInv'
<1> USE DEF IInv
<1>0. /\ {"located", "dropAttr", "returned", "wrapped", "accessed", "answered",
          "gotArg", "accessing", "setting", "boxed"} \subseteq Steps
      /\ t \in Sharers /\ <<"x", t>> \in Sharers /\ \A v \in Vars : v \in Sharers
  BY SharersApart DEF Steps, Accessing, Unboxing
<1>1. Balanced(t)
  BY DEF CallBalanced
<1>2. ASSUME NEW v \in Vars, NEW h \in Handles, CallField(t, v, h) \/ CallWrap(t, v, h)
      PROVE  IInv'
  <2>1. PICK p, q, l :
          /\ \/ l = "attrObj" /\ p = "located" /\ q = "dropAttr"
             \/ l = "result" /\ p = "returned" /\ q = "wrapped"
             \/ l = "result" /\ p = "accessed" /\ q = "answered"
          /\ Goes(t, p, q) /\ Share(h, own[<<l, t>>], 1)
          /\ Hold(v, h) /\ UNCHANGED <<dying, seen>>
    BY <1>2 DEF CallField, CallWrap, HandleCounts
  <2>2. pc[t] = p /\ pc'[t] = q
    BY <2>1, Moved
  <2>3. own[<<l, t>>] # None /\ <<l, t>> \in Owners
    BY <1>1, <2>1, <2>2, OwnersApart DEF Balanced, Accessing, Unboxing
  <2>4. own[<<l, t>>] \in Objects /\ \E j \in Owners : own[j] = own[<<l, t>>]
    BY <2>3 DEF Counted, RefsType
  <2>5. /\ Counted' /\ ThreadType' /\ HandleLifetime'
        /\ \A j \in Locals : own'[j] = own[j]
    BY <2>1, <2>4, <1>0, WrapKeeps
  <2>6. hold'[t] = hold[t] /\ hold'[<<"x", t>>] = hold[<<"x", t>>]
    BY <2>1, VarKeepsThreads DEF Hold
  <2>7. Balanced(t)'
    BY <1>1, <2>1, <2>2, <2>5, <2>6, OwnersApart DEF Balanced, Accessing, Unboxing
  <2>8. CallBalanced'
    BY <2>1, <2>5, <2>7, <1>0, SharerStepKeeps DEF Hold
  <2> QED BY <2>5, <2>8
<1>3. ASSUME NEW h \in Handles, NEW o \in Objects, CallConvertArg(t, h, o)
      PROVE  IInv'
  <2>1. PICK p \in {"located", "accessing"}, q \in {"gotArg", "setting"} :
          /\ \/ p = "located" /\ q = "gotArg"
             \/ p = "accessing" /\ q = "setting"
          /\ Goes(t, p, q) /\ Make(h, o, 1) /\ Hold(t, h) /\ UNCHANGED <<dying, seen>>
    BY <1>3 DEF CallConvertArg, HandleCounts
  <2>2. pc[t] = p /\ pc'[t] = q
    BY <2>1, Moved
  <2>3. /\ Counted' /\ ThreadType' /\ HandleLifetime'
        /\ \A j \in Locals : own'[j] = own[j]
    BY <2>1, <1>0, WrapKeeps
  <2>4. hold'[t] = h /\ h # None /\ hold'[<<"x", t>>] = hold[<<"x", t>>]
    BY <2>1, <1>0, SharersApart, SharerChange, OwnersApart DEF Hold
  <2>5. Balanced(t)'
    BY <1>1, <2>1, <2>2, <2>3, <2>4, OwnersApart DEF Balanced, Accessing, Unboxing
  <2>6. CallBalanced'
    BY <2>1, <2>3, <2>5, <1>0, SharerStepKeeps DEF Hold
  <2> QED BY <2>3, <2>6
<1>4. ASSUME NEW h \in Handles, CallBox(t, h)
      PROVE  IInv'
  <2>1. /\ Goes(t, "returned", "boxed") /\ Share(h, own[<<"result", t>>], 1)
        /\ Hold(<<"x", t>>, h) /\ UNCHANGED <<dying, seen>>
    BY <1>4 DEF CallBox, HandleCounts
  <2>2. pc[t] = "returned" /\ pc'[t] = "boxed"
    BY <2>1, Moved
  <2>3. own[<<"result", t>>] # None /\ <<"result", t>> \in Owners
    BY <1>1, <2>2, OwnersApart DEF Balanced, Accessing, Unboxing
  <2>4. own[<<"result", t>>] \in Objects /\ \E j \in Owners : own[j] = own[<<"result", t>>]
    BY <2>3 DEF Counted, RefsType
  <2>5. /\ Counted' /\ ThreadType' /\ HandleLifetime'
        /\ \A j \in Locals : own'[j] = own[j]
    BY <2>1, <2>4, <1>0, WrapKeeps
  <2>6. hold'[<<"x", t>>] = h /\ h # None /\ hold'[t] = hold[t]
    BY <2>1, <1>0, SharersApart, SharerChange, OwnersApart DEF Hold
  <2>7. Balanced(t)'
    BY <1>1, <2>2, <2>5, <2>6, OwnersApart DEF Balanced, Accessing, Unboxing
  <2>8. CallBalanced'
    BY <2>1, <2>5, <2>7, <1>0, SharerStepKeeps DEF Hold
  <2> QED BY <2>5, <2>8
<1> QED BY <1>2, <1>3, <1>4

(* The steps of call() that take or drop a reference of one of its locals.  *)
LEMMA OwnStepKeeps ==
  ASSUME IInv, NEW t \in Threads,
         \/ \E v \in Vars, o \in Objects : CallLocate(t, v, o) \/ AccessStart(t, v, o)
         \/ CallPushArg(t) \/ AccessAssign(t)
         \/ \E o \in Objects : CallReturn(t, o) \/ AccessGet(t, o)
         \/ DropResult(t) \/ DropArgs(t) \/ DropAttr(t) \/ DropTemp(t)
         \/ AccessEmpty(t) \/ AccessEnd(t)
  PROVE  IInv'
<1> USE DEF IInv
<1>0. /\ {"idle", "located", "gotArg", "pushed", "returned", "wrapped",
          "dropHandles", "dropArgs", "dropAttr", "accessing", "fetched", "emptied",
          "assigned", "accessed", "answered", "unboxed", "converted"} \subseteq Steps
      /\ t \in Sharers /\ \A v \in Vars : v \in Sharers
  BY SharersApart DEF Steps, Accessing, Unboxing
<1>1. Balanced(t)
  BY DEF CallBalanced
<1>2. \A j \in Owners : own[j] # None =>
        own[j] \in Objects /\ \E k \in Owners : own[k] = own[j]
  BY DEF Counted, RefsType
<1>3. \A o \in InPython : o \in Objects /\ \E j \in Owners : own[j] = o
  BY OwnersApart DEF InPython, Counted, RefsType
<1>4. ASSUME \/ \E v \in Vars, o \in Objects : CallLocate(t, v, o) \/ AccessStart(t, v, o)
             \/ \E o \in Objects : CallReturn(t, o) \/ AccessGet(t, o)
             \/ CallPushArg(t) \/ AccessAssign(t)
      PROVE  IInv'
  <2>1. PICK l \in {"attrObj", "argsObj", "result", "temp"}, p \in Steps, q \in Steps,
             o \in Objects :
          /\ \/ l = "attrObj" /\ p = "idle" /\ q = "located"
             \/ l = "result" /\ p = "idle" /\ q = "accessing"
             \/ l = "result" /\ p = "pushed" /\ q = "returned"
             \/ l = "temp" /\ p = "accessing" /\ q = "fetched"
             \/ l = "argsObj" /\ p = "gotArg" /\ q = "pushed"
             \/ l = "result" /\ p = "emptied" /\ q = "assigned"
          /\ Goes(t, p, q) /\ UNCHANGED <<hold, dying, seen>>
          /\ \/ (\E j \in Owners : own[j] = o) /\ Share(<<l, t>>, o, 1)
             \/ Make(<<l, t>>, o, 1)
    <3>1. ASSUME NEW v \in Vars, NEW o \in Objects, CallLocate(t, v, o)
          PROVE  Share(<<"attrObj", t>>, o, 1) /\ \E j \in Owners : own[j] = o
      <4>1. CASE o = ObjectOf(v)
        BY <4>1, <1>0, <3>1, SharedIsOwned DEF CallLocate, Mine
      <4>2. CASE o \in InPython
        BY <4>2, <3>1, <1>3 DEF CallLocate
      <4> QED BY <4>1, <4>2, <3>1 DEF CallLocate
    <3>2. ASSUME NEW v \in Vars, NEW o \in Objects, AccessStart(t, v, o)
          PROVE  Share(<<"result", t>>, o, 1) /\ \E j \in Owners : own[j] = o
      BY <3>2, <1>3 DEF AccessStart
    <3>3. ASSUME NEW o \in Objects, CallReturn(t, o)
          PROVE  \/ (\E j \in Owners : own[j] = o) /\ Share(<<"result", t>>, o, 1)
                 \/ Make(<<"result", t>>, o, 1)
      BY <3>3, <1>3, OwnersApart DEF CallReturn
    <3>4. ASSUME NEW o \in Objects, AccessGet(t, o)
          PROVE  \/ (\E j \in Owners : own[j] = o) /\ Share(<<"temp", t>>, o, 1)
                 \/ Make(<<"temp", t>>, o, 1)
      BY <3>4, <1>3 DEF AccessGet
    <3>5. ASSUME CallPushArg(t)
          PROVE  /\ Goes(t, "gotArg", "pushed") /\ UNCHANGED <<hold, dying, seen>>
                 /\ ObjectOf(t) \in Objects /\ \E j \in Owners : own[j] = ObjectOf(t)
                 /\ Share(<<"argsObj", t>>, ObjectOf(t), 1)
      <4>1. Goes(t, "gotArg", "pushed") /\ UNCHANGED <<hold, dying, seen>>
            /\ Share(<<"argsObj", t>>, ObjectOf(t), 1)
        BY <3>5 DEF CallPushArg
      <4>2. hold[t] # None
        BY <4>1, <1>1, Moved DEF Balanced
      <4> QED BY <4>1, <4>2, <1>0, SharedIsOwned
    <3>6. ASSUME AccessAssign(t)
          PROVE  /\ Goes(t, "emptied", "assigned") /\ UNCHANGED <<hold, dying, seen>>
                 /\ own[<<"temp", t>>] \in Objects
                 /\ \E j \in Owners : own[j] = own[<<"temp", t>>]
                 /\ Share(<<"result", t>>, own[<<"temp", t>>], 1)
      <4>1. Goes(t, "emptied", "assigned") /\ UNCHANGED <<hold, dying, seen>>
            /\ Share(<<"result", t>>, own[<<"temp", t>>], 1)
        BY <3>6 DEF AccessAssign
      <4>2. own[<<"temp", t>>] # None
        BY <4>1, <1>1, Moved DEF Balanced
      <4> QED BY <4>1, <4>2, <1>2, OwnersApart
    <3>7. ASSUME \E v \in Vars, o \in Objects : CallLocate(t, v, o) \/ AccessStart(t, v, o)
          PROVE  \E o \in Objects :
                   /\ UNCHANGED <<hold, dying, seen>> /\ \E j \in Owners : own[j] = o
                   /\ \/ Goes(t, "idle", "located") /\ Share(<<"attrObj", t>>, o, 1)
                      \/ Goes(t, "idle", "accessing") /\ Share(<<"result", t>>, o, 1)
      BY <3>7, <3>1, <3>2 DEF CallLocate, AccessStart
    <3>8. ASSUME \E o \in Objects : CallReturn(t, o) \/ AccessGet(t, o)
          PROVE  \E o \in Objects :
                   /\ UNCHANGED <<hold, dying, seen>>
                   /\ \/ /\ Goes(t, "pushed", "returned")
                         /\ \/ (\E j \in Owners : own[j] = o) /\ Share(<<"result", t>>, o, 1)
                            \/ Make(<<"result", t>>, o, 1)
                      \/ /\ Goes(t, "accessing", "fetched")
                         /\ \/ (\E j \in Owners : own[j] = o) /\ Share(<<"temp", t>>, o, 1)
                            \/ Make(<<"temp", t>>, o, 1)
      BY <3>8, <3>3, <3>4 DEF CallReturn, AccessGet
    <3> QED BY <1>0, <1>4, <3>5, <3>6, <3>7, <3>8
  <2>2. pc[t] = p /\ pc'[t] = q
    BY <2>1, Moved
  <2>3. /\ own'[<<l, t>>] = o /\ o # None
        /\ \A m \in {"attrObj", "argsObj", "result", "temp"} \ {l} :
             own'[<<m, t>>] = own[<<m, t>>]
    BY <2>1, LocalTaken, OwnersApart, ZenonT(30) DEF Counted
  <2>4. Balanced(t)'
    BY <1>1, <2>1, <2>2, <2>3 DEF Balanced, Accessing, Unboxing
  <2> QED BY <2>1, <2>4, LocalStepKeeps
<1>5. ASSUME \/ DropResult(t) \/ DropArgs(t) \/ DropAttr(t) \/ DropTemp(t)
             \/ AccessEmpty(t) \/ AccessEnd(t)
      PROVE  IInv'
  <2>1. PICK l \in {"attrObj", "argsObj", "result", "temp"}, p \in Steps, q \in Steps :
          /\ \/ l = "result" /\ p = "wrapped" /\ q = "dropHandles"
             \/ l = "argsObj" /\ p = "dropArgs" /\ q = "dropAttr"
             \/ l = "attrObj" /\ p = "dropAttr" /\ q = "idle"
             \/ l = "temp" /\ p = "unboxed" /\ q = "converted"
             \/ l = "temp" /\ p = "assigned" /\ q = "accessed"
             \/ l = "result" /\ p = "fetched" /\ q = "emptied"
             \/ l = "result" /\ p \in {"accessing", "accessed", "answered"} /\ q = "idle"
          /\ Goes(t, p, q) /\ Drop(<<l, t>>) /\ UNCHANGED <<hold, dying, seen>>
    BY <1>0, <1>5 DEF DropResult, DropArgs, DropAttr, DropTemp, AccessEmpty, AccessEnd
  <2>2. pc[t] = p /\ pc'[t] = q
    BY <2>1, Moved
  <2>3. /\ own'[<<l, t>>] = None
        /\ \A m \in {"attrObj", "argsObj", "result", "temp"} \ {l} :
             own'[<<m, t>>] = own[<<m, t>>]
    BY <2>1, LocalDropped DEF Counted
  <2>4. Balanced(t)'
    BY <1>1, <2>1, <2>2, <2>3 DEF Balanced, Accessing, Unboxing
  <2> QED BY <2>1, <2>4, LocalStepKeeps
<1> QED BY <1>4, <1>5

(* The steps of call() that leave all counters alone.                       *)
LEMMA QuietStepKeeps ==
  ASSUME IInv, NEW t \in Threads,
         \/ \E w \in Vars : CallShareArg(t, w)
         \/ CallNoArgs(t) \/ CallRaise(t) \/ UnboxLoad(t)
         \/ DropArgHandles(t) \/ DropBox(t)
  PROVE  IInv'
<1> USE DEF IInv
<1>0. /\ {"located", "gotArg", "pushed", "wrapped", "dropHandles", "dropArgs",
          "accessing", "setting", "accessed", "boxed", "unboxing",
          "converted"} \subseteq Steps
      /\ t \in Sharers /\ <<"x", t>> \in Sharers /\ t \notin Boxes
      /\ <<"x", t>> \in Boxes /\ \A v \in Vars : v \in Sharers
  BY SharersApart DEF Steps, Accessing, Unboxing
<1>1. Balanced(t)
  BY DEF CallBalanced
<1>2. UNCHANGED <<rc, alive, own, torn>>
  BY DEF CallShareArg, CallNoArgs, CallRaise, UnboxLoad, DropArgHandles, DropBox
<1>3. Counted'
  BY <1>2 DEF Counted, RefsType, CountExact, AliveWhileOwned, OwnersOf
<1>4. ASSUME NEW w \in Vars, CallShareArg(t, w)
      PROVE  IInv'
  <2>1. PICK p \in {"located", "accessing"}, q \in {"gotArg", "setting"} :
          /\ \/ p = "located" /\ q = "gotArg"
             \/ p = "accessing" /\ q = "setting"
          /\ Goes(t, p, q) /\ hold[w] # None /\ Hold(t, hold[w])
          /\ UNCHANGED <<dying, seen>>
    BY <1>4 DEF CallShareArg, Mine
  <2>2. pc[t] = p /\ pc'[t] = q
    BY <2>1, Moved
  <2>3. ThreadType'
    BY <2>1, <1>0 DEF ThreadType, Hold, Goes
  <2>4. HandleLifetime'
    BY <2>1, <1>0, <1>2, SharerKeeps
  <2>5. hold'[t] # None /\ hold'[<<"x", t>>] = hold[<<"x", t>>]
    BY <2>1, <1>0, SharerChange DEF Hold
  <2>6. Balanced(t)'
    BY <1>1, <1>2, <2>1, <2>2, <2>5 DEF Balanced, Accessing, Unboxing
  <2>7. CallBalanced'
    BY <2>1, <2>6, <1>0, <1>2, SharerStepKeeps DEF Hold
  <2> QED BY <1>3, <2>3, <2>4, <2>7
<1>5. ASSUME CallNoArgs(t) \/ CallRaise(t) \/ UnboxLoad(t)
      PROVE  IInv'
  <2>1. PICK p, q :
          /\ \/ p = "located" /\ q = "pushed"
             \/ p \in {"located", "pushed"} /\ q = "dropHandles"
             \/ p = "boxed" /\ q = "unboxing"
          /\ Goes(t, p, q) /\ UNCHANGED <<hold, dying>>
    BY <1>5 DEF CallNoArgs, CallRaise, UnboxLoad
  <2>2. /\ pc[t] = p /\ pc'[t] = q
        /\ \A u \in Threads \ {t} : pc'[u] = pc[u]
    BY <2>1, Moved
  <2>3. seen' \in [Threads -> Int]
    <3>1. CASE UnboxLoad(t)
      <4>1. hold[<<"x", t>>] # None
        BY <3>1, <1>1, Moved DEF Balanced, Unboxing, UnboxLoad
      <4>2. rc[ObjectOf(<<"x", t>>)] \in Int
        BY <4>1, <1>0, SharedIsOwned DEF Counted, RefsType
      <4> QED BY <3>1, <4>2 DEF UnboxLoad, Load, ThreadType
    <3>2. CASE CallNoArgs(t) \/ CallRaise(t)
      BY <3>2 DEF CallNoArgs, CallRaise, ThreadType
    <3> QED BY <1>5, <3>1, <3>2
  <2>4. ThreadType'
    BY <2>1, <2>3, <1>0 DEF ThreadType, Goes
  <2>5. HandleLifetime'
    BY <2>1, <1>2, OtherOwnersKeep
  <2>6. Balanced(t)'
    BY <1>1, <1>2, <2>1, <2>2 DEF Balanced, Accessing, Unboxing
  <2>7. CallBalanced'
    BY <2>1, <2>2, <2>6, <1>2, OtherCallsKeep
  <2> QED BY <1>3, <2>4, <2>5, <2>7
<1>6. ASSUME DropArgHandles(t) \/ DropBox(t)
      PROVE  IInv'
  <2>1. PICK p \in Steps, q \in Steps, x \in {t, <<"x", t>>} :
          /\ \/ x = t /\ p = "dropHandles" /\ q = "dropArgs"
             \/ x = t /\ p = "setting" /\ q = "accessed"
             \/ x = <<"x", t>> /\ p \in {"converted", "boxed"} /\ q = "wrapped"
          /\ Goes(t, p, q) /\ LetGo(t, x) /\ UNCHANGED seen
    BY <1>0, <1>6 DEF DropArgHandles, DropBox
  <2>2. pc[t] = p /\ pc'[t] = q /\ dying[t] = None
    BY <2>1, Moved
  <2>3. x \in Sharers /\ hold' = [hold EXCEPT ![x] = None]
    BY <2>1, <1>0 DEF LetGo
  <2>4. ThreadType'
    BY <2>1, <2>3, <1>0 DEF ThreadType, LetGo, Goes
  <2>5. HandleLifetime'
    BY <2>1, <2>2, <2>3, <1>2, LetGoKeeps
  <2>6. /\ hold'[x] = None
        /\ x = t => hold'[<<"x", t>>] = hold[<<"x", t>>]
        /\ x # t => hold'[t] = hold[t]
    BY <2>3, <1>0, SharerChange
  <2>7. Balanced(t)'
    <3>1. CASE x = t
      BY <3>1, <1>0, <1>1, <1>2, <2>1, <2>2, <2>6 DEF Balanced, Accessing, Unboxing
    <3>2. CASE x = <<"x", t>> /\ x # t
      BY <3>2, <1>1, <1>2, <2>1, <2>2, <2>6 DEF Balanced, Accessing, Unboxing
    <3> QED BY <3>1, <3>2
  <2>8. CallBalanced'
    BY <2>1, <2>3, <2>7, <1>2, SharerStepKeeps
  <2> QED BY <1>3, <2>4, <2>5, <2>8
<1> QED BY <1>4, <1>5, <1>6

(* Python keeps an argument.                                                *)
LEMMA KeepArgKeeps ==
  ASSUME IInv, NEW t \in Threads, NEW s \in Slots, NEW o \in Objects, KeepArg(t, s, o)
  PROVE  IInv'
<1> USE DEF IInv
<1>1. Share(s, o, 1) /\ pc' = pc /\ UNCHANGED <<hold, dying, seen>>
  BY DEF KeepArg, Goes, ThreadType
<1>2. s \in Owners /\ s \notin Handles /\ s \notin Locals
  BY OwnersApart
<1>3. \E j \in Owners : own[j] = o
  <2>1. CASE Goes(t, "setting", "setting") /\ o = ObjectOf(t)
    <3>1. hold[t] # None /\ t \in Sharers
      BY <2>1, Moved, SharersApart DEF CallBalanced, Balanced
    <3> QED BY <2>1, <3>1, SharedIsOwned
  <2>2. CASE o = own[<<"argsObj", t>>]
    BY <2>2, OwnersApart
  <2> QED BY <2>1, <2>2 DEF KeepArg
<1>4. Counted'
  BY <1>1, <1>2, <1>3, ShareKeeps
<1>5. \A j \in Owners \ {s} : own'[j] = own[j]
  BY <1>1 DEF Share, Counted, RefsType
<1>6. ThreadType'
  BY <1>1 DEF ThreadType
<1>7. HandleLifetime'
  BY <1>1, <1>2, <1>5, OtherOwnersKeep, OwnersApart
<1>8. CallBalanced'
  BY <1>1, <1>2, <1>5, CallsKeep, OwnersApart
<1> QED BY <1>4, <1>6, <1>7, <1>8

(* The store of the increment by which the proxy in a result is converted.  *)
LEMMA UnboxStoreKeeps ==
  ASSUME IInv, NEW t \in Threads, UnboxStore(t)
  PROVE  IInv'
<1> USE DEF IInv
<1>0. "unboxed" \in Steps /\ <<"x", t>> \in Sharers /\ <<"temp", t>> \in Owners
      /\ <<"temp", t>> \notin Handles
  BY SharersApart, OwnersApart DEF Steps, Unboxing
<1>1. Goes(t, "unboxing", "unboxed") /\ UNCHANGED <<hold, dying>>
  BY DEF UnboxStore
<1>2. /\ pc[t] = "unboxing" /\ pc'[t] = "unboxed"
      /\ \A u \in Threads \ {t} : pc'[u] = pc[u]
  BY <1>1, Moved
<1>3. hold[<<"x", t>>] # None
  BY <1>2 DEF CallBalanced, Balanced, Unboxing
<1>4. PICK o \in Objects : o = ObjectOf(<<"x", t>>) /\ \E j \in Owners : own[j] = o
  BY <1>0, <1>3, SharedIsOwned
<1>5. /\ own[<<"temp", t>>] = None /\ own' = [own EXCEPT ![<<"temp", t>>] = o]
      /\ rc' = [rc EXCEPT ![o] = seen[t] + 1]
      /\ torn' = IF rc[o] = seen[t] THEN torn ELSE torn \cup {o}
      /\ seen' = [seen EXCEPT ![t] = 0] /\ UNCHANGED alive
  BY <1>4 DEF UnboxStore, Store
<1>6. Counted'
  BY <1>0, <1>4, <1>5, StoreKeeps DEF ThreadType
<1>7. ThreadType'
  BY <1>0, <1>1, <1>5 DEF ThreadType, Goes
<1>8. \A j \in Owners \ {<<"temp", t>>} : own'[j] = own[j]
  BY <1>5 DEF Counted, RefsType
<1>9. HandleLifetime'
  BY <1>0, <1>1, <1>8, OtherOwnersKeep, OwnersApart
<1>10. own'[<<"temp", t>>] # None
  BY <1>0, <1>5, OwnersApart DEF Counted, RefsType
<1>11. \A m \in {"attrObj", "argsObj", "result"} : own'[<<m, t>>] = own[<<m, t>>]
  BY <1>8, OwnersApart
<1>12. Balanced(t)'
  BY <1>1, <1>2, <1>10, <1>11 DEF CallBalanced, Balanced, Accessing, Unboxing
<1>13. \A u \in Threads \ {t} : \A m \in {"attrObj", "argsObj", "result", "temp"} :
         own'[<<m, u>>] = own[<<m, u>>]
  BY <1>8, OwnersApart
<1>14. CallBalanced'
  BY <1>1, <1>2, <1>12, <1>13, OtherCallsKeep
<1> QED BY <1>6, <1>7, <1>9, <1>14

(* A step of call().                                                        *)
LEMMA CallStepKeeps ==
  ASSUME IInv, NEW t \in Threads, CallStep(t)
  PROVE  IInv'
  BY HandleStepKeeps, OwnStepKeeps, QuietStepKeeps, KeepArgKeeps, UnboxStoreKeeps
     DEF CallStep

-----------------------------------------------------------------------------
(* Theorems.                                                                *)

(* Every step keeps the invariant.                                          *)
LEMMA StepInvariant == IInv /\ [Next]_vars => IInv'
<1> SUFFICES ASSUME IInv, [Next]_vars PROVE IInv'
  OBVIOUS
<1>1. CASE PyStep
  BY <1>1, PyStepKeeps
<1>2. ASSUME NEW t \in Threads, ProxyStep(t)
      PROVE  IInv'
  BY <1>2, ProxyStepKeeps
<1>3. ASSUME NEW t \in Threads, CallStep(t)
      PROVE  IInv'
  BY <1>3, CallStepKeeps
<1>4. CASE UNCHANGED vars
  <2>1. Counted'
    BY <1>4 DEF vars, IInv, Counted, RefsType, CountExact, AliveWhileOwned, OwnersOf
  <2>2. ThreadType' /\ HandleLifetime'
    BY <1>4 DEF vars, IInv, ThreadType, HandleLifetime, Held
  <2>3. CallBalanced'
    BY <1>4 DEF vars, IInv, CallBalanced, Balanced
  <2> QED BY <2>1, <2>2, <2>3 DEF IInv
<1> QED BY <1>1, <1>2, <1>3, <1>4 DEF Next

(* The inductive invariant holds in every reachable state.                  *)
THEOREM InvariantHolds == Spec => []IInv
<1>1. Init => IInv
  BY InitInvariant
<1>2. IInv /\ [Next]_vars => IInv'
  BY StepInvariant
<1> QED BY <1>1, <1>2, PTL DEF Spec

(* The state keeps its types, and no counter that kept its updates is below *)
(* zero.                                                                    *)
THEOREM TypeCorrect == Spec => []TypeOK
<1>1. IInv => TypeOK
  BY OwnersFinite DEF IInv, Counted, RefsType, ThreadType, TypeOK, CountExact
<1> QED BY <1>1, InvariantHolds, PTL

(* Every counter that lost no update to an unlocked increment is the number *)
(* of the object's owners.                                                  *)
THEOREM CountsExact == Spec => []CountExact
<1>1. IInv => CountExact
  BY DEF IInv, Counted
<1> QED BY <1>1, InvariantHolds, PTL

(* Such an object is there exactly as long as somebody owns a reference.    *)
THEOREM OwnedIsAlive == Spec => []AliveWhileOwned
<1>1. IInv => AliveWhileOwned
  BY DEF IInv, Counted
<1> QED BY <1>1, InvariantHolds, PTL

(* A handle has its reference from its first sharer to its destructor.      *)
THEOREM HandlesLive == Spec => []HandleLifetime
<1>1. IInv => HandleLifetime
  BY DEF IInv
<1> QED BY <1>1, InvariantHolds, PTL

(* However it ends, a call leaves no reference behind.                      *)
THEOREM CallsBalanced == Spec => []CallBalanced
<1>1. IInv => CallBalanced
  BY DEF IInv
<1> QED BY <1>1, InvariantHolds, PTL
=============================================================================

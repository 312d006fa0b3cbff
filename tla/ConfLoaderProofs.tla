--------------------------- MODULE ConfLoaderProofs ---------------------------
(***************************************************************************)
(* What the loader's registrations leave behind, for any files, entries    *)
(* and order of loads, and with any number of threads.                     *)
(***************************************************************************)
EXTENDS ConfLoader, SequenceTheorems, TLAPS

LoaderOK ==
  /\ registered \in [Entries -> Files \cup {Nobody}]
  /\ status \in [Files -> {"unloaded", "loaded", "failed"}]
  /\ listed \in [Files -> SUBSET Entries]
  /\ load \in [file : Files \cup {Nobody}, todo : Seq(Entries), done : SUBSET Entries]
  /\ load.file = Nobody => load = Idle

(* The entries that a file has while its load goes on are those that it      *)
(* registered, or will stumble over: a load after one that failed cannot     *)
(* succeed with entries of the first on no list.                             *)
OwnEntry(f, e) ==
  /\ e \in EntriesOf(f)
  /\ e \in listed[f] \/ load.file = f \/ status[f] = "failed"
  /\ load.file = f => e \in load.done \cup ToSet(load.todo)

Accounted == \A f \in Files :
  /\ \A e \in Entries : registered[e] = f => OwnEntry(f, e)
  /\ \A e \in listed[f] : registered[e] = f
  /\ load.file = f => /\ \A e \in load.done : registered[e] = f
                      /\ status[f] # "loaded"
                      /\ ToSet(load.todo) \subseteq EntriesOf(f)

LInv == LoaderOK /\ Accounted

-----------------------------------------------------------------------------
LEMMA ToSetTail ==
  ASSUME NEW S, NEW s \in Seq(S), s # <<>>
  PROVE  /\ Head(s) \in S /\ Tail(s) \in Seq(S)
         /\ ToSet(s) = {Head(s)} \cup ToSet(Tail(s))
<1>1. /\ Len(s) \in Nat \ {0} /\ Head(s) = s[1] /\ Head(s) \in S /\ Tail(s) \in Seq(S)
      /\ DOMAIN s = 1 .. Len(s)
  OBVIOUS
<1>2. /\ Len(Tail(s)) = Len(s) - 1 /\ \A i \in 1 .. Len(s) - 1 : Tail(s)[i] = s[i + 1]
      /\ DOMAIN Tail(s) = 1 .. Len(s) - 1
  BY <1>1
<1>3. ToSet(Tail(s)) = {s[i] : i \in 2 .. Len(s)}
  <2>1. ASSUME NEW i \in 1 .. Len(s) - 1
        PROVE  i + 1 \in 2 .. Len(s) /\ Tail(s)[i] = s[i + 1]
    BY <1>1, <1>2
  <2>2. ASSUME NEW j \in 2 .. Len(s)
        PROVE  j - 1 \in 1 .. Len(s) - 1 /\ Tail(s)[j - 1] = s[j]
    <3>1. j - 1 \in 1 .. Len(s) - 1 /\ (j - 1) + 1 = j
      BY <1>1
    <3> QED
      BY <2>1, <3>1
  <2>3. ToSet(Tail(s)) \subseteq {s[i] : i \in 2 .. Len(s)}
    BY <1>2, <2>1 DEF ToSet
  <2>4. {s[i] : i \in 2 .. Len(s)} \subseteq ToSet(Tail(s))
    BY <1>2, <2>2, ZenonT(30) DEF ToSet
  <2> QED
    BY <2>3, <2>4
<1>4. 1 .. Len(s) = {1} \cup 2 .. Len(s)
  BY <1>1
<1> QED
  BY <1>1, <1>3, <1>4 DEF ToSet

LEMMA ToSetConcat ==
  ASSUME NEW S, NEW r \in Seq(S), NEW s \in Seq(S)
  PROVE  r \o s \in Seq(S) /\ ToSet(r \o s) = ToSet(r) \cup ToSet(s)
<1>1. /\ r \o s \in Seq(S) /\ Len(r \o s) = Len(r) + Len(s)
      /\ Len(r) \in Nat /\ Len(s) \in Nat
      /\ DOMAIN r = 1 .. Len(r) /\ DOMAIN s = 1 .. Len(s)
      /\ DOMAIN (r \o s) = 1 .. Len(r) + Len(s)
      /\ \A i \in 1 .. Len(r) + Len(s) :
           (r \o s)[i] = IF i <= Len(r) THEN r[i] ELSE s[i - Len(r)]
  OBVIOUS
<1>2. ASSUME NEW i \in 1 .. Len(r)
      PROVE  i \in 1 .. Len(r) + Len(s) /\ (r \o s)[i] = r[i]
  BY <1>1
<1>3. ASSUME NEW i \in 1 .. Len(s)
      PROVE  i + Len(r) \in 1 .. Len(r) + Len(s) /\ (r \o s)[i + Len(r)] = s[i]
  <2>1. /\ i + Len(r) \in 1 .. Len(r) + Len(s)
        /\ ~ (i + Len(r) <= Len(r)) /\ (i + Len(r)) - Len(r) = i
    BY <1>1
  <2> QED
    BY <1>1, <2>1
<1>4. ASSUME NEW i \in 1 .. Len(r) + Len(s)
      PROVE  (r \o s)[i] \in ToSet(r) \cup ToSet(s)
  <2>1. CASE i <= Len(r)
    BY <1>1, <2>1 DEF ToSet
  <2>2. CASE ~ (i <= Len(r))
    <3>1. i - Len(r) \in 1 .. Len(s)
      BY <1>1, <2>2
    <3> QED
      BY <1>1, <2>2, <3>1 DEF ToSet
  <2> QED
    BY <2>1, <2>2
<1>5. ToSet(r) \subseteq ToSet(r \o s) /\ ToSet(s) \subseteq ToSet(r \o s)
  <2>1. ToSet(r) \subseteq ToSet(r \o s)
    BY <1>1, <1>2 DEF ToSet
  <2>2. ToSet(s) \subseteq ToSet(r \o s)
    BY <1>1, <1>3, ZenonT(30) DEF ToSet
  <2> QED
    BY <2>1, <2>2
<1>6. ToSet(r \o s) \subseteq ToSet(r) \cup ToSet(s)
  BY <1>1, <1>4 DEF ToSet
<1> QED
  BY <1>1, <1>5, <1>6

-----------------------------------------------------------------------------
LEMMA LoaderInit == Init => LInv
BY LoaderAssumption DEF Init, LInv, LoaderOK, Accounted, OwnEntry, Idle

LEMMA StartStep ==
  ASSUME LInv, NEW f \in Files, StartLoad(f)
  PROVE  LInv'
<1> USE LoaderAssumption DEF LoaderAssumption, LInv, LoaderOK, Accounted, OwnEntry, StartLoad
<1>1. CASE WellFormed(f)
  <2>1. Docs(f) \o Factories(f) \in Seq(Entries)
        /\ ToSet(Docs(f) \o Factories(f)) = EntriesOf(f)
    BY ToSetConcat DEF EntriesOf
  <2> DEFINE all == Docs(f) \o Factories(f)
  <2>2. load' = [file |-> f, todo |-> all, done |-> {}] /\ UNCHANGED <<registered, status, listed>>
    BY <1>1
  <2> HIDE DEF all
  <2>3. ASSUME NEW g \in Files, NEW e \in Entries, registered[e] = g
        PROVE  OwnEntry(g, e)'
    BY <1>1, <2>1, <2>2, <2>3 DEF all, Idle
  <2>4. load' \in [file : Files \cup {Nobody}, todo : Seq(Entries), done : SUBSET Entries]
    BY <2>1, <2>2 DEF all
  <2>5. LoaderOK'
    BY <2>2, <2>4
  <2>6. Accounted'
    BY <1>1, <2>1, <2>2, <2>3 DEF all
  <2> QED
    BY <2>5, <2>6
<1>2. CASE ~WellFormed(f)
  <2>1. status' = [status EXCEPT ![f] = "failed"] /\ UNCHANGED <<registered, listed, load>>
    BY <1>2
  <2>2. LoaderOK'
    BY <2>1
  <2>3. Accounted'
    BY <1>2, <2>1
  <2> QED
    BY <2>2, <2>3
<1> QED
  BY <1>1, <1>2

LEMMA RegisterStep ==
  ASSUME LInv, RegisterEntry
  PROVE  LInv'
<1> USE LoaderAssumption DEF LoaderAssumption, LInv, LoaderOK, Accounted, OwnEntry, RegisterEntry
<1> DEFINE e == Head(load.todo)
<1>1. load.file \in Files
  BY DEF Idle
<1>2. e \in Entries /\ Tail(load.todo) \in Seq(Entries)
      /\ ToSet(load.todo) = {e} \cup ToSet(Tail(load.todo))
  BY ToSetTail
<1> HIDE DEF e
<1>3. CASE registered[e] = Nobody /\ e \notin Refused
  <2>1. /\ registered' = [registered EXCEPT ![e] = load.file]
        /\ load'.file = load.file /\ load'.todo = Tail(load.todo)
        /\ load'.done = load.done \cup {e}
        /\ load' \in [file : Files \cup {Nobody}, todo : Seq(Entries), done : SUBSET Entries]
        /\ UNCHANGED <<status, listed>>
    <3>1. /\ registered' = [registered EXCEPT ![e] = load.file]
          /\ load' = [load EXCEPT !.todo = Tail(load.todo), !.done = load.done \cup {e}]
          /\ UNCHANGED <<status, listed>>
      BY <1>3 DEF e
    <3> QED
      BY <1>1, <1>2, <3>1, ZenonT(30)
  <2>2. LoaderOK'
    BY <1>1, <1>2, <2>1
  <2>3. ASSUME NEW g \in Files
        PROVE  /\ \A x \in Entries : registered'[x] = g => OwnEntry(g, x)'
               /\ \A x \in listed'[g] : registered'[x] = g
               /\ load'.file = g =>
                    /\ \A x \in load'.done : registered'[x] = g
                    /\ status'[g] # "loaded"
                    /\ ToSet(load'.todo) \subseteq EntriesOf(g)
    BY <1>1, <1>2, <1>3, <2>1
  <2> QED
    BY <2>2, <2>3
<1>4. CASE ~ (registered[e] = Nobody /\ e \notin Refused)
  <2>1. /\ status' = [status EXCEPT ![load.file] = "failed"] /\ load' = Idle
        /\ UNCHANGED <<registered, listed>>
    BY <1>1, <1>2, <1>4 DEF e
  <2>2. LoaderOK'
    BY <1>1, <2>1 DEF Idle
  <2> QED
    BY <1>1, <2>1, <2>2 DEF Idle
<1> QED
  BY <1>3, <1>4

LEMMA EndStepLoad ==
  ASSUME LInv, EndLoad
  PROVE  LInv'
<1>1. ToSet(<<>>) = {}
  BY DEF ToSet
<1> QED
  BY LoaderAssumption, <1>1 DEF LInv, LoaderOK, Accounted, OwnEntry, EndLoad, Idle

LEMMA UnloadStep ==
  ASSUME LInv, NEW f \in Files, Unload(f)
  PROVE  LInv'
BY LoaderAssumption DEF LInv, LoaderOK, Accounted, OwnEntry, Unload, Idle

LEMMA LoaderStep == LInv /\ [Next]_vars => LInv'
<1> SUFFICES ASSUME LInv, [Next]_vars PROVE LInv'
  OBVIOUS
<1>1. CASE UNCHANGED loaderVars
  BY <1>1 DEF loaderVars, LInv, LoaderOK, Accounted, OwnEntry
<1>2. CASE LoadStep
  BY <1>2, StartStep, RegisterStep, EndStepLoad, UnloadStep DEF LoadStep
<1>3. ASSUME NEW t \in Threads, JobStep(t) \/ CalleeStep(t)
      PROVE  UNCHANGED loaderVars
  BY <1>3 DEF JobStep, CalleeStep, IndexPath, AddPath, FindModule, MakeBlock, CallFactory
<1> QED
  BY <1>1, <1>2, <1>3 DEF Next, OtherStep, vars

-----------------------------------------------------------------------------
THEOREM LoaderInvariant == Spec => []LInv
BY LoaderInit, LoaderStep, PTL DEF Spec

(* Every entry in the registry is on the list that its file's loader gave to *)
(* the framework, is being registered, or was left by a load that failed     *)
(* (PythonConfLoader.cpp:143-172).                                           *)
THEOREM NothingLost == Spec => []EntriesAccounted
<1>1. ASSUME LInv PROVE EntriesAccounted
  <2> SUFFICES ASSUME NEW f \in Files
               PROVE  LET own == {e \in Entries : registered[e] = f}
                      IN  /\ listed[f] \subseteq own
                          /\ load.file = f => load.done \subseteq own
                          /\ own # listed[f] => load.file = f \/ status[f] = "failed"
    BY DEF EntriesAccounted
  <2> DEFINE own == {e \in Entries : registered[e] = f}
  <2>1. listed[f] \subseteq own
    BY <1>1 DEF LInv, LoaderOK, Accounted
  <2>2. load.file = f => load.done \subseteq own
    BY <1>1 DEF LInv, LoaderOK, Accounted
  <2>3. CASE own \subseteq listed[f]
    BY <2>1, <2>2, <2>3
  <2>4. CASE ~ (own \subseteq listed[f])
    BY <1>1, <2>1, <2>2, <2>4 DEF LInv, Accounted, OwnEntry
  <2> QED
    BY <2>3, <2>4
<1> QED
  BY LoaderInvariant, <1>1, PTL

-----------------------------------------------------------------------------
(* What a failed load left is on no list, so no unloading takes it away, and *)
(* the next load of the file is refused at the first entry of it.            *)
LEMMA LeftoversStep ==
  ASSUME LInv, Next, NEW f \in Files
  PROVE  Leftovers(f) \subseteq Leftovers(f)' /\ (Leftovers(f) # {} => status'[f] # "loaded")
<1> USE LoaderAssumption DEF LoaderAssumption, LInv, LoaderOK, Accounted, OwnEntry, Leftovers
<1>1. Leftovers(f) # {} => status[f] # "loaded"
  OBVIOUS
<1>2. CASE UNCHANGED loaderVars
  BY <1>1, <1>2 DEF loaderVars
<1>3. ASSUME NEW g \in Files, StartLoad(g)
      PROVE  Leftovers(f) \subseteq Leftovers(f)' /\ (Leftovers(f) # {} => status'[f] # "loaded")
  <2>1. /\ load = Idle /\ UNCHANGED <<registered, listed>>
        /\ load' = load \/ load'.done = {}
        /\ status' = status \/ status' = [status EXCEPT ![g] = "failed"]
    BY <1>3 DEF StartLoad
  <2> QED
    BY <1>1, <2>1 DEF Idle
<1>4. ASSUME NEW g \in Files, Unload(g)
      PROVE  Leftovers(f) \subseteq Leftovers(f)' /\ (Leftovers(f) # {} => status'[f] # "loaded")
  <2>1. /\ load = Idle /\ load' = load
        /\ \A e \in Entries : registered'[e] = IF e \in listed[g] THEN Nobody ELSE registered[e]
        /\ listed' = [listed EXCEPT ![g] = {}] /\ status' = [status EXCEPT ![g] = "unloaded"]
    BY <1>4 DEF Unload
  <2>2. ASSUME NEW e \in Leftovers(f)
        PROVE  e \in Leftovers(f)'
    <3>1. /\ e \in Entries /\ registered[e] = f /\ e \notin listed[f]
          /\ ~ (load.file = f /\ e \in load.done)
      OBVIOUS
    <3>2. e \notin listed[g]
      BY <3>1
    <3> QED
      BY <2>1, <3>1, <3>2
  <2> QED
    BY <1>1, <2>1, <2>2
<1>5. ASSUME RegisterEntry
      PROVE  Leftovers(f) \subseteq Leftovers(f)' /\ (Leftovers(f) # {} => status'[f] # "loaded")
  <2>1. PICK e \in Entries : e = Head(load.todo)
    BY <1>5, ToSetTail DEF RegisterEntry
  <2>2. load.file \in Files
    BY <1>5 DEF RegisterEntry, Idle
  <2>3. CASE registered[e] = Nobody /\ e \notin Refused
    <3>1. /\ registered' = [registered EXCEPT ![e] = load.file]
          /\ load'.file = load.file /\ load'.done = load.done \cup {e}
          /\ UNCHANGED <<status, listed>>
      <4>1. /\ registered' = [registered EXCEPT ![e] = load.file]
            /\ load' = [load EXCEPT !.todo = Tail(load.todo), !.done = load.done \cup {e}]
            /\ UNCHANGED <<status, listed>>
        BY <1>5, <2>1, <2>3 DEF RegisterEntry
      <4> QED
        BY <4>1
    <3>2. status'[f] # "loaded" \/ Leftovers(f) = {}
      BY <1>1, <3>1
    <3>3. ASSUME NEW x \in Leftovers(f)
          PROVE  x \in Leftovers(f)'
      <4>1. /\ x \in Entries /\ registered[x] = f /\ x \notin listed[f]
            /\ ~ (load.file = f /\ x \in load.done)
        OBVIOUS
      <4>2. x # e
        BY <2>3, <4>1
      <4>3. registered'[x] = f /\ listed'[f] = listed[f]
        BY <3>1, <4>1, <4>2
      <4> QED
        BY <3>1, <4>1, <4>2, <4>3
    <3> QED
      BY <3>2, <3>3
  <2>4. CASE ~ (registered[e] = Nobody /\ e \notin Refused)
    <3>1. /\ status' = [status EXCEPT ![load.file] = "failed"] /\ load' = Idle
          /\ UNCHANGED <<registered, listed>>
      BY <1>5, <2>1, <2>4 DEF RegisterEntry
    <3> QED
      BY <1>1, <2>2, <3>1 DEF Idle
  <2> QED
    BY <2>3, <2>4
<1>6. ASSUME EndLoad
      PROVE  Leftovers(f) \subseteq Leftovers(f)' /\ (Leftovers(f) # {} => status'[f] # "loaded")
  <2>1. /\ load.file \in Files /\ ToSet(load.todo) = {}
        /\ status' = [status EXCEPT ![load.file] = "loaded"]
        /\ listed' = [listed EXCEPT ![load.file] = load.done] /\ load' = Idle
        /\ UNCHANGED registered
    BY <1>6 DEF EndLoad, ToSet
  <2>2. load.file = f => Leftovers(f) = {}
    BY <2>1
  <2>3. load.file # f => Leftovers(f)' = Leftovers(f) /\ status'[f] = status[f]
    BY <2>1 DEF Idle
  <2> QED
    BY <1>1, <2>2, <2>3
<1>7. CASE LoadStep
  BY <1>3, <1>4, <1>5, <1>6, <1>7 DEF LoadStep
<1>8. ASSUME NEW t \in Threads, JobStep(t) \/ CalleeStep(t)
      PROVE  UNCHANGED loaderVars
  BY <1>8 DEF JobStep, CalleeStep, IndexPath, AddPath, FindModule, MakeBlock, CallFactory
<1> QED
  BY <1>2, <1>7, <1>8 DEF Next, OtherStep

(* Whatever is loaded and unloaded afterwards, the entries that a failed load*)
(* left stay in the registry, and the file is never loaded again             *)
(* (PythonConfLoader.cpp:143-172).                                           *)
THEOREM FailureLasts == Spec => LeftoversStay
<1>1. LInv /\ [Next]_vars =>
        [\A f \in Files :
           /\ Leftovers(f) \subseteq Leftovers(f)'
           /\ Leftovers(f) # {} => status'[f] # "loaded"]_vars
  BY LeftoversStep
<1> QED
  BY LoaderInvariant, <1>1, PTL DEF Spec, LeftoversStay
===============================================================================

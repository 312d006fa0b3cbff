--------------------------- MODULE BlockCallsProofs ---------------------------
(***************************************************************************)
(* What the conversions of containers owe to their elements, for any set   *)
(* of objects and whatever the script's threads do meanwhile; and who      *)
(* keeps the blocks, on any number of nested calls.                        *)
(***************************************************************************)
EXTENDS BlockCalls, SequenceTheorems, TLAPS

SetsOK ==
  /\ script \in SUBSET Objs /\ box \in SUBSET Objs /\ todo \in SUBSET Objs
  /\ copy \in SUBSET Objs /\ native \in SUBSET Objs /\ values \in SUBSET Objs
  /\ fresh \in SUBSET Objs /\ taken \in SUBSET Objs /\ leaked \in SUBSET Objs
  /\ cur \in Objs \cup {NoObj}
  /\ conv \in [kind : {"tuple", "list", "set", "dict", "chunk"},
            at : {"idle", "next", "insert", "raised", "native", "given", "add", "done"}]

(* What is in use at each point of a conversion, and what belongs to what.   *)
Phases ==
  /\ conv.at \in {"idle", "raised", "done"} => native = {} /\ values = {}
  /\ conv.at \notin {"next", "insert"} => copy = {} /\ cur = NoObj
  /\ conv.at \notin {"next", "insert", "add"} => todo = {}
  /\ conv.at # "add" => fresh = {}
  /\ conv.at # "raised" => leaked = {}
  /\ conv.at \in {"given", "add"} => values = native
  /\ conv.at = "add" => todo \subseteq native /\ todo \cap fresh = {}
  /\ conv.at = "next" => cur = NoObj
  /\ conv.at = "insert" => cur \in Objs \ (todo \cup native \cup values)
  /\ conv.at \in {"next", "insert"} =>
       /\ conv.kind \in {"set", "dict"}
       /\ conv.kind = "set" => copy = todo
       /\ todo \subseteq copy /\ todo \cap (native \cup values) = {}

(* What the C++ container lacks of what was taken is to come, or was taken   *)
(* for something that it has; of several keys that are taken for one a map   *)
(* has one, and the value of one.                                            *)
Progress == conv.at \in {"next", "insert", "native"} =>
  /\ native \cup values \cup todo \cup ({cur} \ {NoObj}) \subseteq taken
  /\ \A o \in taken \ (native \cup todo \cup {cur}) :
       o \in Alike /\ native \cap Alike # {}
  /\ values \ Alike = native \ Alike
  /\ conv.kind # "dict" => values = native
  /\ conv.kind = "dict" /\ native \cap Alike # {} =>
       \E k, v \in Alike : native \cap Alike = {k} /\ values \cap Alike = {v}
  /\ conv.kind = "dict" /\ native \cap Alike = {} => values \cap Alike = {}

Holders(o) ==
  One(script, o) + One(box, o) + One(copy, o) + (IF cur = o THEN 1 ELSE 0)
    + One(fresh, o) + One(leaked, o)

Counts ==
  /\ rc = [o \in Objs |-> Holders(o) + One(native, o)]
  /\ vrc = [o \in Objs |-> Holders(o) + One(values, o)]

CRInv == SetsOK /\ Phases /\ Progress /\ Counts

-----------------------------------------------------------------------------
LEMMA CRInvGives ==
  ASSUME CRInv
  PROVE  CountsBalance /\ AliveWhileConverted /\ Snapshot /\ CRTypeOK
<1> USE DEF CRInv, SetsOK
<1>1. \A o \in Objs : One(script, o) \in 0..1 /\ One(box, o) \in 0..1 /\ One(copy, o) \in 0..1
        /\ One(native, o) \in 0..1 /\ One(values, o) \in 0..1
        /\ One(fresh, o) \in 0..1 /\ One(leaked, o) \in 0..1
  BY DEF One
<1>2. CountsBalance
  BY DEF Counts, CountsBalance, Holders
<1>3. rc \in [Objs -> Nat] /\ vrc \in [Objs -> Nat]
  BY <1>1 DEF Counts, Holders
<1>4. /\ \A o \in copy \cup native \cup fresh : rc[o] > 0
      /\ \A o \in copy \cup values \cup fresh : vrc[o] > 0
  BY <1>1 DEF Counts, Holders, One
<1>5. cur # NoObj => rc[cur] > 0 /\ vrc[cur] > 0
  BY <1>1 DEF Counts, Holders
<1>6. todo \subseteq copy \cup (native \cap values)
  BY DEF Phases
<1>7. AliveWhileConverted
  BY <1>4, <1>5, <1>6 DEF AliveWhileConverted
<1>8. Snapshot
  BY ContainerAssumption DEF Snapshot, Is, Progress, Phases
<1>9. CRTypeOK
  BY <1>3 DEF CRTypeOK
<1> QED
  BY <1>2, <1>7, <1>8, <1>9

LEMMA CRInvInit ==
  ASSUME CRInit
  PROVE  CRInv
BY ContainerAssumption DEF CRInit, CRInv, SetsOK, Phases, Progress, Counts, Holders, One

LEMMA BeginStep ==
  ASSUME NEW b \in SUBSET Objs, NEW n \in SUBSET Objs, NEW at \in {"idle", "given"},
         at = "idle" => n = {}, BeginWith(b, n, at)
  PROVE  CRInv'
BY ContainerAssumption DEF BeginWith, CRInv, SetsOK, Phases, Progress, Counts, Holders, One

LEMMA Meanwhile ==
  ASSUME CRInv, MeanwhileStep
  PROVE  CRInv'
<1>1. PICK o \in Objs : Forget(o) \/ Recall(o) \/ Put(o) \/ TakeOut(o)
  BY DEF MeanwhileStep
<1>2. UNCHANGED <<conv, loopVars, nativeVars, fresh, taken, leaked>>
  BY DEF MeanwhileStep
<1>3. script' \in SUBSET Objs /\ box' \in SUBSET Objs
  BY <1>1 DEF Forget, Recall, Put, TakeOut, CRInv, SetsOK
<1>4. SetsOK' /\ Phases' /\ Progress'
  BY <1>2, <1>3 DEF loopVars, nativeVars, CRInv, SetsOK, Phases, Progress
<1> USE DEF loopVars, nativeVars, CRInv, Counts, Holders, Plus, Minus, Release, One
<1>5. CASE Forget(o)
  BY <1>2, <1>4, <1>5 DEF Forget
<1>6. CASE Recall(o)
  BY <1>2, <1>4, <1>6 DEF Recall
<1>7. CASE Put(o)
  BY <1>2, <1>4, <1>7 DEF Put
<1>8. CASE TakeOut(o)
  BY <1>2, <1>4, <1>8 DEF TakeOut
<1> QED
  BY <1>1, <1>5, <1>6, <1>7, <1>8

LEMMA ToNative ==
  ASSUME CRInv, ToNativeStep
  PROVE  CRInv'
<1> USE ContainerAssumption DEF CRInv, SetsOK, Phases, Progress, Counts, Holders, Plus, Minus, Release,
       One, Is, Step, scriptVars, loopVars, counts, nativeVars
<1>1. CASE TupleToVector
  BY <1>1 DEF TupleToVector, AllAtOnce
<1>2. CASE ListToVector
  BY <1>2 DEF ListToVector, AllAtOnce
<1>3. CASE ArrayToChunk
  BY <1>3 DEF ArrayToChunk
<1>4. CASE CopySet
  <2>1. SetsOK' /\ Phases' /\ Progress'
    BY <1>4 DEF CopySet, CopyOf
  <2>2. Counts'
    BY <1>4 DEF CopySet, CopyOf
  <2> QED
    BY <2>1, <2>2
<1>5. CASE CopyItems
  BY <1>5 DEF CopyItems, CopyOf
<1>6. CASE PopElement
  BY <1>6 DEF PopElement, TakeNext
<1>7. CASE NextItem
  <2>1. SetsOK' /\ Phases' /\ Progress'
    BY <1>7 DEF NextItem, TakeNext
  <2>2. Counts'
    <3>1. PICK o \in todo : cur' = o /\ Plus({o})
      BY <1>7 DEF NextItem, TakeNext
    <3>2. cur = NoObj /\ UNCHANGED <<script, box, copy, native, values, fresh, leaked>>
      BY <1>7 DEF NextItem, TakeNext
    <3> QED
      BY <3>1, <3>2
  <2> QED
    BY <2>1, <2>2
<1>8. CASE Insert
  <2>1. CASE ~There
    <3>1. SetsOK' /\ Phases'
      BY <1>8, <2>1 DEF Insert
    <3>2. Progress'
      <4>1. /\ native' = native \cup {cur} /\ values' = values \cup {cur} /\ cur' = NoObj
            /\ conv'.at = "next" /\ conv'.kind = conv.kind /\ conv.at = "insert"
            /\ UNCHANGED <<todo, taken>> /\ cur \in Objs
        BY <1>8, <2>1 DEF Insert
      <4>2. CASE cur \notin Alike
        <5>1. native' \cap Alike = native \cap Alike /\ values' \cap Alike = values \cap Alike
          BY <4>1, <4>2
        <5> QED
          BY <4>1, <4>2, <5>1
      <4>3. CASE cur \in Alike
        <5>1. native \cap Alike = {}
          BY <2>1, <4>3 DEF There
        <5>2. /\ native' \cap Alike = {cur}
              /\ conv.kind = "dict" => values' \cap Alike = {cur}
          BY <4>1, <4>3, <5>1
        <5>3. values' \ Alike = native' \ Alike
          BY <4>1
        <5> QED
          BY <4>1, <4>3, <5>1, <5>2, <5>3
      <4> QED
        BY <4>2, <4>3
    <3>3. Counts'
      BY <1>8, <2>1 DEF Insert
    <3> QED
      BY <3>1, <3>2, <3>3
  <2>2. CASE There /\ conv.kind = "set"
    <3>1. SetsOK' /\ Phases' /\ Progress'
      BY <1>8, <2>2 DEF Insert, There
    <3>2. Counts'
      BY <1>8, <2>2 DEF Insert
    <3> QED
      BY <3>1, <3>2
  <2>3. CASE There /\ conv.kind = "dict"
    <3>1. SetsOK' /\ Phases'
      BY <1>8, <2>3 DEF Insert, There
    <3>2. Progress'
      BY <1>8, <2>3 DEF Insert, There
    <3>3. Counts'
      BY <1>8, <2>3 DEF Insert
    <3> QED
      BY <3>1, <3>2, <3>3
  <2> QED
    BY <1>8, <2>1, <2>2, <2>3 DEF Insert
<1>9. CASE InsertRaises
  <2>1. SetsOK' /\ Phases' /\ Progress'
    BY <1>9 DEF InsertRaises
  <2>2. Counts'
    BY <1>9 DEF InsertRaises
  <2> QED
    BY <2>1, <2>2
<1>10. CASE EndToNative
  BY <1>10 DEF EndToNative
<1> QED
  BY <1>1, <1>2, <1>3, <1>4, <1>5, <1>6, <1>7, <1>8, <1>9, <1>10 DEF ToNativeStep

LEMMA ToPython ==
  ASSUME CRInv, ToPythonStep
  PROVE  CRInv'
<1> USE ContainerAssumption DEF CRInv, SetsOK, Phases, Progress, Counts, Holders, Plus, Minus, Release,
       One, Is, Step, scriptVars, loopVars, counts, nativeVars
<1>1. CASE BeginToPython
  BY <1>1 DEF BeginToPython
<1>2. CASE ListSetItem
  BY <1>2 DEF ListSetItem, Add
<1>3. CASE SetAdd
  BY <1>3 DEF SetAdd, Add, TakeOrFail
<1>4. CASE DictSetItem
  BY <1>4 DEF DictSetItem, Add, TakeOrFail
<1>5. CASE EndToPython
  BY <1>5 DEF EndToPython
<1> QED
  BY <1>1, <1>2, <1>3, <1>4, <1>5 DEF ToPythonStep

LEMMA ConversionStep ==
  ASSUME CRInv, [Next]_vars
  PROVE  CRInv'
<1> USE DEF Next
<1>1. CASE UNCHANGED crVars
  BY <1>1 DEF crVars, counts, nativeVars, scriptVars, loopVars, CRInv, SetsOK, Phases, Progress,
              Counts, Holders
<1>2. CASE \E what \in {"args", "result"} : StartData(what)
  <2>1. BeginArgs \/ BeginResult
    BY <1>2 DEF StartData
  <2> QED
    BY <2>1, BeginStep DEF BeginArgs, BeginResult
<1>3. CASE DataStep
  BY <1>3, ToNative, ToPython, Meanwhile DEF DataStep
<1>4. CASE EndData
  BY <1>4, BeginStep DEF EndData, Quiet
<1> QED
  BY <1>1, <1>2, <1>3, <1>4 DEF vars

-----------------------------------------------------------------------------
(* In every state of a conversion, what is in use is what its step needs     *)
(* (PythonConvert.cpp:382-505).                                              *)
THEOREM ConversionsInvariant == Spec => []CRInv
<1>1. Init => CRInv
  BY CRInvInit DEF Init
<1>2. CRInv /\ [Next]_vars => CRInv'
  BY ConversionStep
<1> QED
  BY <1>1, <1>2, PTL DEF Spec

(* For any objects, whatever other threads do to the container and to their  *)
(* variables between two elements, the conversions of PythonConvert.cpp      *)
(* (382-505) take and release each reference once.                           *)
THEOREM CountsRight == Spec => []CountsBalance
<1>1. CRInv => CountsBalance
  BY CRInvGives
<1> QED
  BY ConversionsInvariant, <1>1, PTL

(* No element goes while a conversion has still to handle it.                *)
THEOREM ElementsLive == Spec => []AliveWhileConverted
<1>1. CRInv => AliveWhileConverted
  BY CRInvGives
<1> QED
  BY ConversionsInvariant, <1>1, PTL

(* A converted container is what the original was at one moment, but for     *)
(* elements that compareTo() does not tell apart (PythonHandle.cpp:36): of   *)
(* these a set has one, and a map has one key with the value of any of them. *)
THEOREM ConvertedAtOneMoment == Spec => []Snapshot
<1>1. CRInv => Snapshot
  BY CRInvGives
<1> QED
  BY ConversionsInvariant, <1>1, PTL

-----------------------------------------------------------------------------
(* Who keeps the blocks, on any number of nested calls.                      *)

Calls == [fn : {"work", "opaque", "method", "forward"},
          name : Names \cup {"_setPyBlock"},
          at : {"begin", "call", "result", "end"}]

StacksOK ==
  /\ stack \in [Threads -> Seq(Calls)] /\ failing \in [Threads -> BOOLEAN]
  /\ \A t \in Threads :
       /\ Len(stack[t]) <= RecursionLimit + 1
       /\ stack[t] # <<>> /\ Top(t).fn \in KeepPy => Len(stack[t]) <= RecursionLimit

PyKept(var, s) == var \/ \E c \in Frames(s) : c.fn \in KeepPy
NativeKept(top, s) == top \/ \E c \in Frames(s) : c.fn \in KeepNative

(* A block lives as long as it has an owner; the script's calls begin with   *)
(* one that owns the Python block, the worker's while the topology has the   *)
(* native one.                                                               *)
Owned ==
  /\ link = "weak" /\ nat \in {"live", "dead"}
  /\ py = "live" <=> PyKept(pyVar, stack)
  /\ nat = "live" <=> py = "live" \/ NativeKept(topo, stack)
  /\ \A c \in Frames(stack) : c.name # "_setPyBlock"
  /\ stack[Script] # <<>> => stack[Script][1].fn \in KeepPy
  /\ stack[Worker] # <<>> => topo

BlocksOK ==
  /\ py \in {"none", "new", "live", "dead"} /\ crash \in {"no", "null"}
  /\ pyVar \in BOOLEAN /\ topo \in BOOLEAN
  /\ py = "none" =>
       /\ nat = "none" /\ link = "none" /\ ~pyVar /\ ~topo /\ crash = "no"
       /\ \A t \in Threads : stack[t] = <<>>
  /\ py = "new" =>
       /\ nat = "live" /\ link = "none" /\ ~pyVar /\ ~topo /\ crash = "no"
       /\ stack[Script] = <<Call("opaque", "_setPyBlock")>> /\ stack[Worker] = <<>>
  /\ py \in {"none", "new"} => \A t \in Threads : ~failing[t]
  /\ py \in {"live", "dead"} => Owned
  /\ crash # "no" => py = "dead" /\ topo

BAInv == StacksOK /\ BlocksOK

DataOK ==
  /\ data \in {"none", "args", "result"}
  /\ data # "none" => TopIs(Worker, {"opaque"}, IF data = "args" THEN "begin" ELSE "result")

LEMMA EmptyOrNot ==
  ASSUME NEW S, NEW s \in Seq(S)
  PROVE  /\ Len(s) \in Nat /\ (s = <<>> <=> Len(s) = 0)
         /\ ToSet(s) = {s[i] : i \in 1 .. Len(s)}
         /\ \A i \in 1 .. Len(s) : s[i] \in S
BY DEF ToSet

LEMMA FrontOf ==
  ASSUME NEW S, NEW s \in Seq(S), s # <<>>
  PROVE  /\ Front(s) \in Seq(S) /\ Len(Front(s)) = Len(s) - 1 /\ Len(s) \in Nat \ {0}
         /\ \A i \in 1 .. Len(s) - 1 : Front(s)[i] = s[i]
         /\ Last(s) = s[Len(s)] /\ Last(s) \in S
<1>1. Len(s) \in Nat \ {0} /\ s[Len(s)] \in S
  OBVIOUS
<1>2. Front(s) \in Seq(S) /\ Len(Front(s)) = Len(s) - 1
  <2>1. SubSeq(s, 1, Len(s) - 1) \in Seq(S)
    BY <1>1
  <2>2. Len(SubSeq(s, 1, Len(s) - 1)) = Len(s) - 1
    <3>1. \A m \in 1 .. Len(s) + 1, n \in 0 .. Len(s) :
            Len(SubSeq(s, m, n)) = IF m <= n THEN n - m + 1 ELSE 0
      BY SubSeqProperties
    <3>2. 1 \in 1 .. Len(s) + 1 /\ Len(s) - 1 \in 0 .. Len(s)
      BY <1>1
    <3>3. Len(SubSeq(s, 1, Len(s) - 1)) = IF 1 <= Len(s) - 1 THEN (Len(s) - 1) - 1 + 1 ELSE 0
      BY <3>1, <3>2
    <3> QED
      BY <1>1, <3>3, SMTT(30)
  <2> QED
    BY <2>1, <2>2 DEF Front
<1>3. \A i \in 1 .. Len(s) - 1 : Front(s)[i] = s[i]
  BY <1>1 DEF Front
<1> QED
  BY <1>1, <1>2, <1>3 DEF Last

LEMMA AppendOf ==
  ASSUME NEW S, NEW s \in Seq(S), NEW c \in S
  PROVE  /\ Append(s, c) \in Seq(S) /\ Len(Append(s, c)) = Len(s) + 1 /\ Len(s) \in Nat
         /\ \A i \in 1 .. Len(s) : Append(s, c)[i] = s[i]
         /\ Append(s, c)[Len(s) + 1] = c /\ Last(Append(s, c)) = c
         /\ s \o <<c>> = Append(s, c)
<1>1. /\ Append(s, c) \in Seq(S) /\ Len(Append(s, c)) = Len(s) + 1 /\ Len(s) \in Nat
      /\ \A i \in 1 .. Len(s) : Append(s, c)[i] = s[i]
      /\ Append(s, c)[Len(s) + 1] = c
  BY AppendProperties
<1>2. s \o <<c>> = Append(s, c)
  BY AppendIsConcat
<1> QED
  BY <1>1, <1>2 DEF Last

(* A call that goes on is still the same call.                               *)
LEMMA ContinuedCalls ==
  ASSUME NEW s \in Seq(Calls), NEW next \in {"begin", "call", "result", "end"}
  PROVE  /\ Continued(s, next) \in Seq(Calls) /\ Len(Continued(s, next)) = Len(s)
         /\ \A i \in 1 .. Len(s) : /\ Continued(s, next)[i].fn = s[i].fn
                                   /\ Continued(s, next)[i].name = s[i].name
<1>1. CASE s = <<>>
  BY <1>1 DEF Continued
<1>2. CASE s # <<>>
  <2> DEFINE c == [Last(s) EXCEPT !.at = next]
             r == Append(Front(s), c)
  <2>1. /\ Front(s) \in Seq(Calls) /\ Len(Front(s)) = Len(s) - 1 /\ Len(s) \in Nat \ {0}
        /\ \A i \in 1 .. Len(s) - 1 : Front(s)[i] = s[i]
        /\ Last(s) = s[Len(s)] /\ Last(s) \in Calls
    BY <1>2, FrontOf
  <2>2. c \in Calls /\ c.fn = s[Len(s)].fn /\ c.name = s[Len(s)].name
    BY <2>1 DEF Calls
  <2> HIDE DEF c
  <2>3. /\ r \in Seq(Calls) /\ Len(r) = Len(Front(s)) + 1
        /\ \A i \in 1 .. Len(Front(s)) : r[i] = Front(s)[i]
        /\ r[Len(Front(s)) + 1] = c
    BY <2>1, <2>2, AppendOf
  <2> HIDE DEF r
  <2>4. ASSUME NEW i \in 1 .. Len(s)
        PROVE  r[i].fn = s[i].fn /\ r[i].name = s[i].name
    <3>1. CASE i = Len(s)
      <4>1. r[i] = c
        BY <2>1, <2>3, <3>1
      <4> QED
        BY <2>2, <3>1, <4>1
    <3>2. CASE i # Len(s)
      <4>1. i \in 1 .. Len(s) - 1
        BY <2>1, <3>2
      <4> QED
        BY <2>1, <2>3, <4>1
    <3> QED
      BY <3>1, <3>2
  <2>5. r \in Seq(Calls) /\ Len(r) = Len(s)
    BY <2>1, <2>3
  <2>6. Continued(s, next) = r
    BY <1>2 DEF Continued, r, c
  <2> QED
    BY <2>4, <2>5, <2>6
<1> QED
  BY <1>1, <1>2

(* The last owner takes its block with it.                                   *)
LEMMA SettleOwners ==
  ASSUME NEW var \in BOOLEAN, NEW top \in BOOLEAN, NEW s,
         link = "weak", py \in {"live", "dead"}, nat \in {"live", "dead"},
         py = "dead" => ~PyKept(var, s), nat = "dead" => py = "dead" /\ ~NativeKept(top, s),
         Settle(var, top, s)
  PROVE  /\ py' \in {"live", "dead"} /\ nat' \in {"live", "dead"}
         /\ py' = "live" <=> PyKept(var, s)
         /\ nat' = "live" <=> py' = "live" \/ NativeKept(top, s)
         /\ py = "dead" => py' = "dead"
         /\ pyVar' = var /\ topo' = top /\ stack' = s
BY DEF Settle, PyKept, NativeKept

(* The owners in a call that goes on, begins or ends.                        *)
SameCall(c, d) == c.fn = d.fn /\ c.name = d.name

LEMMA StackStep ==
  ASSUME BAInv, NEW t \in Threads, NEW x \in Seq(Calls),
         py \in {"live", "dead"}, crash = "no",
         \A i \in 1 .. Len(x) :
           \/ i \in 1 .. Len(stack[t]) /\ SameCall(x[i], stack[t][i])
           \/ /\ x[i].name \in Names \ {"_setPyBlock"}
              /\ x[i].fn \in KeepPy => py = "live"
              /\ x[i].fn \in KeepNative => nat = "live",
         Len(x) <= RecursionLimit + 1,
         x # <<>> /\ Last(x).fn \in KeepPy => Len(x) <= RecursionLimit,
         t = Script /\ x # <<>> => x[1].fn \in KeepPy,
         t = Worker /\ x # <<>> => topo,
         Settle(pyVar, topo, [stack EXCEPT ![t] = x]),
         link' = link, crash' = crash, failing' \in [Threads -> BOOLEAN]
  PROVE  BAInv'
<1> DEFINE s == [stack EXCEPT ![t] = x]
<1>1. /\ stack \in [Threads -> Seq(Calls)] /\ Owned /\ pyVar \in BOOLEAN /\ topo \in BOOLEAN
      /\ Script \in Threads /\ Worker \in Threads /\ Threads = {Script, Worker}
  BY DEF BAInv, StacksOK, BlocksOK, Threads
<1>2. s \in [Threads -> Seq(Calls)] /\ s[t] = x /\ \A u \in Threads : u = t \/ s[u] = stack[u]
  BY <1>1
<1>3. ASSUME NEW c \in ToSet(x)
      PROVE  \/ \E d \in Frames(stack) : SameCall(c, d)
             \/ /\ c.name \in Names \ {"_setPyBlock"}
                /\ c.fn \in KeepPy => py = "live"
                /\ c.fn \in KeepNative => nat = "live"
  <2>1. PICK i \in 1 .. Len(x) : c = x[i]
    BY EmptyOrNot
  <2>2. CASE i \in 1 .. Len(stack[t]) /\ SameCall(x[i], stack[t][i])
    <3>1. stack[t][i] \in ToSet(stack[t])
      BY <1>1, <2>2, EmptyOrNot
    <3> QED
      BY <2>1, <2>2, <3>1 DEF Frames
  <2> QED
    BY <2>1, <2>2
<1>4. ASSUME NEW c \in Frames(s)
      PROVE  \/ \E d \in Frames(stack) : SameCall(c, d)
             \/ /\ c.name \in Names \ {"_setPyBlock"}
                /\ c.fn \in KeepPy => py = "live"
                /\ c.fn \in KeepNative => nat = "live"
  <2>1. PICK u \in Threads : c \in ToSet(s[u])
    BY DEF Frames
  <2>2. CASE u = t
    BY <1>2, <1>3, <2>1, <2>2
  <2>3. CASE u # t
    BY <1>2, <2>1, <2>3 DEF Frames, SameCall
  <2> QED
    BY <2>2, <2>3
<1> HIDE DEF s
<1>5. py = "dead" => ~PyKept(pyVar, s)
  BY <1>1, <1>4 DEF Owned, PyKept, SameCall
<1>6. nat = "dead" => py = "dead" /\ ~NativeKept(topo, s)
  BY <1>1, <1>4 DEF Owned, NativeKept, SameCall
<1>7. Settle(pyVar, topo, s) /\ link = "weak" /\ nat \in {"live", "dead"}
  BY <1>1 DEF Owned, s
<1>8. /\ py' \in {"live", "dead"} /\ nat' \in {"live", "dead"}
      /\ py' = "live" <=> PyKept(pyVar, s)
      /\ nat' = "live" <=> py' = "live" \/ NativeKept(topo, s)
      /\ pyVar' = pyVar /\ topo' = topo /\ stack' = s
  BY <1>1, <1>5, <1>6, <1>7, SettleOwners
<1>9. \A c \in Frames(s) : c.name # "_setPyBlock"
  BY <1>1, <1>4 DEF Owned, SameCall
<1>10. /\ s[Script] # <<>> => s[Script][1].fn \in KeepPy
       /\ s[Worker] # <<>> => topo
  BY <1>1, <1>2 DEF Owned
<1>11. Owned'
  <2>1. PyKept(pyVar, stack)' <=> PyKept(pyVar, s)
    BY <1>8 DEF PyKept
  <2>2. NativeKept(topo, stack)' <=> NativeKept(topo, s)
    BY <1>8 DEF NativeKept
  <2> QED
    BY <1>7, <1>8, <1>9, <1>10, <2>1, <2>2 DEF Owned
<1>12. StacksOK'
  <2>1. ASSUME NEW u \in Threads
        PROVE  /\ Len(s[u]) <= RecursionLimit + 1
               /\ s[u] # <<>> /\ Last(s[u]).fn \in KeepPy => Len(s[u]) <= RecursionLimit
    BY <1>2 DEF BAInv, StacksOK, Top
  <2> QED
    BY <1>2, <1>8, <2>1 DEF StacksOK, Top
<1>13. BlocksOK'
  BY <1>1, <1>8, <1>11 DEF BlocksOK
<1> QED
  BY <1>12, <1>13 DEF BAInv

LEMMA SameCalls ==
  ASSUME BAInv, NEW t \in Threads, py \in {"live", "dead"}
  PROVE  /\ stack[t] \in Seq(Calls) /\ Len(stack[t]) \in Nat
         /\ Len(stack[t]) <= RecursionLimit + 1 /\ RecursionLimit \in Nat
         /\ stack[t] # <<>> =>
              /\ Top(t) = stack[t][Len(stack[t])] /\ Top(t) \in Calls /\ Top(t) \in Frames(stack)
              /\ Top(t).fn \in KeepPy => py = "live" /\ Len(stack[t]) <= RecursionLimit
              /\ Top(t).fn \in KeepNative => nat = "live"
              /\ Top(t).name \in Names /\ Len(stack[t]) \in Nat \ {0}
              /\ t = Script => stack[t][1].fn \in KeepPy
              /\ t = Worker => topo
<1>1. stack[t] \in Seq(Calls) /\ Owned
  BY DEF BAInv, StacksOK, BlocksOK
<1>2. ASSUME stack[t] # <<>>
      PROVE  /\ Top(t) = stack[t][Len(stack[t])] /\ Top(t) \in Calls /\ Top(t) \in ToSet(stack[t])
             /\ Len(stack[t]) \in Nat \ {0}
  <2>1. Top(t) = stack[t][Len(stack[t])] /\ Top(t) \in Calls /\ Len(stack[t]) \in Nat \ {0}
    BY <1>1, <1>2, FrontOf DEF Top
  <2> QED
    BY <1>1, <2>1, EmptyOrNot
<1>3. ASSUME stack[t] # <<>> PROVE Top(t) \in Frames(stack)
  BY <1>2, <1>3 DEF Frames
<1>4. ASSUME stack[t] # <<>>
      PROVE  /\ Top(t).fn \in KeepPy => py = "live"
             /\ Top(t).fn \in KeepNative => nat = "live"
             /\ Top(t).name \in Names
  BY <1>1, <1>2, <1>3, <1>4 DEF Owned, PyKept, NativeKept, Calls
<1> QED
  BY <1>1, <1>2, <1>3, <1>4, AdapterAssumption, EmptyOrNot DEF AdapterAssumption, BAInv, StacksOK, Owned

(* The innermost call goes on.                                               *)
LEMMA ToStep ==
  ASSUME BAInv, NEW t \in Threads, NEW at \in {"begin", "call", "result", "end"},
         py \in {"live", "dead"}, crash = "no", To(t, at), UNCHANGED <<link, failing, crash>>
  PROVE  BAInv'
<1> DEFINE x == Continued(stack[t], at)
<1>1. /\ x \in Seq(Calls) /\ Len(x) = Len(stack[t])
      /\ \A i \in 1 .. Len(stack[t]) : SameCall(x[i], stack[t][i])
  BY SameCalls, ContinuedCalls DEF SameCall
<1>2. stack' = [stack EXCEPT ![t] = x] /\ Settle(pyVar, topo, [stack EXCEPT ![t] = x])
  BY DEF To, Settle, BAInv, StacksOK
<1> HIDE DEF x
<1>3. ASSUME x # <<>>
      PROVE  stack[t] # <<>> /\ SameCall(Last(x), Top(t)) /\ SameCall(x[1], stack[t][1])
  <2>1. Last(x) = x[Len(x)] /\ Len(x) \in Nat \ {0}
    BY <1>1, <1>3, FrontOf
  <2>2. 1 \in 1 .. Len(stack[t]) /\ Len(stack[t]) \in 1 .. Len(stack[t]) /\ stack[t] # <<>>
    BY <1>1, <2>1, SameCalls, EmptyOrNot
  <2> QED
    BY <1>1, <2>1, <2>2, SameCalls
<1>4. Len(x) <= RecursionLimit + 1 /\ failing' \in [Threads -> BOOLEAN]
  BY <1>1, SameCalls DEF BAInv, StacksOK
<1>5. /\ x # <<>> /\ Last(x).fn \in KeepPy => Len(x) <= RecursionLimit
      /\ t = Script /\ x # <<>> => x[1].fn \in KeepPy
      /\ t = Worker /\ x # <<>> => topo
  BY <1>1, <1>3, SameCalls DEF SameCall
<1> QED
  BY <1>1, <1>2, <1>4, <1>5, StackStep

(* The innermost call ends.                                                  *)
LEMMA PopStep ==
  ASSUME BAInv, NEW t \in Threads, stack[t] # <<>>,
         py \in {"live", "dead"}, crash = "no", Pop(t), UNCHANGED <<link, failing, crash>>
  PROVE  BAInv'
<1> DEFINE x == Front(stack[t])
<1>1. /\ x \in Seq(Calls) /\ Len(x) = Len(stack[t]) - 1 /\ Len(stack[t]) \in Nat \ {0}
      /\ \A i \in 1 .. Len(stack[t]) - 1 : x[i] = stack[t][i]
  BY SameCalls, FrontOf
<1>2. Settle(pyVar, topo, [stack EXCEPT ![t] = x])
  BY DEF Pop, BAInv, StacksOK
<1> HIDE DEF x
<1>3. Len(x) <= RecursionLimit /\ RecursionLimit \in Nat /\ failing' \in [Threads -> BOOLEAN]
  BY <1>1, SameCalls DEF BAInv, StacksOK
<1>4. \A i \in 1 .. Len(x) : i \in 1 .. Len(stack[t]) /\ SameCall(x[i], stack[t][i])
  BY <1>1 DEF SameCall
<1>5. x # <<>> => x[1] = stack[t][1]
  BY <1>1, EmptyOrNot
<1>6. /\ t = Script /\ x # <<>> => x[1].fn \in KeepPy
      /\ t = Worker /\ x # <<>> => topo
  BY <1>5, SameCalls
<1>7. Len(x) <= RecursionLimit + 1 /\ (x # <<>> /\ Last(x).fn \in KeepPy => Len(x) <= RecursionLimit)
  BY <1>1, <1>3
<1> QED
  BY <1>1, <1>2, <1>3, <1>4, <1>6, <1>7, StackStep

(* A call begins below the innermost one, which will go on at next, or on a  *)
(* thread that is in none.                                                   *)
LEMMA CallStepOK ==
  ASSUME BAInv, NEW t \in Threads, NEW next \in {"begin", "call", "result", "end"}, NEW c \in Calls,
         py \in {"live", "dead"}, crash = "no", c.name \in Names,
         c.fn \in KeepPy => py = "live", c.fn \in KeepNative => nat = "live",
         Len(stack[t]) <= RecursionLimit,
         c.fn \in KeepPy => Len(stack[t]) < RecursionLimit,
         stack[t] = <<>> => IF t = Script THEN c.fn \in KeepPy ELSE topo,
         Settle(pyVar, topo, [stack EXCEPT ![t] = Continued(stack[t], next) \o <<c>>]),
         UNCHANGED <<link, failing, crash>>
  PROVE  BAInv'
<1> DEFINE y == Continued(stack[t], next)
           x == Append(y, c)
<1>1. /\ y \in Seq(Calls) /\ Len(y) = Len(stack[t]) /\ Len(stack[t]) \in Nat
      /\ \A i \in 1 .. Len(stack[t]) : SameCall(y[i], stack[t][i])
  BY SameCalls, ContinuedCalls DEF SameCall
<1>2. Settle(pyVar, topo, [stack EXCEPT ![t] = y \o <<c>>])
  OBVIOUS
<1> HIDE DEF y
<1>3. /\ x \in Seq(Calls) /\ Len(x) = Len(stack[t]) + 1
      /\ \A i \in 1 .. Len(stack[t]) : SameCall(x[i], stack[t][i])
      /\ x[Len(stack[t]) + 1] = c /\ Last(x) = c
      /\ y \o <<c>> = x
  BY <1>1, AppendOf
<1> HIDE DEF x
<1>4. ASSUME NEW i \in 1 .. Len(x)
      PROVE  \/ i \in 1 .. Len(stack[t]) /\ SameCall(x[i], stack[t][i])
             \/ /\ x[i].name \in Names \ {"_setPyBlock"}
                /\ x[i].fn \in KeepPy => py = "live"
                /\ x[i].fn \in KeepNative => nat = "live"
  <2>1. CASE i \in 1 .. Len(stack[t])
    BY <1>3, <2>1
  <2>2. CASE i = Len(stack[t]) + 1
    BY <1>3, <2>2, AdapterAssumption DEF AdapterAssumption
  <2> QED
    BY <1>1, <1>3, <2>1, <2>2
<1>5. /\ t = Script /\ x # <<>> => x[1].fn \in KeepPy
      /\ t = Worker /\ x # <<>> => topo
  <2>1. CASE stack[t] = <<>>
    <3>1. x[1] = c
      BY <1>1, <1>3, <2>1
    <3> QED
      BY <2>1, <3>1, AdapterAssumption DEF AdapterAssumption
  <2>2. CASE stack[t] # <<>>
    <3>1. 1 \in 1 .. Len(stack[t])
      BY <2>2, SameCalls
    <3>2. SameCall(x[1], stack[t][1])
      BY <1>3, <3>1
    <3> QED
      BY <2>2, <3>2, SameCalls DEF SameCall
  <2> QED
    BY <2>1, <2>2
<1>6. /\ Len(x) <= RecursionLimit + 1
      /\ x # <<>> /\ Last(x).fn \in KeepPy => Len(x) <= RecursionLimit
      /\ failing' \in [Threads -> BOOLEAN]
  BY <1>1, <1>3, SameCalls DEF BAInv, StacksOK
<1>7. Settle(pyVar, topo, [stack EXCEPT ![t] = x])
  BY <1>2, <1>3
<1> QED
  BY <1>3, <1>4, <1>5, <1>6, <1>7, StackStep

-----------------------------------------------------------------------------
(* The steps of the blocks.                                                  *)

LEMMA SameBlocks ==
  ASSUME BAInv, UNCHANGED <<py, nat, link, pyVar, topo, stack>>,
         failing' \in [Threads -> BOOLEAN],
         \A t \in Threads : failing'[t] => failing[t] \/ py = "live",
         crash' = crash \/ (crash' = "null" /\ py = "dead" /\ topo)
  PROVE  BAInv'
BY DEF BAInv, StacksOK, BlocksOK, Owned, PyKept, NativeKept, Top

(* While the block is constructed there is one call, which goes no further.  *)
LEMMA InCall ==
  ASSUME BAInv, NEW t \in Threads, stack[t] # <<>>
  PROVE  \/ py \in {"live", "dead"}
         \/ py = "new" /\ t = Script /\ Top(t) = Call("opaque", "_setPyBlock")
BY DEF BAInv, BlocksOK, Threads, Top, Last

LEMMA CallPythonStep ==
  ASSUME BAInv, NEW t \in Threads, NEW n \in Names, NEW next \in {"end", "result"},
         py = "live", crash = "no", stack[t] = <<>> => t = Script,
         CallPython(t, n, next), UNCHANGED <<link, crash>>
  PROVE  BAInv'
<1> DEFINE c == Call(IF n \in PyNames THEN "method" ELSE "forward", n)
<1>1. stack[t] \in Seq(Calls) /\ Len(stack[t]) \in Nat /\ RecursionLimit \in Nat /\ nat = "live"
  BY SameCalls DEF BAInv, BlocksOK, Owned
<1>2. CASE Len(stack[t]) >= RecursionLimit
  <2>1. /\ UNCHANGED <<py, nat, pyVar, topo, stack>>
        /\ failing' = [failing EXCEPT ![t] = TRUE]
    BY <1>2 DEF CallPython
  <2>2. failing' \in [Threads -> BOOLEAN]
    BY <2>1 DEF BAInv, StacksOK
  <2> QED
    BY <2>1, <2>2, SameBlocks
<1>3. CASE Len(stack[t]) < RecursionLimit
  <2>1. /\ Settle(pyVar, topo, [stack EXCEPT ![t] = Continued(stack[t], next) \o <<c>>])
        /\ UNCHANGED failing
    BY <1>1, <1>3 DEF CallPython, BAInv, StacksOK
  <2>2. c \in Calls /\ c.name = n /\ c.fn \in KeepPy
    BY DEF Call, Calls, KeepPy
  <2> HIDE DEF c
  <2> QED
    BY <1>1, <1>3, <2>1, <2>2, CallStepOK, SMTT(30)
<1> QED
  BY <1>1, <1>2, <1>3

LEMMA MakeNativeStep ==
  ASSUME BAInv, MakeNative
  PROVE  BAInv'
<1> DEFINE c == Call("opaque", "_setPyBlock")
<1>1. c \in Calls /\ c.fn \notin KeepPy
  BY DEF Call, Calls, KeepPy
<1>2. /\ stack \in [Threads -> Seq(Calls)] /\ Script \in Threads /\ Worker \in Threads
      /\ Threads = {Script, Worker} /\ Script # Worker /\ RecursionLimit \in Nat
      /\ \A t \in Threads : stack[t] = <<>>
  BY AdapterAssumption DEF AdapterAssumption, BAInv, StacksOK, BlocksOK, MakeNative, Threads
<1>3. stack' = [stack EXCEPT ![Script] = <<c>>]
  BY DEF MakeNative
<1> HIDE DEF c
<1>4. <<c>> \in Seq(Calls) /\ Len(<<c>>) = 1 /\ Last(<<c>>) = c
  BY <1>1 DEF Last
<1>5. stack'[Script] = <<c>> /\ stack'[Worker] = <<>> /\ stack' \in [Threads -> Seq(Calls)]
  BY <1>2, <1>3, <1>4
<1>6. StacksOK'
  BY <1>1, <1>2, <1>4, <1>5 DEF StacksOK, BAInv, MakeNative, Top
<1>7. BlocksOK'
  BY <1>2, <1>5 DEF BAInv, BlocksOK, MakeNative, c
<1> QED
  BY <1>6, <1>7 DEF BAInv

LEMMA SetPyBlockStep ==
  ASSUME BAInv, SetPyBlock
  PROVE  BAInv'
<1>1. /\ py = "new" /\ nat = "live" /\ stack[Worker] = <<>> /\ ~topo /\ crash = "no"
  <2>1. stack[Script] # <<>> /\ Top(Script).name = "_setPyBlock" /\ Script \in Threads
    BY DEF SetPyBlock, TopIs, Threads
  <2>2. py \notin {"live", "dead"}
    BY <2>1, SameCalls, AdapterAssumption DEF AdapterAssumption
  <2> QED
    BY <2>1, <2>2, InCall DEF BAInv, BlocksOK
<1>2. /\ stack \in [Threads -> Seq(Calls)] /\ Script \in Threads /\ Worker \in Threads
      /\ Threads = {Script, Worker} /\ Script # Worker /\ RecursionLimit \in Nat
  BY AdapterAssumption DEF AdapterAssumption, BAInv, StacksOK, Threads
<1>3. stack' \in [Threads -> Seq(Calls)] /\ \A t \in Threads : stack'[t] = <<>>
  <2>1. stack' = [stack EXCEPT ![Script] = <<>>] /\ <<>> \in Seq(Calls)
    BY DEF SetPyBlock
  <2> QED
    BY <1>1, <1>2, <2>1
<1>4. Frames(stack') = {}
  BY <1>3 DEF Frames, ToSet
<1>5. PyKept(pyVar, stack)' /\ ~NativeKept(topo, stack)'
  <2>1. pyVar' = TRUE /\ topo' = FALSE
    BY <1>1 DEF SetPyBlock, BAInv, BlocksOK
  <2> QED
    BY <1>4, <2>1 DEF PyKept, NativeKept
<1>6. Owned'
  BY <1>1, <1>2, <1>3, <1>4, <1>5 DEF SetPyBlock, Owned
<1>7. StacksOK'
  BY <1>2, <1>3 DEF StacksOK, BAInv, SetPyBlock, Top
<1>8. BlocksOK'
  <2>1. /\ py' = "live" /\ crash' = "no" /\ pyVar' = TRUE /\ topo' \in BOOLEAN
    BY <1>1 DEF SetPyBlock, BAInv, BlocksOK
  <2> QED
    BY <1>6, <2>1 DEF BlocksOK
<1> QED
  BY <1>7, <1>8 DEF BAInv

(* The script or the topology takes or drops a block.                        *)
LEMMA OwnerStep ==
  ASSUME BAInv, NEW var \in BOOLEAN, NEW top \in BOOLEAN,
         py = "live" \/ (py = "dead" /\ ~var /\ (top => topo)),
         stack[Worker] # <<>> => top, crash = "no",
         Settle(var, top, stack), UNCHANGED <<link, failing, crash>>
  PROVE  BAInv'
<1>1. Owned
  BY DEF BAInv, BlocksOK
<1>2. py = "dead" => ~PyKept(var, stack)
  BY <1>1 DEF Owned, PyKept
<1>3. nat = "dead" => py = "dead" /\ ~NativeKept(top, stack)
  BY <1>1 DEF Owned, NativeKept
<1>4. link = "weak" /\ nat \in {"live", "dead"}
  BY <1>1 DEF Owned
<1>5. /\ py' \in {"live", "dead"} /\ nat' \in {"live", "dead"}
      /\ py' = "live" <=> PyKept(var, stack)
      /\ nat' = "live" <=> py' = "live" \/ NativeKept(top, stack)
      /\ pyVar' = var /\ topo' = top /\ stack' = stack
  BY <1>2, <1>3, <1>4, SettleOwners
<1>6. Owned'
  BY <1>1, <1>5 DEF Owned, PyKept, NativeKept
<1>7. StacksOK'
  BY <1>5 DEF BAInv, StacksOK, Top
<1>8. BlocksOK'
  BY <1>5, <1>6 DEF BlocksOK
<1> QED
  BY <1>7, <1>8 DEF BAInv

(* A variable has a block that is there.                                     *)
LEMMA Taken ==
  ASSUME BAInv
  PROVE  /\ pyVar => py = "live"
         /\ topo => py \in {"live", "dead"} /\ nat = "live"
         /\ pyVar \in BOOLEAN /\ topo \in BOOLEAN
BY DEF BAInv, BlocksOK, Owned, PyKept, NativeKept

LEMMA ForsakeStep ==
  ASSUME BAInv, Forsake
  PROVE  BAInv'
<1>1. py = "live" /\ topo \in BOOLEAN
  BY Taken DEF Forsake
<1>2. stack[Worker] # <<>> => topo
  BY <1>1 DEF BAInv, BlocksOK, Owned
<1> QED
  BY <1>1, <1>2, OwnerStep DEF Forsake

LEMMA ScriptSteps ==
  ASSUME BAInv, ScriptStep
  PROVE  BAInv'
<1>1. CASE Join
  BY <1>1, Taken, OwnerStep DEF Join
<1>2. CASE Leave
  <2>1. py = "live" \/ (py = "dead" /\ ~pyVar)
    BY <1>2, Taken DEF Leave
  <2> QED
    BY <1>2, <2>1, Taken, OwnerStep DEF Leave
<1>3. ASSUME NEW n \in Names, CallFromScript(n)
      PROVE  BAInv'
  <2>1. Script \in Threads
    BY DEF Threads
  <2> QED
    BY <1>3, <2>1, Taken, CallPythonStep DEF CallFromScript
<1> QED
  BY <1>1, <1>2, <1>3, MakeNativeStep, SetPyBlockStep, ForsakeStep DEF ScriptStep

LEMMA TopologySteps ==
  ASSUME BAInv, TopologyStep
  PROVE  BAInv'
<1>1. ASSUME NEW fn \in {"work", "opaque"}, NEW n \in Names,
             crash = "no", topo, stack[Worker] = <<>>, Push(Worker, Call(fn, n)),
             UNCHANGED <<link, failing, crash>>
      PROVE  BAInv'
  <2> DEFINE c == Call(fn, n)
  <2>1. c \in Calls /\ c.name = n /\ c.fn \notin KeepPy
    BY DEF Call, Calls, KeepPy
  <2>2. py \in {"live", "dead"} /\ nat = "live" /\ Worker \in Threads /\ Worker # Script
    BY <1>1, Taken, AdapterAssumption DEF AdapterAssumption, Threads
  <2>3. Continued(<<>>, "end") \o <<c>> = <<c>>
    BY DEF Continued
  <2>4. Settle(pyVar, topo, [stack EXCEPT ![Worker] = <<c>>])
    <3>1. stack \in [Threads -> Seq(Calls)] /\ Append(<<>>, c) = <<c>>
      BY DEF BAInv, StacksOK
    <3>2. Settle(pyVar, topo, [stack EXCEPT ![Worker] = Append(stack[Worker], c)])
      BY <1>1, <2>2, <3>1 DEF Push
    <3> QED
      BY <1>1, <3>1, <3>2
  <2>5. Len(stack[Worker]) <= RecursionLimit
    BY <1>1, AdapterAssumption DEF AdapterAssumption
  <2> HIDE DEF c
  <2> QED
    BY <1>1, <2>1, <2>2, <2>3, <2>4, <2>5, CallStepOK
<1>2. CASE CallWork
  BY <1>1, <1>2, AdapterAssumption DEF AdapterAssumption, CallWork
<1>3. ASSUME NEW n \in Names, CallSlot(n)
      PROVE  BAInv'
  BY <1>1, <1>3 DEF CallSlot
<1> QED
  BY <1>2, <1>3 DEF TopologyStep

LEMMA ConvertArgsStep ==
  ASSUME BAInv, NEW t \in Threads, ConvertArgs(t)
  PROVE  BAInv'
<1>1. crash = "no" /\ stack[t] # <<>> /\ Top(t).name # "_setPyBlock"
  BY DEF ConvertArgs, TopIs
<1>2. py \in {"live", "dead"}
  BY <1>1, InCall DEF Call
<1>3. link = "weak"
  BY <1>2 DEF BAInv, BlocksOK, Owned
<1> QED
  BY <1>1, <1>2, <1>3, ToStep DEF ConvertArgs, WithBlock

LEMMA AskPythonStep ==
  ASSUME BAInv, NEW t \in Threads, AskPython(t)
  PROVE  BAInv'
<1>1. crash = "no" /\ stack[t] # <<>> /\ Top(t) # Call("opaque", "_setPyBlock")
  BY DEF AskPython, TopIs, Call
<1>2. py \in {"live", "dead"}
  BY <1>1, InCall
<1>3. CASE py = "dead"
  <2>1. /\ crash' = "null" /\ UNCHANGED <<py, nat, link, pyVar, topo, stack, failing>>
    BY <1>3 DEF AskPython
  <2>2. topo
    <3>1. stack[t][1].fn \in KeepPy => FALSE
      <4>1. stack[t][1] \in Frames(stack)
        BY <1>1, <1>2, SameCalls, EmptyOrNot DEF Frames
      <4> QED
        BY <1>3, <4>1 DEF BAInv, BlocksOK, Owned, PyKept
    <3>2. t = Worker
      BY <1>1, <1>2, <3>1, SameCalls DEF Threads
    <3> QED
      BY <1>1, <1>2, <3>2, SameCalls
  <2>3. failing' \in [Threads -> BOOLEAN]
    BY <2>1 DEF BAInv, StacksOK
  <2> QED
    BY <1>3, <2>1, <2>2, <2>3, SameBlocks
<1>4. CASE py = "live"
  <2>1. Top(t).name \in Names /\ crash' = "no" /\ link' = link
    BY <1>1, <1>2, <1>4, SameCalls DEF AskPython
  <2>2. PICK next \in {"end", "result"} : CallPython(t, Top(t).name, next)
    BY <1>4 DEF AskPython
  <2> QED
    BY <1>1, <1>4, <2>1, <2>2, CallPythonStep
<1> QED
  BY <1>2, <1>3, <1>4

LEMMA AskNativeStep ==
  ASSUME BAInv, NEW t \in Threads, AskNative(t)
  PROVE  BAInv'
<1>1. crash = "no" /\ stack[t] # <<>> /\ Top(t).fn = "forward"
  BY DEF AskNative, TopIs
<1>2. /\ py = "live" /\ nat = "live" /\ Top(t).name \in Names /\ Len(stack[t]) <= RecursionLimit
  BY <1>1, InCall, SameCalls DEF KeepPy, KeepNative, Call
<1>3. CASE Top(t).name \in NativeNames
  BY <1>1, <1>2, <1>3, ToStep DEF AskNative
<1>4. CASE Top(t).name \notin NativeNames
  <2> DEFINE c == Call("opaque", Top(t).name)
  <2>1. c \in Calls /\ c.name = Top(t).name /\ c.fn \notin KeepPy
    BY <1>2 DEF Call, Calls, KeepPy
  <2>2. /\ Settle(pyVar, topo, [stack EXCEPT ![t] = Continued(stack[t], "end") \o <<c>>])
        /\ UNCHANGED <<link, failing, crash>>
    BY <1>4 DEF AskNative, BAInv, StacksOK
  <2> HIDE DEF c
  <2> QED
    BY <1>1, <1>2, <2>1, <2>2, CallStepOK
<1> QED
  BY <1>3, <1>4

LEMMA CallSteps ==
  ASSUME BAInv, NEW t \in Threads, CallStep(t)
  PROVE  BAInv'
<1>1. CASE Return(t)
  <2>1. crash = "no" /\ stack[t] # <<>> /\ (Top(t).at = "end" \/ Top(t).fn = "method")
    BY <1>1 DEF Return, TopIs
  <2>2. py \in {"live", "dead"}
    BY <2>1, InCall DEF Call
  <2> QED
    BY <1>1, <2>1, <2>2, PopStep DEF Return
<1>2. CASE Unwind(t)
  <2>1. CASE stack[t] = <<>>
    <3>1. /\ failing' \in [Threads -> BOOLEAN] /\ \A u \in Threads : failing'[u] => failing[u]
          /\ UNCHANGED <<py, nat, link, pyVar, topo, stack, crash>>
      BY <1>2, <2>1 DEF Unwind, BAInv, StacksOK
    <3> QED
      BY <3>1, SameBlocks
  <2>2. CASE stack[t] # <<>>
    <3>1. py \in {"live", "dead"}
      BY <1>2, <2>2, InCall DEF Unwind, BAInv, BlocksOK
    <3> QED
      BY <1>2, <2>2, <3>1, PopStep DEF Unwind
  <2> QED
    BY <2>1, <2>2
<1>3. ASSUME NEW n \in Names, CallSelf(t, n)
      PROVE  BAInv'
  <2>1. crash = "no" /\ stack[t] # <<>> /\ Top(t).fn = "method"
    BY <1>3 DEF CallSelf, TopIs
  <2>2. py = "live"
    BY <2>1, InCall, SameCalls DEF KeepPy, Call
  <2> QED
    BY <1>3, <2>1, <2>2, CallPythonStep DEF CallSelf
<1> QED
  BY <1>1, <1>2, <1>3, AskPythonStep, AskNativeStep DEF CallStep

-----------------------------------------------------------------------------
LEMMA BlocksStep == BAInv /\ [Next]_vars => BAInv'
<1> SUFFICES ASSUME BAInv, [Next]_vars PROVE BAInv'
  OBVIOUS
<1>0. Worker \in Threads /\ Script \in Threads
  BY DEF Threads
<1>1. CASE UNCHANGED baVars
  <2>1. failing' \in [Threads -> BOOLEAN] /\ \A t \in Threads : failing'[t] => failing[t]
    BY <1>1 DEF baVars, BAInv, StacksOK
  <2> QED
    BY <1>1, <2>1, SameBlocks DEF baVars
<1>2. CASE EndData
  <2>1. CASE ResultRaises(Worker)
    <3>1. TopIs(Worker, {"opaque"}, "result") /\ failing' = [failing EXCEPT ![Worker] = TRUE]
          /\ UNCHANGED <<py, nat, link, pyVar, topo, stack, crash>>
      BY <2>1 DEF ResultRaises
    <3>2. py \in {"live", "dead"}
      BY <1>0, <3>1, InCall DEF TopIs, Call
    <3> QED
      BY <1>0, <3>1, <3>2 DEF BAInv, StacksOK, BlocksOK, Owned, PyKept, NativeKept, Top
  <2>2. CASE ConvertResult(Worker)
    <3>1. TopIs(Worker, {"opaque"}, "result") /\ crash = "no"
      BY <2>2 DEF ConvertResult, TopIs
    <3>2. py \in {"live", "dead"}
      BY <1>0, <3>1, InCall DEF TopIs, Call
    <3> QED
      BY <1>0, <2>2, <3>1, <3>2, ToStep DEF ConvertResult
  <2> QED
    BY <1>0, <1>2, <2>1, <2>2, ConvertArgsStep DEF EndData
<1>3. CASE (\E what \in {"args", "result"} : StartData(what)) \/ DataStep
  BY <1>1, <1>3 DEF StartData, DataStep
<1>4. CASE Forsake \/ ScriptStep \/ TopologyStep \/ ConvertArgs(Script) \/ \E t \in Threads : CallStep(t)
  BY <1>0, <1>4, ForsakeStep, ScriptSteps, TopologySteps, ConvertArgsStep, CallSteps
<1> QED
  BY <1>1, <1>2, <1>3, <1>4 DEF Next, vars

LEMMA DataStays == BAInv /\ DataOK /\ [Next]_vars => DataOK'
<1> SUFFICES ASSUME BAInv, DataOK, [Next]_vars PROVE DataOK'
  OBVIOUS
<1>1. CASE UNCHANGED <<baVars, data>>
  BY <1>1 DEF DataOK, baVars, TopIs, Top
<1>2. ASSUME NEW what \in {"args", "result"}, StartData(what)
      PROVE  DataOK'
  BY <1>2 DEF DataOK, StartData, baVars, TopIs, Top
<1>3. CASE EndData
  BY <1>3 DEF DataOK, EndData
<1>4. CASE data # "none" /\ Forsake /\ data' = data
  BY <1>4 DEF DataOK, Forsake, Settle, TopIs, Top
<1>5. CASE data = "none" /\ data' = data
  BY <1>5 DEF DataOK
<1> QED
  BY <1>1, <1>2, <1>3, <1>4, <1>5 DEF Next, vars, DataStep

LEMMA BlocksInit == Init => BAInv /\ DataOK
<1> SUFFICES ASSUME Init PROVE BAInv /\ DataOK
  OBVIOUS
<1>1. <<>> \in Seq(Calls) /\ Len(<<>>) = 0
  OBVIOUS
<1>2. /\ stack = [t \in Threads |-> <<>>] /\ failing = [t \in Threads |-> FALSE] /\ data = "none"
      /\ py = "none" /\ nat = "none" /\ link = "none" /\ pyVar = FALSE /\ topo = FALSE /\ crash = "no"
  BY DEF Init, BAInit
<1>3. StacksOK
  <2>1. stack \in [Threads -> Seq(Calls)] /\ \A t \in Threads : stack[t] = <<>>
    BY <1>1, <1>2
  <2> QED
    BY <1>1, <1>2, <2>1, AdapterAssumption DEF AdapterAssumption, StacksOK
<1>4. BlocksOK /\ DataOK
  BY <1>2 DEF BlocksOK, DataOK
<1> QED
  BY <1>3, <1>4 DEF BAInv

(* In every state of the calls of a block, each call has the owners that its *)
(* place says, and a block is there as long as it has an owner               *)
(* (PythonBlock.cpp:21-62, Block.py:11-17).                                  *)
THEOREM BlocksInvariant == Spec => [](BAInv /\ DataOK)
<1>1. BAInv /\ DataOK /\ [Next]_vars => (BAInv /\ DataOK)'
  BY BlocksStep, DataStays
<1> QED
  BY BlocksInit, <1>1, PTL DEF Spec

(* Every variable of the blocks, of the conversions and of what joins them   *)
(* has its type (Block.py, PythonBlock.cpp, PythonConvert.cpp).              *)
THEOREM BlockCallsTypeOK == Spec => []TypeOK
<1>1. ASSUME BAInv, DataOK, CRInv PROVE TypeOK
  <2>1. ASSUME NEW c \in Frames(stack) PROVE c \in Calls
    <3>1. PICK t \in Threads : c \in ToSet(stack[t])
      BY DEF Frames
    <3> QED
      BY <1>1, <3>1, EmptyOrNot DEF BAInv, StacksOK
  <2>2. /\ nat \in {"none", "live", "dead"} /\ link \in {"none", "weak", "strong"}
    BY <1>1 DEF BAInv, BlocksOK, Owned
  <2>3. BATypeOK
    BY <1>1, <2>1, <2>2 DEF BAInv, StacksOK, BlocksOK, BATypeOK, Calls
  <2>4. CRTypeOK
    BY <1>1, CRInvGives
  <2> QED
    BY <1>1, <2>3, <2>4 DEF TypeOK, DataOK
<1> QED
  BY BlocksInvariant, ConversionsInvariant, <1>1, PTL

(* While Python code of a block runs, at whatever depth, both blocks are     *)
(* there (PythonBlock.cpp:21-62, Block.py:11-17).                            *)
THEOREM LiveInCalls == Spec => []LiveDuringCalls
<1>1. ASSUME BAInv PROVE LiveDuringCalls
  <2> SUFFICES ASSUME NEW c \in Frames(stack)
               PROVE  nat = "live" /\ (c.fn \in {"method", "forward"} => py = "live")
    BY DEF LiveDuringCalls
  <2>1. PICK t \in Threads : c \in ToSet(stack[t]) /\ stack[t] # <<>>
    BY DEF Frames, ToSet
  <2>2. CASE py \in {"live", "dead"}
    <3>1. c \in Calls
      BY <1>1, <2>1, EmptyOrNot DEF BAInv, StacksOK
    <3> QED
      BY <1>1, <2>2, <3>1 DEF BAInv, BlocksOK, Owned, PyKept, NativeKept, KeepPy, KeepNative, Calls
  <2>3. CASE py = "new"
    <3>1. t = Script /\ stack[t] = <<Call("opaque", "_setPyBlock")>> /\ nat = "live"
      BY <1>1, <2>1, <2>3 DEF BAInv, BlocksOK, Threads
    <3>2. c = Call("opaque", "_setPyBlock")
      BY <2>1, <3>1 DEF ToSet
    <3> QED
      BY <3>1, <3>2 DEF Call
  <2> QED
    BY <1>1, <2>1, <2>2, <2>3, InCall
<1> QED
  BY BlocksInvariant, <1>1, PTL

(* The blocks do not keep each other (Block.py:14): both go when the script, *)
(* the topology and the calls have let go of them.                           *)
THEOREM FreedWithOwners == Spec => []BlocksFreed
<1>1. ASSUME BAInv PROVE BlocksFreed
  <2> SUFFICES ASSUME ~pyVar, ~topo, Frames(stack) = {}
               PROVE  py # "live" /\ nat # "live"
    BY DEF BlocksFreed
  <2>1. py # "new"
    <3> SUFFICES ASSUME py = "new" PROVE FALSE
      OBVIOUS
    <3>1. stack[Script] = <<Call("opaque", "_setPyBlock")>> /\ Script \in Threads
      BY <1>1 DEF BAInv, BlocksOK, Threads
    <3>2. Call("opaque", "_setPyBlock") \in ToSet(stack[Script])
      BY <3>1 DEF ToSet
    <3> QED
      BY <3>1, <3>2 DEF Frames
  <2> QED
    BY <1>1, <2>1 DEF BAInv, BlocksOK, Owned, PyKept, NativeKept
<1> QED
  BY BlocksInvariant, <1>1, PTL

(* A call ends the process only if the topology runs a block whose Python    *)
(* object the script has let go (PythonHandle.cpp:119); constructing a block *)
(* never does.                                                               *)
THEOREM DiesForsaken == Spec => []DiesOnlyForsaken
<1>1. ASSUME BAInv PROVE DiesOnlyForsaken
  BY <1>1 DEF BAInv, BlocksOK, Owned, PyKept, DiesOnlyForsaken
<1> QED
  BY BlocksInvariant, <1>1, PTL
===============================================================================

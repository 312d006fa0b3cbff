------------------------------ MODULE BridgeProofs ------------------------------
(***************************************************************************)
(* Every function that a thread may be in has the interpreter lock where it *)
(* needs it, whatever chain of calls, returns and exceptions led there: for *)
(* any threads, any depth and any choice of the calls that are offered.     *)
(*                                                                         *)
(* The proof has two parts.  The first looks at the text of each function   *)
(* alone: which guard is open at each operation, and on which side of the   *)
(* lock each function may be called (CodeSound).  The second shows that a   *)
(* stack of such functions is always on the side that its frames say.       *)
(***************************************************************************)
EXTENDS Bridge, SequenceTheorems, FiniteSetTheorems, WellFoundedInduction, TLAPS

-----------------------------------------------------------------------------
(* The functions one by one.                                                *)

(* Those that begin with a PyGilStateLock, and may be called on either side  *)
(* of the lock; those that are called outside of it; the others inside.      *)
GilFns ==
  {"makeHandle", "dropHandle", "getHandle", "convertObjectToProxy", "wrapManaged",
   "makeProxy", "convertProxyToObject", "convertTuple", "convertDict", "findProxy", "handleCall",
   "compareTo", "handleQuery", "getClassName"}
OutsideFns ==
  {"native", "worker", "serialize", "PythonBlock_method", "PythonBlock_propagateLabels",
   "opaqueCallHandler"}

(* The operations in the scope of a PyThreadStateLock.                       *)
Unlocked ==
  {<<"PyObjectToProxy", 4>>, <<"PyObjectToProxy", 5>>,
   <<"ProxyToPyObject", 2>>, <<"ProxyToPyObject", 3>>,
   <<"convertProxyToPyProxy", 3>>, <<"convertProxyToPyProxy", 4>>,
   <<"ProxyCall_call", 5>>, <<"ProxyCall_call", 6>>,
   <<"Proxy_getattr", 7>>, <<"Proxy_getattr", 8>>,
   <<"Proxy_setattr", 6>>, <<"Proxy_setattr", 7>>,
   <<"Proxy_callProxyHelper", 7>>, <<"Proxy_callProxyHelper", 8>>}

(* The functions that an exception may leave at any place, and those of the  *)
(* functions that Python calls which it may leave at the unprotected places. *)
Throwers ==
  {"native", "nativeQuick", "getHandle", "toPython", "fromPython", "fromDict",
   "convertObjectToProxy", "convertProxyToObject", "convertDict", "findProxy",
   "handleCall", "compareTo", "serialize", "proxyEnvTranslate", "Proxy_callProxyHelper",
   "PythonBlock_method", "PythonBlock_propagateLabels", "opaqueCallHandler"}
Escapers == {"Proxy_toString", "Proxy_getClassName", "ProxyEnvironment_init"}
ThrowsAt(fn, pc) == fn \in Throwers \/ <<fn, pc>> \in Unprotected

(* How many calls that are not optional a function may need below it.        *)
Rank(fn) ==
  IF fn \in {"python", "native", "nativeQuick", "makeHandle", "dropHandle", "getHandle",
             "fromTuple", "fromDict", "fromPython", "ProxyToPyObject", "Proxy_dealloc",
             "Proxy_bool"} THEN 0
  ELSE IF fn \in {"handleQuery", "getClassName", "compareTo", "findProxy", "toPython",
                  "convertPyProxyToProxy", "PyObjectToProxy", "convertProxyToPyProxy",
                  "convertTuple", "convertDict", "makeProxy"} THEN 1
  ELSE IF fn \in {"wrapManaged", "convertProxyToObject", "handleCall", "Proxy_Compare",
                  "Proxy_toString", "Proxy_getClassName", "Proxy_getEnvironment",
                  "Proxy_init", "ProxyEnvironment_getName"} THEN 2
  ELSE IF fn \in {"convertObjectToProxy", "serialize", "Proxy_callProxyHelper",
                  "Proxy_setattr", "ProxyEnvironment_init", "ProxyEnvironment_findProxy",
                  "PythonBlock_method"} THEN 3
  ELSE IF fn \in {"proxyEnvTranslate", "Proxy_callProxy", "PythonBlock_propagateLabels",
                  "opaqueCallHandler"} THEN 4
  ELSE 5

(* The guard that is open before an operation, and whether the function says *)
(* that the lock is held there.                                              *)
Kind(fn, pc) ==
  IF fn \in GilFns THEN (IF pc = 1 THEN "none" ELSE "gil")
  ELSE IF <<fn, pc>> \in Unlocked THEN "unlock" ELSE "none"
HeldAt(fn, pc) ==
  IF fn \in GilFns THEN pc # 1 ELSE fn \notin OutsideFns /\ <<fn, pc>> \notin Unlocked

Sound(fn, body) == Len(body) \in Nat /\ \A pc \in 1 .. Len(body) :
  LET c == body[pc]
      kind == Kind(fn, pc)
      next == Kind(fn, pc + 1)
  IN  /\ c.op = "gil" <=> fn \in GilFns /\ pc = 1
      /\ c.op = "unlock" => HeldAt(fn, pc) /\ kind = "none" /\ next = "unlock"
      /\ c.op = "close" => kind = "unlock" /\ next = "none"
      /\ c.op \notin {"gil", "unlock", "close"} => kind = next
      /\ c.op = "api" => HeldAt(fn, pc)
      /\ c.op = "await" => fn = "native"
      /\ c.op = "maySkip" => /\ c.skip \in Int
                             /\ pc + 1 + c.skip \in 1 .. Len(body) + 1
                             /\ Kind(fn, pc + 1 + c.skip) = kind
      /\ c.op = "call" => \A f \in c.fns \ {"none"} :
           /\ f \in Fns
           /\ f \notin GilFns => (f \in OutsideFns <=> ~HeldAt(fn, pc))
           /\ f \in Throwers => ThrowsAt(fn, pc) \/ Catches(fn, pc)
           /\ f \in Escapers => fn = "python"
           /\ "none" \in c.fns \/ Rank(f) < Rank(fn)
      /\ c.op = "mayThrow" => ThrowsAt(fn, pc) \/ Catches(fn, pc)
      /\ Catches(fn, pc) =>
           /\ Try[fn].handler \in 1 .. Len(body)
           /\ Try[fn].keep = IF fn \in GilFns THEN 1 ELSE 0
           /\ Kind(fn, Try[fn].handler) = IF fn \in GilFns THEN "gil" ELSE "none"

LEMMA FnsAre == Fns =
  {"python", "native", "nativeQuick", "worker", "makeHandle", "dropHandle",
   "getHandle", "toPython", "fromPython", "fromTuple", "fromDict", "convertDict",
   "convertObjectToProxy", "wrapManaged", "convertProxyToObject",
   "convertTuple", "findProxy", "handleCall", "compareTo", "handleQuery",
   "getClassName", "serialize", "PyObjectToProxy", "ProxyToPyObject",
   "convertPyProxyToProxy", "convertProxyToPyProxy", "proxyEnvTranslate",
   "ProxyCall_call", "Proxy_getattr", "Proxy_setattr",
   "Proxy_callProxyHelper", "Proxy_callProxy", "Proxy_call",
   "Proxy_convert", "Proxy_Compare", "Proxy_toString", "Proxy_getClassName",
   "Proxy_getEnvironment", "Proxy_bool",
   "Proxy_init", "Proxy_dealloc", "makeProxy", "ProxyEnvironment_init",
   "ProxyEnvironment_getName", "ProxyEnvironment_convertProxyToObject",
   "ProxyEnvironment_findProxy", "ProxyEnvironment_convertObjectToProxy",
   "PythonBlock_method", "PythonBlock_propagateLabels", "opaqueCallHandler"}
BY DEF Fns, Code

LEMMA CodeIs ==
  /\ Code["python"] = Python
  /\ Code["native"] = Native
  /\ Code["nativeQuick"] = NativeQuick
  /\ Code["worker"] = Worker
  /\ Code["makeHandle"] = MakeHandle
  /\ Code["dropHandle"] = DropHandle
  /\ Code["getHandle"] = GetHandle
  /\ Code["toPython"] = ToPython
  /\ Code["fromPython"] = FromPython
  /\ Code["fromTuple"] = FromTuple
  /\ Code["fromDict"] = FromDict
  /\ Code["convertDict"] = ConvertDict
  /\ Code["convertObjectToProxy"] = ConvertObjectToProxy
  /\ Code["wrapManaged"] = WrapManaged
  /\ Code["convertProxyToObject"] = ConvertProxyToObject
  /\ Code["convertTuple"] = ConvertTuple
  /\ Code["findProxy"] = FindProxy
  /\ Code["handleCall"] = HandleCall
  /\ Code["compareTo"] = CompareTo
  /\ Code["handleQuery"] = HandleQuery
  /\ Code["getClassName"] = HandleQuery
  /\ Code["serialize"] = Serialize
  /\ Code["PyObjectToProxy"] = PyObjectToProxy
  /\ Code["ProxyToPyObject"] = ProxyToPyObject
  /\ Code["convertPyProxyToProxy"] = ConvertPyProxyToProxy
  /\ Code["convertProxyToPyProxy"] = ConvertProxyToPyProxy
  /\ Code["proxyEnvTranslate"] = ProxyEnvTranslate
  /\ Code["ProxyCall_call"] = ProxyCall_call
  /\ Code["Proxy_getattr"] = Proxy_getattr
  /\ Code["Proxy_setattr"] = Proxy_setattr
  /\ Code["Proxy_callProxyHelper"] = Proxy_callProxyHelper
  /\ Code["Proxy_callProxy"] = Proxy_callProxy
  /\ Code["Proxy_call"] = Proxy_call
  /\ Code["Proxy_convert"] = Proxy_convert
  /\ Code["Proxy_Compare"] = Proxy_Compare
  /\ Code["Proxy_toString"] = Proxy_toString
  /\ Code["Proxy_getClassName"] = Proxy_getClassName
  /\ Code["Proxy_getEnvironment"] = Proxy_getEnvironment
  /\ Code["Proxy_bool"] = Proxy_bool
  /\ Code["Proxy_init"] = Proxy_init
  /\ Code["Proxy_dealloc"] = Proxy_dealloc
  /\ Code["makeProxy"] = MakeProxy
  /\ Code["ProxyEnvironment_init"] = ProxyEnvironment_init
  /\ Code["ProxyEnvironment_getName"] = ProxyEnvironment_getName
  /\ Code["ProxyEnvironment_convertProxyToObject"] = ProxyEnvironment_convertProxyToObject
  /\ Code["ProxyEnvironment_findProxy"] = ProxyEnvironment_findProxy
  /\ Code["ProxyEnvironment_convertObjectToProxy"] = ProxyEnvironment_convertObjectToProxy
  /\ Code["PythonBlock_method"] = PythonBlock_method
  /\ Code["PythonBlock_propagateLabels"] = PythonBlock_propagateLabels
  /\ Code["opaqueCallHandler"] = OpaqueCallHandler
BY DEF Code

(* What is called from where, and which guards are open at each operation,   *)
(* is as the definitions above say in every function.                        *)
LEMMA CodeSound == \A fn \in Fns : Sound(fn, Code[fn])
<1> USE FnsAre, CallsAssumption
    DEF Sound, Kind, HeldAt, GilFns, OutsideFns, Unlocked, Throwers, Escapers, ThrowsAt,
        Unprotected, Rank, Catches, Try,
        WholeBody, Gil, Unlock, Close, Api, Incref, MayThrow, MayReturn, Return, Submit,
        Await, TakeJob, JobDone, MaySkip, Calls, Call, MayCall, Remote,
        ModuleFunctions, ProxyFunctions, BlockMethods, FromTuple, Proxy_toString,
        Proxy_convert
<1>1. Sound("python", Code["python"])
  <2>1. Sound("python", Python)
    BY DEF Python
  <2> QED
    BY ONLY <2>1, CodeIs
<1>2. Sound("native", Code["native"])
  <2>1. Sound("native", Native)
    BY DEF Native
  <2> QED
    BY ONLY <2>1, CodeIs
<1>3. Sound("handleCall", Code["handleCall"])
  <2>1. Sound("handleCall", HandleCall)
    BY DEF HandleCall
  <2> QED
    BY ONLY <2>1, CodeIs
<1> USE CodeIs
<1>4. Sound("nativeQuick", Code["nativeQuick"])
  BY DEF NativeQuick
<1>5. Sound("worker", Code["worker"])
  BY DEF Worker
<1>6. Sound("makeHandle", Code["makeHandle"])
  BY DEF MakeHandle
<1>7. Sound("dropHandle", Code["dropHandle"])
  BY DEF DropHandle
<1>8. Sound("getHandle", Code["getHandle"])
  BY DEF GetHandle
<1>9. Sound("toPython", Code["toPython"])
  BY DEF ToPython
<1>10. Sound("fromPython", Code["fromPython"])
  BY DEF FromPython
<1>11. Sound("fromTuple", Code["fromTuple"])
  BY DEF FromTuple
<1>12. Sound("convertObjectToProxy", Code["convertObjectToProxy"])
  BY DEF ConvertObjectToProxy
<1>13. Sound("wrapManaged", Code["wrapManaged"])
  BY DEF WrapManaged
<1>14. Sound("convertProxyToObject", Code["convertProxyToObject"])
  BY DEF ConvertProxyToObject
<1>15. Sound("convertTuple", Code["convertTuple"])
  BY DEF ConvertTuple
<1>16. Sound("findProxy", Code["findProxy"])
  BY DEF FindProxy
<1>17. Sound("compareTo", Code["compareTo"])
  BY DEF CompareTo
<1>18. Sound("handleQuery", Code["handleQuery"])
  BY DEF HandleQuery
<1>19. Sound("getClassName", Code["getClassName"])
  BY DEF HandleQuery
<1>20. Sound("serialize", Code["serialize"])
  BY DEF Serialize
<1>21. Sound("PyObjectToProxy", Code["PyObjectToProxy"])
  BY DEF PyObjectToProxy
<1>22. Sound("ProxyToPyObject", Code["ProxyToPyObject"])
  BY DEF ProxyToPyObject
<1>23. Sound("convertPyProxyToProxy", Code["convertPyProxyToProxy"])
  BY DEF ConvertPyProxyToProxy
<1>24. Sound("convertProxyToPyProxy", Code["convertProxyToPyProxy"])
  BY DEF ConvertProxyToPyProxy
<1>25. Sound("proxyEnvTranslate", Code["proxyEnvTranslate"])
  BY DEF ProxyEnvTranslate
<1>26. Sound("ProxyCall_call", Code["ProxyCall_call"])
  BY DEF ProxyCall_call
<1>27. Sound("Proxy_getattr", Code["Proxy_getattr"])
  BY DEF Proxy_getattr
<1>28. Sound("Proxy_setattr", Code["Proxy_setattr"])
  BY DEF Proxy_setattr
<1>29. Sound("Proxy_callProxyHelper", Code["Proxy_callProxyHelper"])
  BY DEF Proxy_callProxyHelper
<1>30. Sound("Proxy_callProxy", Code["Proxy_callProxy"])
  BY DEF Proxy_callProxy
<1>31. Sound("Proxy_call", Code["Proxy_call"])
  BY DEF Proxy_call
<1>32. Sound("Proxy_convert", Code["Proxy_convert"])
  BY DEF Proxy_convert
<1>33. Sound("Proxy_Compare", Code["Proxy_Compare"])
  BY DEF Proxy_Compare
<1>34. Sound("Proxy_toString", Code["Proxy_toString"])
  BY DEF Proxy_toString
<1>35. Sound("Proxy_getClassName", Code["Proxy_getClassName"])
  BY DEF Proxy_getClassName
<1>36. Sound("Proxy_init", Code["Proxy_init"])
  BY DEF Proxy_init
<1>37. Sound("Proxy_dealloc", Code["Proxy_dealloc"])
  BY DEF Proxy_dealloc
<1>38. Sound("makeProxy", Code["makeProxy"])
  BY DEF MakeProxy
<1>39. Sound("ProxyEnvironment_init", Code["ProxyEnvironment_init"])
  BY DEF ProxyEnvironment_init
<1>40. Sound("ProxyEnvironment_getName", Code["ProxyEnvironment_getName"])
  BY DEF ProxyEnvironment_getName
<1>41. Sound("ProxyEnvironment_convertProxyToObject", Code["ProxyEnvironment_convertProxyToObject"])
  BY DEF ProxyEnvironment_convertProxyToObject
<1>42. Sound("ProxyEnvironment_findProxy", Code["ProxyEnvironment_findProxy"])
  BY DEF ProxyEnvironment_findProxy
<1>43. Sound("ProxyEnvironment_convertObjectToProxy", Code["ProxyEnvironment_convertObjectToProxy"])
  BY DEF ProxyEnvironment_convertObjectToProxy
<1>44. Sound("PythonBlock_method", Code["PythonBlock_method"])
  BY DEF PythonBlock_method
<1>45. Sound("PythonBlock_propagateLabels", Code["PythonBlock_propagateLabels"])
  BY DEF PythonBlock_propagateLabels
<1>46. Sound("opaqueCallHandler", Code["opaqueCallHandler"])
  BY DEF OpaqueCallHandler
<1>47. Sound("fromDict", Code["fromDict"])
  BY DEF FromDict
<1>48. Sound("convertDict", Code["convertDict"])
  BY DEF ConvertDict
<1>49. Sound("Proxy_getEnvironment", Code["Proxy_getEnvironment"])
  BY DEF Proxy_getEnvironment
<1>50. Sound("Proxy_bool", Code["Proxy_bool"])
  BY DEF Proxy_bool
<1> HIDE CodeIs, CallsAssumption DEF Sound
<1> QED
  BY <1>1, <1>2, <1>3, <1>4, <1>5, <1>6, <1>7, <1>8, <1>9, <1>10, <1>11,
     <1>12, <1>13, <1>14, <1>15, <1>16, <1>17, <1>18, <1>19, <1>20, <1>21,
     <1>22, <1>23, <1>24, <1>25, <1>26, <1>27, <1>28, <1>29, <1>30, <1>31,
     <1>32, <1>33, <1>34, <1>35, <1>36, <1>37, <1>38, <1>39, <1>40, <1>41,
     <1>42, <1>43, <1>44, <1>45, <1>46, <1>47, <1>48, <1>49, <1>50

LEMMA LenCode == \A fn \in Fns : Len(Code[fn]) \in Nat
BY CodeSound DEF Sound

LEMMA OutsideHasNoGuard ==
  \A fn \in OutsideFns : fn \notin GilFns /\ \A pc \in Nat : <<fn, pc>> \notin Unlocked
BY DEF OutsideFns, GilFns, Unlocked

(* The try blocks lie within their functions; a handler finds the guard that *)
(* was opened before the block.                                              *)
LEMMA TryIn ==
  \A fn \in DOMAIN Try :
    /\ fn \in Fns /\ Try[fn].keep = IF fn \in GilFns THEN 1 ELSE 0
    /\ \A pc \in Nat : Catches(fn, pc) => pc \in 1 .. Len(Code[fn])
<1> SUFFICES ASSUME NEW fn \in DOMAIN Try
             PROVE  /\ fn \in Fns /\ Try[fn].keep = IF fn \in GilFns THEN 1 ELSE 0
                    /\ \A pc \in Nat : Catches(fn, pc) => pc \in 1 .. Len(Code[fn])
  OBVIOUS
<1>1. /\ fn \in Fns /\ Try[fn].keep = IF fn \in GilFns THEN 1 ELSE 0
      /\ Try[fn].from \in Nat \ {0}
      /\ \/ Try[fn].handler = Len(Code[fn])
         \/ fn = "convertObjectToProxy" /\ Try[fn].handler = 4
         \/ fn = "ProxyEnvironment_init" /\ Try[fn].handler = 13
         \/ fn = "ProxyEnvironment_findProxy" /\ Try[fn].handler = 8
  <2>1. fn \in Fns
    BY FnsAre DEF Try
  <2>2. Try[fn].keep = IF fn \in GilFns THEN 1 ELSE 0
    BY SMTT(30) DEF Try, WholeBody, GilFns
  <2>3. Try[fn].from \in Nat \ {0}
    BY SMTT(30) DEF Try, WholeBody
  <2>4. \/ Try[fn].handler = Len(Code[fn])
        \/ fn = "convertObjectToProxy" /\ Try[fn].handler = 4
        \/ fn = "ProxyEnvironment_init" /\ Try[fn].handler = 13
        \/ fn = "ProxyEnvironment_findProxy" /\ Try[fn].handler = 8
    BY SMTT(30) DEF Try, WholeBody
  <2> QED
    BY <2>1, <2>2, <2>3, <2>4
<1>2. Len(ConvertObjectToProxy) >= 4 /\ Len(ProxyEnvironment_init) >= 13
      /\ Len(ProxyEnvironment_findProxy) >= 8
  BY DEF ConvertObjectToProxy, ProxyEnvironment_init, ProxyEnvironment_findProxy
<1>3. Len(Code[fn]) \in Nat
  BY <1>1, LenCode
<1>4. Try[fn].handler \in Nat /\ Try[fn].handler <= Len(Code[fn])
  BY <1>1, <1>2, <1>3, CodeIs
<1> QED
  BY <1>1, <1>3, <1>4 DEF Catches

-----------------------------------------------------------------------------
(* Stacks of functions.                                                     *)

Frames == [fn : Fns, pc : Nat \ {0}, mode : {"run", "return", "throw"},
           open : {<<>>, <<"locked">>, <<"unlocked">>, <<"saved">>}]

(* The guard of f's position is open.                                        *)
Full(f) ==
  \/ Kind(f.fn, f.pc) = "none" /\ f.open = <<>>
  \/ Kind(f.fn, f.pc) = "gil" /\ f.open \in {<<"locked">>, <<"unlocked">>}
  \/ Kind(f.fn, f.pc) = "unlock" /\ f.open = <<"saved">>

FrameOK(f) ==
  /\ f.pc <= Len(Code[f.fn]) + 1
  /\ f.open # <<>> => Full(f)
  /\ f.mode = "run" /\ f.pc <= Len(Code[f.fn]) => Full(f)
  /\ f.mode = "throw" => ThrowsAt(f.fn, f.pc) \/ Catches(f.fn, f.pc)
  /\ f.mode = "throw" /\ Catches(f.fn, f.pc) /\ f.fn \in GilFns => Full(f)

(* f says that the lock is held.                                             *)
Held(f) == IF f.open = <<>> THEN f.fn \notin OutsideFns ELSE f.open # <<"saved">>

(* What the guard of a remembers is what its caller b says.                  *)
Remembers(b, a) ==
  /\ a.open = <<"locked">> => Held(b)
  /\ a.open = <<"unlocked">> => ~Held(b)

Called(b, fn) ==
  /\ b.mode = "run" /\ b.pc > 1 /\ Full(b)
  /\ Code[b.fn][b.pc - 1].op = "call" /\ fn \in Code[b.fn][b.pc - 1].fns

StackOK(t, s) ==
  /\ s \in Seq(Frames) /\ s # <<>>
  /\ s[1].fn = RootFn(t)
  /\ \A i \in 1 .. Len(s) : FrameOK(s[i]) /\ i + Rank(s[i].fn) <= MaxDepth + 6
  /\ \A i \in 2 .. Len(s) : Called(s[i - 1], s[i].fn) /\ Remembers(s[i - 1], s[i])

(* A function that has not opened its PyGilStateLock, or has closed it, is   *)
(* where its caller is.                                                      *)
InTop(s) ==
  IF s[Len(s)].open = <<>> /\ s[Len(s)].fn \in GilFns
  THEN Held(s[Len(s) - 1]) ELSE Held(s[Len(s)])

StacksOK == DOMAIN stack = Threads /\ \A t \in Threads : StackOK(t, stack[t])

GilOK ==
  /\ gil \in Threads \cup {NoThread}
  /\ parked \in [Threads -> BOOLEAN]
  /\ \A t \in Threads :
       /\ gil = t <=> ~parked[t] /\ InTop(stack[t])
       /\ parked[t] => Cur(t).fn = "python" /\ Cur(t).mode = "run"

JobsOK ==
  /\ queue \in [Workers -> Seq(Threads)]
  /\ serving \in [Workers -> Threads \cup {NoThread}]

BInv == StacksOK /\ GilOK /\ JobsOK

-----------------------------------------------------------------------------
(* Lemmas about stacks.                                                     *)

LEMMA GuardsDiffer ==
  /\ <<"locked">> # <<"saved">> /\ <<"unlocked">> # <<"saved">>
  /\ <<"locked">> # <<"unlocked">>
  /\ <<"locked">> # <<>> /\ <<"unlocked">> # <<>> /\ <<"saved">> # <<>>
OBVIOUS

LEMMA NonEmpty ==
  ASSUME NEW t, NEW s, StackOK(t, s)
  PROVE  /\ Len(s) \in Nat \ {0} /\ DOMAIN s = 1 .. Len(s)
         /\ \A i \in 1 .. Len(s) : s[i] \in Frames
         /\ Last(s) = s[Len(s)] /\ Last(s) \in Frames /\ FrameOK(Last(s))
BY DEF StackOK, Last

LEMMA FrontIs ==
  ASSUME NEW S, NEW s \in Seq(S), s # <<>>
  PROVE  /\ Front(s) \in Seq(S)
         /\ Len(s) \in Nat \ {0} /\ Len(Front(s)) = Len(s) - 1
         /\ \A i \in 1 .. Len(s) - 1 : Front(s)[i] = s[i]
<1>1. Len(s) \in Nat \ {0} /\ \A i \in 1 .. Len(s) : s[i] \in S
  OBVIOUS
<1> DEFINE n == Len(s) - 1
<1>2. n \in Nat /\ \A i \in 1 .. n : s[i] \in S
  BY <1>1
<1>3. 1 \in Int /\ n \in Int
  BY <1>2
<1> HIDE DEF n
<1>4. /\ SubSeq(s, 1, n) \in Seq(S)
      /\ Len(SubSeq(s, 1, n)) = IF 1 <= n THEN n - 1 + 1 ELSE 0
      /\ \A i \in 1 .. n - 1 + 1 : SubSeq(s, 1, n)[i] = s[1 + i - 1]
  BY <1>2, <1>3, SubSeqProperties
<1>5. Front(s) = SubSeq(s, 1, n)
  BY DEF Front, n
<1>6. Len(Front(s)) = n /\ \A i \in 1 .. n : Front(s)[i] = s[i]
  BY <1>2, <1>4, <1>5
<1> QED
  BY <1>1, <1>4, <1>5, <1>6 DEF n

(* The innermost frame becomes another one of the same function.             *)
LEMMA TopReplaced ==
  ASSUME NEW t, NEW s, StackOK(t, s), NEW f \in Frames, FrameOK(f),
         f.fn = Last(s).fn,
         Len(s) > 1 => Remembers(s[Len(s) - 1], f)
  PROVE  LET r == Append(Front(s), f)
         IN  /\ StackOK(t, r) /\ Len(r) = Len(s) /\ r[Len(r)] = f /\ Last(r) = f
             /\ \A i \in 1 .. Len(s) - 1 : r[i] = s[i]
             /\ InTop(r) <=> IF f.open = <<>> /\ f.fn \in GilFns
                             THEN Held(s[Len(s) - 1]) ELSE Held(f)
<1> DEFINE r == Append(Front(s), f)
           n == Len(s)
<1>1. /\ n \in Nat \ {0} /\ s \in Seq(Frames) /\ s # <<>> /\ Last(s) = s[n]
  BY NonEmpty DEF StackOK
<1>2. /\ Front(s) \in Seq(Frames) /\ Len(Front(s)) = n - 1
      /\ \A i \in 1 .. n - 1 : Front(s)[i] = s[i]
  BY <1>1, FrontIs
<1>3. /\ r \in Seq(Frames) /\ r # <<>> /\ Len(r) = n /\ r[n] = f
      /\ \A i \in 1 .. n - 1 : r[i] = s[i]
  BY <1>1, <1>2
<1> HIDE DEF r
<1>4. r[1].fn = RootFn(t)
  BY <1>1, <1>3 DEF StackOK
<1>5. ASSUME NEW i \in 1 .. n
      PROVE  FrameOK(r[i]) /\ i + Rank(r[i].fn) <= MaxDepth + 6
  <2>1. FrameOK(s[i]) /\ i + Rank(s[i].fn) <= MaxDepth + 6
    BY DEF StackOK
  <2>2. CASE i = n
    BY <1>1, <1>3, <2>1, <2>2
  <2>3. CASE i # n
    BY <1>1, <1>3, <2>1, <2>3
  <2> QED
    BY <2>2, <2>3
<1>6. ASSUME NEW i \in 2 .. n
      PROVE  Called(r[i - 1], r[i].fn) /\ Remembers(r[i - 1], r[i])
  <2>1. i - 1 \in 1 .. n - 1 /\ i \in 1 .. n /\ Called(s[i - 1], s[i].fn) /\ Remembers(s[i - 1], s[i])
    BY <1>1 DEF StackOK
  <2> QED
    BY <1>1, <1>3, <2>1
<1>7. StackOK(t, r)
  BY <1>1, <1>3, <1>4, <1>5, <1>6 DEF StackOK
<1>8. InTop(r) <=> IF f.open = <<>> /\ f.fn \in GilFns
                   THEN Held(s[n - 1]) ELSE Held(f)
  <2>1. CASE n > 1
    <3>1. n - 1 \in 1 .. n - 1
      BY <1>1, <2>1
    <3>2. r[Len(r)] = f /\ r[Len(r) - 1] = s[n - 1]
      BY <1>3, <3>1
    <3> QED
      BY <3>2 DEF InTop
  <2>2. CASE n = 1
    <3>1. f.fn \notin GilFns
      BY <1>1, <2>2 DEF StackOK, RootFn, GilFns
    <3> QED
      BY <1>1, <1>3, <3>1 DEF InTop
  <2>3. \A m \in Nat \ {0} : m > 1 \/ m = 1
    OBVIOUS
  <2> QED
    BY <1>1, <2>1, <2>2, <2>3
<1>9. Last(r) = f
  BY <1>3 DEF Last
<1> QED
  BY <1>3, <1>7, <1>8, <1>9 DEF r

(* A call is on the side of the lock that the function it calls is for.      *)
LEMMA CallerSide ==
  ASSUME NEW b \in Frames, NEW fn \in Fns, Called(b, fn), b.pc <= Len(Code[b.fn]) + 1
  PROVE  /\ fn \notin GilFns => (fn \in OutsideFns <=> ~Held(b))
         /\ fn \in Throwers => ThrowsAt(b.fn, b.pc - 1) \/ Catches(b.fn, b.pc - 1)
         /\ fn \in Escapers => b.fn = "python"
         /\ "none" \in Code[b.fn][b.pc - 1].fns \/ Rank(fn) < Rank(b.fn)
         /\ Kind(b.fn, b.pc - 1) = Kind(b.fn, b.pc)
         /\ b.fn \in GilFns => b.open # <<>>
<1> DEFINE pc == b.pc - 1
<1>1. b.fn \in Fns /\ b.pc \in Nat /\ pc \in 1 .. Len(Code[b.fn]) /\ pc + 1 = b.pc
  <2>1. b.fn \in Fns /\ b.pc \in Nat /\ b.pc > 1
    BY DEF Frames, Called
  <2>2. Len(Code[b.fn]) \in Nat
    BY <2>1, LenCode
  <2> QED
    BY <2>1, <2>2
<1>2. fn # "none"
  BY FnsAre
<1> HIDE DEF pc
<1>3. /\ Code[b.fn][pc].op = "call" /\ fn \in Code[b.fn][pc].fns /\ Full(b)
  BY DEF Called, pc
<1>4. /\ Kind(b.fn, pc) = Kind(b.fn, b.pc)
      /\ fn \notin GilFns => (fn \in OutsideFns <=> ~HeldAt(b.fn, pc))
      /\ fn \in Throwers => ThrowsAt(b.fn, pc) \/ Catches(b.fn, pc)
      /\ fn \in Escapers => b.fn = "python"
      /\ "none" \in Code[b.fn][pc].fns \/ Rank(fn) < Rank(b.fn)
      /\ ~ (b.fn \in GilFns /\ pc = 1)
  <2>1. Sound(b.fn, Code[b.fn])
    BY <1>1, CodeSound
  <2> QED
    BY <1>1, <1>2, <1>3, <2>1 DEF Sound
<1>5. Held(b) <=> HeldAt(b.fn, pc)
  <2>1. CASE b.fn \in GilFns
    <3>1. HeldAt(b.fn, pc) /\ Kind(b.fn, b.pc) = "gil"
      BY <1>1, <1>4, <2>1 DEF HeldAt, Kind
    <3> QED
      BY <1>3, <3>1, GuardsDiffer DEF Held, Full
  <2>2. CASE b.fn \notin GilFns
    <3>1. Kind(b.fn, b.pc) = IF <<b.fn, pc>> \in Unlocked THEN "unlock" ELSE "none"
      BY <1>4, <2>2 DEF Kind
    <3>2. b.open = IF <<b.fn, pc>> \in Unlocked THEN <<"saved">> ELSE <<>>
      BY <1>3, <3>1 DEF Full
    <3> QED
      BY <1>1, <2>2, <3>2, OutsideHasNoGuard, GuardsDiffer DEF Held, HeldAt
  <2> QED
    BY <2>1, <2>2
<1>6. b.fn \in GilFns => b.open # <<>>
  <2>1. b.fn \in GilFns => Kind(b.fn, b.pc) = "gil"
    BY <1>1, <1>4 DEF Kind
  <2> QED
    BY <1>3, <2>1, GuardsDiffer DEF Full
<1> QED
  BY <1>4, <1>5, <1>6 DEF pc

(* A function is called.                                                     *)
LEMMA Pushed ==
  ASSUME NEW t, NEW s, StackOK(t, s), NEW fn \in Fns, Called(Last(s), fn),
         Len(s) + 1 + Rank(fn) <= MaxDepth + 6
  PROVE  LET r == Append(s, Frame(fn))
         IN  StackOK(t, r) /\ Last(r) = Frame(fn) /\ (InTop(r) <=> InTop(s))
<1> DEFINE g == Frame(fn)
           r == Append(s, g)
           n == Len(s)
<1>1. /\ n \in Nat \ {0} /\ s \in Seq(Frames) /\ s # <<>> /\ Last(s) = s[n]
      /\ s[n] \in Frames /\ FrameOK(s[n])
  BY NonEmpty DEF StackOK
<1>2. g \in Frames /\ g.fn = fn /\ g.pc = 1 /\ g.mode = "run" /\ g.open = <<>>
  BY DEF Frame, Frames
<1>3. Full(g) /\ FrameOK(g)
  <2>1. <<fn, 1>> \notin Unlocked
    BY DEF Unlocked
  <2>2. Full(g)
    BY <1>2, <2>1 DEF Full, Kind
  <2> QED
    BY <1>2, <2>2, LenCode DEF FrameOK
<1> HIDE DEF g
<1>4. /\ r \in Seq(Frames) /\ r # <<>> /\ Len(r) = n + 1 /\ r[n + 1] = g
      /\ \A i \in 1 .. n : r[i] = s[i]
  BY <1>1, <1>2
<1> HIDE DEF r
<1>5. r[1].fn = RootFn(t)
  BY <1>1, <1>4 DEF StackOK
<1>6. ASSUME NEW i \in 1 .. n + 1
      PROVE  FrameOK(r[i]) /\ i + Rank(r[i].fn) <= MaxDepth + 6
  <2>1. CASE i = n + 1
    BY <1>1, <1>2, <1>3, <1>4, <2>1
  <2>2. CASE i # n + 1
    <3>1. i \in 1 .. n
      BY <1>1, <2>2
    <3> QED
      BY <1>4, <3>1 DEF StackOK
  <2> QED
    BY <2>1, <2>2
<1>7. ASSUME NEW i \in 2 .. n + 1
      PROVE  Called(r[i - 1], r[i].fn) /\ Remembers(r[i - 1], r[i])
  <2>1. CASE i = n + 1
    <3>1. r[i - 1] = s[n] /\ r[i] = g
      BY <1>1, <1>4, <2>1
    <3> QED
      BY <1>1, <1>2, <3>1, GuardsDiffer DEF Remembers
  <2>2. CASE i # n + 1
    <3>1. i \in 2 .. n /\ i - 1 \in 1 .. n /\ i \in 1 .. n
      BY <1>1, <2>2
    <3> QED
      BY <1>4, <3>1 DEF StackOK
  <2> QED
    BY <2>1, <2>2
<1>8. StackOK(t, r)
  BY <1>1, <1>4, <1>5, <1>6, <1>7 DEF StackOK
<1>9. InTop(r) <=> InTop(s)
  <2>1. /\ fn \notin GilFns => (fn \in OutsideFns <=> ~Held(s[n]))
        /\ s[n].fn \in GilFns => s[n].open # <<>>
    BY <1>1, CallerSide DEF FrameOK
  <2>2. InTop(s) <=> Held(s[n])
    BY <2>1 DEF InTop
  <2>3. r[Len(r)] = g /\ r[Len(r) - 1] = s[n]
    BY <1>1, <1>4
  <2>4. CASE fn \in GilFns
    BY <1>2, <2>2, <2>3, <2>4 DEF InTop
  <2>5. CASE fn \notin GilFns
    BY <1>2, <2>1, <2>2, <2>3, <2>5 DEF InTop, Held
  <2> QED
    BY <2>4, <2>5
<1>10. Last(r) = g
  BY <1>4 DEF Last
<1> QED
  BY <1>8, <1>9, <1>10 DEF r, g

(* A function that has closed its guard is left.                             *)
LEMMA Popped ==
  ASSUME NEW t, NEW s, StackOK(t, s), Len(s) > 1, Last(s).open = <<>>
  PROVE  LET r == Front(s)
         IN  /\ StackOK(t, r) /\ (InTop(r) <=> InTop(s))
             /\ Called(Last(r), Last(s).fn)
             /\ Len(r) = Len(s) - 1 /\ \A i \in 1 .. Len(r) : r[i] = s[i]
<1> DEFINE r == Front(s)
           n == Len(s)
<1>1. /\ n \in Nat \ {0} /\ s \in Seq(Frames) /\ s # <<>> /\ Last(s) = s[n]
      /\ s[n] \in Frames
  BY NonEmpty DEF StackOK
<1>2. /\ r \in Seq(Frames) /\ Len(r) = n - 1
      /\ \A i \in 1 .. n - 1 : r[i] = s[i]
  BY <1>1, FrontIs
<1> HIDE DEF r
<1>3. n - 1 \in 1 .. n - 1 /\ n \in 2 .. n /\ r # <<>> /\ Last(r) = s[n - 1]
      /\ r[Len(r)] = s[n - 1]
  BY <1>1, <1>2 DEF Last
<1>4. r[1].fn = RootFn(t)
  BY <1>1, <1>2, <1>3 DEF StackOK
<1>5. \A i \in 1 .. n - 1 : FrameOK(r[i]) /\ i + Rank(r[i].fn) <= MaxDepth + 6
  <2>1. \A i \in 1 .. n - 1 : i \in 1 .. n /\ r[i] = s[i]
    BY <1>1, <1>2
  <2> QED
    BY <2>1 DEF StackOK
<1>6. \A i \in 2 .. n - 1 : Called(r[i - 1], r[i].fn) /\ Remembers(r[i - 1], r[i])
  <2>1. \A i \in 2 .. n - 1 : i \in 2 .. n /\ r[i] = s[i] /\ r[i - 1] = s[i - 1]
    BY <1>1, <1>2
  <2> QED
    BY <2>1 DEF StackOK
<1>7. StackOK(t, r)
  BY <1>2, <1>3, <1>4, <1>5, <1>6 DEF StackOK
<1>8. Called(s[n - 1], s[n].fn)
  BY <1>3 DEF StackOK
<1>9. InTop(r) <=> InTop(s)
  <2>0. n - 1 \in 1 .. n
    BY <1>1, <1>3
  <2>1. s[n - 1] \in Frames /\ s[n].fn \in Fns /\ FrameOK(s[n - 1])
    BY <1>1, <2>0, NonEmpty DEF StackOK, Frames
  <2>2. /\ s[n].fn \notin GilFns => (s[n].fn \in OutsideFns <=> ~Held(s[n - 1]))
        /\ s[n - 1].fn \in GilFns => s[n - 1].open # <<>>
    BY <1>8, <2>1, CallerSide DEF FrameOK
  <2>3. InTop(r) <=> Held(s[n - 1])
    BY <1>3, <2>2 DEF InTop
  <2>4. s[n].open = <<>>
    BY <1>1
  <2>5. CASE s[n].fn \in GilFns
    BY <2>3, <2>4, <2>5 DEF InTop
  <2>6. CASE s[n].fn \notin GilFns
    BY <2>2, <2>3, <2>4, <2>6 DEF InTop, Held
  <2> QED
    BY <2>5, <2>6
<1> QED
  BY <1>1, <1>2, <1>3, <1>7, <1>8, <1>9 DEF r

LEMMA SameOpen ==
  ASSUME NEW t, NEW s, StackOK(t, s), NEW f \in Frames, FrameOK(f),
         f.fn = Last(s).fn, f.open = Last(s).open
  PROVE  LET r == Append(Front(s), f)
         IN  /\ StackOK(t, r) /\ Len(r) = Len(s) /\ Last(r) = f
             /\ InTop(r) <=> InTop(s)
<1> DEFINE r == Append(Front(s), f)
           n == Len(s)
<1>1. n \in Nat \ {0} /\ Last(s) = s[n]
  BY NonEmpty
<1>2. n > 1 => Remembers(s[n - 1], f)
  <2>1. n > 1 => n \in 2 .. n
    BY <1>1
  <2>2. n > 1 => Remembers(s[n - 1], s[n])
    BY <2>1 DEF StackOK
  <2> QED
    BY <1>1, <2>2 DEF Remembers
<1>3. /\ StackOK(t, r) /\ Len(r) = n /\ Last(r) = f
      /\ InTop(r) <=> IF f.open = <<>> /\ f.fn \in GilFns
                      THEN Held(s[n - 1]) ELSE Held(f)
  BY <1>2, TopReplaced
<1> HIDE DEF r
<1>4. Held(f) <=> Held(s[n])
  BY <1>1 DEF Held
<1>5. InTop(s) <=> IF f.open = <<>> /\ f.fn \in GilFns
                   THEN Held(s[n - 1]) ELSE Held(f)
  BY <1>1, <1>4 DEF InTop
<1> QED
  BY <1>3, <1>5 DEF r

-----------------------------------------------------------------------------
(* What a thread is about to do.                                            *)

LEMMA AtOp ==
  ASSUME NEW t, StackOK(t, stack[t]), NEW op, Running(t, op)
  PROVE  LET f == Cur(t)
         IN  /\ f \in Frames /\ FrameOK(f) /\ Full(f)
             /\ f.mode = "run" /\ f.fn \in Fns /\ f.pc \in 1 .. Len(Code[f.fn])
             /\ Code[f.fn][f.pc].op = op /\ Op(t) = Code[f.fn][f.pc]
             /\ Sound(f.fn, Code[f.fn])
             /\ HeldAt(f.fn, f.pc) => InTop(stack[t])
             /\ f.fn \notin GilFns /\ ~HeldAt(f.fn, f.pc) => ~InTop(stack[t])
<1> DEFINE s == stack[t]
           f == Cur(t)
<1>1. Len(s) \in Nat \ {0} /\ f = s[Len(s)] /\ f \in Frames /\ FrameOK(f)
  BY NonEmpty DEF Cur
<1>2. f.mode = "run" /\ ~ (f.pc > Len(Code[f.fn])) /\ Code[f.fn][f.pc].op = op
  BY DEF Running, Finished
<1>3. Op(t) = Code[f.fn][f.pc]
  BY DEF Op
<1> HIDE DEF f
<1>4. f.fn \in Fns /\ f.pc \in Nat \ {0} /\ Len(Code[f.fn]) \in Nat
  BY <1>1, LenCode DEF Frames
<1>5. f.pc \in 1 .. Len(Code[f.fn]) /\ f.pc <= Len(Code[f.fn])
  BY <1>2, <1>4
<1>6. Full(f)
  BY <1>1, <1>2, <1>5 DEF FrameOK
<1>7. Sound(f.fn, Code[f.fn])
  BY <1>4, CodeSound
<1>8. CASE f.fn \in GilFns
  <2>1. HeldAt(f.fn, f.pc) => Kind(f.fn, f.pc) = "gil"
    BY <1>8 DEF HeldAt, Kind
  <2>2. HeldAt(f.fn, f.pc) => f.open # <<>> /\ f.open # <<"saved">>
    BY <1>6, <2>1, GuardsDiffer DEF Full
  <2>3. HeldAt(f.fn, f.pc) => InTop(s)
    BY <1>1, <2>2 DEF InTop, Held
  <2> QED
    BY <1>1, <1>2, <1>3, <1>4, <1>5, <1>6, <1>7, <1>8, <2>3 DEF f
<1>9. CASE f.fn \notin GilFns
  <2>1. f.open = IF <<f.fn, f.pc>> \in Unlocked THEN <<"saved">> ELSE <<>>
    BY <1>6, <1>9 DEF Full, Kind
  <2>2. HeldAt(f.fn, f.pc) <=> Held(f)
    BY <1>5, <1>9, <2>1, OutsideHasNoGuard, GuardsDiffer DEF Held, HeldAt
  <2>3. InTop(s) <=> Held(f)
    BY <1>1, <1>9 DEF InTop
  <2> QED
    BY <1>1, <1>2, <1>3, <1>4, <1>5, <1>6, <1>7, <2>2, <2>3 DEF f
<1> QED
  BY <1>8, <1>9

(* One thread's stack changes, and the lock with it.                         *)
LEMMA StackChanged ==
  ASSUME BInv, NEW t \in Threads, ~parked[t], UNCHANGED parked,
         NEW s, StackOK(t, s), stack' = [stack EXCEPT ![t] = s],
         gil' = gil \/ (gil \in {t, NoThread} /\ gil' \in {t, NoThread}),
         gil' = t <=> InTop(s)
  PROVE  StacksOK' /\ GilOK'
<1>1. stack'[t] = s /\ \A u \in Threads \ {t} : stack'[u] = stack[u]
  BY DEF BInv, StacksOK
<1>2. ASSUME NEW u \in Threads
      PROVE  StackOK(u, stack'[u])
  BY <1>1 DEF BInv, StacksOK
<1>3. DOMAIN stack' = Threads
  BY DEF BInv, StacksOK
<1>4. StacksOK'
  BY <1>2, <1>3 DEF StacksOK
<1>5. ASSUME NEW u \in Threads
      PROVE  /\ gil' = u <=> ~parked'[u] /\ InTop(stack'[u])
             /\ parked'[u] => Last(stack'[u]).fn = "python" /\ Last(stack'[u]).mode = "run"
  <2>1. CASE u = t
    BY <1>1, <2>1
  <2>2. CASE u # t
    BY <1>1, <2>2, BridgeAssumption DEF BInv, GilOK, Cur
  <2> QED
    BY <2>1, <2>2
<1>6. gil' \in Threads \cup {NoThread}
  BY DEF BInv, GilOK
<1>7. parked' \in [Threads -> BOOLEAN]
  BY DEF BInv, GilOK
<1> QED
  BY <1>4, <1>5, <1>6, <1>7 DEF GilOK, Cur

(* The same where the lock does not change hands.                            *)
LEMMA TopChanged ==
  ASSUME BInv, NEW t \in Threads, ~parked[t], UNCHANGED <<gil, parked>>,
         NEW f \in Frames, FrameOK(f), f.fn = Cur(t).fn, f.open = Cur(t).open, Becomes(t, f)
  PROVE  StacksOK' /\ GilOK'
<1> DEFINE s == stack[t]
           r == Append(Front(s), f)
<1>1. StackOK(t, s) /\ (gil = t <=> InTop(s))
  BY DEF BInv, StacksOK, GilOK
<1>2. StackOK(t, r) /\ (InTop(r) <=> InTop(s))
  BY <1>1, SameOpen DEF Cur
<1>3. stack' = [stack EXCEPT ![t] = r]
  BY DEF Becomes
<1> HIDE DEF r
<1> QED
  BY <1>1, <1>2, <1>3, StackChanged

-----------------------------------------------------------------------------
(* The steps.                                                               *)

LEMMA FrameMoved ==
  ASSUME NEW f \in Frames, NEW pc \in Nat \ {0}
  PROVE  LET g == [f EXCEPT !.pc = pc]
         IN  g \in Frames /\ g.fn = f.fn /\ g.pc = pc /\ g.mode = f.mode /\ g.open = f.open
BY DEF Frames

LEMMA FrameInMode ==
  ASSUME NEW f \in Frames, NEW mode \in {"run", "return", "throw"}
  PROVE  LET g == [f EXCEPT !.mode = mode]
         IN  g \in Frames /\ g.fn = f.fn /\ g.pc = f.pc /\ g.mode = mode /\ g.open = f.open
BY DEF Frames

(* An operation that is not about guards is over, or is skipped.             *)
LEMMA Moved ==
  ASSUME NEW t, StackOK(t, stack[t]), NEW op, Running(t, op),
         NEW pc \in 1 .. Len(Code[Cur(t).fn]) + 1, Kind(Cur(t).fn, pc) = Kind(Cur(t).fn, Cur(t).pc)
  PROVE  LET g == [Cur(t) EXCEPT !.pc = pc]
         IN  /\ g \in Frames /\ FrameOK(g) /\ Full(g)
             /\ g.fn = Cur(t).fn /\ g.open = Cur(t).open /\ g.pc = pc /\ g.mode = "run"
<1> DEFINE f == Cur(t)
           g == [f EXCEPT !.pc = pc]
<1>1. f \in Frames /\ FrameOK(f) /\ Full(f) /\ f.fn \in Fns /\ f.mode = "run"
  BY AtOp
<1>2. Len(Code[f.fn]) \in Nat
  BY <1>1, LenCode
<1>3. pc \in Nat \ {0} /\ pc <= Len(Code[f.fn]) + 1
  BY <1>2
<1>4. g \in Frames /\ g.fn = f.fn /\ g.pc = pc /\ g.mode = "run" /\ g.open = f.open
  BY <1>1, <1>3, FrameMoved
<1> HIDE DEF g, f
<1>5. Full(g)
  BY <1>1, <1>4 DEF Full, f
<1>6. FrameOK(g)
  BY <1>3, <1>4, <1>5 DEF FrameOK, f
<1> QED
  BY <1>4, <1>5, <1>6 DEF f, g

LEMMA Advances ==
  ASSUME NEW t, StackOK(t, stack[t]), NEW op, Running(t, op),
         op \notin {"gil", "unlock", "close"}
  PROVE  LET g == Advanced(Cur(t), 1)
         IN  /\ g \in Frames /\ FrameOK(g) /\ Full(g)
             /\ g.fn = Cur(t).fn /\ g.open = Cur(t).open /\ g.mode = "run"
             /\ g.pc = Cur(t).pc + 1
<1> DEFINE f == Cur(t)
<1>1. /\ f \in Frames /\ f.fn \in Fns /\ f.pc \in 1 .. Len(Code[f.fn])
      /\ Code[f.fn][f.pc].op = op /\ Sound(f.fn, Code[f.fn])
  BY AtOp
<1> HIDE DEF f
<1>2. Len(Code[f.fn]) \in Nat
  BY <1>1, LenCode
<1>3. f.pc + 1 \in 1 .. Len(Code[f.fn]) + 1
  BY <1>1, <1>2
<1>4. Kind(f.fn, f.pc + 1) = Kind(f.fn, f.pc)
  BY <1>1 DEF Sound
<1>5. Advanced(f, 1) = [f EXCEPT !.pc = f.pc + 1]
  BY <1>1 DEF Advanced, Frames
<1>6. LET g == [f EXCEPT !.pc = f.pc + 1]
      IN  /\ g \in Frames /\ FrameOK(g) /\ Full(g)
          /\ g.fn = f.fn /\ g.open = f.open /\ g.pc = f.pc + 1 /\ g.mode = "run"
  BY <1>3, <1>4, Moved DEF f
<1> QED
  BY <1>5, <1>6 DEF f

LEMMA AdvanceKeeps ==
  ASSUME BInv, NEW t \in Threads, NEW op, Running(t, op),
         op \notin {"gil", "unlock", "close"}, Advance(t), UNCHANGED <<gil, parked>>
  PROVE  StacksOK' /\ GilOK'
<1>1. StackOK(t, stack[t]) /\ ~parked[t]
  BY DEF BInv, StacksOK, Running
<1>2. LET g == Advanced(Cur(t), 1)
      IN  g \in Frames /\ FrameOK(g) /\ g.fn = Cur(t).fn /\ g.open = Cur(t).open
  BY <1>1, Advances
<1> QED
  BY <1>1, <1>2, TopChanged DEF Advance

LEMMA JobsKept ==
  ASSUME BInv, UNCHANGED jobVars
  PROVE  JobsOK'
BY DEF BInv, JobsOK, jobVars

LEMMA TouchStep ==
  ASSUME BInv, NEW t \in Threads, Touch(t)
  PROVE  BInv'
<1>1. StacksOK' /\ GilOK'
  <2>1. CASE Running(t, "api")
    BY <2>1, AdvanceKeeps DEF Touch
  <2>2. CASE Running(t, "incref")
    BY <2>2, AdvanceKeeps DEF Touch
  <2> QED
    BY <2>1, <2>2 DEF Touch
<1> QED
  BY <1>1, JobsKept DEF Touch, BInv

LEMMA CallStep ==
  ASSUME BInv, NEW t \in Threads, CallFn(t)
  PROVE  BInv'
<1> DEFINE s == stack[t]
           f == Cur(t)
<1>1. Running(t, "call") /\ ~parked[t] /\ StackOK(t, s) /\ (gil = t <=> InTop(s))
  BY DEF CallFn, Running, BInv, StacksOK, GilOK
<1>2. /\ f \in Frames /\ f.fn \in Fns /\ f.pc \in 1 .. Len(Code[f.fn])
      /\ Code[f.fn][f.pc].op = "call" /\ Op(t) = Code[f.fn][f.pc]
      /\ Sound(f.fn, Code[f.fn])
  BY <1>1, AtOp
<1> DEFINE g == Advanced(f, 1)
           r == Append(Front(s), g)
<1>3. /\ g \in Frames /\ FrameOK(g) /\ Full(g) /\ g.fn = f.fn /\ g.open = f.open
      /\ g.mode = "run" /\ g.pc = f.pc + 1
  BY <1>1, Advances
<1>4. UNCHANGED <<gil, parked>>
  BY DEF CallFn
<1>5. PICK fn \in Op(t).fns :
        IF fn = "none" THEN Advance(t)
        ELSE /\ "none" \in Op(t).fns => Len(s) < MaxDepth
             /\ stack' = [stack EXCEPT ![t] = Append(r, Frame(fn))]
  BY DEF CallFn
<1>6. CASE fn = "none"
  <2>1. StacksOK' /\ GilOK'
    BY <1>1, <1>4, <1>5, <1>6, AdvanceKeeps
  <2> QED
    BY <2>1, JobsKept DEF CallFn, BInv
<1>7. CASE fn # "none"
  <2>1. StackOK(t, r) /\ Len(r) = Len(s) /\ Last(r) = g /\ (InTop(r) <=> InTop(s))
    BY <1>1, <1>3, SameOpen DEF Cur
  <2>2. fn \in Fns /\ ("none" \in Op(t).fns \/ Rank(fn) < Rank(f.fn))
    BY <1>2, <1>7 DEF Sound
  <2>3. Called(g, fn)
    <3> HIDE DEF f, g
    <3>1. f.pc \in Nat /\ f.pc >= 1
      BY <1>2, LenCode
    <3>2. g.pc > 1 /\ g.pc - 1 = f.pc
      BY <1>3, <3>1
    <3> QED
      BY <1>2, <1>3, <3>2 DEF Called
  <2>4. Len(s) + 1 + Rank(fn) <= MaxDepth + 6
    <3>1. Len(s) \in Nat \ {0} /\ f = s[Len(s)]
      BY <1>1, NonEmpty DEF Cur
    <3>2. Len(s) + Rank(f.fn) <= MaxDepth + 6
      BY <1>1, <3>1 DEF StackOK
    <3>3. Rank(fn) \in 0 .. 5 /\ Rank(f.fn) \in 0 .. 5 /\ MaxDepth \in Nat
      BY BridgeAssumption DEF Rank
    <3> HIDE DEF f, s
    <3>4. CASE "none" \in Op(t).fns
      <4>1. Len(s) < MaxDepth
        BY <1>5, <1>7, <3>4
      <4> QED
        BY <3>1, <3>3, <4>1
    <3>5. CASE Rank(fn) < Rank(f.fn)
      BY <3>1, <3>2, <3>3, <3>5
    <3> QED
      BY <2>2, <3>4, <3>5
  <2>5. /\ StackOK(t, Append(r, Frame(fn)))
        /\ InTop(Append(r, Frame(fn))) <=> InTop(s)
    BY <2>1, <2>2, <2>3, <2>4, Pushed
  <2>6. stack' = [stack EXCEPT ![t] = Append(r, Frame(fn))]
    BY <1>5, <1>7
  <2>7. StacksOK' /\ GilOK'
    BY <1>1, <1>4, <2>5, <2>6, StackChanged
  <2> QED
    BY <2>7, JobsKept DEF CallFn, BInv
<1> QED
  BY <1>6, <1>7

LEMMA BranchStep ==
  ASSUME BInv, NEW t \in Threads, Branch(t)
  PROVE  BInv'
<1> DEFINE f == Cur(t)
<1>1. UNCHANGED <<gil, parked>> /\ UNCHANGED jobVars
  BY DEF Branch
<1>2. StackOK(t, stack[t]) /\ (\A op : Running(t, op) => ~parked[t])
  BY DEF BInv, StacksOK, Running
<1>3. ASSUME NEW op \in {"mayThrow", "mayReturn", "maySkip"}, Running(t, op), Advance(t)
      PROVE  StacksOK' /\ GilOK'
  BY <1>1, <1>3, AdvanceKeeps
<1>4. ASSUME Running(t, "mayThrow"), Becomes(t, [f EXCEPT !.mode = "throw"])
      PROVE  StacksOK' /\ GilOK'
  <2> DEFINE g == [f EXCEPT !.mode = "throw"]
  <2>1. /\ f \in Frames /\ FrameOK(f) /\ Full(f) /\ f.pc \in 1 .. Len(Code[f.fn])
        /\ Code[f.fn][f.pc].op = "mayThrow" /\ Sound(f.fn, Code[f.fn])
    BY <1>2, <1>4, AtOp
  <2>2. g \in Frames /\ g.fn = f.fn /\ g.pc = f.pc /\ g.mode = "throw" /\ g.open = f.open
    BY <2>1, FrameInMode
  <2>3. ThrowsAt(f.fn, f.pc) \/ Catches(f.fn, f.pc)
    BY <2>1 DEF Sound
  <2> HIDE DEF f, g
  <2>4. FrameOK(g)
    BY <2>1, <2>2, <2>3 DEF FrameOK, Full
  <2> QED
    BY <1>1, <1>2, <1>4, <2>2, <2>4, TopChanged DEF f, g
<1>5. ASSUME NEW op \in {"mayReturn", "return"}, Running(t, op),
             Becomes(t, [f EXCEPT !.mode = "return"])
      PROVE  StacksOK' /\ GilOK'
  <2> DEFINE g == [f EXCEPT !.mode = "return"]
  <2>1. f \in Frames /\ FrameOK(f) /\ Full(f)
    BY <1>2, <1>5, AtOp
  <2>2. g \in Frames /\ g.fn = f.fn /\ g.pc = f.pc /\ g.mode = "return" /\ g.open = f.open
    BY <2>1, FrameInMode
  <2> HIDE DEF f, g
  <2>3. FrameOK(g)
    BY <2>1, <2>2 DEF FrameOK, Full
  <2> QED
    BY <1>1, <1>2, <1>5, <2>2, <2>3, TopChanged DEF f, g
<1>6. ASSUME Running(t, "maySkip"), Becomes(t, Advanced(f, 1 + Op(t).skip))
      PROVE  StacksOK' /\ GilOK'
  <2>1. /\ f \in Frames /\ f.fn \in Fns /\ f.pc \in 1 .. Len(Code[f.fn])
        /\ Code[f.fn][f.pc].op = "maySkip" /\ Op(t) = Code[f.fn][f.pc]
        /\ Sound(f.fn, Code[f.fn])
    BY <1>2, <1>6, AtOp
  <2> DEFINE pc == f.pc + 1 + Op(t).skip
             g == [f EXCEPT !.pc = pc]
  <2>2. pc \in 1 .. Len(Code[f.fn]) + 1 /\ Kind(f.fn, pc) = Kind(f.fn, f.pc)
    BY <2>1 DEF Sound
  <2>3. g \in Frames /\ FrameOK(g) /\ g.fn = f.fn /\ g.open = f.open
    BY <1>2, <1>6, <2>2, Moved
  <2>4. Becomes(t, g)
    <3>1. Advanced(f, 1 + Op(t).skip) = [f EXCEPT !.pc = f.pc + (1 + Op(t).skip)]
      BY <2>1 DEF Advanced, Frames
    <3>2. f.pc + (1 + Op(t).skip) = pc
      <4>1. Op(t).skip \in Int /\ f.pc \in Int
        BY <2>1, LenCode DEF Sound, Frames
      <4> QED
        BY <4>1
    <3> QED
      BY <1>6, <3>1, <3>2
  <2> QED
    BY <1>1, <1>2, <1>6, <2>3, <2>4, TopChanged
<1>7. StacksOK' /\ GilOK'
  BY <1>3, <1>4, <1>5, <1>6 DEF Branch
<1> QED
  BY <1>1, <1>7, JobsKept DEF BInv

(* A frame whose guards change.                                              *)
LEMMA FrameOpens ==
  ASSUME NEW f \in Frames, NEW pc \in Nat \ {0},
         NEW open \in {<<>>, <<"locked">>, <<"unlocked">>, <<"saved">>}
  PROVE  LET g == [f EXCEPT !.pc = pc, !.open = open]
         IN  g \in Frames /\ g.fn = f.fn /\ g.pc = pc /\ g.mode = f.mode /\ g.open = open
BY DEF Frames

LEMMA AppendOne == \A g : Append(<<>>, g) = <<g>>
OBVIOUS

LEMMA NextPc ==
  ASSUME NEW f \in Frames, f.pc \in 1 .. Len(Code[f.fn])
  PROVE  /\ f.pc \in Nat /\ f.pc + 1 \in Nat \ {0} /\ f.pc + 1 <= Len(Code[f.fn]) + 1
         /\ f.pc + 1 # 1
<1>1. f.fn \in Fns
  BY DEF Frames
<1>2. Len(Code[f.fn]) \in Nat
  BY <1>1, LenCode
<1> QED
  BY <1>2

(* PyGilStateLock lock: the guard remembers where the caller is.             *)
LEMMA OpenGilStep ==
  ASSUME BInv, NEW t \in Threads, OpenGil(t)
  PROVE  BInv'
<1> DEFINE s == stack[t]
           f == Cur(t)
           n == Len(s)
           found == IF gil = t THEN "locked" ELSE "unlocked"
           g == [f EXCEPT !.pc = f.pc + 1, !.open = <<found>>]
           r == Append(Front(s), g)
<1>1. /\ Running(t, "gil") /\ ~parked[t] /\ StackOK(t, s) /\ (gil = t <=> InTop(s))
      /\ gil \in {t, NoThread} /\ gil' = t /\ UNCHANGED <<parked, jobVars>>
      /\ Becomes(t, [Advanced(f, 1) EXCEPT !.open = Append(@, found)])
  BY DEF OpenGil, Running, BInv, StacksOK, GilOK
<1>2. /\ f \in Frames /\ f.fn \in Fns /\ f.pc \in 1 .. Len(Code[f.fn]) /\ f.mode = "run"
      /\ Code[f.fn][f.pc].op = "gil" /\ Sound(f.fn, Code[f.fn]) /\ Full(f)
  BY <1>1, AtOp
<1>3. n \in Nat \ {0} /\ f = s[n] /\ f = Last(s)
  BY <1>1, NonEmpty DEF Cur
<1> HIDE DEF f, s, n
<1>4. f.fn \in GilFns /\ f.pc = 1
  BY <1>2 DEF Sound
<1>5. f.open = <<>>
  BY <1>2, <1>4 DEF Full, Kind
<1>6. f.pc + 1 \in Nat \ {0} /\ f.pc + 1 <= Len(Code[f.fn]) + 1 /\ f.pc + 1 # 1
  BY <1>2, NextPc
<1>7. found \in {"locked", "unlocked"} /\ <<found>> \in {<<"locked">>, <<"unlocked">>}
      /\ <<found>> \in {<<>>, <<"locked">>, <<"unlocked">>, <<"saved">>}
  OBVIOUS
<1> HIDE DEF found
<1>8. g \in Frames /\ g.fn = f.fn /\ g.pc = f.pc + 1 /\ g.mode = "run" /\ g.open = <<found>>
  BY <1>2, <1>6, <1>7 DEF Frames
<1>9. [Advanced(f, 1) EXCEPT !.open = Append(@, found)] = g
  BY <1>2, <1>5, AppendOne DEF Advanced, Frames
<1> HIDE DEF g
<1>10. Full(g) /\ FrameOK(g)
  <2>1. Kind(g.fn, g.pc) = "gil"
    BY <1>4, <1>6, <1>8 DEF Kind
  <2>2. Full(g)
    BY <1>7, <1>8, <2>1 DEF Full
  <2> QED
    BY <1>6, <1>8, <2>2 DEF FrameOK
<1>11. n > 1
  <2>1. n = 1 => f.fn = RootFn(t)
    BY <1>1, <1>3 DEF StackOK
  <2>2. n # 1
    BY <1>4, <2>1 DEF RootFn, GilFns
  <2> QED
    BY <1>3, <2>2
<1>12. InTop(s) <=> Held(s[n - 1])
  BY <1>3, <1>4, <1>5 DEF InTop, n
<1>13. Remembers(s[n - 1], g)
  BY <1>1, <1>8, <1>12, GuardsDiffer DEF Remembers, found
<1>14. StackOK(t, r) /\ (InTop(r) <=> Held(g))
  <2>1. g.open # <<>>
    BY <1>7, <1>8, GuardsDiffer
  <2> QED
    BY <1>1, <1>3, <1>8, <1>10, <1>13, <2>1, TopReplaced DEF n
<1>15. Held(g)
  BY <1>7, <1>8, GuardsDiffer DEF Held
<1>16. stack' = [stack EXCEPT ![t] = r]
  BY <1>1, <1>9 DEF Becomes, s
<1> HIDE DEF r
<1>17. StacksOK' /\ GilOK'
  BY <1>1, <1>14, <1>15, <1>16, StackChanged
<1> QED
  BY <1>1, <1>17, JobsKept DEF BInv

(* PyThreadStateLock lock: the frame leaves the interpreter.                 *)
LEMMA OpenUnlockStep ==
  ASSUME BInv, NEW t \in Threads, OpenUnlock(t)
  PROVE  BInv'
<1> DEFINE s == stack[t]
           f == Cur(t)
           n == Len(s)
           g == [f EXCEPT !.pc = f.pc + 1, !.open = <<"saved">>]
           r == Append(Front(s), g)
<1>1. /\ Running(t, "unlock") /\ ~parked[t] /\ StackOK(t, s) /\ (gil = t <=> InTop(s))
      /\ gil = t /\ gil' = NoThread /\ UNCHANGED <<parked, jobVars>>
      /\ Becomes(t, [Advanced(f, 1) EXCEPT !.open = Append(@, "saved")])
  BY DEF OpenUnlock, Running, BInv, StacksOK, GilOK
<1>2. /\ f \in Frames /\ f.fn \in Fns /\ f.pc \in 1 .. Len(Code[f.fn]) /\ f.mode = "run"
      /\ Code[f.fn][f.pc].op = "unlock" /\ Sound(f.fn, Code[f.fn]) /\ Full(f)
  BY <1>1, AtOp
<1>3. n \in Nat \ {0} /\ f = s[n] /\ f = Last(s)
  BY <1>1, NonEmpty DEF Cur
<1> HIDE DEF f, s, n
<1>4. Kind(f.fn, f.pc) = "none" /\ Kind(f.fn, f.pc + 1) = "unlock"
  BY <1>2 DEF Sound
<1>5. f.open = <<>>
  BY <1>2, <1>4 DEF Full
<1>6. f.pc + 1 \in Nat \ {0} /\ f.pc + 1 <= Len(Code[f.fn]) + 1
  BY <1>2, NextPc
<1>7. g \in Frames /\ g.fn = f.fn /\ g.pc = f.pc + 1 /\ g.mode = "run" /\ g.open = <<"saved">>
  BY <1>2, <1>6, FrameOpens
<1>8. [Advanced(f, 1) EXCEPT !.open = Append(@, "saved")] = g
  BY <1>2, <1>5, AppendOne DEF Advanced, Frames
<1> HIDE DEF g
<1>9. Full(g) /\ FrameOK(g)
  BY <1>4, <1>6, <1>7 DEF Full, FrameOK
<1>10. StackOK(t, r) /\ (InTop(r) <=> Held(g))
  <2>1. n > 1 => Remembers(s[n - 1], g)
    BY <1>7, GuardsDiffer DEF Remembers
  <2> QED
    BY <1>1, <1>3, <1>7, <1>9, <2>1, GuardsDiffer, TopReplaced DEF n
<1>11. ~Held(g)
  BY <1>7, GuardsDiffer DEF Held
<1>12. stack' = [stack EXCEPT ![t] = r]
  BY <1>1, <1>8 DEF Becomes, s
<1> HIDE DEF r
<1>13. StacksOK' /\ GilOK'
  BY <1>1, <1>10, <1>11, <1>12, BridgeAssumption, StackChanged
<1> QED
  BY <1>1, <1>13, JobsKept DEF BInv

(* A guard is closed, at the end of its scope or by unwinding: what it found *)
(* is what the caller's frame says.                                          *)
LEMMA CloseStep ==
  ASSUME BInv, NEW t \in Threads, CloseGuard(t)
  PROVE  BInv'
<1> DEFINE s == stack[t]
           f == Cur(t)
           n == Len(s)
           l == Last(f.open)
           pc == IF Unwinding(f) THEN f.pc ELSE f.pc + 1
           g == [f EXCEPT !.pc = pc, !.open = <<>>]
           r == Append(Front(s), g)
<1>1. /\ Closing(t) /\ ~parked[t] /\ StackOK(t, s) /\ (gil = t <=> InTop(s))
      /\ gil = (IF l = "saved" THEN NoThread ELSE t)
      /\ gil' = (IF l = "unlocked" THEN NoThread ELSE t)
      /\ UNCHANGED <<parked, jobVars>>
      /\ Becomes(t, [f EXCEPT !.open = Front(@), !.pc = IF Unwinding(f) THEN @ ELSE @ + 1])
  BY DEF CloseGuard, Closing, Running, BInv, StacksOK, GilOK
<1>2. n \in Nat \ {0} /\ f = s[n] /\ f = Last(s) /\ f \in Frames /\ FrameOK(f)
  BY <1>1, NonEmpty DEF Cur
<1> HIDE DEF f, s, n, l, pc
<1>3. Full(f) /\ f.open # <<>> /\ FrameOK(g) /\ g \in Frames
      /\ g.fn = f.fn /\ g.open = <<>> /\ (f.fn \notin GilFns \/ Kind(f.fn, f.pc) = "gil")
  <2>1. CASE Running(t, "close")
    <3>1. /\ f.fn \in Fns /\ f.pc \in 1 .. Len(Code[f.fn]) /\ f.mode = "run"
          /\ Code[f.fn][f.pc].op = "close" /\ Sound(f.fn, Code[f.fn]) /\ Full(f)
      BY <1>1, <2>1, AtOp DEF f, s
    <3>2. Kind(f.fn, f.pc) = "unlock" /\ Kind(f.fn, f.pc + 1) = "none"
      BY <3>1 DEF Sound
    <3>3. f.open = <<"saved">> /\ f.fn \notin GilFns
      BY <3>1, <3>2 DEF Full, Kind
    <3>4. /\ f.pc \in Nat /\ f.pc + 1 \in Nat \ {0} /\ f.pc + 1 <= Len(Code[f.fn]) + 1
      BY <1>2, <3>1, NextPc
    <3>5. pc = f.pc + 1
      <4>1. Len(Code[f.fn]) \in Nat
        BY <3>1, LenCode
      <4> QED
        BY <3>1, <4>1 DEF pc, Unwinding, Finished
    <3>6. g \in Frames /\ g.fn = f.fn /\ g.pc = pc /\ g.mode = f.mode /\ g.open = <<>>
      BY <1>2, <3>4, <3>5 DEF Frames
    <3> HIDE DEF g
    <3>7. Full(g)
      BY <3>2, <3>5, <3>6 DEF Full
    <3>8. FrameOK(g)
      BY <3>1, <3>4, <3>5, <3>6, <3>7 DEF FrameOK
    <3> QED
      BY <3>1, <3>3, <3>6, <3>8, GuardsDiffer
  <2>2. CASE Unwinding(f) /\ ToClose(f) > 0
    <3>1. pc = f.pc /\ f.pc \in Nat \ {0} /\ f.fn \in Fns
      BY <1>2, <2>2 DEF pc, Frames
    <3>2. Len(Code[f.fn]) \in Nat
      BY <3>1, LenCode
    <3>3. g \in Frames /\ g.fn = f.fn /\ g.pc = f.pc /\ g.mode = f.mode /\ g.open = <<>>
      BY <1>2, <3>1 DEF Frames
    <3> HIDE DEF g
    <3>4. f.open # <<>> /\ ~ (Caught(f) /\ f.fn \in GilFns)
      <4>1. ASSUME Caught(f)
            PROVE  Try[f.fn].keep = IF f.fn \in GilFns THEN 1 ELSE 0
        BY <4>1, TryIn DEF Caught, Catches
      <4>2. /\ Len(f.open) \in {0, 1} /\ (f.open = <<>> <=> Len(f.open) = 0)
        BY <1>2 DEF Frames
      <4>3. ~ (Len(f.open) - 1 > 0)
        <5>1. \A k \in {0, 1} : ~ (k - 1 > 0)
          OBVIOUS
        <5> QED
          BY <4>2, <5>1
      <4>4. CASE Caught(f) /\ f.fn \in GilFns
        BY <2>2, <4>1, <4>3, <4>4 DEF ToClose
      <4>5. CASE Caught(f) /\ f.fn \notin GilFns
        BY <2>2, <4>1, <4>2, <4>5 DEF ToClose
      <4>6. CASE ~Caught(f)
        BY <2>2, <4>2, <4>6 DEF ToClose
      <4> QED
        BY <4>4, <4>5, <4>6
    <3>5. Full(f)
      BY <1>2, <3>4 DEF FrameOK
    <3>6. FrameOK(g)
      <4>1. ~ (g.mode = "run" /\ g.pc <= Len(Code[g.fn]))
        BY <2>2, <3>1, <3>2, <3>3 DEF Unwinding, Finished
      <4>2. ~ (g.mode = "throw" /\ Catches(g.fn, g.pc) /\ g.fn \in GilFns)
        BY <3>3, <3>4 DEF Caught
      <4> QED
        BY <1>2, <3>3, <4>1, <4>2 DEF FrameOK
    <3>7. f.fn \notin GilFns \/ Kind(f.fn, f.pc) = "gil"
      BY <3>4, <3>5 DEF Full, Kind
    <3> QED
      BY <3>3, <3>4, <3>5, <3>6, <3>7
  <2> QED
    BY <1>1, <2>1, <2>2 DEF Closing, f
<1>4. Becomes(t, g)
  <2>1. Front(f.open) = <<>>
    <3>1. f.open \in {<<"locked">>, <<"unlocked">>, <<"saved">>}
      BY <1>2, <1>3 DEF Frames
    <3>2. \A x : Front(<<x>>) = <<>>
      BY DEF Front
    <3> QED
      BY <3>1, <3>2
  <2>2. [f EXCEPT !.open = Front(@), !.pc = IF Unwinding(f) THEN @ ELSE @ + 1] = g
    BY <1>2, <2>1 DEF g, pc, Frames
  <2> QED
    BY <1>1, <2>2
<1> HIDE DEF g
<1>5. l = f.open[1]
  <2>1. Len(f.open) = 1
    BY <1>2, <1>3 DEF Frames
  <2> QED
    BY <2>1 DEF l, Last
<1>6. n > 1 => n \in 2 .. n /\ Remembers(s[n - 1], f)
  <2>1. n > 1 => n \in 2 .. n
    BY <1>2
  <2> QED
    BY <1>1, <1>2, <2>1 DEF StackOK, n
<1>7. /\ StackOK(t, r)
      /\ InTop(r) <=> IF f.fn \in GilFns THEN Held(s[n - 1]) ELSE f.fn \notin OutsideFns
  <2>1. n > 1 => Remembers(s[n - 1], g)
    BY <1>3, GuardsDiffer DEF Remembers
  <2>2. Held(g) <=> f.fn \notin OutsideFns
    BY <1>3 DEF Held
  <2>3. /\ StackOK(t, r)
        /\ InTop(r) <=> IF g.open = <<>> /\ g.fn \in GilFns THEN Held(s[n - 1]) ELSE Held(g)
    BY <1>1, <1>2, <1>3, <2>1, TopReplaced DEF n
  <2> QED
    BY <1>3, <2>2, <2>3
<1>8. gil' = t <=> InTop(r)
  <2>1. CASE f.open = <<"saved">>
    <3>1. l = "saved" /\ Kind(f.fn, f.pc) = "unlock"
      BY <1>3, <1>5, <2>1, GuardsDiffer DEF Full
    <3>2. f.fn \notin GilFns /\ <<f.fn, f.pc>> \in Unlocked
      BY <3>1 DEF Kind
    <3>3. f.fn \notin OutsideFns
      BY <1>2, <3>2, OutsideHasNoGuard DEF Frames
    <3> QED
      BY <1>1, <1>7, <3>1, <3>2, <3>3
  <2>2. CASE f.open # <<"saved">>
    <3>1. f.open \in {<<"locked">>, <<"unlocked">>} /\ Kind(f.fn, f.pc) = "gil"
      BY <1>3, <2>2 DEF Full
    <3>2. f.fn \in GilFns
      BY <3>1 DEF Kind
    <3>3. n > 1
      <4>1. n = 1 => f.fn = RootFn(t)
        BY <1>1, <1>2 DEF StackOK
      <4>2. n # 1
        BY <3>2, <4>1 DEF RootFn, GilFns
      <4> QED
        BY <1>2, <4>2
    <3>4. Held(s[n - 1]) <=> f.open = <<"locked">>
      BY <1>6, <3>1, <3>3, GuardsDiffer DEF Remembers
    <3>5. f.open = <<"locked">> <=> l # "unlocked"
      BY <1>5, <3>1
    <3> QED
      BY <1>1, <1>7, <3>2, <3>4, <3>5, BridgeAssumption
  <2> QED
    BY <2>1, <2>2
<1>9. stack' = [stack EXCEPT ![t] = r]
  BY <1>4 DEF Becomes, s
<1> HIDE DEF r
<1>10. StacksOK' /\ GilOK'
  BY <1>1, <1>7, <1>8, <1>9, StackChanged
<1> QED
  BY <1>1, <1>10, JobsKept DEF BInv

LEMMA LeaveIs ==
  ASSUME NEW t, Leave(t)
  PROVE  LET f == Cur(t)
             b == Front(stack[t])
         IN  /\ ~parked[t] /\ Unwinding(f) /\ ToClose(f) = 0
             /\ Caught(f) => Becomes(t, [f EXCEPT !.mode = "run", !.pc = Try[f.fn].handler])
             /\ ~Caught(f) /\ Len(stack[t]) = 1 => Becomes(t, Frame(RootFn(t)))
             /\ ~Caught(f) /\ Len(stack[t]) # 1 =>
                  stack' = [stack EXCEPT
                    ![t] = IF f.mode = "throw"
                             THEN Append(Front(b), [Last(b) EXCEPT !.mode = "throw", !.pc = @ - 1])
                             ELSE b]
             /\ UNCHANGED <<gil, parked>> /\ UNCHANGED jobVars
BY DEF Leave, AtRoot

(* A frame without guards is left: its handler, its next round or its caller *)
(* goes on where the lock is.  No exception is left to an interpreter that   *)
(* goes on.                                                                  *)
LEMMA LeaveStep ==
  ASSUME BInv, NEW t \in Threads, Leave(t), ~Escapes(t)
  PROVE  BInv'
<1> DEFINE s == stack[t]
           f == Cur(t)
           n == Len(s)
           b == Front(s)
<1>1. /\ ~parked[t] /\ Unwinding(f) /\ ToClose(f) = 0 /\ StackOK(t, s)
      /\ (gil = t <=> InTop(s)) /\ UNCHANGED <<gil, parked>> /\ UNCHANGED jobVars
  BY LeaveIs DEF BInv, StacksOK, GilOK
<1>2. n \in Nat \ {0} /\ f = s[n] /\ f = Last(s) /\ f \in Frames /\ FrameOK(f)
      /\ f.fn \in Fns /\ Len(Code[f.fn]) \in Nat
  BY <1>1, NonEmpty, LenCode DEF Cur, Frames
<1>3. /\ Caught(f) => Becomes(t, [f EXCEPT !.mode = "run", !.pc = Try[f.fn].handler])
      /\ ~Caught(f) /\ n = 1 => Becomes(t, Frame(RootFn(t)))
      /\ ~Caught(f) /\ n # 1 =>
           stack' = [stack EXCEPT
             ![t] = IF f.mode = "throw"
                      THEN Append(Front(b), [Last(b) EXCEPT !.mode = "throw", !.pc = @ - 1])
                      ELSE b]
  BY LeaveIs
<1> HIDE DEF f, s, n
<1>4. CASE Caught(f)
  <2> DEFINE g == [f EXCEPT !.mode = "run", !.pc = Try[f.fn].handler]
  <2>1. f.mode = "throw" /\ Catches(f.fn, f.pc) /\ f.fn \in DOMAIN Try
    BY <1>4 DEF Caught, Catches
  <2>2. f.pc \in 1 .. Len(Code[f.fn]) /\ Try[f.fn].keep = IF f.fn \in GilFns THEN 1 ELSE 0
    BY <1>2, <2>1, TryIn DEF Frames
  <2>3. /\ Try[f.fn].handler \in 1 .. Len(Code[f.fn])
        /\ Kind(f.fn, Try[f.fn].handler) = IF f.fn \in GilFns THEN "gil" ELSE "none"
    BY <1>2, <2>1, <2>2, CodeSound DEF Sound
  <2>4. Try[f.fn].handler \in Nat \ {0} /\ Try[f.fn].handler <= Len(Code[f.fn]) + 1
    BY <1>2, <2>3
  <2>5. /\ g \in Frames /\ g.fn = f.fn /\ g.mode = "run" /\ g.open = f.open
        /\ g.pc = Try[f.fn].handler
    BY <1>2, <2>4 DEF Frames
  <2>6. Full(g)
    <3>1. CASE f.fn \in GilFns
      <4>1. Full(f)
        BY <1>2, <2>1, <3>1 DEF FrameOK
      <4>2. Len(f.open) - 1 = 0
        BY <1>1, <1>4, <2>2, <3>1 DEF ToClose
      <4>3. f.open # <<>>
        BY <4>2
      <4>4. f.open \in {<<"locked">>, <<"unlocked">>}
        BY <3>1, <4>1, <4>3, GuardsDiffer DEF Full, Kind
      <4> QED
        BY <2>3, <2>5, <3>1, <4>4 DEF Full
    <3>2. CASE f.fn \notin GilFns
      <4>1. Len(f.open) - 0 = 0
        BY <1>1, <1>4, <2>2, <3>2 DEF ToClose
      <4>2. f.open = <<>>
        BY <1>2, <4>1 DEF Frames
      <4> QED
        BY <2>3, <2>5, <3>2, <4>2 DEF Full
    <3> QED
      BY <3>1, <3>2
  <2>7. FrameOK(g)
    BY <2>4, <2>5, <2>6 DEF FrameOK
  <2>8. Becomes(t, g)
    BY <1>3, <1>4
  <2> HIDE DEF g
  <2>9. StacksOK' /\ GilOK'
    BY <1>1, <2>5, <2>7, <2>8, TopChanged DEF f
  <2> QED
    BY <1>1, <2>9, JobsKept DEF BInv
<1>5. ASSUME ~Caught(f)
      PROVE  f.open = <<>>
  <2>1. Len(f.open) = 0
    BY <1>1, <1>5 DEF ToClose
  <2> QED
    BY <1>2, <2>1 DEF Frames
<1>6. CASE ~Caught(f) /\ n = 1
  <2> DEFINE g == Frame(RootFn(t))
  <2>1. f.fn = RootFn(t)
    BY <1>1, <1>2, <1>6 DEF StackOK, s
  <2>2. g \in Frames /\ g.fn = f.fn /\ g.pc = 1 /\ g.mode = "run" /\ g.open = <<>>
    BY <1>2, <2>1 DEF Frame, Frames
  <2>3. Full(g)
    <3>1. <<f.fn, 1>> \notin Unlocked
      BY DEF Unlocked
    <3> QED
      BY <2>2, <3>1 DEF Full, Kind
  <2>4. FrameOK(g)
    BY <1>2, <2>2, <2>3 DEF FrameOK
  <2>5. Becomes(t, g)
    BY <1>3, <1>6
  <2> HIDE DEF g
  <2>6. StacksOK' /\ GilOK'
    BY <1>1, <1>5, <1>6, <2>2, <2>4, <2>5, TopChanged DEF f
  <2> QED
    BY <1>1, <2>6, JobsKept DEF BInv
<1>7. CASE ~Caught(f) /\ n # 1
  <2>1. n > 1
    BY <1>2, <1>7
  <2>2. /\ StackOK(t, b) /\ (InTop(b) <=> InTop(s)) /\ Called(Last(b), f.fn)
        /\ Len(b) = n - 1
    BY <1>1, <1>2, <1>5, <1>7, <2>1, Popped DEF n, s
  <2> HIDE DEF b
  <2>3. CASE f.mode # "throw"
    <3>1. stack' = [stack EXCEPT ![t] = b]
      BY <1>3, <1>7, <2>3
    <3>2. StacksOK' /\ GilOK'
      BY <1>1, <2>2, <3>1, StackChanged
    <3> QED
      BY <1>1, <3>2, JobsKept DEF BInv
  <2>4. CASE f.mode = "throw"
    <3> DEFINE h == Last(b)
               g == [h EXCEPT !.mode = "throw", !.pc = h.pc - 1]
               r == Append(Front(b), g)
    <3>1. h \in Frames /\ FrameOK(h) /\ Called(h, f.fn)
      BY <2>2, NonEmpty
    <3> HIDE DEF h
    <3>2. h.fn \in Fns /\ h.pc \in Nat /\ h.pc > 1 /\ h.pc <= Len(Code[h.fn]) + 1 /\ Full(h)
          /\ Len(Code[h.fn]) \in Nat
      BY <3>1, LenCode DEF Frames, FrameOK, Called
    <3>3. h.pc - 1 \in Nat \ {0} /\ h.pc - 1 <= Len(Code[h.fn]) + 1
      BY <3>2
    <3>4. f.fn \in Throwers
      <4>1. ThrowsAt(f.fn, f.pc)
        BY <1>2, <1>7, <2>4 DEF FrameOK, Caught
      <4>2. h = s[n - 1]
        <5>1. /\ Len(b) = n - 1 /\ s \in Seq(Frames) /\ s # <<>>
              /\ Last(b) = b[Len(b)]
          BY <1>1, <2>2, NonEmpty DEF StackOK, s
        <5>2. b[n - 1] = s[n - 1]
          BY <1>2, <2>1, <5>1, FrontIs DEF b, n
        <5> QED
          BY <5>1, <5>2 DEF h
      <4>3. h.fn # "python"
        BY <1>1, <1>2, <1>7, <2>1, <2>4, <4>2 DEF Escapes, f, s, n
      <4>4. f.fn \notin Escapers
        BY <1>2, <3>1, <3>2, <4>3, CallerSide
      <4> QED
        BY <4>1, <4>4 DEF ThrowsAt, Unprotected, Escapers
    <3>5. /\ ThrowsAt(h.fn, h.pc - 1) \/ Catches(h.fn, h.pc - 1)
          /\ Kind(h.fn, h.pc - 1) = Kind(h.fn, h.pc)
      BY <1>2, <3>1, <3>2, <3>4, CallerSide
    <3>6. /\ g \in Frames /\ g.fn = h.fn /\ g.mode = "throw" /\ g.open = h.open
          /\ g.pc = h.pc - 1
      BY <3>1, <3>3 DEF Frames
    <3>7. stack' = [stack EXCEPT ![t] = r]
      <4>1. [h EXCEPT !.mode = "throw", !.pc = @ - 1] = g
        BY <3>1 DEF Frames
      <4> QED
        BY <1>3, <1>7, <2>4, <4>1 DEF h
    <3> HIDE DEF g
    <3>8. Full(g) /\ FrameOK(g)
      <4>1. Full(g)
        BY <3>2, <3>5, <3>6 DEF Full
      <4> QED
        BY <3>3, <3>5, <3>6, <4>1 DEF FrameOK
    <3>9. StackOK(t, r) /\ (InTop(r) <=> InTop(b))
      BY <2>2, <3>6, <3>8, SameOpen DEF h
    <3> HIDE DEF r
    <3>10. StacksOK' /\ GilOK'
      BY <1>1, <2>2, <3>7, <3>9, StackChanged
    <3> QED
      BY <1>1, <3>10, JobsKept DEF BInv
  <2> QED
    BY <2>3, <2>4
<1> QED
  BY <1>4, <1>6, <1>7

(* What threads hand to each other does not concern the lock.                *)
LEMMA JobSteps ==
  ASSUME BInv, NEW t \in Threads,
         \/ SubmitJob(t) \/ AwaitJob(t)
         \/ t \in Workers /\ (TakeWork(t) \/ FinishWork(t))
  PROVE  BInv'
<1>1. StacksOK' /\ GilOK'
  <2>1. CASE SubmitJob(t)
    BY <2>1, AdvanceKeeps DEF SubmitJob
  <2>2. CASE AwaitJob(t)
    BY <2>2, AdvanceKeeps DEF AwaitJob
  <2>3. CASE TakeWork(t)
    BY <2>3, AdvanceKeeps DEF TakeWork
  <2>4. CASE FinishWork(t)
    BY <2>4, AdvanceKeeps DEF FinishWork
  <2> QED
    BY <2>1, <2>2, <2>3, <2>4
<1>2. queue \in [Workers -> Seq(Threads)] /\ serving \in [Workers -> Threads \cup {NoThread}]
  BY DEF BInv, JobsOK
<1>3. JobsOK'
  <2>1. CASE SubmitJob(t)
    <3>1. CASE t \in Workers
      BY <1>2, <2>1, <3>1 DEF SubmitJob, JobsOK
    <3>2. CASE t \notin Workers
      <4>1. PICK w \in Workers : queue' = [queue EXCEPT ![w] = Append(@, t)]
        BY <2>1, <3>2 DEF SubmitJob
      <4>2. Append(queue[w], t) \in Seq(Threads)
        BY <1>2
      <4> QED
        BY <1>2, <2>1, <4>1, <4>2 DEF SubmitJob, JobsOK
    <3> QED
      BY <3>1, <3>2
  <2>2. CASE AwaitJob(t)
    BY <2>2, JobsKept DEF AwaitJob
  <2>3. CASE t \in Workers /\ TakeWork(t)
    <3>1. CASE queue[t] = <<>>
      BY <2>3, <3>1, JobsKept DEF TakeWork
    <3>2. CASE queue[t] # <<>>
      <4>1. queue[t] \in Seq(Threads)
        BY <1>2, <2>3
      <4>2. Head(queue[t]) \in Threads /\ Tail(queue[t]) \in Seq(Threads)
        BY <3>2, <4>1
      <4> QED
        BY <1>2, <2>3, <3>2, <4>2 DEF TakeWork, JobsOK
    <3> QED
      BY <3>1, <3>2
  <2>4. CASE t \in Workers /\ FinishWork(t)
    BY <1>2, <2>4 DEF FinishWork, JobsOK
  <2> QED
    BY <2>1, <2>2, <2>3, <2>4
<1> QED
  BY <1>1, <1>3 DEF BInv

(* The evaluation loop gives the lock up only in a frame of Python code.     *)
LEMMA ParkSteps ==
  ASSUME BInv, NEW t \in Threads, Park(t) \/ Unpark(t)
  PROVE  BInv'
<1>1. UNCHANGED stack /\ UNCHANGED jobVars
  BY DEF Park, Unpark
<1>2. StackOK(t, stack[t]) /\ (gil = t <=> ~parked[t] /\ InTop(stack[t]))
      /\ parked \in [Threads -> BOOLEAN]
  BY DEF BInv, StacksOK, GilOK
<1>3. parked[t] => InTop(stack[t])
  <2>1. SUFFICES ASSUME parked[t] PROVE InTop(stack[t])
    OBVIOUS
  <2> DEFINE f == Cur(t)
  <2>2. f.fn = "python" /\ f.mode = "run"
    BY <2>1 DEF BInv, GilOK
  <2>3. f = stack[t][Len(stack[t])] /\ f \in Frames /\ FrameOK(f)
    BY <1>2, NonEmpty DEF Cur
  <2> HIDE DEF f
  <2>4. f.fn \notin GilFns /\ f.fn \notin OutsideFns /\ <<f.fn, f.pc>> \notin Unlocked
    BY <2>2 DEF GilFns, OutsideFns, Unlocked
  <2>5. f.open = <<>>
    BY <2>3, <2>4 DEF FrameOK, Full, Kind
  <2> QED
    BY <2>3, <2>4, <2>5 DEF InTop, Held
<1>4. \A u \in Threads : stack'[u] = stack[u] /\ Cur(u)' = Cur(u)
  BY <1>1 DEF Cur
<1>5. StacksOK'
  BY <1>1 DEF BInv, StacksOK
<1>6. CASE Park(t)
  <2>1. /\ gil = t /\ gil' = NoThread /\ parked' = [parked EXCEPT ![t] = TRUE]
        /\ Cur(t).fn = "python" /\ Cur(t).mode = "run"
    BY <1>6 DEF Park
  <2>2. GilOK'
    <3>1. ASSUME NEW u \in Threads
          PROVE  /\ gil' = u <=> ~parked'[u] /\ InTop(stack'[u])
                 /\ parked'[u] => Cur(u)'.fn = "python" /\ Cur(u)'.mode = "run"
      <4>1. CASE u = t
        BY <1>2, <1>4, <2>1, <4>1, BridgeAssumption
      <4>2. CASE u # t
        BY <1>2, <1>4, <2>1, <4>2, BridgeAssumption DEF BInv, GilOK
      <4> QED
        BY <4>1, <4>2
    <3> QED
      BY <1>2, <2>1, <3>1 DEF GilOK
  <2> QED
    BY <1>1, <1>5, <2>2, JobsKept DEF BInv
<1>7. CASE Unpark(t)
  <2>1. /\ gil = NoThread /\ gil' = t /\ parked' = [parked EXCEPT ![t] = FALSE] /\ parked[t]
    BY <1>7 DEF Unpark
  <2>2. GilOK'
    <3>1. ASSUME NEW u \in Threads
          PROVE  /\ gil' = u <=> ~parked'[u] /\ InTop(stack'[u])
                 /\ parked'[u] => Cur(u)'.fn = "python" /\ Cur(u)'.mode = "run"
      <4>1. CASE u = t
        BY <1>2, <1>3, <1>4, <2>1, <4>1
      <4>2. CASE u # t
        BY <1>2, <1>4, <2>1, <4>2, BridgeAssumption DEF BInv, GilOK
      <4> QED
        BY <4>1, <4>2
    <3> QED
      BY <1>2, <2>1, <3>1 DEF GilOK
  <2> QED
    BY <1>1, <1>5, <2>2, JobsKept DEF BInv
<1> QED
  BY <1>6, <1>7

LEMMA RootIs ==
  \A t \in Threads :
    RootFn(t) = IF t \in PyThreads THEN "python" ELSE IF t \in Workers THEN "worker" ELSE "native"
BY BridgeAssumption DEF RootFn

LEMMA InitEstablishesBInv == Init => BInv
<1> SUFFICES ASSUME Init
             PROVE  BInv
  OBVIOUS
<1>1. ASSUME NEW t \in Threads
      PROVE  /\ StackOK(t, stack[t])
             /\ gil = t <=> ~parked[t] /\ InTop(stack[t])
             /\ parked[t] => Cur(t).fn = "python" /\ Cur(t).mode = "run"
  <2> DEFINE fn == RootFn(t)
             g == Frame(fn)
             s == <<g>>
  <2>1. stack[t] = s
    BY DEF Init
  <2>2. /\ fn \in Fns /\ fn \notin GilFns /\ <<fn, 1>> \notin Unlocked
        /\ fn \in OutsideFns <=> t \notin PyThreads
        /\ t \in PyThreads => fn = "python"
    BY RootIs, FnsAre, BridgeAssumption DEF GilFns, OutsideFns, Unlocked
  <2>3. 1 + Rank(fn) <= MaxDepth + 6
    <3>1. Rank(fn) \in 0 .. 5
      BY DEF Rank
    <3> QED
      BY <3>1, BridgeAssumption
  <2> HIDE DEF fn
  <2>4. g \in Frames /\ g.fn = fn /\ g.pc = 1 /\ g.mode = "run" /\ g.open = <<>>
    BY <2>2 DEF Frame, Frames
  <2> HIDE DEF g
  <2>5. Full(g) /\ FrameOK(g)
    <3>1. Full(g)
      BY <2>2, <2>4 DEF Full, Kind
    <3>2. Len(Code[fn]) \in Nat
      BY <2>2, LenCode
    <3> QED
      BY <2>4, <3>1, <3>2 DEF FrameOK
  <2>6. /\ s \in Seq(Frames) /\ s # <<>> /\ Len(s) = 1 /\ s[1] = g /\ Last(s) = g
    BY <2>4 DEF Last
  <2> HIDE DEF s
  <2>7. StackOK(t, s)
    BY <2>3, <2>4, <2>5, <2>6 DEF StackOK, fn
  <2>8. InTop(s) <=> t \in PyThreads
    BY <2>2, <2>4, <2>6 DEF InTop, Held
  <2>9. gil = NoThread /\ (parked[t] <=> t \in PyThreads)
    BY DEF Init
  <2> QED
    BY <2>1, <2>2, <2>4, <2>6, <2>7, <2>8, <2>9, BridgeAssumption DEF Cur
<1>2. StacksOK
  BY <1>1 DEF StacksOK, Init
<1>3. GilOK
  <2>1. gil \in Threads \cup {NoThread} /\ parked \in [Threads -> BOOLEAN]
    BY DEF Init
  <2> QED
    BY <1>1, <2>1 DEF GilOK
<1>4. JobsOK
  BY DEF JobsOK, Init
<1> QED
  BY <1>2, <1>3, <1>4 DEF BInv

LEMMA NextPreservesBInv == BInv /\ [Next]_vars => BInv'
<1> SUFFICES ASSUME BInv, [Next]_vars
             PROVE  BInv'
  OBVIOUS
<1>1. CASE UNCHANGED vars
  BY <1>1 DEF vars, jobVars, BInv, StacksOK, GilOK, JobsOK, Cur
<1>2. ASSUME NEW t \in Threads, ~Escapes(t), Execute(t) \/ Park(t) \/ Unpark(t)
      PROVE  BInv'
  BY <1>2, OpenGilStep, OpenUnlockStep, CloseStep, TouchStep, CallStep, BranchStep, LeaveStep,
     JobSteps, ParkSteps DEF Execute
<1> QED
  BY <1>1, <1>2 DEF Next, Ended

(* In every state of Bridge, each frame has the guards that its place in its *)
(* function says, each guard remembers where its caller is, and the lock is  *)
(* with the thread whose innermost frames say so.                            *)
THEOREM BridgeInvariant == Spec => []BInv
BY InitEstablishesBInv, NextPreservesBInv, PTL DEF Spec

-----------------------------------------------------------------------------
(* What follows from it.                                                    *)

LEMMA BInvType == BInv => TypeOK
<1> SUFFICES ASSUME BInv
             PROVE  TypeOK
  OBVIOUS
<1>1. ASSUME NEW t \in Threads
      PROVE  /\ stack[t] # <<>>
             /\ \A i \in 1 .. Len(stack[t]) :
                  LET f == stack[t][i]
                  IN  /\ f.fn \in Fns /\ f.pc \in 1 .. (Len(Code[f.fn]) + 1)
                      /\ f.mode \in {"run", "return", "throw"}
                      /\ ToSet(f.open) \subseteq {"locked", "unlocked", "saved"}
  <2> DEFINE s == stack[t]
  <2>1. StackOK(t, s)
    BY DEF BInv, StacksOK
  <2>2. ASSUME NEW i \in 1 .. Len(s)
        PROVE  LET f == s[i]
               IN  /\ f.fn \in Fns /\ f.pc \in 1 .. (Len(Code[f.fn]) + 1)
                   /\ f.mode \in {"run", "return", "throw"}
                   /\ ToSet(f.open) \subseteq {"locked", "unlocked", "saved"}
    <3> DEFINE f == s[i]
    <3>1. f \in Frames /\ FrameOK(f)
      BY <2>1, NonEmpty DEF StackOK
    <3> HIDE DEF f
    <3>2. f.fn \in Fns /\ f.pc \in Nat \ {0} /\ f.pc <= Len(Code[f.fn]) + 1
          /\ Len(Code[f.fn]) \in Nat /\ f.mode \in {"run", "return", "throw"}
      BY <3>1, LenCode DEF Frames, FrameOK
    <3>3. ToSet(f.open) \subseteq {"locked", "unlocked", "saved"}
      <4>1. \A x : \A i_1 \in DOMAIN <<x>> : <<x>>[i_1] = x
        OBVIOUS
      <4>2. DOMAIN <<>> = {}
        OBVIOUS
      <4> QED
        BY <3>1, <4>1, <4>2 DEF Frames, ToSet
    <3>4. f.pc \in 1 .. (Len(Code[f.fn]) + 1)
      BY <3>2
    <3> QED
      BY <3>2, <3>3, <3>4 DEF f
  <2> QED
    BY <2>1, <2>2 DEF StackOK
<1>2. ASSUME NEW w \in Workers
      PROVE  ToSet(queue[w]) \subseteq Threads
  <2>1. queue[w] \in Seq(Threads)
    BY DEF BInv, JobsOK
  <2> QED
    BY <2>1 DEF ToSet
<1> QED
  BY <1>1, <1>2 DEF TypeOK, BInv, GilOK, JobsOK

(* Bridge's variables keep their types and no frame runs past its code, for  *)
(* any threads and any depth (PothosModule.cpp, ProxyType.cpp and the other  *)
(* functions of BridgeCode).                                                 *)
THEOREM BridgeTypeOK == Spec => []TypeOK
BY BridgeInvariant, BInvType, PTL

LEMMA ClosingHasGuard ==
  ASSUME NEW t, StackOK(t, stack[t]), Closing(t)
  PROVE  Cur(t).open # <<>> /\ Full(Cur(t))
<1> DEFINE f == Cur(t)
<1>1. f \in Frames /\ FrameOK(f)
  BY NonEmpty DEF Cur
<1>2. CASE Running(t, "close")
  <2>1. /\ f.fn \in Fns /\ f.pc \in 1 .. Len(Code[f.fn])
        /\ Code[f.fn][f.pc].op = "close" /\ Sound(f.fn, Code[f.fn]) /\ Full(f)
    BY <1>2, AtOp
  <2>2. Kind(f.fn, f.pc) = "unlock"
    BY <2>1 DEF Sound
  <2> QED
    BY <2>1, <2>2, GuardsDiffer DEF Full
<1>3. CASE ToClose(f) > 0
  <2>1. Caught(f) => Try[f.fn].keep \in {0, 1}
    BY TryIn DEF Caught, Catches
  <2>2. f.open = <<>> => Len(f.open) = 0
    OBVIOUS
  <2>3. f.open # <<>>
    BY <1>3, <2>1, <2>2 DEF ToClose
  <2> QED
    BY <1>1, <2>3 DEF FrameOK
<1> QED
  BY <1>2, <1>3 DEF Closing

LEMMA BInvHolds == BInv => ApiUnderGil
<1> SUFFICES ASSUME BInv, NEW t \in Threads, NeedsGil(t)
             PROVE  gil = t
  BY DEF ApiUnderGil
<1> DEFINE s == stack[t]
           f == Cur(t)
<1>1. StackOK(t, s) /\ (gil = t <=> ~parked[t] /\ InTop(s))
  BY DEF BInv, StacksOK, GilOK
<1>2. f = s[Len(s)] /\ f \in Frames /\ FrameOK(f) /\ Len(s) \in Nat \ {0}
  BY <1>1, NonEmpty DEF Cur
<1>3. CASE Running(t, "api") \/ Running(t, "unlock")
  <2>1. PICK op \in {"api", "unlock"} : Running(t, op)
    BY <1>3
  <2>2. /\ f.pc \in 1 .. Len(Code[f.fn]) /\ Code[f.fn][f.pc].op = op /\ Sound(f.fn, Code[f.fn])
        /\ HeldAt(f.fn, f.pc) => InTop(s)
    BY <1>1, <2>1, AtOp
  <2>3. InTop(s)
    BY <2>2 DEF Sound
  <2> QED
    BY <1>1, <2>1, <2>3 DEF Running
<1>4. CASE ~parked[t] /\ f.fn = "python"
  <2> HIDE DEF f
  <2>1. f.fn \notin GilFns /\ f.fn \notin OutsideFns /\ <<f.fn, f.pc>> \notin Unlocked
    BY <1>4 DEF GilFns, OutsideFns, Unlocked
  <2>2. f.open = <<>>
    BY <1>2, <2>1 DEF FrameOK, Full, Kind
  <2> QED
    BY <1>1, <1>2, <1>4, <2>1, <2>2 DEF InTop, Held
<1>5. CASE Closing(t) /\ Last(f.open) # "saved"
  <2>1. ~parked[t]
    BY <1>5 DEF Closing, Running
  <2>2. f.open # <<>> /\ Full(f)
    BY <1>1, <1>5, ClosingHasGuard
  <2>3. f.open \in {<<"locked">>, <<"unlocked">>}
    <3>1. f.open # <<"saved">>
      BY <1>5, SMTT(30) DEF Last
    <3> QED
      BY <1>2, <2>2, <3>1 DEF Frames
  <2>4. InTop(s)
    BY <1>2, <2>3, GuardsDiffer DEF InTop, Held
  <2> QED
    BY <1>1, <2>1, <2>4
<1> QED
  BY <1>3, <1>4, <1>5 DEF NeedsGil

(* Whatever chain of calls, returns and exceptions led there, a thread that  *)
(* touches Python has the lock, in every function of BridgeCode.             *)
THEOREM ApiHeld == Spec => []ApiUnderGil
BY BridgeInvariant, BInvHolds, PTL

LEMMA BInvAwait == BInv => NoWaitHoldingGil
<1> SUFFICES ASSUME BInv, NEW t \in Threads, Running(t, "await")
             PROVE  gil # t
  BY DEF NoWaitHoldingGil
<1> DEFINE s == stack[t]
           f == Cur(t)
<1>1. StackOK(t, s) /\ (gil = t <=> ~parked[t] /\ InTop(s))
  BY DEF BInv, StacksOK, GilOK
<1>2. /\ f.pc \in 1 .. Len(Code[f.fn]) /\ Code[f.fn][f.pc].op = "await"
      /\ Sound(f.fn, Code[f.fn])
      /\ f.fn \notin GilFns /\ ~HeldAt(f.fn, f.pc) => ~InTop(s)
  BY <1>1, AtOp
<1>3. f.fn = "native"
  BY <1>2 DEF Sound
<1>4. f.fn \notin GilFns /\ ~HeldAt(f.fn, f.pc)
  BY <1>3 DEF GilFns, OutsideFns, HeldAt
<1> QED
  BY <1>1, <1>2, <1>4

(* No thread waits for a worker with the lock in its hand, however the call  *)
(* that waits came about: the module's functions let go of it before every   *)
(* call of a managed object's method.                                        *)
THEOREM WaitsWithoutGil == Spec => []NoWaitHoldingGil
BY BridgeInvariant, BInvAwait, PTL

LEMMA BInvEscapes == BInv => EscapesOnlyUnprotected
<1> SUFFICES ASSUME BInv, NEW t \in Threads, Escapes(t)
             PROVE  <<Cur(t).fn, Cur(t).pc>> \in Unprotected
  BY DEF EscapesOnlyUnprotected
<1> DEFINE s == stack[t]
           n == Len(s)
           f == s[n]
           b == s[n - 1]
<1>1. StackOK(t, s) /\ Cur(t) = f /\ f \in Frames /\ FrameOK(f)
  BY NonEmpty DEF Cur, BInv, StacksOK
<1>2. n \in Nat /\ n > 1 /\ b.fn = "python" /\ f.mode = "throw" /\ ~Catches(f.fn, f.pc)
  BY <1>1, NonEmpty DEF Escapes, Caught
<1>3. n - 1 \in 1 .. n /\ n \in 2 .. n
  BY <1>2
<1>4. /\ b \in Frames /\ FrameOK(b) /\ Called(b, f.fn)
      /\ b.pc <= Len(Code[b.fn]) + 1 /\ f.fn \in Fns
  BY <1>1, <1>3, NonEmpty DEF StackOK, FrameOK, Frames
<1> HIDE DEF b, f, n, s
<1>5. f.fn \notin Throwers
  <2>1. f.fn \in Throwers => ThrowsAt(b.fn, b.pc - 1) \/ Catches(b.fn, b.pc - 1)
    BY <1>4, CallerSide
  <2>2. ~Catches("python", b.pc - 1) /\ ~ThrowsAt("python", b.pc - 1)
    BY DEF Catches, Try, ThrowsAt, Throwers, Unprotected
  <2> QED
    BY <1>2, <2>1, <2>2
<1> QED
  BY <1>1, <1>2, <1>5 DEF FrameOK, ThrowsAt

(* An exception that a function called by Python does not catch comes from   *)
(* one of the three places without a try block, for any chain of calls.      *)
THEOREM EscapesKnown == Spec => []EscapesOnlyUnprotected
BY BridgeInvariant, BInvEscapes, PTL

-----------------------------------------------------------------------------
(* Flattening a sequence of sequences.                                      *)

(* A set of numbers has a least element: what takes the place of induction.  *)
LEMMA NatMin ==
  ASSUME NEW T \in SUBSET Nat, T # {}
  PROVE  \E x \in T : \A y \in T : x <= y
<1> DEFINE R == OpToRel(<, Nat)
<1>1. IsWellFoundedOn(R, Nat)
  BY NatLessThanWellFounded
<1>2. \A x, y \in Nat : y < x => <<y, x>> \in R
  BY DEF OpToRel
<1> HIDE DEF R
<1>3. PICK x \in T : \A y \in T : ~ (<<y, x>> \in R)
  BY <1>1, WFMin
<1>4. \A y \in T : y \in Nat /\ ~ (y < x)
  BY <1>2, <1>3
<1> QED
  BY <1>4

(* F lists what the first i elements of q amount to.                         *)
Step(q, F, i) == IF i = 1 THEN q[i] ELSE F[i - 1] \o q[i]
Sums(q, F, n) == \A i \in 1 .. n : F[i] = Step(q, F, i)

LEMMA SumsExist ==
  ASSUME NEW G, NEW q \in Seq(Seq(G))
  PROVE  \E F \in [1 .. Len(q) -> Seq(G)] : Sums(q, F, Len(q))
<1> DEFINE P(n) == \E F \in [1 .. n -> Seq(G)] : Sums(q, F, n)
           T == {n \in 0 .. Len(q) : ~P(n)}
<1>1. Len(q) \in Nat /\ \A i \in 1 .. Len(q) : q[i] \in Seq(G)
  OBVIOUS
<1>2. P(0)
  <2>1. 1 .. 0 = {}
    OBVIOUS
  <2>2. [i \in 1 .. 0 |-> <<>>] \in [1 .. 0 -> Seq(G)]
    BY <2>1
  <2> QED
    BY <2>1, <2>2 DEF Sums
<1>3. ASSUME NEW n \in 1 .. Len(q), P(n - 1)
      PROVE  P(n)
  <2>1. PICK F \in [1 .. n - 1 -> Seq(G)] : Sums(q, F, n - 1)
    BY <1>3
  <2> DEFINE H == [i \in 1 .. n |-> IF i = n THEN Step(q, F, n) ELSE F[i]]
  <2>2. /\ n \in Nat \ {0} /\ n \in 1 .. n
        /\ \A i \in 1 .. n : i # n => i \in 1 .. n - 1
        /\ n # 1 => n - 1 \in 1 .. n - 1
        /\ \A i \in 1 .. n : i # 1 => i - 1 \in 1 .. n /\ i - 1 # n
    BY <1>1
  <2>3. Step(q, F, n) \in Seq(G)
    <3>1. q[n] \in Seq(G)
      BY <1>1
    <3> QED
      BY <2>2, <3>1 DEF Step
  <2>4. H \in [1 .. n -> Seq(G)]
    BY <2>2, <2>3
  <2>5. H[n] = Step(q, F, n) /\ \A i \in 1 .. n : i # n => H[i] = F[i]
    BY <2>2
  <2> HIDE DEF H
  <2>6. \A i \in 1 .. n : Step(q, H, i) = Step(q, F, i)
    BY <2>2, <2>5 DEF Step
  <2>7. \A i \in 1 .. n : i # n => F[i] = Step(q, F, i)
    BY <2>1, <2>2 DEF Sums
  <2>8. Sums(q, H, n)
    BY <2>5, <2>6, <2>7 DEF Sums
  <2> QED
    BY <2>4, <2>8
<1> HIDE DEF P
<1>4. CASE T # {}
  <2>1. T \in SUBSET Nat
    BY <1>1
  <2>2. PICK n \in T : \A m \in T : n <= m
    BY <1>4, <2>1, NatMin
  <2>3. n \in 0 .. Len(q) /\ ~P(n)
    OBVIOUS
  <2>4. n # 0
    BY <1>2, <2>3
  <2>5. n \in 1 .. Len(q) /\ n - 1 \in 0 .. Len(q) /\ ~ (n <= n - 1)
    BY <1>1, <2>3, <2>4
  <2>6. P(n - 1)
    BY <2>2, <2>5
  <2> QED
    BY <1>3, <2>3, <2>5, <2>6
<1>5. CASE T = {}
  <2>1. P(Len(q))
    BY <1>1, <1>5
  <2> QED
    BY <2>1 DEF P
<1> QED
  BY <1>4, <1>5

(* There is only one such list.                                              *)
LEMMA SumsAgree ==
  ASSUME NEW q, NEW n \in Nat, NEW F, NEW H, Sums(q, F, n), Sums(q, H, n)
  PROVE  \A i \in 1 .. n : F[i] = H[i]
<1> DEFINE T == {i \in 1 .. n : F[i] # H[i]}
<1>1. CASE T # {}
  <2>1. T \in SUBSET Nat
    OBVIOUS
  <2>2. PICK i \in T : \A j \in T : i <= j
    BY <1>1, <2>1, NatMin
  <2>3. i \in 1 .. n /\ F[i] # H[i]
    OBVIOUS
  <2>4. F[i] = Step(q, F, i) /\ H[i] = Step(q, H, i)
    BY <2>3 DEF Sums
  <2>5. CASE i = 1
    BY <2>3, <2>4, <2>5 DEF Step
  <2>6. CASE i # 1
    <3>1. i - 1 \in 1 .. n /\ ~ (i <= i - 1)
      BY <2>3, <2>6
    <3>2. F[i - 1] = H[i - 1]
      BY <2>2, <3>1
    <3> QED
      BY <2>3, <2>4, <2>6, <3>2 DEF Step
  <2> QED
    BY <2>5, <2>6
<1>2. CASE T = {}
  BY <1>2
<1> QED
  BY <1>1, <1>2

(* FlattenSeq as its definition says.                                        *)
LEMMA FlattenIs ==
  ASSUME NEW G, NEW q \in Seq(Seq(G)), q # <<>>,
         NEW F \in [1 .. Len(q) -> Seq(G)], Sums(q, F, Len(q))
  PROVE  FlattenSeq(q) = F[Len(q)]
<1> DEFINE n == Len(q)
           C == CHOOSE C : C = [i \in 1 .. n |-> IF i = 1 THEN q[i] ELSE C[i - 1] \o q[i]]
<1>1. n \in Nat \ {0}
  OBVIOUS
<1>2. FlattenSeq(q) = C[n]
  BY <1>1 DEF FlattenSeq
<1>3. F = [i \in 1 .. n |-> IF i = 1 THEN q[i] ELSE F[i - 1] \o q[i]]
  BY DEF Sums, Step
<1>4. C = [i \in 1 .. n |-> IF i = 1 THEN q[i] ELSE C[i - 1] \o q[i]]
  BY <1>3
<1> HIDE DEF C
<1>5. Sums(q, C, n)
  BY <1>4 DEF Sums, Step
<1>6. \A i \in 1 .. n : F[i] = C[i]
  BY <1>1, <1>5, SumsAgree
<1> QED
  BY <1>1, <1>2, <1>6

LEMMA FlattenEmpty == FlattenSeq(<<>>) = <<>>
BY DEF FlattenSeq

LEMMA FlattenAppend ==
  ASSUME NEW G, NEW q \in Seq(Seq(G)), NEW x \in Seq(G)
  PROVE  /\ FlattenSeq(q) \in Seq(G)
         /\ FlattenSeq(Append(q, x)) = FlattenSeq(q) \o x
<1> DEFINE r == Append(q, x)
           n == Len(q)
<1>1. /\ n \in Nat /\ r \in Seq(Seq(G)) /\ r # <<>> /\ Len(r) = n + 1 /\ r[n + 1] = x
      /\ \A i \in 1 .. n : r[i] = q[i]
  <2> DEFINE S == Seq(G)
  <2> HIDE DEF S
  <2>1. q \in Seq(S) /\ x \in S
    BY DEF S
  <2>2. /\ n \in Nat /\ r \in Seq(S) /\ r # <<>> /\ Len(r) = n + 1 /\ r[n + 1] = x
        /\ \A i \in 1 .. n : r[i] = q[i]
    BY <2>1
  <2> QED
    BY <2>2 DEF S
<1> HIDE DEF r
<1>2. PICK H : H \in [1 .. Len(r) -> Seq(G)] /\ Sums(r, H, Len(r))
  BY <1>1, SumsExist
<1>3. FlattenSeq(r) = H[n + 1]
  BY <1>1, <1>2, FlattenIs
<1>4. n + 1 \in 1 .. n + 1 /\ \A i \in 1 .. n : i \in 1 .. n + 1
  BY <1>1
<1>5. H[n + 1] = IF n + 1 = 1 THEN x ELSE H[n] \o x
  <2>1. H[n + 1] = Step(r, H, n + 1)
    BY <1>1, <1>2, <1>4 DEF Sums
  <2>2. n + 1 - 1 = n
    BY <1>1
  <2> QED
    BY <1>1, <2>1, <2>2 DEF Step
<1>6. CASE q = <<>>
  <2>1. n = 0 /\ FlattenSeq(q) = <<>> /\ <<>> \in Seq(G)
    BY <1>6, FlattenEmpty
  <2>2. <<>> \o x = x
    OBVIOUS
  <2> QED
    BY <1>3, <1>5, <2>1, <2>2 DEF r
<1>7. CASE q # <<>>
  <2>1. n # 0 /\ n \in 1 .. n
    BY <1>7
  <2>2. PICK F : F \in [1 .. n -> Seq(G)] /\ Sums(q, F, n)
    BY SumsExist
  <2>3. FlattenSeq(q) = F[n]
    BY <1>7, <2>2, FlattenIs
  <2>4. Sums(q, H, n)
    <3>1. \A i \in 1 .. n : H[i] = Step(r, H, i)
      BY <1>1, <1>2, <1>4 DEF Sums
    <3>2. \A i \in 1 .. n : Step(r, H, i) = Step(q, H, i)
      BY <1>1 DEF Step
    <3> QED
      BY <3>1, <3>2 DEF Sums
  <2>5. F[n] = H[n]
    <3>1. n \in Nat /\ Sums(q, F, n) /\ Sums(q, H, n)
      BY <1>1, <2>2, <2>4
    <3> HIDE DEF n
    <3>2. \A i \in 1 .. n : F[i] = H[i]
      BY ONLY <3>1, SumsAgree
    <3> QED
      BY <2>1, <3>2
  <2>6. n + 1 # 1
    BY <1>1, <2>1
  <2> QED
    BY <1>3, <1>5, <2>1, <2>2, <2>3, <2>5, <2>6 DEF r
<1> QED
  BY <1>6, <1>7

-----------------------------------------------------------------------------
(* The guards of a thread, through all its frames.                          *)

GP == INSTANCE GilGuardsProofs WITH
  guards <- [t \in Threads |-> AllGuards(t)],
  counter <- [t \in Threads |-> States(t)],
  MaxGuards <- GuardBound

(* The operators of the library that the instances use are the library's.    *)
LEMMA SameOperators ==
  /\ \A S : GP!Cardinality(S) = Cardinality(S) /\ GP!IsFiniteSet(S) = IsFiniteSet(S)
  /\ \A S : GP!Last(S) = Last(S) /\ GP!Front(S) = Front(S)
  /\ \A S : Guards!Last(S) = Last(S) /\ Guards!Front(S) = Front(S)
BY DEF GP!Cardinality, Cardinality, GP!IsFiniteSet, IsFiniteSet, GP!Last, Guards!Last, Last,
       GP!Front, Guards!Front, Front

Opens(s) == [i \in 1 .. Len(s) |-> s[i].open]
Flat(s) == FlattenSeq(Opens(s))
Own(t) == IF t = HostThread THEN <<"saved">> ELSE <<>>

LEMMA GuardTypes ==
  /\ GP!Guard = {"locked", "unlocked", "saved"}
  /\ \A f \in Frames : f.open \in Seq(GP!Guard) /\ Len(f.open) <= 1
  /\ \A t : Own(t) \in Seq(GP!Guard) /\ Len(Own(t)) <= 1
  /\ GP!GilAssumption
<1>1. GP!Guard = {"locked", "unlocked", "saved"}
  BY DEF GP!Guard
<1> HIDE DEF GP!Guard
<1>6. \A x \in GP!Guard : <<x>> \in Seq(GP!Guard) /\ Len(<<x>>) = 1
  OBVIOUS
<1>7. <<>> \in Seq(GP!Guard) /\ Len(<<>>) = 0
  OBVIOUS
<1>8. "locked" \in GP!Guard /\ "unlocked" \in GP!Guard /\ "saved" \in GP!Guard
  BY <1>1
<1>2. \A f \in Frames : f.open \in Seq(GP!Guard) /\ Len(f.open) <= 1
  <2> SUFFICES ASSUME NEW f \in Frames
               PROVE  f.open \in Seq(GP!Guard) /\ Len(f.open) <= 1
    OBVIOUS
  <2>1. f.open = <<>> \/ \E x \in GP!Guard : f.open = <<x>>
    BY <1>8 DEF Frames
  <2>2. CASE f.open = <<>>
    BY <1>7, <2>2
  <2>3. ASSUME NEW x \in GP!Guard, f.open = <<x>>
        PROVE  f.open \in Seq(GP!Guard) /\ Len(f.open) <= 1
    BY <1>6, <2>3
  <2> QED
    BY <2>1, <2>2, <2>3
<1>3. \A t : Own(t) \in Seq(GP!Guard) /\ Len(Own(t)) <= 1
  BY <1>6, <1>7, <1>8 DEF Own
<1>4. GuardBound \in Nat
  BY BridgeAssumption DEF GuardBound
<1>5. GP!GilAssumption
  BY <1>4, BridgeAssumption DEF GP!GilAssumption
<1> QED
  BY <1>1, <1>2, <1>3, <1>5

LEMMA FlatAppend ==
  ASSUME NEW q \in Seq(Frames), NEW f \in Frames
  PROVE  /\ Flat(q) \in Seq(GP!Guard)
         /\ Flat(Append(q, f)) = Flat(q) \o f.open
<1> DEFINE r == Append(q, f)
           n == Len(q)
           S == Seq(GP!Guard)
<1>1. n \in Nat /\ Len(r) = n + 1 /\ r[n + 1] = f /\ \A i \in 1 .. n : r[i] = q[i] /\ q[i] \in Frames
  OBVIOUS
<1> HIDE DEF r
<1>2. f.open \in S /\ \A i \in 1 .. n : q[i].open \in S
  BY <1>1, GuardTypes
<1> HIDE DEF S
<1>3. Opens(q) \in Seq(S) /\ Len(Opens(q)) = n /\ \A i \in 1 .. n : Opens(q)[i] = q[i].open
  BY <1>1, <1>2 DEF Opens
<1>4. Opens(r) = Append(Opens(q), f.open)
  <2>1. Opens(r) = [i \in 1 .. n + 1 |-> r[i].open]
    BY <1>1 DEF Opens
  <2>2. Append(Opens(q), f.open) = [i \in 1 .. n + 1 |-> IF i = n + 1 THEN f.open ELSE Opens(q)[i]]
    BY <1>3
  <2>3. \A i \in 1 .. n + 1 : i # n + 1 => i \in 1 .. n
    BY <1>1
  <2>4. \A i \in 1 .. n + 1 : r[i].open = IF i = n + 1 THEN f.open ELSE Opens(q)[i]
    BY <1>1, <1>3, <2>3
  <2> QED
    BY <2>1, <2>2, <2>4
<1>5. Opens(q) \in Seq(Seq(GP!Guard)) /\ f.open \in Seq(GP!Guard)
  BY <1>2, <1>3 DEF S
<1> QED
  BY <1>4, <1>5, FlattenAppend DEF Flat, r

LEMMA AppendFront ==
  ASSUME NEW s \in Seq(Frames), s # <<>>
  PROVE  s = Append(Front(s), Last(s)) /\ Front(s) \in Seq(Frames) /\ Last(s) \in Frames
<1> DEFINE n == Len(s)
           q == Front(s)
           r == Append(q, Last(s))
<1>1. q \in Seq(Frames) /\ n \in Nat \ {0} /\ Len(q) = n - 1 /\ \A i \in 1 .. n - 1 : q[i] = s[i]
  BY FrontIs
<1>2. Last(s) = s[n] /\ Last(s) \in Frames
  BY <1>1 DEF Last
<1> HIDE DEF q
<1>3. r \in Seq(Frames) /\ Len(r) = n /\ r[n] = s[n] /\ \A i \in 1 .. n - 1 : r[i] = s[i]
  BY <1>1, <1>2
<1> HIDE DEF r
<1>4. \A i \in 1 .. n : r[i] = s[i]
  BY <1>1, <1>3
<1>5. r = s
  BY <1>3, <1>4, SeqEqual
<1> QED
  BY <1>1, <1>2, <1>5 DEF q, r

LEMMA FlatTop ==
  ASSUME NEW s \in Seq(Frames), s # <<>>
  PROVE  /\ Flat(Front(s)) \in Seq(GP!Guard)
         /\ Flat(s) = Flat(Front(s)) \o Last(s).open
BY AppendFront, FlatAppend

LEMMA FlatEmpty == Flat(<<>>) = <<>>
<1>1. Opens(<<>>) = <<>>
  BY DEF Opens
<1> QED
  BY <1>1, FlattenEmpty DEF Flat

(* A frame has one guard at most.                                            *)
LEMMA FlatLength ==
  ASSUME NEW s \in Seq(Frames)
  PROVE  Len(Flat(s)) <= Len(s)
<1> DEFINE P(n) == \A r \in Seq(Frames) : Len(r) = n => Len(Flat(r)) <= n
           T == {n \in Nat : ~P(n)}
<1>1. P(0)
  <2>1. \A r \in Seq(Frames) : Len(r) = 0 => r = <<>>
    OBVIOUS
  <2> QED
    BY <2>1, FlatEmpty
<1>2. ASSUME NEW n \in Nat \ {0}, P(n - 1)
      PROVE  P(n)
  <2> SUFFICES ASSUME NEW r \in Seq(Frames), Len(r) = n
               PROVE  Len(Flat(r)) <= n
    OBVIOUS
  <2>1. r # <<>>
    OBVIOUS
  <2> DEFINE q == Front(r)
  <2>2. q \in Seq(Frames) /\ Len(q) = n - 1
    BY <2>1, FrontIs
  <2>3. Flat(q) \in Seq(GP!Guard) /\ Flat(r) = Flat(q) \o Last(r).open /\ Last(r) \in Frames
    BY <2>1, FlatTop, AppendFront
  <2>4. Len(Flat(q)) <= n - 1
    BY <1>2, <2>2
  <2>5. Last(r).open \in Seq(GP!Guard) /\ Len(Last(r).open) <= 1
    BY <2>3, GuardTypes
  <2> HIDE DEF q
  <2>6. Len(Flat(r)) = Len(Flat(q)) + Len(Last(r).open)
    BY <2>3, <2>5
  <2>7. Len(Flat(q)) \in Nat /\ Len(Last(r).open) \in Nat
    BY <2>3, <2>5
  <2> QED
    BY <2>4, <2>5, <2>6, <2>7
<1> HIDE DEF P
<1>3. T = {}
  <2>1. SUFFICES ASSUME T # {}
                 PROVE  FALSE
    OBVIOUS
  <2>2. PICK n \in T : \A m \in T : n <= m
    BY <2>1, NatMin
  <2>3. n \in Nat /\ ~P(n) /\ n # 0
    BY <1>1
  <2>4. n - 1 \in Nat /\ ~ (n <= n - 1)
    BY <2>3
  <2>5. P(n - 1)
    BY <2>2, <2>4
  <2> QED
    BY <1>2, <2>3, <2>5
<1>4. P(Len(s))
  BY <1>3
<1> QED
  BY <1>4 DEF P

(* The guards of a thread that are about those of its innermost frame.       *)
LEMMA GuardsOfTop ==
  ASSUME NEW t, StackOK(t, stack[t])
  PROVE  /\ Own(t) \o Flat(Front(stack[t])) \in Seq(GP!Guard)
         /\ AllGuards(t) = (Own(t) \o Flat(Front(stack[t]))) \o Cur(t).open
         /\ AllGuards(t) \in Seq(GP!Guard)
         /\ Len(AllGuards(t)) <= MaxDepth + 7
         /\ Cur(t).open = <<>> => Len(AllGuards(t)) < MaxDepth + 7
<1> DEFINE s == stack[t]
           q == Front(s)
           G == GP!Guard
<1>1. s \in Seq(Frames) /\ s # <<>> /\ Len(s) \in Nat \ {0} /\ Len(s) <= MaxDepth + 6
  <2>1. s \in Seq(Frames) /\ Len(s) \in Nat \ {0} /\ s[Len(s)] \in Frames /\ s # <<>>
    BY NonEmpty DEF StackOK
  <2>2. Len(s) + Rank(s[Len(s)].fn) <= MaxDepth + 6
    BY <2>1 DEF StackOK
  <2>3. Rank(s[Len(s)].fn) \in 0 .. 5
    BY DEF Rank
  <2> QED
    BY <2>1, <2>2, <2>3, BridgeAssumption
<1>2. /\ Flat(q) \in Seq(G) /\ Flat(s) = Flat(q) \o Cur(t).open
      /\ q \in Seq(Frames) /\ Len(q) = Len(s) - 1 /\ Cur(t) \in Frames
  BY <1>1, FlatTop, AppendFront, FrontIs DEF Cur
<1>3. Own(t) \in Seq(G) /\ Len(Own(t)) <= 1 /\ Cur(t).open \in Seq(G) /\ Len(Cur(t).open) <= 1
  BY <1>2, GuardTypes
<1>4. Len(Flat(q)) <= Len(q)
  BY <1>2, FlatLength
<1>5. AllGuards(t) = Own(t) \o Flat(s)
  BY DEF AllGuards, Own, Flat, Opens
<1> DEFINE a == Own(t)
           b == Flat(q)
           c == Cur(t).open
<1> HIDE DEF a, b, c, G, q, s
<1>6. a \in Seq(G) /\ b \in Seq(G) /\ c \in Seq(G)
  BY <1>2, <1>3 DEF a, b, c
<1>7. AllGuards(t) = (a \o b) \o c
  <2>1. AllGuards(t) = a \o (b \o c)
    BY <1>2, <1>5 DEF a, b, c
  <2> QED
    BY <1>6, <2>1, ConcatAssociative
<1>8. a \o b \in Seq(G) /\ (a \o b) \o c \in Seq(G)
      /\ Len((a \o b) \o c) = Len(a) + Len(b) + Len(c)
  BY <1>6
<1>9. Len(a) \in Nat /\ Len(a) <= 1 /\ Len(b) \in Nat /\ Len(b) <= Len(s) - 1
      /\ Len(c) \in Nat /\ Len(c) <= 1 /\ (c = <<>> => Len(c) = 0)
  BY <1>2, <1>3, <1>4, <1>6 DEF a, b, c
<1>10. Len(AllGuards(t)) <= MaxDepth + 7 /\ (c = <<>> => Len(AllGuards(t)) < MaxDepth + 7)
  <2>1. MaxDepth \in Nat
    BY BridgeAssumption
  <2> QED
    BY <1>1, <1>7, <1>8, <1>9, <2>1
<1> QED
  BY <1>7, <1>8, <1>10 DEF a, b, c, G, q, s

(* The guards of a thread whose innermost frame is replaced by another one.  *)
LEMMA GuardsOfReplaced ==
  ASSUME BInv, BInv', NEW t \in Threads, NEW g \in Frames, Becomes(t, g)
  PROVE  LET q == Own(t) \o Flat(Front(stack[t]))
         IN  /\ q \in Seq(GP!Guard)
             /\ AllGuards(t) = q \o Cur(t).open /\ AllGuards(t)' = q \o g.open
             /\ \A u \in Threads \ {t} : AllGuards(u)' = AllGuards(u)
<1> DEFINE s == stack[t]
           q == Own(t) \o Flat(Front(s))
           r == Append(Front(s), g)
<1>1. StackOK(t, s) /\ s \in Seq(Frames) /\ s # <<>> /\ DOMAIN stack = Threads
  BY DEF BInv, StacksOK, StackOK
<1>2. q \in Seq(GP!Guard) /\ AllGuards(t) = q \o Cur(t).open
  BY <1>1, GuardsOfTop
<1>3. stack'[t] = r /\ \A u \in Threads \ {t} : stack'[u] = stack[u]
  BY <1>1 DEF Becomes
<1>4. Front(s) \in Seq(Frames) /\ Flat(Front(s)) \in Seq(GP!Guard)
      /\ Flat(r) = Flat(Front(s)) \o g.open
  BY <1>1, AppendFront, FlatAppend
<1>5. \A u : AllGuards(u) = Own(u) \o Flat(stack[u])
  BY DEF AllGuards, Own, Flat, Opens
<1>6. \A u : AllGuards(u)' = Own(u) \o Flat(stack'[u])
  BY DEF AllGuards, Own, Flat, Opens
<1>7. AllGuards(t)' = q \o g.open
  <2>1. Own(t) \in Seq(GP!Guard) /\ g.open \in Seq(GP!Guard)
    BY GuardTypes
  <2>2. AllGuards(t)' = Own(t) \o (Flat(Front(s)) \o g.open)
    BY <1>3, <1>4, <1>6
  <2> DEFINE a == Own(t)
             b == Flat(Front(s))
             c == g.open
             G == GP!Guard
  <2>3. a \in Seq(G) /\ b \in Seq(G) /\ c \in Seq(G)
    BY <1>4, <2>1
  <2> HIDE DEF a, b, c, G
  <2>4. a \o (b \o c) = (a \o b) \o c
    BY <2>3, ConcatAssociative
  <2> QED
    BY <2>2, <2>4 DEF a, b, c
<1>8. \A u \in Threads \ {t} : AllGuards(u)' = AllGuards(u)
  BY <1>3, <1>5, <1>6
<1> QED
  BY <1>2, <1>7, <1>8

StatesOf(t, s) ==
  Cardinality({i \in 1 .. Len(s) : s[i] # "saved"})
    + (IF t \in PyThreads \cup {HostThread} THEN 1 ELSE 0)

LEMMA StatesAre == \A t : States(t) = StatesOf(t, AllGuards(t)) /\ States(t)' = StatesOf(t, AllGuards(t)')
BY DEF States, StatesOf

LEMMA StatesAppend ==
  ASSUME NEW t, NEW s \in Seq(GP!Guard), NEW g \in GP!Guard
  PROVE  /\ StatesOf(t, Append(s, g)) = StatesOf(t, s) + (IF g = "saved" THEN 0 ELSE 1)
         /\ StatesOf(t, s) \in Nat
<1>1. Cardinality(GP!Ensures(Append(s, g)))
        = Cardinality(GP!Ensures(s)) + (IF g = "saved" THEN 0 ELSE 1)
      /\ Cardinality(GP!Ensures(s)) \in Nat
  <2>1. GP!GilAssumption
    BY GuardTypes
  <2>2. Cardinality(GP!Ensures(s)) \in Nat
    BY <2>1, GP!EnsuresFinite, SameOperators
  <2>3. Cardinality(GP!Ensures(Append(s, g)))
          = Cardinality(GP!Ensures(s)) + (IF g = "saved" THEN 0 ELSE 1)
    BY <2>1, GP!AppendEnsures, SameOperators
  <2> QED
    BY <2>2, <2>3
<1>2. /\ StatesOf(t, s) = Cardinality(GP!Ensures(s))
                            + (IF t \in PyThreads \cup {HostThread} THEN 1 ELSE 0)
      /\ StatesOf(t, Append(s, g)) = Cardinality(GP!Ensures(Append(s, g)))
                            + (IF t \in PyThreads \cup {HostThread} THEN 1 ELSE 0)
  BY DEF StatesOf, GP!Ensures
<1> QED
  BY <1>1, <1>2

(* A step that changes the guards of one thread only.                        *)
LEMMA GuardsMapped ==
  ASSUME NEW t \in Threads, NEW s, AllGuards(t)' = s,
         \A u \in Threads \ {t} : AllGuards(u)' = AllGuards(u)
  PROVE  /\ [u \in Threads |-> AllGuards(u)]' = [[u \in Threads |-> AllGuards(u)] EXCEPT ![t] = s]
         /\ [u \in Threads |-> States(u)]'
              = [[u \in Threads |-> States(u)] EXCEPT ![t] = StatesOf(t, s)]
<1>1. \A u \in Threads : AllGuards(u)' = IF u = t THEN s ELSE AllGuards(u)
  OBVIOUS
<1>2. \A u \in Threads : States(u)' = IF u = t THEN StatesOf(t, s) ELSE States(u)
  BY <1>1, StatesAre
<1> QED
  BY <1>1, <1>2

LEMMA OpenMapped ==
  ASSUME BInv, BInv', NEW t \in Threads, NEW f \in Frames, NEW g \in GP!Guard,
         Becomes(t, f), f.open = <<g>>, Cur(t).open = <<>>
  PROVE  /\ [u \in Threads |-> AllGuards(u)]'
              = [[u \in Threads |-> AllGuards(u)] EXCEPT ![t] = Append(@, g)]
         /\ [u \in Threads |-> States(u)]'
              = [[u \in Threads |-> States(u)] EXCEPT ![t] = @ + (IF g = "saved" THEN 0 ELSE 1)]
         /\ Len(AllGuards(t)) < GuardBound
<1> DEFINE q == Own(t) \o Flat(Front(stack[t]))
<1>1. /\ q \in Seq(GP!Guard)
      /\ AllGuards(t) = q \o <<>> /\ AllGuards(t)' = q \o <<g>>
      /\ \A u \in Threads \ {t} : AllGuards(u)' = AllGuards(u)
  BY GuardsOfReplaced
<1> HIDE DEF q
<1>2. AllGuards(t) = q /\ AllGuards(t)' = Append(q, g)
  BY <1>1
<1>3. /\ [u \in Threads |-> AllGuards(u)]'
           = [[u \in Threads |-> AllGuards(u)] EXCEPT ![t] = Append(q, g)]
      /\ [u \in Threads |-> States(u)]'
           = [[u \in Threads |-> States(u)] EXCEPT ![t] = StatesOf(t, Append(q, g))]
  BY <1>1, <1>2, GuardsMapped
<1>4. StatesOf(t, Append(q, g)) = States(t) + (IF g = "saved" THEN 0 ELSE 1)
  BY <1>1, <1>2, StatesAppend, StatesAre
<1>5. Len(AllGuards(t)) < GuardBound
  BY GuardsOfTop DEF GuardBound, BInv, StacksOK
<1> QED
  BY <1>2, <1>3, <1>4, <1>5

LEMMA CloseMapped ==
  ASSUME BInv, BInv', NEW t \in Threads, NEW f \in Frames, NEW g \in GP!Guard,
         Becomes(t, f), f.open = <<>>, Cur(t).open = <<g>>
  PROVE  /\ [u \in Threads |-> AllGuards(u)]'
              = [[u \in Threads |-> AllGuards(u)] EXCEPT ![t] = Front(@)]
         /\ [u \in Threads |-> States(u)]'
              = [[u \in Threads |-> States(u)] EXCEPT ![t] = @ - (IF g = "saved" THEN 0 ELSE 1)]
         /\ AllGuards(t) # <<>> /\ Last(AllGuards(t)) = g
         /\ t = HostThread => Len(AllGuards(t)) > 1
<1> DEFINE b == Flat(Front(stack[t]))
           q == Own(t) \o b
<1>1. /\ q \in Seq(GP!Guard)
      /\ AllGuards(t) = q \o <<g>> /\ AllGuards(t)' = q \o <<>>
      /\ \A u \in Threads \ {t} : AllGuards(u)' = AllGuards(u)
  BY GuardsOfReplaced
<1>2. t = HostThread => Len(q) >= 1
  <2>1. b \in Seq(GP!Guard)
    BY FlatTop DEF BInv, StacksOK, StackOK
  <2>2. Len(<<"saved">> \o b) >= 1
    <3>1. Len(<<"saved">> \o b) = 1 + Len(b) /\ Len(b) \in Nat
      BY <2>1
    <3> QED
      BY <3>1
  <2> QED
    BY <2>2 DEF Own
<1> HIDE DEF q
<1>3. AllGuards(t)' = q /\ AllGuards(t) = Append(q, g)
  BY <1>1
<1>4. Append(q, g) # <<>> /\ Last(Append(q, g)) = g /\ Front(Append(q, g)) = q
      /\ Len(Append(q, g)) = Len(q) + 1 /\ Len(q) \in Nat
  <2> DEFINE a == Append(q, g)
             G == GP!Guard
  <2> HIDE DEF G
  <2>1. /\ a \in Seq(G) /\ Len(q) \in Nat /\ Len(a) = Len(q) + 1 /\ a[Len(q) + 1] = g /\ a # <<>>
        /\ \A i \in 1 .. Len(q) : a[i] = q[i]
    BY <1>1 DEF G
  <2> HIDE DEF a
  <2>2. Last(a) = g
    BY <2>1 DEF Last
  <2>3. /\ Front(a) \in Seq(G) /\ Len(Front(a)) = Len(a) - 1
        /\ \A i \in 1 .. Len(a) - 1 : Front(a)[i] = a[i]
    BY <2>1, FrontIs
  <2>4. Len(Front(a)) = Len(q) /\ \A i \in 1 .. Len(q) : Front(a)[i] = q[i]
    BY <2>1, <2>3
  <2>5. q \in Seq(G)
    BY <1>1 DEF G
  <2>6. Front(a) = q
    BY <2>3, <2>4, <2>5, SeqEqual
  <2> QED
    BY <2>1, <2>2, <2>6 DEF a
<1>5. /\ [u \in Threads |-> AllGuards(u)]'
           = [[u \in Threads |-> AllGuards(u)] EXCEPT ![t] = q]
      /\ [u \in Threads |-> States(u)]'
           = [[u \in Threads |-> States(u)] EXCEPT ![t] = StatesOf(t, q)]
  BY <1>1, <1>3, GuardsMapped
<1>6. StatesOf(t, q) = States(t) - (IF g = "saved" THEN 0 ELSE 1)
  <2>1. States(t) = StatesOf(t, q) + (IF g = "saved" THEN 0 ELSE 1) /\ StatesOf(t, q) \in Nat
    BY <1>1, <1>3, StatesAppend, StatesAre, ZenonT(30)
  <2> QED
    BY <2>1
<1>7. /\ [u \in Threads |-> AllGuards(u)][t] = Append(q, g)
      /\ [u \in Threads |-> States(u)][t] = States(t)
  BY <1>3
<1>8. [u \in Threads |-> AllGuards(u)]'
        = [[u \in Threads |-> AllGuards(u)] EXCEPT ![t] = Front(@)]
  BY <1>4, <1>5, <1>7
<1>9. [u \in Threads |-> States(u)]'
        = [[u \in Threads |-> States(u)] EXCEPT ![t] = @ - (IF g = "saved" THEN 0 ELSE 1)]
  BY <1>5, <1>6, <1>7
<1>10. AllGuards(t) # <<>> /\ Last(AllGuards(t)) = g
       /\ (t = HostThread => Len(AllGuards(t)) > 1)
  BY <1>2, <1>3, <1>4
<1> QED
  BY <1>8, <1>9, <1>10

-----------------------------------------------------------------------------
(* Every step of Bridge is one of GilGuards.                                *)

LEMMA Kept ==
  ASSUME BInv, BInv', NEW t \in Threads, NEW f \in Frames, Becomes(t, f), f.open = Cur(t).open
  PROVE  \A u \in Threads : AllGuards(u)' = AllGuards(u)
BY GuardsOfReplaced

LEMMA Stutters ==
  ASSUME \A u \in Threads : AllGuards(u)' = AllGuards(u), UNCHANGED <<gil, parked>>
  PROVE  UNCHANGED Guards!gilVars
<1>1. \A u \in Threads : States(u)' = States(u)
  BY StatesAre
<1>2. /\ [u \in Threads |-> AllGuards(u)]' = [u \in Threads |-> AllGuards(u)]
      /\ [u \in Threads |-> States(u)]' = [u \in Threads |-> States(u)]
  BY <1>1
<1> QED
  BY <1>2 DEF Guards!gilVars

LEMMA SameStates ==
  ASSUME NEW t \in Threads, States(t) \in Nat
  PROVE  LET all == [u \in Threads |-> States(u)]
         IN  [all EXCEPT ![t] = @ + 0] = all /\ [all EXCEPT ![t] = @ - 0] = all
<1>1. States(t) + 0 = States(t) /\ States(t) - 0 = States(t)
  OBVIOUS
<1> QED
  BY <1>1

LEMMA OpenGilMaps ==
  ASSUME BInv, BInv', NEW t \in Threads, OpenGil(t)
  PROVE  Guards!Ensure(t)
<1> DEFINE f == Cur(t)
           found == IF gil = t THEN "locked" ELSE "unlocked"
           g == [Advanced(f, 1) EXCEPT !.open = Append(@, found)]
<1>1. /\ Running(t, "gil") /\ ~parked[t] /\ gil \in {t, NoThread} /\ gil' = t
      /\ UNCHANGED parked /\ Becomes(t, g) /\ StackOK(t, stack[t])
  BY DEF OpenGil, Running, BInv, StacksOK
<1>2. /\ f \in Frames /\ f.fn \in Fns /\ f.pc \in 1 .. Len(Code[f.fn])
      /\ Code[f.fn][f.pc].op = "gil" /\ Sound(f.fn, Code[f.fn]) /\ Full(f)
  BY <1>1, AtOp
<1> HIDE DEF f
<1>3. f.open = <<>>
  BY <1>2 DEF Sound, Full, Kind
<1>4. found \in {"locked", "unlocked"} /\ found \in GP!Guard /\ found # "saved"
  BY GuardTypes
<1> HIDE DEF found
<1>5. f.pc + 1 \in Nat \ {0}
  BY <1>2, NextPc
<1>6. g = [f EXCEPT !.pc = f.pc + 1, !.open = <<found>>]
  BY <1>2, <1>3, AppendOne DEF Advanced, Frames
<1>7. <<found>> \in {<<>>, <<"locked">>, <<"unlocked">>, <<"saved">>}
  BY <1>4
<1>8. g \in Frames /\ g.open = <<found>>
  BY <1>2, <1>5, <1>6, <1>7 DEF Frames
<1> HIDE DEF g
<1>9. /\ [u \in Threads |-> AllGuards(u)]'
           = [[u \in Threads |-> AllGuards(u)] EXCEPT ![t] = Append(@, found)]
      /\ [u \in Threads |-> States(u)]'
           = [[u \in Threads |-> States(u)] EXCEPT ![t] = @ + (IF found = "saved" THEN 0 ELSE 1)]
      /\ Len(AllGuards(t)) < GuardBound
  BY <1>1, <1>3, <1>4, <1>8, OpenMapped DEF f
<1> QED
  BY <1>1, <1>4, <1>9 DEF Guards!Ensure, Guards!Push, found

LEMMA OpenUnlockMaps ==
  ASSUME BInv, BInv', NEW t \in Threads, OpenUnlock(t)
  PROVE  Guards!Save(t)
<1> DEFINE f == Cur(t)
           g == [Advanced(f, 1) EXCEPT !.open = Append(@, "saved")]
<1>1. /\ Running(t, "unlock") /\ ~parked[t] /\ gil = t /\ gil' = NoThread
      /\ UNCHANGED parked /\ Becomes(t, g) /\ StackOK(t, stack[t])
  BY DEF OpenUnlock, Running, BInv, StacksOK
<1>2. /\ f \in Frames /\ f.fn \in Fns /\ f.pc \in 1 .. Len(Code[f.fn])
      /\ Code[f.fn][f.pc].op = "unlock" /\ Sound(f.fn, Code[f.fn]) /\ Full(f)
  BY <1>1, AtOp
<1> HIDE DEF f
<1>3. f.open = <<>>
  BY <1>2 DEF Sound, Full
<1>4. "saved" \in GP!Guard
  BY GuardTypes
<1>5. f.pc + 1 \in Nat \ {0}
  BY <1>2, NextPc
<1>6. g = [f EXCEPT !.pc = f.pc + 1, !.open = <<"saved">>]
  BY <1>2, <1>3, AppendOne DEF Advanced, Frames
<1>7. g \in Frames /\ g.open = <<"saved">>
  BY <1>2, <1>5, <1>6 DEF Frames
<1> HIDE DEF g
<1>8. /\ [u \in Threads |-> AllGuards(u)]'
           = [[u \in Threads |-> AllGuards(u)] EXCEPT ![t] = Append(@, "saved")]
      /\ [u \in Threads |-> States(u)]'
           = [[u \in Threads |-> States(u)] EXCEPT ![t] = @ + 0]
      /\ Len(AllGuards(t)) < GuardBound
  BY <1>1, <1>3, <1>4, <1>7, OpenMapped DEF f
<1>9. [u \in Threads |-> States(u)]' = [u \in Threads |-> States(u)]
  <2>1. States(t) \in Nat
    BY <1>1, GuardsOfTop, StatesAppend, StatesAre, <1>4
  <2> QED
    BY <1>8, <2>1, SameStates
<1> QED
  BY <1>1, <1>8, <1>9 DEF Guards!Save, Guards!Push

LEMMA CloseMaps ==
  ASSUME BInv, BInv', GP!IInv, NEW t \in Threads, CloseGuard(t)
  PROVE  Guards!Release(t) \/ Guards!Restore(t)
<1> DEFINE f == Cur(t)
           l == Last(f.open)
           g == [f EXCEPT !.open = Front(@), !.pc = IF Unwinding(f) THEN @ ELSE @ + 1]
<1>1. /\ ~parked[t] /\ Closing(t)
      /\ gil = (IF l = "saved" THEN NoThread ELSE t)
      /\ gil' = (IF l = "unlocked" THEN NoThread ELSE t)
      /\ UNCHANGED parked /\ Becomes(t, g) /\ StackOK(t, stack[t])
  BY DEF CloseGuard, Closing, Running, BInv, StacksOK
<1>2. f \in Frames /\ FrameOK(f) /\ f.open # <<>>
  BY <1>1, NonEmpty, ClosingHasGuard DEF Cur
<1> HIDE DEF f
<1>3. f.open = <<l>> /\ Front(f.open) = <<>> /\ l \in GP!Guard
  <2>1. \A x : Last(<<x>>) = x /\ Front(<<x>>) = <<>>
    BY DEF Last, Front
  <2>2. \E x \in {"locked", "unlocked", "saved"} : f.open = <<x>>
    BY <1>2 DEF Frames
  <2> QED
    BY <2>1, <2>2, GuardTypes
<1> HIDE DEF l
<1>4. g \in Frames /\ g.open = <<>>
  <2>1. f.pc \in Nat \ {0}
    BY <1>2 DEF Frames
  <2> DEFINE pc == IF Unwinding(f) THEN f.pc ELSE f.pc + 1
  <2>2. pc \in Nat \ {0}
    BY <2>1
  <2>3. g = [f EXCEPT !.pc = pc, !.open = <<>>]
    BY <1>2, <1>3 DEF Frames
  <2> HIDE DEF g, pc
  <2> QED
    BY <1>2, <2>2, <2>3 DEF Frames
<1> HIDE DEF g
<1>5. /\ [u \in Threads |-> AllGuards(u)]'
           = [[u \in Threads |-> AllGuards(u)] EXCEPT ![t] = Front(@)]
      /\ [u \in Threads |-> States(u)]'
           = [[u \in Threads |-> States(u)] EXCEPT ![t] = @ - (IF l = "saved" THEN 0 ELSE 1)]
      /\ AllGuards(t) # <<>> /\ Last(AllGuards(t)) = l
      /\ t = HostThread => Len(AllGuards(t)) > 1
  BY <1>1, <1>3, <1>4, CloseMapped DEF f
<1>6. CASE l = "saved"
  <2>1. [u \in Threads |-> States(u)]' = [u \in Threads |-> States(u)]
    <3>1. States(t) \in Nat
      BY <1>1, <1>3, GuardsOfTop, StatesAppend, StatesAre
    <3>2. [u \in Threads |-> States(u)]' = [[u \in Threads |-> States(u)] EXCEPT ![t] = @ - 0]
      BY <1>5, <1>6
    <3> QED
      BY <3>1, <3>2, SameStates
  <2>2. Guards!Restore(t)
    BY <1>1, <1>5, <1>6, <2>1, SameOperators DEF Guards!Restore, Guards!Pop
  <2> QED
    BY <2>2
<1>7. CASE l # "saved"
  <2>1. States(t) = 1 => l = "unlocked"
    <3>1. /\ [u \in Threads |-> AllGuards(u)][t] = AllGuards(t)
          /\ [u \in Threads |-> States(u)][t] = States(t)
      OBVIOUS
    <3> QED
      BY <1>5, <1>7, <3>1, GuardTypes, SameOperators, GP!LastOneUnlocks
  <2>2. Guards!Release(t)
    BY <1>1, <1>5, <1>7, <2>1, SameOperators DEF Guards!Release, Guards!Pop
  <2> QED
    BY <2>2
<1> QED
  BY <1>6, <1>7

LEMMA ParkMaps ==
  ASSUME NEW t \in Threads, Park(t) \/ Unpark(t)
  PROVE  Guards!Park(t) \/ Guards!Unpark(t)
<1>1. UNCHANGED stack
  BY DEF Park, Unpark
<1>2. \A u \in Threads : AllGuards(u)' = AllGuards(u)
  BY <1>1 DEF AllGuards
<1>3. \A u \in Threads : States(u)' = States(u)
  BY <1>2, StatesAre
<1> QED
  BY <1>2, <1>3 DEF Park, Unpark, Guards!Park, Guards!Unpark

(* The steps that open or close no guard.                                    *)
LEMMA OthersStutter ==
  ASSUME BInv, BInv', NEW t \in Threads,
         \/ Touch(t) \/ CallFn(t) \/ Branch(t) \/ Leave(t) \/ SubmitJob(t) \/ AwaitJob(t)
         \/ TakeWork(t) \/ FinishWork(t)
  PROVE  UNCHANGED Guards!gilVars
<1>1. UNCHANGED <<gil, parked>>
  BY DEF Touch, CallFn, Branch, Leave, SubmitJob, AwaitJob, TakeWork, FinishWork
<1>2. StackOK(t, stack[t]) /\ Cur(t) \in Frames
  BY NonEmpty DEF BInv, StacksOK, Cur
<1>3. ASSUME NEW op, Running(t, op), op \notin {"gil", "unlock", "close"}, Advance(t)
      PROVE  \A u \in Threads : AllGuards(u)' = AllGuards(u)
  <2>1. Advanced(Cur(t), 1) \in Frames /\ Advanced(Cur(t), 1).open = Cur(t).open
    BY <1>2, <1>3, Advances
  <2> QED
    BY <1>3, <2>1, Kept DEF Advance
<1>4. ASSUME NEW mode \in {"return", "throw"}, Becomes(t, [Cur(t) EXCEPT !.mode = mode])
      PROVE  \A u \in Threads : AllGuards(u)' = AllGuards(u)
  <2>1. LET g == [Cur(t) EXCEPT !.mode = mode]
        IN  g \in Frames /\ g.open = Cur(t).open
    BY <1>2, FrameInMode
  <2> QED
    BY <1>4, <2>1, Kept
<1>5. ASSUME NEW r, r \in Seq(Frames), Flat(r) = Flat(stack[t]),
             stack' = [stack EXCEPT ![t] = r]
      PROVE  \A u \in Threads : AllGuards(u)' = AllGuards(u)
  <2>1. \A u \in Threads : stack'[u] = IF u = t THEN r ELSE stack[u]
    BY <1>5 DEF BInv, StacksOK
  <2>2. \A u : AllGuards(u) = Own(u) \o Flat(stack[u]) /\ AllGuards(u)' = Own(u) \o Flat(stack'[u])
    BY DEF AllGuards, Own, Flat, Opens
  <2> QED
    BY <1>5, <2>1, <2>2
<1> DEFINE s == stack[t]
           f == Cur(t)
<1>6. /\ s \in Seq(Frames) /\ s # <<>> /\ f \in Frames /\ Front(s) \in Seq(Frames)
      /\ Flat(Front(s)) \in Seq(GP!Guard) /\ Flat(s) = Flat(Front(s)) \o f.open
  BY <1>2, AppendFront, FlatTop DEF StackOK, Cur
<1>7. CASE CallFn(t)
  <2>1. Running(t, "call")
    BY <1>7 DEF CallFn
  <2>2. PICK fn \in Op(t).fns :
          IF fn = "none" THEN Advance(t)
          ELSE stack' = [stack EXCEPT ![t] = Append(Append(Front(s), Advanced(f, 1)), Frame(fn))]
    BY <1>7 DEF CallFn
  <2>3. CASE fn = "none"
    BY <1>1, <1>3, <2>1, <2>2, <2>3, Stutters
  <2>4. CASE fn # "none"
    <3> DEFINE g == Advanced(f, 1)
               p == Append(Front(s), g)
               h == Frame(fn)
    <3>1. fn \in Fns
      <4>1. /\ f.pc \in 1 .. Len(Code[f.fn]) /\ Code[f.fn][f.pc].op = "call"
            /\ Op(t) = Code[f.fn][f.pc] /\ Sound(f.fn, Code[f.fn])
        BY <1>2, <2>1, AtOp
      <4> QED
        BY <2>4, <4>1 DEF Sound
    <3>2. g \in Frames /\ g.open = f.open
      BY <1>2, <2>1, Advances
    <3>3. h \in Frames /\ h.open = <<>>
      BY <3>1 DEF Frame, Frames
    <3> HIDE DEF f, s, g, h
    <3>4. p \in Seq(Frames) /\ Flat(p) = Flat(s)
      <4> DEFINE q == Front(s)
      <4>1. q \in Seq(Frames) /\ Flat(s) = Flat(q) \o f.open
        BY <1>6
      <4> HIDE DEF q
      <4>2. Append(q, g) \in Seq(Frames) /\ Flat(Append(q, g)) = Flat(q) \o g.open
        BY <3>2, <4>1, FlatAppend, SMTT(30)
      <4> QED
        BY <3>2, <4>1, <4>2 DEF q
    <3> HIDE DEF p
    <3>5. Flat(Append(p, h)) = Flat(p) \o <<>> /\ Flat(p) \in Seq(GP!Guard)
      BY <3>3, <3>4, FlatAppend
    <3>6. Append(p, h) \in Seq(Frames) /\ Flat(Append(p, h)) = Flat(s)
      BY <3>3, <3>4, <3>5
    <3>7. stack' = [stack EXCEPT ![t] = Append(p, h)]
      BY <2>2, <2>4 DEF p, g, h
    <3> QED
      BY <1>1, <1>5, <3>6, <3>7, Stutters DEF s
  <2> QED
    BY <2>3, <2>4
<1>8. CASE Branch(t)
  <2>1. ASSUME Running(t, "maySkip"), Becomes(t, Advanced(f, 1 + Op(t).skip))
        PROVE  \A u \in Threads : AllGuards(u)' = AllGuards(u)
    <3>1. /\ f.pc \in 1 .. Len(Code[f.fn]) /\ Code[f.fn][f.pc].op = "maySkip"
          /\ Op(t) = Code[f.fn][f.pc] /\ Sound(f.fn, Code[f.fn]) /\ f.fn \in Fns
      BY <1>2, <2>1, AtOp
    <3>2. /\ f.pc + 1 + Op(t).skip \in 1 .. Len(Code[f.fn]) + 1
          /\ Op(t).skip \in Int /\ Len(Code[f.fn]) \in Nat
      BY <3>1 DEF Sound
    <3>3. f.pc + (1 + Op(t).skip) \in Nat \ {0}
      <4>1. f.pc \in Int
        BY <1>6 DEF Frames
      <4>2. f.pc + (1 + Op(t).skip) = f.pc + 1 + Op(t).skip
        BY <3>2, <4>1
      <4> QED
        BY <3>2, <4>2
    <3>4. Advanced(f, 1 + Op(t).skip) \in Frames /\ Advanced(f, 1 + Op(t).skip).open = f.open
      BY <1>6, <3>3 DEF Advanced, Frames
    <3> QED
      BY <2>1, <3>4, Kept
  <2> QED
    BY <1>1, <1>3, <1>4, <1>8, <2>1, Stutters DEF Branch
<1>9. CASE Leave(t)
  <2> DEFINE b == Front(s)
  <2>1. /\ ToClose(f) = 0
        /\ Caught(f) => Becomes(t, [f EXCEPT !.mode = "run", !.pc = Try[f.fn].handler])
        /\ ~Caught(f) /\ Len(s) = 1 => Becomes(t, Frame(RootFn(t)))
        /\ ~Caught(f) /\ Len(s) # 1 =>
             stack' = [stack EXCEPT
               ![t] = IF f.mode = "throw"
                        THEN Append(Front(b), [Last(b) EXCEPT !.mode = "throw", !.pc = @ - 1])
                        ELSE b]
    BY <1>9, LeaveIs
  <2>2. stack'[t] \in Seq(Frames) /\ stack'[t] # <<>> /\ stack[t] = s /\ DOMAIN stack = Threads
    BY DEF BInv, StacksOK, StackOK
  <2> HIDE DEF f, s
  <2>3. ASSUME NEW g, Becomes(t, g)
        PROVE  g \in Frames
    <3>1. stack'[t] = Append(b, g)
      BY <2>2, <2>3 DEF Becomes, s
    <3>2. Append(b, g) \in Seq(Frames) /\ b \in Seq(Frames)
      BY <1>6, <2>2, <3>1
    <3>3. Len(Append(b, g)) = Len(b) + 1 /\ Append(b, g)[Len(b) + 1] = g /\ Len(b) \in Nat
      BY <3>2
    <3>4. Len(b) + 1 \in 1 .. Len(Append(b, g))
      BY <3>3
    <3> QED
      BY <3>2, <3>3, <3>4
  <2>4. ~Caught(f) => f.open = <<>>
    <3>1. ~Caught(f) => Len(f.open) = 0
      BY <2>1 DEF ToClose
    <3> QED
      BY <1>6, <3>1 DEF Frames
  <2>5. CASE Caught(f)
    <3> DEFINE g == [f EXCEPT !.mode = "run", !.pc = Try[f.fn].handler]
    <3>1. Becomes(t, g) /\ g.open = f.open
      BY <1>6, <2>1, <2>5 DEF Frames
    <3> QED
      BY <1>1, <2>3, <3>1, Kept, Stutters DEF f
  <2>6. CASE ~Caught(f) /\ Len(s) = 1
    <3>1. Becomes(t, Frame(RootFn(t))) /\ Frame(RootFn(t)).open = <<>>
      BY <2>1, <2>6 DEF Frame
    <3> QED
      BY <1>1, <2>3, <2>4, <2>6, <3>1, Kept, Stutters DEF f
  <2>7. CASE ~Caught(f) /\ Len(s) # 1
    <3>1. Len(s) > 1
      <4>1. Len(s) \in Nat \ {0}
        BY <1>6
      <4> QED
        BY <2>7, <4>1
    <3>2. b \in Seq(Frames) /\ b # <<>>
      <4>1. Len(b) = Len(s) - 1 /\ b \in Seq(Frames)
        BY <1>6, FrontIs
      <4>2. b = <<>> => Len(b) = 0
        OBVIOUS
      <4> QED
        BY <3>1, <4>1, <4>2
    <3>3. Flat(b) = Flat(s)
      BY <1>6, <2>4, <2>7
    <3> HIDE DEF b
    <3>4. CASE f.mode # "throw"
      <4>1. stack' = [stack EXCEPT ![t] = b]
        BY <2>1, <2>7, <3>4
      <4> QED
        BY <1>1, <1>5, <3>2, <3>3, <4>1, Stutters DEF s
    <3>5. CASE f.mode = "throw"
      <4> DEFINE g == [Last(b) EXCEPT !.mode = "throw", !.pc = @ - 1]
                 r == Append(Front(b), g)
      <4>1. stack' = [stack EXCEPT ![t] = r]
        BY <2>1, <2>7, <3>5
      <4>2. Last(b) \in Frames /\ Front(b) \in Seq(Frames) /\ Flat(b) = Flat(Front(b)) \o Last(b).open
        BY <3>2, AppendFront, FlatTop
      <4>3. g.open = Last(b).open
        BY <4>2 DEF Frames
      <4> HIDE DEF g
      <4>4. r \in Seq(Frames) /\ g \in Frames
        <5>1. stack'[t] = r
          BY <2>2, <4>1
        <5>2. Append(Front(b), g) \in Seq(Frames)
          BY <2>2, <5>1
        <5>3. Len(r) = Len(Front(b)) + 1 /\ r[Len(Front(b)) + 1] = g /\ Len(Front(b)) \in Nat
          BY <4>2
        <5>4. Len(Front(b)) + 1 \in 1 .. Len(r)
          BY <5>3
        <5> QED
          BY <5>2, <5>3, <5>4
      <4>5. Flat(r) = Flat(s)
        BY <3>3, <4>2, <4>3, <4>4, FlatAppend
      <4> HIDE DEF r
      <4> QED
        BY <1>1, <1>5, <4>1, <4>4, <4>5, Stutters DEF s
    <3> QED
      BY <3>4, <3>5
  <2> QED
    BY <2>5, <2>6, <2>7
<1>10. CASE Touch(t) \/ SubmitJob(t) \/ AwaitJob(t) \/ TakeWork(t) \/ FinishWork(t)
  BY <1>1, <1>3, <1>10, Stutters DEF Touch, SubmitJob, AwaitJob, TakeWork, FinishWork
<1> QED
  BY <1>7, <1>8, <1>9, <1>10

LEMMA InitMaps == Init => Guards!Init
<1> SUFFICES ASSUME Init
             PROVE  Guards!Init
  OBVIOUS
<1>1. ASSUME NEW t \in Threads
      PROVE  AllGuards(t) = Own(t)
  <2> DEFINE g == Frame(RootFn(t))
  <2>1. StackOK(t, stack[t]) /\ stack[t] = <<g>>
    BY InitEstablishesBInv DEF BInv, StacksOK, Init
  <2>2. g.open = <<>> /\ Cur(t) = g /\ Front(<<g>>) = <<>>
    BY <2>1 DEF Frame, Cur, Last, Front
  <2>3. AllGuards(t) = (Own(t) \o Flat(<<>>)) \o <<>>
    BY <2>1, <2>2, GuardsOfTop
  <2> QED
    BY <2>3, FlatEmpty, GuardTypes
<1>2. ASSUME NEW t \in Threads
      PROVE  States(t) = IF t \in PyThreads \cup {HostThread} THEN 1 ELSE 0
  <2>1. {i \in 1 .. Len(Own(t)) : Own(t)[i] # "saved"} = {}
    <3>1. \A i \in 1 .. Len(<<"saved">>) : <<"saved">>[i] = "saved"
      OBVIOUS
    <3>2. 1 .. Len(<<>>) = {}
      OBVIOUS
    <3> QED
      BY <3>1, <3>2 DEF Own
  <2>2. States(t) = Cardinality({}) + (IF t \in PyThreads \cup {HostThread} THEN 1 ELSE 0)
    BY <1>1, <2>1 DEF States
  <2> QED
    BY <2>2, FS_EmptySet
<1>3. [t \in Threads |-> AllGuards(t)] = [t \in Threads |-> IF t = HostThread THEN <<"saved">> ELSE <<>>]
  BY <1>1 DEF Own
<1>4. [t \in Threads |-> States(t)]
        = [t \in Threads |-> IF t \in PyThreads \cup {HostThread} THEN 1 ELSE 0]
  BY <1>2
<1>5. gil = NoThread /\ parked = [t \in Threads |-> t \in PyThreads]
  BY DEF Init
<1> QED
  BY <1>3, <1>4, <1>5 DEF Guards!Init

LEMMA NextMaps ==
  ASSUME BInv, BInv', GP!IInv, [Next]_vars
  PROVE  [Guards!Next]_Guards!gilVars
<1>1. CASE UNCHANGED vars
  <2>1. \A u \in Threads : AllGuards(u)' = AllGuards(u)
    BY <1>1 DEF vars, AllGuards
  <2> QED
    BY <1>1, <2>1, Stutters DEF vars
<1>2. ASSUME NEW t \in Threads, Execute(t) \/ Park(t) \/ Unpark(t)
      PROVE  Guards!Next \/ UNCHANGED Guards!gilVars
  <2>1. CASE OpenGil(t)
    BY <2>1, OpenGilMaps DEF Guards!Next
  <2>2. CASE OpenUnlock(t)
    BY <2>2, OpenUnlockMaps DEF Guards!Next
  <2>3. CASE CloseGuard(t)
    BY <2>3, CloseMaps DEF Guards!Next
  <2>4. CASE Park(t) \/ Unpark(t)
    BY <2>4, ParkMaps DEF Guards!Next
  <2> QED
    BY <1>2, <2>1, <2>2, <2>3, <2>4, OthersStutter DEF Execute
<1> QED
  BY <1>1, <1>2 DEF Next

(* The instance that has the proofs is the instance that Bridge refines.     *)
LEMMA SameInstance ==
  /\ Guards!Init <=> GP!Init
  /\ [Guards!Next]_Guards!gilVars <=> [GP!Next]_GP!gilVars
BY SameOperators DEF Guards!Init, GP!Init, Guards!Next, GP!Next, Guards!gilVars, GP!gilVars,
   Guards!Ensure, GP!Ensure, Guards!Release, GP!Release, Guards!Save, GP!Save,
   Guards!Restore, GP!Restore, Guards!Park, GP!Park, Guards!Unpark, GP!Unpark,
   Guards!Push, GP!Push, Guards!Pop, GP!Pop

(* The functions that Python and native code call each other through use the *)
(* lock only as scope guards do: Bridge implements GilGuards, so what is     *)
(* proved of the guards is true of every chain of calls.                     *)
THEOREM BridgeImplementsGuards == Spec => ImplementsGilGuards
<1> DEFINE Both == BInv /\ GP!IInv
<1>1. Init => Both /\ Guards!Init
  BY InitEstablishesBInv, InitMaps, SameInstance, GuardTypes, GP!InitInvariant
<1>2. Both /\ [Next]_vars => Both' /\ [Guards!Next]_Guards!gilVars
  <2> SUFFICES ASSUME Both, [Next]_vars
               PROVE  Both' /\ [Guards!Next]_Guards!gilVars
    OBVIOUS
  <2>1. BInv'
    BY NextPreservesBInv
  <2>2. [Guards!Next]_Guards!gilVars
    BY <2>1, NextMaps
  <2>3. GP!IInv'
    BY <2>2, SameInstance, GuardTypes, GP!StepInvariant
  <2> QED
    BY <2>1, <2>2, <2>3
<1> QED
  BY <1>1, <1>2, PTL DEF Spec, ImplementsGilGuards, Guards!Spec
===============================================================================

----------------------------- MODULE BridgeCode -----------------------------
(***************************************************************************)
(* The C++ functions through which Python and native code call each other, *)
(* reduced to what matters to the interpreter lock: the scope guards they  *)
(* declare, the points where they touch the interpreter, the functions     *)
(* they call and the points where they return early or throw.  A function  *)
(* is the sequence of those operations in program order; the guards that   *)
(* are still open when it returns or throws are closed by its unwinding.   *)
(* Converting a container visits its elements one at a time, so a loop is  *)
(* one optional iteration.                                                 *)
(***************************************************************************)
EXTENDS Integers, Sequences

CONSTANTS
  PyCalls,     (* the module's functions that Python code calls              *)
  NativeCalls  (* the functions of python proxies that native code calls     *)

-----------------------------------------------------------------------------
(* What the types of the module offer to Python code, and python proxies and *)
(* environments to native code.                                              *)
ModuleFunctions ==
  {"ProxyCall_call", "Proxy_getattr", "Proxy_setattr", "Proxy_callProxy", "Proxy_call",
   "Proxy_convert", "Proxy_Compare", "Proxy_toString", "Proxy_getClassName",
   "Proxy_getEnvironment", "Proxy_bool", "Proxy_init",
   "Proxy_dealloc", "ProxyEnvironment_init", "ProxyEnvironment_getName",
   "ProxyEnvironment_findProxy", "ProxyEnvironment_convertObjectToProxy",
   "ProxyEnvironment_convertProxyToObject"}

ProxyFunctions ==
  {"handleCall", "findProxy", "compareTo", "handleQuery", "serialize", "dropHandle",
   "convertObjectToProxy", "convertProxyToObject"}

ASSUME CallsAssumption ==
  PyCalls \subseteq ModuleFunctions /\ NativeCalls \subseteq ProxyFunctions

-----------------------------------------------------------------------------
(* Operations.                                                              *)

Gil       == [op |-> "gil"]        (* PyGilStateLock lock;                   *)
Unlock    == [op |-> "unlock"]     (* PyThreadStateLock lock;                *)
Close     == [op |-> "close"]      (* the end of the scope of a guard        *)
Api       == [op |-> "api"]        (* Python's C API, or reference counts    *)
Incref    == [op |-> "incref"]     (* a reference count, nothing else        *)
MayThrow  == [op |-> "mayThrow"]
MayReturn == [op |-> "mayReturn"]
Return    == [op |-> "return"]
Submit    == [op |-> "submit"]     (* native code hands work to a worker ... *)
Await     == [op |-> "await"]      (* ... and waits until it is done         *)
TakeJob   == [op |-> "takeJob"]
JobDone   == [op |-> "jobDone"]
MaySkip(n) == [op |-> "maySkip", skip |-> n]
Calls(S)   == [op |-> "call", fns |-> S]   (* one of S; "none" is no call    *)
Call(f)    == Calls({f})
MayCall(f) == Calls({"none", f})

-----------------------------------------------------------------------------
(* Code outside the repository.                                             *)

(* Python code, wherever the interpreter runs it.                           *)
Python == << Calls({"none"} \cup PyCalls) >>

(* A method of a managed class: it may use python proxies it was given, and *)
(* wait for the threads of the framework, as Topology::commit() does.       *)
Native == << Calls({"none"} \cup NativeCalls), MaySkip(2), Submit, Await, MayThrow >>

(* Native code that the module calls without letting go of the lock: taken  *)
(* not to wait for a thread that needs it.                                  *)
NativeQuick == << MayThrow >>

(* A thread of the framework, which runs the methods of a block.            *)
BlockMethods == {"PythonBlock_method", "PythonBlock_propagateLabels", "opaqueCallHandler"}
Worker == << TakeJob, Calls(BlockMethods), JobDone >>

-----------------------------------------------------------------------------
(* PythonHandle.cpp, PythonProxy.cpp: python proxies as C++ sees them.       *)

(* PythonProxyHandle(), for makeHandle().                                    *)
MakeHandle == << Gil, Api >>

(* ~PythonProxyHandle(): the object may die and run its finaliser.           *)
DropHandle == << Gil, Api, MayCall("python") >>

GetHandle == << Gil, MayCall("convertObjectToProxy") >>

(* A converter of PythonConvert.cpp or FrameworkTypes.cpp, as                *)
(* ProxyEnvironment::convertObjectToProxy finds it: there may be none.       *)
(* Elements of containers come from getHandle, a set or a dict asks them for *)
(* their hash; a buffer goes through the functions of Pothos.Buffer.         *)
ToPython ==
  << MayThrow, Api, Calls({"none", "getHandle", "findProxy"}),
     Calls({"none", "python", "handleCall"}), Call("makeHandle") >>

(* The other way: the elements of a container become handles, those of a set *)
(* and the keys of a dict are compared to each other; numbers and arrays of  *)
(* numpy are asked for their attributes.                                     *)
FromTuple == << Api, MayCall("makeHandle") >>
FromDict == FromTuple \o << MayCall("compareTo") >>
FromPython == FromTuple \o << Calls({"none", "compareTo", "handleCall"}) >>

(* Ops 4 and 5 are the handler of ProxyEnvironmentConvertError.  Exceptions  *)
(* of other types, and those of the managed environment, leave the function. *)
ConvertObjectToProxy == << Gil, Call("toPython"), Return, MayThrow, Call("wrapManaged") >>

(* this->makeProxy(proxy): convertObjectToProxy again, which now finds       *)
(* convertProxyToPyProxy.                                                    *)
WrapManaged == << Gil, Call("convertProxyToPyProxy") >>

(* makeProxy() of a value that has a converter.                              *)
MakeProxy == << Gil, Api, Call("makeHandle") >>

ConvertProxyToObject ==
  << Gil, Calls({"fromPython", "convertPyProxyToProxy"}), MayThrow >>

(* Of a tuple or a dict, for which there is always a converter.              *)
ConvertTuple == << Gil, Call("fromTuple") >>
ConvertDict == << Gil, Call("fromDict") >>

FindProxy == << Gil, Call("python"), MayThrow, Call("makeHandle"), Api >>

(* PythonProxyHandle::call(): ops 4-8 are the field accessors, 9-13 locate   *)
(* the callable, 14-15 make the tuple of arguments, 16 calls it.             *)
HandleCall ==
  << Gil, MayThrow, MaySkip(5),
     MayCall("getHandle"), Call("python"), MayThrow, Call("makeHandle"), Return,
     MayCall("python"), MayThrow, MaySkip(2), Call("makeHandle"), Return,
     MayCall("getHandle"), Api,
     Call("python"),
     Api, MayThrow, Call("makeHandle"), Call("getClassName"),
     MayCall("convertProxyToObject") >>

CompareTo == << Gil, Call("getHandle"), Call("python"), Api, MayThrow >>

(* hashCode(), toString() and getClassName() are alike.                      *)
HandleQuery == << Gil, Call("python"), Api >>

(* serialize() and deserialize(): an exception becomes another one.          *)
Serialize == << Call("findProxy"), Call("handleCall"), MayCall("convertProxyToObject") >>

-----------------------------------------------------------------------------
(* PothosModule.cpp, ProxyHelpers.cpp: what Python objects become in C++.    *)

PyObjectToProxy == << Api, MayReturn, Unlock, Call("makeHandle") >>

(* convertProxyToPyObject(): newRef(), and no guard around it.               *)
ProxyToPyObject == << Unlock, Incref >>

ConvertPyProxyToProxy == << Call("ProxyToPyObject"), Api >>
ConvertProxyToPyProxy == << Api, Unlock, Call("makeHandle"), Close, Api >>

(* From the managed environment to python's, or back.                        *)
ProxyEnvTranslate ==
  << MayReturn, Calls({"nativeQuick", "convertProxyToObject"}),
     Calls({"nativeQuick", "convertObjectToProxy"}) >>

-----------------------------------------------------------------------------
(* ProxyCallType.cpp, ProxyType.cpp, ProxyEnvironmentType.cpp: the functions  *)
(* that Python code calls.  The operation after the last Return is the        *)
(* handler of Pothos::Exception.                                              *)

(* handle->call(): the proxy may be of the managed or the python environment *)
Remote == Calls({"native", "handleCall"})

BugCallKeepsGil ==      (* no PyThreadStateLock around the call           *)
  << Call("PyObjectToProxy"), Call("convertProxyToObject"), MayCall("PyObjectToProxy"),
     Remote,
     Call("proxyEnvTranslate"), Call("ProxyToPyObject"), MayCall("dropHandle"), Return,
     Api >>

BugCallUnlocksTooLong ==   (* its scope reaches to the end of the function   *)
  << Call("PyObjectToProxy"), Call("convertProxyToObject"), MayCall("PyObjectToProxy"),
     Unlock, Remote,
     Call("proxyEnvTranslate"), Call("ProxyToPyObject"), MayCall("dropHandle"), Return,
     Api >>

BugCallHandlerThrows ==    (* the handler translates its result too          *)
  << Call("PyObjectToProxy"), Call("convertProxyToObject"), MayCall("PyObjectToProxy"),
     Unlock, Remote, Close,
     Call("proxyEnvTranslate"), Call("ProxyToPyObject"), MayCall("dropHandle"), Return,
     Call("proxyEnvTranslate") >>

ProxyCall_call ==
  << Call("PyObjectToProxy"), Call("convertProxyToObject"), MayCall("PyObjectToProxy"),
     Unlock, Remote, Close,
     Call("proxyEnvTranslate"), Call("ProxyToPyObject"), MayCall("dropHandle"), Return,
     Api >>

Proxy_getattr ==
  << Api, MayReturn, Api, Call("PyObjectToProxy"), Call("convertProxyToObject"),
     Unlock, Remote, Close,
     Call("proxyEnvTranslate"), Call("ProxyToPyObject"), Return,
     Api >>

Proxy_setattr ==
  << Api, Call("PyObjectToProxy"), Call("convertProxyToObject"), Call("PyObjectToProxy"),
     Unlock, Remote, Close, Return,
     Api >>

(* Both overloads of Proxy_callProxyHelper: the name is extracted from the   *)
(* arguments or given.                                                       *)
Proxy_callProxyHelper ==
  << MaySkip(3), MayThrow, Call("PyObjectToProxy"), Call("convertProxyToObject"),
     MayCall("PyObjectToProxy"), Unlock, Remote >>

Proxy_callProxy == << Call("Proxy_callProxyHelper"), Api, Return, Api >>

(* Proxy_call() and Proxy_callFunc().                                        *)
Proxy_call ==
  << Call("Proxy_callProxyHelper"), Call("proxyEnvTranslate"), Call("ProxyToPyObject"), Return,
     Api >>

Proxy_convert == << Call("proxyEnvTranslate"), Call("ProxyToPyObject"), Return, Api >>

(* Proxy_Compare() and Proxy_Hash() keep the lock while they call.           *)
Proxy_Compare ==
  << Call("PyObjectToProxy"), Call("PyObjectToProxy"),
     Calls({"nativeQuick", "compareTo"}), Api, Return,
     Api >>

(* Proxy_toString(), Proxy_getClassName(): no handler of exceptions.         *)
Proxy_toString ==
  << Calls({"nativeQuick", "handleQuery"}), Call("makeProxy"), Call("ProxyToPyObject") >>
Proxy_getClassName == Proxy_toString
ProxyEnvironment_getName == << Call("makeProxy"), Call("ProxyToPyObject") >>

(* makeProxyEnvironmentObject() runs ProxyEnvironment_init() with no         *)
(* arguments.                                                                *)
Proxy_getEnvironment == << Api, Call("PyObjectToProxy"), Call("convertTuple"), Api >>

(* Also ProxyCall_init(), the other dealloc and compare functions.           *)
Proxy_bool == << Api >>

Proxy_init == << Api, MayReturn, Call("PyObjectToProxy") >>

(* Proxy_dealloc().                                                          *)
Proxy_dealloc == << MayCall("dropHandle"), Api >>

(* The conversion of the arguments, op 1-2, is outside of the try block.     *)
ProxyEnvironment_findProxy ==
  << Call("PyObjectToProxy"), Call("convertTuple"), MayReturn,
     Call("convertProxyToObject"), Calls({"nativeQuick", "findProxy"}), Api, Return,
     Api >>

(* Ops 1-6 are outside of the try block: the conversion of the arguments and *)
(* of the keywords, if there are any.  Ops 7-9 are the loop over keywords.   *)
ProxyEnvironment_init ==
  << Call("PyObjectToProxy"), Call("convertTuple"),
     MaySkip(2), Call("PyObjectToProxy"), Call("convertDict"), MayReturn,
     MaySkip(2), Call("convertProxyToObject"), Call("convertProxyToObject"),
     Call("convertProxyToObject"), Call("nativeQuick"), Return,
     Api >>

ProxyEnvironment_convertProxyToObject == << Api, MayReturn >> \o Proxy_convert

ProxyEnvironment_convertObjectToProxy ==
  << Api, MayReturn, Call("PyObjectToProxy"), Call("proxyEnvTranslate"), Api, Return, Api >>

-----------------------------------------------------------------------------
(* PythonBlock.cpp: the methods a worker calls.                               *)

(* work(), activate() and deactivate().                                       *)
PythonBlock_method == << Call("handleCall") >>

PythonBlock_propagateLabels ==
  << Call("convertObjectToProxy"), Call("handleCall"), Call("convertProxyToObject") >>

OpaqueCallHandler ==
  << MayReturn, MayThrow, MayCall("convertObjectToProxy"), Call("handleCall"),
     Call("convertProxyToObject") >>

-----------------------------------------------------------------------------
Code == [
  python |-> Python, native |-> Native, nativeQuick |-> NativeQuick, worker |-> Worker,
  makeHandle |-> MakeHandle, dropHandle |-> DropHandle, getHandle |-> GetHandle,
  toPython |-> ToPython, fromPython |-> FromPython,
  fromTuple |-> FromTuple, fromDict |-> FromDict, convertDict |-> ConvertDict,
  convertObjectToProxy |-> ConvertObjectToProxy, wrapManaged |-> WrapManaged,
  convertProxyToObject |-> ConvertProxyToObject, convertTuple |-> ConvertTuple,
  findProxy |-> FindProxy,
  handleCall |-> HandleCall, compareTo |-> CompareTo, handleQuery |-> HandleQuery,
  getClassName |-> HandleQuery, serialize |-> Serialize,
  PyObjectToProxy |-> PyObjectToProxy, ProxyToPyObject |-> ProxyToPyObject,
  convertPyProxyToProxy |-> ConvertPyProxyToProxy,
  convertProxyToPyProxy |-> ConvertProxyToPyProxy,
  proxyEnvTranslate |-> ProxyEnvTranslate, ProxyCall_call |-> ProxyCall_call,
  Proxy_getattr |-> Proxy_getattr, Proxy_setattr |-> Proxy_setattr,
  Proxy_callProxyHelper |-> Proxy_callProxyHelper, Proxy_callProxy |-> Proxy_callProxy,
  Proxy_call |-> Proxy_call, Proxy_convert |-> Proxy_convert,
  Proxy_Compare |-> Proxy_Compare, Proxy_toString |-> Proxy_toString,
  Proxy_getClassName |-> Proxy_getClassName,
  Proxy_getEnvironment |-> Proxy_getEnvironment, Proxy_bool |-> Proxy_bool,
  Proxy_init |-> Proxy_init,
  Proxy_dealloc |-> Proxy_dealloc, makeProxy |-> MakeProxy,
  ProxyEnvironment_init |-> ProxyEnvironment_init,
  ProxyEnvironment_getName |-> ProxyEnvironment_getName,
  ProxyEnvironment_convertProxyToObject |-> ProxyEnvironment_convertProxyToObject,
  ProxyEnvironment_findProxy |-> ProxyEnvironment_findProxy,
  ProxyEnvironment_convertObjectToProxy |-> ProxyEnvironment_convertObjectToProxy,
  PythonBlock_method |-> PythonBlock_method,
  PythonBlock_propagateLabels |-> PythonBlock_propagateLabels,
  opaqueCallHandler |-> OpaqueCallHandler ]

Fns == DOMAIN Code

(* The try blocks: the operations they cover, the first one of their         *)
(* handler, and how many guards of the function were opened before them.     *)
WholeBody(f) == [from |-> 1, handler |-> Len(Code[f]), keep |-> 0]

Try == [
  convertObjectToProxy |-> [from |-> 2, handler |-> 4, keep |-> 1],
  worker |-> WholeBody("worker"),
  ProxyCall_call |-> WholeBody("ProxyCall_call"),
  Proxy_getattr |-> WholeBody("Proxy_getattr"),
  Proxy_setattr |-> WholeBody("Proxy_setattr"),
  Proxy_callProxy |-> WholeBody("Proxy_callProxy"),
  Proxy_call |-> WholeBody("Proxy_call"),
  Proxy_convert |-> WholeBody("Proxy_convert"),
  Proxy_Compare |-> WholeBody("Proxy_Compare"),
  ProxyEnvironment_init |-> [from |-> 7, handler |-> 13, keep |-> 0],
  ProxyEnvironment_findProxy |-> [from |-> 4, handler |-> 8, keep |-> 0],
  ProxyEnvironment_convertProxyToObject |-> WholeBody("ProxyEnvironment_convertProxyToObject"),
  ProxyEnvironment_convertObjectToProxy |-> WholeBody("ProxyEnvironment_convertObjectToProxy") ]

Catches(f, pc) == f \in DOMAIN Try /\ pc \in Try[f].from..(Try[f].handler - 1)
=============================================================================

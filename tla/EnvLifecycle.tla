----------------------------- MODULE EnvLifecycle -----------------------------
(***************************************************************************)
(* The life of the interpreter and of the module's statics: the factory of *)
(* the python environment, called on several threads (PythonProxy.cpp);    *)
(* the initialisation of the module by the first thread that imports it;   *)
(* the removal of the plugins it relies on (PothosModule.cpp); and the end *)
(* of the process.                                                         *)
(***************************************************************************)
EXTENDS Naturals, FiniteSets, SequencesExt

CONSTANTS
  Threads,
  Main,       (* the main thread of the process                              *)
  Nobody,
  PothosDir,  (* POTHOS_PYTHON_DIR                                           *)
  MaxMakes    (* bound: calls of the factory by each thread                  *)

(* The functions of ProxyHelpers.cpp that the module keeps in statics, and   *)
(* the converters that call them.                                            *)
Helpers == {"pyobject_to_proxy", "proxy_to_pyobject"}
ConverterOf(h) ==
  IF h = "pyobject_to_proxy" THEN "proxy_to_pyproxy" ELSE "pyproxy_to_proxy"
Plugins == Helpers \cup {ConverterOf(h) : h \in Helpers} \cup {"listener"}

ASSUME EnvAssumption ==
  /\ Main \in Threads /\ IsFiniteSet(Threads)
  /\ Nobody \notin Threads \cup Helpers
  /\ {"empty", "made"} \cap Threads = {}   (* what wrapper is besides a thread *)
  /\ MaxMakes \in Nat

VARIABLES
  caller,    (* "python" if Python loaded the library, "cpp" otherwise       *)
  package,   (* the Pothos package: "complete", "broken" (an import in it    *)
             (* fails) or "missing"                                          *)
  interp,    (* "none", "starting", "up" or "finalised"                      *)
  wrapper,   (* the singleton: "empty", "made", or the thread that makes it  *)
  sysPath,   (* sys.path, what was appended to it                            *)
  module,    (* "absent", "importing", "imported" or "failed"                *)
  envSet,    (* myPythonProxyEnv is set                                      *)
  fcn,       (* myPyObjectToProxyFcn, myProxyToPyObjectFcn: set or not       *)
  registry,  (* the plugins of Plugins that are registered                   *)
  event,     (* the helper whose removal is being handled, or Nobody         *)
  missed,    (* history: helpers that went before the module could hear of   *)
             (* it, or had registered the converter that calls them          *)
  atExit,    (* what exit() will do, the last first                          *)
  pc,
  makes

fixedVars == <<caller, package, makes>>
startVars == <<interp, wrapper, sysPath>>
moduleVars == <<module, envSet, fcn>>
pluginVars == <<registry, event, missed>>
sharedVars == <<fixedVars, startVars, moduleVars, pluginVars, atExit>>
envVars == <<sharedVars, pc>>

(* PyInit runs with the lock from its first step to its last.                *)
InitSteps == {"init", "getTo", "getFrom", "listen", "regTo", "regFrom"}
FactorySteps == {"wrap", "start", "path", "import", "package"} \cup InitSteps
ExitSteps == {"exit", "finalise", "ended"}
RemoveSteps == {"remove", "reset", "unregister"}
Dead == {"overflow", "badcall"}
Steps == FactorySteps \cup RemoveSteps \cup ExitSteps \cup Dead \cup
  {"idle", "have", "error", "toCall", "fromCall"}

Alive == \A t \in Threads : pc[t] \notin Dead \cup {"ended"}
Goto(t, step) == pc' = [pc EXCEPT ![t] = step]

(* t can enter the interpreter.                                              *)
PyReady(t) ==
  /\ Alive
  /\ interp = "up"
  /\ \A u \in Threads \ {t} : pc[u] \notin InitSteps

EnvInit ==
  /\ caller \in {"cpp", "python"}
  /\ package \in {"complete", "broken", "missing"}
  /\ caller = "python" => package # "missing"
  /\ interp = IF caller = "python" THEN "up" ELSE "none"
  /\ wrapper = "empty"
  /\ sysPath = <<>>
  /\ module = "absent"
  /\ envSet = FALSE
  /\ fcn = [h \in Helpers |-> FALSE]
  /\ registry \in {Helpers, {}}
  /\ caller = "cpp" => registry = Helpers
  /\ event = Nobody
  /\ missed = {}
  /\ atExit = <<>>
  /\ pc = [t \in Threads |-> IF caller = "python" /\ t = Main THEN "import" ELSE "idle"]
  /\ makes = [t \in Threads |-> 0]

-----------------------------------------------------------------------------
(* makePythonProxyEnvironment().  It is a plugin of the library that has the *)
(* helpers.  In a process that Python started, threads of the library are    *)
(* there once the module is being loaded.  Py_IsInitialized() is true from   *)
(* within Py_Initialize().                                                   *)

MakeEnv(t) ==
  /\ pc[t] \in {"idle", "error", "have"}
  /\ makes[t] < MaxMakes
  /\ Helpers \subseteq registry
  /\ interp # "finalised" /\ pc[Main] \notin ExitSteps
  /\ caller = "python" => module # "absent"
  /\ makes' = [makes EXCEPT ![t] = @ + 1]
  /\ Goto(t, IF interp = "none" THEN "wrap" ELSE "have")
  /\ UNCHANGED <<caller, package, startVars, moduleVars, pluginVars, atExit>>

(* getPythonInterpWrapper(): the first call constructs sh, whose destructor  *)
(* runs at exit, and then the wrapper, under sh's mutex.                     *)
EnterWrapper(t) ==
  /\ pc[t] = "wrap"
  /\ wrapper \in {"empty", "made"}
  /\ IF wrapper = "made"
     THEN Goto(t, "path") /\ UNCHANGED <<interp, wrapper, atExit>>
     ELSE /\ wrapper' = t
          /\ interp' = "starting"
          /\ atExit' = Append(atExit, "finalise")
          /\ Goto(t, "start")
  /\ UNCHANGED <<fixedVars, sysPath, moduleVars, pluginVars>>

BugLeaveWrapper(t) ==   (* the constructor keeps the lock                     *)
  /\ pc[t] = "start"
  /\ wrapper' = "made"
  /\ Goto(t, "path")
  /\ UNCHANGED <<fixedVars, interp, sysPath, moduleVars, pluginVars, atExit>>

(* PyEval_SaveThread(): from here on other threads can get the lock.         *)
LeaveWrapper(t) ==
  /\ pc[t] = "start"
  /\ wrapper' = "made"
  /\ interp' = "up"
  /\ Goto(t, "path")
  /\ UNCHANGED <<fixedVars, sysPath, moduleVars, pluginVars, atExit>>

BugAppendPath(t) ==   (* the module is looked for before its path is there    *)
  /\ PyReady(t)
  /\ pc[t] = "path"
  /\ Goto(t, "import")
  /\ UNCHANGED sharedVars

AppendPath(t) ==
  /\ PyReady(t)
  /\ pc[t] = "path"
  /\ sysPath' = Append(sysPath, PothosDir)
  /\ Goto(t, "import")
  /\ UNCHANGED <<fixedVars, interp, wrapper, moduleVars, pluginVars, atExit>>

-----------------------------------------------------------------------------
(* The import of the package.  Python's import lock lets one thread import   *)
(* it; a second import of a broken package does not initialise the extension *)
(* module again.                                                             *)

Found == package # "missing" /\ (caller = "cpp" => PothosDir \in ToSet(sysPath))

BeginImport(t) ==
  /\ PyReady(t)
  /\ pc[t] = "import"
  /\ module # "importing"
  /\ IF module = "absent" /\ Found
     THEN module' = "importing" /\ Goto(t, "init")
     ELSE UNCHANGED module /\ Goto(t, IF module = "imported" THEN "have" ELSE "error")
  /\ UNCHANGED <<fixedVars, startVars, envSet, fcn, pluginVars, atExit>>

BugInitModule(t) ==   (* deinit() is to run last                            *)
  /\ pc[t] = "init"
  /\ atExit' = <<"deinit">> \o atExit
  /\ IF registry \cap Helpers = {}
     THEN UNCHANGED envSet /\ Goto(t, "package")
     ELSE envSet' = TRUE /\ Goto(t, "getTo")
  /\ UNCHANGED <<fixedVars, startVars, module, fcn, pluginVars>>

(* initPyObjectUtilityConverters(): Pothos::init(), atexit, and a nested     *)
(* MakeEnv, which finds the interpreter initialised; an exception ends the   *)
(* function with a message.                                                  *)
InitModule(t) ==
  /\ pc[t] = "init"
  /\ atExit' = Append(atExit, "deinit")
  /\ IF registry \cap Helpers = {}
     THEN UNCHANGED envSet /\ Goto(t, "package")
     ELSE envSet' = TRUE /\ Goto(t, "getTo")
  /\ UNCHANGED <<fixedVars, startVars, module, fcn, pluginVars>>

GetHelper(t, h) ==
  /\ pc[t] = IF h = "pyobject_to_proxy" THEN "getTo" ELSE "getFrom"
  /\ IF h \in registry
     THEN /\ fcn' = [fcn EXCEPT ![h] = TRUE]
          /\ Goto(t, IF h = "pyobject_to_proxy" THEN "getFrom" ELSE "listen")
     ELSE UNCHANGED fcn /\ Goto(t, "package")
  /\ UNCHANGED <<fixedVars, startVars, module, envSet, pluginVars, atExit>>

Listen(t) ==
  /\ pc[t] = "listen"
  /\ registry' = registry \cup {"listener"}
  /\ Goto(t, "regTo")
  /\ UNCHANGED <<fixedVars, startVars, moduleVars, event, missed, atExit>>

BugRegister(t, h) ==   (* only one of the two converters                      *)
  /\ pc[t] = IF h = "pyobject_to_proxy" THEN "regTo" ELSE "regFrom"
  /\ registry' = IF h = "pyobject_to_proxy" THEN registry ELSE registry \cup {ConverterOf(h)}
  /\ Goto(t, IF h = "pyobject_to_proxy" THEN "regFrom" ELSE "package")
  /\ UNCHANGED <<fixedVars, startVars, moduleVars, event, missed, atExit>>

Register(t, h) ==
  /\ pc[t] = IF h = "pyobject_to_proxy" THEN "regTo" ELSE "regFrom"
  /\ registry' = registry \cup {ConverterOf(h)}
  /\ Goto(t, IF h = "pyobject_to_proxy" THEN "regFrom" ELSE "package")
  /\ UNCHANGED <<fixedVars, startVars, moduleVars, event, missed, atExit>>

(* The package's own code makes proxies (Label.py): PyObjectToProxy() calls  *)
(* an empty function, or uses a null environment, if they were not set.      *)
CanWrap == fcn["pyobject_to_proxy"] /\ envSet

FinishImport(t) ==
  /\ PyReady(t)
  /\ pc[t] = "package"
  /\ IF ~CanWrap
     THEN Goto(t, "badcall") /\ UNCHANGED module
     ELSE IF package = "complete"
          THEN Goto(t, "have") /\ module' = "imported"
          ELSE Goto(t, "error") /\ module' = "failed"
  /\ UNCHANGED <<fixedVars, startVars, envSet, fcn, pluginVars, atExit>>

-----------------------------------------------------------------------------
(* Uses of an environment.  An object without a converter of its own is      *)
(* wrapped; without the converter of proxies, convertObjectToProxy() wraps   *)
(* the wrapper, without end.  Looking up a converter and calling its         *)
(* function are two steps: the lock is let go between them.                  *)

ConvertTo(t) ==
  /\ PyReady(t)
  /\ pc[t] = "have"
  /\ Goto(t, IF "proxy_to_pyproxy" \in registry THEN "toCall" ELSE "overflow")
  /\ UNCHANGED sharedVars

(* A proxy that Python code has, on its way back; without a converter there  *)
(* is an exception.                                                          *)
ConvertFrom(t) ==
  /\ PyReady(t)
  /\ pc[t] = "have"
  /\ module = "imported"
  /\ "pyproxy_to_proxy" \in registry
  /\ Goto(t, "fromCall")
  /\ UNCHANGED sharedVars

CallHelper(t, h) ==
  /\ pc[t] = IF h = "pyobject_to_proxy" THEN "toCall" ELSE "fromCall"
  /\ Goto(t, IF fcn[h] THEN "have" ELSE "badcall")
  /\ UNCHANGED sharedVars

(* Python code gives a value to a proxy: PyObjectToProxy().                  *)
ScriptUse(t) ==
  /\ PyReady(t)
  /\ pc[t] = "have"
  /\ module = "imported"
  /\ ~CanWrap
  /\ Goto(t, "badcall")
  /\ UNCHANGED sharedVars

-----------------------------------------------------------------------------
(* Pothos::deinit(), called by the program or at exit, removes the helpers   *)
(* in some order; handlePythonPluginEvent() hears of it if it is registered. *)
(* None of it needs the interpreter lock.                                    *)

Deinit ==
  /\ pc[Main] \in {"have", "error"}
  /\ Helpers \cap registry # {}
  /\ Goto(Main, "remove")
  /\ UNCHANGED sharedVars

RemoveHelper(h) ==
  /\ pc[Main] = "remove"
  /\ h \in registry
  /\ registry' = registry \ {h}
  /\ IF "listener" \in registry
     THEN event' = h /\ Goto(Main, "reset") /\ UNCHANGED missed
     ELSE /\ missed' = IF fcn[h] THEN missed \cup {h} ELSE missed
          /\ UNCHANGED <<event, pc>>
  /\ UNCHANGED <<fixedVars, startVars, moduleVars, atExit>>

(* t has still to register the converter that calls h.                       *)
ToRegister(t, h) ==
  pc[t] = "regTo" \/ (pc[t] = "regFrom" /\ h = "proxy_to_pyobject")

BugHandleReset ==   (* it resets the function of the other helper             *)
  /\ pc[Main] = "reset"
  /\ envSet' = FALSE
  /\ fcn' = [h \in Helpers |-> IF h = event THEN fcn[h] ELSE FALSE]
  /\ Goto(Main, "unregister")
  /\ UNCHANGED <<fixedVars, startVars, module, pluginVars, atExit>>

HandleReset ==
  /\ pc[Main] = "reset"
  /\ envSet' = FALSE
  /\ fcn' = [fcn EXCEPT ![event] = FALSE]
  /\ Goto(Main, "unregister")
  /\ UNCHANGED <<fixedVars, startVars, module, pluginVars, atExit>>

HandleUnregister ==
  /\ pc[Main] = "unregister"
  /\ registry' = registry \ {ConverterOf(event)}
  /\ missed' = missed \cup {h \in {event} : \E t \in Threads : ToRegister(t, h)}
  /\ event' = Nobody
  /\ Goto(Main, "remove")
  /\ UNCHANGED <<fixedVars, startVars, moduleVars, atExit>>

(* The program ends when no thread is making an environment.  Python ends    *)
(* its interpreter before exit().                                            *)
CanEnd == \A t \in Threads : pc[t] \notin FactorySteps
EndOfPython ==
  IF caller = "python" /\ interp = "up"
  THEN PyReady(Main) /\ interp' = "finalised" ELSE UNCHANGED interp

EndDeinit ==
  /\ pc[Main] = "remove"
  /\ Helpers \cap registry = {}
  /\ CanEnd /\ EndOfPython
  /\ Goto(Main, "exit")
  /\ UNCHANGED <<fixedVars, wrapper, sysPath, moduleVars, pluginVars, atExit>>

Exit ==
  /\ pc[Main] \in {"have", "error"}
  /\ CanEnd /\ EndOfPython
  /\ Goto(Main, "exit")
  /\ UNCHANGED <<fixedVars, wrapper, sysPath, moduleVars, pluginVars, atExit>>

RunAtExit ==
  /\ pc[Main] = "exit"
  /\ IF atExit = <<>> THEN Goto(Main, "ended") /\ UNCHANGED atExit
     ELSE /\ atExit' = Front(atExit)
          /\ Goto(Main, IF Last(atExit) = "deinit" THEN "remove" ELSE "finalise")
  /\ UNCHANGED <<fixedVars, startVars, moduleVars, pluginVars>>

(* ~PythonInterpWrapper()                                                    *)
Finalise ==
  /\ PyReady(Main)
  /\ pc[Main] = "finalise"
  /\ interp' = "finalised"
  /\ Goto(Main, "exit")
  /\ UNCHANGED <<fixedVars, wrapper, sysPath, moduleVars, pluginVars, atExit>>

-----------------------------------------------------------------------------
FactoryStep(t) ==
  /\ Alive
  /\ \/ EnterWrapper(t) \/ LeaveWrapper(t) \/ AppendPath(t) \/ BeginImport(t)
     \/ InitModule(t) \/ Listen(t) \/ FinishImport(t)
     \/ \E h \in Helpers : GetHelper(t, h) \/ Register(t, h)

UseStep(t) ==
  \/ ConvertTo(t) \/ ConvertFrom(t) \/ ScriptUse(t)
  \/ \E h \in Helpers : CallHelper(t, h)

EndStep ==
  \/ Deinit \/ HandleReset \/ HandleUnregister \/ EndDeinit
  \/ Exit \/ RunAtExit \/ Finalise
  \/ \E h \in Helpers : RemoveHelper(h)

-----------------------------------------------------------------------------
EnvTypeOK ==
  /\ caller \in {"cpp", "python"}
  /\ package \in {"complete", "broken", "missing"}
  /\ interp \in {"none", "starting", "up", "finalised"}
  /\ wrapper \in {"empty", "made"} \cup Threads
  /\ interp = "starting" <=> wrapper \in Threads
  /\ wrapper \in Threads => pc[wrapper] = "start"
  /\ module \in {"absent", "importing", "imported", "failed"}
  /\ envSet \in BOOLEAN /\ fcn \in [Helpers -> BOOLEAN]
  /\ registry \subseteq Plugins
  /\ event \in Helpers \cup {Nobody} /\ missed \subseteq Helpers
  /\ ToSet(atExit) \subseteq {"finalise", "deinit"}
  /\ pc \in [Threads -> Steps] /\ makes \in [Threads -> 0..MaxMakes]

(* An environment that is given out before the module and its converters are *)
(* there (PythonProxy.cpp:150) was asked for while another thread was in the *)
(* factory, or after the import failed.                                      *)
UnreadyOnlyIfRaced == [][\A t \in Threads :
  pc[t] \in {"idle", "error"} \cup FactorySteps /\ pc'[t] = "have" /\ module' # "imported" =>
    \/ \E u \in Threads \ {t} : pc[u] \in FactorySteps
    \/ package # "complete"]_envVars

(* Once the import is through, a conversion or a script ends the process     *)
(* only if a helper was removed.                                             *)
DiesOnlyAfterRemoval == [][\A t \in Threads :
  pc[t] \notin Dead /\ pc'[t] \in Dead /\ module = "imported" =>
    ~ (Helpers \subseteq registry)]_envVars

(* When a helper was removed, neither its function nor the converter that    *)
(* calls it is left, but for the helpers whose removal fell into one of two  *)
(* windows of the initialisation (missed): before the listener was there,    *)
(* or so soon after that the converter was registered when the removal had   *)
(* been dealt with (PothosModule.cpp:89-93).  Whatever else the import, the  *)
(* environments and the conversions of other threads were doing, it is gone. *)
RemovalLeavesNothing == \A h \in Helpers \ (registry \cup missed \cup {event}) :
  ~fcn[h] /\ ConverterOf(h) \notin registry

(* A program that embeds Python has unloaded the plugins, which may own      *)
(* Python objects, before the interpreter ends: exit() runs the newest       *)
(* function first, and both are registered at most once.                     *)
DeinitBeforeFinalise ==
  /\ atExit \in {<<>>, <<"finalise">>, <<"deinit">>, <<"finalise", "deinit">>}
  /\ caller = "cpp" /\ interp = "finalised" =>
       "deinit" \notin ToSet(atExit) /\ (module # "absent" => Helpers \cap registry = {})
===============================================================================

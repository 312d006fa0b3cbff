-------------------------- MODULE EnvLifecycleProofs --------------------------
(***************************************************************************)
(* The factory of the environment, the import of the module, the removal   *)
(* of its helpers, the end of the process and the paths of block           *)
(* factories: what holds of them for any threads, files and directories.   *)
(*                                                                         *)
(* LifeInv is the inductive invariant: EnvInv joins what is being made     *)
(* (WrapperOK, ImportOK), what exit() will run (ExitOK), what a removal    *)
(* leaves (RemovalOK) and what the import leaves (ReadyOK); JobOK and      *)
(* PathOK are about the factories of blocks.                               *)
(***************************************************************************)
EXTENDS ConfLoaderProofs, FiniteSetTheorems

-----------------------------------------------------------------------------
(* The thread that imports the package, and the steps of it.                 *)
Working == InitSteps \cup {"package"}

(* The interpreter starts while one thread makes the wrapper, and nothing is *)
(* imported before; a program of Python has an interpreter and no wrapper.   *)
WrapperOK ==
  /\ caller \in {"cpp", "python"} /\ package \in {"complete", "broken", "missing"}
  /\ interp \in {"none", "starting", "up", "finalised"}
  /\ wrapper \in {"empty", "made"} \cup Threads
  /\ sysPath \in Seq(Dirs)
  /\ caller = "python" => wrapper = "empty" /\ interp \in {"up", "finalised"} /\ package # "missing"
  /\ caller = "cpp" => (interp = "none" <=> wrapper = "empty")
  /\ interp = "starting" <=> wrapper \in Threads
  /\ \A t \in Threads : pc[t] = "start" <=> wrapper = t
  /\ \A t \in Threads : pc[t] = "wrap" => caller = "cpp"
  /\ interp = "none" => /\ module = "absent" /\ sysPath = <<>> /\ atExit = <<>>
                        /\ \A t \in Threads : pc[t] \in {"idle", "wrap"}

(* One thread imports the package, from the statement that begins it to its  *)
(* end; unless the process dies there is one while the module is incomplete. *)
ImportOK ==
  /\ module \in {"absent", "importing", "imported", "failed"}
  /\ pc \in [Threads -> Steps] /\ makes \in [Threads -> 0 .. MaxMakes]
  /\ \A t \in Threads : pc[t] \in Working => module = "importing"
  /\ \A t, u \in Threads : pc[t] \in Working /\ pc[u] \in Working => t = u
  /\ module = "importing" /\ Alive => \E t \in Threads : pc[t] \in Working
  /\ module = "failed" => package # "complete"
  /\ module = "absent" /\ package # "missing" /\ interp # "none" =>
       \E t \in Threads : pc[t] \in {"start", "path"} \/ (pc[t] = "import" /\ Found)

(* exit() runs the end of the library before that of the interpreter; when it*)
(* comes to the interpreter's, every helper is removed.                      *)
ExitOK ==
  /\ atExit \in {<<>>, <<"finalise">>, <<"deinit">>, <<"finalise", "deinit">>}
  /\ caller = "python" => atExit \in {<<>>, <<"deinit">>}
  /\ module = "absent" \/ (\E t \in Threads : pc[t] = "init") => atExit \in {<<>>, <<"finalise">>}
  /\ pc[Main] \in ExitSteps =>
       module \in {"imported", "failed"} \/ (module = "absent" /\ package = "missing")
  /\ module # "absent" =>
       \/ \E t \in Threads : pc[t] = "init"
       \/ atExit \in {<<"deinit">>, <<"finalise", "deinit">>}
       \/ pc[Main] \in RemoveSteps
       \/ Helpers \cap registry = {}
  /\ pc[Main] = "finalise" \/ (caller = "cpp" /\ interp = "finalised") =>
       /\ caller = "cpp" /\ atExit = <<>> /\ (module # "absent" => Helpers \cap registry = {})
       /\ pc[Main] \in ExitSteps

(* A removal that the module hears of clears what it kept: the listener is   *)
(* there before the converters, and after the functions are.  A removal that *)
(* is over when a converter of its helper is still to be registered is one   *)
(* of those that are missed.                                                 *)
RemovalOK ==
  /\ registry \subseteq Plugins /\ missed \subseteq Helpers
  /\ envSet \in BOOLEAN /\ fcn \in [Helpers -> BOOLEAN]
  /\ IF pc[Main] \in {"reset", "unregister"} THEN event \in Helpers \ registry ELSE event = Nobody
  /\ pc[Main] \in {"reset", "unregister"} => "listener" \in registry
  /\ pc[Main] = "unregister" => ~fcn[event]
  /\ \A h \in Helpers : ConverterOf(h) \in registry => "listener" \in registry
  /\ "listener" \in registry => module # "absent"
  /\ \A t \in Threads :
       /\ pc[t] \in {"init", "getTo", "getFrom", "listen"} => "listener" \notin registry
       /\ pc[t] \in {"getFrom", "listen"} => fcn["pyobject_to_proxy"]
       /\ pc[t] = "listen" => fcn["proxy_to_pyobject"]
       /\ pc[t] \in {"regTo", "regFrom"} => "listener" \in registry
       /\ \A h \in Helpers : ToRegister(t, h) => h \in registry \cup missed \cup {event}
  /\ RemovalLeavesNothing

(* As long as no helper was removed, the initialisation leaves nothing out.  *)
ReadyOK == Helpers \subseteq registry =>
  /\ \A t \in Threads :
       /\ pc[t] \in Working \ {"init"} => envSet
       /\ pc[t] \in Working \ {"init", "getTo"} => fcn["pyobject_to_proxy"]
       /\ pc[t] \in Working \ {"init", "getTo", "getFrom"} => fcn["proxy_to_pyobject"]
       /\ pc[t] \in {"regFrom", "package"} => "proxy_to_pyproxy" \in registry
       /\ pc[t] = "package" => "pyproxy_to_proxy" \in registry
  /\ module = "imported" =>
       /\ envSet /\ \A h \in Helpers : fcn[h] /\ ConverterOf(h) \in registry

EnvInv == WrapperOK /\ ImportOK /\ ExitOK /\ RemovalOK /\ ReadyOK

(* How often d is in the list s.                                             *)
Count(s, d) == Cardinality({j \in 1 .. Len(s) : s[j] = d})

(* The threads that are about to add d to sys.path.                          *)
Adding(d) ==
  {t \in Threads :
     \/ job[t].at = "add" /\ Head(job[t].left) = d
     \/ pc[t] \in {"wrap", "start", "path"} /\ d = PothosDir}

(* The factories of blocks: a thread has a directory to add as long as it is *)
(* about to add one.                                                         *)
JobOK ==
  /\ job \in [Threads -> [file : Files \cup {Nobody}, left : Seq(Dirs),
                          at : {"look", "add", "call"}]]
  /\ \A t \in Threads : job[t].at = "add" => job[t].left # <<>> /\ pc[t] = "have"
  /\ \A t \in Threads : job[t].file = Nobody => job[t] = NoJob
  /\ loads \in 0 .. MaxLoads

(* Each thread that is about to add a directory has left room for it.        *)
PathOK == \A d \in Dirs : Count(sysPath, d) + Cardinality(Adding(d)) <= Cardinality(Threads)

-----------------------------------------------------------------------------
(* Short lists: what exit() has to run, and sys.path.                        *)
LEMMA AppendedSet ==
  ASSUME NEW S, NEW s \in Seq(S), NEW x \in S
  PROVE  /\ Append(s, x) \in Seq(S) /\ Append(s, x) # <<>>
         /\ ToSet(Append(s, x)) = ToSet(s) \cup {x}
<1>1. /\ Len(s) \in Nat /\ Append(s, x) \in Seq(S) /\ Len(Append(s, x)) = Len(s) + 1
      /\ DOMAIN s = 1 .. Len(s) /\ DOMAIN Append(s, x) = 1 .. Len(s) + 1
      /\ \A i \in 1 .. Len(s) + 1 : Append(s, x)[i] = IF i = Len(s) + 1 THEN x ELSE s[i]
  OBVIOUS
<1>2. 1 .. Len(s) + 1 = 1 .. Len(s) \cup {Len(s) + 1} /\ Len(s) + 1 \notin 1 .. Len(s)
  BY <1>1
<1> QED
  BY <1>1, <1>2 DEF ToSet

LEMMA PairList ==
  ASSUME NEW S, NEW a \in S, NEW b \in S
  PROVE  /\ Append(<<a>>, b) = <<a, b>> /\ Front(<<a, b>>) = <<a>>
         /\ Last(<<a, b>>) = b
<1> DEFINE one == <<a>>
           both == <<a, b>>
<1>1. one \in Seq(S) /\ Len(one) = 1 /\ one[1] = a
  OBVIOUS
<1>2. both \in Seq(S) /\ Len(both) = 2 /\ both[1] = a /\ both[2] = b
  OBVIOUS
<1>3. 1 .. 1 = {1} /\ 1 .. 2 = {1, 2}
  OBVIOUS
<1> HIDE DEF one, both
<1>4. Append(one, b) = both
  <2>1. /\ Append(one, b) \in Seq(S) /\ Len(Append(one, b)) = 2
        /\ Append(one, b)[1] = a /\ Append(one, b)[2] = b
    <3> DEFINE app == Append(one, b)
    <3>1. app \in Seq(S) /\ Len(app) = Len(one) + 1 /\ app[Len(one) + 1] = b
      BY <1>1, AppendProperties
    <3>2. \A i \in 1 .. Len(one) : app[i] = one[i]
      BY <1>1, AppendProperties
    <3> HIDE DEF app
    <3>3. Len(one) + 1 = 2 /\ 1 \in 1 .. Len(one)
      BY <1>1
    <3>4. app \in Seq(S) /\ Len(app) = 2 /\ app[1] = a /\ app[2] = b
      BY <1>1, <3>1, <3>2, <3>3
    <3> QED
      BY <3>4 DEF app
  <2> QED
    BY <1>2, <1>3, <2>1, SeqEqual
<1>5. Front(both) = one
  <2>1. Front(both) \in Seq(S) /\ Len(Front(both)) = 1 /\ Front(both)[1] = a
    BY <1>2 DEF Front
  <2> QED
    BY <1>1, <1>3, <2>1, SeqEqual
<1>6. Last(both) = b
  BY <1>2 DEF Last
<1> QED
  BY <1>4, <1>5, <1>6 DEF one, both

LEMMA ExitLists ==
  /\ Append(<<>>, "finalise") = <<"finalise">>
  /\ Append(<<>>, "deinit") = <<"deinit">>
  /\ Append(<<"finalise">>, "deinit") = <<"finalise", "deinit">>
  /\ Last(<<"finalise">>) = "finalise" /\ Front(<<"finalise">>) = <<>>
  /\ Last(<<"deinit">>) = "deinit" /\ Front(<<"deinit">>) = <<>>
  /\ Last(<<"finalise", "deinit">>) = "deinit"
  /\ Front(<<"finalise", "deinit">>) = <<"finalise">>
<1>1. /\ Append(<<>>, "finalise") = <<"finalise">>
      /\ Append(<<>>, "deinit") = <<"deinit">>
  OBVIOUS
<1>2. Last(<<"finalise">>) = "finalise" /\ Last(<<"deinit">>) = "deinit"
  BY DEF Last
<1>3. Front(<<"finalise">>) = <<>> /\ Front(<<"deinit">>) = <<>>
  BY DEF Front
<1>4. /\ Append(<<"finalise">>, "deinit") = <<"finalise", "deinit">>
      /\ Last(<<"finalise", "deinit">>) = "deinit"
      /\ Front(<<"finalise", "deinit">>) = <<"finalise">>
  <2> DEFINE S == {"finalise", "deinit"}
  <2>1. "finalise" \in S /\ "deinit" \in S
    OBVIOUS
  <2> HIDE DEF S
  <2> QED
    BY <2>1, PairList, Zenon
<1> QED
  BY <1>1, <1>2, <1>3, <1>4

LEMMA ExitListsDiffer ==
  /\ <<>> # <<"finalise">> /\ <<>> # <<"deinit">> /\ <<>> # <<"finalise", "deinit">>
  /\ <<"finalise">> # <<"deinit">> /\ <<"finalise">> # <<"finalise", "deinit">>
  /\ <<"deinit">> # <<"finalise", "deinit">>
OBVIOUS

-----------------------------------------------------------------------------
(* Each step of the environments keeps EnvInv, conjunct by conjunct.         *)
LEMMA MakeEnvStep ==
  ASSUME EnvInv, Alive, NEW t \in Threads, MakeEnv(t)
  PROVE  EnvInv'
<1>1. WrapperOK'
  BY DEF MakeEnv, startVars, moduleVars, Goto, EnvInv, WrapperOK
<1>2. ImportOK'
  BY EnvAssumption DEF MakeEnv, startVars, moduleVars, Goto, InitSteps, FactorySteps, Steps,
                       Working, Found, EnvInv, ImportOK
<1>3. ExitOK'
  BY DEF MakeEnv, startVars, moduleVars, Goto, ExitSteps, RemoveSteps, EnvInv, ExitOK
<1>4. RemovalOK'
  BY DEF MakeEnv, moduleVars, pluginVars, Goto, RemovalLeavesNothing, ToRegister, EnvInv, RemovalOK
<1>5. ReadyOK'
  BY DEF MakeEnv, moduleVars, pluginVars, Goto, InitSteps, Working, EnvInv, ReadyOK
<1> QED
  BY <1>1, <1>2, <1>3, <1>4, <1>5 DEF EnvInv

LEMMA EnterWrapperStep ==
  ASSUME EnvInv, Alive, NEW t \in Threads, EnterWrapper(t)
  PROVE  EnvInv'
<1>1. WrapperOK'
  BY DEF EnterWrapper, fixedVars, Goto, EnvInv, WrapperOK, ImportOK
<1>2. ImportOK'
  <2>1. PICK step \in {"path", "start"} : pc' = [pc EXCEPT ![t] = step]
    BY DEF EnterWrapper, Goto
  <2>2. pc[t] = "wrap" /\ UNCHANGED <<module, makes, package, caller, sysPath>>
    BY DEF EnterWrapper, fixedVars, moduleVars
  <2>3. /\ module' \in {"absent", "importing", "imported", "failed"}
        /\ pc' \in [Threads -> Steps] /\ makes' \in [Threads -> 0 .. MaxMakes]
    BY <2>1, <2>2 DEF EnvInv, ImportOK, Steps, FactorySteps
  <2>4. \A u \in Threads : pc'[u] \in Working => u # t /\ pc'[u] = pc[u]
    BY <2>1, <2>2 DEF EnvInv, ImportOK, Working, InitSteps
  <2>5. \A u \in Threads : pc[u] \in Working \cup {"start", "path", "import"} => pc'[u] = pc[u]
    BY <2>1, <2>2 DEF EnvInv, ImportOK, Working, InitSteps
  <2>6. pc'[t] \in {"start", "path"}
    BY <2>1 DEF EnvInv, ImportOK
  <2> QED
    BY <2>2, <2>3, <2>4, <2>5, <2>6 DEF EnvInv, ImportOK, Found
<1>3. ExitOK'
  <2>1. PICK step \in {"path", "start"} : pc' = [pc EXCEPT ![t] = step]
    BY DEF EnterWrapper, Goto
  <2>2. pc[t] = "wrap" /\ caller = "cpp" /\ UNCHANGED <<module, registry, package, caller>>
    BY DEF EnterWrapper, fixedVars, moduleVars, pluginVars, EnvInv, WrapperOK
  <2>3. /\ \A u \in Threads : pc'[u] = "init" <=> pc[u] = "init"
        /\ pc'[Main] \in ExitSteps => pc[Main] \in ExitSteps /\ pc'[Main] = pc[Main]
        /\ pc[Main] \in RemoveSteps \cup ExitSteps => pc'[Main] = pc[Main]
    BY <2>1, <2>2, EnvAssumption
       DEF EnvAssumption, EnvInv, ImportOK, ExitSteps, RemoveSteps
  <2>4. CASE wrapper = "made"
    BY <2>2, <2>3, <2>4 DEF EnterWrapper, EnvInv, ExitOK, ExitSteps
  <2>5. CASE wrapper = "empty"
    <3>1. /\ interp = "none" /\ module = "absent" /\ interp' = "starting" /\ atExit' = <<"finalise">>
          /\ pc[Main] \in {"idle", "wrap"}
      BY <2>2, <2>5, ExitLists, EnvAssumption DEF EnvAssumption, EnterWrapper, EnvInv, WrapperOK
    <3> QED
      BY <2>2, <2>3, <3>1 DEF EnvInv, ExitOK, ExitSteps
  <2> QED
    BY <2>4, <2>5 DEF EnterWrapper
<1>4. RemovalOK'
  BY EnvAssumption DEF EnterWrapper, moduleVars, pluginVars, Goto, RemovalLeavesNothing, ToRegister,
                       EnvInv, ImportOK, RemovalOK
<1>5. ReadyOK'
  BY DEF EnterWrapper, moduleVars, pluginVars, Goto, InitSteps, Working, EnvInv, ImportOK,
         ReadyOK
<1> QED
  BY <1>1, <1>2, <1>3, <1>4, <1>5 DEF EnvInv

LEMMA LeaveWrapperStep ==
  ASSUME EnvInv, Alive, NEW t \in Threads, LeaveWrapper(t)
  PROVE  EnvInv'
<1>1. WrapperOK'
  BY EnvAssumption DEF LeaveWrapper, fixedVars, Goto, EnvInv, WrapperOK, ImportOK
<1>2. ImportOK'
  BY DEF LeaveWrapper, fixedVars, moduleVars, Goto, InitSteps, FactorySteps, Steps, Working,
         EnvInv, ImportOK
<1>3. ExitOK'
  BY DEF LeaveWrapper, fixedVars, moduleVars, pluginVars, Goto, ExitSteps, RemoveSteps,
         EnvInv, ExitOK
<1>4. RemovalOK'
  BY DEF LeaveWrapper, moduleVars, pluginVars, Goto, RemovalLeavesNothing, ToRegister,
         EnvInv, RemovalOK
<1>5. ReadyOK'
  BY DEF LeaveWrapper, moduleVars, pluginVars, Goto, InitSteps, Working, EnvInv, ReadyOK
<1> QED
  BY <1>1, <1>2, <1>3, <1>4, <1>5 DEF EnvInv

LEMMA AppendPathStep ==
  ASSUME EnvInv, Alive, NEW t \in Threads, AppendPath(t)
  PROVE  EnvInv'
<1>1. WrapperOK'
  <2>1. sysPath' \in Seq(Dirs)
    BY AppendedSet, LoaderAssumption DEF LoaderAssumption, AppendPath, EnvInv, WrapperOK
  <2> QED
    BY <2>1 DEF AppendPath, fixedVars, Goto, EnvInv, WrapperOK
<1>2. ImportOK'
  <2>1. ToSet(sysPath') = ToSet(sysPath) \cup {PothosDir}
    BY AppendedSet, LoaderAssumption DEF LoaderAssumption, AppendPath, EnvInv, WrapperOK
  <2> QED
    BY <2>1 DEF AppendPath, fixedVars, moduleVars, Goto, InitSteps, FactorySteps, Steps,
                Working, Found, EnvInv, ImportOK
<1>3. ExitOK'
  BY DEF AppendPath, fixedVars, moduleVars, pluginVars, Goto, ExitSteps, RemoveSteps, EnvInv,
         ExitOK
<1>4. RemovalOK'
  BY DEF AppendPath, moduleVars, pluginVars, Goto, RemovalLeavesNothing, ToRegister,
         EnvInv, RemovalOK
<1>5. ReadyOK'
  BY DEF AppendPath, moduleVars, pluginVars, Goto, InitSteps, Working, EnvInv, ReadyOK
<1> QED
  BY <1>1, <1>2, <1>3, <1>4, <1>5 DEF EnvInv

LEMMA BeginImportStep ==
  ASSUME EnvInv, Alive, NEW t \in Threads, BeginImport(t)
  PROVE  EnvInv'
<1>1. WrapperOK'
  BY DEF BeginImport, fixedVars, startVars, Goto, EnvInv, WrapperOK, ImportOK
<1>2. ImportOK'
  BY DEF BeginImport, fixedVars, Goto, InitSteps, FactorySteps, Steps, Working, EnvInv,
         WrapperOK, ImportOK
<1>3. ExitOK'
  BY EnvAssumption DEF BeginImport, fixedVars, startVars, pluginVars, Goto, ExitSteps,
                       RemoveSteps, Found, EnvInv, ImportOK, ExitOK
<1>4. RemovalOK'
  BY EnvAssumption DEF BeginImport, pluginVars, Goto, RemovalLeavesNothing, ToRegister,
         EnvInv, ImportOK,
                       RemovalOK
<1>5. ReadyOK'
  BY DEF BeginImport, pluginVars, Goto, InitSteps, Working, EnvInv, ImportOK, ReadyOK
<1> QED
  BY <1>1, <1>2, <1>3, <1>4, <1>5 DEF EnvInv

LEMMA InitModuleStep ==
  ASSUME EnvInv, Alive, NEW t \in Threads, InitModule(t)
  PROVE  EnvInv'
<1>1. WrapperOK'
  BY DEF InitModule, fixedVars, startVars, Goto, EnvInv, WrapperOK, ImportOK
<1>2. ImportOK'
  <2>1. PICK step \in {"package", "getTo"} : pc' = [pc EXCEPT ![t] = step]
    BY DEF InitModule, Goto
  <2>2. module' = module /\ UNCHANGED <<fixedVars, startVars>>
    BY DEF InitModule, moduleVars
  <2>3. module = "importing" /\ pc[t] \in Working
    BY DEF InitModule, Working, InitSteps, EnvInv, ImportOK
  <2> QED
    BY <2>1 DEF InitModule, fixedVars, InitSteps, FactorySteps, Steps, Working, EnvInv, ImportOK
<1>3. ExitOK'
  <2>1. module' = module /\ module = "importing" /\ pc[t] = "init"
    BY DEF InitModule, Working, InitSteps, EnvInv, ImportOK
  <2>2. \A u \in Threads : pc'[u] # "init"
    BY <2>1 DEF InitModule, Working, InitSteps, EnvInv, ImportOK, Goto
  <2>3. atExit \in {<<>>, <<"finalise">>} /\ atExit' = Append(atExit, "deinit")
    BY <2>1 DEF InitModule, EnvInv, ExitOK
  <2>4. atExit' \in {<<"deinit">>, <<"finalise", "deinit">>}
    BY <2>3, ExitLists
  <2>5. caller = "python" => atExit' = <<"deinit">>
    BY <2>3, ExitLists, ExitListsDiffer DEF EnvInv, ExitOK
  <2>6. pc[Main] \notin ExitSteps /\ ~ (caller = "cpp" /\ interp = "finalised")
    BY <2>1 DEF EnvInv, ExitOK
  <2>7. pc'[Main] \notin ExitSteps /\ UNCHANGED <<caller, interp, package, registry>>
    BY <2>6, EnvAssumption DEF InitModule, fixedVars, startVars, pluginVars, Goto, ExitSteps,
                               EnvInv, ImportOK
  <2> QED
    BY <2>1, <2>2, <2>4, <2>5, <2>6, <2>7 DEF ExitOK, ExitSteps
<1>4. RemovalOK'
  <2>1. UNCHANGED <<registry, event, missed, fcn>> /\ envSet' \in BOOLEAN
    BY DEF InitModule, pluginVars, EnvInv, RemovalOK
  <2>2. PICK step \in {"package", "getTo"} : pc' = [pc EXCEPT ![t] = step]
    BY DEF InitModule, Goto
  <2>3. pc'[Main] \in {"reset", "unregister"} <=> pc[Main] \in {"reset", "unregister"}
    BY <2>2, EnvAssumption DEF EnvAssumption, InitModule, EnvInv, ImportOK
  <2>4. pc'[Main] = "unregister" => pc[Main] = "unregister"
    BY <2>2, EnvAssumption DEF EnvAssumption, InitModule, EnvInv, ImportOK
  <2> QED
    <3>1. pc[t] = "init" /\ "listener" \notin registry /\ module' = module
      BY DEF InitModule, EnvInv, RemovalOK
    <3>2. \A u \in Threads :
            /\ pc'[u] \in {"init", "getTo", "getFrom", "listen"} => "listener" \notin registry'
            /\ pc'[u] \in {"getFrom", "listen"} => fcn'["pyobject_to_proxy"]
            /\ pc'[u] = "listen" => fcn'["proxy_to_pyobject"]
            /\ pc'[u] \in {"regTo", "regFrom"} => "listener" \in registry'
      BY <2>1, <2>2, <3>1 DEF EnvInv, ImportOK, RemovalOK
    <3>3. \A u \in Threads, h \in Helpers : ToRegister(u, h)' => ToRegister(u, h)
      BY <2>2 DEF EnvInv, ImportOK, ToRegister
    <3> QED
      BY <2>1, <2>2, <2>3, <2>4, <3>1, <3>2, <3>3 DEF EnvInv, RemovalOK, RemovalLeavesNothing
<1>5. ReadyOK'
  BY DEF InitModule, pluginVars, Goto, Helpers, EnvInv, WrapperOK, ImportOK, ReadyOK
<1> QED
  BY <1>1, <1>2, <1>3, <1>4, <1>5 DEF EnvInv

LEMMA GetHelperStep ==
  ASSUME EnvInv, Alive, NEW t \in Threads, NEW h \in Helpers, GetHelper(t, h)
  PROVE  EnvInv'
<1>1. WrapperOK'
  BY DEF GetHelper, fixedVars, startVars, Goto, EnvInv, WrapperOK, ImportOK
<1>2. ImportOK'
  <2>1. PICK step \in {"package", "getFrom", "listen"} : pc' = [pc EXCEPT ![t] = step]
    BY DEF GetHelper, Goto
  <2>2. module' = module /\ UNCHANGED <<fixedVars, startVars>>
    BY DEF GetHelper
  <2>3. module = "importing" /\ pc[t] \in Working
    BY DEF GetHelper, Working, InitSteps, EnvInv, ImportOK, Helpers
  <2> QED
    BY <2>1, <2>2, <2>3 DEF fixedVars, InitSteps, FactorySteps, Steps, Working, EnvInv, ImportOK
<1>3. ExitOK'
  BY EnvAssumption DEF GetHelper, fixedVars, startVars, pluginVars, Goto, ExitSteps,
                       RemoveSteps, EnvInv, ImportOK, ExitOK
<1>4. RemovalOK'
  <2>1. UNCHANGED <<registry, event, missed, envSet>>
    BY DEF GetHelper, pluginVars
  <2>2. PICK step \in {"package", "getFrom", "listen"} : pc' = [pc EXCEPT ![t] = step]
    BY DEF GetHelper, Goto
  <2>3. fcn' = fcn \/ (h \in registry /\ fcn' = [fcn EXCEPT ![h] = TRUE])
    BY DEF GetHelper
  <2>4. pc[t] \in {"getTo", "getFrom"} /\ pc \in [Threads -> Steps] /\ Main \in Threads
    BY EnvAssumption DEF EnvAssumption, GetHelper, EnvInv, ImportOK
  <2>5. /\ pc'[Main] \in {"reset", "unregister"} <=> pc[Main] \in {"reset", "unregister"}
        /\ pc'[Main] = "unregister" => pc[Main] = "unregister"
        /\ \A u \in Threads : pc'[u] \in {"regTo", "regFrom"} => pc[u] \in {"regTo", "regFrom"}
    BY <2>2, <2>4
  <2>6. fcn' \in [Helpers -> BOOLEAN] /\ \A g \in Helpers \ registry : fcn'[g] = fcn[g]
    BY <2>3 DEF EnvInv, RemovalOK
  <2>7. RemovalLeavesNothing'
    BY <2>1, <2>6 DEF EnvInv, RemovalOK, RemovalLeavesNothing, ToRegister
  <2> QED
    <3>1. \A u \in Threads, g \in Helpers : ToRegister(u, g)' => ToRegister(u, g)
      BY <2>2, <2>4 DEF ToRegister
    <3>2. module' = module /\ "listener" \notin registry
      BY <2>4 DEF GetHelper, EnvInv, RemovalOK
    <3>3. \A g \in Helpers : fcn[g] => fcn'[g]
      BY <2>3 DEF EnvInv, RemovalOK
    <3>4. /\ pc'[t] \in {"getFrom", "listen"} => fcn'["pyobject_to_proxy"]
          /\ pc'[t] = "listen" => fcn'["proxy_to_pyobject"]
      BY <2>4, <3>3 DEF GetHelper, Goto, Helpers, EnvInv, RemovalOK
    <3>5. \A u \in Threads \ {t} : pc'[u] = pc[u]
      BY <2>2, <2>4
    <3>6. \A u \in Threads :
            /\ pc'[u] \in {"getFrom", "listen"} => fcn'["pyobject_to_proxy"]
            /\ pc'[u] = "listen" => fcn'["proxy_to_pyobject"]
      BY <3>3, <3>4, <3>5 DEF EnvInv, RemovalOK, Helpers
    <3>7. pc'[Main] = "unregister" => ~fcn'[event]
      BY <2>5, <2>6 DEF EnvInv, RemovalOK
    <3> QED
      BY <2>1, <2>4, <2>5, <2>6, <2>7, <3>1, <3>2, <3>6, <3>7 DEF EnvInv, RemovalOK
<1>5. ReadyOK'
  BY DEF GetHelper, pluginVars, Goto, InitSteps, Helpers, Working, EnvInv, ImportOK,
         RemovalOK, ReadyOK
<1> QED
  BY <1>1, <1>2, <1>3, <1>4, <1>5 DEF EnvInv

LEMMA ListenStep ==
  ASSUME EnvInv, Alive, NEW t \in Threads, Listen(t)
  PROVE  EnvInv'
<1>1. WrapperOK'
  BY DEF Listen, fixedVars, startVars, Goto, EnvInv, WrapperOK
<1>2. ImportOK'
  BY DEF Listen, fixedVars, moduleVars, Goto, InitSteps, FactorySteps, Steps, Working,
         EnvInv, ImportOK
<1>3. ExitOK'
  BY DEF Listen, fixedVars, startVars, moduleVars, Goto, ExitSteps, RemoveSteps, Helpers,
         EnvInv, ExitOK
<1>4. RemovalOK'
  <2>1. /\ pc[t] = "listen" /\ pc' = [pc EXCEPT ![t] = "regTo"] /\ pc \in [Threads -> Steps]
        /\ registry' = registry \cup {"listener"} /\ "listener" \notin registry
        /\ UNCHANGED <<module, envSet, fcn, event, missed>> /\ module # "absent"
        /\ Main \in Threads
    BY EnvAssumption
       DEF EnvAssumption, Listen, moduleVars, Goto, Working, InitSteps, EnvInv, ImportOK, RemovalOK
  <2>2. \A h \in Helpers : fcn[h]
    BY <2>1 DEF Helpers, EnvInv, RemovalOK
  <2>3. \A h \in Helpers : h \in registry \cup missed \cup {event}
    BY <2>2 DEF EnvInv, RemovalOK, RemovalLeavesNothing
  <2>4. \A u \in Threads : pc'[u] \notin {"init", "getTo", "getFrom", "listen"}
    BY <2>1 DEF EnvInv, ImportOK, Working, InitSteps
  <2>5. pc'[Main] = "reset" => pc[Main] = "reset"
    BY <2>1
  <2>6. /\ pc'[Main] = "unregister" => pc[Main] = "unregister"
        /\ pc'[Main] \in {"reset", "unregister"} <=> pc[Main] \in {"reset", "unregister"}
    BY <2>1
  <2>7. RemovalLeavesNothing'
    BY <2>1, <2>2, <2>3 DEF RemovalLeavesNothing
  <2>8. /\ registry' \subseteq Plugins /\ "listener" \in registry'
        /\ Helpers \ registry' = Helpers \ registry
    BY <2>1 DEF Plugins, Helpers, EnvInv, RemovalOK
  <2> QED
    BY <2>1, <2>3, <2>4, <2>6, <2>7, <2>8 DEF EnvInv, RemovalOK
<1>5. ReadyOK'
  BY DEF Listen, moduleVars, Goto, InitSteps, Helpers, Working, EnvInv, ReadyOK
<1> QED
  BY <1>1, <1>2, <1>3, <1>4, <1>5 DEF EnvInv

LEMMA RegisterConverterStep ==
  ASSUME EnvInv, Alive, NEW t \in Threads, NEW h \in Helpers, Register(t, h)
  PROVE  EnvInv'
<1>1. WrapperOK'
  BY DEF Register, fixedVars, startVars, Goto, EnvInv, WrapperOK
<1>2. ImportOK'
  BY DEF Register, fixedVars, moduleVars, Goto, InitSteps, FactorySteps, Steps, Working,
         EnvInv, ImportOK
<1>3. ExitOK'
  BY DEF Register, fixedVars, startVars, moduleVars, Goto, ExitSteps, RemoveSteps, Helpers,
         ConverterOf, EnvInv, ExitOK
<1>4. RemovalOK'
  BY DEF Register, moduleVars, Goto, Helpers, ConverterOf, Plugins, RemovalLeavesNothing, ToRegister,
         EnvInv, RemovalOK
<1>5. ReadyOK'
  BY DEF Register, moduleVars, Goto, InitSteps, Helpers, ConverterOf, Working, EnvInv, ReadyOK
<1> QED
  BY <1>1, <1>2, <1>3, <1>4, <1>5 DEF EnvInv

LEMMA FinishImportStep ==
  ASSUME EnvInv, Alive, NEW t \in Threads, FinishImport(t)
  PROVE  EnvInv'
<1>1. WrapperOK'
  BY DEF FinishImport, fixedVars, startVars, Goto, EnvInv, WrapperOK, ImportOK
<1>2. ImportOK'
  <2>1. PICK step \in {"badcall", "have", "error"} : pc' = [pc EXCEPT ![t] = step]
    BY DEF FinishImport, Goto
  <2>2. pc[t] = "package" /\ module = "importing" /\ UNCHANGED <<makes, package, caller>>
    BY DEF FinishImport, fixedVars, EnvInv, ImportOK, Working
  <2>3. /\ pc' \in [Threads -> Steps] /\ makes' \in [Threads -> 0 .. MaxMakes]
    BY <2>1, <2>2 DEF EnvInv, ImportOK, Steps, Dead
  <2>4. \A u \in Threads : pc'[u] \notin Working
    BY <2>1, <2>2 DEF EnvInv, ImportOK, Working, InitSteps
  <2>5. CASE ~CanWrap
    <3>1. module' = module /\ pc'[t] = "badcall"
      BY <2>5 DEF FinishImport, Goto, EnvInv, ImportOK
    <3> QED
      BY <2>2, <2>3, <2>4, <3>1 DEF ImportOK, Alive, Dead
  <2>6. CASE CanWrap
    <3>1. module' = IF package = "complete" THEN "imported" ELSE "failed"
      BY <2>6 DEF FinishImport
    <3> QED
      BY <2>2, <2>3, <2>4, <3>1 DEF ImportOK
  <2> QED
    BY <2>5, <2>6
<1>3. ExitOK'
  BY EnvAssumption DEF FinishImport, fixedVars, startVars, pluginVars, Goto, ExitSteps,
                       RemoveSteps, Working, EnvInv, ImportOK, ExitOK
<1>4. RemovalOK'
  BY EnvAssumption DEF FinishImport, pluginVars, Goto, RemovalLeavesNothing, ToRegister, EnvInv,
                       ImportOK, RemovalOK
<1>5. ReadyOK'
  BY DEF FinishImport, pluginVars, Helpers, Plugins, Working, EnvInv, RemovalOK, ReadyOK
<1> QED
  BY <1>1, <1>2, <1>3, <1>4, <1>5 DEF EnvInv

LEMMA ConvertToStep ==
  ASSUME EnvInv, Alive, NEW t \in Threads, ConvertTo(t)
  PROVE  EnvInv'
<1>1. WrapperOK'
  BY DEF ConvertTo, fixedVars, startVars, sharedVars, Goto, EnvInv, WrapperOK
<1>2. ImportOK'
  BY DEF ConvertTo, fixedVars, startVars, moduleVars, sharedVars, Goto, InitSteps, Dead,
         Steps, Working, Found, EnvInv, ImportOK
<1>3. ExitOK'
  BY DEF ConvertTo, fixedVars, startVars, moduleVars, pluginVars, sharedVars, Goto,
         ExitSteps, RemoveSteps, EnvInv, ExitOK
<1>4. RemovalOK'
  BY DEF ConvertTo, moduleVars, pluginVars, sharedVars, Goto, RemovalLeavesNothing, ToRegister,
         EnvInv,
         RemovalOK
<1>5. ReadyOK'
  BY DEF ConvertTo, moduleVars, pluginVars, sharedVars, Goto, InitSteps, Working, EnvInv,
         ReadyOK
<1> QED
  BY <1>1, <1>2, <1>3, <1>4, <1>5 DEF EnvInv

LEMMA ConvertFromStep ==
  ASSUME EnvInv, Alive, NEW t \in Threads, ConvertFrom(t)
  PROVE  EnvInv'
<1>1. WrapperOK'
  BY DEF ConvertFrom, fixedVars, startVars, sharedVars, Goto, EnvInv, WrapperOK
<1>2. ImportOK'
  BY DEF ConvertFrom, fixedVars, moduleVars, sharedVars, Goto, InitSteps, Steps, Working,
         EnvInv, ImportOK
<1>3. ExitOK'
  BY DEF ConvertFrom, fixedVars, startVars, moduleVars, pluginVars, sharedVars, Goto,
         ExitSteps, RemoveSteps, EnvInv, ExitOK
<1>4. RemovalOK'
  BY DEF ConvertFrom, moduleVars, pluginVars, sharedVars, Goto, RemovalLeavesNothing, ToRegister,
         EnvInv,
         RemovalOK
<1>5. ReadyOK'
  BY DEF ConvertFrom, moduleVars, pluginVars, sharedVars, Helpers, ConverterOf, EnvInv, ReadyOK
<1> QED
  BY <1>1, <1>2, <1>3, <1>4, <1>5 DEF EnvInv

LEMMA CallHelperStep ==
  ASSUME EnvInv, Alive, NEW t \in Threads, NEW h \in Helpers, CallHelper(t, h)
  PROVE  EnvInv'
<1>1. WrapperOK'
  BY DEF CallHelper, fixedVars, startVars, sharedVars, Goto, EnvInv, WrapperOK
<1>2. ImportOK'
  BY DEF CallHelper, fixedVars, startVars, moduleVars, sharedVars, Goto, InitSteps, Dead,
         Steps, Working, Found, EnvInv, ImportOK
<1>3. ExitOK'
  BY DEF CallHelper, fixedVars, startVars, moduleVars, pluginVars, sharedVars, Goto,
         ExitSteps, RemoveSteps, EnvInv, ExitOK
<1>4. RemovalOK'
  BY DEF CallHelper, moduleVars, pluginVars, sharedVars, Goto, RemovalLeavesNothing, ToRegister,
         EnvInv,
         RemovalOK
<1>5. ReadyOK'
  BY DEF CallHelper, moduleVars, pluginVars, sharedVars, Goto, InitSteps, Working, EnvInv,
         ReadyOK
<1> QED
  BY <1>1, <1>2, <1>3, <1>4, <1>5 DEF EnvInv

LEMMA ScriptUseStep ==
  ASSUME EnvInv, Alive, NEW t \in Threads, ScriptUse(t)
  PROVE  EnvInv'
<1>1. WrapperOK'
  BY DEF ScriptUse, fixedVars, startVars, sharedVars, Goto, EnvInv, WrapperOK
<1>2. ImportOK'
  BY DEF ScriptUse, fixedVars, moduleVars, sharedVars, Goto, InitSteps, Dead, Steps, Working,
         EnvInv, ImportOK
<1>3. ExitOK'
  BY DEF ScriptUse, fixedVars, startVars, moduleVars, pluginVars, sharedVars, Goto,
         ExitSteps, RemoveSteps, EnvInv, ExitOK
<1>4. RemovalOK'
  BY DEF ScriptUse, moduleVars, pluginVars, sharedVars, Goto, RemovalLeavesNothing, ToRegister,
         EnvInv,
         RemovalOK
<1>5. ReadyOK'
  BY DEF ScriptUse, moduleVars, pluginVars, sharedVars, Helpers, ConverterOf, EnvInv, ReadyOK
<1> QED
  BY <1>1, <1>2, <1>3, <1>4, <1>5 DEF EnvInv

LEMMA DeinitStep ==
  ASSUME EnvInv, Alive, Deinit
  PROVE  EnvInv'
<1>1. WrapperOK'
  BY DEF Deinit, fixedVars, startVars, moduleVars, sharedVars, Goto, EnvInv, WrapperOK
<1>2. ImportOK'
  BY EnvAssumption DEF Deinit, fixedVars, startVars, moduleVars, sharedVars, Goto, InitSteps,
                       RemoveSteps, Steps, Working, Found, EnvInv, ImportOK
<1>3. ExitOK'
  BY DEF Deinit, fixedVars, startVars, moduleVars, sharedVars, Goto, ExitSteps, RemoveSteps,
         EnvInv, ExitOK
<1>4. RemovalOK'
  BY DEF Deinit, moduleVars, pluginVars, sharedVars, Goto, RemovalLeavesNothing, ToRegister, EnvInv,
         RemovalOK
<1>5. ReadyOK'
  BY DEF Deinit, moduleVars, pluginVars, sharedVars, Goto, InitSteps, Working, EnvInv, ReadyOK
<1> QED
  BY <1>1, <1>2, <1>3, <1>4, <1>5 DEF EnvInv

LEMMA RemoveHelperStep ==
  ASSUME EnvInv, Alive, NEW h \in Helpers, RemoveHelper(h)
  PROVE  EnvInv'
<1>1. WrapperOK'
  BY DEF RemoveHelper, fixedVars, startVars, moduleVars, Goto, EnvInv, WrapperOK, ImportOK
<1>2. ImportOK'
  <2>1. PICK step \in {"reset", "remove"} : pc' = [pc EXCEPT ![Main] = step]
    <3>1. pc' = [pc EXCEPT ![Main] = "reset"] \/ (pc' = pc /\ pc[Main] = "remove")
      BY DEF RemoveHelper, Goto
    <3>2. pc \in [Threads -> Steps]
      BY DEF EnvInv, ImportOK
    <3> QED
      BY <3>1, <3>2
  <2>2. pc[Main] = "remove" /\ UNCHANGED <<fixedVars, startVars, module>>
    BY DEF RemoveHelper, moduleVars
  <2> QED
    BY <2>1, <2>2, EnvAssumption
       DEF EnvAssumption, EnvInv, ImportOK, fixedVars, startVars, Steps, RemoveSteps, Working,
           InitSteps, Alive, Dead, Found
<1>3. ExitOK'
  BY DEF RemoveHelper, fixedVars, startVars, moduleVars, Goto, ExitSteps, RemoveSteps,
         EnvInv, ImportOK, ExitOK
<1>4. RemovalOK'
  <2>1. registry' = registry \ {h} /\ UNCHANGED fcn /\ UNCHANGED envSet /\ event = Nobody
    BY DEF RemoveHelper, moduleVars, EnvInv, RemovalOK
  <2>2. \A g \in Helpers : ConverterOf(g) \notin Helpers
    BY DEF Helpers, ConverterOf
  <2>3. CASE "listener" \in registry
    <3>1. /\ event' = h /\ missed' = missed /\ module' = module /\ "listener" \in registry'
          /\ pc' = [pc EXCEPT ![Main] = "reset"] /\ pc \in [Threads -> Steps] /\ Main \in Threads
      BY <2>1, <2>3, EnvAssumption
         DEF EnvAssumption, RemoveHelper, moduleVars, Goto, Helpers, EnvInv, ImportOK
    <3>2. /\ pc'[Main] = "reset"
          /\ \A u \in Threads : pc'[u] = pc[u] \/ pc'[u] = "reset"
      BY <3>1
    <3>3. \A u \in Threads, g \in Helpers : ToRegister(u, g)' => ToRegister(u, g)
      BY <3>2 DEF ToRegister
    <3>4. \A u \in Threads, g \in Helpers : ToRegister(u, g)' => g \in registry' \cup missed' \cup {event'}
      BY <2>1, <3>1, <3>3, EnvAssumption DEF EnvAssumption, EnvInv, RemovalOK
    <3>5. RemovalLeavesNothing'
      BY <2>1, <2>2, <3>1, EnvAssumption
         DEF EnvAssumption, EnvInv, RemovalOK, RemovalLeavesNothing
    <3>6. \A u \in Threads : pc'[u] \notin {"init", "getTo", "getFrom", "listen"}
      BY <2>3, <3>2 DEF EnvInv, RemovalOK
    <3> QED
      BY <2>1, <2>3, <3>1, <3>2, <3>4, <3>5, <3>6 DEF EnvInv, RemovalOK
  <2>4. CASE "listener" \notin registry
    BY <2>1, <2>2, <2>4, EnvAssumption DEF EnvAssumption, RemoveHelper, Goto, EnvInv,
        RemovalOK, RemovalLeavesNothing, ToRegister
  <2> QED
    BY <2>3, <2>4
<1>5. ReadyOK'
  BY DEF RemoveHelper, ReadyOK
<1> QED
  BY <1>1, <1>2, <1>3, <1>4, <1>5 DEF EnvInv

LEMMA HandleResetStep ==
  ASSUME EnvInv, Alive, HandleReset
  PROVE  EnvInv'
<1>1. WrapperOK'
  BY DEF HandleReset, fixedVars, startVars, Goto, EnvInv, WrapperOK
<1>2. ImportOK'
  BY EnvAssumption DEF HandleReset, fixedVars, startVars, Goto, InitSteps, RemoveSteps,
                       Steps, Working, Found, EnvInv, ImportOK
<1>3. ExitOK'
  BY DEF HandleReset, fixedVars, startVars, Goto, ExitSteps, RemoveSteps, EnvInv, ExitOK
<1>4. RemovalOK'
  <2>1. /\ event \in Helpers \ registry /\ "listener" \in registry
        /\ fcn \in [Helpers -> BOOLEAN] /\ pc \in [Threads -> Steps] /\ Main \in Threads
    BY EnvAssumption DEF EnvAssumption, HandleReset, EnvInv, ImportOK, RemovalOK
  <2>2. /\ envSet' = FALSE /\ fcn' = [fcn EXCEPT ![event] = FALSE]
        /\ module' = module /\ UNCHANGED <<registry, missed, event>>
        /\ pc' = [pc EXCEPT ![Main] = "unregister"]
    BY DEF HandleReset, Goto, pluginVars
  <2>3. pc'[Main] = "unregister" /\ \A u \in Threads : u # Main => pc'[u] = pc[u]
    BY <2>1, <2>2
  <2>4. /\ fcn' \in [Helpers -> BOOLEAN] /\ ~fcn'[event]
        /\ \A h \in Helpers : h # event => fcn'[h] = fcn[h]
    BY <2>1, <2>2
  <2>5. \A u \in Threads : pc'[u] \notin {"init", "getTo", "getFrom", "listen"}
    BY <2>1, <2>3 DEF EnvInv, RemovalOK
  <2>6. \A u \in Threads, h \in Helpers : ToRegister(u, h)' => ToRegister(u, h)
    BY <2>3 DEF ToRegister
  <2>7. \A u \in Threads, h \in Helpers :
          ToRegister(u, h)' => h \in registry' \cup missed' \cup {event'}
    BY <2>2, <2>6 DEF EnvInv, RemovalOK
  <2>8. RemovalLeavesNothing'
    BY <2>2, <2>4 DEF EnvInv, RemovalOK, RemovalLeavesNothing
  <2> QED
    BY <2>1, <2>2, <2>3, <2>4, <2>5, <2>7, <2>8 DEF EnvInv, RemovalOK
<1>5. ReadyOK'
  BY DEF HandleReset, pluginVars, EnvInv, RemovalOK, ReadyOK
<1> QED
  BY <1>1, <1>2, <1>3, <1>4, <1>5 DEF EnvInv

LEMMA HandleUnregisterStep ==
  ASSUME EnvInv, Alive, HandleUnregister
  PROVE  EnvInv'
<1>1. WrapperOK'
  BY DEF HandleUnregister, fixedVars, startVars, moduleVars, Goto, EnvInv, WrapperOK
<1>2. ImportOK'
  BY EnvAssumption DEF HandleUnregister, fixedVars, startVars, moduleVars, Goto, InitSteps,
                       RemoveSteps, Steps, Working, Found, EnvInv, ImportOK
<1>3. ExitOK'
  BY DEF HandleUnregister, fixedVars, startVars, moduleVars, Goto, ExitSteps, RemoveSteps,
         EnvInv, ExitOK
<1>4. RemovalOK'
  BY EnvAssumption DEF HandleUnregister, moduleVars, Goto, Helpers, ConverterOf,
                       RemovalLeavesNothing, ToRegister, EnvInv, ImportOK, RemovalOK
<1>5. ReadyOK'
  BY DEF HandleUnregister, EnvInv, RemovalOK, ReadyOK
<1> QED
  BY <1>1, <1>2, <1>3, <1>4, <1>5 DEF EnvInv

LEMMA EndDeinitStep ==
  ASSUME EnvInv, Alive, EndDeinit
  PROVE  EnvInv'
<1>1. WrapperOK'
  BY EnvAssumption DEF EndDeinit, fixedVars, Goto, EndOfPython, EnvInv, WrapperOK
<1>2. ImportOK'
  BY EnvAssumption DEF EndDeinit, fixedVars, moduleVars, Goto, InitSteps, ExitSteps, Steps,
                       Working, Found, EnvInv, WrapperOK, ImportOK
<1>3. ExitOK'
  BY DEF EndDeinit, fixedVars, moduleVars, pluginVars, Goto, FactorySteps, ExitSteps,
         Working, CanEnd, EndOfPython, EnvInv, WrapperOK, ImportOK, ExitOK
<1>4. RemovalOK'
  BY DEF EndDeinit, moduleVars, pluginVars, Goto, RemovalLeavesNothing, ToRegister,
         EnvInv, RemovalOK
<1>5. ReadyOK'
  BY DEF EndDeinit, pluginVars, Helpers, ReadyOK
<1> QED
  BY <1>1, <1>2, <1>3, <1>4, <1>5 DEF EnvInv

LEMMA ExitStep ==
  ASSUME EnvInv, Alive, Exit
  PROVE  EnvInv'
<1>1. WrapperOK'
  BY EnvAssumption DEF Exit, fixedVars, Goto, EndOfPython, EnvInv, WrapperOK
<1>2. ImportOK'
  BY EnvAssumption DEF Exit, fixedVars, moduleVars, Goto, InitSteps, ExitSteps, Steps,
                       Working, Found, EnvInv, WrapperOK, ImportOK
<1>3. ExitOK'
  BY DEF Exit, fixedVars, moduleVars, pluginVars, Goto, FactorySteps, ExitSteps, RemoveSteps,
         Working, CanEnd, EndOfPython, EnvInv, WrapperOK, ImportOK, ExitOK
<1>4. RemovalOK'
  BY DEF Exit, moduleVars, pluginVars, Goto, RemovalLeavesNothing, ToRegister, EnvInv, RemovalOK
<1>5. ReadyOK'
  BY DEF Exit, moduleVars, pluginVars, Goto, InitSteps, Working, EnvInv, ReadyOK
<1> QED
  BY <1>1, <1>2, <1>3, <1>4, <1>5 DEF EnvInv

LEMMA RunAtExitStep ==
  ASSUME EnvInv, Alive, RunAtExit
  PROVE  EnvInv'
<1>1. WrapperOK'
  BY DEF RunAtExit, fixedVars, startVars, moduleVars, Goto, EnvInv, WrapperOK, ImportOK
<1>2. ImportOK'
  BY DEF RunAtExit, fixedVars, moduleVars, Goto, InitSteps, ExitSteps, RemoveSteps, Steps,
         Working, EnvInv, ImportOK, ExitOK
<1>3. ExitOK'
  <2>1. pc[Main] = "exit" /\ Main \in Threads /\ UNCHANGED <<caller, interp, module, package, registry>>
    BY EnvAssumption DEF RunAtExit, fixedVars, startVars, moduleVars, pluginVars
  <2>2. module # "importing" /\ \A u \in Threads : pc[u] # "init" /\ pc'[u] # "init"
    BY DEF RunAtExit, Goto, InitSteps, ExitSteps, Working, EnvInv, ImportOK, ExitOK
  <2>3. CASE atExit = <<>>
    <3>1. pc' = [pc EXCEPT ![Main] = "ended"] /\ atExit' = atExit
      BY <2>3 DEF RunAtExit, Goto
    <3> QED
      BY <2>1, <2>2, <3>1 DEF EnvInv, ImportOK, ExitOK, ExitSteps, RemoveSteps
  <2>4. CASE atExit = <<"finalise">>
    <3>1. pc' = [pc EXCEPT ![Main] = "finalise"] /\ atExit' = <<>>
      BY <2>4, ExitLists, ExitListsDiffer DEF RunAtExit, Goto
    <3>2. caller = "cpp" /\ (module # "absent" => Helpers \cap registry = {})
      BY <2>1, <2>2, <2>4, ExitListsDiffer DEF EnvInv, ExitOK, RemoveSteps, WrapperOK
    <3> QED
      BY <2>1, <2>2, <3>1, <3>2 DEF EnvInv, ImportOK, ExitOK, ExitSteps, RemoveSteps
  <2>5. CASE atExit \in {<<"deinit">>, <<"finalise", "deinit">>}
    <3>1. pc' = [pc EXCEPT ![Main] = "remove"] /\ atExit' \in {<<>>, <<"finalise">>}
      BY <2>5, ExitLists, ExitListsDiffer DEF RunAtExit, Goto
    <3>2. caller = "python" => atExit' = <<>>
      BY <2>5, ExitLists, ExitListsDiffer DEF RunAtExit, EnvInv, ExitOK
    <3>3. ~ (caller = "cpp" /\ interp = "finalised")
      BY <2>5, ExitListsDiffer DEF EnvInv, ExitOK
    <3> QED
      BY <2>1, <2>2, <3>1, <3>2, <3>3 DEF EnvInv, ImportOK, ExitOK, ExitSteps, RemoveSteps
  <2> QED
    BY <2>3, <2>4, <2>5 DEF EnvInv, ExitOK
<1>4. RemovalOK'
  BY DEF RunAtExit, fixedVars, moduleVars, pluginVars, Goto, RemovalLeavesNothing, ToRegister,
         EnvInv,
         ImportOK, RemovalOK
<1>5. ReadyOK'
  BY DEF RunAtExit, moduleVars, pluginVars, Goto, InitSteps, Working, EnvInv, ImportOK, ReadyOK
<1> QED
  BY <1>1, <1>2, <1>3, <1>4, <1>5 DEF EnvInv

LEMMA FinaliseStep ==
  ASSUME EnvInv, Alive, Finalise
  PROVE  EnvInv'
<1>1. WrapperOK'
  BY DEF Finalise, fixedVars, Goto, PyReady, EnvInv, WrapperOK
<1>2. ImportOK'
  BY EnvAssumption DEF Finalise, fixedVars, moduleVars, Goto, InitSteps, ExitSteps, Steps,
                       Working, EnvInv, ImportOK, ExitOK
<1>3. ExitOK'
  BY DEF Finalise, fixedVars, moduleVars, pluginVars, Goto, ExitSteps, EnvInv, ExitOK
<1>4. RemovalOK'
  BY DEF Finalise, moduleVars, pluginVars, Goto, RemovalLeavesNothing, ToRegister, EnvInv, RemovalOK
<1>5. ReadyOK'
  BY DEF Finalise, moduleVars, pluginVars, Goto, InitSteps, Working, EnvInv, ReadyOK
<1> QED
  BY <1>1, <1>2, <1>3, <1>4, <1>5 DEF EnvInv

-----------------------------------------------------------------------------
(* The factory of a block adds a directory and imports the module of the     *)
(* block, with the environment that it got.                                  *)

LEMMA AddPathEnv ==
  ASSUME EnvInv, JobOK, NEW t \in Threads, AddPath(t)
  PROVE  EnvInv'
<1>1. /\ interp = "up" /\ Head(job[t].left) \in Dirs
      /\ sysPath' = Append(sysPath, Head(job[t].left))
  BY DEF AddPath, InFactory, PyReady, JobOK
<1>2. sysPath' \in Seq(Dirs) /\ ToSet(sysPath) \subseteq ToSet(sysPath')
  BY <1>1, AppendedSet DEF EnvInv, WrapperOK
<1>3. UNCHANGED <<fixedVars, interp, wrapper, moduleVars, pluginVars, atExit, pc>>
  BY DEF AddPath
<1>4. WrapperOK'
  BY <1>1, <1>2, <1>3 DEF EnvInv, WrapperOK, fixedVars, moduleVars
<1>5. ImportOK'
  BY <1>2, <1>3 DEF EnvInv, ImportOK, fixedVars, moduleVars, Found, Alive
<1>6. ExitOK' /\ RemovalOK' /\ ReadyOK'
  BY <1>3 DEF EnvInv, ExitOK, RemovalOK, RemovalLeavesNothing, ToRegister, ReadyOK,
              fixedVars, moduleVars, pluginVars
<1> QED
  BY <1>4, <1>5, <1>6 DEF EnvInv

LEMMA FindModuleEnv ==
  ASSUME EnvInv, JobOK, NEW t \in Threads, FindModule(t)
  PROVE  EnvInv'
<1>1. /\ Alive /\ interp = "up" /\ pc[t] = "have" /\ pc' = [pc EXCEPT ![t] = "import"]
      /\ UNCHANGED sharedVars
  BY DEF FindModule, InFactory, PyReady, Goto
<1>2. /\ pc \in [Threads -> Steps] /\ pc' \in [Threads -> Steps]
      /\ \A u \in Threads : u = t \/ pc'[u] = pc[u]
      /\ pc'[t] = "import"
  BY <1>1 DEF EnvInv, ImportOK, Steps, FactorySteps
<1> USE DEF sharedVars, fixedVars, startVars, moduleVars, pluginVars
<1>3. WrapperOK'
  BY <1>1, <1>2 DEF EnvInv, WrapperOK
<1>4. ImportOK'
  BY <1>1, <1>2 DEF EnvInv, ImportOK, Working, InitSteps, Found
<1>5. ExitOK'
  BY <1>1, <1>2, EnvAssumption DEF EnvAssumption, EnvInv, ExitOK, ExitSteps, RemoveSteps
<1>6. RemovalOK'
  BY <1>1, <1>2, EnvAssumption DEF EnvAssumption, EnvInv, RemovalOK, RemovalLeavesNothing, ToRegister
<1>7. ReadyOK'
  BY <1>1, <1>2 DEF EnvInv, ReadyOK, Working, InitSteps
<1> QED
  BY <1>3, <1>4, <1>5, <1>6, <1>7 DEF EnvInv

LEMMA EnvUnchanged ==
  ASSUME EnvInv, UNCHANGED envVars
  PROVE  EnvInv'
BY DEF EnvInv, WrapperOK, ImportOK, ExitOK, RemovalOK, ReadyOK, RemovalLeavesNothing, ToRegister,
         Found,
       Alive, envVars, sharedVars, fixedVars, startVars, moduleVars, pluginVars

LEMMA EnvStep ==
  ASSUME EnvInv, JobOK, Next
  PROVE  EnvInv'
<1>1. Alive
  BY DEF Next
<1>2. CASE LoadStep
  <2>1. UNCHANGED envVars
    BY <1>2 DEF LoadStep, StartLoad, Unload, RegisterEntry, EndLoad
  <2> QED
    BY <2>1, EnvUnchanged
<1>3. CASE OtherStep
  <2>1. CASE EndStep
    <3>1. CASE \E h \in Helpers : RemoveHelper(h)
      BY <1>1, <3>1, RemoveHelperStep
    <3> QED
      BY <1>1, <2>1, <3>1, DeinitStep, HandleResetStep, HandleUnregisterStep, EndDeinitStep,
         ExitStep, RunAtExitStep, FinaliseStep DEF EndStep
  <2>2. ASSUME NEW t \in Threads, MakeEnv(t) \/ UseStep(t)
        PROVE  EnvInv'
    <3>1. CASE \E h \in Helpers : CallHelper(t, h)
      BY <1>1, <3>1, CallHelperStep
    <3> QED
      BY <1>1, <2>2, <3>1, MakeEnvStep, ConvertToStep, ConvertFromStep, ScriptUseStep DEF UseStep
  <2> QED
    BY <1>3, <2>1, <2>2 DEF OtherStep
<1>4. ASSUME NEW t \in Threads, JobStep(t)
      PROVE  EnvInv'
  <2>1. CASE IndexPath(t) \/ MakeBlock(t)
    BY <2>1, EnvUnchanged DEF IndexPath, MakeBlock
  <2>2. CASE \E f \in Files : CallFactory(t, f)
    BY <1>1, <2>2, MakeEnvStep DEF CallFactory
  <2> QED
    BY <1>4, <2>1, <2>2, AddPathEnv, FindModuleEnv DEF JobStep
<1>5. ASSUME NEW t \in Threads, CalleeStep(t)
      PROVE  EnvInv'
  <2>1. CASE \E h \in Helpers : GetHelper(t, h) \/ Register(t, h)
    BY <1>1, <2>1, GetHelperStep, RegisterConverterStep
  <2> QED
    BY <1>1, <1>5, <2>1, EnterWrapperStep, LeaveWrapperStep, AppendPathStep, BeginImportStep,
       InitModuleStep, ListenStep, FinishImportStep DEF CalleeStep, FactoryStep
<1> QED
  BY <1>2, <1>3, <1>4, <1>5 DEF Next

-----------------------------------------------------------------------------
(* The steps of a thread, as far as the paths are concerned.                 *)

LEMMA EndStepMoves ==
  ASSUME EnvInv, EndStep
  PROVE  /\ sysPath' = sysPath
         /\ \/ pc' = pc
            \/ \E step \in RemoveSteps \cup ExitSteps : pc' = [pc EXCEPT ![Main] = step]
<1>1. ASSUME NEW h \in Helpers, RemoveHelper(h)
      PROVE  sysPath' = sysPath /\ (pc' = pc \/ pc' = [pc EXCEPT ![Main] = "reset"])
  BY <1>1 DEF RemoveHelper, Goto, startVars
<1> QED
  BY <1>1 DEF EndStep, Deinit, HandleReset, HandleUnregister, EndDeinit, Exit, RunAtExit, Finalise,
              Goto, sharedVars, startVars, RemoveSteps, ExitSteps

LEMMA UseStepMoves ==
  ASSUME EnvInv, NEW t \in Threads, UseStep(t)
  PROVE  /\ sysPath' = sysPath
         /\ \E step \in Dead \cup {"have", "toCall", "fromCall"} : pc' = [pc EXCEPT ![t] = step]
BY DEF UseStep, ConvertTo, ConvertFrom, ScriptUse, CallHelper, Goto, sharedVars, startVars, Dead

LEMMA FactoryStepMoves ==
  ASSUME EnvInv, NEW t \in Threads, FactoryStep(t)
  PROVE  /\ pc[t] \in FactorySteps
         /\ \/ AppendPath(t)
            \/ /\ sysPath' = sysPath
               /\ \/ /\ pc[t] \in {"wrap", "start", "path"}
                     /\ \E step \in {"start", "path"} : pc' = [pc EXCEPT ![t] = step]
                  \/ \E step \in InitSteps \cup {"package", "badcall", "have", "error"} :
                       pc' = [pc EXCEPT ![t] = step]
<1> USE DEF FactorySteps, InitSteps, Goto, startVars
<1>1. CASE EnterWrapper(t) \/ LeaveWrapper(t)
  BY <1>1 DEF EnterWrapper, LeaveWrapper
<1>2. CASE AppendPath(t)
  BY <1>2 DEF AppendPath
<1>3. CASE BeginImport(t) \/ FinishImport(t)
  BY <1>3 DEF BeginImport, FinishImport
<1>4. CASE InitModule(t) \/ Listen(t)
  BY <1>4 DEF InitModule, Listen
<1>5. ASSUME NEW h \in Helpers, GetHelper(t, h) \/ Register(t, h)
      PROVE  /\ pc[t] \in FactorySteps /\ sysPath' = sysPath
             /\ \E step \in InitSteps \cup {"package"} : pc' = [pc EXCEPT ![t] = step]
  BY <1>5 DEF GetHelper, Register
<1> QED
  BY <1>1, <1>2, <1>3, <1>4, <1>5 DEF FactoryStep

LEMMA MakeEnvMoves ==
  ASSUME EnvInv, NEW t \in Threads, MakeEnv(t)
  PROVE  /\ sysPath' = sysPath
         /\ pc[t] \in {"idle", "error", "have"}
         /\ \/ sysPath = <<>> /\ pc' = [pc EXCEPT ![t] = "wrap"]
            \/ pc' = [pc EXCEPT ![t] = "have"]
BY DEF MakeEnv, Goto, startVars, EnvInv, WrapperOK

-----------------------------------------------------------------------------
LEMMA JobInit == Init => JobOK
<1> SUFFICES ASSUME Init PROVE JobOK
  OBVIOUS
<1>1. <<>> \in Seq(Dirs)
  OBVIOUS
<1> QED
  BY <1>1, LoaderAssumption DEF LoaderAssumption, Init, JobOK, NoJob

LEMMA JobOf ==
  ASSUME JobOK, NEW t \in Threads
  PROVE  /\ job[t].file \in Files \cup {Nobody} /\ job[t].left \in Seq(Dirs)
         /\ job[t].at \in {"look", "add", "call"}
         /\ job[t] = NoJob => job[t].at = "look"
BY DEF JobOK, NoJob

(* A thread that is not in a block's factory, or is below it, is not about   *)
(* to add a path.                                                            *)
LEMMA JobMove ==
  ASSUME JobOK, NEW t \in Threads, NEW step, pc \in [Threads -> Steps],
         pc' = pc \/ pc' = [pc EXCEPT ![t] = step],
         pc[t] # "have" \/ job[t] = NoJob,
         job' = job \/ job' = [job EXCEPT ![t] = NoJob],
         UNCHANGED loads
  PROVE  JobOK'
<1>1. NoJob \in [file : Files \cup {Nobody}, left : Seq(Dirs), at : {"look", "add", "call"}]
  BY DEF NoJob
<1>2. job' \in [Threads -> [file : Files \cup {Nobody}, left : Seq(Dirs), at : {"look", "add", "call"}]]
  BY <1>1 DEF JobOK
<1>3. ASSUME NEW u \in Threads
      PROVE  /\ job'[u].at = "add" => job'[u].left # <<>> /\ pc'[u] = "have"
             /\ job'[u].file = Nobody => job'[u] = NoJob
  <2>1. CASE u = t
    BY <2>1 DEF JobOK, NoJob
  <2>2. CASE u # t
    BY <2>2 DEF JobOK
  <2> QED
    BY <2>1, <2>2
<1> QED
  BY <1>2, <1>3 DEF JobOK

LEMMA JobCalls ==
  ASSUME EnvInv, JobOK, NEW t \in Threads, JobStep(t)
  PROVE  JobOK'
<1> DEFINE Jobs == [file : Files \cup {Nobody}, left : Seq(Dirs), at : {"look", "add", "call"}]
<1>0. pc \in [Threads -> Steps] /\ "have" \in Steps
  BY DEF EnvInv, ImportOK, Steps
<1>1. ASSUME NEW j \in Jobs, job' = [job EXCEPT ![t] = j], j.file = Nobody => j = NoJob,
             j.at = "add" => j.left # <<>> /\ pc'[t] = "have",
             \A u \in Threads : u = t \/ pc'[u] = pc[u],
             UNCHANGED loads
      PROVE  JobOK'
  <2>1. job' \in [Threads -> Jobs]
    BY <1>1 DEF JobOK
  <2>2. ASSUME NEW u \in Threads
        PROVE  /\ job'[u].at = "add" => job'[u].left # <<>> /\ pc'[u] = "have"
               /\ job'[u].file = Nobody => job'[u] = NoJob
    BY <1>1, <2>2 DEF JobOK
  <2>3. loads' \in 0 .. MaxLoads
    BY <1>1 DEF JobOK
  <2> QED
    BY <2>1, <2>2, <2>3 DEF JobOK
<1>2. /\ job \in [Threads -> Jobs] /\ job[t].file \in Files \cup {Nobody} /\ job[t].left \in Seq(Dirs)
      /\ job[t].file = Nobody => job[t] = NoJob
  BY DEF JobOK
<1>3. CASE IndexPath(t)
  <2>1. job[t].left # <<>> /\ job[t] # NoJob /\ pc[t] = "have" /\ pc' = pc /\ UNCHANGED loads
    BY <1>3 DEF IndexPath, InFactory, envVars, loaderVars
  <2>2. CASE Head(job[t].left) \in ToSet(sysPath)
    <3> DEFINE j == [job[t] EXCEPT !.left = Tail(@)]
    <3>1. job' = [job EXCEPT ![t] = j]
      BY <1>3, <2>2 DEF IndexPath
    <3>2. Tail(job[t].left) \in Seq(Dirs) /\ job[t].at = "look" /\ job[t] \in Jobs
      BY <1>2, <1>3, <2>1 DEF IndexPath, InFactory
    <3>3. j \in Jobs /\ j.file = job[t].file /\ j.at = "look"
      BY <3>2
    <3> HIDE DEF j, Jobs
    <3> QED
      BY <1>1, <1>2, <2>1, <3>1, <3>3
  <2>3. CASE Head(job[t].left) \notin ToSet(sysPath)
    <3> DEFINE j == [job[t] EXCEPT !.at = "add"]
    <3>1. job' = [job EXCEPT ![t] = j]
      BY <1>3, <2>3 DEF IndexPath
    <3>2. j \in Jobs /\ j.file = job[t].file /\ j.left = job[t].left
      BY <1>2
    <3> HIDE DEF j, Jobs
    <3> QED
      BY <1>1, <1>2, <2>1, <3>1, <3>2
  <2> QED
    BY <2>2, <2>3
<1>4. CASE AddPath(t)
  <2>1. /\ job[t].left # <<>> /\ job[t] # NoJob /\ pc' = pc /\ UNCHANGED loads
    BY <1>4 DEF AddPath, InFactory, loaderVars, JobOK
  <2> DEFINE j == [job[t] EXCEPT !.left = Tail(@), !.at = "look"]
  <2>2. job' = [job EXCEPT ![t] = j]
    BY <1>4 DEF AddPath
  <2>3. Tail(job[t].left) \in Seq(Dirs) /\ job[t] \in Jobs
    BY <1>2, <2>1
  <2>4. j \in Jobs /\ j.file = job[t].file /\ j.at = "look"
    BY <2>3
  <2> HIDE DEF j, Jobs
  <2> QED
    BY <1>1, <1>2, <2>1, <2>2, <2>4
<1>5. CASE FindModule(t)
  <2>1. /\ job[t] # NoJob /\ pc' = [pc EXCEPT ![t] = "import"] /\ UNCHANGED loads
    BY <1>5 DEF FindModule, InFactory, loaderVars, Goto
  <2> DEFINE j == [job[t] EXCEPT !.at = "call"]
  <2>2. job' = [job EXCEPT ![t] = j]
    BY <1>5 DEF FindModule
  <2>3. j \in Jobs /\ j.file = job[t].file /\ j.at = "call"
    BY <1>2, <2>1
  <2>4. \A u \in Threads : u = t \/ pc'[u] = pc[u]
    BY <1>0, <2>1
  <2> HIDE DEF j, Jobs
  <2> QED
    BY <1>1, <1>2, <2>1, <2>2, <2>3, <2>4
<1>6. CASE MakeBlock(t)
  <2>1. NoJob \in Jobs /\ NoJob.at = "look"
    BY DEF NoJob
  <2>2. job' = [job EXCEPT ![t] = NoJob] /\ pc' = pc /\ UNCHANGED loads
    BY <1>6 DEF MakeBlock, envVars, loaderVars
  <2> HIDE DEF Jobs
  <2> QED
    BY <1>1, <2>1, <2>2
<1>7. ASSUME NEW f \in Files, CallFactory(t, f)
      PROVE  JobOK'
  <2> DEFINE j == [file |-> f, left |-> ModulePaths(f), at |-> "look"]
  <2>1. job' = [job EXCEPT ![t] = j] /\ UNCHANGED loads
    BY <1>7 DEF CallFactory, loaderVars
  <2>2. j \in Jobs /\ j.file # Nobody /\ j.at = "look"
    BY LoaderAssumption DEF LoaderAssumption
  <2>3. \A u \in Threads : u = t \/ pc'[u] = pc[u]
    BY <1>0, <1>7, MakeEnvMoves DEF CallFactory
  <2> HIDE DEF j, Jobs
  <2> QED
    BY <1>1, <2>1, <2>2, <2>3
<1> QED
  BY <1>3, <1>4, <1>5, <1>6, <1>7 DEF JobStep

LEMMA JobStepOK ==
  ASSUME EnvInv, JobOK, Next
  PROVE  JobOK'
<1>0. pc \in [Threads -> Steps] /\ Main \in Threads
  BY EnvAssumption DEF EnvAssumption, EnvInv, ImportOK
<1>1. CASE LoadStep
  <2>1. UNCHANGED <<pc, job>>
    BY <1>1 DEF LoadStep, StartLoad, Unload, RegisterEntry, EndLoad, envVars
  <2>2. loads' \in 0 .. MaxLoads
    BY <1>1, LoaderAssumption
       DEF LoaderAssumption, LoadStep, StartLoad, Unload, RegisterEntry, EndLoad, JobOK
  <2> QED
    BY <2>1, <2>2 DEF JobOK
<1>2. CASE OtherStep
  <2>1. UNCHANGED <<job, loads>>
    BY <1>2 DEF OtherStep, loaderVars
  <2>2. CASE ~Busy(Main) /\ EndStep
    BY <1>0, <2>1, <2>2, EndStepMoves, JobMove DEF Busy
  <2>3. ASSUME NEW t \in Threads, ~Busy(t), MakeEnv(t) \/ UseStep(t)
        PROVE  JobOK'
    BY <1>0, <2>1, <2>3, MakeEnvMoves, UseStepMoves, JobMove DEF Busy
  <2> QED
    BY <1>2, <2>2, <2>3 DEF OtherStep
<1>3. ASSUME NEW t \in Threads, CalleeStep(t)
      PROVE  JobOK'
  <2>1. pc[t] # "have" /\ \E step : pc' = [pc EXCEPT ![t] = step]
    BY <1>3, FactoryStepMoves DEF CalleeStep, FactorySteps, InitSteps, AppendPath, Goto
  <2>2. (job' = job \/ job' = [job EXCEPT ![t] = NoJob]) /\ UNCHANGED loads
    BY <1>3 DEF CalleeStep, loaderVars
  <2> QED
    BY <1>0, <2>1, <2>2, JobMove
<1> QED
  BY <1>1, <1>2, <1>3, JobCalls DEF Next

-----------------------------------------------------------------------------
(* How often a directory is in sys.path.                                     *)

LEMMA CountType ==
  ASSUME NEW S, NEW s \in Seq(S), NEW d
  PROVE  /\ IsFiniteSet({j \in 1 .. Len(s) : s[j] = d}) /\ Count(s, d) \in Nat
         /\ d \notin ToSet(s) => Count(s, d) = 0
<1>1. Len(s) \in Nat
  OBVIOUS
<1>2. IsFiniteSet(1 .. Len(s))
  BY <1>1, FS_Interval
<1>3. IsFiniteSet({j \in 1 .. Len(s) : s[j] = d})
  BY <1>2, FS_Subset
<1>4. ASSUME d \notin ToSet(s) PROVE {j \in 1 .. Len(s) : s[j] = d} = {}
  BY <1>4 DEF ToSet
<1> QED
  BY <1>3, <1>4, FS_CardinalityType, FS_EmptySet DEF Count

LEMMA CountAppend ==
  ASSUME NEW S, NEW s \in Seq(S), NEW x \in S, NEW d
  PROVE  Count(Append(s, x), d) = Count(s, d) + (IF x = d THEN 1 ELSE 0)
<1> DEFINE old == {j \in 1 .. Len(s) : s[j] = d}
           new == {j \in 1 .. Len(Append(s, x)) : Append(s, x)[j] = d}
<1>1. /\ Len(s) \in Nat /\ Len(Append(s, x)) = Len(s) + 1
      /\ \A i \in 1 .. Len(s) : Append(s, x)[i] = s[i]
      /\ Append(s, x)[Len(s) + 1] = x
      /\ 1 .. Len(s) + 1 = 1 .. Len(s) \cup {Len(s) + 1} /\ Len(s) + 1 \notin 1 .. Len(s)
  OBVIOUS
<1>2. IsFiniteSet(old) /\ Cardinality(old) \in Nat /\ Len(s) + 1 \notin old
  BY <1>1, CountType DEF Count
<1>5. /\ Count(s, d) = Cardinality(old) /\ Count(Append(s, x), d) = Cardinality(new)
  BY DEF Count
<1>3. CASE x = d
  <2>1. new = old \cup {Len(s) + 1}
    BY <1>1, <1>3
  <2> HIDE DEF old, new
  <2>2. Cardinality(new) = Cardinality(old) + 1
    BY <1>2, <2>1, FS_AddElement
  <2> QED
    BY <1>3, <1>5, <2>2
<1>4. CASE x # d
  <2>1. new = old
    BY <1>1, <1>4
  <2> HIDE DEF old, new
  <2> QED
    BY <1>2, <1>4, <1>5, <2>1
<1> QED
  BY <1>3, <1>4

LEMMA AddingType ==
  ASSUME NEW d
  PROVE  /\ Adding(d) \subseteq Threads /\ IsFiniteSet(Adding(d))
         /\ Cardinality(Threads) \in Nat /\ Cardinality(Adding(d)) \in Nat
         /\ Cardinality(Adding(d)) <= Cardinality(Threads)
BY EnvAssumption, FS_Subset, FS_CardinalityType DEF EnvAssumption, Adding

LEMMA AddingType1 ==
  ASSUME NEW d
  PROVE  /\ Adding(d)' \subseteq Threads /\ IsFiniteSet(Adding(d)')
         /\ Cardinality(Adding(d)') \in Nat
         /\ Cardinality(Adding(d)') <= Cardinality(Threads)
BY EnvAssumption, FS_Subset, FS_CardinalityType DEF EnvAssumption, Adding

LEMMA SumBound ==
  ASSUME NEW a \in Nat, NEW b \in Nat, NEW c \in Nat, NEW n \in Nat, a + b <= n
  PROVE  /\ c <= b => a + c <= n
         /\ c <= b - 1 => (a + 1) + c <= n
         /\ a = 0 /\ c <= n => a + c <= n
OBVIOUS

(* A step that adds nothing: a thread is about to add only what it was, or   *)
(* what is not there.                                                        *)
LEMMA PathKept ==
  ASSUME EnvInv, PathOK, sysPath' = sysPath,
         \A d \in Dirs : Adding(d)' \subseteq Adding(d) \/ d \notin ToSet(sysPath)
  PROVE  PathOK'
<1> SUFFICES ASSUME NEW d \in Dirs
             PROVE  Count(sysPath', d) + Cardinality(Adding(d)') <= Cardinality(Threads)
  BY DEF PathOK
<1>1. /\ Count(sysPath, d) + Cardinality(Adding(d)) <= Cardinality(Threads)
      /\ Count(sysPath, d) \in Nat
      /\ d \notin ToSet(sysPath) => Count(sysPath, d) = 0
  BY CountType DEF PathOK, EnvInv, WrapperOK
<1>2. CASE Adding(d)' \subseteq Adding(d)
  <2>1. Cardinality(Adding(d)') <= Cardinality(Adding(d))
    BY <1>2, AddingType, FS_Subset
  <2> QED
    BY <1>1, <2>1, AddingType, AddingType1, SumBound
<1>3. CASE d \notin ToSet(sysPath)
  BY <1>1, <1>3, AddingType, AddingType1, SumBound
<1> QED
  BY <1>2, <1>3

(* The step of a thread that adds the path it was about to.                  *)
LEMMA PathAdded ==
  ASSUME EnvInv, PathOK, NEW t \in Threads, NEW x \in Dirs,
         sysPath' = Append(sysPath, x), t \in Adding(x), t \notin Adding(x)',
         \A d \in Dirs : Adding(d)' \subseteq Adding(d)
  PROVE  PathOK'
<1> SUFFICES ASSUME NEW d \in Dirs
             PROVE  Count(sysPath', d) + Cardinality(Adding(d)') <= Cardinality(Threads)
  BY DEF PathOK
<1>1. /\ Count(sysPath, d) + Cardinality(Adding(d)) <= Cardinality(Threads)
      /\ Count(sysPath, d) \in Nat
      /\ Count(sysPath', d) = Count(sysPath, d) + (IF x = d THEN 1 ELSE 0)
  <2>1. sysPath \in Seq(Dirs)
    BY DEF EnvInv, WrapperOK
  <2>2. Count(sysPath', d) = Count(sysPath, d) + (IF x = d THEN 1 ELSE 0)
    BY <2>1, CountAppend, ZenonT(30)
  <2> QED
    BY <2>1, <2>2, CountType DEF PathOK
<1>2. CASE x = d
  <2>1. Adding(d)' \subseteq Adding(d) \ {t} /\ t \in Adding(d)
    BY <1>2
  <2>2. /\ IsFiniteSet(Adding(d) \ {t})
        /\ Cardinality(Adding(d) \ {t}) = Cardinality(Adding(d)) - 1
    BY <2>1, AddingType, FS_RemoveElement
  <2>3. Cardinality(Adding(d)') <= Cardinality(Adding(d) \ {t})
    BY <2>1, <2>2, FS_Subset
  <2> QED
    BY <1>1, <1>2, <2>2, <2>3, AddingType, AddingType1
<1>3. CASE x # d
  <2>1. Cardinality(Adding(d)') <= Cardinality(Adding(d))
    BY AddingType, FS_Subset
  <2> QED
    BY <1>1, <1>3, <2>1, AddingType, AddingType1
<1> QED
  BY <1>2, <1>3

(* A step of a thread that is not about to add a path afterwards.            *)
LEMMA AddingMoves ==
  ASSUME EnvInv, JobOK, NEW t \in Threads, NEW step,
         pc' = pc \/ pc' = [pc EXCEPT ![t] = step],
         step \in {"wrap", "start", "path"} => pc[t] \in {"wrap", "start", "path"},
         job' = job \/ \E j : job' = [job EXCEPT ![t] = j] /\ j.at # "add"
  PROVE  \A d \in Dirs : Adding(d)' \subseteq Adding(d)
<1>1. pc \in [Threads -> Steps] /\ DOMAIN job = Threads
  BY DEF EnvInv, ImportOK, JobOK
<1>2. ASSUME NEW u \in Threads
      PROVE  /\ job'[u] = job[u] \/ job'[u].at # "add"
             /\ pc'[u] \in {"wrap", "start", "path"} => pc[u] \in {"wrap", "start", "path"}
  <2>1. CASE u = t
    BY <1>1, <2>1
  <2>2. CASE u # t
    BY <1>1, <2>2
  <2> QED
    BY <2>1, <2>2
<1> QED
  BY <1>2 DEF Adding

LEMMA PathInit == Init => PathOK
<1> SUFFICES ASSUME Init, NEW d \in Dirs
             PROVE  Count(sysPath, d) + Cardinality(Adding(d)) <= Cardinality(Threads)
  BY DEF PathOK
<1>1. sysPath \in Seq(Dirs) /\ d \notin ToSet(sysPath)
  BY DEF Init, EnvInit, ToSet
<1>2. Count(sysPath, d) = 0
  BY <1>1, CountType
<1> QED
  BY <1>2, AddingType

LEMMA PathCalls ==
  ASSUME EnvInv, JobOK, PathOK, NEW t \in Threads, JobStep(t)
  PROVE  PathOK'
<1>0. pc \in [Threads -> Steps] /\ DOMAIN job = Threads
  BY DEF EnvInv, ImportOK, JobOK
<1>1. CASE IndexPath(t)
  <2>1. pc' = pc /\ sysPath' = sysPath
    BY <1>1 DEF IndexPath, envVars, sharedVars, startVars
  <2>2. CASE Head(job[t].left) \in ToSet(sysPath)
    <3>1. job' = [job EXCEPT ![t].left = Tail(@)] /\ job[t].at = "look"
      BY <1>1, <2>2 DEF IndexPath, InFactory
    <3>2. \A u \in Threads : job'[u] = job[u] \/ job'[u].at # "add"
      BY <1>0, <3>1, JobOf
    <3>3. \A d \in Dirs : Adding(d)' \subseteq Adding(d)
      BY <2>1, <3>2 DEF Adding
    <3> QED
      BY <2>1, <3>3, PathKept
  <2>3. CASE Head(job[t].left) \notin ToSet(sysPath)
    <3>1. job' = [job EXCEPT ![t].at = "add"]
      BY <1>1, <2>3 DEF IndexPath
    <3>2. \A u \in Threads : job'[u] = job[u] \/ job'[u].left = job[t].left
      BY <1>0, <3>1, JobOf
    <3>3. ASSUME NEW d \in Dirs, d # Head(job[t].left)
          PROVE  Adding(d)' \subseteq Adding(d)
      BY <2>1, <3>2, <3>3 DEF Adding
    <3> QED
      BY <2>1, <2>3, <3>3, PathKept
  <2> QED
    BY <2>2, <2>3
<1>2. CASE AddPath(t)
  <2>0. PICK x \in Dirs : x = Head(job[t].left)
    BY <1>2 DEF AddPath, InFactory, JobOK
  <2>1. /\ job[t].at = "add" /\ sysPath' = Append(sysPath, x) /\ pc' = pc
        /\ pc[t] = "have"
    BY <1>2, <2>0 DEF AddPath, InFactory
  <2>2. job' = [job EXCEPT ![t].left = Tail(@), ![t].at = "look"]
    BY <1>2 DEF AddPath
  <2>3. job'[t].at = "look" /\ \A u \in Threads : u = t \/ job'[u] = job[u]
    BY <1>0, <2>2, JobOf
  <2>4. t \in Adding(x)
    BY <2>0, <2>1 DEF Adding
  <2>5. t \notin Adding(x)' /\ \A d \in Dirs : Adding(d)' \subseteq Adding(d)
    BY <2>1, <2>3 DEF Adding
  <2> QED
    BY <2>1, <2>4, <2>5, PathAdded
<1>3. CASE FindModule(t)
  <2>1. pc' = [pc EXCEPT ![t] = "import"] /\ sysPath' = sysPath
    BY <1>3 DEF FindModule, Goto, sharedVars, startVars
  <2>2. job' = [job EXCEPT ![t].at = "call"]
    BY <1>3 DEF FindModule
  <2>3. \A u \in Threads : job'[u] = job[u] \/ job'[u].at # "add"
    BY <1>0, <2>2, JobOf
  <2>4. \A u \in Threads : pc'[u] \in {"wrap", "start", "path"} => pc[u] = pc'[u]
    BY <1>0, <2>1
  <2>5. \A d \in Dirs : Adding(d)' \subseteq Adding(d)
    BY <2>3, <2>4 DEF Adding
  <2> QED
    BY <2>1, <2>5, PathKept
<1>4. CASE MakeBlock(t)
  <2>1. UNCHANGED <<pc, sysPath>> /\ job' = [job EXCEPT ![t] = NoJob] /\ NoJob.at # "add"
    BY <1>4 DEF MakeBlock, envVars, sharedVars, startVars, NoJob
  <2>2. \A d \in Dirs : Adding(d)' \subseteq Adding(d)
    BY <2>1, AddingMoves
  <2> QED
    BY <2>1, <2>2, PathKept
<1>5. ASSUME NEW f \in Files, CallFactory(t, f)
      PROVE  PathOK'
  <2> DEFINE j == [file |-> f, left |-> ModulePaths(f), at |-> "look"]
  <2>1. job' = [job EXCEPT ![t] = j] /\ j.at # "add" /\ sysPath' = sysPath
    BY <1>5, MakeEnvMoves DEF CallFactory
  <2> HIDE DEF j
  <2>2. CASE sysPath = <<>>
    BY <2>1, <2>2, PathKept DEF ToSet
  <2>3. CASE pc' = [pc EXCEPT ![t] = "have"]
    <3>1. \A d \in Dirs : Adding(d)' \subseteq Adding(d)
      BY <2>1, <2>3, AddingMoves
    <3> QED
      BY <2>1, <3>1, PathKept
  <2> QED
    BY <1>5, <2>2, <2>3, MakeEnvMoves DEF CallFactory
<1> QED
  BY <1>1, <1>2, <1>3, <1>4, <1>5 DEF JobStep

LEMMA PathStep ==
  ASSUME EnvInv, JobOK, PathOK, Next
  PROVE  PathOK'
<1>0. Main \in Threads /\ NoJob.at # "add" /\ pc \in [Threads -> Steps]
  BY EnvAssumption DEF EnvAssumption, NoJob, EnvInv, ImportOK
<1>1. CASE LoadStep
  <2>1. UNCHANGED <<pc, job, sysPath>>
    BY <1>1 DEF LoadStep, StartLoad, Unload, RegisterEntry, EndLoad, envVars, sharedVars, startVars
  <2> QED
    BY <2>1 DEF PathOK, Adding
<1>2. CASE OtherStep
  <2>1. job' = job
    BY <1>2 DEF OtherStep
  <2>2. CASE EndStep
    <3>1. \A d \in Dirs : Adding(d)' \subseteq Adding(d)
      <4>1. RemoveSteps \cup ExitSteps \subseteq Steps \ {"wrap", "start", "path"}
        BY DEF RemoveSteps, ExitSteps, Steps
      <4> QED
        BY <1>0, <2>1, <2>2, <4>1, EndStepMoves, AddingMoves
    <3> QED
      BY <2>2, <3>1, EndStepMoves, PathKept
  <2>3. ASSUME NEW t \in Threads, UseStep(t)
        PROVE  PathOK'
    <3>1. \A d \in Dirs : Adding(d)' \subseteq Adding(d)
      BY <2>1, <2>3, UseStepMoves, AddingMoves DEF Dead
    <3> QED
      BY <2>3, <3>1, UseStepMoves, PathKept
  <2>4. ASSUME NEW t \in Threads, MakeEnv(t)
        PROVE  PathOK'
    <3>1. CASE sysPath = <<>>
      BY <2>4, <3>1, MakeEnvMoves, PathKept DEF ToSet
    <3>2. CASE pc' = [pc EXCEPT ![t] = "have"]
      <4>1. \A d \in Dirs : Adding(d)' \subseteq Adding(d)
        BY <2>1, <3>2, AddingMoves
      <4> QED
        BY <2>4, <4>1, MakeEnvMoves, PathKept
    <3> QED
      BY <2>4, <3>1, <3>2, MakeEnvMoves
  <2> QED
    BY <1>2, <2>2, <2>3, <2>4 DEF OtherStep
<1>3. ASSUME NEW t \in Threads, CalleeStep(t)
      PROVE  PathOK'
  <2>1. job' = job \/ job' = [job EXCEPT ![t] = NoJob]
    BY <1>3 DEF CalleeStep
  <2>2. CASE AppendPath(t)
    <3>1. /\ PothosDir \in Dirs /\ sysPath' = Append(sysPath, PothosDir)
          /\ pc[t] = "path" /\ pc' = [pc EXCEPT ![t] = "import"]
      BY <2>2, LoaderAssumption DEF LoaderAssumption, AppendPath, Goto
    <3>2. \A d \in Dirs : Adding(d)' \subseteq Adding(d)
      BY <2>1, <3>1, <1>0, AddingMoves
    <3>3. t \in Adding(PothosDir)
      BY <3>1 DEF Adding
    <3>4. t \notin Adding(PothosDir)'
      <4>1. job[t].at # "add"
        BY <3>1 DEF JobOK
      <4>2. job'[t].at # "add"
        BY <1>0, <2>1, <4>1 DEF JobOK
      <4>3. pc'[t] = "import"
        BY <1>0, <3>1
      <4> QED
        BY <4>2, <4>3 DEF Adding
    <3> QED
      BY <3>1, <3>2, <3>3, <3>4, PathAdded
  <2>3. CASE sysPath' = sysPath /\ ~AppendPath(t)
    <3>1. \A d \in Dirs : Adding(d)' \subseteq Adding(d)
      <4>1. /\ InitSteps \cap {"wrap", "start", "path"} = {}
            /\ {"package", "badcall", "have", "error"} \cap {"wrap", "start", "path"} = {}
        BY DEF InitSteps
      <4> QED
        BY <1>0, <1>3, <2>1, <2>3, <4>1, FactoryStepMoves, AddingMoves DEF CalleeStep
    <3> QED
      BY <2>3, <3>1, PathKept
  <2> QED
    BY <1>3, <2>2, <2>3, FactoryStepMoves DEF CalleeStep
<1> QED
  BY <1>1, <1>2, <1>3, PathCalls DEF Next

-----------------------------------------------------------------------------
LifeInv == EnvInv /\ JobOK /\ PathOK

LEMMA LifeInit == Init => LifeInv
<1> SUFFICES ASSUME Init PROVE EnvInv
  BY JobInit, PathInit DEF LifeInv
<1> USE EnvAssumption DEF EnvAssumption, Init, EnvInit
<1>1. pc \in [Threads -> {"idle", "import"}] /\ sysPath \in Seq(Dirs)
  OBVIOUS
<1>2. WrapperOK
  BY <1>1 DEF WrapperOK
<1>3. ImportOK
  BY <1>1 DEF ImportOK, Working, InitSteps, Steps, FactorySteps, Found
<1>4. ExitOK
  BY <1>1 DEF ExitOK, ExitSteps, RemoveSteps
<1>5. RemovalOK
  BY <1>1 DEF RemovalOK, RemovalLeavesNothing, ToRegister, Plugins, Helpers, ConverterOf
<1>6. ReadyOK
  BY <1>1 DEF ReadyOK, Working, InitSteps
<1> QED
  BY <1>2, <1>3, <1>4, <1>5, <1>6 DEF EnvInv

LEMMA LifeStep == LifeInv /\ [Next]_vars => LifeInv'
<1>1. ASSUME LifeInv, Next PROVE LifeInv'
  BY <1>1, EnvStep, JobStepOK, PathStep DEF LifeInv
<1>2. ASSUME LifeInv, UNCHANGED vars PROVE LifeInv'
  <2>1. UNCHANGED envVars /\ UNCHANGED <<pc, sysPath, job, loads>>
    BY <1>2 DEF vars, envVars, sharedVars, startVars, loaderVars
  <2>2. JobOK' /\ PathOK'
    BY <1>2, <2>1 DEF LifeInv, JobOK, PathOK, Adding
  <2> QED
    BY <1>2, <2>1, <2>2, EnvUnchanged DEF LifeInv
<1> QED
  BY <1>1, <1>2

(* In every state, what a thread is doing, what it has made ready, and what  *)
(* was removed again agree (PythonProxy.cpp:145-166, PothosModule.cpp:15-94).*)
THEOREM LifecycleInvariant == Spec => []LifeInv
BY LifeInit, LifeStep, PTL DEF Spec

(* Every variable of the environments, of the loader and of the factories    *)
(* has its type (PythonProxy.cpp, PothosModule.cpp, PythonConfLoader.cpp).   *)
THEOREM LoaderTypeOK == Spec => []TypeOK
<1>1. ASSUME LifeInv, LInv PROVE TypeOK
  <2>1. ToSet(atExit) \subseteq {"finalise", "deinit"}
    BY <1>1 DEF LifeInv, EnvInv, ExitOK, ToSet
  <2>2. EnvTypeOK
    BY <1>1, <2>1 DEF LifeInv, EnvInv, WrapperOK, ImportOK, RemovalOK, EnvTypeOK
  <2>3. \A t \in Threads : /\ job[t].file \in Files \cup {Nobody} /\ job[t].left \in Seq(Dirs)
                           /\ job[t].at \in {"look", "add", "call"}
    BY <1>1 DEF LifeInv, JobOK
  <2> QED
    BY <1>1, <2>2, <2>3 DEF LifeInv, JobOK, EnvInv, WrapperOK, LInv, LoaderOK, TypeOK
<1> QED
  BY LifecycleInvariant, LoaderInvariant, <1>1, PTL

(* Once a helper of the module was removed, neither its function nor the     *)
(* converter that calls it is left (PothosModule.cpp:35-49), unless the      *)
(* removal came before the module listened, or was dealt with between its    *)
(* listening and its registration of that converter (PothosModule.cpp:89-93).*)
THEOREM NothingLeftOfRemoved == Spec => []RemovalLeavesNothing
<1>1. LifeInv => RemovalLeavesNothing
  BY DEF LifeInv, EnvInv, RemovalOK
<1> QED
  BY LifecycleInvariant, <1>1, PTL

(* In a program that embeds Python, the interpreter is not finalised before  *)
(* the plugins are unloaded (PythonProxy.cpp:31-41, PothosModule.cpp:22-23). *)
THEOREM UnloadedFirst == Spec => []DeinitBeforeFinalise
<1>1. ASSUME LifeInv PROVE DeinitBeforeFinalise
  <2>1. "deinit" \notin ToSet(<<>>)
    BY DEF ToSet
  <2> QED
    BY <1>1, <2>1 DEF LifeInv, EnvInv, ExitOK, DeinitBeforeFinalise
<1> QED
  BY LifecycleInvariant, <1>1, PTL

(* However many threads make blocks, a directory is in sys.path at most once *)
(* for each of them (PythonConfLoader.cpp:60-72): each looks for a directory *)
(* before it adds it, and is about to add one at a time.                     *)
THEOREM PathsBounded == Spec => []PathGrowthBounded
<1>1. ASSUME LifeInv PROVE PathGrowthBounded
  <2> SUFFICES ASSUME NEW i \in 1 .. Len(sysPath)
               PROVE  Count(sysPath, sysPath[i]) <= Cardinality(Threads)
    BY DEF PathGrowthBounded, Count
  <2>1. sysPath \in Seq(Dirs) /\ sysPath[i] \in Dirs
    BY <1>1 DEF LifeInv, EnvInv, WrapperOK
  <2>2. PICK d \in Dirs : d = sysPath[i]
    BY <2>1
  <2>3. Count(sysPath, d) + Cardinality(Adding(d)) <= Cardinality(Threads)
    BY <1>1 DEF LifeInv, PathOK
  <2>4. Count(sysPath, d) \in Nat
    BY <2>1, CountType
  <2>5. Cardinality(Adding(d)) \in Nat /\ Cardinality(Threads) \in Nat
    BY AddingType
  <2>6. Count(sysPath, d) <= Cardinality(Threads)
    BY <2>3, <2>4, <2>5
  <2> QED
    BY <2>2, <2>6
<1> QED
  BY LifecycleInvariant, <1>1, PTL

-----------------------------------------------------------------------------
(* A step that changes a variable of the environments is a step of theirs,   *)
(* or of a block's factory.                                                  *)
LEMMA EnvSteps ==
  ASSUME JobOK, Next, ~UNCHANGED envVars
  PROVE  \/ EndStep
         \/ \E t \in Threads : MakeEnv(t) \/ UseStep(t) \/ FactoryStep(t) \/ AddPath(t) \/ FindModule(t)
<1>1. CASE LoadStep
  BY <1>1 DEF LoadStep, StartLoad, Unload, RegisterEntry, EndLoad
<1>2. CASE OtherStep
  BY <1>2 DEF OtherStep
<1>3. ASSUME NEW t \in Threads, JobStep(t) \/ CalleeStep(t)
      PROVE  MakeEnv(t) \/ FactoryStep(t) \/ AddPath(t) \/ FindModule(t)
  BY <1>3 DEF JobStep, CalleeStep, IndexPath, MakeBlock, CallFactory
<1> QED
  BY <1>1, <1>2, <1>3 DEF Next

(* An environment that is handed out before the module is ready              *)
(* (PythonProxy.cpp:145-166) was asked for while another thread was on its   *)
(* way to make it ready, or in an installation whose package is not whole.   *)
THEOREM ReadyUnlessRaced == Spec => UnreadyOnlyIfRaced
<1>1. ASSUME LifeInv, Next, NEW t \in Threads,
             pc[t] \in {"idle", "error"} \cup FactorySteps, pc'[t] = "have", module' # "imported"
      PROVE  (\E u \in Threads \ {t} : pc[u] \in FactorySteps) \/ package # "complete"
  <2>1. pc \in [Threads -> Steps] /\ Main \in Threads /\ Alive /\ pc[t] # "have"
    BY <1>1, EnvAssumption
       DEF EnvAssumption, LifeInv, EnvInv, ImportOK, Next, FactorySteps, InitSteps
  <2>2. ~UNCHANGED envVars
    BY <1>1, <2>1 DEF envVars
  <2>3. ASSUME NEW u \in Threads, MakeEnv(u)
        PROVE  (\E w \in Threads \ {t} : pc[w] \in FactorySteps) \/ package # "complete"
    <3>1. /\ pc[u] \in {"idle", "error", "have"} /\ module' = module
          /\ pc' = [pc EXCEPT ![u] = IF interp = "none" THEN "wrap" ELSE "have"]
      BY <2>3 DEF MakeEnv, Goto, moduleVars
    <3>2. u = t /\ interp # "none"
      BY <1>1, <2>1, <3>1
    <3>3. module # "failed" \/ package # "complete"
      BY <1>1 DEF LifeInv, EnvInv, ImportOK
    <3>4. CASE module = "importing"
      <4>1. PICK w \in Threads : pc[w] \in Working
        BY <1>1, <2>1, <3>4 DEF LifeInv, EnvInv, ImportOK
      <4> QED
        BY <3>1, <3>2, <4>1 DEF Working, FactorySteps, InitSteps
    <3>5. CASE module = "absent" /\ package = "complete"
      <4>1. PICK w \in Threads : pc[w] \in {"start", "path", "import"}
        BY <1>1, <3>2, <3>5 DEF LifeInv, EnvInv, ImportOK
      <4> QED
        BY <3>1, <3>2, <4>1 DEF FactorySteps
    <3> QED
      BY <1>1, <3>1, <3>3, <3>4, <3>5 DEF LifeInv, EnvInv, ImportOK
  <2>4. ASSUME NEW u \in Threads, FactoryStep(u)
        PROVE  module' = "imported" \/ pc'[t] # "have"
    <3>1. CASE BeginImport(u)
      BY <1>1, <2>1, <3>1 DEF BeginImport, Goto
    <3>2. CASE FinishImport(u)
      BY <1>1, <2>1, <3>2 DEF FinishImport, Goto
    <3>3. CASE \E h \in Helpers : GetHelper(u, h) \/ Register(u, h)
      BY <2>1, <3>3 DEF GetHelper, Register, Goto
    <3>4. CASE EnterWrapper(u) \/ LeaveWrapper(u) \/ AppendPath(u)
      BY <2>1, <3>4 DEF EnterWrapper, LeaveWrapper, AppendPath, Goto
    <3>5. CASE InitModule(u) \/ Listen(u)
      BY <2>1, <3>5 DEF InitModule, Listen, Goto
    <3> QED
      BY <2>4, <3>1, <3>2, <3>3, <3>4, <3>5 DEF FactoryStep
  <2>5. CASE EndStep
    BY <1>1, <2>1, <2>5, EndStepMoves DEF LifeInv, RemoveSteps, ExitSteps
  <2>6. ASSUME NEW u \in Threads, UseStep(u)
        PROVE  pc[u] \in {"have", "toCall", "fromCall"} /\ \E step \in Steps : pc' = [pc EXCEPT ![u] = step]
    <3>1. pc[u] \in {"have", "toCall", "fromCall"}
      BY <2>6 DEF UseStep, ConvertTo, ConvertFrom, ScriptUse, CallHelper
    <3> QED
      BY <1>1, <2>6, <3>1, UseStepMoves DEF LifeInv, Steps
  <2>7. ASSUME NEW u \in Threads, AddPath(u) \/ FindModule(u)
        PROVE  pc'[t] # "have"
    BY <2>1, <2>7 DEF AddPath, FindModule, Goto
  <2>8. {"have", "toCall", "fromCall"} \cap ({"idle", "error"} \cup FactorySteps) = {}
    BY DEF FactorySteps, InitSteps
  <2>9. ASSUME NEW u \in Threads, UseStep(u)
        PROVE  FALSE
    BY <1>1, <2>1, <2>6, <2>8, <2>9
  <2> QED
    BY <1>1, <2>2, <2>3, <2>4, <2>5, <2>7, <2>9, EnvSteps DEF LifeInv
<1>2. LifeInv /\ [Next]_vars =>
        [\A t \in Threads :
           pc[t] \in {"idle", "error"} \cup FactorySteps /\ pc'[t] = "have" /\ module' # "imported" =>
             \/ \E u \in Threads \ {t} : pc[u] \in FactorySteps
             \/ package # "complete"]_envVars
  BY <1>1 DEF vars
<1> QED
  BY LifecycleInvariant, <1>2, PTL DEF Spec, UnreadyOnlyIfRaced

(* A conversion without end, or a call of an empty function                  *)
(* (PothosModule.cpp:51-64, 74-85), ends a process whose module is imported  *)
(* only after a helper was removed.                                          *)
THEOREM DeathByRemoval == Spec => DiesOnlyAfterRemoval
<1>1. ASSUME LifeInv, Next, NEW t \in Threads,
             pc[t] \notin Dead, pc'[t] \in Dead, module = "imported", Helpers \subseteq registry
      PROVE  FALSE
  <2>1. /\ pc \in [Threads -> Steps] /\ Main \in Threads
        /\ CanWrap /\ \A h \in Helpers : fcn[h] /\ ConverterOf(h) \in registry
        /\ \A u \in Threads : pc[u] # "package"
    BY <1>1, EnvAssumption
       DEF EnvAssumption, LifeInv, EnvInv, ImportOK, ReadyOK, CanWrap, Helpers, Working
  <2>2. ~UNCHANGED envVars
    BY <1>1, <2>1 DEF envVars
  <2>3. ASSUME NEW u \in Threads, NEW step, pc' = [pc EXCEPT ![u] = step], step \notin Dead
        PROVE  FALSE
    BY <1>1, <2>1, <2>3
  <2>4. ASSUME NEW u \in Threads, UseStep(u)
        PROVE  \E step \in {"have", "toCall", "fromCall"} : pc' = [pc EXCEPT ![u] = step]
    <3>1. CASE ConvertTo(u)
      BY <2>1, <3>1 DEF ConvertTo, Goto, Helpers, ConverterOf
    <3>2. CASE ConvertFrom(u)
      BY <3>2 DEF ConvertFrom, Goto
    <3>3. CASE \E h \in Helpers : CallHelper(u, h)
      BY <2>1, <3>3 DEF CallHelper, Goto
    <3> QED
      BY <2>1, <2>4, <3>1, <3>2, <3>3 DEF UseStep, ScriptUse
  <2>5. ASSUME NEW u \in Threads, MakeEnv(u)
        PROVE  FALSE
    BY <1>1, <2>3, <2>5, MakeEnvMoves DEF LifeInv, Dead
  <2>6. ASSUME NEW u \in Threads, FactoryStep(u)
        PROVE  FALSE
    <3>1. CASE EnterWrapper(u) \/ LeaveWrapper(u) \/ AppendPath(u)
      BY <2>3, <3>1 DEF EnterWrapper, LeaveWrapper, AppendPath, Goto, Dead
    <3>2. CASE BeginImport(u)
      BY <2>3, <3>2 DEF BeginImport, Goto, Dead
    <3>5. CASE InitModule(u) \/ Listen(u)
      BY <2>3, <3>5, ZenonT(30) DEF InitModule, Listen, Goto, Dead
    <3>3. CASE \E h \in Helpers : GetHelper(u, h) \/ Register(u, h)
      BY <2>3, <3>3 DEF GetHelper, Register, Goto, Dead
    <3>4. CASE FinishImport(u)
      BY <2>1, <3>4 DEF FinishImport
    <3> QED
      BY <2>6, <3>1, <3>2, <3>3, <3>4, <3>5 DEF FactoryStep
  <2>7. ASSUME NEW u \in Threads, AddPath(u) \/ FindModule(u)
        PROVE  FALSE
    BY <1>1, <2>3, <2>7 DEF AddPath, FindModule, Goto, Dead
  <2>8. CASE EndStep
    BY <1>1, <2>1, <2>3, <2>8, EndStepMoves DEF LifeInv, RemoveSteps, ExitSteps, Dead
  <2>9. ASSUME NEW u \in Threads, UseStep(u)
        PROVE  FALSE
    BY <2>3, <2>4, <2>9 DEF Dead
  <2> QED
    BY <1>1, <2>2, <2>5, <2>6, <2>7, <2>8, <2>9, EnvSteps DEF LifeInv
<1>2. LifeInv /\ [Next]_vars =>
        [\A t \in Threads :
           pc[t] \notin Dead /\ pc'[t] \in Dead /\ module = "imported" =>
             ~ (Helpers \subseteq registry)]_envVars
  BY <1>1 DEF vars
<1> QED
  BY LifecycleInvariant, <1>2, PTL DEF Spec, DiesOnlyAfterRemoval
=============================================================================

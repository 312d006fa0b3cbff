------------------------------ MODULE ConfLoader ------------------------------
(***************************************************************************)
(* The loader of configuration files and the factories of Python blocks    *)
(* that it registers (PythonConfLoader.cpp), on the threads and with the   *)
(* environments of EnvLifecycle.                                           *)
(***************************************************************************)
EXTENDS EnvLifecycle

CONSTANTS
  Files,         (* configuration files                                      *)
  Entries,       (* paths in the plugin registry                             *)
  Dirs,          (* directories                                              *)
  Docs(_),       (* the documentation entries of a file, in order            *)
  Factories(_),  (* the factories of a file, in order                        *)
  ModulePaths(_),(* the directory of a file and its "path"s                  *)
  WellFormed(_), (* it has factories in the format, and sources to read      *)
  Refused,       (* documentation entries whose path or description is not   *)
                 (* accepted, which shows when they are registered           *)
  MaxLoads       (* bound: attempts to load a file                           *)

EntriesOf(f) == ToSet(Docs(f)) \cup ToSet(Factories(f))

ASSUME LoaderAssumption ==
  /\ Nobody \notin Files
  /\ \A f \in Files : Docs(f) \in Seq(Entries) /\ Factories(f) \in Seq(Entries)
  /\ \A f \in Files : Refused \cap ToSet(Factories(f)) = {}
  /\ PothosDir \in Dirs /\ \A f \in Files : ModulePaths(f) \in Seq(Dirs)
  /\ MaxLoads \in Nat

VARIABLES
  registered, (* per entry, the file whose loader registered it, or Nobody   *)
  status,     (* per file: "unloaded", "loaded" or "failed"                  *)
  listed,     (* per file, the entries that the loader returned              *)
  load,       (* the loader's file, what it has still to register, and did   *)
  loads,
  job         (* per thread: the factory call it is in, if any               *)

loaderVars == <<registered, status, listed, load, loads>>
vars == <<envVars, loaderVars, job>>

Idle == [file |-> Nobody, todo |-> <<>>, done |-> {}]
NoJob == [file |-> Nobody, left |-> <<>>, at |-> "look"]
Busy(t) == job[t] # NoJob \/ (t = Main /\ load # Idle)

Init ==
  /\ EnvInit
  /\ registered = [e \in Entries |-> Nobody]
  /\ status = [f \in Files |-> "unloaded"]
  /\ listed = [f \in Files |-> {}]
  /\ load = Idle
  /\ loads = 0
  /\ job = [t \in Threads |-> NoJob]

-----------------------------------------------------------------------------
(* PythonLoader(): the configuration and the sources are read before the     *)
(* first entry is registered.  An entry that is there already makes the      *)
(* registry throw, and a documented factory can have a path or a description *)
(* that throws; both leave the entries before it registered, on no list.     *)

StartLoad(f) ==
  /\ load = Idle /\ loads < MaxLoads
  /\ status[f] # "loaded"
  /\ loads' = loads + 1
  /\ IF WellFormed(f)
     THEN /\ load' = [file |-> f, todo |-> Docs(f) \o Factories(f), done |-> {}]
          /\ UNCHANGED status
     ELSE status' = [status EXCEPT ![f] = "failed"] /\ UNCHANGED load
  /\ UNCHANGED <<envVars, registered, listed, job>>

BugRegisterEntry ==   (* an entry that is there already is replaced           *)
  /\ load.todo # <<>>
  /\ LET e == Head(load.todo)
     IN  IF e \notin Refused
         THEN /\ registered' = [registered EXCEPT ![e] = load.file]
              /\ load' = [load EXCEPT !.todo = Tail(@), !.done = @ \cup {e}]
              /\ UNCHANGED status
         ELSE /\ status' = [status EXCEPT ![load.file] = "failed"]
              /\ load' = Idle
              /\ UNCHANGED registered
  /\ UNCHANGED <<envVars, listed, loads, job>>

RegisterEntry ==
  /\ load.todo # <<>>
  /\ LET e == Head(load.todo)
     IN  IF registered[e] = Nobody /\ e \notin Refused
         THEN /\ registered' = [registered EXCEPT ![e] = load.file]
              /\ load' = [load EXCEPT !.todo = Tail(@), !.done = @ \cup {e}]
              /\ UNCHANGED status
         ELSE /\ status' = [status EXCEPT ![load.file] = "failed"]
              /\ load' = Idle
              /\ UNCHANGED registered
  /\ UNCHANGED <<envVars, listed, loads, job>>

EndLoad ==
  /\ load.file # Nobody /\ load.todo = <<>>
  /\ status' = [status EXCEPT ![load.file] = "loaded"]
  /\ listed' = [listed EXCEPT ![load.file] = load.done]
  /\ load' = Idle
  /\ UNCHANGED <<envVars, registered, loads, job>>

(* Whoever called the loader removes what it returned.                       *)
Unload(f) ==
  /\ load = Idle /\ status[f] = "loaded"
  /\ registered' = [e \in Entries |-> IF e \in listed[f] THEN Nobody ELSE registered[e]]
  /\ listed' = [listed EXCEPT ![f] = {}]
  /\ status' = [status EXCEPT ![f] = "unloaded"]
  /\ UNCHANGED <<envVars, load, loads, job>>

-----------------------------------------------------------------------------
(* opaquePythonLoaderFactory().                                              *)

CallFactory(t, f) ==
  /\ ~Busy(t)
  /\ \E e \in ToSet(Factories(f)) : registered[e] = f
  /\ MakeEnv(t)
  /\ job' = [job EXCEPT ![t] = [file |-> f, left |-> ModulePaths(f), at |-> "look"]]
  /\ UNCHANGED loaderVars

InFactory(t, at) == PyReady(t) /\ job[t] # NoJob /\ pc[t] = "have" /\ job[t].at = at

BugIndexPath(t) ==   (* every call adds its paths                             *)
  /\ InFactory(t, "look") /\ job[t].left # <<>>
  /\ job' = [job EXCEPT ![t].at = "add"]
  /\ UNCHANGED <<envVars, loaderVars>>

(* sysPath.index(path) throws if the path is not there.                      *)
IndexPath(t) ==
  /\ InFactory(t, "look") /\ job[t].left # <<>>
  /\ job' = IF Head(job[t].left) \in ToSet(sysPath)
            THEN [job EXCEPT ![t].left = Tail(@)]
            ELSE [job EXCEPT ![t].at = "add"]
  /\ UNCHANGED <<envVars, loaderVars>>

AddPath(t) ==
  /\ InFactory(t, "add")
  /\ sysPath' = Append(sysPath, Head(job[t].left))
  /\ job' = [job EXCEPT ![t].left = Tail(@), ![t].at = "look"]
  /\ UNCHANGED <<fixedVars, interp, wrapper, moduleVars, pluginVars, atExit, pc, loaderVars>>

(* findProxy(moduleName): the module imports the Pothos package, which may   *)
(* be the first import of it.                                                *)
FindModule(t) ==
  /\ InFactory(t, "look") /\ job[t].left = <<>>
  /\ Goto(t, "import")
  /\ job' = [job EXCEPT ![t].at = "call"]
  /\ UNCHANGED <<sharedVars, loaderVars>>

MakeBlock(t) ==
  /\ InFactory(t, "call")
  /\ job' = [job EXCEPT ![t] = NoJob]
  /\ UNCHANGED <<envVars, loaderVars>>

-----------------------------------------------------------------------------
(* The main thread loads and unloads.                                        *)
LoadStep ==
  \/ RegisterEntry \/ EndLoad
  \/ /\ pc[Main] \in {"idle", "have", "error"} /\ ~Busy(Main)
     /\ \E f \in Files : StartLoad(f) \/ Unload(f)

JobStep(t) ==
  \/ IndexPath(t) \/ AddPath(t) \/ FindModule(t) \/ MakeBlock(t)
  \/ \E f \in Files : CallFactory(t, f)

(* The steps of makePythonProxyEnvironment() and of an import; an exception  *)
(* of theirs ends the call of the block's factory as well.                   *)
CalleeStep(t) ==
  /\ FactoryStep(t)
  /\ job' = IF pc'[t] = "error" THEN [job EXCEPT ![t] = NoJob] ELSE job
  /\ UNCHANGED loaderVars

(* What threads do that are not in a block's factory.                        *)
OtherStep ==
  /\ \/ (~Busy(Main) /\ EndStep)
     \/ \E t \in Threads : ~Busy(t) /\ (MakeEnv(t) \/ UseStep(t))
  /\ UNCHANGED <<loaderVars, job>>

Next ==
  Alive /\ (LoadStep \/ OtherStep \/ \E t \in Threads : JobStep(t) \/ CalleeStep(t))

(* A thread that is in a factory is scheduled.                               *)
Proceed(t) ==
  \/ CalleeStep(t)
  \/ IndexPath(t) \/ AddPath(t) \/ FindModule(t) \/ MakeBlock(t)

Spec == Init /\ [][Next]_vars /\ \A t \in Threads : WF_vars(Proceed(t))

-----------------------------------------------------------------------------
TypeOK ==
  /\ EnvTypeOK
  /\ registered \in [Entries -> Files \cup {Nobody}]
  /\ status \in [Files -> {"unloaded", "loaded", "failed"}]
  /\ listed \in [Files -> SUBSET Entries]
  /\ load.file \in Files \cup {Nobody}
  /\ load.todo \in Seq(Entries) /\ load.done \subseteq Entries
  /\ loads \in 0..MaxLoads
  /\ sysPath \in Seq(Dirs)
  /\ \A t \in Threads : /\ job[t].file \in Files \cup {Nobody} /\ job[t].left \in Seq(Dirs)
                        /\ job[t].at \in {"look", "add", "call"}

(* What a file has in the registry is what its loader returned, or is        *)
(* registering, or left behind when it failed; so unloading a file removes   *)
(* all that is its own and nothing that is another's.                        *)
EntriesAccounted == \A f \in Files :
  LET own == {e \in Entries : registered[e] = f}
  IN  /\ listed[f] \subseteq own
      /\ load.file = f => load.done \subseteq own
      /\ own # listed[f] => load.file = f \/ status[f] = "failed"

(* A load that fails half-way is never repaired: what it registered stays,   *)
(* since it is on no list that anybody could remove it by, and stands in the *)
(* way of every later load of the file (PythonConfLoader.cpp:143-170).       *)
Leftovers(f) ==
  {e \in Entries : registered[e] = f} \ (listed[f] \cup IF load.file = f THEN load.done ELSE {})

LeftoversStay == [][\A f \in Files :
  /\ Leftovers(f) \subseteq Leftovers(f)'
  /\ Leftovers(f) # {} => status'[f] # "loaded"]_vars

(* However often factories run, a directory is in sys.path once for each     *)
(* thread at most: two threads may look for it before either adds it.        *)
PathGrowthBounded == \A i \in 1..Len(sysPath) :
  Cardinality({j \in 1..Len(sysPath) : sysPath[j] = sysPath[i]}) <= Cardinality(Threads)

(* Every call of the environment's factory, or of a block's, returns or      *)
(* throws, unless the process ends.                                          *)
FactoriesReturn == \A t \in Threads :
  (pc[t] \in FactorySteps \/ job[t] # NoJob) ~>
    (pc[t] \notin FactorySteps /\ job[t] = NoJob) \/ ~Alive \/ interp = "finalised"
===============================================================================

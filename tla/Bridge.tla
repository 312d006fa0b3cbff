-------------------------------- MODULE Bridge --------------------------------
(***************************************************************************)
(* Threads that run the functions of BridgeCode: Python scripts calling    *)
(* native code, native code calling Python, and the worker threads of the  *)
(* framework calling the methods of Python blocks.  Every thread has a     *)
(* stack of frames; a frame has the guards it declared, and leaving it, by *)
(* the end of its code, a return or an exception, closes them innermost    *)
(* first, as C++ unwinds automatic objects.                                *)
(***************************************************************************)
EXTENDS BridgeCode, FiniteSets, SequencesExt

CONSTANTS
  Threads,
  PyThreads,  (* threads that run a Python script                            *)
  Workers,    (* threads of the framework                                    *)
  HostThread, (* a C++ program that embeds the interpreter, or NoThread      *)
  NoThread,
  MaxDepth    (* bound: no optional call is made from deeper frames          *)

ASSUME BridgeAssumption ==
  /\ PyThreads \cup Workers \subseteq Threads
  /\ PyThreads \cap Workers = {}
  /\ HostThread \notin PyThreads \cup Workers
  /\ Threads \subseteq PyThreads \cup Workers \cup {HostThread}
  /\ NoThread \notin Threads
  /\ MaxDepth \in Nat

VARIABLES
  gil,    (* the thread that holds the interpreter lock, or NoThread         *)
  stack,  (* per thread, its frames, the innermost last                      *)
  parked, (* per thread, TRUE while the evaluation loop gave up the lock     *)
  queue,  (* per worker, the threads that wait for it, in order              *)
  serving (* per worker, the thread whose job it does, or NoThread           *)

vars == <<gil, stack, parked, queue, serving>>
jobVars == <<queue, serving>>

-----------------------------------------------------------------------------
(* Frames.                                                                  *)

Frame(f) == [fn |-> f, pc |-> 1, mode |-> "run", open |-> <<>>]

RootFn(t) == CASE t \in PyThreads -> "python"
               [] t \in Workers   -> "worker"
               [] OTHER           -> "native"

Cur(t) == Last(stack[t])
BugAtRoot(t) == stack[t] = <<>>
AtRoot(t) == Len(stack[t]) = 1
Finished(f) == f.mode = "run" /\ f.pc > Len(Code[f.fn])
Running(t, op) ==
  /\ ~parked[t]
  /\ Cur(t).mode = "run" /\ ~Finished(Cur(t))
  /\ Code[Cur(t).fn][Cur(t).pc].op = op
Op(t) == Code[Cur(t).fn][Cur(t).pc]

(* The innermost frame of t becomes f.                                      *)
Becomes(t, f) == stack' = [stack EXCEPT ![t] = Append(Front(@), f)]
Advanced(f, n) == [f EXCEPT !.pc = @ + n]
Advance(t) == Becomes(t, Advanced(Cur(t), 1))
Unwinding(f) == f.mode \in {"return", "throw"} \/ Finished(f)
Caught(f) == f.mode = "throw" /\ Catches(f.fn, f.pc)

(* The guards of f that its unwinding closes before anything else happens.  *)
ToClose(f) ==
  IF Caught(f) THEN Len(f.open) - Try[f.fn].keep ELSE Len(f.open)

Init ==
  /\ gil = NoThread
  /\ stack = [t \in Threads |-> <<Frame(RootFn(t))>>]
  /\ parked = [t \in Threads |-> t \in PyThreads]
  /\ queue = [w \in Workers |-> <<>>]
  /\ serving = [w \in Workers |-> NoThread]

-----------------------------------------------------------------------------
(* Guards.  A frame's guard remembers what it found, as in GilGuards.       *)

OpenGil(t) ==
  /\ Running(t, "gil")
  /\ gil \in {t, NoThread}
  /\ gil' = t
  /\ LET found == IF gil = t THEN "locked" ELSE "unlocked"
     IN  Becomes(t, [Advanced(Cur(t), 1) EXCEPT !.open = Append(@, found)])
  /\ UNCHANGED <<parked, jobVars>>

OpenUnlock(t) ==
  /\ Running(t, "unlock")
  /\ gil = t
  /\ gil' = NoThread
  /\ Becomes(t, [Advanced(Cur(t), 1) EXCEPT !.open = Append(@, "saved")])
  /\ UNCHANGED <<parked, jobVars>>

(* The end of a guard's scope, or unwinding past it; a PyThreadStateLock    *)
(* waits for the lock.                                                      *)
Closing(t) ==
  \/ Running(t, "close")
  \/ ~parked[t] /\ Unwinding(Cur(t)) /\ ToClose(Cur(t)) > 0

BugCloseDropsGil(t) ==   (* ~PyGilStateLock does not look at what it found    *)
  /\ Closing(t)
  /\ LET f == Cur(t)
         g == Last(f.open)
     IN  /\ gil = IF g = "saved" THEN NoThread ELSE t
         /\ gil' = IF g = "saved" THEN t ELSE NoThread
         /\ Becomes(t, [f EXCEPT !.open = Front(@),
                                 !.pc = IF Unwinding(f) THEN @ ELSE @ + 1])
  /\ UNCHANGED <<parked, jobVars>>

CloseGuard(t) ==
  /\ Closing(t)
  /\ LET f == Cur(t)
         g == Last(f.open)
     IN  /\ gil = IF g = "saved" THEN NoThread ELSE t
         /\ gil' = IF g = "unlocked" THEN NoThread ELSE t
         /\ Becomes(t, [f EXCEPT !.open = Front(@),
                                 !.pc = IF Unwinding(f) THEN @ ELSE @ + 1])
  /\ UNCHANGED <<parked, jobVars>>

-----------------------------------------------------------------------------
(* Control.                                                                 *)

Touch(t) ==
  /\ Running(t, "api") \/ Running(t, "incref")
  /\ Advance(t)
  /\ UNCHANGED <<gil, parked, jobVars>>

CallFn(t) ==
  /\ Running(t, "call")
  /\ \E f \in Op(t).fns :
       IF f = "none"
         THEN Advance(t)
         ELSE /\ "none" \in Op(t).fns => Len(stack[t]) < MaxDepth
              /\ stack' = [stack EXCEPT
                             ![t] = Append(Append(Front(@), Advanced(Cur(t), 1)), Frame(f))]
  /\ UNCHANGED <<gil, parked, jobVars>>

(* Every place where a function may go one way or another.                  *)
Branch(t) ==
  /\ \/ Running(t, "mayThrow")  /\ (Advance(t) \/ Becomes(t, [Cur(t) EXCEPT !.mode = "throw"]))
     \/ Running(t, "mayReturn") /\ (Advance(t) \/ Becomes(t, [Cur(t) EXCEPT !.mode = "return"]))
     \/ Running(t, "return")    /\ Becomes(t, [Cur(t) EXCEPT !.mode = "return"])
     \/ Running(t, "maySkip")   /\ (Advance(t) \/ Becomes(t, Advanced(Cur(t), 1 + Op(t).skip)))
  /\ UNCHANGED <<gil, parked, jobVars>>

(* A frame with nothing left to close goes to its handler or is left; what  *)
(* it was called for goes on, or unwinds too.  The outermost frame of a     *)
(* thread starts over, with its next call.                                  *)
Leave(t) ==
  /\ ~parked[t] /\ Unwinding(Cur(t)) /\ ToClose(Cur(t)) = 0
  /\ LET f == Cur(t)
         below == Front(stack[t])
     IN  CASE Caught(f) ->
                Becomes(t, [f EXCEPT !.mode = "run", !.pc = Try[f.fn].handler])
           [] ~Caught(f) /\ AtRoot(t) ->
                Becomes(t, Frame(RootFn(t)))
           [] OTHER ->
                stack' = [stack EXCEPT
                  ![t] = IF f.mode = "throw"
                           THEN Append(Front(below),
                                       [Last(below) EXCEPT !.mode = "throw", !.pc = @ - 1])
                           ELSE below]
  /\ UNCHANGED <<gil, parked, jobVars>>

-----------------------------------------------------------------------------
(* Threads that wait for each other.                                        *)

(* Native code gives a worker something to do; a worker's own calls do not   *)
(* wait for it.                                                             *)
SubmitJob(t) ==
  /\ Running(t, "submit")
  /\ IF t \in Workers
       THEN UNCHANGED queue
       ELSE \E w \in Workers : queue' = [queue EXCEPT ![w] = Append(@, t)]
  /\ Advance(t)
  /\ UNCHANGED <<gil, parked, serving>>

AwaitJob(t) ==
  /\ Running(t, "await")
  /\ \A w \in Workers : t \notin ToSet(queue[w]) \cup {serving[w]}
  /\ Advance(t)
  /\ UNCHANGED <<gil, parked, jobVars>>

(* A worker does what it was given, or runs a block whose input arrived.    *)
TakeWork(w) ==
  /\ Running(w, "takeJob")
  /\ IF queue[w] = <<>>
       THEN UNCHANGED jobVars
       ELSE /\ serving' = [serving EXCEPT ![w] = Head(queue[w])]
            /\ queue' = [queue EXCEPT ![w] = Tail(@)]
  /\ Advance(w)
  /\ UNCHANGED <<gil, parked>>

FinishWork(w) ==
  /\ Running(w, "jobDone")
  /\ serving' = [serving EXCEPT ![w] = NoThread]
  /\ Advance(w)
  /\ UNCHANGED <<gil, parked, queue>>

-----------------------------------------------------------------------------
(* The evaluation loop.                                                     *)

Park(t) ==
  /\ gil = t /\ Cur(t).fn = "python" /\ Cur(t).mode = "run"
  /\ gil' = NoThread
  /\ parked' = [parked EXCEPT ![t] = TRUE]
  /\ UNCHANGED <<stack, jobVars>>

Unpark(t) ==
  /\ parked[t] /\ gil = NoThread
  /\ gil' = t
  /\ parked' = [parked EXCEPT ![t] = FALSE]
  /\ UNCHANGED <<stack, jobVars>>

-----------------------------------------------------------------------------
(* An exception that nothing in a function called by Python catches: it has  *)
(* reached the interpreter, which is not C++ and not built for it.  What     *)
(* happens then is not defined; the process ends here.                       *)
Escapes(t) ==
  /\ ~parked[t] /\ Cur(t).mode = "throw"
  /\ ~Caught(Cur(t)) /\ ToClose(Cur(t)) = 0
  /\ Len(stack[t]) > 1 /\ stack[t][Len(stack[t]) - 1].fn = "python"

Ended == \E t \in Threads : Escapes(t)

Execute(t) ==
  \/ OpenGil(t) \/ OpenUnlock(t) \/ CloseGuard(t)
  \/ Touch(t) \/ CallFn(t) \/ Branch(t) \/ Leave(t)
  \/ SubmitJob(t) \/ AwaitJob(t)
  \/ t \in Workers /\ (TakeWork(t) \/ FinishWork(t))

Next == ~Ended /\ \E t \in Threads : Execute(t) \/ Park(t) \/ Unpark(t)

Spec == Init /\ [][Next]_vars

(* Threads are scheduled.  One that waits for the lock gets it if the lock  *)
(* is free again and again; one in Python code gives it up again and again, *)
(* on request after CPython's switch interval, but not so fast that it      *)
(* never executes anything in between.                                      *)
Fairness ==
  \A t \in Threads :
    /\ SF_vars(~Ended /\ Execute(t))
    /\ SF_vars(~Ended /\ Unpark(t))
    /\ SF_vars(~Ended /\ Park(t))

FairSpec == Spec /\ Fairness

-----------------------------------------------------------------------------
(* Properties.                                                              *)

(* The variables keep their types, and no frame runs past its code.          *)
TypeOK ==
  /\ gil \in Threads \cup {NoThread}
  /\ parked \in [Threads -> BOOLEAN]
  /\ DOMAIN queue = Workers /\ \A w \in Workers : ToSet(queue[w]) \subseteq Threads
  /\ serving \in [Workers -> Threads \cup {NoThread}]
  /\ \A t \in Threads :
       /\ stack[t] # <<>>
       /\ \A i \in 1..Len(stack[t]) :
            LET f == stack[t][i]
            IN  /\ f.fn \in Fns /\ f.pc \in 1..(Len(Code[f.fn]) + 1)
                /\ f.mode \in {"run", "return", "throw"}
                /\ ToSet(f.open) \subseteq {"locked", "unlocked", "saved"}

(* What t does next needs the lock: the C API, an object's reference count,  *)
(* the interpreter itself, PyEval_SaveThread and PyGILState_Release.         *)
NeedsGil(t) ==
  \/ Running(t, "api") \/ Running(t, "unlock")
  \/ ~parked[t] /\ Cur(t).fn = "python"
  \/ Closing(t) /\ Last(Cur(t).open) # "saved"

(* Whatever chain of calls a thread came through, in either direction and by *)
(* exceptions too, it has the interpreter lock when it touches Python        *)
(* (every function of BridgeCode, but for the reference count that           *)
(* convertProxyToPyObject takes).                                            *)
ApiUnderGil == \A t \in Threads : NeedsGil(t) => gil = t

(* The same of that reference count.                                         *)
IncrefUnderGil == \A t \in Threads : Running(t, "incref") => gil = t

(* A thread that waits for a worker has let go of the lock, which the worker *)
(* needs to run a Python block: "proxy call could be potentially blocking"   *)
(* (ProxyType.cpp, ProxyCallType.cpp).                                       *)
NoWaitHoldingGil == \A t \in Threads : Running(t, "await") => gil # t

(* Where a function that Python calls has neither a try block around it nor  *)
(* anything that keeps exceptions away: the native toString() and            *)
(* getClassName() of a proxy, and the conversion of the keywords of an       *)
(* environment, of which a comment says that it should not throw (ProxyType  *)
(* .cpp lines 191 and 233, ProxyEnvironmentType.cpp lines 20 and 24).        *)
Unprotected ==
  {<<"Proxy_toString", 1>>, <<"Proxy_getClassName", 1>>, <<"ProxyEnvironment_init", 5>>}

(* Whatever Python calls, and however deep the exception begins, a C++       *)
(* exception ends in a handler before it comes to the interpreter, but for   *)
(* those three places.                                                       *)
EscapesOnlyUnprotected ==
  \A t \in Threads : Escapes(t) => <<Cur(t).fn, Cur(t).pc>> \in Unprotected

(* Each thread's guards, through all its frames, are a run of GilGuards.     *)
AllGuards(t) ==
  (IF t = HostThread THEN <<"saved">> ELSE <<>>)
    \o FlattenSeq([i \in 1..Len(stack[t]) |-> stack[t][i].open])

States(t) ==
  Cardinality({i \in 1..Len(AllGuards(t)) : AllGuards(t)[i] # "saved"})
    + (IF t \in PyThreads \cup {HostThread} THEN 1 ELSE 0)

GuardBound == MaxDepth + 7  (* no stack of frames has more guards            *)

Guards == INSTANCE GilGuards WITH
  guards <- [t \in Threads |-> AllGuards(t)],
  counter <- [t \in Threads |-> States(t)],
  MaxGuards <- GuardBound

(* The functions of BridgeCode use the lock only as scope guards do, so what *)
(* is proved of GilGuards is true of them.                                   *)
ImplementsGilGuards == Guards!Spec

(* Every call returns, those that wait for a worker which needs the lock     *)
(* included, unless the process ends: no thread waits for ever for the lock, *)
(* or for a worker that cannot get it.                                       *)
CallsReturn ==
  \A t \in Threads : Len(stack[t]) > 1 ~> (Len(stack[t]) = 1 \/ Ended)
=============================================================================

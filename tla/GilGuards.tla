------------------------------ MODULE GilGuards ------------------------------
(***************************************************************************)
(* The interpreter lock of CPython as PothosPython takes it and gives it   *)
(* back: only through two scope guards, PyGilStateLock (get into the       *)
(* interpreter) and PyThreadStateLock (get out of it while native code     *)
(* runs).  Each guard remembers, in its member _s, what its constructor    *)
(* found, and its destructor puts that back.  Guards are C++ automatic     *)
(* objects, so on every thread they nest like a stack, whichever handler   *)
(* declares them and whether the handler returns or throws.                *)
(***************************************************************************)
EXTENDS Naturals, Sequences, FiniteSets, SequencesExt

CONSTANTS
  Threads,    (* every thread that enters the interpreter                   *)
  PyThreads,  (* threads the interpreter created: they start in Python code *)
  HostThread, (* the C++ thread that ran Py_Initialize, if it is one of     *)
              (* Threads: PythonInterpWrapper left it with its state saved  *)
  NoThread,   (* the lock is free                                           *)
  MaxGuards   (* bound: guards open at once on one thread                   *)

ASSUME GilAssumption ==
  /\ PyThreads \subseteq Threads
  /\ HostThread \notin PyThreads
  /\ NoThread \notin Threads
  /\ MaxGuards \in Nat

VARIABLES
  gil,     (* the thread holding the interpreter lock, or NoThread           *)
  guards,  (* per thread, the open guards, the innermost last                *)
  counter, (* per thread, gilstate_counter of its thread state; 0: no state  *)
  parked   (* per thread, TRUE while the evaluation loop gave up the lock    *)

gilVars == <<gil, guards, counter, parked>>

(***************************************************************************)
(* What a guard remembers: "locked" and "unlocked" are the two values of   *)
(* PyGILState_STATE, "saved" is the PyThreadState of a PyThreadStateLock.  *)
(***************************************************************************)
Guard == {"locked", "unlocked", "saved"}

(***************************************************************************)
(* A thread with open guards s is inside the interpreter.                  *)
(***************************************************************************)
Inside(t, s) == IF s = <<>> THEN t \in PyThreads ELSE Last(s) # "saved"

Init ==
  /\ gil = NoThread
  /\ guards  = [t \in Threads |-> IF t = HostThread THEN <<"saved">> ELSE <<>>]
  /\ counter = [t \in Threads |-> IF t \in PyThreads \cup {HostThread} THEN 1 ELSE 0]
  /\ parked  = [t \in Threads |-> t \in PyThreads]

-----------------------------------------------------------------------------
(* The four guard operations.                                              *)

Push(t, g) == guards' = [guards EXCEPT ![t] = Append(@, g)]
Pop(t) == guards' = [guards EXCEPT ![t] = Front(@)]

(* PyGilStateLock(): PyGILState_Ensure waits only when the calling thread  *)
(* is not the holder already, and reports which of the two it was.         *)
BugEnsureForgetsHolder(t) ==
  /\ ~parked[t]
  /\ Len(guards[t]) < MaxGuards
  /\ gil \in {t, NoThread}
  /\ gil' = t
  /\ Push(t, "unlocked")
  /\ counter' = [counter EXCEPT ![t] = @ + 1]
  /\ UNCHANGED parked

Ensure(t) ==
  /\ ~parked[t]
  /\ Len(guards[t]) < MaxGuards
  /\ gil \in {t, NoThread}
  /\ gil' = t
  /\ Push(t, IF gil = t THEN "locked" ELSE "unlocked")
  /\ counter' = [counter EXCEPT ![t] = @ + 1]
  /\ UNCHANGED parked

(* ~PyGilStateLock(): PyGILState_Release.  The last one of a native thread *)
(* deletes the thread state, which drops the lock too.                     *)
BugReleaseDropsGil(t) ==
  /\ gil = t /\ ~parked[t]
  /\ guards[t] # <<>> /\ Last(guards[t]) # "saved"
  /\ counter' = [counter EXCEPT ![t] = @ - 1]
  /\ gil' = NoThread
  /\ Pop(t)
  /\ UNCHANGED parked

BugReleaseTwice(t) ==   (* a guard passed by value: its destructor runs twice *)
  /\ gil = t /\ ~parked[t]
  /\ guards[t] # <<>> /\ Last(guards[t]) # "saved"
  /\ counter' = [counter EXCEPT ![t] = @ - 2]
  /\ gil' = IF counter[t] <= 2 \/ Last(guards[t]) = "unlocked" THEN NoThread ELSE t
  /\ Pop(t)
  /\ UNCHANGED parked

BugReleaseKeepsGil(t) ==
  /\ gil = t /\ ~parked[t]
  /\ guards[t] # <<>> /\ Last(guards[t]) # "saved"
  /\ counter' = [counter EXCEPT ![t] = @ - 1]
  /\ gil' = IF counter[t] = 1 THEN NoThread ELSE t
  /\ Pop(t)
  /\ UNCHANGED parked

Release(t) ==
  /\ gil = t /\ ~parked[t]
  /\ guards[t] # <<>> /\ Last(guards[t]) # "saved"
  /\ counter' = [counter EXCEPT ![t] = @ - 1]
  /\ gil' = IF counter[t] = 1 \/ Last(guards[t]) = "unlocked" THEN NoThread ELSE t
  /\ Pop(t)
  /\ UNCHANGED parked

(* PyThreadStateLock(): PyEval_SaveThread, fatal without the lock.         *)
Save(t) ==
  /\ gil = t /\ ~parked[t]
  /\ Len(guards[t]) < MaxGuards
  /\ gil' = NoThread
  /\ Push(t, "saved")
  /\ UNCHANGED <<counter, parked>>

(* ~PyThreadStateLock(): PyEval_RestoreThread waits for the lock.  The     *)
(* guard at the bottom of HostThread is PythonInterpWrapper's own: only    *)
(* the end of the process closes it.                                       *)
Restore(t) ==
  /\ gil = NoThread
  /\ guards[t] # <<>> /\ Last(guards[t]) = "saved"
  /\ t = HostThread => Len(guards[t]) > 1
  /\ gil' = t
  /\ Pop(t)
  /\ UNCHANGED <<counter, parked>>

-----------------------------------------------------------------------------
(* The evaluation loop drops the lock between bytecodes and around blocking *)
(* calls of Python's own library, and waits for it again.                   *)

Park(t) ==
  /\ gil = t
  /\ gil' = NoThread
  /\ parked' = [parked EXCEPT ![t] = TRUE]
  /\ UNCHANGED <<guards, counter>>

Unpark(t) ==
  /\ parked[t] /\ gil = NoThread
  /\ gil' = t
  /\ parked' = [parked EXCEPT ![t] = FALSE]
  /\ UNCHANGED <<guards, counter>>

-----------------------------------------------------------------------------
Next ==
  \E t \in Threads :
    Ensure(t) \/ Release(t) \/ Save(t) \/ Restore(t) \/ Park(t) \/ Unpark(t)

Spec == Init /\ [][Next]_gilVars

-----------------------------------------------------------------------------
(* Every variable keeps its type (PyObjectUtils.hpp, the guards' members).  *)
TypeOK ==
  /\ gil \in Threads \cup {NoThread}
  /\ guards \in [Threads -> Seq(Guard)]
  /\ counter \in [Threads -> Nat]
  /\ parked \in [Threads -> BOOLEAN]

(* A thread holds the lock exactly when its own open guards say it is inside *)
(* the interpreter and the evaluation loop has not parked it: no thread runs *)
(* Python unlocked, and none keeps the lock while it runs native code that   *)
(* a PyThreadStateLock was opened for.                                       *)
GilFollowsGuards ==
  \A t \in Threads :
    /\ gil = t <=> Inside(t, guards[t]) /\ ~parked[t]
    /\ parked[t] => Inside(t, guards[t])

(* A stack of guards of t in which each guard remembers what the guards      *)
(* beneath it say.                                                           *)
Nested(t, s) ==
  \A i \in 1..Len(s) :
    LET inside == IF i = 1 THEN t \in PyThreads ELSE s[i-1] # "saved"
    IN  \/ s[i] = "locked"   /\ inside
        \/ s[i] = "unlocked" /\ ~inside
        \/ s[i] = "saved"    /\ (inside \/ (i = 1 /\ t = HostThread))

(* A guard never remembers a state the thread was not in: _s is              *)
(* PyGILState_UNLOCKED exactly when the thread was outside the interpreter,  *)
(* and a thread state was saved only by a thread inside it.                  *)
GuardsNest == \A t \in Threads : Nested(t, guards[t])

(* The guards of s whose destructor is PyGILState_Release.                  *)
Ensures(s) == {i \in 1..Len(s) : s[i] # "saved"}

(* What gilstate_counter starts from: one for a state the interpreter made.  *)
Base(t) == IF t \in PyThreads \cup {HostThread} THEN 1 ELSE 0

(* gilstate_counter is one for the state the interpreter made, plus the open *)
(* PyGilStateLocks, so a thread state is deleted by the right destructor.    *)
CounterCountsGuards ==
  \A t \in Threads :
    counter[t] = Cardinality(Ensures(guards[t])) + Base(t)

(* The thread state a PyThreadStateLock will restore still exists: no        *)
(* PyGilStateLock beneath it can have been the one that deletes it.          *)
SavedStateAlive ==
  \A t \in Threads :
    (\E i \in 1..Len(guards[t]) : guards[t][i] = "saved") => counter[t] >= 1

(* Closing a guard leaves the thread as it was when the guard was opened:    *)
(* inside the interpreter with the lock, or outside it without.  This is     *)
(* what lets a handler be called from either side.                           *)
CloseRestores ==
  [][\A t \in Threads :
       Len(guards'[t]) < Len(guards[t]) =>
         (gil' = t <=> Inside(t, Front(guards[t])))]_gilVars
=============================================================================

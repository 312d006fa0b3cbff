------------------------------ MODULE CallErrors ------------------------------
(***************************************************************************)
(* How a failure crosses between C++ and Python on one thread.  C++ code   *)
(* fails by an exception in flight; Python code, and every function of the *)
(* C API, by a NULL result and the thread's error indicator.  Calls nest:  *)
(* C++ code calls an operation of PythonProxyHandle, which runs Python     *)
(* code, which calls a method of the Proxy type, which runs C++ code, and  *)
(* so on.  GilGuards and Bridge say which thread runs.                     *)
(***************************************************************************)
EXTENDS Naturals, SequencesExt

CONSTANTS
  HandleOps, (* the operations of PythonProxyHandle that C++ code uses        *)
  ProxyOps,  (* the methods of Proxy that Python code uses                    *)
  Texts,     (* what str() of an exception can be: "text", or "blank"         *)
  MissingAt, (* how deep C++ code may call a method that is not there, on a    *)
             (* thread with a state of its own (TRUE) and on another (FALSE)  *)
  MaxDepth   (* bound: frames on the stack                                    *)

(* Methods that catch an exception: call(), callProxy(), convert(), compare, *)
(* setattr and those of ProxyEnvironment set an error, "getattr" does not.   *)
(* "str" stands for the methods without a try block.                         *)
AllHandleOps == {"call", "get", "set", "compare", "hash", "str", "find"}
AllProxyOps == {"call", "getattr", "hash", "str"}

ASSUME ErrorsAssumption ==
  /\ HandleOps \subseteq AllHandleOps /\ ProxyOps \subseteq AllProxyOps
  /\ Texts \subseteq {"text", "blank"}
  /\ MissingAt \in [BOOLEAN -> SUBSET Nat] /\ MaxDepth \in Nat

VARIABLES
  stack, (* frames, the running one last                                      *)
  err,   (* the error indicator: "none", or the text of the exception         *)
  reply, (* what the last frame is given: "value", "null", "throw" for an     *)
         (* exception in flight, "running" when it runs on, or "crash"        *)
  owned  (* whether the thread has an interpreter state of its own, made by   *)
         (* Py_Initialize() or by Python, which PyGILState_Release() keeps     *)

vars == <<stack, err, reply, owned>>

Frame(kind, op) == [kind |-> kind, op |-> op]
Callee == [native |-> "handle", handle |-> "python",
           python |-> "proxy", proxy |-> "native"]

Top == Last(stack)
Runs(kind) == Top.kind = kind /\ reply = "running"

Init ==
  /\ stack = <<Frame("native", "host")>>
  /\ err = "none"
  /\ reply = "running"
  /\ owned \in BOOLEAN

-----------------------------------------------------------------------------
(* C++ code, and Python code with what the interpreter checks.              *)

(* An operation that runs Python code: a callee, an attribute's getter, ... *)
CallHandle(op) ==
  /\ Runs("native") /\ Len(stack) + 2 <= MaxDepth
  /\ stack' = stack \o <<Frame("handle", op), Frame("python", "code")>>
  /\ UNCHANGED <<err, reply>>

(* C++ code handles an exception that an operation threw.                   *)
NativeCatch ==
  /\ Top.kind = "native" /\ reply = "throw" /\ reply' = "running"
  /\ UNCHANGED <<stack, err>>

(* C++ code that Python called ends, or passes an exception on.             *)
NativeReturn ==
  /\ Top.kind = "native" /\ Len(stack) > 1
  /\ stack' = Front(stack)
  /\ reply \in {"running", "throw"}
  /\ reply' \in IF reply = "throw" THEN {"throw"} ELSE {"value", "throw"}
  /\ UNCHANGED err

CallProxy(op) ==
  /\ Runs("python") /\ Len(stack) + 2 <= MaxDepth
  /\ stack' = stack \o <<Frame("proxy", op), Frame("native", "method")>>
  /\ UNCHANGED <<err, reply>>

(* The interpreter checks what a method gave: a value with an error set, or *)
(* NULL without, is a SystemError.                                          *)
PyReceive ==
  /\ Top.kind = "python" /\ reply \in {"value", "null"}
  /\ \/ reply = "value" /\ err = "none" /\ reply' = "running" /\ UNCHANGED err
     \/ (reply = "value") = (err # "none") /\ reply' = "null" /\ err' = "text"
     \/ reply = "null" /\ err # "none" /\ reply' = "running" /\ err' = "none"
  /\ UNCHANGED stack

(* Python code ends with a value, an exception of its own or one that it    *)
(* did not catch.                                                           *)
PyReturn ==
  /\ Runs("python") /\ stack' = Front(stack)
  /\ IF err = "none" THEN reply' = "value" /\ UNCHANGED err
                     ELSE reply' = "null" /\ err' = "text"

PyRaise ==
  /\ Top.kind = "python"
  /\ \/ reply = "running" /\ err' \in Texts
     \/ reply = "null" /\ err # "none" /\ UNCHANGED err
  /\ stack' = Front(stack) /\ reply' = "null"

-----------------------------------------------------------------------------
(* PythonProxyHandle.                                                       *)

(* The outermost PyGilStateLock ends: a state that was made for it goes.    *)
Release(e) == err' = IF Len(stack') = 1 /\ ~owned THEN "none" ELSE e

(* getErrorString(): is there a message, and what is left of the indicator. *)
HasMessage == err = "text"
BugCleared == err            (* PyErr_Restore in the place of PyErr_Clear   *)
Cleared == "none"

(* call(): a method that is not there throws before getErrorString().       *)
CallMissing ==
  /\ Runs("native") /\ "call" \in HandleOps /\ Len(stack) \in MissingAt[owned]
  /\ UNCHANGED stack /\ reply' = "throw"
  /\ Release("text")

(* ... and so does call() for what it refuses before its Python code runs: a *)
(* null object, an unknown operation, arguments for what is no callable, an  *)
(* argument that cannot be converted.  The value of a field needs no code:   *)
(* the caller runs on.                                                       *)
CallRefuse ==
  /\ Runs("native") /\ HandleOps \cap {"call", "get", "set"} # {}
  /\ UNCHANGED stack /\ reply' = "throw"
  /\ Release(err)

(* call() and its field accessors: an exception without a message is a      *)
(* result; call() looks at the class of its result, the others wrap it.     *)
BugAnswerCall(op) ==         (* a null result is looked at first            *)
  /\ op \in {"call", "get", "set"}
  /\ Release(Cleared)
  /\ reply' = IF reply = "null" /\ op # "call" THEN "running" ELSE
              IF HasMessage THEN "throw" ELSE "running"

AnswerCall(op) ==
  /\ op \in {"call", "get", "set"}
  /\ Release(Cleared)
  /\ reply' = IF HasMessage THEN "throw"
              ELSE IF op = "call" /\ reply = "null" THEN "crash" ELSE "running"

(* compareTo(): "equal" when the comparison failed without a message.       *)
AnswerCompare(op) ==
  /\ op = "compare"
  /\ \/ reply = "value" /\ reply' = "running" /\ Release(err)
     \/ Release(Cleared) /\ reply' = IF HasMessage THEN "throw" ELSE "running"

(* hashCode() gives -1 for an object without a hash; toString() and         *)
(* getClassName() read a string that is not there.                          *)
AnswerHash(op) == op = "hash" /\ reply' = "running" /\ Release(err)
AnswerStr(op) ==
  /\ op = "str" /\ Release(err)
  /\ reply' = IF reply = "null" THEN "crash" ELSE "running"

(* findProxy() of the environment.                                          *)
AnswerFind(op) ==
  /\ op = "find"
  /\ IF reply = "null" THEN reply' = "throw" /\ Release(Cleared)
                       ELSE reply' = "running" /\ Release(err)

HandleAnswer ==
  /\ Top.kind = "handle" /\ reply \in {"value", "null"}
  /\ stack' = Front(stack)
  /\ \/ AnswerCall(Top.op) \/ AnswerCompare(Top.op)
     \/ AnswerHash(Top.op) \/ AnswerStr(Top.op) \/ AnswerFind(Top.op)

-----------------------------------------------------------------------------
(* The methods of Proxy: what the catch clause of each does.                *)
Catch(op) ==
  \/ op = "call" /\ err' = "text" /\ reply' = "null"
  \/ op = "getattr" /\ reply' = "value" /\ UNCHANGED err
  \/ op = "hash" /\ reply' = "null" /\ UNCHANGED err
  \/ op = "str" /\ reply' = "crash" /\ UNCHANGED err

BugProxyAnswer ==            (* the call is outside of the try block        *)
  /\ Top.kind = "proxy"
  /\ stack' = Front(stack)
  /\ UNCHANGED <<err, reply>>

ProxyAnswer ==
  /\ Top.kind = "proxy"
  /\ stack' = Front(stack)
  /\ IF reply = "throw" THEN Catch(Top.op)
                        ELSE reply' = "value" /\ UNCHANGED err

-----------------------------------------------------------------------------
Next ==
  /\ \/ \E op \in HandleOps : CallHandle(op)
     \/ \E op \in ProxyOps : CallProxy(op)
     \/ CallMissing \/ CallRefuse \/ HandleAnswer \/ ProxyAnswer
     \/ NativeCatch \/ NativeReturn
     \/ PyReceive \/ PyReturn \/ PyRaise
  /\ UNCHANGED owned

Spec == Init /\ [][Next]_vars

-----------------------------------------------------------------------------
(* Properties.                                                              *)

AllFrames ==
  [kind : DOMAIN Callee, op : HandleOps \cup ProxyOps \cup {"host", "code", "method"}]

Alternate(s) ==
  /\ s[1].kind = "native"
  /\ \A i \in 1 .. Len(s) - 1 : s[i + 1].kind = Callee[s[i].kind]

Replies == [
  native |-> {"running", "throw", "crash"},
  python |-> {"running", "value", "null", "crash"},
  handle |-> {"value", "null"},
  proxy  |-> {"value", "throw"} ]

(* Frames alternate, and each is given a kind of reply that it understands:  *)
(* no exception reaches Python code, and no NULL the code that calls a       *)
(* handle.                                                                   *)
TypeOK ==
  /\ stack \in Seq(AllFrames) /\ Len(stack) \in 1 .. MaxDepth \cup {1}
  /\ Alternate(stack)
  /\ err \in {"none", "text", "blank"} /\ owned \in BOOLEAN
  /\ reply \in Replies[Top.kind]

(* The indicator is set when and only when a result is NULL: nothing runs,   *)
(* in C++ or in Python, with the error of something that failed before it,   *)
(* and no failure is without its exception.                                  *)
ErrorIffNull == err # "none" <=> reply = "null"

(* An operation whose Python code ended throws when, and only when, that     *)
(* code failed; a method of Proxy fails in Python when, and only when, what  *)
(* it ran in C++ threw, but for getattr, which then gives a callable of that *)
(* name: what has run neither loses a failure nor makes one up.  (What is    *)
(* refused before, by CallRefuse, throws with nothing to answer.)            *)
Answers(kind) == Top.kind = kind /\ Len(stack') < Len(stack)

MethodAnswer ==
  IF reply = "throw" /\ Top.op # "getattr" THEN "null" ELSE "value"

AnswersTrue ==
  [][ /\ Answers("handle") => (reply' = "throw" <=> reply = "null")
      /\ Answers("proxy") => reply' = MethodAnswer ]_vars
=============================================================================

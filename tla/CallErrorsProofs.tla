--------------------------- MODULE CallErrorsProofs ---------------------------
(***************************************************************************)
(* What CallErrors promises of operations that report their failures, for  *)
(* any depth of calls within each other.                                   *)
(***************************************************************************)
EXTENDS CallErrors, SequenceTheorems, TLAPS

(* Operations and methods with a way to report an error, exceptions with a  *)
(* text, and missing methods called by no more than the outermost code of a *)
(* thread of the framework.                                                 *)
Reporting ==
  /\ HandleOps \subseteq {"call", "get", "set", "compare", "find"}
  /\ ProxyOps \subseteq {"call", "getattr"}
  /\ Texts \subseteq {"text"}
  /\ MissingAt[TRUE] = {} /\ MissingAt[FALSE] \subseteq {1}

IInv == TypeOK /\ ErrorIffNull /\ err # "blank"

-----------------------------------------------------------------------------
(* Lemmas about stacks of frames.                                           *)

(* A call puts two frames on the stack.                                     *)
LEMMA CallFrames ==
  ASSUME NEW s \in Seq(AllFrames), Len(s) >= 1, Alternate(s),
         NEW f \in AllFrames, NEW g \in AllFrames,
         f.kind = Callee[Last(s).kind], g.kind = Callee[f.kind]
  PROVE  /\ s \o <<f, g>> \in Seq(AllFrames)
         /\ Len(s \o <<f, g>>) = Len(s) + 2
         /\ Alternate(s \o <<f, g>>)
         /\ Last(s \o <<f, g>>) = g
<1> DEFINE n == Len(s)
           a == s \o <<f, g>>
<1>1. n \in Nat \ {0} /\ <<f, g>> \in Seq(AllFrames) /\ Len(<<f, g>>) = 2
  OBVIOUS
<1>2. /\ a \in Seq(AllFrames) /\ Len(a) = n + 2
      /\ \A i \in 1 .. n : a[i] = s[i]
      /\ a[n + 1] = f /\ a[n + 2] = g
  BY <1>1
<1>3. Last(s) = s[n] /\ Last(a) = a[n + 2]
  BY <1>2 DEF Last
<1> HIDE DEF a, n
<1>4. a[1].kind = "native"
  BY <1>1, <1>2 DEF Alternate
<1>5. ASSUME NEW i \in 1 .. n + 1
      PROVE  a[i + 1].kind = Callee[a[i].kind]
  <2>1. CASE i < n
    <3>1. i \in 1 .. n /\ i + 1 \in 1 .. n /\ i \in 1 .. n - 1
      BY <1>1, <2>1
    <3> QED
      BY <1>2, <3>1 DEF Alternate, n
  <2>2. CASE i = n
    BY <1>1, <1>2, <1>3, <2>2
  <2>3. CASE i = n + 1
    BY <1>1, <1>2, <2>3
  <2> QED
    BY <1>1, <2>1, <2>2, <2>3
<1>6. Alternate(a)
  BY <1>1, <1>2, <1>4, <1>5 DEF Alternate
<1> QED
  BY <1>2, <1>3, <1>6 DEF a, n

(* The end of a frame leaves the one that called it.                        *)
LEMMA EndFrame ==
  ASSUME NEW s \in Seq(AllFrames), Len(s) > 1, Alternate(s)
  PROVE  /\ Front(s) \in Seq(AllFrames)
         /\ Len(Front(s)) = Len(s) - 1
         /\ Alternate(Front(s))
         /\ Last(s).kind = Callee[Last(Front(s)).kind]
         /\ Last(Front(s)).kind \in DOMAIN Callee
<1> DEFINE n == Len(s)
           a == Front(s)
<1>1. n \in Nat /\ n > 1
  OBVIOUS
<1>2. a \in Seq(AllFrames) /\ Len(a) = n - 1 /\ \A i \in 1 .. n - 1 : a[i] = s[i]
  <2> DEFINE m == n - 1
             b == SubSeq(s, 1, m)
  <2>0. m \in Nat \ {0} /\ 1 .. m \subseteq 1 .. n
    BY <1>1, SMTT(30)
  <2>1. m \in Nat \ {0} /\ \A i \in 1 .. m : s[i] \in AllFrames
    <3>1. \A i \in 1 .. n : s[i] \in AllFrames
      OBVIOUS
    <3> HIDE DEF m, n
    <3> QED
      BY <2>0, <3>1
  <2>2. /\ b \in Seq(AllFrames)
        /\ Len(b) = IF 1 <= m THEN m - 1 + 1 ELSE 0
        /\ \A i \in 1 .. m - 1 + 1 : b[i] = s[1 + i - 1]
    <3> HIDE DEF m
    <3> QED
      BY <2>1, SubSeqProperties
  <2>3. a = b
    BY DEF Front
  <2> HIDE DEF b, a
  <2> QED
    BY <1>1, <2>1, <2>2, <2>3
<1>3. Last(s) = s[n] /\ Last(a) = a[n - 1]
  BY <1>1, <1>2 DEF Last
<1> HIDE DEF a
<1>4. Last(s).kind = Callee[Last(a).kind] /\ Last(a) \in AllFrames
  <2>1. n - 1 \in 1 .. n - 1 /\ n - 1 + 1 = n
    BY <1>1
  <2> QED
    BY <1>1, <1>2, <1>3, <2>1 DEF Alternate
<1>5. ASSUME NEW i \in 1 .. n - 1 - 1
      PROVE  a[i + 1].kind = Callee[a[i].kind]
  <2>1. i \in 1 .. n - 1 /\ i + 1 \in 1 .. n - 1
    BY <1>1
  <2> QED
    BY <1>2, <2>1 DEF Alternate
<1>6. Alternate(a)
  BY <1>1, <1>2, <1>5 DEF Alternate
<1> QED
  BY <1>2, <1>4, <1>6 DEF a, AllFrames

(* The outermost frame is C++ code, so that any other has a caller.         *)
LEMMA HasCaller ==
  ASSUME TypeOK, Top.kind # "native"
  PROVE  Len(stack) > 1
  BY DEF TypeOK, Top, Last, Alternate

-----------------------------------------------------------------------------
(* The invariant holds initially and every action preserves it.             *)

(* After a call, the new innermost frame is the last of the two.            *)
LEMMA Called ==
  ASSUME TypeOK, NEW f \in AllFrames, NEW g \in AllFrames,
         f.kind = Callee[Top.kind], g.kind = Callee[f.kind],
         Len(stack) + 2 <= MaxDepth, stack' = stack \o <<f, g>>
  PROVE  /\ stack' \in Seq(AllFrames) /\ Len(stack') \in 1 .. MaxDepth
         /\ Alternate(stack') /\ Top' = g
<1>1. Len(stack) \in Nat /\ Len(stack) >= 1 /\ MaxDepth \in Nat
  <2>1. Len(stack) \in 1 .. MaxDepth \/ Len(stack) = 1
    BY DEF TypeOK
  <2>2. MaxDepth \in Nat
    BY ErrorsAssumption
  <2>3. CASE Len(stack) \in 1 .. MaxDepth
    BY <2>2, <2>3
  <2>4. CASE Len(stack) = 1
    BY <2>2, <2>4
  <2> QED
    BY <2>1, <2>3, <2>4
<1>2. /\ stack' \in Seq(AllFrames) /\ Len(stack') = Len(stack) + 2
      /\ Alternate(stack') /\ Last(stack') = g
  BY <1>1, CallFrames DEF TypeOK, Top
<1> QED
  BY <1>1, <1>2 DEF Top

(* After the end of a frame, its caller is the innermost one.               *)
LEMMA Ended ==
  ASSUME TypeOK, Len(stack) > 1, stack' = Front(stack)
  PROVE  /\ stack' \in Seq(AllFrames) /\ Len(stack') \in 1 .. MaxDepth \cup {1}
         /\ Len(stack') < Len(stack)
         /\ Alternate(stack') /\ Top.kind = Callee[Top'.kind]
         /\ Top'.kind \in {"native", "handle", "python", "proxy"}
<1>1. Len(stack) \in Nat /\ Len(stack) \in 1 .. MaxDepth \cup {1} /\ MaxDepth \in Nat
  BY ErrorsAssumption DEF TypeOK
<1>2. /\ stack' \in Seq(AllFrames) /\ Len(stack') = Len(stack) - 1 /\ Alternate(stack')
      /\ Last(stack).kind = Callee[Last(stack').kind]
      /\ Last(stack').kind \in DOMAIN Callee
  BY EndFrame DEF TypeOK
<1> QED
  BY <1>1, <1>2 DEF Top, Callee

(* Every frame is of an operation that can report an error.                 *)
LEMMA TopReports ==
  ASSUME Reporting, TypeOK
  PROVE  Top.op \notin {"hash", "str"}
<1>1. stack \in Seq(AllFrames) /\ Len(stack) \in 1 .. Len(stack)
  <2>1. stack \in Seq(AllFrames) /\ Len(stack) \in 1 .. MaxDepth \cup {1}
    BY DEF TypeOK
  <2> QED
    BY <2>1, ErrorsAssumption, SMTT(30)
<1>2. Top \in AllFrames
  BY <1>1 DEF Top, Last
<1> QED
  BY <1>2 DEF AllFrames, Reporting

(* What an operation answers, and that it leaves the indicator clear.       *)
LEMMA AnswerHandle ==
  ASSUME Reporting, IInv, HandleAnswer
  PROVE  /\ err' = "none" /\ reply' \in {"running", "throw"}
         /\ reply' = "throw" <=> reply = "null"
<1>1. /\ reply \in {"value", "null"} /\ err \in {"none", "text"}
      /\ err = "text" <=> reply = "null"
  BY DEF HandleAnswer, IInv, TypeOK, ErrorIffNull
<1>2. CASE AnswerCall(Top.op)
  BY <1>1, <1>2 DEF AnswerCall, Release, Cleared, HasMessage
<1>3. CASE AnswerCompare(Top.op)
  BY <1>1, <1>3 DEF AnswerCompare, Release, Cleared, HasMessage
<1>4. Top.op \notin {"hash", "str"}
  BY TopReports DEF IInv
<1>5. CASE AnswerFind(Top.op)
  BY <1>1, <1>5 DEF AnswerFind, Release, Cleared
<1> QED
  BY <1>2, <1>3, <1>4, <1>5 DEF HandleAnswer, AnswerHash, AnswerStr

(* What a method answers, and that it sets the indicator if and only if it  *)
(* gives NULL.                                                              *)
LEMMA AnswerProxy ==
  ASSUME Reporting, TypeOK, ProxyAnswer, reply \in {"value", "throw"}, err = "none"
  PROVE  /\ \/ err' = "text" /\ reply' = "null" /\ reply = "throw"
            \/ err' = "none" /\ reply' = "value"
         /\ reply' = MethodAnswer
  BY TopReports DEF ProxyAnswer, Catch, MethodAnswer

LEMMA InitInvariant == Init => IInv
<1> SUFFICES ASSUME Init PROVE IInv
  OBVIOUS
<1>1. stack \in Seq(AllFrames) /\ Len(stack) = 1 /\ stack[1].kind = "native"
  BY DEF Init, Frame, AllFrames, Callee
<1>2. Top.kind = "native"
  BY <1>1 DEF Top, Last
<1>3. Alternate(stack)
  BY <1>1 DEF Alternate
<1> QED
  BY <1>1, <1>2, <1>3 DEF Init, IInv, TypeOK, ErrorIffNull, Replies

LEMMA StepInvariant == Reporting /\ IInv /\ [Next]_vars => IInv'
<1> SUFFICES ASSUME Reporting, IInv, [Next]_vars
             PROVE  IInv'
  OBVIOUS
<1>1. /\ TypeOK /\ ErrorIffNull /\ err \in {"none", "text"}
      /\ reply = "null" => err = "text"
      /\ reply # "null" => err = "none"
  BY DEF IInv, TypeOK, ErrorIffNull
<1>2. ASSUME NEW op \in HandleOps, CallHandle(op), UNCHANGED owned  PROVE IInv'
  <2> DEFINE f == Frame("handle", op)
             g == Frame("python", "code")
  <2>1. f \in AllFrames /\ g \in AllFrames /\ f.kind = "handle" /\ g.kind = "python"
    BY DEF Frame, AllFrames, Callee
  <2>2. Top.kind = "native" /\ reply = "running" /\ UNCHANGED <<err, reply>>
    BY <1>2 DEF CallHandle, Runs
  <2>3. f.kind = Callee[Top.kind] /\ g.kind = Callee[f.kind]
    BY <2>1, <2>2 DEF Callee
  <2>4. /\ stack' \in Seq(AllFrames) /\ Len(stack') \in 1 .. MaxDepth
        /\ Alternate(stack') /\ Top' = g
    <3> HIDE DEF f, g
    <3>1. Len(stack) + 2 <= MaxDepth /\ stack' = stack \o <<f, g>>
      BY <1>2 DEF CallHandle, f, g
    <3> QED
      BY <1>1, <2>1, <2>3, <3>1, Called
  <2> QED
    BY <1>1, <1>2, <2>1, <2>2, <2>4 DEF IInv, TypeOK, ErrorIffNull, Replies
<1>3. ASSUME NEW op \in ProxyOps, CallProxy(op), UNCHANGED owned  PROVE IInv'
  <2> DEFINE f == Frame("proxy", op)
             g == Frame("native", "method")
  <2>1. f \in AllFrames /\ g \in AllFrames /\ f.kind = "proxy" /\ g.kind = "native"
    BY DEF Frame, AllFrames, Callee
  <2>2. Top.kind = "python" /\ reply = "running" /\ UNCHANGED <<err, reply>>
    BY <1>3 DEF CallProxy, Runs
  <2>3. f.kind = Callee[Top.kind] /\ g.kind = Callee[f.kind]
    BY <2>1, <2>2 DEF Callee
  <2>4. /\ stack' \in Seq(AllFrames) /\ Len(stack') \in 1 .. MaxDepth
        /\ Alternate(stack') /\ Top' = g
    <3> HIDE DEF f, g
    <3>1. Len(stack) + 2 <= MaxDepth /\ stack' = stack \o <<f, g>>
      BY <1>3 DEF CallProxy, f, g
    <3> QED
      BY <1>1, <2>1, <2>3, <3>1, Called
  <2> QED
    BY <1>1, <1>3, <2>1, <2>2, <2>4 DEF IInv, TypeOK, ErrorIffNull, Replies
<1>4. CASE CallMissing /\ UNCHANGED owned
  <2>1. /\ Top.kind = "native" /\ stack' = stack /\ reply' = "throw"
        /\ Len(stack) \in MissingAt[owned]
    BY <1>4 DEF CallMissing, Runs
  <2>2. owned = FALSE /\ Len(stack) = 1
    BY <1>1, <2>1 DEF Reporting, TypeOK
  <2>3. err' = "none"
    BY <1>4, <2>1, <2>2 DEF CallMissing, Release
  <2> QED
    BY <1>1, <1>4, <2>1, <2>3 DEF IInv, TypeOK, ErrorIffNull, Replies, Top
<1>5. CASE HandleAnswer /\ UNCHANGED owned
  <2>1. Top.kind = "handle" /\ reply \in {"value", "null"} /\ stack' = Front(stack)
    BY <1>5 DEF HandleAnswer
  <2>2. Len(stack) > 1
    BY <1>1, <2>1, HasCaller
  <2>3. /\ stack' \in Seq(AllFrames) /\ Len(stack') \in 1 .. MaxDepth \cup {1}
        /\ Alternate(stack') /\ Top'.kind = "native"
    BY <1>1, <2>1, <2>2, Ended DEF Callee
  <2>4. err' = "none" /\ reply' \in {"running", "throw"}
    BY <1>1, <1>5, AnswerHandle
  <2> QED
    BY <1>1, <1>5, <2>3, <2>4 DEF IInv, TypeOK, ErrorIffNull, Replies
<1>6. CASE ProxyAnswer /\ UNCHANGED owned
  <2>1. Top.kind = "proxy" /\ stack' = Front(stack)
    BY <1>6 DEF ProxyAnswer
  <2>2. Len(stack) > 1
    BY <1>1, <2>1, HasCaller
  <2>3. /\ stack' \in Seq(AllFrames) /\ Len(stack') \in 1 .. MaxDepth \cup {1}
        /\ Alternate(stack') /\ Top'.kind = "python"
    BY <1>1, <2>1, <2>2, Ended DEF Callee
  <2>4. reply \in {"value", "throw"} /\ err = "none"
    BY <1>1, <2>1 DEF TypeOK, Replies
  <2>5. \/ err' = "text" /\ reply' = "null"
        \/ err' = "none" /\ reply' = "value"
    BY <1>1, <1>6, <2>4, AnswerProxy
  <2> QED
    BY <1>1, <1>6, <2>3, <2>5 DEF IInv, TypeOK, ErrorIffNull, Replies
<1>7. CASE NativeCatch /\ UNCHANGED owned
  BY <1>1, <1>7 DEF NativeCatch, IInv, TypeOK, ErrorIffNull, Replies, Top
<1>8. CASE NativeReturn /\ UNCHANGED owned
  <2>1. /\ Top.kind = "native" /\ Len(stack) > 1 /\ stack' = Front(stack)
        /\ reply' \in {"value", "throw"} /\ err' = err /\ err = "none"
    BY <1>1, <1>8 DEF NativeReturn
  <2>2. /\ stack' \in Seq(AllFrames) /\ Len(stack') \in 1 .. MaxDepth \cup {1}
        /\ Alternate(stack') /\ Top'.kind = "proxy"
    BY <1>1, <2>1, Ended DEF Callee
  <2> QED
    BY <1>1, <1>8, <2>1, <2>2 DEF IInv, TypeOK, ErrorIffNull, Replies
<1>9. CASE PyReceive /\ UNCHANGED owned
  <2>1. Top.kind = "python" /\ stack' = stack /\ reply' = "running" /\ err' = "none"
    BY <1>1, <1>9 DEF PyReceive
  <2> QED
    BY <1>1, <1>9, <2>1 DEF IInv, TypeOK, ErrorIffNull, Replies, Top
<1>10. CASE (PyReturn \/ PyRaise) /\ UNCHANGED owned
  <2>1. /\ Top.kind = "python" /\ stack' = Front(stack)
        /\ \/ reply' = "value" /\ err' = "none"
           \/ reply' = "null" /\ err' = "text"
    BY <1>1, <1>10 DEF PyReturn, PyRaise, Runs, Reporting
  <2>2. Len(stack) > 1
    BY <1>1, <2>1, HasCaller
  <2>3. /\ stack' \in Seq(AllFrames) /\ Len(stack') \in 1 .. MaxDepth \cup {1}
        /\ Alternate(stack') /\ Top'.kind = "handle"
    BY <1>1, <2>1, <2>2, Ended DEF Callee
  <2> QED
    BY <1>1, <1>10, <2>1, <2>3 DEF IInv, TypeOK, ErrorIffNull, Replies
<1>11. CASE CallRefuse /\ UNCHANGED owned
  <2>1. /\ Top.kind = "native" /\ stack' = stack /\ reply' = "throw" /\ err' = "none"
    BY <1>1, <1>11 DEF CallRefuse, Runs, Release
  <2> QED
    BY <1>1, <1>11, <2>1 DEF IInv, TypeOK, ErrorIffNull, Replies, Top
<1>12. CASE UNCHANGED vars
  BY <1>1, <1>12 DEF vars, IInv, TypeOK, ErrorIffNull, Top
<1> QED
  BY <1>2, <1>3, <1>4, <1>5, <1>6, <1>7, <1>8, <1>9, <1>10, <1>11, <1>12 DEF Next

(* The only steps that answer a call are those that end the frame of the    *)
(* operation, or of the method, that was called.                            *)
LEMMA AnswerStep ==
  ASSUME Reporting, IInv, [Next]_vars
  PROVE  [/\ Answers("handle") => (reply' = "throw" <=> reply = "null")
          /\ Answers("proxy") => reply' = MethodAnswer]_vars
<1> SUFFICES ASSUME Next
             PROVE  /\ Answers("handle") => (reply' = "throw" <=> reply = "null")
                    /\ Answers("proxy") => reply' = MethodAnswer
  OBVIOUS
<1>1. CASE HandleAnswer
  <2>1. Top.kind = "handle"
    BY <1>1 DEF HandleAnswer
  <2>2. reply' = "throw" <=> reply = "null"
    BY <1>1, AnswerHandle
  <2> QED
    BY <2>1, <2>2 DEF Answers
<1>2. CASE ProxyAnswer
  <2>1. Top.kind = "proxy" /\ reply \in {"value", "throw"} /\ err = "none"
    BY <1>2 DEF ProxyAnswer, IInv, TypeOK, ErrorIffNull, Replies
  <2>2. reply' = MethodAnswer
    BY <1>2, <2>1, AnswerProxy DEF IInv
  <2> QED
    BY <2>1, <2>2 DEF Answers
<1>3. ASSUME ~ HandleAnswer, ~ ProxyAnswer
      PROVE  Top.kind \notin {"handle", "proxy"}
  BY <1>3 DEF Next, CallHandle, CallProxy, CallMissing, CallRefuse, NativeCatch,
              NativeReturn, PyReceive, PyReturn, PyRaise, Runs
<1> QED
  BY <1>1, <1>2, <1>3 DEF Answers

(* The invariant that the theorems rest on.                                 *)
THEOREM InvariantHolds == Reporting => (Spec => []IInv)
<1> SUFFICES ASSUME Reporting PROVE Spec => []IInv
  OBVIOUS
<1>1. IInv /\ [Next]_vars => IInv'
  BY StepInvariant
<1> QED
  BY InitInvariant, <1>1, PTL DEF Spec

(* Frames are given only the replies that they understand: no exception     *)
(* reaches Python code, and no NULL the code that uses a handle.            *)
THEOREM TypeCorrect == Reporting => (Spec => []TypeOK)
<1> SUFFICES ASSUME Reporting PROVE Spec => []TypeOK
  OBVIOUS
<1>1. IInv => TypeOK
  BY DEF IInv
<1> QED
  BY InvariantHolds, <1>1, PTL

(* However deep the calls, the error indicator is set when and only when a  *)
(* result is NULL.                                                          *)
THEOREM IndicatorExact == Reporting => (Spec => []ErrorIffNull)
<1> SUFFICES ASSUME Reporting PROVE Spec => []ErrorIffNull
  OBVIOUS
<1>1. IInv => ErrorIffNull
  BY DEF IInv
<1> QED
  BY InvariantHolds, <1>1, PTL

(* An operation or a method whose code in the other language has run        *)
(* reports a failure exactly when that code failed, but for getattr, which  *)
(* reports none.                                                            *)
THEOREM FailuresKept == Reporting => (Spec => AnswersTrue)
<1> SUFFICES ASSUME Reporting PROVE Spec => AnswersTrue
  OBVIOUS
<1> DEFINE A == /\ Answers("handle") => (reply' = "throw" <=> reply = "null")
                /\ Answers("proxy") => reply' = MethodAnswer
<1>1. IInv /\ [Next]_vars => [A]_vars
  BY AnswerStep
<1> QED
  BY InvariantHolds, <1>1, PTL DEF Spec, AnswersTrue
=============================================================================

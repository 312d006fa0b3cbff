--------------------------- MODULE IntConvertProofs ---------------------------
(***************************************************************************)
(* For which vectors and integers the conversions of IntConvert are exact, *)
(* whatever the widths of the types: all vectors but those of unsigned     *)
(* types that are not narrower than long, and the integers that one of the *)
(* two 64 bit types represents.                                            *)
(***************************************************************************)
EXTENDS IntConvert, TLAPS

FitsVector(T) == T = "sllong" \/ (T # "ullong" /\ RangeOf(T) \subseteq RangeOf("slong"))

Fits ==
  /\ \A T \in VectorTypes : FitsVector(T)
  /\ PyInts \subseteq RangeOf("sllong") \cup RangeOf("ullong")

IInv ==
  /\ TypeOK /\ ValueKept
  /\ value \in RangeOf("sllong") \cup RangeOf("ullong")

(* Widths are positive, and ordered.                                        *)
LEMMA Halves ==
  /\ \A T \in Types : HalfOf(T) \in Nat \ {0}
  /\ \A T \in Types : HalfOf(T) <= HalfOf("sllong")
  /\ \A T \in Types : ~Is64(T) => HalfOf(T) <= HalfOf("slong")
  /\ HalfOf("ulong") = HalfOf("slong") /\ HalfOf("ullong") = HalfOf("sllong")
<1>1. Half \in [Widths -> Nat \ {0}]
  BY IntAssumption
<1>2. \A w \in Widths : Half[w] \in Nat \ {0}
  BY <1>1
<1>3. {"char", "short", "int", "long", "llong"} = Widths
  BY DEF Widths
<1>4. \A T \in Types : WidthOf[T] \in Widths
  BY DEF Types, WidthOf, Widths
<1>5. \A T \in Types : HalfOf(T) \in Nat \ {0}
  BY <1>2, <1>4 DEF HalfOf
<1>6. /\ Half["char"] <= Half["llong"] /\ Half["short"] <= Half["llong"]
      /\ Half["int"] <= Half["llong"] /\ Half["long"] <= Half["llong"]
      /\ Half["char"] <= Half["long"] /\ Half["short"] <= Half["long"]
      /\ Half["int"] <= Half["long"]
  <2>1. /\ Half["char"] \in Nat /\ Half["short"] \in Nat /\ Half["int"] \in Nat
        /\ Half["long"] \in Nat /\ Half["llong"] \in Nat
    BY <1>2 DEF Widths
  <2> QED BY <2>1, IntAssumption
<1>7. \A w \in Widths : Half[w] <= Half["llong"]
  BY <1>6, <1>2 DEF Widths
<1>8. \A w \in Widths : Half[w] # Half["llong"] => Half[w] <= Half["long"]
  BY <1>6, <1>2 DEF Widths
<1>9. /\ HalfOf("sllong") = Half["llong"] /\ HalfOf("ullong") = Half["llong"]
      /\ HalfOf("slong") = Half["long"] /\ HalfOf("ulong") = Half["long"]
  BY DEF HalfOf, WidthOf
<1>10. \A T \in Types : HalfOf(T) <= HalfOf("sllong")
  BY <1>4, <1>7, <1>9 DEF HalfOf
<1>11. \A T \in Types : ~Is64(T) => HalfOf(T) <= HalfOf("slong")
  BY <1>4, <1>8, <1>9 DEF HalfOf, Is64
<1> QED BY <1>5, <1>9, <1>10, <1>11

(* The range of every type is within those of the two 64 bit types.         *)
LEMMA Within64 ==
  ASSUME NEW T \in Types
  PROVE  RangeOf(T) \subseteq RangeOf("sllong") \cup RangeOf("ullong")
<1>1. /\ HalfOf(T) \in Nat \ {0} /\ HalfOf(T) <= HalfOf("sllong")
      /\ HalfOf("ullong") = HalfOf("sllong") /\ HalfOf("sllong") \in Nat
  BY Halves DEF Types
<1>2. "sllong" \notin Unsigned /\ "ullong" \in Unsigned
  BY DEF Unsigned
<1> QED BY <1>1, <1>2 DEF RangeOf, Low, High

(* The template that ConvertIntNumToPyNum selects takes a type that has all *)
(* values of T.                                                             *)
LEMMA ScalarExact ==
  ASSUME NEW T \in Types, NEW x \in RangeOf(T)
  PROVE  ConvertIntNumToPyNum(T, x) = x
<1>1. /\ HalfOf(T) \in Nat \ {0} /\ HalfOf(T) <= HalfOf("sllong")
      /\ ~Is64(T) => HalfOf(T) <= HalfOf("slong")
      /\ HalfOf("ullong") = HalfOf("sllong") /\ HalfOf("ulong") = HalfOf("slong")
      /\ HalfOf("sllong") \in Nat /\ HalfOf("slong") \in Nat
  BY Halves DEF Types
<1>2. /\ "slong" \notin Unsigned /\ "sllong" \notin Unsigned
      /\ "ulong" \in Unsigned /\ "ullong" \in Unsigned
  BY DEF Unsigned
<1>3. CASE T \notin Unsigned /\ ~Is64(T)
  <2>1. x \in RangeOf("slong")
    BY <1>1, <1>2, <1>3 DEF RangeOf, Low, High
  <2> QED BY <1>3, <2>1 DEF ConvertIntNumToPyNum, Cast
<1>4. CASE T \in Unsigned /\ ~Is64(T)
  <2>1. x \in RangeOf("ulong")
    BY <1>1, <1>2, <1>4 DEF RangeOf, Low, High
  <2> QED BY <1>4, <2>1 DEF ConvertIntNumToPyNum, Cast
<1>5. CASE T \notin Unsigned /\ Is64(T)
  <2>1. x \in RangeOf("sllong")
    BY <1>1, <1>2, <1>5 DEF RangeOf, Low, High
  <2> QED BY <1>5, <2>1 DEF ConvertIntNumToPyNum, Cast
<1>6. CASE T \in Unsigned /\ Is64(T)
  <2>1. x \in RangeOf("ullong")
    BY <1>1, <1>2, <1>6 DEF RangeOf, Low, High
  <2> QED BY <1>6, <2>1 DEF ConvertIntNumToPyNum, Cast
<1> QED BY <1>3, <1>4, <1>5, <1>6

(* What fits a vector's cast is exact in a vector.                          *)
LEMMA VectorExact ==
  ASSUME NEW T \in Types, FitsVector(T), NEW x \in RangeOf(T)
  PROVE  ConvertIntVectorToPyList(T, x) = x
  BY DEF FitsVector, ConvertIntVectorToPyList, Cast

(* An integer of 64 bits comes back to C++ as it is, in a type that has it. *)
LEMMA BackExact ==
  ASSUME NEW x \in RangeOf("sllong") \cup RangeOf("ullong")
  PROVE  LET r == ConvertPyLongToLongLong(x)
         IN  r.value = x /\ r.type \in Types /\ x \in RangeOf(r.type)
  BY DEF ConvertPyLongToLongLong, Cast, Types

(* Ranges are ranges of integers.                                           *)
LEMMA RangesAreInts ==
  ASSUME NEW T \in Types
  PROVE  RangeOf(T) \subseteq Int
  BY DEF RangeOf

-----------------------------------------------------------------------------
(* The invariant holds at first, when the vectors and integers fit.         *)
LEMMA InitInvariant == Init => IInv
  BY Within64, RangesAreInts DEF Init, IInv, TypeOK, ValueKept

(* Every crossing keeps the integer.                                        *)
LEMMA StepInvariant == Fits /\ IInv /\ [Next]_vars => IInv'
<1> SUFFICES ASSUME Fits, IInv, [Next]_vars
             PROVE  IInv'
  OBVIOUS
<1> USE DEF IInv, TypeOK, ValueKept
<1>1. CASE ToPython
  BY <1>1, ScalarExact DEF ToPython
<1>2. CASE VectorToPython
  BY <1>2, VectorExact DEF VectorToPython, Fits
<1>3. CASE ToCpp
  BY <1>3, BackExact DEF ToCpp
<1>4. CASE Compute
  BY <1>4, RangesAreInts DEF Compute, Fits, Types
<1>5. CASE Narrow
  BY <1>5 DEF Narrow
<1>6. CASE NumpyToCpp
  BY <1>6, BackExact DEF NumpyToCpp
<1>7. CASE UNCHANGED vars
  BY <1>7 DEF vars
<1> QED BY <1>1, <1>2, <1>3, <1>4, <1>5, <1>6, <1>7 DEF Next

(* Whatever the widths are, integers and vectors that fit are kept by any   *)
(* number of crossings in any types.                                        *)
THEOREM ExactWhenItFits == Fits => (Spec => []ValueKept)
<1>1. Init => IInv
  BY InitInvariant
<1>2. Fits /\ IInv /\ [Next]_vars => IInv'
  BY StepInvariant
<1>3. IInv => ValueKept
  BY DEF IInv
<1> QED
  <2> SUFFICES ASSUME Fits PROVE Spec => []ValueKept
    OBVIOUS
  <2>1. IInv /\ [Next]_vars => IInv'
    BY <1>2
  <2> QED BY <1>1, <1>3, <2>1, PTL DEF Spec

(* ... and what C++ is given is always a value of its type.                 *)
THEOREM TypedWhenItFits == Fits => (Spec => []TypeOK)
<1>1. Init => IInv
  BY InitInvariant
<1>2. Fits /\ IInv /\ [Next]_vars => IInv'
  BY StepInvariant
<1>3. IInv => TypeOK
  BY DEF IInv
<1> QED
  <2> SUFFICES ASSUME Fits PROVE Spec => []TypeOK
    OBVIOUS
  <2>1. IInv /\ [Next]_vars => IInv'
    BY <1>2
  <2> QED BY <1>1, <1>3, <2>1, PTL DEF Spec
=============================================================================

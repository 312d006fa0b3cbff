------------------------------ MODULE IntConvert ------------------------------
(***************************************************************************)
(* An integer that crosses between C++ and Python, any number of times and *)
(* in either direction, by the converters that PythonConvert.cpp registers *)
(* for Python 3: one for each C++ integer type, one for each vector of     *)
(* them, and the one for Python's int.  Python's int has no bounds, a C++  *)
(* type has a width; Half gives a width as half of its number of values,   *)
(* so that a small instance has the same boundaries as the real one.       *)
(***************************************************************************)
EXTENDS Integers

Widths == {"char", "short", "int", "long", "llong"}

CONSTANTS
  Half,        (* per width, 2^(bits - 1)                                     *)
  VectorTypes, (* the types of which the C++ code converts vectors            *)
  PyInts       (* the integers that Python code computes                      *)

Types == {"char", "schar", "uchar", "sshort", "ushort", "sint", "uint",
          "slong", "ulong", "sllong", "ullong"}

WidthOf == [char |-> "char", schar |-> "char", uchar |-> "char",
            sshort |-> "short", ushort |-> "short", sint |-> "int", uint |-> "int",
            slong |-> "long", ulong |-> "long", sllong |-> "llong", ullong |-> "llong"]

Unsigned == {"uchar", "ushort", "uint", "ulong", "ullong"}

(* long is as wide as int or as long long: both happen.                       *)
ASSUME IntAssumption ==
  /\ Half \in [Widths -> Nat \ {0}]
  /\ Half["char"] <= Half["short"] /\ Half["short"] <= Half["int"]
  /\ Half["int"] <= Half["long"] /\ Half["long"] <= Half["llong"]
  /\ Half["int"] < Half["llong"]
  /\ VectorTypes \subseteq Types \ {"char", "schar", "uchar"}
  /\ PyInts \subseteq Int

VARIABLES
  side,  (* "cpp" or "python": who has the integer                            *)
  type,  (* its C++ type, when C++ has it                                     *)
  value, (* what it is                                                        *)
  meant  (* history: what it was when it was last computed                    *)

vars == <<side, type, value, meant>>

-----------------------------------------------------------------------------
(* C++ integer types and conversions between them.                          *)

HalfOf(T) == Half[WidthOf[T]]
Low(T)  == IF T \in Unsigned THEN 0 ELSE -HalfOf(T)
High(T) == IF T \in Unsigned THEN 2 * HalfOf(T) - 1 ELSE HalfOf(T) - 1
RangeOf(T) == Low(T) .. High(T)
Is64(T) == HalfOf(T) = Half["llong"]

(* A value that T cannot represent wraps.                                   *)
Cast(T, x) == IF x \in RangeOf(T) THEN x
              ELSE Low(T) + ((x - Low(T)) % (2 * HalfOf(T)))

(* The template that a type selects names the type that PyLong_From takes.  *)
BugConvertIntNum(T, x) ==    (* one template for both signs of 64 bits      *)
  Cast(IF Is64(T) THEN "sllong" ELSE IF T \in Unsigned THEN "ulong" ELSE "slong", x)

ConvertIntNumToPyNum(T, x) ==
  Cast(CASE T \notin Unsigned /\ ~Is64(T) -> "slong"
         [] T \in Unsigned /\ ~Is64(T) -> "ulong"
         [] T \notin Unsigned /\ Is64(T) -> "sllong"
         [] T \in Unsigned /\ Is64(T) -> "ullong", x)

(* An element of a vector: convertLongLongVectorToPyList for the long longs, *)
(* convertIntVectorToPyList for the others.                                  *)
ConvertIntVectorToPyList(T, x) ==
  Cast(IF T \in {"sllong", "ullong"} THEN "sllong" ELSE "slong", x)

(* PyLong_AsLongLongAndOverflow(), else PyLong_AsUnsignedLongLongMask().     *)
BugMaskIsSigned(x) ==        (* the Object is made with the wrong type       *)
  [type |-> "sllong", value |-> IF x \in RangeOf("sllong") THEN x ELSE Cast("ullong", x)]

ConvertPyLongToLongLong(x) ==
  IF x \in RangeOf("sllong")
    THEN [type |-> "sllong", value |-> x]
    ELSE [type |-> "ullong", value |-> Cast("ullong", x)]

-----------------------------------------------------------------------------
Init ==
  /\ side = "cpp" /\ type \in Types
  /\ value \in RangeOf(type) /\ meant = value

ToPython ==
  /\ side = "cpp" /\ side' = "python"
  /\ value' = ConvertIntNumToPyNum(type, value)
  /\ UNCHANGED <<type, meant>>

VectorToPython ==
  /\ side = "cpp" /\ side' = "python" /\ type \in VectorTypes
  /\ value' = ConvertIntVectorToPyList(type, value)
  /\ UNCHANGED <<type, meant>>

ToCpp ==
  /\ side = "python" /\ side' = "cpp"
  /\ type' = ConvertPyLongToLongLong(value).type
  /\ value' = ConvertPyLongToLongLong(value).value
  /\ UNCHANGED meant

(* An integer of numpy, of any of its widths: convertNumpyIntegerToNative()  *)
(* asks it for Python's int and converts the result to the type of C++ that  *)
(* has the same width.                                                       *)
NumpyToCpp ==
  /\ side = "python" /\ side' = "cpp"
  /\ type' \in Types \ {"char"} /\ value \in RangeOf(type')
  /\ value' = ConvertPyLongToLongLong(value).value
  /\ UNCHANGED meant

(* Python code computes another integer.                                     *)
Compute ==
  /\ side = "python"
  /\ value' \in PyInts /\ meant' = value'
  /\ UNCHANGED <<side, type>>

(* Pothos::Object::convert<T>() to a type that represents the value.         *)
Narrow ==
  /\ side = "cpp" /\ type' \in Types /\ value \in RangeOf(type')
  /\ UNCHANGED <<side, value, meant>>

Next == ToPython \/ VectorToPython \/ ToCpp \/ NumpyToCpp \/ Compute \/ Narrow

Spec == Init /\ [][Next]_vars

-----------------------------------------------------------------------------
(* Properties.                                                              *)

(* What C++ has is a value of its type.                                     *)
TypeOK ==
  /\ side \in {"cpp", "python"} /\ type \in Types
  /\ value \in Int /\ meant \in Int
  /\ side = "cpp" => value \in RangeOf(type)

(* However often an integer crosses, in whatever types and vectors, it is    *)
(* what it was when it was computed, and neither its sign nor its low bits.  *)
ValueKept == value = meant

=============================================================================

--------------------------- MODULE ConversionRanks ---------------------------
(***************************************************************************)
(* How the compiler ranks the conversion of an argument to a parameter, and *)
(* how it compares two such conversions: the pure part of                   *)
(* src/src/OverloadResolution.h.                                            *)
(*                                                                         *)
(* A type is a base type, possibly behind one pointer, with the qualifiers  *)
(* of that base and a reference.  An argument that is an lvalue carries the *)
(* reference "lvalue", a temporary carries none.  Arrays, functions, deeper *)
(* pointers, unresolved aliases and incomplete classes are left out.        *)
(***************************************************************************)
EXTENDS Integers

CONSTANTS
  Classes,      \* the classes of the program, all of them complete
  DerivedFrom,  \* pairs <<class, usable public base>>, transitive
  Converts      \* pairs of base types joined by a constructor or an operator

ASSUME ClassesAssumption ==
  /\ DerivedFrom \subseteq Classes \X Classes
  /\ \A c \in Classes : <<c, c>> \notin DerivedFrom

IntegerRank == [bool |-> 0, char |-> 1, short |-> 2, int |-> 3, uint |-> 3, long |-> 4]
IntegralTypes == DOMAIN IntegerRank
FloatingTypes == {"float", "double"}
BaseTypes == IntegralTypes \cup FloatingTypes \cup {"enum", "void", "nullptr"} \cup Classes

Type ==
  [base : BaseTypes, pointer : BOOLEAN, cv : SUBSET {"const", "volatile"},
   ref : {"none", "lvalue", "rvalue"}]

(***************************************************************************)
(* The ranks, the smaller the better.                                       *)
(***************************************************************************)
ExactMatch == 0
QualificationAdjustment == 1
Promotion == 2
Conversion == 3
UserDefined == 4
Ellipsis == 5
NoMatch == 6

SameCategory(a, b) == a = b \/ {a, b} \subseteq Classes
DifferentClasses(a, b) == a # b /\ {a, b} \subseteq Classes

\* Between two arithmetic types or an enumeration and one.
CategoryRank(from, to) ==
  CASE from = to -> ExactMatch
    [] from # to /\ to = "bool" ->
         IF from \in IntegralTypes \cup FloatingTypes \cup {"enum"} THEN Conversion ELSE NoMatch
    [] from = "bool" /\ to # "bool" ->
         IF to = "int" THEN Promotion
         ELSE IF to \in IntegralTypes \cup FloatingTypes THEN Conversion ELSE NoMatch
    [] OTHER ->
         IF {from, to} \subseteq IntegralTypes
           THEN IF IntegerRank[from] < 3 /\ IntegerRank[to] = 3 THEN Promotion ELSE Conversion
         ELSE IF from = "float" /\ to = "double" THEN Promotion
         ELSE IF from = "enum" /\ to = "int" THEN Promotion
         ELSE IF /\ from \in IntegralTypes \cup FloatingTypes \cup {"enum"}
                 /\ to \in IntegralTypes \cup FloatingTypes
           THEN Conversion
         ELSE NoMatch

\* Between two pointers: the references of either side are not looked at.
PointerRank(from, to) ==
  IF ~(from.cv \subseteq to.cv) THEN NoMatch
  ELSE IF DifferentClasses(from.base, to.base)
    THEN IF <<from.base, to.base>> \in DerivedFrom THEN Conversion ELSE NoMatch
  ELSE IF from.base = to.base
    THEN IF from.cv = to.cv THEN ExactMatch ELSE QualificationAdjustment
  ELSE IF to.base = "void" THEN Conversion
  ELSE NoMatch

\* Between two values, at most one of them a pointer: what they point to
\* stands for the pointer.
ValueRank(from, to) ==
  IF DifferentClasses(from.base, to.base)
    THEN IF <<from.base, to.base>> \in DerivedFrom \cup Converts THEN UserDefined ELSE NoMatch
  ELSE IF from.base # to.base /\ {from.base, to.base} \cap Classes # {}
    THEN IF <<from.base, to.base>> \in Converts THEN UserDefined ELSE NoMatch
  ELSE CategoryRank(from.base, to.base)

\* A value bound to a reference.
BindValueRank(from, to) ==
  IF SameCategory(from.base, to.base) /\ ~DifferentClasses(from.base, to.base)
    THEN IF to.ref = "rvalue" \/ "const" \in to.cv THEN ExactMatch ELSE NoMatch
  ELSE IF to.ref = "rvalue" \/ "const" \in to.cv THEN ValueRank(from, to)
  ELSE NoMatch

\* A reference bound to a reference.
BindReferenceRank(from, to) ==
  IF from.ref = to.ref /\ SameCategory(from.base, to.base)
    THEN IF DifferentClasses(from.base, to.base)
           THEN IF /\ from.ref = "lvalue"
                   /\ ~from.pointer /\ ~to.pointer
                   /\ <<from.base, to.base>> \in DerivedFrom
                  THEN Conversion ELSE NoMatch
         ELSE IF ~(from.cv \subseteq to.cv) THEN NoMatch
         ELSE IF from.cv # to.cv THEN QualificationAdjustment
         ELSE ExactMatch
  ELSE IF \/ to.ref = "lvalue" /\ "const" \in to.cv
          \/ from.ref = "rvalue" /\ to.ref = "rvalue"
    THEN ValueRank(from, to)
  ELSE NoMatch

\* A reference read as a value.
ReadReferenceRank(from, to) ==
  IF from.base = to.base THEN ExactMatch ELSE ValueRank(from, to)

\* The rank of the conversion of an argument to a parameter.
ConversionRank(from, to) ==
  IF from.base = "nullptr" /\ to.pointer THEN Conversion
  ELSE IF from.pointer /\ to.pointer THEN PointerRank(from, to)
  ELSE IF to.ref # "none"
    THEN IF from.ref # "none" THEN BindReferenceRank(from, to) ELSE BindValueRank(from, to)
  ELSE IF from.ref # "none" THEN ReadReferenceRank(from, to)
  ELSE ValueRank(from, to)

\* The rank with the literal 0 read as a null pointer, if the caller hands over the
\* expression of the argument.
ArgumentRank(argument, parameter) ==
  LET null == [base |-> "nullptr", pointer |-> FALSE, cv |-> {}, ref |-> "none"] IN
  IF argument.zero /\ parameter.pointer THEN Conversion
  ELSE IF argument.zero /\ parameter.base = "nullptr"
    THEN IF ConversionRank(null, parameter) = NoMatch THEN NoMatch ELSE Conversion
  ELSE ConversionRank(argument.type, parameter)

(***************************************************************************)
(* Comparing the conversions of one argument to two parameters.             *)
(***************************************************************************)
\* The destination that adds fewer qualifiers behind the pointer.
AddsFewerQualifiers(from, left, right) ==
  /\ from.pointer /\ left.pointer /\ right.pointer
  /\ left.base = right.base
  /\ (left.cv \ from.cv) \subseteq (right.cv \ from.cv)
  /\ left.cv \ from.cv # right.cv \ from.cv

\* A temporary bound to T&& rather than to const T&.
BindsTemporaryBetter(from, left, right) ==
  /\ from.ref # "lvalue"
  /\ left.base = right.base /\ left.pointer = right.pointer
  /\ left.ref = "rvalue"
  /\ right.ref = "lvalue" /\ "const" \in right.cv

\* A conversion is its rank and, unless an ellipsis or the object of a member
\* function takes the argument, the type of the parameter.
Prefers(from, left, right) ==
  \/ left.rank < right.rank
  \/ /\ left.rank = right.rank /\ left.typed /\ right.typed
     /\ \/ AddsFewerQualifiers(from, left.type, right.type)
        \/ /\ left.rank = ExactMatch
           /\ ~AddsFewerQualifiers(from, right.type, left.type)
           /\ BindsTemporaryBetter(from, left.type, right.type)
==============================================================================

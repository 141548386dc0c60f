--------------------------- MODULE MCTopLevelNodes ---------------------------
(* Two user-written declarations, one of them a global variable; a struct    *)
(* and a constructor instantiation, and a variable-template instantiation.     *)
EXTENDS TopLevelNodes

CONSTANTS glob, func, struct, ctor, var

MCUserNode == {glob, func}
MCLateNode == {struct, ctor, var}
MCKind == [n \in MCUserNode \cup MCLateNode |->
             CASE n = func -> "Function"
               [] n = struct -> "Struct"
               [] n = ctor -> "Other"
               [] OTHER -> "Variable"]
=============================================================================

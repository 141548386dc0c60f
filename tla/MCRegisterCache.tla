---------------------------- MODULE MCRegisterCache ----------------------------
(* Four of the fourteen registers: the fixed ones and one that a division may *)
(* take for its divisor.  A function with four temporaries runs out of them.  *)
EXTENDS RegisterCache, FiniteSets, TLC

CONSTANTS rax, rcx, rdx, r8, x

MCOrder        == <<rax, rcx, rdx, r8>>
MCCallerSaved  == {rax, rcx, rdx, r8}
MCScratchOrder == <<rcx, r8>>
MCNumber       == (rax :> 0) @@ (rcx :> 1) @@ (rdx :> 2) @@ (r8 :> 8)
MCNames        == {x}

\* Bound: a program is followed until a second slot has lost its value.
OneSpoiled == Cardinality(machine.spoiled) <= 1

==============================================================================

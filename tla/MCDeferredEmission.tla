-------------------------- MODULE MCDeferredEmission --------------------------
(* One function of each kind, or two where they have to meet, and every program with *)
(* up to TotalUses uses; main comes first or last in the list.                        *)
EXTENDS DeferredEmission, SequencesExt

CONSTANTS main, in1, in2, mem1, mem2, lam, inner, gen1, gen2, loc, loc2, nested, TotalUses,
          Subset  \* the functions of the run's programs

MCKind == [f \in {main, in1, in2, mem1, mem2, lam, inner, gen1, gen2, loc, loc2, nested} |->
  CASE f = main -> "user" [] f \in {in1, in2} -> "inline" [] f \in {mem1, mem2} -> "member"
    [] f \in {lam, inner} -> "lambda" [] f \in {gen1, gen2} -> "generic" [] OTHER -> "local"]
MCFunction == DOMAIN MCKind
MCOwner == [f \in {mem1, mem2, loc, loc2, nested} |->
  CASE f \in {mem1, mem2} -> "S" [] f \in {loc, loc2} -> "L" [] OTHER -> "N"]
MCMembers == [s \in {"S", "L", "N"} |->
  CASE s = "S" -> <<mem1, mem2>> [] s = "L" -> <<loc, loc2>> [] OTHER -> <<nested>>]

\* A lambda or a local struct is defined in one body and called where it is visible.
Uses ==
  {u \in [body : Subset, kind : {"call", "callStatic", "define"}, target : Subset] :
     /\ u.kind = "call" => MCKind[u.target] \in {"inline", "member", "generic"}
     /\ u.kind = "callStatic" => u.target = mem1
     /\ u.kind = "define" => MCKind[u.target] \in {"lambda", "generic", "local"}
     /\ u.kind = "define" => u.body # u.target /\ u.target # loc2
     /\ u.target = nested => u.body = loc
     /\ u.body # nested}

Program(list, s) ==
  [nodes |-> list,
   uses |-> [f \in MCFunction |->
     LET In(u) == u.body = f
         own == SelectSeq(s, In)
     IN  [i \in DOMAIN own |-> [kind |-> own[i].kind, target |-> own[i].target]]]]

\* Each lambda and each local struct has one definition.
Definitions(s) ==
  \A i, j \in DOMAIN s :
    s[i].kind = "define" /\ s[j].kind = "define" /\ s[i].target = s[j].target => i = j

Lists == {<<main, in1, in2>>, <<in1, in2, main>>}

MCPrograms ==
  {Program(l, s) : l \in Lists,
     s \in {t \in BoundedSeq(Uses, TotalUses) : Definitions(t) /\ IsInjective(t)}}

(* Lambdas alone: main defines two generic lambdas and a plain one, which defines     *)
(* another; any of the bodies may call any of the generic lambdas.                     *)
Define(f) == [kind |-> "define", target |-> f]
Calls == {main, gen1, gen2, lam, inner} \X {gen1, gen2}

LambdaProgram(calls) ==
  [nodes |-> <<main>>,
   uses |-> [f \in MCFunction |->
     (CASE f = main -> <<Define(gen1), Define(gen2), Define(lam)>>
        [] f = lam -> <<Define(inner)>>
        [] OTHER -> <<>>)
     \o SetToSeq({[kind |-> "call", target |-> c[2]] : c \in {d \in calls : d[1] = f}})]]

MCLambdaPrograms == {LambdaProgram(calls) : calls \in SUBSET Calls}
================================================================================

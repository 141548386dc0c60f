------------------------------ MODULE MCPostParse ------------------------------
(* Two user functions, two functions and two variables instantiated from templates,  *)
(* and every program with up to TotalNeeds requests in the visits of its nodes.       *)
EXTENDS PostParse, SequencesExt

CONSTANTS main, user, probe, fun1, fun2, var1, var2, TotalNeeds

MCNode == {main, user, probe, fun1, fun2, var1, var2}
MCVariable == {var1, var2}
MCProbe == {probe}

\* What parsing may leave: the user's functions, with or without an earlier variable.
Lists == {<<main, user>>, <<var1, probe, main>>}

\* A request of a visit: of a node that is reached, in one of the two passes.
Request ==
  [pass : {"sema", "code"}, node : MCNode,
   batch : {<<fun1>>, <<fun1, fun2>>, <<var1>>, <<var2>>}]

Program(list, s) ==
  LET Of(pass) ==
        [n \in MCNode |->
           LET In(r) == r.pass = pass /\ r.node = n
               own == SelectSeq(s, In)
           IN  [i \in DOMAIN own |-> own[i].batch]]
  IN  [list |-> list, sema |-> Of("sema"), code |-> Of("code")]

MCPrograms == {Program(l, s) : l \in Lists, s \in BoundedSeq(Request, TotalNeeds)}
================================================================================

----------------------------- MODULE ScopeCleanup -----------------------------
(***************************************************************************)
(* Which destructor calls the IR generator puts where (IrGenerator_Helpers  *)
(* and IrGenerator_Stmt_Control), and what they do when the function runs.  *)
(*                                                                          *)
(* While a function is visited its program is chosen statement by statement, *)
(* and each handler emits its IR and keeps its stack of scopes.  Then the   *)
(* code is executed, every branch both ways.  The visitor opens a scope for  *)
(* most blocks, not for all that C++ calls a scope, so the model keeps both.  *)
(***************************************************************************)
EXTENDS Naturals, SequencesExt

CONSTANTS
  StatementKinds, \* the statements with a body that programs may use
  Shapes,         \* what programs may do in addition: see AllShapes
  MaxStatements, MaxObjects, MaxConstructs   \* bounds on the program

AllShapes == {"list",      \* { T a; T b; }: a body of nothing but declarations
              "single",    \* if (c) T a;: a declaration that is a body
              "switch",    \* a declaration directly in the body of a switch
              "if",        \* if (T a; c): an object in the head of an if
              "goto",      \* a goto back over a declaration of the label's block,
                           \* or into a block that is not around it
              "continue"}  \* a continue in a switch in a loop

ASSUME ScopeAssumption ==
  /\ StatementKinds \subseteq {"if", "while", "do", "for", "range", "switch"}
  /\ Shapes \subseteq AllShapes
  /\ {MaxStatements, MaxObjects, MaxConstructs} \subseteq Nat

VARIABLES
  code,    \* ir_: the instructions emitted so far
  scopes,  \* scope_stack_: the objects registered in each scope
  loops,   \* loop_depth_stack_ and loop_context_stack_
  open,    \* the statements being visited, outermost first
  label,   \* label_scope_depth_map_ for the one label of a program, with its body
  size,    \* [statements, objects, constructs] of the program
  pc,      \* the instruction to execute, 0 while the function is visited
  alive    \* the objects constructed and not destroyed, oldest first

cleanupVars == <<code, scopes, loops, open, label, size, pc, alive>>

UserLabel == <<0, "user">>
NoLabel   == [depth |-> 0, body |-> 0]

-----------------------------------------------------------------------------
(* Instructions and scopes.                                                 *)

\* The objects C++ has in scope, in the order of their declarations.
InScope(o) == FlattenSeq([i \in DOMAIN o |-> o[i].decls])

\* meant: the label C++ has the jump go to; scope: the objects in scope here.
Instr(op, arg, scope) == [op |-> op, arg |-> arg, meant |-> arg, scope |-> scope]
Mark(l, o)  == <<Instr("label", l, InScope(o))>>
Make(xs)    == [i \in DOMAIN xs |-> Instr("make", xs[i], <<>>)]
JumpTo(l)   == <<Instr("jump", l, <<>>)>>
BranchTo(l) == <<Instr("branch", l, <<>>)>>

\* Mutant: the first one first.
DestroyInOrder(xs) == [i \in DOMAIN xs |-> Instr("destroy", xs[i], <<>>)]

\* Destructor calls for a sequence of objects, the last one first.
Destroy(xs) == [i \in DOMAIN xs |-> Instr("destroy", Reverse(xs)[i], <<>>)]

\* Mutant: one scope too few is left.
ExitKeepingOneScope(depth) ==
  Destroy(FlattenSeq(SubSeq(scopes, depth + 2, Len(scopes))))

\* break, continue, return and goto: the scopes stay, for the code behind the jump.
NonLocalExit(depth) == Destroy(FlattenSeq(SubSeq(scopes, depth + 1, Len(scopes))))

Register(ss, xs) == Append(Front(ss), Last(ss) \o xs)

\* A body: "function", "block", "list", "single" or "cases"; or the head of a
\* statement, below its body.  scan: does prescanLabels count a scope for it?
Entry(kind, n, decls, scan) ==
  [kind |-> kind, n |-> n, decls |-> decls, scan |-> scan, other |-> FALSE]

PrescanDepth(o) == Cardinality({i \in DOMAIN o : o[i].scan})

Declared(o, x) == Append(Front(o), [Last(o) EXCEPT !.decls = Append(@, x)])

\* A statement other than a declaration has been added to the innermost body.
Added(o) == Append(Front(o), [Last(o) EXCEPT !.other = TRUE])

-----------------------------------------------------------------------------
(* Visiting the statements of a function.                                   *)

CleanupInit ==
  /\ code = <<>>
  /\ scopes = <<<<>>>>
  /\ loops = <<>>
  /\ open = <<Entry("function", 0, <<>>, TRUE)>>
  /\ label = NoLabel
  /\ size = [statements |-> 0, objects |-> 0, constructs |-> 0]
  /\ pc = 0
  /\ alive = <<>>

Body == Last(open)

\* What has been emitted so far falls through to the next statement.
Reachable == code # <<>> => Last(code).op \notin {"jump", "return", "dispatch"}

\* One more statement fits into the innermost body, which is no declaration list.
Room ==
  /\ pc = 0
  /\ size.statements < MaxStatements
  /\ Reachable
  /\ Body.kind = "single" => ~Body.other /\ Body.decls = <<>>
  /\ Body.kind # "list"

Count(objects, constructs) ==
  size' = [statements |-> size.statements + 1,
           objects    |-> size.objects + objects,
           constructs |-> size.constructs + constructs]

\* The objects a statement declares: none, or the next ones.
NextObjects(k) == [i \in 1..k |-> size.objects + i]

\* T x;
Declare ==
  /\ pc = 0
  /\ size.statements < MaxStatements /\ size.objects < MaxObjects
  /\ Reachable
  /\ Body.kind = "single" => "single" \in Shapes /\ ~Body.other /\ Body.decls = <<>>
  /\ Body.kind = "cases" => "switch" \in Shapes
  /\ LET x == size.objects + 1 IN
       /\ code' = code \o Make(<<x>>)
       /\ scopes' = Register(scopes, <<x>>)
       /\ open' = Declared(open, x)
  /\ Count(1, 0)
  /\ UNCHANGED <<loops, label, pc, alive>>

\* The bodies a statement may have.
BodyKinds(kind) ==
  IF kind = "switch" THEN {"cases"}
  ELSE {"block", "single"} \cup ({"list"} \cap Shapes)

\* Mutant: prescanLabels counts a scope for every body.
BodyEntryCountingAll(body, n) == Entry(body, n, <<>>, TRUE)

BodyEntry(body, n) == Entry(body, n, <<>>, body = "block")
BodyScopes(body)   == IF body = "block" THEN <<<<>>>> ELSE <<>>

\* A block on its own.
OpenBlock ==
  /\ Room
  /\ size.constructs < MaxConstructs
  /\ LET n == size.constructs + 1 IN
     \E body \in {"block"} \cup ({"list"} \cap Shapes) :
       /\ open' = Append(Added(open), BodyEntry(body, n))
       /\ scopes' = scopes \o BodyScopes(body)
  /\ Count(0, 1)
  /\ UNCHANGED <<code, loops, label, pc, alive>>

\* if (T x; c)   The object goes to the scope around the if.
OpenIf ==
  /\ Room
  /\ "if" \in StatementKinds /\ size.constructs < MaxConstructs
  /\ LET n == size.constructs + 1 IN
     \E body \in BodyKinds("if"), k \in {0} \cup {i \in {1} : "if" \in Shapes} :
       /\ size.objects + k <= MaxObjects
       /\ code' = code \o Make(NextObjects(k)) \o BranchTo(<<n, "else">>)
       /\ open' = Added(open) \o <<Entry("if", n, NextObjects(k), FALSE), BodyEntry(body, n)>>
       /\ scopes' = Register(scopes, NextObjects(k)) \o BodyScopes(body)
       /\ Count(k, 1)
  /\ UNCHANGED <<loops, label, pc, alive>>

\* Mutant: every loop continues at its start.
LoopNextAtStart(n, kind) == <<n, "start">>

\* Where continue goes: to the condition, to the increment, or nowhere.
LoopNext(n, kind) ==
  CASE kind = "while"  -> <<n, "start">>
    [] kind = "switch" -> <<n, "end">>
    [] OTHER           -> <<n, "next">>

LoopEntry(n, kind, depth) == [end |-> <<n, "end">>, next |-> LoopNext(n, kind), depth |-> depth]

\* while (c) and do ... while (c)
OpenLoop(kind) ==
  /\ Room
  /\ kind \in StatementKinds /\ size.constructs < MaxConstructs
  /\ LET n == size.constructs + 1 IN
     \E body \in BodyKinds(kind) :
       /\ loops' = Append(loops, LoopEntry(n, kind, Len(scopes)))
       /\ code' = code \o Mark(<<n, "start">>, open)
                       \o (IF kind = "while" THEN BranchTo(<<n, "end">>) ELSE <<>>)
       /\ open' = Added(open) \o <<Entry(kind, n, <<>>, FALSE), BodyEntry(body, n)>>
       /\ scopes' = scopes \o BodyScopes(body)
  /\ Count(0, 1)
  /\ UNCHANGED <<label, pc, alive>>

\* for (T x; c; e)   The object has a scope of its own around the loop.
OpenFor ==
  /\ Room
  /\ "for" \in StatementKinds /\ size.constructs < MaxConstructs
  /\ LET n == size.constructs + 1 IN
     \E body \in BodyKinds("for"), k \in {0, 1} :
       /\ size.objects + k <= MaxObjects
       /\ LET head == Append(Added(open), Entry("for", n, NextObjects(k), TRUE)) IN
            /\ code' = code \o Make(NextObjects(k)) \o Mark(<<n, "start">>, head)
                            \o BranchTo(<<n, "end">>)
            /\ open' = Append(head, BodyEntry(body, n))
       /\ loops' = Append(loops, LoopEntry(n, "for", Len(scopes) + 1))
       /\ scopes' = Append(scopes, NextObjects(k)) \o BodyScopes(body)
       /\ Count(k, 1)
  /\ UNCHANGED <<label, pc, alive>>

\* for (T x : range)   The object has a scope in the loop.
OpenRange ==
  /\ Room
  /\ "range" \in StatementKinds /\ size.constructs < MaxConstructs /\ size.objects < MaxObjects
  /\ LET n == size.constructs + 1 IN
     \E body \in BodyKinds("range") :
       /\ code' = code \o Mark(<<n, "start">>, open) \o BranchTo(<<n, "end">>)
                       \o Make(NextObjects(1))
       /\ open' = Added(open) \o <<Entry("range", n, NextObjects(1), TRUE), BodyEntry(body, n)>>
       /\ loops' = Append(loops, LoopEntry(n, "range", Len(scopes)))
       /\ scopes' = Append(scopes, NextObjects(1)) \o BodyScopes(body)
  /\ Count(1, 1)
  /\ UNCHANGED <<label, pc, alive>>

\* switch (c): a loop to the visitor; its body gets no scope.
OpenSwitch ==
  /\ Room
  /\ "switch" \in StatementKinds /\ size.constructs < MaxConstructs
  /\ LET n == size.constructs + 1 IN
       /\ code' = Append(code, Instr("dispatch", n, <<>>))
       /\ open' = Added(open) \o <<Entry("switch", n, <<>>, FALSE), BodyEntry("cases", n)>>
       /\ loops' = Append(loops, LoopEntry(n, "switch", Len(scopes)))
  /\ Count(0, 1)
  /\ UNCHANGED <<scopes, label, pc, alive>>

\* case v:   C++ allows none past a declaration.
Case ==
  /\ pc = 0 /\ size.statements < MaxStatements
  /\ Body.kind = "cases" /\ Body.decls = <<>>
  /\ code' = code \o Mark(<<Body.n, "case">>, open)
  /\ open' = Added(open)
  /\ Count(0, 0)
  /\ UNCHANGED <<scopes, loops, label, pc, alive>>

Header == open[Len(open) - 1]

\* The body is complete.  A block of declarations alone would be a "list".
BodyClosed ==
  /\ pc = 0 /\ Len(open) > 1
  /\ Body.kind = "block"  => Body.other \/ Len(Body.decls) < 2
  /\ Body.kind = "list"   => Len(Body.decls) > 1
  /\ Body.kind = "single" => Body.other \/ Body.decls # <<>>

\* Mutant: the end of a body without a scope pops one, too.
OuterScopesAlways == Front(scopes)

ExitBody == IF Body.kind = "block" THEN Destroy(Last(scopes)) ELSE <<>>
OuterScopes == IF Body.kind = "block" THEN Front(scopes) ELSE scopes

CloseBlock ==
  /\ BodyClosed
  /\ Header.kind \in {"function", "block", "list", "single", "cases"}
  /\ code' = code \o ExitBody
  /\ scopes' = OuterScopes
  /\ open' = Front(open)
  /\ UNCHANGED <<loops, label, size, pc, alive>>

\* The end of the branch taken, and the start of the other one.
Else ==
  /\ BodyClosed
  /\ Header.kind = "if" /\ size.statements < MaxStatements /\ size.constructs < MaxConstructs
  /\ LET below == Front(Front(open)) n == Header.n IN
     \E body \in BodyKinds("if") :
       /\ open' = below \o <<[Header EXCEPT !.kind = "else"], BodyEntry(body, size.constructs + 1)>>
       /\ code' = code \o ExitBody \o JumpTo(<<n, "end">>) \o Mark(<<n, "else">>, Append(below, Header))
       /\ scopes' = OuterScopes \o BodyScopes(body)
  /\ Count(0, 1)
  /\ UNCHANGED <<loops, label, pc, alive>>

\* The code behind the body of a statement; o is what is open around the body.
Ending(kind, n, o) ==
  CASE kind = "if"     -> Mark(<<n, "else">>, o)
    [] kind = "else"   -> Mark(<<n, "end">>, o)
    [] kind = "while"  -> JumpTo(<<n, "start">>) \o Mark(<<n, "end">>, o)
    [] kind = "do"     -> Mark(<<n, "next">>, o) \o BranchTo(<<n, "start">>) \o Mark(<<n, "end">>, o)
    [] kind = "for"    -> Mark(<<n, "next">>, o) \o JumpTo(<<n, "start">>) \o Mark(<<n, "end">>, o)
                          \o Destroy(Last(OuterScopes))
    [] kind = "range"  -> Destroy(Last(OuterScopes)) \o Mark(<<n, "next">>, Front(o))
                          \o JumpTo(<<n, "start">>) \o Mark(<<n, "end">>, Front(o))
    [] kind = "switch" -> Mark(<<n, "end">>, o)

CloseStatement ==
  /\ BodyClosed
  /\ Header.kind \in {"if", "else", "while", "do", "for", "range", "switch"}
  /\ code' = code \o ExitBody \o Ending(Header.kind, Header.n, Front(open))
  /\ scopes' = IF Header.kind \in {"for", "range"} THEN Front(OuterScopes) ELSE OuterScopes
  /\ loops' = IF Header.kind \in {"if", "else"} THEN loops ELSE Front(loops)
  /\ open' = Front(Front(open))
  /\ UNCHANGED <<label, size, pc, alive>>

\* The statements break and continue may leave, innermost last.
Breakable == {i \in DOMAIN open : open[i].kind \in {"while", "do", "for", "range", "switch"}}
Loops     == {i \in Breakable : open[i].kind # "switch"}
Innermost(S) == CHOOSE i \in S : \A j \in S : j <= i

Leave(target, meant) ==
  code' = code \o NonLocalExit(Last(loops).depth) \o <<[Instr("jump", target, <<>>) EXCEPT !.meant = meant]>>

Break ==
  /\ Room
  /\ Breakable # {}
  /\ Leave(Last(loops).end, <<open[Innermost(Breakable)].n, "end">>)
  /\ open' = Added(open)
  /\ Count(0, 0)
  /\ UNCHANGED <<scopes, loops, label, pc, alive>>

Continue ==
  /\ Room
  /\ Loops # {}
  /\ Innermost(Loops) = Innermost(Breakable) \/ "continue" \in Shapes
  /\ LET to == open[Innermost(Loops)] IN
       Leave(Last(loops).next, <<to.n, IF to.kind = "while" THEN "start" ELSE "next">>)
  /\ open' = Added(open)
  /\ Count(0, 0)
  /\ UNCHANGED <<scopes, loops, label, pc, alive>>

Return ==
  /\ Room
  /\ code' = code \o NonLocalExit(0) \o <<Instr("return", 0, <<>>)>>
  /\ open' = Added(open)
  /\ Count(0, 0)
  /\ UNCHANGED <<scopes, loops, label, pc, alive>>

Places(l) == {i \in DOMAIN code : code[i].op = "label" /\ code[i].arg = l}

\* The bodies being visited that may hold a label.
LabelBodies == {i \in DOMAIN open : open[i].kind \in {"function", "block", "cases"}}

\* What prescanLabels has found of the label: where it is if it has been passed;
\* or in one of the bodies around; or in a body still to come.
Labels ==
  IF label # NoLabel THEN {label}
  ELSE {[depth |-> PrescanDepth(SubSeq(open, 1, i)), body |-> open[i].n] :
          i \in LabelBodies}
       \cup {l \in [depth : 1..(1 + 2 * MaxConstructs), body : 1..MaxConstructs] :
               "goto" \in Shapes /\ l.body > size.constructs}

\* goto user;   C++ forbids a jump past a declaration into its scope.
Goto ==
  /\ Room
  /\ label' \in Labels
  /\ \A i \in Places(UserLabel) :
       /\ IsPrefix(code[i].scope, InScope(open))
       /\ \/ "goto" \in Shapes
          \/ \E j \in LabelBodies :
               open[j].n = label.body /\ InScope(SubSeq(open, 1, j)) = code[i].scope
  /\ code' = code \o NonLocalExit(label'.depth)
                  \o <<[Instr("jump", UserLabel, InScope(open)) EXCEPT !.op = "goto"]>>
  /\ open' = Added(open)
  /\ Count(0, 0)
  /\ UNCHANGED <<scopes, loops, pc, alive>>

\* user:
Label ==
  /\ pc = 0 /\ size.statements < MaxStatements
  /\ Len(open) \in LabelBodies
  /\ Places(UserLabel) = {}
  /\ label' = [depth |-> PrescanDepth(open), body |-> Body.n]
  /\ label \in {NoLabel, label'}
  /\ \A i \in DOMAIN code : code[i].op = "goto" => IsPrefix(InScope(open), code[i].scope)
  /\ code' = code \o Mark(UserLabel, open)
  /\ open' = Added(open)
  /\ Count(0, 0)
  /\ UNCHANGED <<scopes, loops, pc, alive>>

\* The end of the function: its scope is left, then it returns.
EndFunction ==
  /\ pc = 0
  /\ Body.kind = "function"
  /\ label # NoLabel => Places(UserLabel) # {}
  /\ code' = code \o Destroy(Last(scopes)) \o <<Instr("return", 0, <<>>)>>
  /\ scopes' = <<>>
  /\ open' = <<>>
  /\ pc' = 1
  /\ UNCHANGED <<loops, label, size, alive>>

-----------------------------------------------------------------------------
(* Executing the code.                                                      *)

Here == code[pc]
Fetch(ops) == pc > 0 /\ Here.op \in ops
GoTo(l) == pc' \in Places(l)

Construct ==
  /\ Fetch({"make"})
  /\ alive' = Append(alive, Here.arg)
  /\ pc' = pc + 1
  /\ UNCHANGED <<code, scopes, loops, open, label, size>>

Destruct ==
  /\ Fetch({"destroy"})
  /\ alive' = IF Contains(alive, Here.arg)
              THEN RemoveAt(alive, SelectLastInSeq(alive, LAMBDA x : x = Here.arg)) ELSE alive
  /\ pc' = pc + 1
  /\ UNCHANGED <<code, scopes, loops, open, label, size>>

Go ==
  /\ \/ Fetch({"jump", "goto", "branch"}) /\ GoTo(Here.arg)
     \/ Fetch({"label", "branch"}) /\ pc' = pc + 1
     \/ Fetch({"dispatch"}) /\ (GoTo(<<Here.arg, "case">>) \/ GoTo(<<Here.arg, "end">>))
  /\ UNCHANGED <<code, scopes, loops, open, label, size, alive>>

CleanupNext ==
  \/ Declare
  \/ OpenBlock
  \/ OpenIf
  \/ \E kind \in {"while", "do"} : OpenLoop(kind)
  \/ OpenFor
  \/ OpenRange
  \/ OpenSwitch
  \/ Case
  \/ CloseBlock
  \/ Else
  \/ CloseStatement
  \/ Break
  \/ Continue
  \/ Return
  \/ Goto
  \/ Label
  \/ EndFunction
  \/ Construct
  \/ Destruct
  \/ Go

CleanupSpec == CleanupInit /\ [][CleanupNext]_cleanupVars

-----------------------------------------------------------------------------
(* Properties.                                                              *)

CleanupTypeOK ==
  /\ \A i \in DOMAIN code :
       /\ code[i].op \in {"make", "destroy", "label", "jump", "branch", "dispatch", "goto", "return"}
       /\ code[i].scope \in Seq(1..MaxObjects)
  /\ \A i \in DOMAIN scopes : scopes[i] \in Seq(1..MaxObjects)
  /\ \A i \in DOMAIN loops : loops[i].depth \in 1..Len(scopes)
  /\ label \in [depth : 0..(1 + 2 * MaxConstructs), body : 0..MaxConstructs]
  /\ pc \in 0..Len(code)
  /\ alive \in Seq(1..MaxObjects)

\* Whatever way control has come, by falling out of blocks, by branches, break,
\* continue, return or goto, the objects alive at a label are those in scope
\* there, in the order of their declarations, and none is left at the return.
AliveIsInScope ==
  pc > 0 /\ Here.op \in {"label", "return"} => alive = Here.scope

\* A destructor call finds its object alive, and destroys the youngest.
DestroyedInReverse ==
  pc > 0 /\ Here.op = "destroy" => alive # <<>> /\ Last(alive) = Here.arg

\* prescanLabels repeats the visitor's rules for scopes without visiting: a
\* goto uses its depth to cut the visitor's stack.
PrescanMirrorsVisitor == pc = 0 => PrescanDepth(open) = Len(scopes)

\* Break and continue go to the statement C++ has them leave or repeat.
JumpsGoWhereMeant == \A i \in DOMAIN code : code[i].meant = code[i].arg

==============================================================================

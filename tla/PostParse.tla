------------------------------- MODULE PostParse -------------------------------
(***************************************************************************)
(* From the parsed list of top-level nodes to generated code: the initial  *)
(* pass of semantic analysis over the list (PostParseSemanticNormalizer in *)
(* src/SemanticAnalysis.cpp), then the visits of the code generator        *)
(* (src/FlashCppMain.cpp).                                                 *)
(*                                                                         *)
(* Both loops walk the live list by index while the nodes they visit        *)
(* instantiate templates, which appends to the list or, for variables,     *)
(* inserts at its front.  Each instantiation is registered and normalized  *)
(* at once, inside the visit that needs it, so the state is a call stack.  *)
(***************************************************************************)
EXTENDS Naturals, Sequences, FiniteSets, Functions

CONSTANTS
  Node,      \* top-level nodes
  Variable,  \* those that are variable-template instantiations
  Probe,     \* functions with an unresolved signature: their failure is a warning
  Programs   \* the parsed list, and what each node's visits instantiate

Batch == Seq(Node)          \* registered one after the other, then normalized together
Needs == [Node -> Seq(Batch)]

ASSUME NodeAssumption == Variable \subseteq Node /\ Probe \subseteq Node
ASSUME ProgramAssumption == Programs \subseteq [list : Seq(Node), sema : Needs, code : Needs]

\* The parser lists no node twice, and the caches let no batch instantiate one twice.
ASSUME OnceAssumption ==
  \A p \in Programs :
    /\ IsInjective(p.list)
    /\ \A pass \in {p.sema, p.code} : \A n \in Node : \A i \in DOMAIN pass[n] : IsInjective(pass[n][i])

VARIABLES
  program,
  ast_nodes,
  phase,        \* "normalize", "generate", "done" or "aborted"
  node_index,   \* of the loop under way
  instantiated, \* nodes the template caches know
  begun,        \* visits whose instantiations have been requested, per pass
  normalized,   \* nodes semantic analysis is through with
  generated,    \* nodes the code generator has visited
  regenerated,  \* and those it has visited again
  stack,        \* visits and batches under way, the innermost one last
  failed,       \* has a failure been counted?
  shifts,       \* history: nodes inserted at the front in the initial pass
  behind,       \* history: nodes inserted behind the code generator's cursor
  dropped       \* history: nodes whose normalization an exception has cut short

loop == <<phase, node_index>>
emitted == <<generated, regenerated>>
history == <<shifts, behind, dropped>>
vars == <<program, ast_nodes, loop, instantiated, begun, normalized, emitted, stack, failed, history>>

Elements(s) == {s[i] : i \in DOMAIN s}
Top == stack[Len(stack)]
Below == SubSeq(stack, 1, Len(stack) - 1)
initial_root_count == Len(program.list)

\* A node visited again finds its instantiations in the caches.
Visit(pass, n) ==
  [kind |-> pass, node |-> n,
   todo |-> IF <<pass, n>> \in begun THEN <<>>
            ELSE IF pass = "sema" THEN program.sema[n] ELSE program.code[n]]

\* Mutant: only the first node of a batch is normalized.
FirstRoot(batch) == [kind |-> "roots", late |-> <<>>, todo |-> SubSeq(batch, 1, 1)]

\* A batch: the nodes still to be listed and those still to be normalized.
Roots(batch)     == [kind |-> "roots", late |-> <<>>, todo |-> batch]
LateRoots(batch) == [Roots(batch) EXCEPT !.late = batch]
EnterVisit(frames, pass, n) ==
  /\ stack' = Append(frames, Visit(pass, n))
  /\ begun' = begun \cup {<<pass, n>>}

Init ==
  /\ program \in Programs
  /\ ast_nodes = program.list
  /\ phase = "normalize" /\ node_index = 1
  /\ instantiated = Elements(program.list)
  /\ begun = {} /\ normalized = {}
  /\ generated = {} /\ regenerated = {}
  /\ stack = <<>>
  /\ failed = FALSE
  /\ shifts = 0 /\ behind = {} /\ dropped = {}

-------------------------------------------------------------------------------
(* Instantiations requested by a visit. *)

RegisterFront(batch) == batch \o ast_nodes

NextBatch == stack # <<>> /\ Top.kind # "roots" /\ Top.todo # <<>>
Rest == [Top EXCEPT !.todo = Tail(@)]

\* registerAndNormalizeLateMaterializedTopLevelNode, and the batched form.
InstantiateLate ==
  /\ NextBatch
  /\ LET batch == Head(Top.todo)
     IN  /\ Elements(batch) \cap Variable = {}
         /\ instantiated' = instantiated \cup Elements(batch)
         /\ stack' = Append(Append(Below, Rest), LateRoots(batch))
  /\ UNCHANGED <<program, ast_nodes, loop, begun, normalized, emitted, failed, history>>

\* registerLateMaterializedTopLevelNode lists a node once, whoever registers it.
Registering == stack # <<>> /\ Top.kind = "roots" /\ Top.late # <<>>

RegisterLate ==
  /\ Registering
  /\ ast_nodes' = IF Head(Top.late) \in Elements(ast_nodes) THEN ast_nodes
                  ELSE Append(ast_nodes, Head(Top.late))
  /\ stack' = Append(Below, [Top EXCEPT !.late = Tail(@)])
  /\ UNCHANGED <<program, loop, instantiated, begun, normalized, emitted, failed, history>>

\* try_instantiate_variable_template: a known instantiation is not registered again.
InstantiateVariable ==
  /\ NextBatch
  /\ LET batch == Head(Top.todo)
     IN  /\ Elements(batch) \subseteq Variable
         /\ Elements(batch) \cap instantiated = {}
         /\ ast_nodes' = RegisterFront(batch)
         /\ instantiated' = instantiated \cup Elements(batch)
         /\ stack' = Append(Append(Below, Rest), Roots(batch))
         /\ shifts' = IF phase = "normalize" THEN shifts + Len(batch) ELSE shifts
         /\ behind' = IF phase = "generate" THEN behind \cup Elements(batch) ELSE behind
  /\ UNCHANGED <<program, loop, begun, normalized, emitted, failed, dropped>>

FindVariable ==
  /\ NextBatch
  /\ Elements(Head(Top.todo)) \subseteq Variable \cap instantiated
  /\ stack' = Append(Below, Rest)
  /\ UNCHANGED <<program, ast_nodes, loop, instantiated, begun, normalized, emitted, failed, history>>

\* normalizePendingSemanticRoots works through the batch it took.
NormalizeRoot ==
  /\ stack # <<>> /\ Top.kind = "roots" /\ Top.late = <<>> /\ Top.todo # <<>>
  /\ EnterVisit(Append(Below, Rest), "sema", Head(Top.todo))
  /\ UNCHANGED <<program, ast_nodes, loop, instantiated, normalized, emitted, failed, history>>

Finished(kind) == stack # <<>> /\ Top.kind = kind /\ Top.todo = <<>>

RootsNormalized ==
  /\ Finished("roots")
  /\ stack' = Below
  /\ UNCHANGED <<program, ast_nodes, loop, instantiated, begun, normalized, emitted, failed, history>>

-------------------------------------------------------------------------------
(* The initial pass: run(). *)

\* The bound of the loop is the length the list had when it began.
NormalizeNext ==
  /\ phase = "normalize" /\ stack = <<>>
  /\ node_index <= initial_root_count
  /\ EnterVisit(<<>>, "sema", ast_nodes[node_index])
  /\ node_index' = node_index + 1
  /\ UNCHANGED <<program, ast_nodes, phase, instantiated, normalized, emitted, failed, history>>

NodeNormalized ==
  /\ Finished("sema")
  /\ normalized' = normalized \cup {Top.node}
  /\ stack' = Below
  /\ UNCHANGED <<program, ast_nodes, loop, instantiated, begun, emitted, failed, history>>

StartCodegen ==
  /\ phase = "normalize" /\ stack = <<>>
  /\ node_index > initial_root_count
  /\ phase' = "generate" /\ node_index' = 1
  /\ UNCHANGED <<program, ast_nodes, instantiated, begun, normalized, emitted, stack, failed, history>>

-------------------------------------------------------------------------------
(* Code generation. *)

\* Mutant: the length the list had after parsing is the bound.
MoreParsedToGenerate == node_index <= initial_root_count

\* The length of the list is read again for each node.
MoreToGenerate == node_index <= Len(ast_nodes)

GenerateNext ==
  /\ phase = "generate" /\ stack = <<>>
  /\ MoreToGenerate
  /\ LET n == ast_nodes[node_index]
     IN  /\ EnterVisit(<<>>, "code", n)
         /\ generated' = generated \cup {n}
         /\ regenerated' = IF n \in generated THEN regenerated \cup {n} ELSE regenerated
  /\ UNCHANGED <<program, ast_nodes, loop, instantiated, normalized, failed, history>>

\* Mutants: the index is incremented wherever the node is; the node is found and not
\* passed; the next node is skipped.
AfterIndex(n) == node_index + 1

At(n) ==
  LET at == {i \in node_index .. Len(ast_nodes) : ast_nodes[i] = n}
  IN  IF at = {} THEN node_index + 1 ELSE CHOOSE i \in at : \A j \in at : i <= j

AfterNext(n) ==
  LET at == {i \in node_index .. Len(ast_nodes) : ast_nodes[i] = n}
  IN  IF at = {} THEN node_index + 1 ELSE (CHOOSE i \in at : \A j \in at : i <= j) + 2

\* The next node is the one after the node just visited, wherever that is now.
After(n) ==
  LET at == {i \in node_index .. Len(ast_nodes) : ast_nodes[i] = n}
  IN  IF at = {} THEN node_index + 1 ELSE (CHOOSE i \in at : \A j \in at : i <= j) + 1

NodeGenerated ==
  /\ Finished("code")
  /\ node_index' = After(Top.node)
  /\ stack' = <<>>
  /\ UNCHANGED <<program, ast_nodes, phase, instantiated, begun, normalized, emitted, failed, history>>

\* The nodes that a visit or a batch under way is still to normalize.
Unfinished(frame) ==
  CASE frame.kind = "roots" -> Elements(frame.todo)
    [] frame.kind = "sema"  -> {frame.node}
    [] frame.kind = "code"  -> {}
UnderWay == UNION {Unfinished(frame) : frame \in Elements(stack)}

\* An exception leaves every visit and batch under way.  Semantic analysis gives up;
\* the code generator goes on with the next node and refuses the object file at the end,
\* unless the node was a probe.
Throw ==
  /\ stack # <<>> /\ ~Registering
  /\ stack' = <<>>
  /\ \/ /\ phase = "normalize"
        /\ phase' = "aborted"
        /\ UNCHANGED <<node_index, failed>>
     \/ /\ phase = "generate"
        /\ node_index' = After(stack[1].node)
        /\ failed' = (failed \/ stack[1].node \notin Probe)
        /\ UNCHANGED phase
  /\ dropped' = dropped \cup UnderWay
  /\ UNCHANGED <<program, ast_nodes, instantiated, begun, normalized, emitted, shifts, behind>>

EndOfList ==
  /\ phase = "generate" /\ stack = <<>>
  /\ ~MoreToGenerate
  /\ phase' = "done"
  /\ UNCHANGED <<program, ast_nodes, node_index, instantiated, begun, normalized, emitted, stack, failed, history>>

Stopped == phase \in {"done", "aborted"} /\ UNCHANGED vars

Next ==
  \/ InstantiateLate \/ RegisterLate \/ InstantiateVariable \/ FindVariable
  \/ NormalizeRoot \/ RootsNormalized
  \/ NormalizeNext \/ NodeNormalized \/ StartCodegen
  \/ GenerateNext \/ NodeGenerated \/ Throw \/ EndOfList
  \/ Stopped

Spec == Init /\ [][Next]_vars /\ WF_vars(Next)

-------------------------------------------------------------------------------
Written == phase = "done" /\ ~failed

\* Every variable has its type, and the loops stay in the list.
TypeOK ==
  /\ ast_nodes \in Seq(Node)
  /\ phase \in {"normalize", "generate", "done", "aborted"}
  /\ node_index \in 1 .. Len(ast_nodes) + 1
  /\ instantiated \subseteq Node /\ normalized \subseteq instantiated
  /\ Elements(ast_nodes) \subseteq instantiated
  /\ begun \subseteq {"sema", "code"} \X Node
  /\ regenerated \subseteq generated /\ generated \subseteq Elements(ast_nodes)
  /\ \A i \in DOMAIN stack :
       /\ stack[i].kind \in {"roots", "sema", "code"}
       /\ stack[i].kind = "code" => i = 1
  /\ failed \in BOOLEAN
  /\ shifts \in Nat /\ behind \subseteq Variable /\ dropped \subseteq Node

\* No node is generated twice although insertions shift the list under the cursor.
GeneratedOnce == regenerated = {}

\* An object file that is written misses no node of the list, except the variables that
\* were inserted behind the cursor, which codegen leaves to compile time.
NoNodeSkipped == Written => Elements(ast_nodes) \ behind \subseteq generated

\* Of the parsed nodes, the initial pass misses at most one for each node inserted at the
\* front under it, and every later node is normalized before codegen reaches it, unless
\* an exception cut its normalization short and the loop of codegen went on.
OnlyShiftedRootsAreMissed ==
  phase \in {"generate", "done"} =>
    Cardinality((generated \ normalized) \ dropped) <= shifts

\* Code is generated only for nodes semantic analysis has normalized.
NormalizedBeforeGenerated == generated \ dropped \subseteq normalized

\* The two loops come to an end although the list grows under them.
Terminates == <>(phase \in {"done", "aborted"})
=============================================================================

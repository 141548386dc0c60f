--------------------------- MODULE DeferredEmission ---------------------------
(***************************************************************************)
(* What the code generator puts off: free inline functions until a call    *)
(* needs them, members of other structs a call makes reachable, lambdas    *)
(* and the members of local structs until the body around them is done     *)
(* (src/IrGenerator_*.cpp), and the loops of src/FlashCppMain.cpp that     *)
(* generate them after the top-level nodes.                                *)
(*                                                                         *)
(* Generating a body is one step; what it adds to the queues is given by   *)
(* the uses in the body.  Each iteration of each queue's loop is a step.   *)
(***************************************************************************)
EXTENDS Naturals, Sequences

CONSTANTS
  Function,  \* everything that has a body
  Kind,      \* "user", "inline", "member", "lambda", "generic" or "local"
  Owner,     \* the struct of a member or a local member
  Members,   \* the members of each struct, in order
  Programs   \* the top-level list, and the uses in each body

Elements(s) == {s[i] : i \in DOMAIN s}

\* A call of a static member queues its whole struct, another call just its target;
\* "define" is a lambda expression or the definition of a local struct.
Kinds == {"user", "inline", "member", "lambda", "generic", "local"}
Use == [kind : {"call", "callStatic", "define"}, target : Function]

ASSUME KindAssumption == Kind \in [Function -> Kinds]
ASSUME MembersAssumption ==
  \A f \in Function : Kind[f] \in {"member", "local"} =>
    /\ Members[Owner[f]] \in Seq({g \in Function : Kind[g] = Kind[f]})
    /\ f \in Elements(Members[Owner[f]])
ASSUME ProgramAssumption ==
  \A p \in Programs :
    /\ p.nodes \in Seq(Function)
    /\ p.uses \in [Function -> Seq(Use)]
    /\ \A f \in Function : \A i, j \in DOMAIN p.uses[f] :
         p.uses[f][i] = p.uses[f][j] => i = j

\* Static calls name members; free functions with a body are nodes of the list, those of
\* headers too.
ASSUME CallAssumption ==
  \A p \in Programs : \A f \in Function : \A i \in DOMAIN p.uses[f] :
    LET u == p.uses[f][i]
    IN  /\ u.kind = "callStatic" => Kind[u.target] = "member"
        /\ u.kind = "call" /\ Kind[u.target] = "inline" => u.target \in Elements(p.nodes)

VARIABLES
  program,
  phase,      \* "nodes", "lambdas", "scan", "locals", "members", "inlines" or "done"
  node_index,
  generated,  \* bodies generated: generated_function_names_ and generated_lambda_ids_
  deferred_inline_function_nodes, needed_inline_function_nodes,
  inline_emission_worklist, inline_processed,
  deferred_member_functions, deferred_member_function_nodes, members_processed,
  collected_lambdas,
  deduced,    \* generic lambdas a generated call has deduced
  processed_count, pass_size, pass_at,
  deferred_scan_start, scan_at, generated_deferred_lambda,
  collected_local_struct_members, local_at, local_end

inlines == <<deferred_inline_function_nodes, needed_inline_function_nodes, inline_emission_worklist>>
members == <<deferred_member_functions, deferred_member_function_nodes>>
lambdas == <<collected_lambdas, deduced>>
collected == <<inlines, members, lambdas, collected_local_struct_members>>
drained == <<inline_processed, members_processed>>
pass == <<processed_count, pass_size, pass_at>>
scan == <<deferred_scan_start, scan_at, generated_deferred_lambda>>
locals == <<local_at, local_end>>
vars == <<program, phase, node_index, generated, collected, drained, pass, scan, locals>>

Init ==
  /\ program \in Programs
  /\ phase = "nodes" /\ node_index = 1
  /\ generated = {}
  /\ deferred_inline_function_nodes = {} /\ needed_inline_function_nodes = {}
  /\ inline_emission_worklist = <<>> /\ inline_processed = 0
  /\ deferred_member_functions = <<>> /\ deferred_member_function_nodes = {}
  /\ members_processed = 0
  /\ collected_lambdas = <<>> /\ deduced = {}
  /\ processed_count = 0 /\ pass_size = 0 /\ pass_at = 0
  /\ deferred_scan_start = 1 /\ scan_at = 1 /\ generated_deferred_lambda = FALSE
  /\ collected_local_struct_members = <<>> /\ local_at = 1 /\ local_end = 0

-------------------------------------------------------------------------------
(* Generating a body. *)

\* The sequences in ss, one after the other.
Concat(ss) ==
  LET upto[n \in 0 .. Len(ss)] == IF n = 0 THEN <<>> ELSE upto[n - 1] \o ss[n]
  IN  upto[Len(ss)]

UsesIn(f) == program.uses[f]

\* What the uses in a body append to a queue, each in its turn.
Appended(f, By(_)) == Concat([i \in DOMAIN UsesIn(f) |-> By(UsesIn(f)[i])])

Targets(f, kinds, of) ==
  {u.target : u \in {v \in Elements(UsesIn(f)) : v.kind \in kinds /\ Kind[v.target] \in of}}
Called(f, of) == Targets(f, {"call", "callStatic"}, of)

\* requestInlineFunctionEmission, for each call: the first request of a deferred
\* definition lists it for emission; one that is not visited yet will emit itself.
RequestInlines(f) ==
  LET wanted == deferred_inline_function_nodes \ needed_inline_function_nodes
      Listed(u) == IF u.kind = "call" /\ u.target \in wanted THEN <<u.target>> ELSE <<>>
  IN  /\ inline_emission_worklist' = inline_emission_worklist \o Appended(f, Listed)
      /\ needed_inline_function_nodes' =
           needed_inline_function_nodes \cup Targets(f, {"call"}, {"inline"})

\* queueDeferredMemberFunctionFromNode queues a node once; the lambda
\* queueDeferredMemberFunctions queues a struct's members each time.
QueueMembers(f) ==
  LET Unqueued(m) == Kind[m] = "member" /\ m \notin deferred_member_function_nodes
      Queued(u) ==
        IF u.kind = "callStatic" THEN Members[Owner[u.target]]
        ELSE IF u.kind = "call" /\ Unqueued(u.target) THEN <<u.target>> ELSE <<>>
  IN  /\ deferred_member_functions' = deferred_member_functions \o Appended(f, Queued)
      /\ deferred_member_function_nodes' =
           deferred_member_function_nodes \cup Targets(f, {"call"}, {"member"})

Defines(u, of) == u.kind = "define" /\ Kind[u.target] \in of

CollectLambdas(f) ==
  LET Collected(u) == IF Defines(u, {"lambda", "generic"}) THEN <<u.target>> ELSE <<>>
  IN  /\ collected_lambdas' = collected_lambdas \o Appended(f, Collected)
      /\ deduced' = deduced \cup Called(f, {"generic"})

CollectLocalStruct(f) ==
  LET Collected(u) == IF Defines(u, {"local"}) THEN Members[Owner[u.target]] ELSE <<>>
  IN  collected_local_struct_members' = collected_local_struct_members \o Appended(f, Collected)

Generate(f) ==
  /\ generated' = generated \cup {f}
  /\ RequestInlines(f) /\ QueueMembers(f) /\ CollectLambdas(f) /\ CollectLocalStruct(f)
  /\ UNCHANGED deferred_inline_function_nodes

\* visitFunctionDeclarationNode: an inline function nobody needs yet is put aside.
PutAside(f) == Kind[f] = "inline" /\ f \notin needed_inline_function_nodes

VisitFunction(f) ==
  \/ /\ PutAside(f)
     /\ deferred_inline_function_nodes' = deferred_inline_function_nodes \cup {f}
     /\ UNCHANGED <<generated, needed_inline_function_nodes, inline_emission_worklist,
                    members, lambdas, collected_local_struct_members>>
  \/ ~PutAside(f) /\ f \notin generated /\ Generate(f)
  \/ ~PutAside(f) /\ f \in generated /\ UNCHANGED <<generated, collected>>

VisitNode ==
  /\ phase = "nodes" /\ node_index <= Len(program.nodes)
  /\ VisitFunction(program.nodes[node_index])
  /\ node_index' = node_index + 1
  /\ UNCHANGED <<program, phase, drained, pass, scan, locals>>

-------------------------------------------------------------------------------
(* generateCollectedLambdas. *)

\* The inner loop goes from the newest lambda back to those of the previous pass.
\* Mutant: the pass begins behind the newest lambda.
BeginPassBehind ==
  /\ phase' = "lambdas"
  /\ pass_size' = Len(collected_lambdas) + 1 /\ pass_at' = Len(collected_lambdas)

BeginPass ==
  /\ phase' = "lambdas"
  /\ pass_size' = Len(collected_lambdas) /\ pass_at' = Len(collected_lambdas)

StartLambdas ==
  /\ phase = "nodes" /\ node_index > Len(program.nodes)
  /\ BeginPass
  /\ UNCHANGED <<program, node_index, generated, collected, drained, processed_count, scan, locals>>

\* Mutant: a plain lambda waits to be deduced, too.
DeducedByCall(l) == l \in deduced

Deduced(l) == Kind[l] = "generic" => l \in deduced

PassStep ==
  /\ phase = "lambdas" /\ pass_at > processed_count
  /\ LET l == collected_lambdas[pass_at]
     IN  IF Deduced(l) /\ l \notin generated
         THEN Generate(l)
         ELSE UNCHANGED <<generated, collected>>
  /\ pass_at' = pass_at - 1
  /\ UNCHANGED <<program, phase, node_index, drained, processed_count, pass_size, scan, locals>>

EndPass ==
  /\ phase = "lambdas" /\ pass_at = processed_count
  /\ processed_count' = pass_size
  /\ IF pass_size < Len(collected_lambdas)
     THEN BeginPass /\ UNCHANGED scan
     ELSE /\ phase' = "scan"
          /\ scan_at' = deferred_scan_start /\ generated_deferred_lambda' = FALSE
          /\ UNCHANGED <<pass_size, pass_at, deferred_scan_start>>
  /\ UNCHANGED <<program, node_index, generated, collected, drained, locals>>

\* The scan for generic lambdas that were deduced since the passes went by them.  Its
\* window advances past any first lambda there is nothing to generate for.
ScanSkips(l) == Kind[l] # "generic" \/ l \notin deduced

ScanStep ==
  /\ phase = "scan" /\ scan_at <= Len(collected_lambdas)
  /\ LET l == collected_lambdas[scan_at]
     IN  \/ /\ ScanSkips(l)
            /\ deferred_scan_start' =
                 IF scan_at = deferred_scan_start THEN scan_at + 1 ELSE deferred_scan_start
            /\ UNCHANGED <<generated_deferred_lambda, generated, collected>>
         \/ /\ ~ScanSkips(l)
            /\ IF l \in generated
               THEN UNCHANGED <<generated_deferred_lambda, generated, collected>>
               ELSE Generate(l) /\ generated_deferred_lambda' = TRUE
            /\ UNCHANGED deferred_scan_start
  /\ scan_at' = scan_at + 1
  /\ UNCHANGED <<program, phase, node_index, drained, pass, locals>>

\* Mutant: a scan is never the last one.
NeverDone == FALSE

LambdasDone == ~generated_deferred_lambda /\ processed_count >= Len(collected_lambdas)

EndScan ==
  /\ phase = "scan" /\ scan_at > Len(collected_lambdas)
  /\ IF LambdasDone
     THEN /\ phase' = "locals"
          /\ local_end' = Len(collected_local_struct_members)
          /\ UNCHANGED <<pass_size, pass_at>>
     ELSE BeginPass /\ UNCHANGED local_end
  /\ UNCHANGED <<program, node_index, generated, collected, drained, processed_count, scan, local_at>>

-------------------------------------------------------------------------------
(* The other queues. *)

\* generateCollectedLocalStructMembers iterates over a vector its visits append to.  The
\* end of the loop is the one the vector had when it began; once the vector has grown, it
\* may have moved, and an entry read from where it was may or may not be the entry.
VectorGrew == Len(collected_local_struct_members) > local_end

LocalStep ==
  /\ phase = "locals" /\ local_at <= local_end
  /\ \/ VisitFunction(collected_local_struct_members[local_at])
     \/ VectorGrew /\ UNCHANGED <<generated, collected>>
  /\ local_at' = local_at + 1
  /\ UNCHANGED <<program, phase, node_index, drained, pass, scan, local_end>>

MembersPending == members_processed < Len(deferred_member_functions)
InlinesPending == inline_processed < Len(inline_emission_worklist)

\* Mutant: a member the last inline functions queued is left.
NextInlineRound == IF InlinesPending THEN "members" ELSE "done"

\* The outer loop alternates between the two queues until both are empty.
NextRound == IF MembersPending \/ InlinesPending THEN "members" ELSE "done"

EndLocals ==
  /\ phase = "locals" /\ local_at > local_end
  /\ phase' = NextRound
  /\ UNCHANGED <<program, node_index, generated, collected, drained, pass, scan, locals>>

MemberStep ==
  /\ phase = "members" /\ MembersPending
  /\ members_processed' = members_processed + 1
  /\ VisitFunction(deferred_member_functions[members_processed'])
  /\ UNCHANGED <<program, phase, node_index, inline_processed, pass, scan, locals>>

EndMembers ==
  /\ phase = "members" /\ ~MembersPending
  /\ phase' = "inlines"
  /\ UNCHANGED <<program, node_index, generated, collected, drained, pass, scan, locals>>

InlineStep ==
  /\ phase = "inlines" /\ InlinesPending
  /\ inline_processed' = inline_processed + 1
  /\ VisitFunction(inline_emission_worklist[inline_processed'])
  /\ UNCHANGED <<program, phase, node_index, members_processed, pass, scan, locals>>

EndInlines ==
  /\ phase = "inlines" /\ ~InlinesPending
  /\ phase' = NextRound
  /\ UNCHANGED <<program, node_index, generated, collected, drained, pass, scan, locals>>

Done == phase = "done" /\ UNCHANGED vars

Next ==
  \/ VisitNode
  \/ StartLambdas \/ PassStep \/ EndPass \/ ScanStep \/ EndScan
  \/ LocalStep \/ EndLocals
  \/ MemberStep \/ EndMembers \/ InlineStep \/ EndInlines
  \/ Done

Spec == Init /\ [][Next]_vars /\ WF_vars(Next)

-------------------------------------------------------------------------------
\* Every variable has its type, and no loop runs past its queue.
TypeOK ==
  /\ phase \in {"nodes", "lambdas", "scan", "locals", "members", "inlines", "done"}
  /\ node_index \in 1 .. Len(program.nodes) + 1
  /\ generated \subseteq Function
  /\ needed_inline_function_nodes \cup deferred_inline_function_nodes
       \subseteq {f \in Function : Kind[f] = "inline"}
  /\ inline_emission_worklist \in Seq(Function)
  /\ inline_processed \in 0 .. Len(inline_emission_worklist)
  /\ deferred_member_functions \in Seq({f \in Function : Kind[f] = "member"})
  /\ deferred_member_function_nodes \subseteq Elements(deferred_member_functions)
  /\ members_processed \in 0 .. Len(deferred_member_functions)
  /\ collected_lambdas \in Seq({f \in Function : Kind[f] \in {"lambda", "generic"}})
  /\ deduced \subseteq {f \in Function : Kind[f] = "generic"}
  /\ pass_size \in 0 .. Len(collected_lambdas)
  /\ processed_count \in 0 .. pass_size
  /\ pass_at \in processed_count .. pass_size \/ phase # "lambdas"
  /\ deferred_scan_start \in 1 .. Len(collected_lambdas) + 1
  /\ scan_at \in 1 .. Len(collected_lambdas) + 1
  /\ generated_deferred_lambda \in BOOLEAN
  /\ collected_local_struct_members \in Seq({f \in Function : Kind[f] = "local"})
  /\ local_end \in 0 .. Len(collected_local_struct_members)
  /\ local_at \in 1 .. local_end + 1

\* When the object is written, each inline function and each member that a generated
\* body calls is generated, whichever of the loops the call or the callee was in.
CalledFunctionsEmitted ==
  phase = "done" => \A f \in generated : Called(f, {"inline", "member"}) \subseteq generated

\* What was collected while its loop could still see it is generated: a plain lambda
\* before the lambda loop ended, a member of a local struct before its loop began, unless
\* that loop's vector grew under it.
CollectedInTimeIsEmitted ==
  /\ phase = "locals" /\ local_at = 1 =>
       \A i \in DOMAIN collected_lambdas :
         Kind[collected_lambdas[i]] = "lambda" => collected_lambdas[i] \in generated
  /\ phase = "locals" /\ local_at > local_end /\ ~VectorGrew =>
       \A i \in 1 .. local_end : collected_local_struct_members[i] \in generated

\* The loops feed each other's queues and come to an end.
Terminates == <>(phase = "done")

\* A generic lambda stays in the scan window until it is deduced: none that is deduced
\* when the lambda loop ends was left out.
DeducedLambdasEmitted ==
  phase = "locals" => \A i \in DOMAIN collected_lambdas :
    Deduced(collected_lambdas[i]) => collected_lambdas[i] \in generated

\* Nothing a generated body defines is missing from the object: no plain lambda and no
\* member of a local struct.
NothingCollectedIsSkipped ==
  phase = "done" =>
    \A f \in Elements(collected_lambdas) \cup Elements(collected_local_struct_members) :
      Kind[f] # "generic" => f \in generated
=============================================================================

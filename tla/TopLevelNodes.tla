----------------------------- MODULE TopLevelNodes -----------------------------
(***************************************************************************)
(* The list of top-level AST nodes the parser hands to semantic analysis   *)
(* and code generation (ast_nodes_ of src/Parser.h), with the tags of its  *)
(* late-materialized nodes, the roots pending for normalization, and what  *)
(* a restored token position does to it (src/Parser_Core.cpp).             *)
(*                                                                         *)
(* A saved token position remembers only how long the list was.  Restoring *)
(* it walks the list from its end down to that length and erases what is   *)
(* neither a function nor a struct: one step of the walk is one action,    *)
(* and the parser does nothing else until the walk is over.                *)
(***************************************************************************)
EXTENDS Naturals, Sequences

CONSTANTS
  UserNode,    \* nodes of user-written declarations
  LateNode,    \* nodes of template instantiations
  Kind,        \* what a node is: "Function", "Struct", "Variable" or "Other"
  MaxHandles,  \* bound on the save handles of a run
  None         \* an empty slot

Node == UserNode \cup LateNode
Handles == 0 .. MaxHandles - 1

ASSUME NodeAssumption ==
  /\ UserNode \cap LateNode = {}
  /\ Kind \in [Node -> {"Function", "Struct", "Variable", "Other"}]
ASSUME BoundAssumption == MaxHandles \in Nat
ASSUME NoneAssumption ==
  None \notin Nat /\ None \notin [at : Nat, floor : Nat, handle : Handles]

VARIABLES
  ast_nodes,                 \* the list
  ast_node_is_instantiated,  \* its parallel tags
  instantiated_node_keys,    \* late nodes registered and not erased
  pending_semantic_roots,    \* registered, not yet normalized
  normalized,                \* roots semantic analysis has normalized
  symbols,                   \* variable instantiations gSymbolTable knows
  ast_discarded_nodes,       \* erased nodes, kept alive
  saved_size,                \* ast_nodes_size_ of each live save handle
  next_save_handle,
  walk,                      \* the restore under way, or None
  since,                     \* history: nodes listed ever since a handle was saved
  fronts                     \* history: front insertions since a handle was saved

list == <<ast_nodes, ast_node_is_instantiated, instantiated_node_keys>>
roots == <<pending_semantic_roots, normalized>>
saves == <<saved_size, next_save_handle>>
history == <<since, fronts>>
vars == <<list, roots, symbols, ast_discarded_nodes, saves, walk, history>>

Listed(n) == \E i \in DOMAIN ast_nodes : ast_nodes[i] = n

Init ==
  /\ ast_nodes = <<>> /\ ast_node_is_instantiated = <<>>
  /\ instantiated_node_keys = {}
  /\ pending_semantic_roots = {} /\ normalized = {}
  /\ symbols = {}
  /\ ast_discarded_nodes = {}
  /\ saved_size = [h \in Handles |-> None] /\ next_save_handle = 0
  /\ walk = None
  /\ since = [h \in Handles |-> {}] /\ fronts = [h \in Handles |-> 0]

-------------------------------------------------------------------------------
(* Registering nodes. *)

\* appendUserNode: every parsed declaration is a node of its own, never seen before.
AppendUserNode(n) ==
  /\ walk = None
  /\ ~Listed(n) /\ n \notin ast_discarded_nodes
  /\ ast_nodes' = Append(ast_nodes, n)
  /\ ast_node_is_instantiated' = Append(ast_node_is_instantiated, FALSE)
  /\ UNCHANGED <<instantiated_node_keys, roots, symbols, ast_discarded_nodes, saves, walk, history>>

\* Mutants: a registered node is listed again; it is listed in front without being counted.
PushLateAgain(n) ==
  /\ ast_nodes' = Append(ast_nodes, n)
  /\ ast_node_is_instantiated' = Append(ast_node_is_instantiated, TRUE)
  /\ instantiated_node_keys' = instantiated_node_keys \cup {n}

PushLateBefore(n) ==
  IF n \in instantiated_node_keys
  THEN UNCHANGED list
  ELSE /\ ast_nodes' = <<n>> \o ast_nodes
       /\ ast_node_is_instantiated' = <<TRUE>> \o ast_node_is_instantiated
       /\ instantiated_node_keys' = instantiated_node_keys \cup {n}

\* registerLateMaterializedTopLevelNode: lists a node once; the node is enqueued for
\* normalization whether or not it was listed before.
PushLate(n) ==
  IF n \in instantiated_node_keys
  THEN UNCHANGED list
  ELSE /\ ast_nodes' = Append(ast_nodes, n)
       /\ ast_node_is_instantiated' = Append(ast_node_is_instantiated, TRUE)
       /\ instantiated_node_keys' = instantiated_node_keys \cup {n}

\* Mutant: the node is listed and not enqueued.
NotEnqueued(n) == pending_semantic_roots

Enqueued(n) == pending_semantic_roots \cup {n}

\* takePendingSemanticRoots empties the queue, and every root taken is normalized.
Drain(pending) ==
  /\ pending_semantic_roots' = {}
  /\ normalized' = normalized \cup pending

RegisterLate(n) ==
  /\ walk = None
  /\ Kind[n] # "Variable"
  /\ PushLate(n)
  /\ pending_semantic_roots' = Enqueued(n)
  /\ UNCHANGED <<normalized, symbols, ast_discarded_nodes, saves, walk, history>>

RegisterAndNormalizeLate(n) ==
  /\ walk = None
  /\ Kind[n] # "Variable"
  /\ PushLate(n)
  /\ Drain(Enqueued(n))
  /\ UNCHANGED <<symbols, ast_discarded_nodes, saves, walk, history>>

NormalizePendingSemanticRoots ==
  /\ walk = None
  /\ Drain(pending_semantic_roots)
  /\ UNCHANGED <<list, symbols, ast_discarded_nodes, saves, walk, history>>

\* try_instantiate_variable_template: an instantiation the symbol table knows is
\* returned as it is; a new one is recorded there, listed at the FRONT and normalized.
\* Its key is registered by no one before, so the code's test of the keys always passes here.
PushLateFront(n) ==
  /\ ast_nodes' = <<n>> \o ast_nodes
  /\ ast_node_is_instantiated' = <<TRUE>> \o ast_node_is_instantiated
  /\ instantiated_node_keys' = instantiated_node_keys \cup {n}

InstantiateVariableTemplate(n) ==
  /\ walk = None
  /\ Kind[n] = "Variable" /\ n \notin symbols
  /\ symbols' = symbols \cup {n}
  /\ PushLateFront(n)
  /\ Drain(Enqueued(n))
  /\ fronts' = [h \in Handles |-> fronts[h] + 1]
  /\ UNCHANGED <<ast_discarded_nodes, saves, walk, since>>

-------------------------------------------------------------------------------
(* Saving and restoring. *)

SaveTokenPosition ==
  /\ walk = None
  /\ next_save_handle < MaxHandles
  /\ saved_size' = [saved_size EXCEPT ![next_save_handle] = Len(ast_nodes)]
  /\ next_save_handle' = next_save_handle + 1
  /\ since' = [since EXCEPT ![next_save_handle] = {n \in Node : Listed(n)}]
  /\ fronts' = [fronts EXCEPT ![next_save_handle] = 0]
  /\ UNCHANGED <<list, roots, symbols, ast_discarded_nodes, walk>>

DiscardSavedToken(h) ==
  /\ walk = None
  /\ saved_size[h] # None
  /\ saved_size' = [saved_size EXCEPT ![h] = None]
  /\ UNCHANGED <<list, roots, symbols, ast_discarded_nodes, next_save_handle, walk, history>>

\* Nothing is left to do when the list is no longer than it was, or shorter.
Walk(at, floor, h) ==
  IF at > floor THEN [at |-> at, floor |-> floor, handle |-> h] ELSE None

RestoreTokenPosition(h) ==
  /\ walk = None
  /\ saved_size[h] # None
  /\ walk' = Walk(Len(ast_nodes), saved_size[h], h)
  /\ UNCHANGED <<list, roots, symbols, ast_discarded_nodes, saves, history>>

\* eraseTopLevelNodeAt keeps list, tags and keys in step.
Erased(s, i) == [j \in 1 .. Len(s) - 1 |-> IF j < i THEN s[j] ELSE s[j + 1]]

\* Mutants: the tags are not erased with the nodes; the keys are not.
EraseWithoutTag(i) ==
  /\ ast_nodes' = Erased(ast_nodes, i)
  /\ instantiated_node_keys' = instantiated_node_keys \ {ast_nodes[i]}
  /\ UNCHANGED ast_node_is_instantiated

EraseWithoutKey(i) ==
  /\ ast_nodes' = Erased(ast_nodes, i)
  /\ ast_node_is_instantiated' = Erased(ast_node_is_instantiated, i)
  /\ UNCHANGED instantiated_node_keys

EraseTopLevelNodeAt(i) ==
  /\ ast_nodes' = Erased(ast_nodes, i)
  /\ ast_node_is_instantiated' = Erased(ast_node_is_instantiated, i)
  /\ instantiated_node_keys' = instantiated_node_keys \ {ast_nodes[i]}

KeptByRestore(n) == Kind[n] \in {"Function", "Struct"}

\* cleanupAstNodesAfterRestore, one node.
CleanupStep ==
  /\ walk # None
  /\ walk' = Walk(walk.at - 1, walk.floor, walk.handle)
  /\ LET n == ast_nodes[walk.at]
     IN  IF KeptByRestore(n)
         THEN UNCHANGED <<list, ast_discarded_nodes, since>>
         ELSE /\ EraseTopLevelNodeAt(walk.at)
              /\ ast_discarded_nodes' = ast_discarded_nodes \cup {n}
              /\ since' = [h \in Handles |-> since[h] \ {n}]
  /\ UNCHANGED <<roots, symbols, saves, fronts>>

-------------------------------------------------------------------------------
Next ==
  \/ \E n \in UserNode : AppendUserNode(n)
  \/ \E n \in LateNode : \/ RegisterLate(n)
                         \/ RegisterAndNormalizeLate(n)
                         \/ InstantiateVariableTemplate(n)
  \/ NormalizePendingSemanticRoots
  \/ SaveTokenPosition
  \/ \E h \in Handles : RestoreTokenPosition(h) \/ DiscardSavedToken(h)
  \/ CleanupStep

Spec == Init /\ [][Next]_vars

-------------------------------------------------------------------------------
\* Every variable has its type, the two lists are parallel and a walk stays in them.
TypeOK ==
  /\ ast_nodes \in Seq(Node)
  /\ ast_node_is_instantiated \in Seq(BOOLEAN)
  /\ Len(ast_node_is_instantiated) = Len(ast_nodes)
  /\ instantiated_node_keys \subseteq LateNode
  /\ pending_semantic_roots \subseteq Node /\ normalized \subseteq Node
  /\ symbols \subseteq LateNode
  /\ ast_discarded_nodes \subseteq Node
  /\ saved_size \in [Handles -> Nat \cup {None}]
  /\ next_save_handle \in 0 .. MaxHandles
  /\ walk \in [at : Nat, floor : Nat, handle : Handles] \cup {None}
  /\ walk # None => walk.floor < walk.at /\ walk.at <= Len(ast_nodes)
  /\ since \in [Handles -> SUBSET Node]
  /\ fronts \in [Handles -> Nat]

\* The tag of each position tells whether its node is a registered instantiation, and
\* each registered instantiation is in the list: codegen's split into user-written and
\* instantiated nodes stays exact through front insertions and partial restores.
TagsExact ==
  /\ \A i \in DOMAIN ast_nodes :
       ast_node_is_instantiated[i] <=> ast_nodes[i] \in instantiated_node_keys
  /\ \A n \in instantiated_node_keys : Listed(n)

\* No node is listed twice, so no symbol is defined twice (LNK2005), although several
\* instantiation paths register the same node and a restore may unlist it in between.
NoDuplicateRoots ==
  \A i, j \in DOMAIN ast_nodes : ast_nodes[i] = ast_nodes[j] => i = j

\* A restore loses an earlier node only if a front insertion pushed it beyond the saved
\* length: no node listed since a save is further back than the length saved plus the
\* front insertions since.
OnlyShiftedNodesAreLost ==
  \A h \in Handles : saved_size[h] # None =>
    \A i \in DOMAIN ast_nodes :
      ast_nodes[i] \in since[h] => i <= saved_size[h] + fronts[h]

\* Every instantiation in the list reaches semantic analysis: it is normalized or queued.
InstantiationsReachSema ==
  instantiated_node_keys \subseteq pending_semantic_roots \cup normalized

\* Functions and structs survive every restore: the template registry's cache still
\* names them, and codegen has to find their bodies.
DeclarationsSurvive ==
  [][\A n \in Node : Listed(n) /\ Kind[n] \in {"Function", "Struct"} => Listed(n)']_vars

\* While nothing was inserted at the front since the save, a restore undoes what was
\* listed after the save and nothing older.
UnshiftedNodesStay ==
  [][walk # None /\ fronts[walk.handle] = 0 =>
       \A n \in since[walk.handle] : Listed(n)']_vars

\* A restore undoes what was listed after the save and nothing older, in any case.
RestoreKeepsEarlierNodes ==
  [][walk # None => \A n \in since[walk.handle] : Listed(n)']_vars

\* A variable instantiation that later lookups find is in the list for code generation.
KnownInstantiationsListed == \A n \in symbols : Listed(n)
=============================================================================

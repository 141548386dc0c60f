------------------------- MODULE TopLevelNodes_proofs -------------------------
(***************************************************************************)
(* The list of top-level nodes keeps its tags, its keys and its earlier    *)
(* nodes through registrations, front insertions and restores, for every   *)
(* set of nodes and every number of save handles.                          *)
(***************************************************************************)
EXTENDS TopLevelNodes, SequenceTheorems, TLAPS

\* eraseTopLevelNodeAt closes the gap: what was before position i stays, the rest moves up.
LEMMA ErasedProperties ==
  ASSUME NEW S, NEW s \in Seq(S), NEW i \in 1 .. Len(s)
  PROVE  /\ Erased(s, i) \in Seq(S)
         /\ Len(Erased(s, i)) = Len(s) - 1
         /\ \A j \in 1 .. Len(s) - 1 : Erased(s, i)[j] = IF j < i THEN s[j] ELSE s[j + 1]
<1>1. Len(s) \in Nat /\ Len(s) - 1 \in Nat
  BY LenProperties
<1>2. \A j \in 1 .. Len(s) - 1 : (IF j < i THEN s[j] ELSE s[j + 1]) \in S
  BY <1>1, ElementOfSeq
<1>3. Erased(s, i) \in [1 .. Len(s) - 1 -> S]
  BY <1>2 DEF Erased
<1>4. Erased(s, i) \in Seq(S)
  BY <1>1, <1>3, SeqDef
<1>5. Len(Erased(s, i)) = Len(s) - 1
  BY <1>1, <1>3, <1>4, LenProperties
<1> QED BY <1>4, <1>5 DEF Erased

\* A front insertion moves every node one position back.
LEMMA PrependProperties ==
  ASSUME NEW S, NEW s \in Seq(S), NEW e \in S
  PROVE  /\ <<e>> \o s \in Seq(S)
         /\ Len(<<e>> \o s) = Len(s) + 1
         /\ (<<e>> \o s)[1] = e
         /\ \A j \in 1 .. Len(s) : (<<e>> \o s)[j + 1] = s[j]
<1>1. <<e>> \in Seq(S) /\ Len(<<e>>) = 1 /\ <<e>>[1] = e
  OBVIOUS
<1>2. Len(s) \in Nat
  BY LenProperties
<1>3. /\ <<e>> \o s \in Seq(S)
      /\ Len(<<e>> \o s) = 1 + Len(s)
      /\ \A i \in 1 .. 1 + Len(s) : (<<e>> \o s)[i] = IF i <= 1 THEN <<e>>[1] ELSE s[i - 1]
  BY <1>1, ConcatProperties
<1>4. \A j \in 1 .. Len(s) : (<<e>> \o s)[j + 1] = s[j]
  <2> TAKE j \in 1 .. Len(s)
  <2>1. j + 1 \in 1 .. 1 + Len(s) /\ ~(j + 1 <= 1) /\ (j + 1) - 1 = j
    BY <1>2
  <2> QED BY <1>3, <2>1
<1> QED BY <1>1, <1>2, <1>3, <1>4

-----------------------------------------------------------------------------
\* Registering a late node lists it, or finds it listed: the three parallel parts of the
\* list stay well typed and the list only grows.
LEMMA PushLateType ==
  ASSUME TypeOK, NEW n \in LateNode, PushLate(n)
  PROVE  /\ ast_nodes' \in Seq(Node)
         /\ ast_node_is_instantiated' \in Seq(BOOLEAN)
         /\ Len(ast_node_is_instantiated') = Len(ast_nodes')
         /\ instantiated_node_keys' \subseteq LateNode
<1>1. CASE n \in instantiated_node_keys
  BY <1>1 DEF TypeOK, PushLate, list
<1>2. CASE n \notin instantiated_node_keys
  <2>1. /\ ast_nodes' = Append(ast_nodes, n)
        /\ ast_node_is_instantiated' = Append(ast_node_is_instantiated, TRUE)
        /\ instantiated_node_keys' = instantiated_node_keys \cup {n}
    BY <1>2 DEF PushLate
  <2>2. ast_nodes \in Seq(Node) /\ ast_node_is_instantiated \in Seq(BOOLEAN) /\ n \in Node
    BY DEF TypeOK, Node
  <2>3. ast_nodes' \in Seq(Node) /\ Len(ast_nodes') = Len(ast_nodes) + 1
    BY <2>1, <2>2, AppendProperties
  <2>4. /\ ast_node_is_instantiated' \in Seq(BOOLEAN)
        /\ Len(ast_node_is_instantiated') = Len(ast_node_is_instantiated) + 1
    BY <2>1, <2>2, AppendProperties
  <2> QED BY <2>1, <2>3, <2>4 DEF TypeOK
<1> QED BY <1>1, <1>2

\* The variables keep their types, and the walk of a restore stays within the list.
THEOREM TypeCorrect == Spec => []TypeOK
<1>1. Init => TypeOK
  BY BoundAssumption, EmptySeq DEF Init, TypeOK
<1>2. TypeOK /\ [Next]_vars => TypeOK'
  <2> SUFFICES ASSUME TypeOK, [Next]_vars PROVE TypeOK'
    OBVIOUS
  <2> USE BoundAssumption DEF TypeOK, list, roots, saves, history
  <2>1. ASSUME NEW n \in UserNode, AppendUserNode(n) PROVE TypeOK'
    <3>1. /\ ast_nodes' \in Seq(Node) /\ ast_node_is_instantiated' \in Seq(BOOLEAN)
          /\ Len(ast_node_is_instantiated') = Len(ast_nodes')
      BY <2>1, AppendProperties, LenProperties DEF AppendUserNode, Node
    <3> QED BY <2>1, <3>1 DEF AppendUserNode
  <2>2. ASSUME NEW n \in LateNode, RegisterLate(n) PROVE TypeOK'
    BY <2>2, PushLateType DEF RegisterLate, Enqueued, Node
  <2>3. ASSUME NEW n \in LateNode, RegisterAndNormalizeLate(n) PROVE TypeOK'
    BY <2>3, PushLateType DEF RegisterAndNormalizeLate, Drain, Enqueued, Node
  <2>4. ASSUME NEW n \in LateNode, InstantiateVariableTemplate(n) PROVE TypeOK'
    <3>1. /\ ast_nodes' \in Seq(Node) /\ ast_node_is_instantiated' \in Seq(BOOLEAN)
          /\ Len(ast_node_is_instantiated') = Len(ast_nodes')
      BY <2>4, PrependProperties, LenProperties DEF InstantiateVariableTemplate, PushLateFront, Node
    <3>2. fronts' \in [Handles -> Nat]
      BY <2>4 DEF InstantiateVariableTemplate
    <3> QED BY <2>4, <3>1, <3>2
        DEF InstantiateVariableTemplate, PushLateFront, Drain, Enqueued, Node
  <2>5. CASE NormalizePendingSemanticRoots
    BY <2>5 DEF NormalizePendingSemanticRoots, Drain
  <2>6. CASE SaveTokenPosition
    <3>1. Len(ast_nodes) \in Nat /\ next_save_handle \in Handles
      BY <2>6, LenProperties DEF SaveTokenPosition, Handles
    <3> QED BY <2>6, <3>1 DEF SaveTokenPosition, Handles
  <2>7. ASSUME NEW h \in Handles, RestoreTokenPosition(h) PROVE TypeOK'
    <3>1. Len(ast_nodes) \in Nat /\ saved_size[h] \in Nat
      BY <2>7, LenProperties DEF RestoreTokenPosition
    <3>2. CASE Len(ast_nodes) > saved_size[h]
      <4>1. walk' = [at |-> Len(ast_nodes), floor |-> saved_size[h], handle |-> h]
        BY <2>7, <3>2 DEF RestoreTokenPosition, Walk
      <4> QED BY <2>7, <3>1, <3>2, <4>1 DEF RestoreTokenPosition
    <3>3. CASE ~(Len(ast_nodes) > saved_size[h])
      <4>1. walk' = None
        BY <2>7, <3>3 DEF RestoreTokenPosition, Walk
      <4> QED BY <2>7, <4>1 DEF RestoreTokenPosition
    <3> QED BY <3>2, <3>3
  <2>8. ASSUME NEW h \in Handles, DiscardSavedToken(h) PROVE TypeOK'
    BY <2>8 DEF DiscardSavedToken
  <2>9. CASE CleanupStep
    <3> DEFINE at == walk.at
               n == ast_nodes[at]
    <3>1. /\ at \in 1 .. Len(ast_nodes) /\ at > walk.floor
          /\ walk.floor \in Nat /\ walk.handle \in Handles
      BY <2>9, LenProperties DEF CleanupStep
    <3>2. n \in Node
      BY <3>1, ElementOfSeq
    <3>3. walk' \in [at : Nat, floor : Nat, handle : Handles] \cup {None}
      BY <2>9, <3>1 DEF CleanupStep, Walk
    <3>4. walk' # None => walk'.floor < walk'.at /\ walk'.at = at - 1
      BY <2>9, <3>1 DEF CleanupStep, Walk
    <3>5. CASE KeptByRestore(n)
      BY <2>9, <3>1, <3>3, <3>4, <3>5, LenProperties DEF CleanupStep
    <3>6. CASE ~KeptByRestore(n)
      <4>1. /\ ast_nodes' = Erased(ast_nodes, at)
            /\ ast_node_is_instantiated' = Erased(ast_node_is_instantiated, at)
            /\ instantiated_node_keys' \subseteq instantiated_node_keys
            /\ ast_discarded_nodes' = ast_discarded_nodes \cup {n}
            /\ since' = [h \in Handles |-> since[h] \ {n}]
            /\ UNCHANGED <<roots, symbols, saves, fronts>>
        BY <2>9, <3>6 DEF CleanupStep, EraseTopLevelNodeAt
      <4>2. /\ ast_nodes' \in Seq(Node) /\ Len(ast_nodes') = Len(ast_nodes) - 1
            /\ ast_node_is_instantiated' \in Seq(BOOLEAN)
            /\ Len(ast_node_is_instantiated') = Len(ast_nodes')
        BY <3>1, <4>1, ErasedProperties
      <4>3. since' \in [Handles -> SUBSET Node]
        BY <4>1
      <4> HIDE DEF at, n
      <4> QED BY <3>1, <3>2, <3>3, <3>4, <4>1, <4>2, <4>3
    <3> QED BY <3>5, <3>6
  <2>10. CASE UNCHANGED vars
    BY <2>10 DEF vars
  <2> QED BY <2>1, <2>2, <2>3, <2>4, <2>5, <2>6, <2>7, <2>8, <2>9, <2>10 DEF Next
<1> QED BY <1>1, <1>2, PTL DEF Spec

-----------------------------------------------------------------------------
(* The list and its tags.  The invariant is inductive with two more facts: a *)
(* listed node of an instantiation is registered, and a registered variable  *)
(* is known to the symbol table.                                             *)
LateRegistered ==
  \A i \in DOMAIN ast_nodes :
    ast_nodes[i] \in LateNode => ast_nodes[i] \in instantiated_node_keys

VariablesKnown ==
  \A n \in instantiated_node_keys : Kind[n] = "Variable" => n \in symbols

ListExact == TagsExact /\ NoDuplicateRoots /\ LateRegistered

\* An instantiation that is not registered is not listed.
LEMMA UnregisteredUnlisted ==
  ASSUME ListExact, NEW n \in LateNode, n \notin instantiated_node_keys
  PROVE  ~Listed(n)
BY DEF ListExact, LateRegistered, Listed

\* Listing an unlisted node at the end keeps the list exact.
LEMMA AppendExact ==
  ASSUME TypeOK, ListExact, NEW n \in Node, ~Listed(n), NEW tag \in BOOLEAN,
         tag <=> n \in LateNode,
         ast_nodes' = Append(ast_nodes, n),
         ast_node_is_instantiated' = Append(ast_node_is_instantiated, tag),
         instantiated_node_keys' =
           IF tag THEN instantiated_node_keys \cup {n} ELSE instantiated_node_keys
  PROVE  ListExact'
<1> DEFINE len == Len(ast_nodes)
<1>1. /\ len \in Nat /\ DOMAIN ast_nodes = 1 .. len
      /\ Len(ast_node_is_instantiated) = len
      /\ instantiated_node_keys \subseteq LateNode
  BY LenProperties DEF TypeOK
<1>2. /\ DOMAIN ast_nodes' = 1 .. len + 1
      /\ \A i \in 1 .. len : ast_nodes'[i] = ast_nodes[i]
      /\ ast_nodes'[len + 1] = n
  <2>1. ast_nodes \in Seq(Node)
    BY DEF TypeOK
  <2> QED BY <2>1, AppendProperties, LenProperties
<1>3. /\ \A i \in 1 .. len : ast_node_is_instantiated'[i] = ast_node_is_instantiated[i]
      /\ ast_node_is_instantiated'[len + 1] = tag
  BY <1>1, AppendProperties DEF TypeOK
<1>4. /\ \A i \in 1 .. len : ast_nodes[i] # n
      /\ \A m : m \in instantiated_node_keys' <=>
                  m \in instantiated_node_keys \/ (m = n /\ n \in LateNode)
  BY <1>1 DEF Listed
<1> HIDE DEF len
<1>5. TagsExact'
  <2>1. ASSUME NEW i \in 1 .. len + 1
        PROVE  ast_node_is_instantiated'[i] <=> ast_nodes'[i] \in instantiated_node_keys'
    <3>1. CASE i \in 1 .. len
      <4>1. ast_node_is_instantiated[i] <=> ast_nodes[i] \in instantiated_node_keys
        BY <1>1, <3>1 DEF ListExact, TagsExact
      <4> QED BY <1>2, <1>3, <1>4, <3>1, <4>1
    <3>2. CASE i = len + 1
      <4>1. n \in instantiated_node_keys' <=> n \in LateNode
        BY <1>1, <1>4
      <4> QED BY <1>2, <1>3, <3>2, <4>1
    <3> QED BY <1>1, <3>1, <3>2
  <2>2. ASSUME NEW m \in instantiated_node_keys'
        PROVE  \E i \in 1 .. len + 1 : ast_nodes'[i] = m
    BY <1>1, <1>2, <2>2 DEF ListExact, TagsExact, Listed
  <2> QED BY <1>2, <2>1, <2>2 DEF TagsExact, Listed
<1>6. NoDuplicateRoots'
  BY <1>1, <1>2, <1>4 DEF ListExact, NoDuplicateRoots
<1>7. LateRegistered'
  <2>1. ASSUME NEW i \in 1 .. len + 1, ast_nodes'[i] \in LateNode
        PROVE  ast_nodes'[i] \in instantiated_node_keys'
    <3>1. CASE i \in 1 .. len
      BY <1>1, <1>2, <1>4, <2>1, <3>1 DEF ListExact, LateRegistered
    <3>2. CASE i = len + 1
      BY <1>2, <1>4, <2>1, <3>2
    <3> QED BY <1>1, <3>1, <3>2
  <2> QED BY <1>2, <2>1 DEF LateRegistered
<1> QED BY <1>5, <1>6, <1>7 DEF ListExact

\* Listing an unlisted instantiation at the front keeps the list exact.
LEMMA PrependExact ==
  ASSUME TypeOK, ListExact, NEW n \in LateNode, ~Listed(n), PushLateFront(n)
  PROVE  ListExact'
<1> DEFINE len == Len(ast_nodes)
<1>1. /\ len \in Nat /\ DOMAIN ast_nodes = 1 .. len
      /\ Len(ast_node_is_instantiated) = len
      /\ ast_nodes \in Seq(Node) /\ n \in Node
  BY LenProperties DEF TypeOK, Node
<1>2. /\ DOMAIN ast_nodes' = 1 .. len + 1
      /\ \A i \in 1 .. len : ast_nodes'[i + 1] = ast_nodes[i]
      /\ ast_nodes'[1] = n
  BY <1>1, PrependProperties, LenProperties DEF PushLateFront
<1>3. /\ \A i \in 1 .. len : ast_node_is_instantiated'[i + 1] = ast_node_is_instantiated[i]
      /\ ast_node_is_instantiated'[1] = TRUE
  <2>1. ast_node_is_instantiated \in Seq(BOOLEAN) /\ TRUE \in BOOLEAN
    BY DEF TypeOK
  <2>2. ast_node_is_instantiated' = <<TRUE>> \o ast_node_is_instantiated
    BY DEF PushLateFront
  <2> QED BY <1>1, <2>1, <2>2, PrependProperties
<1>4. /\ \A i \in 1 .. len : ast_nodes[i] # n
      /\ \A m : m \in instantiated_node_keys' <=> m \in instantiated_node_keys \/ m = n
  BY <1>1 DEF Listed, PushLateFront
<1> HIDE DEF len
<1>0. ASSUME NEW i \in 1 .. len + 1
      PROVE  \/ i = 1 /\ ast_nodes'[i] = n
             \/ /\ i - 1 \in 1 .. len
                /\ ast_nodes'[i] = ast_nodes[i - 1]
                /\ ast_node_is_instantiated'[i] = ast_node_is_instantiated[i - 1]
  <2>1. CASE i = 1
    BY <1>2, <2>1
  <2>2. CASE i # 1
    <3>1. i - 1 \in 1 .. len /\ (i - 1) + 1 = i
      BY <1>1, <2>2
    <3> QED BY <1>2, <1>3, <3>1
  <2> QED BY <2>1, <2>2
<1>5. TagsExact'
  <2>1. ASSUME NEW i \in 1 .. len + 1
        PROVE  ast_node_is_instantiated'[i] <=> ast_nodes'[i] \in instantiated_node_keys'
    <3>1. CASE i = 1
      BY <1>2, <1>3, <1>4, <3>1
    <3>2. CASE i # 1
      <4>1. /\ i - 1 \in 1 .. len
            /\ ast_nodes'[i] = ast_nodes[i - 1]
            /\ ast_node_is_instantiated'[i] = ast_node_is_instantiated[i - 1]
        BY <1>0, <3>2
      <4>2. ast_node_is_instantiated[i - 1] <=> ast_nodes[i - 1] \in instantiated_node_keys
        BY <1>1, <4>1 DEF ListExact, TagsExact
      <4> QED BY <1>4, <4>1, <4>2
    <3> QED BY <3>1, <3>2
  <2>2. ASSUME NEW m \in instantiated_node_keys'
        PROVE  \E i \in 1 .. len + 1 : ast_nodes'[i] = m
    <3>1. CASE m = n
      BY <1>1, <1>2, <3>1
    <3>2. CASE m \in instantiated_node_keys
      <4>1. PICK i \in 1 .. len : ast_nodes[i] = m
        BY <1>1, <3>2 DEF ListExact, TagsExact, Listed
      <4>2. i + 1 \in 1 .. len + 1 /\ ast_nodes'[i + 1] = m
        BY <1>1, <1>2, <4>1
      <4> QED BY <4>2
    <3> QED BY <1>4, <2>2, <3>1, <3>2
  <2> QED BY <1>2, <2>1, <2>2 DEF TagsExact, Listed
<1>6. NoDuplicateRoots'
  <2>1. ASSUME NEW i \in 1 .. len + 1, NEW j \in 1 .. len + 1, ast_nodes'[i] = ast_nodes'[j]
        PROVE  i = j
    <3>1. CASE i = 1 \/ j = 1
      BY <1>0, <1>4, <2>1, <3>1
    <3>2. CASE i # 1 /\ j # 1
      <4>1. /\ i - 1 \in 1 .. len /\ ast_nodes'[i] = ast_nodes[i - 1]
            /\ j - 1 \in 1 .. len /\ ast_nodes'[j] = ast_nodes[j - 1]
        BY <1>0, <3>2
      <4>2. i - 1 = j - 1
        BY <1>1, <2>1, <4>1 DEF ListExact, NoDuplicateRoots
      <4> QED BY <1>1, <4>2
    <3> QED BY <3>1, <3>2
  <2> QED BY <1>2, <2>1 DEF NoDuplicateRoots
<1>7. LateRegistered'
  <2>1. ASSUME NEW i \in 1 .. len + 1, ast_nodes'[i] \in LateNode
        PROVE  ast_nodes'[i] \in instantiated_node_keys'
    BY <1>0, <1>1, <1>4, <2>1 DEF ListExact, LateRegistered
  <2> QED BY <1>2, <2>1 DEF LateRegistered
<1> QED BY <1>5, <1>6, <1>7 DEF ListExact

\* What stands at a position after an erasure stood there or one position further back.
LEMMA ErasedFrom ==
  ASSUME NEW S, NEW s \in Seq(S), NEW at \in 1 .. Len(s), NEW j \in 1 .. Len(s) - 1
  PROVE  \E i \in 1 .. Len(s) : /\ i # at /\ Erased(s, at)[j] = s[i]
                               /\ i = IF j < at THEN j ELSE j + 1
<1>1. Len(s) \in Nat
  BY LenProperties
<1>2. Erased(s, at)[j] = IF j < at THEN s[j] ELSE s[j + 1]
  BY ErasedProperties
<1>3. CASE j < at
  <2>1. j \in 1 .. Len(s) /\ j # at
    BY <1>1, <1>3
  <2> QED BY <1>2, <1>3, <2>1
<1>4. CASE ~(j < at)
  <2>1. j + 1 \in 1 .. Len(s) /\ j + 1 # at
    BY <1>1, <1>4
  <2> QED BY <1>2, <1>4, <2>1
<1> QED BY <1>3, <1>4

\* Nothing but the erased position is lost.
LEMMA ErasedTo ==
  ASSUME NEW S, NEW s \in Seq(S), NEW at \in 1 .. Len(s), NEW i \in 1 .. Len(s), i # at
  PROVE  \E j \in 1 .. Len(s) - 1 : Erased(s, at)[j] = s[i]
<1>1. Len(s) \in Nat
  BY LenProperties
<1>2. CASE i < at
  <2>1. i \in 1 .. Len(s) - 1
    BY <1>1, <1>2
  <2> QED BY <1>2, <2>1, ErasedProperties
<1>3. CASE ~(i < at)
  <2>1. i - 1 \in 1 .. Len(s) - 1 /\ ~(i - 1 < at) /\ (i - 1) + 1 = i
    BY <1>1, <1>3
  <2> QED BY <2>1, ErasedProperties
<1> QED BY <1>2, <1>3

\* Erasing a position, its tag and its key together keeps the list exact.
LEMMA EraseExact ==
  ASSUME TypeOK, ListExact, NEW at \in 1 .. Len(ast_nodes), EraseTopLevelNodeAt(at)
  PROVE  ListExact'
<1> DEFINE len == Len(ast_nodes)
           n == ast_nodes[at]
<1>1. /\ len \in Nat /\ DOMAIN ast_nodes = 1 .. len /\ at \in 1 .. len
      /\ Len(ast_node_is_instantiated) = len
      /\ ast_nodes \in Seq(Node) /\ ast_node_is_instantiated \in Seq(BOOLEAN)
  BY LenProperties DEF TypeOK
<1>2. /\ ast_nodes' = Erased(ast_nodes, at)
      /\ ast_node_is_instantiated' = Erased(ast_node_is_instantiated, at)
      /\ instantiated_node_keys' = instantiated_node_keys \ {n}
  BY DEF EraseTopLevelNodeAt
<1>3. DOMAIN ast_nodes' = 1 .. len - 1
  BY <1>1, <1>2, ErasedProperties, LenProperties
<1>4. ASSUME NEW j \in 1 .. len - 1
      PROVE  \E i \in 1 .. len : /\ i # at /\ i = IF j < at THEN j ELSE j + 1
                                /\ ast_nodes'[j] = ast_nodes[i]
                                /\ ast_node_is_instantiated'[j] = ast_node_is_instantiated[i]
                                /\ ast_nodes[i] # n
  <2>1. PICK i \in 1 .. len : /\ i # at /\ ast_nodes'[j] = ast_nodes[i]
                              /\ i = IF j < at THEN j ELSE j + 1
    BY <1>1, <1>2, ErasedFrom
  <2>2. ast_node_is_instantiated'[j] = ast_node_is_instantiated[i]
    <3>1. PICK k \in 1 .. len :
             /\ ast_node_is_instantiated'[j] = ast_node_is_instantiated[k]
             /\ k = IF j < at THEN j ELSE j + 1
      <4>1. /\ at \in 1 .. Len(ast_node_is_instantiated)
            /\ j \in 1 .. Len(ast_node_is_instantiated) - 1
        BY <1>1
      <4>2. \E k \in 1 .. Len(ast_node_is_instantiated) :
               /\ Erased(ast_node_is_instantiated, at)[j] = ast_node_is_instantiated[k]
               /\ k = IF j < at THEN j ELSE j + 1
        BY <1>1, <4>1, ErasedFrom
      <4> QED BY <1>1, <1>2, <4>2
    <3> QED BY <2>1, <3>1
  <2>3. ast_nodes[i] # n
    BY <1>1, <2>1 DEF ListExact, NoDuplicateRoots
  <2> QED BY <2>1, <2>2, <2>3
<1>5. TagsExact'
  <2>1. ASSUME NEW j \in 1 .. len - 1
        PROVE  ast_node_is_instantiated'[j] <=> ast_nodes'[j] \in instantiated_node_keys'
    <3>1. PICK i \in 1 .. len : /\ ast_nodes'[j] = ast_nodes[i]
                                /\ ast_node_is_instantiated'[j] = ast_node_is_instantiated[i]
                                /\ ast_nodes[i] # n
      BY <1>4
    <3>2. ast_node_is_instantiated[i] <=> ast_nodes[i] \in instantiated_node_keys
      BY <1>1 DEF ListExact, TagsExact
    <3> QED BY <1>2, <3>1, <3>2
  <2>2. ASSUME NEW m \in instantiated_node_keys'
        PROVE  \E j \in 1 .. len - 1 : ast_nodes'[j] = m
    <3>1. PICK i \in 1 .. len : ast_nodes[i] = m
      BY <1>1, <1>2, <2>2 DEF ListExact, TagsExact, Listed
    <3>2. i # at
      BY <1>2, <2>2, <3>1
    <3> QED BY <1>1, <1>2, <3>1, <3>2, ErasedTo
  <2> QED BY <1>3, <2>1, <2>2 DEF TagsExact, Listed
<1>6. NoDuplicateRoots'
  <2>1. ASSUME NEW j \in 1 .. len - 1, NEW k \in 1 .. len - 1, ast_nodes'[j] = ast_nodes'[k]
        PROVE  j = k
    <3>1. PICK i \in 1 .. len : /\ ast_nodes'[j] = ast_nodes[i]
                                /\ i = IF j < at THEN j ELSE j + 1
      BY <1>4
    <3>2. PICK l \in 1 .. len : /\ ast_nodes'[k] = ast_nodes[l]
                                /\ l = IF k < at THEN k ELSE k + 1
      BY <1>4
    <3>3. i = l
      BY <1>1, <2>1, <3>1, <3>2 DEF ListExact, NoDuplicateRoots
    <3> QED BY <1>1, <3>1, <3>2, <3>3
  <2> QED BY <1>3, <2>1 DEF NoDuplicateRoots
<1>7. LateRegistered'
  <2>1. ASSUME NEW j \in 1 .. len - 1, ast_nodes'[j] \in LateNode
        PROVE  ast_nodes'[j] \in instantiated_node_keys'
    <3>1. PICK i \in 1 .. len : ast_nodes'[j] = ast_nodes[i] /\ ast_nodes[i] # n
      BY <1>4
    <3> QED BY <1>1, <1>2, <2>1, <3>1 DEF ListExact, LateRegistered
  <2> QED BY <1>3, <2>1 DEF LateRegistered
<1> QED BY <1>5, <1>6, <1>7 DEF ListExact

\* The inductive invariant of the list holds in every state.
LEMMA ListInvariant == Spec => [](ListExact /\ VariablesKnown)
<1> DEFINE ListInv == ListExact /\ VariablesKnown
<1>1. Init => ListInv
  BY EmptySeq DEF Init, ListExact, TagsExact, NoDuplicateRoots, LateRegistered, VariablesKnown
<1>2. TypeOK /\ ListInv /\ [Next]_vars => ListInv'
  <2> SUFFICES ASSUME TypeOK, ListExact, VariablesKnown, [Next]_vars
               PROVE  ListExact' /\ VariablesKnown'
    OBVIOUS
  <2>0. ASSUME UNCHANGED list PROVE ListExact'
    BY <2>0 DEF list, ListExact, TagsExact, NoDuplicateRoots, LateRegistered, Listed
  <2>00. ASSUME instantiated_node_keys' \subseteq instantiated_node_keys, UNCHANGED symbols
         PROVE  VariablesKnown'
    BY <2>00 DEF VariablesKnown
  <2>a. ASSUME NEW n \in LateNode, Kind[n] # "Variable", PushLate(n), UNCHANGED symbols
        PROVE  ListExact' /\ VariablesKnown'
    <3>1. CASE n \in instantiated_node_keys
      BY <2>0, <2>00, <2>a, <3>1 DEF PushLate, list
    <3>2. CASE n \notin instantiated_node_keys
      <4>1. ListExact'
        BY <2>a, <3>2, AppendExact, UnregisteredUnlisted DEF PushLate, Node
      <4>2. VariablesKnown'
        BY <2>a, <3>2 DEF VariablesKnown, PushLate
      <4> QED BY <4>1, <4>2
    <3> QED BY <3>1, <3>2
  <2>1. ASSUME NEW n \in UserNode, AppendUserNode(n) PROVE ListExact' /\ VariablesKnown'
    <3>1. n \in Node /\ n \notin LateNode
      BY NodeAssumption DEF Node
    <3> QED BY <2>00, <2>1, <3>1, AppendExact DEF AppendUserNode
  <2>2. ASSUME NEW n \in LateNode, RegisterLate(n) PROVE ListExact' /\ VariablesKnown'
    BY <2>a, <2>2 DEF RegisterLate
  <2>3. ASSUME NEW n \in LateNode, RegisterAndNormalizeLate(n)
        PROVE  ListExact' /\ VariablesKnown'
    BY <2>a, <2>3 DEF RegisterAndNormalizeLate
  <2>4. ASSUME NEW n \in LateNode, InstantiateVariableTemplate(n)
        PROVE  ListExact' /\ VariablesKnown'
    <3>1. n \notin instantiated_node_keys
      BY <2>4 DEF InstantiateVariableTemplate, VariablesKnown
    <3>2. ListExact'
      BY <2>4, <3>1, UnregisteredUnlisted, PrependExact DEF InstantiateVariableTemplate
    <3>3. VariablesKnown'
      BY <2>4 DEF InstantiateVariableTemplate, PushLateFront, VariablesKnown
    <3> QED BY <3>2, <3>3
  <2>5. CASE NormalizePendingSemanticRoots
    BY <2>0, <2>00, <2>5 DEF NormalizePendingSemanticRoots, list
  <2>6. CASE SaveTokenPosition
    BY <2>0, <2>00, <2>6 DEF SaveTokenPosition, list
  <2>7. ASSUME NEW h \in Handles, RestoreTokenPosition(h) PROVE ListExact' /\ VariablesKnown'
    BY <2>0, <2>00, <2>7 DEF RestoreTokenPosition, list
  <2>8. ASSUME NEW h \in Handles, DiscardSavedToken(h) PROVE ListExact' /\ VariablesKnown'
    BY <2>0, <2>00, <2>8 DEF DiscardSavedToken, list
  <2>9. CASE CleanupStep
    <3>1. CASE KeptByRestore(ast_nodes[walk.at])
      BY <2>0, <2>00, <2>9, <3>1 DEF CleanupStep, list
    <3>2. CASE ~KeptByRestore(ast_nodes[walk.at])
      <4>1. walk.at \in 1 .. Len(ast_nodes)
        BY <2>9, LenProperties DEF CleanupStep, TypeOK
      <4>2. EraseTopLevelNodeAt(walk.at) /\ UNCHANGED symbols
        BY <2>9, <3>2 DEF CleanupStep
      <4> QED BY <2>00, <4>1, <4>2, EraseExact DEF EraseTopLevelNodeAt
    <3> QED BY <3>1, <3>2
  <2>10. CASE UNCHANGED vars
    BY <2>0, <2>00, <2>10 DEF vars, list
  <2> QED BY <2>1, <2>2, <2>3, <2>4, <2>5, <2>6, <2>7, <2>8, <2>9, <2>10 DEF Next
<1> QED BY <1>1, <1>2, TypeCorrect, PTL DEF Spec

\* The tags and keys of the top-level list stay exact, so codegen's split of the list
\* into user-written nodes and instantiations is right, whatever the parser registered,
\* inserted at the front, erased and registered again.
THEOREM TagsStayExact == Spec => []TagsExact
<1>1. ListExact => TagsExact
  BY DEF ListExact
<1> QED BY <1>1, ListInvariant, PTL

\* No node is ever listed twice, so no symbol is defined twice.
THEOREM RootsStayUnique == Spec => []NoDuplicateRoots
<1>1. ListExact => NoDuplicateRoots
  BY DEF ListExact
<1> QED BY <1>1, ListInvariant, PTL

-----------------------------------------------------------------------------
\* Every listed instantiation is normalized or waits for normalization, whichever path
\* registered it: registerLateMaterializedTopLevelNode never forgets the queue.
THEOREM ReachSema == Spec => []InstantiationsReachSema
<1>1. Init => InstantiationsReachSema
  BY DEF Init, InstantiationsReachSema
<1>2. InstantiationsReachSema /\ [Next]_vars => InstantiationsReachSema'
  BY DEF InstantiationsReachSema, Next, vars, list, roots, saves, history, AppendUserNode,
         PushLate, RegisterLate, RegisterAndNormalizeLate, PushLateFront, Enqueued, Drain,
         InstantiateVariableTemplate, NormalizePendingSemanticRoots, SaveTokenPosition,
         RestoreTokenPosition, DiscardSavedToken, CleanupStep, EraseTopLevelNodeAt
<1> QED BY <1>1, <1>2, PTL DEF Spec

-----------------------------------------------------------------------------
(* What a restore may lose.  The invariant says where the nodes listed since *)
(* each save are; it is inductive with the walk's floor being the length its *)
(* handle saved.                                                             *)
SinceListed == \A h \in Handles : \A n \in since[h] : Listed(n)

WalkOfSave ==
  walk # None => walk.handle \in Handles /\ saved_size[walk.handle] = walk.floor

\* One step never unlists a node except the one an erasure takes.
LEMMA OnlyErasureUnlists ==
  ASSUME TypeOK, [Next]_vars, NEW n \in Node, Listed(n), ~Listed(n)'
  PROVE  /\ CleanupStep
         /\ n = ast_nodes[walk.at] /\ ~KeptByRestore(n)
<1>0. /\ ast_nodes \in Seq(Node) /\ Len(ast_nodes) \in Nat
      /\ DOMAIN ast_nodes = 1 .. Len(ast_nodes)
  BY LenProperties DEF TypeOK
<1>1. PICK i \in 1 .. Len(ast_nodes) : ast_nodes[i] = n
  BY <1>0 DEF Listed
<1>2. ASSUME NEW m \in Node, ast_nodes' = Append(ast_nodes, m) PROVE FALSE
  <2>1. /\ DOMAIN ast_nodes' = 1 .. Len(ast_nodes) + 1
        /\ ast_nodes'[i] = ast_nodes[i]
    BY <1>0, <1>1, <1>2, AppendProperties, LenProperties
  <2>2. i \in 1 .. Len(ast_nodes) + 1
    BY <1>0
  <2> QED BY <1>1, <2>1, <2>2 DEF Listed
<1>3. ASSUME UNCHANGED ast_nodes PROVE FALSE
  BY <1>3 DEF Listed
<1>4. ASSUME NEW m \in LateNode, PushLate(m) PROVE FALSE
  BY <1>2, <1>3, <1>4 DEF PushLate, list, Node
<1>5. ASSUME NEW m \in LateNode, PushLateFront(m) PROVE FALSE
  <2>1. ast_nodes' = <<m>> \o ast_nodes /\ m \in Node
    BY <1>5 DEF PushLateFront, Node
  <2>2. DOMAIN ast_nodes' = 1 .. Len(ast_nodes) + 1 /\ ast_nodes'[i + 1] = ast_nodes[i]
    BY <1>0, <2>1, PrependProperties, LenProperties
  <2>3. i + 1 \in 1 .. Len(ast_nodes) + 1
    BY <1>0
  <2> QED BY <1>1, <2>2, <2>3 DEF Listed
<1>6. CASE CleanupStep
  <2>1. walk.at \in 1 .. Len(ast_nodes)
    BY <1>0, <1>6 DEF CleanupStep, TypeOK
  <2>2. ~KeptByRestore(ast_nodes[walk.at])
    BY <1>3, <1>6 DEF CleanupStep, list
  <2>3. ast_nodes' = Erased(ast_nodes, walk.at)
    BY <1>6, <2>2 DEF CleanupStep, EraseTopLevelNodeAt
  <2>4. i = walk.at
    <3> SUFFICES ASSUME i # walk.at PROVE FALSE
      OBVIOUS
    <3>1. PICK j \in 1 .. Len(ast_nodes) - 1 : ast_nodes'[j] = n
      BY <1>0, <1>1, <2>1, <2>3, ErasedTo
    <3>2. DOMAIN ast_nodes' = 1 .. Len(ast_nodes) - 1
      BY <1>0, <2>1, <2>3, ErasedProperties, LenProperties
    <3> QED BY <3>1, <3>2 DEF Listed
  <2> QED BY <1>1, <1>6, <2>2, <2>4
<1>7. CASE ~CleanupStep
  BY <1>2, <1>3, <1>4, <1>5, <1>7
  DEF Next, vars, list, Node, AppendUserNode, RegisterLate, RegisterAndNormalizeLate,
      InstantiateVariableTemplate, NormalizePendingSemanticRoots, SaveTokenPosition,
      RestoreTokenPosition, DiscardSavedToken
<1> QED BY <1>6, <1>7

\* Functions and structs survive every step of the parser: a restore of a token position
\* never takes from the list what the template registry still names.
THEOREM DeclarationsStay == Spec => DeclarationsSurvive
<1>1. TypeOK /\ [Next]_vars =>
        [\A n \in Node : Listed(n) /\ Kind[n] \in {"Function", "Struct"} => Listed(n)']_vars
  BY OnlyErasureUnlists DEF KeptByRestore
<1> QED BY <1>1, TypeCorrect, PTL DEF Spec, DeclarationsSurvive

-----------------------------------------------------------------------------
SavesInv == OnlyShiftedNodesAreLost /\ SinceListed /\ WalkOfSave

\* A step that erases nothing and inserts nothing at the front keeps the invariant, if
\* the nodes it lists were not listed before and no save, walk or history changes.
LEMMA AppendKeepsSaves ==
  ASSUME TypeOK, SavesInv, NEW n \in Node, ~Listed(n),
         ast_nodes' = Append(ast_nodes, n), UNCHANGED <<saved_size, walk, since, fronts>>
  PROVE  SavesInv'
<1>1. /\ Len(ast_nodes) \in Nat /\ DOMAIN ast_nodes = 1 .. Len(ast_nodes)
      /\ DOMAIN ast_nodes' = 1 .. Len(ast_nodes) + 1
      /\ \A i \in 1 .. Len(ast_nodes) : ast_nodes'[i] = ast_nodes[i]
      /\ ast_nodes'[Len(ast_nodes) + 1] = n
  BY AppendProperties, LenProperties DEF TypeOK
<1>2. SinceListed'
  BY <1>1 DEF SavesInv, SinceListed, Listed
<1>3. ASSUME NEW h \in Handles, saved_size[h] # None,
             NEW i \in 1 .. Len(ast_nodes) + 1, ast_nodes'[i] \in since[h]
      PROVE  i <= saved_size[h] + fronts[h]
  <2>1. Listed(ast_nodes'[i])
    BY <1>3 DEF SavesInv, SinceListed
  <2>2. i \in 1 .. Len(ast_nodes)
    BY <1>1, <1>3, <2>1
  <2> QED BY <1>1, <1>3, <2>2 DEF SavesInv, OnlyShiftedNodesAreLost
<1>4. OnlyShiftedNodesAreLost'
  BY <1>1, <1>3 DEF OnlyShiftedNodesAreLost
<1> QED BY <1>2, <1>4 DEF SavesInv, WalkOfSave

\* The inductive invariant of the saves holds in every state.
LEMMA SavesInvariant == Spec => []SavesInv
<1>1. Init => SavesInv
  BY DEF Init, SavesInv, OnlyShiftedNodesAreLost, SinceListed, WalkOfSave
<1>2. TypeOK /\ ListExact /\ VariablesKnown /\ SavesInv /\ [Next]_vars => SavesInv'
  <2> SUFFICES ASSUME TypeOK, ListExact, VariablesKnown, SavesInv, [Next]_vars
               PROVE  SavesInv'
    OBVIOUS
  <2>0. ASSUME UNCHANGED <<ast_nodes, saved_size, walk, since, fronts>> PROVE SavesInv'
    BY <2>0 DEF SavesInv, OnlyShiftedNodesAreLost, SinceListed, Listed, WalkOfSave
  <2>a. ASSUME NEW n \in LateNode, PushLate(n), UNCHANGED <<saved_size, walk, since, fronts>>
        PROVE  SavesInv'
    BY <2>0, <2>a, AppendKeepsSaves, UnregisteredUnlisted DEF PushLate, list, Node
  <2>1. ASSUME NEW n \in UserNode, AppendUserNode(n) PROVE SavesInv'
    BY <2>1, AppendKeepsSaves DEF AppendUserNode, saves, history, Node
  <2>2. ASSUME NEW n \in LateNode, RegisterLate(n) PROVE SavesInv'
    BY <2>a, <2>2 DEF RegisterLate, saves, history
  <2>3. ASSUME NEW n \in LateNode, RegisterAndNormalizeLate(n) PROVE SavesInv'
    BY <2>a, <2>3 DEF RegisterAndNormalizeLate, saves, history
  <2>4. ASSUME NEW n \in LateNode, InstantiateVariableTemplate(n) PROVE SavesInv'
    <3>1. ~Listed(n)
      BY <2>4, UnregisteredUnlisted DEF InstantiateVariableTemplate, VariablesKnown
    <3>2. /\ Len(ast_nodes) \in Nat /\ DOMAIN ast_nodes = 1 .. Len(ast_nodes)
          /\ ast_nodes' = <<n>> \o ast_nodes
          /\ ast_nodes \in Seq(Node) /\ n \in Node
          /\ UNCHANGED <<saved_size, walk, since>>
          /\ fronts' = [h \in Handles |-> fronts[h] + 1]
      BY <2>4, LenProperties
         DEF InstantiateVariableTemplate, PushLateFront, TypeOK, saves, Node
    <3>3. /\ DOMAIN ast_nodes' = 1 .. Len(ast_nodes) + 1
          /\ ast_nodes'[1] = n
          /\ \A i \in 1 .. Len(ast_nodes) : ast_nodes'[i + 1] = ast_nodes[i]
      BY <3>2, PrependProperties, LenProperties
    <3>4. SinceListed'
      <4> SUFFICES ASSUME NEW h \in Handles, NEW m \in since[h] PROVE Listed(m)'
        BY <3>2 DEF SinceListed
      <4>1. PICK i \in 1 .. Len(ast_nodes) : ast_nodes[i] = m
        BY <3>2 DEF SavesInv, SinceListed, Listed
      <4>2. i + 1 \in 1 .. Len(ast_nodes) + 1 /\ ast_nodes'[i + 1] = m
        BY <3>2, <3>3, <4>1
      <4> QED BY <3>3, <4>2 DEF Listed
    <3>5. OnlyShiftedNodesAreLost'
      <4> SUFFICES ASSUME NEW h \in Handles, saved_size[h] # None,
                          NEW i \in 1 .. Len(ast_nodes) + 1, ast_nodes'[i] \in since[h]
                   PROVE  i <= saved_size[h] + fronts'[h]
        BY <3>2, <3>3 DEF OnlyShiftedNodesAreLost
      <4>1. fronts'[h] = fronts[h] + 1 /\ saved_size[h] \in Nat /\ fronts[h] \in Nat
        BY <3>2 DEF TypeOK
      <4>2. i # 1
        BY <3>1, <3>3 DEF SavesInv, SinceListed
      <4>3. i - 1 \in 1 .. Len(ast_nodes) /\ (i - 1) + 1 = i
        BY <3>2, <4>2
      <4>4. i - 1 <= saved_size[h] + fronts[h]
        BY <3>2, <3>3, <4>3 DEF SavesInv, OnlyShiftedNodesAreLost
      <4> QED BY <4>1, <4>3, <4>4
    <3> QED BY <3>2, <3>4, <3>5 DEF SavesInv, WalkOfSave
  <2>5. CASE NormalizePendingSemanticRoots
    BY <2>0, <2>5 DEF NormalizePendingSemanticRoots, list, saves, history
  <2>6. CASE SaveTokenPosition
    <3> DEFINE k == next_save_handle
               listed == {n \in Node : Listed(n)}
    <3>1. /\ k \in Handles /\ Len(ast_nodes) \in Nat
          /\ DOMAIN ast_nodes = 1 .. Len(ast_nodes)
          /\ walk = None
          /\ UNCHANGED <<ast_nodes, walk>>
          /\ \A h \in Handles :
               /\ saved_size'[h] = IF h = k THEN Len(ast_nodes) ELSE saved_size[h]
               /\ since'[h] = IF h = k THEN listed ELSE since[h]
               /\ fronts'[h] = IF h = k THEN 0 ELSE fronts[h]
      BY <2>6, BoundAssumption, LenProperties DEF SaveTokenPosition, Handles, TypeOK, list
    <3>2. SinceListed'
      <4> SUFFICES ASSUME NEW h \in Handles, NEW m \in since'[h] PROVE Listed(m)'
        BY DEF SinceListed
      <4>1. Listed(m)
        BY <3>1 DEF SavesInv, SinceListed
      <4> QED BY <3>1, <4>1 DEF Listed
    <3>3. OnlyShiftedNodesAreLost'
      <4> SUFFICES ASSUME NEW h \in Handles, saved_size'[h] # None,
                          NEW i \in 1 .. Len(ast_nodes), ast_nodes[i] \in since'[h]
                   PROVE  i <= saved_size'[h] + fronts'[h]
        BY <3>1 DEF OnlyShiftedNodesAreLost
      <4>1. CASE h = k
        <5>1. saved_size'[h] = Len(ast_nodes) /\ fronts'[h] = 0
          BY <3>1, <4>1
        <5> QED BY <3>1, <5>1
      <4>2. CASE h # k
        <5>1. saved_size'[h] = saved_size[h] /\ fronts'[h] = fronts[h] /\ since'[h] = since[h]
          BY <3>1, <4>2
        <5> QED BY <3>1, <5>1 DEF SavesInv, OnlyShiftedNodesAreLost
      <4> QED BY <4>1, <4>2
    <3>4. WalkOfSave'
      BY <3>1, <2>6 DEF SavesInv, WalkOfSave
    <3> QED BY <3>2, <3>3, <3>4 DEF SavesInv
  <2>7. ASSUME NEW h \in Handles, RestoreTokenPosition(h) PROVE SavesInv'
    <3>1. walk' # None => walk'.handle = h /\ walk'.floor = saved_size[h]
      BY <2>7 DEF RestoreTokenPosition, Walk
    <3> QED BY <2>7, <3>1
        DEF RestoreTokenPosition, list, saves, history, SavesInv, WalkOfSave,
            OnlyShiftedNodesAreLost, SinceListed, Listed
  <2>8. ASSUME NEW h \in Handles, DiscardSavedToken(h) PROVE SavesInv'
    <3>1. /\ UNCHANGED <<ast_nodes, walk, since, fronts>> /\ walk = None
          /\ \A g \in Handles : saved_size'[g] # None => saved_size'[g] = saved_size[g]
      BY <2>8 DEF DiscardSavedToken, TypeOK, list, history
    <3> QED BY <3>1 DEF SavesInv, WalkOfSave, OnlyShiftedNodesAreLost, SinceListed,
                        Listed
  <2>9. CASE CleanupStep
    <3> DEFINE at == walk.at
               n == ast_nodes[at]
    <3>1. /\ at \in 1 .. Len(ast_nodes) /\ Len(ast_nodes) \in Nat
          /\ DOMAIN ast_nodes = 1 .. Len(ast_nodes)
          /\ ast_nodes \in Seq(Node)
      BY <2>9, LenProperties DEF CleanupStep, TypeOK
    <3>2. WalkOfSave'
      <4>1. UNCHANGED <<saved_size, fronts>> /\ walk # None
        BY <2>9 DEF CleanupStep, saves
      <4>2. walk' # None => walk'.handle = walk.handle /\ walk'.floor = walk.floor
        BY <2>9 DEF CleanupStep, Walk
      <4> QED BY <4>1, <4>2 DEF SavesInv, WalkOfSave
    <3>3. CASE KeptByRestore(n)
      <4>1. UNCHANGED <<ast_nodes, saved_size, since, fronts>>
        BY <2>9, <3>3 DEF CleanupStep, saves, list
      <4> QED BY <3>2, <4>1 DEF SavesInv, OnlyShiftedNodesAreLost, SinceListed, Listed
    <3>4. CASE ~KeptByRestore(n)
      <4>1. /\ ast_nodes' = Erased(ast_nodes, at)
            /\ since' = [h \in Handles |-> since[h] \ {n}]
            /\ UNCHANGED <<saved_size, fronts>>
        BY <2>9, <3>4 DEF CleanupStep, EraseTopLevelNodeAt, saves
      <4>2. DOMAIN ast_nodes' = 1 .. Len(ast_nodes) - 1
        BY <3>1, <4>1, ErasedProperties, LenProperties
      <4>3. SinceListed'
        <5> SUFFICES ASSUME NEW h \in Handles, NEW m \in since[h], m # n PROVE Listed(m)'
          BY <4>1 DEF SinceListed
        <5>1. PICK i \in 1 .. Len(ast_nodes) : ast_nodes[i] = m
          BY <3>1 DEF SavesInv, SinceListed, Listed
        <5>2. PICK j \in 1 .. Len(ast_nodes) - 1 : ast_nodes'[j] = m
          BY <3>1, <4>1, <5>1, ErasedTo
        <5> QED BY <4>2, <5>2 DEF Listed
      <4>4. OnlyShiftedNodesAreLost'
        <5> SUFFICES ASSUME NEW h \in Handles, saved_size[h] # None,
                            NEW j \in 1 .. Len(ast_nodes) - 1, ast_nodes'[j] \in since'[h]
                     PROVE  j <= saved_size[h] + fronts[h]
          BY <4>1, <4>2 DEF OnlyShiftedNodesAreLost
        <5>1. ast_nodes'[j] \in since[h] /\ saved_size[h] \in Nat /\ fronts[h] \in Nat
          BY <4>1 DEF TypeOK
        <5>2. PICK i \in 1 .. Len(ast_nodes) : /\ ast_nodes'[j] = ast_nodes[i]
                                               /\ i = IF j < at THEN j ELSE j + 1
          BY <3>1, <4>1, ErasedFrom
        <5>3. i <= saved_size[h] + fronts[h]
          BY <3>1, <5>1, <5>2 DEF SavesInv, OnlyShiftedNodesAreLost
        <5>4. j <= i
          BY <3>1, <5>2
        <5> QED BY <3>1, <5>1, <5>3, <5>4
      <4> QED BY <3>2, <4>3, <4>4 DEF SavesInv
    <3> QED BY <3>3, <3>4
  <2>10. CASE UNCHANGED vars
    BY <2>0, <2>10 DEF vars, list, saves, history
  <2> QED BY <2>1, <2>2, <2>3, <2>4, <2>5, <2>6, <2>7, <2>8, <2>9, <2>10 DEF Next
<1> QED BY <1>1, <1>2, TypeCorrect, ListInvariant, PTL DEF Spec

\* A restore loses an earlier node only if a front insertion pushed it back.
THEOREM OnlyShifted == Spec => []OnlyShiftedNodesAreLost
<1>1. SavesInv => OnlyShiftedNodesAreLost
  BY DEF SavesInv
<1> QED BY <1>1, SavesInvariant, PTL

\* With no front insertion since a position was saved, restoring it keeps every node that
\* was listed then: the one way to lose a user's declaration is
\* registerLateMaterializedTopLevelNodeFront.
THEOREM UnshiftedStay == Spec => UnshiftedNodesStay
<1>1. TypeOK /\ SavesInv /\ [Next]_vars =>
        [walk # None /\ fronts[walk.handle] = 0 =>
           \A n \in since[walk.handle] : Listed(n)']_vars
  <2> SUFFICES ASSUME TypeOK, SavesInv, [Next]_vars, walk # None, fronts[walk.handle] = 0,
                      NEW n \in since[walk.handle], ~Listed(n)'
               PROVE  FALSE
    OBVIOUS
  <2>1. /\ walk.at \in 1 .. Len(ast_nodes) /\ walk.handle \in Handles
        /\ walk.floor \in Nat /\ walk.floor < walk.at
        /\ DOMAIN ast_nodes = 1 .. Len(ast_nodes)
    BY LenProperties DEF TypeOK
  <2>2. /\ saved_size[walk.handle] = walk.floor /\ saved_size[walk.handle] # None
    BY <2>1, NoneAssumption DEF SavesInv, WalkOfSave
  <2>3. Listed(n) /\ n \in Node
    BY <2>1 DEF SavesInv, SinceListed, TypeOK
  <2>4. n = ast_nodes[walk.at]
    BY <2>3, OnlyErasureUnlists
  <2>5. walk.at <= saved_size[walk.handle] + fronts[walk.handle]
    BY <2>1, <2>2, <2>4 DEF SavesInv, OnlyShiftedNodesAreLost
  <2> QED BY <2>1, <2>2, <2>5
<1> QED BY <1>1, TypeCorrect, SavesInvariant, PTL DEF Spec, UnshiftedNodesStay
=============================================================================

--------------------------- MODULE PostParse_proofs ---------------------------
(***************************************************************************)
(* For every list of parsed nodes and whatever the visits instantiate:     *)
(* code generation takes no node twice and skips none that it can reach.   *)
(* The cursor is found again by the identity of the visited node, which    *)
(* works because the list holds each node once.                            *)
(***************************************************************************)
EXTENDS PostParse, SequenceTheorems, FiniteSetTheorems, TLAPS

\* The batches a program may request, and the frames of the call stack.
Batches == {b \in Batch : IsInjective(b)}

Frames(I) == [kind : {"roots"}, late : Seq(I), todo : Seq(I)]
               \cup [kind : {"sema", "code"}, node : I, todo : Seq(Batches)]

TypeInv ==
  /\ program \in Programs
  /\ instantiated \subseteq Node
  /\ ast_nodes \in Seq(instantiated)
  /\ Len(program.list) <= Len(ast_nodes)
  /\ phase \in {"normalize", "generate", "done", "aborted"}
  /\ node_index \in Nat \ {0} /\ node_index <= Len(ast_nodes) + 1
  /\ begun \subseteq {"sema", "code"} \X Node
  /\ normalized \subseteq instantiated
  /\ generated \subseteq Elements(ast_nodes) /\ regenerated = {}
  /\ stack \in Seq(Frames(instantiated))
  /\ failed \in BOOLEAN
  /\ shifts \in Nat /\ behind \subseteq Variable

\* Up to position k everything has been generated or was inserted behind the cursor,
\* and nothing after it has.
Cut(k) ==
  /\ \A i \in 1 .. k : ast_nodes[i] \in generated \cup behind
  /\ \A i \in k + 1 .. Len(ast_nodes) : ast_nodes[i] \notin generated

\* Only the visit at the bottom of the stack is the code generator's.
StackInv ==
  /\ \A i \in 2 .. Len(stack) : stack[i].kind # "code"
  /\ stack # <<>> => (stack[1].kind = "code" <=> phase = "generate")
  /\ phase \in {"done", "aborted"} => stack = <<>>

\* Where code generation is: between two nodes, or at the node it visits.
VisitAt(p) == ast_nodes[p] = stack[1].node /\ Cut(p)

PlaceInv ==
  /\ phase = "normalize" => /\ node_index <= Len(program.list) + 1
                            /\ generated = {}
  /\ phase = "generate" /\ stack = <<>> => Cut(node_index - 1)
  /\ phase = "generate" /\ stack # <<>> => \E p \in node_index .. Len(ast_nodes) : VisitAt(p)
  /\ phase = "done" => Cut(Len(ast_nodes))

IInv == TypeInv /\ IsInjective(ast_nodes) /\ StackInv /\ PlaceInv

-------------------------------------------------------------------------------
\* Sequences that hold an element once, by position.
LEMMA InjectiveSeq ==
  ASSUME NEW S, NEW s \in Seq(S)
  PROVE  /\ IsInjective(s) <=> \A a, b \in 1 .. Len(s) : s[a] = s[b] => a = b
         /\ Elements(s) = {s[i] : i \in 1 .. Len(s)}
         /\ Elements(s) \subseteq S
<1>1. DOMAIN s = 1 .. Len(s)
  BY LenProperties
<1>2. \A i \in 1 .. Len(s) : s[i] \in S
  BY ElementOfSeq
<1> QED BY <1>1, <1>2 DEF IsInjective, Elements

\* Replacing the innermost frame, or dropping it.
LEMMA TopFacts ==
  ASSUME NEW F, stack \in Seq(F), stack # <<>>
  PROVE  /\ Len(stack) \in Nat \ {0} /\ Top = stack[Len(stack)] /\ Top \in F
         /\ Below \in Seq(F) /\ Len(Below) = Len(stack) - 1
         /\ \A i \in 1 .. Len(stack) - 1 : Below[i] = stack[i]
<1>1. Len(stack) \in Nat \ {0}
  BY EmptySeq
<1>2. Top = stack[Len(stack)] /\ Top \in F
  BY <1>1, ElementOfSeq DEF Top
<1>3. \A i \in 1 .. Len(stack) - 1 : stack[i] \in F
  BY <1>1, ElementOfSeq
<1> DEFINE n == Len(stack) - 1
           u == SubSeq(stack, 1, n)
<1>4. n \in Nat
  BY <1>1
<1>5. /\ u \in Seq(F) /\ Len(u) = IF 1 <= n THEN n - 1 + 1 ELSE 0
      /\ \A i \in 1 .. n - 1 + 1 : u[i] = stack[1 + i - 1]
  BY <1>3, <1>4, SubSeqProperties
<1>6. Below = u
  BY DEF Below
<1> HIDE DEF n, u
<1>7. Len(u) = n
  BY <1>4, <1>5
<1>8. \A i \in 1 .. n : u[i] = stack[i]
  <2> TAKE i \in 1 .. n
  <2>1. i \in 1 .. n - 1 + 1 /\ 1 + i - 1 = i
    BY <1>4
  <2> QED BY <1>5, <2>1
<1> QED BY <1>1, <1>2, <1>5, <1>6, <1>7, <1>8 DEF n

\* A stack over the same visit at the bottom, with no further visit of the code generator.
Over(t) == /\ t # <<>>
           /\ t[1].kind = stack[1].kind
           /\ stack[1].kind = "code" => t[1].node = stack[1].node
           /\ \A i \in 2 .. Len(t) : t[i].kind # "code"

\* Exchanging the innermost frame for one of the same kind.
LEMMA TopReplaced ==
  ASSUME NEW F, stack \in Seq(F), stack # <<>>, StackInv,
         NEW f \in F, f.kind = Top.kind, Top.kind = "code" => f.node = Top.node
  PROVE  Append(Below, f) \in Seq(F) /\ Over(Append(Below, f))
<1> DEFINE t == Append(Below, f)
<1>1. /\ Len(stack) \in Nat \ {0} /\ Top = stack[Len(stack)]
      /\ Below \in Seq(F) /\ Len(Below) = Len(stack) - 1
      /\ \A i \in 1 .. Len(stack) - 1 : Below[i] = stack[i]
  BY TopFacts
<1>2. /\ t \in Seq(F) /\ t # <<>> /\ Len(t) = Len(stack)
      /\ \A i \in 1 .. Len(stack) - 1 : t[i] = stack[i]
      /\ t[Len(stack)] = f
  BY <1>1, AppendProperties
<1> HIDE DEF t
<1>3. t[1].kind = stack[1].kind /\ (stack[1].kind = "code" => t[1].node = stack[1].node)
  <2>1. CASE Len(stack) = 1
    BY <1>1, <1>2, <2>1
  <2>2. CASE Len(stack) # 1
    <3>1. 1 \in 1 .. Len(stack) - 1
      BY <1>1, <2>2
    <3> QED BY <1>2, <3>1
  <2> QED BY <2>1, <2>2
<1>4. ASSUME NEW i \in 2 .. Len(t) PROVE t[i].kind # "code"
  <2>1. stack[i].kind # "code"
    BY <1>2, <1>4 DEF StackInv
  <2>2. CASE i = Len(stack)
    BY <1>1, <1>2, <2>1, <2>2
  <2>3. CASE i # Len(stack)
    <3>1. i \in 1 .. Len(stack) - 1
      BY <1>1, <1>2, <1>4, <2>3
    <3> QED BY <1>2, <2>1, <3>1
  <2> QED BY <2>2, <2>3
<1> QED BY <1>2, <1>3, <1>4 DEF Over, t

\* Entering another visit of semantic analysis, or a batch.
LEMMA Pushed ==
  ASSUME NEW F, NEW t \in Seq(F), Over(t), NEW g \in F, g.kind # "code"
  PROVE  Append(t, g) \in Seq(F) /\ Over(Append(t, g))
<1> DEFINE u == Append(t, g)
<1>1. /\ u \in Seq(F) /\ u # <<>> /\ Len(u) = Len(t) + 1
      /\ \A i \in 1 .. Len(t) : u[i] = t[i]
      /\ u[Len(t) + 1] = g
  BY AppendProperties
<1>2. Len(t) \in Nat \ {0}
  BY EmptySeq DEF Over
<1> HIDE DEF u
<1>3. u[1] = t[1]
  BY <1>1, <1>2
<1>4. \A i \in 2 .. Len(u) : u[i].kind # "code"
  <2> TAKE i \in 2 .. Len(u)
  <2>1. CASE i = Len(t) + 1
    BY <1>1, <2>1
  <2>2. CASE i # Len(t) + 1
    <3>1. i \in 1 .. Len(t) /\ i \in 2 .. Len(t)
      BY <1>1, <1>2, <2>2
    <3> QED BY <1>1, <3>1 DEF Over
  <2> QED BY <2>1, <2>2
<1> QED BY <1>1, <1>3, <1>4 DEF Over, u

\* Dropping a frame that is not the code generator's.
LEMMA Popped ==
  ASSUME NEW F, stack \in Seq(F), stack # <<>>, StackInv, Top.kind # "code"
  PROVE  /\ Below \in Seq(F)
         /\ \/ Below = <<>> /\ stack[1].kind # "code"
            \/ Over(Below)
<1>1. /\ Len(stack) \in Nat \ {0} /\ Top = stack[Len(stack)]
      /\ Below \in Seq(F) /\ Len(Below) = Len(stack) - 1
      /\ \A i \in 1 .. Len(stack) - 1 : Below[i] = stack[i]
  BY TopFacts
<1>2. CASE Len(stack) = 1
  <2>1. Len(Below) = 0
    BY <1>1, <1>2
  <2>2. Below = <<>>
    BY <1>1, <2>1, EmptySeq
  <2> QED BY <1>1, <1>2, <2>2
<1>3. CASE Len(stack) # 1
  <2>1. Len(Below) # 0 /\ 1 \in 1 .. Len(stack) - 1
    BY <1>1, <1>3
  <2>2. Below # <<>>
    BY <2>1, EmptySeq
  <2>3. \A i \in 2 .. Len(Below) : i \in 1 .. Len(stack) - 1 /\ i \in 2 .. Len(stack)
    BY <1>1
  <2>4. \A i \in 2 .. Len(Below) : Below[i].kind # "code"
    BY <1>1, <2>3 DEF StackInv
  <2> QED BY <1>1, <2>1, <2>2, <2>4 DEF Over
<1> QED BY <1>2, <1>3

\* A stack stays well typed when more nodes are known.
LEMMA FramesGrow ==
  ASSUME NEW I, NEW J, I \subseteq J
  PROVE  Frames(I) \subseteq Frames(J) /\ Seq(Frames(I)) \subseteq Seq(Frames(J))
<1>1. Seq(I) \subseteq Seq(J)
  BY SeqMonotonic
<1>2. Frames(I) \subseteq Frames(J)
  <2> SUFFICES ASSUME NEW f \in Frames(I) PROVE f \in Frames(J)
    OBVIOUS
  <2>1. CASE f \in [kind : {"roots"}, late : Seq(I), todo : Seq(I)]
    <3> HIDE DEF Frames
    <3>1. f \in [kind : {"roots"}, late : Seq(J), todo : Seq(J)]
      BY <1>1, <2>1
    <3> QED BY <3>1 DEF Frames
  <2>2. CASE f \in [kind : {"sema", "code"}, node : I, todo : Seq(Batches)]
    BY <2>2 DEF Frames
  <2> QED BY <2>1, <2>2 DEF Frames
<1>3. \A q \in Seq(Frames(I)) : q \in Seq(Frames(J))
  BY <1>2, SeqMonotonic
<1> QED BY <1>2, <1>3

-------------------------------------------------------------------------------
\* Inserting a batch of new nodes at the front shifts the others by its length.
LEMMA Prepended ==
  ASSUME NEW S, NEW b \in Seq(S), NEW s \in Seq(S),
         IsInjective(b), IsInjective(s), Elements(b) \cap Elements(s) = {}
  PROVE  /\ b \o s \in Seq(S) /\ Len(b \o s) = Len(b) + Len(s)
         /\ \A i \in 1 .. Len(b) : (b \o s)[i] = b[i]
         /\ \A i \in 1 .. Len(s) : (b \o s)[Len(b) + i] = s[i]
         /\ IsInjective(b \o s) /\ Elements(s) \subseteq Elements(b \o s)
<1> DEFINE u == b \o s
           m == Len(b)
           n == Len(s)
<1>1. m \in Nat /\ n \in Nat
  BY LenProperties
<1>2. /\ u \in Seq(S) /\ Len(u) = m + n
      /\ \A i \in 1 .. m + n : u[i] = IF i <= m THEN b[i] ELSE s[i - m]
  BY ConcatProperties
<1> HIDE DEF u, m, n
<1>3. \A i \in 1 .. m : i \in 1 .. m + n /\ u[i] = b[i]
  BY <1>1, <1>2
<1>4. \A i \in 1 .. n : m + i \in 1 .. m + n /\ u[m + i] = s[i]
  <2> TAKE i \in 1 .. n
  <2>1. m + i \in 1 .. m + n /\ ~(m + i <= m) /\ (m + i) - m = i
    BY <1>1
  <2> QED BY <1>2, <2>1
<1>5. /\ \A i, j \in 1 .. m : b[i] = b[j] => i = j
      /\ \A i, j \in 1 .. n : s[i] = s[j] => i = j
      /\ \A i \in 1 .. m : b[i] \in Elements(b)
      /\ \A i \in 1 .. n : s[i] \in Elements(s)
  BY InjectiveSeq DEF m, n
<1>6. ASSUME NEW i \in 1 .. m + n, NEW j \in 1 .. m + n, u[i] = u[j]
      PROVE  i = j
  <2>1. CASE i <= m /\ j <= m
    <3>1. i \in 1 .. m /\ j \in 1 .. m
      BY <2>1, <1>1
    <3> QED BY <1>3, <1>5, <1>6, <3>1
  <2>2. CASE i > m /\ j > m
    <3>1. i - m \in 1 .. n /\ j - m \in 1 .. n /\ u[i] = s[i - m] /\ u[j] = s[j - m]
      BY <1>1, <1>2, <2>2
    <3>2. i - m = j - m
      BY <1>5, <1>6, <3>1
    <3> QED BY <1>1, <3>2
  <2>3. CASE i <= m /\ j > m
    <3>1. i \in 1 .. m /\ j - m \in 1 .. n /\ u[i] = b[i] /\ u[j] = s[j - m]
      BY <1>1, <1>2, <2>3
    <3> QED BY <1>5, <1>6, <3>1
  <2>4. CASE i > m /\ j <= m
    <3>1. i - m \in 1 .. n /\ j \in 1 .. m /\ u[i] = s[i - m] /\ u[j] = b[j]
      BY <1>1, <1>2, <2>4
    <3> QED BY <1>5, <1>6, <3>1
  <2>5. (i <= m \/ i > m) /\ (j <= m \/ j > m)
    BY <1>1
  <2> QED BY <2>1, <2>2, <2>3, <2>4, <2>5
<1>7. /\ IsInjective(u) <=> \A i, j \in 1 .. m + n : u[i] = u[j] => i = j
      /\ Elements(u) = {u[i] : i \in 1 .. m + n}
      /\ Elements(s) = {s[i] : i \in 1 .. n}
  BY <1>2, InjectiveSeq DEF n
<1>8. IsInjective(u)
  BY <1>6, <1>7
<1>9. Elements(s) \subseteq Elements(u)
  BY <1>4, <1>7
<1> QED BY <1>2, <1>3, <1>4, <1>8, <1>9 DEF u, m, n

\* Listing one new node at the end.
LEMMA Appended ==
  ASSUME NEW S, NEW s \in Seq(S), NEW x \in S, IsInjective(s), x \notin Elements(s)
  PROVE  /\ Append(s, x) \in Seq(S) /\ Len(Append(s, x)) = Len(s) + 1
         /\ \A i \in 1 .. Len(s) : Append(s, x)[i] = s[i]
         /\ Append(s, x)[Len(s) + 1] = x
         /\ IsInjective(Append(s, x)) /\ Elements(s) \subseteq Elements(Append(s, x))
<1> DEFINE u == Append(s, x)
           n == Len(s)
<1>1. n \in Nat
  BY LenProperties
<1>2. /\ u \in Seq(S) /\ Len(u) = n + 1
      /\ \A i \in 1 .. n : u[i] = s[i]
      /\ u[n + 1] = x
  BY AppendProperties
<1> HIDE DEF u, n
<1>3. /\ \A i, j \in 1 .. n : s[i] = s[j] => i = j
      /\ \A i \in 1 .. n : s[i] # x
      /\ Elements(s) = {s[i] : i \in 1 .. n}
  BY InjectiveSeq DEF n
<1>4. \A i \in 1 .. n + 1 : i \in 1 .. n \/ i = n + 1
  BY <1>1
<1>5. ASSUME NEW i \in 1 .. n + 1, NEW j \in 1 .. n + 1, u[i] = u[j]
      PROVE  i = j
  <2>1. CASE i \in 1 .. n /\ j \in 1 .. n
    BY <1>2, <1>3, <1>5, <2>1
  <2>2. CASE i \in 1 .. n /\ j = n + 1
    BY <1>2, <1>3, <1>5, <2>2
  <2>3. CASE i = n + 1 /\ j \in 1 .. n
    BY <1>2, <1>3, <1>5, <2>3
  <2> QED BY <1>4, <2>1, <2>2, <2>3
<1>6. /\ IsInjective(u) <=> \A i, j \in 1 .. n + 1 : u[i] = u[j] => i = j
      /\ Elements(u) = {u[i] : i \in 1 .. n + 1}
  BY <1>2, InjectiveSeq
<1>7. 1 .. n \subseteq 1 .. n + 1
  BY <1>1
<1>8. Elements(s) \subseteq Elements(u)
  BY <1>2, <1>3, <1>6, <1>7
<1> QED BY <1>2, <1>5, <1>6, <1>8 DEF u, n

\* What a visit may request are injective batches.
LEMMA VisitFrame ==
  ASSUME program \in Programs, NEW pass \in {"sema", "code"}, NEW I, NEW n \in I, I \subseteq Node
  PROVE  Visit(pass, n) \in Frames(I) /\ Visit(pass, n).kind = pass /\ Visit(pass, n).node = n
<1>1. ASSUME NEW needs \in {program.sema, program.code}
      PROVE  needs[n] \in Seq(Batches)
  <2>1. n \in Node
    OBVIOUS
  <2>2. program.sema \in [Node -> Seq(Batch)] /\ program.code \in [Node -> Seq(Batch)]
    BY ProgramAssumption DEF Needs
  <2>3. needs \in [Node -> Seq(Batch)]
    BY <1>1, <2>2
  <2>4. needs[n] \in Seq(Batch)
    BY <2>1, <2>3
  <2>5. \A i \in DOMAIN needs[n] : IsInjective(needs[n][i])
    BY <1>1, <2>1, OnceAssumption
  <2>6. DOMAIN needs[n] = 1 .. Len(needs[n]) /\ Len(needs[n]) \in Int
    BY <2>4, LenProperties
  <2>7. \A i \in 1 .. Len(needs[n]) : needs[n][i] \in Batches
    BY <2>4, <2>5, <2>6, ElementOfSeq DEF Batches
  <2>8. SubSeq(needs[n], 1, Len(needs[n])) \in Seq(Batches)
    BY <2>6, <2>7, SubSeqProperties
  <2>9. SubSeq(needs[n], 1, Len(needs[n])) = needs[n]
    BY <2>4, SubSeqFull
  <2> QED BY <2>8, <2>9
<1>2. <<>> \in Seq(Batches)
  BY EmptySeq
<1> DEFINE todo == IF <<pass, n>> \in begun THEN <<>>
                   ELSE IF pass = "sema" THEN program.sema[n] ELSE program.code[n]
<1>3. todo \in Seq(Batches)
  BY <1>1, <1>2
<1>4. Visit(pass, n) = [kind |-> pass, node |-> n, todo |-> todo]
  BY DEF Visit
<1> HIDE DEF todo
<1> QED BY <1>3, <1>4 DEF Frames

-------------------------------------------------------------------------------
\* A step that only works on the stack keeps the place of code generation.
LEMMA PlaceKept ==
  ASSUME IInv, UNCHANGED <<program, ast_nodes, loop, generated, behind>>, stack # <<>>,
         \/ Over(stack')
         \/ stack' = <<>> /\ stack[1].kind # "code"
  PROVE  StackInv' /\ PlaceInv'
<1>0. /\ program' = program /\ ast_nodes' = ast_nodes /\ phase' = phase
      /\ node_index' = node_index /\ generated' = generated /\ behind' = behind
  BY DEF loop
<1>1. phase \in {"normalize", "generate"} /\ (stack[1].kind = "code" <=> phase = "generate")
  BY DEF IInv, TypeInv, StackInv
<1>2. CASE Over(stack')
  <2>1. StackInv'
    BY <1>0, <1>1, <1>2 DEF StackInv, Over
  <2>2. ASSUME phase = "generate"
        PROVE  \E p \in node_index .. Len(ast_nodes) : VisitAt(p)'
    <3>1. PICK p \in node_index .. Len(ast_nodes) : VisitAt(p)
      BY <2>2 DEF IInv, PlaceInv
    <3>2. stack'[1].node = stack[1].node
      BY <1>1, <1>2, <2>2 DEF Over
    <3>3. VisitAt(p)'
      BY <1>0, <3>1, <3>2 DEF VisitAt, Cut
    <3> QED BY <3>3
  <2>3. stack' # <<>>
    BY <1>2 DEF Over
  <2>4. phase' = "normalize" => node_index' <= Len(program'.list) + 1 /\ generated' = {}
    BY <1>0 DEF IInv, PlaceInv
  <2>5. phase' # "done"
    BY <1>0, <1>1
  <2> QED BY <1>0, <2>1, <2>2, <2>3, <2>4, <2>5 DEF PlaceInv
<1>3. CASE stack' = <<>> /\ stack[1].kind # "code"
  <2>1. phase = "normalize"
    BY <1>1, <1>3
  <2>2. Len(stack') = 0
    BY <1>3
  <2>3. StackInv'
    BY <1>0, <1>3, <2>1, <2>2 DEF StackInv
  <2>4. node_index' <= Len(program'.list) + 1 /\ generated' = {}
    BY <1>0, <2>1 DEF IInv, PlaceInv
  <2> QED BY <1>0, <1>3, <2>1, <2>3, <2>4 DEF PlaceInv
<1> QED BY <1>2, <1>3

\* A step on the stack alone that requests nothing new.
LEMMA StackSteps ==
  ASSUME IInv, FindVariable \/ NormalizeRoot \/ RootsNormalized \/ NodeNormalized
  PROVE  IInv'
<1> DEFINE F == Frames(instantiated)
<1>1. /\ stack # <<>> /\ stack \in Seq(F) /\ StackInv
      /\ UNCHANGED <<program, ast_nodes, loop, instantiated, emitted, failed, history>>
  BY DEF IInv, TypeInv, FindVariable, NextBatch, NormalizeRoot, RootsNormalized, NodeNormalized, Finished
<1>2. /\ program' = program /\ ast_nodes' = ast_nodes /\ phase' = phase /\ node_index' = node_index
      /\ instantiated' = instantiated /\ generated' = generated /\ regenerated' = regenerated
      /\ failed' = failed /\ shifts' = shifts /\ behind' = behind
  BY <1>1 DEF loop, emitted, history
<1>3. /\ Top \in F /\ Below \in Seq(F) /\ instantiated \subseteq Node
      /\ begun \subseteq {"sema", "code"} \X Node /\ normalized \subseteq instantiated
  BY <1>1, TopFacts DEF IInv, TypeInv
<1> HIDE DEF F
<1>4. /\ stack' \in Seq(F)
      /\ Over(stack') \/ (stack' = <<>> /\ stack[1].kind # "code")
      /\ begun' \subseteq {"sema", "code"} \X Node
      /\ normalized' \subseteq instantiated
  <2>1. CASE FindVariable
    <3>1. Top \in [kind : {"sema", "code"}, node : instantiated, todo : Seq(Batches)] /\ Top.todo # <<>>
      BY <1>3, <2>1 DEF FindVariable, NextBatch, Frames, F
    <3>2. Tail(Top.todo) \in Seq(Batches)
      BY <3>1, HeadTailProperties
    <3>3. Rest \in F /\ Rest.kind = Top.kind /\ Rest.node = Top.node
      BY <3>1, <3>2 DEF Rest, Frames, F
    <3>4. Append(Below, Rest) \in Seq(F) /\ Over(Append(Below, Rest))
      BY <1>1, <3>3, TopReplaced
    <3>5. stack' = Append(Below, Rest) /\ begun' = begun /\ normalized' = normalized
      BY <2>1 DEF FindVariable
    <3> QED BY <1>3, <3>4, <3>5
  <2>2. CASE NormalizeRoot
    <3>1. Top \in [kind : {"roots"}, late : Seq(instantiated), todo : Seq(instantiated)] /\ Top.todo # <<>>
      BY <1>3, <2>2 DEF NormalizeRoot, Frames, F
    <3>2. Tail(Top.todo) \in Seq(instantiated) /\ Head(Top.todo) \in instantiated
      BY <3>1, HeadTailProperties
    <3>3. Rest \in F /\ Rest.kind = Top.kind /\ Top.kind # "code"
      BY <3>1, <3>2 DEF Rest, Frames, F
    <3>4. Append(Below, Rest) \in Seq(F) /\ Over(Append(Below, Rest))
      BY <1>1, <3>3, TopReplaced
    <3> DEFINE t == Append(Below, Rest)
               g == Visit("sema", Head(Top.todo))
    <3>5. g \in F /\ g.kind = "sema" /\ Head(Top.todo) \in Node
      BY <1>3, <3>2, VisitFrame DEF IInv, TypeInv, F
    <3>6. stack' = Append(t, g) /\ begun' = begun \cup {<<"sema", Head(Top.todo)>>} /\ normalized' = normalized
      BY <2>2 DEF NormalizeRoot, EnterVisit
    <3> HIDE DEF t, g
    <3>7. Append(t, g) \in Seq(F) /\ Over(Append(t, g))
      BY <3>4, <3>5, Pushed DEF t
    <3>8. <<"sema", Head(Top.todo)>> \in {"sema", "code"} \X Node
      BY <3>5
    <3> QED BY <1>3, <3>6, <3>7, <3>8
  <2>3. CASE RootsNormalized
    <3>1. Top.kind # "code"
      BY <2>3 DEF RootsNormalized, Finished
    <3>2. stack' = Below /\ begun' = begun /\ normalized' = normalized
      BY <2>3 DEF RootsNormalized
    <3>3. Over(Below) \/ (Below = <<>> /\ stack[1].kind # "code")
      BY <1>1, <3>1, Popped
    <3> QED BY <1>3, <3>2, <3>3
  <2>4. CASE NodeNormalized
    <3>1. Top.kind = "sema" /\ Top.kind # "code"
      BY <2>4 DEF NodeNormalized, Finished
    <3>2. Top.node \in instantiated
      BY <1>3, <3>1 DEF Frames, F
    <3>3. stack' = Below /\ begun' = begun /\ normalized' = normalized \cup {Top.node}
      BY <2>4 DEF NodeNormalized
    <3>4. Over(Below) \/ (Below = <<>> /\ stack[1].kind # "code")
      BY <1>1, <3>1, Popped
    <3> QED BY <1>3, <3>2, <3>3, <3>4
  <2> QED BY <2>1, <2>2, <2>3, <2>4
<1>5. StackInv' /\ PlaceInv'
  BY <1>1, <1>4, PlaceKept DEF emitted, history
<1>6. TypeInv'
  BY <1>2, <1>4 DEF IInv, TypeInv, Elements, F
<1>7. IsInjective(ast_nodes)'
  BY <1>2 DEF IInv
<1> QED BY <1>5, <1>6, <1>7 DEF IInv

\* What the frame that requests a batch looks like.
LEMMA Request ==
  ASSUME IInv, NextBatch
  PROVE  /\ stack \in Seq(Frames(instantiated)) /\ StackInv
         /\ Head(Top.todo) \in Seq(Node) /\ IsInjective(Head(Top.todo))
         /\ Rest \in Frames(instantiated) /\ Rest.kind = Top.kind /\ Rest.node = Top.node
<1>1. stack \in Seq(Frames(instantiated)) /\ StackInv /\ stack # <<>>
  BY DEF IInv, TypeInv, NextBatch
<1>2. Top \in Frames(instantiated)
  BY <1>1, TopFacts
<1>3. Top \in [kind : {"sema", "code"}, node : instantiated, todo : Seq(Batches)] /\ Top.todo # <<>>
  BY <1>2 DEF NextBatch, Frames
<1>4. Tail(Top.todo) \in Seq(Batches) /\ Head(Top.todo) \in Batches
  BY <1>3, HeadTailProperties
<1>5. Rest \in Frames(instantiated) /\ Rest.kind = Top.kind /\ Rest.node = Top.node
  BY <1>3, <1>4 DEF Rest, Frames
<1> QED BY <1>1, <1>4, <1>5 DEF Batches, Batch

\* The stack after a batch was requested, with all its nodes known.
LEMMA Requested ==
  ASSUME IInv, NextBatch,
         NEW g \in {Roots(Head(Top.todo)), LateRoots(Head(Top.todo))}
  PROVE  LET J == instantiated \cup Elements(Head(Top.todo))
             u == Append(Append(Below, Rest), g)
         IN  u \in Seq(Frames(J)) /\ Over(u) /\ J \subseteq Node
<1> DEFINE b == Head(Top.todo)
           J == instantiated \cup Elements(b)
           t == Append(Below, Rest)
<1>1. /\ stack \in Seq(Frames(instantiated)) /\ StackInv /\ b \in Seq(Node) /\ stack # <<>>
      /\ Rest \in Frames(instantiated) /\ Rest.kind = Top.kind /\ Rest.node = Top.node
  BY Request DEF NextBatch
<1>2. t \in Seq(Frames(instantiated)) /\ Over(t)
  BY <1>1, TopReplaced
<1>3. Seq(Frames(instantiated)) \subseteq Seq(Frames(J))
  BY FramesGrow
<1>4. J \subseteq Node
  BY <1>1, InjectiveSeq DEF IInv, TypeInv
<1>5. b \in Seq(J)
  <2>1. Len(b) \in Int /\ Elements(b) = {b[i] : i \in 1 .. Len(b)}
    BY <1>1, InjectiveSeq, LenProperties
  <2>2. \A i \in 1 .. Len(b) : b[i] \in J
    BY <2>1
  <2>3. SubSeq(b, 1, Len(b)) \in Seq(J)
    BY <2>1, <2>2, SubSeqProperties
  <2>4. SubSeq(b, 1, Len(b)) = b
    BY <1>1, SubSeqFull
  <2> QED BY <2>3, <2>4
<1>6. <<>> \in Seq(J)
  BY EmptySeq
<1>7. Roots(b) \in Frames(J) /\ LateRoots(b) \in Frames(J) /\ g.kind = "roots"
  BY <1>5, <1>6 DEF Roots, LateRoots, Frames
<1> HIDE DEF J, t, b
<1>8. g \in Frames(J) /\ g.kind # "code" /\ t \in Seq(Frames(J))
  BY <1>2, <1>3, <1>7 DEF b
<1>9. Append(t, g) \in Seq(Frames(J)) /\ Over(Append(t, g))
  BY <1>2, <1>8, Pushed
<1> QED BY <1>4, <1>9 DEF J, t, b

\* Requesting a batch of nodes only makes them known.
LEMMA InstantiateLateStep ==
  ASSUME IInv, InstantiateLate
  PROVE  IInv'
<1> DEFINE b == Head(Top.todo)
           J == instantiated \cup Elements(b)
<1>1. NextBatch /\ stack # <<>>
  BY DEF InstantiateLate, NextBatch
<1>2. /\ instantiated' = J
      /\ stack' = Append(Append(Below, Rest), LateRoots(b))
      /\ UNCHANGED <<program, ast_nodes, loop, begun, normalized, emitted, failed, history>>
  BY DEF InstantiateLate
<1>3. stack' \in Seq(Frames(J)) /\ Over(stack') /\ J \subseteq Node
  BY <1>1, <1>2, Requested
<1>4. StackInv' /\ PlaceInv'
  BY <1>1, <1>2, <1>3, PlaceKept DEF emitted, history
<1> HIDE DEF J
<1>5. instantiated \subseteq J
  BY DEF J
<1>6. ast_nodes \in Seq(J)
  BY <1>5, SeqMonotonic DEF IInv, TypeInv
<1>7. TypeInv'
  BY <1>2, <1>3, <1>5, <1>6 DEF IInv, TypeInv, Elements, loop, emitted, history
<1>8. IsInjective(ast_nodes)'
  BY <1>2 DEF IInv
<1> QED BY <1>4, <1>7, <1>8 DEF IInv

\* A list that grows at its end by nothing or by a node not listed before.
LEMMA RegisterLateStep ==
  ASSUME IInv, RegisterLate
  PROVE  IInv'
<1> DEFINE I == instantiated
           x == Head(Top.late)
           f == [Top EXCEPT !.late = Tail(@)]
<1>1. /\ stack # <<>> /\ Top.kind = "roots" /\ Top.late # <<>>
      /\ program' = program /\ phase' = phase /\ node_index' = node_index
      /\ instantiated' = I /\ begun' = begun /\ normalized' = normalized
      /\ generated' = generated /\ regenerated' = regenerated
      /\ failed' = failed /\ shifts' = shifts /\ behind' = behind
      /\ stack' = Append(Below, f)
      /\ ast_nodes' = IF x \in Elements(ast_nodes) THEN ast_nodes ELSE Append(ast_nodes, x)
  BY DEF RegisterLate, Registering, loop, emitted, history
<1>2. /\ stack \in Seq(Frames(I)) /\ StackInv /\ ast_nodes \in Seq(I) /\ IsInjective(ast_nodes)
      /\ Len(ast_nodes) \in Nat
  BY LenProperties DEF IInv, TypeInv
<1>3. Top \in Frames(I)
  BY <1>1, <1>2, TopFacts
<1>4. Top \in [kind : {"roots"}, late : Seq(I), todo : Seq(I)]
  BY <1>1, <1>3 DEF Frames
<1>5. Tail(Top.late) \in Seq(I) /\ x \in I
  BY <1>1, <1>4, HeadTailProperties
<1>6. f \in Frames(I) /\ f.kind = Top.kind
  BY <1>4, <1>5 DEF Frames
<1>7. stack' \in Seq(Frames(I)) /\ Over(stack')
  BY <1>1, <1>2, <1>6, TopReplaced
<1> HIDE DEF f, x
<1>8. /\ ast_nodes' \in Seq(I) /\ Len(ast_nodes') \in {Len(ast_nodes), Len(ast_nodes) + 1}
      /\ \A i \in 1 .. Len(ast_nodes) : ast_nodes'[i] = ast_nodes[i]
      /\ Len(ast_nodes') = Len(ast_nodes) + 1 => ast_nodes'[Len(ast_nodes) + 1] \notin Elements(ast_nodes)
      /\ IsInjective(ast_nodes') /\ Elements(ast_nodes) \subseteq Elements(ast_nodes')
  <2>1. CASE x \in Elements(ast_nodes)
    BY <1>1, <1>2, <2>1
  <2>2. CASE x \notin Elements(ast_nodes)
    <3>1. ast_nodes' = Append(ast_nodes, x)
      BY <1>1, <2>2
    <3> QED BY <1>2, <1>5, <2>2, <3>1, Appended
  <2> QED BY <2>1, <2>2
<1>9. StackInv'
  BY <1>1, <1>2, <1>7 DEF StackInv, Over
<1>10. phase \in {"normalize", "generate"} /\ (stack[1].kind = "code" <=> phase = "generate")
  BY <1>1 DEF IInv, TypeInv, StackInv
<1>11. ASSUME phase = "generate"
       PROVE  \E p \in node_index .. Len(ast_nodes') : VisitAt(p)'
  <2>1. PICK p \in node_index .. Len(ast_nodes) : VisitAt(p)
    BY <1>1, <1>11 DEF IInv, PlaceInv
  <2>2. node_index \in Nat \ {0} /\ generated \subseteq Elements(ast_nodes)
    BY DEF IInv, TypeInv
  <2>3. p \in 1 .. Len(ast_nodes) /\ p \in node_index .. Len(ast_nodes')
    BY <1>2, <1>8, <2>2
  <2>4. ast_nodes'[p] = stack'[1].node
    BY <1>7, <1>8, <1>10, <1>11, <2>1, <2>3 DEF VisitAt, Over
  <2>5. \A i \in 1 .. p : ast_nodes'[i] \in generated' \cup behind'
    <3> TAKE i \in 1 .. p
    <3>1. i \in 1 .. Len(ast_nodes)
      BY <1>2, <2>3
    <3> QED BY <1>1, <1>8, <2>1, <3>1 DEF VisitAt, Cut
  <2>6. \A i \in p + 1 .. Len(ast_nodes') : ast_nodes'[i] \notin generated'
    <3> TAKE i \in p + 1 .. Len(ast_nodes')
    <3>1. \/ i \in p + 1 .. Len(ast_nodes) /\ i \in 1 .. Len(ast_nodes)
          \/ i = Len(ast_nodes) + 1 /\ Len(ast_nodes') = Len(ast_nodes) + 1
      BY <1>2, <1>8, <2>3
    <3>2. CASE i \in p + 1 .. Len(ast_nodes) /\ i \in 1 .. Len(ast_nodes)
      BY <1>1, <1>8, <2>1, <3>2 DEF VisitAt, Cut
    <3>3. CASE i = Len(ast_nodes) + 1 /\ Len(ast_nodes') = Len(ast_nodes) + 1
      BY <1>1, <1>8, <2>2, <3>3
    <3> QED BY <3>1, <3>2, <3>3
  <2>7. VisitAt(p)'
    BY <2>4, <2>5, <2>6 DEF VisitAt, Cut
  <2> QED BY <2>3, <2>7
<1>12. stack' # <<>>
  BY <1>7 DEF Over
<1>13. phase = "normalize" => node_index <= Len(program.list) + 1 /\ generated = {}
  BY DEF IInv, PlaceInv
<1>14. PlaceInv'
  BY <1>1, <1>10, <1>11, <1>12, <1>13 DEF PlaceInv
<1>15. TypeInv'
  <2>1. Len(program.list) \in Nat
    <3>1. program.list \in Seq(Node)
      BY ProgramAssumption DEF IInv, TypeInv
    <3> QED BY <3>1, LenProperties
  <2>2. Len(program.list) <= Len(ast_nodes') /\ node_index <= Len(ast_nodes') + 1
    BY <1>2, <1>8, <2>1 DEF IInv, TypeInv
  <2>3. generated \subseteq Elements(ast_nodes')
    BY <1>8 DEF IInv, TypeInv
  <2>4. Elements(ast_nodes)' = Elements(ast_nodes')
    BY DEF Elements
  <2> QED BY <1>1, <1>7, <1>8, <2>2, <2>3, <2>4 DEF IInv, TypeInv
<1>16. IsInjective(ast_nodes)'
  BY <1>8 DEF IsInjective
<1> QED BY <1>9, <1>14, <1>15, <1>16 DEF IInv

\* A front insertion moves the visited node by the length of the batch, all of which
\* lies behind the cursor.
LEMMA InstantiateVariableStep ==
  ASSUME IInv, InstantiateVariable
  PROVE  IInv'
<1> DEFINE b == Head(Top.todo)
           J == instantiated \cup Elements(b)
           m == Len(b)
           n == Len(ast_nodes)
<1>1. /\ NextBatch /\ stack # <<>>
      /\ Elements(b) \subseteq Variable /\ Elements(b) \cap instantiated = {}
      /\ program' = program /\ phase' = phase /\ node_index' = node_index
      /\ instantiated' = J /\ begun' = begun /\ normalized' = normalized
      /\ generated' = generated /\ regenerated' = regenerated /\ failed' = failed
      /\ ast_nodes' = b \o ast_nodes
      /\ stack' = Append(Append(Below, Rest), Roots(b))
      /\ shifts' = IF phase = "normalize" THEN shifts + m ELSE shifts
      /\ behind' = IF phase = "generate" THEN behind \cup Elements(b) ELSE behind
  BY DEF InstantiateVariable, NextBatch, RegisterFront, loop, emitted
<1>2. b \in Seq(Node) /\ IsInjective(b) /\ ast_nodes \in Seq(instantiated) /\ IsInjective(ast_nodes)
  BY <1>1, Request DEF IInv, TypeInv
<1>3. stack' \in Seq(Frames(J)) /\ Over(stack') /\ J \subseteq Node
  BY <1>1, Requested
<1>4. /\ m \in Nat /\ n \in Nat /\ Elements(b) = {b[i] : i \in 1 .. m}
      /\ Elements(ast_nodes) \subseteq instantiated
  BY <1>2, LenProperties, InjectiveSeq
<1>5. b \in Seq(J)
  <2>1. \A i \in 1 .. m : b[i] \in J
    BY <1>4
  <2>2. SubSeq(b, 1, m) \in Seq(J)
    BY <1>4, <2>1, SubSeqProperties
  <2>3. SubSeq(b, 1, m) = b
    BY <1>2, SubSeqFull
  <2> QED BY <2>2, <2>3
<1>6. ast_nodes \in Seq(J)
  BY <1>2, SeqMonotonic
<1>7. Elements(b) \cap Elements(ast_nodes) = {}
  BY <1>1, <1>4
<1> HIDE DEF b, J, m, n
<1>8. /\ ast_nodes' \in Seq(J) /\ Len(ast_nodes') = m + n
      /\ \A i \in 1 .. m : ast_nodes'[i] = b[i]
      /\ \A i \in 1 .. n : ast_nodes'[m + i] = ast_nodes[i]
      /\ IsInjective(ast_nodes') /\ Elements(ast_nodes) \subseteq Elements(ast_nodes')
  BY <1>1, <1>2, <1>5, <1>6, <1>7, Prepended DEF m, n
<1>9. StackInv'
  BY <1>1, <1>3 DEF StackInv, Over, IInv, TypeInv
<1>10. phase \in {"normalize", "generate"} /\ (stack[1].kind = "code" <=> phase = "generate")
  BY <1>1 DEF IInv, TypeInv, StackInv
<1>11. ASSUME phase = "generate"
       PROVE  \E p \in node_index .. Len(ast_nodes') : VisitAt(p)'
  <2>1. PICK p \in node_index .. n : VisitAt(p)
    BY <1>1, <1>11 DEF IInv, PlaceInv, n
  <2>2. node_index \in Nat \ {0}
    BY DEF IInv, TypeInv
  <2>3. p \in 1 .. n /\ m + p \in node_index .. Len(ast_nodes')
    BY <1>4, <1>8, <2>2
  <2>4. ast_nodes'[m + p] = stack'[1].node
    BY <1>3, <1>8, <1>10, <1>11, <2>1, <2>3 DEF VisitAt, Over
  <2>5. \A i \in 1 .. m + p : ast_nodes'[i] \in generated' \cup behind'
    <3> TAKE i \in 1 .. m + p
    <3>1. CASE i <= m
      <4>1. i \in 1 .. m
        BY <1>4, <2>3, <3>1
      <4> QED BY <1>1, <1>4, <1>8, <1>11, <4>1
    <3>2. CASE i > m
      <4>1. i - m \in 1 .. p /\ i - m \in 1 .. n /\ m + (i - m) = i
        BY <1>4, <2>3, <3>2
      <4>2. ast_nodes'[i] = ast_nodes[i - m]
        BY <1>8, <4>1
      <4>3. ast_nodes[i - m] \in generated \cup behind
        BY <2>1, <4>1 DEF VisitAt, Cut
      <4> QED BY <1>1, <1>11, <4>2, <4>3
    <3>3. i <= m \/ i > m
      BY <1>4, <2>3
    <3> QED BY <3>1, <3>2, <3>3
  <2>6. \A i \in m + p + 1 .. Len(ast_nodes') : ast_nodes'[i] \notin generated'
    <3> TAKE i \in m + p + 1 .. Len(ast_nodes')
    <3>1. i - m \in p + 1 .. n /\ i - m \in 1 .. n /\ m + (i - m) = i
      BY <1>4, <1>8, <2>3
    <3>2. ast_nodes'[i] = ast_nodes[i - m]
      BY <1>8, <3>1
    <3>3. ast_nodes[i - m] \notin generated
      BY <2>1, <3>1 DEF VisitAt, Cut, n
    <3> QED BY <1>1, <3>2, <3>3
  <2>7. PICK q \in node_index .. Len(ast_nodes') : q = m + p
    BY <2>3
  <2>8. VisitAt(q)'
    BY <2>4, <2>5, <2>6, <2>7 DEF VisitAt, Cut
  <2> QED BY <2>8
<1>12. stack' # <<>>
  BY <1>3 DEF Over
<1>13. phase = "normalize" => node_index <= Len(program.list) + 1 /\ generated = {}
  BY DEF IInv, PlaceInv
<1>14. PlaceInv'
  BY <1>1, <1>10, <1>11, <1>12, <1>13 DEF PlaceInv
<1>15. TypeInv'
  <2>1. Len(program.list) \in Nat
    <3>1. program.list \in Seq(Node)
      BY ProgramAssumption DEF IInv, TypeInv
    <3> QED BY <3>1, LenProperties
  <2>2. Len(program.list) <= Len(ast_nodes') /\ node_index <= Len(ast_nodes') + 1
    <3>1. Len(program.list) <= n /\ node_index <= n + 1 /\ node_index \in Nat
      BY DEF IInv, TypeInv, n
    <3> QED BY <1>4, <1>8, <2>1, <3>1
  <2>3. generated \subseteq Elements(ast_nodes') /\ normalized \subseteq J
    BY <1>8 DEF IInv, TypeInv, J
  <2>4. Elements(ast_nodes)' = Elements(ast_nodes')
    BY DEF Elements
  <2>5. shifts' \in Nat /\ behind' \subseteq Variable
    BY <1>1, <1>4 DEF IInv, TypeInv
  <2> QED BY <1>1, <1>3, <1>8, <2>2, <2>3, <2>4, <2>5 DEF IInv, TypeInv
<1>16. IsInjective(ast_nodes)'
  BY <1>8 DEF IsInjective
<1> QED BY <1>9, <1>14, <1>15, <1>16 DEF IInv

-------------------------------------------------------------------------------
\* A stack of one visit.
LEMMA OneVisit ==
  ASSUME program \in Programs, instantiated \subseteq Node,
         NEW pass \in {"sema", "code"}, NEW n \in instantiated, EnterVisit(<<>>, pass, n)
  PROVE  /\ stack' \in Seq(Frames(instantiated)) /\ stack' # <<>> /\ Len(stack') = 1
         /\ stack'[1].kind = pass /\ stack'[1].node = n
         /\ begun' = begun \cup {<<pass, n>>}
<1> DEFINE F == Frames(instantiated)
           v == Visit(pass, n)
<1>1. v \in F /\ v.kind = pass /\ v.node = n
  BY VisitFrame
<1>2. stack' = Append(<<>>, v) /\ begun' = begun \cup {<<pass, n>>}
  BY DEF EnterVisit
<1> HIDE DEF F, v
<1>3. <<>> \in Seq(F) /\ Len(<<>>) = 0
  BY EmptySeq
<1>4. /\ Append(<<>>, v) \in Seq(F) /\ Append(<<>>, v) # <<>>
      /\ Len(Append(<<>>, v)) = Len(<<>>) + 1 /\ Append(<<>>, v)[Len(<<>>) + 1] = v
  BY <1>1, <1>3, AppendProperties
<1>5. stack'[1] = v /\ Len(stack') = 1
  BY <1>2, <1>3, <1>4
<1> QED BY <1>1, <1>2, <1>4, <1>5 DEF F

\* The initial pass visits the next node of the list.
LEMMA NormalizeNextStep ==
  ASSUME IInv, NormalizeNext
  PROVE  IInv'
<1> DEFINE n == ast_nodes[node_index]
<1>1. /\ phase = "normalize" /\ node_index <= Len(program.list)
      /\ EnterVisit(<<>>, "sema", n) /\ node_index' = node_index + 1
      /\ program' = program /\ ast_nodes' = ast_nodes /\ phase' = phase
      /\ instantiated' = instantiated /\ normalized' = normalized
      /\ generated' = generated /\ regenerated' = regenerated
      /\ failed' = failed /\ shifts' = shifts /\ behind' = behind
  BY DEF NormalizeNext, initial_root_count, emitted, history
<1>2. /\ program \in Programs /\ instantiated \subseteq Node /\ ast_nodes \in Seq(instantiated)
      /\ node_index \in Nat \ {0} /\ Len(program.list) <= Len(ast_nodes)
      /\ Len(ast_nodes) \in Nat
  BY LenProperties DEF IInv, TypeInv
<1>3. Len(program.list) \in Nat
  <2>1. program.list \in Seq(Node)
    BY <1>2, ProgramAssumption
  <2> QED BY <2>1, LenProperties
<1>4. n \in instantiated
  <2>1. node_index \in 1 .. Len(ast_nodes)
    BY <1>1, <1>2, <1>3
  <2> QED BY <1>2, <2>1, ElementOfSeq
<1> HIDE DEF n
<1>5. /\ stack' \in Seq(Frames(instantiated)) /\ stack' # <<>> /\ Len(stack') = 1
      /\ stack'[1].kind = "sema" /\ begun' = begun \cup {<<"sema", n>>}
  BY <1>1, <1>2, <1>4, OneVisit
<1>6. begun' \subseteq {"sema", "code"} \X Node
  BY <1>2, <1>4, <1>5 DEF IInv, TypeInv
<1>7. /\ node_index' \in Nat \ {0} /\ node_index' <= Len(ast_nodes) + 1
      /\ node_index' <= Len(program.list) + 1
  BY <1>1, <1>2, <1>3
<1>8. TypeInv'
  BY <1>1, <1>2, <1>5, <1>6, <1>7 DEF IInv, TypeInv, Elements
<1>9. StackInv' /\ PlaceInv'
  BY <1>1, <1>5, <1>7 DEF IInv, StackInv, PlaceInv
<1>10. IsInjective(ast_nodes)'
  BY <1>1 DEF IInv
<1> QED BY <1>8, <1>9, <1>10 DEF IInv

\* Code generation begins before the first node, having generated none.
LEMMA StartCodegenStep ==
  ASSUME IInv, StartCodegen
  PROVE  IInv'
<1>1. /\ phase = "normalize" /\ stack = <<>> /\ stack' = stack
      /\ phase' = "generate" /\ node_index' = 1
      /\ program' = program /\ ast_nodes' = ast_nodes
      /\ instantiated' = instantiated /\ normalized' = normalized /\ begun' = begun
      /\ generated' = generated /\ regenerated' = regenerated
      /\ failed' = failed /\ shifts' = shifts /\ behind' = behind
  BY DEF StartCodegen, emitted, history
<1>2. generated = {} /\ Len(ast_nodes) \in Nat /\ Len(stack) = 0
  BY <1>1, LenProperties DEF IInv, PlaceInv, TypeInv
<1>3. Cut(node_index - 1)'
  BY <1>1, <1>2 DEF Cut
<1>4. TypeInv'
  BY <1>1, <1>2 DEF IInv, TypeInv, Elements
<1>5. StackInv' /\ PlaceInv'
  BY <1>1, <1>2, <1>3 DEF IInv, StackInv, PlaceInv
<1> QED BY <1>1, <1>4, <1>5 DEF IInv

\* Code generation enters a node it has not generated: everything at the cursor and
\* behind it is new.
LEMMA GenerateNextStep ==
  ASSUME IInv, GenerateNext
  PROVE  IInv'
<1> DEFINE n == ast_nodes[node_index]
<1>1. /\ phase = "generate" /\ stack = <<>> /\ node_index <= Len(ast_nodes)
      /\ EnterVisit(<<>>, "code", n) /\ node_index' = node_index
      /\ generated' = generated \cup {n}
      /\ regenerated' = IF n \in generated THEN regenerated \cup {n} ELSE regenerated
      /\ program' = program /\ ast_nodes' = ast_nodes /\ phase' = phase
      /\ instantiated' = instantiated /\ normalized' = normalized
      /\ failed' = failed /\ shifts' = shifts /\ behind' = behind
  BY DEF GenerateNext, MoreToGenerate, loop, history
<1>2. /\ program \in Programs /\ instantiated \subseteq Node /\ ast_nodes \in Seq(instantiated)
      /\ node_index \in Nat \ {0} /\ Len(ast_nodes) \in Nat /\ IsInjective(ast_nodes)
  BY LenProperties DEF IInv, TypeInv
<1>3. node_index \in 1 .. Len(ast_nodes) /\ (node_index - 1) + 1 = node_index
  BY <1>1, <1>2
<1>4. n \in instantiated /\ n \in Elements(ast_nodes)
  BY <1>2, <1>3, ElementOfSeq, InjectiveSeq
<1>5. \A i, j \in 1 .. Len(ast_nodes) : ast_nodes[i] = ast_nodes[j] => i = j
  BY <1>2, InjectiveSeq
<1>6. Cut(node_index - 1)
  BY <1>1 DEF IInv, PlaceInv
<1>7. n \notin generated
  <2>1. node_index \in (node_index - 1) + 1 .. Len(ast_nodes)
    BY <1>2, <1>3
  <2> QED BY <1>6, <2>1 DEF Cut
<1>8. Cut(node_index)'
  <2>1. \A i \in 1 .. node_index : ast_nodes[i] \in generated' \cup behind
    <3> TAKE i \in 1 .. node_index
    <3>1. CASE i = node_index
      BY <1>1, <3>1
    <3>2. CASE i # node_index
      <4>1. i \in 1 .. node_index - 1
        BY <1>2, <3>2
      <4> QED BY <1>1, <1>6, <4>1 DEF Cut
    <3> QED BY <3>1, <3>2
  <2>2. \A i \in node_index + 1 .. Len(ast_nodes) : ast_nodes[i] \notin generated'
    <3> TAKE i \in node_index + 1 .. Len(ast_nodes)
    <3>1. /\ i \in (node_index - 1) + 1 .. Len(ast_nodes)
          /\ i \in 1 .. Len(ast_nodes) /\ i # node_index
      BY <1>2
    <3>2. ast_nodes[i] \notin generated
      BY <1>6, <3>1 DEF Cut
    <3>3. ast_nodes[i] # n
      BY <1>3, <1>5, <3>1
    <3> QED BY <1>1, <3>2, <3>3
  <2> QED BY <1>1, <2>1, <2>2 DEF Cut
<1>9. /\ stack' \in Seq(Frames(instantiated)) /\ stack' # <<>> /\ Len(stack') = 1
      /\ stack'[1].kind = "code" /\ stack'[1].node = n /\ begun' = begun \cup {<<"code", n>>}
  BY <1>1, <1>2, <1>4, OneVisit
<1>10. VisitAt(node_index)'
  BY <1>1, <1>8, <1>9 DEF VisitAt
<1> HIDE DEF n
<1>11. begun' \subseteq {"sema", "code"} \X Node
  BY <1>2, <1>4, <1>9 DEF IInv, TypeInv
<1>12. TypeInv'
  BY <1>1, <1>2, <1>4, <1>7, <1>9, <1>11 DEF IInv, TypeInv, Elements
<1>13. node_index' \in node_index' .. Len(ast_nodes')
  BY <1>1, <1>3
<1>14. StackInv' /\ PlaceInv'
  BY <1>1, <1>9, <1>10, <1>13 DEF StackInv, PlaceInv
<1> QED BY <1>1, <1>12, <1>14 DEF IInv

-------------------------------------------------------------------------------
\* The visited node is found where it is, however far insertions have moved it.
LEMMA AfterVisit ==
  ASSUME IInv, phase = "generate", stack # <<>>
  PROVE  /\ After(stack[1].node) \in Nat \ {0}
         /\ After(stack[1].node) <= Len(ast_nodes) + 1
         /\ \A i \in 1 .. After(stack[1].node) - 1 : ast_nodes[i] \in generated \cup behind
         /\ \A i \in After(stack[1].node) .. Len(ast_nodes) : ast_nodes[i] \notin generated
<1> DEFINE n == stack[1].node
           at == {i \in node_index .. Len(ast_nodes) : ast_nodes[i] = n}
           first == CHOOSE i \in at : \A j \in at : i <= j
<1>1. PICK p \in node_index .. Len(ast_nodes) : VisitAt(p)
  BY DEF IInv, PlaceInv
<1>2. /\ node_index \in Nat \ {0} /\ Len(ast_nodes) \in Nat
      /\ \A i, j \in 1 .. Len(ast_nodes) : ast_nodes[i] = ast_nodes[j] => i = j
  BY LenProperties, InjectiveSeq DEF IInv, TypeInv
<1>3. p \in 1 .. Len(ast_nodes) /\ ast_nodes[p] = n
  BY <1>1, <1>2 DEF VisitAt
<1>4. at = {p}
  <2>1. p \in at
    BY <1>1, <1>3
  <2>2. \A i \in at : i = p
    <3> TAKE i \in at
    <3>1. i \in 1 .. Len(ast_nodes) /\ ast_nodes[i] = ast_nodes[p]
      BY <1>2, <1>3
    <3> QED BY <1>2, <1>3, <3>1
  <2> HIDE DEF at
  <2> QED BY <2>1, <2>2
<1>5. After(n) = IF at = {} THEN node_index + 1 ELSE first + 1
  BY DEF After
<1> HIDE DEF at
<1>6. first = p
  BY <1>3, <1>4
<1> HIDE DEF first, n
<1>7. After(n) = p + 1
  BY <1>4, <1>5, <1>6
<1>8. p + 1 \in Nat \ {0} /\ p + 1 <= Len(ast_nodes) + 1 /\ (p + 1) - 1 = p
  BY <1>2, <1>3
<1> QED BY <1>1, <1>7, <1>8 DEF VisitAt, Cut, n

\* The cursor moves past the visited node, after its visit or after an exception.
LEMMA CursorMoves ==
  ASSUME IInv, phase = "generate", stack # <<>>, node_index' = After(stack[1].node),
         stack' = <<>>, failed' \in BOOLEAN,
         UNCHANGED <<program, ast_nodes, phase, instantiated, begun, normalized, emitted, shifts, behind>>
  PROVE  IInv'
<1>1. /\ program' = program /\ ast_nodes' = ast_nodes /\ phase' = phase
      /\ instantiated' = instantiated /\ begun' = begun /\ normalized' = normalized
      /\ generated' = generated /\ regenerated' = regenerated
      /\ shifts' = shifts /\ behind' = behind
  BY DEF emitted
<1>2. /\ node_index' \in Nat \ {0} /\ node_index' <= Len(ast_nodes) + 1
      /\ \A i \in 1 .. node_index' - 1 : ast_nodes[i] \in generated \cup behind
      /\ \A i \in node_index' .. Len(ast_nodes) : ast_nodes[i] \notin generated
  BY AfterVisit
<1>3. stack' \in Seq(Frames(instantiated)) /\ Len(stack') = 0
  BY EmptySeq
<1>4. (node_index' - 1) + 1 = node_index'
  BY <1>2
<1>5. Cut(node_index - 1)'
  BY <1>1, <1>2, <1>4 DEF Cut
<1>6. TypeInv'
  BY <1>1, <1>2, <1>3 DEF IInv, TypeInv, Elements
<1>7. StackInv' /\ PlaceInv'
  BY <1>1, <1>3, <1>5 DEF StackInv, PlaceInv
<1> QED BY <1>1, <1>6, <1>7 DEF IInv

\* The bottom visit is the innermost one when it ends, and the cursor moves past its node.
LEMMA NodeGeneratedStep ==
  ASSUME IInv, NodeGenerated
  PROVE  IInv'
<1>1. /\ stack # <<>> /\ Top.kind = "code" /\ node_index' = After(Top.node) /\ stack' = <<>>
      /\ failed' = failed
      /\ UNCHANGED <<program, ast_nodes, phase, instantiated, begun, normalized, emitted, shifts, behind>>
  BY DEF NodeGenerated, Finished, history
<1>2. stack \in Seq(Frames(instantiated)) /\ StackInv /\ failed \in BOOLEAN
  BY DEF IInv, TypeInv
<1>3. Len(stack) \in Nat \ {0} /\ Top = stack[Len(stack)]
  BY <1>1, <1>2, TopFacts
<1>4. Len(stack) = 1
  <2>1. Len(stack) \notin 2 .. Len(stack)
    BY <1>1, <1>2, <1>3 DEF StackInv
  <2> QED BY <1>3, <2>1
<1>5. Top = stack[1]
  BY <1>3, <1>4
<1>6. phase = "generate"
  BY <1>1, <1>2, <1>5 DEF StackInv
<1> QED BY <1>1, <1>2, <1>5, <1>6, CursorMoves

\* An exception drops every frame; code generation then moves past the bottom visit's node.
LEMMA ThrowStep ==
  ASSUME IInv, Throw
  PROVE  IInv'
<1>1. /\ stack # <<>> /\ stack' = <<>>
      /\ UNCHANGED <<program, ast_nodes, instantiated, begun, normalized, emitted, shifts, behind>>
  BY DEF Throw
<1>2. CASE phase = "normalize" /\ phase' = "aborted" /\ UNCHANGED <<node_index, failed>>
  <2>1. /\ program' = program /\ ast_nodes' = ast_nodes /\ node_index' = node_index
        /\ instantiated' = instantiated /\ begun' = begun /\ normalized' = normalized
        /\ generated' = generated /\ regenerated' = regenerated
        /\ failed' = failed /\ shifts' = shifts /\ behind' = behind
    BY <1>1, <1>2 DEF emitted
  <2>2. stack' \in Seq(Frames(instantiated)) /\ Len(stack') = 0
    BY <1>1, EmptySeq
  <2>3. TypeInv'
    BY <1>2, <2>1, <2>2 DEF IInv, TypeInv, Elements
  <2>4. StackInv' /\ PlaceInv'
    BY <1>1, <1>2, <2>2 DEF StackInv, PlaceInv
  <2> QED BY <2>1, <2>3, <2>4 DEF IInv
<1>3. CASE /\ phase = "generate" /\ node_index' = After(stack[1].node)
           /\ failed' = (failed \/ stack[1].node \notin Probe) /\ UNCHANGED phase
  <2>1. failed' \in BOOLEAN
    BY <1>3 DEF IInv, TypeInv
  <2> QED BY <1>1, <1>3, <2>1, CursorMoves
<1> QED BY <1>2, <1>3 DEF Throw

\* When the cursor has passed the list, it has passed every node.
LEMMA EndOfListStep ==
  ASSUME IInv, EndOfList
  PROVE  IInv'
<1>1. /\ phase = "generate" /\ stack = <<>> /\ stack' = stack /\ ~(node_index <= Len(ast_nodes))
      /\ phase' = "done" /\ node_index' = node_index
      /\ program' = program /\ ast_nodes' = ast_nodes
      /\ instantiated' = instantiated /\ normalized' = normalized /\ begun' = begun
      /\ generated' = generated /\ regenerated' = regenerated
      /\ failed' = failed /\ shifts' = shifts /\ behind' = behind
  BY DEF EndOfList, MoreToGenerate, emitted, history
<1>2. Len(ast_nodes) \in Nat /\ node_index \in Nat /\ node_index <= Len(ast_nodes) + 1
  BY LenProperties DEF IInv, TypeInv
<1>3. node_index - 1 = Len(ast_nodes)
  BY <1>1, <1>2
<1>4. Cut(Len(ast_nodes))
  BY <1>1, <1>3 DEF IInv, PlaceInv
<1>5. Cut(Len(ast_nodes))' /\ Len(stack) = 0
  BY <1>1, <1>4 DEF Cut
<1>6. TypeInv'
  BY <1>1 DEF IInv, TypeInv, Elements
<1>7. StackInv' /\ PlaceInv'
  BY <1>1, <1>5 DEF StackInv, PlaceInv
<1> QED BY <1>1, <1>6, <1>7 DEF IInv

\* The parser leaves a list without repetitions and nothing generated.
LEMMA Initially ==
  ASSUME Init
  PROVE  IInv
<1>1. program.list \in Seq(Node) /\ IsInjective(program.list)
  BY ProgramAssumption, OnceAssumption DEF Init
<1>2. /\ Len(program.list) \in Nat /\ Elements(program.list) \subseteq Node
      /\ Elements(program.list) = {program.list[i] : i \in 1 .. Len(program.list)}
  BY <1>1, LenProperties, InjectiveSeq
<1>3. program.list \in Seq(Elements(program.list))
  <2>1. \A i \in 1 .. Len(program.list) : program.list[i] \in Elements(program.list)
    BY <1>2
  <2>2. SubSeq(program.list, 1, Len(program.list)) \in Seq(Elements(program.list))
    BY <1>2, <2>1, SubSeqProperties
  <2> QED BY <1>1, <2>2, SubSeqFull
<1>4. stack \in Seq(Frames(instantiated)) /\ Len(stack) = 0
  BY EmptySeq DEF Init
<1>5. TypeInv
  <2>1. /\ program \in Programs /\ ast_nodes = program.list /\ instantiated = Elements(program.list)
        /\ phase = "normalize" /\ node_index = 1 /\ begun = {} /\ normalized = {}
        /\ generated = {} /\ regenerated = {} /\ failed = FALSE /\ shifts = 0 /\ behind = {}
    BY DEF Init
  <2>2. ast_nodes \in Seq(instantiated) /\ instantiated \subseteq Node
    BY <1>2, <1>3, <2>1
  <2>3. /\ Len(program.list) <= Len(ast_nodes)
        /\ node_index \in Nat \ {0} /\ node_index <= Len(ast_nodes) + 1
    BY <1>2, <2>1
  <2> QED BY <1>4, <2>1, <2>2, <2>3 DEF TypeInv
<1>6. StackInv /\ PlaceInv
  BY <1>2, <1>4 DEF Init, StackInv, PlaceInv
<1> QED BY <1>1, <1>5, <1>6 DEF Init, IInv

\* A step that changes nothing.
LEMMA Stuttering ==
  ASSUME IInv, UNCHANGED vars
  PROVE  IInv'
<1>1. /\ program' = program /\ ast_nodes' = ast_nodes /\ phase' = phase
      /\ node_index' = node_index /\ instantiated' = instantiated /\ begun' = begun
      /\ normalized' = normalized /\ generated' = generated /\ regenerated' = regenerated
      /\ stack' = stack /\ failed' = failed /\ shifts' = shifts /\ behind' = behind
  BY DEF vars, loop, emitted, history
<1>2. TypeInv'
  BY <1>1 DEF IInv, TypeInv, Elements
<1>3. StackInv' /\ PlaceInv'
  BY <1>1 DEF IInv, StackInv, PlaceInv, VisitAt, Cut
<1> QED BY <1>1, <1>2, <1>3 DEF IInv

\* One step per action.
LEMMA Inductive ==
  ASSUME IInv, [Next]_vars
  PROVE  IInv'
<1>1. CASE InstantiateLate
  BY <1>1, InstantiateLateStep
<1>2. CASE RegisterLate
  BY <1>2, RegisterLateStep
<1>3. CASE InstantiateVariable
  BY <1>3, InstantiateVariableStep
<1>4. CASE FindVariable \/ NormalizeRoot \/ RootsNormalized \/ NodeNormalized
  BY <1>4, StackSteps
<1>5. CASE NormalizeNext
  BY <1>5, NormalizeNextStep
<1>6. CASE StartCodegen
  BY <1>6, StartCodegenStep
<1>7. CASE GenerateNext
  BY <1>7, GenerateNextStep
<1>8. CASE NodeGenerated
  BY <1>8, NodeGeneratedStep
<1>9. CASE Throw
  BY <1>9, ThrowStep
<1>10. CASE EndOfList
  BY <1>10, EndOfListStep
<1>11. CASE Stopped \/ UNCHANGED vars
  BY <1>11, Stuttering DEF Stopped
<1> QED BY <1>1, <1>2, <1>3, <1>4, <1>5, <1>6, <1>7, <1>8, <1>9, <1>10, <1>11 DEF Next

\* The list holds each node once, and the cursor separates what is generated from what is not.
LEMMA Invariant == Spec => []IInv
<1>1. Init => IInv
  BY Initially
<1>2. IInv /\ [Next]_vars => IInv'
  BY Inductive
<1> QED BY <1>1, <1>2, PTL DEF Spec

-------------------------------------------------------------------------------
(* What the initial pass misses. *)

\* Every known node is normalized or on the way there, but for the nodes the loop has
\* still to visit and those that front insertions have pushed beyond its bound.
ToVisit(n) == \E i \in node_index .. Len(program.list) + shifts : ast_nodes[i] = n

Covers(missed) ==
  /\ instantiated \subseteq normalized \cup dropped \cup UnderWay \cup missed
  /\ generated \subseteq normalized \cup dropped \cup missed

MissedInv ==
  /\ dropped \subseteq Node
  /\ phase = "normalize" =>
       /\ Len(program.list) + shifts <= Len(ast_nodes)
       /\ \A n \in instantiated : n \in normalized \cup UnderWay \/ ToVisit(n)
  /\ phase \in {"generate", "done"} =>
       \E missed \in SUBSET Node :
         IsFiniteSet(missed) /\ Cardinality(missed) <= shifts /\ Covers(missed)

\* The nodes under way on a stack.
Open(t) == UNION {Unfinished(frame) : frame \in Elements(t)}

LEMMA OpenStacks ==
  ASSUME NEW F, NEW t \in Seq(F), NEW g \in F
  PROVE  Open(Append(t, g)) = Open(t) \cup Unfinished(g) /\ Open(<<>>) = {}
<1> DEFINE u == Append(t, g)
<1>1. /\ u \in Seq(F) /\ Len(u) = Len(t) + 1 /\ Len(t) \in Nat
      /\ \A i \in 1 .. Len(t) : u[i] = t[i]
      /\ u[Len(t) + 1] = g
  BY AppendProperties
<1> HIDE DEF u
<1>2. Elements(u) = {u[i] : i \in 1 .. Len(u)} /\ Elements(t) = {t[i] : i \in 1 .. Len(t)}
  BY <1>1, InjectiveSeq
<1>3. 1 .. Len(u) = 1 .. Len(t) \cup {Len(t) + 1}
  BY <1>1
<1>4. Elements(u) = Elements(t) \cup {g}
  BY <1>1, <1>2, <1>3
<1>5. DOMAIN <<>> = {}
  BY EmptySeq
<1>6. Elements(<<>>) = {}
  BY <1>5 DEF Elements
<1> QED BY <1>4, <1>6 DEF Open, u

LEMMA OpenTop ==
  ASSUME NEW F, stack \in Seq(F), stack # <<>>
  PROVE  UnderWay = Open(Below) \cup Unfinished(Top)
<1>1. /\ Len(stack) \in Nat \ {0} /\ Top = stack[Len(stack)]
      /\ Below \in Seq(F) /\ Len(Below) = Len(stack) - 1
      /\ \A i \in 1 .. Len(stack) - 1 : Below[i] = stack[i]
  BY TopFacts
<1>2. /\ Elements(stack) = {stack[i] : i \in 1 .. Len(stack)}
      /\ Elements(Below) = {Below[i] : i \in 1 .. Len(stack) - 1}
  BY <1>1, InjectiveSeq
<1>3. 1 .. Len(stack) = 1 .. Len(stack) - 1 \cup {Len(stack)}
  BY <1>1
<1>4. Elements(stack) = Elements(Below) \cup {Top}
  BY <1>1, <1>2, <1>3
<1> QED BY <1>4 DEF UnderWay, Open

\* What a frame has under way, by its kind.
LEMMA OpenFrames ==
  ASSUME NEW I, NEW f \in Frames(I)
  PROVE  /\ f.kind = "roots" => Unfinished(f) = Elements(f.todo)
         /\ f.kind = "sema" => Unfinished(f) = {f.node}
         /\ f.kind = "code" => Unfinished(f) = {}
         /\ Unfinished(f) \subseteq I
<1>1. CASE f \in [kind : {"roots"}, late : Seq(I), todo : Seq(I)]
  <2>1. f.kind = "roots" /\ f.todo \in Seq(I)
    BY <1>1
  <2>2. Elements(f.todo) \subseteq I
    BY <2>1, InjectiveSeq
  <2> QED BY <2>1, <2>2 DEF Unfinished
<1>2. CASE f \in [kind : {"sema", "code"}, node : I, todo : Seq(Batches)]
  BY <1>2 DEF Unfinished
<1> QED BY <1>1, <1>2 DEF Frames

LEMMA OpenTyped ==
  ASSUME IInv
  PROVE  UnderWay \subseteq Node
<1>1. stack \in Seq(Frames(instantiated)) /\ instantiated \subseteq Node
  BY DEF IInv, TypeInv
<1>2. Elements(stack) \subseteq Frames(instantiated)
  BY <1>1, InjectiveSeq
<1> QED BY <1>1, <1>2, OpenFrames DEF UnderWay

-------------------------------------------------------------------------------
\* A step of the stack normalizes what it takes off, and its requests are under way.
LEMMA StillCovered ==
  ASSUME IInv, MissedInv, phase' = phase, program' = program, node_index' = node_index,
         shifts' = shifts, dropped' = dropped, generated' = generated,
         normalized \subseteq normalized',
         instantiated' \subseteq instantiated \cup normalized' \cup UnderWay',
         UnderWay \subseteq normalized' \cup UnderWay',
         Len(ast_nodes') \in Nat, Len(ast_nodes) <= Len(ast_nodes'),
         \A i \in 1 .. Len(ast_nodes) : ast_nodes'[i] = ast_nodes[i]
  PROVE  MissedInv'
<1>1. /\ node_index \in Nat \ {0} /\ Len(ast_nodes) \in Nat /\ shifts \in Nat /\ Len(program.list) \in Nat
  <2>1. program.list \in Seq(Node)
    BY ProgramAssumption DEF IInv, TypeInv
  <2> QED BY <2>1, LenProperties DEF IInv, TypeInv
<1>2. ASSUME phase = "normalize"
      PROVE  /\ Len(program.list) + shifts <= Len(ast_nodes')
             /\ \A n \in instantiated' : n \in normalized' \cup UnderWay' \/ ToVisit(n)'
  <2>1. /\ Len(program.list) + shifts <= Len(ast_nodes)
        /\ \A n \in instantiated : n \in normalized \cup UnderWay \/ ToVisit(n)
    BY <1>2 DEF MissedInv
  <2>2. node_index .. Len(program.list) + shifts \subseteq 1 .. Len(ast_nodes)
    BY <1>1, <2>1
  <2>3. \A n \in instantiated : ToVisit(n) => ToVisit(n)'
    BY <2>2 DEF ToVisit
  <2> QED BY <1>1, <2>1, <2>3
<1>3. ASSUME phase \in {"generate", "done"}
      PROVE  \E missed \in SUBSET Node :
               IsFiniteSet(missed) /\ Cardinality(missed) <= shifts /\ Covers(missed)'
  <2>1. PICK missed \in SUBSET Node :
          IsFiniteSet(missed) /\ Cardinality(missed) <= shifts /\ Covers(missed)
    BY <1>3 DEF MissedInv
  <2>2. Covers(missed)'
    BY <2>1 DEF Covers
  <2> QED BY <2>1, <2>2
<1> QED BY <1>2, <1>3 DEF MissedInv

\* The innermost frame is exchanged, and another one may be entered.
LEMMA Reopened ==
  ASSUME IInv, stack # <<>>, NEW f, NEW g
  PROVE  /\ UnderWay = Open(Below) \cup Unfinished(Top)
         /\ Open(Append(Below, f)) = Open(Below) \cup Unfinished(f)
         /\ Open(Append(Append(Below, f), g)) = Open(Below) \cup Unfinished(f) \cup Unfinished(g)
<1> DEFINE F == Frames(instantiated) \cup {f, g}
<1>1. stack \in Seq(Frames(instantiated))
  BY DEF IInv, TypeInv
<1>2. stack \in Seq(F) /\ f \in F /\ g \in F
  <2>1. Frames(instantiated) \subseteq F
    OBVIOUS
  <2> HIDE DEF F
  <2>2. stack \in Seq(F)
    BY <1>1, <2>1, SeqMonotonic
  <2> QED BY <2>2 DEF F
<1> HIDE DEF F
<1>3. Below \in Seq(F)
  BY <1>2, TopFacts
<1>4. Append(Below, f) \in Seq(F)
  BY <1>2, <1>3, AppendProperties
<1>5. UnderWay = Open(Below) \cup Unfinished(Top)
  BY <1>2, OpenTop
<1>6. Open(Append(Below, f)) = Open(Below) \cup Unfinished(f)
  BY <1>2, <1>3, OpenStacks
<1>7. Open(Append(Append(Below, f), g)) = Open(Append(Below, f)) \cup Unfinished(g)
  BY <1>2, <1>4, OpenStacks
<1> QED BY <1>5, <1>6, <1>7

LEMMA TopTyped ==
  ASSUME IInv, stack # <<>>
  PROVE  Top \in Frames(instantiated) /\ instantiated \subseteq Node
BY TopFacts DEF IInv, TypeInv

\* A request leaves its visit under way, and the batch is.
LEMMA OpenRequest ==
  ASSUME IInv, NextBatch, NEW b, NEW g \in {Roots(b), LateRoots(b)}
  PROVE  /\ Open(Append(Append(Below, Rest), g)) = UnderWay \cup Elements(b)
         /\ Open(Append(Below, Rest)) = UnderWay
<1>1. stack # <<>> /\ Top.kind # "roots"
  BY DEF NextBatch
<1>2. Rest \in Frames(instantiated) /\ Rest.kind = Top.kind /\ Rest.node = Top.node
  BY Request
<1>3. Top \in Frames(instantiated)
  BY <1>1, TopTyped
<1>4. Top.kind \in {"sema", "code"}
  BY <1>1, <1>3 DEF Frames
<1>5. Unfinished(Rest) = Unfinished(Top)
  BY <1>2, <1>3, <1>4, OpenFrames
<1>6. Unfinished(g) = Elements(b)
  BY DEF Roots, LateRoots, Unfinished
<1>7. /\ UnderWay = Open(Below) \cup Unfinished(Top)
      /\ Open(Append(Below, Rest)) = Open(Below) \cup Unfinished(Rest)
      /\ Open(Append(Append(Below, Rest), g)) = Open(Below) \cup Unfinished(Rest) \cup Unfinished(g)
  BY <1>1, Reopened
<1> QED BY <1>5, <1>6, <1>7

LEMMA ListTyped ==
  ASSUME IInv
  PROVE  Len(ast_nodes) \in Nat /\ Len(ast_nodes) <= Len(ast_nodes)
BY LenProperties DEF IInv, TypeInv

LEMMA LateMissed ==
  ASSUME IInv, MissedInv, InstantiateLate
  PROVE  MissedInv'
<1> DEFINE b == Head(Top.todo)
<1>1. /\ NextBatch /\ stack' = Append(Append(Below, Rest), LateRoots(b))
      /\ instantiated' = instantiated \cup Elements(b)
      /\ program' = program /\ ast_nodes' = ast_nodes /\ phase' = phase /\ node_index' = node_index
      /\ shifts' = shifts /\ dropped' = dropped /\ generated' = generated /\ normalized' = normalized
  BY DEF InstantiateLate, loop, emitted, history
<1> HIDE DEF b
<1>2. UnderWay' = UnderWay \cup Elements(b)
  <2>1. UnderWay' = Open(stack')
    BY DEF UnderWay, Open, Elements
  <2> QED BY <1>1, <2>1, OpenRequest
<1> QED BY <1>1, <1>2, ListTyped, StillCovered

LEMMA FindMissed ==
  ASSUME IInv, MissedInv, FindVariable
  PROVE  MissedInv'
<1>1. /\ NextBatch /\ stack' = Append(Below, Rest) /\ instantiated' = instantiated
      /\ program' = program /\ ast_nodes' = ast_nodes /\ phase' = phase /\ node_index' = node_index
      /\ shifts' = shifts /\ dropped' = dropped /\ generated' = generated /\ normalized' = normalized
  BY DEF FindVariable, loop, emitted, history
<1>2. UnderWay' = UnderWay
  <2>1. UnderWay' = Open(stack')
    BY DEF UnderWay, Open, Elements
  <2> QED BY <1>1, <2>1, OpenRequest
<1> QED BY <1>1, <1>2, ListTyped, StillCovered

LEMMA RegisterMissed ==
  ASSUME IInv, MissedInv, RegisterLate
  PROVE  MissedInv'
<1> DEFINE x == Head(Top.late)
           f == [Top EXCEPT !.late = Tail(@)]
<1>1. /\ stack # <<>> /\ Top.kind = "roots" /\ Top.late # <<>> /\ stack' = Append(Below, f)
      /\ ast_nodes' = IF x \in Elements(ast_nodes) THEN ast_nodes ELSE Append(ast_nodes, x)
      /\ program' = program /\ phase' = phase /\ node_index' = node_index
      /\ instantiated' = instantiated
      /\ shifts' = shifts /\ dropped' = dropped /\ generated' = generated /\ normalized' = normalized
  BY DEF RegisterLate, Registering, loop, emitted, history
<1>2. Top \in Frames(instantiated)
  BY <1>1, TopTyped
<1>3. f.kind = "roots" /\ f.todo = Top.todo
  BY <1>1, <1>2 DEF Frames
<1>4. Unfinished(f) = Unfinished(Top)
  BY <1>1, <1>3 DEF Unfinished
<1> HIDE DEF f, x
<1>5. UnderWay' = UnderWay
  <2>1. UnderWay' = Open(stack')
    BY DEF UnderWay, Open, Elements
  <2> QED BY <1>1, <1>4, <2>1, Reopened
<1>6. ast_nodes \in Seq(instantiated \cup {x}) /\ x \in instantiated \cup {x}
  <2>1. ast_nodes \in Seq(instantiated)
    BY DEF IInv, TypeInv
  <2> QED BY <2>1, SeqMonotonic
<1>7. /\ Len(ast_nodes) \in Nat /\ Len(Append(ast_nodes, x)) = Len(ast_nodes) + 1
      /\ \A i \in 1 .. Len(ast_nodes) : Append(ast_nodes, x)[i] = ast_nodes[i]
  BY <1>6, LenProperties, AppendProperties
<1>8. /\ Len(ast_nodes') \in Nat /\ Len(ast_nodes) <= Len(ast_nodes')
      /\ \A i \in 1 .. Len(ast_nodes) : ast_nodes'[i] = ast_nodes[i]
  BY <1>1, <1>7
<1> QED BY <1>1, <1>5, <1>8, StillCovered

LEMMA RootMissed ==
  ASSUME IInv, MissedInv, NormalizeRoot
  PROVE  MissedInv'
<1> DEFINE n == Head(Top.todo)
           v == Visit("sema", n)
<1>1. /\ stack # <<>> /\ Top.kind = "roots" /\ Top.todo # <<>>
      /\ stack' = Append(Append(Below, Rest), v) /\ instantiated' = instantiated
      /\ program' = program /\ ast_nodes' = ast_nodes /\ phase' = phase /\ node_index' = node_index
      /\ shifts' = shifts /\ dropped' = dropped /\ generated' = generated /\ normalized' = normalized
  BY DEF NormalizeRoot, EnterVisit, loop, emitted, history
<1>2. Top \in [kind : {"roots"}, late : Seq(instantiated), todo : Seq(instantiated)] /\ instantiated \subseteq Node
  BY <1>1, TopTyped DEF Frames
<1>3. /\ Tail(Top.todo) \in Seq(instantiated) /\ n \in instantiated
      /\ Elements(Top.todo) = Elements(Tail(Top.todo)) \cup {n}
  <2> DEFINE s == Top.todo
             u == Tail(s)
  <2>1. s \in Seq(instantiated) /\ s # <<>>
    BY <1>1, <1>2
  <2> HIDE DEF s
  <2>2. /\ Head(s) = s[1] /\ u \in Seq(instantiated) /\ Len(u) = Len(s) - 1
        /\ \A i \in 1 .. Len(u) : u[i] = s[i + 1]
    BY <2>1, HeadTailProperties
  <2>3. Len(s) \in Nat \ {0}
    BY <2>1, EmptySeq
  <2> HIDE DEF u
  <2>41. Elements(s) = {s[i] : i \in 1 .. Len(s)}
    BY <2>1, InjectiveSeq
  <2>42. Elements(u) = {u[i] : i \in 1 .. Len(u)}
    BY <2>2, InjectiveSeq
  <2>4. /\ Elements(s) = {s[i] : i \in 1 .. Len(s)} /\ Elements(u) = {u[i] : i \in 1 .. Len(s) - 1}
    BY <2>2, <2>41, <2>42
  <2>5. \A i \in 1 .. Len(s) : i = 1 \/ (i - 1 \in 1 .. Len(s) - 1 /\ u[i - 1] = s[i])
    BY <2>2, <2>3
  <2>6. \A i \in 1 .. Len(s) - 1 : i + 1 \in 1 .. Len(s) /\ u[i] = s[i + 1]
    BY <2>2, <2>3
  <2>7. 1 \in 1 .. Len(s)
    BY <2>3
  <2>8. Elements(s) = Elements(u) \cup {s[1]}
    BY <2>4, <2>5, <2>6, <2>7
  <2>9. s[1] \in instantiated
    BY <2>1, <2>7, ElementOfSeq
  <2> QED BY <2>2, <2>8, <2>9 DEF s, u
<1>4. Unfinished(Top) = Elements(Top.todo)
  BY <1>1 DEF Unfinished
<1>5. Unfinished(Rest) = Elements(Tail(Top.todo))
  <2>1. Rest.kind = "roots" /\ Rest.todo = Tail(Top.todo)
    BY <1>2 DEF Rest
  <2> QED BY <2>1 DEF Unfinished
<1>6. Unfinished(v) = {n}
  <2>1. v.kind = "sema" /\ v.node = n
    BY DEF Visit
  <2> QED BY <2>1 DEF Unfinished
<1> HIDE DEF n, v
<1>7. UnderWay' = UnderWay
  <2>1. UnderWay' = Open(stack')
    BY DEF UnderWay, Open, Elements
  <2>2. /\ UnderWay = Open(Below) \cup Unfinished(Top)
        /\ Open(Append(Append(Below, Rest), v)) = Open(Below) \cup Unfinished(Rest) \cup Unfinished(v)
    BY <1>1, Reopened
  <2> QED BY <1>1, <1>3, <1>4, <1>5, <1>6, <2>1, <2>2
<1> QED BY <1>1, <1>7, ListTyped, StillCovered

\* A visit that is through is normalized, and a batch that is through is empty.
LEMMA PopMissed ==
  ASSUME IInv, MissedInv, RootsNormalized \/ NodeNormalized
  PROVE  MissedInv'
<1>1. /\ stack # <<>> /\ Top.todo = <<>> /\ stack' = Below /\ instantiated' = instantiated
      /\ program' = program /\ ast_nodes' = ast_nodes /\ phase' = phase /\ node_index' = node_index
      /\ shifts' = shifts /\ dropped' = dropped /\ generated' = generated
      /\ \/ Top.kind = "roots" /\ normalized' = normalized
         \/ Top.kind = "sema" /\ normalized' = normalized \cup {Top.node}
  BY DEF RootsNormalized, NodeNormalized, Finished, loop, emitted, history
<1>2. Top.kind = "roots" => Unfinished(Top) = {}
  BY <1>1, EmptySeq DEF Unfinished, Elements
<1>3. Top.kind = "sema" => Unfinished(Top) = {Top.node}
  BY DEF Unfinished
<1>4. UnderWay' = Open(Below) /\ UnderWay = Open(Below) \cup Unfinished(Top)
  <2>1. UnderWay' = Open(stack')
    BY DEF UnderWay, Open, Elements
  <2> QED BY <1>1, <2>1, Reopened
<1>5. /\ normalized \subseteq normalized'
      /\ instantiated' \subseteq instantiated \cup normalized' \cup UnderWay'
      /\ UnderWay \subseteq normalized' \cup UnderWay'
  BY <1>1, <1>2, <1>3, <1>4
<1> QED BY <1>1, <1>5, ListTyped, StillCovered

\* What room is left for the list stays when as much is added on both sides.
LEMMA Widened ==
  ASSUME NEW a \in Nat, NEW c \in Nat, NEW d \in Nat, NEW k \in Nat, a + c <= d
  PROVE  a + (c + k) <= k + d
OBVIOUS

\* What was in the window keeps its place in it, m further on.
LEMMA WithinShifted ==
  ASSUME NEW a \in Nat, NEW c \in Nat, NEW d \in Nat, NEW m \in Nat, NEW k \in Nat \ {0},
         NEW i \in k .. a + c, a + c <= d
  PROVE  i \in 1 .. d /\ m + i \in k .. a + (c + m)
OBVIOUS

\* A front insertion of the initial pass pushes the bound of what is still to visit, or
\* missed, as far as the nodes.
LEMMA VariableMissed ==
  ASSUME IInv, MissedInv, InstantiateVariable
  PROVE  MissedInv'
<1> DEFINE b == Head(Top.todo)
           m == Len(b)
           J == instantiated \cup Elements(b)
<1>1. /\ NextBatch /\ stack' = Append(Append(Below, Rest), Roots(b)) /\ instantiated' = J
      /\ Elements(b) \cap instantiated = {}
      /\ ast_nodes' = b \o ast_nodes
      /\ program' = program /\ phase' = phase /\ node_index' = node_index
      /\ shifts' = IF phase = "normalize" THEN shifts + m ELSE shifts
      /\ dropped' = dropped /\ generated' = generated /\ normalized' = normalized
  BY DEF InstantiateVariable, RegisterFront, loop, emitted
<1>2. b \in Seq(Node) /\ ast_nodes \in Seq(Node) /\ IsInjective(b) /\ IsInjective(ast_nodes)
      /\ Elements(ast_nodes) \subseteq instantiated /\ instantiated \subseteq Node
  <2>1. ast_nodes \in Seq(instantiated) /\ instantiated \subseteq Node /\ IsInjective(ast_nodes)
    BY DEF IInv, TypeInv
  <2>2. b \in Seq(Node) /\ IsInjective(b)
    BY <1>1, Request
  <2> QED BY <2>1, <2>2, SeqMonotonic, InjectiveSeq
<1> HIDE DEF b
<1>3. Elements(b) \cap Elements(ast_nodes) = {}
  BY <1>1, <1>2
<1>4. /\ m \in Nat /\ Len(ast_nodes) \in Nat /\ Len(ast_nodes') = m + Len(ast_nodes)
      /\ \A i \in 1 .. Len(ast_nodes) : ast_nodes'[m + i] = ast_nodes[i]
  BY <1>1, <1>2, <1>3, Prepended, LenProperties
<1>5. UnderWay' = UnderWay \cup Elements(b)
  <2>1. UnderWay' = Open(stack')
    BY DEF UnderWay, Open, Elements
  <2> QED BY <1>1, <2>1, OpenRequest
<1> HIDE DEF m
<1>6. /\ node_index \in Nat \ {0} /\ shifts \in Nat /\ Len(program.list) \in Nat
  <2>1. program.list \in Seq(Node)
    BY ProgramAssumption DEF IInv, TypeInv
  <2> QED BY <2>1, LenProperties DEF IInv, TypeInv
<1>7. ASSUME phase = "normalize"
      PROVE  /\ Len(program'.list) + shifts' <= Len(ast_nodes')
             /\ \A n \in instantiated' : n \in normalized' \cup UnderWay' \/ ToVisit(n)'
  <2>1. /\ Len(program.list) + shifts <= Len(ast_nodes)
        /\ \A n \in instantiated : n \in normalized \cup UnderWay \/ ToVisit(n)
    BY <1>7 DEF MissedInv
  <2>2. shifts' = shifts + m /\ program' = program
    BY <1>1, <1>7
  <2>21. Len(program.list) + shifts <= Len(ast_nodes)
    BY <2>1
  <2>3. Len(program'.list) + shifts' <= Len(ast_nodes')
    <3>1. Len(program'.list) = Len(program.list) /\ Len(ast_nodes') = m + Len(ast_nodes)
      BY <1>4, <2>2
    <3>2. m \in Nat /\ Len(ast_nodes) \in Nat
      BY <1>4
    <3>3. Len(program.list) + (shifts + m) <= m + Len(ast_nodes)
      BY <1>6, <2>21, <3>2, Widened
    <3>4. shifts' = shifts + m
      BY <2>2
    <3> QED BY <3>1, <3>3, <3>4, Zenon
  <2>4. ASSUME NEW n, ToVisit(n) PROVE ToVisit(n)'
    <3>1. PICK i \in node_index .. Len(program.list) + shifts : ast_nodes[i] = n
      BY <2>4 DEF ToVisit
    <3>2. i \in 1 .. Len(ast_nodes) /\ m + i \in node_index .. Len(program.list) + (shifts + m)
      BY <1>4, <1>6, <2>21, WithinShifted
    <3>4. shifts' = shifts + m
      BY <2>2
    <3>3. ast_nodes'[m + i] = n
      BY <1>4, <3>1, <3>2
    <3> QED BY <1>1, <3>2, <3>3, <3>4 DEF ToVisit
  <2>5. \A n \in J : n \in normalized \cup UnderWay' \/ ToVisit(n)'
    BY <1>5, <2>1, <2>4
  <2> QED BY <1>1, <2>3, <2>5
<1>8. ASSUME phase \in {"generate", "done"}
      PROVE  \E missed \in SUBSET Node :
               IsFiniteSet(missed) /\ Cardinality(missed) <= shifts' /\ Covers(missed)'
  <2>1. PICK missed \in SUBSET Node :
          IsFiniteSet(missed) /\ Cardinality(missed) <= shifts /\ Covers(missed)
    BY <1>8 DEF MissedInv
  <2>2. Covers(missed)' /\ shifts' = shifts
    BY <1>1, <1>5, <1>8, <2>1 DEF Covers
  <2> QED BY <2>1, <2>2
<1> QED BY <1>1, <1>7, <1>8 DEF MissedInv

\* The visit of the next node takes it out of those still to visit.
LEMMA NormalizeMissed ==
  ASSUME IInv, MissedInv, NormalizeNext
  PROVE  MissedInv'
<1> DEFINE n == ast_nodes[node_index]
           v == Visit("sema", n)
<1>1. /\ phase = "normalize" /\ stack = <<>> /\ stack' = Append(<<>>, v)
      /\ node_index' = node_index + 1 /\ phase' = phase /\ program' = program
      /\ ast_nodes' = ast_nodes /\ instantiated' = instantiated /\ normalized' = normalized
      /\ generated' = generated /\ shifts' = shifts /\ dropped' = dropped
  BY DEF NormalizeNext, EnterVisit, emitted, history
<1>2. v.kind = "sema" /\ v.node = n
  BY DEF Visit
<1>3. Unfinished(v) = {n}
  BY <1>2 DEF Unfinished
<1> HIDE DEF v
<1>4. Open(<<>>) = {} /\ UnderWay' = {n} /\ UnderWay = {}
  <2>1. UnderWay' = Open(stack') /\ UnderWay = Open(stack)
    BY DEF UnderWay, Open, Elements
  <2>2. <<>> \in Seq({v}) /\ v \in {v}
    BY EmptySeq
  <2>3. Open(Append(<<>>, v)) = Open(<<>>) \cup Unfinished(v) /\ Open(<<>>) = {}
    BY <2>2, OpenStacks
  <2> QED BY <1>1, <1>3, <2>1, <2>3
<1> HIDE DEF n
<1>5. /\ node_index \in Nat \ {0} /\ shifts \in Nat /\ Len(program.list) \in Nat
  <2>1. program.list \in Seq(Node)
    BY ProgramAssumption DEF IInv, TypeInv
  <2> QED BY <2>1, LenProperties DEF IInv, TypeInv
<1>6. \A x : ToVisit(x) => x = n \/ ToVisit(x)'
  <2> SUFFICES ASSUME NEW x, ToVisit(x), x # n PROVE ToVisit(x)'
    OBVIOUS
  <2>1. PICK i \in node_index .. Len(program.list) + shifts : ast_nodes[i] = x
    BY DEF ToVisit
  <2>2. i # node_index
    BY <2>1 DEF n
  <2>3. i \in node_index + 1 .. Len(program.list) + shifts
    BY <1>5, <2>2
  <2> QED BY <1>1, <2>1, <2>3 DEF ToVisit
<1>7. /\ Len(program.list) + shifts <= Len(ast_nodes)
      /\ \A x \in instantiated : x \in normalized \cup UnderWay \/ ToVisit(x)
  BY <1>1 DEF MissedInv
<1>8. dropped' \subseteq Node
  BY <1>1 DEF MissedInv
<1> QED BY <1>1, <1>4, <1>6, <1>7, <1>8 DEF MissedInv

\* A window of k positions holds k of them.
LEMMA WindowSize ==
  ASSUME NEW c \in Nat, NEW k \in Nat
  PROVE  IsFiniteSet(c + 1 .. c + k) /\ Cardinality(c + 1 .. c + k) = k
<1> DEFINE x == c + 1
           y == c + k
<1>1. x \in Int /\ y \in Int /\ (IF x > y THEN 0 ELSE y - x + 1) = k
  OBVIOUS
<1> HIDE DEF x, y
<1>2. IsFiniteSet(x .. y) /\ Cardinality(x .. y) = IF x > y THEN 0 ELSE y - x + 1
  BY <1>1, FS_Interval
<1>3. IsFiniteSet(x .. y) /\ Cardinality(x .. y) = k
  BY <1>1, <1>2, Zenon
<1> QED BY <1>3 DEF x, y

\* At the end of the initial pass, what is still to visit is what shifts have pushed out.
LEMMA StartMissed ==
  ASSUME IInv, MissedInv, StartCodegen
  PROVE  MissedInv'
<1>1. /\ phase = "normalize" /\ stack = <<>> /\ stack' = stack /\ phase' = "generate"
      /\ node_index > Len(program.list)
      /\ ast_nodes' = ast_nodes /\ instantiated' = instantiated /\ normalized' = normalized
      /\ generated' = generated /\ shifts' = shifts /\ dropped' = dropped
  BY DEF StartCodegen, initial_root_count, emitted, history
<1>2. UnderWay = {} /\ UnderWay' = {}
  <2>1. UnderWay' = Open(stack') /\ UnderWay = Open(stack)
    BY DEF UnderWay, Open, Elements
  <2>2. Open(<<>>) = {}
    <3>1. <<>> \in Seq({0}) /\ 0 \in {0}
      BY EmptySeq
    <3> QED BY <3>1, OpenStacks
  <2> QED BY <1>1, <2>1, <2>2
<1>3. /\ node_index \in Nat \ {0} /\ shifts \in Nat /\ Len(program.list) \in Nat
      /\ node_index <= Len(program.list) + 1 /\ generated = {} /\ instantiated \subseteq Node
  <2>1. program.list \in Seq(Node)
    BY ProgramAssumption DEF IInv, TypeInv
  <2> QED BY <1>1, <2>1, LenProperties DEF IInv, TypeInv, PlaceInv
<1> DEFINE c == Len(program.list)
           pushed == {ast_nodes[i] : i \in c + 1 .. c + shifts}
           missed == pushed \cap Node
<1>4. IsFiniteSet(pushed) /\ Cardinality(pushed) <= shifts
  <2> DEFINE S == c + 1 .. c + shifts
  <2>1. c \in Nat /\ shifts \in Nat
    BY <1>3
  <2> HIDE DEF c
  <2>2. IsFiniteSet(S) /\ Cardinality(S) = shifts
    BY <2>1, WindowSize
  <2> HIDE DEF S
  <2>3. IsFiniteSet({ast_nodes[i] : i \in S}) /\ Cardinality({ast_nodes[i] : i \in S}) <= Cardinality(S)
    <3> DEFINE T == {ast_nodes[i] : i \in S}
               f == [i \in S |-> ast_nodes[i]]
    <3>1. f \in Surjection(S, T)
      BY DEF Surjection
    <3> HIDE DEF f, T
    <3>2. IsFiniteSet(T) /\ Cardinality(T) <= Cardinality(S)
      BY <2>2, <3>1, FS_Surjection
    <3> QED BY <3>2 DEF T
  <2> QED BY <2>2, <2>3 DEF S
<1>5. \A n \in instantiated : n \in normalized \/ n \in pushed
  <2>1. \A n \in instantiated : n \in normalized \/ ToVisit(n)
    BY <1>1, <1>2 DEF MissedInv
  <2>2. node_index = c + 1
    BY <1>1, <1>3
  <2> QED BY <2>1, <2>2 DEF ToVisit
<1> HIDE DEF pushed
<1>6. IsFiniteSet(missed) /\ Cardinality(missed) <= shifts
  <2>1. missed \subseteq pushed
    OBVIOUS
  <2> HIDE DEF missed
  <2>2. IsFiniteSet(missed) /\ Cardinality(missed) <= Cardinality(pushed)
        /\ Cardinality(missed) \in Nat /\ Cardinality(pushed) \in Nat
    BY <1>4, <2>1, FS_Subset, FS_CardinalityType
  <2> QED BY <1>3, <1>4, <2>2
<1>7. missed \in SUBSET Node /\ instantiated \subseteq normalized \cup missed
  BY <1>3, <1>5
<1> HIDE DEF missed
<1>8. PICK lost \in SUBSET Node : lost = missed
  BY <1>7
<1>9. Covers(lost)'
  BY <1>1, <1>3, <1>7, <1>8 DEF Covers
<1>10. dropped' \subseteq Node
  BY <1>1 DEF MissedInv
<1> QED BY <1>1, <1>6, <1>8, <1>9, <1>10 DEF MissedInv

\* Code generation enters nodes only between visits, when nothing is under way.
LEMMA GenerateMissed ==
  ASSUME IInv, MissedInv, GenerateNext
  PROVE  MissedInv'
<1> DEFINE n == ast_nodes[node_index]
<1>1. /\ phase = "generate" /\ stack = <<>> /\ node_index <= Len(ast_nodes)
      /\ phase' = phase /\ instantiated' = instantiated /\ normalized' = normalized
      /\ generated' = generated \cup {n} /\ shifts' = shifts /\ dropped' = dropped
  BY DEF GenerateNext, MoreToGenerate, loop, history
<1>2. n \in instantiated
  <2>1. ast_nodes \in Seq(instantiated) /\ node_index \in Nat \ {0} /\ Len(ast_nodes) \in Nat
    BY LenProperties DEF IInv, TypeInv
  <2>2. node_index \in 1 .. Len(ast_nodes)
    BY <1>1, <2>1
  <2> QED BY <2>1, <2>2, ElementOfSeq
<1> HIDE DEF n
<1>3. UnderWay = {}
  <2>1. <<>> \in Seq({0}) /\ 0 \in {0}
    BY EmptySeq
  <2>2. Open(<<>>) = {}
    BY <2>1, OpenStacks
  <2> QED BY <1>1, <2>2 DEF UnderWay, Open
<1>4. PICK missed \in SUBSET Node :
        IsFiniteSet(missed) /\ Cardinality(missed) <= shifts /\ Covers(missed)
  BY <1>1 DEF MissedInv
<1>5. Covers(missed)'
  BY <1>1, <1>2, <1>3, <1>4 DEF Covers
<1>6. dropped' \subseteq Node
  BY <1>1 DEF MissedInv
<1> QED BY <1>1, <1>4, <1>5, <1>6 DEF MissedInv

\* The end of a visit of code generation, an exception in one, and the end of the list.
LEMMA CodeMissed ==
  ASSUME IInv, MissedInv, NodeGenerated \/ Throw \/ EndOfList
  PROVE  MissedInv'
<1>1. /\ instantiated' = instantiated /\ normalized' = normalized /\ generated' = generated /\ shifts' = shifts
      /\ phase' = "aborted" \/ (phase = "generate" /\ phase' \in {"generate", "done"})
      /\ dropped' \subseteq dropped \cup UnderWay
      /\ dropped' = dropped \cup UnderWay \/ (dropped' = dropped /\ UnderWay \subseteq UnderWay')
  <2>1. CASE NodeGenerated
    <3>1. /\ stack # <<>> /\ Top.kind = "code" /\ dropped' = dropped /\ phase' = phase
          /\ instantiated' = instantiated /\ normalized' = normalized /\ generated' = generated /\ shifts' = shifts
      BY <2>1 DEF NodeGenerated, Finished, emitted, history
    <3>2. stack \in Seq(Frames(instantiated)) /\ StackInv
      BY DEF IInv, TypeInv
    <3>3. Len(stack) \in Nat \ {0} /\ Top = stack[Len(stack)] /\ Below \in Seq(Frames(instantiated))
          /\ Len(Below) = Len(stack) - 1
      BY <3>1, <3>2, TopFacts
    <3>4. Len(stack) = 1
      <4>1. Len(stack) \notin 2 .. Len(stack)
        BY <3>1, <3>2, <3>3 DEF StackInv
      <4> QED BY <3>3, <4>1
    <3>5. Below = <<>>
      <4>1. Len(Below) = 0
        BY <3>3, <3>4
      <4> QED BY <3>3, <4>1, EmptySeq
    <3>6. Open(<<>>) = {} /\ UnderWay = Open(Below) \cup Unfinished(Top)
      <4>1. <<>> \in Seq({0}) /\ 0 \in {0}
        BY EmptySeq
      <4>2. Open(<<>>) = {}
        BY <4>1, OpenStacks
      <4>3. UnderWay = Open(Below) \cup Unfinished(Top)
        BY <3>1, <3>2, OpenTop
      <4> QED BY <4>2, <4>3
    <3>7. Unfinished(Top) = {}
      BY <3>1 DEF Unfinished
    <3>8. phase = "generate"
      BY <3>1, <3>2, <3>3, <3>4 DEF StackInv
    <3> QED BY <3>1, <3>5, <3>6, <3>7, <3>8
  <2>2. CASE Throw
    BY <2>2 DEF Throw, emitted
  <2>3. CASE EndOfList
    <3>1. UnderWay' = UnderWay
      BY <2>3 DEF EndOfList, UnderWay, Elements
    <3> QED BY <2>3, <3>1 DEF EndOfList, emitted, history
  <2> QED BY <2>1, <2>2, <2>3
<1>2. dropped' \subseteq Node
  BY <1>1, OpenTyped DEF MissedInv
<1>3. CASE phase' = "aborted"
  BY <1>2, <1>3 DEF MissedInv
<1>4. CASE phase = "generate" /\ phase' \in {"generate", "done"}
  <2>1. PICK missed \in SUBSET Node :
          IsFiniteSet(missed) /\ Cardinality(missed) <= shifts /\ Covers(missed)
    BY <1>4 DEF MissedInv
  <2>2. Covers(missed)'
    BY <1>1, <2>1 DEF Covers
  <2> QED BY <1>1, <1>2, <1>4, <2>1, <2>2 DEF MissedInv
<1> QED BY <1>1, <1>3, <1>4

LEMMA MissedInitially ==
  ASSUME Init
  PROVE  MissedInv
<1>1. /\ ast_nodes = program.list /\ instantiated = Elements(program.list) /\ node_index = 1
      /\ phase = "normalize" /\ shifts = 0 /\ dropped = {}
  BY DEF Init
<1>2. program.list \in Seq(Node)
  BY ProgramAssumption DEF Init
<1>3. Len(program.list) \in Nat /\ Elements(program.list) = {program.list[i] : i \in 1 .. Len(program.list)}
  BY <1>2, LenProperties, InjectiveSeq
<1>4. Len(program.list) + shifts = Len(ast_nodes)
  BY <1>1, <1>3
<1>5. \A n \in instantiated : ToVisit(n)
  BY <1>1, <1>3, <1>4 DEF ToVisit
<1>6. Len(program.list) + shifts <= Len(ast_nodes)
  BY <1>1, <1>3, <1>4
<1> QED BY <1>1, <1>5, <1>6 DEF MissedInv

LEMMA MissedInductive ==
  ASSUME IInv, MissedInv, [Next]_vars
  PROVE  MissedInv'
<1>1. CASE Stopped \/ UNCHANGED vars
  <2>1. /\ program' = program /\ ast_nodes' = ast_nodes /\ phase' = phase
        /\ node_index' = node_index /\ instantiated' = instantiated
        /\ normalized' = normalized /\ generated' = generated
        /\ stack' = stack /\ shifts' = shifts /\ dropped' = dropped
    BY <1>1 DEF Stopped, vars, loop, emitted, history
  <2>2. UnderWay' = UnderWay
    BY <2>1 DEF UnderWay, Elements
  <2> QED BY <2>1, <2>2, ListTyped, StillCovered
<1> QED BY <1>1, LateMissed, FindMissed, RegisterMissed, RootMissed, PopMissed, VariableMissed,
           NormalizeMissed, StartMissed, GenerateMissed, CodeMissed DEF Next

LEMMA MissedInvariant == Spec => [](IInv /\ MissedInv)
<1>1. Init => IInv /\ MissedInv
  BY Initially, MissedInitially
<1>2. IInv /\ MissedInv /\ [Next]_vars => IInv' /\ MissedInv'
  BY Inductive, MissedInductive
<1> QED BY <1>1, <1>2, PTL DEF Spec

-------------------------------------------------------------------------------
\* The list, the cursor of the loop under way and the stack of visits stay well typed
\* whatever is instantiated under them: the cursor never leaves the list.
THEOREM TypeCorrect == Spec => []TypeOK
<1>1. IInv /\ MissedInv => TypeOK
  <2> SUFFICES ASSUME IInv, MissedInv PROVE TypeOK
    OBVIOUS
  <2>1. /\ ast_nodes \in Seq(instantiated) /\ instantiated \subseteq Node
        /\ stack \in Seq(Frames(instantiated)) /\ regenerated = {} /\ StackInv
        /\ node_index \in Nat \ {0} /\ node_index <= Len(ast_nodes) + 1
    BY DEF IInv, TypeInv
  <2>2. ast_nodes \in Seq(Node) /\ Elements(ast_nodes) \subseteq instantiated
    BY <2>1, SeqMonotonic, InjectiveSeq
  <2>3. /\ DOMAIN stack = 1 .. Len(stack) /\ Len(stack) \in Nat /\ Len(ast_nodes) \in Nat
    BY <2>1, LenProperties
  <2>4. \A i \in DOMAIN stack : /\ stack[i].kind \in {"roots", "sema", "code"}
                                /\ stack[i].kind = "code" => i = 1
    <3> TAKE i \in DOMAIN stack
    <3>1. stack[i] \in Frames(instantiated)
      BY <2>1, <2>3, ElementOfSeq
    <3>2. i # 1 => i \in 2 .. Len(stack)
      BY <2>3
    <3>3. stack[i].kind \in {"roots", "sema", "code"}
      BY <3>1 DEF Frames
    <3> QED BY <2>1, <3>2, <3>3 DEF StackInv
  <2>5. node_index \in 1 .. Len(ast_nodes) + 1
    BY <2>1, <2>3
  <2> QED BY <2>1, <2>2, <2>4, <2>5 DEF IInv, TypeInv, MissedInv, TypeOK
<1> QED BY <1>1, MissedInvariant, PTL

\* Code generation takes no node twice (the loop over ast_nodes in FlashCppMain.cpp),
\* however often the list is shifted under its cursor.
THEOREM OnceGenerated == Spec => []GeneratedOnce
<1>1. IInv => GeneratedOnce
  BY DEF IInv, TypeInv, GeneratedOnce
<1> QED BY <1>1, Invariant, PTL

\* When the loop ends, the only listed nodes without code are variables that were
\* inserted behind its cursor.
THEOREM NothingSkipped == Spec => []NoNodeSkipped
<1>1. IInv => NoNodeSkipped
  <2> SUFFICES ASSUME IInv, phase = "done" PROVE Elements(ast_nodes) \ behind \subseteq generated
    BY DEF NoNodeSkipped, Written
  <2>1. Elements(ast_nodes) = {ast_nodes[i] : i \in 1 .. Len(ast_nodes)}
    BY InjectiveSeq DEF IInv, TypeInv
  <2>2. \A i \in 1 .. Len(ast_nodes) : ast_nodes[i] \in generated \cup behind
    BY DEF IInv, PlaceInv, Cut
  <2> QED BY <2>1, <2>2
<1> QED BY <1>1, Invariant, PTL

\* Of the nodes that get code without having been normalized, all but as many as were
\* inserted at the front of the list during the initial pass are nodes whose normalization
\* an exception cut short (PostParseSemanticNormalizer::run, drained batches and the loop of
\* FlashCppMain.cpp together).
THEOREM OnlyShiftedMissed == Spec => []OnlyShiftedRootsAreMissed
<1>1. IInv /\ MissedInv => OnlyShiftedRootsAreMissed
  <2> SUFFICES ASSUME IInv, MissedInv, phase \in {"generate", "done"}
               PROVE  Cardinality((generated \ normalized) \ dropped) <= shifts
    BY DEF OnlyShiftedRootsAreMissed
  <2>1. PICK missed \in SUBSET Node :
          IsFiniteSet(missed) /\ Cardinality(missed) <= shifts /\ Covers(missed)
    BY DEF MissedInv
  <2> DEFINE T == (generated \ normalized) \ dropped
  <2>2. T \in SUBSET missed
    BY <2>1 DEF Covers
  <2> HIDE DEF T
  <2>3. IsFiniteSet(T) /\ Cardinality(T) <= Cardinality(missed)
    BY <2>1, <2>2, FS_Subset
  <2>4. Cardinality(T) \in Nat /\ Cardinality(missed) \in Nat /\ shifts \in Nat
    BY <2>1, <2>3, FS_CardinalityType DEF IInv, TypeInv
  <2>5. Cardinality(T) <= shifts
    BY <2>1, <2>3, <2>4
  <2> QED BY <2>5 DEF T
<1> QED BY <1>1, MissedInvariant, PTL

===============================================================================

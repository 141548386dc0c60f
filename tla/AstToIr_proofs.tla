----------------------------- MODULE AstToIr_proofs -----------------------------
(***************************************************************************)
(* Proofs about the translation of the tree to IR.                          *)
(*                                                                          *)
(* Deferred emission, for every program, with any functions, calls and      *)
(* definitions, recursive ones included: the queues stay well typed,        *)
(* nothing a generated body calls is missing from the object, and what is   *)
(* collected in time is generated.                                          *)
(*                                                                          *)
(* Statements and scopes, for every nesting of statements: the visitor's    *)
(* stacks are those of the open statements, prescanLabels counts the scopes *)
(* the visitor opens, and break and continue jump where they are meant to;  *)
(* and when the code runs, what is alive is what is in scope.               *)
(***************************************************************************)
EXTENDS DeferredEmission, ScopeCleanup, SequenceTheorems, FiniteSetTheorems,
        WellFoundedInduction, TLAPS

InlineFunction == {f \in Function : Kind[f] = "inline"}
MemberFunction == {f \in Function : Kind[f] = "member"}
LocalMember == {f \in Function : Kind[f] = "local"}
Lambda == {f \in Function : Kind[f] \in {"lambda", "generic"}}

\* What a loop that has done n entries of a queue has still in front of it.
Ahead(q, n) == {q[i] : i \in n + 1 .. Len(q)}
NodesAhead == Ahead(program.nodes, node_index - 1)
InlinesAhead == Ahead(inline_emission_worklist, inline_processed)
MembersAhead == Ahead(deferred_member_functions, members_processed)

\* What a generated body calls has been requested, and a request is met already or
\* will be by one of the loops.
CallsInv ==
  \A f \in generated :
    /\ Called(f, {"inline"}) \subseteq needed_inline_function_nodes
    /\ Called(f, {"member"}) \subseteq generated \cup MembersAhead

RequestsInv ==
  /\ needed_inline_function_nodes \subseteq generated \cup InlinesAhead \cup NodesAhead
  /\ Elements(inline_emission_worklist) \subseteq needed_inline_function_nodes
  /\ deferred_member_function_nodes \subseteq generated \cup MembersAhead

\* An inline function the first loop went by was generated or put aside.
VisitedInv ==
  \A i \in 1 .. node_index - 1 :
    Kind[program.nodes[i]] = "inline" =>
      program.nodes[i] \in generated \cup deferred_inline_function_nodes

\* The order of the loops.
PhaseInv ==
  /\ phase # "nodes" => node_index > Len(program.nodes)
  /\ phase = "done" => ~MembersPending /\ ~InlinesPending
  /\ phase \in {"nodes", "lambdas", "scan"} => local_at = 1

\* The plain lambdas behind the current pass are generated, those of the pass down to
\* its cursor, and all when the lambda loop ends.
Plain(l) == Kind[l] = "lambda"
LambdaInv ==
  /\ \A i \in 1 .. processed_count : Plain(collected_lambdas[i]) => collected_lambdas[i] \in generated
  /\ phase = "lambdas" =>
       \A i \in pass_at + 1 .. pass_size : Plain(collected_lambdas[i]) => collected_lambdas[i] \in generated
  /\ phase = "locals" /\ local_at = 1 => processed_count >= Len(collected_lambdas)

LocalInv ==
  phase = "locals" /\ ~VectorGrew =>
    \A i \in 1 .. local_at - 1 : collected_local_struct_members[i] \in generated

IInv ==
  /\ program \in Programs /\ TypeOK
  /\ CallsInv /\ RequestsInv /\ VisitedInv /\ PhaseInv /\ LambdaInv /\ LocalInv

-------------------------------------------------------------------------------

\* Induction: every set that holds 0 and is closed under successors holds every number.
LEMMA NaturalInduction ==
  ASSUME NEW S, 0 \in S, \A n \in Nat : n \in S => n + 1 \in S
  PROVE  \A n \in Nat : n \in S
<1> SUFFICES ASSUME Nat \ S # {} PROVE FALSE
  OBVIOUS
<1> DEFINE T == Nat \ S
<1>1. PICK x \in T : \A y \in T : ~(<<y, x>> \in OpToRel(<, Nat))
  BY NatLessThanWellFounded, WFMin
<1>2. \A y \in T : ~(y < x)
  BY <1>1 DEF OpToRel
<1>3. x \in T
  OBVIOUS
<1> HIDE <1>1
<1>4. x \in Nat /\ x # 0 /\ x - 1 \in Nat /\ x - 1 < x /\ (x - 1) + 1 = x
  BY <1>3
<1>5. x - 1 \in S
  BY <1>2, <1>4
<1> QED BY <1>3, <1>4, <1>5

\* The elements of a sequence, by its length.
LEMMA ElementsOfSeq ==
  ASSUME NEW T, NEW s \in Seq(T)
  PROVE  Elements(s) = {s[i] : i \in 1 .. Len(s)} /\ Elements(s) \subseteq T
BY LenProperties, ElementOfSeq DEF Elements

\* r is q with more entries behind it, and these are New(q, r).
Grows(q, r, T) == r \in Seq(T) /\ Len(q) <= Len(r) /\ \A i \in 1 .. Len(q) : r[i] = q[i]
New(q, r) == {r[i] : i \in Len(q) + 1 .. Len(r)}

\* A queue that is appended to.
LEMMA ConcatGrows ==
  ASSUME NEW T, NEW q \in Seq(T), NEW a \in Seq(T)
  PROVE  /\ Grows(q, q \o a, T) /\ New(q, q \o a) = Elements(a)
         /\ Elements(q \o a) = Elements(q) \cup Elements(a)
<1> DEFINE r == q \o a
           m == Len(q)
           n == Len(a)
<1>1. m \in Nat /\ n \in Nat
  BY LenProperties
<1>2. r \in Seq(T) /\ Len(r) = m + n /\ \A i \in 1 .. m + n : r[i] = IF i <= m THEN q[i] ELSE a[i - m]
  BY ConcatProperties
<1> HIDE DEF r
<1>3. Grows(q, r, T)
  BY <1>1, <1>2 DEF Grows
<1>4. \A i \in m + 1 .. m + n : i - m \in 1 .. n /\ r[i] = a[i - m]
  BY <1>1, <1>2
<1>5. \A j \in 1 .. n : j + m \in m + 1 .. m + n /\ (j + m) - m = j /\ r[j + m] = a[j]
  BY <1>1, <1>2
<1>6. Elements(a) = {a[j] : j \in 1 .. n} /\ Elements(q) = {q[i] : i \in 1 .. m}
      /\ Elements(r) = {r[i] : i \in 1 .. m + n}
  BY <1>2, ElementsOfSeq
<1>7. New(q, r) = {r[i] : i \in m + 1 .. m + n}
  BY <1>2 DEF New
<1> HIDE DEF m, n
<1>8. New(q, r) = Elements(a)
  BY <1>4, <1>5, <1>6, <1>7
<1>9. Elements(r) = Elements(q) \cup New(q, r)
  <2>1. 1 .. m + n = (1 .. m) \cup (m + 1 .. m + n) /\ \A i \in 1 .. m : r[i] = q[i]
    BY <1>1, <1>2
  <2> QED BY <1>6, <1>7, <2>1
<1> QED BY <1>3, <1>8, <1>9 DEF r

\* What Concat returns: its recursion is over the number of sequences.
LEMMA ConcatFacts ==
  ASSUME NEW T, NEW ss \in Seq(Seq(T))
  PROVE  /\ Concat(ss) \in Seq(T)
         /\ Elements(Concat(ss)) = UNION {Elements(ss[i]) : i \in 1 .. Len(ss)}
<1> DEFINE L == Len(ss)
           step(g, n) == IF n = 0 THEN <<>> ELSE g[n - 1] \o ss[n]
           upto == CHOOSE g : g = [n \in 0 .. L |-> step(g, n)]
           Joins(k, t) == t \in Seq(T) /\ Elements(t) = UNION {Elements(ss[i]) : i \in 1 .. k}
<1>1. L \in Nat /\ \A i \in 1 .. L : ss[i] \in Seq(T)
  BY LenProperties, ElementOfSeq
<1>2. Concat(ss) = upto[L]
  BY DEF Concat
<1> HIDE DEF L
<1>3. \E g : g = [n \in 0 .. L |-> step(g, n)]
  <2> DEFINE Partial(k, g) == g = [n \in 0 .. k |-> step(g, n)]
             S == {k \in Nat : k <= L => \E g : Partial(k, g)}
  <2>1. 0 \in S
    <3>1. Partial(0, [n \in 0 .. 0 |-> <<>>])
      OBVIOUS
    <3> QED BY <3>1
  <2>2. ASSUME NEW k \in Nat, k \in S PROVE k + 1 \in S
    <3> SUFFICES ASSUME k + 1 <= L PROVE \E g : Partial(k + 1, g)
      <4> HIDE DEF Partial
      <4> QED OBVIOUS
    <3>1. PICK g : Partial(k, g)
      <4> HIDE DEF Partial
      <4> QED BY <1>1, <2>2
    <3> DEFINE h == [n \in 0 .. k + 1 |-> IF n <= k THEN g[n] ELSE step(g, k + 1)]
    <3>2. \A n \in 0 .. k : h[n] = g[n] /\ step(h, n) = step(g, n)
      OBVIOUS
    <3>3. h[k + 1] = step(h, k + 1)
      OBVIOUS
    <3>4. \A n \in 0 .. k + 1 : n \in 0 .. k \/ n = k + 1
      OBVIOUS
    <3>5. Partial(k + 1, h)
      <4>1. \A n \in 0 .. k : g[n] = step(g, n)
        <5> HIDE DEF step
        <5> QED BY <3>1
      <4>2. \A n \in 0 .. k + 1 : h[n] = step(h, n)
        <5> HIDE DEF step
        <5> QED BY <4>1, <3>2, <3>3, <3>4
      <4>3. h = [n \in 0 .. k + 1 |-> h[n]]
        BY DEF h
      <4> HIDE DEF step
      <4> QED BY <4>2, <4>3
    <3> QED BY <3>5
  <2> HIDE DEF S
  <2>3. L \in S
    BY <2>1, <2>2, <1>1, NaturalInduction
  <2>4. PICK g : Partial(L, g)
    <3> HIDE DEF Partial
    <3> QED BY <2>3, <1>1 DEF S
  <2> QED BY <2>4
<1>4. upto = [n \in 0 .. L |-> step(upto, n)]
  BY <1>3
<1> HIDE DEF upto
<1>5. \A n \in 0 .. L : upto[n] = step(upto, n)
  <2> HIDE DEF step
  <2> QED BY <1>4
<1> DEFINE S == {k \in Nat : k <= L => Joins(k, upto[k])}
<1>6. 0 \in S
  <2>1. upto[0] = <<>>
    BY <1>1, <1>5
  <2>2. Joins(0, upto[0])
    BY <2>1 DEF Elements
  <2> HIDE DEF Joins
  <2> QED BY <2>2
<1>7. ASSUME NEW k \in Nat, k \in S PROVE k + 1 \in S
  <2> SUFFICES ASSUME k + 1 <= L PROVE Joins(k + 1, upto[k + 1])
    <3> HIDE DEF Joins
    <3> QED OBVIOUS
  <2>1. Joins(k, upto[k]) /\ k + 1 \in 0 .. L /\ k + 1 # 0 /\ (k + 1) - 1 = k /\ k + 1 \in 1 .. L
    <3> HIDE DEF Joins
    <3> QED BY <1>1, <1>7
  <2>2. upto[k + 1] = upto[k] \o ss[k + 1]
    BY <1>5, <2>1
  <2>3. ss[k + 1] \in Seq(T) /\ upto[k] \in Seq(T)
    BY <1>1, <2>1
  <2>4. /\ upto[k + 1] \in Seq(T)
        /\ Elements(upto[k + 1]) = Elements(upto[k]) \cup Elements(ss[k + 1])
    BY <2>2, <2>3, ConcatGrows DEF Grows
  <2>5. 1 .. k + 1 = (1 .. k) \cup {k + 1}
    OBVIOUS
  <2> DEFINE before == 1 .. k
  <2>6. UNION {Elements(ss[i]) : i \in before \cup {k + 1}}
          = (UNION {Elements(ss[i]) : i \in before}) \cup Elements(ss[k + 1])
    <3> HIDE DEF before
    <3>1. {Elements(ss[i]) : i \in before \cup {k + 1}}
            = {Elements(ss[i]) : i \in before} \cup {Elements(ss[k + 1])}
      OBVIOUS
    <3> DEFINE A == {Elements(ss[i]) : i \in before}
               B == {Elements(ss[i]) : i \in before \cup {k + 1}}
    <3>2. B = A \cup {Elements(ss[k + 1])}
      BY <3>1
    <3> HIDE DEF A, B
    <3>3. UNION B = (UNION A) \cup Elements(ss[k + 1])
      BY <3>2, Zenon
    <3> QED BY <3>3 DEF A, B
  <2> QED BY <2>1, <2>4, <2>5, <2>6
<1> HIDE DEF S
<1>8. L \in S
  BY <1>1, <1>6, <1>7, NaturalInduction
<1>9. Joins(L, upto[L])
  <2> HIDE DEF Joins
  <2> QED BY <1>1, <1>8 DEF S
<1> QED BY <1>2, <1>9 DEF L

\* An entry that is appended is in front of the loop; an entry that is done is not.
LEMMA AheadGrows ==
  ASSUME NEW T, NEW q \in Seq(T), NEW r, Grows(q, r, T), NEW n \in 0 .. Len(q)
  PROVE  Ahead(r, n) = Ahead(q, n) \cup New(q, r)
<1>1. Len(q) \in Nat /\ Len(r) \in Nat /\ Len(q) <= Len(r) /\ \A i \in 1 .. Len(q) : r[i] = q[i]
  BY LenProperties DEF Grows
<1>2. n + 1 .. Len(r) = (n + 1 .. Len(q)) \cup (Len(q) + 1 .. Len(r))
  BY <1>1
<1>3. \A i \in n + 1 .. Len(q) : r[i] = q[i]
  BY <1>1
<1> QED BY <1>2, <1>3 DEF Ahead, New

LEMMA AheadStep ==
  ASSUME NEW T, NEW q \in Seq(T), NEW n \in 0 .. Len(q), n < Len(q)
  PROVE  /\ q[n + 1] \in T /\ n + 1 \in 0 .. Len(q)
         /\ Ahead(q, n) = Ahead(q, n + 1) \cup {q[n + 1]}
<1>1. Len(q) \in Nat
  BY LenProperties
<1>2. n + 1 \in 1 .. Len(q) /\ n + 1 .. Len(q) = (n + 2 .. Len(q)) \cup {n + 1} /\ (n + 1) + 1 = n + 2
  BY <1>1
<1>3. q[n + 1] \in T
  BY <1>2, ElementOfSeq
<1> QED BY <1>2, <1>3 DEF Ahead

\* Nothing is in front of a loop that is through.
LEMMA NothingAhead ==
  ASSUME NEW T, NEW q \in Seq(T), NEW n \in Nat, ~(n < Len(q))
  PROVE  Ahead(q, n) = {}
<1>1. Len(q) \in Nat
  BY LenProperties
<1>2. n + 1 .. Len(q) = {}
  BY <1>1
<1> QED BY <1>2 DEF Ahead

\* A queue that stays is one that grows by nothing.
LEMMA GrowsNot == ASSUME NEW T, NEW q \in Seq(T) PROVE Grows(q, q, T) /\ New(q, q) = {}
<1>1. Len(q) \in Nat
  BY LenProperties
<1>2. Len(q) + 1 .. Len(q) = {}
  BY <1>1
<1> QED BY <1>1, <1>2 DEF Grows, New

-------------------------------------------------------------------------------
\* The uses in a body.
LEMMA UsesTyped ==
  ASSUME program \in Programs, NEW f \in Function
  PROVE  /\ UsesIn(f) \in Seq(Use)
         /\ Elements(UsesIn(f)) \subseteq Use
         /\ \A u \in Elements(UsesIn(f)) :
              /\ u.kind = "callStatic" => Kind[u.target] = "member"
              /\ u.kind = "call" /\ Kind[u.target] = "inline" => u.target \in Elements(program.nodes)
<1>1. UsesIn(f) \in Seq(Use)
  BY ProgramAssumption DEF UsesIn
<1>2. \A i \in DOMAIN UsesIn(f) :
        /\ UsesIn(f)[i].kind = "callStatic" => Kind[UsesIn(f)[i].target] = "member"
        /\ UsesIn(f)[i].kind = "call" /\ Kind[UsesIn(f)[i].target] = "inline" =>
             UsesIn(f)[i].target \in Elements(program.nodes)
  BY CallAssumption DEF UsesIn
<1> DEFINE s == UsesIn(f)
<1>3. \A u \in Elements(s) : \E i \in DOMAIN s : u = s[i]
  BY DEF Elements
<1> QED BY <1>1, <1>2, <1>3, ElementsOfSeq

\* What the uses in a body append, when b says what each kind of use appends.
LEMMA AppendedBy ==
  ASSUME program \in Programs, NEW f \in Function, NEW T, NEW b \in [Use -> Seq(T)],
         NEW q, q = Concat([i \in DOMAIN UsesIn(f) |-> b[UsesIn(f)[i]]])
  PROVE  /\ q \in Seq(T)
         /\ \A x : x \in Elements(q) <=> \E u \in Elements(UsesIn(f)) : x \in Elements(b[u])
<1> DEFINE s == UsesIn(f)
           ss == [i \in 1 .. Len(s) |-> b[s[i]]]
<1>1. s \in Seq(Use) /\ Len(s) \in Nat /\ DOMAIN s = 1 .. Len(s) /\ \A i \in 1 .. Len(s) : s[i] \in Use
  BY UsesTyped, LenProperties, ElementOfSeq
<1>2. q = Concat(ss)
  BY <1>1
<1> HIDE DEF s
<1>3. ss \in Seq(Seq(T)) /\ Len(ss) = Len(s)
  <2>1. \A i \in 1 .. Len(s) : b[s[i]] \in Seq(T)
    BY <1>1
  <2> QED BY <1>1, <2>1
<1>4. q \in Seq(T) /\ Elements(q) = UNION {Elements(ss[i]) : i \in 1 .. Len(s)}
  BY <1>2, <1>3, ConcatFacts
<1>5. \A i \in 1 .. Len(s) : ss[i] = b[s[i]]
  OBVIOUS
<1> HIDE DEF ss
<1>6. \A x : x \in Elements(q) <=> \E i \in 1 .. Len(s) : x \in Elements(ss[i])
  BY <1>4
<1>7. \A u : u \in Elements(s) <=> \E i \in 1 .. Len(s) : u = s[i]
  BY <1>1 DEF Elements
<1>8. \A x : x \in Elements(q) <=> \E u \in Elements(s) : x \in Elements(b[u])
  <2> TAKE x
  <2>1. ASSUME x \in Elements(q) PROVE \E u \in Elements(s) : x \in Elements(b[u])
    <3>1. PICK i \in 1 .. Len(s) : x \in Elements(ss[i])
      BY <1>6, <2>1
    <3>2. s[i] \in Elements(s) /\ x \in Elements(b[s[i]])
      BY <1>5, <1>7, <3>1
    <3> QED BY <3>2
  <2>2. ASSUME NEW u \in Elements(s), x \in Elements(b[u]) PROVE x \in Elements(q)
    <3>1. PICK i \in 1 .. Len(s) : u = s[i]
      BY <1>7
    <3>2. x \in Elements(ss[i])
      BY <1>5, <2>2, <3>1
    <3> QED BY <1>6, <3>2
  <2> QED BY <2>1, <2>2
<1> QED BY <1>4, <1>8 DEF s

\* A queue of one entry, or of none.
LEMMA OneOrNone ==
  ASSUME NEW T, NEW x, NEW c \in BOOLEAN, c => x \in T, NEW q, q = IF c THEN <<x>> ELSE <<>>
  PROVE  q \in Seq(T) /\ \A y : y \in Elements(q) <=> c /\ y = x
<1>1. CASE c
  <2>1. q = <<x>> /\ q \in Seq(T) /\ Len(q) = 1 /\ q[1] = x
    BY <1>1
  <2>2. Elements(q) = {x}
    <3>1. Elements(q) = {q[i] : i \in 1 .. Len(q)}
      BY <2>1, ElementsOfSeq
    <3>2. \A i : i \in 1 .. Len(q) <=> i = 1
      BY <2>1
    <3> QED BY <2>1, <3>1, <3>2
  <2> QED BY <1>1, <2>1, <2>2
<1>2. CASE ~c
  <2>1. q = <<>> /\ q \in Seq(T) /\ Elements(q) = {}
    BY <1>2 DEF Elements
  <2> QED BY <1>2, <2>1
<1> QED BY <1>1, <1>2

\* The members of a struct.
LEMMA StructMembers ==
  ASSUME NEW f \in Function, Kind[f] \in {"member", "local"}
  PROVE  /\ Members[Owner[f]] \in Seq({g \in Function : Kind[g] = Kind[f]})
         /\ f \in Elements(Members[Owner[f]])
BY MembersAssumption

\* The inline functions that are requested for the first time after they were put aside
\* are appended to the worklist.
LEMMA RequestInlinesFacts ==
  ASSUME program \in Programs, TypeOK, NEW f \in Function, RequestInlines(f)
  PROVE  /\ Grows(inline_emission_worklist, inline_emission_worklist', Function)
         /\ New(inline_emission_worklist, inline_emission_worklist') =
              Targets(f, {"call"}, {"inline"})
                \cap (deferred_inline_function_nodes \ needed_inline_function_nodes)
         /\ Elements(inline_emission_worklist') =
              Elements(inline_emission_worklist)
                \cup New(inline_emission_worklist, inline_emission_worklist')
<1> DEFINE w == inline_emission_worklist
           wanted == deferred_inline_function_nodes \ needed_inline_function_nodes
           listed(u) == IF u.kind = "call" /\ u.target \in wanted THEN <<u.target>> ELSE <<>>
           b == [u \in Use |-> listed(u)]
           q == Concat([i \in DOMAIN UsesIn(f) |-> listed(UsesIn(f)[i])])
<1>1. w \in Seq(Function) /\ wanted \subseteq InlineFunction
  BY DEF TypeOK, InlineFunction
<1>2. w' = w \o q
  BY DEF RequestInlines, Appended
<1> HIDE DEF w, wanted
<1>3. ASSUME NEW u \in Use
      PROVE  listed(u) \in Seq(Function)
             /\ \A y : y \in Elements(listed(u)) <=> u.kind = "call" /\ u.target \in wanted /\ y = u.target
  <2>1. u.target \in Function
    BY DEF Use
  <2> QED BY <2>1, OneOrNone
<1>4. b \in [Use -> Seq(Function)] /\ \A u \in Use : b[u] = listed(u)
  <2> HIDE DEF listed
  <2> QED BY <1>3
<1>5. q = Concat([i \in DOMAIN UsesIn(f) |-> b[UsesIn(f)[i]]])
  <2>1. \A i \in DOMAIN UsesIn(f) : UsesIn(f)[i] \in Use
    BY UsesTyped, LenProperties, ElementOfSeq
  <2> HIDE DEF listed, b
  <2>2. \A i \in DOMAIN UsesIn(f) : b[UsesIn(f)[i]] = listed(UsesIn(f)[i])
    BY <1>4, <2>1
  <2>3. [i \in DOMAIN UsesIn(f) |-> listed(UsesIn(f)[i])] = [i \in DOMAIN UsesIn(f) |-> b[UsesIn(f)[i]]]
    BY <2>2
  <2> QED BY <2>3
<1> HIDE DEF q, b, listed
<1>6. q \in Seq(Function) /\ \A x : x \in Elements(q) <=> \E u \in Elements(UsesIn(f)) : x \in Elements(b[u])
  BY <1>4, <1>5, AppendedBy
<1>7. Elements(q) = Targets(f, {"call"}, {"inline"}) \cap wanted
  <2>1. \A x : x \in Elements(q) <=>
          \E u \in Elements(UsesIn(f)) : u.kind = "call" /\ u.target \in wanted /\ x = u.target
    <3>1. Elements(UsesIn(f)) \subseteq Use
      BY UsesTyped
    <3>2. \A u \in Elements(UsesIn(f)) : \A y : y \in Elements(b[u]) <=>
            u.kind = "call" /\ u.target \in wanted /\ y = u.target
      BY <1>3, <1>4, <3>1
    <3> QED BY <1>6, <3>2
  <2>2. \A x : x \in Targets(f, {"call"}, {"inline"}) <=>
          \E u \in Elements(UsesIn(f)) : u.kind = "call" /\ Kind[u.target] = "inline" /\ x = u.target
    BY DEF Targets
  <2>3. \A x \in wanted : Kind[x] = "inline"
    BY <1>1 DEF InlineFunction
  <2>4. \A x : x \in Elements(q) <=> x \in Targets(f, {"call"}, {"inline"}) /\ x \in wanted
    BY <2>1, <2>2, <2>3
  <2> QED BY <2>4
<1> QED BY <1>1, <1>2, <1>6, <1>7, ConcatGrows DEF w, wanted

\* Every member a body calls has been queued before or is appended to the queue.
LEMMA QueueMembersFacts ==
  ASSUME program \in Programs, TypeOK, NEW f \in Function, QueueMembers(f)
  PROVE  /\ Grows(deferred_member_functions, deferred_member_functions', MemberFunction)
         /\ deferred_member_function_nodes' =
              deferred_member_function_nodes \cup Targets(f, {"call"}, {"member"})
         /\ Called(f, {"member"}) \subseteq
              deferred_member_function_nodes \cup New(deferred_member_functions, deferred_member_functions')
         /\ Elements(deferred_member_functions') =
              Elements(deferred_member_functions)
                \cup New(deferred_member_functions, deferred_member_functions')
<1> DEFINE w == deferred_member_functions
           nodes == deferred_member_function_nodes
           unqueued(m) == Kind[m] = "member" /\ m \notin nodes
           queued(u) ==
             IF u.kind = "callStatic" THEN Members[Owner[u.target]]
             ELSE IF u.kind = "call" /\ unqueued(u.target) THEN <<u.target>> ELSE <<>>
           \* a static call of something else does not occur
           b == [u \in Use |-> IF u.kind = "callStatic" /\ Kind[u.target] # "member" THEN <<>> ELSE queued(u)]
           q == Concat([i \in DOMAIN UsesIn(f) |-> queued(UsesIn(f)[i])])
<1>1. w \in Seq(MemberFunction)
  BY DEF TypeOK, MemberFunction
<1>2. w' = w \o q /\ nodes' = nodes \cup Targets(f, {"call"}, {"member"})
  BY DEF QueueMembers, Appended
<1> HIDE DEF w, nodes
<1>3. ASSUME NEW u \in Use, u.kind = "callStatic" => Kind[u.target] = "member"
      PROVE  /\ queued(u) \in Seq(MemberFunction)
             /\ u.kind = "callStatic" => u.target \in Elements(queued(u))
             /\ u.kind = "call" /\ unqueued(u.target) => u.target \in Elements(queued(u))
  <2>1. u.target \in Function
    BY DEF Use
  <2>2. CASE u.kind = "callStatic"
    <3>1. /\ Members[Owner[u.target]] \in Seq({g \in Function : Kind[g] = "member"})
          /\ u.target \in Elements(Members[Owner[u.target]])
      BY <1>3, <2>1, <2>2, StructMembers
    <3> QED BY <2>2, <3>1 DEF MemberFunction
  <2>3. CASE u.kind # "callStatic"
    <3> DEFINE c == u.kind = "call" /\ unqueued(u.target)
    <3>1. c \in BOOLEAN /\ (c => u.target \in MemberFunction) /\ queued(u) = IF c THEN <<u.target>> ELSE <<>>
      BY <2>1, <2>3 DEF MemberFunction
    <3> HIDE DEF c, queued
    <3>2. queued(u) \in Seq(MemberFunction) /\ \A y : y \in Elements(queued(u)) <=> c /\ y = u.target
      BY <3>1, OneOrNone
    <3> QED BY <2>3, <3>2 DEF c
  <2> QED BY <2>2, <2>3
<1>4. b \in [Use -> Seq(MemberFunction)]
      /\ \A u \in Use : (u.kind = "callStatic" => Kind[u.target] = "member") => b[u] = queued(u)
  <2> HIDE DEF queued
  <2>1. <<>> \in Seq(MemberFunction)
    BY EmptySeq
  <2> QED BY <1>3, <2>1
<1>5. q = Concat([i \in DOMAIN UsesIn(f) |-> b[UsesIn(f)[i]]])
  <2>1. \A i \in DOMAIN UsesIn(f) : UsesIn(f)[i] \in Use /\ UsesIn(f)[i] \in Elements(UsesIn(f))
    BY UsesTyped, LenProperties, ElementOfSeq DEF Elements
  <2> HIDE DEF queued, b
  <2>2. \A i \in DOMAIN UsesIn(f) : b[UsesIn(f)[i]] = queued(UsesIn(f)[i])
    BY <1>4, <2>1, UsesTyped
  <2>3. [i \in DOMAIN UsesIn(f) |-> queued(UsesIn(f)[i])] = [i \in DOMAIN UsesIn(f) |-> b[UsesIn(f)[i]]]
    BY <2>2
  <2> QED BY <2>3
<1> HIDE DEF q, b, queued
<1>6. q \in Seq(MemberFunction) /\ \A x : x \in Elements(q) <=> \E u \in Elements(UsesIn(f)) : x \in Elements(b[u])
  BY <1>4, <1>5, AppendedBy
<1>7. Called(f, {"member"}) \subseteq nodes \cup Elements(q)
  <2> SUFFICES ASSUME NEW x \in Called(f, {"member"}), x \notin nodes PROVE x \in Elements(q)
    OBVIOUS
  <2>1. PICK u \in Elements(UsesIn(f)) :
          u.kind \in {"call", "callStatic"} /\ Kind[u.target] = "member" /\ x = u.target
    BY DEF Called, Targets
  <2>2. u \in Use
    BY UsesTyped
  <2>3. x \in Elements(queued(u))
    BY <1>3, <2>1, <2>2
  <2>4. b[u] = queued(u)
    BY <1>4, <2>1, <2>2
  <2> QED BY <1>6, <2>3, <2>4
<1> QED BY <1>1, <1>2, <1>6, <1>7, ConcatGrows DEF w, nodes

\* Lambdas are appended in the order of their definitions.
LEMMA CollectLambdasFacts ==
  ASSUME program \in Programs, TypeOK, NEW f \in Function, CollectLambdas(f)
  PROVE  /\ Grows(collected_lambdas, collected_lambdas', Lambda)
         /\ deduced' \subseteq {g \in Function : Kind[g] = "generic"}
<1> DEFINE w == collected_lambdas
           of == {"lambda", "generic"}
           listed(u) == IF Defines(u, of) THEN <<u.target>> ELSE <<>>
           b == [u \in Use |-> listed(u)]
           q == Concat([i \in DOMAIN UsesIn(f) |-> listed(UsesIn(f)[i])])
<1>1. w \in Seq(Lambda)
  BY DEF TypeOK, Lambda
<1>2. w' = w \o q
  BY DEF CollectLambdas, Appended
<1> HIDE DEF w
<1>3. \A u \in Use : listed(u) \in Seq(Lambda)
  <2>1. \A u \in Use : u.target \in Function
    BY DEF Use
  <2>2. \A u \in Use : Defines(u, of) => u.target \in Lambda
    BY <2>1 DEF Defines, Lambda
  <2>3. \A u \in Use : Defines(u, of) \in BOOLEAN
    BY DEF Defines
  <2> QED BY <2>2, <2>3, OneOrNone
<1>4. b \in [Use -> Seq(Lambda)] /\ \A u \in Use : b[u] = listed(u)
  <2> HIDE DEF listed
  <2> QED BY <1>3
<1>5. q = Concat([i \in DOMAIN UsesIn(f) |-> b[UsesIn(f)[i]]])
  <2>1. \A i \in DOMAIN UsesIn(f) : UsesIn(f)[i] \in Use
    BY UsesTyped, LenProperties, ElementOfSeq
  <2> HIDE DEF listed, b
  <2>2. [i \in DOMAIN UsesIn(f) |-> listed(UsesIn(f)[i])] = [i \in DOMAIN UsesIn(f) |-> b[UsesIn(f)[i]]]
    BY <1>4, <2>1
  <2> QED BY <2>2
<1> HIDE DEF q, b, listed
<1>6. q \in Seq(Lambda)
  BY <1>4, <1>5, AppendedBy
<1>7. Grows(w, w', Lambda)
  BY <1>1, <1>2, <1>6, ConcatGrows
<1>8. Called(f, {"generic"}) \subseteq {g \in Function : Kind[g] = "generic"}
  <2>1. \A u \in Elements(UsesIn(f)) : u.target \in Function
    BY UsesTyped DEF Use
  <2> QED BY <2>1 DEF Called, Targets
<1> QED BY <1>7, <1>8 DEF w, CollectLambdas, TypeOK

\* So are the members of local structs.
LEMMA CollectLocalStructFacts ==
  ASSUME program \in Programs, TypeOK, NEW f \in Function, CollectLocalStruct(f)
  PROVE  Grows(collected_local_struct_members, collected_local_struct_members', LocalMember)
<1> DEFINE w == collected_local_struct_members
           listed(u) == IF Defines(u, {"local"}) THEN Members[Owner[u.target]] ELSE <<>>
           b == [u \in Use |-> listed(u)]
           q == Concat([i \in DOMAIN UsesIn(f) |-> listed(UsesIn(f)[i])])
<1>1. w \in Seq(LocalMember)
  BY DEF TypeOK, LocalMember
<1>2. w' = w \o q
  BY DEF CollectLocalStruct, Appended
<1> HIDE DEF w
<1>3. ASSUME NEW u \in Use PROVE listed(u) \in Seq(LocalMember)
  <2>1. u.target \in Function
    BY DEF Use
  <2>2. CASE Defines(u, {"local"})
    <3>1. Members[Owner[u.target]] \in Seq({g \in Function : Kind[g] = "local"})
      BY <2>1, <2>2, StructMembers DEF Defines
    <3> QED BY <2>2, <3>1 DEF LocalMember
  <2>3. CASE ~Defines(u, {"local"})
    BY <2>3, EmptySeq
  <2> QED BY <2>2, <2>3
<1>4. b \in [Use -> Seq(LocalMember)] /\ \A u \in Use : b[u] = listed(u)
  <2> HIDE DEF listed
  <2> QED BY <1>3
<1>5. q = Concat([i \in DOMAIN UsesIn(f) |-> b[UsesIn(f)[i]]])
  <2>1. \A i \in DOMAIN UsesIn(f) : UsesIn(f)[i] \in Use
    BY UsesTyped, LenProperties, ElementOfSeq
  <2> HIDE DEF listed, b
  <2>2. [i \in DOMAIN UsesIn(f) |-> listed(UsesIn(f)[i])] = [i \in DOMAIN UsesIn(f) |-> b[UsesIn(f)[i]]]
    BY <1>4, <2>1
  <2> QED BY <2>2
<1> HIDE DEF q, b, listed
<1>6. q \in Seq(LocalMember)
  BY <1>4, <1>5, AppendedBy
<1> QED BY <1>1, <1>2, <1>6, ConcatGrows DEF w

-------------------------------------------------------------------------------
NewInlines == New(inline_emission_worklist, inline_emission_worklist')
NewMembers == New(deferred_member_functions, deferred_member_functions')

\* What a visit of f does to the queues: all grow at the end, and what f requests is on
\* its way.
QueuesGrow ==
  /\ Grows(inline_emission_worklist, inline_emission_worklist', Function)
  /\ Grows(deferred_member_functions, deferred_member_functions', MemberFunction)
  /\ Grows(collected_lambdas, collected_lambdas', Lambda)
  /\ Grows(collected_local_struct_members, collected_local_struct_members', LocalMember)

TypesStay ==
  /\ deferred_inline_function_nodes' \subseteq InlineFunction
  /\ needed_inline_function_nodes' \subseteq InlineFunction
  /\ deferred_member_function_nodes' \subseteq Elements(deferred_member_functions')
  /\ deduced' \subseteq {g \in Function : Kind[g] = "generic"}

NothingLost ==
  /\ generated \subseteq generated'
  /\ deferred_inline_function_nodes \subseteq deferred_inline_function_nodes'
  /\ needed_inline_function_nodes \subseteq needed_inline_function_nodes'

Requests(f) ==
  /\ Elements(inline_emission_worklist') \subseteq needed_inline_function_nodes'
  /\ needed_inline_function_nodes' \subseteq
       needed_inline_function_nodes \cup NewInlines
         \cup (Elements(program.nodes) \ deferred_inline_function_nodes)
  /\ deferred_member_function_nodes' \subseteq deferred_member_function_nodes \cup NewMembers
  /\ \A g \in generated' \ generated :
       /\ g = f
       /\ Called(g, {"inline"}) \subseteq needed_inline_function_nodes'
       /\ Called(g, {"member"}) \subseteq deferred_member_function_nodes \cup NewMembers

Effect(f) == QueuesGrow /\ TypesStay /\ NothingLost /\ Requests(f)

\* A visit generates f, or puts it aside, which is not for needed functions.
Handled(f) ==
  \/ f \in generated'
  \/ /\ PutAside(f) /\ f \in deferred_inline_function_nodes'
     /\ needed_inline_function_nodes' = needed_inline_function_nodes

\* Steps that leave the queues alone.
LEMMA NoEffect ==
  ASSUME IInv, NEW f, UNCHANGED <<generated, collected>>
  PROVE  Effect(f)
<1> USE DEF collected, inlines, members, lambdas
<1>1. QueuesGrow
  BY GrowsNot DEF IInv, TypeOK, QueuesGrow, MemberFunction, Lambda, LocalMember
<1>2. TypesStay
  BY DEF IInv, TypeOK, TypesStay, InlineFunction
<1>3. NothingLost
  BY DEF NothingLost
<1>4. Requests(f)
  BY DEF Requests, IInv, RequestsInv
<1> QED BY <1>1, <1>2, <1>3, <1>4 DEF Effect

\* Generating a body.
LEMMA GenerateEffect ==
  ASSUME IInv, NEW f \in Function, Generate(f)
  PROVE  Effect(f) /\ f \in generated'
<1>1. program \in Programs /\ TypeOK
  BY DEF IInv
<1>2. /\ RequestInlines(f) /\ QueueMembers(f) /\ CollectLambdas(f) /\ CollectLocalStruct(f)
      /\ generated' = generated \cup {f}
      /\ deferred_inline_function_nodes' = deferred_inline_function_nodes
  BY DEF Generate
<1>3. /\ Grows(inline_emission_worklist, inline_emission_worklist', Function)
      /\ NewInlines = Targets(f, {"call"}, {"inline"})
                        \cap (deferred_inline_function_nodes \ needed_inline_function_nodes)
      /\ Elements(inline_emission_worklist') = Elements(inline_emission_worklist) \cup NewInlines
  BY <1>1, <1>2, RequestInlinesFacts DEF NewInlines
<1>4. /\ Grows(deferred_member_functions, deferred_member_functions', MemberFunction)
      /\ deferred_member_function_nodes' =
           deferred_member_function_nodes \cup Targets(f, {"call"}, {"member"})
      /\ Called(f, {"member"}) \subseteq deferred_member_function_nodes \cup NewMembers
      /\ Elements(deferred_member_functions') = Elements(deferred_member_functions) \cup NewMembers
  BY <1>1, <1>2, QueueMembersFacts DEF NewMembers
<1>5. needed_inline_function_nodes' = needed_inline_function_nodes \cup Targets(f, {"call"}, {"inline"})
  BY <1>2 DEF RequestInlines
<1>6. /\ Targets(f, {"call"}, {"inline"}) \subseteq InlineFunction \cap Elements(program.nodes)
      /\ Called(f, {"inline"}) = Targets(f, {"call"}, {"inline"})
      /\ Targets(f, {"call"}, {"member"}) \subseteq Called(f, {"member"})
  <2>1. \A u \in Elements(UsesIn(f)) :
          /\ u \in Use
          /\ u.kind = "callStatic" => Kind[u.target] = "member"
          /\ u.kind = "call" /\ Kind[u.target] = "inline" => u.target \in Elements(program.nodes)
    BY <1>1, UsesTyped
  <2>2. \A u \in Elements(UsesIn(f)) : u.target \in Function
    BY <2>1 DEF Use
  <2>3. \A x \in Targets(f, {"call"}, {"inline"}) : \E u \in Elements(UsesIn(f)) :
          u.kind = "call" /\ Kind[u.target] = "inline" /\ x = u.target
    BY DEF Targets
  <2>4. Targets(f, {"call"}, {"inline"}) \subseteq InlineFunction \cap Elements(program.nodes)
    BY <2>1, <2>2, <2>3 DEF InlineFunction
  <2>5. Called(f, {"inline"}) = Targets(f, {"call"}, {"inline"})
    BY <2>1 DEF Called, Targets
  <2>6. Targets(f, {"call"}, {"member"}) \subseteq Called(f, {"member"})
    BY DEF Called, Targets
  <2> QED BY <2>4, <2>5, <2>6
<1>7. QueuesGrow
  BY <1>1, <1>2, <1>3, <1>4, CollectLambdasFacts, CollectLocalStructFacts DEF QueuesGrow
<1>8. TypesStay
  <2>1. deduced' \subseteq {g \in Function : Kind[g] = "generic"}
    BY <1>1, <1>2, CollectLambdasFacts
  <2>2. deferred_member_function_nodes' \subseteq Elements(deferred_member_functions')
    BY <1>1, <1>4, <1>6 DEF TypeOK
  <2> QED BY <1>1, <1>2, <1>5, <1>6, <2>1, <2>2 DEF TypesStay, TypeOK, InlineFunction
<1>9. NothingLost
  BY <1>2, <1>5 DEF NothingLost
<1>10. Requests(f)
  <2>1. Elements(inline_emission_worklist') \subseteq needed_inline_function_nodes'
    BY <1>3, <1>5 DEF IInv, RequestsInv
  <2>2. needed_inline_function_nodes' \subseteq
          needed_inline_function_nodes \cup NewInlines
            \cup (Elements(program.nodes) \ deferred_inline_function_nodes)
    BY <1>3, <1>5, <1>6
  <2>3. deferred_member_function_nodes' \subseteq deferred_member_function_nodes \cup NewMembers
    BY <1>4, <1>6
  <2>4. \A g \in generated' \ generated : g = f
    BY <1>2
  <2> QED BY <1>4, <1>5, <1>6, <2>1, <2>2, <2>3, <2>4 DEF Requests
<1> QED BY <1>2, <1>7, <1>8, <1>9, <1>10 DEF Effect

\* visitFunctionDeclarationNode.
LEMMA VisitEffect ==
  ASSUME IInv, NEW f \in Function, VisitFunction(f)
  PROVE  Effect(f) /\ Handled(f)
<1>1. CASE PutAside(f) /\ deferred_inline_function_nodes' = deferred_inline_function_nodes \cup {f}
           /\ UNCHANGED <<generated, needed_inline_function_nodes, inline_emission_worklist,
                          members, lambdas, collected_local_struct_members>>
  <2> USE <1>1 DEF members, lambdas
  <2>1. QueuesGrow
    BY GrowsNot DEF IInv, TypeOK, QueuesGrow, MemberFunction, Lambda, LocalMember
  <2>2. TypesStay
    BY DEF IInv, TypeOK, TypesStay, InlineFunction, PutAside
  <2>3. NothingLost
    BY DEF NothingLost
  <2>4. Requests(f)
    BY DEF Requests, IInv, RequestsInv
  <2>5. Handled(f)
    BY DEF Handled
  <2> QED BY <2>1, <2>2, <2>3, <2>4, <2>5 DEF Effect
<1>2. CASE ~PutAside(f) /\ f \notin generated /\ Generate(f)
  BY <1>2, GenerateEffect DEF Handled
<1>3. CASE ~PutAside(f) /\ f \in generated /\ UNCHANGED <<generated, collected>>
  BY <1>3, NoEffect DEF Handled
<1> QED BY <1>1, <1>2, <1>3 DEF VisitFunction

\* A visit keeps every promise, if what a loop took from its queue, R, is what is visited.
LEMMA PromisesKept ==
  ASSUME IInv, NEW f \in Function, Effect(f), program' = program,
         NEW R \in SUBSET {f}, R # {} => Handled(f),
         InlinesAhead \cup NewInlines \subseteq InlinesAhead' \cup R,
         MembersAhead \cup NewMembers \subseteq MembersAhead' \cup R,
         NodesAhead \subseteq NodesAhead' \cup R,
         \A i \in 1 .. node_index' - 1 : i \in 1 .. node_index - 1 \/ program.nodes[i] \in R
  PROVE  CallsInv' /\ RequestsInv' /\ VisitedInv'
<1> DEFINE needed == needed_inline_function_nodes
           aside == deferred_inline_function_nodes
           nodes == deferred_member_function_nodes
<1>1. /\ generated \subseteq generated' /\ aside \subseteq aside' /\ needed \subseteq needed'
      /\ Requests(f) /\ TypesStay /\ program \in Programs
  BY DEF Effect, NothingLost, IInv
<1>2. \A x \in R : x = f /\ (x \in generated' \/ (Kind[x] = "inline" /\ x \in aside' /\ x \notin needed'))
  BY DEF Handled, PutAside
<1>3. \A x \in R : x \in needed' => x \in generated'
  BY <1>2
<1>4. \A x \in R : Kind[x] = "member" => x \in generated'
  BY <1>2
<1>5. \A x \in Elements(program.nodes) :
        Kind[x] = "inline" /\ x \notin aside => x \in generated \cup NodesAhead
  <2>1. program.nodes \in Seq(Function)
    BY <1>1, ProgramAssumption
  <2>2. node_index \in 1 .. Len(program.nodes) + 1 /\ Len(program.nodes) \in Nat
    BY <2>1, LenProperties DEF IInv, TypeOK
  <2>3. Elements(program.nodes) = {program.nodes[i] : i \in 1 .. Len(program.nodes)}
    BY <2>1, ElementsOfSeq
  <2>4. \A i \in 1 .. Len(program.nodes) :
          i \in 1 .. node_index - 1 \/ i \in (node_index - 1) + 1 .. Len(program.nodes)
    BY <2>2
  <2> SUFFICES ASSUME NEW i \in 1 .. Len(program.nodes), Kind[program.nodes[i]] = "inline",
                      program.nodes[i] \notin aside
               PROVE  program.nodes[i] \in generated \cup NodesAhead
    BY <2>3
  <2>5. CASE i \in 1 .. node_index - 1
    BY <2>5 DEF IInv, VisitedInv
  <2>6. CASE i \in (node_index - 1) + 1 .. Len(program.nodes)
    BY <2>6 DEF NodesAhead, Ahead
  <2> QED BY <2>4, <2>5, <2>6
<1>6. RequestsInv'
  <2>1. needed' \subseteq generated' \cup InlinesAhead' \cup NodesAhead'
    <3> SUFFICES ASSUME NEW x \in needed' PROVE x \in generated' \cup InlinesAhead' \cup NodesAhead'
      OBVIOUS
    <3>1. Kind[x] = "inline"
      BY <1>1 DEF TypesStay, InlineFunction
    <3>2. x \in needed \/ x \in NewInlines \/ (x \in Elements(program.nodes) /\ x \notin aside)
      BY <1>1 DEF Requests
    <3>3. x \in generated \cup InlinesAhead \cup NewInlines \cup NodesAhead
      BY <1>5, <3>1, <3>2 DEF IInv, RequestsInv
    <3> QED BY <1>1, <1>3, <3>3
  <2>2. nodes' \subseteq generated' \cup MembersAhead'
    <3> SUFFICES ASSUME NEW x \in nodes' PROVE x \in generated' \cup MembersAhead'
      OBVIOUS
    <3>1. Kind[x] = "member"
      <4>1. deferred_member_functions' \in Seq(MemberFunction)
        BY DEF Effect, QueuesGrow, Grows
      <4>2. Elements(deferred_member_functions') \subseteq MemberFunction
        BY <4>1, ElementsOfSeq
      <4> QED BY <1>1, <4>2 DEF TypesStay, MemberFunction
    <3>2. x \in generated \cup MembersAhead \cup NewMembers
      BY <1>1 DEF Requests, IInv, RequestsInv
    <3> QED BY <1>1, <1>4, <3>1, <3>2
  <2> QED BY <1>1, <2>1, <2>2 DEF RequestsInv, Requests
<1>7. CallsInv'
  <2>1. \A g, of : Called(g, of)' = Called(g, of)
    BY DEF Called, Targets, UsesIn
  <2>2. \A g : \A x \in Called(g, {"member"}) : Kind[x] = "member"
    BY DEF Called, Targets
  <2> SUFFICES ASSUME NEW g \in generated'
               PROVE  /\ Called(g, {"inline"}) \subseteq needed'
                      /\ Called(g, {"member"}) \subseteq generated' \cup MembersAhead'
    BY <2>1 DEF CallsInv
  <2>3. /\ Called(g, {"inline"}) \subseteq needed'
        /\ Called(g, {"member"}) \subseteq generated \cup MembersAhead \cup NewMembers
    <3>1. CASE g \in generated
      BY <1>1, <3>1 DEF IInv, CallsInv
    <3>2. CASE g \notin generated
      BY <1>1, <3>2 DEF Requests, IInv, RequestsInv
    <3> QED BY <3>1, <3>2
  <2> QED BY <1>1, <1>4, <2>2, <2>3
<1>8. VisitedInv'
  <2> SUFFICES ASSUME NEW i \in 1 .. node_index' - 1, Kind[program.nodes[i]] = "inline"
               PROVE  program.nodes[i] \in generated' \cup aside'
    BY DEF VisitedInv
  <2>1. CASE i \in 1 .. node_index - 1
    BY <1>1, <2>1 DEF IInv, VisitedInv
  <2>2. CASE program.nodes[i] \in R
    BY <1>2, <2>2
  <2> QED BY <2>1, <2>2
<1> QED BY <1>6, <1>7, <1>8

-------------------------------------------------------------------------------
\* The part of TypeOK that is about what a visit changes.
QueueTypes ==
  /\ generated \subseteq Function
  /\ needed_inline_function_nodes \cup deferred_inline_function_nodes \subseteq InlineFunction
  /\ inline_emission_worklist \in Seq(Function)
  /\ deferred_member_functions \in Seq(MemberFunction)
  /\ deferred_member_function_nodes \subseteq Elements(deferred_member_functions)
  /\ collected_lambdas \in Seq(Lambda)
  /\ deduced \subseteq {f \in Function : Kind[f] = "generic"}
  /\ collected_local_struct_members \in Seq(LocalMember)

\* The rest: the cursors stay within the queues.
Cursors ==
  /\ phase \in {"nodes", "lambdas", "scan", "locals", "members", "inlines", "done"}
  /\ node_index \in 1 .. Len(program.nodes) + 1
  /\ inline_processed \in 0 .. Len(inline_emission_worklist)
  /\ members_processed \in 0 .. Len(deferred_member_functions)
  /\ pass_size \in 0 .. Len(collected_lambdas)
  /\ processed_count \in 0 .. pass_size
  /\ pass_at \in processed_count .. pass_size \/ phase # "lambdas"
  /\ deferred_scan_start \in 1 .. Len(collected_lambdas) + 1
  /\ scan_at \in 1 .. Len(collected_lambdas) + 1
  /\ generated_deferred_lambda \in BOOLEAN
  /\ local_end \in 0 .. Len(collected_local_struct_members)
  /\ local_at \in 1 .. local_end + 1

Lengths ==
  /\ Len(program.nodes) \in Nat /\ Len(inline_emission_worklist) \in Nat
  /\ Len(deferred_member_functions) \in Nat /\ Len(collected_lambdas) \in Nat
  /\ Len(collected_local_struct_members) \in Nat

LEMMA TypeParts == TypeOK <=> QueueTypes /\ Cursors
BY DEF TypeOK, QueueTypes, Cursors, InlineFunction, MemberFunction, Lambda, LocalMember

LEMMA LengthsTyped == ASSUME program \in Programs, QueueTypes PROVE Lengths
BY LenProperties, ProgramAssumption DEF QueueTypes, Lengths

\* A queue only grows: what was in it stays where it was.
Longer ==
  /\ Len(inline_emission_worklist) <= Len(inline_emission_worklist')
  /\ Len(deferred_member_functions) <= Len(deferred_member_functions')
  /\ Len(collected_lambdas) <= Len(collected_lambdas')
  /\ Len(collected_local_struct_members) <= Len(collected_local_struct_members')
  /\ \A i \in 1 .. Len(collected_lambdas) : collected_lambdas'[i] = collected_lambdas[i]
  /\ \A i \in 1 .. Len(collected_local_struct_members) :
       collected_local_struct_members'[i] = collected_local_struct_members[i]

LEMMA EffectTyped ==
  ASSUME IInv, NEW f \in Function, Effect(f), program' = program
  PROVE  QueueTypes' /\ Cursors /\ Lengths /\ Lengths' /\ Longer /\ generated \subseteq generated'
<1>1. TypeOK /\ program \in Programs
  BY DEF IInv
<1>2. Lengths
  BY <1>1, TypeParts, LengthsTyped
<1>3. generated' \subseteq Function
  BY <1>1 DEF Effect, Requests, TypeOK
<1>4. QueueTypes'
  BY <1>3 DEF Effect, QueuesGrow, TypesStay, Grows, QueueTypes
<1>5. Lengths'
  BY <1>1, <1>4, LenProperties, ProgramAssumption DEF QueueTypes, Lengths
<1>6. Longer
  BY DEF Effect, QueuesGrow, Grows, Longer
<1> QED BY <1>1, <1>2, <1>4, <1>5, <1>6, TypeParts DEF Effect, NothingLost

\* A cursor that was within its queue is within the longer one.
LEMMA CursorsFit ==
  ASSUME Cursors, Lengths, Lengths', Longer
  PROVE  /\ inline_processed \in 0 .. Len(inline_emission_worklist')
         /\ members_processed \in 0 .. Len(deferred_member_functions')
         /\ pass_size \in 0 .. Len(collected_lambdas')
         /\ deferred_scan_start \in 1 .. Len(collected_lambdas') + 1
         /\ scan_at \in 1 .. Len(collected_lambdas') + 1
         /\ local_end \in 0 .. Len(collected_local_struct_members')
<1>1. ASSUME NEW m \in Nat, NEW n \in Nat, m <= n
      PROVE  0 .. m \subseteq 0 .. n /\ 1 .. m + 1 \subseteq 1 .. n + 1
  BY <1>1
<1>2. /\ Len(inline_emission_worklist) <= Len(inline_emission_worklist')
      /\ Len(deferred_member_functions) <= Len(deferred_member_functions')
      /\ Len(collected_lambdas) <= Len(collected_lambdas')
      /\ Len(collected_local_struct_members) <= Len(collected_local_struct_members')
  BY DEF Longer
<1> QED BY <1>1, <1>2 DEF Cursors, Lengths

\* Steps that visit nothing.
LEMMA QueuesStay ==
  ASSUME IInv, UNCHANGED <<program, node_index, generated, collected, drained>>
  PROVE  /\ program' \in Programs /\ QueueTypes' /\ Lengths /\ Lengths' /\ QueueTypes /\ Cursors
         /\ CallsInv' /\ RequestsInv' /\ VisitedInv'
<1> USE DEF collected, inlines, members, lambdas, drained
<1>1. TypeOK /\ program \in Programs /\ CallsInv /\ RequestsInv /\ VisitedInv
  BY DEF IInv
<1>2. QueueTypes /\ Cursors /\ Lengths
  BY <1>1, TypeParts, LengthsTyped
<1>3. QueueTypes' /\ Lengths'
  BY <1>2 DEF QueueTypes, Lengths
<1>4. InlinesAhead' = InlinesAhead /\ MembersAhead' = MembersAhead /\ NodesAhead' = NodesAhead
  BY DEF InlinesAhead, MembersAhead, NodesAhead
<1>5. \A g, of : Called(g, of)' = Called(g, of)
  BY DEF Called, Targets, UsesIn
<1>6. CallsInv'
  BY <1>1, <1>4, <1>5 DEF CallsInv
<1>7. RequestsInv'
  BY <1>1, <1>4 DEF RequestsInv
<1>8. VisitedInv'
  BY <1>1 DEF VisitedInv
<1> QED BY <1>1, <1>2, <1>3, <1>6, <1>7, <1>8

\* The queues a step takes nothing from.
LEMMA NothingTaken ==
  ASSUME IInv, NEW f \in Function, Effect(f)
  PROVE  /\ inline_processed' = inline_processed => InlinesAhead' = InlinesAhead \cup NewInlines
         /\ members_processed' = members_processed => MembersAhead' = MembersAhead \cup NewMembers
         /\ node_index' = node_index /\ program' = program => NodesAhead' = NodesAhead
<1>1. inline_emission_worklist \in Seq(Function) /\ inline_processed \in 0 .. Len(inline_emission_worklist)
      /\ Grows(inline_emission_worklist, inline_emission_worklist', Function)
  BY DEF IInv, TypeOK, Effect, QueuesGrow
<1>2. deferred_member_functions \in Seq(MemberFunction)
      /\ members_processed \in 0 .. Len(deferred_member_functions)
      /\ Grows(deferred_member_functions, deferred_member_functions', MemberFunction)
  BY DEF IInv, TypeOK, Effect, QueuesGrow, MemberFunction
<1>3. Ahead(inline_emission_worklist', inline_processed) = InlinesAhead \cup NewInlines
  BY <1>1, AheadGrows DEF InlinesAhead, NewInlines
<1>4. Ahead(deferred_member_functions', members_processed) = MembersAhead \cup NewMembers
  BY <1>2, AheadGrows DEF MembersAhead, NewMembers
<1> QED BY <1>3, <1>4 DEF InlinesAhead, MembersAhead, NodesAhead

-------------------------------------------------------------------------------
(* One lemma for each action. *)

LEMMA VisitNodeKeeps == ASSUME IInv, VisitNode PROVE IInv'
<1> DEFINE f == program.nodes[node_index]
<1>1. /\ program \in Programs /\ program' = program /\ phase = "nodes" /\ phase' = "nodes"
      /\ node_index <= Len(program.nodes) /\ node_index' = node_index + 1 /\ VisitFunction(f)
      /\ UNCHANGED <<drained, pass, scan, locals>>
  BY DEF VisitNode, IInv
<1>2. program.nodes \in Seq(Function) /\ Len(program.nodes) \in Nat
      /\ node_index \in 1 .. Len(program.nodes)
  <2>1. program.nodes \in Seq(Function)
    BY <1>1, ProgramAssumption
  <2> QED BY <1>1, <2>1, LenProperties DEF IInv, TypeOK
<1>3. f \in Function /\ NodesAhead = NodesAhead' \cup {f}
  <2>1. /\ node_index - 1 \in 0 .. Len(program.nodes) /\ node_index - 1 < Len(program.nodes)
        /\ (node_index - 1) + 1 = node_index /\ node_index' - 1 = node_index
    BY <1>1, <1>2
  <2> QED BY <1>1, <1>2, <2>1, AheadStep DEF NodesAhead
<1> HIDE DEF f
<1>4. Effect(f) /\ Handled(f)
  BY <1>1, <1>3, VisitEffect
<1>5. QueueTypes' /\ Cursors /\ Lengths /\ Lengths' /\ Longer /\ generated \subseteq generated'
  BY <1>1, <1>3, <1>4, EffectTyped
<1>6. CallsInv' /\ RequestsInv' /\ VisitedInv'
  <2>1. \A i \in 1 .. node_index' - 1 : i \in 1 .. node_index - 1 \/ program.nodes[i] \in {f}
    <3>1. \A i \in 1 .. node_index' - 1 : i \in 1 .. node_index - 1 \/ i = node_index
      BY <1>1, <1>2
    <3> QED BY <3>1 DEF f
  <2>2. InlinesAhead' = InlinesAhead \cup NewInlines /\ MembersAhead' = MembersAhead \cup NewMembers
    BY <1>1, <1>3, <1>4, NothingTaken DEF drained
  <2> DEFINE R == {f}
  <2>3. R \in SUBSET {f} /\ (R # {} => Handled(f)) /\ NodesAhead \subseteq NodesAhead' \cup R
    BY <1>3, <1>4
  <2>4. /\ InlinesAhead \cup NewInlines \subseteq InlinesAhead' \cup R
        /\ MembersAhead \cup NewMembers \subseteq MembersAhead' \cup R
        /\ \A i \in 1 .. node_index' - 1 : i \in 1 .. node_index - 1 \/ program.nodes[i] \in R
    BY <2>1, <2>2
  <2> HIDE DEF R
  <2> QED BY <1>1, <1>3, <1>4, <2>3, <2>4, PromisesKept
<1>7. Cursors'
  <2>1. node_index' \in 1 .. Len(program'.nodes) + 1
    BY <1>1, <1>2
  <2> QED BY <1>1, <1>5, <2>1, CursorsFit DEF Cursors, drained, pass, scan, locals
<1>8. PhaseInv'
  BY <1>1 DEF IInv, PhaseInv, locals
<1>9. LambdaInv'
  <2>1. \A i \in 1 .. processed_count : i \in 1 .. Len(collected_lambdas)
    BY <1>5 DEF IInv, TypeOK, Lengths
  <2> QED BY <1>1, <1>5, <2>1 DEF IInv, LambdaInv, Longer, pass, Plain
<1>10. LocalInv'
  BY <1>1 DEF LocalInv
<1>11. TypeOK'
  BY <1>5, <1>7, TypeParts DEF TypeOK, QueueTypes, Cursors, InlineFunction, MemberFunction, Lambda, LocalMember
<1> QED BY <1>1, <1>6, <1>8, <1>9, <1>10, <1>11 DEF IInv

\* The loops over lambdas take nothing from the other queues.
LEMMA LambdaVisitKeeps ==
  ASSUME IInv, NEW f \in Function, Effect(f), UNCHANGED <<program, node_index, drained>>
  PROVE  CallsInv' /\ RequestsInv' /\ VisitedInv'
<1> DEFINE R == {}
<1>1. /\ InlinesAhead' = InlinesAhead \cup NewInlines /\ MembersAhead' = MembersAhead \cup NewMembers
      /\ NodesAhead' = NodesAhead
  BY NothingTaken DEF drained
<1>2. R \in SUBSET {f} /\ (R # {} => Handled(f)) /\ NodesAhead \subseteq NodesAhead' \cup R
  BY <1>1
<1>3. /\ InlinesAhead \cup NewInlines \subseteq InlinesAhead' \cup R
      /\ MembersAhead \cup NewMembers \subseteq MembersAhead' \cup R
      /\ \A i \in 1 .. node_index' - 1 : i \in 1 .. node_index - 1 \/ program.nodes[i] \in R
  BY <1>1
<1> HIDE DEF R
<1> QED BY <1>2, <1>3, PromisesKept

LEMMA PassStepKeeps == ASSUME IInv, PassStep PROVE IInv'
<1> DEFINE l == collected_lambdas[pass_at]
<1>1. /\ program \in Programs /\ phase = "lambdas" /\ phase' = "lambdas" /\ pass_at > processed_count
      /\ pass_at' = pass_at - 1 /\ Cursors /\ TypeOK /\ LambdaInv
      /\ UNCHANGED <<program, node_index, drained, processed_count, pass_size, scan, locals>>
      /\ \/ Deduced(l) /\ l \notin generated /\ Generate(l)
         \/ ~(Deduced(l) /\ l \notin generated) /\ UNCHANGED <<generated, collected>>
  BY TypeParts DEF PassStep, IInv
<1>2. l \in Lambda
  <2>1. collected_lambdas \in Seq(Lambda) /\ Len(collected_lambdas) \in Nat
    BY <1>1, LenProperties DEF TypeOK, Lambda
  <2>2. /\ phase = "lambdas" /\ pass_size \in 0 .. Len(collected_lambdas)
        /\ processed_count \in 0 .. pass_size
        /\ pass_at \in processed_count .. pass_size \/ phase # "lambdas"
    BY <1>1 DEF Cursors
  <2>3. pass_at > processed_count
    BY <1>1
  <2>4. pass_at \in 1 .. Len(collected_lambdas)
    BY <2>1, <2>2, <2>3
  <2> QED BY <2>1, <2>4, ElementOfSeq
<1>3. l \in Function /\ Kind[l] \in {"lambda", "generic"}
  BY <1>2 DEF Lambda
<1> HIDE DEF l
<1>4. Effect(l) /\ (Plain(l) => l \in generated')
  BY <1>1, <1>3, GenerateEffect, NoEffect DEF Deduced, Plain
<1>5. QueueTypes' /\ Lengths /\ Lengths' /\ Longer /\ generated \subseteq generated'
  BY <1>1, <1>3, <1>4, EffectTyped
<1>6. CallsInv' /\ RequestsInv' /\ VisitedInv'
  BY <1>1, <1>3, <1>4, LambdaVisitKeeps
<1>7. /\ pass_at \in processed_count .. pass_size /\ processed_count \in 0 .. pass_size
       /\ pass_size \in 0 .. Len(collected_lambdas)
  BY <1>1 DEF Cursors
<1>8. Len(collected_lambdas) \in Nat
  BY <1>5 DEF Lengths
<1>9. Cursors'
  <2>1. pass_at' \in processed_count .. pass_size
    BY <1>1, <1>7
  <2> QED BY <1>1, <1>5, <2>1, CursorsFit DEF Cursors, drained, scan, locals
<1>10. PhaseInv' /\ LocalInv'
  BY <1>1 DEF IInv, PhaseInv, LocalInv, locals
<1>11. LambdaInv'
  <2>1. /\ \A i \in 1 .. processed_count : i \in 1 .. Len(collected_lambdas)
        /\ \A i \in pass_at .. pass_size : i \in 1 .. Len(collected_lambdas) /\ (i = pass_at \/ i \in pass_at + 1 .. pass_size)
        /\ pass_at' + 1 = pass_at
    BY <1>1, <1>7, <1>8
  <2>2. \A i \in 1 .. processed_count' : Plain(collected_lambdas'[i]) => collected_lambdas'[i] \in generated'
    BY <1>1, <1>5, <2>1 DEF LambdaInv, Longer
  <2>3. \A i \in pass_at .. pass_size : Plain(collected_lambdas'[i]) => collected_lambdas'[i] \in generated'
    <3> TAKE i \in pass_at .. pass_size
    <3>1. collected_lambdas'[i] = collected_lambdas[i]
      BY <1>5, <2>1 DEF Longer
    <3>2. CASE i = pass_at
      BY <1>4, <3>1, <3>2 DEF l
    <3>3. CASE i \in pass_at + 1 .. pass_size
      BY <1>1, <1>5, <3>1, <3>3 DEF LambdaInv
    <3> QED BY <2>1, <3>2, <3>3
  <2> QED BY <1>1, <2>1, <2>2, <2>3 DEF LambdaInv, Plain
<1>12. TypeOK'
  BY <1>5, <1>9, TypeParts DEF TypeOK, QueueTypes, Cursors, InlineFunction, MemberFunction, Lambda, LocalMember
<1> QED BY <1>1, <1>6, <1>10, <1>11, <1>12 DEF IInv

\* What the other loops do leaves the lambdas that are done alone.
LEMMA LambdasDoneStay ==
  ASSUME IInv, Lengths, Longer, generated \subseteq generated', processed_count' = processed_count
  PROVE  \A i \in 1 .. processed_count' : Plain(collected_lambdas'[i]) => collected_lambdas'[i] \in generated'
<1>1. \A i \in 1 .. processed_count : i \in 1 .. Len(collected_lambdas)
  BY TypeParts DEF IInv, Cursors, Lengths
<1> QED BY <1>1 DEF IInv, LambdaInv, Longer

LEMMA ScanStepKeeps == ASSUME IInv, ScanStep PROVE IInv'
<1> DEFINE l == collected_lambdas[scan_at]
<1>1. /\ program \in Programs /\ phase = "scan" /\ phase' = "scan" /\ scan_at <= Len(collected_lambdas)
      /\ scan_at' = scan_at + 1 /\ Cursors /\ TypeOK
      /\ UNCHANGED <<program, node_index, drained, pass, locals>>
      /\ Generate(l) \/ UNCHANGED <<generated, collected>>
      /\ deferred_scan_start' \in {deferred_scan_start, scan_at + 1}
      /\ generated_deferred_lambda' \in {generated_deferred_lambda, TRUE}
  BY TypeParts DEF ScanStep, IInv
<1>2. collected_lambdas \in Seq(Lambda) /\ Len(collected_lambdas) \in Nat /\ scan_at \in 1 .. Len(collected_lambdas)
  <2>1. collected_lambdas \in Seq(Lambda) /\ Len(collected_lambdas) \in Nat
    BY <1>1, LenProperties DEF TypeOK, Lambda
  <2> QED BY <1>1, <2>1 DEF Cursors
<1>3. l \in Function
  BY <1>2, ElementOfSeq DEF Lambda
<1> HIDE DEF l
<1>4. Effect(l)
  BY <1>1, <1>3, GenerateEffect, NoEffect
<1>5. QueueTypes' /\ Lengths /\ Lengths' /\ Longer /\ generated \subseteq generated'
  BY <1>1, <1>3, <1>4, EffectTyped
<1>6. CallsInv' /\ RequestsInv' /\ VisitedInv'
  BY <1>1, <1>3, <1>4, LambdaVisitKeeps
<1>7. Cursors'
  <2>1. scan_at + 1 \in 1 .. Len(collected_lambdas') + 1
    BY <1>2, <1>5 DEF Lengths, Longer
  <2>2. scan_at' \in 1 .. Len(collected_lambdas') + 1 /\ deferred_scan_start' \in 1 .. Len(collected_lambdas') + 1
    BY <1>1, <1>5, <2>1, CursorsFit
  <2>3. generated_deferred_lambda' \in BOOLEAN
    BY <1>1 DEF Cursors
  <2> QED BY <1>1, <1>5, <2>2, <2>3, CursorsFit DEF Cursors, drained, pass, locals
<1>8. PhaseInv' /\ LocalInv'
  BY <1>1 DEF IInv, PhaseInv, LocalInv, locals
<1>9. LambdaInv'
  BY <1>1, <1>5, LambdasDoneStay DEF LambdaInv, Plain, pass
<1>10. TypeOK'
  BY <1>5, <1>7, TypeParts DEF TypeOK, QueueTypes, Cursors, InlineFunction, MemberFunction, Lambda, LocalMember
<1> QED BY <1>1, <1>6, <1>8, <1>9, <1>10 DEF IInv

LEMMA LocalStepKeeps == ASSUME IInv, LocalStep PROVE IInv'
<1> DEFINE f == collected_local_struct_members[local_at]
<1>1. /\ program \in Programs /\ phase = "locals" /\ phase' = "locals" /\ local_at <= local_end
      /\ local_at' = local_at + 1 /\ local_end' = local_end /\ Cursors /\ TypeOK
      /\ UNCHANGED <<program, node_index, drained, pass, scan>>
      /\ VisitFunction(f) \/ (VectorGrew /\ UNCHANGED <<generated, collected>>)
  BY TypeParts DEF LocalStep, IInv
<1>2. /\ collected_local_struct_members \in Seq(LocalMember)
      /\ local_at \in 1 .. Len(collected_local_struct_members)
      /\ local_at \in 1 .. local_end /\ local_end <= Len(collected_local_struct_members)
      /\ Len(collected_local_struct_members) \in Nat /\ local_end \in Nat
  <2>1. collected_local_struct_members \in Seq(LocalMember) /\ Len(collected_local_struct_members) \in Nat
    BY <1>1, LenProperties DEF TypeOK, LocalMember
  <2> QED BY <1>1, <2>1 DEF Cursors
<1>3. f \in Function /\ Kind[f] = "local"
  BY <1>2, ElementOfSeq DEF LocalMember
<1> HIDE DEF f
<1>4. Effect(f) /\ (f \in generated' \/ VectorGrew)
  BY <1>1, <1>3, VisitEffect, NoEffect DEF Handled, PutAside
<1>5. QueueTypes' /\ Lengths /\ Lengths' /\ Longer /\ generated \subseteq generated'
  BY <1>1, <1>3, <1>4, EffectTyped
<1>6. CallsInv' /\ RequestsInv' /\ VisitedInv'
  BY <1>1, <1>3, <1>4, LambdaVisitKeeps
<1>7. Cursors'
  <2>1. local_at' \in 1 .. local_end + 1
    BY <1>1, <1>2
  <2> QED BY <1>1, <1>5, <2>1, CursorsFit DEF Cursors, drained, pass, scan
<1>8. PhaseInv'
  BY <1>1 DEF IInv, PhaseInv
<1>9. LambdaInv'
  <2>1. local_at' # 1
    BY <1>1, <1>2
  <2> QED BY <1>1, <1>5, <2>1, LambdasDoneStay DEF LambdaInv, Plain, pass
<1>10. LocalInv'
  <2> SUFFICES ASSUME ~VectorGrew', NEW i \in 1 .. local_at' - 1
               PROVE  collected_local_struct_members'[i] \in generated'
    BY DEF LocalInv
  <2>1. ~VectorGrew
    BY <1>1, <1>2, <1>5 DEF VectorGrew, Longer, Lengths
  <2>2. i \in 1 .. Len(collected_local_struct_members) /\ (i = local_at \/ i \in 1 .. local_at - 1)
    BY <1>1, <1>2
  <2>3. collected_local_struct_members'[i] = collected_local_struct_members[i]
    BY <1>5, <2>2 DEF Longer
  <2>4. CASE i = local_at
    BY <1>4, <2>1, <2>3, <2>4 DEF f
  <2>5. CASE i \in 1 .. local_at - 1
    BY <1>1, <1>5, <2>1, <2>3, <2>5 DEF IInv, LocalInv
  <2> QED BY <2>2, <2>4, <2>5
<1>11. TypeOK'
  BY <1>5, <1>7, TypeParts DEF TypeOK, QueueTypes, Cursors, InlineFunction, MemberFunction, Lambda, LocalMember
<1> QED BY <1>1, <1>6, <1>8, <1>9, <1>10, <1>11 DEF IInv

LEMMA MemberStepKeeps == ASSUME IInv, MemberStep PROVE IInv'
<1> DEFINE n == members_processed
           f == deferred_member_functions[n + 1]
<1>1. /\ program \in Programs /\ phase = "members" /\ phase' = "members"
      /\ n < Len(deferred_member_functions) /\ members_processed' = n + 1
      /\ VisitFunction(f) /\ Cursors /\ TypeOK
      /\ UNCHANGED <<program, node_index, inline_processed, pass, scan, locals>>
  BY TypeParts DEF MemberStep, MembersPending, IInv
<1>2. /\ deferred_member_functions \in Seq(MemberFunction)
      /\ n \in 0 .. Len(deferred_member_functions)
  BY <1>1 DEF TypeOK, MemberFunction
<1>3. /\ f \in Function /\ n + 1 \in 0 .. Len(deferred_member_functions)
      /\ Ahead(deferred_member_functions, n) = Ahead(deferred_member_functions, n + 1) \cup {f}
  BY <1>1, <1>2, AheadStep DEF MemberFunction
<1> HIDE DEF f
<1>4. Effect(f) /\ Handled(f)
  BY <1>1, <1>3, VisitEffect
<1>5. QueueTypes' /\ Lengths /\ Lengths' /\ Longer /\ generated \subseteq generated'
  BY <1>1, <1>3, <1>4, EffectTyped
<1>6. CallsInv' /\ RequestsInv' /\ VisitedInv'
  <2> DEFINE R == {f}
  <2>1. MembersAhead' = Ahead(deferred_member_functions, n + 1) \cup NewMembers
    <3>1. Grows(deferred_member_functions, deferred_member_functions', MemberFunction)
      BY <1>4 DEF Effect, QueuesGrow
    <3> QED BY <1>1, <1>2, <1>3, <3>1, AheadGrows DEF MembersAhead, NewMembers
  <2>2. MembersAhead \cup NewMembers \subseteq MembersAhead' \cup R
    BY <1>3, <2>1 DEF MembersAhead
  <2>3. R \in SUBSET {f} /\ (R # {} => Handled(f)) /\ NodesAhead \subseteq NodesAhead' \cup R
    BY <1>1, <1>3, <1>4, NothingTaken
  <2>4. /\ InlinesAhead \cup NewInlines \subseteq InlinesAhead' \cup R
        /\ \A i \in 1 .. node_index' - 1 : i \in 1 .. node_index - 1 \/ program.nodes[i] \in R
    BY <1>1, <1>3, <1>4, NothingTaken
  <2> HIDE DEF R
  <2> QED BY <1>1, <1>3, <1>4, <2>2, <2>3, <2>4, PromisesKept
<1>7. Cursors'
  <2>1. members_processed' \in 0 .. Len(deferred_member_functions')
    BY <1>1, <1>3, <1>5 DEF Lengths, Longer
  <2> QED BY <1>1, <1>5, <2>1, CursorsFit DEF Cursors, pass, scan, locals
<1>8. PhaseInv' /\ LocalInv'
  BY <1>1 DEF IInv, PhaseInv, LocalInv, locals
<1>9. LambdaInv'
  BY <1>1, <1>5, LambdasDoneStay DEF LambdaInv, Plain, pass
<1>10. TypeOK'
  BY <1>5, <1>7, TypeParts DEF TypeOK, QueueTypes, Cursors, InlineFunction, MemberFunction, Lambda, LocalMember
<1> QED BY <1>1, <1>6, <1>8, <1>9, <1>10 DEF IInv

LEMMA InlineStepKeeps == ASSUME IInv, InlineStep PROVE IInv'
<1> DEFINE n == inline_processed
           f == inline_emission_worklist[n + 1]
<1>1. /\ program \in Programs /\ phase = "inlines" /\ phase' = "inlines"
      /\ n < Len(inline_emission_worklist) /\ inline_processed' = n + 1
      /\ VisitFunction(f) /\ Cursors /\ TypeOK
      /\ UNCHANGED <<program, node_index, members_processed, pass, scan, locals>>
  BY TypeParts DEF InlineStep, InlinesPending, IInv
<1>2. inline_emission_worklist \in Seq(Function) /\ n \in 0 .. Len(inline_emission_worklist)
  BY <1>1 DEF TypeOK
<1>3. /\ f \in Function /\ n + 1 \in 0 .. Len(inline_emission_worklist)
      /\ Ahead(inline_emission_worklist, n) = Ahead(inline_emission_worklist, n + 1) \cup {f}
  BY <1>1, <1>2, AheadStep
<1> HIDE DEF f
<1>4. Effect(f) /\ Handled(f)
  BY <1>1, <1>3, VisitEffect
<1>5. QueueTypes' /\ Lengths /\ Lengths' /\ Longer /\ generated \subseteq generated'
  BY <1>1, <1>3, <1>4, EffectTyped
<1>6. CallsInv' /\ RequestsInv' /\ VisitedInv'
  <2> DEFINE R == {f}
  <2>1. InlinesAhead' = Ahead(inline_emission_worklist, n + 1) \cup NewInlines
    <3>1. Grows(inline_emission_worklist, inline_emission_worklist', Function)
      BY <1>4 DEF Effect, QueuesGrow
    <3> QED BY <1>1, <1>2, <1>3, <3>1, AheadGrows DEF InlinesAhead, NewInlines
  <2>2. InlinesAhead \cup NewInlines \subseteq InlinesAhead' \cup R
    BY <1>3, <2>1 DEF InlinesAhead
  <2>3. R \in SUBSET {f} /\ (R # {} => Handled(f)) /\ NodesAhead \subseteq NodesAhead' \cup R
    BY <1>1, <1>3, <1>4, NothingTaken
  <2>4. /\ MembersAhead \cup NewMembers \subseteq MembersAhead' \cup R
        /\ \A i \in 1 .. node_index' - 1 : i \in 1 .. node_index - 1 \/ program.nodes[i] \in R
    BY <1>1, <1>3, <1>4, NothingTaken
  <2> HIDE DEF R
  <2> QED BY <1>1, <1>3, <1>4, <2>2, <2>3, <2>4, PromisesKept
<1>7. Cursors'
  <2>1. inline_processed' \in 0 .. Len(inline_emission_worklist')
    BY <1>1, <1>3, <1>5 DEF Lengths, Longer
  <2> QED BY <1>1, <1>5, <2>1, CursorsFit DEF Cursors, pass, scan, locals
<1>8. PhaseInv' /\ LocalInv'
  BY <1>1 DEF IInv, PhaseInv, LocalInv, locals
<1>9. LambdaInv'
  BY <1>1, <1>5, LambdasDoneStay DEF LambdaInv, Plain, pass
<1>10. TypeOK'
  BY <1>5, <1>7, TypeParts DEF TypeOK, QueueTypes, Cursors, InlineFunction, MemberFunction, Lambda, LocalMember
<1> QED BY <1>1, <1>6, <1>8, <1>9, <1>10 DEF IInv

\* The steps between the loops.
LEMMA StartLambdasKeeps == ASSUME IInv, StartLambdas PROVE IInv'
<1> USE DEF StartLambdas, BeginPass
<1>1. /\ program' \in Programs /\ QueueTypes' /\ Lengths /\ Lengths' /\ QueueTypes /\ Cursors
      /\ CallsInv' /\ RequestsInv' /\ VisitedInv'
  BY QueuesStay
<1>2. pass_size' = Len(collected_lambdas) /\ pass_at' = Len(collected_lambdas)
      /\ collected_lambdas' = collected_lambdas /\ processed_count' = processed_count
  BY DEF collected, lambdas
<1>3. processed_count \in 0 .. Len(collected_lambdas) /\ Len(collected_lambdas) \in Nat
  BY <1>1 DEF Cursors, Lengths
<1>4. Cursors'
  <2>1. /\ pass_size' \in 0 .. Len(collected_lambdas') /\ processed_count' \in 0 .. pass_size'
        /\ pass_at' \in processed_count' .. pass_size'
    BY <1>2, <1>3
  <2> QED BY <1>1, <2>1 DEF Cursors, drained, scan, locals, collected, inlines, members, lambdas
<1>5. PhaseInv' /\ LocalInv'
  BY <1>1 DEF IInv, PhaseInv, LocalInv, locals, Lengths, Cursors
<1>6. LambdaInv'
  <2>1. pass_at' + 1 .. pass_size' = {}
    BY <1>2, <1>3
  <2> QED BY <1>2, <2>1 DEF IInv, LambdaInv
<1>7. TypeOK'
  BY <1>1, <1>4, TypeParts DEF TypeOK, QueueTypes, Cursors, InlineFunction, MemberFunction, Lambda, LocalMember
<1> QED BY <1>1, <1>5, <1>6, <1>7 DEF IInv

LEMMA EndPassKeeps == ASSUME IInv, EndPass PROVE IInv'
<1>1. /\ program' \in Programs /\ QueueTypes' /\ Lengths /\ Lengths' /\ QueueTypes /\ Cursors
      /\ CallsInv' /\ RequestsInv' /\ VisitedInv'
  BY QueuesStay DEF EndPass
<1>2. /\ phase = "lambdas" /\ pass_at = processed_count /\ processed_count' = pass_size
      /\ collected_lambdas' = collected_lambdas /\ generated' = generated
      /\ UNCHANGED <<program, node_index, generated, collected, drained, locals>>
      /\ \/ /\ phase' = "lambdas" /\ pass_size' = Len(collected_lambdas)
            /\ pass_at' = Len(collected_lambdas) /\ UNCHANGED scan
         \/ /\ phase' = "scan" /\ pass_size' = pass_size /\ pass_at' = pass_at
            /\ scan_at' = deferred_scan_start /\ generated_deferred_lambda' = FALSE
            /\ deferred_scan_start' = deferred_scan_start
  BY DEF EndPass, BeginPass, collected, lambdas
<1>3. /\ pass_size \in 0 .. Len(collected_lambdas) /\ processed_count \in 0 .. pass_size
      /\ Len(collected_lambdas) \in Nat
  BY <1>1 DEF Cursors, Lengths
<1>4. Cursors'
  <2>1. /\ pass_size' \in 0 .. Len(collected_lambdas') /\ processed_count' \in 0 .. pass_size'
        /\ pass_at' \in processed_count' .. pass_size' \/ phase' # "lambdas"
    BY <1>2, <1>3
  <2>2. /\ scan_at' \in 1 .. Len(collected_lambdas') + 1
        /\ deferred_scan_start' \in 1 .. Len(collected_lambdas') + 1
        /\ generated_deferred_lambda' \in BOOLEAN
        /\ phase' \in {"lambdas", "scan"}
    BY <1>1, <1>2 DEF Cursors, scan
  <2> QED BY <1>1, <1>2, <2>1, <2>2 DEF Cursors, drained, locals, collected, inlines, members
<1>5. PhaseInv' /\ LocalInv'
  BY <1>2 DEF IInv, PhaseInv, LocalInv, locals
<1>6. LambdaInv'
  <2>1. phase' = "lambdas" => pass_at' + 1 .. pass_size' = {}
    BY <1>2, <1>3
  <2>2. \A i \in 1 .. pass_size : i \in 1 .. processed_count \/ i \in pass_at + 1 .. pass_size
    BY <1>2, <1>3
  <2>3. \A i \in 1 .. pass_size : Plain(collected_lambdas[i]) => collected_lambdas[i] \in generated
    BY <1>2, <2>2 DEF IInv, LambdaInv
  <2> QED BY <1>2, <2>1, <2>3 DEF LambdaInv, Plain
<1>7. TypeOK'
  BY <1>1, <1>4, TypeParts DEF TypeOK, QueueTypes, Cursors, InlineFunction, MemberFunction, Lambda, LocalMember
<1> QED BY <1>1, <1>5, <1>6, <1>7 DEF IInv

LEMMA EndScanKeeps == ASSUME IInv, EndScan PROVE IInv'
<1>1. /\ program' \in Programs /\ QueueTypes' /\ Lengths /\ Lengths' /\ QueueTypes /\ Cursors
      /\ CallsInv' /\ RequestsInv' /\ VisitedInv'
  BY QueuesStay DEF EndScan
<1>2. /\ phase = "scan" /\ processed_count' = processed_count /\ local_at' = local_at
      /\ collected_lambdas' = collected_lambdas /\ generated' = generated
      /\ collected_local_struct_members' = collected_local_struct_members
      /\ UNCHANGED <<program, node_index, generated, collected, drained, scan>>
      /\ \/ /\ phase' = "locals" /\ pass_size' = pass_size /\ pass_at' = pass_at
            /\ local_end' = Len(collected_local_struct_members)
            /\ processed_count >= Len(collected_lambdas)
         \/ /\ phase' = "lambdas" /\ pass_size' = Len(collected_lambdas)
            /\ pass_at' = Len(collected_lambdas) /\ local_end' = local_end
  BY DEF EndScan, LambdasDone, BeginPass, collected, lambdas
<1>3. /\ pass_size \in 0 .. Len(collected_lambdas) /\ processed_count \in 0 .. pass_size
      /\ Len(collected_lambdas) \in Nat /\ Len(collected_local_struct_members) \in Nat
      /\ local_at = 1 /\ local_end \in Nat
  <2>1. local_at = 1
    BY <1>2 DEF IInv, PhaseInv
  <2> QED BY <1>1, <2>1 DEF Cursors, Lengths
<1>4. Cursors'
  <2>1. /\ pass_size' \in 0 .. Len(collected_lambdas') /\ processed_count' \in 0 .. pass_size'
        /\ pass_at' \in processed_count' .. pass_size' \/ phase' # "lambdas"
    BY <1>2, <1>3
  <2>2. local_end' \in 0 .. Len(collected_local_struct_members')
    BY <1>1, <1>2, <1>3 DEF Cursors
  <2>3. local_at' \in 1 .. local_end' + 1 /\ phase' \in {"lambdas", "locals"}
    BY <1>2, <1>3
  <2> QED BY <1>1, <1>2, <2>1, <2>2, <2>3 DEF Cursors, drained, scan, collected, inlines, members
<1>5. PhaseInv'
  BY <1>2, <1>3 DEF IInv, PhaseInv
<1>6. LambdaInv'
  <2>1. phase' = "lambdas" => pass_at' + 1 .. pass_size' = {}
    BY <1>2, <1>3
  <2> QED BY <1>2, <2>1 DEF IInv, LambdaInv, Plain
<1>7. LocalInv'
  <2>1. 1 .. local_at' - 1 = {}
    BY <1>2, <1>3
  <2> QED BY <2>1 DEF LocalInv
<1>8. TypeOK'
  BY <1>1, <1>4, TypeParts DEF TypeOK, QueueTypes, Cursors, InlineFunction, MemberFunction, Lambda, LocalMember
<1> QED BY <1>1, <1>5, <1>6, <1>7, <1>8 DEF IInv

\* From the last loop over lambdas on, only the phase changes between the loops.
LEMMA PhaseStepKeeps ==
  ASSUME IInv, UNCHANGED <<program, node_index, generated, collected, drained, pass, scan, locals>>,
         phase \notin {"nodes", "lambdas", "scan"}, phase' \in {"members", "inlines", "done"},
         phase' = "done" => ~MembersPending /\ ~InlinesPending
  PROVE  IInv'
<1>1. /\ program' \in Programs /\ QueueTypes' /\ Lengths /\ Lengths' /\ QueueTypes /\ Cursors
      /\ CallsInv' /\ RequestsInv' /\ VisitedInv'
  BY QueuesStay
<1>2. Cursors'
  BY <1>1 DEF Cursors, drained, pass, scan, locals, collected, inlines, members, lambdas
<1>3. PhaseInv'
  BY DEF IInv, PhaseInv, MembersPending, InlinesPending, drained, collected, inlines, members
<1>4. LambdaInv' /\ LocalInv'
  BY DEF IInv, LambdaInv, LocalInv, Plain, pass, collected, lambdas
<1>5. TypeOK'
  BY <1>1, <1>2, TypeParts DEF TypeOK, QueueTypes, Cursors, InlineFunction, MemberFunction, Lambda, LocalMember
<1> QED BY <1>1, <1>3, <1>4, <1>5 DEF IInv

LEMMA BetweenTheLoops == ASSUME IInv, EndLocals \/ EndMembers \/ EndInlines PROVE IInv'
<1>1. CASE EndLocals
  BY <1>1, PhaseStepKeeps DEF EndLocals, NextRound
<1>2. CASE EndMembers
  BY <1>2, PhaseStepKeeps DEF EndMembers
<1>3. CASE EndInlines
  BY <1>3, PhaseStepKeeps DEF EndInlines, NextRound
<1> QED BY <1>1, <1>2, <1>3

LEMMA Stutter == ASSUME IInv, UNCHANGED vars PROVE IInv'
<1> USE DEF vars
<1>1. /\ program' \in Programs /\ QueueTypes' /\ Lengths /\ Lengths' /\ QueueTypes /\ Cursors
      /\ CallsInv' /\ RequestsInv' /\ VisitedInv'
  BY QueuesStay
<1> USE DEF drained, pass, scan, locals, collected, inlines, members, lambdas
<1>2. Cursors'
  BY <1>1 DEF Cursors
<1>3. PhaseInv'
  BY DEF IInv, PhaseInv, MembersPending, InlinesPending
<1>4. LambdaInv' /\ LocalInv'
  BY DEF IInv, LambdaInv, LocalInv, VectorGrew, Plain
<1>5. TypeOK'
  BY <1>1, <1>2, TypeParts DEF TypeOK, QueueTypes, Cursors, InlineFunction, MemberFunction, Lambda, LocalMember
<1> QED BY <1>1, <1>3, <1>4, <1>5 DEF IInv

-------------------------------------------------------------------------------
LEMMA Initially == ASSUME Init PROVE IInv
<1> USE DEF Init
<1>1. program.nodes \in Seq(Function) /\ Len(program.nodes) \in Nat
  BY ProgramAssumption, LenProperties
<1>2. Elements(<<>>) = {} /\ Len(<<>>) = 0
  BY DEF Elements
<1>3. QueueTypes
  BY <1>2 DEF QueueTypes
<1>4. Cursors
  <2>1. phase \in {"nodes", "lambdas", "scan", "locals", "members", "inlines", "done"} /\ phase # "lambdas"
    OBVIOUS
  <2>2. node_index \in 1 .. Len(program.nodes) + 1
    BY <1>1
  <2>3. /\ inline_processed \in 0 .. Len(inline_emission_worklist)
        /\ members_processed \in 0 .. Len(deferred_member_functions)
        /\ pass_size \in 0 .. Len(collected_lambdas) /\ processed_count \in 0 .. pass_size
        /\ deferred_scan_start \in 1 .. Len(collected_lambdas) + 1
        /\ scan_at \in 1 .. Len(collected_lambdas) + 1
        /\ local_end \in 0 .. Len(collected_local_struct_members)
        /\ local_at \in 1 .. local_end + 1
    BY <1>2
  <2> QED BY <2>1, <2>2, <2>3 DEF Cursors
<1>5. CallsInv /\ RequestsInv
  BY <1>2 DEF CallsInv, RequestsInv
<1>6. VisitedInv
  BY DEF VisitedInv
<1>7. PhaseInv /\ LambdaInv /\ LocalInv
  BY DEF PhaseInv, LambdaInv, LocalInv
<1> QED BY <1>3, <1>4, <1>5, <1>6, <1>7, TypeParts DEF IInv

LEMMA Inductive == IInv /\ [Next]_vars => IInv'
<1> SUFFICES ASSUME IInv, [Next]_vars PROVE IInv'
  OBVIOUS
<1>1. CASE VisitNode
  BY <1>1, VisitNodeKeeps
<1>2. CASE StartLambdas
  BY <1>2, StartLambdasKeeps
<1>3. CASE PassStep
  BY <1>3, PassStepKeeps
<1>4. CASE EndPass
  BY <1>4, EndPassKeeps
<1>5. CASE ScanStep
  BY <1>5, ScanStepKeeps
<1>6. CASE EndScan
  BY <1>6, EndScanKeeps
<1>7. CASE LocalStep
  BY <1>7, LocalStepKeeps
<1>8. CASE MemberStep
  BY <1>8, MemberStepKeeps
<1>9. CASE InlineStep
  BY <1>9, InlineStepKeeps
<1>10. CASE EndLocals \/ EndMembers \/ EndInlines
  BY <1>10, BetweenTheLoops
<1>11. CASE Done \/ UNCHANGED vars
  BY <1>11, Stutter DEF Done
<1> QED BY <1>1, <1>2, <1>3, <1>4, <1>5, <1>6, <1>7, <1>8, <1>9, <1>10, <1>11 DEF Next

LEMMA Invariant == Spec => []IInv
<1>1. Init => IInv
  BY Initially
<1> QED BY <1>1, Inductive, PTL DEF Spec

\* Every queue holds what its loop expects, and no loop runs past its queue, in every
\* state of every program.
THEOREM TypeCorrect == Spec => []TypeOK
<1>1. IInv => TypeOK
  BY DEF IInv
<1> QED BY <1>1, Invariant, PTL

\* Whatever the bodies call, and in whatever loop they are generated: when the object is
\* written, every inline function and every member a generated body calls is generated.
THEOREM CallsEmitted == Spec => []CalledFunctionsEmitted
<1>1. IInv => CalledFunctionsEmitted
  <2> SUFFICES ASSUME IInv, phase = "done", NEW f \in generated
               PROVE  Called(f, {"inline", "member"}) \subseteq generated
    BY DEF CalledFunctionsEmitted
  <2>1. QueueTypes /\ Cursors /\ Lengths
    BY TypeParts, LengthsTyped DEF IInv
  <2>2. InlinesAhead = {} /\ MembersAhead = {} /\ NodesAhead = {}
    <3>1. ~MembersPending /\ ~InlinesPending /\ node_index > Len(program.nodes)
      BY DEF IInv, PhaseInv
    <3>2. InlinesAhead = {}
      BY <2>1, <3>1, NothingAhead DEF InlinesAhead, InlinesPending, Cursors, QueueTypes
    <3>3. MembersAhead = {}
      BY <2>1, <3>1, NothingAhead DEF MembersAhead, MembersPending, Cursors, QueueTypes
    <3>4. NodesAhead = {}
      <4>1. program.nodes \in Seq(Function)
        BY ProgramAssumption DEF IInv
      <4>2. node_index - 1 \in Nat /\ ~(node_index - 1 < Len(program.nodes))
        BY <2>1, <3>1 DEF Cursors, Lengths
      <4> QED BY <4>1, <4>2, NothingAhead DEF NodesAhead
    <3> QED BY <3>2, <3>3, <3>4
  <2>3. Called(f, {"inline", "member"}) = Called(f, {"inline"}) \cup Called(f, {"member"})
    BY DEF Called, Targets
  <2> QED BY <2>2, <2>3 DEF IInv, CallsInv, RequestsInv
<1> QED BY <1>1, Invariant, PTL

\* However lambdas are nested and local structs define one another: no plain lambda is
\* left when the lambda loop ends, and the loop over the members of local structs leaves
\* none if its vector did not grow meanwhile.
THEOREM CollectedEmitted == Spec => []CollectedInTimeIsEmitted
<1>1. IInv => CollectedInTimeIsEmitted
  <2> SUFFICES ASSUME IInv, phase = "locals" PROVE CollectedInTimeIsEmitted
    BY DEF CollectedInTimeIsEmitted
  <2>1. QueueTypes /\ Cursors /\ Lengths
    BY TypeParts, LengthsTyped DEF IInv
  <2>2. ASSUME local_at = 1, NEW i \in DOMAIN collected_lambdas, Kind[collected_lambdas[i]] = "lambda"
        PROVE  collected_lambdas[i] \in generated
    <3>1. DOMAIN collected_lambdas = 1 .. Len(collected_lambdas)
      BY <2>1, LenProperties DEF QueueTypes
    <3>2. processed_count >= Len(collected_lambdas)
      BY <2>2 DEF IInv, LambdaInv
    <3>3. i \in 1 .. processed_count
      BY <2>1, <3>1, <3>2 DEF Cursors, Lengths
    <3> QED BY <2>2, <3>3 DEF IInv, LambdaInv, Plain
  <2>3. ASSUME local_at > local_end, ~VectorGrew, NEW i \in 1 .. local_end
        PROVE  collected_local_struct_members[i] \in generated
    <3>1. i \in 1 .. local_at - 1
      BY <2>1, <2>3 DEF Cursors, Lengths
    <3> QED BY <2>3, <3>1 DEF IInv, LocalInv
  <2> QED BY <2>2, <2>3 DEF CollectedInTimeIsEmitted
<1> QED BY <1>1, Invariant, PTL

-------------------------------------------------------------------------------
(***************************************************************************)
(* Statements and scopes.                                                   *)
(***************************************************************************)

-----------------------------------------------------------------------------
(* Sequences.                                                               *)

LEMMA AppendFront ==
  ASSUME NEW T, NEW s \in Seq(T), NEW e \in T
  PROVE  /\ Append(s, e) \in Seq(T) /\ Append(s, e) # <<>>
         /\ Front(Append(s, e)) = s /\ Last(Append(s, e)) = e
         /\ Len(Append(s, e)) = Len(s) + 1
<1>1. /\ Append(s, e) \in Seq(T) /\ Len(Append(s, e)) = Len(s) + 1
      /\ Append(s, e) # <<>>
      /\ \A i \in 1 .. Len(s) : Append(s, e)[i] = s[i]
      /\ Append(s, e)[Len(s) + 1] = e
  BY AppendProperties
<1>2. Front(Append(s, e)) \in Seq(T) /\ Len(Front(Append(s, e))) = Len(s)
      /\ \A i \in 1 .. Len(s) : Front(Append(s, e))[i] = s[i]
  BY <1>1 DEF Front
<1>3. Front(Append(s, e)) = s
  BY <1>2, SeqEqual
<1> QED BY <1>1, <1>3 DEF Last

\* A nonempty sequence is its front and its last element.
LEMMA FrontLast ==
  ASSUME NEW T, NEW s \in Seq(T), s # <<>>
  PROVE  /\ Front(s) \in Seq(T) /\ Last(s) \in T
         /\ s = Append(Front(s), Last(s))
         /\ Len(s) \in Nat \ {0}
         /\ Len(Front(s)) = Len(s) - 1
         /\ \A i \in 1 .. Len(s) - 1 : Front(s)[i] = s[i]
<1>1. Len(s) \in Nat \ {0}
  BY EmptySeq
<1>2. Last(s) \in T
  BY <1>1 DEF Last
<1>3. /\ Front(s) \in Seq(T) /\ Len(Front(s)) = Len(s) - 1
      /\ \A i \in 1 .. Len(s) - 1 : Front(s)[i] = s[i]
  <2>1. \A i \in 1 .. Len(s) - 1 : s[i] \in T
    BY <1>1
  <2>2. 1 \in Int /\ Len(s) - 1 \in Int /\ (Len(s) - 1) - 1 + 1 = Len(s) - 1
    BY <1>1
  <2>3. /\ SubSeq(s, 1, Len(s) - 1) \in Seq(T)
        /\ Len(SubSeq(s, 1, Len(s) - 1)) = IF 1 <= Len(s) - 1 THEN (Len(s) - 1) - 1 + 1 ELSE 0
        /\ \A i \in 1 .. (Len(s) - 1) - 1 + 1 : SubSeq(s, 1, Len(s) - 1)[i] = s[1 + i - 1]
    BY <2>1, <2>2, SubSeqProperties
  <2>4. \A i \in 1 .. Len(s) - 1 : 1 + i - 1 = i
    BY <1>1
  <2>5. Len(SubSeq(s, 1, Len(s) - 1)) = Len(s) - 1
    BY <1>1, <2>2, <2>3
  <2> QED BY <2>2, <2>3, <2>4, <2>5 DEF Front
<1>4. /\ Append(Front(s), Last(s)) \in Seq(T)
      /\ Len(Append(Front(s), Last(s))) = Len(s)
      /\ \A i \in 1 .. Len(s) : Append(Front(s), Last(s))[i] = s[i]
  <2>1. /\ Append(Front(s), Last(s)) \in Seq(T)
        /\ Len(Append(Front(s), Last(s))) = Len(Front(s)) + 1
        /\ \A i \in 1 .. Len(Front(s)) : Append(Front(s), Last(s))[i] = Front(s)[i]
        /\ Append(Front(s), Last(s))[Len(Front(s)) + 1] = Last(s)
    BY <1>2, <1>3, AppendProperties
  <2>2. Len(Front(s)) + 1 = Len(s)
    BY <1>1, <1>3
  <2>3. \A i \in 1 .. Len(s) : i = Len(s) \/ i \in 1 .. Len(s) - 1
    BY <1>1
  <2>4. \A i \in 1 .. Len(s) : Append(Front(s), Last(s))[i] = s[i]
    BY <2>1, <2>2, <2>3, <1>3 DEF Last
  <2> QED BY <2>1, <2>2, <2>4
<1>5. s = Append(Front(s), Last(s))
  BY <1>4, SeqEqual
<1> QED BY <1>1, <1>2, <1>3, <1>5

\* The recursion of FlattenSeq, unfolded.
Unfolds(g, ss) == g[1] = ss[1] /\ \A k \in 2 .. Len(ss) : g[k] = g[k - 1] \o ss[k]
StartsWith(t, s) == Len(s) <= Len(t) /\ \A i \in 1 .. Len(s) : t[i] = s[i]

LEMMA FlattenUnfold ==
  ASSUME NEW T, NEW ss \in Seq(Seq(T)), ss # <<>>
  PROVE  \E g : g[Len(ss)] = FlattenSeq(ss) /\ Unfolds(g, ss)
<1> DEFINE step(g, k) == IF k = 1 THEN ss[k] ELSE g[k - 1] \o ss[k]
           Partial(n, g) == g = [k \in 1 .. n |-> step(g, k)]
           whole == CHOOSE g : Partial(Len(ss), g)
<1>0. Len(ss) \in Nat \ {0}
  BY EmptySeq
<1>1. FlattenSeq(ss) = whole[Len(ss)]
  BY <1>0 DEF FlattenSeq
<1>2. ASSUME NEW n \in Nat, NEW g, Partial(n, g)
      PROVE  \A k \in 1 .. n : g[k] = step(g, k)
  <2> HIDE DEF step
  <2> QED BY <1>2
<1>3. \A n \in Nat : \E g : Partial(n, g)
  <2> DEFINE S == {n \in Nat : \E g : Partial(n, g)}
  <2>1. 0 \in S
    <3>1. Partial(0, [k \in 1 .. 0 |-> <<>>])
      OBVIOUS
    <3> QED BY <3>1
  <2>2. ASSUME NEW n \in Nat, n \in S PROVE n + 1 \in S
    <3>1. PICK g : Partial(n, g)
      <4> HIDE DEF Partial
      <4> QED BY <2>2
    <3> DEFINE h == [k \in 1 .. n + 1 |-> IF k <= n THEN g[k] ELSE step(g, n + 1)]
    <3>2. \A k \in 1 .. n : h[k] = g[k] /\ step(h, k) = step(g, k)
      OBVIOUS
    <3>3. h[n + 1] = step(h, n + 1)
      OBVIOUS
    <3>4. \A k \in 1 .. n + 1 : k \in 1 .. n \/ k = n + 1
      OBVIOUS
    <3>5. \A k \in 1 .. n : g[k] = step(g, k)
      BY <1>2, <3>1
    <3>6. \A k \in 1 .. n + 1 : h[k] = step(h, k)
      <4> HIDE DEF step
      <4> QED BY <3>2, <3>3, <3>4, <3>5
    <3>7. h = [k \in 1 .. n + 1 |-> h[k]]
      BY DEF h
    <3>8. Partial(n + 1, h)
      <4> HIDE DEF step
      <4> QED BY <3>6, <3>7
    <3> HIDE DEF Partial, step, h
    <3> QED BY <3>8
  <2> HIDE DEF S
  <2>3. \A n \in Nat : n \in S
    BY <2>1, <2>2, NaturalInduction
  <2> HIDE DEF Partial
  <2> QED BY <2>3 DEF S
<1>4. Partial(Len(ss), whole)
  <2>1. \E g : Partial(Len(ss), g)
    BY <1>0, <1>3
  <2> HIDE DEF Partial
  <2> QED BY <2>1
<1>5. \A k \in 1 .. Len(ss) : whole[k] = step(whole, k)
  <2> HIDE DEF Partial, step, whole
  <2> QED BY <1>0, <1>2, <1>4
<1> HIDE DEF whole, Partial
<1>6. whole[1] = ss[1]
  BY <1>0, <1>5
<1>7. \A k \in 2 .. Len(ss) : whole[k] = whole[k - 1] \o ss[k]
  <2> TAKE k \in 2 .. Len(ss)
  <2>1. k \in 1 .. Len(ss) /\ k # 1
    BY <1>0
  <2> QED BY <1>5, <2>1
<1> QED BY <1>1, <1>6, <1>7 DEF Unfolds

\* Flattening a sequence with one more element appends the element.
LEMMA FlattenAppend ==
  ASSUME NEW T, NEW ss \in Seq(Seq(T)), NEW x \in Seq(T)
  PROVE  /\ FlattenSeq(<<>>) = <<>>
         /\ FlattenSeq(ss) \in Seq(T)
         /\ FlattenSeq(Append(ss, x)) = FlattenSeq(ss) \o x
<1>1. FlattenSeq(<<>>) = <<>>
  BY DEF FlattenSeq
<1>2. ASSUME NEW s \in Seq(Seq(T)), NEW t \in Seq(Seq(T)), s # <<>>, t # <<>>, NEW g, NEW h,
             StartsWith(t, s), Unfolds(g, s), Unfolds(h, t)
      PROVE  \A n \in 1 .. Len(s) : g[n] = h[n] /\ g[n] \in Seq(T)
  <2> DEFINE S == {n \in Nat : n + 1 <= Len(s) => g[n + 1] = h[n + 1] /\ g[n + 1] \in Seq(T)}
  <2>0. Len(s) \in Nat \ {0} /\ Len(t) \in Nat /\ \A i \in 1 .. Len(s) : s[i] \in Seq(T)
    BY <1>2, EmptySeq
  <2>1. 0 \in S
    BY <1>2, <2>0 DEF Unfolds, StartsWith
  <2>2. ASSUME NEW n \in Nat, n \in S PROVE n + 1 \in S
    <3>1. SUFFICES ASSUME n + 2 <= Len(s)
                   PROVE g[n + 2] = h[n + 2] /\ g[n + 2] \in Seq(T)
      OBVIOUS
    <3>2. g[n + 1] = h[n + 1] /\ g[n + 1] \in Seq(T)
      BY <2>0, <2>2, <3>1
    <3>3. n + 2 \in 2 .. Len(s) /\ n + 2 \in 2 .. Len(t) /\ n + 2 \in 1 .. Len(s) /\ (n + 2) - 1 = n + 1
      BY <1>2, <2>0, <3>1 DEF StartsWith
    <3>4. g[n + 2] = g[n + 1] \o s[n + 2] /\ h[n + 2] = h[n + 1] \o t[n + 2]
      BY <1>2, <3>3 DEF Unfolds
    <3>5. t[n + 2] = s[n + 2] /\ s[n + 2] \in Seq(T)
      BY <1>2, <2>0, <3>3 DEF StartsWith
    <3> QED BY <3>2, <3>4, <3>5, ConcatProperties
  <2> HIDE DEF S
  <2>3. \A n \in Nat : n \in S
    BY <2>1, <2>2, NaturalInduction
  <2>4. ASSUME NEW n \in 1 .. Len(s) PROVE g[n] = h[n] /\ g[n] \in Seq(T)
    <3>1. n - 1 \in Nat /\ (n - 1) + 1 = n /\ n <= Len(s)
      BY <2>0
    <3>2. n - 1 \in S
      BY <2>3, <3>1
    <3> QED BY <3>1, <3>2 DEF S
  <2> QED BY <2>4
<1>3. FlattenSeq(ss) \in Seq(T)
  <2>1. CASE ss = <<>>
    BY <1>1, <2>1, EmptySeq
  <2>2. CASE ss # <<>>
    <3>1. PICK g : g[Len(ss)] = FlattenSeq(ss) /\ Unfolds(g, ss)
      BY <2>2, FlattenUnfold
    <3>2. Len(ss) \in Nat \ {0}
      BY <2>2, EmptySeq
    <3>3. StartsWith(ss, ss)
      BY <3>2 DEF StartsWith
    <3>4. \A n \in 1 .. Len(ss) : g[n] = g[n] /\ g[n] \in Seq(T)
      BY <1>2, <2>2, <3>1, <3>3
    <3> QED BY <3>1, <3>2, <3>4
  <2> QED BY <2>1, <2>2
<1>4. FlattenSeq(Append(ss, x)) = FlattenSeq(ss) \o x
  <2> DEFINE tt == Append(ss, x)
  <2>1. /\ tt \in Seq(Seq(T)) /\ tt # <<>> /\ Len(tt) = Len(ss) + 1
        /\ \A i \in 1 .. Len(ss) : tt[i] = ss[i]
        /\ tt[Len(ss) + 1] = x
    BY AppendProperties
  <2> HIDE DEF tt
  <2>2. PICK h : h[Len(tt)] = FlattenSeq(tt) /\ Unfolds(h, tt)
    BY <2>1, FlattenUnfold
  <2>3. CASE ss = <<>>
    <3>1. Len(ss) = 0
      BY <2>3
    <3>2. FlattenSeq(tt) = x
      BY <2>1, <2>2, <3>1 DEF Unfolds
    <3>3. <<>> \o x = x
      BY ConcatEmptySeq
    <3> QED BY <1>1, <2>3, <3>2, <3>3 DEF tt
  <2>4. CASE ss # <<>>
    <3>1. PICK g : g[Len(ss)] = FlattenSeq(ss) /\ Unfolds(g, ss)
      BY <2>4, FlattenUnfold
    <3>2. Len(ss) \in Nat \ {0}
      BY <2>4, EmptySeq
    <3>7. StartsWith(tt, ss)
      BY <2>1, <3>2 DEF StartsWith
    <3>3. \A n \in 1 .. Len(ss) : g[n] = h[n] /\ g[n] \in Seq(T)
      BY <1>2, <2>1, <2>2, <2>4, <3>1, <3>7
    <3>4. h[Len(ss)] = FlattenSeq(ss)
      BY <3>1, <3>2, <3>3
    <3>5. Len(tt) \in 2 .. Len(tt) /\ Len(tt) - 1 = Len(ss)
      BY <2>1, <3>2
    <3>6. h[Len(tt)] = h[Len(ss)] \o tt[Len(tt)]
      BY <2>2, <3>5 DEF Unfolds
    <3> QED BY <2>1, <2>2, <3>4, <3>6 DEF tt
  <2> QED BY <2>3, <2>4
<1> QED BY <1>1, <1>3, <1>4


-----------------------------------------------------------------------------
(* The nesting of statements.                                               *)

BodyKind  == {"function", "block", "list", "single", "cases"}
ScopeKind == {"function", "block", "for", "range"}
BreakKind == {"while", "do", "for", "range", "switch"}
HeadKind  == BreakKind \cup {"if", "else"}

Object == 1 .. MaxObjects
EntryType == {e \in [kind : BodyKind \cup HeadKind, n : 0 .. MaxConstructs,
                     decls : Seq(Object), scan : BOOLEAN, other : BOOLEAN] :
                e.scan = (e.kind \in ScopeKind)}
LoopType == [end : (0 .. MaxConstructs) \X {"end"},
             next : (0 .. MaxConstructs) \X {"start", "next", "end"}, depth : Nat]

\* The scopes prescanLabels counts for the first i entries.
Below(o, i) == Cardinality({j \in 1 .. i : o[j].scan})

\* Entries that the handlers tell apart neither by their scopes nor by their names.
Alike(o, p) ==
  /\ Len(o) = Len(p)
  /\ \A i \in 1 .. Len(o) : /\ o[i].kind = p[i].kind /\ o[i].n = p[i].n
                            /\ o[i].scan = p[i].scan

LEMMA BelowFacts ==
  ASSUME NEW o
  PROVE  /\ Below(o, 0) = 0
         /\ \A i \in Nat : /\ Below(o, i) \in Nat /\ Below(o, i) <= i
                           /\ Below(o, i + 1) = IF o[i + 1].scan THEN Below(o, i) + 1 ELSE Below(o, i)
         /\ \A i, j \in Nat : i <= j => Below(o, i) <= Below(o, j)
<1> DEFINE S(i) == {j \in 1 .. i : o[j].scan}
<1>1. ASSUME NEW i \in Nat PROVE IsFiniteSet(S(i)) /\ Cardinality(S(i)) \in Nat /\ Cardinality(S(i)) <= i
  <2>1. IsFiniteSet(1 .. i) /\ Cardinality(1 .. i) = i
    BY FS_Interval
  <2>2. S(i) \in SUBSET (1 .. i)
    OBVIOUS
  <2> HIDE DEF S
  <2>3. IsFiniteSet(S(i)) /\ Cardinality(S(i)) <= Cardinality(1 .. i)
    BY <2>1, <2>2, FS_Subset
  <2> QED BY <2>1, <2>3, FS_CardinalityType
<1>2. S(0) = {}
  OBVIOUS
<1>3. ASSUME NEW i \in Nat
      PROVE  Cardinality(S(i + 1)) = IF o[i + 1].scan THEN Cardinality(S(i)) + 1 ELSE Cardinality(S(i))
  <2>1. 1 .. i + 1 = (1 .. i) \cup {i + 1} /\ i + 1 \notin 1 .. i
    OBVIOUS
  <2>2. CASE o[i + 1].scan
    <3>1. S(i + 1) = S(i) \cup {i + 1} /\ i + 1 \notin S(i)
      BY <2>1, <2>2
    <3> HIDE DEF S
    <3> QED BY <1>1, <2>2, <3>1, FS_AddElement
  <2>3. CASE ~o[i + 1].scan
    <3>1. S(i + 1) = S(i)
      BY <2>1, <2>3
    <3> QED BY <2>3, <3>1
  <2> QED BY <2>2, <2>3
<1>4. ASSUME NEW i \in Nat, NEW j \in Nat, i <= j PROVE Cardinality(S(i)) <= Cardinality(S(j))
  <2>1. S(i) \in SUBSET S(j)
    BY <1>4
  <2> HIDE DEF S
  <2> QED BY <1>1, <2>1, FS_Subset
<1>5. Below(o, 0) = 0
  BY <1>2, FS_EmptySet DEF Below
<1>6. ASSUME NEW i \in Nat
      PROVE  /\ Below(o, i) \in Nat /\ Below(o, i) <= i
             /\ Below(o, i + 1) = IF o[i + 1].scan THEN Below(o, i) + 1 ELSE Below(o, i)
  BY <1>1, <1>3 DEF Below
<1>7. \A i, j \in Nat : i <= j => Below(o, i) <= Below(o, j)
  BY <1>4 DEF Below
<1> QED BY <1>5, <1>6, <1>7

LEMMA BelowAgrees ==
  ASSUME NEW o, NEW p, NEW i \in Nat, \A j \in 1 .. i : o[j].scan = p[j].scan
  PROVE  Below(o, i) = Below(p, i)
<1>1. {j \in 1 .. i : o[j].scan} = {j \in 1 .. i : p[j].scan}
  OBVIOUS
<1> QED BY <1>1 DEF Below

LEMMA BelowIsDepth ==
  ASSUME NEW o \in Seq(EntryType)
  PROVE  /\ PrescanDepth(o) = Below(o, Len(o))
         /\ \A i \in 1 .. Len(o) : PrescanDepth(SubSeq(o, 1, i)) = Below(o, i)
<1>1. DOMAIN o = 1 .. Len(o) /\ Len(o) \in Nat
  OBVIOUS
<1>2. PrescanDepth(o) = Below(o, Len(o))
  BY <1>1 DEF PrescanDepth, Below
<1>3. ASSUME NEW i \in 1 .. Len(o)
      PROVE  PrescanDepth(SubSeq(o, 1, i)) = Below(o, i)
  <2> DEFINE p == SubSeq(o, 1, i)
  <2>1. p \in Seq(EntryType) /\ Len(p) = i /\ \A j \in 1 .. i : p[j] = o[j]
    OBVIOUS
  <2>2. DOMAIN p = 1 .. i
    BY <2>1
  <2>3. PrescanDepth(p) = Below(p, i)
    BY <2>2 DEF PrescanDepth, Below
  <2>4. \A j \in 1 .. i : p[j].scan = o[j].scan
    BY <2>1
  <2> HIDE DEF p
  <2>5. Below(p, i) = Below(o, i)
    BY <1>1, <2>4, BelowAgrees
  <2> QED BY <2>3, <2>5 DEF p
<1> QED BY <1>2, <1>3

-----------------------------------------------------------------------------
(* The stack of loops is that of the statements break may leave.            *)

\* How deep the scopes are that break and continue in statement i keep.
KeptScopes(o, i) == IF o[i].kind = "range" THEN Below(o, i - 1) ELSE Below(o, i)

Matches(o, ls, f) ==
  /\ f \in [1 .. Len(ls) -> 1 .. Len(o)]
  /\ \A j, k \in 1 .. Len(ls) : j < k => f[j] < f[k]
  /\ \A i \in 1 .. Len(o) : o[i].kind \in BreakKind <=> \E k \in 1 .. Len(ls) : f[k] = i
  /\ \A k \in 1 .. Len(ls) : ls[k] = LoopEntry(o[f[k]].n, o[f[k]].kind, KeptScopes(o, f[k]))

LoopsFit(o, ls) == \E f : Matches(o, ls, f)

LEMMA LoopsAlike ==
  ASSUME NEW o \in Seq(EntryType), NEW p \in Seq(EntryType), NEW ls \in Seq(LoopType),
         Alike(o, p), LoopsFit(o, ls)
  PROVE  LoopsFit(p, ls)
<1>1. PICK f : Matches(o, ls, f)
  BY DEF LoopsFit
<1>2. \A i \in 1 .. Len(o) : KeptScopes(o, i) = KeptScopes(p, i)
  <2> TAKE i \in 1 .. Len(o)
  <2>1. i \in Nat /\ i - 1 \in Nat /\ \A j \in 1 .. i : o[j].scan = p[j].scan
    BY DEF Alike
  <2>2. \A j \in 1 .. i - 1 : o[j].scan = p[j].scan
    BY <2>1
  <2>3. Below(o, i) = Below(p, i) /\ Below(o, i - 1) = Below(p, i - 1)
    BY <2>1, <2>2, BelowAgrees
  <2> QED BY <2>3 DEF KeptScopes, Alike
<1>3. Matches(p, ls, f)
  BY <1>1, <1>2 DEF Matches, Alike
<1> QED BY <1>3 DEF LoopsFit

LEMMA KeptBelowTop ==
  ASSUME NEW o \in Seq(EntryType), NEW e \in EntryType
  PROVE  /\ \A i \in 0 .. Len(o) : Below(Append(o, e), i) = Below(o, i)
         /\ \A i \in 1 .. Len(o) : KeptScopes(Append(o, e), i) = KeptScopes(o, i)
         /\ Below(Append(o, e), Len(o) + 1) = IF e.scan THEN Below(o, Len(o)) + 1 ELSE Below(o, Len(o))
         /\ Below(o, Len(o)) \in Nat
<1> DEFINE p == Append(o, e)
<1>1. /\ Len(p) = Len(o) + 1 /\ Len(o) \in Nat
      /\ \A i \in 1 .. Len(o) : p[i] = o[i]
      /\ p[Len(o) + 1] = e
  BY AppendProperties
<1> HIDE DEF p
<1>2. ASSUME NEW i \in 0 .. Len(o) PROVE Below(p, i) = Below(o, i)
  <2>1. i \in Nat /\ \A j \in 1 .. i : p[j].scan = o[j].scan
    BY <1>1
  <2> QED BY <2>1, BelowAgrees
<1>3. ASSUME NEW i \in 1 .. Len(o) PROVE KeptScopes(p, i) = KeptScopes(o, i)
  <2>1. i \in 0 .. Len(o) /\ i - 1 \in 0 .. Len(o) /\ p[i] = o[i]
    BY <1>1
  <2> QED BY <1>2, <2>1 DEF KeptScopes
<1>4. Below(p, Len(o) + 1) = IF e.scan THEN Below(o, Len(o)) + 1 ELSE Below(o, Len(o))
  <2>1. Below(p, Len(o) + 1) = IF p[Len(o) + 1].scan THEN Below(p, Len(o)) + 1 ELSE Below(p, Len(o))
    BY <1>1, BelowFacts
  <2>2. Below(p, Len(o)) = Below(o, Len(o))
    BY <1>1, <1>2
  <2> QED BY <1>1, <2>1, <2>2
<1>5. Below(o, Len(o)) \in Nat
  BY <1>1, BelowFacts
<1> QED BY <1>2, <1>3, <1>4, <1>5 DEF p

\* A statement that break may leave, and its loop.
LEMMA LoopsPush ==
  ASSUME NEW o \in Seq(EntryType), NEW ls \in Seq(LoopType), NEW e \in EntryType, LoopsFit(o, ls)
  PROVE  /\ e.kind \notin BreakKind => LoopsFit(Append(o, e), ls)
         /\ \A l \in LoopType :
              e.kind \in BreakKind /\ l = LoopEntry(e.n, e.kind, KeptScopes(Append(o, e), Len(o) + 1))
                => LoopsFit(Append(o, e), Append(ls, l))
<1> DEFINE p == Append(o, e)
<1>1. /\ Len(p) = Len(o) + 1 /\ Len(o) \in Nat
      /\ \A i \in 1 .. Len(o) : p[i] = o[i]
      /\ p[Len(o) + 1] = e
  BY AppendProperties
<1>2. \A i \in 1 .. Len(o) : KeptScopes(p, i) = KeptScopes(o, i)
  BY KeptBelowTop
<1> HIDE DEF p
<1>3. PICK f : Matches(o, ls, f)
  BY DEF LoopsFit
<1>4. \A k \in 1 .. Len(ls) : f[k] \in 1 .. Len(o) /\ f[k] # Len(o) + 1
  BY <1>1, <1>3 DEF Matches
<1>5. ASSUME e.kind \notin BreakKind PROVE LoopsFit(p, ls)
  <2>1. f \in [1 .. Len(ls) -> 1 .. Len(p)]
    BY <1>1, <1>3 DEF Matches
  <2>2. \A i \in 1 .. Len(p) : p[i].kind \in BreakKind <=> \E k \in 1 .. Len(ls) : f[k] = i
    <3> TAKE i \in 1 .. Len(p)
    <3>1. CASE i = Len(o) + 1
      BY <1>1, <1>4, <1>5, <3>1
    <3>2. CASE i # Len(o) + 1
      <4>1. i \in 1 .. Len(o) /\ p[i] = o[i]
        BY <1>1, <3>2
      <4> QED BY <1>3, <4>1 DEF Matches
    <3> QED BY <3>1, <3>2
  <2>3. \A k \in 1 .. Len(ls) : ls[k] = LoopEntry(p[f[k]].n, p[f[k]].kind, KeptScopes(p, f[k]))
    BY <1>1, <1>2, <1>3, <1>4 DEF Matches
  <2>4. Matches(p, ls, f)
    BY <1>3, <2>1, <2>2, <2>3 DEF Matches
  <2> QED BY <2>4 DEF LoopsFit
<1>6. ASSUME NEW l \in LoopType, e.kind \in BreakKind,
             l = LoopEntry(e.n, e.kind, KeptScopes(p, Len(o) + 1))
      PROVE  LoopsFit(p, Append(ls, l))
  <2> DEFINE ms == Append(ls, l)
             g == [k \in 1 .. Len(ls) + 1 |-> IF k <= Len(ls) THEN f[k] ELSE Len(o) + 1]
  <2>1. /\ Len(ms) = Len(ls) + 1 /\ Len(ls) \in Nat
        /\ \A k \in 1 .. Len(ls) : ms[k] = ls[k]
        /\ ms[Len(ls) + 1] = l
    BY AppendProperties
  <2> HIDE DEF ms
  <2>2. \A k \in 1 .. Len(ms) : k \in 1 .. Len(ls) \/ k = Len(ls) + 1
    BY <2>1
  <2>3. (\A k \in 1 .. Len(ls) : g[k] = f[k]) /\ g[Len(ls) + 1] = Len(o) + 1
    BY <2>1
  <2>4. g \in [1 .. Len(ms) -> 1 .. Len(p)]
    BY <1>1, <1>4, <2>1
  <2> HIDE DEF g
  <2>5. \A j, k \in 1 .. Len(ms) : j < k => g[j] < g[k]
    <3> TAKE j, k \in 1 .. Len(ms)
    <3> HAVE j < k
    <3>1. j \in 1 .. Len(ls)
      BY <2>1
    <3>2. CASE k = Len(ls) + 1
      BY <1>1, <1>4, <2>3, <3>1, <3>2
    <3>3. CASE k \in 1 .. Len(ls)
      BY <1>3, <2>3, <3>1, <3>3 DEF Matches
    <3> QED BY <2>2, <3>2, <3>3
  <2>6. \A i \in 1 .. Len(p) : p[i].kind \in BreakKind <=> \E k \in 1 .. Len(ms) : g[k] = i
    <3> TAKE i \in 1 .. Len(p)
    <3>1. CASE i = Len(o) + 1
      BY <1>1, <1>6, <2>1, <2>3, <3>1
    <3>2. CASE i # Len(o) + 1
      <4>1. i \in 1 .. Len(o) /\ p[i] = o[i]
        BY <1>1, <3>2
      <4>2. p[i].kind \in BreakKind <=> \E k \in 1 .. Len(ls) : f[k] = i
        BY <1>3, <4>1 DEF Matches
      <4>3. \A k \in 1 .. Len(ls) : k \in 1 .. Len(ms)
        BY <2>1
      <4> QED BY <2>2, <2>3, <3>2, <4>2, <4>3
    <3> QED BY <3>1, <3>2
  <2>7. \A k \in 1 .. Len(ms) : ms[k] = LoopEntry(p[g[k]].n, p[g[k]].kind, KeptScopes(p, g[k]))
    <3> TAKE k \in 1 .. Len(ms)
    <3>1. CASE k = Len(ls) + 1
      BY <1>1, <1>6, <2>1, <2>3, <3>1
    <3>2. CASE k \in 1 .. Len(ls)
      BY <1>1, <1>2, <1>3, <1>4, <2>1, <2>3, <3>2 DEF Matches
    <3> QED BY <2>2, <3>1, <3>2
  <2>8. Matches(p, ms, g)
    BY <2>4, <2>5, <2>6, <2>7 DEF Matches
  <2> QED BY <2>8 DEF LoopsFit, ms
<1> QED BY <1>5, <1>6 DEF p

LEMMA LoopsPop ==
  ASSUME NEW o \in Seq(EntryType), NEW ls \in Seq(LoopType), NEW e \in EntryType,
         LoopsFit(Append(o, e), ls)
  PROVE  /\ e.kind \notin BreakKind => LoopsFit(o, ls)
         /\ e.kind \in BreakKind =>
              /\ ls # <<>> /\ Front(ls) \in Seq(LoopType) /\ LoopsFit(o, Front(ls))
              /\ Last(ls) = LoopEntry(e.n, e.kind, KeptScopes(Append(o, e), Len(o) + 1))
<1> DEFINE p == Append(o, e)
<1>1. /\ Len(p) = Len(o) + 1 /\ Len(o) \in Nat /\ Len(ls) \in Nat
      /\ \A i \in 1 .. Len(o) : p[i] = o[i]
      /\ p[Len(o) + 1] = e
  BY AppendProperties
<1>2. \A i \in 1 .. Len(o) : KeptScopes(p, i) = KeptScopes(o, i)
  BY KeptBelowTop
<1>0. LoopsFit(p, ls)
  OBVIOUS
<1> HIDE DEF p
<1>3. PICK f : Matches(p, ls, f)
  BY <1>0 DEF LoopsFit
<1>4. ASSUME e.kind \notin BreakKind PROVE LoopsFit(o, ls)
  <2>1. Len(o) + 1 \in 1 .. Len(p)
    BY <1>1
  <2>2. \A k \in 1 .. Len(ls) : f[k] # Len(o) + 1
    BY <1>1, <1>3, <1>4, <2>1 DEF Matches
  <2>3. \A k \in 1 .. Len(ls) : f[k] \in 1 .. Len(o)
    BY <1>1, <1>3, <2>2 DEF Matches
  <2>4. f \in [1 .. Len(ls) -> 1 .. Len(o)]
    BY <1>3, <2>3 DEF Matches
  <2>5. \A i \in 1 .. Len(o) : i \in 1 .. Len(p)
    BY <1>1
  <2>6. Matches(o, ls, f)
    BY <1>1, <1>2, <1>3, <2>3, <2>4, <2>5 DEF Matches
  <2> QED BY <2>6 DEF LoopsFit
<1>5. ASSUME e.kind \in BreakKind
      PROVE  /\ ls # <<>> /\ Front(ls) \in Seq(LoopType) /\ LoopsFit(o, Front(ls))
             /\ Last(ls) = LoopEntry(e.n, e.kind, KeptScopes(p, Len(o) + 1))
  <2>1. Len(o) + 1 \in 1 .. Len(p)
    BY <1>1
  <2>2. PICK m \in 1 .. Len(ls) : f[m] = Len(o) + 1
    BY <1>1, <1>3, <1>5, <2>1 DEF Matches
  <2>3. ls # <<>> /\ Len(ls) \in Nat \ {0}
    BY <1>1, <2>2
  <2>4. m = Len(ls)
    <3>1. SUFFICES ASSUME m < Len(ls) PROVE FALSE
      BY <2>2, <2>3
    <3>2. Len(ls) \in 1 .. Len(ls)
      BY <2>3
    <3>3. f[m] < f[Len(ls)] /\ f[Len(ls)] \in 1 .. Len(p)
      BY <1>3, <2>2, <3>1, <3>2 DEF Matches
    <3> QED BY <1>1, <2>2, <3>3
  <2> DEFINE ms == Front(ls)
             g == [k \in 1 .. Len(ls) - 1 |-> f[k]]
  <2>5. /\ ms \in Seq(LoopType) /\ Len(ms) = Len(ls) - 1
        /\ \A k \in 1 .. Len(ls) - 1 : ms[k] = ls[k]
    BY <2>3, FrontLast
  <2> HIDE DEF ms
  <2>6. \A k \in 1 .. Len(ls) - 1 : k \in 1 .. Len(ls) /\ g[k] = f[k] /\ g[k] \in 1 .. Len(o)
    <3> TAKE k \in 1 .. Len(ls) - 1
    <3>1. k \in 1 .. Len(ls) /\ k < m
      BY <2>3, <2>4
    <3>2. f[k] < f[m] /\ f[k] \in 1 .. Len(p)
      BY <1>3, <2>2, <3>1 DEF Matches
    <3> QED BY <1>1, <2>2, <3>1, <3>2
  <2>7. g \in [1 .. Len(ms) -> 1 .. Len(o)]
    BY <2>5, <2>6
  <2> HIDE DEF g
  <2>8. \A i \in 1 .. Len(o) : o[i].kind \in BreakKind <=> \E k \in 1 .. Len(ms) : g[k] = i
    <3> TAKE i \in 1 .. Len(o)
    <3>1. i \in 1 .. Len(p) /\ i # Len(o) + 1 /\ p[i] = o[i]
      BY <1>1
    <3>2. o[i].kind \in BreakKind <=> \E k \in 1 .. Len(ls) : f[k] = i
      BY <1>3, <3>1 DEF Matches
    <3>3. \A k \in 1 .. Len(ls) : f[k] = i => k \in 1 .. Len(ls) - 1
      BY <2>2, <2>3, <2>4, <3>1
    <3> QED BY <2>5, <2>6, <3>2, <3>3
  <2>9. \A k \in 1 .. Len(ms) : ms[k] = LoopEntry(o[g[k]].n, o[g[k]].kind, KeptScopes(o, g[k]))
    BY <1>1, <1>2, <1>3, <2>5, <2>6 DEF Matches
  <2>10. \A j, k \in 1 .. Len(ms) : j < k => g[j] < g[k]
    BY <1>3, <2>5, <2>6 DEF Matches
  <2>11. Matches(o, ms, g)
    BY <2>7, <2>8, <2>9, <2>10 DEF Matches
  <2>12. Last(ls) = LoopEntry(e.n, e.kind, KeptScopes(p, Len(o) + 1))
    BY <1>1, <1>3, <2>2, <2>4 DEF Matches, Last
  <2> QED BY <2>3, <2>5, <2>11, <2>12 DEF LoopsFit, ms
<1> QED BY <1>4, <1>5 DEF p

\* The innermost statement break may leave is the last loop.
LEMMA InnermostLoop ==
  ASSUME NEW o \in Seq(EntryType), NEW ls \in Seq(LoopType), LoopsFit(o, ls),
         NEW S, S = {i \in 1 .. Len(o) : o[i].kind \in BreakKind}, S # {}
  PROVE  /\ ls # <<>> /\ Innermost(S) \in S
         /\ \A j \in S : j <= Innermost(S)
         /\ Last(ls) = LoopEntry(o[Innermost(S)].n, o[Innermost(S)].kind, KeptScopes(o, Innermost(S)))
<1>1. PICK f : Matches(o, ls, f)
  BY DEF LoopsFit
<1>2. PICK m \in 1 .. Len(ls) : TRUE
  BY <1>1 DEF Matches
<1>3. Len(ls) \in Nat \ {0} /\ Len(ls) \in 1 .. Len(ls)
  BY <1>2
<1>4. f[Len(ls)] \in S
  BY <1>1, <1>3 DEF Matches
<1>5. \A i \in S : i <= f[Len(ls)]
  <2> TAKE i \in S
  <2>1. PICK k \in 1 .. Len(ls) : f[k] = i
    BY <1>1 DEF Matches
  <2>2. k = Len(ls) \/ k < Len(ls)
    BY <1>3
  <2>3. i \in Nat /\ f[Len(ls)] \in Nat
    BY <1>4
  <2>4. CASE k < Len(ls)
    <3>1. f[k] < f[Len(ls)]
      BY <1>1, <1>3, <2>4 DEF Matches
    <3> QED BY <2>1, <2>3, <3>1
  <2> QED BY <2>1, <2>2, <2>3, <2>4
<1>6. Innermost(S) \in S /\ \A j \in S : j <= Innermost(S)
  BY <1>4, <1>5 DEF Innermost
<1>7. Innermost(S) = f[Len(ls)]
  <2>1. Innermost(S) <= f[Len(ls)] /\ f[Len(ls)] <= Innermost(S)
    BY <1>4, <1>5, <1>6
  <2>2. Innermost(S) \in Nat /\ f[Len(ls)] \in Nat
    BY <1>4, <1>6
  <2> QED BY <2>1, <2>2
<1>8. Last(ls) = LoopEntry(o[f[Len(ls)]].n, o[f[Len(ls)]].kind, KeptScopes(o, f[Len(ls)]))
  BY <1>1, <1>3 DEF Matches, Last
<1> QED BY <1>3, <1>6, <1>7, <1>8


-----------------------------------------------------------------------------
(* The open statements and the visitor's stacks.                            *)

\* A statement's head stands on a body; only the function is outermost.
Nested(o) ==
  /\ o \in Seq(EntryType) /\ o # <<>>
  /\ o[1].kind = "function"
  /\ \A i \in 2 .. Len(o) : /\ o[i].kind # "function"
                            /\ o[i].kind \in HeadKind => o[i - 1].kind \in BodyKind

\* One scope for every entry that prescanLabels counts one for.
Fits(o, ss, ls) ==
  /\ Nested(o)
  /\ ss \in Seq(Seq(Object)) /\ Len(ss) = Below(o, Len(o))
  /\ ls \in Seq(LoopType) /\ LoopsFit(o, ls)

LEMMA NestedTop ==
  ASSUME NEW o, Nested(o)
  PROVE  /\ Len(o) \in Nat \ {0} /\ Last(o) \in EntryType /\ Last(o) = o[Len(o)]
         /\ Last(o).kind = "function" <=> Len(o) = 1
         /\ Below(o, Len(o)) \in Nat \ {0}
         /\ \A i \in 1 .. Len(o) : Below(o, i) >= 1 /\ Below(o, i) <= Below(o, Len(o))
<1>1. Len(o) \in Nat \ {0} /\ Last(o) \in EntryType /\ Last(o) = o[Len(o)]
  BY FrontLast DEF Nested, Last
<1>2. Last(o).kind = "function" <=> Len(o) = 1
  <2>1. CASE Len(o) = 1
    BY <1>1, <2>1 DEF Nested
  <2>2. CASE Len(o) # 1
    <3> DEFINE n == Len(o)
    <3>0. n \in Nat \ {0} /\ n # 1
      BY <1>1, <2>2
    <3> HIDE DEF n
    <3>4. n \in 2 .. n
      BY <3>0
    <3>1. Len(o) \in 2 .. Len(o)
      BY <3>4 DEF n
    <3>2. o[Len(o)].kind # "function"
      BY <3>1 DEF Nested
    <3> QED BY <1>1, <2>2, <3>2
  <2> QED BY <2>1, <2>2
<1>3. Below(o, 1) = 1
  <2>1. o[1] \in EntryType /\ o[1].kind = "function"
    BY <1>1 DEF Nested
  <2>2. o[1].scan
    BY <2>1 DEF EntryType, ScopeKind
  <2>3. Below(o, 0 + 1) = IF o[0 + 1].scan THEN Below(o, 0) + 1 ELSE Below(o, 0)
    BY BelowFacts
  <2>4. Below(o, 0) = 0
    BY BelowFacts
  <2> QED BY <2>2, <2>3, <2>4
<1>4. \A i \in 1 .. Len(o) : Below(o, i) >= 1 /\ Below(o, i) <= Below(o, Len(o))
  BY <1>1, <1>3, BelowFacts
<1>5. Below(o, Len(o)) \in Nat \ {0}
  <2>1. Len(o) \in 1 .. Len(o) /\ Below(o, Len(o)) \in Nat
    BY <1>1, BelowFacts
  <2> QED BY <1>4, <2>1
<1> QED BY <1>1, <1>2, <1>4, <1>5

LEMMA FitsAlike ==
  ASSUME NEW o, NEW ss, NEW ls, Fits(o, ss, ls), NEW p \in Seq(EntryType), Alike(o, p),
         NEW tt \in Seq(Seq(Object)), Len(tt) = Len(ss)
  PROVE  Fits(p, tt, ls)
<1>1. Len(p) = Len(o) /\ Len(o) \in Nat \ {0}
  BY NestedTop DEF Fits, Alike
<1>2. p # <<>>
  BY <1>1
<1>3. Nested(p)
  <2>1. \A i \in 1 .. Len(o) : p[i].kind = o[i].kind
    BY DEF Alike
  <2>2. \A i \in 2 .. Len(o) : i \in 1 .. Len(o) /\ i - 1 \in 1 .. Len(o)
    BY <1>1
  <2>3. 1 \in 1 .. Len(o)
    BY <1>1
  <2> QED BY <1>1, <1>2, <2>1, <2>2, <2>3 DEF Nested, Fits
<1>4. Below(p, Len(p)) = Below(o, Len(o))
  <2>1. \A j \in 1 .. Len(o) : p[j].scan = o[j].scan
    BY DEF Alike
  <2> QED BY <1>1, <2>1, BelowAgrees
<1>5. LoopsFit(p, ls)
  BY LoopsAlike DEF Fits, Nested
<1> QED BY <1>3, <1>4, <1>5 DEF Fits

LEMMA FitsPush ==
  ASSUME NEW o, NEW ss, NEW ls, Fits(o, ss, ls), NEW e \in EntryType,
         e.kind # "function", e.kind \in HeadKind => Last(o).kind \in BodyKind,
         NEW tt \in Seq(Seq(Object)), Len(tt) = IF e.scan THEN Len(ss) + 1 ELSE Len(ss)
  PROVE  /\ e.kind \notin BreakKind => Fits(Append(o, e), tt, ls)
         /\ e.kind \in BreakKind =>
              \A l : l = LoopEntry(e.n, e.kind, IF e.kind = "range" THEN Len(ss) ELSE Len(tt))
                       => Fits(Append(o, e), tt, Append(ls, l))
<1> DEFINE p == Append(o, e)
<1>1. o \in Seq(EntryType) /\ Len(o) \in Nat \ {0}
  BY NestedTop DEF Fits, Nested
<1>2. /\ p \in Seq(EntryType) /\ p # <<>> /\ Len(p) = Len(o) + 1
      /\ \A i \in 1 .. Len(o) : p[i] = o[i]
      /\ p[Len(o) + 1] = e
  BY <1>1, AppendProperties
<1>3. /\ Below(p, Len(o) + 1) = IF e.scan THEN Below(o, Len(o)) + 1 ELSE Below(o, Len(o))
      /\ Below(p, Len(o)) = Below(o, Len(o))
  BY <1>1, KeptBelowTop
<1> HIDE DEF p
<1>4. Nested(p)
  <2>1. p[1] = o[1]
    BY <1>1, <1>2
  <2>2. ASSUME NEW i \in 2 .. Len(p)
        PROVE  p[i].kind # "function" /\ (p[i].kind \in HeadKind => p[i - 1].kind \in BodyKind)
    <3>1. CASE i = Len(p)
      <4>1. p[i] = e /\ p[i - 1] = Last(o)
        BY <1>1, <1>2, <3>1 DEF Last
      <4> QED BY <4>1
    <3>2. CASE i # Len(p)
      <4>1. i \in 2 .. Len(o) /\ i \in 1 .. Len(o) /\ i - 1 \in 1 .. Len(o)
        BY <1>1, <1>2, <3>2
      <4>2. p[i] = o[i] /\ p[i - 1] = o[i - 1]
        BY <1>2, <4>1
      <4> QED BY <4>1, <4>2 DEF Fits, Nested
    <3> QED BY <3>1, <3>2
  <2> QED BY <1>2, <2>1, <2>2 DEF Nested, Fits
<1>5. Len(tt) = Below(p, Len(p))
  BY <1>2, <1>3 DEF Fits
<1>6. ASSUME e.kind \notin BreakKind PROVE Fits(p, tt, ls)
  <2>1. LoopsFit(p, ls)
    BY <1>1, <1>6, LoopsPush DEF p, Fits
  <2> QED BY <1>4, <1>5, <2>1 DEF Fits
<1>7. ASSUME e.kind \in BreakKind,
             NEW l, l = LoopEntry(e.n, e.kind, IF e.kind = "range" THEN Len(ss) ELSE Len(tt))
      PROVE  Fits(p, tt, Append(ls, l))
  <2>1. Len(ss) \in Nat /\ Len(tt) \in Nat
    BY DEF Fits
  <2>2. l \in LoopType
    <3>1. e.n \in 0 .. MaxConstructs
      BY DEF EntryType
    <3>2. LoopNext(e.n, e.kind) \in (0 .. MaxConstructs) \X {"start", "next", "end"}
      BY <3>1 DEF LoopNext
    <3>3. <<e.n, "end">> \in (0 .. MaxConstructs) \X {"end"}
      BY <3>1
    <3> QED BY <1>7, <2>1, <3>2, <3>3 DEF LoopEntry, LoopType
  <2>3. KeptScopes(p, Len(o) + 1) = IF e.kind = "range" THEN Len(ss) ELSE Len(tt)
    BY <1>1, <1>2, <1>3, <1>5 DEF KeptScopes, Fits
  <2>4. LoopsFit(p, Append(ls, l))
    BY <1>1, <1>7, <2>2, <2>3, LoopsPush DEF p, Fits
  <2>5. Append(ls, l) \in Seq(LoopType)
    BY <2>2, AppendProperties DEF Fits
  <2> QED BY <1>4, <1>5, <2>4, <2>5 DEF Fits
<1> QED BY <1>6, <1>7 DEF p

LEMMA FitsPop ==
  ASSUME NEW o, NEW ss, NEW ls, Fits(o, ss, ls), Len(o) > 1
  PROVE  LET below == IF Last(o).scan THEN Front(ss) ELSE ss IN
         /\ Last(o).kind \notin BreakKind => Fits(Front(o), below, ls)
         /\ Last(o).kind \in BreakKind => ls # <<>> /\ Fits(Front(o), below, Front(ls))
<1> DEFINE below == IF Last(o).scan THEN Front(ss) ELSE ss
           p == Front(o)
           e == Last(o)
<1>1. /\ o \in Seq(EntryType) /\ o # <<>> /\ Len(o) \in Nat /\ p \in Seq(EntryType) /\ e \in EntryType
      /\ o = Append(p, e) /\ Len(p) = Len(o) - 1
      /\ \A i \in 1 .. Len(o) - 1 : p[i] = o[i]
  BY FrontLast DEF Fits, Nested
<1>2. /\ Below(o, Len(p) + 1) = IF e.scan THEN Below(p, Len(p)) + 1 ELSE Below(p, Len(p))
      /\ Below(p, Len(p)) \in Nat
  BY <1>1, KeptBelowTop
<1>3. LoopsFit(Append(p, e), ls) /\ ls \in Seq(LoopType)
  BY <1>1 DEF Fits
<1>4. /\ e.kind \notin BreakKind => LoopsFit(p, ls)
      /\ e.kind \in BreakKind => ls # <<>> /\ Front(ls) \in Seq(LoopType) /\ LoopsFit(p, Front(ls))
  BY <1>1, <1>3, LoopsPop
<1> HIDE DEF p, e
<1>5. Nested(p)
  <2>1. p # <<>> /\ p[1] = o[1]
    BY <1>1
  <2>2. \A i \in 2 .. Len(p) : i \in 2 .. Len(o) /\ p[i] = o[i] /\ p[i - 1] = o[i - 1]
    BY <1>1
  <2> QED BY <1>1, <2>1, <2>2 DEF Nested, Fits
<1>6. below \in Seq(Seq(Object)) /\ Len(below) = Below(p, Len(p))
  <2>1. ss \in Seq(Seq(Object)) /\ Len(ss) = Below(o, Len(p) + 1)
    BY <1>1 DEF Fits
  <2>2. CASE e.scan
    <3>1. Len(ss) > 0 /\ ss # <<>>
      BY <1>2, <2>1, <2>2
    <3>2. Front(ss) \in Seq(Seq(Object)) /\ Len(Front(ss)) = Len(ss) - 1
      BY <2>1, <3>1, FrontLast
    <3> QED BY <1>2, <2>1, <2>2, <3>2 DEF e
  <2>3. CASE ~e.scan
    BY <1>2, <2>1, <2>3 DEF e
  <2> QED BY <2>2, <2>3
<1> QED BY <1>3, <1>4, <1>5, <1>6 DEF Fits, p, e


-----------------------------------------------------------------------------
(* What the handlers emit and how they change their stacks.                 *)

LabelName == (0 .. MaxConstructs) \X {"start", "next", "end", "else", "case", "user"}
Argument  == LabelName \cup Nat
InstrType ==
  {c \in [op : {"make", "destroy", "label", "jump", "branch", "dispatch", "goto", "return"},
          arg : Argument, meant : Argument, scope : Seq(Object)] :
     c.op \in {"make", "destroy"} => c.arg \in Object}

AsMeant(s) == \A i \in 1 .. Len(s) : s[i].meant = s[i].arg

\* Code whose jumps go where they are meant to go.
Code(s) == s \in Seq(InstrType) /\ AsMeant(s)

LEMMA ConstantsAreNat == MaxStatements \in Nat /\ MaxObjects \in Nat /\ MaxConstructs \in Nat
BY ScopeAssumption

LEMMA CodeConcat ==
  ASSUME NEW s \in Seq(InstrType), NEW t \in Seq(InstrType)
  PROVE  /\ s \o t \in Seq(InstrType)
         /\ AsMeant(s) /\ AsMeant(t) => AsMeant(s \o t)
         /\ t # <<>> => s \o t # <<>> /\ Last(s \o t) = Last(t)
<1>1. /\ s \o t \in Seq(InstrType) /\ Len(s \o t) = Len(s) + Len(t)
      /\ \A i \in 1 .. Len(s) + Len(t) : (s \o t)[i] = IF i <= Len(s) THEN s[i] ELSE t[i - Len(s)]
      /\ Len(s) \in Nat /\ Len(t) \in Nat
  BY ConcatProperties
<1>2. ASSUME AsMeant(s), AsMeant(t) PROVE AsMeant(s \o t)
  <2> SUFFICES ASSUME NEW i \in 1 .. Len(s \o t) PROVE (s \o t)[i].meant = (s \o t)[i].arg
    BY DEF AsMeant
  <2>1. CASE i <= Len(s)
    BY <1>1, <1>2, <2>1 DEF AsMeant
  <2>2. CASE ~(i <= Len(s))
    <3>1. i - Len(s) \in 1 .. Len(t) /\ (s \o t)[i] = t[i - Len(s)]
      BY <1>1, <2>2
    <3> QED BY <1>2, <3>1 DEF AsMeant
  <2> QED BY <2>1, <2>2
<1>3. ASSUME t # <<>> PROVE s \o t # <<>> /\ Last(s \o t) = Last(t)
  <2>1. Len(t) \in Nat \ {0}
    BY <1>3, EmptySeq
  <2>2. Len(s \o t) \in 1 .. Len(s) + Len(t) /\ ~(Len(s \o t) <= Len(s)) /\ Len(s \o t) - Len(s) = Len(t)
    BY <1>1, <2>1
  <2>3. (s \o t)[Len(s \o t)] = t[Len(t)]
    BY <1>1, <2>2
  <2> QED BY <1>1, <2>1, <2>3 DEF Last
<1> QED BY <1>1, <1>2, <1>3

LEMMA CodeOfOne ==
  ASSUME NEW c \in InstrType
  PROVE  /\ <<c>> \in Seq(InstrType) /\ Last(<<c>>) = c /\ <<c>> # <<>>
         /\ c.meant = c.arg => Code(<<c>>)
<1>1. <<c>> \in Seq(InstrType) /\ Last(<<c>>) = c /\ <<c>> # <<>>
  BY DEF Last
<1>2. ASSUME c.meant = c.arg PROVE AsMeant(<<c>>)
  BY <1>2 DEF AsMeant
<1> QED BY <1>1, <1>2 DEF Code

LEMMA CodeParts ==
  /\ Code(<<>>)
  /\ \A s, t : Code(s) /\ Code(t) => Code(s \o t)
  /\ \A xs \in Seq(Object) : Code(Make(xs)) /\ Code(Destroy(xs))
  /\ \A l \in LabelName : Code(JumpTo(l)) /\ Code(BranchTo(l))
<1>1. Code(<<>>)
  BY EmptySeq DEF Code, AsMeant
<1>2. \A s, t : Code(s) /\ Code(t) => Code(s \o t)
  BY CodeConcat DEF Code
<1>3. <<>> \in Seq(Object)
  BY EmptySeq
<1>4. ASSUME NEW x \in Object, NEW op \in {"make", "destroy"}
      PROVE  Instr(op, x, <<>>) \in InstrType /\ Instr(op, x, <<>>).meant = Instr(op, x, <<>>).arg
  <2>1. x \in Argument
    BY ConstantsAreNat DEF Object, Argument
  <2> QED BY <1>3, <2>1 DEF Instr, InstrType
<1>5. ASSUME NEW xs \in Seq(Object) PROVE Code(Make(xs))
  <2>1. DOMAIN xs = 1 .. Len(xs) /\ Len(xs) \in Nat /\ \A i \in 1 .. Len(xs) : xs[i] \in Object
    OBVIOUS
  <2>2. Make(xs) = [i \in 1 .. Len(xs) |-> Instr("make", xs[i], <<>>)]
    BY <2>1 DEF Make
  <2>3. \A i \in 1 .. Len(xs) : Make(xs)[i] \in InstrType /\ Make(xs)[i].meant = Make(xs)[i].arg
    BY <1>4, <2>1, <2>2
  <2>4. Make(xs) \in Seq(InstrType) /\ Len(Make(xs)) = Len(xs)
    BY <2>1, <2>2, <2>3
  <2> QED BY <2>3, <2>4 DEF Code, AsMeant
<1>6. ASSUME NEW xs \in Seq(Object) PROVE Code(Destroy(xs))
  <2>1. DOMAIN xs = 1 .. Len(xs) /\ Len(xs) \in Nat /\ \A i \in 1 .. Len(xs) : xs[i] \in Object
    OBVIOUS
  <2>2. Destroy(xs) = [i \in 1 .. Len(xs) |-> Instr("destroy", Reverse(xs)[i], <<>>)]
    BY <2>1 DEF Destroy
  <2>3. \A i \in 1 .. Len(xs) : Reverse(xs)[i] \in Object
    BY <2>1 DEF Reverse
  <2>4. \A i \in 1 .. Len(xs) : Destroy(xs)[i] \in InstrType /\ Destroy(xs)[i].meant = Destroy(xs)[i].arg
    BY <1>4, <2>2, <2>3
  <2>5. Destroy(xs) \in Seq(InstrType) /\ Len(Destroy(xs)) = Len(xs)
    BY <2>1, <2>2, <2>4
  <2> QED BY <2>4, <2>5 DEF Code, AsMeant
<1>7. ASSUME NEW l \in LabelName PROVE Code(JumpTo(l)) /\ Code(BranchTo(l))
  <2>1. ASSUME NEW op \in {"jump", "branch"} PROVE Code(<<Instr(op, l, <<>>)>>)
    <3>1. Instr(op, l, <<>>) \in InstrType
      BY <1>3 DEF Instr, InstrType, Argument
    <3>2. Instr(op, l, <<>>).meant = Instr(op, l, <<>>).arg
      BY DEF Instr
    <3> QED BY <3>1, <3>2, CodeOfOne
  <2> QED BY <2>1 DEF JumpTo, BranchTo
<1> QED BY <1>1, <1>2, <1>5, <1>6, <1>7

\* The objects in scope, one entry more.
LEMMA InScopeFacts ==
  /\ InScope(<<>>) = <<>>
  /\ \A o \in Seq(EntryType) :
       /\ InScope(o) \in Seq(Object)
       /\ \A e \in EntryType : InScope(Append(o, e)) = InScope(o) \o e.decls
<1> DEFINE D(o) == [i \in DOMAIN o |-> o[i].decls]
<1>1. \A e \in EntryType : e.decls \in Seq(Object)
  BY DEF EntryType
<1>2. ASSUME NEW o \in Seq(EntryType)
      PROVE  /\ D(o) \in Seq(Seq(Object)) /\ Len(D(o)) = Len(o)
             /\ \A i \in 1 .. Len(o) : D(o)[i] = o[i].decls
  <2>1. DOMAIN o = 1 .. Len(o) /\ Len(o) \in Nat /\ \A i \in 1 .. Len(o) : o[i].decls \in Seq(Object)
    BY <1>1
  <2> QED BY <2>1
<1>3. InScope(<<>>) = <<>>
  <2>1. D(<<>>) = <<>>
    OBVIOUS
  <2>2. FlattenSeq(<<>>) = <<>>
    BY DEF FlattenSeq
  <2> QED BY <2>1, <2>2 DEF InScope
<1>4. ASSUME NEW o \in Seq(EntryType), NEW e \in EntryType
      PROVE  InScope(o) \in Seq(Object) /\ InScope(Append(o, e)) = InScope(o) \o e.decls
  <2> DEFINE p == Append(o, e)
  <2>1. /\ p \in Seq(EntryType) /\ Len(p) = Len(o) + 1
        /\ \A i \in 1 .. Len(o) : p[i] = o[i]
        /\ p[Len(o) + 1] = e
    BY AppendProperties
  <2> HIDE DEF p
  <2>2. D(p) \in Seq(Seq(Object)) /\ Len(D(p)) = Len(o) + 1 /\ \A i \in 1 .. Len(o) + 1 : D(p)[i] = p[i].decls
    BY <1>2, <2>1
  <2>3. D(o) \in Seq(Seq(Object)) /\ Len(D(o)) = Len(o) /\ \A i \in 1 .. Len(o) : D(o)[i] = o[i].decls
    BY <1>2
  <2> DEFINE q == Append(D(o), e.decls)
  <2>4. q \in Seq(Seq(Object)) /\ Len(q) = Len(o) + 1 /\ \A i \in 1 .. Len(o) + 1 : q[i] = D(p)[i]
    <3>1. /\ q \in Seq(Seq(Object)) /\ Len(q) = Len(o) + 1
          /\ \A i \in 1 .. Len(o) : q[i] = o[i].decls
          /\ q[Len(o) + 1] = e.decls
      <4>1. e.decls \in Seq(Object)
        BY <1>1
      <4> HIDE DEF D
      <4> QED BY <2>3, <4>1, AppendProperties
    <3> HIDE DEF q, D
    <3>2. \A i \in 1 .. Len(o) + 1 : i \in 1 .. Len(o) \/ i = Len(o) + 1
      OBVIOUS
    <3> QED BY <2>1, <2>2, <3>1, <3>2
  <2>5. q = D(p)
    <3> HIDE DEF q, D
    <3> QED BY <2>2, <2>4, SeqEqual
  <2>6. FlattenSeq(q) = FlattenSeq(D(o)) \o e.decls /\ FlattenSeq(D(o)) \in Seq(Object)
    <3> HIDE DEF D
    <3> QED BY <1>1, <2>3, FlattenAppend
  <2> QED BY <2>5, <2>6 DEF InScope, p
<1>5. ASSUME NEW o \in Seq(EntryType) PROVE InScope(o) \in Seq(Object)
  <2>1. FlattenSeq(D(o)) \in Seq(Object)
    <3>1. D(o) \in Seq(Seq(Object))
      BY <1>2
    <3>2. <<>> \in Seq(Object)
      BY EmptySeq
    <3> HIDE DEF D
    <3> QED BY <3>1, <3>2, FlattenAppend
  <2> QED BY <2>1 DEF InScope
<1> QED BY <1>3, <1>4, <1>5

LEMMA MarkIsCode ==
  ASSUME NEW l \in LabelName, NEW o \in Seq(EntryType)
  PROVE  Code(Mark(l, o)) /\ Mark(l, o) # <<>>
<1>1. InScope(o) \in Seq(Object)
  BY InScopeFacts
<1>2. Instr("label", l, InScope(o)) \in InstrType
  BY <1>1 DEF Instr, InstrType, Argument
<1>3. Instr("label", l, InScope(o)).meant = Instr("label", l, InScope(o)).arg
  BY DEF Instr
<1> QED BY <1>2, <1>3, CodeOfOne DEF Mark


\* Adding to the innermost body, and registering objects in the innermost scope.
LEMMA InnermostChanges ==
  ASSUME NEW o, NEW ss, NEW ls, Fits(o, ss, ls)
  PROVE  /\ Added(o) \in Seq(EntryType) /\ Alike(o, Added(o))
         /\ Front(Added(o)) = Front(o) /\ Last(Added(o)) = [Last(o) EXCEPT !.other = TRUE]
         /\ \A x \in Object :
              /\ Declared(o, x) \in Seq(EntryType) /\ Alike(o, Declared(o, x))
              /\ Front(Declared(o, x)) = Front(o)
              /\ Last(Declared(o, x)) = [Last(o) EXCEPT !.decls = Append(@, x)]
         /\ \A xs \in Seq(Object) : /\ Register(ss, xs) \in Seq(Seq(Object))
                                    /\ Len(Register(ss, xs)) = Len(ss)
                                    /\ Front(Register(ss, xs)) = Front(ss)
                                    /\ Last(Register(ss, xs)) = Last(ss) \o xs
<1>1. /\ o \in Seq(EntryType) /\ Front(o) \in Seq(EntryType) /\ Last(o) \in EntryType
      /\ Len(o) \in Nat \ {0} /\ Len(Front(o)) = Len(o) - 1
      /\ \A i \in 1 .. Len(o) - 1 : Front(o)[i] = o[i]
      /\ Last(o) = o[Len(o)]
  BY FrontLast DEF Fits, Nested, Last
<1>2. ASSUME NEW e \in EntryType, e.kind = Last(o).kind, e.n = Last(o).n, e.scan = Last(o).scan
      PROVE  /\ Append(Front(o), e) \in Seq(EntryType) /\ Alike(o, Append(Front(o), e))
             /\ Front(Append(Front(o), e)) = Front(o) /\ Last(Append(Front(o), e)) = e
  <2> DEFINE p == Append(Front(o), e)
  <2>1. /\ p \in Seq(EntryType) /\ Len(p) = Len(Front(o)) + 1
        /\ \A i \in 1 .. Len(Front(o)) : p[i] = Front(o)[i]
        /\ p[Len(Front(o)) + 1] = e
    BY <1>1, AppendProperties
  <2>2. Front(p) = Front(o) /\ Last(p) = e
    BY <1>1, AppendFront
  <2> HIDE DEF p
  <2>3. Len(p) = Len(o) /\ p[Len(o)] = e /\ \A i \in 1 .. Len(o) - 1 : p[i] = o[i]
    BY <1>1, <2>1
  <2>4. \A i \in 1 .. Len(o) : i = Len(o) \/ i \in 1 .. Len(o) - 1
    BY <1>1
  <2>5. Alike(o, p)
    BY <1>1, <1>2, <2>3, <2>4 DEF Alike
  <2> QED BY <2>1, <2>2, <2>5 DEF p
<1>3. [Last(o) EXCEPT !.other = TRUE] \in EntryType
  BY <1>1 DEF EntryType
<1>4. ASSUME NEW x \in Object PROVE [Last(o) EXCEPT !.decls = Append(@, x)] \in EntryType
  <2>1. Last(o).decls \in Seq(Object)
    BY <1>1 DEF EntryType
  <2>2. Append(Last(o).decls, x) \in Seq(Object)
    BY <2>1, AppendProperties
  <2> QED BY <1>1, <2>2 DEF EntryType
<1>5. /\ Added(o) \in Seq(EntryType) /\ Alike(o, Added(o))
      /\ Front(Added(o)) = Front(o) /\ Last(Added(o)) = [Last(o) EXCEPT !.other = TRUE]
  <2> DEFINE e == [Last(o) EXCEPT !.other = TRUE]
  <2>1. e \in EntryType /\ e.kind = Last(o).kind /\ e.n = Last(o).n /\ e.scan = Last(o).scan
    BY <1>1, <1>3 DEF EntryType
  <2> HIDE DEF e
  <2>2. /\ Append(Front(o), e) \in Seq(EntryType) /\ Alike(o, Append(Front(o), e))
        /\ Front(Append(Front(o), e)) = Front(o) /\ Last(Append(Front(o), e)) = e
    BY <1>2, <2>1
  <2> QED BY <2>2 DEF Added, e
<1>6. ASSUME NEW x \in Object
      PROVE  /\ Declared(o, x) \in Seq(EntryType) /\ Alike(o, Declared(o, x))
             /\ Front(Declared(o, x)) = Front(o)
             /\ Last(Declared(o, x)) = [Last(o) EXCEPT !.decls = Append(@, x)]
  <2> DEFINE e == [Last(o) EXCEPT !.decls = Append(@, x)]
  <2>1. e \in EntryType /\ e.kind = Last(o).kind /\ e.n = Last(o).n /\ e.scan = Last(o).scan
    BY <1>1, <1>4 DEF EntryType
  <2> HIDE DEF e
  <2>2. /\ Append(Front(o), e) \in Seq(EntryType) /\ Alike(o, Append(Front(o), e))
        /\ Front(Append(Front(o), e)) = Front(o) /\ Last(Append(Front(o), e)) = e
    BY <1>2, <2>1
  <2> QED BY <2>2 DEF Declared, e
<1>7. ASSUME NEW xs \in Seq(Object)
      PROVE  /\ Register(ss, xs) \in Seq(Seq(Object))
             /\ Len(Register(ss, xs)) = Len(ss)
             /\ Front(Register(ss, xs)) = Front(ss)
             /\ Last(Register(ss, xs)) = Last(ss) \o xs
  <2>1. ss \in Seq(Seq(Object)) /\ Len(ss) \in Nat \ {0}
    BY NestedTop DEF Fits
  <2>2. ss # <<>>
    BY <2>1
  <2>3. Front(ss) \in Seq(Seq(Object)) /\ Last(ss) \in Seq(Object) /\ Len(Front(ss)) = Len(ss) - 1
    BY <2>1, <2>2, FrontLast
  <2>4. Last(ss) \o xs \in Seq(Object)
    BY <2>3, ConcatProperties
  <2> DEFINE y == Last(ss) \o xs
             t == Front(ss)
  <2> HIDE DEF y, t
  <2>5. /\ Append(t, y) \in Seq(Seq(Object)) /\ Len(Append(t, y)) = Len(t) + 1
        /\ Front(Append(t, y)) = t /\ Last(Append(t, y)) = y
    <3>1. t \in Seq(Seq(Object)) /\ y \in Seq(Object)
      BY <2>3, <2>4 DEF y, t
    <3> QED BY <3>1, AppendFront
  <2> QED BY <2>1, <2>3, <2>5 DEF Register, y, t
<1> QED BY <1>5, <1>6, <1>7

\* A body is opened, and with it a scope if it is a block.
LEMMA OpenBody ==
  ASSUME NEW o, NEW ss, NEW ls, Fits(o, ss, ls),
         NEW body \in BodyKind \ {"function"}, NEW n \in 0 .. MaxConstructs
  PROVE  /\ BodyEntry(body, n) \in EntryType
         /\ Fits(Append(o, BodyEntry(body, n)), ss \o BodyScopes(body), ls)
         /\ Last(Append(o, BodyEntry(body, n))).kind = body
<1> DEFINE e == BodyEntry(body, n)
<1>1. <<>> \in Seq(Object)
  BY EmptySeq
<1>2. e \in EntryType /\ e.kind = body /\ (e.scan <=> body = "block")
  <2>1. /\ e = [kind |-> body, n |-> n, decls |-> <<>>, scan |-> (body = "block"), other |-> FALSE]
        /\ e.kind = body /\ e.scan = (body = "block")
    BY DEF BodyEntry, Entry
  <2>2. body = "block" <=> body \in ScopeKind
    BY DEF ScopeKind, BodyKind
  <2>3. e \in [kind : BodyKind \cup HeadKind, n : 0 .. MaxConstructs,
               decls : Seq(Object), scan : BOOLEAN, other : BOOLEAN]
    BY <1>1, <2>1
  <2>4. e.scan = (e.kind \in ScopeKind)
    BY <2>1, <2>2
  <2> HIDE DEF e
  <2>5. e \in EntryType
    BY <2>3, <2>4 DEF EntryType
  <2> QED BY <2>1, <2>5
<1>3. e.kind \notin HeadKind /\ e.kind \notin BreakKind /\ e.kind # "function"
  BY <1>2 DEF HeadKind, BodyKind, BreakKind
<1> HIDE DEF e
<1>4. /\ ss \o BodyScopes(body) \in Seq(Seq(Object))
      /\ Len(ss \o BodyScopes(body)) = IF e.scan THEN Len(ss) + 1 ELSE Len(ss)
  <2>1. ss \in Seq(Seq(Object)) /\ Len(ss) \in Nat
    BY DEF Fits
  <2>2. BodyScopes(body) \in Seq(Seq(Object)) /\ Len(BodyScopes(body)) = IF e.scan THEN 1 ELSE 0
    BY <1>1, <1>2 DEF BodyScopes
  <2> DEFINE t == BodyScopes(body)
  <2> HIDE DEF t
  <2>3. ss \o t \in Seq(Seq(Object)) /\ Len(ss \o t) = Len(ss) + Len(t)
    BY <2>1, <2>2, ConcatProperties DEF t
  <2> QED BY <2>1, <2>2, <2>3 DEF t
<1>5. Fits(Append(o, e), ss \o BodyScopes(body), ls)
  BY <1>2, <1>3, <1>4, FitsPush
<1>6. Last(Append(o, e)) = e
  <2>1. o \in Seq(EntryType)
    BY DEF Fits, Nested
  <2> QED BY <1>2, <2>1, AppendFront
<1> QED BY <1>2, <1>5, <1>6 DEF e

\* A body is closed, and its scope with it.
LEMMA CloseBody ==
  ASSUME NEW o, NEW ss, NEW ls, Fits(o, ss, ls), Len(o) > 1, Last(o).kind \in BodyKind
  PROVE  Fits(Front(o), IF Last(o).kind = "block" THEN Front(ss) ELSE ss, ls)
<1>1. Last(o) \in EntryType /\ Last(o).kind # "function"
  BY NestedTop DEF Fits
<1>2. (Last(o).scan <=> Last(o).kind = "block") /\ Last(o).kind \notin BreakKind
  BY <1>1 DEF EntryType, ScopeKind, BodyKind, BreakKind
<1> QED BY <1>2, FitsPop

\* The head of a statement is done with: its scope, if it has one, and its loop.
LEMMA CloseHead ==
  ASSUME NEW o, NEW ss, NEW ls, Fits(o, ss, ls), Last(o).kind \in HeadKind
  PROVE  /\ Len(o) > 1 /\ Last(Front(o)).kind \in BodyKind
         /\ Fits(Front(o), IF Last(o).kind \in {"for", "range"} THEN Front(ss) ELSE ss,
                           IF Last(o).kind \in {"if", "else"} THEN ls ELSE Front(ls))
<1>1. Last(o) \in EntryType /\ Len(o) \in Nat \ {0} /\ Last(o) = o[Len(o)]
  BY NestedTop DEF Fits
<1>2. Last(o).kind # "function"
  BY DEF HeadKind, BreakKind
<1>3. Len(o) > 1
  <2>1. Nested(o)
    BY DEF Fits
  <2>2. Len(o) # 1
    BY <1>2, <2>1, NestedTop
  <2> DEFINE n == Len(o)
  <2>3. n \in Nat \ {0} /\ n # 1
    BY <1>1, <2>2
  <2> HIDE DEF n
  <2>4. n > 1
    BY <2>3
  <2> QED BY <2>4 DEF n
<1>4. Last(o).scan <=> Last(o).kind \in {"for", "range"}
  BY <1>1 DEF EntryType, ScopeKind, HeadKind, BreakKind
<1>5. Last(o).kind \notin BreakKind <=> Last(o).kind \in {"if", "else"}
  BY DEF HeadKind, BreakKind
<1>6. Last(Front(o)).kind \in BodyKind
  <2>1. Len(o) \in 2 .. Len(o)
    <3> DEFINE n == Len(o)
    <3>1. n \in Nat /\ n > 1
      BY <1>1, <1>3
    <3> HIDE DEF n
    <3>2. n \in 2 .. n
      BY <3>1
    <3> QED BY <3>2 DEF n
  <2>2. o[Len(o) - 1].kind \in BodyKind
    BY <1>1, <2>1 DEF Fits, Nested
  <2>3. Len(Front(o)) = Len(o) - 1 /\ Front(o)[Len(o) - 1] = o[Len(o) - 1]
    <3>1. o \in Seq(EntryType) /\ o # <<>>
      BY DEF Fits, Nested
    <3>2. Len(Front(o)) = Len(o) - 1 /\ \A i \in 1 .. Len(o) - 1 : Front(o)[i] = o[i]
      BY <3>1, FrontLast
    <3>3. Len(o) - 1 \in 1 .. Len(o) - 1
      BY <1>1, <1>3
    <3> QED BY <3>2, <3>3
  <2> QED BY <2>2, <2>3 DEF Last
<1> QED BY <1>3, <1>4, <1>5, <1>6, FitsPop


-----------------------------------------------------------------------------
(* The invariant of the visit and of the run.                               *)

SizeType  == [statements : 0 .. MaxStatements, objects : 0 .. MaxObjects, constructs : 0 .. MaxConstructs]
LabelType == [depth : 0 .. 1 + 2 * MaxConstructs, body : 0 .. MaxConstructs]

\* A body is visited, and every construct has opened two entries at most.
Visiting(o, ss, ls, sz) ==
  /\ Fits(o, ss, ls)
  /\ Last(o).kind \in BodyKind
  /\ Len(o) <= 1 + 2 * sz.constructs

Emitted(s) == s \in Seq(InstrType) /\ ("continue" \notin Shapes => AsMeant(s))

NestingInv ==
  /\ Emitted(code)
  /\ size \in SizeType /\ label \in LabelType
  /\ pc \in 0 .. Len(code) /\ alive \in Seq(Object)
  /\ pc = 0 => Visiting(open, scopes, loops, size)
  /\ pc # 0 => /\ open = <<>> /\ scopes = <<>> /\ loops = <<>>
               /\ code # <<>> /\ Last(code).op = "return"

\* A step of the visit keeps the stacks in line.
VisitStep ==
  /\ Emitted(code')
  /\ size' \in SizeType /\ label' \in LabelType
  /\ Visiting(open', scopes', loops', size')
  /\ pc = 0 /\ UNCHANGED <<pc, alive>>

LEMMA VisitStepKeeps ==
  ASSUME NestingInv, VisitStep
  PROVE  NestingInv'
<1>1. Emitted(code')
  BY DEF VisitStep
<1>2. pc' = 0 /\ alive' \in Seq(Object)
  BY DEF NestingInv, VisitStep
<1>3. pc' \in 0 .. Len(code')
  <2>1. Len(code') \in Nat
    BY <1>1 DEF Emitted
  <2> QED BY <1>2, <2>1
<1> QED BY <1>1, <1>2, <1>3 DEF NestingInv, VisitStep, Emitted

LEMMA EmittedGrows ==
  ASSUME NEW s, Emitted(s), NEW t, Code(t)
  PROVE  Emitted(s \o t)
BY CodeConcat DEF Code, Emitted

\* A new entry of the stack of statements.
IsEntry(e, kind, n, decls) ==
  /\ e \in EntryType /\ e.kind = kind /\ e.n = n /\ e.decls = decls
  /\ e.scan <=> kind \in ScopeKind

LEMMA EntryTyped ==
  ASSUME NEW kind \in BodyKind \cup HeadKind, NEW n \in 0 .. MaxConstructs,
         NEW decls \in Seq(Object), NEW counts \in BOOLEAN, counts <=> kind \in ScopeKind
  PROVE  IsEntry(Entry(kind, n, decls, counts), kind, n, decls)
<1> DEFINE e == Entry(kind, n, decls, counts)
<1>1. /\ e.kind = kind /\ e.n = n /\ e.decls = decls /\ e.scan = counts
      /\ e \in [kind : BodyKind \cup HeadKind, n : 0 .. MaxConstructs,
                decls : Seq(Object), scan : BOOLEAN, other : BOOLEAN]
  BY DEF Entry
<1> HIDE DEF e
<1>2. e.scan = (e.kind \in ScopeKind)
  BY <1>1
<1>3. e \in EntryType
  BY <1>1, <1>2 DEF EntryType
<1>4. e.scan <=> kind \in ScopeKind
  BY <1>1
<1> QED BY <1>1, <1>3, <1>4 DEF IsEntry, e

LEMMA HeadEntries ==
  ASSUME NEW n \in 0 .. MaxConstructs, NEW xs \in Seq(Object)
  PROVE  /\ IsEntry(Entry("if", n, xs, FALSE), "if", n, xs)
         /\ IsEntry(Entry("while", n, xs, FALSE), "while", n, xs)
         /\ IsEntry(Entry("do", n, xs, FALSE), "do", n, xs)
         /\ IsEntry(Entry("switch", n, xs, FALSE), "switch", n, xs)
         /\ IsEntry(Entry("for", n, xs, TRUE), "for", n, xs)
         /\ IsEntry(Entry("range", n, xs, TRUE), "range", n, xs)
<1>1. ASSUME NEW kind \in {"if", "while", "do", "switch"}
      PROVE  IsEntry(Entry(kind, n, xs, FALSE), kind, n, xs)
  <2>1. kind \in BodyKind \cup HeadKind /\ kind \notin ScopeKind
    BY DEF HeadKind, BreakKind, ScopeKind
  <2>2. FALSE \in BOOLEAN /\ (FALSE <=> kind \in ScopeKind)
    BY <2>1
  <2> QED BY <2>1, <2>2, EntryTyped
<1>2. ASSUME NEW kind \in {"for", "range"}
      PROVE  IsEntry(Entry(kind, n, xs, TRUE), kind, n, xs)
  <2>1. kind \in BodyKind \cup HeadKind /\ kind \in ScopeKind
    BY DEF HeadKind, BreakKind, ScopeKind
  <2>2. TRUE \in BOOLEAN /\ (TRUE <=> kind \in ScopeKind)
    BY <2>1
  <2> QED BY <2>1, <2>2, EntryTyped
<1> QED BY <1>1, <1>2

LEMMA AppendTwo ==
  ASSUME NEW T, NEW s \in Seq(T), NEW d \in T, NEW e \in T
  PROVE  /\ s \o <<d, e>> = Append(Append(s, d), e)
         /\ Append(s, d) \in Seq(T)
         /\ Len(Append(Append(s, d), e)) = Len(s) + 2
<1>1. /\ Append(s, d) \in Seq(T) /\ Len(Append(s, d)) = Len(s) + 1
      /\ \A i \in 1 .. Len(s) : Append(s, d)[i] = s[i]
      /\ Append(s, d)[Len(s) + 1] = d
  BY AppendProperties
<1> DEFINE t == Append(s, d)
<1> HIDE DEF t
<1>2. /\ Append(t, e) \in Seq(T) /\ Len(Append(t, e)) = Len(t) + 1
      /\ \A i \in 1 .. Len(t) : Append(t, e)[i] = t[i]
      /\ Append(t, e)[Len(t) + 1] = e
  BY <1>1, AppendProperties DEF t
<1>3. <<d, e>> \in Seq(T) /\ Len(<<d, e>>) = 2 /\ <<d, e>>[1] = d /\ <<d, e>>[2] = e
  OBVIOUS
<1> DEFINE u == <<d, e>>
<1> HIDE DEF u
<1>4. /\ s \o u \in Seq(T) /\ Len(s \o u) = Len(s) + 2
      /\ \A i \in 1 .. Len(s) + 2 : (s \o u)[i] = IF i <= Len(s) THEN s[i] ELSE u[i - Len(s)]
  BY <1>3, ConcatProperties DEF u
<1>5. Len(t) = Len(s) + 1 /\ Len(s) \in Nat
  BY <1>1 DEF t
<1>6. \A i \in 1 .. Len(s) + 2 : i \in 1 .. Len(s) \/ i = Len(s) + 1 \/ i = Len(s) + 2
  BY <1>5
<1>7. \A i \in 1 .. Len(s) + 2 : (s \o u)[i] = Append(t, e)[i]
  <2> TAKE i \in 1 .. Len(s) + 2
  <2>1. CASE i \in 1 .. Len(s)
    BY <1>1, <1>2, <1>4, <1>5, <2>1 DEF t
  <2>2. CASE i = Len(s) + 1
    BY <1>1, <1>2, <1>3, <1>4, <1>5, <2>2 DEF t, u
  <2>3. CASE i = Len(s) + 2
    BY <1>1, <1>2, <1>3, <1>4, <1>5, <2>3 DEF t, u
  <2> QED BY <1>6, <2>1, <2>2, <2>3
<1>8. s \o u = Append(t, e)
  BY <1>2, <1>4, <1>5, <1>7, SeqEqual
<1> QED BY <1>1, <1>2, <1>5, <1>8 DEF t, u

\* What every statement finds.
LEMMA AtAStatement ==
  ASSUME NestingInv, pc = 0
  PROVE  /\ Visiting(open, scopes, loops, size)
         /\ Fits(open, scopes, loops) /\ open \in Seq(EntryType) /\ Len(open) \in Nat \ {0}
         /\ Fits(Added(open), scopes, loops) /\ Len(Added(open)) = Len(open)
         /\ Added(open) \in Seq(EntryType)
         /\ Last(Added(open)).kind = Body.kind /\ Body.kind \in BodyKind
         /\ Len(scopes) \in Nat \ {0} /\ scopes \in Seq(Seq(Object))
         /\ size \in SizeType
<1>1. Visiting(open, scopes, loops, size) /\ size \in SizeType
  BY DEF NestingInv
<1>2. /\ Fits(open, scopes, loops) /\ open \in Seq(EntryType) /\ Len(open) \in Nat \ {0}
      /\ scopes \in Seq(Seq(Object)) /\ Len(scopes) \in Nat \ {0}
  <2>1. Fits(open, scopes, loops) /\ Nested(open)
    BY <1>1 DEF Visiting, Fits
  <2> QED BY <2>1, NestedTop DEF Fits, Nested
<1>3. Added(open) \in Seq(EntryType) /\ Alike(open, Added(open))
      /\ Last(Added(open)) = [Last(open) EXCEPT !.other = TRUE]
  BY <1>2, InnermostChanges
<1>4. Fits(Added(open), scopes, loops) /\ Len(Added(open)) = Len(open)
  BY <1>2, <1>3, FitsAlike DEF Alike
<1>5. Last(open) \in EntryType
  BY <1>2, NestedTop DEF Fits
<1>6. Last(Added(open)).kind = Body.kind /\ Body.kind \in BodyKind
  BY <1>1, <1>3, <1>5 DEF Body, Visiting, EntryType
<1> QED BY <1>1, <1>2, <1>3, <1>4, <1>6

LEMMA Counted ==
  ASSUME size \in SizeType, size.statements < MaxStatements,
         NEW objects \in Nat, NEW constructs \in Nat, Count(objects, constructs),
         size.objects + objects <= MaxObjects, size.constructs + constructs <= MaxConstructs
  PROVE  size' \in SizeType /\ size'.constructs = size.constructs + constructs
<1>1. MaxStatements \in Nat /\ MaxObjects \in Nat /\ MaxConstructs \in Nat
  BY ConstantsAreNat
<1>2. /\ size.statements \in 0 .. MaxStatements /\ size.objects \in 0 .. MaxObjects
      /\ size.constructs \in 0 .. MaxConstructs
  BY DEF SizeType
<1>3. /\ size.statements + 1 \in 0 .. MaxStatements
      /\ size.objects + objects \in 0 .. MaxObjects
      /\ size.constructs + constructs \in 0 .. MaxConstructs
  BY <1>1, <1>2
<1> QED BY <1>3 DEF Count, SizeType

LEMMA NextObjectsTyped ==
  ASSUME size \in SizeType, NEW k \in Nat, size.objects + k <= MaxObjects
  PROVE  NextObjects(k) \in Seq(Object) /\ Len(NextObjects(k)) = k
<1>1. size.objects \in Nat /\ MaxObjects \in Nat
  BY ConstantsAreNat DEF SizeType
<1>2. \A i \in 1 .. k : size.objects + i \in Object
  BY <1>1 DEF Object
<1> QED BY <1>2 DEF NextObjects


LEMMA StatementAdded ==
  ASSUME NestingInv, pc = 0, size.statements < MaxStatements, Count(0, 0),
         open' = Added(open), UNCHANGED <<scopes, loops, pc, alive>>,
         label' \in LabelType, Emitted(code')
  PROVE  NestingInv'
<1>1. size' \in SizeType /\ size'.constructs = size.constructs
  <2>1. size \in SizeType
    BY AtAStatement
  <2>2. size.objects + 0 <= MaxObjects /\ size.constructs + 0 <= MaxConstructs /\ size.constructs + 0 = size.constructs
    BY <2>1, ConstantsAreNat DEF SizeType
  <2> QED BY <2>1, <2>2, Counted
<1>2. Visiting(open', scopes', loops', size')
  BY <1>1, AtAStatement DEF Visiting
<1>3. VisitStep
  BY <1>1, <1>2 DEF VisitStep
<1> QED BY <1>3, VisitStepKeeps

LEMMA DeclareKeeps ==
  ASSUME NestingInv, Declare
  PROVE  NestingInv'
<1>1. pc = 0 /\ size.statements < MaxStatements /\ size.objects < MaxObjects
  BY DEF Declare
<1> DEFINE x == size.objects + 1
<1>2. /\ code' = code \o Make(<<x>>) /\ scopes' = Register(scopes, <<x>>) /\ open' = Declared(open, x)
      /\ Count(1, 0) /\ UNCHANGED <<loops, label, pc, alive>>
  BY DEF Declare
<1>3. size \in SizeType /\ Fits(open, scopes, loops) /\ Visiting(open, scopes, loops, size)
  BY <1>1, AtAStatement
<1>4. x \in Object
  BY <1>1, <1>3, ConstantsAreNat DEF SizeType, Object
<1>5. size' \in SizeType /\ size'.constructs = size.constructs
  <2>1. size.objects + 1 <= MaxObjects /\ size.constructs + 0 <= MaxConstructs /\ size.constructs + 0 = size.constructs
    BY <1>1, <1>3, ConstantsAreNat DEF SizeType
  <2> QED BY <1>1, <1>2, <1>3, <2>1, Counted
<1> HIDE DEF x
<1>6. <<x>> \in Seq(Object)
  BY <1>4
<1>7. /\ Declared(open, x) \in Seq(EntryType) /\ Alike(open, Declared(open, x))
      /\ Last(Declared(open, x)) = [Last(open) EXCEPT !.decls = Append(@, x)]
      /\ Register(scopes, <<x>>) \in Seq(Seq(Object)) /\ Len(Register(scopes, <<x>>)) = Len(scopes)
  BY <1>3, <1>4, <1>6, InnermostChanges
<1>8. Fits(open', scopes', loops')
  BY <1>2, <1>3, <1>7, FitsAlike
<1>9. Last(open').kind = Last(open).kind /\ Len(open') = Len(open)
  <2>1. Last(open) \in EntryType
    BY <1>3, NestedTop DEF Fits
  <2> QED BY <1>2, <1>7, <2>1 DEF EntryType, Alike
<1>10. Visiting(open', scopes', loops', size')
  BY <1>3, <1>5, <1>8, <1>9 DEF Visiting
<1>11. Emitted(code')
  BY <1>2, <1>6, CodeParts, EmittedGrows DEF NestingInv
<1>12. VisitStep
  BY <1>1, <1>2, <1>5, <1>10, <1>11 DEF VisitStep, NestingInv
<1> QED BY <1>12, VisitStepKeeps

LEMMA BodyKindsTyped ==
  ASSUME NEW kind, NEW body \in BodyKinds(kind)
  PROVE  body \in BodyKind \ {"function"}
BY DEF BodyKinds, BodyKind

\* The bounds that a statement with a body and k objects leaves room for.
LEMMA ConstructCounted ==
  ASSUME NestingInv, pc = 0, size.statements < MaxStatements, size.constructs < MaxConstructs,
         NEW k \in Nat, size.objects + k <= MaxObjects, Count(k, 1)
  PROVE  /\ size' \in SizeType /\ size'.constructs = size.constructs + 1
         /\ size.constructs + 1 \in 1 .. MaxConstructs /\ size.constructs + 1 \in 0 .. MaxConstructs
         /\ NextObjects(k) \in Seq(Object) /\ Len(NextObjects(k)) = k
<1>1. size \in SizeType
  BY AtAStatement
<1>2. size.constructs + 1 <= MaxConstructs /\ size.constructs \in Nat /\ MaxConstructs \in Nat
  BY <1>1, ConstantsAreNat DEF SizeType
<1>3. size' \in SizeType /\ size'.constructs = size.constructs + 1
  BY <1>1, <1>2, Counted
<1> QED BY <1>1, <1>2, <1>3, NextObjectsTyped

LEMMA OpenBlockKeeps ==
  ASSUME NestingInv, OpenBlock
  PROVE  NestingInv'
<1>1. pc = 0 /\ size.statements < MaxStatements /\ size.constructs < MaxConstructs
  BY DEF OpenBlock, Room
<1> DEFINE n == size.constructs + 1
<1>2. PICK body \in {"block"} \cup ({"list"} \cap Shapes) :
        /\ open' = Append(Added(open), BodyEntry(body, n))
        /\ scopes' = scopes \o BodyScopes(body)
  BY DEF OpenBlock
<1>3. Count(0, 1) /\ UNCHANGED <<code, loops, label, pc, alive>>
  BY DEF OpenBlock
<1>4. body \in BodyKind \ {"function"}
  BY DEF BodyKind
<1>5. /\ Fits(Added(open), scopes, loops) /\ Len(Added(open)) = Len(open) /\ Len(open) \in Nat
      /\ size \in SizeType /\ Len(open) <= 1 + 2 * size.constructs /\ Added(open) \in Seq(EntryType)
  BY <1>1, AtAStatement DEF Visiting
<1>6. size' \in SizeType /\ size'.constructs = n /\ n \in 0 .. MaxConstructs
  <2>1. size.objects + 0 <= MaxObjects
    BY <1>5, ConstantsAreNat DEF SizeType
  <2> QED BY <1>1, <1>3, <2>1, ConstructCounted
<1>7. /\ BodyEntry(body, n) \in EntryType
      /\ Fits(open', scopes', loops') /\ Last(open').kind = body
  BY <1>2, <1>3, <1>4, <1>5, <1>6, OpenBody
<1>8. Len(open') = Len(open) + 1
  BY <1>2, <1>5, <1>7, AppendFront
<1>9. Len(open') <= 1 + 2 * size'.constructs
  BY <1>5, <1>6, <1>8 DEF SizeType
<1>10. VisitStep
  BY <1>1, <1>3, <1>4, <1>6, <1>7, <1>9 DEF VisitStep, Visiting, NestingInv
<1> QED BY <1>10, VisitStepKeeps

\* A head and a body on it.
LEMMA StatementOpened ==
  ASSUME NestingInv, pc = 0, size \in SizeType, size' \in SizeType,
         size'.constructs = size.constructs + 1, size.constructs + 1 \in 0 .. MaxConstructs,
         NEW e \in EntryType, NEW ss, NEW ls, Fits(Append(Added(open), e), ss, ls),
         NEW body \in BodyKind \ {"function"}, NEW b, b = BodyEntry(body, size.constructs + 1),
         open' = Append(Append(Added(open), e), b), scopes' = ss \o BodyScopes(body), loops' = ls,
         Emitted(code'), UNCHANGED <<label, pc, alive>>
  PROVE  NestingInv'
<1>1. /\ Len(Added(open)) = Len(open) /\ Len(open) \in Nat /\ Added(open) \in Seq(EntryType)
      /\ Len(open) <= 1 + 2 * size.constructs
  BY AtAStatement DEF Visiting
<1>2. b \in EntryType /\ Fits(open', scopes', loops') /\ Last(open').kind = body
  BY OpenBody
<1>3. Len(open') = Len(open) + 2
  BY <1>1, <1>2, AppendTwo
<1>4. Len(open') <= 1 + 2 * size'.constructs
  BY <1>1, <1>3 DEF SizeType
<1>5. VisitStep
  BY <1>2, <1>4 DEF VisitStep, Visiting, NestingInv
<1> QED BY <1>5, VisitStepKeeps

LEMMA OpenIfKeeps ==
  ASSUME NestingInv, OpenIf
  PROVE  NestingInv'
<1>1. pc = 0 /\ size.statements < MaxStatements /\ size.constructs < MaxConstructs
  BY DEF OpenIf, Room
<1> DEFINE n == size.constructs + 1
<1>2. PICK body \in BodyKinds("if"), k \in {0, 1} :
        /\ size.objects + k <= MaxObjects
        /\ code' = code \o Make(NextObjects(k)) \o BranchTo(<<n, "else">>)
        /\ open' = Added(open) \o <<Entry("if", n, NextObjects(k), FALSE), BodyEntry(body, n)>>
        /\ scopes' = Register(scopes, NextObjects(k)) \o BodyScopes(body)
        /\ Count(k, 1)
  BY DEF OpenIf
<1>3. UNCHANGED <<loops, label, pc, alive>>
  BY DEF OpenIf
<1>4. body \in BodyKind \ {"function"} /\ k \in Nat
  BY BodyKindsTyped
<1>5. /\ Fits(open, scopes, loops) /\ Fits(Added(open), scopes, loops)
      /\ Added(open) \in Seq(EntryType) /\ Last(Added(open)).kind \in BodyKind
      /\ size \in SizeType
  BY <1>1, AtAStatement
<1>6. /\ size' \in SizeType /\ size'.constructs = n /\ n \in 0 .. MaxConstructs
      /\ NextObjects(k) \in Seq(Object)
  BY <1>1, <1>2, <1>4, ConstructCounted
<1> DEFINE e == Entry("if", n, NextObjects(k), FALSE)
           ss == Register(scopes, NextObjects(k))
<1>7. e \in EntryType /\ e.kind = "if" /\ ~e.scan
  <2>1. IsEntry(e, "if", n, NextObjects(k))
    BY <1>6, HeadEntries
  <2> QED BY <2>1 DEF IsEntry, ScopeKind
<1>8. ss \in Seq(Seq(Object)) /\ Len(ss) = Len(scopes)
  BY <1>5, <1>6, InnermostChanges
<1> HIDE DEF n, e, ss
<1>9. Fits(Append(Added(open), e), ss, loops)
  <2>1. e.kind \notin BreakKind /\ e.kind # "function"
    BY <1>7 DEF BreakKind
  <2> QED BY <1>5, <1>7, <1>8, <2>1, FitsPush
<1>10. BodyEntry(body, n) \in EntryType
  BY <1>4, <1>6, <1>9, OpenBody
<1>11. open' = Append(Append(Added(open), e), BodyEntry(body, n))
  <2>1. open' = Added(open) \o <<e, BodyEntry(body, n)>>
    BY <1>2 DEF e, n
  <2> QED BY <1>5, <1>7, <1>10, <2>1, AppendTwo
<1>12. Emitted(code')
  <2>1. <<n, "else">> \in LabelName
    BY <1>6 DEF LabelName
  <2> QED BY <1>2, <1>6, <2>1, CodeParts, EmittedGrows DEF NestingInv, n
<1> QED BY <1>1, <1>2, <1>3, <1>4, <1>5, <1>6, <1>7, <1>9, <1>11, <1>12, StatementOpened DEF n, ss


LEMMA OpenLoopKeeps ==
  ASSUME NestingInv, NEW kind \in {"while", "do"}, OpenLoop(kind)
  PROVE  NestingInv'
<1>1. pc = 0 /\ size.statements < MaxStatements /\ size.constructs < MaxConstructs
  BY DEF OpenLoop, Room
<1> DEFINE n == size.constructs + 1
           e == Entry(kind, n, <<>>, FALSE)
           l == LoopEntry(n, kind, Len(scopes))
<1>2. PICK body \in BodyKinds(kind) :
        /\ loops' = Append(loops, l)
        /\ code' = code \o Mark(<<n, "start">>, open)
                        \o (IF kind = "while" THEN BranchTo(<<n, "end">>) ELSE <<>>)
        /\ open' = Added(open) \o <<e, BodyEntry(body, n)>>
        /\ scopes' = scopes \o BodyScopes(body)
  BY DEF OpenLoop
<1>3. Count(0, 1) /\ UNCHANGED <<label, pc, alive>>
  BY DEF OpenLoop
<1>4. body \in BodyKind \ {"function"}
  BY BodyKindsTyped
<1>5. /\ Fits(Added(open), scopes, loops) /\ open \in Seq(EntryType) /\ scopes \in Seq(Seq(Object))
      /\ Added(open) \in Seq(EntryType) /\ Last(Added(open)).kind \in BodyKind
      /\ size \in SizeType
  BY <1>1, AtAStatement
<1>6. size' \in SizeType /\ size'.constructs = n /\ n \in 0 .. MaxConstructs
  <2>1. size.objects + 0 <= MaxObjects
    BY <1>5, ConstantsAreNat DEF SizeType
  <2> QED BY <1>1, <1>3, <2>1, ConstructCounted
<1>7. e \in EntryType /\ e.kind = kind /\ e.n = n /\ ~e.scan
  <2>1. <<>> \in Seq(Object)
    BY EmptySeq
  <2>2. IsEntry(e, kind, n, <<>>)
    BY <1>6, <2>1, HeadEntries
  <2> QED BY <2>2 DEF IsEntry, ScopeKind
<1> HIDE DEF n, e, l
<1>8. Fits(Append(Added(open), e), scopes, Append(loops, l))
  <2>1. e.kind \in BreakKind /\ e.kind # "function" /\ e.kind # "range"
    BY <1>7 DEF BreakKind
  <2>2. l = LoopEntry(e.n, e.kind, IF e.kind = "range" THEN Len(scopes) ELSE Len(scopes))
    BY <1>7 DEF l
  <2> QED BY <1>5, <1>7, <2>1, <2>2, FitsPush
<1>9. BodyEntry(body, n) \in EntryType
  BY <1>4, <1>6, <1>8, OpenBody
<1>10. open' = Append(Append(Added(open), e), BodyEntry(body, n))
  BY <1>2, <1>5, <1>7, <1>9, AppendTwo
<1>11. Emitted(code')
  <2>1. <<n, "start">> \in LabelName /\ <<n, "end">> \in LabelName
    BY <1>6 DEF LabelName
  <2>2. Code(Mark(<<n, "start">>, open)) /\ Code(BranchTo(<<n, "end">>)) /\ Code(<<>>)
    BY <1>5, <2>1, MarkIsCode, CodeParts
  <2>3. Emitted(code \o Mark(<<n, "start">>, open))
    BY <2>2, EmittedGrows DEF NestingInv
  <2> QED BY <1>2, <2>2, <2>3, EmittedGrows
<1> QED BY <1>1, <1>2, <1>3, <1>4, <1>5, <1>6, <1>7, <1>8, <1>10, <1>11, StatementOpened DEF n

LEMMA OpenForKeeps ==
  ASSUME NestingInv, OpenFor
  PROVE  NestingInv'
<1>1. pc = 0 /\ size.statements < MaxStatements /\ size.constructs < MaxConstructs
  BY DEF OpenFor, Room
<1> DEFINE n == size.constructs + 1
           e(k) == Entry("for", n, NextObjects(k), TRUE)
           l == LoopEntry(n, "for", Len(scopes) + 1)
<1>2. PICK body \in BodyKinds("for"), k \in {0, 1} :
        /\ size.objects + k <= MaxObjects
        /\ code' = code \o Make(NextObjects(k)) \o Mark(<<n, "start">>, Append(Added(open), e(k)))
                        \o BranchTo(<<n, "end">>)
        /\ open' = Append(Append(Added(open), e(k)), BodyEntry(body, n))
        /\ loops' = Append(loops, l)
        /\ scopes' = Append(scopes, NextObjects(k)) \o BodyScopes(body)
        /\ Count(k, 1)
  BY DEF OpenFor
<1>3. UNCHANGED <<label, pc, alive>>
  BY DEF OpenFor
<1>4. body \in BodyKind \ {"function"} /\ k \in Nat
  BY BodyKindsTyped
<1>5. /\ Fits(Added(open), scopes, loops) /\ scopes \in Seq(Seq(Object)) /\ Len(scopes) \in Nat
      /\ Added(open) \in Seq(EntryType) /\ Last(Added(open)).kind \in BodyKind
      /\ size \in SizeType
  BY <1>1, AtAStatement
<1>6. /\ size' \in SizeType /\ size'.constructs = n /\ n \in 0 .. MaxConstructs
      /\ NextObjects(k) \in Seq(Object)
  BY <1>1, <1>2, <1>4, ConstructCounted
<1> DEFINE d == e(k)
           ss == Append(scopes, NextObjects(k))
<1>7. d \in EntryType /\ d.kind = "for" /\ d.n = n /\ d.scan
  <2>1. IsEntry(d, "for", n, NextObjects(k))
    BY <1>6, HeadEntries
  <2> QED BY <2>1 DEF IsEntry, ScopeKind
<1>8. ss \in Seq(Seq(Object)) /\ Len(ss) = Len(scopes) + 1
  BY <1>5, <1>6, AppendProperties
<1>0. open' = Append(Append(Added(open), d), BodyEntry(body, n)) /\ scopes' = ss \o BodyScopes(body)
  BY <1>2
<1>11. code' = code \o Make(NextObjects(k)) \o Mark(<<n, "start">>, Append(Added(open), d))
                    \o BranchTo(<<n, "end">>)
  BY <1>2
<1> HIDE DEF n, e, d, l, ss
<1>9. Fits(Append(Added(open), d), ss, Append(loops, l))
  <2>1. d.kind \in BreakKind /\ d.kind # "function" /\ d.kind # "range"
    BY <1>7 DEF BreakKind
  <2>2. l = LoopEntry(d.n, d.kind, IF d.kind = "range" THEN Len(scopes) ELSE Len(ss))
    BY <1>7, <1>8 DEF l
  <2> QED BY <1>5, <1>7, <1>8, <2>1, <2>2, FitsPush
<1>12. Emitted(code')
  <2>1. <<n, "start">> \in LabelName /\ <<n, "end">> \in LabelName /\ Append(Added(open), d) \in Seq(EntryType)
    BY <1>5, <1>6, <1>7, AppendProperties DEF LabelName
  <2>2. /\ Code(Make(NextObjects(k))) /\ Code(BranchTo(<<n, "end">>))
        /\ Code(Mark(<<n, "start">>, Append(Added(open), d)))
    BY <1>6, <2>1, MarkIsCode, CodeParts
  <2>3. Emitted(code \o Make(NextObjects(k)))
    BY <2>2, EmittedGrows DEF NestingInv
  <2>4. Emitted(code \o Make(NextObjects(k)) \o Mark(<<n, "start">>, Append(Added(open), d)))
    BY <2>2, <2>3, EmittedGrows
  <2> QED BY <1>11, <2>2, <2>4, EmittedGrows
<1> QED BY <1>0, <1>1, <1>2, <1>3, <1>4, <1>5, <1>6, <1>7, <1>9, <1>12, StatementOpened DEF n

LEMMA OpenRangeKeeps ==
  ASSUME NestingInv, OpenRange
  PROVE  NestingInv'
<1>1. /\ pc = 0 /\ size.statements < MaxStatements /\ size.constructs < MaxConstructs
      /\ size.objects < MaxObjects
  BY DEF OpenRange, Room
<1> DEFINE n == size.constructs + 1
           xs == NextObjects(1)
           e == Entry("range", n, xs, TRUE)
           l == LoopEntry(n, "range", Len(scopes))
           ss == Append(scopes, xs)
<1>2. PICK body \in BodyKinds("range") :
        /\ code' = code \o Mark(<<n, "start">>, open) \o BranchTo(<<n, "end">>) \o Make(xs)
        /\ open' = Added(open) \o <<e, BodyEntry(body, n)>>
        /\ loops' = Append(loops, l)
        /\ scopes' = ss \o BodyScopes(body)
        /\ Count(1, 1)
  BY DEF OpenRange
<1>3. UNCHANGED <<label, pc, alive>>
  BY DEF OpenRange
<1>4. body \in BodyKind \ {"function"}
  BY BodyKindsTyped
<1>5. /\ Fits(Added(open), scopes, loops) /\ open \in Seq(EntryType)
      /\ scopes \in Seq(Seq(Object)) /\ Len(scopes) \in Nat
      /\ Added(open) \in Seq(EntryType) /\ Last(Added(open)).kind \in BodyKind
      /\ size \in SizeType
  BY <1>1, AtAStatement
<1>6. size' \in SizeType /\ size'.constructs = n /\ n \in 0 .. MaxConstructs /\ xs \in Seq(Object)
  <2>1. size.objects + 1 <= MaxObjects
    BY <1>1, <1>5, ConstantsAreNat DEF SizeType
  <2> QED BY <1>1, <1>2, <2>1, ConstructCounted
<1>7. e \in EntryType /\ e.kind = "range" /\ e.n = n /\ e.scan
  <2>1. IsEntry(e, "range", n, xs)
    BY <1>6, HeadEntries
  <2> QED BY <2>1 DEF IsEntry, ScopeKind
<1>8. ss \in Seq(Seq(Object)) /\ Len(ss) = Len(scopes) + 1
  BY <1>5, <1>6, AppendProperties
<1> HIDE DEF n, xs, e, l, ss
<1>9. Fits(Append(Added(open), e), ss, Append(loops, l))
  <2>1. e.kind \in BreakKind /\ e.kind # "function" /\ e.kind = "range"
    BY <1>7 DEF BreakKind
  <2>2. l = LoopEntry(e.n, e.kind, IF e.kind = "range" THEN Len(scopes) ELSE Len(ss))
    BY <1>7 DEF l
  <2> QED BY <1>5, <1>7, <1>8, <2>1, <2>2, FitsPush
<1>10. BodyEntry(body, n) \in EntryType
  BY <1>4, <1>6, <1>9, OpenBody
<1>11. open' = Append(Append(Added(open), e), BodyEntry(body, n))
  BY <1>2, <1>5, <1>7, <1>10, AppendTwo
<1>12. Emitted(code')
  <2>1. <<n, "start">> \in LabelName /\ <<n, "end">> \in LabelName
    BY <1>6 DEF LabelName
  <2>2. Code(Make(xs)) /\ Code(BranchTo(<<n, "end">>)) /\ Code(Mark(<<n, "start">>, open))
    BY <1>5, <1>6, <2>1, MarkIsCode, CodeParts
  <2>3. Emitted(code \o Mark(<<n, "start">>, open))
    BY <2>2, EmittedGrows DEF NestingInv
  <2>4. Emitted(code \o Mark(<<n, "start">>, open) \o BranchTo(<<n, "end">>))
    BY <2>2, <2>3, EmittedGrows
  <2> QED BY <1>2, <2>2, <2>4, EmittedGrows
<1> QED BY <1>1, <1>2, <1>3, <1>4, <1>5, <1>6, <1>7, <1>9, <1>11, <1>12, StatementOpened DEF n

LEMMA OpenSwitchKeeps ==
  ASSUME NestingInv, OpenSwitch
  PROVE  NestingInv'
<1>1. pc = 0 /\ size.statements < MaxStatements /\ size.constructs < MaxConstructs
  BY DEF OpenSwitch, Room
<1> DEFINE n == size.constructs + 1
           e == Entry("switch", n, <<>>, FALSE)
           l == LoopEntry(n, "switch", Len(scopes))
<1>2. /\ code' = Append(code, Instr("dispatch", n, <<>>))
      /\ open' = Added(open) \o <<e, BodyEntry("cases", n)>>
      /\ loops' = Append(loops, l)
      /\ Count(0, 1) /\ UNCHANGED <<scopes, label, pc, alive>>
  BY DEF OpenSwitch
<1>4. "cases" \in BodyKind \ {"function"}
  BY DEF BodyKind
<1>5. /\ Fits(Added(open), scopes, loops) /\ open \in Seq(EntryType)
      /\ scopes \in Seq(Seq(Object)) /\ Len(scopes) \in Nat
      /\ Added(open) \in Seq(EntryType) /\ Last(Added(open)).kind \in BodyKind
      /\ size \in SizeType
  BY <1>1, AtAStatement
<1>6. size' \in SizeType /\ size'.constructs = n /\ n \in 0 .. MaxConstructs
  <2>1. size.objects + 0 <= MaxObjects
    BY <1>5, ConstantsAreNat DEF SizeType
  <2> QED BY <1>1, <1>2, <2>1, ConstructCounted
<1>3. <<>> \in Seq(Object)
  BY EmptySeq
<1>7. e \in EntryType /\ e.kind = "switch" /\ e.n = n /\ ~e.scan
  <2>2. IsEntry(e, "switch", n, <<>>)
    BY <1>3, <1>6, HeadEntries
  <2> QED BY <2>2 DEF IsEntry, ScopeKind
<1> HIDE DEF n, e, l
<1>8. Fits(Append(Added(open), e), scopes, Append(loops, l))
  <2>1. e.kind \in BreakKind /\ e.kind # "function" /\ e.kind # "range"
    BY <1>7 DEF BreakKind
  <2>2. l = LoopEntry(e.n, e.kind, IF e.kind = "range" THEN Len(scopes) ELSE Len(scopes))
    BY <1>7 DEF l
  <2> QED BY <1>5, <1>7, <2>1, <2>2, FitsPush
<1>9. BodyEntry("cases", n) \in EntryType
  BY <1>4, <1>6, <1>8, OpenBody
<1>10. open' = Append(Append(Added(open), e), BodyEntry("cases", n))
  BY <1>2, <1>5, <1>7, <1>9, AppendTwo
<1>11. Emitted(code')
  <2> DEFINE c == Instr("dispatch", n, <<>>)
  <2>1. c \in InstrType /\ c.meant = c.arg
    BY <1>3, <1>6 DEF Instr, InstrType, Argument
  <2> HIDE DEF c
  <2>2. Code(<<c>>)
    BY <2>1, CodeOfOne
  <2>3. code \in Seq(InstrType)
    BY DEF NestingInv, Emitted
  <2>4. Append(code, c) = code \o <<c>>
    BY <2>1, <2>3, AppendIsConcat
  <2>5. Emitted(code \o <<c>>)
    BY <2>2, EmittedGrows DEF NestingInv
  <2> QED BY <1>2, <2>4, <2>5 DEF c
<1>12. scopes' = scopes \o BodyScopes("cases")
  <2>1. BodyScopes("cases") = <<>>
    BY DEF BodyScopes
  <2>2. scopes \o <<>> = scopes
    BY <1>5, ConcatEmptySeq
  <2> QED BY <1>2, <2>1, <2>2
<1> QED BY <1>1, <1>2, <1>4, <1>5, <1>6, <1>7, <1>8, <1>10, <1>11, <1>12, StatementOpened DEF n

LEMMA CaseKeeps ==
  ASSUME NestingInv, Case
  PROVE  NestingInv'
<1>1. /\ pc = 0 /\ size.statements < MaxStatements /\ Body.kind = "cases"
      /\ code' = code \o Mark(<<Body.n, "case">>, open)
      /\ open' = Added(open) /\ Count(0, 0) /\ UNCHANGED <<scopes, loops, label, pc, alive>>
  BY DEF Case
<1>2. open \in Seq(EntryType) /\ Len(open) \in Nat \ {0}
  BY <1>1, AtAStatement
<1>3. <<Body.n, "case">> \in LabelName
  <2>1. Body \in EntryType
    BY <1>2 DEF Body, Last
  <2> QED BY <2>1 DEF EntryType, LabelName
<1>4. Emitted(code')
  BY <1>1, <1>2, <1>3, MarkIsCode, EmittedGrows DEF NestingInv
<1>5. label' \in LabelType
  BY <1>1 DEF NestingInv
<1> QED BY <1>1, <1>4, <1>5, StatementAdded


\* What the end of a body finds.
LEMMA AtTheEndOfABody ==
  ASSUME NestingInv, BodyClosed
  PROVE  /\ pc = 0 /\ Len(open) > 1 /\ Len(open) \in Nat
         /\ Front(open) \in Seq(EntryType) /\ Len(Front(open)) = Len(open) - 1
         /\ Header \in EntryType /\ Header = Last(Front(open))
         /\ Fits(Front(open), OuterScopes, loops)
         /\ Code(ExitBody)
         /\ OuterScopes \in Seq(Seq(Object)) /\ Len(OuterScopes) \in Nat \ {0}
         /\ Last(OuterScopes) \in Seq(Object)
         /\ size \in SizeType /\ Len(open) <= 1 + 2 * size.constructs
<1>1. pc = 0 /\ Len(open) > 1
  BY DEF BodyClosed
<1>2. /\ Visiting(open, scopes, loops, size) /\ Fits(open, scopes, loops) /\ open \in Seq(EntryType)
      /\ Len(open) \in Nat \ {0} /\ Body.kind \in BodyKind /\ scopes \in Seq(Seq(Object))
      /\ Len(scopes) \in Nat \ {0} /\ size \in SizeType
  BY <1>1, AtAStatement
<1>3. open # <<>> /\ scopes # <<>>
  BY <1>1, <1>2
<1>4. /\ Front(open) \in Seq(EntryType) /\ Len(Front(open)) = Len(open) - 1
      /\ \A i \in 1 .. Len(open) - 1 : Front(open)[i] = open[i]
  BY <1>2, <1>3, FrontLast
<1>5. Header \in EntryType /\ Header = Last(Front(open))
  <2>1. Len(open) - 1 \in 1 .. Len(open) - 1 /\ Len(open) - 1 \in 1 .. Len(open)
    BY <1>1, <1>2
  <2>2. open[Len(open) - 1] \in EntryType /\ Front(open)[Len(open) - 1] = open[Len(open) - 1]
    BY <1>2, <1>4, <2>1
  <2> QED BY <1>4, <2>2 DEF Header, Last
<1>6. Fits(Front(open), OuterScopes, loops)
  BY <1>1, <1>2, CloseBody DEF OuterScopes, Body
<1>7. Code(ExitBody)
  <2>1. Last(scopes) \in Seq(Object)
    BY <1>2, <1>3, FrontLast
  <2> QED BY <2>1, CodeParts DEF ExitBody
<1>8. OuterScopes \in Seq(Seq(Object)) /\ Len(OuterScopes) \in Nat \ {0}
  BY <1>6, NestedTop DEF Fits
<1>9. Last(OuterScopes) \in Seq(Object)
  <2>1. OuterScopes # <<>>
    BY <1>8
  <2> QED BY <1>8, <2>1, FrontLast
<1> QED BY <1>1, <1>2, <1>4, <1>5, <1>6, <1>7, <1>8, <1>9 DEF Visiting

LEMMA CloseBlockKeeps ==
  ASSUME NestingInv, CloseBlock
  PROVE  NestingInv'
<1>1. /\ BodyClosed /\ Header.kind \in BodyKind
      /\ code' = code \o ExitBody /\ scopes' = OuterScopes /\ open' = Front(open)
      /\ UNCHANGED <<loops, label, size, pc, alive>>
  BY DEF CloseBlock, BodyKind
<1>2. Visiting(open', scopes', loops', size')
  <2>1. /\ Len(open) \in Nat /\ Len(Front(open)) = Len(open) - 1 /\ Header = Last(Front(open))
        /\ Fits(Front(open), OuterScopes, loops) /\ Len(open) <= 1 + 2 * size.constructs
        /\ size \in SizeType
    BY <1>1, AtTheEndOfABody
  <2>2. Len(open') <= 1 + 2 * size'.constructs
    BY <1>1, <2>1 DEF SizeType
  <2> QED BY <1>1, <2>1, <2>2 DEF Visiting
<1>3. Emitted(code')
  BY <1>1, AtTheEndOfABody, EmittedGrows DEF NestingInv
<1>4. VisitStep
  BY <1>1, <1>2, <1>3, AtTheEndOfABody DEF VisitStep, NestingInv
<1> QED BY <1>4, VisitStepKeeps

LEMMA ElseKeeps ==
  ASSUME NestingInv, Else
  PROVE  NestingInv'
<1> DEFINE n == Header.n
           m == size.constructs + 1
           below == Front(Front(open))
           h == [Header EXCEPT !.kind = "else"]
<1>1. /\ BodyClosed /\ Header.kind = "if"
      /\ size.statements < MaxStatements /\ size.constructs < MaxConstructs
      /\ Count(0, 1) /\ UNCHANGED <<loops, label, pc, alive>>
  BY DEF Else
<1>2. PICK body \in BodyKinds("if") :
        /\ open' = below \o <<h, BodyEntry(body, m)>>
        /\ code' = code \o ExitBody \o JumpTo(<<n, "end">>) \o Mark(<<n, "else">>, Append(below, Header))
        /\ scopes' = OuterScopes \o BodyScopes(body)
  BY DEF Else
<1>3. body \in BodyKind \ {"function"}
  BY BodyKindsTyped
<1>4. /\ pc = 0 /\ Len(open) > 1 /\ Len(open) \in Nat /\ Len(open) <= 1 + 2 * size.constructs
      /\ Front(open) \in Seq(EntryType) /\ Len(Front(open)) = Len(open) - 1
      /\ Header \in EntryType /\ Header = Last(Front(open))
      /\ Fits(Front(open), OuterScopes, loops) /\ Code(ExitBody)
      /\ OuterScopes \in Seq(Seq(Object)) /\ size \in SizeType
  BY <1>1, AtTheEndOfABody
<1>5. size' \in SizeType /\ size'.constructs = m /\ m \in 0 .. MaxConstructs
  <2>1. size.objects + 0 <= MaxObjects
    BY <1>4, ConstantsAreNat DEF SizeType
  <2> QED BY <1>1, <1>4, <2>1, ConstructCounted
<1>6. /\ Len(Front(open)) > 1 /\ Last(below).kind \in BodyKind
      /\ Fits(below, OuterScopes, loops)
  <2>1. Last(Front(open)).kind \in HeadKind
    BY <1>1, <1>4 DEF HeadKind
  <2> QED BY <1>1, <1>4, <2>1, CloseHead
<1>7. below \in Seq(EntryType) /\ Append(below, Header) = Front(open) /\ Len(below) = Len(open) - 2
  <2>1. Front(open) # <<>>
    BY <1>4, <1>6
  <2>2. below \in Seq(EntryType) /\ Front(open) = Append(below, Header) /\ Len(below) = Len(Front(open)) - 1
    BY <1>4, <2>1, FrontLast
  <2> QED BY <1>4, <2>2
<1>8. h \in EntryType /\ h.kind = "else" /\ ~h.scan /\ n \in 0 .. MaxConstructs
  <2>0. /\ Header \in [kind : BodyKind \cup HeadKind, n : 0 .. MaxConstructs,
                       decls : Seq(Object), scan : BOOLEAN, other : BOOLEAN]
        /\ Header.scan = (Header.kind \in ScopeKind)
    BY <1>4 DEF EntryType
  <2>7. ~(Header.kind \in ScopeKind)
    BY <1>1 DEF ScopeKind
  <2>1. Header.scan \in BOOLEAN /\ ~Header.scan /\ Header.n \in 0 .. MaxConstructs
    BY <2>0, <2>7
  <2>2. "else" \in BodyKind \cup HeadKind /\ "else" \notin ScopeKind
    BY DEF HeadKind, ScopeKind
  <2>3. /\ h \in [kind : BodyKind \cup HeadKind, n : 0 .. MaxConstructs,
                  decls : Seq(Object), scan : BOOLEAN, other : BOOLEAN]
        /\ h.kind = "else" /\ h.scan = Header.scan
    BY <2>0, <2>2
  <2> HIDE DEF h
  <2>4. ~(h.kind \in ScopeKind)
    BY <2>2, <2>3
  <2>5. h.scan = (h.kind \in ScopeKind)
    BY <2>1, <2>3, <2>4
  <2>6. h \in EntryType
    BY <2>3, <2>5 DEF EntryType
  <2> QED BY <2>1, <2>3, <2>6
<1> HIDE DEF n, m, below, h
<1>9. Fits(Append(below, h), OuterScopes, loops)
  <2>1. h.kind \notin BreakKind /\ h.kind # "function"
    BY <1>8 DEF BreakKind
  <2> QED BY <1>4, <1>6, <1>8, <2>1, FitsPush
<1>10. /\ BodyEntry(body, m) \in EntryType
       /\ Fits(Append(Append(below, h), BodyEntry(body, m)), scopes', loops)
       /\ Last(Append(Append(below, h), BodyEntry(body, m))).kind = body
  BY <1>2, <1>3, <1>5, <1>9, OpenBody
<1>11. open' = Append(Append(below, h), BodyEntry(body, m)) /\ Len(open') = Len(below) + 2
  BY <1>2, <1>7, <1>8, <1>10, AppendTwo
<1>12. Visiting(open', scopes', loops', size')
  <2>1. Len(open') <= 1 + 2 * size'.constructs
    BY <1>4, <1>5, <1>7, <1>11 DEF SizeType, m
  <2> QED BY <1>1, <1>3, <1>10, <1>11, <2>1 DEF Visiting
<1>13. Emitted(code')
  <2>1. <<n, "end">> \in LabelName /\ <<n, "else">> \in LabelName
    BY <1>8 DEF LabelName
  <2>2. Code(JumpTo(<<n, "end">>)) /\ Code(Mark(<<n, "else">>, Append(below, Header)))
    BY <1>4, <1>7, <2>1, MarkIsCode, CodeParts
  <2>3. Emitted(code \o ExitBody)
    BY <1>4, EmittedGrows DEF NestingInv
  <2>4. Emitted(code \o ExitBody \o JumpTo(<<n, "end">>))
    BY <2>2, <2>3, EmittedGrows
  <2> QED BY <1>2, <2>2, <2>4, EmittedGrows DEF n
<1>14. VisitStep
  BY <1>1, <1>4, <1>5, <1>12, <1>13 DEF VisitStep, NestingInv
<1> QED BY <1>14, VisitStepKeeps

LEMMA EndingIsCode ==
  ASSUME NEW kind \in HeadKind, NEW n \in 0 .. MaxConstructs, NEW o \in Seq(EntryType), o # <<>>,
         Last(OuterScopes) \in Seq(Object)
  PROVE  Code(Ending(kind, n, o))
<1>1. /\ <<n, "start">> \in LabelName /\ <<n, "next">> \in LabelName
      /\ <<n, "end">> \in LabelName /\ <<n, "else">> \in LabelName
  BY DEF LabelName
<1>2. Front(o) \in Seq(EntryType)
  BY FrontLast
<1>3. \A l \in LabelName : Code(JumpTo(l)) /\ Code(BranchTo(l)) /\ Code(Mark(l, o)) /\ Code(Mark(l, Front(o)))
  BY <1>2, CodeParts, MarkIsCode
<1>4. Code(Destroy(Last(OuterScopes)))
  BY CodeParts
<1>5. \A s, t : Code(s) /\ Code(t) => Code(s \o t)
  BY CodeParts
<1>6. CASE kind = "if"
  BY <1>1, <1>3, <1>6 DEF Ending
<1>7. CASE kind = "else"
  BY <1>1, <1>3, <1>7 DEF Ending
<1>8. CASE kind = "while"
  BY <1>1, <1>3, <1>5, <1>8 DEF Ending
<1>9. CASE kind = "do"
  BY <1>1, <1>3, <1>5, <1>9 DEF Ending
<1>10. CASE kind = "for"
  BY <1>1, <1>3, <1>4, <1>5, <1>10 DEF Ending
<1>11. CASE kind = "range"
  BY <1>1, <1>3, <1>4, <1>5, <1>11 DEF Ending
<1>12. CASE kind = "switch"
  BY <1>1, <1>3, <1>12 DEF Ending
<1> QED BY <1>6, <1>7, <1>8, <1>9, <1>10, <1>11, <1>12 DEF HeadKind, BreakKind

LEMMA CloseStatementKeeps ==
  ASSUME NestingInv, CloseStatement
  PROVE  NestingInv'
<1>1. /\ BodyClosed /\ Header.kind \in HeadKind
      /\ code' = code \o ExitBody \o Ending(Header.kind, Header.n, Front(open))
      /\ scopes' = IF Header.kind \in {"for", "range"} THEN Front(OuterScopes) ELSE OuterScopes
      /\ loops' = IF Header.kind \in {"if", "else"} THEN loops ELSE Front(loops)
      /\ open' = Front(Front(open)) /\ UNCHANGED <<label, size, pc, alive>>
  BY DEF CloseStatement, HeadKind, BreakKind
<1>2. /\ pc = 0 /\ Len(open) > 1 /\ Len(open) \in Nat /\ Len(open) <= 1 + 2 * size.constructs
      /\ Front(open) \in Seq(EntryType) /\ Len(Front(open)) = Len(open) - 1
      /\ Header \in EntryType /\ Header = Last(Front(open))
      /\ Fits(Front(open), OuterScopes, loops) /\ Code(ExitBody)
      /\ Last(OuterScopes) \in Seq(Object)
  BY <1>1, AtTheEndOfABody
<1>3. /\ Len(Front(open)) > 1 /\ Last(open').kind \in BodyKind
      /\ Fits(open', scopes', loops')
  BY <1>1, <1>2, CloseHead
<1>4. Front(open) # <<>>
  BY <1>2, <1>3
<1>5. Len(open') = Len(open) - 2
  BY <1>1, <1>2, <1>4, FrontLast
<1>6. Visiting(open', scopes', loops', size')
  BY <1>1, <1>2, <1>3, <1>5 DEF Visiting, NestingInv, SizeType
<1>7. Emitted(code')
  <2>1. Header.n \in 0 .. MaxConstructs
    BY <1>2 DEF EntryType
  <2>2. Code(Ending(Header.kind, Header.n, Front(open)))
    BY <1>1, <1>2, <1>4, <2>1, EndingIsCode
  <2>3. Emitted(code \o ExitBody)
    BY <1>2, EmittedGrows DEF NestingInv
  <2> QED BY <1>1, <2>2, <2>3, EmittedGrows
<1>8. VisitStep
  BY <1>1, <1>2, <1>6, <1>7 DEF VisitStep, NestingInv
<1> QED BY <1>8, VisitStepKeeps


LEMMA MaximumExists ==
  \A n \in Nat : \A T \in SUBSET (1 .. n) : T # {} => \E i \in T : \A j \in T : j <= i
<1> DEFINE S == {n \in Nat : \A T \in SUBSET (1 .. n) : T # {} => \E i \in T : \A j \in T : j <= i}
<1>1. 0 \in S
  <2>1. \A T \in SUBSET (1 .. 0) : \A i \in T : FALSE
    OBVIOUS
  <2>2. \A T \in SUBSET (1 .. 0) : T # {} => \E i \in T : \A j \in T : j <= i
    BY ONLY <2>1
  <2> QED BY ONLY <2>2, 0 \in Nat
<1>2. ASSUME NEW n \in Nat, n \in S PROVE n + 1 \in S
  <2>1. ASSUME NEW T \in SUBSET (1 .. n + 1), T # {}
        PROVE  \E i \in T : \A j \in T : j <= i
    <3>1. CASE n + 1 \in T
      BY <3>1
    <3>2. CASE n + 1 \notin T
      <4>1. \A j \in T : j \in 1 .. n
        BY <3>2
      <4>2. T \in SUBSET (1 .. n)
        BY <4>1
      <4> QED BY <1>2, <2>1, <4>2
    <3> QED BY <3>1, <3>2
  <2>2. n + 1 \in Nat
    OBVIOUS
  <2>3. \A T \in SUBSET (1 .. n + 1) : T # {} => \E i \in T : \A j \in T : j <= i
    BY ONLY <2>1
  <2> QED BY ONLY <2>2, <2>3
<1> HIDE DEF S
<1>3. \A n \in Nat : n \in S
  BY <1>1, <1>2, NaturalInduction
<1> QED BY <1>3 DEF S

LEMMA ExitIsCode ==
  ASSUME scopes \in Seq(Seq(Object)), NEW depth \in Nat
  PROVE  Code(NonLocalExit(depth))
<1>0. Len(scopes) \in Nat
  BY LenProperties
<1>1. Len(scopes) \in Int /\ depth + 1 \in Int /\ \A i \in depth + 1 .. Len(scopes) : scopes[i] \in Seq(Object)
  <2>1. \A i \in depth + 1 .. Len(scopes) : i \in 1 .. Len(scopes)
    BY <1>0
  <2> QED BY <1>0, <2>1, ElementOfSeq
<1>2. SubSeq(scopes, depth + 1, Len(scopes)) \in Seq(Seq(Object))
  BY <1>1, SubSeqProperties
<1> DEFINE ss == SubSeq(scopes, depth + 1, Len(scopes))
<1> HIDE DEF ss
<1>3. FlattenSeq(ss) \in Seq(Object)
  BY <1>2, FlattenAppend, EmptySeq DEF ss
<1> QED BY <1>3, CodeParts DEF NonLocalExit, ss

\* Break and continue leave the scopes that the innermost loop's entry says.
LEMMA LeavingIsCode ==
  ASSUME NestingInv, pc = 0, NEW target \in LabelName, NEW meant \in LabelName,
         "continue" \in Shapes \/ target = meant, Len(loops) > 0, Leave(target, meant)
  PROVE  Emitted(code')
<1> DEFINE c == [Instr("jump", target, <<>>) EXCEPT !.meant = meant]
<1>1. scopes \in Seq(Seq(Object)) /\ loops \in Seq(LoopType)
  BY AtAStatement DEF Fits
<1>2. Last(loops).depth \in Nat
  <2>1. Last(loops) \in LoopType
    BY <1>1 DEF Last
  <2> QED BY <2>1 DEF LoopType
<1>3. Code(NonLocalExit(Last(loops).depth))
  BY <1>1, <1>2, ExitIsCode
<1>4. c \in InstrType /\ (target = meant => c.meant = c.arg)
  <2>1. <<>> \in Seq(Object)
    BY EmptySeq
  <2> QED BY <2>1 DEF Instr, InstrType, Argument
<1>5. Emitted(code \o NonLocalExit(Last(loops).depth))
  BY <1>3, EmittedGrows DEF NestingInv
<1>6. code' = code \o NonLocalExit(Last(loops).depth) \o <<c>>
  BY DEF Leave
<1> HIDE DEF c
<1>7. <<c>> \in Seq(InstrType) /\ (target = meant => AsMeant(<<c>>))
  BY <1>4, CodeOfOne DEF Code
<1> QED BY <1>5, <1>6, <1>7, CodeConcat DEF Emitted

\* The statement that break and continue belong to.
LEMMA InnermostStatement ==
  ASSUME NestingInv, pc = 0, Breakable # {}
  PROVE  LET m == Innermost(Breakable) IN
         /\ m \in Breakable /\ m \in 1 .. Len(open) /\ open[m].n \in 0 .. MaxConstructs
         /\ Len(loops) > 0
         /\ Last(loops) = LoopEntry(open[m].n, open[m].kind, KeptScopes(open, m))
<1>1. open \in Seq(EntryType) /\ loops \in Seq(LoopType) /\ LoopsFit(open, loops)
  BY AtAStatement DEF Fits
<1>2. Breakable = {i \in 1 .. Len(open) : open[i].kind \in BreakKind}
  BY <1>1 DEF Breakable, BreakKind
<1>3. /\ loops # <<>> /\ Innermost(Breakable) \in Breakable
      /\ Last(loops) = LoopEntry(open[Innermost(Breakable)].n, open[Innermost(Breakable)].kind,
                                 KeptScopes(open, Innermost(Breakable)))
  BY <1>1, <1>2, InnermostLoop
<1>4. Len(loops) > 0
  BY <1>1, <1>3, EmptySeq
<1>5. Innermost(Breakable) \in 1 .. Len(open)
  BY <1>2, <1>3
<1>6. open[Innermost(Breakable)].n \in 0 .. MaxConstructs
  BY <1>1, <1>5 DEF EntryType
<1> QED BY <1>3, <1>4, <1>5, <1>6

LEMMA BreakKeeps ==
  ASSUME NestingInv, Break
  PROVE  NestingInv'
<1> DEFINE m == Innermost(Breakable)
<1>1. /\ pc = 0 /\ size.statements < MaxStatements /\ Breakable # {}
      /\ Leave(Last(loops).end, <<open[m].n, "end">>)
      /\ open' = Added(open) /\ Count(0, 0) /\ UNCHANGED <<scopes, loops, label, pc, alive>>
  BY DEF Break, Room
<1>2. /\ open[m].n \in 0 .. MaxConstructs /\ Len(loops) > 0
      /\ Last(loops).end = <<open[m].n, "end">>
  BY <1>1, InnermostStatement DEF LoopEntry
<1>3. <<open[m].n, "end">> \in LabelName
  BY <1>2 DEF LabelName
<1>4. Emitted(code')
  BY <1>1, <1>2, <1>3, LeavingIsCode
<1>5. label' \in LabelType
  BY <1>1 DEF NestingInv
<1> QED BY <1>1, <1>4, <1>5, StatementAdded

LEMMA ContinueKeeps ==
  ASSUME NestingInv, Continue
  PROVE  NestingInv'
<1> DEFINE i == Innermost(Loops)
           m == Innermost(Breakable)
           meant == <<open[i].n, IF open[i].kind = "while" THEN "start" ELSE "next">>
<1>1. /\ pc = 0 /\ size.statements < MaxStatements /\ Loops # {}
      /\ i = m \/ "continue" \in Shapes
      /\ Leave(Last(loops).next, meant)
      /\ open' = Added(open) /\ Count(0, 0) /\ UNCHANGED <<scopes, loops, label, pc, alive>>
  BY DEF Continue, Room
<1>2. open \in Seq(EntryType) /\ Len(open) \in Nat /\ loops \in Seq(LoopType)
  BY <1>1, AtAStatement DEF Fits
<1>3. Loops \in SUBSET (1 .. Len(open)) /\ Breakable # {} /\ Loops \subseteq Breakable
  BY <1>1, <1>2 DEF Loops, Breakable
<1>4. i \in Loops
  <2>1. \E k \in Loops : \A j \in Loops : j <= k
    BY <1>1, <1>2, <1>3, MaximumExists
  <2> QED BY <2>1 DEF Innermost
<1>5. open[i].kind # "switch" /\ open[i] \in EntryType
  BY <1>2, <1>3, <1>4 DEF Loops
<1>6. meant \in LabelName
  BY <1>5 DEF LabelName, EntryType
<1>7. /\ Len(loops) > 0
      /\ Last(loops) = LoopEntry(open[m].n, open[m].kind, KeptScopes(open, m))
  BY <1>1, <1>3, InnermostStatement
<1>8. Last(loops).next \in LabelName
  <2>1. Last(loops) \in LoopType
    BY <1>2, <1>7 DEF Last
  <2> QED BY <2>1 DEF LoopType, LabelName
<1>9. i = m => Last(loops).next = meant
  BY <1>5, <1>7 DEF LoopEntry, LoopNext
<1> HIDE DEF i, m, meant
<1>10. Emitted(code')
  BY <1>1, <1>6, <1>7, <1>8, <1>9, LeavingIsCode
<1>11. label' \in LabelType
  BY <1>1 DEF NestingInv
<1> QED BY <1>1, <1>10, <1>11, StatementAdded

LEMMA ReturnKeeps ==
  ASSUME NestingInv, Return
  PROVE  NestingInv'
<1> DEFINE c == Instr("return", 0, <<>>)
<1>1. /\ pc = 0 /\ size.statements < MaxStatements
      /\ code' = code \o NonLocalExit(0) \o <<c>>
      /\ open' = Added(open) /\ Count(0, 0) /\ UNCHANGED <<scopes, loops, label, pc, alive>>
  BY DEF Return, Room
<1>2. Code(NonLocalExit(0))
  BY <1>1, AtAStatement, ExitIsCode
<1>3. c \in InstrType /\ c.meant = c.arg
  <2>1. <<>> \in Seq(Object)
    BY EmptySeq
  <2> QED BY <2>1 DEF Instr, InstrType, Argument
<1> HIDE DEF c
<1>4. Emitted(code \o NonLocalExit(0))
  BY <1>2, EmittedGrows DEF NestingInv
<1>5. Emitted(code')
  BY <1>1, <1>3, <1>4, CodeOfOne, EmittedGrows
<1>6. label' \in LabelType
  BY <1>1 DEF NestingInv
<1> QED BY <1>1, <1>5, <1>6, StatementAdded

\* What prescanLabels finds is the depth of a prefix of the stack.
LEMMA DepthTyped ==
  ASSUME NestingInv, pc = 0, NEW i \in 1 .. Len(open)
  PROVE  /\ [depth |-> PrescanDepth(SubSeq(open, 1, i)), body |-> open[i].n] \in LabelType
         /\ [depth |-> PrescanDepth(open), body |-> open[i].n] \in LabelType
<1>1. /\ open \in Seq(EntryType) /\ Len(open) \in Nat \ {0} /\ Len(open) <= 1 + 2 * size.constructs
      /\ size \in SizeType
  BY AtAStatement DEF Visiting
<1>2. PrescanDepth(SubSeq(open, 1, i)) = Below(open, i) /\ PrescanDepth(open) = Below(open, Len(open))
  BY <1>1, BelowIsDepth
<1>3. Below(open, i) \in Nat /\ Below(open, i) <= i /\ Below(open, Len(open)) \in Nat /\ Below(open, Len(open)) <= Len(open)
  BY <1>1, BelowFacts
<1>4. Len(open) <= 1 + 2 * MaxConstructs
  BY <1>1, ConstantsAreNat DEF SizeType
<1>5. Below(open, i) \in 0 .. 1 + 2 * MaxConstructs /\ Below(open, Len(open)) \in 0 .. 1 + 2 * MaxConstructs
  BY <1>1, <1>3, <1>4, ConstantsAreNat
<1>6. open[i].n \in 0 .. MaxConstructs
  BY <1>1 DEF EntryType
<1> QED BY <1>2, <1>5, <1>6 DEF LabelType

LEMMA GotoKeeps ==
  ASSUME NestingInv, Goto
  PROVE  NestingInv'
<1> DEFINE c == [Instr("jump", UserLabel, InScope(open)) EXCEPT !.op = "goto"]
<1>1. /\ pc = 0 /\ size.statements < MaxStatements /\ label' \in Labels
      /\ code' = code \o NonLocalExit(label'.depth) \o <<c>>
      /\ open' = Added(open) /\ Count(0, 0) /\ UNCHANGED <<scopes, loops, pc, alive>>
  BY DEF Goto, Room
<1>2. open \in Seq(EntryType) /\ scopes \in Seq(Seq(Object))
  BY <1>1, AtAStatement
<1>3. label' \in LabelType
  <2>1. CASE label # NoLabel
    BY <1>1, <2>1 DEF Labels, NestingInv
  <2>2. CASE label = NoLabel
    <3>1. \A i \in LabelBodies :
            [depth |-> PrescanDepth(SubSeq(open, 1, i)), body |-> open[i].n] \in LabelType
      <4>1. \A i \in LabelBodies : i \in 1 .. Len(open)
        BY <1>2 DEF LabelBodies
      <4> QED BY <1>1, <4>1, DepthTyped
    <3>2. [depth : 1 .. 1 + 2 * MaxConstructs, body : 1 .. MaxConstructs] \subseteq LabelType
      BY ConstantsAreNat DEF LabelType
    <3> QED BY <1>1, <2>2, <3>1, <3>2 DEF Labels
  <2> QED BY <2>1, <2>2
<1>4. Code(NonLocalExit(label'.depth))
  <2>1. label'.depth \in Nat
    BY <1>3 DEF LabelType
  <2> QED BY <1>2, <2>1, ExitIsCode
<1>5. c \in InstrType /\ c.meant = c.arg
  <2>1. InScope(open) \in Seq(Object)
    BY <1>2, InScopeFacts
  <2>2. UserLabel \in LabelName
    BY ConstantsAreNat DEF UserLabel, LabelName
  <2> QED BY <2>1, <2>2 DEF Instr, InstrType, Argument
<1> HIDE DEF c
<1>6. Emitted(code \o NonLocalExit(label'.depth))
  BY <1>4, EmittedGrows DEF NestingInv
<1>7. Emitted(code')
  BY <1>1, <1>5, <1>6, CodeOfOne, EmittedGrows
<1> QED BY <1>1, <1>3, <1>7, StatementAdded

LEMMA LabelKeeps ==
  ASSUME NestingInv, Label
  PROVE  NestingInv'
<1>1. /\ pc = 0 /\ size.statements < MaxStatements
      /\ label' = [depth |-> PrescanDepth(open), body |-> Body.n]
      /\ code' = code \o Mark(UserLabel, open)
      /\ open' = Added(open) /\ Count(0, 0) /\ UNCHANGED <<scopes, loops, pc, alive>>
  BY DEF Label
<1>2. open \in Seq(EntryType) /\ Len(open) \in Nat \ {0}
  BY <1>1, AtAStatement
<1>3. label' \in LabelType
  <2>1. Len(open) \in 1 .. Len(open) /\ Body = open[Len(open)]
    BY <1>2 DEF Body, Last
  <2> QED BY <1>1, <2>1, DepthTyped
<1>4. Emitted(code')
  <2>1. UserLabel \in LabelName
    BY ConstantsAreNat DEF UserLabel, LabelName
  <2> QED BY <1>1, <1>2, <2>1, MarkIsCode, EmittedGrows DEF NestingInv
<1> QED BY <1>1, <1>3, <1>4, StatementAdded

LEMMA EndFunctionKeeps ==
  ASSUME NestingInv, EndFunction
  PROVE  NestingInv'
<1> DEFINE c == Instr("return", 0, <<>>)
<1>1. /\ pc = 0 /\ Body.kind = "function"
      /\ code' = code \o Destroy(Last(scopes)) \o <<c>>
      /\ scopes' = <<>> /\ open' = <<>> /\ pc' = 1
      /\ UNCHANGED <<loops, label, size, alive>>
  BY DEF EndFunction
<1>2. Fits(open, scopes, loops) /\ scopes \in Seq(Seq(Object)) /\ Len(scopes) \in Nat \ {0}
  BY <1>1, AtAStatement
<1>3. loops = <<>>
  <2>1. Len(open) = 1 /\ open[1].kind = "function" /\ loops \in Seq(LoopType)
    BY <1>1, <1>2, NestedTop DEF Fits, Nested, Body
  <2>2. PICK f : Matches(open, loops, f)
    BY <1>2 DEF Fits, LoopsFit
  <2>3. ASSUME Len(loops) > 0 PROVE FALSE
    <3>1. 1 \in 1 .. Len(loops)
      BY <2>1, <2>3
    <3>2. f[1] = 1
      BY <2>1, <2>2, <3>1 DEF Matches
    <3>3. open[1].kind \in BreakKind
      BY <2>1, <2>2, <3>1, <3>2 DEF Matches
    <3> QED BY <2>1, <3>3 DEF BreakKind
  <2>4. Len(loops) = 0
    BY <2>1, <2>3
  <2> QED BY <2>1, <2>4, EmptySeq
<1>4. Code(Destroy(Last(scopes)))
  <2>1. Last(scopes) \in Seq(Object)
    BY <1>2 DEF Last
  <2> QED BY <2>1, CodeParts
<1>5. c \in InstrType /\ c.meant = c.arg /\ c.op = "return"
  <2>1. <<>> \in Seq(Object)
    BY EmptySeq
  <2> QED BY <2>1 DEF Instr, InstrType, Argument
<1> HIDE DEF c
<1>6. Emitted(code \o Destroy(Last(scopes)))
  BY <1>4, EmittedGrows DEF NestingInv
<1>7. Emitted(code') /\ code' # <<>> /\ Last(code').op = "return"
  <2>1. Code(<<c>>) /\ <<c>> \in Seq(InstrType) /\ <<c>> # <<>> /\ Last(<<c>>) = c
    BY <1>5, CodeOfOne
  <2>2. Emitted(code')
    BY <1>1, <1>6, <2>1, EmittedGrows
  <2>3. code' # <<>> /\ Last(code') = c
    BY <1>1, <1>6, <2>1, CodeConcat DEF Emitted
  <2> QED BY <1>5, <2>2, <2>3
<1>8. pc' \in 0 .. Len(code')
  <2>1. Len(code') \in Nat \ {0}
    BY <1>7, EmptySeq DEF Emitted
  <2> QED BY <1>1, <2>1
<1> QED BY <1>1, <1>3, <1>7, <1>8 DEF NestingInv, Emitted


-----------------------------------------------------------------------------
(* The run.                                                                 *)

LEMMA ConstructKeeps ==
  ASSUME NestingInv, Construct
  PROVE  NestingInv'
<1>1. /\ pc > 0 /\ Here.op = "make" /\ alive' = Append(alive, Here.arg) /\ pc' = pc + 1
      /\ UNCHANGED <<code, scopes, loops, open, label, size>>
  BY DEF Construct, Fetch
<1>2. code \in Seq(InstrType) /\ Len(code) \in Nat /\ pc \in 1 .. Len(code)
  BY <1>1 DEF NestingInv, Emitted
<1>3. Here \in InstrType
  BY <1>2 DEF Here
<1>4. alive' \in Seq(Object)
  <2>1. Here.arg \in Object
    BY <1>1, <1>3 DEF InstrType
  <2> QED BY <1>1, <2>1, AppendProperties DEF NestingInv
<1>5. pc # Len(code)
  BY <1>1, <1>2 DEF NestingInv, Last, Here
<1>6. pc' \in 0 .. Len(code') /\ pc' # 0 /\ pc # 0
  BY <1>1, <1>2, <1>5
<1> QED BY <1>1, <1>4, <1>6 DEF NestingInv

\* Taking one object out of those alive leaves objects.
LEMMA RemovedTyped ==
  ASSUME NEW s \in Seq(Object), NEW x, Contains(s, x)
  PROVE  LET I == {i \in 1 .. Len(s) : s[i] = x} IN I # {} /\ RemoveAt(s, Max(I)) \in Seq(Object)
<1> DEFINE I == {i \in 1 .. Len(s) : s[i] = x}
           m == CHOOSE i \in I : \A j \in I : i >= j
<1>1. I # {} /\ I \in SUBSET (1 .. Len(s)) /\ Len(s) \in Nat
  BY DEF Contains
<1>2. m \in 1 .. Len(s)
  <2>1. PICK i \in I : \A j \in I : j <= i
    BY <1>1, MaximumExists
  <2>2. \A j \in I : i >= j
    BY <1>1, <2>1
  <2>3. m \in I
    BY <2>2
  <2> QED BY <2>3
<1>3. Max(I) = m
  BY DEF Max
<1> HIDE DEF m
<1>4. /\ SubSeq(s, 1, m - 1) \in Seq(Object) /\ SubSeq(s, m + 1, Len(s)) \in Seq(Object)
  <2>1. 1 \in Int /\ m - 1 \in Int /\ m + 1 \in Int /\ Len(s) \in Int
    BY <1>1, <1>2
  <2>2. \A i \in 1 .. m - 1 : i \in 1 .. Len(s)
    BY <1>1, <1>2
  <2>3. \A i \in m + 1 .. Len(s) : i \in 1 .. Len(s)
    BY <1>1, <1>2
  <2>4. (\A i \in 1 .. m - 1 : s[i] \in Object) /\ (\A i \in m + 1 .. Len(s) : s[i] \in Object)
    BY <2>2, <2>3, ElementOfSeq
  <2> QED BY <2>1, <2>4, SubSeqProperties
<1>5. RemoveAt(s, m) \in Seq(Object)
  BY <1>4, ConcatProperties DEF RemoveAt
<1> QED BY <1>1, <1>3, <1>5

LEMMA DestructKeeps ==
  ASSUME NestingInv, Destruct
  PROVE  NestingInv'
<1>1. /\ pc > 0 /\ Here.op = "destroy" /\ pc' = pc + 1
      /\ alive' = IF Contains(alive, Here.arg)
                  THEN RemoveAt(alive, SelectLastInSeq(alive, LAMBDA x : x = Here.arg)) ELSE alive
      /\ UNCHANGED <<code, scopes, loops, open, label, size>>
  BY DEF Destruct, Fetch
<1>2. code \in Seq(InstrType) /\ Len(code) \in Nat /\ pc \in 1 .. Len(code) /\ alive \in Seq(Object)
  BY <1>1 DEF NestingInv, Emitted
<1>4. alive' \in Seq(Object)
  <2>1. CASE Contains(alive, Here.arg)
    <3> DEFINE I == {i \in 1 .. Len(alive) : alive[i] = Here.arg}
    <3>1. I # {} /\ RemoveAt(alive, Max(I)) \in Seq(Object)
      BY <1>2, <2>1, RemovedTyped
    <3>2. SelectLastInSeq(alive, LAMBDA x : x = Here.arg) = Max(I)
      BY <3>1 DEF SelectLastInSeq
    <3> HIDE DEF I
    <3>3. alive' = RemoveAt(alive, Max(I))
      BY <1>1, <2>1, <3>2
    <3> QED BY <3>1, <3>3
  <2>2. CASE ~Contains(alive, Here.arg)
    BY <1>1, <1>2, <2>2
  <2> QED BY <2>1, <2>2
<1>5. pc # Len(code)
  BY <1>1, <1>2 DEF NestingInv, Last, Here
<1>6. pc' \in 0 .. Len(code') /\ pc' # 0 /\ pc # 0
  BY <1>1, <1>2, <1>5
<1> QED BY <1>1, <1>4, <1>6 DEF NestingInv

LEMMA GoKeeps ==
  ASSUME NestingInv, Go
  PROVE  NestingInv'
<1>1. /\ pc > 0 /\ UNCHANGED <<code, scopes, loops, open, label, size, alive>>
      /\ Here.op # "return"
      /\ pc' = pc + 1 \/ \E l : pc' \in Places(l)
  BY DEF Go, Fetch, GoTo
<1>2. code \in Seq(InstrType) /\ Len(code) \in Nat /\ pc \in 1 .. Len(code)
  BY <1>1 DEF NestingInv, Emitted
<1>3. pc # Len(code)
  BY <1>1, <1>2 DEF NestingInv, Last, Here
<1>4. \A l : Places(l) \subseteq 1 .. Len(code)
  BY <1>2 DEF Places
<1>5. pc' \in 0 .. Len(code') /\ pc' # 0 /\ pc # 0
  BY <1>1, <1>2, <1>3, <1>4
<1> QED BY <1>1, <1>5 DEF NestingInv

-----------------------------------------------------------------------------
(* The invariant.                                                           *)

LEMMA CleanupInitially ==
  ASSUME CleanupInit
  PROVE  NestingInv
<1> DEFINE e == Entry("function", 0, <<>>, TRUE)
<1>1. /\ code = <<>> /\ scopes = <<<<>>>> /\ loops = <<>> /\ open = <<e>> /\ label = NoLabel
      /\ size = [statements |-> 0, objects |-> 0, constructs |-> 0] /\ pc = 0 /\ alive = <<>>
  BY DEF CleanupInit
<1>2. e \in EntryType /\ e.kind = "function" /\ e.scan
  <2>1. "function" \in BodyKind \cup HeadKind /\ "function" \in ScopeKind /\ 0 \in 0 .. MaxConstructs
    BY ConstantsAreNat DEF BodyKind, ScopeKind
  <2>2. <<>> \in Seq(Object) /\ TRUE \in BOOLEAN /\ (TRUE <=> "function" \in ScopeKind)
    BY <2>1, EmptySeq
  <2>3. IsEntry(e, "function", 0, <<>>)
    BY <2>1, <2>2, EntryTyped
  <2> QED BY <2>1, <2>3 DEF IsEntry
<1> HIDE DEF e
<1>3. Emitted(code)
  BY <1>1, EmptySeq DEF Emitted, AsMeant
<1>4. size \in SizeType /\ label \in LabelType /\ pc \in 0 .. Len(code) /\ alive \in Seq(Object)
  BY <1>1, ConstantsAreNat, EmptySeq DEF SizeType, LabelType, NoLabel
<1>5. open \in Seq(EntryType) /\ Len(open) = 1 /\ open[1] = e /\ open # <<>> /\ Last(open) = e
  BY <1>1, <1>2 DEF Last
<1>6. Nested(open)
  <2>1. 2 .. Len(open) = {}
    BY <1>5
  <2> QED BY <1>2, <1>5, <2>1 DEF Nested
<1>7. scopes \in Seq(Seq(Object)) /\ Len(scopes) = Below(open, Len(open))
  <2>1. Below(open, 0 + 1) = IF open[0 + 1].scan THEN Below(open, 0) + 1 ELSE Below(open, 0)
    BY BelowFacts
  <2>2. Below(open, 0) = 0
    BY BelowFacts
  <2>3. Below(open, 1) = 1
    BY <1>2, <1>5, <2>1, <2>2
  <2>4. <<>> \in Seq(Object)
    BY EmptySeq
  <2> QED BY <1>1, <1>5, <2>3, <2>4
<1>8. loops \in Seq(LoopType) /\ LoopsFit(open, loops)
  <2> DEFINE f == [k \in 1 .. 0 |-> 1]
  <2>1. Len(loops) = 0 /\ loops \in Seq(LoopType)
    BY <1>1, EmptySeq
  <2>2. f \in [1 .. Len(loops) -> 1 .. Len(open)]
    BY <2>1
  <2> HIDE DEF f
  <2>3. 1 .. Len(loops) = {}
    BY <2>1
  <2>4. \A i \in 1 .. Len(open) : open[i].kind \notin BreakKind
    BY <1>2, <1>5 DEF BreakKind
  <2>5. Matches(open, loops, f)
    BY <2>2, <2>3, <2>4 DEF Matches
  <2> QED BY <2>1, <2>5 DEF LoopsFit
<1>9. Visiting(open, scopes, loops, size)
  <2>1. Len(open) <= 1 + 2 * size.constructs
    BY <1>1, <1>5
  <2> QED BY <1>2, <1>5, <1>6, <1>7, <1>8, <2>1 DEF Visiting, Fits, BodyKind
<1> QED BY <1>1, <1>3, <1>4, <1>9 DEF NestingInv

LEMMA CleanupStutters ==
  ASSUME NestingInv, UNCHANGED cleanupVars
  PROVE  NestingInv'
BY DEF NestingInv, cleanupVars

LEMMA NestingInvariant == CleanupSpec => []NestingInv
<1>1. CleanupInit => NestingInv
  BY CleanupInitially
<1>2. NestingInv /\ [CleanupNext]_cleanupVars => NestingInv'
  <2> SUFFICES ASSUME NestingInv, [CleanupNext]_cleanupVars PROVE NestingInv'
    OBVIOUS
  <2>1. CASE Declare BY <2>1, DeclareKeeps
  <2>2. CASE OpenBlock BY <2>2, OpenBlockKeeps
  <2>3. CASE OpenIf BY <2>3, OpenIfKeeps
  <2>4. CASE \E kind \in {"while", "do"} : OpenLoop(kind) BY <2>4, OpenLoopKeeps
  <2>5. CASE OpenFor BY <2>5, OpenForKeeps
  <2>6. CASE OpenRange BY <2>6, OpenRangeKeeps
  <2>7. CASE OpenSwitch BY <2>7, OpenSwitchKeeps
  <2>8. CASE Case BY <2>8, CaseKeeps
  <2>9. CASE CloseBlock BY <2>9, CloseBlockKeeps
  <2>10. CASE Else BY <2>10, ElseKeeps
  <2>11. CASE CloseStatement BY <2>11, CloseStatementKeeps
  <2>12. CASE Break BY <2>12, BreakKeeps
  <2>13. CASE Continue BY <2>13, ContinueKeeps
  <2>14. CASE Return BY <2>14, ReturnKeeps
  <2>15. CASE Goto BY <2>15, GotoKeeps
  <2>16. CASE Label BY <2>16, LabelKeeps
  <2>17. CASE EndFunction BY <2>17, EndFunctionKeeps
  <2>18. CASE Construct BY <2>18, ConstructKeeps
  <2>19. CASE Destruct BY <2>19, DestructKeeps
  <2>20. CASE Go BY <2>20, GoKeeps
  <2>21. CASE UNCHANGED cleanupVars BY <2>21, CleanupStutters
  <2> QED BY <2>1, <2>2, <2>3, <2>4, <2>5, <2>6, <2>7, <2>8, <2>9, <2>10, <2>11, <2>12, <2>13,
             <2>14, <2>15, <2>16, <2>17, <2>18, <2>19, <2>20, <2>21 DEF CleanupNext
<1> QED BY <1>1, <1>2, PTL DEF CleanupSpec

\* A stack of loops never refers to a scope that is not open.
LEMMA TypesFollow == NestingInv => CleanupTypeOK
<1> SUFFICES ASSUME NestingInv PROVE CleanupTypeOK
  OBVIOUS
<1>1. code \in Seq(InstrType) /\ DOMAIN code = 1 .. Len(code)
  BY DEF NestingInv, Emitted
<1>2. \A i \in DOMAIN code :
        /\ code[i].op \in {"make", "destroy", "label", "jump", "branch", "dispatch", "goto", "return"}
        /\ code[i].scope \in Seq(1 .. MaxObjects)
  BY <1>1 DEF InstrType, Object
<1>3. /\ \A i \in DOMAIN scopes : scopes[i] \in Seq(1 .. MaxObjects)
      /\ \A i \in DOMAIN loops : loops[i].depth \in 1 .. Len(scopes)
  <2>1. CASE pc = 0
    <3>1. /\ Fits(open, scopes, loops) /\ open \in Seq(EntryType) /\ Len(open) \in Nat \ {0}
          /\ scopes \in Seq(Seq(Object)) /\ loops \in Seq(LoopType) /\ Nested(open)
      BY <2>1, AtAStatement DEF Fits
    <3>2. PICK f : Matches(open, loops, f)
      BY <3>1 DEF Fits, LoopsFit
    <3>3. ASSUME NEW k \in 1 .. Len(loops) PROVE loops[k].depth \in 1 .. Len(scopes)
      <4> DEFINE i == f[k]
      <4>1. i \in 1 .. Len(open) /\ loops[k] = LoopEntry(open[i].n, open[i].kind, KeptScopes(open, i))
        BY <3>2 DEF Matches
      <4> HIDE DEF i
      <4>2. loops[k].depth = KeptScopes(open, i)
        BY <4>1 DEF LoopEntry
      <4>3. \A j \in 1 .. Len(open) : Below(open, j) \in 1 .. Len(scopes)
        <5>1. Len(scopes) = Below(open, Len(open)) /\ Below(open, Len(open)) \in Nat
          BY <3>1, NestedTop DEF Fits
        <5>2. \A j \in 1 .. Len(open) : /\ Below(open, j) >= 1 /\ Below(open, j) <= Below(open, Len(open))
                                        /\ Below(open, j) \in Nat
          BY <3>1, NestedTop, BelowFacts
        <5> QED BY <5>1, <5>2
      <4>4. CASE open[i].kind = "range"
        <5>1. i # 1
          BY <3>1, <4>4 DEF Nested
        <5>2. i - 1 \in 1 .. Len(open)
          BY <3>1, <4>1, <5>1
        <5> QED BY <4>2, <4>3, <4>4, <5>2 DEF KeptScopes
      <4>5. CASE open[i].kind # "range"
        BY <4>1, <4>2, <4>3, <4>5 DEF KeptScopes
      <4> QED BY <4>4, <4>5
    <3>4. DOMAIN loops = 1 .. Len(loops) /\ DOMAIN scopes = 1 .. Len(scopes)
      BY <3>1
    <3> QED BY <3>1, <3>3, <3>4 DEF Object
  <2>2. CASE pc # 0
    BY <2>2 DEF NestingInv
  <2> QED BY <2>1, <2>2
<1> QED BY <1>2, <1>3 DEF CleanupTypeOK, NestingInv, LabelType, Object

\* Whatever statements, nested in whatever way, a program is made of: the stacks are
\* well typed, every loop's entry names a scope that is open, and what is alive are objects.
THEOREM CleanupTypeCorrect == CleanupSpec => []CleanupTypeOK
BY NestingInvariant, TypesFollow, PTL

\* prescanLabels counts the scopes that the visitor opens: for every program, and for
\* all shapes of statements, those on which the visitor is wrong about scopes included.
THEOREM DepthsAgree == CleanupSpec => []PrescanMirrorsVisitor
<1>1. NestingInv => PrescanMirrorsVisitor
  <2> SUFFICES ASSUME NestingInv, pc = 0 PROVE PrescanDepth(open) = Len(scopes)
    BY DEF PrescanMirrorsVisitor
  <2>1. open \in Seq(EntryType) /\ Len(scopes) = Below(open, Len(open))
    BY AtAStatement DEF Fits
  <2> QED BY <2>1, BelowIsDepth
<1> QED BY <1>1, NestingInvariant, PTL

\* Break and continue jump to where C++ has them go, unless a continue in a switch in
\* a loop is among the shapes.
THEOREM JumpsGoRight == "continue" \notin Shapes => (CleanupSpec => []JumpsGoWhereMeant)
<1> SUFFICES ASSUME "continue" \notin Shapes PROVE CleanupSpec => []JumpsGoWhereMeant
  OBVIOUS
<1>1. NestingInv => JumpsGoWhereMeant
  BY DEF NestingInv, Emitted, AsMeant, JumpsGoWhereMeant
<1> QED BY <1>1, NestingInvariant, PTL


-----------------------------------------------------------------------------
(* Objects in scope and objects in scopes.                                  *)

\* The objects in scope in the first i of the open statements, and those registered in
\* the first d scopes.
Around(o, i)  == InScope(SubSeq(o, 1, i))
Inside(ss, d) == FlattenSeq(SubSeq(ss, 1, d))

\* One object more behind two sequences of objects.
LEMMA ObjectBehind ==
  ASSUME NEW a \in Seq(Object), NEW b \in Seq(Object), NEW x \in Object
  PROVE  /\ a \o Append(b, x) = Append(a \o b, x)
         /\ a \o (b \o <<x>>) = Append(a \o b, x)
<1>1. <<x>> \in Seq(Object) /\ a \o b \in Seq(Object)
  BY ConcatProperties
<1>2. Append(b, x) = b \o <<x>> /\ Append(a \o b, x) = (a \o b) \o <<x>>
  BY <1>1, AppendIsConcat
<1> DEFINE c == <<x>>
<1> HIDE DEF c
<1>3. a \in Seq(Object) /\ b \in Seq(Object) /\ c \in Seq(Object)
  BY <1>1 DEF c
<1>4. (a \o b) \o c = a \o (b \o c)
  BY ONLY <1>3, ConcatAssociative
<1> QED BY <1>2, <1>4 DEF c

\* A prefix and the element behind it.
LEMMA PrefixFacts ==
  ASSUME NEW T, NEW s \in Seq(T)
  PROVE  /\ Len(s) \in Nat /\ SubSeq(s, 1, 0) = <<>> /\ SubSeq(s, 1, Len(s)) = s
         /\ \A i \in 0 .. Len(s) : /\ SubSeq(s, 1, i) \in Seq(T) /\ Len(SubSeq(s, 1, i)) = i
                                   /\ \A j \in 1 .. i : SubSeq(s, 1, i)[j] = s[j]
         /\ \A i \in 1 .. Len(s) : SubSeq(s, 1, i) = Append(SubSeq(s, 1, i - 1), s[i])
<1>1. Len(s) \in Nat /\ \A i \in 1 .. Len(s) : s[i] \in T
  BY ElementOfSeq
<1>2. ASSUME NEW i \in 0 .. Len(s)
      PROVE  /\ SubSeq(s, 1, i) \in Seq(T) /\ Len(SubSeq(s, 1, i)) = i
             /\ \A j \in 1 .. i : SubSeq(s, 1, i)[j] = s[j]
  <2>1. 1 \in Int /\ i \in Int /\ \A j \in 1 .. i : s[j] \in T
    BY <1>1
  <2>2. /\ SubSeq(s, 1, i) \in Seq(T)
        /\ Len(SubSeq(s, 1, i)) = IF 1 <= i THEN i - 1 + 1 ELSE 0
        /\ \A j \in 1 .. i - 1 + 1 : SubSeq(s, 1, i)[j] = s[1 + j - 1]
    BY <2>1, SubSeqProperties
  <2>3. \A j \in 1 .. i : 1 + j - 1 = j
    BY <2>1
  <2>4. i - 1 + 1 = i /\ (IF 1 <= i THEN i - 1 + 1 ELSE 0) = i
    BY <1>1
  <2> QED BY <2>2, <2>3, <2>4
<1>3. SubSeq(s, 1, 0) = <<>>
  <2>1. SubSeq(s, 1, 0) \in Seq(T) /\ Len(SubSeq(s, 1, 0)) = 0
    BY <1>1, <1>2
  <2> QED BY <2>1, EmptySeq
<1>4. SubSeq(s, 1, Len(s)) = s
  BY SubSeqFull
<1>5. ASSUME NEW i \in 1 .. Len(s) PROVE SubSeq(s, 1, i) = Append(SubSeq(s, 1, i - 1), s[i])
  <2> DEFINE p == SubSeq(s, 1, i)  q == SubSeq(s, 1, i - 1)
  <2>1. i \in 0 .. Len(s) /\ i - 1 \in 0 .. Len(s) /\ i - 1 + 1 = i
    BY <1>1
  <2>2. /\ p \in Seq(T) /\ Len(p) = i /\ \A j \in 1 .. i : p[j] = s[j]
        /\ q \in Seq(T) /\ Len(q) = i - 1 /\ \A j \in 1 .. i - 1 : q[j] = s[j]
    BY <1>2, <2>1
  <2> HIDE DEF p, q
  <2>3. /\ Append(q, s[i]) \in Seq(T) /\ Len(Append(q, s[i])) = Len(q) + 1
        /\ \A j \in 1 .. Len(q) : Append(q, s[i])[j] = q[j]
        /\ Append(q, s[i])[Len(q) + 1] = s[i]
    BY <1>1, <2>2, AppendProperties
  <2>4. \A j \in 1 .. i : j \in 1 .. i - 1 \/ j = i
    BY <2>1
  <2>5. Len(p) = Len(Append(q, s[i])) /\ \A j \in 1 .. Len(p) : p[j] = Append(q, s[i])[j]
    BY <2>1, <2>2, <2>3, <2>4
  <2>6. p = Append(q, s[i])
    BY <2>2, <2>3, <2>5, SeqEqual
  <2> QED BY <2>6 DEF p, q
<1> QED BY <1>1, <1>2, <1>3, <1>4, <1>5

LEMMA AroundFacts ==
  ASSUME NEW o \in Seq(EntryType)
  PROVE  /\ Around(o, 0) = <<>> /\ Around(o, Len(o)) = InScope(o)
         /\ \A i \in 0 .. Len(o) : Around(o, i) \in Seq(Object)
         /\ \A i \in 1 .. Len(o) : Around(o, i) = Around(o, i - 1) \o o[i].decls
<1>1. /\ SubSeq(o, 1, 0) = <<>> /\ SubSeq(o, 1, Len(o)) = o /\ Len(o) \in Nat
      /\ \A i \in 0 .. Len(o) : SubSeq(o, 1, i) \in Seq(EntryType)
      /\ \A i \in 1 .. Len(o) : SubSeq(o, 1, i) = Append(SubSeq(o, 1, i - 1), o[i])
  BY PrefixFacts
<1>2. ASSUME NEW i \in 1 .. Len(o) PROVE Around(o, i) = Around(o, i - 1) \o o[i].decls
  <2>1. i - 1 \in 0 .. Len(o) /\ o[i] \in EntryType
    BY <1>1, ElementOfSeq
  <2>2. SubSeq(o, 1, i - 1) \in Seq(EntryType)
    BY <1>1, <2>1
  <2>3. InScope(Append(SubSeq(o, 1, i - 1), o[i])) = InScope(SubSeq(o, 1, i - 1)) \o o[i].decls
    BY <2>1, <2>2, InScopeFacts
  <2> QED BY <1>1, <2>3 DEF Around
<1> QED BY <1>1, <1>2, InScopeFacts DEF Around

\* Statements that declare the same objects.
LEMMA AroundSame ==
  ASSUME NEW o \in Seq(EntryType), NEW p \in Seq(EntryType),
         NEW k \in Nat, k <= Len(o), k <= Len(p), \A j \in 1 .. k : o[j].decls = p[j].decls
  PROVE  \A i \in 0 .. k : Around(o, i) = Around(p, i)
<1> DEFINE S == {i \in Nat : i <= k => Around(o, i) = Around(p, i)}
<1>1. 0 \in S
  BY AroundFacts
<1>2. ASSUME NEW i \in Nat, i \in S PROVE i + 1 \in S
  <2> SUFFICES ASSUME i + 1 <= k PROVE Around(o, i + 1) = Around(p, i + 1)
    BY DEF S
  <2>1. Len(o) \in Nat /\ Len(p) \in Nat
    OBVIOUS
  <2>2. i + 1 \in 1 .. Len(o) /\ i + 1 \in 1 .. Len(p) /\ i + 1 \in 1 .. k /\ (i + 1) - 1 = i /\ i <= k
    BY <2>1
  <2>3. /\ Around(o, i + 1) = Around(o, (i + 1) - 1) \o o[i + 1].decls
        /\ Around(p, i + 1) = Around(p, (i + 1) - 1) \o p[i + 1].decls
    BY <2>2, AroundFacts
  <2>4. Around(o, i) = Around(p, i)
    BY <1>2, <2>2
  <2> QED BY <2>2, <2>3, <2>4
<1> HIDE DEF S
<1>3. \A i \in Nat : i \in S
  BY <1>1, <1>2, NaturalInduction
<1>4. \A i \in 0 .. k : i \in Nat /\ i <= k
  OBVIOUS
<1> QED BY <1>3, <1>4 DEF S

LEMMA InsideFacts ==
  ASSUME NEW ss \in Seq(Seq(Object))
  PROVE  /\ Inside(ss, 0) = <<>> /\ Inside(ss, Len(ss)) = FlattenSeq(ss)
         /\ \A d \in 0 .. Len(ss) : Inside(ss, d) \in Seq(Object)
         /\ \A d \in 1 .. Len(ss) : Inside(ss, d) = Inside(ss, d - 1) \o ss[d]
<1>1. /\ SubSeq(ss, 1, 0) = <<>> /\ SubSeq(ss, 1, Len(ss)) = ss /\ Len(ss) \in Nat
      /\ \A i \in 0 .. Len(ss) : SubSeq(ss, 1, i) \in Seq(Seq(Object))
      /\ \A i \in 1 .. Len(ss) : SubSeq(ss, 1, i) = Append(SubSeq(ss, 1, i - 1), ss[i])
  BY PrefixFacts
<1>2. <<>> \in Seq(Object)
  BY EmptySeq
<1>3. /\ FlattenSeq(<<>>) = <<>>
      /\ \A tt \in Seq(Seq(Object)) : FlattenSeq(tt) \in Seq(Object)
      /\ \A tt \in Seq(Seq(Object)), x \in Seq(Object) : FlattenSeq(Append(tt, x)) = FlattenSeq(tt) \o x
  BY <1>2, FlattenAppend
<1>4. ASSUME NEW d \in 1 .. Len(ss) PROVE Inside(ss, d) = Inside(ss, d - 1) \o ss[d]
  <2>1. d - 1 \in 0 .. Len(ss) /\ ss[d] \in Seq(Object)
    BY <1>1, ElementOfSeq
  <2>2. SubSeq(ss, 1, d - 1) \in Seq(Seq(Object))
    BY <1>1, <2>1
  <2> QED BY <1>1, <1>3, <2>1, <2>2 DEF Inside
<1> QED BY <1>1, <1>3, <1>4 DEF Inside

LEMMA InsideSame ==
  ASSUME NEW ss \in Seq(Seq(Object)), NEW tt \in Seq(Seq(Object)),
         NEW k \in Nat, k <= Len(ss), k <= Len(tt), \A j \in 1 .. k : ss[j] = tt[j]
  PROVE  \A d \in 0 .. k : Inside(ss, d) = Inside(tt, d)
<1> SUFFICES ASSUME NEW d \in 0 .. k PROVE Inside(ss, d) = Inside(tt, d)
  OBVIOUS
<1>1. Len(ss) \in Nat /\ Len(tt) \in Nat
  OBVIOUS
<1>2. d \in 0 .. Len(ss) /\ d \in 0 .. Len(tt) /\ \A j \in 1 .. d : j \in 1 .. k
  BY <1>1
<1> DEFINE p == SubSeq(ss, 1, d)  q == SubSeq(tt, 1, d)
<1>3. /\ p \in Seq(Seq(Object)) /\ Len(p) = d /\ \A j \in 1 .. d : p[j] = ss[j]
      /\ q \in Seq(Seq(Object)) /\ Len(q) = d /\ \A j \in 1 .. d : q[j] = tt[j]
  BY <1>2, PrefixFacts
<1> HIDE DEF p, q
<1>4. p = q
  BY <1>2, <1>3, SeqEqual
<1> QED BY <1>4 DEF Inside, p, q

\* What a jump out of all scopes but d destroys, and what it keeps.
LEMMA InsideSplit ==
  ASSUME NEW ss \in Seq(Seq(Object)), NEW d \in 0 .. Len(ss)
  PROVE  /\ FlattenSeq(SubSeq(ss, d + 1, Len(ss))) \in Seq(Object)
         /\ FlattenSeq(ss) = Inside(ss, d) \o FlattenSeq(SubSeq(ss, d + 1, Len(ss)))
<1> DEFINE Rest(m) == SubSeq(ss, d + 1, m)
           S == {i \in Nat : d + i <= Len(ss) =>
                   /\ Rest(d + i) \in Seq(Seq(Object)) /\ FlattenSeq(Rest(d + i)) \in Seq(Object)
                   /\ Inside(ss, d + i) = Inside(ss, d) \o FlattenSeq(Rest(d + i))}
<1>1. <<>> \in Seq(Object) /\ <<>> \in Seq(Seq(Object)) /\ Len(ss) \in Nat /\ d \in Nat
  BY EmptySeq
<1>2. /\ FlattenSeq(<<>>) = <<>>
      /\ \A tt \in Seq(Seq(Object)) : FlattenSeq(tt) \in Seq(Object)
      /\ \A tt \in Seq(Seq(Object)), x \in Seq(Object) : FlattenSeq(Append(tt, x)) = FlattenSeq(tt) \o x
  BY <1>1, FlattenAppend
<1>3. 0 \in S
  <2>1. Rest(d) = <<>>
    BY <1>1, SubSeqEmpty
  <2>2. Inside(ss, d) \in Seq(Object)
    BY InsideFacts
  <2>3. Inside(ss, d) \o <<>> = Inside(ss, d)
    BY <2>2, ConcatEmptySeq
  <2>4. d + 0 = d
    BY <1>1
  <2> QED BY <1>1, <1>2, <2>1, <2>3, <2>4
<1>4. ASSUME NEW i \in Nat, i \in S PROVE i + 1 \in S
  <2> SUFFICES ASSUME d + (i + 1) <= Len(ss)
               PROVE  /\ Rest(d + (i + 1)) \in Seq(Seq(Object)) /\ FlattenSeq(Rest(d + (i + 1))) \in Seq(Object)
                      /\ Inside(ss, d + (i + 1)) = Inside(ss, d) \o FlattenSeq(Rest(d + (i + 1)))
    BY DEF S
  <2> DEFINE m == d + i
  <2>1. /\ d + (i + 1) = m + 1 /\ m + 1 \in 1 .. Len(ss) /\ (m + 1) - 1 = m /\ m \in Nat
        /\ d + 1 \in 1 .. Len(ss) /\ m + 1 \in d + 1 .. Len(ss) /\ m <= Len(ss)
    BY <1>1
  <2>2. /\ Rest(m) \in Seq(Seq(Object)) /\ FlattenSeq(Rest(m)) \in Seq(Object)
        /\ Inside(ss, m) = Inside(ss, d) \o FlattenSeq(Rest(m))
    BY <1>4, <2>1
  <2> HIDE DEF S, m
  <2>3. ss[m + 1] \in Seq(Object)
    BY <2>1, ElementOfSeq
  <2>4. Rest(m + 1) = Rest((m + 1) - 1) \o <<ss[m + 1]>>
    BY <2>1, SubSeqRecursiveSecond
  <2>5. Rest(m + 1) = Append(Rest(m), ss[m + 1])
    BY <2>1, <2>2, <2>3, <2>4, AppendIsConcat
  <2> HIDE DEF Rest
  <2>6. FlattenSeq(Rest(m + 1)) = FlattenSeq(Rest(m)) \o ss[m + 1] /\ Rest(m + 1) \in Seq(Seq(Object))
    <3>1. Append(Rest(m), ss[m + 1]) \in Seq(Seq(Object))
      BY <2>2, <2>3, AppendProperties
    <3>2. FlattenSeq(Append(Rest(m), ss[m + 1])) = FlattenSeq(Rest(m)) \o ss[m + 1]
      BY <1>2, <2>2, <2>3
    <3> QED BY <2>5, <3>1, <3>2
  <2>7. Inside(ss, m + 1) = Inside(ss, m) \o ss[m + 1]
    <3>1. Inside(ss, m + 1) = Inside(ss, (m + 1) - 1) \o ss[m + 1]
      BY <2>1, InsideFacts
    <3> QED BY <2>1, <3>1
  <2>8. Inside(ss, d) \in Seq(Object)
    BY InsideFacts
  <2>9. (Inside(ss, d) \o FlattenSeq(Rest(m))) \o ss[m + 1] = Inside(ss, d) \o (FlattenSeq(Rest(m)) \o ss[m + 1])
    <3> DEFINE a == Inside(ss, d)  b == FlattenSeq(Rest(m))  c == ss[m + 1]
    <3>1. a \in Seq(Object) /\ b \in Seq(Object) /\ c \in Seq(Object)
      BY <2>2, <2>3, <2>8
    <3> HIDE DEF a, b, c
    <3>2. (a \o b) \o c = a \o (b \o c)
      BY ONLY <3>1, ConcatAssociative
    <3> QED BY <3>2 DEF a, b, c
  <2>10. FlattenSeq(Rest(m + 1)) \in Seq(Object)
    BY <1>2, <2>6
  <2> QED BY <2>1, <2>2, <2>6, <2>7, <2>9, <2>10
<1> HIDE DEF S
<1>5. \A i \in Nat : i \in S
  BY <1>3, <1>4, NaturalInduction
<1>6. Len(ss) - d \in Nat /\ d + (Len(ss) - d) = Len(ss)
  BY <1>1
<1>7. Len(ss) - d \in S
  BY <1>5, <1>6
<1>8. /\ FlattenSeq(Rest(Len(ss))) \in Seq(Object)
      /\ Inside(ss, Len(ss)) = Inside(ss, d) \o FlattenSeq(Rest(Len(ss)))
  BY <1>6, <1>7 DEF S
<1> QED BY <1>8, InsideFacts

-----------------------------------------------------------------------------
(* What is known of the statements being visited.                           *)

LabelKind  == {"function", "block", "cases"}
TargetKind == HeadKind \cup {"cases"}

\* k tells what is alive at the labels of each construct (at), with which objects alive
\* and in scope each goto jumps (gotos), what is in scope at the user's label (places),
\* what prescanLabels has said of it (label), and how many objects and constructs there are.
At(n, xs, k) == n \in 1 .. k.constructs /\ k.at[n] = xs

\* A label placed where s is in scope, as C++ lets it be, is one t may jump to.
Settles(t, s) == IsPrefix(s, t[2]) => s = t[1]

\* An open statement: outer is in scope around it, inner in it, depth scopes are open.
EntryHolds(kind, n, outer, inner, depth, k) ==
  /\ n <= k.constructs /\ kind # "list"
  /\ inner \in Seq(1 .. k.objects)
  /\ kind \in TargetKind => At(n, IF kind = "range" THEN outer ELSE inner, k)
  /\ kind \in LabelKind /\ k.label # NoLabel /\ n = k.label.body =>
       k.label.depth = depth /\ (k.places = {} => \A t \in k.gotos : Settles(t, inner))

Stack(o, ss, k) ==
  /\ o \in Seq(EntryType) /\ o # <<>>
  /\ ss \in Seq(Seq(Object)) /\ Len(ss) = Below(o, Len(o))
  /\ \A i \in 1 .. Len(o) : Around(o, i) = Inside(ss, Below(o, i))
  /\ \A i \in 1 .. Len(o) :
       EntryHolds(o[i].kind, o[i].n, Around(o, i - 1), Around(o, i), Below(o, i), k)
  /\ \A i, j \in 1 .. Len(o) :
       o[i].kind \in LabelKind /\ o[j].kind \in LabelKind /\ o[i].n = o[j].n => i = j

\* No body that may hold a label has the number n.
Fresh(o, n) == \A i \in 1 .. Len(o) : o[i].kind \in LabelKind => o[i].n # n

\* The first m statements are open as before.
Carried(o, p, m) ==
  \A j \in 1 .. m : /\ p[j].kind = o[j].kind /\ p[j].n = o[j].n
                    /\ Around(p, j - 1) = Around(o, j - 1) /\ Around(p, j) = Around(o, j)
                    /\ Below(p, j) = Below(o, j)

LEMMA CarriedOver ==
  ASSUME NEW o \in Seq(EntryType), NEW p \in Seq(EntryType),
         NEW m \in Nat, m <= Len(o), m <= Len(p),
         \A j \in 1 .. m : /\ p[j].kind = o[j].kind /\ p[j].n = o[j].n
                           /\ p[j].scan = o[j].scan /\ p[j].decls = o[j].decls
  PROVE  Carried(o, p, m) /\ Around(p, m) = Around(o, m)
<1>1. \A i \in 0 .. m : Around(o, i) = Around(p, i)
  BY AroundSame
<1>2. ASSUME NEW j \in 1 .. m PROVE Below(p, j) = Below(o, j)
  <2>1. j \in Nat /\ \A i \in 1 .. j : i \in 1 .. m
    OBVIOUS
  <2>2. \A i \in 1 .. j : p[i].scan = o[i].scan
    BY <2>1
  <2> QED BY <2>1, <2>2, BelowAgrees
<1>3. \A j \in 1 .. m : j \in 0 .. m /\ j - 1 \in 0 .. m
  OBVIOUS
<1>4. m \in 0 .. m
  OBVIOUS
<1> QED BY <1>1, <1>2, <1>3, <1>4 DEF Carried

\* Statements that differ in nothing the stack is about.
LEMMA StackAlike ==
  ASSUME NEW o, NEW ss, NEW k, Stack(o, ss, k), NEW p \in Seq(EntryType), Len(p) = Len(o),
         \A i \in 1 .. Len(o) : /\ p[i].kind = o[i].kind /\ p[i].n = o[i].n
                                /\ p[i].scan = o[i].scan /\ p[i].decls = o[i].decls
  PROVE  Stack(p, ss, k) /\ InScope(p) = InScope(o)
<1>1. o \in Seq(EntryType) /\ o # <<>> /\ Len(o) \in Nat \ {0}
  BY EmptySeq DEF Stack
<1>2. Carried(o, p, Len(o)) /\ Around(p, Len(o)) = Around(o, Len(o))
  BY <1>1, CarriedOver
<1>3. InScope(p) = InScope(o)
  BY <1>1, <1>2, AroundFacts
<1>4. Below(p, Len(p)) = Below(o, Len(o))
  BY <1>1, <1>2 DEF Carried
<1>5. p # <<>>
  BY <1>1
<1> QED BY <1>1, <1>2, <1>3, <1>4, <1>5 DEF Stack, Carried

LEMMA StackAdded ==
  ASSUME NEW o, NEW ss, NEW ls, NEW k, Stack(o, ss, k), Fits(o, ss, ls)
  PROVE  Stack(Added(o), ss, k) /\ InScope(Added(o)) = InScope(o)
<1>1. /\ o \in Seq(EntryType) /\ o # <<>> /\ Added(o) \in Seq(EntryType) /\ Alike(o, Added(o))
      /\ Front(Added(o)) = Front(o) /\ Last(Added(o)) = [Last(o) EXCEPT !.other = TRUE]
  BY InnermostChanges DEF Stack
<1> DEFINE p == Added(o)
<1> HIDE DEF p
<1>2. Len(p) = Len(o) /\ Len(o) \in Nat \ {0} /\ p # <<>>
  BY <1>1, EmptySeq DEF Alike, p
<1>3. ASSUME NEW i \in 1 .. Len(o) PROVE p[i].decls = o[i].decls
  <2>1. CASE i = Len(o)
    <3>1. Last(o) = o[i] /\ Last(p) = p[i]
      BY <1>2, <2>1 DEF Last
    <3>2. Last(o) \in EntryType
      BY <1>1, FrontLast
    <3> QED BY <1>1, <3>1, <3>2 DEF EntryType, p
  <2>2. CASE i # Len(o)
    <3>1. i \in 1 .. Len(o) - 1
      BY <1>2, <2>2
    <3>2. Front(o)[i] = o[i] /\ Front(p)[i] = p[i]
      BY <1>1, <1>2, <3>1, FrontLast DEF p
    <3> QED BY <1>1, <3>2 DEF p
  <2> QED BY <2>1, <2>2
<1>4. \A i \in 1 .. Len(o) : p[i].kind = o[i].kind /\ p[i].n = o[i].n /\ p[i].scan = o[i].scan
  BY <1>1, <1>2 DEF Alike, p
<1>5. p \in Seq(EntryType)
  BY <1>1 DEF p
<1>6. Stack(p, ss, k) /\ InScope(p) = InScope(o)
  BY <1>2, <1>3, <1>4, <1>5, StackAlike
<1> QED BY <1>6 DEF p

\* More is known, of constructs that are not open.
Wider(k, m) ==
  /\ k.objects \in Nat /\ k.constructs \in Nat /\ m.objects \in Nat /\ m.constructs \in Nat
  /\ k.objects <= m.objects /\ k.constructs <= m.constructs
  /\ \A n \in 1 .. k.constructs : m.at[n] = k.at[n]
  /\ m.gotos = k.gotos /\ m.places = k.places /\ m.label = k.label

LEMMA EntryWider ==
  ASSUME NEW kind, NEW n \in Nat, NEW outer, NEW inner, NEW depth, NEW k, NEW m, Wider(k, m),
         EntryHolds(kind, n, outer, inner, depth, k)
  PROVE  EntryHolds(kind, n, outer, inner, depth, m)
<1>1. n <= m.constructs /\ kind # "list"
  BY DEF EntryHolds, Wider
<1>2. inner \in Seq(1 .. m.objects)
  <2>1. inner \in Seq(1 .. k.objects)
    BY DEF EntryHolds
  <2>2. 1 .. k.objects \subseteq 1 .. m.objects
    BY DEF Wider
  <2> QED BY <2>1, <2>2, SeqMonotonic
<1>3. \A xs : At(n, xs, k) => At(n, xs, m)
  BY DEF At, Wider
<1>4. kind \in TargetKind => At(n, IF kind = "range" THEN outer ELSE inner, m)
  BY <1>3 DEF EntryHolds
<1> QED BY <1>1, <1>2, <1>4 DEF EntryHolds, Wider

LEMMA StackWider ==
  ASSUME NEW o, NEW ss, NEW k, NEW m, Stack(o, ss, k), Wider(k, m)
  PROVE  Stack(o, ss, m) /\ \A n \in Nat : n > k.constructs => Fresh(o, n)
<1>1. \A i \in 1 .. Len(o) : o[i].n \in Nat
  <2>1. \A i \in 1 .. Len(o) : o[i] \in EntryType
    BY DEF Stack
  <2> QED BY <2>1, ConstantsAreNat DEF EntryType
<1>2. \A i \in 1 .. Len(o) :
        EntryHolds(o[i].kind, o[i].n, Around(o, i - 1), Around(o, i), Below(o, i), m)
  BY <1>1, EntryWider DEF Stack
<1>3. ASSUME NEW n \in Nat, n > k.constructs PROVE Fresh(o, n)
  <2>1. ASSUME NEW i \in 1 .. Len(o) PROVE o[i].n # n
    <3>1. o[i].n <= k.constructs
      BY DEF Stack, EntryHolds
    <3>2. k.constructs \in Nat
      BY DEF Wider
    <3> QED BY <1>1, <1>3, <3>1, <3>2
  <2> QED BY <2>1 DEF Fresh
<1> QED BY <1>2, <1>3 DEF Stack

LEMMA StackPush ==
  ASSUME NEW o, NEW ss, NEW k, Stack(o, ss, k), NEW e \in EntryType,
         ~e.scan => e.decls = <<>>,
         NEW tt, tt = IF e.scan THEN Append(ss, e.decls) ELSE ss,
         EntryHolds(e.kind, e.n, InScope(o), InScope(o) \o e.decls, Len(tt), k),
         e.kind \in LabelKind => Fresh(o, e.n)
  PROVE  /\ Stack(Append(o, e), tt, k)
         /\ InScope(Append(o, e)) = InScope(o) \o e.decls
         /\ e.kind \notin LabelKind => \A n : Fresh(o, n) => Fresh(Append(o, e), n)
<1> DEFINE p == Append(o, e)
<1>1. /\ o \in Seq(EntryType) /\ ss \in Seq(Seq(Object)) /\ Len(ss) = Below(o, Len(o))
      /\ Len(o) \in Nat /\ Len(ss) \in Nat /\ e.decls \in Seq(Object) /\ InScope(o) \in Seq(Object)
  BY InScopeFacts DEF Stack, EntryType
<1>2. /\ p \in Seq(EntryType) /\ p # <<>> /\ Len(p) = Len(o) + 1
      /\ \A i \in 1 .. Len(o) : p[i] = o[i]
      /\ p[Len(o) + 1] = e
  BY <1>1, AppendProperties
<1>3. InScope(p) = InScope(o) \o e.decls
  BY <1>1, InScopeFacts
<1>4. Below(p, Len(o) + 1) = IF e.scan THEN Below(o, Len(o)) + 1 ELSE Below(o, Len(o))
  BY <1>1, KeptBelowTop
<1> HIDE DEF p
<1>5. /\ tt \in Seq(Seq(Object)) /\ Len(tt) = Below(p, Len(p))
      /\ \A d \in 1 .. Len(ss) : tt[d] = ss[d]
      /\ e.scan => tt = Append(ss, e.decls) /\ FlattenSeq(tt) = FlattenSeq(ss) \o e.decls
      /\ ~e.scan => tt = ss
  <2>1. CASE e.scan
    <3>1. /\ tt \in Seq(Seq(Object)) /\ Len(tt) = Len(ss) + 1 /\ \A d \in 1 .. Len(ss) : tt[d] = ss[d]
      BY <1>1, <2>1, AppendProperties
    <3>2. FlattenSeq(Append(ss, e.decls)) = FlattenSeq(ss) \o e.decls
      BY <1>1, FlattenAppend
    <3> QED BY <1>1, <1>2, <1>4, <2>1, <3>1, <3>2
  <2>2. CASE ~e.scan
    BY <1>1, <1>2, <1>4, <2>2
  <2> QED BY <2>1, <2>2
<1>6. Carried(o, p, Len(o)) /\ Around(p, Len(o)) = InScope(o)
  <2>1. Len(o) <= Len(o) /\ Len(o) <= Len(p)
    BY <1>1, <1>2
  <2>2. Carried(o, p, Len(o)) /\ Around(p, Len(o)) = Around(o, Len(o))
    BY <1>1, <1>2, <2>1, CarriedOver
  <2> QED BY <1>1, <2>2, AroundFacts
<1>7. Around(p, Len(p)) = InScope(p)
  BY <1>2, AroundFacts
<1>8. \A i \in 1 .. Len(p) : i \in 1 .. Len(o) \/ i = Len(o) + 1
  BY <1>1, <1>2
<1>9. \A i \in 1 .. Len(o) : Around(p, i) = Inside(tt, Below(p, i))
  <2>1. \A d \in 0 .. Len(ss) : Inside(ss, d) = Inside(tt, d)
    <3>1. Len(ss) <= Len(tt) /\ Len(ss) <= Len(ss)
      <4>1. CASE e.scan
        BY <1>1, <1>5, <4>1, AppendProperties
      <4>2. CASE ~e.scan
        BY <1>1, <1>5, <4>2
      <4> QED BY <4>1, <4>2
    <3> QED BY <1>1, <1>5, <3>1, InsideSame
  <2>2. \A i \in 1 .. Len(o) : Below(o, i) \in 0 .. Len(ss)
    <3>1. \A i \in 1 .. Len(o) : i \in Nat /\ i <= Len(o)
      BY <1>1
    <3> QED BY <1>1, <3>1, BelowFacts
  <2>3. \A i \in 1 .. Len(o) : Around(o, i) = Inside(ss, Below(o, i))
    BY DEF Stack
  <2> QED BY <1>6, <2>1, <2>2, <2>3 DEF Carried
<1>10. Around(p, Len(o) + 1) = Inside(tt, Below(p, Len(o) + 1))
  <2>1. InScope(o) = FlattenSeq(ss)
    <3>1. Around(o, Len(o)) = Inside(ss, Len(ss))
      <4>1. Len(o) \in 1 .. Len(o)
        BY EmptySeq DEF Stack
      <4> QED BY <1>1, <4>1 DEF Stack
    <3> QED BY <1>1, <3>1, AroundFacts, InsideFacts
  <2>2. InScope(p) = FlattenSeq(tt)
    <3>1. CASE e.scan
      BY <1>3, <1>5, <2>1, <3>1
    <3>2. CASE ~e.scan
      <4>1. InScope(o) \o <<>> = InScope(o)
        BY <1>1, ConcatEmptySeq
      <4> QED BY <1>3, <1>5, <2>1, <3>2, <4>1
    <3> QED BY <3>1, <3>2
  <2>3. Inside(tt, Len(tt)) = FlattenSeq(tt)
    BY <1>5, InsideFacts
  <2> QED BY <1>2, <1>5, <1>7, <2>2, <2>3
<1>11. ASSUME NEW i \in 1 .. Len(p)
       PROVE  EntryHolds(p[i].kind, p[i].n, Around(p, i - 1), Around(p, i), Below(p, i), k)
  <2>1. CASE i \in 1 .. Len(o)
    BY <1>6, <2>1 DEF Stack, Carried
  <2>2. CASE i = Len(o) + 1
    <3>1. i - 1 = Len(o) /\ i = Len(p)
      BY <1>1, <1>2, <2>2
    <3> QED BY <1>2, <1>3, <1>5, <1>6, <1>7, <2>2, <3>1
  <2> QED BY <1>8, <2>1, <2>2
<1>12. ASSUME NEW i \in 1 .. Len(p), NEW j \in 1 .. Len(p),
              p[i].kind \in LabelKind, p[j].kind \in LabelKind, p[i].n = p[j].n
       PROVE  i = j
  <2>1. CASE i \in 1 .. Len(o) /\ j \in 1 .. Len(o)
    BY <1>2, <1>12, <2>1 DEF Stack
  <2>2. CASE i = Len(o) + 1 /\ j \in 1 .. Len(o)
    BY <1>2, <1>12, <2>2 DEF Fresh
  <2>3. CASE i \in 1 .. Len(o) /\ j = Len(o) + 1
    BY <1>2, <1>12, <2>3 DEF Fresh
  <2> QED BY <1>8, <2>1, <2>2, <2>3
<1>13. e.kind \notin LabelKind => \A n : Fresh(o, n) => Fresh(p, n)
  BY <1>2, <1>8 DEF Fresh
<1>14. Stack(p, tt, k)
  BY <1>2, <1>5, <1>8, <1>9, <1>10, <1>11, <1>12 DEF Stack
<1> QED BY <1>3, <1>13, <1>14 DEF p

LEMMA StackTop ==
  ASSUME NEW o, NEW ss, NEW k, Stack(o, ss, k)
  PROVE  InScope(o) = FlattenSeq(ss) /\ InScope(o) \in Seq(1 .. k.objects) /\ InScope(o) \in Seq(Object)
<1>1. Len(o) \in 1 .. Len(o) /\ o \in Seq(EntryType) /\ ss \in Seq(Seq(Object))
  BY EmptySeq DEF Stack
<1>2. Around(o, Len(o)) = Inside(ss, Len(ss))
  BY <1>1 DEF Stack
<1>3. Around(o, Len(o)) \in Seq(1 .. k.objects)
  BY <1>1 DEF Stack, EntryHolds
<1> QED BY <1>1, <1>2, <1>3, AroundFacts, InsideFacts, InScopeFacts

LEMMA StackPop ==
  ASSUME NEW o, NEW ss, NEW k, Stack(o, ss, k), Len(o) > 1
  PROVE  /\ Stack(Front(o), IF Last(o).scan THEN Front(ss) ELSE ss, k)
         /\ InScope(o) = InScope(Front(o)) \o Last(o).decls
         /\ IF Last(o).scan THEN Last(ss) = Last(o).decls /\ ss # <<>> ELSE Last(o).decls = <<>>
<1> DEFINE p == Front(o)  e == Last(o)  n == Len(o)
<1>1. /\ o \in Seq(EntryType) /\ o # <<>> /\ ss \in Seq(Seq(Object)) /\ Len(ss) = Below(o, n)
      /\ n \in Nat /\ n > 1 /\ e \in EntryType /\ e = o[n]
      /\ p \in Seq(EntryType) /\ Len(p) = n - 1 /\ \A i \in 1 .. n - 1 : p[i] = o[i]
  BY FrontLast DEF Stack, Last
<1> HIDE DEF p, e, n
<1>2. Carried(o, p, n - 1) /\ Around(p, n - 1) = Around(o, n - 1)
  <2>1. n - 1 \in Nat /\ n - 1 <= Len(o) /\ n - 1 <= Len(p)
    BY <1>1 DEF n
  <2> QED BY <1>1, <2>1, CarriedOver
<1>3. /\ Around(o, n) = Around(o, n - 1) \o e.decls /\ InScope(o) = Around(o, n) /\ InScope(p) = Around(o, n - 1)
      /\ e.decls \in Seq(Object) /\ InScope(p) \in Seq(Object)
  <2>1. n \in 1 .. Len(o) /\ Len(o) = n
    BY <1>1 DEF n
  <2> QED BY <1>1, <1>2, <2>1, AroundFacts, InScopeFacts DEF EntryType
<1>4. /\ Below(o, n) = IF e.scan THEN Below(o, n - 1) + 1 ELSE Below(o, n - 1)
      /\ Below(o, n - 1) \in Nat
  <2>1. n - 1 \in Nat /\ (n - 1) + 1 = n
    BY <1>1
  <2> QED BY <1>1, <2>1, BelowFacts
<1>5. Below(p, Len(p)) = Below(o, n - 1) /\ n - 1 \in 1 .. n - 1
  <2>1. n - 1 \in 1 .. n - 1
    BY <1>1
  <2> QED BY <1>1, <1>2, <2>1 DEF Carried
<1> DEFINE below == IF e.scan THEN Front(ss) ELSE ss
<1>6. /\ below \in Seq(Seq(Object)) /\ Len(below) = Below(o, n - 1) /\ Len(below) <= Len(ss)
      /\ \A d \in 1 .. Len(below) : below[d] = ss[d]
      /\ e.scan => ss # <<>>
  <2>1. CASE e.scan
    <3>1. Len(ss) = Below(o, n - 1) + 1 /\ Len(ss) \in Nat
      BY <1>1, <1>4, <2>1
    <3>2. ss # <<>>
      BY <1>4, <3>1
    <3>3. /\ Front(ss) \in Seq(Seq(Object)) /\ Len(Front(ss)) = Len(ss) - 1
          /\ \A d \in 1 .. Len(ss) - 1 : Front(ss)[d] = ss[d]
      BY <1>1, <3>2, FrontLast
    <3>4. Len(ss) - 1 = Below(o, n - 1) /\ Len(ss) - 1 <= Len(ss)
      BY <1>4, <3>1
    <3> QED BY <2>1, <3>2, <3>3, <3>4
  <2>2. CASE ~e.scan
    BY <1>1, <1>4, <2>2
  <2> QED BY <2>1, <2>2
<1> HIDE DEF below
<1>7. \A i \in 1 .. n - 1 : Inside(below, Below(o, i)) = Inside(ss, Below(o, i))
  <2>1. \A d \in 0 .. Len(below) : Inside(ss, d) = Inside(below, d)
    <3>1. Len(below) \in Nat /\ Len(below) <= Len(below)
      BY <1>6
    <3> QED BY <1>1, <1>6, <3>1, InsideSame
  <2>2. \A i \in 1 .. n - 1 : Below(o, i) \in 0 .. Len(below)
    <3>1. n - 1 \in Nat /\ \A i \in 1 .. n - 1 : i \in Nat /\ i <= n - 1
      BY <1>1
    <3>2. \A i \in 1 .. n - 1 : Below(o, i) \in Nat /\ Below(o, i) <= Below(o, n - 1)
      BY <3>1, BelowFacts
    <3> QED BY <1>4, <1>6, <3>2
  <2> QED BY <2>1, <2>2
<1>8. \A i \in 1 .. n - 1 : i \in 1 .. Len(o)
  BY <1>1 DEF n
<1>9. Stack(p, below, k)
  <2>1. \A i \in 1 .. Len(p) : Around(p, i) = Inside(below, Below(p, i))
    BY <1>1, <1>2, <1>7, <1>8 DEF Carried, Stack
  <2>2. \A i \in 1 .. Len(p) :
          EntryHolds(p[i].kind, p[i].n, Around(p, i - 1), Around(p, i), Below(p, i), k)
    BY <1>1, <1>2, <1>8 DEF Carried, Stack
  <2>3. \A i, j \in 1 .. Len(p) :
          p[i].kind \in LabelKind /\ p[j].kind \in LabelKind /\ p[i].n = p[j].n => i = j
    BY <1>1, <1>8 DEF Stack
  <2>4. p # <<>>
    BY <1>1
  <2> QED BY <1>1, <1>5, <1>6, <2>1, <2>2, <2>3, <2>4 DEF Stack
<1>10. Around(o, n) = Inside(ss, Below(o, n)) /\ Around(o, n - 1) = Inside(ss, Below(o, n - 1))
  <2>1. n \in 1 .. Len(o) /\ n - 1 \in 1 .. Len(o)
    BY <1>1 DEF n
  <2> QED BY <2>1 DEF Stack
<1>11. IF e.scan THEN Last(ss) = e.decls ELSE e.decls = <<>>
  <2>1. CASE e.scan
    <3>1. Len(ss) = Below(o, n - 1) + 1 /\ Len(ss) \in 1 .. Len(ss) /\ Len(ss) - 1 = Below(o, n - 1)
      BY <1>1, <1>4, <2>1
    <3>2. Inside(ss, Len(ss)) = Inside(ss, Len(ss) - 1) \o ss[Len(ss)] /\ ss[Len(ss)] \in Seq(Object)
      BY <1>1, <3>1, InsideFacts, ElementOfSeq
    <3> DEFINE a == InScope(p)  b == e.decls  c == ss[Len(ss)]
    <3>3. a \o b = a \o c
      BY <1>1, <1>2, <1>3, <1>10, <3>1, <3>2
    <3>4. a \in Seq(Object) /\ b \in Seq(Object) /\ c \in Seq(Object)
      BY <1>3, <3>2
    <3> HIDE DEF a, b, c
    <3>5. b = c
      BY ONLY <3>3, <3>4, ConcatSimplifications
    <3> QED BY <2>1, <3>5 DEF b, c, Last
  <2>2. CASE ~e.scan
    <3> DEFINE a == InScope(p)  b == e.decls
    <3>1. a \o b = a /\ a \in Seq(Object) /\ b \in Seq(Object)
      BY <1>3, <1>4, <1>10, <2>2
    <3> HIDE DEF a, b
    <3>2. b = <<>>
      BY ONLY <3>1, ConcatEqualIffEmpty
    <3> QED BY <2>2, <3>2 DEF b
  <2> QED BY <2>1, <2>2
<1> QED BY <1>3, <1>6, <1>9, <1>11 DEF p, e, below

\* A prefix that ends in a newer object than any of a sequence is none of its prefixes.
LEMMA NewerIsNoPrefix ==
  ASSUME NEW m \in Nat, NEW s \in Seq(Object), NEW t \in Seq(1 .. m)
  PROVE  ~IsPrefix(Append(s, m + 1), t)
<1> SUFFICES ASSUME m + 1 \in Nat, IsPrefix(Append(s, m + 1), t) PROVE FALSE
  OBVIOUS
<1> DEFINE p == Append(s, m + 1)  n == Len(p)
<1>1. s \in Seq(Nat) /\ m + 1 \in Nat
  <2>1. Object \subseteq Nat
    BY DEF Object
  <2> QED BY <2>1, SeqMonotonic
<1>2. p \in Seq(Nat) /\ n \in Nat \ {0} /\ p[n] = m + 1
  BY <1>1, AppendProperties
<1>3. n <= Len(t) /\ SubSeq(p, 1, n) = SubSeq(t, 1, n)
  BY DEF IsPrefix
<1> HIDE DEF p, n
<1>4. Len(t) \in Nat /\ n \in 0 .. Len(p) /\ n \in 0 .. Len(t) /\ n \in 1 .. n /\ n \in 1 .. Len(t)
  BY <1>2, <1>3 DEF n
<1>5. SubSeq(p, 1, n)[n] = p[n] /\ SubSeq(t, 1, n)[n] = t[n]
  BY <1>2, <1>4, PrefixFacts
<1>6. t[n] \in 1 .. m
  BY <1>4, ElementOfSeq
<1> QED BY <1>2, <1>3, <1>5, <1>6

\* T x; in a block.
LEMMA StackDeclared ==
  ASSUME NEW o, NEW ss, NEW ls, NEW k, Stack(o, ss, k), Fits(o, ss, ls),
         Last(o).kind \in {"function", "block"}, k.objects \in Nat,
         \A t \in k.gotos : t[2] \in Seq(1 .. k.objects),
         NEW x \in Object, x = k.objects + 1, NEW m, Wider(k, m), m.objects = x
  PROVE  /\ Stack(Declared(o, x), Register(ss, <<x>>), m)
         /\ InScope(Declared(o, x)) = Append(InScope(o), x)
<1> DEFINE p == Declared(o, x)  tt == Register(ss, <<x>>)  n == Len(o)
<1>1. /\ o \in Seq(EntryType) /\ o # <<>> /\ p \in Seq(EntryType) /\ Alike(o, p) /\ Front(p) = Front(o)
      /\ Last(p) = [Last(o) EXCEPT !.decls = Append(@, x)]
      /\ ss \in Seq(Seq(Object)) /\ Len(ss) = Below(o, n)
      /\ tt \in Seq(Seq(Object)) /\ Len(tt) = Len(ss) /\ Front(tt) = Front(ss) /\ Last(tt) = Last(ss) \o <<x>>
  <2>1. <<x>> \in Seq(Object)
    OBVIOUS
  <2> QED BY <2>1, InnermostChanges DEF Stack
<1> HIDE DEF p, tt, n
<1>2. /\ n \in Nat \ {0} /\ Len(p) = n /\ Len(o) = n /\ p # <<>> /\ Last(o) \in EntryType
      /\ Last(o) = o[n] /\ Last(p) = p[n]
  BY <1>1, EmptySeq, FrontLast DEF Alike, n, Last
<1>3. /\ p[n].decls = Append(o[n].decls, x) /\ o[n].decls \in Seq(Object)
      /\ p[n].kind = o[n].kind /\ p[n].n = o[n].n /\ p[n].scan = o[n].scan
  BY <1>1, <1>2 DEF EntryType
<1>4. /\ \A i \in 1 .. n - 1 : p[i] = o[i]
      /\ Carried(o, p, n - 1) /\ Around(p, n - 1) = Around(o, n - 1)
  <2>1. \A i \in 1 .. n - 1 : p[i] = o[i]
    <3>1. \A i \in 1 .. n - 1 : Front(p)[i] = p[i]
      BY <1>1, <1>2, FrontLast
    <3>2. \A i \in 1 .. n - 1 : Front(o)[i] = o[i]
      BY <1>1, <1>2, FrontLast
    <3> QED BY <1>1, <3>1, <3>2
  <2>2. n - 1 \in Nat /\ n - 1 <= Len(o) /\ n - 1 <= Len(p)
    BY <1>2
  <2> QED BY <1>1, <2>1, <2>2, CarriedOver
<1>5. n \in 1 .. n /\ n - 1 \in Nat /\ (n - 1) + 1 = n /\ \A i \in 1 .. n : i \in 1 .. n - 1 \/ i = n
  BY <1>2
<1>6. Around(p, n) = Append(Around(o, n), x) /\ InScope(p) = Append(InScope(o), x)
  <2> DEFINE a == Around(o, n - 1)  b == o[n].decls
  <2>1. n - 1 \in 0 .. Len(o)
    BY <1>2
  <2>2. /\ Around(p, n) = Around(p, n - 1) \o p[n].decls /\ Around(o, n) = a \o b
        /\ a \in Seq(Object) /\ InScope(p) = Around(p, n) /\ InScope(o) = Around(o, n)
    BY <1>1, <1>2, <1>5, <2>1, AroundFacts
  <2>3. Around(p, n) = a \o Append(b, x) /\ b \in Seq(Object)
    BY <1>3, <1>4, <2>2
  <2> HIDE DEF a, b
  <2>4. a \o Append(b, x) = Append(a \o b, x)
    BY <2>2, <2>3, ObjectBehind
  <2> QED BY <2>2, <2>3, <2>4
<1>7. /\ \A i \in 1 .. n : Below(p, i) = Below(o, i)
      /\ Below(o, n - 1) = Len(ss) - 1 /\ Len(ss) \in Nat \ {0}
  <2>1. o[n].scan
    BY <1>2 DEF EntryType, ScopeKind
  <2>2. Below(o, n) = Below(o, n - 1) + 1 /\ Below(o, n - 1) \in Nat
    BY <1>5, <2>1, BelowFacts
  <2>3. \A i \in 1 .. n : Below(p, i) = Below(o, i)
    <3>1. \A i \in 1 .. n : p[i].scan = o[i].scan
      BY <1>3, <1>4, <1>5
    <3>2. \A i \in 1 .. n : i \in Nat /\ \A j \in 1 .. i : j \in 1 .. n
      BY <1>2
    <3> QED BY <3>1, <3>2, BelowAgrees
  <2>4. Len(ss) = Below(o, n)
    BY <1>1
  <2>5. Len(ss) \in Nat \ {0} /\ Below(o, n - 1) = Len(ss) - 1
    BY <2>2, <2>4
  <2> QED BY <2>3, <2>5
<1>8. \A d \in 0 .. Len(ss) - 1 : Inside(tt, d) = Inside(ss, d)
  <2>1. Len(ss) - 1 \in Nat /\ Len(ss) - 1 <= Len(ss) /\ Len(ss) - 1 <= Len(tt)
    BY <1>1, <1>7
  <2>2. \A d \in 1 .. Len(ss) - 1 : ss[d] = tt[d]
    <3>1. ss # <<>> /\ tt # <<>>
      BY <1>1, <1>7
    <3>2. \A d \in 1 .. Len(ss) - 1 : Front(ss)[d] = ss[d] /\ Front(tt)[d] = tt[d]
      BY <1>1, <3>1, FrontLast
    <3> QED BY <1>1, <3>2
  <2> QED BY <1>1, <2>1, <2>2, InsideSame
<1>9. \A i \in 1 .. n - 1 : Around(p, i) = Inside(tt, Below(p, i))
  <2>1. \A i \in 1 .. n - 1 : Below(o, i) \in 0 .. Len(ss) - 1
    <3>1. \A i \in 1 .. n - 1 : i \in Nat /\ i <= n - 1
      BY <1>2
    <3>2. \A i \in 1 .. n - 1 : Below(o, i) \in Nat /\ Below(o, i) <= Below(o, n - 1)
      BY <1>5, <3>1, BelowFacts
    <3> QED BY <1>7, <3>2
  <2>2. \A i \in 1 .. n - 1 : Around(o, i) = Inside(ss, Below(o, i))
    BY <1>2, <1>5 DEF Stack
  <2> QED BY <1>4, <1>8, <2>1, <2>2 DEF Carried
<1>10. Around(p, n) = Inside(tt, Below(p, n))
  <2> DEFINE d == Len(ss)  a == Inside(ss, d - 1)  b == ss[d]
  <2>1. d \in 1 .. d /\ d - 1 \in 0 .. d - 1 /\ d - 1 \in 0 .. d /\ d \in 1 .. Len(tt)
    BY <1>1, <1>7
  <2>2. /\ Inside(ss, d) = a \o b /\ Inside(tt, d) = Inside(tt, d - 1) \o tt[d] /\ Inside(tt, d - 1) = a
        /\ a \in Seq(Object) /\ b \in Seq(Object)
    BY <1>1, <1>8, <2>1, InsideFacts, ElementOfSeq
  <2>3. tt[d] = b \o <<x>>
    BY <1>1 DEF Last
  <2>4. Around(o, n) = Inside(ss, d) /\ Below(p, n) = d
    BY <1>1, <1>2, <1>5, <1>7 DEF Stack
  <2> HIDE DEF d, a, b
  <2>5. a \o (b \o <<x>>) = Append(a \o b, x)
    BY <2>2, ObjectBehind
  <2> QED BY <1>6, <2>2, <2>3, <2>4, <2>5
<1>11. ASSUME NEW i \in 1 .. n - 1
       PROVE  EntryHolds(p[i].kind, p[i].n, Around(p, i - 1), Around(p, i), Below(p, i), m)
  <2>1. EntryHolds(o[i].kind, o[i].n, Around(o, i - 1), Around(o, i), Below(o, i), k)
    BY <1>2, <1>5 DEF Stack
  <2>2. Stack(o, ss, m) /\ i \in 1 .. Len(o)
    BY <1>2, <1>5, StackWider
  <2>3. EntryHolds(o[i].kind, o[i].n, Around(o, i - 1), Around(o, i), Below(o, i), m)
    BY <2>2 DEF Stack
  <2> QED BY <1>4, <2>3 DEF Carried
<1>12. EntryHolds(p[n].kind, p[n].n, Around(p, n - 1), Around(p, n), Below(p, n), m)
  <2>1. EntryHolds(o[n].kind, o[n].n, Around(o, n - 1), Around(o, n), Below(o, n), m)
    <3>1. Stack(o, ss, m) /\ n \in 1 .. Len(o)
      BY <1>2, <1>5, StackWider
    <3> QED BY <3>1 DEF Stack
  <2>2. Around(p, n) \in Seq(1 .. m.objects)
    <3>1. Around(o, n) \in Seq(1 .. m.objects)
      BY <2>1 DEF EntryHolds
    <3>2. x \in 1 .. m.objects
      OBVIOUS
    <3> QED BY <1>6, <3>1, <3>2, AppendProperties
  <2>3. p[n].kind \notin TargetKind
    BY <1>2, <1>3 DEF TargetKind, HeadKind, BreakKind
  <2>4. \A t \in m.gotos : Settles(t, Around(p, n))
    <3>1. Around(o, n) \in Seq(Object)
      <4>1. o \in Seq(EntryType) /\ n \in 0 .. Len(o)
        BY <1>1, <1>2
      <4> QED BY <4>1, AroundFacts
    <3>2. \A t \in k.gotos : ~IsPrefix(Append(Around(o, n), x), t[2])
      BY <3>1, NewerIsNoPrefix
    <3> QED BY <1>6, <3>2 DEF Settles, Wider
  <2> QED BY <1>3, <1>5, <1>7, <2>1, <2>2, <2>3, <2>4 DEF EntryHolds
<1>13. ASSUME NEW i \in 1 .. n, NEW j \in 1 .. n,
              p[i].kind \in LabelKind, p[j].kind \in LabelKind, p[i].n = p[j].n
       PROVE  i = j
  <2>1. o[i].kind = p[i].kind /\ o[j].kind = p[j].kind /\ o[i].n = p[i].n /\ o[j].n = p[j].n
    BY <1>3, <1>4, <1>5
  <2> QED BY <1>2, <1>13, <2>1 DEF Stack
<1>14. Len(tt) = Below(p, Len(p))
  BY <1>1, <1>2, <1>5, <1>7
<1>15. Stack(p, tt, m)
  <2>1. \A i \in 1 .. Len(p) : Around(p, i) = Inside(tt, Below(p, i))
    BY <1>2, <1>5, <1>9, <1>10
  <2>2. \A i \in 1 .. Len(p) :
          EntryHolds(p[i].kind, p[i].n, Around(p, i - 1), Around(p, i), Below(p, i), m)
    BY <1>2, <1>5, <1>11, <1>12
  <2> QED BY <1>1, <1>2, <1>13, <1>14, <2>1, <2>2 DEF Stack
<1> QED BY <1>6, <1>15 DEF p, tt

-----------------------------------------------------------------------------
(* What the code does to the objects that are alive.                        *)

\* The instruction c is reached with the objects A alive and left with B.  Behind a jump
\* B is what the visitor takes for granted.
Step(c, A, B, k) ==
  \/ c.op = "make" /\ B = Append(A, c.arg)
  \/ c.op = "destroy" /\ A = Append(B, c.arg)
  \/ /\ c.op = "label" /\ A = c.scope /\ B = A
     /\ IF c.arg = UserLabel THEN A \in k.places ELSE At(c.arg[1], A, k)
  \/ c.op = "branch" /\ At(c.arg[1], A, k) /\ B = A
  \/ c.op = "jump" /\ At(c.arg[1], A, k)
  \/ c.op = "dispatch" /\ At(c.arg, A, k)
  \/ c.op = "goto" /\ c.arg = UserLabel /\ <<A, c.scope>> \in k.gotos
  \/ c.op = "return" /\ A = <<>> /\ c.scope = <<>>

\* E[i] is alive at the instruction i.
Trace(c, E, k) ==
  /\ E \in [1 .. Len(c) + 1 -> Seq(Object)]
  /\ \A i \in 1 .. Len(c) : Step(c[i], E[i], E[i + 1], k)

Flow(c, A, B, k) ==
  /\ c \in Seq(InstrType)
  /\ \E E : Trace(c, E, k) /\ E[1] = A /\ E[Len(c) + 1] = B

LEMMA FlowEmpty == ASSUME NEW k, NEW A \in Seq(Object) PROVE Flow(<<>>, A, A, k)
<1> DEFINE E == [i \in 1 .. 1 |-> A]
<1>1. <<>> \in Seq(InstrType) /\ Len(<<>>) = 0 /\ 1 .. Len(<<>>) = {}
  BY EmptySeq
<1>2. Trace(<<>>, E, k) /\ E[1] = A /\ E[Len(<<>>) + 1] = A
  BY <1>1 DEF Trace
<1> QED BY <1>1, <1>2 DEF Flow

LEMMA FlowOne ==
  ASSUME NEW k, NEW c \in InstrType, NEW A \in Seq(Object), NEW B \in Seq(Object), Step(c, A, B, k)
  PROVE  Flow(<<c>>, A, B, k)
<1> DEFINE E == [i \in 1 .. 2 |-> IF i = 1 THEN A ELSE B]
<1>1. <<c>> \in Seq(InstrType) /\ Len(<<c>>) = 1 /\ <<c>>[1] = c
  OBVIOUS
<1>2. E \in [1 .. 2 -> Seq(Object)] /\ E[1] = A /\ E[2] = B
  OBVIOUS
<1> HIDE DEF E
<1>3. Trace(<<c>>, E, k) /\ E[1] = A /\ E[Len(<<c>>) + 1] = B
  <2>1. 1 .. Len(<<c>>) = {1} /\ Len(<<c>>) + 1 = 2 /\ 1 + 1 = 2
    BY <1>1
  <2> QED BY <1>1, <1>2, <2>1 DEF Trace
<1> QED BY <1>1, <1>3 DEF Flow

LEMMA FlowConcat ==
  ASSUME NEW k, NEW c, NEW d, NEW A, NEW B, NEW C, Flow(c, A, B, k), Flow(d, B, C, k)
  PROVE  Flow(c \o d, A, C, k)
<1>1. PICK D : Trace(c, D, k) /\ D[1] = A /\ D[Len(c) + 1] = B
  BY DEF Flow
<1>2. PICK E : Trace(d, E, k) /\ E[1] = B /\ E[Len(d) + 1] = C
  BY DEF Flow
<1> DEFINE m == Len(c)  n == Len(d)  s == c \o d
<1>3. /\ c \in Seq(InstrType) /\ d \in Seq(InstrType) /\ m \in Nat /\ n \in Nat
      /\ s \in Seq(InstrType) /\ Len(s) = m + n
      /\ \A i \in 1 .. m + n : s[i] = IF i <= m THEN c[i] ELSE d[i - m]
  <2>1. c \in Seq(InstrType) /\ d \in Seq(InstrType)
    BY DEF Flow
  <2> QED BY <2>1, ConcatProperties
<1>4. /\ D \in [1 .. m + 1 -> Seq(Object)] /\ \A i \in 1 .. m : Step(c[i], D[i], D[i + 1], k)
      /\ E \in [1 .. n + 1 -> Seq(Object)] /\ \A i \in 1 .. n : Step(d[i], E[i], E[i + 1], k)
      /\ D[1] = A /\ D[m + 1] = B /\ E[1] = B /\ E[n + 1] = C
  BY <1>1, <1>2 DEF Trace
<1> HIDE DEF m, n, s
<1> DEFINE G == [i \in 1 .. m + n + 1 |-> IF i <= m + 1 THEN D[i] ELSE E[i - m]]
<1>5. /\ G \in [1 .. Len(s) + 1 -> Seq(Object)]
      /\ \A i \in 1 .. m + 1 : G[i] = D[i]
      /\ \A i \in 1 .. n + 1 : G[m + i] = E[i]
  <2>1. \A i \in 1 .. m + n + 1 : i \in 1 .. m + 1 \/ (i > m + 1 /\ i - m \in 1 .. n + 1)
    BY <1>3
  <2>2. Len(s) + 1 = m + n + 1
    BY <1>3
  <2>3. G \in [1 .. Len(s) + 1 -> Seq(Object)]
    <3>1. \A i \in 1 .. m + n + 1 : G[i] \in Seq(Object)
      BY <1>3, <1>4, <2>1
    <3> QED BY <2>2, <3>1
  <2>4. \A i \in 1 .. m + 1 : i \in 1 .. m + n + 1 /\ i <= m + 1
    BY <1>3
  <2>5. ASSUME NEW i \in 1 .. n + 1 PROVE G[m + i] = E[i]
    <3>1. m + i \in 1 .. m + n + 1 /\ (m + i) - m = i
      BY <1>3
    <3>2. CASE i = 1
      <4>1. m + i <= m + 1 /\ m + i = m + 1
        BY <1>3, <3>2
      <4> QED BY <1>4, <3>1, <3>2, <4>1
    <3>3. CASE i # 1
      <4>1. ~(m + i <= m + 1)
        BY <1>3, <3>3
      <4> QED BY <3>1, <4>1
    <3> QED BY <3>2, <3>3
  <2> QED BY <2>3, <2>4, <2>5
<1> HIDE DEF G
<1>6. ASSUME NEW i \in 1 .. Len(s) PROVE Step(s[i], G[i], G[i + 1], k)
  <2>1. CASE i <= m
    <3>1. i \in 1 .. m /\ i \in 1 .. m + 1 /\ i + 1 \in 1 .. m + 1 /\ i \in 1 .. m + n
      BY <1>3, <2>1
    <3>2. s[i] = c[i] /\ G[i] = D[i] /\ G[i + 1] = D[i + 1]
      BY <1>3, <1>5, <2>1, <3>1
    <3> QED BY <1>4, <3>1, <3>2
  <2>2. CASE ~(i <= m)
    <3> DEFINE j == i - m
    <3>1. j \in 1 .. n /\ j \in 1 .. n + 1 /\ j + 1 \in 1 .. n + 1 /\ i = m + j /\ i + 1 = m + (j + 1) /\ i \in 1 .. m + n
      BY <1>3, <2>2
    <3>2. s[i] = d[j]
      BY <1>3, <2>2, <3>1
    <3> HIDE DEF j
    <3>3. G[i] = E[j] /\ G[i + 1] = E[j + 1]
      BY <1>5, <3>1
    <3> QED BY <1>4, <3>1, <3>2, <3>3
  <2> QED BY <2>1, <2>2
<1>7. G[1] = A /\ G[Len(s) + 1] = C
  <2>1. 1 \in 1 .. m + 1 /\ n + 1 \in 1 .. n + 1 /\ Len(s) + 1 = m + (n + 1)
    BY <1>3
  <2> QED BY <1>4, <1>5, <2>1
<1> QED BY <1>3, <1>5, <1>6, <1>7 DEF Flow, Trace, s

\* Constructing objects, and destroying them the last one first.
LEMMA FlowMake ==
  ASSUME NEW k, NEW A \in Seq(Object), NEW xs \in Seq(Object)
  PROVE  Flow(Make(xs), A, A \o xs, k)
<1> DEFINE c == Make(xs)  n == Len(xs)
           E == [i \in 1 .. n + 1 |-> A \o SubSeq(xs, 1, i - 1)]
<1>1. /\ c \in Seq(InstrType) /\ n \in Nat /\ DOMAIN xs = 1 .. n
  BY CodeParts DEF Code
<1>2. Len(c) = n /\ \A i \in 1 .. n : c[i].op = "make" /\ c[i].arg = xs[i]
  <2>1. c = [i \in 1 .. n |-> Instr("make", xs[i], <<>>)]
    BY <1>1 DEF Make
  <2>2. Len(c) = n
    BY <1>1, <2>1
  <2>3. \A i \in 1 .. n : c[i] = Instr("make", xs[i], <<>>)
    BY <2>1
  <2>4. \A x : Instr("make", x, <<>>).op = "make" /\ Instr("make", x, <<>>).arg = x
    BY DEF Instr
  <2> HIDE DEF c
  <2> QED BY <2>2, <2>3, <2>4
<1>3. \A i \in 1 .. n + 1 : A \o SubSeq(xs, 1, i - 1) \in Seq(Object)
  <2>1. \A i \in 1 .. n + 1 : i - 1 \in 0 .. n
    BY <1>1
  <2>2. \A i \in 1 .. n + 1 : SubSeq(xs, 1, i - 1) \in Seq(Object)
    BY <2>1, PrefixFacts
  <2> QED BY <2>2, ConcatProperties
<1>4. E \in [1 .. Len(c) + 1 -> Seq(Object)]
  BY <1>2, <1>3
<1>5. ASSUME NEW i \in 1 .. n PROVE E[i + 1] = Append(E[i], xs[i])
  <2>1. i \in 1 .. n + 1 /\ i + 1 \in 1 .. n + 1 /\ (i + 1) - 1 = i /\ i - 1 \in 0 .. n
    BY <1>1
  <2> DEFINE p == SubSeq(xs, 1, i - 1)  x == xs[i]
  <2>2. SubSeq(xs, 1, i) = Append(p, x) /\ p \in Seq(Object) /\ x \in Object
    BY <2>1, PrefixFacts, ElementOfSeq
  <2>3. E[i] = A \o p /\ E[i + 1] = A \o SubSeq(xs, 1, i)
    BY <2>1
  <2> HIDE DEF p, x
  <2>4. A \o Append(p, x) = Append(A \o p, x)
    BY <2>2, ObjectBehind
  <2> QED BY <2>2, <2>3, <2>4 DEF x
<1>6. E[1] = A /\ E[Len(c) + 1] = A \o xs
  <2>1. SubSeq(xs, 1, 0) = <<>> /\ SubSeq(xs, 1, n) = xs
    BY PrefixFacts
  <2>2. A \o <<>> = A
    BY ConcatEmptySeq
  <2>3. 1 \in 1 .. n + 1 /\ n + 1 \in 1 .. n + 1 /\ 1 - 1 = 0 /\ (n + 1) - 1 = n
    BY <1>1
  <2>4. E[1] = A \o SubSeq(xs, 1, 1 - 1) /\ E[n + 1] = A \o SubSeq(xs, 1, (n + 1) - 1)
    BY <2>3
  <2> QED BY <1>2, <2>1, <2>2, <2>3, <2>4
<1> HIDE DEF c, E
<1>7. \A i \in 1 .. Len(c) : Step(c[i], E[i], E[i + 1], k)
  BY <1>2, <1>5 DEF Step
<1> QED BY <1>1, <1>4, <1>6, <1>7 DEF Flow, Trace, c

LEMMA FlowDestroy ==
  ASSUME NEW k, NEW A \in Seq(Object), NEW xs \in Seq(Object)
  PROVE  Flow(Destroy(xs), A \o xs, A, k)
<1> DEFINE c == Destroy(xs)  n == Len(xs)
           E == [i \in 1 .. n + 1 |-> A \o SubSeq(xs, 1, n + 1 - i)]
<1>1. /\ c \in Seq(InstrType) /\ n \in Nat /\ DOMAIN xs = 1 .. n
  BY CodeParts DEF Code
<1>2. Len(c) = n /\ \A i \in 1 .. n : c[i].op = "destroy" /\ c[i].arg = xs[n + 1 - i]
  <2>1. c = [i \in 1 .. n |-> Instr("destroy", Reverse(xs)[i], <<>>)]
    BY <1>1 DEF Destroy
  <2>2. Len(c) = n
    BY <1>1, <2>1
  <2>3. \A i \in 1 .. n : c[i] = Instr("destroy", Reverse(xs)[i], <<>>)
    BY <2>1
  <2>4. \A x : Instr("destroy", x, <<>>).op = "destroy" /\ Instr("destroy", x, <<>>).arg = x
    BY DEF Instr
  <2>5. \A i \in 1 .. n : Reverse(xs)[i] = xs[n + 1 - i]
    <3>1. \A i \in 1 .. n : n - i + 1 = n + 1 - i
      BY <1>1
    <3> QED BY <3>1 DEF Reverse
  <2> HIDE DEF c
  <2> QED BY <2>2, <2>3, <2>4, <2>5
<1>3. \A i \in 1 .. n + 1 : A \o SubSeq(xs, 1, n + 1 - i) \in Seq(Object)
  <2>1. \A i \in 1 .. n + 1 : n + 1 - i \in 0 .. n
    BY <1>1
  <2>2. \A i \in 1 .. n + 1 : SubSeq(xs, 1, n + 1 - i) \in Seq(Object)
    BY <2>1, PrefixFacts
  <2> QED BY <2>2, ConcatProperties
<1>4. E \in [1 .. Len(c) + 1 -> Seq(Object)]
  BY <1>2, <1>3
<1>5. ASSUME NEW i \in 1 .. n PROVE E[i] = Append(E[i + 1], xs[n + 1 - i])
  <2> DEFINE j == n + 1 - i  p == SubSeq(xs, 1, j - 1)  x == xs[j]
  <2>1. i \in 1 .. n + 1 /\ i + 1 \in 1 .. n + 1 /\ n + 1 - (i + 1) = j - 1 /\ j - 1 \in 0 .. n /\ j \in 1 .. n
    BY <1>1
  <2>2. SubSeq(xs, 1, j) = Append(p, x) /\ p \in Seq(Object) /\ x \in Object
    BY <2>1, PrefixFacts, ElementOfSeq
  <2>3. E[i] = A \o SubSeq(xs, 1, j) /\ E[i + 1] = A \o p
    BY <2>1
  <2> HIDE DEF p, x
  <2>4. A \o Append(p, x) = Append(A \o p, x)
    BY <2>2, ObjectBehind
  <2> QED BY <2>2, <2>3, <2>4 DEF x
<1>6. E[1] = A \o xs /\ E[Len(c) + 1] = A
  <2>1. SubSeq(xs, 1, 0) = <<>> /\ SubSeq(xs, 1, n) = xs
    BY PrefixFacts
  <2>2. A \o <<>> = A
    BY ConcatEmptySeq
  <2>3. 1 \in 1 .. n + 1 /\ n + 1 \in 1 .. n + 1 /\ n + 1 - 1 = n /\ n + 1 - (n + 1) = 0
    BY <1>1
  <2>4. E[1] = A \o SubSeq(xs, 1, n + 1 - 1) /\ E[n + 1] = A \o SubSeq(xs, 1, n + 1 - (n + 1))
    BY <2>3
  <2> QED BY <1>2, <2>1, <2>2, <2>3, <2>4
<1> HIDE DEF c, E
<1>7. \A i \in 1 .. Len(c) : Step(c[i], E[i], E[i + 1], k)
  BY <1>2, <1>5 DEF Step
<1> QED BY <1>1, <1>4, <1>6, <1>7 DEF Flow, Trace, c

\* What is known at least as well: more constructs, gotos and labels.
Richer(k, m) ==
  /\ k.constructs \in Nat /\ m.constructs \in Nat /\ k.constructs <= m.constructs
  /\ \A n \in 1 .. k.constructs : m.at[n] = k.at[n]
  /\ k.gotos \subseteq m.gotos /\ k.places \subseteq m.places

LEMMA FlowRicher ==
  ASSUME NEW c, NEW A, NEW B, NEW k, NEW m, Flow(c, A, B, k), Richer(k, m)
  PROVE  Flow(c, A, B, m)
<1>1. \A n, xs : At(n, xs, k) => At(n, xs, m)
  BY DEF At, Richer
<1>2. \A d, X, Y : Step(d, X, Y, k) => Step(d, X, Y, m)
  BY <1>1 DEF Step, Richer
<1> QED BY <1>2 DEF Flow, Trace

\* A branch may be taken, a jump is, and a label is where they go to.
LEMMA FlowTargets ==
  ASSUME NEW k, NEW n \in 1 .. MaxConstructs, NEW A \in Seq(Object), At(n, A, k),
         NEW s \in {"start", "next", "end", "else", "case"}
  PROVE  /\ Flow(BranchTo(<<n, s>>), A, A, k)
         /\ \A B \in Seq(Object) : Flow(JumpTo(<<n, s>>), A, B, k)
         /\ \A o : InScope(o) = A => Flow(Mark(<<n, s>>, o), A, A, k)
<1> DEFINE l == <<n, s>>
<1>1. l \in LabelName /\ l[1] = n /\ l # UserLabel /\ l \in Argument /\ <<>> \in Seq(Object)
  <2>1. n \in 0 .. MaxConstructs /\ n # 0
    BY ConstantsAreNat
  <2> QED BY <2>1, EmptySeq DEF LabelName, UserLabel, Argument
<1> HIDE DEF l
<1>2. ASSUME NEW op \in {"branch", "jump", "label"}, NEW xs \in Seq(Object)
      PROVE  /\ Instr(op, l, xs) \in InstrType
             /\ Instr(op, l, xs).op = op /\ Instr(op, l, xs).arg = l /\ Instr(op, l, xs).scope = xs
  BY <1>1 DEF Instr, InstrType
<1>3. Flow(BranchTo(l), A, A, k)
  <2>1. Step(Instr("branch", l, <<>>), A, A, k)
    BY <1>1, <1>2 DEF Step
  <2> QED BY <1>1, <1>2, <2>1, FlowOne DEF BranchTo
<1>4. ASSUME NEW B \in Seq(Object) PROVE Flow(JumpTo(l), A, B, k)
  <2>1. Step(Instr("jump", l, <<>>), A, B, k)
    BY <1>1, <1>2 DEF Step
  <2> QED BY <1>1, <1>2, <2>1, FlowOne DEF JumpTo
<1>5. ASSUME NEW o, InScope(o) = A PROVE Flow(Mark(l, o), A, A, k)
  <2>1. Step(Instr("label", l, A), A, A, k)
    BY <1>1, <1>2 DEF Step
  <2> QED BY <1>2, <1>5, <2>1, FlowOne DEF Mark
<1> QED BY <1>3, <1>4, <1>5 DEF l

\* A jump out of all scopes but d destroys what was declared in them.
LEMMA FlowExit ==
  ASSUME NEW k, scopes \in Seq(Seq(Object)), NEW d \in Nat
  PROVE  Flow(NonLocalExit(d), FlattenSeq(scopes), IF d <= Len(scopes) THEN Inside(scopes, d) ELSE FlattenSeq(scopes), k)
<1>1. Len(scopes) \in Nat
  OBVIOUS
<1>2. CASE d <= Len(scopes)
  <2>1. d \in 0 .. Len(scopes)
    BY <1>1, <1>2
  <2> DEFINE xs == FlattenSeq(SubSeq(scopes, d + 1, Len(scopes)))
  <2>2. xs \in Seq(Object) /\ FlattenSeq(scopes) = Inside(scopes, d) \o xs /\ Inside(scopes, d) \in Seq(Object)
    BY <2>1, InsideSplit, InsideFacts
  <2>3. Flow(Destroy(xs), Inside(scopes, d) \o xs, Inside(scopes, d), k)
    BY <2>2, FlowDestroy
  <2> QED BY <1>2, <2>2, <2>3 DEF NonLocalExit
<1>3. CASE ~(d <= Len(scopes))
  <2>1. SubSeq(scopes, d + 1, Len(scopes)) = <<>>
    BY <1>1, <1>3, SubSeqEmpty
  <2>2. FlattenSeq(<<>>) = <<>> /\ FlattenSeq(scopes) \in Seq(Object) /\ <<>> \in Seq(Object)
    BY FlattenAppend, EmptySeq
  <2>3. FlattenSeq(scopes) \o <<>> = FlattenSeq(scopes)
    BY <2>2, ConcatEmptySeq
  <2>4. Flow(Destroy(<<>>), FlattenSeq(scopes) \o <<>>, FlattenSeq(scopes), k)
    BY <2>2, FlowDestroy
  <2> QED BY <1>3, <2>1, <2>2, <2>3, <2>4 DEF NonLocalExit
<1> QED BY <1>2, <1>3

-----------------------------------------------------------------------------
(* What holds of the code while it is written, and when it runs.            *)

\* The gotos come to the label with what is in scope there.
Meet(k) == \A t \in k.gotos, s \in k.places : t[1] = s

Known(k) ==
  /\ k.label = label /\ k.objects = size.objects /\ k.constructs = size.constructs
  /\ \A s \in k.places : \E i \in Places(UserLabel) : code[i].scope = s
  /\ \A t \in k.gotos :
       /\ t[2] \in Seq(1 .. k.objects)
       /\ \E i \in 1 .. Len(code) : code[i].op = "goto" /\ code[i].scope = t[2]
  /\ label = NoLabel => k.gotos = {} /\ k.places = {}
  /\ label # NoLabel => label.body <= size.constructs
  /\ Meet(k)

Emitting(k) == Known(k) /\ Stack(open, scopes, k) /\ Flow(code, <<>>, InScope(open), k)
Running(k, E) == Meet(k) /\ Trace(code, E, k) /\ E[1] = <<>> /\ alive = E[pc]

ScopeInv ==
  /\ pc = 0 => alive = <<>> /\ \E k : Emitting(k)
  /\ pc # 0 => \E k, E : Running(k, E)

\* One instruction more, or several.
LEMMA CodeGrows ==
  ASSUME code \in Seq(InstrType), NEW t \in Seq(InstrType), code' = code \o t
  PROVE  /\ code' \in Seq(InstrType) /\ Len(code') = Len(code) + Len(t)
         /\ \A i \in 1 .. Len(code) : i \in 1 .. Len(code') /\ code'[i] = code[i]
         /\ \A i \in 1 .. Len(t) : Len(code) + i \in 1 .. Len(code') /\ code'[Len(code) + i] = t[i]
         /\ \A l, i : i \in Places(l) => i \in Places(l)' /\ code'[i].scope = code[i].scope
<1>1. /\ code' \in Seq(InstrType) /\ Len(code') = Len(code) + Len(t)
      /\ \A i \in 1 .. Len(code) + Len(t) : code'[i] = IF i <= Len(code) THEN code[i] ELSE t[i - Len(code)]
      /\ Len(code) \in Nat /\ Len(t) \in Nat
  BY ConcatProperties
<1>2. \A i \in 1 .. Len(code) : i \in 1 .. Len(code') /\ i <= Len(code) /\ i \in 1 .. Len(code) + Len(t)
  BY <1>1
<1>3. ASSUME NEW i \in 1 .. Len(t)
      PROVE  Len(code) + i \in 1 .. Len(code') /\ code'[Len(code) + i] = t[i]
  <2>1. /\ Len(code) + i \in 1 .. Len(code) + Len(t) /\ ~(Len(code) + i <= Len(code))
        /\ (Len(code) + i) - Len(code) = i
    BY <1>1
  <2> QED BY <1>1, <2>1
<1>4. \A i \in 1 .. Len(code) : i \in 1 .. Len(code') /\ code'[i] = code[i]
  BY <1>1, <1>2
<1>5. DOMAIN code = 1 .. Len(code) /\ DOMAIN code' = 1 .. Len(code')
  BY <1>1
<1>6. \A l, i : i \in Places(l) => i \in Places(l)' /\ code'[i].scope = code[i].scope
  BY <1>4, <1>5 DEF Places
<1> QED BY <1>1, <1>3, <1>4, <1>6

LEMMA KnownTyped ==
  ASSUME NestingInv, NEW k, Known(k)
  PROVE  /\ k.objects \in 0 .. MaxObjects /\ k.constructs \in 0 .. MaxConstructs
         /\ k.objects \in Nat /\ k.constructs \in Nat /\ Wider(k, k) /\ Richer(k, k)
<1>1. size \in SizeType
  BY DEF NestingInv
<1>2. /\ size.objects \in 0 .. MaxObjects /\ size.constructs \in 0 .. MaxConstructs
      /\ size.objects \in Nat /\ size.constructs \in Nat
  BY <1>1, ConstantsAreNat DEF SizeType
<1> QED BY <1>2 DEF Known, Wider, Richer

\* Every handler but those of goto and the label.
LEMMA VisitKeepsScopes ==
  ASSUME NestingInv, pc = 0, alive = <<>>, UNCHANGED <<label, pc, alive>>, NEW k, Known(k), Flow(code, <<>>, InScope(open), k),
         NEW m, Wider(k, m), m.objects = size'.objects, m.constructs = size'.constructs,
         NEW t, code' = code \o t, Flow(t, InScope(open), InScope(open'), m),
         Stack(open', scopes', m)
  PROVE  ScopeInv'
<1>1. code \in Seq(InstrType) /\ t \in Seq(InstrType)
  BY DEF NestingInv, Emitted, Flow
<1>2. Richer(k, m)
  BY DEF Wider, Richer
<1>3. Flow(code', <<>>, InScope(open'), m)
  <2>1. Flow(code, <<>>, InScope(open), m)
    BY <1>2, FlowRicher
  <2> QED BY <2>1, FlowConcat
<1>4. Known(m)'
  <2>1. m.label = label' /\ Meet(m)
    BY DEF Known, Meet, Wider
  <2>2. ASSUME NEW s \in m.places PROVE \E i \in Places(UserLabel)' : code'[i].scope = s
    <3>1. s \in k.places
      BY DEF Wider
    <3>2. PICK i \in Places(UserLabel) : code[i].scope = s
      BY <3>1 DEF Known
    <3>3. i \in Places(UserLabel)' /\ code'[i].scope = s
      BY <1>1, <3>2, CodeGrows
    <3> QED BY <3>3
  <2>3. ASSUME NEW u \in m.gotos
        PROVE  /\ u[2] \in Seq(1 .. m.objects)
               /\ \E i \in 1 .. Len(code') : code'[i].op = "goto" /\ code'[i].scope = u[2]
    <3>1. u \in k.gotos /\ k.objects \in Nat /\ m.objects \in Nat /\ k.objects <= m.objects
      BY DEF Wider
    <3>2. 1 .. k.objects \subseteq 1 .. m.objects
      BY <3>1
    <3>3. u[2] \in Seq(1 .. k.objects)
      BY <3>1 DEF Known
    <3>4. u[2] \in Seq(1 .. m.objects)
      BY <3>2, <3>3, SeqMonotonic
    <3>5. PICK i \in 1 .. Len(code) : code[i].op = "goto" /\ code[i].scope = u[2]
      BY <3>1 DEF Known
    <3>6. i \in 1 .. Len(code') /\ code'[i] = code[i]
      BY <1>1, CodeGrows
    <3> QED BY <3>4, <3>5, <3>6
  <2>4. label' = NoLabel => m.gotos = {} /\ m.places = {}
    BY DEF Known, Wider
  <2>5. ASSUME label' # NoLabel PROVE label'.body <= size'.constructs
    <3>1. label.body <= k.constructs /\ k.constructs <= m.constructs
      BY <2>5 DEF Known, Wider
    <3>2. label.body \in Nat /\ k.constructs \in Nat /\ m.constructs \in Nat
      BY ConstantsAreNat DEF Wider, NestingInv, LabelType
    <3> QED BY <3>1, <3>2
  <2> QED BY <2>1, <2>2, <2>3, <2>4, <2>5 DEF Known, Meet
<1>5. Emitting(m)'
  BY <1>3, <1>4 DEF Emitting
<1> QED BY <1>5 DEF ScopeInv

\* What the handlers find.
LEMMA WhileVisiting ==
  ASSUME NestingInv, ScopeInv, pc = 0
  PROVE  alive = <<>> /\ \E k : /\ Known(k) /\ Stack(open, scopes, k) /\ Flow(code, <<>>, InScope(open), k)
                /\ Stack(Added(open), scopes, k) /\ InScope(Added(open)) = InScope(open)
                /\ InScope(open) = FlattenSeq(scopes) /\ InScope(open) \in Seq(1 .. k.objects)
                /\ InScope(open) \in Seq(Object)
<1>1. alive = <<>> /\ \E k : Emitting(k)
  BY DEF ScopeInv
<1>2. PICK k : Emitting(k)
  BY <1>1
<1>3. Fits(open, scopes, loops)
  BY AtAStatement
<1>4. Stack(Added(open), scopes, k) /\ InScope(Added(open)) = InScope(open)
  BY <1>2, <1>3, StackAdded DEF Emitting
<1>5. InScope(open) = FlattenSeq(scopes) /\ InScope(open) \in Seq(1 .. k.objects) /\ InScope(open) \in Seq(Object)
  BY <1>2, StackTop DEF Emitting
<1> QED BY <1>1, <1>2, <1>4, <1>5 DEF Emitting

\* One more construct, with xs alive at its labels, or one more object.
OneMore(k, objects, xs) ==
  [at |-> [i \in 1 .. k.constructs + 1 |-> IF i = k.constructs + 1 THEN xs ELSE k.at[i]],
   gotos |-> k.gotos, places |-> k.places, label |-> k.label,
   objects |-> k.objects + objects, constructs |-> k.constructs + 1]

LEMMA OneMoreFacts ==
  ASSUME NEW k, k.objects \in Nat, k.constructs \in Nat, NEW objects \in Nat, NEW xs
  PROVE  LET m == OneMore(k, objects, xs) IN
         /\ Wider(k, m) /\ At(k.constructs + 1, xs, m)
         /\ m.objects = k.objects + objects /\ m.constructs = k.constructs + 1
         /\ m.label = k.label /\ m.gotos = k.gotos /\ m.places = k.places
<1> DEFINE m == OneMore(k, objects, xs)
<1>1. /\ m.at = [i \in 1 .. k.constructs + 1 |-> IF i = k.constructs + 1 THEN xs ELSE k.at[i]]
      /\ m.gotos = k.gotos /\ m.places = k.places /\ m.label = k.label
      /\ m.objects = k.objects + objects /\ m.constructs = k.constructs + 1
  BY DEF OneMore
<1> HIDE DEF m
<1>2. \A i \in 1 .. k.constructs : m.at[i] = k.at[i]
  BY <1>1
<1>3. k.constructs + 1 \in 1 .. k.constructs + 1 /\ m.at[k.constructs + 1] = xs
  BY <1>1
<1> QED BY <1>1, <1>2, <1>3 DEF Wider, At, m

-----------------------------------------------------------------------------
(* The handlers of statements with a body.                                  *)

\* A body is opened. It is the construct with the highest number.
LEMMA BodyPushed ==
  ASSUME NEW o, NEW ss, NEW k, Stack(o, ss, k), NEW n \in 1 .. MaxConstructs, n = k.constructs,
         NEW body \in {"block", "single", "cases"}, Fresh(o, n),
         k.label # NoLabel => k.label.body # n, body = "cases" => At(n, InScope(o), k)
  PROVE  /\ Stack(Append(o, BodyEntry(body, n)), ss \o BodyScopes(body), k)
         /\ InScope(Append(o, BodyEntry(body, n))) = InScope(o)
<1> DEFINE e == BodyEntry(body, n)
<1>1. e \in EntryType /\ e.kind = body /\ e.n = n /\ e.decls = <<>> /\ (e.scan <=> body = "block")
  <2>1. body \in BodyKind \cup HeadKind /\ n \in 0 .. MaxConstructs /\ <<>> \in Seq(Object)
    BY ConstantsAreNat, EmptySeq DEF BodyKind
  <2>2. (body = "block") \in BOOLEAN /\ ((body = "block") <=> body \in ScopeKind)
    BY DEF ScopeKind
  <2>3. IsEntry(e, body, n, <<>>)
    BY <2>1, <2>2, EntryTyped DEF BodyEntry
  <2> QED BY <2>2, <2>3 DEF IsEntry
<1>2. /\ ss \in Seq(Seq(Object)) /\ InScope(o) \in Seq(Object) /\ InScope(o) \in Seq(1 .. k.objects)
      /\ InScope(o) \o <<>> = InScope(o)
  <2>1. InScope(o) \in Seq(Object) /\ InScope(o) \in Seq(1 .. k.objects)
    BY StackTop
  <2> QED BY <2>1, ConcatEmptySeq DEF Stack
<1> DEFINE tt == ss \o BodyScopes(body)
<1>3. tt = IF e.scan THEN Append(ss, e.decls) ELSE ss
  <2>1. <<>> \in Seq(Object)
    BY EmptySeq
  <2>2. Append(ss, <<>>) = ss \o <<<<>>>> /\ ss \o <<>> = ss
    BY <1>2, <2>1, AppendIsConcat, ConcatEmptySeq
  <2> QED BY <1>1, <2>2 DEF BodyScopes
<1> HIDE DEF e, tt
<1>4. n <= k.constructs
  OBVIOUS
<1>5. EntryHolds(e.kind, e.n, InScope(o), InScope(o) \o e.decls, Len(tt), k)
  BY <1>1, <1>2, <1>4 DEF EntryHolds, TargetKind, HeadKind, BreakKind
<1>6. Stack(Append(o, e), tt, k) /\ InScope(Append(o, e)) = InScope(o) \o e.decls
  BY <1>1, <1>3, <1>5, StackPush
<1> QED BY <1>1, <1>2, <1>6 DEF e, tt

\* The head of a statement, with a scope if it is that of a for.
LEMMA HeadPushed ==
  ASSUME NEW o, NEW ss, NEW k, Stack(o, ss, k), NEW kind \in HeadKind,
         NEW n, n <= k.constructs, NEW xs, NEW e, IsEntry(e, kind, n, xs),
         kind \notin ScopeKind => xs = <<>>, InScope(o) \o xs \in Seq(1 .. k.objects),
         At(n, IF kind = "range" THEN InScope(o) ELSE InScope(o) \o xs, k)
  PROVE  /\ Stack(Append(o, e), IF kind \in ScopeKind THEN Append(ss, xs) ELSE ss, k)
         /\ InScope(Append(o, e)) = InScope(o) \o xs
         /\ \A i : Fresh(o, i) => Fresh(Append(o, e), i)
<1> DEFINE tt == IF kind \in ScopeKind THEN Append(ss, xs) ELSE ss
<1>1. e \in EntryType /\ e.kind = kind /\ e.n = n /\ e.decls = xs /\ (e.scan <=> kind \in ScopeKind)
  BY DEF IsEntry
<1>2. kind \notin LabelKind /\ kind # "list"
  BY DEF LabelKind, HeadKind, BreakKind
<1>3. tt = IF e.scan THEN Append(ss, e.decls) ELSE ss
  BY <1>1
<1> HIDE DEF tt
<1>4. EntryHolds(e.kind, e.n, InScope(o), InScope(o) \o e.decls, Len(tt), k)
  BY <1>1, <1>2 DEF EntryHolds
<1>5. /\ Stack(Append(o, e), tt, k) /\ InScope(Append(o, e)) = InScope(o) \o e.decls
      /\ e.kind \notin LabelKind => \A i : Fresh(o, i) => Fresh(Append(o, e), i)
  BY <1>1, <1>2, <1>3, <1>4, StackPush
<1> QED BY <1>1, <1>2, <1>5 DEF tt

LEMMA NewObjects ==
  ASSUME NestingInv, NEW k, Known(k), InScope(open) \in Seq(1 .. k.objects),
         NEW j \in Nat, size.objects + j <= MaxObjects
  PROVE  /\ NextObjects(j) \in Seq(Object) /\ InScope(open) \o NextObjects(j) \in Seq(1 .. k.objects + j)
         /\ InScope(open) \o NextObjects(j) \in Seq(Object)
         /\ j = 0 => NextObjects(j) = <<>>
<1>1. k.objects = size.objects /\ k.objects \in Nat /\ MaxObjects \in Nat
  BY KnownTyped, ConstantsAreNat DEF Known
<1>2. NextObjects(j) \in Seq(1 .. k.objects + j) /\ NextObjects(j) \in Seq(Object) /\ Len(NextObjects(j)) = j
  <2>1. \A i \in 1 .. j : size.objects + i \in 1 .. k.objects + j /\ size.objects + i \in Object
    BY <1>1 DEF Object
  <2> QED BY <2>1 DEF NextObjects
<1>3. 1 .. k.objects \subseteq 1 .. k.objects + j /\ 1 .. k.objects \subseteq Object
  BY <1>1 DEF Object
<1>4. InScope(open) \in Seq(1 .. k.objects + j) /\ InScope(open) \in Seq(Object)
  BY <1>3, SeqMonotonic
<1>5. j = 0 => NextObjects(j) = <<>>
  BY <1>2, EmptySeq
<1> DEFINE a == InScope(open)  b == NextObjects(j)
<1>6. /\ a \in Seq(1 .. k.objects + j) /\ b \in Seq(1 .. k.objects + j)
      /\ a \in Seq(Object) /\ b \in Seq(Object)
  BY <1>2, <1>4
<1> HIDE DEF a, b
<1>7. a \o b \in Seq(1 .. k.objects + j) /\ a \o b \in Seq(Object)
  BY ONLY <1>6, ConcatProperties
<1> QED BY <1>2, <1>5, <1>7 DEF a, b

\* What it takes for a new construct: A is alive at its labels.
LEMMA ConstructNumbered ==
  ASSUME NestingInv, NEW k, Known(k), NEW j \in Nat, size.constructs < MaxConstructs, Count(j, 1),
         label' = label, NEW o, NEW ss, Stack(o, ss, k), NEW A
  PROVE  \E m : /\ Wider(k, m) /\ At(size.constructs + 1, A, m)
                /\ m.objects = k.objects + j /\ m.objects = size'.objects
                /\ m.constructs = size.constructs + 1 /\ m.constructs = size'.constructs
                /\ size.constructs + 1 \in 1 .. MaxConstructs
                /\ m.label # NoLabel => m.label.body # size.constructs + 1
                /\ Stack(o, ss, m) /\ Fresh(o, size.constructs + 1)
<1> DEFINE n == size.constructs + 1
<1>1. /\ k.objects = size.objects /\ k.constructs = size.constructs /\ k.label = label
      /\ k.objects \in Nat /\ k.constructs \in Nat
  BY KnownTyped DEF Known
<1>2. n \in 1 .. MaxConstructs /\ n > k.constructs /\ n \in Nat
  BY <1>1, ConstantsAreNat
<1>3. PICK m : /\ Wider(k, m) /\ At(n, A, m) /\ m.objects = k.objects + j /\ m.constructs = n /\ m.label = k.label
  <2> DEFINE w == OneMore(k, j, A)
  <2>1. /\ Wider(k, w) /\ At(k.constructs + 1, A, w) /\ w.objects = k.objects + j
        /\ w.constructs = k.constructs + 1 /\ w.label = k.label
    BY <1>1, OneMoreFacts
  <2> HIDE DEF w
  <2>2. k.constructs + 1 = n
    BY <1>1
  <2> QED BY <2>1, <2>2
<1>4. size'.objects = size.objects + j /\ size'.constructs = n
  BY DEF Count
<1>5. label # NoLabel => label.body # n
  <2>1. label # NoLabel => label.body <= k.constructs
    BY <1>1 DEF Known
  <2>2. label.body \in Nat
    BY ConstantsAreNat DEF NestingInv, LabelType
  <2> QED BY <1>1, <1>2, <2>1, <2>2
<1>6. Stack(o, ss, m) /\ Fresh(o, n)
  BY <1>2, <1>3, StackWider
<1> QED BY <1>1, <1>2, <1>3, <1>4, <1>5, <1>6

\* A statement with a head and a body.
LEMMA StatementInScope ==
  ASSUME NestingInv, ScopeInv, pc = 0, size.constructs < MaxConstructs, UNCHANGED <<label, pc, alive>>,
         NEW j \in Nat, size.objects + j <= MaxObjects, Count(j, 1),
         NEW kind \in HeadKind, kind \notin ScopeKind => j = 0,
         NEW e, IsEntry(e, kind, size.constructs + 1, NextObjects(j)),
         NEW body \in {"block", "single", "cases"}, kind = "range" => body # "cases",
         open' = Append(Append(Added(open), e), BodyEntry(body, size.constructs + 1)),
         scopes' = (IF kind \in ScopeKind THEN Append(scopes, NextObjects(j)) ELSE scopes) \o BodyScopes(body),
         NEW t, code' = code \o t,
         \A m, A, B : /\ A = InScope(open) /\ A \in Seq(Object)
                      /\ B = InScope(open) \o NextObjects(j) /\ B \in Seq(Object)
                      /\ InScope(Added(open)) = A /\ InScope(Append(Added(open), e)) = B
                      /\ size.constructs + 1 \in 1 .. MaxConstructs
                      /\ NextObjects(j) \in Seq(Object) /\ (j = 0 => B = A)
                      /\ At(size.constructs + 1, IF kind = "range" THEN A ELSE B, m)
                      => Flow(t, A, B, m)
  PROVE  ScopeInv'
<1> DEFINE n == size.constructs + 1
           A == InScope(open)
           B == A \o NextObjects(j)
           L == IF kind = "range" THEN A ELSE B
           o == Added(open)
           ss == IF kind \in ScopeKind THEN Append(scopes, NextObjects(j)) ELSE scopes
<1>1. PICK k : /\ Known(k) /\ Flow(code, <<>>, A, k) /\ Stack(o, scopes, k) /\ InScope(o) = A
               /\ A \in Seq(1 .. k.objects) /\ A \in Seq(Object) /\ alive = <<>>
  BY WhileVisiting
<1>2. PICK m : /\ Wider(k, m) /\ At(n, L, m) /\ m.objects = k.objects + j
               /\ m.objects = size'.objects /\ m.constructs = n /\ m.constructs = size'.constructs
               /\ n \in 1 .. MaxConstructs /\ (m.label # NoLabel => m.label.body # n)
               /\ Stack(o, scopes, m) /\ Fresh(o, n)
  BY <1>1, ConstructNumbered
<1>3. /\ NextObjects(j) \in Seq(Object) /\ B \in Seq(1 .. m.objects) /\ B \in Seq(Object)
      /\ j = 0 => NextObjects(j) = <<>>
  BY <1>1, <1>2, NewObjects
<1>4. kind \notin ScopeKind => NextObjects(j) = <<>>
  BY <1>3
<1>5. A \o <<>> = A
  BY <1>1, ConcatEmptySeq
<1>6. n <= m.constructs
  BY <1>2
<1> HIDE DEF n, A, o
<1>7. /\ Stack(Append(o, e), ss, m) /\ InScope(Append(o, e)) = B /\ Fresh(Append(o, e), n)
  <2>1. IsEntry(e, kind, n, NextObjects(j))
    BY DEF n
  <2>2. InScope(o) \o NextObjects(j) = B /\ InScope(o) \o NextObjects(j) \in Seq(1 .. m.objects)
    BY <1>1, <1>3
  <2>3. At(n, IF kind = "range" THEN InScope(o) ELSE InScope(o) \o NextObjects(j), m)
    BY <1>1, <1>2
  <2> HIDE DEF B, L, ss
  <2>4. /\ Stack(Append(o, e), IF kind \in ScopeKind THEN Append(scopes, NextObjects(j)) ELSE scopes, m)
        /\ InScope(Append(o, e)) = InScope(o) \o NextObjects(j)
        /\ \A i : Fresh(o, i) => Fresh(Append(o, e), i)
    BY <1>2, <1>4, <1>6, <2>1, <2>2, <2>3, HeadPushed
  <2> QED BY <1>2, <2>2, <2>4 DEF ss
<1>8. body = "cases" => At(n, InScope(Append(o, e)), m)
  BY <1>2, <1>7
<1> HIDE DEF B, L, ss
<1>9. /\ Stack(Append(Append(o, e), BodyEntry(body, n)), ss \o BodyScopes(body), m)
      /\ InScope(Append(Append(o, e), BodyEntry(body, n))) = B
  BY <1>2, <1>7, <1>8, BodyPushed
<1>10. Stack(open', scopes', m) /\ InScope(open') = B
  BY <1>9 DEF n, o, ss
<1>11. Flow(t, A, B, m)
  <2>1. j = 0 => B = A
    BY <1>3, <1>5 DEF B
  <2> QED BY <1>1, <1>2, <1>3, <1>7, <2>1 DEF n, A, B, L, o
<1> QED BY <1>1, <1>2, <1>10, <1>11, VisitKeepsScopes DEF A

\* Programs that do nothing the visitor gets the objects in scope wrong for.
Regular == Shapes \subseteq {"continue"}

LEMMA RegularBodies ==
  ASSUME Regular, NEW kind, NEW body \in BodyKinds(kind)
  PROVE  body \in {"block", "single", "cases"} /\ (body = "cases" <=> kind = "switch")
BY DEF BodyKinds, Regular

LEMMA OpenIfInScope ==
  ASSUME Regular, NestingInv, ScopeInv, OpenIf
  PROVE  ScopeInv'
<1> DEFINE n == size.constructs + 1
<1>1. pc = 0 /\ size.constructs < MaxConstructs /\ UNCHANGED <<label, pc, alive>>
  BY DEF OpenIf, Room
<1>2. PICK body \in BodyKinds("if"), k \in {0} \cup {i \in {1} : "if" \in Shapes} :
        /\ size.objects + k <= MaxObjects
        /\ code' = code \o Make(NextObjects(k)) \o BranchTo(<<n, "else">>)
        /\ open' = Added(open) \o <<Entry("if", n, NextObjects(k), FALSE), BodyEntry(body, n)>>
        /\ scopes' = Register(scopes, NextObjects(k)) \o BodyScopes(body)
        /\ Count(k, 1)
  BY DEF OpenIf
<1>3. k = 0 /\ body \in {"block", "single", "cases"}
  BY RegularBodies DEF Regular
<1> DEFINE e == Entry("if", n, NextObjects(0), FALSE)
<1>4. /\ size.objects + 0 <= MaxObjects /\ Count(0, 1)
      /\ code' = code \o Make(NextObjects(0)) \o BranchTo(<<n, "else">>)
      /\ open' = Added(open) \o <<e, BodyEntry(body, n)>>
      /\ scopes' = Register(scopes, NextObjects(0)) \o BodyScopes(body)
  BY <1>2, <1>3
<1>5. /\ Fits(Added(open), scopes, loops) /\ Added(open) \in Seq(EntryType) /\ code \in Seq(InstrType)
      /\ scopes \in Seq(Seq(Object)) /\ Len(scopes) \in Nat \ {0} /\ size \in SizeType
  BY <1>1, AtAStatement DEF NestingInv, Emitted
<1>6. n \in 0 .. MaxConstructs /\ n \in 1 .. MaxConstructs
  BY <1>1, <1>5, ConstantsAreNat DEF SizeType
<1>7. NextObjects(0) = <<>> /\ NextObjects(0) \in Seq(Object)
  <2>1. NextObjects(0) \in Seq(Object) /\ Len(NextObjects(0)) = 0
    BY <1>4, <1>5, NextObjectsTyped
  <2> QED BY <2>1, EmptySeq
<1>8. IsEntry(e, "if", n, NextObjects(0)) /\ e \in EntryType
  <2>1. IsEntry(e, "if", n, NextObjects(0))
    BY <1>6, <1>7, HeadEntries
  <2> QED BY <2>1 DEF IsEntry
<1> HIDE DEF n, e
<1>9. open' = Append(Append(Added(open), e), BodyEntry(body, n))
  <2>1. BodyEntry(body, n) \in EntryType
    <3>1. body \in BodyKind \ {"function"}
      BY BodyKindsTyped
    <3> QED BY <1>5, <1>6, <3>1, OpenBody
  <2> QED BY <1>4, <1>5, <1>8, <2>1, AppendTwo
<1>10. Register(scopes, NextObjects(0)) = scopes
  <2>1. scopes # <<>>
    BY <1>5
  <2>2. Last(scopes) \in Seq(Object) /\ scopes = Append(Front(scopes), Last(scopes))
    BY <1>5, <2>1, FrontLast
  <2>3. Last(scopes) \o <<>> = Last(scopes)
    BY <2>2, ConcatEmptySeq
  <2> QED BY <1>7, <2>2, <2>3 DEF Register
<1>11. code' = code \o BranchTo(<<n, "else">>)
  <2>1. Make(<<>>) = <<>>
    BY DEF Make
  <2>2. code \o <<>> = code
    BY <1>5, ConcatEmptySeq
  <2> QED BY <1>4, <1>7, <2>1, <2>2
<1>12. ASSUME NEW m, NEW A, NEW B, A \in Seq(Object), B = A, n \in 1 .. MaxConstructs, At(n, B, m)
       PROVE  Flow(BranchTo(<<n, "else">>), A, B, m)
  BY <1>12, FlowTargets
<1>13. "if" \in HeadKind /\ "if" \notin ScopeKind
  BY DEF HeadKind, ScopeKind
<1> QED BY <1>1, <1>3, <1>4, <1>8, <1>9, <1>10, <1>11, <1>12, <1>13, StatementInScope DEF n

\* Code in three parts.
LEMMA CodeInParts ==
  ASSUME NEW s \in Seq(InstrType), NEW t \in Seq(InstrType), NEW u \in Seq(InstrType)
  PROVE  /\ (s \o t) \o u = s \o (t \o u) /\ t \o u \in Seq(InstrType)
BY ConcatAssociative, ConcatProperties

LEMMA OpenLoopInScope ==
  ASSUME Regular, NestingInv, ScopeInv, NEW kind \in {"while", "do"}, OpenLoop(kind)
  PROVE  ScopeInv'
<1> DEFINE n == size.constructs + 1  e == Entry(kind, n, NextObjects(0), FALSE)
           t1 == Mark(<<n, "start">>, open)
           t2 == IF kind = "while" THEN BranchTo(<<n, "end">>) ELSE <<>>
<1>1. /\ pc = 0 /\ size.constructs < MaxConstructs /\ UNCHANGED <<label, pc, alive>> /\ Count(0, 1)
  BY DEF OpenLoop, Room
<1>2. PICK body \in BodyKinds(kind) :
        /\ code' = code \o t1 \o t2
        /\ open' = Added(open) \o <<Entry(kind, n, <<>>, FALSE), BodyEntry(body, n)>>
        /\ scopes' = scopes \o BodyScopes(body)
  BY DEF OpenLoop
<1>3. body \in {"block", "single", "cases"}
  BY RegularBodies
<1>4. /\ Fits(Added(open), scopes, loops) /\ Added(open) \in Seq(EntryType) /\ code \in Seq(InstrType)
      /\ size \in SizeType /\ open \in Seq(EntryType)
  BY <1>1, AtAStatement DEF NestingInv, Emitted
<1>5. n \in 0 .. MaxConstructs /\ n \in 1 .. MaxConstructs /\ size.objects + 0 <= MaxObjects
  BY <1>1, <1>4, ConstantsAreNat DEF SizeType
<1>6. NextObjects(0) = <<>> /\ NextObjects(0) \in Seq(Object)
  <2>1. NextObjects(0) \in Seq(Object) /\ Len(NextObjects(0)) = 0
    BY <1>4, <1>5, NextObjectsTyped
  <2> QED BY <2>1, EmptySeq
<1>7. IsEntry(e, kind, n, NextObjects(0)) /\ e \in EntryType
  <2>1. IsEntry(e, kind, n, NextObjects(0))
    BY <1>5, <1>6, HeadEntries
  <2> QED BY <2>1 DEF IsEntry
<1>8. /\ t1 \in Seq(InstrType) /\ t2 \in Seq(InstrType)
  <2>1. <<n, "start">> \in LabelName /\ <<n, "end">> \in LabelName
    BY <1>5 DEF LabelName
  <2> QED BY <1>4, <2>1, MarkIsCode, CodeParts DEF Code
<1> HIDE DEF n, e, t1, t2
<1>9. open' = Append(Append(Added(open), e), BodyEntry(body, n))
  <2>1. BodyEntry(body, n) \in EntryType
    <3>1. body \in BodyKind \ {"function"}
      BY BodyKindsTyped
    <3> QED BY <1>4, <1>5, <3>1, OpenBody
  <2>2. open' = Added(open) \o <<e, BodyEntry(body, n)>>
    BY <1>2, <1>6 DEF e
  <2> QED BY <1>4, <1>7, <2>1, <2>2, AppendTwo
<1>10. code' = code \o (t1 \o t2)
  <2>1. (code \o t1) \o t2 = code \o (t1 \o t2)
    BY <1>4, <1>8, CodeInParts
  <2> QED BY <1>2, <2>1
<1>11. ASSUME NEW m, NEW A, A = InScope(open), A \in Seq(Object), At(n, A, m)
       PROVE  Flow(t1 \o t2, A, A, m)
  <2>1. Flow(t1, A, A, m)
    BY <1>5, <1>11, FlowTargets DEF t1
  <2>2. Flow(t2, A, A, m)
    BY <1>5, <1>11, FlowTargets, FlowEmpty DEF t2
  <2> QED BY <2>1, <2>2, FlowConcat
<1>12. kind \in HeadKind /\ kind \notin ScopeKind /\ kind # "range"
  BY DEF HeadKind, BreakKind, ScopeKind
<1> DEFINE t == t1 \o t2
<1> HIDE DEF t
<1>13. code' = code \o t
  BY <1>10 DEF t
<1>14. ASSUME NEW m, NEW A, NEW B, A = InScope(open), A \in Seq(Object), B = A,
              At(n, IF kind = "range" THEN A ELSE B, m)
       PROVE  Flow(t, A, B, m)
  BY <1>11, <1>12, <1>14 DEF t
<1> QED BY <1>1, <1>2, <1>3, <1>5, <1>7, <1>9, <1>12, <1>13, <1>14, StatementInScope DEF n

LEMMA OpenForInScope ==
  ASSUME Regular, NestingInv, ScopeInv, OpenFor
  PROVE  ScopeInv'
<1> DEFINE n == size.constructs + 1
<1>1. /\ pc = 0 /\ size.constructs < MaxConstructs /\ UNCHANGED <<label, pc, alive>>
  BY DEF OpenFor, Room
<1>2. PICK body \in BodyKinds("for"), j \in {0, 1} :
        /\ size.objects + j <= MaxObjects
        /\ code' = code \o Make(NextObjects(j))
                        \o Mark(<<n, "start">>, Append(Added(open), Entry("for", n, NextObjects(j), TRUE)))
                        \o BranchTo(<<n, "end">>)
        /\ open' = Append(Append(Added(open), Entry("for", n, NextObjects(j), TRUE)), BodyEntry(body, n))
        /\ scopes' = Append(scopes, NextObjects(j)) \o BodyScopes(body)
        /\ Count(j, 1)
  BY DEF OpenFor
<1> DEFINE e == Entry("for", n, NextObjects(j), TRUE)
           t1 == Make(NextObjects(j))
           t2 == Mark(<<n, "start">>, Append(Added(open), e))
           t3 == BranchTo(<<n, "end">>)
           t == (t1 \o t2) \o t3
<1>3. body \in {"block", "single", "cases"} /\ j \in Nat
  BY RegularBodies
<1>4. /\ Added(open) \in Seq(EntryType) /\ code \in Seq(InstrType) /\ size \in SizeType
  BY <1>1, AtAStatement DEF NestingInv, Emitted
<1>5. n \in 0 .. MaxConstructs /\ n \in 1 .. MaxConstructs
  BY <1>1, <1>4, ConstantsAreNat DEF SizeType
<1>6. NextObjects(j) \in Seq(Object)
  BY <1>2, <1>3, <1>4, NextObjectsTyped
<1>7. IsEntry(e, "for", n, NextObjects(j)) /\ e \in EntryType /\ Append(Added(open), e) \in Seq(EntryType)
  <2>1. IsEntry(e, "for", n, NextObjects(j))
    BY <1>5, <1>6, HeadEntries
  <2>2. e \in EntryType
    BY <2>1 DEF IsEntry
  <2> HIDE DEF e
  <2> QED BY <1>4, <2>1, <2>2, AppendProperties
<1>8. t1 \in Seq(InstrType) /\ t2 \in Seq(InstrType) /\ t3 \in Seq(InstrType)
  <2>1. <<n, "start">> \in LabelName /\ <<n, "end">> \in LabelName
    BY <1>5 DEF LabelName
  <2> HIDE DEF e, n
  <2> QED BY <1>6, <1>7, <2>1, MarkIsCode, CodeParts DEF Code
<1>9. /\ open' = Append(Append(Added(open), e), BodyEntry(body, n))
      /\ scopes' = Append(scopes, NextObjects(j)) \o BodyScopes(body)
      /\ code' = ((code \o t1) \o t2) \o t3
      /\ Count(j, 1) /\ size.objects + j <= MaxObjects
  BY <1>2
<1> HIDE DEF n, e, t1, t2, t3
<1>10. code' = code \o t
  <2> DEFINE s == code
  <2>1. s \in Seq(InstrType)
    BY <1>4
  <2> HIDE DEF s
  <2>2. s \in Seq(InstrType) /\ t1 \in Seq(InstrType) /\ t2 \in Seq(InstrType) /\ t3 \in Seq(InstrType)
    BY <1>8, <2>1
  <2>3. (s \o t1) \o t2 = s \o (t1 \o t2) /\ t1 \o t2 \in Seq(InstrType)
    BY <2>2, CodeInParts
  <2> DEFINE w == t1 \o t2
  <2> HIDE DEF w
  <2>4. s \in Seq(InstrType) /\ w \in Seq(InstrType) /\ t3 \in Seq(InstrType)
    BY <2>2, <2>3 DEF w
  <2>5. (s \o w) \o t3 = s \o (w \o t3)
    BY ONLY <2>4, CodeInParts
  <2> QED BY <1>9, <2>3, <2>5 DEF s, w
<1>11. ASSUME NEW m, NEW A, NEW B, A = InScope(open), A \in Seq(Object),
              B = InScope(open) \o NextObjects(j), B \in Seq(Object),
              InScope(Append(Added(open), e)) = B, At(n, B, m)
       PROVE  Flow(t, A, B, m)
  <2>1. Flow(t1, A, B, m)
    BY <1>6, <1>11, FlowMake DEF t1
  <2>2. Flow(t2, B, B, m) /\ Flow(t3, B, B, m)
    BY <1>5, <1>11, FlowTargets DEF t2, t3
  <2>3. Flow(t1 \o t2, A, B, m)
    BY <2>1, <2>2, FlowConcat
  <2> QED BY <2>2, <2>3, FlowConcat
<1>12. "for" \in HeadKind /\ "for" \in ScopeKind
  BY DEF HeadKind, BreakKind, ScopeKind
<1> HIDE DEF t
<1>13. open' = Append(Append(Added(open), e), BodyEntry(body, size.constructs + 1))
  BY <1>9 DEF n
<1>14. IsEntry(e, "for", size.constructs + 1, NextObjects(j))
  BY <1>7 DEF n
<1>15. ASSUME NEW m, NEW A, NEW B, A = InScope(open), A \in Seq(Object),
              B = InScope(open) \o NextObjects(j), B \in Seq(Object),
              InScope(Append(Added(open), e)) = B, At(size.constructs + 1, B, m)
       PROVE  Flow(t, A, B, m)
  BY <1>11, <1>15 DEF n
<1> QED BY <1>1, <1>3, <1>9, <1>10, <1>12, <1>13, <1>14, <1>15, StatementInScope

LEMMA OpenRangeInScope ==
  ASSUME Regular, NestingInv, ScopeInv, OpenRange
  PROVE  ScopeInv'
<1> DEFINE n == size.constructs + 1
           e == Entry("range", n, NextObjects(1), TRUE)
           t1 == Mark(<<n, "start">>, open)
           t2 == BranchTo(<<n, "end">>)
           t3 == Make(NextObjects(1))
           t == (t1 \o t2) \o t3
<1>1. /\ pc = 0 /\ size.constructs < MaxConstructs /\ size.objects < MaxObjects
      /\ UNCHANGED <<label, pc, alive>> /\ Count(1, 1)
  BY DEF OpenRange, Room
<1>2. PICK body \in BodyKinds("range") :
        /\ code' = ((code \o t1) \o t2) \o t3
        /\ open' = Added(open) \o <<e, BodyEntry(body, n)>>
        /\ scopes' = Append(scopes, NextObjects(1)) \o BodyScopes(body)
  BY DEF OpenRange
<1>3. body \in {"block", "single", "cases"} /\ body # "cases"
  BY RegularBodies
<1>4. /\ Fits(Added(open), scopes, loops) /\ Added(open) \in Seq(EntryType) /\ code \in Seq(InstrType)
      /\ size \in SizeType /\ open \in Seq(EntryType)
  BY <1>1, AtAStatement DEF NestingInv, Emitted
<1>5. n \in 0 .. MaxConstructs /\ n \in 1 .. MaxConstructs /\ size.objects + 1 <= MaxObjects /\ 1 \in Nat
  BY <1>1, <1>4, ConstantsAreNat DEF SizeType
<1>6. NextObjects(1) \in Seq(Object)
  BY <1>4, <1>5, NextObjectsTyped
<1>7. IsEntry(e, "range", n, NextObjects(1)) /\ e \in EntryType
  <2>1. IsEntry(e, "range", n, NextObjects(1))
    BY <1>5, <1>6, HeadEntries
  <2> QED BY <2>1 DEF IsEntry
<1>8. t1 \in Seq(InstrType) /\ t2 \in Seq(InstrType) /\ t3 \in Seq(InstrType)
  <2>1. <<n, "start">> \in LabelName /\ <<n, "end">> \in LabelName
    BY <1>5 DEF LabelName
  <2> QED BY <1>4, <1>6, <2>1, MarkIsCode, CodeParts DEF Code
<1> HIDE DEF n, e, t1, t2, t3
<1>9. open' = Append(Append(Added(open), e), BodyEntry(body, n))
  <2>1. BodyEntry(body, n) \in EntryType
    <3>1. body \in BodyKind \ {"function"}
      BY BodyKindsTyped
    <3> QED BY <1>4, <1>5, <3>1, OpenBody
  <2> QED BY <1>2, <1>4, <1>7, <2>1, AppendTwo
<1>10. code' = code \o t
  <2> DEFINE s == code
  <2>1. s \in Seq(InstrType)
    BY <1>4
  <2> HIDE DEF s
  <2>2. s \in Seq(InstrType) /\ t1 \in Seq(InstrType) /\ t2 \in Seq(InstrType) /\ t3 \in Seq(InstrType)
    BY <1>8, <2>1
  <2>3. (s \o t1) \o t2 = s \o (t1 \o t2) /\ t1 \o t2 \in Seq(InstrType)
    BY <2>2, CodeInParts
  <2> DEFINE w == t1 \o t2
  <2> HIDE DEF w
  <2>4. s \in Seq(InstrType) /\ w \in Seq(InstrType) /\ t3 \in Seq(InstrType)
    BY <2>2, <2>3 DEF w
  <2>5. (s \o w) \o t3 = s \o (w \o t3)
    BY ONLY <2>4, CodeInParts
  <2> QED BY <1>2, <2>3, <2>5 DEF s, w
<1>11. ASSUME NEW m, NEW A, NEW B, A = InScope(open), A \in Seq(Object),
              B = InScope(open) \o NextObjects(1), At(n, A, m)
       PROVE  Flow(t, A, B, m)
  <2>1. Flow(t3, A, B, m)
    BY <1>6, <1>11, FlowMake DEF t3
  <2>2. Flow(t1, A, A, m) /\ Flow(t2, A, A, m)
    BY <1>5, <1>11, FlowTargets DEF t1, t2
  <2>3. Flow(t1 \o t2, A, A, m)
    BY <2>2, FlowConcat
  <2> QED BY <2>1, <2>3, FlowConcat
<1>12. "range" \in HeadKind /\ "range" \in ScopeKind
  BY DEF HeadKind, BreakKind, ScopeKind
<1> HIDE DEF t
<1>13. open' = Append(Append(Added(open), e), BodyEntry(body, size.constructs + 1))
  BY <1>9 DEF n
<1>14. IsEntry(e, "range", size.constructs + 1, NextObjects(1))
  BY <1>7 DEF n
<1>15. ASSUME NEW m, NEW A, NEW B, A = InScope(open), A \in Seq(Object),
              B = InScope(open) \o NextObjects(1), At(size.constructs + 1, A, m)
       PROVE  Flow(t, A, B, m)
  BY <1>11, <1>15 DEF n
<1> QED BY <1>1, <1>2, <1>3, <1>5, <1>10, <1>12, <1>13, <1>14, <1>15, StatementInScope

LEMMA OpenSwitchInScope ==
  ASSUME Regular, NestingInv, ScopeInv, OpenSwitch
  PROVE  ScopeInv'
<1> DEFINE n == size.constructs + 1
           e == Entry("switch", n, NextObjects(0), FALSE)
           c == Instr("dispatch", n, <<>>)
           t == <<c>>
<1>1. /\ pc = 0 /\ size.constructs < MaxConstructs /\ UNCHANGED <<scopes, label, pc, alive>> /\ Count(0, 1)
      /\ code' = Append(code, c)
      /\ open' = Added(open) \o <<Entry("switch", n, <<>>, FALSE), BodyEntry("cases", n)>>
  BY DEF OpenSwitch, Room
<1>2. /\ Fits(Added(open), scopes, loops) /\ Added(open) \in Seq(EntryType) /\ code \in Seq(InstrType)
      /\ size \in SizeType /\ scopes \in Seq(Seq(Object))
  BY <1>1, AtAStatement DEF NestingInv, Emitted
<1>3. n \in 0 .. MaxConstructs /\ n \in 1 .. MaxConstructs /\ size.objects + 0 <= MaxObjects /\ 0 \in Nat
  BY <1>1, <1>2, ConstantsAreNat DEF SizeType
<1>4. NextObjects(0) = <<>> /\ NextObjects(0) \in Seq(Object)
  <2>1. NextObjects(0) \in Seq(Object) /\ Len(NextObjects(0)) = 0
    BY <1>2, <1>3, NextObjectsTyped
  <2> QED BY <2>1, EmptySeq
<1>5. IsEntry(e, "switch", n, NextObjects(0)) /\ e \in EntryType
  <2>1. IsEntry(e, "switch", n, NextObjects(0))
    BY <1>3, <1>4, HeadEntries
  <2> QED BY <2>1 DEF IsEntry
<1>6. c \in InstrType /\ c.op = "dispatch" /\ c.arg = n
  <2>1. <<>> \in Seq(Object) /\ n \in Nat
    BY <1>3, EmptySeq, ConstantsAreNat
  <2> HIDE DEF n
  <2> QED BY <2>1 DEF Instr, InstrType, Argument
<1>7. open' = Added(open) \o <<e, BodyEntry("cases", n)>>
  BY <1>1, <1>4
<1> HIDE DEF n, e, c
<1>8. open' = Append(Append(Added(open), e), BodyEntry("cases", n))
  <2>1. BodyEntry("cases", n) \in EntryType
    <3>1. "cases" \in BodyKind \ {"function"}
      BY DEF BodyKind
    <3> QED BY <1>2, <1>3, <3>1, OpenBody
  <2> QED BY <1>2, <1>5, <1>7, <2>1, AppendTwo
<1>9. code' = code \o t
  BY <1>1, <1>2, <1>6, AppendIsConcat
<1>10. ASSUME NEW m, NEW A, A \in Seq(Object), At(n, A, m)
       PROVE  Flow(t, A, A, m)
  <2>1. Step(c, A, A, m)
    BY <1>6, <1>10 DEF Step
  <2> QED BY <1>6, <1>10, <2>1, FlowOne
<1>11. "switch" \in HeadKind /\ "switch" \notin ScopeKind
  BY DEF HeadKind, BreakKind, ScopeKind
<1>12. scopes' = scopes \o BodyScopes("cases")
  <2>1. scopes \o <<>> = scopes
    BY <1>2, ConcatEmptySeq
  <2> QED BY <1>1, <2>1 DEF BodyScopes
<1> HIDE DEF t
<1>13. open' = Append(Append(Added(open), e), BodyEntry("cases", size.constructs + 1))
  BY <1>8 DEF n
<1>14. IsEntry(e, "switch", size.constructs + 1, NextObjects(0))
  BY <1>5 DEF n
<1>15. ASSUME NEW m, NEW A, NEW B, A \in Seq(Object), B = A, At(size.constructs + 1, B, m)
       PROVE  Flow(t, A, B, m)
  BY <1>10, <1>15 DEF n
<1> QED BY <1>1, <1>3, <1>9, <1>11, <1>12, <1>13, <1>14, <1>15, StatementInScope

LEMMA OpenBlockInScope ==
  ASSUME Regular, NestingInv, ScopeInv, OpenBlock
  PROVE  ScopeInv'
<1> DEFINE n == size.constructs + 1
<1>1. /\ pc = 0 /\ size.constructs < MaxConstructs
      /\ UNCHANGED <<code, label, pc, alive>> /\ Count(0, 1)
  BY DEF OpenBlock, Room
<1>2. PICK body \in {"block"} \cup ({"list"} \cap Shapes) :
        /\ open' = Append(Added(open), BodyEntry(body, n)) /\ scopes' = scopes \o BodyScopes(body)
  BY DEF OpenBlock
<1>3. body \in {"block", "single", "cases"} /\ body # "cases"
  BY DEF Regular
<1>4. PICK k : /\ Known(k) /\ Flow(code, <<>>, InScope(open), k) /\ Stack(Added(open), scopes, k)
               /\ InScope(Added(open)) = InScope(open) /\ InScope(open) \in Seq(Object) /\ alive = <<>>
  BY <1>1, WhileVisiting
<1>5. PICK m : /\ Wider(k, m) /\ m.objects = size'.objects /\ m.constructs = n /\ m.constructs = size'.constructs
               /\ n \in 1 .. MaxConstructs /\ (m.label # NoLabel => m.label.body # n)
               /\ Stack(Added(open), scopes, m) /\ Fresh(Added(open), n)
  <2>1. 0 \in Nat
    OBVIOUS
  <2> QED BY <1>1, <1>4, <2>1, ConstructNumbered
<1> HIDE DEF n
<1>6. /\ Stack(Append(Added(open), BodyEntry(body, n)), scopes \o BodyScopes(body), m)
      /\ InScope(Append(Added(open), BodyEntry(body, n))) = InScope(Added(open))
  BY <1>3, <1>5, BodyPushed
<1>7. code' = code \o <<>>
  <2>1. code \in Seq(InstrType)
    BY DEF NestingInv, Emitted
  <2> QED BY <1>1, <2>1, ConcatEmptySeq
<1>8. Flow(<<>>, InScope(open), InScope(open'), m)
  BY <1>2, <1>4, <1>6, FlowEmpty
<1> QED BY <1>1, <1>2, <1>4, <1>5, <1>6, <1>7, <1>8, VisitKeepsScopes

LEMMA DeclareInScope ==
  ASSUME Regular, NestingInv, ScopeInv, Declare
  PROVE  ScopeInv'
<1> DEFINE x == size.objects + 1
<1>1. /\ pc = 0 /\ size.objects < MaxObjects /\ UNCHANGED <<label, pc, alive>> /\ Count(1, 0)
      /\ code' = code \o Make(<<x>>) /\ scopes' = Register(scopes, <<x>>) /\ open' = Declared(open, x)
      /\ Body.kind # "single" /\ Body.kind # "cases"
  BY DEF Declare, Regular
<1>2. PICK k : /\ Known(k) /\ Flow(code, <<>>, InScope(open), k) /\ Stack(open, scopes, k)
               /\ InScope(open) \in Seq(Object) /\ alive = <<>>
  BY <1>1, WhileVisiting
<1>3. /\ Fits(open, scopes, loops) /\ Body.kind \in BodyKind /\ open \in Seq(EntryType) /\ Len(open) \in Nat \ {0}
      /\ size \in SizeType
  BY <1>1, AtAStatement
<1>4. Last(open).kind \in {"function", "block"}
  <2>1. Len(open) \in 1 .. Len(open)
    BY <1>3
  <2>2. open[Len(open)].kind # "list"
    BY <1>2, <2>1 DEF Stack, EntryHolds
  <2> QED BY <1>1, <1>3, <2>2 DEF Body, Last, BodyKind
<1>5. /\ k.objects = size.objects /\ k.constructs = size.constructs /\ k.objects \in Nat /\ k.constructs \in Nat
      /\ k.label = label /\ \A t \in k.gotos : t[2] \in Seq(1 .. k.objects)
  BY <1>2, KnownTyped DEF Known
<1>6. x \in Object /\ x = k.objects + 1
  BY <1>1, <1>3, <1>5, ConstantsAreNat DEF SizeType, Object
<1> DEFINE m == [at |-> k.at, gotos |-> k.gotos, places |-> k.places, label |-> k.label,
                 objects |-> x, constructs |-> k.constructs]
<1>7. Wider(k, m) /\ m.objects = x /\ m.constructs = k.constructs
  <2>1. /\ m.at = k.at /\ m.gotos = k.gotos /\ m.places = k.places /\ m.label = k.label
        /\ m.objects = x /\ m.constructs = k.constructs
    OBVIOUS
  <2>2. x \in Nat /\ k.objects <= x
    BY <1>5, <1>6
  <2> HIDE DEF m, x
  <2> QED BY <1>5, <2>1, <2>2 DEF Wider
<1>8. size'.objects = x /\ size'.constructs = k.constructs
  <2>1. size.constructs + 0 = size.constructs
    BY <1>5
  <2> QED BY <1>1, <1>5, <2>1 DEF Count
<1> HIDE DEF m, x
<1>9. Stack(Declared(open, x), Register(scopes, <<x>>), m) /\ InScope(Declared(open, x)) = Append(InScope(open), x)
  BY <1>2, <1>3, <1>4, <1>5, <1>6, <1>7, StackDeclared
<1>10. Flow(Make(<<x>>), InScope(open), InScope(open'), m)
  <2>1. <<x>> \in Seq(Object) /\ Append(InScope(open), x) = InScope(open) \o <<x>>
    BY <1>2, <1>6, AppendIsConcat
  <2> QED BY <1>1, <1>2, <1>9, <2>1, FlowMake
<1> QED BY <1>1, <1>2, <1>7, <1>8, <1>9, <1>10, VisitKeepsScopes

\* A statement without a body that declares nothing.
LEMMA SimpleInScope ==
  ASSUME NestingInv, pc = 0, alive = <<>>, NEW k, Known(k), Flow(code, <<>>, InScope(open), k),
         Stack(Added(open), scopes, k), InScope(Added(open)) = InScope(open),
         open' = Added(open), Count(0, 0), UNCHANGED <<scopes, label, pc, alive>>,
         NEW t, code' = code \o t, Flow(t, InScope(open), InScope(open), k)
  PROVE  ScopeInv'
<1>1. Wider(k, k) /\ k.objects = size.objects /\ k.constructs = size.constructs /\ size.objects \in Nat /\ size.constructs \in Nat
  BY KnownTyped DEF Known
<1>2. size.objects + 0 = size.objects /\ size.constructs + 0 = size.constructs
  BY <1>1
<1>3. Wider(k, k) /\ k.objects = size'.objects /\ k.constructs = size'.constructs
  BY <1>1, <1>2 DEF Count
<1>4. Stack(open', scopes', k) /\ InScope(open') = InScope(open)
  OBVIOUS
<1> QED BY <1>3, <1>4, VisitKeepsScopes

LEMMA CaseInScope ==
  ASSUME Regular, NestingInv, ScopeInv, Case
  PROVE  ScopeInv'
<1>1. /\ pc = 0 /\ Body.kind = "cases" /\ code' = code \o Mark(<<Body.n, "case">>, open)
      /\ open' = Added(open) /\ Count(0, 0) /\ UNCHANGED <<scopes, label, pc, alive>>
  BY DEF Case
<1>2. PICK k : /\ Known(k) /\ Flow(code, <<>>, InScope(open), k) /\ Stack(open, scopes, k) /\ alive = <<>>
               /\ Stack(Added(open), scopes, k) /\ InScope(Added(open)) = InScope(open) /\ InScope(open) \in Seq(Object)
  BY <1>1, WhileVisiting
<1>3. open \in Seq(EntryType) /\ Len(open) \in Nat \ {0} /\ size \in SizeType
  BY <1>1, AtAStatement
<1>4. Body.n \in 1 .. MaxConstructs /\ At(Body.n, InScope(open), k)
  <2>0. Body = open[Len(open)]
    BY DEF Body, Last
  <2>1. Len(open) \in 1 .. Len(open)
    BY <1>3
  <2>4. Around(open, Len(open)) = InScope(open)
    BY <1>3, AroundFacts
  <2>2. At(Body.n, InScope(open), k)
    BY <1>1, <1>2, <2>0, <2>1, <2>4 DEF Stack, EntryHolds, TargetKind
  <2>3. k.constructs \in 0 .. MaxConstructs
    BY <1>2, KnownTyped
  <2> QED BY <2>2, <2>3, ConstantsAreNat DEF At
<1>5. Flow(Mark(<<Body.n, "case">>, open), InScope(open), InScope(open'), k)
  BY <1>1, <1>2, <1>4, FlowTargets
<1> QED BY <1>1, <1>2, <1>5, SimpleInScope

-----------------------------------------------------------------------------
(* The end of a body and of a statement.                                    *)

LEMMA BodyLeft ==
  ASSUME NestingInv, BodyClosed, NEW k, Stack(open, scopes, k)
  PROVE  /\ Stack(Front(open), OuterScopes, k) /\ InScope(Front(open)) \in Seq(Object)
         /\ Flow(ExitBody, InScope(open), InScope(Front(open)), k)
<1>1. pc = 0 /\ Len(open) > 1
  BY DEF BodyClosed
<1>2. Fits(open, scopes, loops) /\ Body.kind \in BodyKind
  BY <1>1, AtAStatement
<1>3. Last(open) \in EntryType /\ Last(open).kind # "function"
  BY <1>1, <1>2, NestedTop DEF Fits
<1>4. Last(open).scan <=> Last(open).kind = "block"
  BY <1>2, <1>3 DEF EntryType, ScopeKind, BodyKind, Body
<1>5. /\ Stack(Front(open), IF Last(open).scan THEN Front(scopes) ELSE scopes, k)
      /\ InScope(open) = InScope(Front(open)) \o Last(open).decls
      /\ IF Last(open).scan THEN Last(scopes) = Last(open).decls ELSE Last(open).decls = <<>>
  BY <1>1, StackPop
<1>6. Stack(Front(open), OuterScopes, k)
  BY <1>4, <1>5 DEF OuterScopes, Body
<1>7. InScope(Front(open)) \in Seq(Object) /\ Last(open).decls \in Seq(Object)
  BY <1>3, <1>6, StackTop DEF EntryType
<1> DEFINE A == InScope(Front(open))  d == Last(open).decls
<1>8. A \in Seq(Object) /\ d \in Seq(Object) /\ InScope(open) = A \o d
  BY <1>5, <1>7
<1>9. ExitBody = Destroy(d)
  <2>1. CASE Last(open).kind = "block"
    BY <1>4, <1>5, <2>1 DEF ExitBody, Body
  <2>2. CASE Last(open).kind # "block"
    <3>1. d = <<>>
      BY <1>4, <1>5, <2>2
    <3>2. Destroy(<<>>) = <<>>
      BY DEF Destroy
    <3> QED BY <2>2, <3>1, <3>2 DEF ExitBody, Body
  <2> QED BY <2>1, <2>2
<1> HIDE DEF A, d
<1>10. Flow(ExitBody, InScope(open), A, k)
  BY <1>8, <1>9, FlowDestroy
<1> QED BY <1>6, <1>8, <1>10 DEF A

\* At the labels of the statement on top of the stack.
LEMMA HeadLeft ==
  ASSUME NEW o, NEW ss, NEW k, Stack(o, ss, k), Last(o).kind \in HeadKind, Len(o) > 1,
         k.constructs \in 0 .. MaxConstructs
  PROVE  LET kind == Last(o).kind n == Last(o).n B == InScope(o) C == InScope(Front(o)) IN
         /\ n \in 1 .. MaxConstructs /\ n \in 1 .. k.constructs
         /\ At(n, IF kind = "range" THEN C ELSE B, k)
         /\ B \in Seq(Object) /\ C \in Seq(Object) /\ C \in Seq(1 .. k.objects)
         /\ Stack(Front(o), IF kind \in {"for", "range"} THEN Front(ss) ELSE ss, k)
         /\ IF kind \in {"for", "range"} THEN Last(ss) \in Seq(Object) /\ B = C \o Last(ss) ELSE B = C
<1>1. o \in Seq(EntryType) /\ o # <<>> /\ Len(o) \in Nat
  BY DEF Stack
<1>2. Last(o) \in EntryType /\ Last(o) = o[Len(o)] /\ Len(o) \in 1 .. Len(o)
  BY <1>1, FrontLast DEF Last
<1>3. Around(o, Len(o)) = InScope(o)
  BY <1>1, AroundFacts
<1>4. Around(o, Len(o) - 1) = InScope(Front(o))
  BY DEF Around, Front
<1>5. At(Last(o).n, IF Last(o).kind = "range" THEN InScope(Front(o)) ELSE InScope(o), k)
  BY <1>2, <1>3, <1>4 DEF Stack, EntryHolds, TargetKind
<1>6. Last(o).n \in 1 .. k.constructs /\ Last(o).n \in 1 .. MaxConstructs
  BY <1>5, ConstantsAreNat DEF At
<1>7. Last(o).scan <=> Last(o).kind \in {"for", "range"}
  BY <1>2 DEF EntryType, ScopeKind, HeadKind, BreakKind
<1>8. /\ Stack(Front(o), IF Last(o).scan THEN Front(ss) ELSE ss, k)
      /\ InScope(o) = InScope(Front(o)) \o Last(o).decls
      /\ IF Last(o).scan THEN Last(ss) = Last(o).decls ELSE Last(o).decls = <<>>
  BY StackPop
<1>9. InScope(o) \in Seq(Object)
  BY StackTop
<1>10. InScope(Front(o)) \in Seq(Object) /\ InScope(Front(o)) \in Seq(1 .. k.objects)
  BY <1>8, StackTop
<1>11. InScope(Front(o)) \o <<>> = InScope(Front(o))
  BY <1>10, ConcatEmptySeq
<1>12. Last(o).decls \in Seq(Object)
  BY <1>2 DEF EntryType
<1> QED BY <1>5, <1>6, <1>7, <1>8, <1>9, <1>10, <1>11, <1>12

LEMMA SizesKept ==
  ASSUME NestingInv, NEW k, Known(k), size' = size
  PROVE  Wider(k, k) /\ k.objects = size'.objects /\ k.constructs = size'.constructs
BY KnownTyped DEF Known

LEMMA CloseBlockInScope ==
  ASSUME Regular, NestingInv, ScopeInv, CloseBlock
  PROVE  ScopeInv'
<1>1. /\ BodyClosed /\ pc = 0 /\ code' = code \o ExitBody /\ scopes' = OuterScopes /\ open' = Front(open)
      /\ UNCHANGED <<label, size, pc, alive>>
  BY DEF CloseBlock, BodyClosed
<1>2. PICK k : /\ Known(k) /\ Flow(code, <<>>, InScope(open), k) /\ Stack(open, scopes, k) /\ alive = <<>>
  BY <1>1, WhileVisiting
<1>3. Stack(Front(open), OuterScopes, k) /\ Flow(ExitBody, InScope(open), InScope(Front(open)), k)
  BY <1>1, <1>2, BodyLeft
<1>4. Wider(k, k) /\ k.objects = size'.objects /\ k.constructs = size'.constructs
  BY <1>1, <1>2, SizesKept
<1> QED BY <1>1, <1>2, <1>3, <1>4, VisitKeepsScopes

\* The labels and the jumps behind a body, and the destructor calls for the head.
LEMMA FlowEnding ==
  ASSUME NEW k, NEW kind \in HeadKind, NEW n \in 1 .. MaxConstructs, NEW o,
         NEW B \in Seq(Object), NEW C \in Seq(Object), InScope(o) = B, InScope(Front(o)) = C,
         At(n, IF kind = "range" THEN C ELSE B, k),
         IF kind \in {"for", "range"} THEN Last(OuterScopes) \in Seq(Object) /\ B = C \o Last(OuterScopes) ELSE B = C
  PROVE  Flow(Ending(kind, n, o), B, C, k)
<1> DEFINE s == <<n, "start">>  x == <<n, "next">>  e == <<n, "end">>  l == <<n, "else">>
<1>1. ASSUME kind # "range"
      PROVE  /\ Flow(Mark(x, o), B, B, k) /\ Flow(Mark(e, o), B, B, k) /\ Flow(Mark(l, o), B, B, k)
             /\ Flow(JumpTo(s), B, B, k) /\ Flow(BranchTo(s), B, B, k)
  BY <1>1, FlowTargets
<1>2. ASSUME kind = "range"
      PROVE  /\ Flow(Mark(x, Front(o)), C, C, k) /\ Flow(Mark(e, Front(o)), C, C, k)
             /\ Flow(JumpTo(s), C, C, k)
  BY <1>2, FlowTargets
<1>3. ASSUME kind \in {"for", "range"} PROVE Flow(Destroy(Last(OuterScopes)), B, C, k)
  BY <1>3, FlowDestroy
<1> HIDE DEF s, x, e, l
<1>4. CASE kind = "if"
  BY <1>1, <1>4 DEF Ending, l
<1>5. CASE kind = "else"
  BY <1>1, <1>5 DEF Ending, e
<1>6. CASE kind = "switch"
  BY <1>1, <1>6 DEF Ending, e
<1>7. CASE kind = "while"
  <2>1. Flow(JumpTo(s) \o Mark(e, o), B, B, k)
    BY <1>1, <1>7, FlowConcat
  <2>2. Ending(kind, n, o) = JumpTo(s) \o Mark(e, o) /\ B = C
    BY <1>7 DEF Ending, s, e
  <2> QED BY <2>1, <2>2
<1>8. CASE kind = "do"
  <2>1. Flow(Mark(x, o) \o BranchTo(s), B, B, k)
    BY <1>1, <1>8, FlowConcat
  <2>2. Flow(Mark(x, o) \o BranchTo(s) \o Mark(e, o), B, B, k)
    BY <1>1, <1>8, <2>1, FlowConcat
  <2>3. Ending(kind, n, o) = Mark(x, o) \o BranchTo(s) \o Mark(e, o) /\ B = C
    BY <1>8 DEF Ending, s, e, x
  <2> QED BY <2>2, <2>3
<1>9. CASE kind = "for"
  <2>1. Flow(Mark(x, o) \o JumpTo(s), B, B, k)
    BY <1>1, <1>9, FlowConcat
  <2>2. Flow(Mark(x, o) \o JumpTo(s) \o Mark(e, o), B, B, k)
    BY <1>1, <1>9, <2>1, FlowConcat
  <2>3. Flow(Mark(x, o) \o JumpTo(s) \o Mark(e, o) \o Destroy(Last(OuterScopes)), B, C, k)
    BY <1>3, <1>9, <2>2, FlowConcat
  <2>4. Ending(kind, n, o) = Mark(x, o) \o JumpTo(s) \o Mark(e, o) \o Destroy(Last(OuterScopes))
    BY <1>9 DEF Ending, s, e, x
  <2> QED BY <2>3, <2>4
<1>10. CASE kind = "range"
  <2>1. Flow(Destroy(Last(OuterScopes)) \o Mark(x, Front(o)), B, C, k)
    BY <1>2, <1>3, <1>10, FlowConcat
  <2>2. Flow(Destroy(Last(OuterScopes)) \o Mark(x, Front(o)) \o JumpTo(s), B, C, k)
    BY <1>2, <1>10, <2>1, FlowConcat
  <2>3. Flow(Destroy(Last(OuterScopes)) \o Mark(x, Front(o)) \o JumpTo(s) \o Mark(e, Front(o)), B, C, k)
    BY <1>2, <1>10, <2>2, FlowConcat
  <2>4. Ending(kind, n, o) = Destroy(Last(OuterScopes)) \o Mark(x, Front(o)) \o JumpTo(s) \o Mark(e, Front(o))
    BY <1>10 DEF Ending, s, e, x
  <2> QED BY <2>3, <2>4
<1> QED BY <1>4, <1>5, <1>6, <1>7, <1>8, <1>9, <1>10 DEF HeadKind, BreakKind

LEMMA CloseStatementInScope ==
  ASSUME Regular, NestingInv, ScopeInv, CloseStatement
  PROVE  ScopeInv'
<1> DEFINE o == Front(open)
<1>1. /\ BodyClosed /\ pc = 0 /\ Header.kind \in HeadKind
      /\ code' = (code \o ExitBody) \o Ending(Header.kind, Header.n, o)
      /\ scopes' = IF Header.kind \in {"for", "range"} THEN Front(OuterScopes) ELSE OuterScopes
      /\ open' = Front(o) /\ UNCHANGED <<label, size, pc, alive>>
  BY DEF CloseStatement, BodyClosed, HeadKind, BreakKind
<1>2. PICK k : /\ Known(k) /\ Flow(code, <<>>, InScope(open), k) /\ Stack(open, scopes, k) /\ alive = <<>>
  BY <1>1, WhileVisiting
<1>3. Header = Last(o) /\ Fits(o, OuterScopes, loops) /\ code \in Seq(InstrType)
  BY <1>1, AtTheEndOfABody DEF NestingInv, Emitted
<1>4. Len(o) > 1
  BY <1>1, <1>3, CloseHead
<1>5. Stack(o, OuterScopes, k) /\ Flow(ExitBody, InScope(open), InScope(o), k)
  BY <1>1, <1>2, BodyLeft
<1>6. k.constructs \in 0 .. MaxConstructs
  BY <1>2, KnownTyped
<1> HIDE DEF o
<1>7. /\ Header.n \in 1 .. MaxConstructs /\ At(Header.n, IF Header.kind = "range" THEN InScope(Front(o)) ELSE InScope(o), k)
      /\ InScope(o) \in Seq(Object) /\ InScope(Front(o)) \in Seq(Object)
      /\ Stack(Front(o), IF Header.kind \in {"for", "range"} THEN Front(OuterScopes) ELSE OuterScopes, k)
      /\ IF Header.kind \in {"for", "range"}
         THEN Last(OuterScopes) \in Seq(Object) /\ InScope(o) = InScope(Front(o)) \o Last(OuterScopes)
         ELSE InScope(o) = InScope(Front(o))
  BY <1>1, <1>3, <1>4, <1>5, <1>6, HeadLeft
<1> DEFINE t == Ending(Header.kind, Header.n, o)
<1>8. Flow(t, InScope(o), InScope(Front(o)), k)
  BY <1>1, <1>7, FlowEnding
<1> HIDE DEF t
<1>9. Flow(ExitBody \o t, InScope(open), InScope(open'), k)
  BY <1>1, <1>5, <1>8, FlowConcat
<1>10. code' = code \o (ExitBody \o t)
  <2>1. ExitBody \in Seq(InstrType) /\ t \in Seq(InstrType)
    BY <1>5, <1>8 DEF Flow
  <2>2. (code \o ExitBody) \o t = code \o (ExitBody \o t)
    BY <1>3, <2>1, CodeInParts
  <2> QED BY <1>1, <2>2 DEF t
<1>11. Wider(k, k) /\ k.objects = size'.objects /\ k.constructs = size'.constructs
  BY <1>1, <1>2, SizesKept
<1>12. Stack(open', scopes', k)
  BY <1>1, <1>7
<1> QED BY <1>1, <1>2, <1>9, <1>10, <1>11, <1>12, VisitKeepsScopes

LEMMA ElseInScope ==
  ASSUME Regular, NestingInv, ScopeInv, Else
  PROVE  ScopeInv'
<1> DEFINE n == Header.n
           i == size.constructs + 1
           o == Front(open)
           below == Front(o)
           h == [Header EXCEPT !.kind = "else"]
<1>1. /\ BodyClosed /\ pc = 0 /\ Header.kind = "if" /\ size.constructs < MaxConstructs
      /\ Count(0, 1) /\ UNCHANGED <<label, pc, alive>>
  BY DEF Else, BodyClosed
<1>2. PICK body \in BodyKinds("if") :
        /\ open' = below \o <<h, BodyEntry(body, i)>>
        /\ code' = ((code \o ExitBody) \o JumpTo(<<n, "end">>)) \o Mark(<<n, "else">>, Append(below, Header))
        /\ scopes' = OuterScopes \o BodyScopes(body)
  BY DEF Else
<1>3. body \in {"block", "single", "cases"} /\ body # "cases"
  BY RegularBodies
<1>4. PICK k : /\ Known(k) /\ Flow(code, <<>>, InScope(open), k) /\ Stack(open, scopes, k) /\ alive = <<>>
  BY <1>1, WhileVisiting
<1>5. /\ Header = Last(o) /\ Header \in EntryType /\ Fits(o, OuterScopes, loops)
      /\ code \in Seq(InstrType) /\ o \in Seq(EntryType)
  BY <1>1, AtTheEndOfABody DEF NestingInv, Emitted
<1>6. "if" \in HeadKind /\ "else" \in HeadKind /\ "if" \notin ScopeKind /\ "else" \notin ScopeKind
  BY DEF HeadKind, ScopeKind
<1>7. Len(o) > 1
  BY <1>1, <1>5, <1>6, CloseHead
<1>8. Stack(o, OuterScopes, k) /\ Flow(ExitBody, InScope(open), InScope(o), k)
  BY <1>1, <1>4, BodyLeft
<1>9. k.constructs \in 0 .. MaxConstructs
  BY <1>4, KnownTyped
<1>10. /\ n \in 1 .. MaxConstructs /\ n \in 1 .. k.constructs /\ At(n, InScope(o), k)
       /\ InScope(below) \in Seq(Object) /\ InScope(below) \in Seq(1 .. k.objects)
       /\ Stack(below, OuterScopes, k) /\ InScope(o) = InScope(below)
  BY <1>1, <1>5, <1>6, <1>7, <1>8, <1>9, HeadLeft
<1>11. Append(below, Header) = o /\ below \in Seq(EntryType)
  <2>1. o # <<>>
    BY <1>8 DEF Stack
  <2> QED BY <1>5, <2>1, FrontLast
<1>12. IsEntry(h, "else", n, <<>>) /\ h \in EntryType
  <2>1. /\ Header \in [kind : BodyKind \cup HeadKind, n : 0 .. MaxConstructs,
                       decls : Seq(Object), scan : BOOLEAN, other : BOOLEAN]
        /\ Header.scan = (Header.kind \in ScopeKind)
    BY <1>5 DEF EntryType
  <2>2. ~Header.scan
    BY <1>1, <1>6, <2>1
  <2>3. Header.decls = <<>>
    <3>1. IF Last(o).scan THEN Last(OuterScopes) = Last(o).decls /\ OuterScopes # <<>> ELSE Last(o).decls = <<>>
      BY <1>7, <1>8, StackPop
    <3> QED BY <1>5, <2>2, <3>1
  <2>4. /\ h \in [kind : BodyKind \cup HeadKind, n : 0 .. MaxConstructs,
                  decls : Seq(Object), scan : BOOLEAN, other : BOOLEAN]
        /\ h.kind = "else" /\ h.scan = Header.scan /\ h.n = n /\ h.decls = Header.decls
    BY <1>6, <2>1
  <2> HIDE DEF h
  <2>5. h.scan = (h.kind \in ScopeKind)
    BY <1>6, <2>1, <2>2, <2>4
  <2>6. h \in EntryType
    BY <2>4, <2>5 DEF EntryType
  <2> QED BY <1>6, <2>2, <2>3, <2>4, <2>6 DEF IsEntry
<1>13. PICK m : /\ Wider(k, m) /\ m.objects = k.objects + 0
                /\ m.objects = size'.objects /\ m.constructs = i /\ m.constructs = size'.constructs
                /\ i \in 1 .. MaxConstructs /\ (m.label # NoLabel => m.label.body # i)
                /\ Stack(below, OuterScopes, m) /\ Fresh(below, i)
  <2>1. 0 \in Nat
    OBVIOUS
  <2> QED BY <1>1, <1>4, <1>10, <2>1, ConstructNumbered
<1>14. m.objects = k.objects /\ n <= m.constructs /\ At(n, InScope(below), m) /\ Richer(k, m) /\ InScope(below) \o <<>> = InScope(below)
  <2>1. Wider(k, m) /\ k.objects \in Nat /\ k.constructs \in Nat
    BY <1>13 DEF Wider
  <2>2. k.objects + 0 = k.objects
    BY <2>1
  <2>3. n <= m.constructs
    BY <1>10, <2>1 DEF Wider
  <2>4. InScope(below) \o <<>> = InScope(below)
    BY <1>10, ConcatEmptySeq
  <2> QED BY <1>10, <1>13, <2>1, <2>2, <2>3, <2>4 DEF Wider, Richer, At
<1> HIDE DEF n, i, o, below, h
<1>15. /\ Stack(Append(below, h), OuterScopes, m) /\ InScope(Append(below, h)) = InScope(below)
       /\ Fresh(Append(below, h), i)
  <2>1. At(n, IF "else" = "range" THEN InScope(below) ELSE InScope(below) \o <<>>, m)
    BY <1>14
  <2>2. InScope(below) \o <<>> \in Seq(1 .. m.objects)
    BY <1>10, <1>14
  <2>3. /\ Stack(Append(below, h), IF "else" \in ScopeKind THEN Append(OuterScopes, <<>>) ELSE OuterScopes, m)
        /\ InScope(Append(below, h)) = InScope(below) \o <<>>
        /\ \A j : Fresh(below, j) => Fresh(Append(below, h), j)
    BY <1>6, <1>12, <1>13, <1>14, <2>1, <2>2, HeadPushed
  <2> QED BY <1>6, <1>13, <1>14, <2>3
<1>16. /\ Stack(Append(Append(below, h), BodyEntry(body, i)), OuterScopes \o BodyScopes(body), m)
       /\ InScope(Append(Append(below, h), BodyEntry(body, i))) = InScope(below)
  BY <1>3, <1>13, <1>15, BodyPushed
<1>17. open' = Append(Append(below, h), BodyEntry(body, i))
  <2>1. BodyEntry(body, i) \in EntryType
    <3>1. body \in BodyKind \ {"function"} /\ i \in 0 .. MaxConstructs
      BY <1>13, BodyKindsTyped, ConstantsAreNat
    <3> QED BY <1>5, <3>1, OpenBody
  <2> QED BY <1>2, <1>11, <1>12, <2>1, AppendTwo
<1> DEFINE t2 == JumpTo(<<n, "end">>)  t3 == Mark(<<n, "else">>, o)  t == (ExitBody \o t2) \o t3
<1>18. Flow(ExitBody, InScope(open), InScope(below), m)
  BY <1>8, <1>10, <1>14, FlowRicher
<1>19. Flow(t2, InScope(below), InScope(below), m) /\ Flow(t3, InScope(below), InScope(below), m)
  BY <1>10, <1>14, FlowTargets
<1> HIDE DEF t2, t3
<1>20. Flow(t, InScope(open), InScope(open'), m)
  <2>1. Flow(ExitBody \o t2, InScope(open), InScope(below), m)
    BY <1>18, <1>19, FlowConcat
  <2> QED BY <1>16, <1>17, <1>19, <2>1, FlowConcat
<1>21. code' = code \o t
  <2>1. ExitBody \in Seq(InstrType) /\ t2 \in Seq(InstrType) /\ t3 \in Seq(InstrType)
    BY <1>18, <1>19 DEF Flow
  <2>2. (code \o ExitBody) \o t2 = code \o (ExitBody \o t2) /\ ExitBody \o t2 \in Seq(InstrType)
    BY <1>5, <2>1, CodeInParts
  <2> DEFINE w == ExitBody \o t2
  <2> HIDE DEF w
  <2>3. code \in Seq(InstrType) /\ w \in Seq(InstrType) /\ t3 \in Seq(InstrType)
    BY <1>5, <2>1, <2>2 DEF w
  <2>4. (code \o w) \o t3 = code \o (w \o t3)
    BY ONLY <2>3, CodeInParts
  <2> QED BY <1>2, <1>11, <2>2, <2>4 DEF w, t2, t3
<1> HIDE DEF t
<1>22. Stack(open', scopes', m)
  BY <1>2, <1>16, <1>17
<1> QED BY <1>1, <1>4, <1>13, <1>20, <1>21, <1>22, VisitKeepsScopes

-----------------------------------------------------------------------------
(* Jumps out of scopes.                                                     *)

\* Break and continue leave the scopes in the statement they belong to, and jump to one
\* of its labels.
LEMMA FlowLeaving ==
  ASSUME NestingInv, pc = 0, NEW k, Stack(open, scopes, k), InScope(open) = FlattenSeq(scopes),
         InScope(open) \in Seq(Object), Breakable # {},
         NEW target \in LabelName, target[1] = open[Innermost(Breakable)].n,
         NEW meant \in LabelName, Leave(target, meant)
  PROVE  \E t : code' = code \o t /\ Flow(t, InScope(open), InScope(open), k)
<1> DEFINE m == Innermost(Breakable)
           d == KeptScopes(open, m)
           X == IF open[m].kind = "range" THEN Around(open, m - 1) ELSE Around(open, m)
           c == [Instr("jump", target, <<>>) EXCEPT !.meant = meant]
<1>1. /\ open \in Seq(EntryType) /\ Len(open) \in Nat \ {0} /\ scopes \in Seq(Seq(Object))
      /\ Nested(open) /\ Len(scopes) = Below(open, Len(open)) /\ code \in Seq(InstrType)
  BY AtAStatement DEF NestingInv, Emitted, Fits
<1>2. m \in Breakable /\ m \in 1 .. Len(open) /\ Last(loops).depth = d
  BY InnermostStatement DEF LoopEntry
<1>3. open[m].kind \in BreakKind
  BY <1>2 DEF Breakable, BreakKind
<1>4. m - 1 \in 1 .. Len(open)
  <2>1. m # 1
    BY <1>1, <1>3 DEF Nested, BreakKind
  <2> QED BY <1>1, <1>2, <2>1
<1>5. At(target[1], X, k)
  <2>1. EntryHolds(open[m].kind, open[m].n, Around(open, m - 1), Around(open, m), Below(open, m), k)
    BY <1>2 DEF Stack
  <2> QED BY <1>3, <2>1 DEF EntryHolds, TargetKind, HeadKind
<1>6. d \in Nat /\ d <= Len(scopes) /\ Inside(scopes, d) = X
  <2>1. Around(open, m) = Inside(scopes, Below(open, m)) /\ Around(open, m - 1) = Inside(scopes, Below(open, m - 1))
    BY <1>2, <1>4 DEF Stack
  <2>2. m \in Nat /\ m - 1 \in Nat /\ m <= Len(open) /\ m - 1 <= Len(open) /\ Len(open) \in Nat
    BY <1>1, <1>2, <1>4
  <2>3. /\ Below(open, m) \in Nat /\ Below(open, m) <= Below(open, Len(open))
        /\ Below(open, m - 1) \in Nat /\ Below(open, m - 1) <= Below(open, Len(open))
    BY <2>2, BelowFacts
  <2> QED BY <1>1, <2>1, <2>3 DEF KeptScopes
<1>7. c \in InstrType /\ c.op = "jump" /\ c.arg = target
  <2>1. <<>> \in Seq(Object)
    BY EmptySeq
  <2> QED BY <2>1 DEF Instr, InstrType, Argument
<1>8. code' = (code \o NonLocalExit(d)) \o <<c>>
  BY <1>2 DEF Leave
<1> HIDE DEF m, d, X, c
<1>9. X \in Seq(Object)
  <2>1. d \in 0 .. Len(scopes)
    BY <1>1, <1>6
  <2> QED BY <1>1, <1>6, <2>1, InsideFacts
<1>10. Flow(NonLocalExit(d), InScope(open), X, k)
  BY <1>1, <1>6, FlowExit
<1>11. Flow(<<c>>, X, InScope(open), k)
  <2>1. Step(c, X, InScope(open), k)
    BY <1>5, <1>7 DEF Step
  <2> QED BY <1>7, <1>9, <2>1, FlowOne
<1> DEFINE t == NonLocalExit(d) \o <<c>>
<1>12. Flow(t, InScope(open), InScope(open), k)
  BY <1>10, <1>11, FlowConcat
<1>13. code' = code \o t
  <2>1. NonLocalExit(d) \in Seq(InstrType) /\ <<c>> \in Seq(InstrType)
    BY <1>10, <1>11 DEF Flow
  <2>2. (code \o NonLocalExit(d)) \o <<c>> = code \o (NonLocalExit(d) \o <<c>>)
    BY <1>1, <2>1, CodeInParts
  <2> QED BY <1>8, <2>2
<1> QED BY <1>12, <1>13

LEMMA BreakInScope ==
  ASSUME Regular, NestingInv, ScopeInv, Break
  PROVE  ScopeInv'
<1> DEFINE n == open[Innermost(Breakable)].n
<1>1. /\ pc = 0 /\ Breakable # {} /\ Leave(Last(loops).end, <<n, "end">>)
      /\ open' = Added(open) /\ Count(0, 0) /\ UNCHANGED <<scopes, label, pc, alive>>
  BY DEF Break, Room
<1>2. PICK k : /\ Known(k) /\ Flow(code, <<>>, InScope(open), k) /\ Stack(open, scopes, k) /\ alive = <<>>
               /\ Stack(Added(open), scopes, k) /\ InScope(Added(open)) = InScope(open)
               /\ InScope(open) \in Seq(Object) /\ InScope(open) = FlattenSeq(scopes)
  BY <1>1, WhileVisiting
<1>3. n \in 0 .. MaxConstructs /\ Last(loops).end = <<n, "end">>
  BY <1>1, InnermostStatement DEF LoopEntry
<1>4. <<n, "end">> \in LabelName /\ <<n, "end">>[1] = n
  BY <1>3 DEF LabelName
<1>5. PICK t : code' = code \o t /\ Flow(t, InScope(open), InScope(open), k)
  <2>1. Leave(<<n, "end">>, <<n, "end">>)
    BY <1>1, <1>3
  <2> QED BY <1>1, <1>2, <1>4, <2>1, FlowLeaving
<1> QED BY <1>1, <1>2, <1>5, SimpleInScope

LEMMA ContinueInScope ==
  ASSUME Regular, NestingInv, ScopeInv, Continue
  PROVE  ScopeInv'
<1> DEFINE n == open[Innermost(Breakable)].n
           i == Innermost(Loops)
           meant == <<open[i].n, IF open[i].kind = "while" THEN "start" ELSE "next">>
<1>1. /\ pc = 0 /\ Loops # {} /\ Leave(Last(loops).next, meant)
      /\ open' = Added(open) /\ Count(0, 0) /\ UNCHANGED <<scopes, label, pc, alive>>
  BY DEF Continue, Room
<1>2. PICK k : /\ Known(k) /\ Flow(code, <<>>, InScope(open), k) /\ Stack(open, scopes, k) /\ alive = <<>>
               /\ Stack(Added(open), scopes, k) /\ InScope(Added(open)) = InScope(open)
               /\ InScope(open) \in Seq(Object) /\ InScope(open) = FlattenSeq(scopes)
  BY <1>1, WhileVisiting
<1>3. open \in Seq(EntryType) /\ Len(open) \in Nat
  BY <1>1, AtAStatement
<1>4. Loops \in SUBSET (1 .. Len(open)) /\ Breakable # {}
  BY <1>1, <1>3 DEF Loops, Breakable
<1>5. i \in Loops
  <2>1. \E j \in Loops : \A l \in Loops : l <= j
    BY <1>1, <1>3, <1>4, MaximumExists
  <2> QED BY <2>1 DEF Innermost
<1>6. meant \in LabelName
  <2>1. i \in 1 .. Len(open)
    BY <1>4, <1>5
  <2> HIDE DEF i
  <2>2. open[i] \in EntryType
    BY <1>3, <2>1, ElementOfSeq
  <2> QED BY <2>2 DEF LabelName, EntryType
<1>7. n \in 0 .. MaxConstructs /\ Last(loops).next = LoopNext(n, open[Innermost(Breakable)].kind)
  BY <1>1, <1>4, InnermostStatement DEF LoopEntry
<1> HIDE DEF n, meant
<1>8. Last(loops).next \in LabelName /\ Last(loops).next[1] = n
  BY <1>7 DEF LoopNext, LabelName
<1>9. PICK t : code' = code \o t /\ Flow(t, InScope(open), InScope(open), k)
  BY <1>1, <1>2, <1>4, <1>6, <1>8, FlowLeaving DEF n
<1> QED BY <1>1, <1>2, <1>9, SimpleInScope

LEMMA ReturnInScope ==
  ASSUME Regular, NestingInv, ScopeInv, Return
  PROVE  ScopeInv'
<1> DEFINE c == Instr("return", 0, <<>>)
<1>1. /\ pc = 0 /\ code' = (code \o NonLocalExit(0)) \o <<c>>
      /\ open' = Added(open) /\ Count(0, 0) /\ UNCHANGED <<scopes, label, pc, alive>>
  BY DEF Return, Room
<1>2. PICK k : /\ Known(k) /\ Flow(code, <<>>, InScope(open), k) /\ Stack(open, scopes, k) /\ alive = <<>>
               /\ Stack(Added(open), scopes, k) /\ InScope(Added(open)) = InScope(open)
               /\ InScope(open) \in Seq(Object) /\ InScope(open) = FlattenSeq(scopes)
  BY <1>1, WhileVisiting
<1>3. scopes \in Seq(Seq(Object)) /\ code \in Seq(InstrType)
  BY <1>1, AtAStatement DEF NestingInv, Emitted
<1>4. c \in InstrType /\ c.op = "return" /\ c.scope = <<>> /\ <<>> \in Seq(Object)
  <2>1. <<>> \in Seq(Object)
    BY EmptySeq
  <2> QED BY <2>1 DEF Instr, InstrType, Argument
<1> HIDE DEF c
<1>5. Flow(NonLocalExit(0), InScope(open), <<>>, k)
  <2>1. 0 \in Nat /\ 0 <= Len(scopes) /\ Len(scopes) \in Nat
    BY <1>3
  <2>2. Inside(scopes, 0) = <<>>
    BY <1>3, InsideFacts
  <2>3. Flow(NonLocalExit(0), FlattenSeq(scopes),
             IF 0 <= Len(scopes) THEN Inside(scopes, 0) ELSE FlattenSeq(scopes), k)
    BY <1>3, <2>1, FlowExit
  <2> QED BY <1>2, <2>1, <2>2, <2>3
<1>6. Flow(<<c>>, <<>>, InScope(open), k)
  <2>1. Step(c, <<>>, InScope(open), k)
    BY <1>4 DEF Step
  <2> QED BY <1>2, <1>4, <2>1, FlowOne
<1> DEFINE t == NonLocalExit(0) \o <<c>>
<1>7. Flow(t, InScope(open), InScope(open), k)
  BY <1>5, <1>6, FlowConcat
<1>8. code' = code \o t
  <2>1. NonLocalExit(0) \in Seq(InstrType) /\ <<c>> \in Seq(InstrType)
    BY <1>5, <1>6 DEF Flow
  <2>2. (code \o NonLocalExit(0)) \o <<c>> = code \o (NonLocalExit(0) \o <<c>>)
    BY <1>3, <2>1, CodeInParts
  <2> QED BY <1>1, <2>2
<1> HIDE DEF t
<1> QED BY <1>1, <1>2, <1>7, <1>8, SimpleInScope

-----------------------------------------------------------------------------
(* The user's label.                                                        *)

\* A goto or the label itself changes what is known of the label alone.
Relabelled(k, m) ==
  /\ m.at = k.at /\ m.objects = k.objects /\ m.constructs = k.constructs
  /\ k.gotos \subseteq m.gotos /\ k.places \subseteq m.places

LEMMA StackRelabelled ==
  ASSUME NEW o, NEW ss, NEW k, Stack(o, ss, k), NEW m, Relabelled(k, m),
         \A i \in 1 .. Len(o) : o[i].kind \in LabelKind /\ o[i].n = m.label.body =>
           /\ m.label.depth = Below(o, i)
           /\ m.places = {} => \A t \in m.gotos : Settles(t, Around(o, i))
  PROVE  Stack(o, ss, m)
<1>1. \A n, xs : At(n, xs, k) => At(n, xs, m)
  BY DEF At, Relabelled
<1>2. ASSUME NEW i \in 1 .. Len(o)
      PROVE  EntryHolds(o[i].kind, o[i].n, Around(o, i - 1), Around(o, i), Below(o, i), m)
  <2>1. EntryHolds(o[i].kind, o[i].n, Around(o, i - 1), Around(o, i), Below(o, i), k)
    BY DEF Stack
  <2> QED BY <1>1, <2>1 DEF EntryHolds, Relabelled
<1> QED BY <1>2 DEF Stack

\* What is in scope at the user's label, and at the gotos, if there are any in the code t.
MarksIn(t) == {s \in Seq(Object) :
  \E i \in 1 .. Len(t) : t[i].op = "label" /\ t[i].arg = UserLabel /\ t[i].scope = s}
GotosIn(t) == {s \in Seq(Object) : \E i \in 1 .. Len(t) : t[i].op = "goto" /\ t[i].scope = s}

LEMMA RelabelledInScope ==
  ASSUME NestingInv, pc = 0, alive = <<>>, NEW k, Known(k), Flow(code, <<>>, InScope(open), k),
         NEW m, Relabelled(k, m), m.label = label', label' # NoLabel, label'.body <= size.constructs,
         Stack(open, scopes, m), Meet(m),
         open' = Added(open), Count(0, 0), UNCHANGED <<scopes, pc, alive>>,
         NEW t, code' = code \o t, Flow(t, InScope(open), InScope(open), m),
         InScope(open) \in Seq(1 .. k.objects),
         m.places \subseteq k.places \cup MarksIn(t),
         \A u \in m.gotos : u \in k.gotos \/ u[2] \in GotosIn(t) \cap {InScope(open)}
  PROVE  ScopeInv'
<1>1. code \in Seq(InstrType) /\ t \in Seq(InstrType)
  BY DEF NestingInv, Emitted, Flow
<1>2. Richer(k, m)
  <2>1. k.constructs \in Nat
    BY KnownTyped
  <2> QED BY <2>1 DEF Richer, Relabelled
<1>3. Stack(open', scopes', m) /\ InScope(open') = InScope(open)
  BY AtAStatement, StackAdded
<1>4. Flow(code', <<>>, InScope(open'), m)
  <2>1. Flow(code, <<>>, InScope(open), m)
    BY <1>2, FlowRicher
  <2>2. Flow(code \o t, <<>>, InScope(open), m)
    BY <2>1, FlowConcat
  <2> QED BY <1>3, <2>2
<1>5. m.objects = size'.objects /\ m.constructs = size'.constructs /\ size'.constructs = size.constructs
  <2>1. size.objects \in Nat /\ size.constructs \in Nat /\ m.objects = size.objects /\ m.constructs = size.constructs
    BY KnownTyped DEF Known, Relabelled
  <2>2. size'.objects = size.objects + 0 /\ size'.constructs = size.constructs + 0
    BY DEF Count
  <2> QED BY <2>1, <2>2
<1>6. ASSUME NEW s \in m.places PROVE \E i \in Places(UserLabel)' : code'[i].scope = s
  <2>1. CASE s \in k.places
    <3>1. PICK i \in Places(UserLabel) : code[i].scope = s
      BY <2>1 DEF Known
    <3>2. i \in Places(UserLabel)' /\ code'[i].scope = s
      BY <1>1, <3>1, CodeGrows
    <3> QED BY <3>2
  <2>2. CASE s \in MarksIn(t)
    <3>1. PICK i \in 1 .. Len(t) : t[i].op = "label" /\ t[i].arg = UserLabel /\ t[i].scope = s
      BY <2>2 DEF MarksIn
    <3>2. Len(code) + i \in 1 .. Len(code') /\ code'[Len(code) + i] = t[i] /\ code' \in Seq(InstrType)
      BY <1>1, CodeGrows
    <3>3. DOMAIN code' = 1 .. Len(code')
      BY <3>2
    <3>4. Len(code) + i \in Places(UserLabel)' /\ code'[Len(code) + i].scope = s
      BY <3>1, <3>2, <3>3 DEF Places, UserLabel
    <3> QED BY <3>4
  <2> QED BY <2>1, <2>2
<1>7. ASSUME NEW u \in m.gotos
      PROVE  /\ u[2] \in Seq(1 .. m.objects)
             /\ \E i \in 1 .. Len(code') : code'[i].op = "goto" /\ code'[i].scope = u[2]
  <2>1. CASE u \in k.gotos
    <3>1. PICK i \in 1 .. Len(code) : code[i].op = "goto" /\ code[i].scope = u[2]
      BY <2>1 DEF Known
    <3>2. i \in 1 .. Len(code') /\ code'[i] = code[i]
      BY <1>1, CodeGrows
    <3>3. u[2] \in Seq(1 .. m.objects)
      BY <2>1 DEF Known, Relabelled
    <3> QED BY <3>1, <3>2, <3>3
  <2>2. CASE u[2] \in GotosIn(t) \cap {InScope(open)}
    <3>1. PICK i \in 1 .. Len(t) : t[i].op = "goto" /\ t[i].scope = u[2]
      BY <2>2 DEF GotosIn
    <3>2. Len(code) + i \in 1 .. Len(code') /\ code'[Len(code) + i] = t[i]
      BY <1>1, CodeGrows
    <3>3. u[2] \in Seq(1 .. m.objects)
      BY <2>2 DEF Relabelled
    <3> QED BY <3>1, <3>2, <3>3
  <2> QED BY <2>1, <2>2
<1>8. label'.body <= size'.constructs
  BY <1>5
<1>9. Known(m)'
  BY <1>5, <1>6, <1>7, <1>8 DEF Known, Meet
<1>10. Emitting(m)'
  BY <1>3, <1>4, <1>9 DEF Emitting
<1> QED BY <1>10 DEF ScopeInv

\* Where prescanLabels has found the label: in a body around it, or not at all.
LEMMA LabelFound ==
  ASSUME Regular, NestingInv, pc = 0, NEW k, Known(k), Stack(open, scopes, k), NEW l \in Labels
  PROVE  /\ l # NoLabel /\ l \in LabelType /\ l.body <= size.constructs
         /\ label # NoLabel => l = label
         /\ \A i \in 1 .. Len(open) :
              open[i].kind \in LabelKind /\ open[i].n = l.body => l.depth = Below(open, i)
<1>1. open \in Seq(EntryType) /\ Len(open) \in Nat \ {0} /\ Nested(open) /\ label \in LabelType
  BY AtAStatement DEF Fits, NestingInv
<1>2. CASE label # NoLabel
  <2>1. l = label
    BY <1>2 DEF Labels
  <2>2. l.body <= size.constructs /\ k.label = l
    BY <1>2, <2>1 DEF Known
  <2>3. \A i \in 1 .. Len(open) :
          open[i].kind \in LabelKind /\ open[i].n = l.body => l.depth = Below(open, i)
    BY <1>2, <2>1, <2>2 DEF Stack, EntryHolds
  <2> QED BY <1>1, <1>2, <2>1, <2>2, <2>3
<1>3. CASE label = NoLabel
  <2>1. PICK j \in LabelBodies : l = [depth |-> PrescanDepth(SubSeq(open, 1, j)), body |-> open[j].n]
    <3>1. "goto" \notin Shapes
      BY DEF Regular
    <3> QED BY <1>3, <3>1 DEF Labels
  <2>2. j \in 1 .. Len(open) /\ open[j].kind \in LabelKind
    BY <1>1 DEF LabelBodies, LabelKind
  <2>3. l.depth = Below(open, j) /\ l.body = open[j].n
    BY <1>1, <2>1, <2>2, BelowIsDepth
  <2>4. l \in LabelType
    BY <2>1, <2>2, DepthTyped
  <2>5. l # NoLabel
    <3>1. Below(open, j) >= 1
      BY <1>1, <2>2, NestedTop
    <3> QED BY <2>3, <3>1 DEF NoLabel
  <2>6. l.body <= size.constructs
    BY <2>2, <2>3 DEF Stack, EntryHolds, Known
  <2>7. \A i \in 1 .. Len(open) :
          open[i].kind \in LabelKind /\ open[i].n = l.body => l.depth = Below(open, i)
    BY <2>2, <2>3 DEF Stack
  <2> QED BY <1>3, <2>4, <2>5, <2>6, <2>7
<1> QED BY <1>2, <1>3

LEMMA GotoInScope ==
  ASSUME Regular, NestingInv, ScopeInv, Goto
  PROVE  ScopeInv'
<1> DEFINE c == [Instr("jump", UserLabel, InScope(open)) EXCEPT !.op = "goto"]
           l == label'
           X == InScope(open)
           A == IF l.depth <= Len(scopes) THEN Inside(scopes, l.depth) ELSE FlattenSeq(scopes)
           exit == NonLocalExit(l.depth)
           t == exit \o <<c>>
<1>1. /\ pc = 0 /\ l \in Labels /\ code' = (code \o exit) \o <<c>>
      /\ open' = Added(open) /\ Count(0, 0) /\ UNCHANGED <<scopes, pc, alive>>
  BY DEF Goto, Room
<1>2. PICK k : /\ Known(k) /\ Flow(code, <<>>, X, k) /\ Stack(open, scopes, k) /\ alive = <<>>
               /\ X \in Seq(Object) /\ X = FlattenSeq(scopes) /\ X \in Seq(1 .. k.objects)
  BY <1>1, WhileVisiting
<1>3. /\ open \in Seq(EntryType) /\ Len(open) \in Nat \ {0} /\ scopes \in Seq(Seq(Object))
      /\ code \in Seq(InstrType) /\ Len(scopes) = Below(open, Len(open)) /\ Nested(open)
  BY <1>1, AtAStatement DEF NestingInv, Emitted, Fits
<1>4. /\ l # NoLabel /\ l \in LabelType /\ l.body <= size.constructs
      /\ label # NoLabel => l = label
      /\ \A i \in 1 .. Len(open) :
           open[i].kind \in LabelKind /\ open[i].n = l.body => l.depth = Below(open, i)
  BY <1>1, <1>2, LabelFound
<1>5. l.depth \in Nat
  BY <1>4 DEF LabelType
<1>6. \A i \in LabelBodies : i \in 1 .. Len(open) /\ open[i].kind \in LabelKind
  BY <1>3 DEF LabelBodies, LabelKind
<1>7. ASSUME NEW s \in k.places
      PROVE  \E j \in LabelBodies : open[j].n = label.body /\ Around(open, j) = s
  <2>1. PICK i \in Places(UserLabel) : code[i].scope = s
    BY <1>2, <1>7 DEF Known
  <2>2. "goto" \notin Shapes
    BY DEF Regular
  <2> QED BY <2>1, <2>2 DEF Goto, Around
<1>8. c \in InstrType /\ c.op = "goto" /\ c.arg = UserLabel /\ c.scope = X
  <2>1. UserLabel \in LabelName
    BY ConstantsAreNat DEF UserLabel, LabelName
  <2> QED BY <1>2, <2>1 DEF Instr, InstrType, Argument
<1> HIDE DEF c, l, X
<1>9. ASSUME NEW i \in 1 .. Len(open), open[i].kind \in LabelKind, open[i].n = l.body
      PROVE  l.depth = Below(open, i) /\ A = Around(open, i)
  <2>1. l.depth = Below(open, i)
    BY <1>4, <1>9
  <2>2. Below(open, i) <= Len(scopes)
    BY <1>3, NestedTop
  <2>3. Around(open, i) = Inside(scopes, Below(open, i))
    BY <1>2 DEF Stack
  <2> QED BY <2>1, <2>2, <2>3
<1> DEFINE w == [at |-> k.at, gotos |-> k.gotos \cup {<<A, X>>}, places |-> k.places, label |-> l,
                 objects |-> k.objects, constructs |-> k.constructs]
<1>10. \E m : m = w
  OBVIOUS
<1>11. PICK m : m = w
  BY <1>10
<1>12. /\ Relabelled(k, m) /\ m.label = l /\ m.gotos = k.gotos \cup {<<A, X>>} /\ m.places = k.places
  BY <1>11 DEF Relabelled
<1> HIDE DEF w, A
<1>13. A \in Seq(Object) /\ Flow(exit, X, A, m)
  <2>1. Flow(exit, FlattenSeq(scopes), A, m)
    BY <1>3, <1>5, FlowExit DEF A
  <2>2. A \in Seq(Object)
    <3>1. CASE l.depth <= Len(scopes)
      <4>1. l.depth \in 0 .. Len(scopes)
        BY <1>3, <1>5, <3>1
      <4> QED BY <1>3, <3>1, <4>1, InsideFacts DEF A
    <3>2. CASE ~(l.depth <= Len(scopes))
      BY <1>2, <3>2 DEF A
    <3> QED BY <3>1, <3>2
  <2> QED BY <1>2, <2>1, <2>2
<1>14. Stack(open, scopes, m)
  <2>1. ASSUME NEW i \in 1 .. Len(open), open[i].kind \in LabelKind, open[i].n = l.body,
               m.places = {}, NEW u \in m.gotos
        PROVE  Settles(u, Around(open, i))
    <3>1. CASE u \in k.gotos
      <4>1. label # NoLabel /\ k.label = l /\ k.places = {}
        BY <1>2, <1>4, <1>12, <2>1, <3>1 DEF Known
      <4> QED BY <1>2, <2>1, <3>1, <4>1 DEF Stack, EntryHolds, Known
    <3>2. CASE u = <<A, X>>
      BY <1>9, <2>1, <3>2 DEF Settles
    <3> QED BY <1>12, <2>1, <3>1, <3>2
  <2> QED BY <1>2, <1>9, <1>12, <2>1, StackRelabelled
<1>15. Meet(m)
  <2> SUFFICES ASSUME NEW u \in m.gotos, NEW s \in m.places PROVE u[1] = s
    BY DEF Meet
  <2>1. CASE u \in k.gotos
    BY <1>2, <1>12, <2>1 DEF Known, Meet
  <2>2. CASE u = <<A, X>>
    <3>1. PICK j \in LabelBodies : open[j].n = label.body /\ Around(open, j) = s
      BY <1>7, <1>12
    <3>2. label = l
      BY <1>2, <1>4, <1>12 DEF Known
    <3> QED BY <1>6, <1>9, <2>2, <3>1, <3>2
  <2> QED BY <1>12, <2>1, <2>2
<1>16. Flow(t, X, X, m)
  <2>1. Step(c, A, X, m)
    BY <1>8, <1>12 DEF Step
  <2>2. Flow(<<c>>, A, X, m)
    BY <1>2, <1>8, <1>13, <2>1, FlowOne
  <2> QED BY <1>13, <2>2, FlowConcat
<1> HIDE DEF exit
<1>17. code' = code \o t
  <2>1. exit \in Seq(InstrType) /\ <<c>> \in Seq(InstrType)
    BY <1>8, <1>13 DEF Flow
  <2>2. (code \o exit) \o <<c>> = code \o (exit \o <<c>>)
    BY <1>3, <2>1, CodeInParts
  <2> QED BY <1>1, <2>2
<1>18. X \in GotosIn(t)
  <2>1. exit \in Seq(InstrType) /\ <<c>> \in Seq(InstrType) /\ Len(<<c>>) = 1 /\ <<c>>[1] = c
    BY <1>8, <1>13 DEF Flow
  <2>2. /\ Len(t) = Len(exit) + 1 /\ Len(exit) \in Nat
        /\ \A i \in 1 .. Len(exit) + 1 : t[i] = IF i <= Len(exit) THEN exit[i] ELSE <<c>>[i - Len(exit)]
    BY <2>1, ConcatProperties
  <2> HIDE DEF t
  <2>3. Len(exit) + 1 \in 1 .. Len(t) /\ ~(Len(exit) + 1 <= Len(exit)) /\ (Len(exit) + 1) - Len(exit) = 1
    BY <2>2
  <2>4. t[Len(exit) + 1] = c
    BY <2>1, <2>2, <2>3
  <2> QED BY <1>2, <1>8, <2>3, <2>4 DEF GotosIn
<1> HIDE DEF t
<1>19. \A u \in m.gotos : u \in k.gotos \/ u[2] \in GotosIn(t) \cap {InScope(open)}
  <2>1. \A u \in m.gotos : u \in k.gotos \/ u = <<A, X>>
    BY <1>12
  <2>2. <<A, X>>[2] = InScope(open)
    BY DEF X
  <2> QED BY <1>18, <2>1, <2>2 DEF X
<1>20. /\ m.label = label' /\ label' # NoLabel /\ label'.body <= size.constructs
       /\ Flow(t, InScope(open), InScope(open), m) /\ Flow(code, <<>>, InScope(open), k)
       /\ InScope(open) \in Seq(1 .. k.objects)
  BY <1>2, <1>4, <1>12, <1>16 DEF l, X
<1>21. m.places \subseteq k.places \cup MarksIn(t)
  BY <1>12
<1> QED BY <1>1, <1>2, <1>12, <1>14, <1>15, <1>17, <1>19, <1>20, <1>21, RelabelledInScope

LEMMA LabelInScope ==
  ASSUME Regular, NestingInv, ScopeInv, Label
  PROVE  ScopeInv'
<1> DEFINE X == InScope(open)
           n == Len(open)
           c == Instr("label", UserLabel, X)
           l == [depth |-> PrescanDepth(open), body |-> Body.n]
<1>1. /\ pc = 0 /\ n \in LabelBodies /\ Places(UserLabel) = {} /\ label' = l /\ label \in {NoLabel, l}
      /\ \A i \in DOMAIN code : code[i].op = "goto" => IsPrefix(X, code[i].scope)
      /\ code' = code \o <<c>> /\ open' = Added(open) /\ Count(0, 0) /\ UNCHANGED <<scopes, pc, alive>>
  BY DEF Label, Mark
<1>2. PICK k : /\ Known(k) /\ Flow(code, <<>>, X, k) /\ Stack(open, scopes, k) /\ alive = <<>>
               /\ X \in Seq(Object) /\ X \in Seq(1 .. k.objects)
  BY <1>1, WhileVisiting
<1>3. /\ open \in Seq(EntryType) /\ n \in Nat \ {0} /\ code \in Seq(InstrType) /\ Nested(open)
      /\ DOMAIN code = 1 .. Len(code)
  BY <1>1, AtAStatement DEF NestingInv, Emitted, Fits
<1>4. n \in 1 .. Len(open) /\ open[n].kind \in LabelKind /\ Body = open[n] /\ Around(open, n) = X
  <2>1. n \in 1 .. Len(open)
    BY <1>3
  <2>2. Around(open, Len(open)) = InScope(open)
    BY <1>3, AroundFacts
  <2> QED BY <1>1, <2>1, <2>2 DEF LabelBodies, LabelKind, Body, Last
<1>5. l.depth = Below(open, n) /\ l.body = open[n].n /\ l # NoLabel /\ l.body <= size.constructs
  <2>1. PrescanDepth(open) = Below(open, n)
    BY <1>3, BelowIsDepth
  <2>2. Below(open, n) >= 1
    BY <1>3, <1>4, NestedTop
  <2>3. open[n].n <= size.constructs
    BY <1>2, <1>4 DEF Stack, EntryHolds, Known
  <2> QED BY <1>4, <2>1, <2>2, <2>3 DEF NoLabel
<1>6. k.places = {}
  BY <1>1, <1>2 DEF Known
<1>7. ASSUME NEW u \in k.gotos PROVE u[1] = X
  <2>1. IsPrefix(X, u[2])
    <3>1. PICK i \in 1 .. Len(code) : code[i].op = "goto" /\ code[i].scope = u[2]
      BY <1>2, <1>7 DEF Known
    <3> QED BY <1>1, <1>3, <3>1
  <2>2. k.label = l
    BY <1>1, <1>2, <1>7 DEF Known
  <2>3. Settles(u, Around(open, n))
    <3>1. EntryHolds(open[n].kind, open[n].n, Around(open, n - 1), Around(open, n), Below(open, n), k)
      BY <1>2, <1>4 DEF Stack
    <3> HIDE DEF l
    <3> QED BY <1>4, <1>5, <1>6, <1>7, <2>2, <3>1 DEF EntryHolds
  <2> QED BY <1>4, <2>1, <2>3 DEF Settles
<1>8. c \in InstrType /\ c.op = "label" /\ c.arg = UserLabel /\ c.scope = X
  <2>1. UserLabel \in LabelName
    BY ConstantsAreNat DEF UserLabel, LabelName
  <2> QED BY <1>2, <2>1 DEF Instr, InstrType, Argument
<1> HIDE DEF c, l, X, n
<1> DEFINE w == [at |-> k.at, gotos |-> k.gotos, places |-> {X}, label |-> l,
                 objects |-> k.objects, constructs |-> k.constructs]
<1>9. \E m : m = w
  OBVIOUS
<1>10. PICK m : m = w
  BY <1>9
<1>11. Relabelled(k, m) /\ m.label = l /\ m.gotos = k.gotos /\ m.places = {X}
  BY <1>6, <1>10 DEF Relabelled
<1> HIDE DEF w
<1>12. Stack(open, scopes, m)
  <2>1. ASSUME NEW i \in 1 .. Len(open), open[i].kind \in LabelKind, open[i].n = m.label.body
        PROVE  m.label.depth = Below(open, i)
    <3>1. i = n
      BY <1>2, <1>4, <1>5, <1>11, <2>1 DEF Stack
    <3> QED BY <1>5, <1>11, <3>1
  <2>2. m.places # {}
    BY <1>11
  <2> QED BY <1>2, <1>11, <2>1, <2>2, StackRelabelled
<1>13. Meet(m)
  BY <1>7, <1>11 DEF Meet
<1>14. Flow(<<c>>, X, X, m)
  <2>1. Step(c, X, X, m)
    BY <1>8, <1>11 DEF Step
  <2> QED BY <1>2, <1>8, <2>1, FlowOne
<1> DEFINE t == <<c>>
<1>15. m.places \subseteq k.places \cup MarksIn(t)
  <2>1. t[1] = c /\ 1 \in 1 .. Len(t)
    OBVIOUS
  <2> HIDE DEF t
  <2> QED BY <1>2, <1>8, <1>11, <2>1 DEF MarksIn
<1>16. code' = code \o t /\ Flow(t, InScope(open), InScope(open), m)
  BY <1>1, <1>14 DEF X
<1> HIDE DEF t
<1>17. /\ m.label = label' /\ label' # NoLabel /\ label'.body <= size.constructs
       /\ Flow(code, <<>>, InScope(open), k) /\ InScope(open) \in Seq(1 .. k.objects)
       /\ \A u \in m.gotos : u \in k.gotos \/ u[2] \in GotosIn(t) \cap {InScope(open)}
  BY <1>1, <1>2, <1>5, <1>11 DEF X
<1> QED BY <1>1, <1>2, <1>11, <1>12, <1>13, <1>15, <1>16, <1>17, RelabelledInScope

\* The end of the function destroys what is left in its scope and returns.
LEMMA EndFunctionInScope ==
  ASSUME Regular, NestingInv, ScopeInv, EndFunction
  PROVE  ScopeInv'
<1> DEFINE X == InScope(open)
           c == Instr("return", 0, <<>>)
           xs == Last(scopes)
<1>1. /\ pc = 0 /\ Body.kind = "function" /\ code' = (code \o Destroy(xs)) \o <<c>>
      /\ pc' = 1 /\ UNCHANGED alive
  BY DEF EndFunction
<1>2. PICK k : /\ Known(k) /\ Flow(code, <<>>, X, k) /\ Stack(open, scopes, k) /\ alive = <<>>
               /\ X \in Seq(Object) /\ X = FlattenSeq(scopes)
  BY <1>1, WhileVisiting
<1>3. /\ open \in Seq(EntryType) /\ scopes \in Seq(Seq(Object)) /\ code \in Seq(InstrType)
      /\ Len(scopes) = Below(open, Len(open)) /\ Nested(open)
  BY <1>1, AtAStatement DEF NestingInv, Emitted, Fits
<1>4. Len(scopes) = 1
  <2>1. Len(open) = 1
    BY <1>1, <1>3, NestedTop DEF Body
  <2>2. Below(open, 1) <= 1 /\ Below(open, 1) \in Nat
    BY BelowFacts
  <2>3. Below(open, 1) \in Nat \ {0}
    BY <1>3, <2>1, NestedTop
  <2> QED BY <1>3, <2>1, <2>2, <2>3
<1>5. xs \in Seq(Object) /\ X = xs
  <2>1. xs = scopes[1] /\ 1 \in 1 .. Len(scopes) /\ 1 - 1 = 0
    BY <1>4 DEF Last
  <2>2. scopes[1] \in Seq(Object)
    BY <1>3, <2>1, ElementOfSeq
  <2>3. Inside(scopes, 1) = Inside(scopes, 1 - 1) \o scopes[1]
    BY <1>3, <2>1, InsideFacts
  <2>4. Inside(scopes, 0) = <<>>
    BY <1>3, InsideFacts
  <2>5. Inside(scopes, Len(scopes)) = FlattenSeq(scopes)
    BY <1>3, InsideFacts
  <2>6. <<>> \o scopes[1] = scopes[1]
    BY <2>2, ConcatEmptySeq
  <2> QED BY <1>2, <1>4, <2>1, <2>2, <2>3, <2>4, <2>5, <2>6
<1>6. c \in InstrType /\ c.op = "return" /\ c.scope = <<>> /\ <<>> \in Seq(Object)
  <2>1. <<>> \in Seq(Object)
    BY EmptySeq
  <2> QED BY <2>1 DEF Instr, InstrType, Argument
<1> HIDE DEF c, X, xs
<1>7. Flow(Destroy(xs), X, <<>>, k)
  <2>1. Flow(Destroy(xs), <<>> \o xs, <<>>, k)
    BY <1>5, <1>6, FlowDestroy
  <2>2. <<>> \o xs = xs
    BY <1>5, ConcatEmptySeq
  <2> QED BY <1>5, <2>1, <2>2
<1>8. Flow(<<c>>, <<>>, <<>>, k)
  <2>1. Step(c, <<>>, <<>>, k)
    BY <1>6 DEF Step
  <2> QED BY <1>6, <2>1, FlowOne
<1>9. Flow(code', <<>>, <<>>, k)
  <2>1. Flow(code \o Destroy(xs), <<>>, <<>>, k)
    BY <1>2, <1>7, FlowConcat
  <2>2. Flow((code \o Destroy(xs)) \o <<c>>, <<>>, <<>>, k)
    BY <1>8, <2>1, FlowConcat
  <2> QED BY <1>1, <2>2
<1>10. \E E : Trace(code', E, k) /\ E[1] = <<>>
  BY <1>9 DEF Flow
<1>11. PICK E : Trace(code', E, k) /\ E[1] = <<>>
  BY <1>10
<1>12. Running(k, E)'
  BY <1>1, <1>2, <1>11 DEF Running, Known, Meet
<1> QED BY <1>1, <1>12 DEF ScopeInv

-----------------------------------------------------------------------------
(* The run keeps to what the visit has foreseen.                            *)

LEMMA AtAnInstruction ==
  ASSUME NestingInv, ScopeInv, pc > 0
  PROVE  /\ pc \in 1 .. Len(code) /\ Here = code[pc] /\ Here \in InstrType /\ Len(code) \in Nat
         /\ Here.op # "return" => pc + 1 \in 1 .. Len(code)
         /\ \E k, E : /\ Running(k, E) /\ Step(Here, alive, E[pc + 1], k)
                      /\ alive \in Seq(Object) /\ E[pc + 1] \in Seq(Object)
<1>1. code \in Seq(InstrType) /\ Len(code) \in Nat /\ pc \in 1 .. Len(code) /\ Here = code[pc]
  BY DEF NestingInv, Emitted, Here
<1>2. Here \in InstrType
  BY <1>1, ElementOfSeq
<1>3. ASSUME Here.op # "return" PROVE pc + 1 \in 1 .. Len(code)
  <2>1. pc # Len(code)
    BY <1>1, <1>3 DEF NestingInv, Last
  <2> QED BY <1>1, <2>1
<1>4. PICK k, E : Running(k, E)
  BY DEF ScopeInv
<1>5. Step(Here, alive, E[pc + 1], k) /\ E[pc + 1] \in Seq(Object)
  <2>1. pc + 1 \in 1 .. Len(code) + 1
    BY <1>1
  <2> QED BY <1>1, <1>4, <2>1 DEF Running, Trace
<1>6. alive \in Seq(Object)
  BY DEF NestingInv
<1> QED BY <1>1, <1>2, <1>3, <1>4, <1>5, <1>6

LEMMA MovesOn ==
  ASSUME NEW k, NEW E, Running(k, E), UNCHANGED code, pc' # 0, alive' = E[pc']
  PROVE  ScopeInv'
<1>1. Running(k, E)'
  BY DEF Running, Meet, Trace
<1> QED BY <1>1 DEF ScopeInv

LEMMA ConstructInScope ==
  ASSUME NestingInv, ScopeInv, Construct
  PROVE  ScopeInv'
<1>1. /\ pc > 0 /\ Here.op = "make" /\ alive' = Append(alive, Here.arg) /\ pc' = pc + 1 /\ UNCHANGED code
  BY DEF Construct, Fetch
<1>2. PICK k, E : Running(k, E) /\ Step(Here, alive, E[pc + 1], k)
  BY <1>1, AtAnInstruction
<1>3. alive' = E[pc']
  BY <1>1, <1>2 DEF Step
<1>4. pc' # 0
  BY <1>1, AtAnInstruction
<1> QED BY <1>1, <1>2, <1>3, <1>4, MovesOn

\* Taking the youngest object out of those alive.
Indices(s, x) == {i \in 1 .. Len(s) : s[i] = x}

LEMMA RemovedLast ==
  ASSUME NEW B \in Seq(Object), NEW x \in Object, NEW s, s = Append(B, x)
  PROVE  Contains(s, x) /\ Indices(s, x) # {} /\ RemoveAt(s, Max(Indices(s, x))) = B
<1> DEFINE n == Len(s)
           I == Indices(s, x)
<1>1. /\ s \in Seq(Object) /\ n = Len(B) + 1 /\ Len(B) \in Nat
      /\ \A i \in 1 .. Len(B) : s[i] = B[i]
      /\ s[Len(B) + 1] = x
  BY AppendProperties
<1>2. n \in I /\ \A i \in I : n >= i /\ i \in 1 .. n
  BY <1>1 DEF Indices
<1>3. Contains(s, x)
  BY <1>2 DEF Contains, Indices
<1>4. Max(I) = n
  <2> HIDE DEF I, n
  <2>1. \A i \in I : (\A j \in I : i >= j) => i = n
    <3> SUFFICES ASSUME NEW i \in I, \A j \in I : i >= j PROVE i = n
      OBVIOUS
    <3>1. i >= n /\ n >= i /\ i \in Int /\ n \in Int
      BY <1>1, <1>2
    <3> QED BY <3>1
  <2>2. \A j \in I : n >= j
    BY <1>2
  <2> QED BY <1>2, <2>1, <2>2 DEF Max
<1>5. SubSeq(s, 1, n - 1) = B
  <2> DEFINE p == SubSeq(s, 1, n - 1)
  <2>1. n - 1 \in 0 .. Len(s) /\ n - 1 = Len(B)
    BY <1>1
  <2>2. p \in Seq(Object) /\ Len(p) = n - 1 /\ \A j \in 1 .. n - 1 : p[j] = s[j]
    BY <1>1, <2>1, PrefixFacts
  <2> HIDE DEF p, n
  <2>3. p = B
    BY <1>1, <2>1, <2>2, SeqEqual
  <2> QED BY <2>3 DEF p
<1>6. SubSeq(s, n + 1, Len(s)) = <<>>
  BY <1>1, SubSeqEmpty
<1>7. RemoveAt(s, n) = B
  <2>1. B \o <<>> = B
    BY ConcatEmptySeq
  <2> QED BY <1>5, <1>6, <2>1 DEF RemoveAt
<1> QED BY <1>2, <1>3, <1>4, <1>7
LEMMA DestructInScope ==
  ASSUME NestingInv, ScopeInv, Destruct
  PROVE  ScopeInv'
<1>1. /\ pc > 0 /\ Here.op = "destroy" /\ pc' = pc + 1 /\ UNCHANGED code
      /\ alive' = IF Contains(alive, Here.arg)
                  THEN RemoveAt(alive, SelectLastInSeq(alive, LAMBDA x : x = Here.arg)) ELSE alive
  BY DEF Destruct, Fetch
<1>2. PICK k, E : Running(k, E) /\ Step(Here, alive, E[pc + 1], k) /\ E[pc + 1] \in Seq(Object)
  BY <1>1, AtAnInstruction
<1>3. alive = Append(E[pc + 1], Here.arg) /\ Here.arg \in Object
  <2>1. Here \in InstrType
    BY <1>1, AtAnInstruction
  <2> QED BY <1>1, <1>2, <2>1 DEF Step, InstrType
<1> DEFINE I == Indices(alive, Here.arg)
<1> HIDE DEF I
<1>4. Contains(alive, Here.arg) /\ I # {} /\ RemoveAt(alive, Max(I)) = E[pc + 1]
  BY <1>2, <1>3, RemovedLast DEF I
<1>5. SelectLastInSeq(alive, LAMBDA x : x = Here.arg) = Max(I)
  BY <1>4 DEF SelectLastInSeq, I, Indices
<1>6. alive' = E[pc']
  BY <1>1, <1>4, <1>5
<1>7. pc' # 0
  BY <1>1, AtAnInstruction
<1> QED BY <1>1, <1>2, <1>6, <1>7, MovesOn

\* Where a label is, what the visit has foreseen for it is alive.
LEMMA AtALabel ==
  ASSUME NestingInv, NEW k, NEW E, Running(k, E), NEW l, NEW j \in Places(l)
  PROVE  /\ j # 0
         /\ IF l = UserLabel THEN E[j] \in k.places ELSE At(l[1], E[j], k)
<1>1. code \in Seq(InstrType) /\ DOMAIN code = 1 .. Len(code) /\ Len(code) \in Nat
  BY DEF NestingInv, Emitted
<1>2. j \in 1 .. Len(code) /\ code[j].op = "label" /\ code[j].arg = l
  BY <1>1 DEF Places
<1>3. Step(code[j], E[j], E[j + 1], k)
  BY <1>2 DEF Running, Trace
<1> QED BY <1>1, <1>2, <1>3 DEF Step

LEMMA GoInScope ==
  ASSUME NestingInv, ScopeInv, Go
  PROVE  ScopeInv'
<1>1. pc > 0 /\ UNCHANGED <<code, alive>>
  BY DEF Go, Fetch
<1>2. PICK k, E : Running(k, E) /\ Step(Here, alive, E[pc + 1], k)
  BY <1>1, AtAnInstruction
<1>3. CASE Here.op \in {"label", "branch"} /\ pc' = pc + 1
  <2>1. alive' = E[pc']
    BY <1>1, <1>2, <1>3 DEF Step
  <2>2. pc' # 0
    BY <1>1, <1>3, AtAnInstruction
  <2> QED BY <1>1, <1>2, <2>1, <2>2, MovesOn
<1>4. CASE Here.op \in {"jump", "branch"} /\ pc' \in Places(Here.arg)
  <2>1. At(Here.arg[1], alive, k)
    BY <1>2, <1>4 DEF Step
  <2>2. Here.arg # UserLabel
    BY <2>1 DEF At, UserLabel
  <2>3. pc' # 0 /\ At(Here.arg[1], E[pc'], k)
    BY <1>2, <1>4, <2>2, AtALabel
  <2>4. alive' = E[pc']
    BY <1>1, <2>1, <2>3 DEF At
  <2> QED BY <1>1, <1>2, <2>3, <2>4, MovesOn
<1>5. CASE Here.op = "goto" /\ pc' \in Places(Here.arg)
  <2>1. Here.arg = UserLabel /\ <<alive, Here.scope>> \in k.gotos
    BY <1>2, <1>5 DEF Step
  <2>2. pc' # 0 /\ E[pc'] \in k.places
    BY <1>2, <1>5, <2>1, AtALabel
  <2>3. <<alive, Here.scope>>[1] = E[pc']
    BY <1>2, <2>1, <2>2 DEF Running, Meet
  <2>4. alive' = E[pc']
    BY <1>1, <2>3
  <2> QED BY <1>1, <1>2, <2>2, <2>4, MovesOn
<1>6. CASE Here.op = "dispatch" /\ \E s \in {"case", "end"} : pc' \in Places(<<Here.arg, s>>)
  <2>1. At(Here.arg, alive, k)
    BY <1>2, <1>6 DEF Step
  <2>2. PICK s \in {"case", "end"} : pc' \in Places(<<Here.arg, s>>)
    BY <1>6
  <2>3. <<Here.arg, s>> # UserLabel /\ <<Here.arg, s>>[1] = Here.arg
    BY <2>2 DEF UserLabel
  <2>4. pc' # 0 /\ At(Here.arg, E[pc'], k)
    BY <1>2, <2>2, <2>3, AtALabel
  <2>5. alive' = E[pc']
    BY <1>1, <2>1, <2>4 DEF At
  <2> QED BY <1>1, <1>2, <2>4, <2>5, MovesOn
<1> QED BY <1>3, <1>4, <1>5, <1>6 DEF Go, Fetch, GoTo

-----------------------------------------------------------------------------
(* The objects alive are those in scope.                                    *)

LEMMA InitInScope ==
  ASSUME CleanupInit
  PROVE  ScopeInv
<1> DEFINE e == Entry("function", 0, <<>>, TRUE)
           w == [at |-> <<>>, gotos |-> {}, places |-> {}, label |-> NoLabel, objects |-> 0, constructs |-> 0]
<1>1. /\ code = <<>> /\ scopes = <<<<>>>> /\ open = <<e>> /\ label = NoLabel /\ pc = 0 /\ alive = <<>>
      /\ size.objects = 0 /\ size.constructs = 0
  BY DEF CleanupInit
<1>2. e.kind = "function" /\ e.n = 0 /\ e.decls = <<>> /\ e.scan
  BY DEF Entry
<1>3. NestingInv
  BY CleanupInitially
<1>4. /\ open \in Seq(EntryType) /\ Len(open) \in Nat \ {0} /\ Len(scopes) = Below(open, Len(open))
      /\ scopes \in Seq(Seq(Object))
  BY <1>1, <1>3, AtAStatement DEF Fits
<1>5. Len(open) = 1 /\ open[1] = e /\ Len(scopes) = 1 /\ scopes[1] = <<>> /\ open # <<>>
  BY <1>1
<1> HIDE DEF e
<1>6. PICK k : k = w
  <2>1. \E k : k = w
    OBVIOUS
  <2> QED BY <2>1
<1>7. /\ k.at = <<>> /\ k.gotos = {} /\ k.places = {} /\ k.label = NoLabel /\ k.objects = 0 /\ k.constructs = 0
  BY <1>6
<1> HIDE DEF w
<1>8. Known(k)
  BY <1>1, <1>7 DEF Known, Meet
<1>9. Around(open, 1) = <<>> /\ Inside(scopes, 1) = <<>> /\ InScope(open) = <<>>
  <2>1. 1 \in 1 .. Len(open) /\ 1 - 1 = 0 /\ 1 \in 1 .. Len(scopes)
    BY <1>5
  <2>2. Around(open, 1) = Around(open, 1 - 1) \o open[1].decls
    BY <1>4, <2>1, AroundFacts
  <2>3. Around(open, 0) = <<>>
    BY <1>4, AroundFacts
  <2>4. Around(open, Len(open)) = InScope(open)
    BY <1>4, AroundFacts
  <2>5. Inside(scopes, 1) = Inside(scopes, 1 - 1) \o scopes[1]
    BY <1>4, <2>1, InsideFacts
  <2>6. Inside(scopes, 0) = <<>>
    BY <1>4, InsideFacts
  <2>7. <<>> \o <<>> = <<>>
    <3>1. <<>> \in Seq(Object)
      BY EmptySeq
    <3> QED BY <3>1, ConcatEmptySeq
  <2> QED BY <1>2, <1>5, <2>1, <2>2, <2>3, <2>4, <2>5, <2>6, <2>7
<1>10. Below(open, 1) = 1
  BY <1>4, <1>5
<1>11. EntryHolds(open[1].kind, open[1].n, Around(open, 1 - 1), Around(open, 1), Below(open, 1), k)
  <2>1. Around(open, 1) \in Seq(1 .. k.objects)
    BY <1>9, EmptySeq
  <2>2. "function" \notin TargetKind
    BY DEF TargetKind, HeadKind, BreakKind
  <2>3. 0 <= k.constructs
    BY <1>7
  <2> QED BY <1>2, <1>5, <1>7, <2>1, <2>2, <2>3 DEF EntryHolds
<1>12. Stack(open, scopes, k)
  <2>1. \A i \in 1 .. Len(open) : i = 1
    BY <1>5
  <2> QED BY <1>4, <1>5, <1>9, <1>10, <1>11, <2>1 DEF Stack
<1>13. Flow(code, <<>>, InScope(open), k)
  <2>1. <<>> \in Seq(Object)
    BY EmptySeq
  <2> QED BY <1>1, <1>9, <2>1, FlowEmpty
<1>14. Emitting(k)
  BY <1>8, <1>12, <1>13 DEF Emitting
<1> QED BY <1>1, <1>14 DEF ScopeInv

LEMMA StutterInScope ==
  ASSUME ScopeInv, UNCHANGED cleanupVars
  PROVE  ScopeInv'
<1>1. UNCHANGED <<code, scopes, open, label, size, pc, alive>>
  BY DEF cleanupVars
<1>2. CASE pc = 0
  <2>1. PICK k : Emitting(k)
    BY <1>2 DEF ScopeInv
  <2>2. Known(k)'
    BY <1>1, <2>1 DEF Emitting, Known, Places, Meet
  <2>3. (Stack(open, scopes, k) /\ Flow(code, <<>>, InScope(open), k))'
    BY <1>1, <2>1 DEF Emitting
  <2>4. Emitting(k)'
    BY <2>2, <2>3 DEF Emitting
  <2> QED BY <1>1, <1>2, <2>4 DEF ScopeInv
<1>3. CASE pc # 0
  <2>1. PICK k, E : Running(k, E)
    BY <1>3 DEF ScopeInv
  <2>2. alive' = E[pc'] /\ pc' # 0 /\ UNCHANGED code
    BY <1>1, <1>3, <2>1 DEF Running
  <2> QED BY <2>1, <2>2, MovesOn
<1> QED BY <1>2, <1>3

LEMMA ScopeInvariant ==
  ASSUME Regular
  PROVE  CleanupSpec => [](NestingInv /\ ScopeInv)
<1>1. CleanupInit => ScopeInv
  BY InitInScope
<1>2. NestingInv /\ ScopeInv /\ [CleanupNext]_cleanupVars => ScopeInv'
  <2> SUFFICES ASSUME NestingInv, ScopeInv, [CleanupNext]_cleanupVars PROVE ScopeInv'
    OBVIOUS
  <2>1. CASE Declare BY <2>1, DeclareInScope
  <2>2. CASE OpenBlock BY <2>2, OpenBlockInScope
  <2>3. CASE OpenIf BY <2>3, OpenIfInScope
  <2>4. CASE \E kind \in {"while", "do"} : OpenLoop(kind) BY <2>4, OpenLoopInScope
  <2>5. CASE OpenFor BY <2>5, OpenForInScope
  <2>6. CASE OpenRange BY <2>6, OpenRangeInScope
  <2>7. CASE OpenSwitch BY <2>7, OpenSwitchInScope
  <2>8. CASE Case BY <2>8, CaseInScope
  <2>9. CASE CloseBlock BY <2>9, CloseBlockInScope
  <2>10. CASE Else BY <2>10, ElseInScope
  <2>11. CASE CloseStatement BY <2>11, CloseStatementInScope
  <2>12. CASE Break BY <2>12, BreakInScope
  <2>13. CASE Continue BY <2>13, ContinueInScope
  <2>14. CASE Return BY <2>14, ReturnInScope
  <2>15. CASE Goto BY <2>15, GotoInScope
  <2>16. CASE Label BY <2>16, LabelInScope
  <2>17. CASE EndFunction BY <2>17, EndFunctionInScope
  <2>18. CASE Construct BY <2>18, ConstructInScope
  <2>19. CASE Destruct BY <2>19, DestructInScope
  <2>20. CASE Go BY <2>20, GoInScope
  <2>21. CASE UNCHANGED cleanupVars BY <2>21, StutterInScope
  <2> QED BY <2>1, <2>2, <2>3, <2>4, <2>5, <2>6, <2>7, <2>8, <2>9, <2>10, <2>11, <2>12, <2>13,
             <2>14, <2>15, <2>16, <2>17, <2>18, <2>19, <2>20, <2>21 DEF CleanupNext
<1> QED BY <1>1, <1>2, NestingInvariant, PTL DEF CleanupSpec

\* Whatever statements a program is nested of, and whatever way control takes through them,
\* the objects alive at a label are those in scope there, oldest first, and none is left at
\* the return.  Of the shapes on which the visitor is wrong a continue in a switch in a loop
\* may be among the program's: it goes to the wrong label, but destroys what is due there.
THEOREM AliveAsInScope == Shapes \subseteq {"continue"} => (CleanupSpec => []AliveIsInScope)
<1> SUFFICES ASSUME Shapes \subseteq {"continue"} PROVE CleanupSpec => []AliveIsInScope
  OBVIOUS
<1>1. NestingInv /\ ScopeInv => AliveIsInScope
  <2> SUFFICES ASSUME NestingInv, ScopeInv, pc > 0, Here.op \in {"label", "return"}
               PROVE  alive = Here.scope
    BY DEF AliveIsInScope
  <2>1. PICK k, E : Step(Here, alive, E[pc + 1], k)
    BY AtAnInstruction
  <2> QED BY <2>1 DEF Step
<1> QED BY <1>1, ScopeInvariant, PTL DEF Regular

\* Every destructor call of such a program finds its object alive, the youngest that is.
THEOREM YoungestDestroyed == Shapes \subseteq {"continue"} => (CleanupSpec => []DestroyedInReverse)
<1> SUFFICES ASSUME Shapes \subseteq {"continue"} PROVE CleanupSpec => []DestroyedInReverse
  OBVIOUS
<1>1. NestingInv /\ ScopeInv => DestroyedInReverse
  <2> SUFFICES ASSUME NestingInv, ScopeInv, pc > 0, Here.op = "destroy"
               PROVE  alive # <<>> /\ Last(alive) = Here.arg
    BY DEF DestroyedInReverse
  <2>1. PICK k, E : Step(Here, alive, E[pc + 1], k) /\ E[pc + 1] \in Seq(Object)
    BY AtAnInstruction
  <2>2. alive = Append(E[pc + 1], Here.arg)
    BY <2>1 DEF Step
  <2>3. Here.arg \in Object
    <3>1. Here \in InstrType
      BY AtAnInstruction
    <3> QED BY <3>1 DEF InstrType
  <2> QED BY <2>1, <2>2, <2>3, AppendProperties, EmptySeq DEF Last
<1> QED BY <1>1, ScopeInvariant, PTL DEF Regular

================================================================================

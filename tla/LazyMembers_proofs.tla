-------------------------- MODULE LazyMembers_proofs --------------------------
(***************************************************************************)
(* For every program, recursive ones included, and any bound on the depth: *)
(* the registry stays well typed; semantic analysis marks and materializes *)
(* members only in classes that a body it has begun uses; and every member *)
(* a body uses has its own body when the drain stops.  In the programs     *)
(* that are not recursive, no member is opened within its own              *)
(* materialization, and no body is registered twice.                       *)
(***************************************************************************)
EXTENDS LazyMembers, SequenceTheorems, WellFoundedInduction, TLAPS

FrameType == [body : Body, making : BOOLEAN, todo : Seq(Use), calling : BOOLEAN]

\* What is still to be done in a frame are uses of its body, and a call under way is the
\* first of them.
FrameInv(f) ==
  /\ \A j \in 1 .. Len(f.todo) : f.todo[j] \in UsesOf(f.body)
  /\ f.calling => f.todo # <<>>
  /\ f.making => f.body \in Member

\* Only the outermost frame normalizes something that has been registered already.
StackInv(t) ==
  /\ t \in Seq(FrameType)
  /\ \A i \in 1 .. Len(t) :
       /\ FrameInv(t[i])
       /\ ~t[i].making => i = 1

BodiesOf(t) == {t[i].body : i \in 1 .. Len(t)}

RegistryInv ==
  /\ uses \in Programs
  /\ instantiated \subseteq Classes
  /\ lazy_members \subseteq MembersOf(instantiated)
  /\ odr_used \subseteq MembersOf(instantiated)
  /\ Len(stack) <= MaxDepth
  /\ phase \in {"roots", "drain", "done"}
  /\ snapshot \subseteq odr_used
  /\ progressed \in BOOLEAN
  /\ bodies \in [Member -> 0 .. 2]

\* A body that has a frame has been registered, but for the root's.
OpenRegistered == \A b \in BodiesOf(stack) : b = Root \/ bodies[b] > 0

UsedClasses == {Class[u] : u \in Used}

\* Members that are marked, have a body or are about to.
Touched == odr_used \cup {m \in Member : bodies[m] > 0} \cup (BodiesOf(stack) \cap Member)

TouchedAreUsed == \A m \in Touched : Class[m] \in UsedClasses

IInv == RegistryInv /\ StackInv(stack) /\ OpenRegistered /\ TouchedAreUsed

\* A step registers no body but those of N, and forgets none.
Grown(N) ==
  /\ bodies' \in [Member -> 0 .. 2]
  /\ \A b \in Member : /\ bodies[b] > 0 => bodies'[b] > 0
                       /\ bodies'[b] > 0 => bodies[b] > 0 \/ b \in N

-------------------------------------------------------------------------------
\* What the innermost frame is, and the frames below it.
LEMMA TopFacts ==
  ASSUME NEW F, stack \in Seq(F), stack # <<>>
  PROVE  /\ Len(stack) \in Nat \ {0} /\ Top = stack[Len(stack)] /\ Top \in F
         /\ Below \in Seq(F) /\ Len(Below) = Len(stack) - 1
         /\ \A i \in 1 .. Len(stack) - 1 : Below[i] = stack[i]
<1>1. Len(stack) \in Nat \ {0}
  BY EmptySeq
<1>2. Top = stack[Len(stack)] /\ Top \in F
  BY <1>1, ElementOfSeq DEF Top
<1>3. \A i \in 1 .. Len(stack) - 1 : stack[i] \in F
  BY <1>1, ElementOfSeq
<1> DEFINE n == Len(stack) - 1
           u == SubSeq(stack, 1, n)
<1>4. n \in Nat
  BY <1>1
<1>5. /\ u \in Seq(F) /\ Len(u) = IF 1 <= n THEN n - 1 + 1 ELSE 0
      /\ \A i \in 1 .. n - 1 + 1 : u[i] = stack[1 + i - 1]
  BY <1>3, <1>4, SubSeqProperties
<1>6. Below = u
  BY DEF Below
<1> HIDE DEF n, u
<1>7. Len(u) = n
  BY <1>4, <1>5
<1>8. \A i \in 1 .. n : u[i] = stack[i]
  <2> TAKE i \in 1 .. n
  <2>1. i \in 1 .. n - 1 + 1 /\ 1 + i - 1 = i
    BY <1>4
  <2> QED BY <1>5, <2>1
<1> QED BY <1>1, <1>2, <1>5, <1>6, <1>7, <1>8 DEF n

\* A frame on top of others.
LEMMA Pushed ==
  ASSUME NEW t, StackInv(t), NEW f \in FrameType, FrameInv(f),
         ~f.making => t = <<>>
  PROVE  /\ StackInv(Append(t, f)) /\ Append(t, f) # <<>> /\ Len(Append(t, f)) = Len(t) + 1
         /\ BodiesOf(Append(t, f)) = BodiesOf(t) \cup {f.body}
<1> DEFINE u == Append(t, f)
           n == Len(t)
<1>1. t \in Seq(FrameType) /\ n \in Nat
  BY LenProperties DEF StackInv
<1>2. /\ u \in Seq(FrameType) /\ u # <<>> /\ Len(u) = n + 1
      /\ \A i \in 1 .. n : u[i] = t[i]
      /\ u[n + 1] = f
  BY <1>1, AppendProperties
<1>3. t = <<>> => n = 0
  OBVIOUS
<1> HIDE DEF u, n
<1>4. \A i \in 1 .. n + 1 : i \in 1 .. n \/ i = n + 1
  BY <1>1
<1>5. ASSUME NEW i \in 1 .. n + 1
      PROVE  FrameInv(u[i]) /\ (~u[i].making => i = 1)
  <2>1. CASE i \in 1 .. n
    BY <1>2, <2>1 DEF StackInv, n
  <2>2. CASE i = n + 1
    BY <1>1, <1>2, <1>3, <2>2
  <2> QED BY <1>4, <2>1, <2>2
<1>6. BodiesOf(u) = BodiesOf(t) \cup {f.body}
  <2>1. BodiesOf(u) = {u[i].body : i \in 1 .. n + 1} /\ BodiesOf(t) = {t[i].body : i \in 1 .. n}
    BY <1>2 DEF BodiesOf, n
  <2>2. 1 .. n \subseteq 1 .. n + 1 /\ n + 1 \in 1 .. n + 1
    BY <1>1
  <2> QED BY <1>2, <1>4, <2>1, <2>2
<1> QED BY <1>2, <1>5, <1>6 DEF StackInv, u, n

\* The frames below the innermost one.
LEMMA BelowFacts ==
  ASSUME StackInv(stack), stack # <<>>
  PROVE  /\ Top \in FrameType /\ FrameInv(Top) /\ StackInv(Below)
         /\ Len(stack) \in Nat \ {0} /\ Len(Below) = Len(stack) - 1
         /\ BodiesOf(stack) = BodiesOf(Below) \cup {Top.body}
         /\ ~Top.making => Below = <<>>
<1> DEFINE n == Len(stack)
<1>1. /\ n \in Nat \ {0} /\ Top = stack[n] /\ Top \in FrameType
      /\ Below \in Seq(FrameType) /\ Len(Below) = n - 1
      /\ \A i \in 1 .. n - 1 : Below[i] = stack[i]
  BY TopFacts DEF StackInv
<1>2. n \in 1 .. n /\ \A i \in 1 .. n : i \in 1 .. n - 1 \/ i = n
  BY <1>1
<1>3. \A i \in 1 .. n - 1 : i \in 1 .. n
  BY <1>1
<1>4. FrameInv(Top) /\ (~Top.making => n = 1)
  BY <1>1, <1>2 DEF StackInv
<1>5. StackInv(Below)
  BY <1>1, <1>3 DEF StackInv
<1>6. n = 1 => Below = <<>>
  BY <1>1, EmptySeq
<1>7. BodiesOf(stack) = BodiesOf(Below) \cup {Top.body}
  <2>1. BodiesOf(stack) = {stack[i].body : i \in 1 .. n} /\ BodiesOf(Below) = {Below[i].body : i \in 1 .. n - 1}
    BY <1>1 DEF BodiesOf
  <2> HIDE DEF n
  <2> QED BY <1>1, <1>2, <1>3, <2>1
<1> QED BY <1>1, <1>4, <1>5, <1>6, <1>7

\* The use a frame is at.
LEMMA TargetFacts ==
  ASSUME IInv, stack # <<>>, Top.todo # <<>>
  PROVE  Target \in Member /\ Class[Target] \in UsedClasses
<1>1. Top \in FrameType /\ FrameInv(Top) /\ BodiesOf(stack) = BodiesOf(Below) \cup {Top.body}
  BY BelowFacts DEF IInv
<1>2. Top.todo \in Seq(Use) /\ Len(Top.todo) \in Nat \ {0} /\ Head(Top.todo) = Top.todo[1]
  BY <1>1, EmptySeq DEF FrameType
<1>3. Head(Top.todo) \in UsesOf(Top.body) /\ Head(Top.todo) \in Use
  BY <1>1, <1>2, ElementOfSeq DEF FrameInv
<1>4. Target \in Member
  BY <1>3 DEF Target, Use
<1>5. Top.body \in Begun
  <2>1. stack \in Seq(FrameType) /\ DOMAIN stack = 1 .. Len(stack)
    BY LenProperties DEF IInv, StackInv
  <2> QED BY <1>1, <2>1 DEF Begun, BodiesOf
<1>6. Target \in Used
  BY <1>3, <1>5 DEF Used, Target
<1> QED BY <1>4, <1>6 DEF UsedClasses

-------------------------------------------------------------------------------
\* The frame of a body whose normalization begins.
LEMMA BodyFrame ==
  ASSUME uses \in Programs, NEW b \in Body, NEW making \in BOOLEAN, making => b \in Member
  PROVE  LET f == Frame(b, making)
         IN  f \in FrameType /\ FrameInv(f) /\ f.body = b /\ f.making = making
<1>1. uses[b] \in Seq(Use)
  BY ProgramAssumption
<1>2. DOMAIN uses[b] = 1 .. Len(uses[b])
  BY <1>1, LenProperties
<1> QED BY <1>1, <1>2 DEF Frame, FrameType, FrameInv, UsesOf

\* Going on with the next use, or into the call, changes nothing else of the frame.
LEMMA UseFrames ==
  ASSUME IInv, stack # <<>>, Top.todo # <<>>, NEW t \in {UseDone, UseCalling}
  PROVE  /\ StackInv(t) /\ t # <<>> /\ Len(t) = Len(stack) /\ BodiesOf(t) = BodiesOf(stack)
<1> DEFINE done == [Top EXCEPT !.todo = Tail(@), !.calling = FALSE]
           calling == [Top EXCEPT !.calling = TRUE]
<1>1. /\ Top \in FrameType /\ FrameInv(Top) /\ StackInv(Below)
      /\ Len(stack) \in Nat \ {0} /\ Len(Below) = Len(stack) - 1
      /\ BodiesOf(stack) = BodiesOf(Below) \cup {Top.body}
      /\ ~Top.making => Below = <<>>
  BY BelowFacts DEF IInv
<1>2. /\ Top.todo \in Seq(Use) /\ Tail(Top.todo) \in Seq(Use)
      /\ Len(Top.todo) \in Nat \ {0} /\ Len(Tail(Top.todo)) = Len(Top.todo) - 1
      /\ \A i \in 1 .. Len(Tail(Top.todo)) : Tail(Top.todo)[i] = Top.todo[i + 1]
  BY <1>1, HeadTailProperties, EmptySeq DEF FrameType
<1>3. done \in FrameType /\ done.body = Top.body /\ done.making = Top.making /\ FrameInv(done)
  <2>1. done \in FrameType /\ done.body = Top.body /\ done.making = Top.making
        /\ done.todo = Tail(Top.todo) /\ ~done.calling
    BY <1>1, <1>2 DEF FrameType
  <2> HIDE DEF done
  <2>2. ASSUME NEW j \in 1 .. Len(done.todo) PROVE done.todo[j] \in UsesOf(done.body)
    <3>1. j + 1 \in 1 .. Len(Top.todo)
      BY <1>2, <2>1
    <3> QED BY <1>1, <1>2, <2>1, <3>1 DEF FrameInv
  <2> QED BY <1>1, <2>1, <2>2 DEF FrameInv
<1>4. calling \in FrameType /\ calling.body = Top.body /\ calling.making = Top.making /\ FrameInv(calling)
  BY <1>1 DEF FrameType, FrameInv
<1> HIDE DEF done, calling
<1>5. ASSUME NEW f \in {done, calling}, t = Append(Below, f)
      PROVE  StackInv(t) /\ t # <<>> /\ Len(t) = Len(stack) /\ BodiesOf(t) = BodiesOf(stack)
  <2>1. f \in FrameType /\ FrameInv(f) /\ f.body = Top.body /\ f.making = Top.making
    BY <1>3, <1>4
  <2>2. /\ StackInv(Append(Below, f)) /\ Append(Below, f) # <<>>
        /\ Len(Append(Below, f)) = Len(Below) + 1
        /\ BodiesOf(Append(Below, f)) = BodiesOf(Below) \cup {f.body}
    BY <1>1, <2>1, Pushed
  <2> QED BY <1>1, <1>5, <2>1, <2>2
<1> QED BY <1>5 DEF UseDone, UseCalling, done, calling

\* Materializing a member opens its frame, registers its body and the classes it names.
LEMMA Materialized ==
  ASSUME IInv, NEW t, StackInv(t), NEW m \in Member, Materialize(t, m)
  PROVE  /\ StackInv(stack') /\ Len(stack') <= MaxDepth
         /\ BodiesOf(stack') = BodiesOf(t) \cup {m}
         /\ instantiated \subseteq instantiated' /\ instantiated' \subseteq Classes
         /\ lazy_members' \subseteq MembersOf(instantiated')
         /\ Grown({m}) /\ bodies'[m] > 0
<1>1. /\ Len(t) < MaxDepth /\ stack' = Append(t, Frame(m, TRUE))
      /\ lazy_members' = lazy_members \cup Fresh(m)
      /\ instantiated' = instantiated \cup ClassesNamed(m)
  BY DEF Materialize
<1>2. uses \in Programs /\ m \in Body
  BY DEF IInv, RegistryInv, Body
<1>3. /\ Frame(m, TRUE) \in FrameType /\ FrameInv(Frame(m, TRUE))
      /\ Frame(m, TRUE).body = m /\ Frame(m, TRUE).making = TRUE
  BY <1>2, BodyFrame
<1>4. /\ StackInv(stack') /\ Len(stack') = Len(t) + 1 /\ BodiesOf(stack') = BodiesOf(t) \cup {m}
  BY <1>1, <1>3, Pushed
<1>5. Len(t) \in Nat /\ MaxDepth \in Nat
  BY DepthAssumption, LenProperties DEF StackInv
<1>6. ClassesNamed(m) \subseteq Classes
  <2>1. uses[m] \in Seq(Use)
    BY <1>2, ProgramAssumption
  <2>2. ASSUME NEW u \in UsesOf(m) PROVE u.target \in Member
    <3>1. PICK i \in 1 .. Len(uses[m]) : u = uses[m][i]
      BY <2>1, LenProperties DEF UsesOf
    <3>2. u \in Use
      BY <2>1, <3>1, ElementOfSeq
    <3> QED BY <3>2 DEF Use
  <2> QED BY <2>2 DEF ClassesNamed, Classes
<1>7. Fresh(m) \subseteq MembersOf(instantiated') /\ lazy_members \subseteq MembersOf(instantiated')
  BY <1>1 DEF Fresh, MembersOf, IInv, RegistryInv
<1>8. Len(stack') <= MaxDepth
  BY <1>1, <1>4, <1>5
<1>9. instantiated' \subseteq Classes
  BY <1>1, <1>6 DEF IInv, RegistryInv
<1>10. Grown({m}) /\ bodies'[m] > 0
  <2>1. bodies \in [Member -> 0 .. 2] /\ bodies' = [bodies EXCEPT ![m] = IF @ = 0 THEN 1 ELSE 2]
    BY DEF IInv, RegistryInv, Materialize, RegisterBody
  <2>2. \A b \in Member : bodies'[b] = IF b = m THEN (IF bodies[b] = 0 THEN 1 ELSE 2) ELSE bodies[b]
    BY <2>1
  <2>3. bodies' \in [Member -> 0 .. 2]
    BY <2>1
  <2> QED BY <2>1, <2>2, <2>3 DEF Grown
<1> QED BY <1>1, <1>4, <1>7, <1>8, <1>9, <1>10

\* A step that registers no body.
LEMMA NoneGrown ==
  ASSUME IInv, bodies' = bodies, NEW N
  PROVE  Grown(N)
BY DEF IInv, RegistryInv, Grown

\* A body begun stays begun, so what is used stays used.
LEMMA UsedGrows ==
  ASSUME uses' = uses, Begun \subseteq Begun'
  PROVE  UsedClasses \subseteq UsedClasses'
BY DEF UsedClasses, Used, UsesOf

\* The bodies of a stack, over its domain and over its positions.
LEMMA BegunBodies ==
  ASSUME NEW t \in Seq(FrameType)
  PROVE  {t[i].body : i \in DOMAIN t} = BodiesOf(t)
BY LenProperties DEF BodiesOf

\* A step that marks and begins to materialize only members N of used classes.
LEMMA Kept ==
  ASSUME IInv, NEW N,
         uses' = uses, Grown(N),
         StackInv(stack'), Len(stack') <= MaxDepth,
         BodiesOf(stack) \subseteq BodiesOf(stack'), BodiesOf(stack') \subseteq BodiesOf(stack) \cup N,
         \A b \in BodiesOf(stack') : b \in BodiesOf(stack) \/ bodies'[b] > 0,
         instantiated \subseteq instantiated', instantiated' \subseteq Classes,
         lazy_members' \subseteq MembersOf(instantiated'),
         odr_used \subseteq odr_used', odr_used' \subseteq odr_used \cup N,
         odr_used' \subseteq MembersOf(instantiated'),
         phase' \in {"roots", "drain", "done"}, progressed' \in BOOLEAN,
         snapshot' \subseteq snapshot \cup odr_used',
         \A m \in N : Class[m] \in UsedClasses
  PROVE  IInv'
<1>1. snapshot' \subseteq odr_used'
  BY DEF IInv, RegistryInv
<1>2. RegistryInv'
  BY <1>1 DEF IInv, RegistryInv, Grown
<1>3. StackInv(stack)'
  BY DEF StackInv, FrameInv, UsesOf
<1>4. Begun \subseteq Begun'
  <2>1. stack \in Seq(FrameType) /\ stack' \in Seq(FrameType)
    BY DEF IInv, StackInv
  <2>2. /\ {stack[i].body : i \in DOMAIN stack} = BodiesOf(stack)
        /\ {stack'[i].body : i \in DOMAIN stack'} = BodiesOf(stack')
    BY <2>1, BegunBodies
  <2> QED BY <2>2 DEF Begun, Grown
<1>5. UsedClasses \subseteq UsedClasses'
  BY <1>4, UsedGrows
<1>6. BodiesOf(stack)' = BodiesOf(stack')
  BY DEF BodiesOf
<1>7. Touched' \subseteq Touched \cup N
  BY <1>6 DEF Touched, Grown
<1>8. TouchedAreUsed'
  BY <1>5, <1>7 DEF IInv, TouchedAreUsed
<1>9. OpenRegistered'
  <2> SUFFICES ASSUME NEW b \in BodiesOf(stack') PROVE b = Root \/ bodies'[b] > 0
    BY <1>6 DEF OpenRegistered
  <2>1. b \in Body
    <3>1. PICK i \in 1 .. Len(stack') : b = stack'[i].body
      BY DEF BodiesOf
    <3>2. stack'[i] \in FrameType
      BY <3>1, ElementOfSeq DEF StackInv
    <3> QED BY <3>1, <3>2 DEF FrameType
  <2>2. b \in BodiesOf(stack) => b = Root \/ bodies[b] > 0
    BY DEF IInv, OpenRegistered
  <2> QED BY <2>1, <2>2 DEF Body, Grown
<1> QED BY <1>2, <1>3, <1>8, <1>9 DEF IInv

-------------------------------------------------------------------------------
\* Whatever a lookup falls back to is alive and in the class of the key, or exactly the
\* member it names.
LEMMA ResolvedFacts ==
  ASSUME NEW class, NEW m
  PROVE  /\ Resolved(ExactKey(class, m)) \subseteq lazy_members
         /\ \A t \in Resolved(ExactKey(class, m)) : t = m \/ Class[t] = class
         /\ UniqueLive(OppositeConst(ExactKey(class, m))) \subseteq lazy_members
         /\ \A t \in UniqueLive(OppositeConst(ExactKey(class, m))) : Class[t] = class
         /\ UniqueLive(NameKey(m)) \subseteq lazy_members
         /\ \A t \in UniqueLive(NameKey(m)) : Class[t] = Class[m]
<1> DEFINE key == ExactKey(class, m)
<1>1. key.class = class /\ key.exact = m
  BY DEF ExactKey
<1>2. OppositeConst(key).class = class
  BY DEF ExactKey, OppositeConst
<1>3. NameKey(m).class = Class[m]
  BY DEF ExactKey, NameKey
<1>4. ASSUME NEW k PROVE \A t \in UniqueLive(k) : t \in lazy_members /\ Class[t] = k.class
  BY DEF UniqueLive, LiveBucket
<1> HIDE DEF key
<1>5. Resolved(key) \subseteq lazy_members /\ \A t \in Resolved(key) : t = m \/ Class[t] = class
  BY <1>1, <1>4 DEF Resolved
<1> QED BY <1>2, <1>3, <1>4, <1>5 DEF key

\* The class of a member whose body is being normalized is in use, and so are the marks
\* its calls leave.
LEMMA ContextMarkFacts ==
  ASSUME IInv, stack # <<>>, Top.todo # <<>>
  PROVE  ContextMark \subseteq lazy_members /\ \A t \in ContextMark : Class[t] \in UsedClasses
<1>1. CASE Top.body = Root
  BY <1>1 DEF ContextMark
<1>2. CASE Top.body # Root
  <2>1. Top \in FrameType /\ BodiesOf(stack) = BodiesOf(Below) \cup {Top.body}
    BY BelowFacts DEF IInv
  <2>2. Top.body \in Touched
    BY <1>2, <2>1 DEF FrameType, Body, Touched
  <2>3. Class[Top.body] \in UsedClasses
    BY <2>2 DEF IInv, TouchedAreUsed
  <2>4. ContextMark = Resolved(ExactKey(Class[Top.body], Target))
    BY <1>2 DEF ContextMark
  <2>5. Class[Target] \in UsedClasses
    BY TargetFacts
  <2>6. /\ ContextMark \subseteq lazy_members
        /\ \A t \in ContextMark : t = Target \/ Class[t] = Class[Top.body]
    BY <2>4, ResolvedFacts
  <2> QED BY <2>3, <2>5, <2>6
<1> QED BY <1>1, <1>2

\* The marks of the step that returns from a receiver call.
LEMMA MatchingFacts ==
  ASSUME NEW class, NEW m
  PROVE  LET N == MatchingConstness(ExactKey(class, m))
         IN  N \subseteq lazy_members /\ \A t \in N : t = m \/ Class[t] = class
BY ResolvedFacts DEF MatchingConstness

\* The steps that only mark.
LEMMA SiblingCallStep == ASSUME IInv, SiblingCall PROVE IInv'
<1>1. /\ stack # <<>> /\ Top.todo # <<>> /\ odr_used' = odr_used \cup ContextMark /\ stack' = UseDone
      /\ uses' = uses /\ instantiated' = instantiated /\ lazy_members' = lazy_members
      /\ phase' = phase /\ snapshot' = snapshot /\ progressed' = progressed /\ bodies' = bodies
  BY DEF SiblingCall, NextUse, MarkOdrUsed, drain
<1>2. StackInv(stack') /\ Len(stack') = Len(stack) /\ BodiesOf(stack') = BodiesOf(stack)
  BY <1>1, UseFrames
<1>3. ContextMark \subseteq lazy_members /\ \A t \in ContextMark : Class[t] \in UsedClasses
  BY <1>1, ContextMarkFacts
<1>4. RegistryInv
  BY DEF IInv
<1>5. odr_used' \subseteq MembersOf(instantiated')
  BY <1>1, <1>3, <1>4 DEF RegistryInv
<1>6. Grown(ContextMark)
  BY <1>1, NoneGrown
<1> QED BY <1>1, <1>2, <1>3, <1>4, <1>5, <1>6, Kept DEF RegistryInv

LEMMA ReceiverCallStep == ASSUME IInv, ReceiverCall PROVE IInv'
<1>1. /\ stack # <<>> /\ Top.todo # <<>> /\ odr_used' = odr_used \cup ContextMark /\ stack' = UseCalling
      /\ uses' = uses /\ instantiated' = instantiated /\ lazy_members' = lazy_members
      /\ phase' = phase /\ snapshot' = snapshot /\ progressed' = progressed /\ bodies' = bodies
  BY DEF ReceiverCall, NextUse, MarkOdrUsed, drain
<1>2. StackInv(stack') /\ Len(stack') = Len(stack) /\ BodiesOf(stack') = BodiesOf(stack)
  BY <1>1, UseFrames
<1>3. ContextMark \subseteq lazy_members /\ \A t \in ContextMark : Class[t] \in UsedClasses
  BY <1>1, ContextMarkFacts
<1>4. RegistryInv
  BY DEF IInv
<1>5. odr_used' \subseteq MembersOf(instantiated')
  BY <1>1, <1>3, <1>4 DEF RegistryInv
<1>6. Grown(ContextMark)
  BY <1>1, NoneGrown
<1> QED BY <1>1, <1>2, <1>3, <1>4, <1>5, <1>6, Kept DEF RegistryInv

LEMMA MarkReceiverStep == ASSUME IInv, MarkReceiverMember PROVE IInv'
<1> DEFINE N == MatchingConstness(ExactKey(Class[Target], Target))
<1>1. /\ stack # <<>> /\ Top.calling /\ odr_used' = odr_used \cup N /\ stack' = UseDone
      /\ uses' = uses /\ instantiated' = instantiated /\ lazy_members' = lazy_members
      /\ phase' = phase /\ snapshot' = snapshot /\ progressed' = progressed /\ bodies' = bodies
  BY DEF MarkReceiverMember, MarkOdrUsed, drain
<1>2. Top.todo # <<>>
  BY <1>1, BelowFacts DEF IInv, FrameInv
<1>3. StackInv(stack') /\ Len(stack') = Len(stack) /\ BodiesOf(stack') = BodiesOf(stack)
  BY <1>1, <1>2, UseFrames
<1>4. N \subseteq lazy_members /\ \A t \in N : t = Target \/ Class[t] = Class[Target]
  BY MatchingFacts
<1> HIDE DEF N
<1>5. \A t \in N : Class[t] \in UsedClasses
  BY <1>1, <1>2, <1>4, TargetFacts
<1>6. RegistryInv
  BY DEF IInv
<1>7. odr_used' \subseteq MembersOf(instantiated')
  BY <1>1, <1>4, <1>6 DEF RegistryInv
<1>8. Grown(N)
  BY <1>1, NoneGrown
<1> QED BY <1>1, <1>3, <1>5, <1>6, <1>7, <1>8, Kept DEF RegistryInv

\* A call that materializes its target; a conversion, below, also marks the class.
LEMMA LazyReceiverCallStep == ASSUME IInv, LazyReceiverCall PROVE IInv'
<1>1. /\ stack # <<>> /\ Top.todo # <<>> /\ Target \in lazy_members /\ odr_used' = odr_used \cup {Target}
      /\ Materialize(UseCalling, Target)
      /\ uses' = uses /\ phase' = phase /\ snapshot' = snapshot /\ progressed' = progressed
  BY DEF LazyReceiverCall, NextUse, MarkOdrUsed, drain
<1>2. StackInv(UseCalling) /\ BodiesOf(UseCalling) = BodiesOf(stack)
  BY <1>1, UseFrames
<1>3. Target \in Member /\ Class[Target] \in UsedClasses
  BY <1>1, TargetFacts
<1>4. /\ StackInv(stack') /\ Len(stack') <= MaxDepth
      /\ BodiesOf(stack') = BodiesOf(UseCalling) \cup {Target}
      /\ instantiated \subseteq instantiated' /\ instantiated' \subseteq Classes
      /\ lazy_members' \subseteq MembersOf(instantiated')
      /\ Grown({Target}) /\ bodies'[Target] > 0
  BY <1>1, <1>2, <1>3, Materialized
<1>5. RegistryInv
  BY DEF IInv
<1>6. odr_used' \subseteq MembersOf(instantiated')
  BY <1>1, <1>4, <1>5 DEF RegistryInv, MembersOf
<1> DEFINE N == {Target}
<1>7. /\ BodiesOf(stack') \subseteq BodiesOf(stack) \cup N /\ odr_used' \subseteq odr_used \cup N
      /\ \A b \in BodiesOf(stack') : b \in BodiesOf(stack) \/ bodies'[b] > 0
      /\ Grown(N)
      /\ \A t \in N : Class[t] \in UsedClasses
  BY <1>1, <1>2, <1>3, <1>4
<1> HIDE DEF N
<1> QED BY <1>1, <1>2, <1>4, <1>5, <1>6, <1>7, Kept DEF RegistryInv

LEMMA ConvertStep == ASSUME IInv, Convert PROVE IInv'
<1> DEFINE N == ConversionMarks \cup {Target}
<1>1. /\ stack # <<>> /\ Top.todo # <<>> /\ odr_used' = odr_used \cup ConversionMarks
      /\ uses' = uses /\ phase' = phase /\ snapshot' = snapshot /\ progressed' = progressed
  BY DEF Convert, NextUse, MarkOdrUsed, drain
<1>2. StackInv(UseDone) /\ Len(UseDone) = Len(stack) /\ BodiesOf(UseDone) = BodiesOf(stack)
  BY <1>1, UseFrames
<1>3. Target \in Member /\ Class[Target] \in UsedClasses
  BY <1>1, TargetFacts
<1>4. ConversionMarks \subseteq lazy_members /\ \A t \in N : Class[t] \in UsedClasses
  BY <1>3, ResolvedFacts DEF ConversionMarks, MembersOf
<1>5. RegistryInv
  BY DEF IInv
<1>6. /\ StackInv(stack') /\ Len(stack') <= MaxDepth
      /\ BodiesOf(stack) \subseteq BodiesOf(stack') /\ BodiesOf(stack') \subseteq BodiesOf(stack) \cup N
      /\ instantiated \subseteq instantiated' /\ instantiated' \subseteq Classes
      /\ lazy_members' \subseteq MembersOf(instantiated')
      /\ \A b \in BodiesOf(stack') : b \in BodiesOf(stack) \/ bodies'[b] > 0
      /\ Grown(N)
  <2>1. CASE Target \in lazy_members
    <3>1. Materialize(UseDone, Target)
      BY <2>1 DEF Convert
    <3>2. /\ StackInv(stack') /\ Len(stack') <= MaxDepth
          /\ BodiesOf(stack') = BodiesOf(UseDone) \cup {Target}
          /\ instantiated \subseteq instantiated' /\ instantiated' \subseteq Classes
          /\ lazy_members' \subseteq MembersOf(instantiated')
          /\ Grown({Target}) /\ bodies'[Target] > 0
      BY <1>2, <1>3, <3>1, Materialized
    <3>3. Grown(N)
      BY <3>2 DEF Grown
    <3> QED BY <1>2, <3>2, <3>3
  <2>2. CASE Target \notin lazy_members
    <3>1. stack' = UseDone /\ instantiated' = instantiated /\ lazy_members' = lazy_members
          /\ bodies' = bodies
      BY <2>2 DEF Convert
    <3>2. Grown(N)
      BY <3>1, NoneGrown
    <3> QED BY <1>2, <1>5, <3>1, <3>2 DEF RegistryInv
  <2> QED BY <2>1, <2>2
<1>7. odr_used' \subseteq MembersOf(instantiated') /\ odr_used' \subseteq odr_used \cup N
  BY <1>1, <1>4, <1>5, <1>6 DEF RegistryInv, MembersOf
<1> HIDE DEF N
<1> QED BY <1>1, <1>4, <1>5, <1>6, <1>7, Kept DEF RegistryInv

\* An entry of the snapshot was marked, and a fallback stays in its class.
LEMMA DrainStep == ASSUME IInv, NEW m \in Member, DrainEntry(m) PROVE IInv'
<1> DEFINE key == ExactKey(Class[m], m)
<1>1. /\ phase = "drain" /\ stack = <<>> /\ m \in snapshot /\ snapshot' = snapshot \ {m}
      /\ uses' = uses /\ odr_used' = odr_used /\ phase' = phase
  BY DEF DrainEntry, Draining
<1>2. RegistryInv /\ StackInv(stack)
  BY DEF IInv
<1>3. Class[m] \in UsedClasses
  BY <1>1, <1>2 DEF IInv, RegistryInv, TouchedAreUsed, Touched
<1>4. CASE NeedsInstantiation(key) /\ Resolved(key) # {}
  <2>1. PICK t \in Resolved(key) : progressed' = TRUE /\ Materialize(<<>>, t)
    BY <1>4 DEF DrainEntry
  <2>2. t \in lazy_members /\ Class[t] \in UsedClasses
    BY <1>3, ResolvedFacts
  <2>3. t \in Member
    BY <1>2, <2>2 DEF RegistryInv, MembersOf
  <2>4. /\ StackInv(stack') /\ Len(stack') <= MaxDepth
        /\ BodiesOf(stack') = BodiesOf(stack) \cup {t}
        /\ instantiated \subseteq instantiated' /\ instantiated' \subseteq Classes
        /\ lazy_members' \subseteq MembersOf(instantiated')
        /\ Grown({t}) /\ bodies'[t] > 0
    BY <1>1, <1>2, <2>1, <2>3, Materialized
  <2>5. odr_used' \subseteq MembersOf(instantiated')
    BY <1>1, <1>2, <2>4 DEF RegistryInv, MembersOf
  <2> DEFINE N == {t}
  <2>6. /\ BodiesOf(stack') \subseteq BodiesOf(stack) \cup N /\ Grown(N)
        /\ \A b \in BodiesOf(stack') : b \in BodiesOf(stack) \/ bodies'[b] > 0
        /\ \A u \in N : Class[u] \in UsedClasses
    BY <2>2, <2>4
  <2> HIDE DEF N
  <2> QED BY <1>1, <1>2, <2>1, <2>4, <2>5, <2>6, Kept DEF RegistryInv
<1>5. CASE ~(NeedsInstantiation(key) /\ Resolved(key) # {})
  <2>1. /\ progressed' = progressed /\ stack' = stack /\ instantiated' = instantiated
        /\ lazy_members' = lazy_members /\ bodies' = bodies
    BY <1>5 DEF DrainEntry
  <2> DEFINE N == {}
  <2>2. Grown(N) /\ \A u \in N : Class[u] \in UsedClasses
    BY <2>1, NoneGrown
  <2> QED BY <1>1, <1>2, <2>1, <2>2, Kept DEF RegistryInv
<1> QED BY <1>4, <1>5

\* Snapshots and the end of the drain leave members and frames alone.
LEMMA DrainControlStep == ASSUME IInv, TakeSnapshot \/ StopDraining PROVE IInv'
<1>1. /\ uses' = uses /\ bodies' = bodies /\ stack' = stack /\ instantiated' = instantiated
      /\ lazy_members' = lazy_members /\ odr_used' = odr_used
      /\ phase' \in {"roots", "drain", "done"} /\ progressed' \in BOOLEAN
      /\ snapshot' \subseteq snapshot \cup odr_used'
  BY DEF TakeSnapshot, StopDraining, registry, OdrUsedLazyEntries, IInv, RegistryInv
<1>2. RegistryInv /\ StackInv(stack)
  BY DEF IInv
<1> DEFINE N == {}
<1>3. Grown(N) /\ \A u \in N : Class[u] \in UsedClasses
  BY <1>1, NoneGrown
<1> QED BY <1>1, <1>2, <1>3, Kept DEF RegistryInv

\* A member whose body is normalized is done with, and the drain normalizes it once more.
LEMMA FinishMaterializationStep == ASSUME IInv, FinishMaterialization PROVE IInv'
<1> DEFINE m == Top.body
<1>1. /\ stack # <<>> /\ Top.making
      /\ lazy_members' = lazy_members \ {m}
      /\ stack' = IF Below = <<>> THEN <<Frame(m, FALSE)>> ELSE Below
      /\ uses' = uses /\ instantiated' = instantiated /\ odr_used' = odr_used
      /\ phase' = phase /\ snapshot' = snapshot /\ progressed' = progressed /\ bodies' = bodies
  BY DEF FinishMaterialization, BodyDone, MarkInstantiated, drain
<1>2. RegistryInv /\ StackInv(stack)
  BY DEF IInv
<1>3. /\ Top \in FrameType /\ FrameInv(Top) /\ StackInv(Below)
      /\ Len(stack) \in Nat \ {0} /\ Len(Below) = Len(stack) - 1
      /\ BodiesOf(stack) = BodiesOf(Below) \cup {m}
  BY <1>1, <1>2, BelowFacts
<1>4. m \in Member /\ m \in Body /\ bodies[m] > 0
  <2>1. m \in Member /\ m \in BodiesOf(stack)
    BY <1>1, <1>3 DEF FrameInv
  <2> QED BY <2>1, MemberAssumption DEF Body, IInv, OpenRegistered
<1> HIDE DEF m
<1>5. /\ StackInv(stack') /\ Len(stack') <= MaxDepth
      /\ BodiesOf(stack') \subseteq BodiesOf(stack)
      /\ BodiesOf(stack) \subseteq BodiesOf(stack') \cup {m}
  <2>1. CASE Below = <<>>
    <3> DEFINE f == Frame(m, FALSE)
    <3>1. f \in FrameType /\ FrameInv(f) /\ f.body = m
      BY <1>2, <1>4, BodyFrame DEF RegistryInv
    <3> HIDE DEF f
    <3>2. stack' = <<f>>
      BY <1>1, <2>1 DEF f
    <3>3. stack' \in Seq(FrameType) /\ Len(stack') = 1 /\ stack'[1] = f
      BY <3>1, <3>2
    <3>4. \A i \in 1 .. Len(stack') : i = 1
      BY <3>3
    <3>5. BodiesOf(stack') = {m} /\ StackInv(stack')
      BY <3>1, <3>3, <3>4 DEF BodiesOf, StackInv
    <3>6. BodiesOf(Below) = {}
      BY <2>1 DEF BodiesOf
    <3>7. 1 <= MaxDepth
      BY DepthAssumption
    <3> QED BY <1>3, <3>3, <3>5, <3>6, <3>7
  <2>2. CASE Below # <<>>
    <3>1. stack' = Below
      BY <1>1, <2>2
    <3>2. Len(stack') <= MaxDepth
      BY <1>2, <1>3, <3>1, DepthAssumption DEF RegistryInv
    <3> QED BY <1>3, <3>1, <3>2
  <2> QED BY <2>1, <2>2
<1>6. StackInv(stack)'
  <2>1. uses' = uses /\ StackInv(stack')
    BY <1>1, <1>5
  <2> QED BY <2>1 DEF StackInv, FrameInv, UsesOf
<1>7. RegistryInv'
  BY <1>1, <1>2, <1>5 DEF RegistryInv
<1>8. Begun \subseteq Begun'
  <2>1. stack \in Seq(FrameType) /\ stack' \in Seq(FrameType)
    BY <1>2, <1>5 DEF StackInv
  <2>2. /\ {stack[i].body : i \in DOMAIN stack} = BodiesOf(stack)
        /\ {stack'[i].body : i \in DOMAIN stack'} = BodiesOf(stack')
    BY <2>1, BegunBodies
  <2> QED BY <1>1, <1>4, <1>5, <2>2 DEF Begun
<1>9. UsedClasses \subseteq UsedClasses'
  BY <1>1, <1>8, UsedGrows
<1>10. BodiesOf(stack)' = BodiesOf(stack')
  BY DEF BodiesOf
<1>11. Touched' \subseteq Touched
  BY <1>1, <1>5, <1>10 DEF Touched
<1>12. TouchedAreUsed' /\ OpenRegistered'
  BY <1>1, <1>5, <1>9, <1>10, <1>11 DEF IInv, TouchedAreUsed, OpenRegistered
<1> QED BY <1>6, <1>7, <1>12 DEF IInv

\* The outermost frame returns: its body is the root, or has been registered.
LEMMA FinishNormalizationStep == ASSUME IInv, FinishNormalization PROVE IInv'
<1>1. /\ stack # <<>> /\ ~Top.making /\ stack' = <<>> /\ phase' = "drain"
      /\ uses' = uses /\ instantiated' = instantiated /\ lazy_members' = lazy_members
      /\ odr_used' = odr_used /\ snapshot' = snapshot /\ progressed' = progressed /\ bodies' = bodies
  BY DEF FinishNormalization, BodyDone, registry
<1>2. RegistryInv /\ StackInv(stack)
  BY DEF IInv
<1>3. /\ BodiesOf(stack) = BodiesOf(Below) \cup {Top.body} /\ Below = <<>>
      /\ Top \in FrameType /\ (Top.body = Root \/ bodies[Top.body] > 0)
  BY <1>1, <1>2, BelowFacts DEF IInv, OpenRegistered
<1>4. stack' \in Seq(FrameType) /\ Len(stack') = 0 /\ BodiesOf(stack') = {} /\ BodiesOf(Below) = {}
  BY <1>1, <1>3 DEF BodiesOf
<1>5. StackInv(stack)'
  BY <1>4 DEF StackInv
<1>6. RegistryInv'
  BY <1>1, <1>2, <1>4, DepthAssumption DEF RegistryInv
<1>7. Begun \subseteq Begun'
  <2>1. stack \in Seq(FrameType)
    BY <1>2 DEF StackInv
  <2>2. /\ {stack[i].body : i \in DOMAIN stack} = BodiesOf(stack)
        /\ {stack'[i].body : i \in DOMAIN stack'} = BodiesOf(stack')
    BY <1>4, <2>1, BegunBodies
  <2>3. Top.body = Root \/ (Top.body \in Member /\ bodies'[Top.body] > 0)
    BY <1>1, <1>3 DEF FrameType, Body
  <2> QED BY <1>1, <1>3, <1>4, <2>2, <2>3 DEF Begun
<1>8. UsedClasses \subseteq UsedClasses'
  BY <1>1, <1>7, UsedGrows
<1>9. BodiesOf(stack)' = BodiesOf(stack')
  BY DEF BodiesOf
<1>10. Touched' \subseteq Touched
  BY <1>1, <1>4, <1>9 DEF Touched
<1>11. TouchedAreUsed' /\ OpenRegistered'
  BY <1>4, <1>8, <1>9, <1>10 DEF IInv, TouchedAreUsed, OpenRegistered
<1> QED BY <1>5, <1>6, <1>11 DEF IInv

LEMMA StutterStep == ASSUME IInv, UNCHANGED vars PROVE IInv'
<1>1. /\ uses' = uses /\ bodies' = bodies /\ stack' = stack /\ instantiated' = instantiated
      /\ lazy_members' = lazy_members /\ odr_used' = odr_used
      /\ phase' = phase /\ progressed' = progressed /\ snapshot' = snapshot
  BY DEF vars, registry, drain
<1>2. RegistryInv /\ StackInv(stack)
  BY DEF IInv
<1> DEFINE N == {}
<1>3. Grown(N) /\ \A u \in N : Class[u] \in UsedClasses
  BY <1>1, NoneGrown
<1> QED BY <1>1, <1>2, <1>3, Kept DEF RegistryInv

-------------------------------------------------------------------------------
LEMMA Initially == Init => IInv
<1> SUFFICES ASSUME Init PROVE IInv
  OBVIOUS
<1> DEFINE f == Frame(Root, FALSE)
<1>1. PICK probed \in SUBSET Classes : instantiated = ClassesNamed(Root) \cup probed
  BY DEF Init
<1>2. /\ uses \in Programs /\ lazy_members = MembersOf(instantiated) /\ odr_used = {}
      /\ stack = <<f>> /\ phase = "roots" /\ snapshot = {} /\ progressed = TRUE
      /\ bodies = [m \in Member |-> 0]
  BY DEF Init
<1>3. Root \in Body
  BY DEF Body
<1>4. f \in FrameType /\ FrameInv(f) /\ f.body = Root
  BY <1>2, <1>3, BodyFrame
<1>5. ClassesNamed(Root) \subseteq Classes
  <2>1. uses[Root] \in Seq(Use)
    BY <1>2, <1>3, ProgramAssumption
  <2>2. ASSUME NEW u \in UsesOf(Root) PROVE u.target \in Member
    <3>1. PICK i \in 1 .. Len(uses[Root]) : u = uses[Root][i]
      BY <2>1, LenProperties DEF UsesOf
    <3>2. u \in Use
      BY <2>1, <3>1, ElementOfSeq
    <3> QED BY <3>2 DEF Use
  <2> QED BY <2>2 DEF ClassesNamed, Classes
<1> HIDE DEF f
<1>6. stack \in Seq(FrameType) /\ Len(stack) = 1 /\ stack[1] = f
  BY <1>2, <1>4
<1>7. \A i \in 1 .. Len(stack) : i = 1
  BY <1>6
<1>8. StackInv(stack)
  BY <1>4, <1>6, <1>7 DEF StackInv
<1>9. RegistryInv
  BY <1>1, <1>2, <1>5, <1>6, DepthAssumption DEF RegistryInv
<1>10. BodiesOf(stack) = {Root}
  BY <1>4, <1>6 DEF BodiesOf
<1>11. Touched = {}
  BY <1>2, <1>10, MemberAssumption DEF Touched
<1> QED BY <1>8, <1>9, <1>10, <1>11 DEF IInv, TouchedAreUsed, OpenRegistered

LEMMA Inductive == IInv /\ [Next]_vars => IInv'
<1> SUFFICES ASSUME IInv, [Next]_vars PROVE IInv'
  OBVIOUS
<1>1. CASE SiblingCall BY <1>1, SiblingCallStep
<1>2. CASE LazyReceiverCall BY <1>2, LazyReceiverCallStep
<1>3. CASE ReceiverCall BY <1>3, ReceiverCallStep
<1>4. CASE MarkReceiverMember BY <1>4, MarkReceiverStep
<1>5. CASE Convert BY <1>5, ConvertStep
<1>6. CASE FinishMaterialization BY <1>6, FinishMaterializationStep
<1>7. CASE FinishNormalization BY <1>7, FinishNormalizationStep
<1>8. CASE TakeSnapshot \/ StopDraining BY <1>8, DrainControlStep
<1>9. CASE \E m \in Member : DrainEntry(m) BY <1>9, DrainStep
<1>10. CASE Terminated \/ UNCHANGED vars BY <1>10, StutterStep DEF Terminated
<1> QED BY <1>1, <1>2, <1>3, <1>4, <1>5, <1>6, <1>7, <1>8, <1>9, <1>10 DEF Next

LEMMA Invariant == Spec => []IInv
BY Initially, Inductive, PTL DEF Spec

-------------------------------------------------------------------------------
\* The registry, the marks, the stack of materializations and the drain stay well typed.
THEOREM TypeCorrect == Spec => []TypeOK
<1>1. IInv => TypeOK
  <2> SUFFICES ASSUME IInv PROVE TypeOK
    OBVIOUS
  <2>1. RegistryInv /\ stack \in Seq(FrameType)
    BY DEF IInv, StackInv
  <2>2. uses \in [Body -> Seq(Use)]
    BY <2>1, ProgramAssumption DEF RegistryInv
  <2> QED BY <2>1, <2>2 DEF TypeOK, RegistryInv, FrameType
<1> QED BY <1>1, Invariant, PTL

\* An instantiation no begun body uses, one a SFINAE probe made, stays dormant, whatever
\* the marking by name, constness or class, and the fallbacks of the registry, reach.
THEOREM Dormant == Spec => []ProbedClassesStayDormant
<1>1. IInv => ProbedClassesStayDormant
  BY DEF IInv, RegistryInv, MembersOf, TouchedAreUsed, Touched, ProbedClassesStayDormant, UsedClasses
<1> QED BY <1>1, Invariant, PTL

-------------------------------------------------------------------------------
(* Every used member gets its body.  A use a body has been through has left its target     *)
(* with a body, on the stack, or marked and still in the registry, where a pass of the     *)
(* drain finds it; and a drain that stops for want of progress has nothing left to find.   *)

Served(x) ==
  /\ x \in Member
  /\ bodies[x] > 0 \/ x \in odr_used \cap lazy_members \/ x \in BodiesOf(stack)

Pending(t, b, u) ==
  \E i \in 1 .. Len(t) : t[i].body = b /\ \E j \in 1 .. Len(t[i].todo) : t[i].todo[j] = u

UsesInv == \A b \in Begun : \A u \in UsesOf(b) : Served(u.target) \/ Pending(stack, b, u)

\* A registered member is waiting for its body or has it.
RegisteredInv == \A m \in MembersOf(instantiated) : m \in lazy_members \/ bodies[m] > 0

NamedInv == \A b \in BodiesOf(stack) : ClassesNamed(b) \subseteq instantiated

\* A pass that has not got anywhere has not begun: its first entry is still alive.
ProgressInv ==
  ~progressed => phase = "drain" /\ stack = <<>> /\ snapshot # {} /\ snapshot \subseteq lazy_members

StoppedInv == phase = "done" => stack = <<>> /\ OdrUsedLazyEntries = {}

DrainInv == UsesInv /\ RegisteredInv /\ NamedInv /\ ProgressInv /\ StoppedInv

-------------------------------------------------------------------------------
\* What is pending below a new frame, and in it.
LEMMA PendingPushed ==
  ASSUME NEW t \in Seq(FrameType), NEW f \in FrameType, NEW b, NEW u
  PROVE  Pending(Append(t, f), b, u) <=>
           \/ Pending(t, b, u)
           \/ f.body = b /\ \E j \in 1 .. Len(f.todo) : f.todo[j] = u
<1> DEFINE n == Len(t)
           a == Append(t, f)
<1>1. /\ n \in Nat /\ Len(a) = n + 1 /\ a[n + 1] = f /\ \A i \in 1 .. n : a[i] = t[i]
  BY AppendProperties, LenProperties
<1> HIDE DEF n, a
<1>2. /\ \A i \in 1 .. n + 1 : i \in 1 .. n \/ i = n + 1
      /\ 1 .. n \subseteq 1 .. n + 1 /\ n + 1 \in 1 .. n + 1
  BY <1>1
<1> DEFINE In(g) == g.body = b /\ \E j \in 1 .. Len(g.todo) : g.todo[j] = u
<1>3. Pending(a, b, u) <=> \E i \in 1 .. n + 1 : In(a[i])
  BY <1>1 DEF Pending
<1>4. Pending(t, b, u) <=> \E i \in 1 .. n : In(t[i])
  BY DEF Pending, n
<1> HIDE DEF In
<1>5. Pending(a, b, u) <=> Pending(t, b, u) \/ In(f)
  BY <1>1, <1>2, <1>3, <1>4
<1> QED BY <1>5 DEF In, a

\* The stack is its innermost frame on the frames below.
LEMMA StackSplit ==
  ASSUME StackInv(stack), stack # <<>>
  PROVE  stack = Append(Below, Top) /\ Below \in Seq(FrameType) /\ Top \in FrameType
<1>1. /\ Len(stack) \in Nat \ {0} /\ Top = stack[Len(stack)] /\ Top \in FrameType
      /\ Below \in Seq(FrameType) /\ Len(Below) = Len(stack) - 1
      /\ \A i \in 1 .. Len(stack) - 1 : Below[i] = stack[i]
  BY TopFacts DEF StackInv
<1> DEFINE n == Len(stack)
           a == Append(Below, Top)
<1>2. /\ a \in Seq(FrameType) /\ Len(a) = Len(Below) + 1
      /\ \A i \in 1 .. Len(Below) : a[i] = Below[i]
      /\ a[Len(Below) + 1] = Top
  BY <1>1, AppendProperties
<1>3. stack \in Seq(FrameType)
  BY DEF StackInv
<1> HIDE DEF a
<1>4. Len(a) = n /\ \A i \in 1 .. n : a[i] = stack[i]
  BY <1>1, <1>2
<1> HIDE DEF n
<1>5. Len(stack) = n
  BY DEF n
<1>6. a = stack
  BY <1>2, <1>3, <1>4, <1>5, SeqEqual
<1> QED BY <1>1, <1>6 DEF a

\* Consuming a use leaves every other one pending; a call under way leaves them all.
LEMMA PendingUses ==
  ASSUME IInv, stack # <<>>, Top.todo # <<>>, NEW b, NEW u, Pending(stack, b, u)
  PROVE  /\ Pending(UseCalling, b, u)
         /\ Pending(UseDone, b, u) \/ u = Head(Top.todo)
<1> DEFINE done == [Top EXCEPT !.todo = Tail(@), !.calling = FALSE]
           calling == [Top EXCEPT !.calling = TRUE]
<1>1. stack = Append(Below, Top) /\ Below \in Seq(FrameType) /\ Top \in FrameType
  BY StackSplit DEF IInv
<1>2. /\ Top.todo \in Seq(Use) /\ Tail(Top.todo) \in Seq(Use) /\ Head(Top.todo) = Top.todo[1]
      /\ Len(Top.todo) \in Nat \ {0} /\ Len(Tail(Top.todo)) = Len(Top.todo) - 1
      /\ \A i \in 1 .. Len(Tail(Top.todo)) : Tail(Top.todo)[i] = Top.todo[i + 1]
  BY <1>1, HeadTailProperties, EmptySeq DEF FrameType
<1>3. done \in FrameType /\ done.body = Top.body /\ done.todo = Tail(Top.todo)
  BY <1>1, <1>2 DEF FrameType
<1>4. calling \in FrameType /\ calling.body = Top.body /\ calling.todo = Top.todo
  BY <1>1 DEF FrameType
<1>5. UseDone = Append(Below, done) /\ UseCalling = Append(Below, calling)
  BY DEF UseDone, UseCalling
<1> HIDE DEF done, calling
<1>6. \/ Pending(Below, b, u)
      \/ Top.body = b /\ \E j \in 1 .. Len(Top.todo) : Top.todo[j] = u
  BY <1>1, PendingPushed
<1>7. CASE Pending(Below, b, u)
  BY <1>1, <1>3, <1>4, <1>5, <1>7, PendingPushed
<1>8. CASE Top.body = b /\ \E j \in 1 .. Len(Top.todo) : Top.todo[j] = u
  <2>1. Pending(UseCalling, b, u)
    BY <1>1, <1>4, <1>5, <1>8, PendingPushed
  <2>2. PICK j \in 1 .. Len(Top.todo) : Top.todo[j] = u
    BY <1>8
  <2>3. CASE j = 1
    BY <1>2, <2>1, <2>2, <2>3
  <2>4. CASE j # 1
    <3>1. j - 1 \in 1 .. Len(done.todo) /\ done.todo[j - 1] = u
      <4>1. j - 1 \in 1 .. Len(Top.todo) - 1 /\ (j - 1) + 1 = j
        BY <1>2, <2>4
      <4> QED BY <1>2, <1>3, <2>2, <4>1
    <3>2. Pending(Append(Below, done), b, u)
      BY <1>1, <1>3, <1>8, <3>1, PendingPushed
    <3> QED BY <1>5, <2>1, <3>2
  <2> QED BY <2>3, <2>4
<1> QED BY <1>6, <1>7, <1>8

\* All uses of a body are pending in its new frame.
LEMMA PendingFrame ==
  ASSUME uses \in Programs, NEW t \in Seq(FrameType), NEW b \in Body, NEW making \in BOOLEAN,
         making => b \in Member, NEW u \in UsesOf(b)
  PROVE  Pending(Append(t, Frame(b, making)), b, u)
<1>1. uses[b] \in Seq(Use)
  BY ProgramAssumption
<1>2. PICK j \in 1 .. Len(uses[b]) : u = uses[b][j]
  BY <1>1, LenProperties DEF UsesOf
<1> DEFINE f == Frame(b, making)
<1>3. f \in FrameType /\ f.body = b
  BY BodyFrame
<1>4. f.todo = uses[b]
  BY DEF Frame
<1> HIDE DEF f
<1>5. Pending(Append(t, f), b, u)
  BY <1>2, <1>3, <1>4, PendingPushed
<1> QED BY <1>5 DEF f

LEMMA ServedNext ==
  ASSUME NEW x
  PROVE  Served(x)' <=> /\ x \in Member
                        /\ \/ bodies'[x] > 0
                           \/ x \in odr_used' \cap lazy_members'
                           \/ x \in BodiesOf(stack')
BY DEF Served, BodiesOf

LEMMA UsesKept ==
  ASSUME UsesInv, uses' = uses,
         \A b, u : Pending(stack, b, u) => Pending(stack', b, u) \/ Served(u.target)',
         \A x : Served(x) => Served(x)',
         \A b \in Begun' : b \in Begun \/ \A u \in UsesOf(b) : Pending(stack', b, u)
  PROVE  UsesInv'
<1> SUFFICES ASSUME NEW b \in Begun', NEW u \in UsesOf(b)'
             PROVE  Served(u.target)' \/ Pending(stack, b, u)'
  BY DEF UsesInv
<1>1. u \in UsesOf(b)
  BY DEF UsesOf
<1>2. Pending(stack, b, u)' <=> Pending(stack', b, u)
  BY DEF Pending
<1>3. CASE b \in Begun
  BY <1>1, <1>2, <1>3 DEF UsesInv
<1>4. CASE b \notin Begun
  BY <1>1, <1>2, <1>4
<1> QED BY <1>3, <1>4

\* Registering the classes a body names.
LEMMA RegisteredMore ==
  ASSUME RegisteredInv, NEW N, Grown(N), NEW m,
         lazy_members' = lazy_members \cup Fresh(m), instantiated' = instantiated \cup ClassesNamed(m)
  PROVE  RegisteredInv'
BY DEF RegisteredInv, MembersOf, Fresh, Grown
\* The target of a use is registered, so it is waiting for its body or has it.
LEMMA TargetRegistered ==
  ASSUME IInv, DrainInv, stack # <<>>, Top.todo # <<>>
  PROVE  Target \in Member /\ (Target \in lazy_members \/ bodies[Target] > 0)
<1>1. Top \in FrameType /\ FrameInv(Top) /\ Top.body \in BodiesOf(stack)
  BY BelowFacts DEF IInv
<1>2. Top.todo \in Seq(Use) /\ Len(Top.todo) \in Nat \ {0} /\ Head(Top.todo) = Top.todo[1]
  BY <1>1, EmptySeq DEF FrameType
<1>3. Head(Top.todo) \in UsesOf(Top.body)
  BY <1>1, <1>2 DEF FrameInv
<1>4. Class[Target] \in instantiated
  BY <1>1, <1>3 DEF Target, ClassesNamed, DrainInv, NamedInv
<1>5. Target \in Member
  BY TargetFacts
<1> QED BY <1>4, <1>5 DEF DrainInv, RegisteredInv, MembersOf

\* A step of the innermost frame takes a use, or only enters its call, and may open the
\* frame of the target.
LEMMA UseTaken ==
  ASSUME IInv, DrainInv, stack # <<>>, Top.todo # <<>>, NEW t \in {UseDone, UseCalling},
         uses' = uses, phase' = phase, progressed' = progressed,
         odr_used \subseteq odr_used',
         \/ /\ stack' = t /\ lazy_members' = lazy_members /\ instantiated' = instantiated
            /\ bodies' = bodies
         \/ Materialize(t, Target),
         NEW goal, goal = Target, t = UseDone => Served(goal)'
  PROVE  DrainInv'
<1>1. StackInv(t) /\ BodiesOf(t) = BodiesOf(stack) /\ t \in Seq(FrameType)
  BY UseFrames DEF StackInv
<1>2. Target \in Member /\ Target \in Body /\ uses \in Programs
  BY TargetFacts DEF Body, IInv, RegistryInv
<1> DEFINE f == Frame(Target, TRUE)
<1>3. \/ /\ stack' = t /\ lazy_members' = lazy_members /\ instantiated' = instantiated
         /\ BodiesOf(stack') = BodiesOf(stack) /\ bodies' = bodies
      \/ /\ stack' = Append(t, f) /\ f \in FrameType /\ f.body = Target
         /\ lazy_members' = lazy_members \cup Fresh(Target)
         /\ instantiated' = instantiated \cup ClassesNamed(Target)
         /\ BodiesOf(stack') = BodiesOf(stack) \cup {Target} /\ Grown({Target})
  <2>1. CASE /\ stack' = t /\ lazy_members' = lazy_members /\ instantiated' = instantiated
             /\ bodies' = bodies
    BY <1>1, <2>1
  <2>2. CASE Materialize(t, Target)
    <3>1. BodiesOf(stack') = BodiesOf(stack) \cup {Target} /\ Grown({Target})
      BY <1>1, <1>2, <2>2, Materialized
    <3>2. f \in FrameType /\ f.body = Target
      BY <1>2, BodyFrame
    <3> QED BY <2>2, <3>1, <3>2 DEF Materialize
  <2> QED BY <2>1, <2>2
<1> HIDE DEF f
<1>4. \A x : Served(x) => Served(x)'
  BY <1>3, ServedNext DEF Served, Grown
<1>5. ASSUME NEW b, NEW u, Pending(stack, b, u)
      PROVE  Pending(stack', b, u) \/ Served(u.target)'
  <2>1. Pending(t, b, u) \/ (t = UseDone /\ u = Head(Top.todo))
    BY <1>5, PendingUses
  <2>2. Pending(t, b, u) => Pending(stack', b, u)
    <3>1. CASE stack' = t
      BY <3>1
    <3>2. CASE stack' = Append(t, f) /\ f \in FrameType
      BY <1>1, <3>2, PendingPushed
    <3> QED BY <1>3, <3>1, <3>2
  <2>3. u = Head(Top.todo) => u.target = goal
    BY DEF Target
  <2> QED BY <2>1, <2>2, <2>3
<1>6. ASSUME NEW b \in Begun' PROVE b \in Begun \/ \A u \in UsesOf(b) : Pending(stack', b, u)
  <2>1. stack \in Seq(FrameType) /\ stack' \in Seq(FrameType)
    BY <1>1, <1>3, AppendProperties DEF IInv, StackInv
  <2>2. /\ {stack[i].body : i \in DOMAIN stack} = BodiesOf(stack)
        /\ {stack'[i].body : i \in DOMAIN stack'} = BodiesOf(stack')
    BY <2>1, BegunBodies
  <2>3. b \in Begun \/ (stack' = Append(t, f) /\ b = Target)
    BY <1>3, <2>2 DEF Begun, Grown
  <2> QED BY <1>1, <1>2, <2>3, PendingFrame DEF f
<1>7. UsesInv'
  BY <1>4, <1>5, <1>6, UsesKept DEF DrainInv
<1>8. RegisteredInv'
  <2>1. CASE lazy_members' = lazy_members /\ instantiated' = instantiated /\ bodies' = bodies
    BY <2>1 DEF DrainInv, RegisteredInv, MembersOf
  <2>2. CASE /\ lazy_members' = lazy_members \cup Fresh(Target) /\ Grown({Target})
             /\ instantiated' = instantiated \cup ClassesNamed(Target)
    BY <2>2, RegisteredMore DEF DrainInv
  <2> QED BY <1>3, <2>1, <2>2
<1>9. NamedInv'
  <2>1. \A b \in BodiesOf(stack') : ClassesNamed(b) \subseteq instantiated'
    BY <1>3 DEF DrainInv, NamedInv
  <2> QED BY <2>1 DEF NamedInv, BodiesOf, ClassesNamed, UsesOf
<1>10. ProgressInv' /\ StoppedInv'
  BY DEF DrainInv, ProgressInv, StoppedInv
<1> QED BY <1>7, <1>8, <1>9, <1>10 DEF DrainInv

\* A member's call of a sibling marks the member it names, while it has no body.
LEMMA SiblingServed == ASSUME IInv, DrainInv, SiblingCall PROVE DrainInv'
<1>1. /\ stack # <<>> /\ Top.todo # <<>> /\ odr_used' = odr_used \cup ContextMark /\ stack' = UseDone
      /\ uses' = uses /\ instantiated' = instantiated /\ lazy_members' = lazy_members
      /\ phase' = phase /\ progressed' = progressed /\ bodies' = bodies
      /\ Head(Top.todo).kind = "sibling"
  BY DEF SiblingCall, NextUse, MarkOdrUsed, drain
<1>2. Target \in Member /\ (Target \in lazy_members \/ bodies[Target] > 0)
  BY <1>1, TargetRegistered
<1>3. Top.body # Root
  <2> SUFFICES ASSUME Top.body = Root PROVE FALSE
    OBVIOUS
  <2>1. Top \in FrameType /\ FrameInv(Top)
    BY <1>1, BelowFacts DEF IInv
  <2>2. Top.todo \in Seq(Use) /\ Len(Top.todo) \in Nat \ {0} /\ Head(Top.todo) = Top.todo[1]
    BY <1>1, <2>1, EmptySeq DEF FrameType
  <2>3. Head(Top.todo) \in UsesOf(Root)
    BY <2>1, <2>2 DEF FrameInv
  <2> QED BY <1>1, <2>3, SiblingAssumption DEF UsesOf, IInv, RegistryInv
<1>4. Target \in lazy_members => Target \in ContextMark
  BY <1>3 DEF ContextMark, Resolved, ExactKey
<1>5. PICK goal : goal = Target
  OBVIOUS
<1>6. Served(goal)'
  BY <1>1, <1>2, <1>4, <1>5, ServedNext
<1> QED BY <1>1, <1>5, <1>6, UseTaken

\* A receiver call that only begins keeps its use.
LEMMA ReceiverServed == ASSUME IInv, DrainInv, ReceiverCall \/ LazyReceiverCall PROVE DrainInv'
<1>1. /\ stack # <<>> /\ Top.todo # <<>> /\ odr_used \subseteq odr_used'
      /\ uses' = uses /\ phase' = phase /\ progressed' = progressed
      /\ \/ /\ stack' = UseCalling /\ lazy_members' = lazy_members /\ instantiated' = instantiated
            /\ bodies' = bodies
         \/ Materialize(UseCalling, Target)
  BY DEF ReceiverCall, LazyReceiverCall, NextUse, MarkOdrUsed, drain
<1>2. PICK goal : goal = Target
  OBVIOUS
<1>3. CASE UseCalling # UseDone
  BY <1>1, <1>2, <1>3, UseTaken
<1>4. CASE UseCalling = UseDone
  <2>1. Top \in FrameType
    BY <1>1, BelowFacts DEF IInv
  <2>2. Below \in Seq(FrameType)
    BY <1>1, StackSplit DEF IInv
  <2> DEFINE done == [Top EXCEPT !.todo = Tail(@), !.calling = FALSE]
             calling == [Top EXCEPT !.calling = TRUE]
  <2>3. done.calling = FALSE /\ calling.calling = TRUE
    BY <2>1 DEF FrameType
  <2>4. UseDone = Append(Below, done) /\ UseCalling = Append(Below, calling)
    BY DEF UseDone, UseCalling
  <2> HIDE DEF done, calling
  <2>5. Append(Below, done)[Len(Below) + 1] = done /\ Append(Below, calling)[Len(Below) + 1] = calling
    <3> DEFINE F == FrameType \cup {done, calling}
    <3>1. Below \in Seq(F) /\ done \in F /\ calling \in F
      BY <2>2, SeqMonotonic
    <3> HIDE DEF F
    <3> QED BY <3>1, AppendProperties
  <2> QED BY <1>4, <2>3, <2>4, <2>5
<1> QED BY <1>3, <1>4

\* The call's target is marked when it returns, unless it has its body.
LEMMA MarkReceiverServed == ASSUME IInv, DrainInv, MarkReceiverMember PROVE DrainInv'
<1> DEFINE key == ExactKey(Class[Target], Target)
<1>1. /\ stack # <<>> /\ Top.calling /\ odr_used' = odr_used \cup MatchingConstness(key)
      /\ stack' = UseDone
      /\ uses' = uses /\ instantiated' = instantiated /\ lazy_members' = lazy_members
      /\ phase' = phase /\ progressed' = progressed /\ bodies' = bodies
  BY DEF MarkReceiverMember, MarkOdrUsed, drain
<1>2. Top.todo # <<>>
  BY <1>1, BelowFacts DEF IInv, FrameInv
<1>3. Target \in Member /\ (Target \in lazy_members \/ bodies[Target] > 0)
  BY <1>1, <1>2, TargetRegistered
<1>4. Target \in lazy_members => Target \in MatchingConstness(key)
  BY DEF MatchingConstness, NeedsInstantiation, Resolved, ExactKey
<1> HIDE DEF key
<1>5. PICK goal : goal = Target
  OBVIOUS
<1>6. Served(goal)'
  BY <1>1, <1>3, <1>4, <1>5, ServedNext
<1> QED BY <1>1, <1>2, <1>5, <1>6, UseTaken

\* A conversion operator is materialized unless it has its body.
LEMMA ConvertServed == ASSUME IInv, DrainInv, Convert PROVE DrainInv'
<1>1. /\ stack # <<>> /\ Top.todo # <<>> /\ odr_used \subseteq odr_used'
      /\ uses' = uses /\ phase' = phase /\ progressed' = progressed
      /\ IF Target \in lazy_members
         THEN Materialize(UseDone, Target)
         ELSE /\ stack' = UseDone /\ lazy_members' = lazy_members /\ instantiated' = instantiated
              /\ bodies' = bodies
  BY DEF Convert, NextUse, MarkOdrUsed, drain
<1>2. Target \in Member /\ (Target \in lazy_members \/ bodies[Target] > 0)
  BY <1>1, TargetRegistered
<1>3. PICK goal : goal = Target
  OBVIOUS
<1>4. Served(goal)'
  <2>1. CASE Target \in lazy_members
    <3>1. StackInv(UseDone)
      BY <1>1, UseFrames
    <3>2. BodiesOf(stack') = BodiesOf(UseDone) \cup {Target}
      BY <1>1, <1>2, <2>1, <3>1, Materialized
    <3> QED BY <1>2, <1>3, <3>2, ServedNext
  <2>2. CASE Target \notin lazy_members
    BY <1>1, <1>2, <1>3, <2>2, ServedNext
  <2> QED BY <2>1, <2>2
<1> QED BY <1>1, <1>3, <1>4, UseTaken

\* A frame that returns has nothing pending.
LEMMA PendingBelow ==
  ASSUME IInv, BodyDone, NEW b, NEW u, Pending(stack, b, u)
  PROVE  Pending(Below, b, u) /\ Below # <<>>
<1>1. stack = Append(Below, Top) /\ Below \in Seq(FrameType) /\ Top \in FrameType /\ Top.todo = <<>>
  BY StackSplit DEF IInv, BodyDone
<1>2. Len(Top.todo) = 0
  BY <1>1, EmptySeq
<1>3. Pending(Below, b, u)
  <2>1. ~ \E j \in 1 .. Len(Top.todo) : Top.todo[j] = u
    BY <1>2
  <2> QED BY <1>1, <2>1, PendingPushed
<1>4. Below # <<>>
  BY <1>3, EmptySeq DEF Pending
<1> QED BY <1>3, <1>4

LEMMA FinishMaterializationServed == ASSUME IInv, DrainInv, FinishMaterialization PROVE DrainInv'
<1> DEFINE m == Top.body
<1>1. /\ stack # <<>> /\ Top.making /\ BodyDone
      /\ lazy_members' = lazy_members \ {m}
      /\ stack' = IF Below = <<>> THEN <<Frame(m, FALSE)>> ELSE Below
      /\ uses' = uses /\ instantiated' = instantiated /\ odr_used' = odr_used
      /\ phase' = phase /\ snapshot' = snapshot /\ progressed' = progressed /\ bodies' = bodies
  BY DEF FinishMaterialization, BodyDone, MarkInstantiated, drain
<1>2. /\ Top \in FrameType /\ FrameInv(Top) /\ Below \in Seq(FrameType)
      /\ BodiesOf(stack) = BodiesOf(Below) \cup {m} /\ stack \in Seq(FrameType)
  BY <1>1, BelowFacts DEF IInv, StackInv
<1>3. m \in Member /\ m \in Body
  BY <1>1, <1>2 DEF FrameInv, Body
<1>4. bodies[m] > 0
  BY <1>2, <1>3, MemberAssumption DEF IInv, OpenRegistered
<1> HIDE DEF m
<1>5. /\ stack' \in Seq(FrameType)
      /\ Below # <<>> => stack' = Below
      /\ BodiesOf(stack') \subseteq BodiesOf(stack)
      /\ BodiesOf(stack) \subseteq BodiesOf(stack') \cup {m}
  <2>1. CASE Below = <<>>
    <3> DEFINE f == Frame(m, FALSE)
    <3>1. f \in FrameType /\ f.body = m
      BY <1>3, BodyFrame DEF IInv, RegistryInv
    <3> HIDE DEF f
    <3>11. stack' = <<f>>
      BY <1>1, <2>1 DEF f
    <3>2. stack' \in Seq(FrameType) /\ Len(stack') = 1 /\ stack'[1] = f
      BY <3>1, <3>11
    <3>3. BodiesOf(stack') = {m}
      BY <3>1, <3>2 DEF BodiesOf
    <3>4. BodiesOf(Below) = {}
      BY <2>1 DEF BodiesOf
    <3> QED BY <1>2, <2>1, <3>2, <3>3, <3>4
  <2>2. CASE Below # <<>>
    BY <1>1, <1>2, <2>2
  <2> QED BY <2>1, <2>2
<1>6. \A x : Served(x) => Served(x)'
  BY <1>1, <1>3, <1>4, <1>5, ServedNext DEF Served
<1>7. \A b, u : Pending(stack, b, u) => Pending(stack', b, u)
  BY <1>1, <1>5, PendingBelow
<1>8. Begun' \subseteq Begun
  <2>1. /\ {stack[i].body : i \in DOMAIN stack} = BodiesOf(stack)
        /\ {stack'[i].body : i \in DOMAIN stack'} = BodiesOf(stack')
    BY <1>2, <1>5, BegunBodies
  <2> QED BY <1>1, <1>5, <2>1 DEF Begun
<1>9. UsesInv'
  BY <1>1, <1>6, <1>7, <1>8, UsesKept DEF DrainInv
<1>10. RegisteredInv'
  BY <1>1, <1>4 DEF DrainInv, RegisteredInv, MembersOf
<1>11. NamedInv'
  <2>1. \A b \in BodiesOf(stack') : ClassesNamed(b) \subseteq instantiated'
    BY <1>1, <1>5 DEF DrainInv, NamedInv
  <2>2. BodiesOf(stack)' = BodiesOf(stack') /\ uses' = uses
    BY <1>1 DEF BodiesOf
  <2>3. \A b : ClassesNamed(b)' = ClassesNamed(b)
    BY <2>2 DEF ClassesNamed, UsesOf
  <2> QED BY <2>1, <2>2, <2>3 DEF NamedInv
<1>12. ProgressInv' /\ StoppedInv'
  BY <1>1 DEF DrainInv, ProgressInv, StoppedInv
<1> QED BY <1>9, <1>10, <1>11, <1>12 DEF DrainInv

LEMMA FinishNormalizationServed == ASSUME IInv, DrainInv, FinishNormalization PROVE DrainInv'
<1>1. /\ stack # <<>> /\ ~Top.making /\ BodyDone /\ stack' = <<>> /\ phase' = "drain"
      /\ uses' = uses /\ instantiated' = instantiated /\ lazy_members' = lazy_members
      /\ odr_used' = odr_used /\ progressed' = progressed /\ bodies' = bodies
  BY DEF FinishNormalization, BodyDone, registry
<1>2. /\ BodiesOf(stack) = BodiesOf(Below) \cup {Top.body} /\ Below = <<>>
      /\ Top.body = Root \/ bodies[Top.body] > 0
  BY <1>1, BelowFacts DEF IInv, OpenRegistered
<1>3. stack' \in Seq(FrameType) /\ BodiesOf(stack') = {} /\ BodiesOf(Below) = {}
  BY <1>1, <1>2 DEF BodiesOf
<1>4. \A x : Served(x) => Served(x)'
  BY <1>1, <1>2, <1>3, ServedNext, MemberAssumption DEF Served
<1>5. \A b, u : ~Pending(stack, b, u)
  BY <1>1, <1>2, PendingBelow
<1>6. Begun' \subseteq Begun
  <2>1. {stack'[i].body : i \in DOMAIN stack'} = BodiesOf(stack')
    BY <1>3, BegunBodies
  <2> QED BY <1>1, <1>3, <2>1 DEF Begun
<1>7. UsesInv'
  BY <1>1, <1>4, <1>5, <1>6, UsesKept DEF DrainInv
<1>8. RegisteredInv'
  BY <1>1 DEF DrainInv, RegisteredInv, MembersOf
<1>9. NamedInv'
  <2>1. BodiesOf(stack)' = {}
    BY <1>3 DEF BodiesOf
  <2> QED BY <2>1 DEF NamedInv
<1>10. ProgressInv' /\ StoppedInv'
  BY <1>1 DEF DrainInv, ProgressInv, StoppedInv
<1> QED BY <1>7, <1>8, <1>9, <1>10 DEF DrainInv

\* A pass works off what is alive when it begins.
LEMMA TakeSnapshotServed == ASSUME IInv, DrainInv, TakeSnapshot PROVE DrainInv'
<1>1. /\ phase = "drain" /\ stack = <<>> /\ OdrUsedLazyEntries # {}
      /\ snapshot' = OdrUsedLazyEntries
      /\ uses' = uses /\ instantiated' = instantiated /\ lazy_members' = lazy_members
      /\ odr_used' = odr_used /\ stack' = stack /\ phase' = phase /\ bodies' = bodies
  BY DEF TakeSnapshot, Draining, registry
<1>2. UsesInv'
  BY <1>1 DEF DrainInv, UsesInv, Begun, UsesOf, Served, Pending, BodiesOf
<1>3. RegisteredInv' /\ NamedInv'
  BY <1>1 DEF DrainInv, RegisteredInv, MembersOf, NamedInv, BodiesOf, ClassesNamed, UsesOf
<1>4. ProgressInv' /\ StoppedInv'
  BY <1>1 DEF ProgressInv, StoppedInv, OdrUsedLazyEntries
<1> QED BY <1>2, <1>3, <1>4 DEF DrainInv

\* The drain does not stop for want of progress while an entry is left.
LEMMA StopServed == ASSUME IInv, DrainInv, StopDraining PROVE DrainInv'
<1>1. /\ stack = <<>> /\ snapshot = {} /\ (~progressed \/ OdrUsedLazyEntries = {})
      /\ uses' = uses /\ instantiated' = instantiated /\ lazy_members' = lazy_members
      /\ odr_used' = odr_used /\ stack' = stack /\ progressed' = progressed /\ bodies' = bodies
  BY DEF StopDraining, Draining, registry
<1>2. UsesInv'
  BY <1>1 DEF DrainInv, UsesInv, Begun, UsesOf, Served, Pending, BodiesOf
<1>3. RegisteredInv' /\ NamedInv'
  BY <1>1 DEF DrainInv, RegisteredInv, MembersOf, NamedInv, BodiesOf, ClassesNamed, UsesOf
<1>4. progressed /\ OdrUsedLazyEntries = {}
  BY <1>1 DEF DrainInv, ProgressInv
<1>5. ProgressInv' /\ StoppedInv'
  BY <1>1, <1>4 DEF ProgressInv, StoppedInv, OdrUsedLazyEntries
<1> QED BY <1>2, <1>3, <1>5 DEF DrainInv

\* The first entry of a pass is alive, so the pass gets somewhere.
LEMMA DrainEntryServed == ASSUME IInv, DrainInv, NEW m \in Member, DrainEntry(m) PROVE DrainInv'
<1> DEFINE key == ExactKey(Class[m], m)
<1>1. /\ phase = "drain" /\ stack = <<>> /\ m \in snapshot
      /\ uses' = uses /\ odr_used' = odr_used /\ phase' = phase
  BY DEF DrainEntry, Draining
<1>2. key.exact = m
  BY DEF ExactKey
<1>3. CASE NeedsInstantiation(key) /\ Resolved(key) # {}
  <2>1. PICK t \in Resolved(key) : progressed' = TRUE /\ Materialize(<<>>, t)
    BY <1>3 DEF DrainEntry
  <2>2. t \in Member /\ t \in Body /\ uses \in Programs
    BY ResolvedFacts DEF IInv, RegistryInv, MembersOf, Body
  <2> DEFINE f == Frame(t, TRUE)
  <2>3. f \in FrameType /\ f.body = t
    BY <2>2, BodyFrame
  <2>4. /\ stack' = Append(<<>>, f) /\ lazy_members' = lazy_members \cup Fresh(t)
        /\ instantiated' = instantiated \cup ClassesNamed(t)
    BY <2>1 DEF Materialize
  <2>5. <<>> \in Seq(FrameType) /\ BodiesOf(<<>>) = {} /\ StackInv(<<>>)
    BY <1>1 DEF IInv, StackInv, BodiesOf
  <2>6. BodiesOf(stack') = {t} /\ stack' \in Seq(FrameType) /\ Grown({t})
    BY <2>1, <2>2, <2>5, Materialized DEF StackInv
  <2>7. \A x : Served(x) => Served(x)'
    BY <1>1, <2>4, <2>5, <2>6, ServedNext DEF Served, Grown
  <2>8. \A b, u : ~Pending(stack, b, u)
    BY <1>1, EmptySeq DEF Pending
  <2>9. ASSUME NEW b \in Begun' PROVE b \in Begun \/ \A u \in UsesOf(b) : Pending(stack', b, u)
    <3>1. {stack'[i].body : i \in DOMAIN stack'} = BodiesOf(stack')
      BY <2>6, BegunBodies
    <3>2. b \in Begun \/ b = t
      BY <1>1, <2>6, <3>1 DEF Begun, Grown
    <3> QED BY <2>2, <2>4, <2>5, <3>2, PendingFrame
  <2>10. UsesInv'
    BY <1>1, <2>7, <2>8, <2>9, UsesKept DEF DrainInv
  <2>11. RegisteredInv'
    BY <2>4, <2>6, RegisteredMore DEF DrainInv
  <2>12. NamedInv'
    <3>1. BodiesOf(stack)' = {t} /\ ClassesNamed(t)' = ClassesNamed(t)
      BY <1>1, <2>6 DEF BodiesOf, ClassesNamed, UsesOf
    <3> QED BY <2>4, <3>1 DEF NamedInv
  <2>13. ProgressInv' /\ StoppedInv'
    BY <1>1, <2>1 DEF ProgressInv, StoppedInv
  <2> QED BY <2>10, <2>11, <2>12, <2>13 DEF DrainInv
<1>4. CASE ~(NeedsInstantiation(key) /\ Resolved(key) # {})
  <2>1. /\ progressed' = progressed /\ stack' = stack /\ instantiated' = instantiated
        /\ lazy_members' = lazy_members /\ bodies' = bodies
    BY <1>4 DEF DrainEntry
  <2>2. UsesInv'
    BY <1>1, <2>1 DEF DrainInv, UsesInv, Begun, UsesOf, Served, Pending, BodiesOf
  <2>3. RegisteredInv' /\ NamedInv'
    BY <1>1, <2>1 DEF DrainInv, RegisteredInv, MembersOf, NamedInv, BodiesOf, ClassesNamed, UsesOf
  <2>4. m \notin lazy_members
    BY <1>2, <1>4 DEF NeedsInstantiation, Resolved
  <2>5. ProgressInv' /\ StoppedInv'
    BY <1>1, <2>1, <2>4 DEF DrainInv, ProgressInv, StoppedInv
  <2> QED BY <2>2, <2>3, <2>5 DEF DrainInv
<1> QED BY <1>3, <1>4

LEMMA InitiallyServed == Init => DrainInv
<1> SUFFICES ASSUME Init PROVE DrainInv
  OBVIOUS
<1> DEFINE f == Frame(Root, FALSE)
<1>1. /\ uses \in Programs /\ ClassesNamed(Root) \subseteq instantiated
      /\ lazy_members = MembersOf(instantiated) /\ stack = <<f>>
      /\ phase = "roots" /\ progressed = TRUE /\ bodies = [m \in Member |-> 0]
  BY DEF Init
<1>2. f \in FrameType /\ f.body = Root /\ Root \in Body
  BY <1>1, BodyFrame DEF Body
<1>3. <<>> \in Seq(FrameType) /\ Append(<<>>, f) = <<f>>
  BY EmptySeq
<1>4. \A u \in UsesOf(Root) : Pending(stack, Root, u)
  BY <1>1, <1>2, <1>3, PendingFrame
<1> HIDE DEF f
<1>5. stack \in Seq(FrameType) /\ Len(stack) = 1 /\ stack[1] = f
  BY <1>1, <1>2
<1>6. BodiesOf(stack) = {Root}
  BY <1>2, <1>5 DEF BodiesOf
<1>7. Begun = {Root}
  <2>1. {stack[i].body : i \in DOMAIN stack} = BodiesOf(stack)
    BY <1>5, BegunBodies
  <2> QED BY <1>1, <1>6, <2>1 DEF Begun
<1>8. UsesInv
  BY <1>4, <1>7 DEF UsesInv
<1>9. RegisteredInv /\ NamedInv /\ ProgressInv /\ StoppedInv
  BY <1>1, <1>6 DEF RegisteredInv, NamedInv, ProgressInv, StoppedInv
<1> QED BY <1>8, <1>9 DEF DrainInv

LEMMA ServedInductive == IInv /\ DrainInv /\ [Next]_vars => DrainInv'
<1> SUFFICES ASSUME IInv, DrainInv, [Next]_vars PROVE DrainInv'
  OBVIOUS
<1>1. CASE SiblingCall BY <1>1, SiblingServed
<1>2. CASE LazyReceiverCall \/ ReceiverCall BY <1>2, ReceiverServed
<1>3. CASE MarkReceiverMember BY <1>3, MarkReceiverServed
<1>4. CASE Convert BY <1>4, ConvertServed
<1>5. CASE FinishMaterialization BY <1>5, FinishMaterializationServed
<1>6. CASE FinishNormalization BY <1>6, FinishNormalizationServed
<1>7. CASE TakeSnapshot BY <1>7, TakeSnapshotServed
<1>8. CASE StopDraining BY <1>8, StopServed
<1>9. CASE \E m \in Member : DrainEntry(m) BY <1>9, DrainEntryServed
<1>10. CASE Terminated \/ UNCHANGED vars
  <2>1. /\ uses' = uses /\ bodies' = bodies /\ stack' = stack /\ instantiated' = instantiated
        /\ lazy_members' = lazy_members /\ odr_used' = odr_used
        /\ phase' = phase /\ progressed' = progressed /\ snapshot' = snapshot
    BY <1>10 DEF Terminated, vars, registry, drain
  <2>2. UsesInv'
    BY <2>1 DEF DrainInv, UsesInv, Begun, UsesOf, Served, Pending, BodiesOf
  <2>3. RegisteredInv' /\ NamedInv'
    BY <2>1 DEF DrainInv, RegisteredInv, MembersOf, NamedInv, BodiesOf, ClassesNamed, UsesOf
  <2>4. ProgressInv' /\ StoppedInv'
    BY <2>1 DEF DrainInv, ProgressInv, StoppedInv, OdrUsedLazyEntries
  <2> QED BY <2>2, <2>3, <2>4 DEF DrainInv
<1> QED BY <1>1, <1>2, <1>3, <1>4, <1>5, <1>6, <1>7, <1>8, <1>9, <1>10 DEF Next

LEMMA ServedInvariant == Spec => []DrainInv
<1>1. Init => IInv /\ DrainInv
  BY Initially, InitiallyServed
<1>2. IInv /\ DrainInv /\ [Next]_vars => (IInv /\ DrainInv)'
  BY Inductive, ServedInductive
<1> QED BY <1>1, <1>2, PTL DEF Spec

\* When the drain stops, every member a begun body uses has its own body: a mark left by a
\* body made during the drain is found by a later pass, in whatever order the entries come.
THEOREM EveryUseServed == Spec => []UsedMembersHaveBodies
<1>1. IInv /\ DrainInv => UsedMembersHaveBodies
  <2> SUFFICES ASSUME IInv, DrainInv, phase = "done", NEW m \in Used PROVE bodies[m] > 0
    BY DEF UsedMembersHaveBodies
  <2>1. PICK b \in Begun : \E u \in UsesOf(b) : m = u.target
    BY DEF Used
  <2>2. PICK u \in UsesOf(b) : m = u.target
    BY <2>1
  <2>3. stack = <<>> /\ odr_used \cap lazy_members = {}
    BY DEF DrainInv, StoppedInv, OdrUsedLazyEntries
  <2>4. BodiesOf(stack) = {} /\ ~Pending(stack, b, u)
    BY <2>3, EmptySeq DEF BodiesOf, Pending
  <2> QED BY <2>2, <2>3, <2>4 DEF DrainInv, UsesInv, Served
<1> QED BY <1>1, Invariant, ServedInvariant, PTL

-------------------------------------------------------------------------------
(* Re-entry: along the stack each body opens the next one, so only a program that is      *)
(* recursive through receivers and conversions comes back to a body on the stack.  A frame *)
(* is through with a use only when its target has left the registry, so a body that is     *)
(* opened again never ends before the frame further out.                                   *)
\* The uses a frame has not begun.
Left(f) == {f.todo[j] : j \in (IF f.calling THEN 2 ELSE 1) .. Len(f.todo)}

Opens(b, m) == \E u \in UsesOf(b) : u.kind # "sibling" /\ u.target = m

MakingAlive(t) == \A i \in 1 .. Len(t) : t[i].making => t[i].body \in lazy_members

Chained(t) == \A i \in 1 .. Len(t) - 1 : Opens(t[i].body, t[i + 1].body)

\* A use that opens bodies is still to come, or under way in the next frame, or its target
\* is not lazy; for the innermost frame, or its target is excused.
Met(t, alive, excused) ==
  \A i \in 1 .. Len(t) : \A u \in UsesOf(t[i].body) :
    u.kind # "sibling" =>
      \/ u.target \notin alive
      \/ u \in Left(t[i])
      \/ i < Len(t) /\ t[i + 1].body = u.target
      \/ i = Len(t) /\ u.target \in excused

ChainInv ==
  /\ MakingAlive(stack) /\ Chained(stack) /\ Met(stack, lazy_members, {})

-------------------------------------------------------------------------------
\* Taking a use, or entering its call, leaves the bodies on the stack and why they are there,
\* and the innermost frame with all its uses but the first.
LEMMA SameFrames ==
  ASSUME IInv, stack # <<>>, Top.todo # <<>>, NEW t \in {UseDone, UseCalling}
  PROVE  LET n == Len(stack) IN
         /\ n \in Nat \ {0} /\ Len(t) = n
         /\ \A i \in 1 .. n : t[i].body = stack[i].body /\ t[i].making = stack[i].making
         /\ \A i \in 1 .. n - 1 : t[i] = stack[i]
         /\ Left(Top) \subseteq Left(t[n]) \cup {Head(Top.todo)}
         /\ Top.calling => Left(Top) \subseteq Left(t[n])
<1> DEFINE done == [Top EXCEPT !.todo = Tail(@), !.calling = FALSE]
           calling == [Top EXCEPT !.calling = TRUE]
           n == Len(stack)
           left == {Top.todo[j] : j \in 2 .. Len(Top.todo)}
<1>1. /\ n \in Nat \ {0} /\ Top = stack[n] /\ Top \in FrameType
      /\ Below \in Seq(FrameType) /\ Len(Below) = n - 1
      /\ \A i \in 1 .. n - 1 : Below[i] = stack[i]
  BY TopFacts DEF IInv, StackInv
<1>2. /\ done.body = Top.body /\ done.making = Top.making
      /\ done.todo = Tail(Top.todo) /\ done.calling = FALSE
      /\ calling.body = Top.body /\ calling.making = Top.making
      /\ calling.todo = Top.todo /\ calling.calling = TRUE
  BY <1>1 DEF FrameType
<1>3. /\ Top.todo \in Seq(Use) /\ Len(Top.todo) \in Nat \ {0} /\ Head(Top.todo) = Top.todo[1]
      /\ Len(Tail(Top.todo)) = Len(Top.todo) - 1
      /\ \A j \in 1 .. Len(Top.todo) - 1 : Tail(Top.todo)[j] = Top.todo[j + 1]
  BY <1>1, EmptySeq, HeadTailProperties DEF FrameType
<1>4. left \subseteq Left(done) /\ left \subseteq Left(calling)
  <2>1. ASSUME NEW j \in 2 .. Len(Top.todo) PROVE Top.todo[j] \in Left(done)
    <3>1. j - 1 \in 1 .. Len(done.todo) /\ done.todo[j - 1] = Top.todo[j]
      BY <1>2, <1>3
    <3> QED BY <1>2, <3>1 DEF Left
  <2>2. left \subseteq Left(calling)
    BY <1>2 DEF Left
  <2> QED BY <2>1, <2>2
<1>5. Left(Top) \subseteq left \cup {Head(Top.todo)} /\ (Top.calling => Left(Top) \subseteq left)
  <2>1. \A j \in 1 .. Len(Top.todo) : j = 1 \/ j \in 2 .. Len(Top.todo)
    BY <1>3
  <2> QED BY <1>3, <2>1 DEF Left
<1> HIDE DEF done, calling, n, left
<1>6. ASSUME NEW f \in {done, calling}, t = Append(Below, f)
      PROVE  /\ Len(t) = n /\ t[n] = f
             /\ \A i \in 1 .. n : t[i].body = stack[i].body /\ t[i].making = stack[i].making
             /\ \A i \in 1 .. n - 1 : t[i] = stack[i]
  <2> DEFINE F == FrameType \cup {f}
  <2>1. Below \in Seq(F) /\ f \in F
    BY <1>1, SeqMonotonic
  <2> HIDE DEF F
  <2>2. /\ Len(t) = Len(Below) + 1 /\ t[Len(Below) + 1] = f
        /\ \A i \in 1 .. Len(Below) : t[i] = Below[i]
    BY <1>6, <2>1, AppendProperties
  <2>3. Len(t) = n /\ t[n] = f /\ \A i \in 1 .. n - 1 : t[i] = stack[i]
    BY <1>1, <2>2
  <2>4. \A i \in 1 .. n : i \in 1 .. n - 1 \/ i = n
    BY <1>1
  <2> QED BY <1>1, <1>2, <2>3, <2>4
<1> QED BY <1>1, <1>4, <1>5, <1>6 DEF UseDone, UseCalling, done, calling, n

\* The stack after the first use of the innermost frame has been taken.
LEMMA SameChain ==
  ASSUME IInv, ChainInv, stack # <<>>, Top.todo # <<>>, NEW t \in {UseDone, UseCalling}
  PROVE  /\ MakingAlive(t) /\ Chained(t) /\ Met(t, lazy_members, {Target})
         /\ Head(Top.todo).kind = "sibling" \/ Top.calling => Met(t, lazy_members, {})
<1> DEFINE n == Len(stack)
<1>1. /\ n \in Nat \ {0} /\ Len(t) = n
      /\ \A i \in 1 .. n : t[i].body = stack[i].body /\ t[i].making = stack[i].making
      /\ \A i \in 1 .. n - 1 : t[i] = stack[i]
      /\ Left(Top) \subseteq Left(t[n]) \cup {Head(Top.todo)}
      /\ Top.calling => Left(Top) \subseteq Left(t[n])
  BY SameFrames
<1>2. Top = stack[n]
  BY DEF Top
<1> HIDE DEF n
<1>3. MakingAlive(t)
  BY <1>1 DEF ChainInv, MakingAlive, n
<1>4. Chained(t)
  <2>1. \A i \in 1 .. n - 1 : i \in 1 .. n /\ i + 1 \in 1 .. n
    BY <1>1
  <2> QED BY <1>1, <2>1 DEF ChainInv, Chained, n
<1>5. ASSUME NEW i \in 1 .. n, NEW u \in UsesOf(t[i].body), u.kind # "sibling"
      PROVE  \/ u.target \notin lazy_members \/ u \in Left(t[i])
             \/ i < n /\ t[i + 1].body = u.target
             \/ i = n /\ u = Head(Top.todo) /\ ~Top.calling
  <2>1. \/ u.target \notin lazy_members \/ u \in Left(stack[i])
        \/ i < n /\ stack[i + 1].body = u.target
    BY <1>1, <1>5 DEF ChainInv, Met, n
  <2>2. i < n => i \in 1 .. n - 1 /\ i + 1 \in 1 .. n
    BY <1>1
  <2>3. CASE i < n
    BY <1>1, <2>1, <2>2, <2>3
  <2>4. CASE i = n
    BY <1>1, <1>2, <2>1, <2>4
  <2> QED BY <1>1, <2>3, <2>4
<1>6. Met(t, lazy_members, {Target})
  BY <1>1, <1>5 DEF Met, Target
<1>7. ASSUME Head(Top.todo).kind = "sibling" \/ Top.calling PROVE Met(t, lazy_members, {})
  BY <1>1, <1>5, <1>7 DEF Met
<1> QED BY <1>3, <1>4, <1>6, <1>7

\* A step that makes nothing.
LEMMA ChainKept ==
  ASSUME ChainInv, uses' = uses, lazy_members' = lazy_members,
         MakingAlive(stack'), Chained(stack'), Met(stack', lazy_members, {})
  PROVE  ChainInv'
<1>1. \A b : UsesOf(b)' = UsesOf(b)
  BY DEF UsesOf
<1>2. MakingAlive(stack)' /\ Chained(stack)'
  BY DEF MakingAlive, Chained, Opens, UsesOf
<1>3. Met(stack, lazy_members, {})'
  BY DEF Met, UsesOf, Left
<1> QED BY <1>2, <1>3 DEF ChainInv

\* Opening the target of the use that was taken, or the body of an entry.
LEMMA ChainOpened ==
  ASSUME IInv, DrainInv, ChainInv, NEW t, StackInv(t), BodiesOf(t) \subseteq BodiesOf(stack),
         NEW m \in lazy_members, MakingAlive(t), Chained(t), Met(t, lazy_members, {m}),
         Len(t) > 0 => Opens(t[Len(t)].body, m),
         Materialize(t, m), uses' = uses
  PROVE  ChainInv'
<1> DEFINE f == Frame(m, TRUE)
           n == Len(t)
<1>1. /\ stack' = Append(t, f) /\ lazy_members' = lazy_members \cup Fresh(m)
      /\ instantiated' = instantiated \cup ClassesNamed(m)
  BY DEF Materialize
<1>2. m \in Member /\ m \in Body /\ f \in FrameType /\ f.body = m
  BY BodyFrame DEF IInv, RegistryInv, MembersOf, Body
<1>3. UsesOf(m) \subseteq Left(f)
  <2>1. f.todo = uses[m] /\ f.calling = FALSE
    BY DEF Frame
  <2>2. DOMAIN uses[m] = 1 .. Len(uses[m])
    BY <1>2, LenProperties, ProgramAssumption DEF IInv, RegistryInv
  <2> HIDE DEF f
  <2> QED BY <2>1, <2>2 DEF UsesOf, Left
<1> HIDE DEF f
<1>4. /\ t \in Seq(FrameType) /\ n \in Nat /\ Len(stack') = n + 1 /\ stack'[n + 1] = f
      /\ \A i \in 1 .. n : stack'[i] = t[i]
  BY <1>1, <1>2, AppendProperties, LenProperties DEF StackInv
<1> HIDE DEF n
<1>5. n = Len(t)
  BY DEF n
<1>6. \A i \in 1 .. n + 1 : i \in 1 .. n \/ i = n + 1
  BY <1>4
<1>7. MakingAlive(stack)'
  <2>1. \A i \in 1 .. n + 1 : stack'[i].making => stack'[i].body \in lazy_members'
    BY <1>1, <1>2, <1>4, <1>5, <1>6 DEF MakingAlive
  <2> QED BY <1>4, <2>1 DEF MakingAlive
<1>8. Chained(stack')
  <2> SUFFICES ASSUME NEW i \in 1 .. n PROVE Opens(stack'[i].body, stack'[i + 1].body)
    BY <1>4 DEF Chained
  <2>1. CASE i = n
    BY <1>2, <1>4, <1>5, <2>1
  <2>2. CASE i # n
    <3>1. i \in 1 .. n - 1 /\ i + 1 \in 1 .. n
      BY <1>4, <2>2
    <3> QED BY <1>4, <1>5, <3>1 DEF Chained
  <2> QED BY <2>1, <2>2
<1>9. \A x \in Fresh(m) : x \in Member /\ Class[x] \notin instantiated
  BY DEF Fresh, MembersOf
<1>10. Met(stack, lazy_members, {})'
  <2>1. ASSUME NEW i \in 1 .. n + 1, NEW u \in UsesOf(stack'[i].body), u.kind # "sibling"
        PROVE  \/ u.target \notin lazy_members' \/ u \in Left(stack'[i])
               \/ i < n + 1 /\ stack'[i + 1].body = u.target
    <3>1. CASE i = n + 1
      BY <1>2, <1>3, <1>4, <2>1, <3>1
    <3>2. CASE i \in 1 .. n
      <4>1. t[i].body \in BodiesOf(stack) /\ stack'[i] = t[i]
        BY <1>4, <1>5, <3>2 DEF BodiesOf
      <4>2. Class[u.target] \in instantiated
        BY <2>1, <4>1 DEF DrainInv, NamedInv, ClassesNamed
      <4>3. u.target \in lazy_members' => u.target \in lazy_members
        BY <1>1, <1>9, <4>2
      <4>4. \/ u.target \notin lazy_members \/ u \in Left(t[i])
            \/ i < n /\ t[i + 1].body = u.target
            \/ i = n /\ u.target = m
        <5>1. u \in UsesOf(t[i].body) /\ i \in 1 .. Len(t)
          BY <1>5, <2>1, <3>2, <4>1
        <5> QED BY <1>5, <2>1, <5>1 DEF Met
      <4>5. i < n + 1 /\ (i < n => i + 1 \in 1 .. n)
        BY <1>4, <3>2
      <4> QED BY <1>2, <1>4, <4>1, <4>3, <4>4, <4>5
    <3> QED BY <1>6, <3>1, <3>2
  <2>2. Met(stack', lazy_members', {})
    BY <1>4, <2>1 DEF Met
  <2> QED BY <2>2 DEF Met, UsesOf, Left
<1>11. Chained(stack)'
  BY <1>8 DEF Chained, Opens, UsesOf
<1> QED BY <1>7, <1>10, <1>11 DEF ChainInv

\* The use that is taken is one of the innermost body.
LEMMA TargetOpened ==
  ASSUME IInv, stack # <<>>, Top.todo # <<>>, Head(Top.todo).kind # "sibling",
         NEW t \in {UseDone, UseCalling}
  PROVE  Opens(t[Len(t)].body, Target)
<1>1. /\ Len(stack) \in Nat \ {0} /\ Top = stack[Len(stack)]
      /\ Top \in FrameType /\ FrameInv(Top)
  BY TopFacts, BelowFacts DEF IInv, StackInv
<1>2. Top.todo \in Seq(Use) /\ Len(Top.todo) \in Nat \ {0} /\ Head(Top.todo) = Top.todo[1]
  BY <1>1, EmptySeq DEF FrameType
<1>3. Head(Top.todo) \in UsesOf(Top.body)
  BY <1>1, <1>2 DEF FrameInv
<1>4. t[Len(t)].body = Top.body
  <2>1. Len(stack) \in 1 .. Len(stack)
    BY <1>1
  <2> QED BY <1>1, <2>1, SameFrames
<1> QED BY <1>3, <1>4 DEF Opens, Target

\* The steps that only mark or enter a call, and those that open the target's body.
LEMMA UseChained ==
  ASSUME IInv, DrainInv, ChainInv,
         SiblingCall \/ ReceiverCall \/ LazyReceiverCall \/ MarkReceiverMember \/ Convert
  PROVE  ChainInv'
<1>1. stack # <<>> /\ uses' = uses /\ Top.todo # <<>>
  <2>1. stack # <<>> => FrameInv(Top)
    BY BelowFacts DEF IInv
  <2> QED BY <2>1 DEF SiblingCall, ReceiverCall, LazyReceiverCall, MarkReceiverMember, Convert, NextUse, FrameInv
<1>2. ASSUME NEW t \in {UseDone, UseCalling}, stack' = t, lazy_members' = lazy_members,
             Head(Top.todo).kind = "sibling" \/ Top.calling \/ Target \notin lazy_members
      PROVE  ChainInv'
  <2>1. /\ MakingAlive(t) /\ Chained(t) /\ Met(t, lazy_members, {Target})
        /\ Head(Top.todo).kind = "sibling" \/ Top.calling => Met(t, lazy_members, {})
    BY <1>1, <1>2, SameChain
  <2>2. Target \notin lazy_members => Met(t, lazy_members, {})
    BY <2>1 DEF Met
  <2> QED BY <1>1, <1>2, <2>1, <2>2, ChainKept
<1>3. ASSUME NEW t \in {UseDone, UseCalling}, Target \in lazy_members, Materialize(t, Target),
             Head(Top.todo).kind # "sibling"
      PROVE  ChainInv'
  <2>1. MakingAlive(t) /\ Chained(t) /\ Met(t, lazy_members, {Target})
    BY <1>1, <1>3, SameChain
  <2>2. StackInv(t) /\ BodiesOf(t) \subseteq BodiesOf(stack)
    BY <1>1, <1>3, UseFrames
  <2>3. Opens(t[Len(t)].body, Target)
    BY <1>1, <1>3, TargetOpened
  <2> QED BY <1>1, <1>3, <2>1, <2>2, <2>3, ChainOpened
<1>4. \/ /\ stack' = UseDone \/ stack' = UseCalling
         /\ lazy_members' = lazy_members
         /\ Head(Top.todo).kind = "sibling" \/ Top.calling \/ Target \notin lazy_members
      \/ /\ Target \in lazy_members
         /\ Materialize(UseCalling, Target) \/ Materialize(UseDone, Target)
         /\ Head(Top.todo).kind # "sibling"
  BY DEF SiblingCall, ReceiverCall, LazyReceiverCall, MarkReceiverMember, Convert, NextUse
<1> QED BY <1>2, <1>3, <1>4

\* A member that is done with leaves the registry, and no frame further out misses it there:
\* a frame of the same body would have opened its own by a use that this one has not met.
LEMMA FinishChained == ASSUME IInv, ChainInv, FinishMaterialization PROVE ChainInv'
<1> DEFINE m == Top.body
           n == Len(stack)
<1>1. /\ stack # <<>> /\ Top.making /\ ~Top.calling /\ Top.todo = <<>>
      /\ lazy_members' = lazy_members \ {m}
      /\ stack' = IF Below = <<>> THEN <<Frame(m, FALSE)>> ELSE Below
      /\ uses' = uses /\ instantiated' = instantiated
  BY DEF FinishMaterialization, BodyDone, MarkInstantiated
<1>2. /\ n \in Nat \ {0} /\ Top = stack[n] /\ Below \in Seq(FrameType) /\ Len(Below) = n - 1
      /\ \A i \in 1 .. n - 1 : Below[i] = stack[i]
  BY <1>1, TopFacts DEF IInv, StackInv
<1>3. n \in 1 .. n /\ \A i \in 1 .. n - 1 : i \in 1 .. n /\ i + 1 \in 1 .. n /\ i < n
  BY <1>2
<1>4. m \in lazy_members /\ m \in Member /\ m \in Body /\ Class[m] \in instantiated
  BY <1>1, <1>2, <1>3 DEF ChainInv, MakingAlive, IInv, RegistryInv, MembersOf, Body
<1>5. \A u \in UsesOf(m) : u.kind # "sibling" => u.target \notin lazy_members
  <2>1. Left(Top) = {}
    BY <1>1, EmptySeq DEF Left
  <2> QED BY <1>2, <1>3, <2>1 DEF ChainInv, Met
<1>6. \A i \in 1 .. n - 1 : stack[i].body # m
  <2> SUFFICES ASSUME NEW i \in 1 .. n - 1, stack[i].body = m PROVE FALSE
    OBVIOUS
  <2>1. stack[i + 1].making
    <3>1. i + 1 # 1 /\ i + 1 \in 1 .. Len(stack)
      BY <1>2, <1>3
    <3> QED BY <3>1 DEF IInv, StackInv
  <2>2. stack[i + 1].body \in lazy_members
    BY <1>3, <2>1 DEF ChainInv, MakingAlive
  <2>3. Opens(m, stack[i + 1].body)
    BY DEF ChainInv, Chained
  <2> QED BY <1>5, <2>2, <2>3 DEF Opens
<1>7. m = Top.body
  OBVIOUS
<1> HIDE DEF m, n
<1>8. CASE Below = <<>>
  <2> DEFINE f == Frame(m, FALSE)
  <2>1. f.making = FALSE /\ f.body = m /\ f.todo = uses[m] /\ f.calling = FALSE
    BY DEF Frame
  <2> HIDE DEF f
  <2>2. stack' = <<f>>
    BY <1>1, <1>7, <1>8 DEF f
  <2>3. Len(stack') = 1 /\ stack'[1] = f
    BY <2>2
  <2>4. \A i \in 1 .. Len(stack') : i = 1
    BY <2>3
  <2>5. MakingAlive(stack)' /\ Chained(stack)'
    BY <2>1, <2>3, <2>4 DEF MakingAlive, Chained
  <2>6. UsesOf(m) \subseteq Left(f)
    <3>1. DOMAIN uses[m] = 1 .. Len(uses[m])
      BY <1>4, LenProperties, ProgramAssumption DEF IInv, RegistryInv
    <3> QED BY <2>1, <3>1 DEF UsesOf, Left
  <2>7. Met(stack, lazy_members, {})'
    <3>1. \A i \in 1 .. Len(stack') : stack'[i].body = m /\ stack'[i] = f
      BY <2>1, <2>3, <2>4
    <3>2. Met(stack', lazy_members', {})
      BY <2>6, <3>1 DEF Met
    <3>3. uses' = uses
      BY <1>1
    <3> QED BY <3>2, <3>3 DEF Met, UsesOf, Left
  <2> QED BY <2>5, <2>7 DEF ChainInv
<1>9. CASE Below # <<>>
  <2>1. stack' = Below /\ Len(stack') = n - 1 /\ n = Len(stack)
        /\ \A i \in 1 .. n - 1 : stack'[i] = stack[i]
    BY <1>1, <1>2, <1>9 DEF n
  <2>2. \A i \in 1 .. n - 1 : stack[i].making => stack[i].body \in lazy_members'
    BY <1>1, <1>3, <1>6, <1>7, <2>1 DEF ChainInv, MakingAlive
  <2>3. MakingAlive(stack)'
    BY <2>1, <2>2 DEF MakingAlive
  <2>4. Chained(stack)'
    <3>1. \A i \in 1 .. n - 1 - 1 : i \in 1 .. n - 1 /\ i + 1 \in 1 .. n - 1
      BY <1>2 DEF n
    <3>2. \A i \in 1 .. n - 1 - 1 : Opens(stack'[i].body, stack'[i + 1].body)
      BY <2>1, <3>1 DEF ChainInv, Chained
    <3> QED BY <1>1, <2>1, <3>2 DEF Chained, Opens, UsesOf
  <2>5. Met(stack, lazy_members, {})'
    <3>1. ASSUME NEW i \in 1 .. n - 1, NEW u \in UsesOf(stack'[i].body), u.kind # "sibling"
          PROVE  \/ u.target \notin lazy_members' \/ u \in Left(stack'[i])
                 \/ i < n - 1 /\ stack'[i + 1].body = u.target
      <4>1. \/ u.target \notin lazy_members \/ u \in Left(stack[i])
            \/ stack[i + 1].body = u.target
        BY <1>3, <2>1, <3>1 DEF ChainInv, Met
      <4>2. i = n - 1 => stack[i + 1].body = m
        BY <1>2, <1>7, <2>1
      <4>3. i # n - 1 => i < n - 1 /\ i + 1 \in 1 .. n - 1
        BY <1>2, <2>1
      <4> QED BY <1>1, <1>7, <2>1, <4>1, <4>2, <4>3
    <3>2. Met(stack', lazy_members', {})
      BY <2>1, <3>1 DEF Met
    <3>3. uses' = uses
      BY <1>1
    <3> QED BY <3>2, <3>3 DEF Met, UsesOf, Left
  <2> QED BY <2>3, <2>4, <2>5 DEF ChainInv
<1> QED BY <1>8, <1>9

\* An entry of the drain opens the only body there is.
LEMMA DrainChained == ASSUME IInv, DrainInv, ChainInv, NEW m \in Member, DrainEntry(m) PROVE ChainInv'
<1> DEFINE key == ExactKey(Class[m], m)
<1>1. stack = <<>> /\ uses' = uses
  BY DEF DrainEntry, Draining
<1>2. CASE NeedsInstantiation(key) /\ Resolved(key) # {}
  <2>1. PICK t \in Resolved(key) : Materialize(<<>>, t)
    BY <1>2 DEF DrainEntry
  <2>2. t \in lazy_members
    BY ResolvedFacts
  <2>3. StackInv(<<>>) /\ BodiesOf(<<>>) \subseteq BodiesOf(stack)
    BY <1>1 DEF IInv
  <2>4. MakingAlive(<<>>) /\ Chained(<<>>) /\ Met(<<>>, lazy_members, {t}) /\ ~(Len(<<>>) > 0)
    BY EmptySeq DEF MakingAlive, Chained, Met
  <2> QED BY <1>1, <2>1, <2>2, <2>3, <2>4, ChainOpened
<1>3. CASE ~(NeedsInstantiation(key) /\ Resolved(key) # {})
  <2>1. stack' = stack /\ lazy_members' = lazy_members
    BY <1>3 DEF DrainEntry
  <2> QED BY <1>1, <2>1, ChainKept DEF ChainInv
<1> QED BY <1>2, <1>3

LEMMA OtherChained ==
  ASSUME IInv, ChainInv,
         FinishNormalization \/ TakeSnapshot \/ StopDraining \/ Terminated \/ UNCHANGED vars
  PROVE  ChainInv'
<1>1. uses' = uses /\ lazy_members' = lazy_members /\ (stack' = stack \/ stack' = <<>>)
  BY DEF FinishNormalization, TakeSnapshot, StopDraining, Terminated, vars, registry
<1>2. MakingAlive(<<>>) /\ Chained(<<>>) /\ Met(<<>>, lazy_members, {})
  BY EmptySeq DEF MakingAlive, Chained, Met
<1> QED BY <1>1, <1>2, ChainKept DEF ChainInv

LEMMA InitiallyChained == Init => ChainInv
<1> SUFFICES ASSUME Init PROVE ChainInv
  OBVIOUS
<1> DEFINE f == Frame(Root, FALSE)
<1>1. uses \in Programs /\ stack = <<f>>
  BY DEF Init
<1>2. f.making = FALSE /\ f.body = Root /\ f.todo = uses[Root] /\ f.calling = FALSE
  BY DEF Frame
<1> HIDE DEF f
<1>3. Len(stack) = 1 /\ stack[1] = f
  BY <1>1
<1>4. \A i \in 1 .. Len(stack) : i = 1
  BY <1>3
<1>5. MakingAlive(stack) /\ Chained(stack)
  BY <1>2, <1>3, <1>4 DEF MakingAlive, Chained
<1>6. UsesOf(Root) \subseteq Left(f)
  <2>1. DOMAIN uses[Root] = 1 .. Len(uses[Root])
    BY <1>1, LenProperties, ProgramAssumption DEF Body
  <2> QED BY <1>2, <2>1 DEF UsesOf, Left
<1>7. Met(stack, lazy_members, {})
  BY <1>2, <1>3, <1>4, <1>6 DEF Met
<1> QED BY <1>5, <1>7 DEF ChainInv

LEMMA ChainInductive == IInv /\ DrainInv /\ ChainInv /\ [Next]_vars => ChainInv'
<1> SUFFICES ASSUME IInv, DrainInv, ChainInv, [Next]_vars PROVE ChainInv'
  OBVIOUS
<1>1. CASE SiblingCall \/ ReceiverCall \/ LazyReceiverCall \/ MarkReceiverMember \/ Convert
  BY <1>1, UseChained
<1>2. CASE FinishMaterialization BY <1>2, FinishChained
<1>3. CASE \E m \in Member : DrainEntry(m) BY <1>3, DrainChained
<1>4. CASE FinishNormalization \/ TakeSnapshot \/ StopDraining \/ Terminated \/ UNCHANGED vars
  BY <1>4, OtherChained
<1> QED BY <1>1, <1>2, <1>3, <1>4 DEF Next

LEMMA ChainInvariant == Spec => [](IInv /\ ChainInv)
<1>1. Init => IInv /\ DrainInv /\ ChainInv
  BY Initially, InitiallyServed, InitiallyChained
<1>2. IInv /\ DrainInv /\ ChainInv /\ [Next]_vars => (IInv /\ DrainInv /\ ChainInv)'
  BY Inductive, ServedInductive, ChainInductive
<1> QED BY <1>1, <1>2, PTL DEF Spec

NonRecursive ==
  \A p \in Programs : \E r \in [Body -> Nat] :
    \A b \in Body : \A i \in DOMAIN p[b] :
      p[b][i].kind # "sibling" => r[b] < r[p[b][i].target]

\* Induction: every set that holds 0 and is closed under successors holds every number.
LEMMA NaturalInduction ==
  ASSUME NEW S, 0 \in S, \A n \in Nat : n \in S => n + 1 \in S
  PROVE  \A n \in Nat : n \in S
<1> SUFFICES ASSUME Nat \ S # {} PROVE FALSE
  OBVIOUS
<1> DEFINE T == Nat \ S
<1>1. PICK x \in T : \A y \in T : ~(<<y, x>> \in OpToRel(<, Nat))
  BY NatLessThanWellFounded, WFMin
<1>2. \A y \in T : ~(y < x)
  BY <1>1 DEF OpToRel
<1>3. x \in T
  BY <1>1
<1> HIDE DEF T
<1>4. x \in Nat /\ x \notin S
  BY <1>3 DEF T
<1>5. CASE x = 0
  BY <1>4, <1>5
<1>6. CASE x # 0
  <2>1. x - 1 \in Nat /\ x - 1 < x /\ (x - 1) + 1 = x
    BY <1>4, <1>6
  <2>2. x - 1 \notin T
    BY <1>2, <2>1
  <2> QED BY <1>4, <2>1, <2>2 DEF T
<1> QED BY <1>5, <1>6

\* Ranks rise along a chain.
LEMMA RisingRanks ==
  ASSUME IInv, Chained(stack), NEW r \in [Body -> Nat],
         \A b \in Body : \A u \in UsesOf(b) : u.kind # "sibling" => r[b] < r[u.target],
         NEW i \in 1 .. Len(stack), NEW j \in 1 .. Len(stack), i < j
  PROVE  stack[i].body # stack[j].body
<1>1. stack \in Seq(FrameType) /\ Len(stack) \in Nat
  BY LenProperties DEF IInv, StackInv
<1>2. \A k \in 1 .. Len(stack) : stack[k].body \in Body /\ r[stack[k].body] \in Nat
  <2>1. \A k \in 1 .. Len(stack) : stack[k] \in FrameType
    BY <1>1, ElementOfSeq
  <2> QED BY <2>1 DEF FrameType
<1>3. \A k \in 1 .. Len(stack) - 1 : r[stack[k].body] < r[stack[k + 1].body]
  <2>1. \A k \in 1 .. Len(stack) - 1 : k \in 1 .. Len(stack)
    BY <1>1
  <2> QED BY <1>2, <2>1 DEF Chained, Opens
<1> DEFINE S == {n \in Nat : i + n + 1 <= Len(stack) => r[stack[i].body] < r[stack[i + n + 1].body]}
<1>4. 0 \in S
  <2>1. i + 0 + 1 = i + 1 /\ (i + 1 <= Len(stack) => i \in 1 .. Len(stack) - 1)
    BY <1>1
  <2> QED BY <1>3, <2>1
<1>5. ASSUME NEW n \in Nat, n \in S PROVE n + 1 \in S
  <2> DEFINE k == i + n + 1
  <2> SUFFICES ASSUME k + 1 <= Len(stack) PROVE r[stack[i].body] < r[stack[k + 1].body]
    OBVIOUS
  <2>1. k \in 1 .. Len(stack) - 1 /\ k \in 1 .. Len(stack) /\ k + 1 \in 1 .. Len(stack)
    BY <1>1
  <2>2. r[stack[i].body] < r[stack[k].body]
    BY <1>1, <1>5, <2>1
  <2>3. r[stack[k].body] < r[stack[k + 1].body]
    BY <1>3, <2>1
  <2>4. /\ r[stack[i].body] \in Nat /\ r[stack[k].body] \in Nat
        /\ r[stack[k + 1].body] \in Nat
    BY <1>2, <2>1
  <2> HIDE DEF k
  <2> QED BY <2>2, <2>3, <2>4
<1> HIDE DEF S
<1>6. j - i - 1 \in S
  <2>1. j - i - 1 \in Nat
    BY <1>1
  <2> QED BY <1>4, <1>5, <2>1, NaturalInduction
<1>7. r[stack[i].body] < r[stack[j].body]
  <2>1. i + (j - i - 1) + 1 = j
    BY <1>1
  <2> QED BY <1>1, <1>6, <2>1 DEF S
<1> QED BY <1>2, <1>7

LEMMA Distinct == NonRecursive /\ IInv /\ ChainInv => NoReentrantMaterialization
<1> SUFFICES ASSUME NonRecursive, IInv, ChainInv, NEW i \in DOMAIN stack, NEW j \in DOMAIN stack,
                    stack[i].body = stack[j].body, i # j
             PROVE  FALSE
  BY DEF NoReentrantMaterialization
<1>1. i \in 1 .. Len(stack) /\ j \in 1 .. Len(stack) /\ (i < j \/ j < i)
  BY LenProperties DEF IInv, StackInv
<1>2. PICK r \in [Body -> Nat] :
        \A b \in Body : \A k \in DOMAIN uses[b] :
          uses[b][k].kind # "sibling" => r[b] < r[uses[b][k].target]
  BY DEF NonRecursive, IInv, RegistryInv
<1>3. \A b \in Body : \A u \in UsesOf(b) : u.kind # "sibling" => r[b] < r[u.target]
  BY <1>2 DEF UsesOf
<1> QED BY <1>1, <1>3, RisingRanks DEF ChainInv

\* Materializing a member lands back in its own materialization only in a program that is
\* recursive through receivers and conversions.
THEOREM NoReentry == NonRecursive /\ Spec => []NoReentrantMaterialization
<1> SUFFICES ASSUME NonRecursive PROVE Spec => []NoReentrantMaterialization
  OBVIOUS
<1>1. IInv /\ ChainInv => NoReentrantMaterialization
  BY Distinct
<1> QED BY <1>1, ChainInvariant, PTL

-------------------------------------------------------------------------------
(* Each body is registered once.  A member stays in the registry after its body has been   *)
(* registered, until its frame returns; whoever looks it up meanwhile would open it again.  *)
(* What keeps that from happening is that its frame is on the stack, where no other of the  *)
(* same body may be.                                                                       *)

NormalizedAgain(t) == {t[i].body : i \in {j \in 1 .. Len(t) : ~t[j].making}}

OnceInv ==
  /\ \A m \in Member : bodies[m] > 0 => bodies[m] = 1 /\ Class[m] \in instantiated
  /\ \A m \in lazy_members : bodies[m] > 0 => m \in BodiesOf(stack)
  /\ NormalizedAgain(stack) \cap lazy_members = {}

\* A step that opens no body, or opens a live one on top of the same bodies.
LEMMA OnceKept ==
  ASSUME IInv, OnceInv, NoReentrantMaterialization', NEW t, StackInv(t),
         BodiesOf(t) = BodiesOf(stack), NormalizedAgain(t) = NormalizedAgain(stack),
         \/ /\ stack' = t /\ lazy_members' = lazy_members /\ instantiated' = instantiated
            /\ bodies' = bodies
         \/ \E m \in lazy_members : Materialize(t, m)
  PROVE  OnceInv'
<1>0. BodiesOf(stack)' = BodiesOf(stack') /\ NormalizedAgain(stack)' = NormalizedAgain(stack')
  BY DEF BodiesOf, NormalizedAgain
<1>1. CASE stack' = t /\ lazy_members' = lazy_members /\ instantiated' = instantiated /\ bodies' = bodies
  BY <1>0, <1>1 DEF OnceInv
<1>2. ASSUME NEW m \in lazy_members, Materialize(t, m) PROVE OnceInv'
  <2> DEFINE f == Frame(m, TRUE)
             n == Len(t)
  <2>1. /\ stack' = Append(t, f) /\ lazy_members' = lazy_members \cup Fresh(m)
        /\ instantiated' = instantiated \cup ClassesNamed(m)
        /\ bodies' = [bodies EXCEPT ![m] = IF @ = 0 THEN 1 ELSE 2]
    BY <1>2 DEF Materialize, RegisterBody
  <2>2. m \in Member /\ m \in Body /\ Class[m] \in instantiated /\ uses \in Programs
        /\ lazy_members \subseteq Member
    BY <1>2 DEF IInv, RegistryInv, MembersOf, Body
  <2>3. f \in FrameType /\ f.body = m /\ f.making
    BY <2>2, BodyFrame
  <2> HIDE DEF f
  <2>4. /\ t \in Seq(FrameType) /\ n \in Nat /\ stack' \in Seq(FrameType) /\ Len(stack') = n + 1
        /\ stack'[n + 1] = f /\ \A i \in 1 .. n : stack'[i] = t[i]
    BY <2>1, <2>3, AppendProperties, LenProperties DEF StackInv
  <2>5. n = Len(t) /\ DOMAIN stack' = 1 .. n + 1
    BY <2>4, LenProperties
  <2> HIDE DEF n
  <2>6. BodiesOf(stack') = BodiesOf(stack) \cup {m}
    BY <1>2, <2>2, Materialized
  <2>7. m \notin BodiesOf(stack)
    <3> SUFFICES ASSUME NEW i \in 1 .. n, t[i].body = m PROVE FALSE
      BY <2>5 DEF BodiesOf
    <3>1. i \in DOMAIN stack' /\ n + 1 \in DOMAIN stack' /\ i # n + 1
      BY <2>4, <2>5
    <3>2. stack'[i].body = stack'[n + 1].body
      BY <2>3, <2>4
    <3> QED BY <3>1, <3>2 DEF NoReentrantMaterialization
  <2>8. bodies \in [Member -> 0 .. 2] /\ bodies[m] = 0
    BY <1>2, <2>2, <2>7 DEF IInv, RegistryInv, OnceInv
  <2>9. \A x \in Member : bodies'[x] = IF x = m THEN 1 ELSE bodies[x]
    BY <2>1, <2>2, <2>8
  <2>10. \A x \in Fresh(m) : x \in Member /\ bodies[x] = 0
    <3>1. \A x \in Fresh(m) : x \in Member /\ Class[x] \notin instantiated
      BY DEF Fresh, MembersOf
    <3> QED BY <2>8, <3>1 DEF OnceInv
  <2>11. \A x \in Member : bodies'[x] > 0 => bodies'[x] = 1 /\ Class[x] \in instantiated'
    BY <2>1, <2>2, <2>9 DEF OnceInv
  <2>12. \A x \in lazy_members' : bodies'[x] > 0 => x \in BodiesOf(stack')
    <3> SUFFICES ASSUME NEW x \in lazy_members', bodies'[x] > 0, x # m PROVE x \in BodiesOf(stack')
      BY <2>6
    <3>1. x \in Member /\ bodies[x] > 0
      BY <2>1, <2>2, <2>9, <2>10
    <3>2. x \in lazy_members
      BY <2>1, <2>10, <3>1
    <3> QED BY <2>6, <3>1, <3>2 DEF OnceInv
  <2>13. NormalizedAgain(stack') = NormalizedAgain(stack)
    <3>1. \A i \in 1 .. n + 1 : i \in 1 .. n \/ i = n + 1
      BY <2>4
    <3>2. 1 .. n \subseteq 1 .. n + 1
      BY <2>4
    <3>3. NormalizedAgain(stack') = {stack'[i].body : i \in {j \in 1 .. n : ~t[j].making}}
      BY <2>3, <2>4, <3>1, <3>2 DEF NormalizedAgain
    <3> QED BY <2>4, <2>5, <3>3 DEF NormalizedAgain
  <2>14. NormalizedAgain(stack) \cap Fresh(m) = {}
    <3> SUFFICES ASSUME NEW i \in 1 .. Len(stack), stack[i].body \in Fresh(m) PROVE FALSE
      BY DEF NormalizedAgain
    <3>1. stack[i].body \in Member /\ bodies[stack[i].body] > 0
      BY <2>10, MemberAssumption DEF IInv, OpenRegistered, BodiesOf
    <3> QED BY <2>10, <3>1
  <2>15. NormalizedAgain(stack') \cap lazy_members' = {}
    BY <2>1, <2>13, <2>14 DEF OnceInv
  <2> QED BY <1>0, <2>11, <2>12, <2>15 DEF OnceInv
<1> QED BY <1>1, <1>2

\* A use that is taken leaves what is on the stack.
LEMMA UseFramesAgain ==
  ASSUME IInv, stack # <<>>, Top.todo # <<>>, NEW t \in {UseDone, UseCalling}
  PROVE  /\ StackInv(t) /\ BodiesOf(t) = BodiesOf(stack)
         /\ NormalizedAgain(t) = NormalizedAgain(stack)
<1> DEFINE n == Len(stack)
<1>1. Len(t) = n /\ \A i \in 1 .. n : t[i].body = stack[i].body /\ t[i].making = stack[i].making
  BY SameFrames
<1> HIDE DEF n
<1>2. n = Len(stack)
  BY DEF n
<1>3. NormalizedAgain(t) = NormalizedAgain(stack)
  BY <1>1, <1>2 DEF NormalizedAgain
<1> QED BY <1>3, UseFrames

LEMMA UseOnce ==
  ASSUME IInv, OnceInv, NoReentrantMaterialization',
         SiblingCall \/ ReceiverCall \/ LazyReceiverCall \/ MarkReceiverMember \/ Convert
  PROVE  OnceInv'
<1>1. stack # <<>> /\ Top.todo # <<>>
  <2>1. stack # <<>> => FrameInv(Top)
    BY BelowFacts DEF IInv
  <2> QED BY <2>1 DEF SiblingCall, ReceiverCall, LazyReceiverCall, MarkReceiverMember, Convert, NextUse, FrameInv
<1>2. PICK t \in {UseDone, UseCalling} :
        \/ /\ stack' = t /\ lazy_members' = lazy_members /\ instantiated' = instantiated
           /\ bodies' = bodies
        \/ Target \in lazy_members /\ Materialize(t, Target)
  BY DEF SiblingCall, ReceiverCall, LazyReceiverCall, MarkReceiverMember, Convert
<1> QED BY <1>1, <1>2, UseFramesAgain, OnceKept

LEMMA DrainOnce ==
  ASSUME IInv, OnceInv, NoReentrantMaterialization', NEW m \in Member, DrainEntry(m)
  PROVE  OnceInv'
<1>1. stack = <<>> /\ StackInv(stack)
  BY DEF DrainEntry, Draining, IInv
<1>2. \/ /\ stack' = stack /\ lazy_members' = lazy_members /\ instantiated' = instantiated
         /\ bodies' = bodies
      \/ \E t \in lazy_members : Materialize(stack, t)
  BY <1>1, ResolvedFacts DEF DrainEntry
<1> QED BY <1>1, <1>2, OnceKept

\* The member of a frame that returns is no longer live.
LEMMA FinishOnce == ASSUME IInv, OnceInv, FinishMaterialization PROVE OnceInv'
<1> DEFINE m == Top.body
<1>1. /\ stack # <<>> /\ Top.making
      /\ lazy_members' = lazy_members \ {m}
      /\ stack' = IF Below = <<>> THEN <<Frame(m, FALSE)>> ELSE Below
      /\ instantiated' = instantiated /\ bodies' = bodies
  BY DEF FinishMaterialization, BodyDone, MarkInstantiated
<1>2. /\ Len(stack) \in Nat \ {0} /\ Len(Below) = Len(stack) - 1
      /\ \A i \in 1 .. Len(stack) - 1 : Below[i] = stack[i]
      /\ BodiesOf(stack) = BodiesOf(Below) \cup {m}
  BY <1>1, TopFacts, BelowFacts DEF IInv, StackInv
<1> HIDE DEF m
<1>3. BodiesOf(stack) \subseteq BodiesOf(stack') \cup {m} /\ NormalizedAgain(stack') \subseteq NormalizedAgain(stack) \cup {m}
  <2>1. CASE Below = <<>>
    <3> DEFINE f == Frame(m, FALSE)
    <3>1. f.body = m
      BY DEF Frame
    <3> HIDE DEF f
    <3>2. stack' = <<f>>
      BY <1>1, <2>1 DEF f
    <3>3. Len(stack') = 1 /\ stack'[1] = f
      BY <3>2
    <3>4. \A i \in 1 .. Len(stack') : stack'[i].body = m
      BY <3>1, <3>3
    <3>5. BodiesOf(Below) = {}
      BY <2>1 DEF BodiesOf
    <3> QED BY <1>2, <3>4, <3>5 DEF NormalizedAgain
  <2>2. CASE Below # <<>>
    <3>1. stack' = Below
      BY <1>1, <2>2
    <3>2. 1 .. Len(stack) - 1 \subseteq 1 .. Len(stack)
      BY <1>2
    <3>3. NormalizedAgain(Below) \subseteq NormalizedAgain(stack)
      BY <1>2, <3>2 DEF NormalizedAgain
    <3> QED BY <1>2, <3>1, <3>3
  <2> QED BY <2>1, <2>2
<1>4. BodiesOf(stack)' = BodiesOf(stack') /\ NormalizedAgain(stack)' = NormalizedAgain(stack')
  BY DEF BodiesOf, NormalizedAgain
<1> QED BY <1>1, <1>3, <1>4 DEF OnceInv

\* The outermost frame returns: its body has left the registry.
LEMMA OtherOnce ==
  ASSUME IInv, OnceInv,
         FinishNormalization \/ TakeSnapshot \/ StopDraining \/ Terminated \/ UNCHANGED vars
  PROVE  OnceInv'
<1>1. bodies' = bodies /\ instantiated' = instantiated /\ lazy_members' = lazy_members
  BY DEF FinishNormalization, TakeSnapshot, StopDraining, Terminated, vars, registry
<1>2. CASE stack' = stack
  BY <1>1, <1>2 DEF OnceInv, BodiesOf, NormalizedAgain
<1>3. CASE FinishNormalization
  <2>1. stack # <<>> /\ ~Top.making /\ stack' = <<>>
    BY <1>3 DEF FinishNormalization, BodyDone
  <2>2. /\ Below = <<>> /\ BodiesOf(stack) = BodiesOf(Below) \cup {Top.body}
        /\ Top = stack[Len(stack)] /\ Len(stack) \in 1 .. Len(stack)
    BY <2>1, TopFacts, BelowFacts DEF IInv, StackInv
  <2>3. BodiesOf(stack) = {Top.body}
    BY <2>2 DEF BodiesOf
  <2>4. Top.body \in NormalizedAgain(stack)
    BY <2>1, <2>2 DEF NormalizedAgain
  <2>5. \A x \in lazy_members : ~(bodies[x] > 0)
    BY <2>3, <2>4 DEF OnceInv
  <2>6. NormalizedAgain(stack)' = {}
    BY <2>1, EmptySeq DEF NormalizedAgain
  <2> QED BY <1>1, <2>5, <2>6 DEF OnceInv
<1> QED BY <1>2, <1>3 DEF TakeSnapshot, StopDraining, Terminated, vars

LEMMA InitiallyOnce == Init => OnceInv
<1> SUFFICES ASSUME Init PROVE OnceInv
  OBVIOUS
<1>1. /\ bodies = [m \in Member |-> 0] /\ stack = <<Frame(Root, FALSE)>>
      /\ lazy_members \subseteq Member
  BY DEF Init, MembersOf
<1>2. \A m \in Member : ~(bodies[m] > 0)
  <2> TAKE m \in Member
  <2>1. bodies[m] = 0
    BY <1>1
  <2> QED BY <2>1
<1>3. NormalizedAgain(stack) \subseteq {Root}
  <2> DEFINE f == Frame(Root, FALSE)
  <2>1. f.body = Root
    BY DEF Frame
  <2> HIDE DEF f
  <2>2. stack = <<f>>
    BY <1>1 DEF f
  <2>3. \A i \in 1 .. Len(stack) : stack[i].body = Root
    BY <2>1, <2>2
  <2> QED BY <2>3 DEF NormalizedAgain
<1>4. NormalizedAgain(stack) \cap lazy_members = {}
  BY <1>1, <1>3, MemberAssumption
<1>5. \A m \in lazy_members : ~(bodies[m] > 0)
  <2>1. lazy_members \subseteq Member
    BY <1>1
  <2> QED BY <1>2, <2>1, Zenon
<1> QED BY <1>2, <1>4, <1>5, Zenon DEF OnceInv

LEMMA OnceInductive == IInv /\ OnceInv /\ NoReentrantMaterialization' /\ [Next]_vars => OnceInv'
<1> SUFFICES ASSUME IInv, OnceInv, NoReentrantMaterialization', [Next]_vars PROVE OnceInv'
  OBVIOUS
<1>1. CASE SiblingCall \/ ReceiverCall \/ LazyReceiverCall \/ MarkReceiverMember \/ Convert
  BY <1>1, UseOnce
<1>2. CASE FinishMaterialization BY <1>2, FinishOnce
<1>3. CASE \E m \in Member : DrainEntry(m) BY <1>3, DrainOnce
<1>4. CASE FinishNormalization \/ TakeSnapshot \/ StopDraining \/ Terminated \/ UNCHANGED vars
  BY <1>4, OtherOnce
<1> QED BY <1>1, <1>2, <1>3, <1>4 DEF Next

\* In a program that is not recursive no body is registered for code generation twice,
\* although a member keeps its place in the registry while its registered body is
\* normalized: no call, conversion or drained entry lands on it meanwhile.
THEOREM RegisteredOnce == NonRecursive /\ Spec => []EachBodyOnce
<1>1. IInv /\ OnceInv => EachBodyOnce
  <2> SUFFICES ASSUME IInv, OnceInv, NEW m \in Member PROVE bodies[m] <= 1
    BY DEF EachBodyOnce
  <2>1. bodies[m] \in 0 .. 2 /\ (bodies[m] > 0 => bodies[m] = 1)
    BY DEF IInv, RegistryInv, OnceInv
  <2> QED BY <2>1
<1>2. NonRecursive /\ Spec => []OnceInv
  BY InitiallyOnce, OnceInductive, Invariant, NoReentry, PTL DEF Spec
<1> QED BY <1>1, <1>2, Invariant, PTL

===============================================================================

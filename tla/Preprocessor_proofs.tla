-------------------------- MODULE Preprocessor_proofs --------------------------
(***************************************************************************)
(* Whatever the sources: the state of the reader is well typed, a group    *)
(* inside a skipped branch stays skipped, the line map is the tree of      *)
(* inclusions, the lines read are those the standard would read, a header  *)
(* read once leaves its lines once, and balanced packing pragmas have the  *)
(* packing in force that the source asks for.                              *)
(***************************************************************************)
EXTENDS Preprocessor, SequenceTheorems, FiniteSetTheorems, WellFoundedInduction, TLAPS

\* Last and Front of the community modules, as the provers need them.
LEMMA LastFrontProperties ==
  ASSUME NEW S, NEW s \in Seq(S), s # <<>>
  PROVE  /\ Len(s) \in Nat /\ Len(s) > 0
         /\ Last(s) = s[Len(s)] /\ Last(s) \in S
         /\ Front(s) \in Seq(S) /\ Len(Front(s)) = Len(s) - 1
         /\ \A i \in 1 .. Len(s) - 1 : Front(s)[i] = s[i]
<1>1. Len(s) \in Nat /\ Len(s) > 0
  BY LenProperties, EmptySeq
<1>2. Last(s) = s[Len(s)] /\ Last(s) \in S
  BY <1>1, ElementOfSeq DEF Last
<1>3. \A i \in 1 .. Len(s) - 1 : s[i] \in S
  BY <1>1, ElementOfSeq
<1> DEFINE n == Len(s) - 1
           t == SubSeq(s, 1, n)
<1>4. n \in Nat
  BY <1>1
<1>5. /\ t \in Seq(S) /\ Len(t) = IF 1 <= n THEN n - 1 + 1 ELSE 0
      /\ \A i \in 1 .. n - 1 + 1 : t[i] = s[1 + i - 1]
  BY <1>3, <1>4, SubSeqProperties
<1>6. Front(s) = t
  BY DEF Front
<1> HIDE DEF t, n
<1>7. Len(t) = n
  BY <1>4, <1>5
<1>8. \A i \in 1 .. n : t[i] = s[i]
  <2> TAKE i \in 1 .. n
  <2>1. i \in 1 .. n - 1 + 1 /\ 1 + i - 1 = i
    BY <1>4
  <2> QED BY <1>5, <2>1
<1>9. Front(s) \in Seq(S) /\ Len(Front(s)) = n /\ \A i \in 1 .. n : Front(s)[i] = s[i]
  BY <1>5, <1>6, <1>7, <1>8
<1> QED BY <1>1, <1>2, <1>9 DEF n

\* Replacing the innermost entry of a stack of Booleans.
LEMMA ReplacedTop ==
  ASSUME NEW s \in Seq(BOOLEAN), s # <<>>, NEW b \in BOOLEAN
  PROVE  /\ Append(Front(s), b) \in Seq(BOOLEAN)
         /\ Len(Append(Front(s), b)) = Len(s)
         /\ \A i \in 1 .. Len(s) - 1 : Append(Front(s), b)[i] = s[i]
         /\ Append(Front(s), b)[Len(s)] = b
<1>1. /\ Len(s) \in Nat /\ Len(s) > 0
      /\ Front(s) \in Seq(BOOLEAN) /\ Len(Front(s)) = Len(s) - 1
      /\ \A i \in 1 .. Len(s) - 1 : Front(s)[i] = s[i]
  BY LastFrontProperties
<1>2. /\ Append(Front(s), b) \in Seq(BOOLEAN)
      /\ Len(Append(Front(s), b)) = Len(Front(s)) + 1
      /\ \A i \in 1 .. Len(Front(s)) : Append(Front(s), b)[i] = Front(s)[i]
      /\ Append(Front(s), b)[Len(Front(s)) + 1] = b
  BY <1>1, AppendProperties
<1> QED BY <1>1, <1>2

-----------------------------------------------------------------------------
\* The parent line of the i-th file of the include stack: saved by the file above it.
ParentOf(stack, parent, i) == IF i = Len(stack) THEN parent ELSE stack[i + 1].savedParent

\* Below a skipped level everything is skipped, and no branch there is still open for
\* choice: that is why no #elif or #else can turn reading back on.
Nested(f) == \A a, b \in 1 .. Len(f.skip) :
                (a < b /\ f.skip[a]) => (f.skip[b] /\ f.cond[b])

FrameInv(f) == /\ f.pos <= Len(program[f.path])
               /\ Len(f.skip) = Len(f.cond)
               /\ Nested(f)

\* Everything but the shape of the line map.
StateInv ==
  /\ program \in Programs
  /\ frames \in Seq(FrameType)
  /\ Len(frames) <= MaxDepth
  /\ \A i \in 1 .. Len(frames) : FrameInv(frames[i])
  /\ cur \in DOMAIN program
  /\ curParent \in 0 .. Len(out)
  /\ out \in Seq([what : {"text", "blank", "include", "pack"}, arg : PackArgs, file : DOMAIN program,
                  line : Nat, parent : Nat, depth : Nat, at : (DOMAIN program) \X Nat])
  /\ failed \in BOOLEAN
  /\ pack \in [align : Nat, stack : Seq(Nat)]
  /\ parsed \in 0 .. Len(out)

OutType == [what : {"text", "blank", "include", "pack"}, arg : PackArgs, file : DOMAIN program,
            line : Nat, parent : Nat, depth : Nat, at : (DOMAIN program) \X Nat]

\* The inclusions that are still open hang on the lines read since.
OpenIn(stack, parent, map) ==
  \A i \in 1 .. Len(stack) :
    LET p == ParentOf(stack, parent, i)
    IN  /\ i = 1 => p = 0
        /\ i > 1 => /\ p \in 1 .. Len(map)
                    /\ map[p].what = "include" /\ map[p].depth = i - 1
                    /\ \A j \in (p + 1) .. Len(map) : map[j].depth >= i

\* LineMapIsATree, for any line map.
Tree(map) ==
  \A i \in 1 .. Len(map) :
    LET p == map[i].parent
    IN  /\ p = 0 <=> map[i].depth = 1
        /\ p # 0 => /\ p < i
                    /\ map[p].what = "include" /\ map[p].depth = map[i].depth - 1
                    /\ \A j \in (p + 1) .. i : map[j].depth >= map[i].depth

TreeInv == OpenIn(frames, curParent, out) /\ Tree(out)

IInv == StateInv /\ TreeInv

-----------------------------------------------------------------------------
\* The innermost file.
LEMMA TopFacts ==
  ASSUME StateInv, frames # <<>>
  PROVE  /\ Len(frames) \in Nat /\ Len(frames) > 0
         /\ Top = frames[Len(frames)] /\ Top \in FrameType /\ FrameInv(Top)
         /\ Front(frames) \in Seq(FrameType) /\ Len(Front(frames)) = Len(frames) - 1
         /\ \A i \in 1 .. Len(frames) - 1 : Front(frames)[i] = frames[i]
<1>1. /\ Len(frames) \in Nat /\ Len(frames) > 0
      /\ Last(frames) = frames[Len(frames)] /\ Last(frames) \in FrameType
      /\ Front(frames) \in Seq(FrameType) /\ Len(Front(frames)) = Len(frames) - 1
      /\ \A i \in 1 .. Len(frames) - 1 : Front(frames)[i] = frames[i]
  BY LastFrontProperties DEF StateInv
<1>2. Len(frames) \in 1 .. Len(frames)
  BY <1>1
<1> QED BY <1>1, <1>2 DEF StateInv, Top

\* The line is well formed, and the frame that has read it is well typed.
LEMMA ReadFacts ==
  ASSUME StateInv, Reading
  PROVE  /\ frames # <<>> /\ WellFormedLine(Line) /\ Kind \in Kinds /\ Truth \in BOOLEAN
         /\ Read \in FrameType /\ FrameInv(Read)
         /\ Read.number \in Nat \ {0} /\ Read.savedParent = Top.savedParent
         /\ Read.path = Top.path /\ Read.skip = Top.skip /\ Read.cond = Top.cond
<1>1. frames # <<>> /\ Top \in FrameType /\ FrameInv(Top) /\ Top.pos < Len(program[Top.path])
  BY TopFacts DEF Reading
<1>2. /\ Top.pos \in Nat /\ Top.number \in Nat /\ Top.path \in DOMAIN program
      /\ Len(program[Top.path]) \in Nat
  BY <1>1, PreprocessorAssumption DEF FrameType, StateInv
<1>3. Top.pos + 1 \in 1 .. Len(program[Top.path])
  BY <1>1, <1>2
<1>4. WellFormedLine(Line)
  BY <1>2, <1>3, PreprocessorAssumption DEF Line, StateInv
<1>5. Kind \in Kinds
  BY <1>4 DEF Kind, WellFormedLine, Kinds
<1>6. Truth \in BOOLEAN
  BY DEF Truth, Holds
<1> DEFINE S == Append(Top.seen, [kind |-> Kind, truth |-> Truth])
<1>7. S \in Seq([kind : Kinds, truth : BOOLEAN])
  BY <1>1, <1>5, <1>6, AppendProperties DEF FrameType
<1>8. Read = [Top EXCEPT !.pos = Top.pos + 1, !.number = Top.number + 1, !.inComment = FALSE,
                         !.seen = S]
  BY <1>1 DEF Read, FrameType
<1>9. Top.pos + 1 \in Nat /\ Top.number + 1 \in Nat
  BY <1>2
<1>10. /\ Read \in FrameType
       /\ Read.pos = Top.pos + 1 /\ Read.number = Top.number + 1
       /\ Read.savedParent = Top.savedParent
       /\ Read.path = Top.path /\ Read.skip = Top.skip /\ Read.cond = Top.cond
  <2> DEFINE P == DOMAIN program
             SB == Seq(BOOLEAN)
             SS == Seq([kind : Kinds, truth : BOOLEAN])
             R == 0 .. Len(out)
  <2>1. FrameType = [path : P, name : Paths, number : Nat, pos : Nat, skip : SB, cond : SB,
                     inComment : BOOLEAN, savedFile : P, savedParent : R, seen : SS]
    BY DEF FrameType
  <2>2. S \in SS /\ Top \in FrameType
    BY <1>1, <1>7
  <2> HIDE DEF S, P, SB, SS, R
  <2> QED BY <1>8, <1>9, <2>1, <2>2
<1>11. FrameInv(Read)
  BY <1>1, <1>2, <1>10 DEF FrameInv, Nested
<1> QED BY <1>1, <1>2, <1>4, <1>5, <1>6, <1>10, <1>11

\* One more preprocessed line.
LEMMA EmittedFacts ==
  ASSUME StateInv, Reading, NEW what \in {"text", "blank", "include", "pack"},
         NEW arg \in PackArgs, out' = Emitted(what, arg)
  PROVE  /\ out' \in Seq(OutType) /\ Len(out) \in Nat /\ Len(out') = Len(out) + 1
         /\ \A i \in 1 .. Len(out) : out'[i] = out[i]
         /\ out'[Len(out')].what = what /\ out'[Len(out')].depth = Len(frames)
         /\ out'[Len(out')].parent = curParent
         /\ out'[Len(out')].file = cur /\ out'[Len(out')].line = Read.number
<1> DEFINE e == [what |-> what, arg |-> arg, file |-> cur, line |-> Read.number,
                 parent |-> curParent, depth |-> Len(frames), at |-> <<Top.path, Read.pos>>]
<1>1. out \in Seq(OutType) /\ Len(out) \in Nat /\ curParent \in Nat /\ cur \in DOMAIN program
  BY LenProperties DEF StateInv, OutType
<1>2. Len(frames) \in Nat /\ Top.path \in DOMAIN program /\ Read.pos \in Nat /\ Read.number \in Nat
  BY ReadFacts, TopFacts DEF FrameType
<1>3. e \in OutType
  BY <1>1, <1>2 DEF OutType
<1>4. out' = Append(out, e)
  BY DEF Emitted
<1> HIDE DEF e
<1>5. /\ out' \in Seq(OutType) /\ Len(out') = Len(out) + 1
      /\ \A i \in 1 .. Len(out) : out'[i] = out[i]
      /\ out'[Len(out) + 1] = e
  BY <1>1, <1>3, <1>4, AppendProperties
<1>6. out'[Len(out')] = e
  BY <1>1, <1>5
<1> QED BY <1>1, <1>5, <1>6 DEF e

-----------------------------------------------------------------------------
\* A line that the innermost file adds to the map keeps it a tree.
LEMMA GrownTree ==
  ASSUME NEW stack \in Seq(FrameType), NEW parent \in Nat, NEW map \in Seq(OutType),
         NEW new \in Seq(OutType), Len(stack) > 0,
         OpenIn(stack, parent, map), Tree(map),
         Len(new) = Len(map) + 1, \A i \in 1 .. Len(map) : new[i] = map[i],
         new[Len(new)].depth = Len(stack), new[Len(new)].parent = parent
  PROVE  OpenIn(stack, parent, new) /\ Tree(new)
<1> DEFINE n == Len(map) + 1
           d == Len(stack)
<1>1. Len(map) \in Nat /\ Len(stack) \in Nat /\ d \in Nat /\ d > 0
  BY LenProperties
<1>2. /\ ParentOf(stack, parent, d) = parent
      /\ d = 1 => parent = 0
      /\ d > 1 => /\ parent \in 1 .. Len(map)
                  /\ map[parent].what = "include" /\ map[parent].depth = d - 1
                  /\ \A j \in (parent + 1) .. Len(map) : map[j].depth >= d
  <2>1. d \in 1 .. Len(stack)
    BY <1>1
  <2> QED BY <2>1 DEF OpenIn, ParentOf
<1>3. OpenIn(stack, parent, new)
  <2> SUFFICES ASSUME NEW i \in 1 .. Len(stack)
               PROVE  LET p == ParentOf(stack, parent, i)
                      IN  /\ i = 1 => p = 0
                          /\ i > 1 => /\ p \in 1 .. Len(new)
                                      /\ new[p].what = "include" /\ new[p].depth = i - 1
                                      /\ \A j \in (p + 1) .. Len(new) : new[j].depth >= i
    BY DEF OpenIn
  <2> DEFINE p == ParentOf(stack, parent, i)
  <2>1. /\ i = 1 => p = 0
        /\ i > 1 => /\ p \in 1 .. Len(map)
                    /\ map[p].what = "include" /\ map[p].depth = i - 1
                    /\ \A j \in (p + 1) .. Len(map) : map[j].depth >= i
    BY DEF OpenIn
  <2> HIDE DEF p
  <2>2. ASSUME i > 1 PROVE \A j \in (p + 1) .. Len(new) : new[j].depth >= i
    <3> TAKE j \in (p + 1) .. Len(new)
    <3>1. CASE j = Len(new)
      BY <1>1, <3>1
    <3>2. CASE j # Len(new)
      <4>1. j \in (p + 1) .. Len(map) /\ j \in 1 .. Len(map)
        BY <1>1, <2>1, <2>2, <3>2
      <4> QED BY <2>1, <2>2, <4>1
    <3> QED BY <3>1, <3>2
  <2>3. ASSUME i > 1 PROVE p \in 1 .. Len(new) /\ new[p] = map[p]
    BY <1>1, <2>1, <2>3
  <2>4. /\ i = 1 => p = 0
        /\ i > 1 => /\ p \in 1 .. Len(new)
                    /\ new[p].what = "include" /\ new[p].depth = i - 1
                    /\ \A j \in (p + 1) .. Len(new) : new[j].depth >= i
    BY <2>1, <2>2, <2>3
  <2> QED BY <2>4 DEF p
<1>4. Tree(new)
  <2> SUFFICES ASSUME NEW i \in 1 .. Len(new)
               PROVE  /\ new[i].parent = 0 <=> new[i].depth = 1
                      /\ new[i].parent # 0 =>
                           /\ new[i].parent < i
                           /\ new[new[i].parent].what = "include"
                           /\ new[new[i].parent].depth = new[i].depth - 1
                           /\ \A j \in (new[i].parent + 1) .. i : new[j].depth >= new[i].depth
    BY DEF Tree
  <2>1. CASE i = n
    <3>1. new[i].parent = parent /\ new[i].depth = d
      BY <2>1
    <3> HIDE DEF d
    <3>2. parent = 0 <=> d = 1
      BY <1>1, <1>2
    <3>2x. ASSUME parent # 0
           PROVE  /\ parent \in 1 .. Len(map)
                  /\ map[parent].what = "include" /\ map[parent].depth = d - 1
                  /\ \A j \in (parent + 1) .. Len(map) : map[j].depth >= d
      <4>1. d > 1
        BY <1>1, <3>2, <3>2x
      <4> QED BY <1>2, <4>1
    <3>3. ASSUME parent # 0 PROVE parent < i /\ new[parent] = map[parent]
      BY <1>1, <2>1, <3>2x, <3>3
    <3>4. ASSUME parent # 0 PROVE \A j \in (parent + 1) .. i : new[j].depth >= d
      <4> TAKE j \in (parent + 1) .. i
      <4>1. CASE j = n
        BY <1>1, <2>1, <3>1, <4>1
      <4>2. CASE j # n
        <5>1. j \in 1 .. Len(map) /\ j \in (parent + 1) .. Len(map)
          BY <1>1, <2>1, <4>2
        <5>2. map[j].depth >= d /\ new[j] = map[j]
          BY <3>2x, <3>4, <5>1
        <5> QED BY <5>2
      <4> QED BY <4>1, <4>2
    <3> QED BY <3>1, <3>2, <3>2x, <3>3, <3>4
  <2>2. CASE i # n
    <3>1. i \in 1 .. Len(map) /\ new[i] = map[i]
      BY <1>1, <2>2
    <3>2. /\ map[i].parent = 0 <=> map[i].depth = 1
          /\ map[i].parent # 0 =>
               /\ map[i].parent < i
               /\ map[map[i].parent].what = "include"
               /\ map[map[i].parent].depth = map[i].depth - 1
               /\ \A j \in (map[i].parent + 1) .. i : map[j].depth >= map[i].depth
      BY <3>1 DEF Tree
    <3>3. map[i].parent \in Nat
      <4>1. map[i] \in OutType
        BY <3>1, ElementOfSeq
      <4> QED BY <4>1 DEF OutType
    <3>4. ASSUME map[i].parent # 0
          PROVE  new[map[i].parent] = map[map[i].parent]
      <4>1. map[i].parent \in 1 .. Len(map)
        <5> DEFINE q == map[i].parent
        <5>1. q \in Nat /\ q # 0 /\ q < i /\ i \in 1 .. Len(map)
          BY <3>1, <3>2, <3>3, <3>4
        <5> HIDE DEF q
        <5>2. q \in 1 .. Len(map)
          BY <1>1, <5>1
        <5> QED BY <5>2 DEF q
      <4> QED BY <4>1
    <3>5. \A j \in (map[i].parent + 1) .. i : new[j] = map[j]
      BY <1>1, <3>1, <3>3
    <3> QED BY <3>1, <3>2, <3>4, <3>5
  <2> QED BY <2>1, <2>2
<1> QED BY <1>3, <1>4

\* Nor does what the innermost file reads change the inclusions that are open.
LEMMA SameOpen ==
  ASSUME NEW stack \in Seq(FrameType), NEW parent \in Nat, NEW map \in Seq(OutType),
         NEW g \in FrameType, Len(stack) > 0, NEW new, new = [stack EXCEPT ![Len(stack)] = g],
         g.savedParent = stack[Len(stack)].savedParent, OpenIn(stack, parent, map)
  PROVE  /\ new \in Seq(FrameType) /\ Len(new) = Len(stack)
         /\ \A i \in 1 .. Len(stack) : new[i] = IF i = Len(stack) THEN g ELSE stack[i]
         /\ OpenIn(new, parent, map)
<1> DEFINE n == Len(stack)
<1>1. n \in Nat /\ n \in 1 .. n
  BY LenProperties
<1>2. /\ new \in Seq(FrameType) /\ Len(new) = n
      /\ \A i \in 1 .. n : new[i] = IF i = n THEN g ELSE stack[i]
  BY <1>1, ExceptSeq
<1>3. \A i \in 1 .. n : ParentOf(new, parent, i) = ParentOf(stack, parent, i)
  <2> TAKE i \in 1 .. n
  <2>1. CASE i = n
    BY <1>2, <2>1 DEF ParentOf
  <2>2. CASE i # n
    <3>1. i + 1 \in 1 .. n
      BY <1>1, <2>2
    <3>2. new[i + 1].savedParent = stack[i + 1].savedParent
      BY <1>2, <3>1
    <3> QED BY <1>2, <2>2, <3>2 DEF ParentOf
  <2> QED BY <2>1, <2>2
<1>4. OpenIn(new, parent, map)
  <2> QED BY <1>2, <1>3 DEF OpenIn
<1> QED BY <1>2, <1>4

-----------------------------------------------------------------------------
\* What a step may do to the preprocessed lines.
Extends == out' = out \/ \E what \in {"text", "blank", "include", "pack"}, arg \in PackArgs :
                             out' = Emitted(what, arg)

\* A type that a longer line map does not narrow.
LEMMA FramesStayTyped ==
  ASSUME StateInv, program' = program, Len(out') \in Nat, Len(out') >= Len(out)
  PROVE  /\ FrameType \subseteq FrameType' /\ Seq(FrameType) \subseteq Seq(FrameType')
         /\ 0 .. Len(out) \subseteq 0 .. Len(out')
<1>1. Len(out) \in Nat
  BY LenProperties DEF StateInv
<1>2. 0 .. Len(out) \subseteq 0 .. Len(out')
  BY <1>1
<1>3. ASSUME NEW f \in FrameType PROVE f \in FrameType'
  <2> DEFINE P == DOMAIN program
             SB == Seq(BOOLEAN)
             SS == Seq([kind : Kinds, truth : BOOLEAN])
             R == 0 .. Len(out)
             RR == 0 .. Len(out')
             Typed(Parents) == [path : P, name : Paths, number : Nat, pos : Nat, skip : SB, cond : SB,
                              inComment : BOOLEAN, savedFile : P, savedParent : Parents, seen : SS]
  <2>1. FrameType = Typed(R) /\ FrameType' = Typed(RR)
    BY DEF FrameType
  <2>2. R \subseteq RR /\ f \in Typed(R)
    BY <1>2, <1>3, <2>1
  <2> HIDE DEF P, SB, SS, R, RR
  <2>3. f \in Typed(RR)
    BY <2>2
  <2> QED BY <2>1, <2>3
<1>4. FrameType \subseteq FrameType'
  BY <1>3
<1>5. Seq(FrameType) \subseteq Seq(FrameType')
  <2> DEFINE S == FrameType
             T == FrameType'
  <2>1. S \subseteq T
    BY <1>4
  <2> HIDE DEF S, T
  <2>2. Seq(S) \subseteq Seq(T)
    BY <2>1, SeqDef
  <2> QED BY <2>2 DEF S, T
<1> QED BY <1>2, <1>4, <1>5

LEMMA ExtendedMap ==
  ASSUME IInv, Reading, Extends, program' = program
  PROVE  /\ out' \in Seq(OutType) /\ Len(out) \in Nat /\ Len(out') \in Nat /\ Len(out') >= Len(out)
         /\ \A i \in 1 .. Len(out) : out'[i] = out[i]
         /\ OpenIn(frames, curParent, out') /\ Tree(out')
<1>1. out \in Seq(OutType) /\ Len(out) \in Nat /\ StateInv
  BY LenProperties DEF IInv, StateInv, OutType
<1>2. CASE out' = out
  BY <1>1, <1>2 DEF IInv, TreeInv
<1>3. CASE \E what \in {"text", "blank", "include", "pack"}, arg \in PackArgs :
             out' = Emitted(what, arg)
  <2>1. PICK what \in {"text", "blank", "include", "pack"}, arg \in PackArgs :
             out' = Emitted(what, arg)
    BY <1>3
  <2>2. /\ out' \in Seq(OutType) /\ Len(out') = Len(out) + 1
        /\ \A i \in 1 .. Len(out) : out'[i] = out[i]
        /\ out'[Len(out')].depth = Len(frames) /\ out'[Len(out')].parent = curParent
    BY <1>1, <2>1, EmittedFacts
  <2>3. Len(frames) > 0 /\ frames \in Seq(FrameType) /\ curParent \in Nat
    BY <1>1, TopFacts DEF Reading, StateInv
  <2>4. OpenIn(frames, curParent, out) /\ Tree(out)
    BY DEF IInv, TreeInv
  <2>5. OpenIn(frames, curParent, out') /\ Tree(out')
    BY <1>1, <2>2, <2>3, <2>4, GrownTree
  <2> QED BY <1>1, <2>2, <2>5
<1> QED BY <1>2, <1>3 DEF Extends

\* A step that reads a line of the innermost file and opens nothing.
LEMMA ReadStep ==
  ASSUME IInv, Reading, Extends, NEW g \in FrameType, FrameInv(g),
         g.savedParent = Top.savedParent, frames' = SetTop(g),
         program' = program, cur' = cur, curParent' = curParent, failed' \in BOOLEAN,
         pack' \in [align : Nat, stack : Seq(Nat)], parsed' = parsed
  PROVE  IInv'
<1>1. StateInv /\ frames # <<>>
  BY DEF IInv, Reading
<1>2. /\ out' \in Seq(OutType) /\ Len(out) \in Nat /\ Len(out') \in Nat /\ Len(out') >= Len(out)
      /\ OpenIn(frames, curParent, out') /\ Tree(out')
  BY ExtendedMap
<1>3. /\ Len(frames) \in Nat /\ Len(frames) > 0 /\ Top = frames[Len(frames)]
      /\ frames \in Seq(FrameType)
  BY <1>1, TopFacts DEF StateInv
<1>4. /\ frames' \in Seq(FrameType) /\ Len(frames') = Len(frames)
      /\ \A i \in 1 .. Len(frames) : frames'[i] = IF i = Len(frames) THEN g ELSE frames[i]
      /\ OpenIn(frames', curParent, out')
  <2>1. /\ g.savedParent = frames[Len(frames)].savedParent
        /\ frames' = [frames EXCEPT ![Len(frames)] = g] /\ curParent \in Nat
    BY <1>1, <1>3 DEF SetTop, StateInv
  <2> QED BY <1>2, <1>3, <2>1, SameOpen
<1>5. frames' \in Seq(FrameType') /\ curParent' \in 0 .. Len(out') /\ parsed' \in 0 .. Len(out')
  BY <1>1, <1>2, <1>4, FramesStayTyped DEF StateInv
<1>6. \A i \in 1 .. Len(frames') : FrameInv(frames[i])'
  <2> TAKE i \in 1 .. Len(frames')
  <2>1. FrameInv(frames'[i])
    BY <1>1, <1>3, <1>4 DEF StateInv
  <2> QED BY <2>1 DEF FrameInv, Nested
<1>7. StateInv'
  BY <1>1, <1>2, <1>4, <1>5, <1>6 DEF StateInv, OutType
<1>8. TreeInv'
  BY <1>2, <1>4 DEF TreeInv
<1> QED BY <1>7, <1>8 DEF IInv

\* A step that changes no more than failed, pack and parsed.
LEMMA StillStep ==
  ASSUME IInv, UNCHANGED <<program, frames, cur, curParent, out>>, failed' \in BOOLEAN,
         pack' \in [align : Nat, stack : Seq(Nat)], parsed' \in 0 .. Len(out)
  PROVE  IInv'
<1>1. StateInv /\ TreeInv
  BY DEF IInv
<1>2. FrameType' = FrameType
  BY DEF FrameType
<1>3. \A i \in 1 .. Len(frames') : FrameInv(frames[i])'
  BY <1>1 DEF StateInv, FrameInv, Nested
<1>4. StateInv'
  BY <1>1, <1>2, <1>3 DEF StateInv
<1>5. TreeInv'
  BY <1>1 DEF TreeInv
<1> QED BY <1>4, <1>5 DEF IInv

-----------------------------------------------------------------------------
\* A frame with other conditional stacks.
LEMMA OtherStacks ==
  ASSUME StateInv, Reading, NEW s \in Seq(BOOLEAN), NEW c \in Seq(BOOLEAN), Len(s) = Len(c),
         \A a, b \in 1 .. Len(s) : (a < b /\ s[a]) => (s[b] /\ c[b]),
         NEW g, g = [Read EXCEPT !.skip = s, !.cond = c]
  PROVE  g \in FrameType /\ FrameInv(g) /\ g.savedParent = Top.savedParent
<1>1. Read \in FrameType /\ FrameInv(Read) /\ Read.savedParent = Top.savedParent
  BY ReadFacts
<1>2. /\ g \in FrameType /\ g.savedParent = Read.savedParent
      /\ g.pos = Read.pos /\ g.path = Read.path /\ g.skip = s /\ g.cond = c
  <2> DEFINE P == DOMAIN program
             SB == Seq(BOOLEAN)
             SS == Seq([kind : Kinds, truth : BOOLEAN])
             R == 0 .. Len(out)
             r == Read
  <2>1. FrameType = [path : P, name : Paths, number : Nat, pos : Nat, skip : SB, cond : SB,
                     inComment : BOOLEAN, savedFile : P, savedParent : R, seen : SS]
    BY DEF FrameType
  <2>2. s \in SB /\ c \in SB /\ r \in FrameType /\ g = [r EXCEPT !.skip = s, !.cond = c]
    BY <1>1
  <2> HIDE DEF P, SB, SS, R, r
  <2>3. /\ g \in FrameType /\ g.savedParent = r.savedParent
        /\ g.pos = r.pos /\ g.path = r.path /\ g.skip = s /\ g.cond = c
    BY <2>1, <2>2
  <2> QED BY <2>3 DEF r
<1> QED BY <1>1, <1>2 DEF FrameInv, Nested

\* #if: nothing is read inside a skipped branch.
LEMMA PushedFrame ==
  ASSUME StateInv, Reading, Top.skip # <<>>, NEW s \in BOOLEAN, NEW c \in BOOLEAN,
         Last(Top.skip) => s /\ c
  PROVE  /\ Pushed(Read, s, c) \in FrameType /\ FrameInv(Pushed(Read, s, c))
         /\ Pushed(Read, s, c).savedParent = Top.savedParent
<1> DEFINE S == Append(Top.skip, s)
           C == Append(Top.cond, c)
           n == Len(Top.skip)
<1>1. /\ Read.skip = Top.skip /\ Read.cond = Top.cond /\ Read \in FrameType /\ FrameInv(Read)
      /\ Top.skip \in Seq(BOOLEAN) /\ Top.cond \in Seq(BOOLEAN) /\ Len(Top.cond) = n
      /\ \A a, b \in 1 .. n : (a < b /\ Top.skip[a]) => (Top.skip[b] /\ Top.cond[b])
  <2>1. Read.skip = Top.skip /\ Read.cond = Top.cond /\ Read \in FrameType /\ FrameInv(Read)
    BY ReadFacts
  <2> QED BY <2>1 DEF FrameType, FrameInv, Nested
<1>2. n \in Nat /\ n > 0 /\ Last(Top.skip) = Top.skip[n]
  BY <1>1, LastFrontProperties
<1>3. /\ S \in Seq(BOOLEAN) /\ Len(S) = n + 1 /\ S[n + 1] = s
      /\ \A i \in 1 .. n : S[i] = Top.skip[i]
  BY <1>1, AppendProperties
<1>4. /\ C \in Seq(BOOLEAN) /\ Len(C) = n + 1 /\ C[n + 1] = c
      /\ \A i \in 1 .. n : C[i] = Top.cond[i]
  BY <1>1, AppendProperties
<1>5. \A a, b \in 1 .. Len(S) : (a < b /\ S[a]) => (S[b] /\ C[b])
  <2> SUFFICES ASSUME NEW a \in 1 .. Len(S), NEW b \in 1 .. Len(S), a < b, S[a] = TRUE
               PROVE  S[b] /\ C[b]
    OBVIOUS
  <2> HIDE DEF S, C, n
  <2>1. a \in 1 .. n /\ Top.skip[a] = TRUE
    BY <1>2, <1>3
  <2>2. CASE b = n + 1
    <3>1. Top.skip[n] = TRUE
      BY <1>1, <1>2, <2>1
    <3> QED BY <1>2, <1>3, <1>4, <2>2, <3>1
  <2>3. CASE b # n + 1
    <3>1. b \in 1 .. n
      BY <1>2, <1>3, <2>3
    <3> QED BY <1>1, <1>3, <1>4, <2>1, <3>1
  <2> QED BY <2>2, <2>3
<1>6. Pushed(Read, s, c) = [Read EXCEPT !.skip = S, !.cond = C]
  BY <1>1 DEF Pushed, FrameType
<1>7. Len(S) = Len(C)
  BY <1>3, <1>4
<1>8. S \in Seq(BOOLEAN) /\ C \in Seq(BOOLEAN)
  BY <1>3, <1>4
<1> HIDE DEF S, C, n
<1> QED BY <1>5, <1>6, <1>7, <1>8, OtherStacks

\* #elif and #else: where a branch has been chosen, or none may be, reading stays off.
LEMMA ReplacedFrame ==
  ASSUME StateInv, Reading, Top.skip # <<>>, NEW s \in BOOLEAN, NEW c \in BOOLEAN,
         Last(Top.skip) /\ Taken => s /\ c
  PROVE  /\ Replaced(Read, s, c) \in FrameType /\ FrameInv(Replaced(Read, s, c))
         /\ Replaced(Read, s, c).savedParent = Top.savedParent
<1> DEFINE S == Append(Front(Top.skip), s)
           C == Append(Front(Top.cond), c)
           n == Len(Top.skip)
<1>1. /\ Read.skip = Top.skip /\ Read.cond = Top.cond /\ Read \in FrameType /\ FrameInv(Read)
      /\ Top.skip \in Seq(BOOLEAN) /\ Top.cond \in Seq(BOOLEAN) /\ Len(Top.cond) = n
      /\ \A a, b \in 1 .. n : (a < b /\ Top.skip[a]) => (Top.skip[b] /\ Top.cond[b])
  <2>1. Read.skip = Top.skip /\ Read.cond = Top.cond /\ Read \in FrameType /\ FrameInv(Read)
    BY ReadFacts
  <2> QED BY <2>1 DEF FrameType, FrameInv, Nested
<1>2. n \in Nat /\ n > 0 /\ Last(Top.skip) = Top.skip[n] /\ Top.cond # <<>>
  <2>1. n \in Nat /\ n > 0 /\ Last(Top.skip) = Top.skip[n]
    BY <1>1, LastFrontProperties
  <2> QED BY <1>1, <2>1
<1>3. Taken = Top.cond[n]
  BY <1>1, <1>2, LastFrontProperties DEF Taken
<1>4. /\ S \in Seq(BOOLEAN) /\ Len(S) = n /\ S[n] = s
      /\ \A i \in 1 .. n - 1 : S[i] = Top.skip[i]
  BY <1>1, ReplacedTop
<1>5. /\ C \in Seq(BOOLEAN) /\ Len(C) = n /\ C[n] = c
      /\ \A i \in 1 .. n - 1 : C[i] = Top.cond[i]
  BY <1>1, <1>2, ReplacedTop
<1>6. \A a, b \in 1 .. Len(S) : (a < b /\ S[a]) => (S[b] /\ C[b])
  <2> SUFFICES ASSUME NEW a \in 1 .. Len(S), NEW b \in 1 .. Len(S), a < b, S[a] = TRUE
               PROVE  S[b] /\ C[b]
    OBVIOUS
  <2> HIDE DEF S, C, n
  <2>1. a \in 1 .. n /\ a \in 1 .. n - 1 /\ b \in 1 .. n /\ Top.skip[a] = TRUE
    BY <1>2, <1>4
  <2>2. CASE b = n
    <3>1. Top.skip[n] = TRUE /\ Top.cond[n]
      BY <1>1, <1>2, <2>1, <2>2
    <3> QED BY <1>2, <1>3, <1>4, <1>5, <2>2, <3>1
  <2>3. CASE b # n
    <3>1. b \in 1 .. n - 1
      BY <1>2, <2>1, <2>3
    <3> QED BY <1>1, <1>4, <1>5, <2>1, <3>1
  <2> QED BY <2>2, <2>3
<1>7. Replaced(Read, s, c) = [Read EXCEPT !.skip = S, !.cond = C]
  BY <1>1 DEF Replaced, FrameType
<1>8. Len(S) = Len(C)
  BY <1>4, <1>5
<1>9. S \in Seq(BOOLEAN) /\ C \in Seq(BOOLEAN)
  BY <1>4, <1>5
<1> HIDE DEF S, C, n
<1> QED BY <1>6, <1>7, <1>8, <1>9, OtherStacks

\* #endif.
LEMMA PoppedFrame ==
  ASSUME StateInv, Reading, Top.skip # <<>>
  PROVE  /\ Popped(Read) \in FrameType /\ FrameInv(Popped(Read))
         /\ Popped(Read).savedParent = Top.savedParent
<1> DEFINE S == Front(Top.skip)
           C == Front(Top.cond)
           n == Len(Top.skip)
<1>1. /\ Read.skip = Top.skip /\ Read.cond = Top.cond /\ Read \in FrameType
      /\ Top.skip \in Seq(BOOLEAN) /\ Top.cond \in Seq(BOOLEAN) /\ Len(Top.cond) = n
      /\ \A a, b \in 1 .. n : (a < b /\ Top.skip[a]) => (Top.skip[b] /\ Top.cond[b])
  <2>1. Read.skip = Top.skip /\ Read.cond = Top.cond /\ Read \in FrameType /\ FrameInv(Read)
    BY ReadFacts
  <2> QED BY <2>1 DEF FrameType, FrameInv, Nested
<1>2. n \in Nat /\ n > 0 /\ Top.cond # <<>>
  BY <1>1, LastFrontProperties
<1>3. S \in Seq(BOOLEAN) /\ Len(S) = n - 1 /\ \A i \in 1 .. n - 1 : S[i] = Top.skip[i]
  BY <1>1, LastFrontProperties
<1>4. C \in Seq(BOOLEAN) /\ Len(C) = n - 1 /\ \A i \in 1 .. n - 1 : C[i] = Top.cond[i]
  BY <1>1, <1>2, LastFrontProperties
<1>5. \A a, b \in 1 .. Len(S) : (a < b /\ S[a]) => (S[b] /\ C[b])
  <2> SUFFICES ASSUME NEW a \in 1 .. Len(S), NEW b \in 1 .. Len(S), a < b, S[a] = TRUE
               PROVE  S[b] /\ C[b]
    OBVIOUS
  <2> HIDE DEF S, C, n
  <2>1. a \in 1 .. n - 1 /\ b \in 1 .. n - 1 /\ a \in 1 .. n /\ b \in 1 .. n
    BY <1>2, <1>3
  <2> QED BY <1>1, <1>3, <1>4, <2>1
<1>6. Popped(Read) = [Read EXCEPT !.skip = S, !.cond = C]
  BY <1>1 DEF Popped, FrameType
<1> HIDE DEF S, C
<1> QED BY <1>3, <1>4, <1>5, <1>6, OtherStacks

-----------------------------------------------------------------------------
\* Opening a file.  The line of the #include has just been recorded, so that the backward
\* search finds it.
LEMMA ParentFound ==
  ASSUME IInv, Reading, out' = Emitted("include", NoArg)
  PROVE  ParentLine(out', Read.number) = {Len(out')}
<1>1. StateInv
  BY DEF IInv
<1>2. NoArg \in PackArgs
  BY DEF NoArg, PackArgs
<1>3. /\ out' \in Seq(OutType) /\ Len(out) \in Nat /\ Len(out') = Len(out) + 1
      /\ out'[Len(out')].file = cur /\ out'[Len(out')].line = Read.number
  BY <1>1, <1>2, EmittedFacts
<1>4. DOMAIN (out') = 1 .. Len(out') /\ Read.number > 0
  BY <1>1, <1>3, ReadFacts, LenProperties
<1> DEFINE entries == {i \in DOMAIN (out') : out'[i].file = cur /\ out'[i].line = Read.number}
<1>5. Len(out') \in entries /\ \A i \in entries : i \in Nat /\ Len(out') >= i
  BY <1>3, <1>4
<1>6. ParentLine(out', Read.number) = Latest(entries)
  BY <1>4, <1>5 DEF ParentLine
<1> HIDE DEF entries
<1>7. Latest(entries) = {Len(out')}
  BY <1>3, <1>5 DEF Latest
<1> QED BY <1>6, <1>7

LEMMA OpenStep ==
  ASSUME IInv, Reading, out' = Emitted("include", NoArg), NEW path \in DOMAIN program,
         Len(frames) < MaxDepth, frames' = Append(SetTop(Read), Frame(path, cur, curParent)),
         cur' = path, curParent' = Len(out'),
         UNCHANGED <<program, failed, pack, parsed>>
  PROVE  IInv'
<1> DEFINE g == Frame(path, cur, curParent)
           n == Len(frames)
           old == SetTop(Read)
<1>1. StateInv /\ frames # <<>> /\ NoArg \in PackArgs
  BY DEF IInv, Reading, NoArg, PackArgs
<1>2. /\ out' \in Seq(OutType) /\ Len(out) \in Nat /\ Len(out') \in Nat /\ Len(out') = Len(out) + 1
      /\ out'[Len(out')].what = "include" /\ out'[Len(out')].depth = n
  BY <1>1, EmittedFacts
<1>3. OpenIn(frames, curParent, out') /\ Tree(out')
  BY <1>1, ExtendedMap DEF Extends
<1>4. n \in Nat /\ n > 0 /\ frames \in Seq(FrameType) /\ Top = frames[n]
  BY <1>1, TopFacts DEF StateInv
<1>5. /\ Read \in FrameType /\ FrameInv(Read) /\ Read.savedParent = frames[n].savedParent
      /\ curParent \in Nat
  BY <1>1, <1>4, ReadFacts DEF StateInv
<1>6. /\ old \in Seq(FrameType) /\ Len(old) = n
      /\ \A i \in 1 .. n : old[i] = IF i = n THEN Read ELSE frames[i]
      /\ OpenIn(old, curParent, out')
  BY <1>2, <1>3, <1>4, <1>5, SameOpen DEF SetTop
<1>7. g \in FrameType' /\ FrameInv(g) /\ g.savedParent = curParent
  <2>1. /\ path \in Paths /\ cur \in DOMAIN program /\ curParent \in 0 .. Len(out')
        /\ Len(program[path]) \in Nat
    BY <1>1, <1>2, PreprocessorAssumption DEF StateInv
  <2>2. <<FALSE>> \in Seq(BOOLEAN) /\ <<>> \in Seq([kind : Kinds, truth : BOOLEAN])
    OBVIOUS
  <2>3. g \in FrameType'
    BY <2>1, <2>2 DEF Frame, FrameType
  <2>4. FrameInv(g)
    BY <2>1 DEF Frame, FrameInv, Nested
  <2> QED BY <2>3, <2>4 DEF Frame
<1>8. old \in Seq(FrameType')
  BY <1>1, <1>2, <1>6, FramesStayTyped
<1> HIDE DEF old, g
<1>9. frames' = Append(old, g)
  BY DEF old, g
<1>10. /\ frames' \in Seq(FrameType') /\ Len(frames') = n + 1
       /\ \A i \in 1 .. n : frames'[i] = old[i]
       /\ frames'[n + 1] = g
  <2> DEFINE T == FrameType'
  <2>1. old \in Seq(T) /\ g \in T
    BY <1>7, <1>8
  <2> HIDE DEF T
  <2>2. /\ Append(old, g) \in Seq(T) /\ Len(Append(old, g)) = Len(old) + 1
        /\ \A i \in 1 .. Len(old) : Append(old, g)[i] = old[i]
        /\ Append(old, g)[Len(old) + 1] = g
    BY <2>1, AppendProperties
  <2> QED BY <1>6, <1>9, <2>2 DEF T
<1>11. \A i \in 1 .. Len(frames') : FrameInv(frames[i])'
  <2> TAKE i \in 1 .. Len(frames')
  <2>1. CASE i = n + 1
    <3>1. FrameInv(frames'[i])
      BY <1>7, <1>10, <2>1
    <3> QED BY <3>1 DEF FrameInv, Nested
  <2>2. CASE i # n + 1
    <3>1. i \in 1 .. n
      BY <1>4, <1>10, <2>2
    <3>2. FrameInv(frames'[i])
      BY <1>1, <1>5, <1>6, <1>10, <3>1 DEF StateInv
    <3> QED BY <3>2 DEF FrameInv, Nested
  <2> QED BY <2>1, <2>2
<1>12. StateInv'
  <2>1. Len(frames') <= MaxDepth
    BY <1>4, <1>10, PreprocessorAssumption
  <2>2. curParent' \in 0 .. Len(out') /\ parsed' \in 0 .. Len(out')
    BY <1>1, <1>2 DEF StateInv
  <2> QED BY <1>1, <1>2, <1>10, <1>11, <2>1, <2>2 DEF StateInv, OutType
<1>13. OpenIn(frames', curParent', out')
  <2> SUFFICES ASSUME NEW i \in 1 .. n + 1
               PROVE  LET p == ParentOf(frames', curParent', i)
                      IN  /\ i = 1 => p = 0
                          /\ i > 1 => /\ p \in 1 .. Len(out')
                                      /\ out'[p].what = "include" /\ out'[p].depth = i - 1
                                      /\ \A j \in (p + 1) .. Len(out') : out'[j].depth >= i
    BY <1>10 DEF OpenIn
  <2>1. CASE i = n + 1
    <3>1. ParentOf(frames', curParent', i) = Len(out')
      BY <1>10, <2>1 DEF ParentOf
    <3> QED BY <1>2, <1>4, <2>1, <3>1
  <2>2. CASE i # n + 1
    <3>1. i \in 1 .. n
      BY <1>4, <2>2
    <3>2. ParentOf(frames', curParent', i) = ParentOf(old, curParent, i)
      <4>1. CASE i = n
        BY <1>4, <1>6, <1>7, <1>10, <4>1 DEF ParentOf
      <4>2. CASE i # n
        <5>1. i + 1 \in 1 .. n
          BY <1>4, <3>1, <4>2
        <5> QED BY <1>4, <1>6, <1>10, <3>1, <4>2, <5>1 DEF ParentOf
      <4> QED BY <4>1, <4>2
    <3> QED BY <1>6, <3>1, <3>2 DEF OpenIn
  <2> QED BY <2>1, <2>2
<1>14. TreeInv'
  BY <1>3, <1>13 DEF TreeInv
<1> QED BY <1>12, <1>14 DEF IInv

\* The end of a file puts back what was saved when it was opened.
LEMMA ReturnStep ==
  ASSUME IInv, Return
  PROVE  IInv'
<1> DEFINE n == Len(frames)
<1>1. StateInv /\ TreeInv /\ frames # <<>> /\ UNCHANGED <<program, out, failed, pack, parsed>>
  BY DEF IInv, Return
<1>2. /\ n \in Nat /\ n > 0 /\ Top = frames[n] /\ Top \in FrameType
      /\ frames' \in Seq(FrameType) /\ Len(frames') = n - 1
      /\ \A i \in 1 .. n - 1 : frames'[i] = frames[i]
      /\ cur' = Top.savedFile /\ curParent' = Top.savedParent
  BY <1>1, TopFacts DEF Return
<1>3. cur' \in DOMAIN program /\ curParent' \in 0 .. Len(out)
  BY <1>2 DEF FrameType
<1>4. FrameType' = FrameType
  BY <1>1 DEF FrameType
<1>5. \A i \in 1 .. Len(frames') : FrameInv(frames[i])'
  <2> TAKE i \in 1 .. Len(frames')
  <2>1. i \in 1 .. Len(frames) /\ frames'[i] = frames[i]
    BY <1>2
  <2>2. FrameInv(frames[i])
    BY <1>1, <2>1 DEF StateInv
  <2> QED BY <1>1, <2>1, <2>2 DEF FrameInv, Nested
<1>6. StateInv'
  <2>1. Len(frames') <= MaxDepth
    BY <1>1, <1>2, PreprocessorAssumption DEF StateInv
  <2> QED BY <1>1, <1>2, <1>3, <1>4, <1>5, <2>1 DEF StateInv
<1>7. OpenIn(frames', curParent', out)
  <2>1. \A i \in 1 .. n - 1 : ParentOf(frames', curParent', i) = ParentOf(frames, curParent, i)
    <3> TAKE i \in 1 .. n - 1
    <3>1. CASE i = n - 1
      BY <1>2, <3>1 DEF ParentOf
    <3>2. CASE i # n - 1
      <4>1. i + 1 \in 1 .. n - 1
        BY <1>2, <3>2
      <4> QED BY <1>2, <3>2, <4>1 DEF ParentOf
    <3> QED BY <3>1, <3>2
  <2>2. OpenIn(frames, curParent, out)
    BY <1>1 DEF TreeInv
  <2>3. \A i \in 1 .. n - 1 : i \in 1 .. n
    BY <1>2
  <2> QED BY <1>2, <2>1, <2>2, <2>3 DEF OpenIn
<1>8. TreeInv'
  BY <1>1, <1>7 DEF TreeInv
<1> QED BY <1>6, <1>8 DEF IInv

-----------------------------------------------------------------------------
\* A packing pragma leaves a packing.
LEMMA PackTyped ==
  ASSUME NEW p \in [align : Nat, stack : Seq(Nat)], NEW op \in PackArgs
  PROVE  /\ AfterPack(p, op) \in [align : Nat, stack : Seq(Nat)]
         /\ AfterPragma(p, op) \in [align : Nat, stack : Seq(Nat)]
<1>1. p.align \in Nat /\ p.stack \in Seq(Nat) /\ Append(p.stack, p.align) \in Seq(Nat)
  BY AppendProperties
<1>0. \A n \in Nat : PushPack(p, n) \in [align : Nat, stack : Seq(Nat)]
  BY <1>1 DEF PushPack
<1>2. CASE op.op = "set" \/ op.op = "push"
  <2>1. op.n \in Nat
    BY <1>2 DEF PackArgs
  <2> QED BY <1>0, <1>1, <1>2, <2>1 DEF AfterPack, AfterPragma
<1>3. CASE op.op = "save"
  BY <1>0, <1>1, <1>3 DEF AfterPack, AfterPragma
<1>4. CASE op.op = "pop" /\ p.stack # <<>>
  <2>1. Last(p.stack) \in Nat /\ Front(p.stack) \in Seq(Nat)
    BY <1>1, <1>4, LastFrontProperties
  <2> QED BY <1>4, <2>1 DEF AfterPack, AfterPragma
<1>5. CASE ~(op.op \in {"set", "push", "save"}) /\ ~(op.op = "pop" /\ p.stack # <<>>)
  BY <1>5 DEF AfterPack, AfterPragma
<1> QED BY <1>2, <1>3, <1>4, <1>5

LEMMA InitIInv == Init => IInv
<1> SUFFICES ASSUME Init PROVE IInv
  OBVIOUS
<1> DEFINE g == Frame(Main, Main, 0)
<1>1. Main \in DOMAIN program /\ Main \in Paths /\ Len(program[Main]) \in Nat /\ Len(out) = 0
  BY PreprocessorAssumption DEF Init
<1>2. <<FALSE>> \in Seq(BOOLEAN) /\ <<>> \in Seq([kind : Kinds, truth : BOOLEAN])
  OBVIOUS
<1>3. g \in FrameType
  BY <1>1, <1>2 DEF Frame, FrameType
<1>4. FrameInv(g)
  BY <1>1 DEF Frame, FrameInv, Nested
<1> HIDE DEF g
<1>5. frames = <<g>>
  BY DEF Init, g
<1>6. frames \in Seq(FrameType) /\ Len(frames) = 1 /\ \A i \in 1 .. Len(frames) : frames[i] = g
  BY <1>3, <1>5
<1>7. StateInv
  <2>1. NoPacking \in [align : Nat, stack : Seq(Nat)]
    BY DEF NoPacking
  <2>2. Len(frames) <= MaxDepth /\ \A i \in 1 .. Len(frames) : FrameInv(frames[i])
    BY <1>4, <1>6, PreprocessorAssumption
  <2>3. curParent \in 0 .. Len(out) /\ parsed \in 0 .. Len(out) /\ out \in Seq(OutType)
    BY <1>1 DEF Init
  <2>4. program \in Programs /\ cur \in DOMAIN program /\ failed \in BOOLEAN /\ pack = NoPacking
    BY <1>1 DEF Init
  <2> QED BY <1>6, <2>1, <2>2, <2>3, <2>4 DEF StateInv, OutType
<1>8. OpenIn(frames, curParent, out)
  BY <1>1, <1>6 DEF OpenIn, ParentOf, Init
<1>9. Tree(out)
  BY <1>1 DEF Tree
<1> QED BY <1>7, <1>8, <1>9 DEF IInv, TreeInv

LEMMA NextIInv == IInv /\ [Next]_vars => IInv'
<1> SUFFICES ASSUME IInv, [Next]_vars PROVE IInv'
  OBVIOUS
<1>1. StateInv /\ failed \in BOOLEAN /\ pack \in [align : Nat, stack : Seq(Nat)]
      /\ parsed \in 0 .. Len(out)
  BY DEF IInv, StateInv
<1>2. NoArg \in PackArgs /\ TRUE \in BOOLEAN
  BY DEF NoArg, PackArgs
<1>3. ASSUME Reading
      PROVE  Read \in FrameType /\ FrameInv(Read) /\ Read.savedParent = Top.savedParent
  BY <1>1, <1>3, ReadFacts
<1>4. CASE DropLine
  <2> DEFINE g == [Top EXCEPT !.pos = Top.pos + 1, !.number = Top.number + 1, !.inComment = TRUE]
  <2>1. /\ Reading /\ UNCHANGED <<program, cur, curParent, out, failed, pack, parsed>>
        /\ Top \in FrameType /\ FrameInv(Top) /\ Top.pos < Len(program[Top.path])
        /\ Len(program[Top.path]) \in Nat
    BY <1>1, <1>4, TopFacts, PreprocessorAssumption DEF DropLine, Reading, Source, FrameType, StateInv
  <2>2. frames' = SetTop(g)
    BY <1>4, <2>1 DEF DropLine, FrameType
  <2>3. /\ g \in FrameType /\ g.savedParent = Top.savedParent /\ g.pos = Top.pos + 1
        /\ g.path = Top.path /\ g.skip = Top.skip /\ g.cond = Top.cond
    <3> DEFINE P == DOMAIN program
               SB == Seq(BOOLEAN)
               SS == Seq([kind : Kinds, truth : BOOLEAN])
               R == 0 .. Len(out)
    <3>1. FrameType = [path : P, name : Paths, number : Nat, pos : Nat, skip : SB, cond : SB,
                       inComment : BOOLEAN, savedFile : P, savedParent : R, seen : SS]
      BY DEF FrameType
    <3>2. Top.pos + 1 \in Nat /\ Top.number + 1 \in Nat
      BY <2>1 DEF FrameType
    <3> HIDE DEF P, SB, SS, R
    <3> QED BY <2>1, <3>1, <3>2
  <2>4. FrameInv(g)
    <3>1. Top.pos \in Nat
      BY <2>1 DEF FrameType
    <3> HIDE DEF g
    <3> QED BY <2>1, <2>3, <3>1 DEF FrameInv, Nested
  <2> HIDE DEF g
  <2> QED BY <1>1, <2>1, <2>2, <2>3, <2>4, ReadStep DEF Extends
<1>5. CASE Underflow
  BY <1>1, <1>5, StillStep DEF Underflow, Source
<1>6. CASE WhileSkipping
  <2>1. UNCHANGED <<program, cur, curParent, out, failed, pack, parsed>>
    BY <1>6 DEF WhileSkipping, Source
  <2>2. CASE SkippedGroup
    <3>1. Reading /\ Top.skip # <<>> /\ frames' = SetTop(Pushed(Read, TRUE, TRUE))
      BY <2>2 DEF SkippedGroup, Skipped
    <3>2. /\ Pushed(Read, TRUE, TRUE) \in FrameType /\ FrameInv(Pushed(Read, TRUE, TRUE))
          /\ Pushed(Read, TRUE, TRUE).savedParent = Top.savedParent
      BY <1>1, <3>1, PushedFrame
    <3> QED BY <1>1, <2>1, <3>1, <3>2, ReadStep DEF Extends
  <2>3. CASE SkippedBranch
    <3> DEFINE chosen == ~Taken /\ (Kind = "elif" => Truth)
               s == ~chosen
               c == Taken \/ chosen
               g == Replaced(Read, s, c)
    <3>1. Reading /\ Top.skip # <<>> /\ frames' = SetTop(g)
      BY <2>3 DEF SkippedBranch, Skipped
    <3>2. s \in BOOLEAN /\ c \in BOOLEAN /\ (Last(Top.skip) /\ Taken => s /\ c)
      OBVIOUS
    <3> HIDE DEF s, c, chosen
    <3>3. g \in FrameType /\ FrameInv(g) /\ g.savedParent = Top.savedParent
      BY <1>1, <3>1, <3>2, ReplacedFrame
    <3> HIDE DEF g
    <3> QED BY <1>1, <2>1, <3>1, <3>3, ReadStep DEF Extends
  <2>4. CASE SkippedEndif
    <3>1. Reading /\ Top.skip # <<>> /\ frames' = SetTop(Popped(Read))
      BY <2>4 DEF SkippedEndif, Skipped
    <3>2. /\ Popped(Read) \in FrameType /\ FrameInv(Popped(Read))
          /\ Popped(Read).savedParent = Top.savedParent
      BY <1>1, <3>1, PoppedFrame
    <3> QED BY <1>1, <2>1, <3>1, <3>2, ReadStep DEF Extends
  <2>5. CASE SkippedLine
    <3>1. Reading /\ frames' = SetTop(Read)
      BY <2>5 DEF SkippedLine, Skipped
    <3> QED BY <1>1, <1>3, <2>1, <3>1, ReadStep DEF Extends
  <2> QED BY <1>6, <2>2, <2>3, <2>4, <2>5 DEF WhileSkipping
<1>7. CASE Conditional
  <2>1. UNCHANGED <<program, cur, curParent, failed, pack, parsed>> /\ Extends
    BY <1>2, <1>7 DEF Conditional, Source, Extends
  <2>2. CASE If
    <3> DEFINE c == Truth
               s == ~Truth
               g == Pushed(Read, s, c)
    <3>1. Reading /\ Top.skip # <<>> /\ ~Last(Top.skip) /\ frames' = SetTop(g)
      BY <2>2 DEF If, Live
    <3>2. s \in BOOLEAN /\ c \in BOOLEAN
      BY <1>1, <3>1, ReadFacts
    <3> HIDE DEF s, c
    <3>3. g \in FrameType /\ FrameInv(g) /\ g.savedParent = Top.savedParent
      BY <1>1, <3>1, <3>2, PushedFrame
    <3> HIDE DEF g
    <3> QED BY <1>1, <2>1, <3>1, <3>3, ReadStep
  <2>3. CASE Elif \/ Else
    <3> DEFINE s == Taken
    <3>1. /\ Reading /\ Top.skip # <<>> /\ ~Last(Top.skip)
          /\ \E c \in BOOLEAN : frames' = SetTop(Replaced(Read, s, c))
      BY <2>3, Zenon DEF Elif, Else, Live
    <3>2. PICK c \in BOOLEAN : frames' = SetTop(Replaced(Read, s, c))
      BY <3>1
    <3>3. s \in BOOLEAN
      <4>1. Top.cond \in Seq(BOOLEAN) /\ Top.cond # <<>>
        <5>1. Top \in FrameType /\ Len(Top.skip) = Len(Top.cond)
          BY <1>1, <3>1, TopFacts DEF Reading, FrameInv
        <5> QED BY <3>1, <5>1 DEF FrameType
      <4> QED BY <4>1, LastFrontProperties DEF Taken
    <3> DEFINE g == Replaced(Read, s, c)
    <3> HIDE DEF s
    <3>4. g \in FrameType /\ FrameInv(g) /\ g.savedParent = Top.savedParent
      BY <1>1, <3>1, <3>3, ReplacedFrame
    <3> HIDE DEF g
    <3>5. frames' = SetTop(g)
      BY <3>2 DEF g
    <3> QED BY <1>1, <2>1, <3>1, <3>4, <3>5, ReadStep
  <2>4. CASE Endif
    <3>1. Reading /\ Top.skip # <<>> /\ frames' = SetTop(Popped(Read))
      BY <2>4 DEF Endif, Live
    <3>2. /\ Popped(Read) \in FrameType /\ FrameInv(Popped(Read))
          /\ Popped(Read).savedParent = Top.savedParent
      BY <1>1, <3>1, PoppedFrame
    <3> QED BY <1>1, <2>1, <3>1, <3>2, ReadStep
  <2> QED BY <1>7, <2>2, <2>3, <2>4 DEF Conditional
<1>8. CASE Text \/ DefineOrUndef
  <2>1. /\ Reading /\ frames' = SetTop(Read) /\ Extends
        /\ UNCHANGED <<program, cur, curParent, failed, pack, parsed>>
    BY <1>2, <1>8 DEF Text, DefineOrUndef, Live, Source, Extends
  <2> QED BY <1>1, <1>3, <2>1, ReadStep
<1>9. CASE ErrorDirective
  BY <1>1, <1>9, StillStep DEF ErrorDirective, Source
<1>10. CASE PragmaOnce
  <2>1. /\ Reading /\ frames' = SetTop(Read) /\ Extends
        /\ UNCHANGED <<program, cur, curParent, failed, pack, parsed>>
    BY <1>10 DEF PragmaOnce, Live, Extends
  <2> QED BY <1>1, <1>3, <2>1, ReadStep
<1>11. CASE LineDirective
  <2> DEFINE g == [Read EXCEPT !.number = Line.arg.number - 1, !.name = Line.arg.name]
  <2>1. /\ Reading /\ frames' = SetTop(g) /\ Extends /\ Kind = "line"
        /\ UNCHANGED <<program, cur, curParent, failed, pack, parsed>>
    BY <1>11 DEF LineDirective, Live, Source, Extends
  <2>2. Line.arg.number - 1 \in Nat /\ Line.arg.name \in Paths
    <3>1. WellFormedLine(Line)
      BY <1>1, <2>1, ReadFacts
    <3>2. Line.kind = "line"
      BY <2>1 DEF Kind
    <3>3. Line.arg.number \in Nat \ {0} /\ Line.arg.name \in Paths
      BY <3>1, <3>2 DEF WellFormedLine
    <3> QED BY <3>3
  <2>3. /\ g \in FrameType /\ g.savedParent = Read.savedParent /\ g.pos = Read.pos
        /\ g.path = Read.path /\ g.skip = Read.skip /\ g.cond = Read.cond
    <3> DEFINE P == DOMAIN program
               SB == Seq(BOOLEAN)
               SS == Seq([kind : Kinds, truth : BOOLEAN])
               R == 0 .. Len(out)
    <3>1. FrameType = [path : P, name : Paths, number : Nat, pos : Nat, skip : SB, cond : SB,
                       inComment : BOOLEAN, savedFile : P, savedParent : R, seen : SS]
      BY DEF FrameType
    <3> HIDE DEF P, SB, SS, R
    <3> QED BY <1>3, <2>1, <2>2, <3>1
  <2>4. FrameInv(g) /\ g.savedParent = Top.savedParent
    <3> HIDE DEF g
    <3> QED BY <1>3, <2>1, <2>3 DEF FrameInv, Nested
  <2> HIDE DEF g
  <2> QED BY <1>1, <2>1, <2>3, <2>4, ReadStep
<1>12. CASE PragmaPack
  <2>1. /\ Reading /\ frames' = SetTop(Read) /\ Kind = "pack"
        /\ out' = Emitted("pack", Line.arg) /\ pack' = AfterPack(pack, Line.arg)
        /\ UNCHANGED <<program, cur, curParent, failed, parsed>>
    BY <1>12 DEF PragmaPack, Live, Source
  <2>2. Line.arg \in PackArgs
    <3>1. WellFormedLine(Line) /\ Line.kind = "pack"
      BY <1>1, <2>1, ReadFacts DEF Kind
    <3> QED BY <3>1 DEF WellFormedLine
  <2>3. pack' \in [align : Nat, stack : Seq(Nat)]
    BY <1>1, <2>1, <2>2, PackTyped
  <2>4. Extends
    BY <2>1, <2>2 DEF Extends
  <2> QED BY <1>1, <1>3, <2>1, <2>3, <2>4, ReadStep
<1>13. CASE Include
  <2>1. PICK kind \in {"include", "include_next"} :
          /\ Live(kind)
          /\ out' = Emitted("include", NoArg)
          /\ \/ \E path \in IF kind = "include" THEN Resolve(Line.arg, Line.arg.quoted)
                            ELSE ResolveNext(Line.arg) : Open(path)
             \/ failed' = TRUE /\ frames' = SetTop(Read) /\ UNCHANGED <<cur, curParent>>
          /\ UNCHANGED <<program, processed, defines, pack, parsed>>
    BY <1>13, Zenon DEF Include
  <2>2. Reading /\ Extends
    BY <1>2, <2>1 DEF Live, Extends
  <2>3. CASE frames' = SetTop(Read) /\ UNCHANGED <<cur, curParent>> /\ failed' \in BOOLEAN
    BY <1>1, <1>3, <2>1, <2>2, <2>3, ReadStep
  <2>4. ASSUME NEW path \in IF kind = "include" THEN Resolve(Line.arg, Line.arg.quoted)
                            ELSE ResolveNext(Line.arg),
               Open(path)
        PROVE  IInv'
    <3>1. path \in DOMAIN program
      <4>1. \A h, quoted : Resolve(h, quoted) \subseteq DOMAIN program
        BY DEF Resolve, First, Exists
      <4>2. \A h : ResolveNext(h) \subseteq DOMAIN program
        BY <4>1 DEF ResolveNext, First, Exists
      <4> QED BY <2>4, <4>1, <4>2
    <3>2. CASE path \notin processed /\ Len(frames) < MaxDepth
               /\ frames' = Append(SetTop(Read), Frame(path, cur, curParent))
               /\ cur' = path /\ curParent' \in ParentLine(out', Read.number) /\ UNCHANGED failed
      <4>1. curParent' = Len(out')
        BY <2>1, <2>2, <3>2, ParentFound
      <4> QED BY <2>1, <2>2, <3>1, <3>2, <4>1, OpenStep
    <3>3. CASE frames' = SetTop(Read) /\ UNCHANGED <<cur, curParent>> /\ failed' \in BOOLEAN
      BY <2>3, <3>3
    <3> QED BY <1>1, <2>4, <3>2, <3>3 DEF Open
  <2> QED BY <1>2, <2>1, <2>3, <2>4
<1>14. CASE Return
  BY <1>14, ReturnStep
<1>15. CASE Parse
  <2> DEFINE n == parsed + 1
             l == out[n]
  <2>1. /\ UNCHANGED <<program, frames, cur, curParent, out>>
        /\ parsed < Len(out) /\ Len(out) \in Nat
        /\ \/ failed' = TRUE /\ pack' = pack /\ parsed' = parsed
           \/ /\ failed' = failed /\ parsed' = n
              /\ pack' = IF l.what = "pack" THEN AfterPragma(pack, l.arg) ELSE pack
    BY <1>1, <1>15, LenProperties DEF Parse, Source, StateInv
  <2>2. n \in 0 .. Len(out) /\ n \in 1 .. Len(out)
    BY <1>1, <2>1
  <2>3. l.arg \in PackArgs
    <3> HIDE DEF n
    <3>1. out[n] \in OutType
      BY <1>1, <2>2, ElementOfSeq DEF StateInv, OutType
    <3> QED BY <3>1 DEF OutType
  <2> HIDE DEF n, l
  <2>4. pack' \in [align : Nat, stack : Seq(Nat)]
    BY <1>1, <2>1, <2>3, PackTyped
  <2>5. parsed' \in 0 .. Len(out) /\ failed' \in BOOLEAN
    BY <1>1, <2>1, <2>2
  <2> QED BY <1>1, <2>1, <2>4, <2>5, StillStep
<1>16. CASE UNCHANGED vars
  BY <1>1, <1>16, StillStep DEF vars
<1> QED BY <1>4, <1>5, <1>6, <1>7, <1>8, <1>9, <1>10, <1>11, <1>12, <1>13, <1>14, <1>15, <1>16
        DEF Next

LEMMA Invariant == Spec => []IInv
  BY InitIInv, NextIInv, PTL DEF Spec

-----------------------------------------------------------------------------
\* The stacks of every file being read stay in step and readFile never nests deeper than its
\* bound, in any source.
THEOREM ReaderTypeOK == Spec => []TypeOK
<1>1. IInv => TypeOK
  <2> SUFFICES ASSUME IInv PROVE TypeOK
    OBVIOUS
  <2>1. StateInv
    BY DEF IInv
  <2>2. Main \in DOMAIN program
    BY <2>1, PreprocessorAssumption DEF StateInv
  <2> QED BY <2>1, <2>2 DEF TypeOK, StateInv, FrameInv
<1> QED BY <1>1, Invariant, PTL

\* Inside a branch that FileReader skips, no directive turns reading back on.
THEOREM ReaderSkippingNests == Spec => []SkippingNests
<1>1. IInv => SkippingNests
  <2> SUFFICES ASSUME IInv, NEW i \in DOMAIN frames,
                      NEW a \in 1 .. Len(frames[i].skip), NEW b \in 1 .. Len(frames[i].skip),
                      a <= b, frames[i].skip[a] = TRUE
               PROVE  frames[i].skip[b] = TRUE
    <3>1. ASSUME IInv, NEW i \in DOMAIN frames PROVE frames[i].skip \in Seq(BOOLEAN)
      <4>1. frames \in Seq(FrameType)
        BY <3>1 DEF IInv, StateInv
      <4>2. frames[i] \in FrameType
        BY <3>1, <4>1, ElementOfSeq
      <4> QED BY <4>2 DEF FrameType
    <3>2. ASSUME IInv, NEW i \in DOMAIN frames, NEW b \in 1 .. Len(frames[i].skip)
          PROVE  frames[i].skip[b] \in BOOLEAN
      BY <3>1, <3>2, ElementOfSeq
    <3> QED BY <3>2 DEF SkippingNests
  <2>1. /\ \A k \in 1 .. Len(frames) : FrameInv(frames[k])
        /\ DOMAIN frames = 1 .. Len(frames)
    BY LenProperties DEF IInv, StateInv
  <2>2. Nested(frames[i])
    BY <2>1 DEF FrameInv
  <2>3. a = b \/ a < b
    OBVIOUS
  <2>4. CASE a < b
    <3>1. frames \in Seq(FrameType) /\ frames[i] \in FrameType
      BY ElementOfSeq DEF IInv, StateInv
    <3>2. frames[i].skip[b] \in BOOLEAN
      BY <3>1, ElementOfSeq DEF FrameType
    <3>3. frames[i].skip[b]
      BY <2>2, <2>4 DEF Nested
    <3> QED BY <3>2, <3>3
  <2> QED BY <2>3, <2>4
<1> QED BY <1>1, Invariant, PTL

\* Every preprocessed line hangs on the #include line that brought it in, however files
\* include each other and whatever #line renumbers.
THEOREM ReaderLineMapIsATree == Spec => []LineMapIsATree
<1>1. IInv => LineMapIsATree
  <2> SUFFICES ASSUME IInv PROVE LineMapIsATree
    OBVIOUS
  <2>1. Tree(out) /\ DOMAIN out = 1 .. Len(out)
    BY LenProperties DEF IInv, StateInv, TreeInv
  <2> QED BY <2>1 DEF Tree, LineMapIsATree
<1> QED BY <1>1, Invariant, PTL

-----------------------------------------------------------------------------
(* Conditional groups: the stacks of a file against the lines it has read. *)

\* The #if line o has opened the d-th of the groups that are open behind s.
Opens(s, d, o) == /\ s[o].kind = "if" /\ Level(s, o) = d - 1
                  /\ \A j \in (o + 1) .. (Len(s) + 1) : Level(s, j) >= d

\* The group opened at o is in its first branch whose condition held.
Good(s, o) ==
  LET heads == Heads(s, o, Len(s) + 1)
  IN  \A j \in heads : Chosen(s, j) <=> j \in Latest(heads)

\* One of the first d open groups is not.
Off(s, d) == \E x \in 1 .. d : \E o \in 1 .. Len(s) : Opens(s, x, o) /\ ~Good(s, o)

\* Some branch of the group opened at o has been chosen.
Tried(s, o) == \E j \in Heads(s, o, Len(s) + 1) : Chosen(s, j)

\* The stacks say of each of the first n open groups whether it or one around it is in a
\* branch not to be read, and whether a branch of it has been chosen or none may be.
MirrorsUpTo(s, skip, cond, n) ==
  /\ \A d \in 1 .. n : \E o \in 1 .. Len(s) : Opens(s, d, o)
  /\ \A d \in 0 .. n : skip[d + 1] <=> Off(s, d)
  /\ \A d \in 1 .. n : \A o \in 1 .. Len(s) :
       Opens(s, d, o) => (cond[d + 1] <=> (skip[d] \/ Tried(s, o)))

Mirrors(s, skip, cond) ==
  /\ Level(s, Len(s) + 1) = Len(skip) - 1
  /\ \A k \in 1 .. Len(s) + 1 : Level(s, k) \in Nat
  /\ MirrorsUpTo(s, skip, cond, Len(skip) - 1)

SeenType == [kind : Kinds, truth : BOOLEAN]

\* The lines of a kind in front of line k.
OfKind(kind, s, k) == {j \in 1 .. (k - 1) : s[j].kind = kind}

\* The count of them, line by line, when line m + 1 is read.
Counts(kind, s, t, m) ==
  /\ \A k \in 1 .. m + 1 : /\ OfKind(kind, t, k) = OfKind(kind, s, k)
                           /\ Cardinality(OfKind(kind, s, k)) \in Nat
  /\ Cardinality(OfKind(kind, t, m + 2)) = Cardinality(OfKind(kind, s, m + 1))
                                            + (IF t[m + 1].kind = kind THEN 1 ELSE 0)

LEMMA CountStep ==
  ASSUME NEW s, NEW t, NEW m \in Nat, \A j \in 1 .. m : t[j] = s[j], NEW kind
  PROVE  Counts(kind, s, t, m)
<1> DEFINE Upto(q, k) == OfKind(kind, q, k)
<1>0. \A q, k : Upto(q, k) = {j \in 1 .. (k - 1) : q[j].kind = kind}
  BY DEF OfKind
<1> HIDE DEF Upto
<1>1. ASSUME NEW k \in 1 .. m + 1
      PROVE  Upto(t, k) = Upto(s, k) /\ IsFiniteSet(Upto(s, k)) /\ Cardinality(Upto(s, k)) \in Nat
  <2>1. \A j \in 1 .. (k - 1) : j \in 1 .. m
    OBVIOUS
  <2>2. IsFiniteSet(1 .. (k - 1))
    BY FS_Interval
  <2>3. IsFiniteSet(Upto(s, k))
    <3>1. Upto(s, k) \subseteq 1 .. (k - 1)
      BY <1>0
    <3> QED BY <2>2, <3>1, FS_Subset
  <2> QED BY <1>0, <2>1, <2>3, FS_CardinalityType
<1>2. Upto(t, m + 2) = Upto(s, m + 1) \cup (IF t[m + 1].kind = kind THEN {m + 1} ELSE {})
  <2>1. \A j : j \in 1 .. ((m + 2) - 1) <=> j \in 1 .. ((m + 1) - 1) \/ j = m + 1
    OBVIOUS
  <2>2. \A j \in 1 .. ((m + 1) - 1) : t[j] = s[j]
    OBVIOUS
  <2> QED BY <1>0, <2>1, <2>2
<1>3. m + 1 \notin Upto(s, m + 1) /\ m + 1 \in 1 .. m + 1
  BY <1>0
<1>4. IsFiniteSet(Upto(s, m + 1)) /\ Cardinality(Upto(s, m + 1)) \in Nat
  BY <1>1, <1>3
<1>5. Cardinality(Upto(s, m + 1) \cup {m + 1}) = Cardinality(Upto(s, m + 1)) + 1
  BY <1>3, <1>4, FS_AddElement
<1>6. Cardinality(Upto(t, m + 2)) = Cardinality(Upto(s, m + 1))
                                      + (IF t[m + 1].kind = kind THEN 1 ELSE 0)
  <2>1. CASE t[m + 1].kind = kind
    BY <1>2, <1>5, <2>1
  <2>2. CASE t[m + 1].kind # kind
    <3>1. Upto(t, m + 2) = Upto(s, m + 1)
      BY <1>2, <2>2
    <3> QED BY <1>4, <2>2, <3>1
  <2> QED BY <2>1, <2>2
<1> QED BY <1>1, <1>6 DEF Upto, Counts

\* The level behind one more line.
LEMMA LevelStep ==
  ASSUME NEW s, NEW t, NEW m \in Nat, \A j \in 1 .. m : t[j] = s[j]
  PROVE  /\ \A k \in 1 .. m + 1 : Level(t, k) = Level(s, k) /\ Level(s, k) \in Int
         /\ Level(t, m + 2) = Level(s, m + 1) + (IF t[m + 1].kind = "if" THEN 1
                                                 ELSE IF t[m + 1].kind = "endif" THEN -1 ELSE 0)
<1> DEFINE Ifs(q, k) == OfKind("if", q, k)
           Endifs(q, k) == OfKind("endif", q, k)
<1>1. /\ \A k \in 1 .. m + 1 : Ifs(t, k) = Ifs(s, k) /\ Cardinality(Ifs(s, k)) \in Nat
      /\ Cardinality(Ifs(t, m + 2)) = Cardinality(Ifs(s, m + 1))
                                        + (IF t[m + 1].kind = "if" THEN 1 ELSE 0)
  <2>1. Counts("if", s, t, m)
    BY CountStep
  <2> QED BY <2>1 DEF Counts
<1>2. /\ \A k \in 1 .. m + 1 : Endifs(t, k) = Endifs(s, k) /\ Cardinality(Endifs(s, k)) \in Nat
      /\ Cardinality(Endifs(t, m + 2)) = Cardinality(Endifs(s, m + 1))
                                           + (IF t[m + 1].kind = "endif" THEN 1 ELSE 0)
  <2>1. Counts("endif", s, t, m)
    BY CountStep
  <2> QED BY <2>1 DEF Counts
<1>3. \A q, k : Level(q, k) = Cardinality(Ifs(q, k)) - Cardinality(Endifs(q, k))
  BY DEF Level, OfKind
<1> HIDE DEF Ifs, Endifs
<1>4. m + 1 \in 1 .. m + 1
  OBVIOUS
<1>5. \A k \in 1 .. m + 1 : Level(t, k) = Level(s, k) /\ Level(s, k) \in Int
  BY <1>1, <1>2, <1>3
<1> DEFINE a == Cardinality(Ifs(s, m + 1))
           b == Cardinality(Endifs(s, m + 1))
           k == t[m + 1].kind
<1>6. a \in Nat /\ b \in Nat
  BY <1>1, <1>2, <1>4
<1>7. Level(t, m + 2) = (a + (IF k = "if" THEN 1 ELSE 0)) - (b + (IF k = "endif" THEN 1 ELSE 0))
      /\ Level(s, m + 1) = a - b
  BY <1>1, <1>2, <1>3
<1> HIDE DEF a, b
<1>8. Level(t, m + 2) = (a - b) + (IF k = "if" THEN 1 ELSE IF k = "endif" THEN -1 ELSE 0)
  <2> HIDE DEF k
  <2>1. CASE k = "if"
    BY <1>6, <1>7, <2>1
  <2>2. CASE k = "endif"
    BY <1>6, <1>7, <2>2
  <2>3. CASE k # "if" /\ k # "endif"
    BY <1>6, <1>7, <2>3
  <2> QED BY <2>1, <2>2, <2>3
<1> QED BY <1>5, <1>7, <1>8


\* t is s with one more line.
OneMore(s, t, m) ==
  /\ m \in Nat /\ Len(s) = m /\ Len(t) = m + 1
  /\ \A j \in 1 .. m : t[j] = s[j]
  /\ \A k \in 1 .. m + 1 : Level(t, k) = Level(s, k) /\ Level(s, k) \in Int
  /\ Level(t, m + 2) = Level(s, m + 1) + (IF t[m + 1].kind = "if" THEN 1
                                          ELSE IF t[m + 1].kind = "endif" THEN -1 ELSE 0)

LEMMA OneMoreLine ==
  ASSUME NEW s \in Seq(SeenType), NEW e \in SeenType
  PROVE  OneMore(s, Append(s, e), Len(s)) /\ Append(s, e)[Len(s) + 1] = e
<1> DEFINE t == Append(s, e)
           m == Len(s)
<1>1. /\ m \in Nat /\ Len(t) = m + 1 /\ t[m + 1] = e
      /\ \A j \in 1 .. m : t[j] = s[j]
  BY AppendProperties, LenProperties
<1> HIDE DEF t
<1>2. Len(s) = m
  OBVIOUS
<1> HIDE DEF m
<1>3. OneMore(s, t, m)
  BY <1>1, <1>2, LevelStep DEF OneMore
<1> QED BY <1>1, <1>3 DEF t, m

\* What a line read so far keeps of a group when one more line is read.
LEMMA OpensStep ==
  ASSUME NEW s, NEW t, NEW m, OneMore(s, t, m), NEW d \in Nat
  PROVE  /\ \A o \in 1 .. m : Opens(t, d, o) <=> Opens(s, d, o) /\ Level(t, m + 2) >= d
         /\ Opens(t, d, m + 1) <=> /\ t[m + 1].kind = "if" /\ Level(s, m + 1) = d - 1
                                   /\ Level(t, m + 2) >= d
<1>1. /\ m \in Nat /\ Len(s) = m /\ Len(t) = m + 1
      /\ \A j \in 1 .. m : t[j] = s[j]
      /\ \A k \in 1 .. m + 1 : Level(t, k) = Level(s, k)
  BY DEF OneMore
<1>2. ASSUME NEW o \in 1 .. m
      PROVE  Opens(t, d, o) <=> Opens(s, d, o) /\ Level(t, m + 2) >= d
  <2>1. \A j : j \in (o + 1) .. (Len(t) + 1) <=> j \in (o + 1) .. (Len(s) + 1) \/ j = m + 2
    BY <1>1
  <2>2. \A j \in (o + 1) .. (Len(s) + 1) : j \in 1 .. m + 1
    BY <1>1
  <2>3. o \in 1 .. m + 1
    BY <1>1
  <2> QED BY <1>1, <2>1, <2>2, <2>3 DEF Opens
<1>3. Opens(t, d, m + 1) <=> /\ t[m + 1].kind = "if" /\ Level(s, m + 1) = d - 1
                             /\ Level(t, m + 2) >= d
  <2>1. \A j : j \in ((m + 1) + 1) .. (Len(t) + 1) <=> j = m + 2
    BY <1>1
  <2>2. m + 1 \in 1 .. m + 1
    BY <1>1
  <2> QED BY <1>1, <2>1, <2>2 DEF Opens
<1> QED BY <1>2, <1>3

\* The line joins the heads of its own group if it is an #elif or #else.
LEMMA HeadsStep ==
  ASSUME NEW s, NEW t, NEW m, OneMore(s, t, m)
  PROVE  /\ \A o \in 1 .. m :
              /\ Heads(s, o, m + 1) \subseteq 1 .. m
              /\ Heads(t, o, m + 2) =
                   Heads(s, o, m + 1)
                     \cup (IF t[m + 1].kind \in {"elif", "else"} /\ Level(s, m + 1) = Level(s, o) + 1
                           THEN {m + 1} ELSE {})
         /\ Heads(t, m + 1, m + 2) = {m + 1}
<1>1. /\ m \in Nat /\ Len(s) = m /\ Len(t) = m + 1
      /\ \A j \in 1 .. m : t[j] = s[j]
      /\ \A k \in 1 .. m + 1 : Level(t, k) = Level(s, k)
  BY DEF OneMore
<1>2. ASSUME NEW o \in 1 .. m
      PROVE  /\ Heads(s, o, m + 1) \subseteq 1 .. m
             /\ Heads(t, o, m + 2) =
                  Heads(s, o, m + 1)
                    \cup (IF t[m + 1].kind \in {"elif", "else"} /\ Level(s, m + 1) = Level(s, o) + 1
                          THEN {m + 1} ELSE {})
  <2>1. \A j : j \in (o + 1) .. ((m + 2) - 1) <=> j \in (o + 1) .. ((m + 1) - 1) \/ j = m + 1
    BY <1>1
  <2>2. \A j \in (o + 1) .. ((m + 1) - 1) : j \in 1 .. m /\ j \in 1 .. m + 1
    BY <1>1
  <2>3. o \in 1 .. m + 1 /\ m + 1 \in 1 .. m + 1
    BY <1>1
  <2>4. Heads(s, o, m + 1) \subseteq 1 .. m
    BY <2>2 DEF Heads
  <2> QED BY <1>1, <2>1, <2>2, <2>3, <2>4 DEF Heads
<1>3. Heads(t, m + 1, m + 2) = {m + 1}
  <2>1. \A j : ~(j \in ((m + 1) + 1) .. ((m + 2) - 1))
    BY <1>1
  <2> QED BY <2>1 DEF Heads
<1> QED BY <1>2, <1>3

\* Another line leaves the branches of a group as they are.
LEMMA SameGroup ==
  ASSUME NEW s, NEW t, NEW m, OneMore(s, t, m), NEW o \in 1 .. m,
         Heads(t, o, m + 2) = Heads(s, o, m + 1)
  PROVE  (Good(t, o) <=> Good(s, o)) /\ (Tried(t, o) <=> Tried(s, o))
<1>1. m \in Nat /\ Len(s) + 1 = m + 1 /\ Len(t) + 1 = m + 2 /\ \A j \in 1 .. m : t[j] = s[j]
  BY DEF OneMore
<1>2. \A j \in Heads(s, o, m + 1) : j \in 1 .. m
  BY HeadsStep
<1>3. \A j \in Heads(s, o, m + 1) : Chosen(t, j) <=> Chosen(s, j)
  BY <1>1, <1>2 DEF Chosen
<1> QED BY <1>1, <1>3 DEF Good, Tried

\* One more branch: it is the one to read if its condition holds and no other was chosen.
LEMMA NewBranch ==
  ASSUME NEW s, NEW t, NEW m, OneMore(s, t, m), NEW o \in 1 .. m,
         Heads(t, o, m + 2) = Heads(s, o, m + 1) \cup {m + 1}
  PROVE  /\ Good(t, o) <=> Chosen(t, m + 1) /\ ~Tried(s, o)
         /\ Tried(t, o) <=> Tried(s, o) \/ Chosen(t, m + 1)
<1>1. m \in Nat /\ Len(s) + 1 = m + 1 /\ Len(t) + 1 = m + 2 /\ \A j \in 1 .. m : t[j] = s[j]
  BY DEF OneMore
<1>2. \A j \in Heads(s, o, m + 1) : j \in 1 .. m
  BY HeadsStep
<1>3. \A j \in Heads(s, o, m + 1) : Chosen(t, j) <=> Chosen(s, j)
  BY <1>1, <1>2 DEF Chosen
<1>4. Latest(Heads(t, o, m + 2)) = {m + 1}
  <2>1. \A j \in Heads(t, o, m + 2) : j \in Int /\ m + 1 >= j /\ (j >= m + 1 => j = m + 1)
    BY <1>1, <1>2
  <2> QED BY <2>1 DEF Latest
<1>5. m + 1 \notin Heads(s, o, m + 1)
  BY <1>1, <1>2
<1> QED BY <1>1, <1>3, <1>4, <1>5 DEF Good, Tried

\* A group of one branch.
LEMMA NewGroup ==
  ASSUME NEW s, NEW t, NEW m, OneMore(s, t, m)
  PROVE  /\ Good(t, m + 1) <=> Chosen(t, m + 1)
         /\ Tried(t, m + 1) <=> Chosen(t, m + 1)
<1>1. m \in Nat /\ Len(t) + 1 = m + 2
  BY DEF OneMore
<1>2. Heads(t, m + 1, m + 2) = {m + 1}
  BY HeadsStep
<1>3. Latest({m + 1}) = {m + 1}
  BY <1>1 DEF Latest
<1> QED BY <1>1, <1>2, <1>3 DEF Good, Tried


\* A line says nothing of the groups around its own, nor of its own if it is no directive.
LEMMA OuterGroup ==
  ASSUME NEW s, NEW t, NEW m, OneMore(s, t, m), NEW d \in Nat,
         d <= Level(s, m + 1), d <= Level(t, m + 2),
         d < Level(s, m + 1) \/ t[m + 1].kind \notin {"elif", "else"}
  PROVE  /\ \A o \in 1 .. m : /\ Opens(t, d, o) <=> Opens(s, d, o)
                              /\ Opens(s, d, o) => /\ Good(t, o) <=> Good(s, o)
                                                   /\ Tried(t, o) <=> Tried(s, o)
         /\ ~Opens(t, d, m + 1)
<1>1. m \in Nat /\ Level(s, m + 1) \in Int /\ Level(t, m + 2) \in Int
  <2>1. m \in Nat /\ m + 1 \in 1 .. m + 1
    BY DEF OneMore
  <2>2. Level(s, m + 1) \in Int
    BY <2>1 DEF OneMore
  <2> QED BY <2>1, <2>2 DEF OneMore
<1>2. ~Opens(t, d, m + 1)
  BY <1>1, OpensStep
<1>3. ASSUME NEW o \in 1 .. m PROVE Opens(t, d, o) <=> Opens(s, d, o)
  BY <1>1, OpensStep
<1>4. ASSUME NEW o \in 1 .. m, Opens(s, d, o)
      PROVE  (Good(t, o) <=> Good(s, o)) /\ (Tried(t, o) <=> Tried(s, o))
  <2>1. Level(s, o) = d - 1
    BY <1>4 DEF Opens
  <2>2. ~(t[m + 1].kind \in {"elif", "else"} /\ Level(s, m + 1) = Level(s, o) + 1)
    BY <1>1, <2>1
  <2>3. Heads(t, o, m + 2) =
          Heads(s, o, m + 1)
            \cup (IF t[m + 1].kind \in {"elif", "else"} /\ Level(s, m + 1) = Level(s, o) + 1
                  THEN {m + 1} ELSE {})
    BY HeadsStep
  <2>4. Heads(t, o, m + 2) = Heads(s, o, m + 1) \cup {}
    BY <2>2, <2>3, Zenon
  <2>5. Heads(t, o, m + 2) = Heads(s, o, m + 1)
    BY <2>4
  <2> QED BY <2>5, SameGroup
<1> QED BY <1>2, <1>3, <1>4

LEMMA OuterGroups ==
  ASSUME NEW s, NEW t, NEW m, OneMore(s, t, m), NEW n \in Nat,
         n <= Level(s, m + 1), n <= Level(t, m + 2),
         n < Level(s, m + 1) \/ t[m + 1].kind \notin {"elif", "else"},
         NEW skip, NEW cond, MirrorsUpTo(s, skip, cond, n)
  PROVE  MirrorsUpTo(t, skip, cond, n)
<1>1. m \in Nat /\ Level(s, m + 1) \in Int /\ Level(t, m + 2) \in Int
      /\ Len(s) = m /\ Len(t) = m + 1
  <2>1. m \in Nat /\ m + 1 \in 1 .. m + 1
    BY DEF OneMore
  <2>2. Level(s, m + 1) \in Int
    BY <2>1 DEF OneMore
  <2> QED BY <2>1, <2>2 DEF OneMore
<1>2. ASSUME NEW d \in 1 .. n
      PROVE  /\ \A o \in 1 .. m : /\ Opens(t, d, o) <=> Opens(s, d, o)
                                  /\ Opens(s, d, o) => /\ Good(t, o) <=> Good(s, o)
                                                       /\ Tried(t, o) <=> Tried(s, o)
             /\ ~Opens(t, d, m + 1)
  <2>1. d \in Nat /\ d <= Level(s, m + 1) /\ d <= Level(t, m + 2)
        /\ (d < Level(s, m + 1) \/ t[m + 1].kind \notin {"elif", "else"})
    BY <1>1
  <2> QED BY <2>1, OuterGroup
<1>3. \A o : o \in 1 .. m + 1 <=> o \in 1 .. m \/ o = m + 1
  BY <1>1
<1>4. \A d \in 1 .. n : \E o \in 1 .. Len(t) : Opens(t, d, o)
  BY <1>1, <1>2, <1>3 DEF MirrorsUpTo
<1>5. ASSUME NEW d \in 0 .. n PROVE Off(t, d) <=> Off(s, d)
  <2>1. \A x \in 1 .. d : x \in 1 .. n
    OBVIOUS
  <2> QED BY <1>1, <1>2, <1>3, <2>1 DEF Off
<1>6. ASSUME NEW d \in 1 .. n, NEW o \in 1 .. Len(t), Opens(t, d, o)
      PROVE  cond[d + 1] <=> (skip[d] \/ Tried(t, o))
  <2>1. o \in 1 .. m /\ Opens(s, d, o) /\ (Tried(t, o) <=> Tried(s, o))
    BY <1>1, <1>2, <1>3, <1>6
  <2> QED BY <1>1, <2>1 DEF MirrorsUpTo
<1> QED BY <1>4, <1>5, <1>6 DEF MirrorsUpTo

\* Stacks that agree that far say the same.
LEMMA SameStacks ==
  ASSUME NEW s, NEW n \in Nat, NEW skip, NEW cond, NEW k, NEW c,
         \A d \in 1 .. n + 1 : k[d] = skip[d] /\ c[d] = cond[d],
         MirrorsUpTo(s, skip, cond, n)
  PROVE  MirrorsUpTo(s, k, c, n)
<1>1. \A d \in 0 .. n : d + 1 \in 1 .. n + 1
  OBVIOUS
<1>2. \A d \in 1 .. n : d \in 1 .. n + 1 /\ d + 1 \in 1 .. n + 1
  OBVIOUS
<1> QED BY <1>1, <1>2 DEF MirrorsUpTo

\* One group more.
LEMMA MirrorsNext ==
  ASSUME NEW s, NEW n \in Nat, NEW skip, NEW cond, MirrorsUpTo(s, skip, cond, n),
         \E o \in 1 .. Len(s) : Opens(s, n + 1, o),
         skip[n + 2] <=> (skip[n + 1] \/ \E o \in 1 .. Len(s) : Opens(s, n + 1, o) /\ ~Good(s, o)),
         \A o \in 1 .. Len(s) : Opens(s, n + 1, o) =>
           (cond[n + 2] <=> (skip[n + 1] \/ Tried(s, o)))
  PROVE  MirrorsUpTo(s, skip, cond, n + 1)
<1>1. /\ \A d : d \in 1 .. n + 1 <=> d \in 1 .. n \/ d = n + 1
      /\ \A d : d \in 0 .. n + 1 <=> d \in 0 .. n \/ d = n + 1
      /\ n \in 0 .. n /\ (n + 1) + 1 = n + 2
  OBVIOUS
<1>2. skip[n + 1] <=> Off(s, n)
  BY <1>1 DEF MirrorsUpTo
<1>3. Off(s, n + 1) <=> Off(s, n) \/ \E o \in 1 .. Len(s) : Opens(s, n + 1, o) /\ ~Good(s, o)
  BY <1>1 DEF Off
<1>4. \A d \in 0 .. n + 1 : skip[d + 1] <=> Off(s, d)
  BY <1>1, <1>2, <1>3 DEF MirrorsUpTo
<1> QED BY <1>1, <1>4 DEF MirrorsUpTo


\* The four ways a line changes the stacks.
LEMMA LevelsStay ==
  ASSUME NEW s, NEW t, NEW m, OneMore(s, t, m), NEW skip, NEW cond, Mirrors(s, skip, cond),
         Level(t, m + 2) \in Nat
  PROVE  /\ \A k \in 1 .. Len(t) + 1 : Level(t, k) \in Nat
         /\ Len(t) + 1 = m + 2 /\ Len(s) + 1 = m + 1 /\ m \in Nat
         /\ Level(s, m + 1) \in Nat /\ Level(s, m + 1) = Len(skip) - 1
<1>1. /\ m \in Nat /\ Len(s) = m /\ Len(t) = m + 1
      /\ \A k \in 1 .. m + 1 : Level(t, k) = Level(s, k)
  BY DEF OneMore
<1>2. \A k \in 1 .. m + 1 : Level(s, k) \in Nat
  BY <1>1 DEF Mirrors
<1>3. \A k \in 1 .. Len(t) + 1 : k \in 1 .. m + 1 \/ k = m + 2
  BY <1>1
<1>4. m + 1 \in 1 .. m + 1 /\ Len(t) + 1 = m + 2 /\ Len(s) + 1 = m + 1
  BY <1>1
<1> QED BY <1>1, <1>2, <1>3, <1>4 DEF Mirrors

LEMMA MirrorsKept ==
  ASSUME NEW s, NEW t, NEW m, OneMore(s, t, m), NEW skip \in Seq(BOOLEAN), NEW cond \in Seq(BOOLEAN),
         Mirrors(s, skip, cond), t[m + 1].kind \notin {"if", "elif", "else", "endif"}
  PROVE  Mirrors(t, skip, cond)
<1> DEFINE n == Level(s, m + 1)
<1>1. n \in Nat /\ Level(t, m + 2) = n
  <2>1. m \in Nat /\ m + 1 \in 1 .. m + 1 /\ Len(s) = m
    BY DEF OneMore
  <2>2. n \in Nat
    BY <2>1 DEF Mirrors
  <2> QED BY <2>2 DEF OneMore
<1>2. /\ \A k \in 1 .. Len(t) + 1 : Level(t, k) \in Nat
      /\ Len(t) + 1 = m + 2 /\ n = Len(skip) - 1
  BY <1>1, LevelsStay
<1>3. MirrorsUpTo(s, skip, cond, n)
  BY <1>2 DEF Mirrors
<1>4. n <= Level(s, m + 1) /\ n <= Level(t, m + 2)
  BY <1>1
<1>5. MirrorsUpTo(t, skip, cond, n)
  BY <1>1, <1>3, <1>4, OuterGroups
<1> HIDE DEF n
<1> QED BY <1>1, <1>2, <1>5 DEF Mirrors

LEMMA MirrorsPop ==
  ASSUME NEW s, NEW t, NEW m, OneMore(s, t, m), NEW skip \in Seq(BOOLEAN), NEW cond \in Seq(BOOLEAN),
         Len(cond) = Len(skip), Mirrors(s, skip, cond),
         t[m + 1].kind = "endif", Level(s, m + 1) > 0
  PROVE  Mirrors(t, Front(skip), Front(cond))
<1> DEFINE n == Level(s, m + 1)
           k == Front(skip)
           c == Front(cond)
<1>1. n \in Nat /\ n > 0 /\ Level(t, m + 2) = n - 1 /\ n - 1 \in Nat
  <2>1. m \in Nat /\ m + 1 \in 1 .. m + 1 /\ Len(s) = m
    BY DEF OneMore
  <2>2. n \in Nat
    BY <2>1 DEF Mirrors
  <2>3. Level(t, m + 2) = n + (-1)
    BY DEF OneMore
  <2> QED BY <2>2, <2>3
<1>2. /\ \A i \in 1 .. Len(t) + 1 : Level(t, i) \in Nat
      /\ Len(t) + 1 = m + 2 /\ n = Len(skip) - 1
  BY <1>1, LevelsStay
<1>3. MirrorsUpTo(s, skip, cond, n)
  BY <1>2 DEF Mirrors
<1> HIDE DEF n
<1>4. MirrorsUpTo(s, skip, cond, n - 1)
  <2>1. \A d : (d \in 1 .. n - 1 => d \in 1 .. n) /\ (d \in 0 .. n - 1 => d \in 0 .. n)
    BY <1>1
  <2> QED BY <1>3, <2>1 DEF MirrorsUpTo
<1>5. n - 1 <= Level(s, m + 1) /\ n - 1 <= Level(t, m + 2) /\ n - 1 < Level(s, m + 1)
  BY <1>1 DEF n
<1>6. MirrorsUpTo(t, skip, cond, n - 1)
  BY <1>1, <1>4, <1>5, OuterGroups
<1>7. skip # <<>> /\ cond # <<>> /\ Len(skip) = n + 1 /\ Len(cond) = n + 1
  BY <1>1, <1>2
<1>8. /\ Len(k) = n /\ \A d \in 1 .. n : k[d] = skip[d]
      /\ Len(c) = n /\ \A d \in 1 .. n : c[d] = cond[d]
  <2>1. Len(k) = Len(skip) - 1 /\ \A d \in 1 .. Len(skip) - 1 : k[d] = skip[d]
    BY <1>7, LastFrontProperties
  <2>2. Len(c) = Len(cond) - 1 /\ \A d \in 1 .. Len(cond) - 1 : c[d] = cond[d]
    BY <1>7, LastFrontProperties
  <2>3. (n + 1) - 1 = n
    BY <1>1
  <2> QED BY <1>7, <2>1, <2>2, <2>3
<1> HIDE DEF k, c
<1>9. \A d \in 1 .. (n - 1) + 1 : k[d] = skip[d] /\ c[d] = cond[d]
  BY <1>1, <1>8
<1>10. MirrorsUpTo(t, k, c, n - 1)
  BY <1>1, <1>6, <1>9, SameStacks
<1>11. Mirrors(t, k, c)
  BY <1>1, <1>2, <1>8, <1>10 DEF Mirrors
<1> QED BY <1>11 DEF k, c

LEMMA MirrorsPush ==
  ASSUME NEW s, NEW t, NEW m, OneMore(s, t, m), NEW skip \in Seq(BOOLEAN), NEW cond \in Seq(BOOLEAN),
         Len(cond) = Len(skip), skip # <<>>, Mirrors(s, skip, cond), t[m + 1].kind = "if",
         NEW a \in BOOLEAN, NEW b \in BOOLEAN,
         a <=> (Last(skip) \/ ~t[m + 1].truth), b <=> (Last(skip) \/ t[m + 1].truth)
  PROVE  Mirrors(t, Append(skip, a), Append(cond, b))
<1> DEFINE n == Level(s, m + 1)
           k == Append(skip, a)
           c == Append(cond, b)
<1>1. n \in Nat /\ Level(t, m + 2) = n + 1
  <2>1. m \in Nat /\ m + 1 \in 1 .. m + 1 /\ Len(s) = m
    BY DEF OneMore
  <2>2. n \in Nat
    BY <2>1 DEF Mirrors
  <2> QED BY <2>2 DEF OneMore
<1>2. /\ \A i \in 1 .. Len(t) + 1 : Level(t, i) \in Nat
      /\ Len(t) + 1 = m + 2 /\ n = Len(skip) - 1 /\ m \in Nat
  BY <1>1, LevelsStay
<1>3. MirrorsUpTo(s, skip, cond, n)
  BY <1>2 DEF Mirrors
<1>4. n <= Level(s, m + 1) /\ n <= Level(t, m + 2)
  BY <1>1
<1>5. MirrorsUpTo(t, skip, cond, n)
  BY <1>1, <1>3, <1>4, OuterGroups
<1> HIDE DEF n
<1>6. Len(skip) = n + 1 /\ Len(cond) = n + 1 /\ Last(skip) = skip[n + 1]
  <2>1. Len(skip) = n + 1
    BY <1>1, <1>2
  <2> QED BY <2>1, LastFrontProperties
<1>7. /\ Len(k) = n + 2 /\ k[n + 2] = a /\ \A d \in 1 .. n + 1 : k[d] = skip[d]
      /\ c[n + 2] = b /\ \A d \in 1 .. n + 1 : c[d] = cond[d]
  <2>1. /\ Len(k) = Len(skip) + 1 /\ k[Len(skip) + 1] = a /\ \A d \in 1 .. Len(skip) : k[d] = skip[d]
        /\ c[Len(cond) + 1] = b /\ \A d \in 1 .. Len(cond) : c[d] = cond[d]
    BY AppendProperties
  <2>2. (n + 1) + 1 = n + 2
    BY <1>1
  <2> QED BY <1>6, <2>1, <2>2
<1> HIDE DEF k, c
<1>8. MirrorsUpTo(t, k, c, n)
  BY <1>1, <1>5, <1>7, SameStacks
<1>9. k[n + 1] <=> Last(skip)
  BY <1>1, <1>6, <1>7
<1>10. \A o \in 1 .. Len(t) : Opens(t, n + 1, o) <=> o = m + 1
  <2>1. \A o \in 1 .. Len(t) : o \in 1 .. m \/ o = m + 1
    BY <1>2
  <2>2. m + 1 \in 1 .. Len(t) /\ Len(s) = m
    BY <1>2 DEF OneMore
  <2>3. \A o \in 1 .. m : ~Opens(s, n + 1, o)
    <3> SUFFICES ASSUME NEW o \in 1 .. m, Opens(s, n + 1, o) PROVE FALSE
      OBVIOUS
    <3>1. m + 1 \in (o + 1) .. (Len(s) + 1)
      BY <1>2, <2>2
    <3>2. Level(s, m + 1) >= n + 1
      BY <3>1 DEF Opens
    <3> QED BY <1>1, <3>2 DEF n
  <2>4. Opens(t, n + 1, m + 1)
    <3>1. Level(s, m + 1) = (n + 1) - 1 /\ Level(t, m + 2) >= n + 1 /\ n + 1 \in Nat
      BY <1>1 DEF n
    <3> QED BY <3>1, OpensStep
  <2> QED BY <1>1, <2>1, <2>2, <2>3, <2>4, OpensStep
<1>11. /\ Good(t, m + 1) <=> t[m + 1].truth
       /\ Tried(t, m + 1) <=> t[m + 1].truth
  BY NewGroup DEF Chosen
<1>12. m + 1 \in 1 .. Len(t)
  BY <1>2
<1>13. MirrorsUpTo(t, k, c, n + 1)
  <2>1. \E o \in 1 .. Len(t) : Opens(t, n + 1, o)
    BY <1>10, <1>12
  <2>2. k[n + 2] <=> (k[n + 1] \/ \E o \in 1 .. Len(t) : Opens(t, n + 1, o) /\ ~Good(t, o))
    BY <1>7, <1>9, <1>10, <1>11, <1>12
  <2>3. \A o \in 1 .. Len(t) : Opens(t, n + 1, o) => (c[n + 2] <=> (k[n + 1] \/ Tried(t, o)))
    BY <1>7, <1>9, <1>10, <1>11
  <2> QED BY <1>1, <1>8, <2>1, <2>2, <2>3, MirrorsNext
<1>14. Mirrors(t, k, c)
  <2>1. Len(k) - 1 = n + 1
    BY <1>1, <1>7
  <2> QED BY <1>1, <1>2, <1>13, <2>1 DEF Mirrors
<1> QED BY <1>14 DEF k, c


LEMMA MirrorsReplace ==
  ASSUME NEW s, NEW t, NEW m, OneMore(s, t, m), NEW skip \in Seq(BOOLEAN), NEW cond \in Seq(BOOLEAN),
         Len(cond) = Len(skip), Mirrors(s, skip, cond),
         t[m + 1].kind \in {"elif", "else"}, Level(s, m + 1) > 0,
         NEW a \in BOOLEAN, NEW b \in BOOLEAN,
         a <=> (Last(cond) \/ ~Chosen(t, m + 1)), b <=> (Last(cond) \/ Chosen(t, m + 1))
  PROVE  Mirrors(t, Append(Front(skip), a), Append(Front(cond), b))
<1> DEFINE n == Level(s, m + 1)
           k == Append(Front(skip), a)
           c == Append(Front(cond), b)
<1>1. n \in Nat /\ n > 0 /\ Level(t, m + 2) = n /\ n - 1 \in Nat
  <2>1. m \in Nat /\ m + 1 \in 1 .. m + 1 /\ Len(s) = m
    BY DEF OneMore
  <2>2. n \in Nat
    BY <2>1 DEF Mirrors
  <2>3. Level(t, m + 2) = n + 0
    BY DEF OneMore
  <2> QED BY <2>2, <2>3
<1>2. /\ \A i \in 1 .. Len(t) + 1 : Level(t, i) \in Nat
      /\ Len(t) + 1 = m + 2 /\ n = Len(skip) - 1 /\ m \in Nat /\ Len(s) = m
  <2>1. Len(s) = m
    BY DEF OneMore
  <2> QED BY <1>1, <2>1, LevelsStay
<1>3. MirrorsUpTo(s, skip, cond, n)
  BY <1>2 DEF Mirrors
<1>4. n - 1 <= Level(s, m + 1) /\ n - 1 <= Level(t, m + 2) /\ n - 1 < Level(s, m + 1)
  BY <1>1
<1>5. Level(s, m + 1) = n
  OBVIOUS
<1> HIDE DEF n
<1>6. MirrorsUpTo(s, skip, cond, n - 1)
  <2>1. \A d : (d \in 1 .. n - 1 => d \in 1 .. n) /\ (d \in 0 .. n - 1 => d \in 0 .. n)
    BY <1>1
  <2> QED BY <1>3, <2>1 DEF MirrorsUpTo
<1>7. MirrorsUpTo(t, skip, cond, n - 1)
  BY <1>1, <1>4, <1>6, OuterGroups
<1>8. /\ skip # <<>> /\ cond # <<>> /\ Len(skip) = n + 1 /\ Len(cond) = n + 1
      /\ Last(cond) = cond[n + 1]
  <2>1. skip # <<>> /\ cond # <<>> /\ Len(skip) = n + 1 /\ Len(cond) = n + 1
    BY <1>1, <1>2
  <2> QED BY <2>1, LastFrontProperties
<1>9. /\ Len(k) = n + 1 /\ k[n + 1] = a /\ \A d \in 1 .. n : k[d] = skip[d]
      /\ c[n + 1] = b /\ \A d \in 1 .. n : c[d] = cond[d]
  <2>1. /\ Len(k) = Len(skip) /\ k[Len(skip)] = a
        /\ \A d \in 1 .. Len(skip) - 1 : k[d] = skip[d]
    BY <1>8, ReplacedTop
  <2>2. c[Len(cond)] = b /\ \A d \in 1 .. Len(cond) - 1 : c[d] = cond[d]
    BY <1>8, ReplacedTop
  <2>3. (n + 1) - 1 = n
    BY <1>1
  <2> QED BY <1>8, <2>1, <2>2, <2>3
<1> HIDE DEF k, c
<1>10. MirrorsUpTo(t, k, c, n - 1)
  <2>1. \A d \in 1 .. (n - 1) + 1 : k[d] = skip[d] /\ c[d] = cond[d]
    BY <1>1, <1>9
  <2> QED BY <1>1, <1>7, <2>1, SameStacks
<1>11. \A o : o \in 1 .. Len(t) <=> o \in 1 .. m \/ o = m + 1
  BY <1>2
<1>12. /\ \A o \in 1 .. m : Opens(t, n, o) <=> Opens(s, n, o)
       /\ ~Opens(t, n, m + 1)
  <2>1. Level(t, m + 2) >= n
    BY <1>1
  <2> QED BY <1>1, <2>1, OpensStep
<1>13. ASSUME NEW o \in 1 .. m, Opens(s, n, o)
       PROVE  /\ Good(t, o) <=> Chosen(t, m + 1) /\ ~Tried(s, o)
              /\ Tried(t, o) <=> Tried(s, o) \/ Chosen(t, m + 1)
              /\ cond[n + 1] <=> (skip[n] \/ Tried(s, o))
  <2>1. Level(s, o) = n - 1 /\ n = (n - 1) + 1
    BY <1>1, <1>13 DEF Opens
  <2>2. t[m + 1].kind \in {"elif", "else"} /\ Level(s, m + 1) = Level(s, o) + 1
    BY <1>5, <2>1
  <2>3. Heads(t, o, m + 2) =
          Heads(s, o, m + 1)
            \cup (IF t[m + 1].kind \in {"elif", "else"} /\ Level(s, m + 1) = Level(s, o) + 1
                  THEN {m + 1} ELSE {})
    BY HeadsStep
  <2>4. Heads(t, o, m + 2) = Heads(s, o, m + 1) \cup {m + 1}
    BY <2>2, <2>3, Zenon
  <2>5. /\ Good(t, o) <=> Chosen(t, m + 1) /\ ~Tried(s, o)
        /\ Tried(t, o) <=> Tried(s, o) \/ Chosen(t, m + 1)
    BY <2>4, NewBranch
  <2>6. n \in 1 .. n /\ o \in 1 .. Len(s)
    BY <1>1, <1>2
  <2>7. cond[n + 1] <=> (skip[n] \/ Tried(s, o))
    BY <1>3, <1>13, <2>6 DEF MirrorsUpTo
  <2> QED BY <2>5, <2>7
<1>14. PICK x \in 1 .. m : Opens(s, n, x)
  <2>1. n \in 1 .. n
    BY <1>1
  <2> QED BY <1>2, <1>3, <2>1 DEF MirrorsUpTo
<1>15. MirrorsUpTo(t, k, c, n)
  <2>1. (n - 1) + 1 = n /\ (n - 1) + 2 = n + 1 /\ n \in 1 .. n
    BY <1>1
  <2>2. k[n] = skip[n]
    BY <1>9, <2>1
  <2>3. \E o \in 1 .. Len(t) : Opens(t, n, o)
    BY <1>11, <1>12, <1>14
  <2>4. k[n + 1] <=> (k[n] \/ \E o \in 1 .. Len(t) : Opens(t, n, o) /\ ~Good(t, o))
    <3>1. k[n + 1] <=> (cond[n + 1] \/ ~Chosen(t, m + 1))
      BY <1>8, <1>9
    <3>2. cond[n + 1] <=> (skip[n] \/ Tried(s, x))
      BY <1>13, <1>14
    <3>3. ASSUME k[n + 1] PROVE k[n] \/ \E o \in 1 .. Len(t) : Opens(t, n, o) /\ ~Good(t, o)
      <4>1. x \in 1 .. Len(t) /\ Opens(t, n, x)
        BY <1>11, <1>12, <1>14
      <4>2. Good(t, x) <=> Chosen(t, m + 1) /\ ~Tried(s, x)
        BY <1>13, <1>14
      <4> QED BY <2>2, <3>1, <3>2, <3>3, <4>1, <4>2
    <3>4. ASSUME k[n] PROVE k[n + 1]
      BY <2>2, <3>1, <3>2, <3>4
    <3>5. ASSUME NEW o \in 1 .. Len(t), Opens(t, n, o), ~Good(t, o) PROVE k[n + 1]
      <4>1. o \in 1 .. m /\ Opens(s, n, o)
        BY <1>11, <1>12, <3>5
      <4>2. /\ Good(t, o) <=> Chosen(t, m + 1) /\ ~Tried(s, o)
            /\ cond[n + 1] <=> (skip[n] \/ Tried(s, o))
        BY <1>13, <4>1
      <4> QED BY <3>1, <3>5, <4>2
    <3> QED BY <3>3, <3>4, <3>5
  <2>5. ASSUME NEW o \in 1 .. Len(t), Opens(t, n, o) PROVE c[n + 1] <=> (k[n] \/ Tried(t, o))
    <3>1. o \in 1 .. m /\ Opens(s, n, o)
      BY <1>11, <1>12, <2>5
    <3>2. /\ Tried(t, o) <=> Tried(s, o) \/ Chosen(t, m + 1)
          /\ cond[n + 1] <=> (skip[n] \/ Tried(s, o))
      BY <1>13, <3>1
    <3> QED BY <1>8, <1>9, <2>2, <3>2
  <2>6. MirrorsUpTo(t, k, c, (n - 1) + 1)
    <3> DEFINE p == n - 1
    <3>1. p \in Nat /\ p + 1 = n /\ p + 2 = n + 1
      BY <1>1
    <3> HIDE DEF p
    <3>2. MirrorsUpTo(t, k, c, p)
      BY <1>10 DEF p
    <3>3. MirrorsUpTo(t, k, c, p + 1)
      BY <2>3, <2>4, <2>5, <3>1, <3>2, MirrorsNext
    <3> QED BY <3>3 DEF p
  <2> QED BY <2>1, <2>6
<1>16. Mirrors(t, k, c)
  <2>1. Len(k) - 1 = n
    BY <1>1, <1>9
  <2> QED BY <1>1, <1>2, <1>15, <2>1 DEF Mirrors
<1> QED BY <1>16 DEF k, c

\* A set of line numbers that is not empty has a last one.
LEMMA LatestExists ==
  ASSUME NEW n \in Nat, NEW H \in SUBSET (1 .. n), H # {}
  PROVE  \E j \in H : j \in Latest(H)
<1> DEFINE D == {n - j : j \in H}
<1>1. D \subseteq Nat /\ D # {}
  OBVIOUS
<1>2. PICK y \in D : \A z \in D : ~(<<z, y>> \in OpToRel(<, Nat))
  BY <1>1, NatLessThanWellFounded, WFMin
<1>3. \A z \in D : ~(z < y)
  BY <1>1, <1>2 DEF OpToRel
<1>4. PICK j \in H : y = n - j
  OBVIOUS
<1>5. \A i \in H : n - i \in D /\ i \in 1 .. n
  OBVIOUS
<1> HIDE DEF D
<1>6. \A i \in H : j >= i
  BY <1>3, <1>4, <1>5
<1> QED BY <1>4, <1>6 DEF Latest

\* A group that is being read has had a branch chosen.
LEMMA LiveIsTaken ==
  ASSUME NEW s, NEW skip \in Seq(BOOLEAN), NEW cond \in Seq(BOOLEAN), Len(cond) = Len(skip),
         Mirrors(s, skip, cond), Len(s) \in Nat, Level(s, Len(s) + 1) > 0, ~Last(skip)
  PROVE  Last(cond)
<1> DEFINE n == Level(s, Len(s) + 1)
<1>1. n \in Nat /\ n > 0 /\ n = Len(skip) - 1
  <2>1. Len(s) + 1 \in 1 .. Len(s) + 1
    OBVIOUS
  <2> QED BY <2>1 DEF Mirrors
<1>2. MirrorsUpTo(s, skip, cond, n)
  BY <1>1 DEF Mirrors
<1> HIDE DEF n
<1>3. /\ skip # <<>> /\ cond # <<>> /\ Last(skip) = skip[n + 1] /\ Last(cond) = cond[n + 1]
  <2>1. Len(skip) = n + 1 /\ Len(cond) = n + 1 /\ skip # <<>> /\ cond # <<>>
    BY <1>1
  <2> QED BY <2>1, LastFrontProperties
<1>4. n \in 1 .. n /\ n \in 0 .. n
  BY <1>1
<1>5. PICK x \in 1 .. Len(s) : Opens(s, n, x)
  BY <1>2, <1>4 DEF MirrorsUpTo
<1>6. Good(s, x)
  BY <1>2, <1>3, <1>4, <1>5 DEF MirrorsUpTo, Off
<1>7. Tried(s, x)
  <2> DEFINE heads == Heads(s, x, Len(s) + 1)
  <2>1. heads # {} /\ heads \in SUBSET (1 .. Len(s))
    BY DEF Heads
  <2>2. \E j \in heads : j \in Latest(heads)
    <3> HIDE DEF heads
    <3> QED BY <2>1, LatestExists
  <2> QED BY <1>6, <2>2 DEF Good, Tried
<1> QED BY <1>2, <1>3, <1>4, <1>5, <1>7 DEF MirrorsUpTo


-----------------------------------------------------------------------------
\* The files being read.
FrameMirrors(f) == WellFormed(f.seen) => Mirrors(f.seen, f.skip, f.cond)
MirrorInv == \A i \in 1 .. Len(frames) : FrameMirrors(frames[i])

\* The line as "seen" keeps it.
Noted == [kind |-> Kind, truth |-> Truth]

LEMMA WellFormedStep ==
  ASSUME NEW s \in Seq(SeenType), NEW e \in SeenType, WellFormed(Append(s, e))
  PROVE  /\ WellFormed(s)
         /\ e.kind \in {"elif", "else", "endif"} => Level(s, Len(s) + 1) > 0
<1> DEFINE t == Append(s, e)
           m == Len(s)
<1>1. OneMore(s, t, m) /\ t[m + 1] = e
  BY OneMoreLine
<1>2. /\ m \in Nat /\ \A j \in 1 .. m : t[j] = s[j]
      /\ \A k \in 1 .. m + 1 : Level(t, k) = Level(s, k)
  BY <1>1 DEF OneMore
<1>3. DOMAIN s = 1 .. m /\ DOMAIN t = 1 .. m + 1
  <2>1. t \in Seq(SeenType) /\ Len(t) = m + 1
    BY AppendProperties
  <2> QED BY <2>1, LenProperties
<1>4. WellFormed(t)
  OBVIOUS
<1> HIDE DEF t, m
<1>5. \A k \in 1 .. m : k \in 1 .. m + 1
  BY <1>2
<1>6. WellFormed(s)
  BY <1>2, <1>3, <1>4, <1>5 DEF WellFormed
<1>7. m + 1 \in 1 .. m + 1
  BY <1>2
<1>8. e.kind \in {"elif", "else", "endif"} => Level(s, m + 1) > 0
  BY <1>1, <1>2, <1>3, <1>4, <1>7 DEF WellFormed
<1> QED BY <1>6, <1>8 DEF m

\* What the next line adds to.
LEMMA LineFacts ==
  ASSUME StateInv, MirrorInv, Reading, WellFormed(Append(Top.seen, Noted))
  PROVE  /\ Mirrors(Top.seen, Top.skip, Top.cond)
         /\ OneMore(Top.seen, Append(Top.seen, Noted), Len(Top.seen))
         /\ Append(Top.seen, Noted)[Len(Top.seen) + 1] = Noted
         /\ Top.skip \in Seq(BOOLEAN) /\ Top.cond \in Seq(BOOLEAN) /\ Len(Top.cond) = Len(Top.skip)
         /\ Len(Top.seen) \in Nat
         /\ Kind \in {"elif", "else", "endif"} => Level(Top.seen, Len(Top.seen) + 1) > 0
<1>1. /\ Len(frames) \in 1 .. Len(frames) /\ Top = frames[Len(frames)]
      /\ Top \in FrameType /\ FrameInv(Top)
  BY TopFacts DEF Reading
<1>2. /\ Top.seen \in Seq(SeenType) /\ Top.skip \in Seq(BOOLEAN) /\ Top.cond \in Seq(BOOLEAN)
      /\ Len(Top.cond) = Len(Top.skip)
  BY <1>1 DEF FrameType, FrameInv, SeenType
<1>3. Noted \in SeenType /\ Noted.kind = Kind
  BY ReadFacts DEF Noted, SeenType
<1>4. /\ WellFormed(Top.seen)
      /\ Kind \in {"elif", "else", "endif"} => Level(Top.seen, Len(Top.seen) + 1) > 0
  BY <1>2, <1>3, WellFormedStep
<1>5. Mirrors(Top.seen, Top.skip, Top.cond)
  BY <1>1, <1>4 DEF MirrorInv, FrameMirrors
<1>6. Len(Top.seen) \in Nat
  BY <1>2, LenProperties
<1> QED BY <1>2, <1>3, <1>4, <1>5, <1>6, OneMoreLine

\* The frame that has read the line, with other stacks.
WithStacks(f, s, c) == [f EXCEPT !.skip = s, !.cond = c]

LEMMA LineFrame ==
  ASSUME StateInv, Reading, NEW s \in Seq(BOOLEAN), NEW c \in Seq(BOOLEAN)
  PROVE  /\ WithStacks(Read, s, c).seen = Append(Top.seen, Noted)
         /\ WithStacks(Read, s, c).skip = s /\ WithStacks(Read, s, c).cond = c
<1>1. Top \in FrameType
  BY TopFacts DEF Reading
<1>2. Read.seen = Append(Top.seen, Noted)
  BY <1>1 DEF Read, FrameType, Noted
<1> DEFINE r == Read
<1>3. r.seen = Append(Top.seen, Noted) /\ r \in FrameType
  BY <1>2, ReadFacts
<1> HIDE DEF r
<1>4. WithStacks(r, s, c).seen = r.seen /\ WithStacks(r, s, c).skip = s
      /\ WithStacks(r, s, c).cond = c
  BY <1>3 DEF FrameType, WithStacks
<1> QED BY <1>3, <1>4 DEF r

LEMMA PushedMirrors ==
  ASSUME StateInv, MirrorInv, Reading, Kind = "if", Top.skip # <<>>,
         NEW a \in BOOLEAN, NEW b \in BOOLEAN,
         a <=> (Last(Top.skip) \/ ~Truth), b <=> (Last(Top.skip) \/ Truth)
  PROVE  FrameMirrors(Pushed(Read, a, b))
<1> DEFINE g == Pushed(Read, a, b)
           S == Append(Top.skip, a)
           C == Append(Top.cond, b)
<1>1. /\ Read.skip = Top.skip /\ Read.cond = Top.cond
      /\ Top.skip \in Seq(BOOLEAN) /\ Top.cond \in Seq(BOOLEAN)
  <2>1. Read.skip = Top.skip /\ Read.cond = Top.cond /\ Read \in FrameType
    BY ReadFacts
  <2> QED BY <2>1 DEF FrameType
<1>2. g = WithStacks(Read, S, C)
  <2>1. Read \in FrameType
    BY ReadFacts
  <2> QED BY <1>1, <2>1 DEF Pushed, FrameType, WithStacks
<1>3. S \in Seq(BOOLEAN) /\ C \in Seq(BOOLEAN)
  BY <1>1, AppendProperties
<1> HIDE DEF g, S, C
<1>4. g.seen = Append(Top.seen, Noted) /\ g.skip = S /\ g.cond = C
  BY <1>2, <1>3, LineFrame
<1>5. ASSUME WellFormed(g.seen) PROVE Mirrors(g.seen, g.skip, g.cond)
  <2> DEFINE t == Append(Top.seen, Noted)
             m == Len(Top.seen)
  <2>1. WellFormed(t)
    BY <1>4, <1>5
  <2>2. /\ Mirrors(Top.seen, Top.skip, Top.cond) /\ OneMore(Top.seen, t, m) /\ t[m + 1] = Noted
        /\ Len(Top.cond) = Len(Top.skip)
    BY <2>1, LineFacts
  <2>3. t[m + 1].kind = "if" /\ t[m + 1].truth = Truth
    BY <2>2 DEF Noted
  <2> HIDE DEF t, m
  <2>4. Mirrors(t, S, C)
    BY <1>1, <2>2, <2>3, MirrorsPush DEF S, C
  <2> QED BY <1>4, <2>4 DEF t
<1> QED BY <1>5 DEF FrameMirrors, g

LEMMA ReplacedMirrors ==
  ASSUME StateInv, MirrorInv, Reading, Kind \in {"elif", "else"}, Top.skip # <<>>,
         NEW a \in BOOLEAN, NEW b \in BOOLEAN,
         (~Last(Top.skip) => Taken) =>
            /\ a <=> (Taken \/ ~(Truth \/ Kind = "else"))
            /\ b <=> (Taken \/ Truth \/ Kind = "else")
  PROVE  FrameMirrors(Replaced(Read, a, b))
<1> DEFINE g == Replaced(Read, a, b)
           S == Append(Front(Top.skip), a)
           C == Append(Front(Top.cond), b)
<1>1. /\ Read.skip = Top.skip /\ Read.cond = Top.cond
      /\ Top.skip \in Seq(BOOLEAN) /\ Top.cond \in Seq(BOOLEAN) /\ Top.cond # <<>>
  <2>1. Read.skip = Top.skip /\ Read.cond = Top.cond /\ Read \in FrameType /\ FrameInv(Read)
    BY ReadFacts
  <2>2. Top.skip \in Seq(BOOLEAN) /\ Top.cond \in Seq(BOOLEAN) /\ Len(Top.skip) = Len(Top.cond)
    BY <2>1 DEF FrameType, FrameInv
  <2>3. Len(Top.skip) > 0
    BY <2>2, LastFrontProperties
  <2> QED BY <2>1, <2>2, <2>3
<1>2. g = WithStacks(Read, S, C)
  <2>1. Read \in FrameType
    BY ReadFacts
  <2> QED BY <1>1, <2>1 DEF Replaced, FrameType, WithStacks
<1>3. S \in Seq(BOOLEAN) /\ C \in Seq(BOOLEAN)
  BY <1>1, ReplacedTop
<1> HIDE DEF g, S, C
<1>4. g.seen = Append(Top.seen, Noted) /\ g.skip = S /\ g.cond = C
  BY <1>2, <1>3, LineFrame
<1>5. ASSUME WellFormed(g.seen) PROVE Mirrors(g.seen, g.skip, g.cond)
  <2> DEFINE t == Append(Top.seen, Noted)
             m == Len(Top.seen)
  <2>1. WellFormed(t)
    BY <1>4, <1>5
  <2>2. /\ Mirrors(Top.seen, Top.skip, Top.cond) /\ OneMore(Top.seen, t, m) /\ t[m + 1] = Noted
        /\ Len(Top.cond) = Len(Top.skip) /\ Len(Top.seen) \in Nat /\ Level(Top.seen, m + 1) > 0
    BY <2>1, LineFacts
  <2>3. /\ t[m + 1].kind \in {"elif", "else"}
        /\ Chosen(t, m + 1) <=> (Truth \/ Kind = "else")
    BY <2>2 DEF Noted, Chosen
  <2>4. ~Last(Top.skip) => Taken
    BY <1>1, <2>2, LiveIsTaken DEF Taken
  <2> HIDE DEF t, m
  <2>5. /\ a <=> (Last(Top.cond) \/ ~Chosen(t, m + 1))
        /\ b <=> (Last(Top.cond) \/ Chosen(t, m + 1))
    BY <2>3, <2>4 DEF Taken
  <2>6. Mirrors(t, S, C)
    BY <1>1, <2>2, <2>3, <2>5, MirrorsReplace DEF S, C
  <2> QED BY <1>4, <2>6 DEF t
<1> QED BY <1>5 DEF FrameMirrors, g

LEMMA PoppedMirrors ==
  ASSUME StateInv, MirrorInv, Reading, Kind = "endif", Top.skip # <<>>
  PROVE  FrameMirrors(Popped(Read))
<1> DEFINE g == Popped(Read)
           S == Front(Top.skip)
           C == Front(Top.cond)
<1>1. /\ Read.skip = Top.skip /\ Read.cond = Top.cond
      /\ Top.skip \in Seq(BOOLEAN) /\ Top.cond \in Seq(BOOLEAN) /\ Top.cond # <<>>
  <2>1. Read.skip = Top.skip /\ Read.cond = Top.cond /\ Read \in FrameType /\ FrameInv(Read)
    BY ReadFacts
  <2>2. Top.skip \in Seq(BOOLEAN) /\ Top.cond \in Seq(BOOLEAN) /\ Len(Top.skip) = Len(Top.cond)
    BY <2>1 DEF FrameType, FrameInv
  <2>3. Len(Top.skip) > 0
    BY <2>2, LastFrontProperties
  <2> QED BY <2>1, <2>2, <2>3
<1>2. g = WithStacks(Read, S, C)
  <2>1. Read \in FrameType
    BY ReadFacts
  <2> QED BY <1>1, <2>1 DEF Popped, FrameType, WithStacks
<1>3. S \in Seq(BOOLEAN) /\ C \in Seq(BOOLEAN)
  BY <1>1, LastFrontProperties
<1> HIDE DEF g, S, C
<1>4. g.seen = Append(Top.seen, Noted) /\ g.skip = S /\ g.cond = C
  BY <1>2, <1>3, LineFrame
<1>5. ASSUME WellFormed(g.seen) PROVE Mirrors(g.seen, g.skip, g.cond)
  <2> DEFINE t == Append(Top.seen, Noted)
             m == Len(Top.seen)
  <2>1. WellFormed(t)
    BY <1>4, <1>5
  <2>2. /\ Mirrors(Top.seen, Top.skip, Top.cond) /\ OneMore(Top.seen, t, m) /\ t[m + 1] = Noted
        /\ Len(Top.cond) = Len(Top.skip) /\ Level(Top.seen, m + 1) > 0
    BY <2>1, LineFacts
  <2>3. t[m + 1].kind = "endif"
    BY <2>2 DEF Noted
  <2> HIDE DEF t, m
  <2>4. Mirrors(t, S, C)
    BY <1>1, <2>2, <2>3, MirrorsPop DEF S, C
  <2> QED BY <1>4, <2>4 DEF t
<1> QED BY <1>5 DEF FrameMirrors, g

\* A line that is no directive of a group, whatever else its handler changes of the frame.
LEMMA OtherMirrors ==
  ASSUME StateInv, MirrorInv, Reading, Kind \notin {"if", "elif", "else", "endif"},
         NEW g, g.seen = Append(Top.seen, Noted), g.skip = Top.skip, g.cond = Top.cond
  PROVE  FrameMirrors(g)
<1>1. ASSUME WellFormed(g.seen) PROVE Mirrors(g.seen, g.skip, g.cond)
  <2> DEFINE t == Append(Top.seen, Noted)
             m == Len(Top.seen)
  <2>1. WellFormed(t)
    BY <1>1
  <2>2. /\ Mirrors(Top.seen, Top.skip, Top.cond) /\ OneMore(Top.seen, t, m) /\ t[m + 1] = Noted
        /\ Top.skip \in Seq(BOOLEAN) /\ Top.cond \in Seq(BOOLEAN)
    BY <2>1, LineFacts
  <2>3. t[m + 1].kind \notin {"if", "elif", "else", "endif"}
    BY <2>2 DEF Noted
  <2> HIDE DEF t, m
  <2>4. Mirrors(t, Top.skip, Top.cond)
    BY <2>2, <2>3, MirrorsKept
  <2> QED BY <2>4 DEF t
<1> QED BY <1>1 DEF FrameMirrors


\* A file that has just been opened.
LEMMA NewMirrors ==
  ASSUME NEW path, NEW file, NEW parent
  PROVE  FrameMirrors(Frame(path, file, parent))
<1> DEFINE e == <<>>
<1>1. Level(e, 1) = 0
  <2>1. \A kind : {j \in 1 .. (1 - 1) : e[j].kind = kind} = {}
    OBVIOUS
  <2> HIDE DEF e
  <2>2. Cardinality({}) = 0
    BY FS_EmptySet
  <2> QED BY <2>1, <2>2 DEF Level
<1>2. Len(e) = 0
  OBVIOUS
<1>3. ~Off(e, 0)
  BY DEF Off
<1>4. MirrorsUpTo(e, <<FALSE>>, <<FALSE>>, 0)
  <2>1. /\ \A d : ~(d \in 1 .. 0)
        /\ \A d \in 0 .. 0 : d = 0 /\ <<FALSE>>[d + 1] = FALSE
    OBVIOUS
  <2> HIDE DEF e
  <2> QED BY <1>3, <2>1 DEF MirrorsUpTo
<1> HIDE DEF e
<1>5. Mirrors(e, <<FALSE>>, <<FALSE>>)
  <2>1. Len(<<FALSE>>) - 1 = 0 /\ Len(e) + 1 = 1 /\ \A k \in 1 .. 1 : k = 1
    BY <1>2
  <2> QED BY <1>1, <1>4, <2>1 DEF Mirrors
<1> QED BY <1>5 DEF FrameMirrors, Frame, e

\* The groups around the next line are those the levels count.
LEMMA OffIsInactive ==
  ASSUME NEW s, NEW skip, NEW cond, Mirrors(s, skip, cond), Len(s) \in Nat,
         NEW n \in Nat, Level(s, Len(s) + 1) = n
  PROVE  Off(s, n) <=> ~Active(s, Len(s) + 1)
<1> DEFINE m == Len(s)
<1>1. m \in Nat /\ \A k \in 1 .. m + 1 : Level(s, k) \in Nat
  BY DEF Mirrors
<1>2. Active(s, m + 1) <=> \A o \in Enclosing(s, m + 1) : Good(s, o)
  BY DEF Active, Good
<1>3. ASSUME NEW d \in 1 .. n, NEW o \in 1 .. m, Opens(s, d, o)
      PROVE  o \in Enclosing(s, m + 1)
  <2>1. s[o].kind = "if" /\ Level(s, o) = d - 1 /\ \A j \in (o + 1) .. (m + 1) : Level(s, j) >= d
    BY <1>3 DEF Opens
  <2>2. \A j \in (o + 1) .. (m + 1) : j \in 1 .. m + 1
    BY <1>1
  <2>3. \A j \in (o + 1) .. (m + 1) : Level(s, j) > Level(s, o)
    BY <1>1, <2>1, <2>2
  <2>4. o \in 1 .. ((m + 1) - 1)
    BY <1>1
  <2> QED BY <2>1, <2>3, <2>4 DEF Enclosing
<1>4. ASSUME NEW o \in Enclosing(s, m + 1)
      PROVE  o \in 1 .. m /\ \E d \in 1 .. n : Opens(s, d, o)
  <2>1. /\ o \in 1 .. ((m + 1) - 1) /\ s[o].kind = "if"
        /\ \A j \in (o + 1) .. (m + 1) : Level(s, j) > Level(s, o)
    BY DEF Enclosing
  <2>2. o \in 1 .. m /\ o \in 1 .. m + 1 /\ m + 1 \in (o + 1) .. (m + 1)
    BY <1>1, <2>1
  <2> DEFINE d == Level(s, o) + 1
  <2>3. Level(s, o) \in Nat /\ n > Level(s, o)
    BY <1>1, <2>1, <2>2
  <2>4. d \in 1 .. n /\ Level(s, o) = d - 1
    BY <2>3
  <2>5. \A j \in (o + 1) .. (m + 1) : j \in 1 .. m + 1
    BY <1>1, <2>2
  <2>6. \A j \in (o + 1) .. (m + 1) : Level(s, j) >= d
    BY <1>1, <2>1, <2>3, <2>5
  <2> HIDE DEF d
  <2>7. Opens(s, d, o)
    BY <2>1, <2>4, <2>6 DEF Opens
  <2> QED BY <2>2, <2>4, <2>7
<1>5. Off(s, n) <=> \E o \in Enclosing(s, m + 1) : ~Good(s, o)
  <2>1. ASSUME Off(s, n) PROVE \E o \in Enclosing(s, m + 1) : ~Good(s, o)
    BY <1>3, <2>1 DEF Off
  <2>2. ASSUME NEW o \in Enclosing(s, m + 1), ~Good(s, o) PROVE Off(s, n)
    BY <1>4, <2>2 DEF Off
  <2> QED BY <2>1, <2>2
<1> QED BY <1>2, <1>5


-----------------------------------------------------------------------------
\* What a step does to the stack of files.
LEMMA MirrorTop ==
  ASSUME StateInv, MirrorInv, frames # <<>>, NEW g, FrameMirrors(g), frames' = SetTop(g)
  PROVE  MirrorInv'
<1> DEFINE n == Len(frames)
<1>1. n \in Nat /\ n > 0 /\ frames \in Seq(FrameType)
  BY TopFacts DEF StateInv
<1>2. Len(frames') = n /\ \A i \in 1 .. n : frames'[i] = IF i = n THEN g ELSE frames[i]
  BY <1>1 DEF SetTop
<1> QED BY <1>2 DEF MirrorInv

LEMMA MirrorOpened ==
  ASSUME StateInv, MirrorInv, frames # <<>>, NEW g, FrameMirrors(g),
         NEW path, NEW file, NEW parent,
         frames' = Append(SetTop(g), Frame(path, file, parent))
  PROVE  MirrorInv'
<1> DEFINE n == Len(frames)
           f == Frame(path, file, parent)
<1>1. n \in Nat /\ n > 0 /\ frames \in Seq(FrameType)
  BY TopFacts DEF StateInv
<1>2. FrameMirrors(f)
  BY NewMirrors
<1> HIDE DEF f
<1>3. /\ Len(frames') = n + 1 /\ frames'[n + 1] = f
      /\ \A i \in 1 .. n : frames'[i] = IF i = n THEN g ELSE frames[i]
  BY <1>1 DEF SetTop, f
<1>4. \A i \in 1 .. Len(frames') : i \in 1 .. n \/ i = n + 1
  BY <1>1, <1>3
<1> QED BY <1>2, <1>3, <1>4 DEF MirrorInv

\* #if and its like, read or skipped.
LEMMA GroupMirrors ==
  ASSUME StateInv, MirrorInv, If \/ SkippedGroup
  PROVE  MirrorInv'
<1>1. /\ Reading /\ Kind = "if" /\ Top.skip # <<>>
      /\ \/ Last(Top.skip) /\ frames' = SetTop(Pushed(Read, TRUE, TRUE))
         \/ ~Last(Top.skip) /\ frames' = SetTop(Pushed(Read, ~Truth, Truth))
  BY DEF If, Live, SkippedGroup, Skipped
<1>2. frames # <<>> /\ Truth \in BOOLEAN
  BY <1>1, ReadFacts
<1>3. \A a, b \in BOOLEAN :
        (a <=> (Last(Top.skip) \/ ~Truth)) /\ (b <=> (Last(Top.skip) \/ Truth))
          => FrameMirrors(Pushed(Read, a, b))
  BY <1>1, PushedMirrors
<1>4. ASSUME Last(Top.skip) PROVE FrameMirrors(Pushed(Read, TRUE, TRUE))
  BY <1>3, <1>4
<1>5. ASSUME ~Last(Top.skip) PROVE FrameMirrors(Pushed(Read, ~Truth, Truth))
  BY <1>2, <1>3, <1>5
<1>6. CASE Last(Top.skip)
  <2> DEFINE g == Pushed(Read, TRUE, TRUE)
  <2>1. FrameMirrors(g) /\ frames' = SetTop(g)
    BY <1>1, <1>4, <1>6
  <2> HIDE DEF g
  <2> QED BY <1>2, <2>1, MirrorTop
<1>7. CASE ~Last(Top.skip)
  <2> DEFINE g == Pushed(Read, ~Truth, Truth)
  <2>1. FrameMirrors(g) /\ frames' = SetTop(g)
    BY <1>1, <1>5, <1>7
  <2> HIDE DEF g
  <2> QED BY <1>2, <2>1, MirrorTop
<1> QED BY <1>6, <1>7

LEMMA NextMirrors == IInv /\ MirrorInv /\ [Next]_vars => MirrorInv'
<1> SUFFICES ASSUME IInv, MirrorInv, [Next]_vars PROVE MirrorInv'
  OBVIOUS
<1>1. StateInv
  BY DEF IInv
<1>2. ASSUME frames' = frames PROVE MirrorInv'
  BY <1>2 DEF MirrorInv
<1>3. ASSUME Reading
      PROVE  /\ frames # <<>> /\ Truth \in BOOLEAN
             /\ Read.seen = Append(Top.seen, Noted)
             /\ Read.skip = Top.skip /\ Read.cond = Top.cond
  <2>1. Top \in FrameType
    BY <1>1, <1>3, TopFacts DEF Reading
  <2>2. Read.seen = Append(Top.seen, Noted)
    BY <2>1 DEF Read, FrameType, Noted
  <2> QED BY <1>1, <1>3, <2>2, ReadFacts
<1>4. CASE DropLine
  <2> DEFINE g == [Top EXCEPT !.pos = @ + 1, !.number = @ + 1, !.inComment = TRUE]
  <2>1. Reading /\ frames' = SetTop(g)
    BY <1>4 DEF DropLine
  <2>2. frames # <<>> /\ Len(frames) \in 1 .. Len(frames) /\ Top = frames[Len(frames)]
        /\ Top \in FrameType
    BY <1>1, <2>1, TopFacts DEF Reading
  <2>3. g.seen = Top.seen /\ g.skip = Top.skip /\ g.cond = Top.cond
    BY <2>2 DEF FrameType
  <2> HIDE DEF g
  <2>4. FrameMirrors(g)
    BY <2>2, <2>3 DEF MirrorInv, FrameMirrors
  <2> QED BY <1>1, <2>1, <2>2, <2>4, MirrorTop
<1>5. CASE Underflow \/ ErrorDirective \/ Parse \/ UNCHANGED vars
  BY <1>2, <1>5 DEF Underflow, ErrorDirective, Parse, Source, vars
<1>6. CASE WhileSkipping
  <2>1. CASE SkippedGroup
    BY <1>1, <2>1, GroupMirrors
  <2>2. CASE SkippedBranch
    <3> DEFINE chosen == ~Taken /\ (Kind = "elif" => Truth)
               a == ~chosen
               b == Taken \/ chosen
    <3>1. /\ Reading /\ Kind \in {"elif", "else"} /\ Top.skip # <<>>
          /\ frames' = SetTop(Replaced(Read, a, b))
      BY <2>2 DEF SkippedBranch, Skipped
    <3>2. /\ a \in BOOLEAN /\ b \in BOOLEAN
          /\ a <=> (Taken \/ ~(Truth \/ Kind = "else"))
          /\ b <=> (Taken \/ Truth \/ Kind = "else")
      BY <3>1
    <3> HIDE DEF a, b, chosen
    <3>3. FrameMirrors(Replaced(Read, a, b))
      BY <1>1, <3>1, <3>2, ReplacedMirrors
    <3> QED BY <1>1, <1>3, <3>1, <3>3, MirrorTop
  <2>3. CASE SkippedEndif
    <3>1. Reading /\ Kind = "endif" /\ Top.skip # <<>> /\ frames' = SetTop(Popped(Read))
      BY <2>3 DEF SkippedEndif, Skipped
    <3>2. FrameMirrors(Popped(Read))
      BY <1>1, <3>1, PoppedMirrors
    <3> QED BY <1>1, <1>3, <3>1, <3>2, MirrorTop
  <2>4. CASE SkippedLine
    <3>1. Reading /\ Kind \notin {"if", "elif", "else", "endif"} /\ frames' = SetTop(Read)
      BY <2>4 DEF SkippedLine, Skipped
    <3>2. FrameMirrors(Read)
      BY <1>1, <1>3, <3>1, OtherMirrors
    <3> QED BY <1>1, <1>3, <3>1, <3>2, MirrorTop
  <2> QED BY <1>6, <2>1, <2>2, <2>3, <2>4 DEF WhileSkipping
<1>7. CASE Conditional
  <2>1. CASE If
    BY <1>1, <2>1, GroupMirrors
  <2>2. CASE Elif \/ Else
    <3> DEFINE a == Taken
               b == IF Kind = "elif" THEN Taken \/ Truth ELSE TRUE
    <3>1. /\ Reading /\ Kind \in {"elif", "else"} /\ Top.skip # <<>> /\ ~Last(Top.skip)
          /\ frames' = SetTop(Replaced(Read, a, b))
      BY <2>2 DEF Elif, Else, Live
    <3>2. a \in BOOLEAN /\ b \in BOOLEAN
      <4>1. Top.cond \in Seq(BOOLEAN) /\ Top.cond # <<>>
        <5>1. Top \in FrameType /\ Len(Top.skip) = Len(Top.cond)
          BY <1>1, <3>1, TopFacts DEF Reading, FrameInv
        <5> QED BY <3>1, <5>1 DEF FrameType
      <4>2. Taken \in BOOLEAN
        BY <4>1, LastFrontProperties DEF Taken
      <4> QED BY <4>2
    <3>3. (~Last(Top.skip) => Taken) =>
            /\ a <=> (Taken \/ ~(Truth \/ Kind = "else"))
            /\ b <=> (Taken \/ Truth \/ Kind = "else")
      BY <3>1
    <3> HIDE DEF a, b
    <3>4. FrameMirrors(Replaced(Read, a, b))
      BY <1>1, <3>1, <3>2, <3>3, ReplacedMirrors
    <3> QED BY <1>1, <1>3, <3>1, <3>4, MirrorTop
  <2>3. CASE Endif
    <3>1. Reading /\ Kind = "endif" /\ Top.skip # <<>> /\ frames' = SetTop(Popped(Read))
      BY <2>3 DEF Endif, Live
    <3>2. FrameMirrors(Popped(Read))
      BY <1>1, <3>1, PoppedMirrors
    <3> QED BY <1>1, <1>3, <3>1, <3>2, MirrorTop
  <2> QED BY <1>7, <2>1, <2>2, <2>3 DEF Conditional
<1>8. CASE Text \/ DefineOrUndef \/ PragmaOnce \/ PragmaPack
  <2>1. Reading /\ Kind \notin {"if", "elif", "else", "endif"} /\ frames' = SetTop(Read)
    BY <1>8 DEF Text, DefineOrUndef, PragmaOnce, PragmaPack, Live
  <2>2. FrameMirrors(Read)
    BY <1>1, <1>3, <2>1, OtherMirrors
  <2> QED BY <1>1, <1>3, <2>1, <2>2, MirrorTop
<1>9. CASE LineDirective
  <2> DEFINE g == [Read EXCEPT !.number = Line.arg.number - 1, !.name = Line.arg.name]
  <2>1. Reading /\ Kind = "line" /\ frames' = SetTop(g)
    BY <1>9 DEF LineDirective, Live
  <2>2. g.seen = Read.seen /\ g.skip = Read.skip /\ g.cond = Read.cond
    <3> DEFINE r == Read
    <3>1. r \in FrameType
      BY <1>1, <2>1, ReadFacts
    <3> HIDE DEF r
    <3>2. LET h == [r EXCEPT !.number = Line.arg.number - 1, !.name = Line.arg.name]
          IN  h.seen = r.seen /\ h.skip = r.skip /\ h.cond = r.cond
      BY <3>1 DEF FrameType
    <3> QED BY <3>2 DEF r
  <2> HIDE DEF g
  <2>3. FrameMirrors(g)
    BY <1>1, <1>3, <2>1, <2>2, OtherMirrors
  <2> QED BY <1>1, <1>3, <2>1, <2>3, MirrorTop
<1>10. CASE Include
  <2>1. /\ Reading /\ Kind \in {"include", "include_next"}
        /\ \/ frames' = SetTop(Read)
           \/ \E path : frames' = Append(SetTop(Read), Frame(path, cur, curParent))
    <3>1. PICK kind \in {"include", "include_next"} :
            /\ Live(kind)
            /\ \/ \E path \in IF kind = "include" THEN Resolve(Line.arg, Line.arg.quoted)
                              ELSE ResolveNext(Line.arg) : Open(path)
               \/ frames' = SetTop(Read)
      BY <1>10, Zenon DEF Include
    <3>2. Reading /\ Kind = kind
      BY <3>1 DEF Live
    <3>3. ASSUME NEW path, Open(path)
          PROVE  \/ frames' = SetTop(Read)
                 \/ frames' = Append(SetTop(Read), Frame(path, cur, curParent))
      BY <3>3, Zenon DEF Open
    <3> QED BY <3>1, <3>2, <3>3
  <2>2. FrameMirrors(Read)
    BY <1>1, <1>3, <2>1, OtherMirrors
  <2>3. CASE frames' = SetTop(Read)
    BY <1>1, <1>3, <2>1, <2>2, <2>3, MirrorTop
  <2>4. ASSUME NEW path, frames' = Append(SetTop(Read), Frame(path, cur, curParent))
        PROVE  MirrorInv'
    BY <1>1, <1>3, <2>1, <2>2, <2>4, MirrorOpened
  <2> QED BY <2>1, <2>3, <2>4
<1>11. CASE Return
  <2>1. Len(frames) \in Nat /\ Len(frames') = Len(frames) - 1
        /\ \A i \in 1 .. Len(frames) - 1 : frames'[i] = frames[i]
    BY <1>1, <1>11, TopFacts DEF Return
  <2>2. \A i \in 1 .. Len(frames') : i \in 1 .. Len(frames) /\ frames'[i] = frames[i]
    BY <2>1
  <2> QED BY <2>2 DEF MirrorInv
<1> QED BY <1>4, <1>5, <1>6, <1>7, <1>8, <1>9, <1>10, <1>11 DEF Next

LEMMA InitMirrors == Init => MirrorInv
<1> SUFFICES ASSUME Init PROVE MirrorInv
  OBVIOUS
<1> DEFINE f == Frame(Main, Main, 0)
<1>1. FrameMirrors(f)
  BY NewMirrors
<1> HIDE DEF f
<1>2. frames = <<f>>
  BY DEF Init, f
<1>3. Len(frames) = 1 /\ \A i \in 1 .. Len(frames) : frames[i] = f
  BY <1>2
<1> QED BY <1>1, <1>3 DEF MirrorInv

\* The lines of a file that is being read are those the standard would read: its stacks say
\* what the groups around the next line, their branches and their conditions say.
THEOREM ReaderSkipsAsTheStandardSays == Spec => []SkipsAsTheStandardSays
<1>1. IInv /\ MirrorInv => SkipsAsTheStandardSays
  <2> SUFFICES ASSUME IInv, MirrorInv, NEW i \in DOMAIN frames, WellFormed(frames[i].seen)
               PROVE  /\ frames[i].skip # <<>>
                      /\ Last(frames[i].skip) <=> ~Active(frames[i].seen, Len(frames[i].seen) + 1)
    BY DEF SkipsAsTheStandardSays
  <2> DEFINE s == frames[i].seen
             skip == frames[i].skip
             cond == frames[i].cond
             n == Len(skip) - 1
  <2>1. frames \in Seq(FrameType) /\ i \in 1 .. Len(frames)
    BY LenProperties DEF IInv, StateInv
  <2>2. Mirrors(s, skip, cond)
    BY <2>1 DEF MirrorInv, FrameMirrors
  <2>3. frames[i] \in FrameType
    BY <2>1, ElementOfSeq
  <2>4. skip \in Seq(BOOLEAN) /\ s \in Seq(SeenType)
    BY <2>3 DEF FrameType, SeenType
  <2> HIDE DEF s, skip, cond
  <2>5. Len(s) \in Nat /\ Len(s) + 1 \in 1 .. Len(s) + 1 /\ Len(skip) \in Nat
    BY <2>4, LenProperties
  <2>6. n \in Nat /\ Level(s, Len(s) + 1) = n
    BY <2>2, <2>5 DEF Mirrors
  <2>7. skip # <<>> /\ Last(skip) = skip[n + 1]
    <3>1. Len(skip) = n + 1 /\ skip # <<>>
      BY <2>5, <2>6
    <3> QED BY <2>4, <3>1, LastFrontProperties
  <2>8. skip[n + 1] <=> Off(s, n)
    BY <2>2, <2>6 DEF Mirrors, MirrorsUpTo
  <2>9. Off(s, n) <=> ~Active(s, Len(s) + 1)
    BY <2>2, <2>5, <2>6, OffIsInactive
  <2> QED BY <2>7, <2>8, <2>9 DEF s, skip
<1> QED BY <1>1, InitMirrors, NextMirrors, Invariant, InitIInv, NextIInv, PTL DEF Spec

-----------------------------------------------------------------------------
(* Packing: what the reader has gathered, and what the parser makes of it. *)

\* The packing after the first n lines of a map, from a packing before them.
Packed(map, start, n) ==
  LET upto[k \in 0 .. n] == IF k = 0 THEN start ELSE AfterLine(upto[k - 1], map[k])
  IN  upto[n]

\* Induction: every set that holds 0 and is closed under successors holds every number.
LEMMA NaturalInduction ==
  ASSUME NEW S, 0 \in S, \A n \in Nat : n \in S => n + 1 \in S
  PROVE  \A n \in Nat : n \in S
<1> SUFFICES ASSUME Nat \ S # {} PROVE FALSE
  OBVIOUS
<1> DEFINE T == Nat \ S
<1>1. PICK x \in T : \A y \in T : ~(<<y, x>> \in OpToRel(<, Nat))
  BY NatLessThanWellFounded, WFMin
<1>2. \A y \in T : ~(y < x)
  BY <1>1 DEF OpToRel
<1>3. x \in T
  OBVIOUS
<1> HIDE <1>1
<1>4. x \in Nat /\ x # 0 /\ x - 1 \in Nat /\ x - 1 < x /\ (x - 1) + 1 = x
  BY <1>3
<1>5. x - 1 \in S
  BY <1>2, <1>4
<1> QED BY <1>3, <1>4, <1>5

\* Its recursion, unfolded.
LEMMA PackedFacts ==
  ASSUME NEW map, NEW start
  PROVE  /\ Packed(map, start, 0) = start
         /\ \A n \in Nat : Packed(map, start, n + 1) = AfterLine(Packed(map, start, n), map[n + 1])
<1> DEFINE step(g, k) == IF k = 0 THEN start ELSE AfterLine(g[k - 1], map[k])
           Partial(n, g) == g = [k \in 0 .. n |-> step(g, k)]
           upto(n) == CHOOSE g : Partial(n, g)
<1>1. \A n : Packed(map, start, n) = upto(n)[n]
  BY DEF Packed
<1>2. ASSUME NEW n \in Nat, NEW g, Partial(n, g)
      PROVE  \A k \in 0 .. n : g[k] = step(g, k)
  <2> HIDE DEF step
  <2> QED BY <1>2
<1>3. \A n \in Nat : \E g : Partial(n, g)
  <2> DEFINE S == {n \in Nat : \E g : Partial(n, g)}
  <2>1. 0 \in S
    <3>1. Partial(0, [k \in 0 .. 0 |-> start])
      OBVIOUS
    <3> QED BY <3>1
  <2>2. ASSUME NEW n \in Nat, n \in S PROVE n + 1 \in S
    <3>1. PICK g : Partial(n, g)
      <4> HIDE DEF Partial
      <4> QED BY <2>2
    <3> DEFINE h == [k \in 0 .. n + 1 |-> IF k <= n THEN g[k] ELSE step(g, n + 1)]
    <3>2. \A k \in 0 .. n : h[k] = g[k] /\ step(h, k) = step(g, k)
      OBVIOUS
    <3>3. h[n + 1] = step(h, n + 1)
      OBVIOUS
    <3>4. \A k \in 0 .. n + 1 : k \in 0 .. n \/ k = n + 1
      OBVIOUS
    <3>5. \A k \in 0 .. n : g[k] = step(g, k)
      BY <1>2, <3>1
    <3>6. \A k \in 0 .. n + 1 : h[k] = step(h, k)
      <4> HIDE DEF step
      <4> QED BY <3>2, <3>3, <3>4, <3>5
    <3>7. h = [k \in 0 .. n + 1 |-> h[k]]
      BY DEF h
    <3>8. Partial(n + 1, h)
      <4> HIDE DEF step
      <4> QED BY <3>6, <3>7
    <3> HIDE DEF Partial, step, h
    <3> QED BY <3>8
  <2> HIDE DEF S
  <2>3. \A n \in Nat : n \in S
    BY <2>1, <2>2, NaturalInduction
  <2> HIDE DEF Partial
  <2> QED BY <2>3 DEF S
<1>4. ASSUME NEW n \in Nat PROVE Partial(n, upto(n))
  <2>1. \E g : Partial(n, g)
    BY <1>3
  <2> HIDE DEF Partial
  <2> QED BY <2>1
<1>5. ASSUME NEW n \in Nat PROVE \A k \in 0 .. n : upto(n)[k] = step(upto(n), k)
  <2> HIDE DEF Partial, step, upto
  <2> QED BY <1>2, <1>4
<1> HIDE DEF upto, Partial
<1>6. \A n \in Nat : upto(n)[0] = start
  <2> TAKE n \in Nat
  <2>1. 0 \in 0 .. n
    OBVIOUS
  <2> QED BY <1>5, <2>1
<1>7. ASSUME NEW n \in Nat, NEW k \in 0 .. n - 1
      PROVE  upto(n)[k + 1] = AfterLine(upto(n)[k], map[k + 1])
  <2>1. k + 1 \in 0 .. n /\ k + 1 # 0 /\ (k + 1) - 1 = k
    OBVIOUS
  <2> QED BY <1>5, <2>1
<1>8. ASSUME NEW n \in Nat PROVE upto(n + 1)[n] = upto(n)[n]
  <2> DEFINE S == {k \in Nat : k <= n => upto(n + 1)[k] = upto(n)[k]}
  <2>1. 0 \in S
    BY <1>6
  <2>2. ASSUME NEW k \in Nat, k \in S PROVE k + 1 \in S
    <3> SUFFICES ASSUME k + 1 <= n PROVE upto(n + 1)[k + 1] = upto(n)[k + 1]
      OBVIOUS
    <3>1. upto(n + 1)[k] = upto(n)[k]
      BY <2>2
    <3>2. n + 1 \in Nat /\ k \in 0 .. (n + 1) - 1 /\ k \in 0 .. n - 1
      OBVIOUS
    <3> QED BY <1>7, <3>1, <3>2
  <2> HIDE DEF S
  <2>3. n \in S
    BY <2>1, <2>2, NaturalInduction
  <2> QED BY <2>3 DEF S
<1>9. ASSUME NEW n \in Nat
      PROVE  Packed(map, start, n + 1) = AfterLine(Packed(map, start, n), map[n + 1])
  <2>1. n + 1 \in Nat /\ n \in 0 .. (n + 1) - 1
    OBVIOUS
  <2> QED BY <1>1, <1>7, <1>8, <2>1
<1> QED BY <1>1, <1>6, <1>9

\* It looks at no more than the lines it is asked for.
LEMMA PackedSame ==
  ASSUME NEW map, NEW new, NEW start, NEW m \in Nat, \A i \in 1 .. m : new[i] = map[i]
  PROVE  Packed(new, start, m) = Packed(map, start, m)
<1> DEFINE S == {n \in Nat : n <= m => Packed(new, start, n) = Packed(map, start, n)}
<1>1. 0 \in S
  BY PackedFacts
<1>2. ASSUME NEW n \in Nat, n \in S PROVE n + 1 \in S
  <2> SUFFICES ASSUME n + 1 <= m PROVE Packed(new, start, n + 1) = Packed(map, start, n + 1)
    OBVIOUS
  <2>1. Packed(new, start, n) = Packed(map, start, n) /\ new[n + 1] = map[n + 1]
    BY <1>2
  <2>2. Packed(new, start, n + 1) = AfterLine(Packed(new, start, n), new[n + 1])
    BY PackedFacts
  <2>3. Packed(map, start, n + 1) = AfterLine(Packed(map, start, n), map[n + 1])
    BY PackedFacts
  <2> QED BY <2>1, <2>2, <2>3
<1> HIDE DEF S
<1>3. m \in S
  BY <1>1, <1>2, NaturalInduction
<1> QED BY <1>3 DEF S

\* The reader's packing is that of all lines passed on, and the parser goes on from there.
PackInv ==
  /\ frames # <<>> => parsed = 0
  /\ parsed = 0 \/ PushesAlignments(out) =>
       pack = Packed(out, Packed(out, NoPacking, Len(out)), parsed)

LEMMA WrittenIsPacked == \A k : PackWritten(k) = Packed(out, NoPacking, k)
BY DEF PackWritten, Packed

\* The parser packs as the reader did, if the line pushes an alignment or nothing.
LEMMA SamePacking ==
  ASSUME NEW n \in DOMAIN out, PushesAlignments(out), NEW p
  PROVE  (IF out[n].what = "pack" THEN AfterPragma(p, out[n].arg) ELSE p) = AfterLine(p, out[n])
<1>1. CASE out[n].what = "pack" /\ out[n].arg.op = "push"
  <2>1. out[n].arg.n \in Alignments
    BY <1>1 DEF PushesAlignments
  <2> QED BY <1>1, <2>1 DEF AfterPragma, AfterPack, AfterLine
<1>2. CASE ~(out[n].what = "pack" /\ out[n].arg.op = "push")
  BY <1>2 DEF AfterPragma, AfterLine
<1> QED BY <1>1, <1>2

\* A step of the reader that passes on at most one line.
LEMMA PackStep ==
  ASSUME IInv, PackInv, Reading, failed' \in BOOLEAN, parsed' = parsed,
         \/ out' = out /\ pack' = pack
         \/ \E arg : \E what \in {"text", "blank", "include", "pack"} :
              /\ out' = Emitted(what, arg)
              /\ pack' = IF what = "pack" THEN AfterPack(pack, arg) ELSE pack
  PROVE  PackInv'
<1>1. parsed = 0 /\ parsed' = 0 /\ frames # <<>>
  BY DEF PackInv, Reading
<1>2. pack = Packed(out, NoPacking, Len(out))
  BY <1>1, PackedFacts DEF PackInv
<1>3. CASE out' = out /\ pack' = pack
  BY <1>1, <1>2, <1>3, PackedFacts DEF PackInv
<1>4. CASE \E arg : \E what \in {"text", "blank", "include", "pack"} :
              /\ out' = Emitted(what, arg)
              /\ pack' = IF what = "pack" THEN AfterPack(pack, arg) ELSE pack
  <2>0. PICK arg : \E what \in {"text", "blank", "include", "pack"} :
              /\ out' = Emitted(what, arg)
              /\ pack' = IF what = "pack" THEN AfterPack(pack, arg) ELSE pack
    BY <1>4
  <2>1. PICK what \in {"text", "blank", "include", "pack"} :
              /\ out' = Emitted(what, arg)
              /\ pack' = IF what = "pack" THEN AfterPack(pack, arg) ELSE pack
    BY <2>0
  <2> DEFINE e == [what |-> what, arg |-> arg, file |-> cur, line |-> Read.number,
                   parent |-> curParent, depth |-> Len(frames), at |-> <<Top.path, Read.pos>>]
             m == Len(out)
  <2>2. out \in Seq(OutType) /\ m \in Nat /\ out' = Append(out, e)
    BY <2>1, LenProperties DEF IInv, StateInv, OutType, Emitted
  <2>3. e.what = what /\ e.arg = arg
    OBVIOUS
  <2> HIDE DEF e
  <2>4. Len(out') = m + 1 /\ out'[m + 1] = e /\ \A i \in 1 .. m : out'[i] = out[i]
    BY <2>2
  <2> DEFINE new == out'
  <2>5. \A i \in 1 .. m : new[i] = out[i]
    BY <2>4
  <2>6. Len(new) = m + 1 /\ new[m + 1] = e
    BY <2>4
  <2> HIDE DEF new, m
  <2>7. Packed(new, NoPacking, m) = Packed(out, NoPacking, m)
    BY <2>2, <2>5, PackedSame
  <2>8. Packed(new, NoPacking, m + 1) = AfterLine(Packed(new, NoPacking, m), e)
    BY <2>2, <2>6, PackedFacts
  <2>9. Packed(new, NoPacking, m + 1) = AfterLine(pack, e)
    BY <1>2, <2>7, <2>8 DEF m
  <2>10. pack' = Packed(new, NoPacking, Len(new))
    BY <2>1, <2>3, <2>6, <2>9 DEF AfterLine
  <2>11. Packed(new, Packed(new, NoPacking, Len(new)), 0) = pack'
    BY <2>10, PackedFacts
  <2> QED BY <1>1, <2>11 DEF PackInv, new
<1> QED BY <1>3, <1>4

LEMMA NextPack == IInv /\ PackInv /\ [Next]_vars => PackInv'
<1> SUFFICES ASSUME IInv, PackInv, [Next]_vars PROVE PackInv'
  OBVIOUS
<1>1. failed \in BOOLEAN /\ Len(out) \in Nat /\ parsed \in Nat
  BY LenProperties DEF IInv, StateInv
<1>2. CASE DropLine \/ WhileSkipping \/ PragmaOnce \/ LineDirective
  <2>1. Reading /\ out' = out /\ pack' = pack /\ parsed' = parsed /\ failed' \in BOOLEAN
    BY <1>1, <1>2 DEF DropLine, WhileSkipping, SkippedGroup, SkippedBranch, SkippedEndif, SkippedLine,
         Skipped, PragmaOnce, LineDirective, Live
  <2> QED BY <2>1, PackStep
<1>3. CASE Underflow \/ ErrorDirective
  <2>1. Reading /\ out' = out /\ pack' = pack /\ parsed' = parsed /\ failed' \in BOOLEAN
    BY <1>3 DEF Underflow, ErrorDirective, Live
  <2> QED BY <2>1, PackStep
<1>4. CASE Conditional \/ Text \/ DefineOrUndef
  <2>1. /\ Reading /\ pack' = pack /\ parsed' = parsed /\ failed' \in BOOLEAN
        /\ \E what \in {"text", "blank"} : out' = Emitted(what, NoArg)
    BY <1>1, <1>4 DEF Conditional, If, Elif, Else, Endif, Text, DefineOrUndef, Live
  <2>2. PICK what \in {"text", "blank"} : out' = Emitted(what, NoArg)
    BY <2>1
  <2>3. /\ what \in {"text", "blank", "include", "pack"}
        /\ pack' = IF what = "pack" THEN AfterPack(pack, NoArg) ELSE pack
    BY <2>1
  <2> QED BY <2>1, <2>2, <2>3, PackStep
<1>5. CASE PragmaPack
  <2>1. /\ Reading /\ parsed' = parsed /\ failed' \in BOOLEAN
        /\ out' = Emitted("pack", Line.arg)
        /\ pack' = IF "pack" = "pack" THEN AfterPack(pack, Line.arg) ELSE pack
    BY <1>1, <1>5 DEF PragmaPack, Live
  <2> QED BY <2>1, PackStep
<1>6. CASE Include
  <2>1. /\ Reading /\ parsed' = parsed /\ failed' \in BOOLEAN
        /\ out' = Emitted("include", NoArg)
        /\ pack' = IF "include" = "pack" THEN AfterPack(pack, NoArg) ELSE pack
    <3>1. PICK kind \in {"include", "include_next"} :
            /\ Live(kind) /\ out' = Emitted("include", NoArg)
            /\ \/ \E path \in IF kind = "include" THEN Resolve(Line.arg, Line.arg.quoted)
                              ELSE ResolveNext(Line.arg) : Open(path)
               \/ failed' = TRUE
            /\ UNCHANGED <<program, processed, defines, pack, parsed>>
      BY <1>6, Zenon DEF Include
    <3>2. ASSUME NEW path, Open(path) PROVE failed' \in BOOLEAN
      BY <1>1, <3>2 DEF Open
    <3>3. failed' \in BOOLEAN
      BY <3>1, <3>2
    <3> QED BY <3>1, <3>3 DEF Live
  <2> QED BY <2>1, PackStep
<1>7. CASE Return
  BY <1>7 DEF Return, PackInv
<1>8. CASE Parse
  <2> DEFINE l == out[parsed + 1]
             next == IF l.what = "pack" THEN AfterPragma(pack, l.arg) ELSE pack
  <2>1. /\ frames = <<>> /\ frames' = frames /\ out' = out /\ parsed < Len(out)
        /\ \/ pack' = pack /\ parsed' = parsed
           \/ parsed' = parsed + 1 /\ pack' = next
    BY <1>8 DEF Parse
  <2>2. CASE pack' = pack /\ parsed' = parsed
    BY <2>1, <2>2 DEF PackInv, PushesAlignments
  <2>3. CASE parsed' = parsed + 1 /\ pack' = next
    <3> SUFFICES ASSUME PushesAlignments(out)
                 PROVE  pack' = Packed(out', Packed(out', NoPacking, Len(out')), parsed')
      BY <1>1, <2>1, <2>3 DEF PackInv, PushesAlignments
    <3> DEFINE start == Packed(out, NoPacking, Len(out))
    <3>1. pack = Packed(out, start, parsed)
      BY DEF PackInv
    <3>2. parsed + 1 \in DOMAIN out
      <4>1. DOMAIN out = 1 .. Len(out)
        BY LenProperties DEF IInv, StateInv
      <4> QED BY <1>1, <2>1, <4>1
    <3>3. next = AfterLine(pack, out[parsed + 1])
      BY <3>2, SamePacking
    <3> HIDE DEF start, next, l
    <3>4. pack' = Packed(out, start, parsed + 1)
      BY <1>1, <2>3, <3>1, <3>3, PackedFacts
    <3>5. start = Packed(out', NoPacking, Len(out'))
      BY <2>1 DEF start
    <3> QED BY <2>1, <2>3, <3>4, <3>5
  <2> QED BY <2>1, <2>2, <2>3
<1>9. CASE UNCHANGED vars
  BY <1>9 DEF vars, PackInv
<1> QED BY <1>2, <1>3, <1>4, <1>5, <1>6, <1>7, <1>8, <1>9 DEF Next

LEMMA InitPack == Init => PackInv
<1> SUFFICES ASSUME Init PROVE PackInv
  OBVIOUS
<1>1. parsed = 0 /\ Len(out) = 0 /\ pack = NoPacking
  BY DEF Init
<1> QED BY <1>1, PackedFacts DEF PackInv

\* Where the packing pragmas are balanced and push alignments alone, the parser lays every struct
\* out with the packing written before it, though reader and parser share one state that nobody
\* resets in between.
THEOREM ReaderBalancedPackInForce == Spec => []BalancedPackInForce
<1>1. PackInv => BalancedPackInForce
  <2> SUFFICES ASSUME PackInv, PushesAlignments(out), PackWritten(Len(out)) = NoPacking
               PROVE  pack.align = PackWritten(parsed).align
    BY DEF BalancedPackInForce, PackInForce
  <2>1. pack = PackWritten(parsed)
    BY WrittenIsPacked DEF PackInv
  <2> QED BY <2>1
<1> QED BY <1>1, InitPack, NextPack, Invariant, InitIInv, NextIInv, PTL DEF Spec

-----------------------------------------------------------------------------
(* Headers that are read once.                                             *)

\* What reading one line of the innermost file does, g being the frame that has read it.
ReadsLine(g) ==
  /\ Reading
  /\ g.path = Top.path /\ g.pos = Top.pos + 1
  /\ ~Dropped => ~g.inComment
  /\ Dropped \/ Kind \notin {"if", "elif", "else", "endif"} => g.skip = Top.skip
  /\ Live("if") => g.skip = Append(Top.skip, ~Truth)
  /\ \/ out' = out
     \/ \E what, arg : /\ out' = Emitted(what, arg)
                        /\ Live(Kind) /\ (what = "text" => Kind = "text")
  /\ \/ defines' = defines
     \/ Live("define") /\ defines' = defines \union {Line.arg}
     \/ Live("undef") /\ defines' = defines \ {Line.arg}
  /\ Live("define") => defines' = defines \union {Line.arg}
  /\ processed \subseteq processed'
  /\ Live("once") => Top.name \in processed'

Stays == UNCHANGED <<frames, out, defines, processed>>

\* Another file is opened by the line.
Enters(path, g) ==
  /\ ReadsLine(g) /\ Kind \in {"include", "include_next"} /\ ~Dropped
  /\ path \notin processed
  /\ frames' = Append(SetTop(g), Frame(path, cur, curParent))
  /\ defines' = defines /\ processed' = processed
  /\ out' = Emitted("include", NoArg)

Leaves == Return /\ UNCHANGED <<out, defines, processed>>

\* The frame after the line, field by field.
LEMMA ReadFields ==
  ASSUME StateInv, Reading
  PROVE  /\ Read.path = Top.path /\ Read.pos = Top.pos + 1 /\ ~Read.inComment
         /\ Read.skip = Top.skip /\ Read.cond = Top.cond /\ Read \in FrameType
<1>1. Top \in FrameType
  BY TopFacts DEF Reading
<1>2. Read.path = Top.path /\ Read.pos = Top.pos + 1 /\ ~Read.inComment
      /\ Read.skip = Top.skip /\ Read.cond = Top.cond
  BY <1>1 DEF Read, FrameType
<1> QED BY <1>2, ReadFacts

LEMMA StackFields ==
  ASSUME StateInv, Reading, NEW s, NEW c
  PROVE  /\ WithStacks(Read, s, c).path = Top.path /\ WithStacks(Read, s, c).pos = Top.pos + 1
         /\ ~WithStacks(Read, s, c).inComment /\ WithStacks(Read, s, c).skip = s
<1> DEFINE r == Read
<1>1. r.path = Top.path /\ r.pos = Top.pos + 1 /\ ~r.inComment /\ r \in FrameType
  BY ReadFields
<1> HIDE DEF r
<1>2. WithStacks(r, s, c).path = r.path /\ WithStacks(r, s, c).pos = r.pos
      /\ WithStacks(r, s, c).inComment = r.inComment /\ WithStacks(r, s, c).skip = s
  BY <1>1 DEF WithStacks, FrameType
<1> QED BY <1>1, <1>2 DEF r

\* Every step reads a line, opens a file by a line, comes back from one, or does nothing to
\* the files, the map, the macros and the headers seen.
LEMMA Steps ==
  ASSUME IInv, [Next]_vars
  PROVE  /\ program' = program
         /\ \/ Stays
            \/ \E g : ReadsLine(g) /\ frames' = SetTop(g)
            \/ \E path, g : Enters(path, g)
            \/ Leaves
<1>1. StateInv
  BY DEF IInv
<1>2. ASSUME Reading
      PROVE  /\ Read.path = Top.path /\ Read.pos = Top.pos + 1 /\ ~Read.inComment
             /\ Read.skip = Top.skip /\ Read.cond = Top.cond /\ Read \in FrameType
  BY <1>1, <1>2, ReadFields
<1>3. CASE DropLine
  <2> DEFINE g == [Top EXCEPT !.pos = @ + 1, !.number = @ + 1, !.inComment = TRUE]
  <2>1. /\ Reading /\ Dropped /\ frames' = SetTop(g)
        /\ UNCHANGED <<program, out, defines, processed>>
    BY <1>3 DEF DropLine, Source
  <2>2. Top \in FrameType
    BY <1>1, <2>1, TopFacts DEF Reading
  <2>3. g.path = Top.path /\ g.pos = Top.pos + 1 /\ g.skip = Top.skip
    BY <2>2 DEF FrameType
  <2> HIDE DEF g
  <2>4. ReadsLine(g)
    BY <2>1, <2>3 DEF ReadsLine, Live
  <2> QED BY <2>1, <2>4
<1>4. CASE Underflow \/ ErrorDirective \/ Parse \/ UNCHANGED vars
  BY <1>4 DEF Underflow, ErrorDirective, Parse, Source, vars, Stays
<1>5. CASE WhileSkipping
  <2>1. UNCHANGED <<program, out, defines, processed>>
    BY <1>5 DEF WhileSkipping, Source
  <2>2. ASSUME NEW g, Skipped(Kind), frames' = SetTop(g),
               g.path = Top.path, g.pos = Top.pos + 1, ~g.inComment,
               Kind \notin {"if", "elif", "else", "endif"} => g.skip = Top.skip
        PROVE  \E h : ReadsLine(h) /\ frames' = SetTop(h)
    <3>1. ReadsLine(g)
      BY <2>1, <2>2 DEF ReadsLine, Live, Skipped
    <3> QED BY <2>2, <3>1
  <2>3. CASE SkippedGroup
    <3> DEFINE S == Append(Top.skip, TRUE)
               C == Append(Top.cond, TRUE)
               g == WithStacks(Read, S, C)
    <3>1. Skipped(Kind) /\ Kind = "if" /\ frames' = SetTop(Pushed(Read, TRUE, TRUE)) /\ Reading
      BY <2>3 DEF SkippedGroup, Skipped
    <3>2. Pushed(Read, TRUE, TRUE) = g
      BY <1>2, <3>1 DEF Pushed, WithStacks, FrameType
    <3>3. g.path = Top.path /\ g.pos = Top.pos + 1 /\ ~g.inComment
      <4> HIDE DEF S, C
      <4> QED BY <1>1, <3>1, StackFields
    <3> HIDE DEF g
    <3> QED BY <2>1, <2>2, <3>1, <3>2, <3>3
  <2>4. CASE SkippedBranch
    <3> DEFINE chosen == ~Taken /\ (Kind = "elif" => Truth)
               a == ~chosen
               b == Taken \/ chosen
               S == Append(Front(Top.skip), a)
               C == Append(Front(Top.cond), b)
               g == WithStacks(Read, S, C)
    <3>1. /\ Skipped(Kind) /\ Kind \in {"elif", "else"}
          /\ frames' = SetTop(Replaced(Read, a, b)) /\ Reading
      BY <2>4 DEF SkippedBranch, Skipped
    <3>2. Replaced(Read, a, b) = g
      <4> HIDE DEF a, b, chosen
      <4> QED BY <1>2, <3>1 DEF Replaced, WithStacks, FrameType
    <3>3. g.path = Top.path /\ g.pos = Top.pos + 1 /\ ~g.inComment
      <4> HIDE DEF S, C
      <4> QED BY <1>1, <3>1, StackFields
    <3> HIDE DEF g, a, b, chosen
    <3> QED BY <2>1, <2>2, <3>1, <3>2, <3>3
  <2>5. CASE SkippedEndif
    <3> DEFINE S == Front(Top.skip)
               C == Front(Top.cond)
               g == WithStacks(Read, S, C)
    <3>1. Skipped(Kind) /\ Kind = "endif" /\ frames' = SetTop(Popped(Read)) /\ Reading
      BY <2>5 DEF SkippedEndif, Skipped
    <3>2. Popped(Read) = g
      BY <1>2, <3>1 DEF Popped, WithStacks, FrameType
    <3>3. g.path = Top.path /\ g.pos = Top.pos + 1 /\ ~g.inComment
      <4> HIDE DEF S, C
      <4> QED BY <1>1, <3>1, StackFields
    <3> HIDE DEF g
    <3> QED BY <2>1, <2>2, <3>1, <3>2, <3>3
  <2>6. CASE SkippedLine
    <3>1. /\ Skipped(Kind) /\ Kind \notin {"if", "elif", "else", "endif"}
          /\ frames' = SetTop(Read) /\ Reading
      BY <2>6 DEF SkippedLine, Skipped
    <3>2. Read.path = Top.path /\ Read.pos = Top.pos + 1 /\ ~Read.inComment /\ Read.skip = Top.skip
      BY <1>2, <3>1
    <3> QED BY <2>1, <2>2, <3>1, <3>2
  <2> QED BY <1>5, <2>1, <2>3, <2>4, <2>5, <2>6 DEF WhileSkipping
<1>6. CASE Conditional
  <2>1. UNCHANGED <<program, defines, processed>> /\ out' = Emitted("blank", NoArg)
    BY <1>6 DEF Conditional, Source
  <2>2. ASSUME NEW g, Kind \in {"if", "elif", "else", "endif"}, Live(Kind), frames' = SetTop(g),
               g.path = Top.path, g.pos = Top.pos + 1, ~g.inComment,
               Kind = "if" => g.skip = Append(Top.skip, ~Truth)
        PROVE  \E h : ReadsLine(h) /\ frames' = SetTop(h)
    <3>1. ReadsLine(g)
      BY <2>1, <2>2 DEF ReadsLine, Live
    <3> QED BY <2>2, <3>1
  <2>3. CASE If
    <3> DEFINE S == Append(Top.skip, ~Truth)
               C == Append(Top.cond, Truth)
               g == WithStacks(Read, S, C)
    <3>1. Live(Kind) /\ Kind = "if" /\ frames' = SetTop(Pushed(Read, ~Truth, Truth)) /\ Reading
      BY <2>3 DEF If, Live
    <3>2. Pushed(Read, ~Truth, Truth) = g
      BY <1>2, <3>1 DEF Pushed, WithStacks, FrameType
    <3>3. g.path = Top.path /\ g.pos = Top.pos + 1 /\ ~g.inComment
          /\ g.skip = Append(Top.skip, ~Truth)
      <4>1. /\ g.path = Top.path /\ g.pos = Top.pos + 1 /\ ~g.inComment
            /\ g.skip = S
        <5> HIDE DEF S, C
        <5> QED BY <1>1, <3>1, StackFields
      <4> QED BY <4>1
    <3> HIDE DEF g
    <3> QED BY <2>1, <2>2, <3>1, <3>2, <3>3
  <2>4. CASE Elif \/ Else
    <3> DEFINE b == IF Kind = "elif" THEN Taken \/ Truth ELSE TRUE
               S == Append(Front(Top.skip), Taken)
               C == Append(Front(Top.cond), b)
               g == WithStacks(Read, S, C)
    <3>1. /\ Live(Kind) /\ Kind \in {"elif", "else"}
          /\ frames' = SetTop(Replaced(Read, Taken, b)) /\ Reading
      BY <2>4 DEF Elif, Else, Live
    <3>2. Replaced(Read, Taken, b) = g
      <4> HIDE DEF b
      <4> QED BY <1>2, <3>1 DEF Replaced, WithStacks, FrameType
    <3>3. g.path = Top.path /\ g.pos = Top.pos + 1 /\ ~g.inComment
      <4> HIDE DEF S, C
      <4> QED BY <1>1, <3>1, StackFields
    <3> HIDE DEF g, b
    <3> QED BY <2>1, <2>2, <3>1, <3>2, <3>3
  <2>5. CASE Endif
    <3> DEFINE S == Front(Top.skip)
               C == Front(Top.cond)
               g == WithStacks(Read, S, C)
    <3>1. Live(Kind) /\ Kind = "endif" /\ frames' = SetTop(Popped(Read)) /\ Reading
      BY <2>5 DEF Endif, Live
    <3>2. Popped(Read) = g
      BY <1>2, <3>1 DEF Popped, WithStacks, FrameType
    <3>3. g.path = Top.path /\ g.pos = Top.pos + 1 /\ ~g.inComment
      <4> HIDE DEF S, C
      <4> QED BY <1>1, <3>1, StackFields
    <3> HIDE DEF g
    <3> QED BY <2>1, <2>2, <3>1, <3>2, <3>3
  <2> QED BY <1>6, <2>1, <2>3, <2>4, <2>5 DEF Conditional
<1>7. ASSUME NEW kind \in {"text", "define", "undef", "pack"}, Live(kind), frames' = SetTop(Read),
             processed' = processed, program' = program,
             \E what, arg : out' = Emitted(what, arg) /\ (what = "text" => kind = "text"),
             \/ kind \notin {"define", "undef"} /\ defines' = defines
             \/ kind = "define" /\ defines' = defines \union {Line.arg}
             \/ kind = "undef" /\ defines' = defines \ {Line.arg}
      PROVE  ReadsLine(Read)
  <2>1. Reading /\ Kind = kind
    BY <1>7 DEF Live
  <2> QED BY <1>2, <1>7, <2>1 DEF ReadsLine, Live
<1>8. CASE Text \/ DefineOrUndef \/ PragmaPack
  <2>1. /\ frames' = SetTop(Read) /\ processed' = processed /\ program' = program
        /\ \E kind \in {"text", "define", "undef", "pack"} :
             /\ Live(kind)
             /\ \E what, arg : out' = Emitted(what, arg) /\ (what = "text" => kind = "text")
             /\ \/ kind \notin {"define", "undef"} /\ defines' = defines
                \/ kind = "define" /\ defines' = defines \union {Line.arg}
                \/ kind = "undef" /\ defines' = defines \ {Line.arg}
    <3>1. CASE Text
      BY <3>1 DEF Text, Source
    <3>2. CASE DefineOrUndef
      BY <3>2 DEF DefineOrUndef, Source
    <3>3. CASE PragmaPack
      BY <3>3 DEF PragmaPack, Source
    <3> QED BY <1>8, <3>1, <3>2, <3>3
  <2> QED BY <1>7, <2>1
<1>9. CASE PragmaOnce
  <2>1. Reading /\ Kind = "once" /\ frames' = SetTop(Read) /\ program' = program
    BY <1>9 DEF PragmaOnce, Live
  <2>2. ReadsLine(Read)
    BY <1>2, <1>9, <2>1 DEF PragmaOnce, ReadsLine, Live
  <2> QED BY <2>1, <2>2
<1>10. CASE LineDirective
  <2> DEFINE g == [Read EXCEPT !.number = Line.arg.number - 1, !.name = Line.arg.name]
  <2>1. Reading /\ Kind = "line" /\ frames' = SetTop(g)
        /\ UNCHANGED <<program, out, defines, processed>>
    BY <1>10 DEF LineDirective, Live, Source
  <2>2. g.path = Read.path /\ g.pos = Read.pos /\ g.skip = Read.skip /\ g.inComment = Read.inComment
    <3> DEFINE r == Read
    <3>1. r \in FrameType
      BY <1>2, <2>1
    <3> HIDE DEF r
    <3>2. LET h == [r EXCEPT !.number = Line.arg.number - 1, !.name = Line.arg.name]
          IN  h.path = r.path /\ h.pos = r.pos /\ h.skip = r.skip /\ h.inComment = r.inComment
      BY <3>1 DEF FrameType
    <3> QED BY <3>2 DEF r
  <2> HIDE DEF g
  <2>3. ReadsLine(g)
    BY <1>2, <2>1, <2>2 DEF ReadsLine, Live
  <2> QED BY <2>1, <2>3
<1>11. CASE Include
  <2>1. PICK kind \in {"include", "include_next"} :
          /\ Live(kind) /\ out' = Emitted("include", NoArg)
          /\ \/ \E path \in IF kind = "include" THEN Resolve(Line.arg, Line.arg.quoted)
                            ELSE ResolveNext(Line.arg) : Open(path)
             \/ frames' = SetTop(Read)
          /\ UNCHANGED <<program, processed, defines, pack, parsed>>
    BY <1>11, Zenon DEF Include
  <2>2. Reading /\ ~Dropped /\ Kind = kind
    BY <2>1 DEF Live
  <2>3. ReadsLine(Read)
    BY <1>2, <2>1, <2>2 DEF ReadsLine, Live
  <2>4. ASSUME NEW path, Open(path)
        PROVE  \/ frames' = SetTop(Read)
               \/ path \notin processed /\ frames' = Append(SetTop(Read), Frame(path, cur, curParent))
    BY <2>4, Zenon DEF Open
  <2>5. ASSUME NEW path, path \notin processed,
               frames' = Append(SetTop(Read), Frame(path, cur, curParent))
        PROVE  Enters(path, Read)
    BY <2>1, <2>2, <2>3, <2>5 DEF Enters
  <2> QED BY <2>1, <2>3, <2>4, <2>5
<1>12. CASE Return
  BY <1>12 DEF Return, Leaves
<1> QED BY <1>3, <1>4, <1>5, <1>6, <1>8, <1>9, <1>10, <1>11, <1>12 DEF Next


-----------------------------------------------------------------------------
\* An entry of the map that stems from one of the paths P, from a line behind the first.
Body(e, P) == e.at[1] \in P /\ e.at[2] > 1

\* Those entries are in the order of the lines, and no line has two of them.
InOrder(P, map) ==
  \A k, m \in DOMAIN map :
     k < m /\ Body(map[k], P) /\ Body(map[m], P) => map[k].at[2] < map[m].at[2]
Behind(P, map, n) == \A k \in DOMAIN map : Body(map[k], P) => map[k].at[2] <= n
FirstIsNoText(P, map) ==
  \A k \in DOMAIN map : map[k].what = "text" /\ map[k].at[1] \in P => map[k].at[2] > 1

\* The stack after the line.
LEMMA ReadFrames ==
  ASSUME StateInv, Reading, NEW g
  PROVE  /\ Len(frames) \in Nat /\ Len(frames) > 0 /\ DOMAIN frames = 1 .. Len(frames)
         /\ Top = frames[Len(frames)] /\ Top \in FrameType
         /\ DOMAIN SetTop(g) = DOMAIN frames /\ Len(SetTop(g)) = Len(frames)
         /\ SetTop(g)[Len(frames)] = g
         /\ \A i \in DOMAIN frames : i # Len(frames) => i < Len(frames) /\ SetTop(g)[i] = frames[i]
<1>1. frames # <<>>
  BY DEF Reading
<1>2. Len(frames) \in Nat /\ Len(frames) > 0 /\ Top = frames[Len(frames)] /\ Top \in FrameType
  BY <1>1, TopFacts
<1>3. DOMAIN frames = 1 .. Len(frames)
  BY DEF StateInv
<1>4. DOMAIN SetTop(g) = DOMAIN frames
  BY DEF SetTop
<1>5. Len(SetTop(g)) = Len(frames)
  BY <1>2, <1>3, <1>4
<1> QED BY <1>2, <1>3, <1>4, <1>5 DEF SetTop

\* The map after the line.
LEMMA ReadMap ==
  ASSUME StateInv, NEW g, ReadsLine(g)
  PROVE  /\ Len(out) \in Nat /\ DOMAIN out = 1 .. Len(out)
         /\ \A k \in DOMAIN out : out[k].at[2] \in Nat
         /\ Top.pos \in Nat
         /\ \A k \in DOMAIN out' :
               \/ k \in DOMAIN out /\ out'[k] = out[k]
               \/ /\ k = Len(out) + 1
                  /\ out'[k].at[1] = Top.path /\ out'[k].at[2] = Top.pos + 1
                  /\ Live(Kind) /\ (out'[k].what = "text" => Kind = "text")
<1>1. Reading
  BY DEF ReadsLine
<1>2. Top.pos \in Nat /\ Read.pos = Top.pos + 1
  BY <1>1, ReadFields, ReadFrames DEF FrameType
<1>3. out \in Seq(OutType)
  BY DEF StateInv, OutType
<1>4. Len(out) \in Nat /\ DOMAIN out = 1 .. Len(out)
  BY <1>3
<1>5. \A k \in DOMAIN out : out[k].at[2] \in Nat
  <2> TAKE k \in DOMAIN out
  <2>1. out[k] \in OutType
    BY <1>3, <1>4
  <2> QED BY <2>1 DEF OutType
<1>6. ASSUME NEW what, NEW arg, out' = Emitted(what, arg), Live(Kind), what = "text" => Kind = "text",
             NEW k \in DOMAIN out'
      PROVE  \/ k \in DOMAIN out /\ out'[k] = out[k]
             \/ /\ k = Len(out) + 1
                /\ out'[k].at[1] = Top.path /\ out'[k].at[2] = Top.pos + 1
                /\ Live(Kind) /\ (out'[k].what = "text" => Kind = "text")
  <2> DEFINE e == [what |-> what, arg |-> arg, file |-> cur, line |-> Read.number,
                   parent |-> curParent, depth |-> Len(frames), at |-> <<Top.path, Read.pos>>]
  <2>1. out' = Append(out, e)
    BY <1>6 DEF Emitted
  <2>2. e.at[1] = Top.path /\ e.at[2] = Top.pos + 1 /\ e.what = what
    BY <1>2
  <2> HIDE DEF e
  <2>3. CASE k \in DOMAIN out
    BY <1>3, <1>4, <2>1, <2>3
  <2>4. CASE k \notin DOMAIN out
    <3>1. Len(Append(out, e)) = Len(out) + 1 /\ DOMAIN Append(out, e) = 1 .. Len(out) + 1
          /\ Append(out, e)[Len(out) + 1] = e
      BY <1>3, <1>4
    <3>2. k = Len(out) + 1
      BY <1>4, <1>6, <2>1, <2>4, <3>1
    <3> QED BY <1>6, <2>1, <2>2, <3>1, <3>2
  <2> QED BY <2>3, <2>4
<1> QED BY <1>2, <1>4, <1>5, <1>6 DEF ReadsLine

\* The order is kept if the entries of the file being read are behind its reader.
LEMMA OrderKept ==
  ASSUME StateInv, NEW g, ReadsLine(g), NEW P, InOrder(P, out),
         Top.path \in P /\ Top.pos > 0 /\ Live(Kind) => Behind(P, out, Top.pos)
  PROVE  InOrder(P, out')
<1> SUFFICES ASSUME NEW k \in DOMAIN out', NEW m \in DOMAIN out', k < m,
                    Body(out'[k], P), Body(out'[m], P)
             PROVE  out'[k].at[2] < out'[m].at[2]
  BY DEF InOrder
<1>1. k \in DOMAIN out /\ out'[k] = out[k]
  BY ReadMap
<1>2. CASE m \in DOMAIN out /\ out'[m] = out[m]
  BY <1>1, <1>2 DEF InOrder
<1>3. CASE m = Len(out) + 1 /\ out'[m].at[1] = Top.path /\ out'[m].at[2] = Top.pos + 1 /\ Live(Kind)
  <2>1. Top.pos \in Nat /\ out[k].at[2] \in Nat
    BY <1>1, ReadMap
  <2>2. Top.path \in P /\ Top.pos > 0
    BY <1>3, <2>1 DEF Body
  <2>3. out[k].at[2] <= Top.pos
    BY <1>1, <1>3, <2>2 DEF Behind
  <2> QED BY <1>1, <1>3, <2>1, <2>3
<1> QED BY <1>2, <1>3, ReadMap

\* A line of another file adds no entry of P, and one of P adds its own.
LEMMA BehindKept ==
  ASSUME StateInv, NEW g, ReadsLine(g), NEW P, NEW n \in Nat, Behind(P, out, n)
  PROVE  /\ Top.path \notin P \/ ~Live(Kind) => Behind(P, out', n)
         /\ n = Top.pos => Behind(P, out', g.pos)
<1>1. Top.pos \in Nat /\ g.pos = Top.pos + 1
  BY ReadMap DEF ReadsLine
<1>2. \A k \in DOMAIN out : out[k].at[2] \in Nat
  BY ReadMap
<1>3. ASSUME Top.path \notin P \/ ~Live(Kind) PROVE Behind(P, out', n)
  BY <1>3, ReadMap DEF Behind, Body
<1>4. ASSUME n = Top.pos PROVE Behind(P, out', g.pos)
  <2> SUFFICES ASSUME NEW k \in DOMAIN out', Body(out'[k], P) PROVE out'[k].at[2] <= g.pos
    BY DEF Behind
  <2>1. CASE k \in DOMAIN out /\ out'[k] = out[k]
    <3>1. out[k].at[2] <= Top.pos /\ out[k].at[2] \in Nat
      BY <1>2, <1>4, <2>1 DEF Behind
    <3> QED BY <1>1, <2>1, <3>1
  <2>2. CASE out'[k].at[2] = Top.pos + 1
    BY <1>1, <2>2
  <2> QED BY <2>1, <2>2, ReadMap
<1> QED BY <1>3, <1>4

-----------------------------------------------------------------------------
(* #pragma once.                                                           *)

\* A header that begins with it is open at most once; it is among the headers seen as soon as
\* a line of it has been read; its entries are in order, and behind its reader.
OnceOpen(p, fs, done) ==
  /\ \A i \in DOMAIN fs : fs[i].path = p =>
        IF fs[i].pos = 0
        THEN i = Len(fs) /\ fs[i].skip = <<FALSE>> /\ ~fs[i].inComment /\ fs[i].name = p
        ELSE p \in done
  /\ \A i, j \in DOMAIN fs : fs[i].path = p /\ fs[j].path = p => i = j
OnceOut(p, fs, map, done) ==
  /\ \A k \in DOMAIN map : Body(map[k], {p}) => p \in done
  /\ InOrder({p}, map)
  /\ \A i \in DOMAIN fs : fs[i].path = p => Behind({p}, map, fs[i].pos)
  /\ FirstIsNoText({p}, map)
OnceInv == \A p \in DOMAIN program : Once(p) =>
              OnceOpen(p, frames, processed) /\ OnceOut(p, frames, out, processed)

\* The first line of such a header is read as what it is.
LEMMA OnceLine ==
  ASSUME StateInv, Reading, Once(Top.path), Top.pos = 0,
         OnceOpen(Top.path, frames, processed)
  PROVE  Live("once") /\ Kind = "once" /\ Top.name = Top.path
<1>1. Len(frames) \in DOMAIN frames /\ Top = frames[Len(frames)] /\ Top \in FrameType
  BY ReadFrames
<1>2. Top.skip = <<FALSE>> /\ ~Top.inComment /\ Top.name = Top.path
  BY <1>1 DEF OnceOpen
<1>3. Line.kind = "once" /\ Line.comment = "none"
  BY DEF Once, Line
<1>4. Kind = "once" /\ ~Dropped
  BY <1>2, <1>3 DEF Kind, Dropped
<1>5. Top.skip # <<>> /\ ~Last(Top.skip)
  BY <1>2 DEF Last
<1> QED BY <1>2, <1>4, <1>5 DEF Live

LEMMA OnceRead ==
  ASSUME StateInv, NEW p, Once(p), NEW g, ReadsLine(g),
         OnceOpen(p, frames, processed), OnceOut(p, frames, out, processed)
  PROVE  /\ OnceOpen(p, SetTop(g), processed') /\ OnceOut(p, SetTop(g), out', processed')
<1> DEFINE n == Len(frames)
           fs == SetTop(g)
<1>1. Reading /\ g.path = Top.path /\ g.pos = Top.pos + 1 /\ processed \subseteq processed'
  BY DEF ReadsLine
<1>2. /\ n \in Nat /\ n > 0 /\ DOMAIN frames = 1 .. n /\ Top = frames[n] /\ Top \in FrameType
      /\ DOMAIN fs = 1 .. n /\ Len(fs) = n /\ fs[n] = g
      /\ \A i \in 1 .. n : i # n => fs[i] = frames[i]
  BY <1>1, ReadFrames
<1>3. Top.pos \in Nat
  BY ReadMap
<1>4. ASSUME Top.path = p PROVE p \in processed'
  <2>1. CASE Top.pos = 0
    <3>1. Live("once") /\ Top.name = p
      BY <1>1, <1>4, <2>1, OnceLine
    <3> QED BY <3>1 DEF ReadsLine
  <2>2. CASE Top.pos # 0
    <3>1. n \in DOMAIN frames /\ frames[n].path = p /\ frames[n].pos # 0
      <4>1. n \in 1 .. n
        <5> HIDE DEF n, fs
        <5> QED BY <1>2
      <4>2. frames[n].path = p /\ frames[n].pos # 0
        BY <1>2, <1>4, <2>2
      <4> QED BY <1>2, <4>1, <4>2
    <3>2. p \in processed
      BY <3>1 DEF OnceOpen
    <3> QED BY <1>1, <3>2
  <2> QED BY <2>1, <2>2
<1> HIDE DEF fs, n
<1>5. OnceOpen(p, fs, processed')
  <2>1. ASSUME NEW i \in DOMAIN fs, fs[i].path = p
        PROVE  frames[i].path = p /\ i \in DOMAIN frames
    BY <1>1, <1>2, <2>1
  <2>2. ASSUME NEW i \in DOMAIN fs, fs[i].path = p
        PROVE  fs[i].pos # 0 /\ p \in processed'
    <3>1. CASE i = n
      BY <1>1, <1>2, <1>3, <1>4, <2>2, <3>1
    <3>2. CASE i # n
      <4>1. fs[i] = frames[i] /\ i \in DOMAIN frames
        BY <1>2, <2>2, <3>2
      <4>2. frames[i].pos # 0 /\ p \in processed
        BY <2>2, <3>2, <4>1 DEF OnceOpen, n
      <4> QED BY <1>1, <4>1, <4>2
    <3> QED BY <3>1, <3>2
  <2>3. ASSUME NEW i \in DOMAIN fs, NEW j \in DOMAIN fs, fs[i].path = p, fs[j].path = p
        PROVE  i = j
    BY <2>1, <2>3 DEF OnceOpen
  <2> QED BY <2>2, <2>3 DEF OnceOpen
<1>6. OnceOut(p, fs, out', processed')
  <2>1. ASSUME NEW k \in DOMAIN out', Body(out'[k], {p}) PROVE p \in processed'
    <3>1. CASE k \in DOMAIN out /\ out'[k] = out[k]
      BY <1>1, <2>1, <3>1 DEF OnceOut
    <3>2. CASE out'[k].at[1] = Top.path
      BY <1>4, <2>1, <3>2 DEF Body
    <3> QED BY <3>1, <3>2, ReadMap
  <2>2. Top.path = p => Behind({p}, out, Top.pos)
    <3>1. n \in DOMAIN frames /\ Top = frames[n]
      BY <1>2
    <3> QED BY <3>1, Zenon DEF OnceOut
  <2>3. InOrder({p}, out')
    <3>1. InOrder({p}, out)
      BY DEF OnceOut
    <3> QED BY <2>2, <3>1, OrderKept
  <2>4. ASSUME NEW i \in DOMAIN fs, fs[i].path = p PROVE Behind({p}, out', fs[i].pos)
    <3>1. CASE i = n
      BY <1>1, <1>2, <1>3, <2>2, <2>4, <3>1, BehindKept
    <3>2. CASE i # n
      <4>1. fs[i] = frames[i] /\ i \in DOMAIN frames
        BY <1>2, <2>4, <3>2
      <4>2. Top.path # p
        <5>1. n \in DOMAIN frames /\ i \in DOMAIN frames
          BY <1>2, <4>1
        <5> QED BY <1>2, <2>4, <3>2, <4>1, <5>1 DEF OnceOpen
      <4>3. Behind({p}, out, frames[i].pos)
        BY <2>4, <4>1 DEF OnceOut
      <4>4. frames[i].pos \in Nat
        <5>1. frames[i] \in FrameType
          BY <4>1 DEF StateInv
        <5> QED BY <5>1 DEF FrameType
      <4> QED BY <4>1, <4>2, <4>3, <4>4, BehindKept
    <3> QED BY <3>1, <3>2
  <2>5. ASSUME NEW k \in DOMAIN out', out'[k].what = "text", out'[k].at[1] = p
        PROVE  out'[k].at[2] > 1
    <3>1. CASE k \in DOMAIN out /\ out'[k] = out[k]
      BY <2>5, <3>1 DEF OnceOut, FirstIsNoText
    <3>2. CASE /\ out'[k].at[1] = Top.path /\ out'[k].at[2] = Top.pos + 1
               /\ out'[k].what = "text" => Kind = "text"
      <4>1. Top.path = p /\ Kind = "text"
        BY <2>5, <3>2
      <4>2. Top.pos # 0
        BY <1>1, <4>1, OnceLine
      <4> QED BY <1>3, <3>2, <4>2
    <3> QED BY <3>1, <3>2, ReadMap
  <2> QED BY <2>1, <2>3, <2>4, <2>5 DEF OnceOut, FirstIsNoText
<1> QED BY <1>5, <1>6 DEF fs

\* A file not among the headers seen is opened by a line.
LEMMA OnceEnter ==
  ASSUME NEW p, NEW fs, NEW map, NEW done, NEW f, NEW n \in Nat,
         DOMAIN fs = 1 .. n, Len(fs) = n, n > 0 => fs[n].pos # 0,
         f.path \notin done, f.name = f.path, f.pos = 0, f.skip = <<FALSE>>, ~f.inComment,
         OnceOpen(p, fs, done), OnceOut(p, fs, map, done),
         NEW gs, DOMAIN gs = 1 .. n + 1, Len(gs) = n + 1, gs[n + 1] = f,
         \A i \in 1 .. n : gs[i] = fs[i]
  PROVE  OnceOpen(p, gs, done) /\ OnceOut(p, gs, map, done)
<1>1. ASSUME NEW i \in DOMAIN gs, gs[i].path = p, i # n + 1
      PROVE  i \in DOMAIN fs /\ gs[i] = fs[i] /\ fs[i].pos # 0 /\ p \in done
  <2>1. i \in DOMAIN fs /\ gs[i] = fs[i]
    BY <1>1
  <2>2. fs[i].path = p
    BY <1>1, <2>1
  <2>3. fs[i].pos # 0
    <3> SUFFICES ASSUME fs[i].pos = 0 PROVE FALSE
      OBVIOUS
    <3>1. i = n
      BY <2>1, <2>2 DEF OnceOpen
    <3> QED BY <2>1, <3>1
  <2>4. p \in done
    BY <2>1, <2>2, <2>3 DEF OnceOpen
  <2> QED BY <2>1, <2>3, <2>4
<1>2. ASSUME f.path = p
      PROVE  /\ \A i \in DOMAIN gs : gs[i].path = p => i = n + 1
             /\ \A k \in DOMAIN map : ~Body(map[k], {p})
  BY <1>1, <1>2 DEF OnceOut
<1>3. OnceOpen(p, gs, done)
  <2>1. ASSUME NEW i \in DOMAIN gs, gs[i].path = p
        PROVE  IF gs[i].pos = 0
               THEN i = Len(gs) /\ gs[i].skip = <<FALSE>> /\ ~gs[i].inComment /\ gs[i].name = p
               ELSE p \in done
    <3>1. CASE i = n + 1
      BY <2>1, <3>1
    <3>2. CASE i # n + 1
      BY <1>1, <2>1, <3>2
    <3> QED BY <3>1, <3>2
  <2>2. ASSUME NEW i \in DOMAIN gs, NEW j \in DOMAIN gs, gs[i].path = p, gs[j].path = p
        PROVE  i = j
    <3>1. CASE f.path = p
      BY <1>2, <2>2, <3>1
    <3>2. CASE f.path # p
      <4>1. i # n + 1 /\ j # n + 1
        BY <2>2, <3>2
      <4> QED BY <1>1, <2>2, <4>1 DEF OnceOpen
    <3> QED BY <3>1, <3>2
  <2> QED BY <2>1, <2>2 DEF OnceOpen
<1>4. ASSUME NEW i \in DOMAIN gs, gs[i].path = p PROVE Behind({p}, map, gs[i].pos)
  <2>1. CASE i = n + 1
    BY <1>2, <1>4, <2>1 DEF Behind
  <2>2. CASE i # n + 1
    BY <1>1, <1>4, <2>2 DEF OnceOut
  <2> QED BY <2>1, <2>2
<1> QED BY <1>3, <1>4 DEF OnceOut

LEMMA OnceLeave ==
  ASSUME NEW p, NEW fs, NEW map, NEW done, NEW n \in Nat, DOMAIN fs = 1 .. n, Len(fs) = n,
         OnceOpen(p, fs, done), OnceOut(p, fs, map, done),
         NEW gs, DOMAIN gs = 1 .. n - 1, \A i \in 1 .. n - 1 : gs[i] = fs[i]
  PROVE  OnceOpen(p, gs, done) /\ OnceOut(p, gs, map, done)
<1>1. \A i \in DOMAIN gs : i \in DOMAIN fs /\ gs[i] = fs[i] /\ i # Len(fs)
  OBVIOUS
<1>2. OnceOpen(p, gs, done)
  BY <1>1 DEF OnceOpen
<1>3. OnceOut(p, gs, map, done)
  BY <1>1 DEF OnceOut
<1> QED BY <1>2, <1>3


\* Every step keeps the account of every such header.
LEMMA OnceNext == IInv /\ OnceInv /\ [Next]_vars => OnceInv'
<1> SUFFICES ASSUME IInv, OnceInv, [Next]_vars,
                    NEW p \in DOMAIN program', Once(p)'
             PROVE  OnceOpen(p, frames', processed') /\ OnceOut(p, frames', out', processed')
  BY DEF OnceInv
<1>1. /\ program' = program
      /\ \/ Stays
         \/ \E g : ReadsLine(g) /\ frames' = SetTop(g)
         \/ \E path, g : Enters(path, g)
         \/ Leaves
  BY Steps
<1>2. StateInv /\ Once(p) /\ OnceOpen(p, frames, processed) /\ OnceOut(p, frames, out, processed)
  <2>1. Once(p)
    BY <1>1 DEF Once
  <2> QED BY <1>1, <2>1 DEF OnceInv, IInv
<1>3. CASE Stays
  BY <1>2, <1>3 DEF Stays
<1>4. ASSUME NEW g, ReadsLine(g), frames' = SetTop(g)
      PROVE  OnceOpen(p, frames', processed') /\ OnceOut(p, frames', out', processed')
  BY <1>2, <1>4, OnceRead
<1>5. ASSUME NEW path, NEW g, Enters(path, g)
      PROVE  OnceOpen(p, frames', processed') /\ OnceOut(p, frames', out', processed')
  <2> DEFINE n == Len(frames)
             fs == SetTop(g)
             f == Frame(path, cur, curParent)
             gs == Append(fs, f)
  <2>1. ReadsLine(g) /\ path \notin processed' /\ frames' = gs
    BY <1>5 DEF Enters
  <2>2. OnceOpen(p, fs, processed') /\ OnceOut(p, fs, out', processed')
    BY <1>2, <2>1, OnceRead
  <2>3. Reading /\ g.pos = Top.pos + 1 /\ Top.pos \in Nat
    BY <1>2, <2>1, ReadMap DEF ReadsLine
  <2>4. n \in Nat /\ DOMAIN fs = 1 .. n /\ Len(fs) = n /\ (n > 0 => fs[n].pos # 0)
    <3>1. /\ Len(frames) \in Nat /\ DOMAIN frames = 1 .. Len(frames)
          /\ DOMAIN SetTop(g) = DOMAIN frames /\ Len(SetTop(g)) = Len(frames)
          /\ SetTop(g)[Len(frames)] = g
      BY <1>2, <2>3, ReadFrames
    <3>2. g.pos # 0
      BY <2>3
    <3> QED BY <3>1, <3>2
  <2>5. /\ f.path = path /\ f.name = f.path /\ f.pos = 0 /\ f.skip = <<FALSE>> /\ ~f.inComment
    BY DEF Frame
  <2>6. DOMAIN gs = 1 .. n + 1 /\ Len(gs) = n + 1 /\ gs[n + 1] = f /\ \A i \in 1 .. n : gs[i] = fs[i]
    <3> HIDE DEF fs, f, n
    <3> QED BY <2>4 DEF gs
  <2> HIDE DEF gs, fs, f, n
  <2>7. f.path \notin processed'
    BY <2>1, <2>5
  <2>8. OnceOpen(p, gs, processed') /\ OnceOut(p, gs, out', processed')
    BY <2>2, <2>4, <2>5, <2>6, <2>7, OnceEnter, ZenonT(30)
  <2> QED BY <2>1, <2>8
<1>6. CASE Leaves
  <2> DEFINE n == Len(frames)
  <2>1. frames # <<>> /\ frames' = Front(frames) /\ UNCHANGED <<out, processed>>
    BY <1>6 DEF Leaves, Return
  <2>2. n \in Nat /\ DOMAIN frames = 1 .. n
    BY <1>2 DEF StateInv
  <2>3. DOMAIN frames' = 1 .. n - 1 /\ \A i \in 1 .. n - 1 : frames'[i] = frames[i]
    <3>1. Front(frames) \in Seq(FrameType) /\ Len(Front(frames)) = Len(frames) - 1
          /\ \A i \in 1 .. Len(frames) - 1 : Front(frames)[i] = frames[i]
      BY <1>2, <2>1, TopFacts
    <3>2. DOMAIN Front(frames) = 1 .. Len(Front(frames))
      BY <3>1
    <3> QED BY <2>1, <3>1, <3>2
  <2>4. Len(frames) = n
    OBVIOUS
  <2> HIDE DEF n
  <2>5. OnceOpen(p, frames', processed) /\ OnceOut(p, frames', out, processed)
    BY <1>2, <2>2, <2>3, <2>4, OnceLeave
  <2> QED BY <2>1, <2>5
<1> QED BY <1>1, <1>3, <1>4, <1>5, <1>6


LEMMA OnceInit == Init => OnceInv
<1> SUFFICES ASSUME Init, NEW p \in DOMAIN program, Once(p)
             PROVE  OnceOpen(p, frames, processed) /\ OnceOut(p, frames, out, processed)
  BY DEF OnceInv
<1> DEFINE f == Frame(Main, Main, 0)
<1>1. /\ f.path = f.name /\ f.pos = 0 /\ f.skip = <<FALSE>> /\ ~f.inComment
  BY DEF Frame
<1>2. frames = <<f>> /\ out = <<>>
  BY DEF Init
<1> HIDE DEF f
<1>3. DOMAIN frames = {1} /\ Len(frames) = 1 /\ frames[1] = f /\ DOMAIN out = {}
  BY <1>2
<1>4. OnceOpen(p, frames, processed)
  BY <1>1, <1>3 DEF OnceOpen
<1>5. OnceOut(p, frames, out, processed)
  BY <1>3 DEF OnceOut, InOrder, Behind, FirstIsNoText
<1> QED BY <1>4, <1>5

-----------------------------------------------------------------------------
(* Include guards.                                                         *)

\* The frame is between the #ifndef and the #endif of the guard, which it has passed.
Within(P, f, len) == f.path \in P /\ f.pos > 0 /\ f.pos < len /\ ~f.skip[2]

\* At most one frame of a guarded header is.  Unless it is about to define the macro of its
\* guard, and is then the innermost, the macro is defined.
GuardOpen(P, fs, macros, len, guard) ==
  /\ \A i \in DOMAIN fs : fs[i].path \in P =>
        /\ fs[i].pos = 0 => fs[i].skip = <<FALSE>> /\ ~fs[i].inComment
        /\ fs[i].pos > 0 /\ fs[i].pos < len => /\ Len(fs[i].skip) = 2
                                               /\ fs[i].pos = 1 => ~fs[i].inComment
  /\ \A i, j \in DOMAIN fs : Within(P, fs[i], len) /\ Within(P, fs[j], len) => i = j
  /\ \A i \in DOMAIN fs : Within(P, fs[i], len) =>
        IF fs[i].pos = 1 THEN i = Len(fs) /\ guard \notin macros ELSE guard \in macros
GuardOut(P, fs, map, macros, len, guard) ==
  /\ \A k \in DOMAIN map : Body(map[k], P) => guard \in macros
  /\ InOrder(P, map)
  /\ \A i \in DOMAIN fs : Within(P, fs[i], len) => Behind(P, map, fs[i].pos)
  /\ FirstIsNoText(P, map)

LinesOf(p) == Len(program[p])
GuardOf(p) == program[p][2].arg
Spellings(p) == {q \in DOMAIN program : File(q) = File(p)}
GuardInv ==
  \A p \in DOMAIN program : Guarded(p) =>
     /\ GuardOpen(Spellings(p), frames, defines, LinesOf(p), GuardOf(p))
     /\ GuardOut(Spellings(p), frames, out, defines, LinesOf(p), GuardOf(p))

\* However its path is spelled, a file has the same lines.
LEMMA SameLines ==
  ASSUME StateInv, NEW p \in DOMAIN program, NEW q \in Spellings(p)
  PROVE  q \in DOMAIN program /\ program[q] = program[p]
<1>1. program \in Programs /\ q \in DOMAIN program /\ File(q) = File(p)
  BY DEF StateInv, Spellings
<1> QED BY <1>1, PreprocessorAssumption

\* The lines of such a header.
LEMMA GuardLine ==
  ASSUME StateInv, Reading, NEW p \in DOMAIN program, Guarded(p),
         NEW P, P = Spellings(p), Top.path \in P,
         GuardOpen(P, frames, defines, LinesOf(p), GuardOf(p))
  PROVE  /\ Top.pos \in Nat /\ Top.pos < LinesOf(p) /\ LinesOf(p) \in Nat
         /\ Top.pos = 0 => /\ Kind = "if" /\ Live("if") /\ Top.skip = <<FALSE>>
                           /\ ~Dropped
                           /\ Truth <=> GuardOf(p) \notin defines
         /\ Top.pos = 1 => Kind = "define" /\ Line.arg = GuardOf(p) /\ ~Dropped
         /\ Top.pos > 0 /\ Top.pos + 1 < LinesOf(p)
              => Kind \notin {"if", "elif", "else", "endif"}
         /\ Top.pos > 0 => Len(Top.skip) = 2 /\ Last(Top.skip) = Top.skip[2] /\ Top.skip # <<>>
<1> DEFINE t == program[p]
           n == Top.pos
<1>0. program[Top.path] = t
  BY SameLines
<1>1. Len(frames) \in DOMAIN frames /\ Top = frames[Len(frames)] /\ Top \in FrameType
  BY ReadFrames
<1>2. n \in Nat /\ n < Len(t) /\ Len(t) \in Nat
  <2>1. Top.pos \in Nat
    BY <1>1 DEF FrameType
  <2>2. Top.pos < Len(program[Top.path])
    BY DEF Reading
  <2>3. Len(program[p]) \in Nat
    BY PreprocessorAssumption DEF StateInv
  <2> QED BY <1>0, <2>1, <2>2, <2>3
<1>3. /\ n = 0 => Top.skip = <<FALSE>> /\ ~Top.inComment
      /\ n > 0 => Len(Top.skip) = 2
      /\ n = 1 => ~Top.inComment
  <2>1. n > 0 /\ n < LinesOf(p) => /\ Len(Top.skip) = 2
                                   /\ n = 1 => ~Top.inComment
    BY <1>1 DEF GuardOpen
  <2>2. n = 0 => Top.skip = <<FALSE>> /\ ~Top.inComment
    BY <1>1 DEF GuardOpen
  <2>3. n < LinesOf(p) /\ n \in Nat
    BY <1>2 DEF LinesOf
  <2> HIDE DEF n
  <2>4. n = 1 => n > 0
    OBVIOUS
  <2>5. n > 0 => Len(Top.skip) = 2 /\ (n = 1 => ~Top.inComment)
    BY <2>1, <2>3, Zenon
  <2> QED BY <2>2, <2>4, <2>5, Zenon
<1>4. /\ Len(t) > 2 /\ t[1].kind = "if" /\ t[2].kind = "define"
      /\ t[1].comment = "none" /\ t[2].comment = "none"
      /\ t[1].arg = [macro |-> t[2].arg, want |-> FALSE]
      /\ \A i \in 3..(Len(t) - 1) : t[i].kind \notin {"if", "elif", "else", "endif"}
  BY DEF Guarded
<1>5. Line = t[n + 1]
  BY <1>0 DEF Line
<1> HIDE DEF t, n
<1>6. ASSUME n = 0
      PROVE  /\ Kind = "if" /\ Live("if") /\ ~Dropped /\ Top.skip = <<FALSE>>
             /\ Truth <=> GuardOf(p) \notin defines
  <2>1. Line.kind = "if" /\ Line.comment = "none" /\ Line.arg = [macro |-> t[2].arg, want |-> FALSE]
    BY <1>4, <1>5, <1>6
  <2>2. Kind = "if" /\ ~Dropped
    BY <1>3, <1>6, <2>1 DEF Kind, Dropped
  <2>3. Top.skip = <<FALSE>> /\ Top.skip # <<>> /\ ~Last(Top.skip)
    <3>1. Top.skip = <<FALSE>>
      BY <1>3, <1>6
    <3>2. \A s : s = <<FALSE>> => s # <<>> /\ ~Last(s)
      BY DEF Last
    <3> QED BY <3>1, <3>2
  <2>4. Line.arg.macro = t[2].arg /\ Line.arg.want = FALSE
    BY <2>1
  <2>5. Holds(Line.arg) <=> t[2].arg \notin defines
    <3>1. Holds(Line.arg) <=> ((t[2].arg \in defines) = FALSE)
      BY <2>4, Zenon DEF Holds
    <3>2. ((t[2].arg \in defines) = FALSE) <=> ~(t[2].arg \in defines)
      OBVIOUS
    <3> QED BY <3>1, <3>2, Zenon
  <2> QED BY <2>2, <2>3, <2>5 DEF Live, Truth, GuardOf, t
<1>7. ASSUME n = 1
      PROVE  Kind = "define" /\ Line.arg = GuardOf(p) /\ ~Dropped
  <2>1. Line.kind = "define" /\ Line.comment = "none" /\ Line.arg = t[2].arg
    BY <1>4, <1>5, <1>7
  <2> QED BY <1>3, <1>7, <2>1 DEF Kind, Dropped, GuardOf, t
<1>8. ASSUME n > 0, n + 1 < Len(t) PROVE Kind \notin {"if", "elif", "else", "endif"}
  <2>1. CASE n = 1
    BY <1>7, <2>1
  <2>2. CASE n # 1
    <3>1. n + 1 \in 3..(Len(t) - 1)
      BY <1>2, <1>8, <2>2
    <3>2. Line.kind \notin {"if", "elif", "else", "endif"}
      BY <1>4, <1>5, <3>1
    <3> QED BY <3>2 DEF Kind
  <2> QED BY <2>1, <2>2
<1>9. ASSUME n > 0
      PROVE  Len(Top.skip) = 2 /\ Last(Top.skip) = Top.skip[2] /\ Top.skip # <<>>
  <2>1. Len(Top.skip) = 2
    BY <1>3, <1>9
  <2>2. Top.skip # <<>>
    BY <2>1
  <2> QED BY <2>1, <2>2 DEF Last
<1>10. LinesOf(p) = Len(t)
  BY DEF LinesOf, t
<1> QED BY <1>2, <1>6, <1>7, <1>8, <1>9, <1>10 DEF n

\* Nobody undefines the macro of a guard, and one line alone may define it.
LEMMA GuardMacro ==
  ASSUME StateInv, NEW p, Guarded(p), NEW g, ReadsLine(g)
  PROVE  /\ GuardOf(p) \in defines => GuardOf(p) \in defines'
         /\ Kind \notin {"define", "undef"} => defines' = defines
<1>1. Reading
  BY DEF ReadsLine
<1>2. Kind = "undef" => Line.arg # GuardOf(p)
  <2> DEFINE f == Top.path
             i == Top.pos + 1
  <2>1. f \in DOMAIN program /\ i \in DOMAIN program[f]
    <3>1. Top \in FrameType
      BY <1>1, ReadFrames
    <3>2. Top.path \in DOMAIN program /\ Top.pos \in Nat /\ Len(program[Top.path]) \in Nat
      BY <3>1, PreprocessorAssumption DEF FrameType, StateInv
    <3>3. Top.pos < Len(program[Top.path])
      BY <1>1 DEF Reading
    <3> QED BY <3>2, <3>3
  <2>2. program[f][i].kind # "undef" \/ program[f][i].arg # program[p][2].arg
    <3> HIDE DEF f, i
    <3> QED BY <2>1 DEF Guarded
  <2>3. Kind = "undef" => Line.kind = "undef"
    BY DEF Kind
  <2> QED BY <2>2, <2>3 DEF Line, GuardOf
<1> QED BY <1>2 DEF ReadsLine, Live

-----------------------------------------------------------------------------

\* The innermost frame after the line.
LEMMA GuardTop ==
  ASSUME StateInv, NEW p \in DOMAIN program, Guarded(p), NEW P, P = Spellings(p),
         NEW g, ReadsLine(g), Top.path \in P,
         GuardOpen(P, frames, defines, LinesOf(p), GuardOf(p))
  PROVE  /\ g.path \in P /\ g.pos \in Nat /\ g.pos > 0 /\ g.pos = Top.pos + 1
         /\ g.pos < LinesOf(p) => Len(g.skip) = 2
         /\ g.pos = 1 => ~g.inComment /\ Kind = "if" /\ defines' = defines
         /\ Within(P, g, LinesOf(p)) =>
              IF g.pos = 1 THEN GuardOf(p) \notin defines'
              ELSE Within(P, Top, LinesOf(p)) /\ GuardOf(p) \in defines'
         /\ Live(Kind) /\ Top.pos > 0 => Within(P, Top, LinesOf(p)) /\ GuardOf(p) \in defines'
<1>1. Reading /\ g.path \in P /\ g.pos = Top.pos + 1
  BY DEF ReadsLine
<1>2. /\ Top.pos \in Nat /\ Top.pos < LinesOf(p) /\ LinesOf(p) \in Nat
      /\ Top.pos = 0 => /\ Kind = "if" /\ Live("if") /\ Top.skip = <<FALSE>>
                        /\ ~Dropped
                        /\ Truth <=> GuardOf(p) \notin defines
      /\ Top.pos = 1 => Kind = "define" /\ Line.arg = GuardOf(p) /\ ~Dropped
      /\ Top.pos > 0 /\ Top.pos + 1 < LinesOf(p) => Kind \notin {"if", "elif", "else", "endif"}
      /\ Top.pos > 0 => Len(Top.skip) = 2 /\ Last(Top.skip) = Top.skip[2] /\ Top.skip # <<>>
  BY <1>1, GuardLine
<1>3. Len(frames) \in DOMAIN frames /\ Top = frames[Len(frames)]
  BY <1>1, ReadFrames
<1>4. ASSUME Within(P, Top, LinesOf(p)) PROVE GuardOf(p) \in defines'
  <2>1. Top.pos = 1 \/ GuardOf(p) \in defines
    BY <1>3, <1>4 DEF GuardOpen
  <2>2. CASE Top.pos = 1
    <3>1. Live("define")
      BY <1>1, <1>2, <1>4, <2>2 DEF Live, Within
    <3> QED BY <1>2, <2>2, <3>1 DEF ReadsLine
  <2>3. CASE GuardOf(p) \in defines
    BY <2>3, GuardMacro
  <2> QED BY <2>1, <2>2, <2>3
<1>5. CASE Top.pos = 0
  <2>1. g.skip = Append(<<FALSE>>, ~Truth)
    BY <1>2, <1>5 DEF ReadsLine
  <2>2. Truth \in BOOLEAN
    BY <1>1, ReadFacts
  <2>3. Len(g.skip) = 2 /\ g.skip[2] = ~Truth
    BY <2>1, <2>2
  <2>4. ~g.inComment /\ defines' = defines
    BY <1>2, <1>5, GuardMacro DEF ReadsLine
  <2>5. ~g.skip[2] => GuardOf(p) \notin defines
    BY <1>2, <1>5, <2>3
  <2> QED BY <1>1, <1>2, <1>5, <2>3, <2>4, <2>5 DEF Within
<1>6. CASE Top.pos > 0
  <2>1. g.pos < LinesOf(p) => g.skip = Top.skip
    BY <1>1, <1>2, <1>6 DEF ReadsLine
  <2>2. g.pos > 1
    BY <1>1, <1>2, <1>6
  <2>3. Within(P, g, LinesOf(p)) => Within(P, Top, LinesOf(p))
    BY <1>2, <1>6, <2>1 DEF Within
  <2>4. Live(Kind) => Within(P, Top, LinesOf(p))
    BY <1>2, <1>6 DEF Live, Within
  <2> QED BY <1>1, <1>2, <1>4, <1>6, <2>1, <2>2, <2>3, <2>4
<1> QED BY <1>2, <1>5, <1>6

LEMMA GuardReadOpen ==
  ASSUME StateInv, NEW p \in DOMAIN program, Guarded(p), NEW P, P = Spellings(p),
         NEW g, ReadsLine(g),
         GuardOpen(P, frames, defines, LinesOf(p), GuardOf(p))
  PROVE  /\ GuardOpen(P, SetTop(g), defines', LinesOf(p), GuardOf(p))
         /\ \A i \in DOMAIN SetTop(g) : Within(P, SetTop(g)[i], LinesOf(p)) =>
              \/ i = Len(frames) /\ Top.path \in P /\ g.pos = 1
              \/ i \in DOMAIN frames /\ Within(P, frames[i], LinesOf(p))
         /\ Kind \in {"include", "include_next"} =>
              \A i \in DOMAIN SetTop(g) : Within(P, SetTop(g)[i], LinesOf(p)) => SetTop(g)[i].pos # 1
<1> DEFINE n == Len(frames)
           fs == SetTop(g)
           len == LinesOf(p)
           guard == GuardOf(p)
<1>1. Reading /\ g.path = Top.path
  BY DEF ReadsLine
<1>2. /\ n \in Nat /\ n > 0 /\ DOMAIN frames = 1 .. n /\ Top = frames[n]
      /\ DOMAIN fs = 1 .. n /\ Len(fs) = n /\ fs[n] = g
      /\ \A i \in 1 .. n : i # n => i < n /\ fs[i] = frames[i]
  BY <1>1, ReadFrames
<1>3. guard \in defines => guard \in defines'
  BY GuardMacro
<1>4. ASSUME Top.path \in P
      PROVE  /\ g.path \in P /\ g.pos \in Nat /\ g.pos > 0 /\ g.pos = Top.pos + 1
             /\ g.pos < len => Len(g.skip) = 2
             /\ g.pos = 1 => ~g.inComment /\ Kind = "if" /\ defines' = defines
             /\ Within(P, g, len) =>
                  IF g.pos = 1 THEN guard \notin defines'
                  ELSE Within(P, Top, len) /\ guard \in defines'
  BY <1>4, GuardTop
<1> HIDE DEF n, fs, len, guard
<1>0. GuardOpen(P, frames, defines, len, guard) /\ Len(frames) = n
  BY DEF len, guard, n
<1>5. ASSUME NEW i \in DOMAIN fs, i # n, Within(P, fs[i], len)
      PROVE  /\ i \in DOMAIN frames /\ Within(P, frames[i], len)
             /\ fs[i] = frames[i] /\ frames[i].pos # 1 /\ guard \in defines
  <2>1. i \in DOMAIN frames /\ fs[i] = frames[i]
    BY <1>2, <1>5
  <2>2. IF frames[i].pos = 1 THEN i = Len(frames) /\ guard \notin defines ELSE guard \in defines
    BY <1>0, <1>5, <2>1 DEF GuardOpen
  <2> QED BY <1>0, <1>5, <2>1, <2>2
<1>6. ASSUME NEW i \in DOMAIN fs, Within(P, fs[i], len)
      PROVE  \/ i = n /\ Top.path \in P /\ g.pos = 1 /\ guard \notin defines' /\ defines' = defines
                /\ Kind = "if"
             \/ i \in DOMAIN frames /\ Within(P, frames[i], len) /\ guard \in defines'
                /\ fs[i].pos # 1
  <2>1. CASE i = n
    <3>1. Within(P, g, len) /\ Top.path \in P
      BY <1>1, <1>2, <1>6, <2>1 DEF Within
    <3>2. CASE g.pos = 1
      BY <1>4, <2>1, <3>1, <3>2
    <3>3. CASE g.pos # 1
      <4>1. Within(P, Top, len) /\ guard \in defines'
        BY <1>4, <3>1, <3>3
      <4> QED BY <1>2, <2>1, <3>3, <4>1
    <3> QED BY <3>2, <3>3
  <2>2. CASE i # n
    BY <1>3, <1>5, <1>6, <2>2
  <2> QED BY <2>1, <2>2
<1>7. ASSUME NEW i \in DOMAIN fs, fs[i].path \in P
      PROVE  /\ fs[i].pos = 0 => fs[i].skip = <<FALSE>> /\ ~fs[i].inComment
             /\ fs[i].pos > 0 /\ fs[i].pos < len => /\ Len(fs[i].skip) = 2
                                                    /\ fs[i].pos = 1 => ~fs[i].inComment
  <2>1. CASE i = n
    <3>1. fs[i] = g /\ Top.path \in P
      BY <1>1, <1>2, <1>7, <2>1
    <3>2. g.pos # 0
      BY <1>4, <3>1
    <3> QED BY <1>4, <3>1, <3>2
  <2>2. CASE i # n
    <3>1. i \in DOMAIN frames /\ fs[i] = frames[i]
      BY <1>2, <1>7, <2>2
    <3> QED BY <1>0, <1>7, <3>1 DEF GuardOpen
  <2> QED BY <2>1, <2>2
<1>8. ASSUME NEW i \in DOMAIN fs, NEW j \in DOMAIN fs, Within(P, fs[i], len), Within(P, fs[j], len)
      PROVE  i = j
  <2>1. CASE /\ i \in DOMAIN frames /\ Within(P, frames[i], len)
             /\ j \in DOMAIN frames /\ Within(P, frames[j], len)
    BY <1>0, <2>1 DEF GuardOpen
  <2> QED BY <1>6, <1>8, <2>1
<1>9. ASSUME NEW i \in DOMAIN fs, Within(P, fs[i], len)
      PROVE  IF fs[i].pos = 1 THEN i = Len(fs) /\ guard \notin defines' ELSE guard \in defines'
  BY <1>2, <1>6, <1>9
<1>10. GuardOpen(P, fs, defines', len, guard)
  BY <1>7, <1>8, <1>9 DEF GuardOpen
<1>11. ASSUME Kind \in {"include", "include_next"}, NEW i \in DOMAIN fs, Within(P, fs[i], len)
       PROVE  fs[i].pos # 1
  BY <1>6, <1>11
<1> QED BY <1>6, <1>10, <1>11 DEF fs, len, guard, n

LEMMA GuardReadOut ==
  ASSUME StateInv, NEW p \in DOMAIN program, Guarded(p), NEW P, P = Spellings(p),
         NEW g, ReadsLine(g),
         GuardOpen(P, frames, defines, LinesOf(p), GuardOf(p)),
         GuardOut(P, frames, out, defines, LinesOf(p), GuardOf(p))
  PROVE  GuardOut(P, SetTop(g), out', defines', LinesOf(p), GuardOf(p))
<1> DEFINE n == Len(frames)
           fs == SetTop(g)
           len == LinesOf(p)
           guard == GuardOf(p)
<1>1. Reading /\ g.path = Top.path /\ g.pos = Top.pos + 1 /\ Top.pos \in Nat
  BY ReadMap DEF ReadsLine
<1>2. /\ n \in Nat /\ n > 0 /\ DOMAIN frames = 1 .. n /\ Top = frames[n]
      /\ DOMAIN fs = 1 .. n /\ Len(fs) = n /\ fs[n] = g
      /\ \A i \in 1 .. n : i # n => i < n /\ fs[i] = frames[i]
  BY <1>1, ReadFrames
<1>3. guard \in defines => guard \in defines'
  BY GuardMacro
<1>4. ASSUME Top.path \in P
      PROVE  /\ g.pos = 1 => Kind = "if" /\ defines' = defines
             /\ Within(P, g, len) /\ g.pos = 1 => guard \notin defines'
             /\ Live(Kind) /\ Top.pos > 0 => Within(P, Top, len) /\ guard \in defines'
  BY <1>4, GuardTop
<1>5. \A i \in DOMAIN fs : Within(P, fs[i], len) =>
              \/ i = Len(frames) /\ Top.path \in P /\ g.pos = 1
              \/ i \in DOMAIN frames /\ Within(P, frames[i], len)
  BY GuardReadOpen
<1>0. /\ GuardOut(P, frames, out, defines, len, guard)
      /\ \A i, j \in DOMAIN frames :
            Within(P, frames[i], len) /\ Within(P, frames[j], len) => i = j
      /\ Len(frames) = n
  BY DEF GuardOpen
<1> HIDE DEF n, fs, len, guard
<1>6. ASSUME NEW k \in DOMAIN out', Body(out'[k], P) PROVE guard \in defines'
  <2>1. CASE k \in DOMAIN out /\ out'[k] = out[k]
    BY <1>0, <1>3, <1>6, <2>1 DEF GuardOut
  <2>2. CASE out'[k].at[1] = Top.path /\ out'[k].at[2] = Top.pos + 1 /\ Live(Kind)
    BY <1>1, <1>4, <1>6, <2>2 DEF Body
  <2> QED BY <2>1, <2>2, ReadMap
<1>7. InOrder(P, out')
  <2>1. Top.path \in P /\ Top.pos > 0 /\ Live(Kind) => Behind(P, out, Top.pos)
    BY <1>0, <1>2, <1>4 DEF GuardOut
  <2>2. InOrder(P, out)
    BY <1>0 DEF GuardOut
  <2> QED BY <2>1, <2>2, OrderKept
<1>8. ASSUME NEW i \in DOMAIN fs, Within(P, fs[i], len) PROVE Behind(P, out', fs[i].pos)
  <2>1. CASE i = n /\ Top.path \in P /\ g.pos = 1
    <3>1. guard \notin defines'
      BY <1>2, <1>4, <1>8, <2>1
    <3> QED BY <1>6, <3>1 DEF Behind
  <2>2. CASE i \in DOMAIN frames /\ Within(P, frames[i], len)
    <3>1. Behind(P, out, frames[i].pos)
      BY <1>0, <2>2 DEF GuardOut
    <3>2. CASE i = n
      BY <1>1, <1>2, <3>1, <3>2, BehindKept
    <3>3. CASE i # n
      <4>1. frames[i].pos \in Nat /\ fs[i] = frames[i]
        <5>1. frames[i] \in FrameType
          BY <2>2 DEF StateInv
        <5> QED BY <1>2, <2>2, <3>3, <5>1 DEF FrameType
      <4>2. Top.path \notin P \/ ~Live(Kind) \/ Top.pos = 0
        <5>1. ~Within(P, Top, len)
          <6>1. n \in DOMAIN frames
            BY <1>2
          <6> QED BY <1>0, <1>2, <2>2, <3>3, <6>1
        <5> QED BY <1>1, <1>4, <5>1
      <4>3. CASE Top.path \in P /\ Top.pos = 0
        BY <1>1, <1>0, <2>2, <3>1, <4>1, <4>3, ReadMap DEF Behind, Body
      <4> QED BY <3>1, <4>1, <4>2, <4>3, BehindKept
    <3> QED BY <3>2, <3>3
  <2> QED BY <1>0, <1>5, <1>8, <2>1, <2>2
<1>9. ASSUME NEW k \in DOMAIN out', out'[k].what = "text", out'[k].at[1] \in P
      PROVE  out'[k].at[2] > 1
  <2>1. CASE k \in DOMAIN out /\ out'[k] = out[k]
    BY <1>0, <1>9, <2>1 DEF GuardOut, FirstIsNoText
  <2>2. CASE /\ out'[k].at[1] = Top.path /\ out'[k].at[2] = Top.pos + 1
             /\ out'[k].what = "text" => Kind = "text"
    <3>1. Top.path \in P /\ Kind = "text"
      BY <1>9, <2>2
    <3>2. Top.pos # 0
      BY <1>1, <1>4, <3>1
    <3> QED BY <1>1, <2>2, <3>2
  <2> QED BY <2>1, <2>2, ReadMap
<1> QED BY <1>6, <1>7, <1>8, <1>9 DEF GuardOut, FirstIsNoText, fs, len, guard

-----------------------------------------------------------------------------

\* A file is opened: its frame is in front of its first line.
LEMMA GuardEnter ==
  ASSUME NEW P, NEW fs, NEW map, NEW macros, NEW len, NEW guard, NEW f, NEW n \in Nat,
         DOMAIN fs = 1 .. n, Len(fs) = n,
         \A i \in DOMAIN fs : Within(P, fs[i], len) => fs[i].pos # 1,
         f.pos = 0, f.skip = <<FALSE>>, ~f.inComment,
         GuardOpen(P, fs, macros, len, guard), GuardOut(P, fs, map, macros, len, guard),
         NEW gs, DOMAIN gs = 1 .. n + 1, gs[n + 1] = f,
         \A i \in 1 .. n : gs[i] = fs[i]
  PROVE  GuardOpen(P, gs, macros, len, guard) /\ GuardOut(P, gs, map, macros, len, guard)
<1>1. \A i \in DOMAIN gs : i # n + 1 => i \in DOMAIN fs /\ gs[i] = fs[i]
  OBVIOUS
<1>2. ASSUME NEW i \in DOMAIN gs, Within(P, gs[i], len)
      PROVE  i \in DOMAIN fs /\ gs[i] = fs[i] /\ fs[i].pos # 1
  <2>1. i # n + 1
    BY <1>2 DEF Within
  <2> QED BY <1>1, <1>2, <2>1
<1>3. ASSUME NEW i \in DOMAIN gs, gs[i].path \in P
      PROVE  /\ gs[i].pos = 0 => gs[i].skip = <<FALSE>> /\ ~gs[i].inComment
             /\ gs[i].pos > 0 /\ gs[i].pos < len => /\ Len(gs[i].skip) = 2
                                                    /\ gs[i].pos = 1 => ~gs[i].inComment
  <2>1. CASE i = n + 1
    <3>1. ~(f.pos > 0) /\ gs[i] = f
      BY <2>1
    <3> QED BY <3>1, Zenon
  <2>2. CASE i # n + 1
    <3>1. i \in DOMAIN fs /\ gs[i] = fs[i]
      BY <1>1, <1>3, <2>2
    <3> QED BY <1>3, <3>1 DEF GuardOpen
  <2> QED BY <2>1, <2>2
<1>4. GuardOpen(P, gs, macros, len, guard)
  <2>1. ASSUME NEW i \in DOMAIN gs, NEW j \in DOMAIN gs, Within(P, gs[i], len), Within(P, gs[j], len)
        PROVE  i = j
    BY <1>2, <2>1 DEF GuardOpen
  <2>2. ASSUME NEW i \in DOMAIN gs, Within(P, gs[i], len)
        PROVE  IF gs[i].pos = 1 THEN i = Len(gs) /\ guard \notin macros ELSE guard \in macros
    BY <1>2, <2>2 DEF GuardOpen
  <2> QED BY <1>3, <2>1, <2>2 DEF GuardOpen
<1>5. GuardOut(P, gs, map, macros, len, guard)
  BY <1>2 DEF GuardOut
<1> QED BY <1>4, <1>5

LEMMA GuardLeave ==
  ASSUME NEW P, NEW fs, NEW map, NEW macros, NEW len, NEW guard, NEW n \in Nat,
         DOMAIN fs = 1 .. n, Len(fs) = n,
         GuardOpen(P, fs, macros, len, guard), GuardOut(P, fs, map, macros, len, guard),
         NEW gs, DOMAIN gs = 1 .. n - 1, \A i \in 1 .. n - 1 : gs[i] = fs[i]
  PROVE  GuardOpen(P, gs, macros, len, guard) /\ GuardOut(P, gs, map, macros, len, guard)
<1>1. \A i \in DOMAIN gs : i \in DOMAIN fs /\ gs[i] = fs[i] /\ i # Len(fs)
  OBVIOUS
<1>2. GuardOpen(P, gs, macros, len, guard)
  <2>1. ASSUME NEW i \in DOMAIN gs, gs[i].path \in P
        PROVE  /\ gs[i].pos = 0 => gs[i].skip = <<FALSE>> /\ ~gs[i].inComment
               /\ gs[i].pos > 0 /\ gs[i].pos < len => /\ Len(gs[i].skip) = 2
                                                      /\ gs[i].pos = 1 => ~gs[i].inComment
    BY <1>1, <2>1, Zenon DEF GuardOpen
  <2>2. ASSUME NEW i \in DOMAIN gs, NEW j \in DOMAIN gs, Within(P, gs[i], len), Within(P, gs[j], len)
        PROVE  i = j
    BY <1>1, <2>2 DEF GuardOpen
  <2>3. ASSUME NEW i \in DOMAIN gs, Within(P, gs[i], len)
        PROVE  IF gs[i].pos = 1 THEN i = Len(gs) /\ guard \notin macros ELSE guard \in macros
    BY <1>1, <2>3 DEF GuardOpen
  <2> QED BY <2>1, <2>2, <2>3 DEF GuardOpen
<1>3. GuardOut(P, gs, map, macros, len, guard)
  BY <1>1 DEF GuardOut
<1> QED BY <1>2, <1>3

LEMMA GuardNext == IInv /\ GuardInv /\ [Next]_vars => GuardInv'
<1> SUFFICES ASSUME IInv, GuardInv, [Next]_vars, NEW p \in DOMAIN program', Guarded(p)'
             PROVE  /\ GuardOpen(Spellings(p)', frames', defines', LinesOf(p)', GuardOf(p)')
                    /\ GuardOut(Spellings(p)', frames', out', defines', LinesOf(p)', GuardOf(p)')
  BY DEF GuardInv
<1> DEFINE len == LinesOf(p)
           guard == GuardOf(p)
           P == Spellings(p)
<1>1. /\ program' = program
      /\ \/ Stays
         \/ \E g : ReadsLine(g) /\ frames' = SetTop(g)
         \/ \E path, g : Enters(path, g)
         \/ Leaves
  BY Steps
<1>2. /\ StateInv /\ p \in DOMAIN program /\ Guarded(p)
      /\ GuardOpen(P, frames, defines, len, guard) /\ GuardOut(P, frames, out, defines, len, guard)
  <2>1. Guarded(p)
    BY <1>1 DEF Guarded
  <2> QED BY <1>1, <2>1 DEF GuardInv, IInv
<1> SUFFICES /\ GuardOpen(P, frames', defines', len, guard)
             /\ GuardOut(P, frames', out', defines', len, guard)
  BY <1>1 DEF LinesOf, GuardOf, Spellings
<1>3. CASE Stays
  <2> HIDE DEF len, guard, P
  <2> QED BY <1>2, <1>3 DEF Stays
<1>4. ASSUME NEW g, ReadsLine(g)
      PROVE  /\ GuardOpen(P, SetTop(g), defines', len, guard)
             /\ GuardOut(P, SetTop(g), out', defines', len, guard)
             /\ Kind \in {"include", "include_next"} =>
                  \A i \in DOMAIN SetTop(g) : Within(P, SetTop(g)[i], len) => SetTop(g)[i].pos # 1
  <2>1. /\ GuardOpen(P, SetTop(g), defines', LinesOf(p), GuardOf(p))
        /\ Kind \in {"include", "include_next"} =>
              \A i \in DOMAIN SetTop(g) : Within(P, SetTop(g)[i], LinesOf(p)) => SetTop(g)[i].pos # 1
    BY <1>2, <1>4, GuardReadOpen
  <2>2. GuardOut(P, SetTop(g), out', defines', LinesOf(p), GuardOf(p))
    BY <1>2, <1>4, GuardReadOut
  <2> QED BY <2>1, <2>2
<1> HIDE DEF len, guard, P
<1>5. ASSUME NEW path, NEW g, Enters(path, g)
      PROVE  /\ GuardOpen(P, frames', defines', len, guard)
             /\ GuardOut(P, frames', out', defines', len, guard)
  <2> DEFINE n == Len(frames)
             fs == SetTop(g)
             f == Frame(path, cur, curParent)
             gs == Append(fs, f)
  <2>1. ReadsLine(g) /\ Kind \in {"include", "include_next"} /\ frames' = gs /\ Reading
    BY <1>5 DEF Enters, ReadsLine
  <2>2. /\ GuardOpen(P, fs, defines', len, guard) /\ GuardOut(P, fs, out', defines', len, guard)
        /\ \A i \in DOMAIN fs : Within(P, fs[i], len) => fs[i].pos # 1
    BY <1>4, <2>1
  <2>4. n \in Nat /\ DOMAIN fs = 1 .. n /\ Len(fs) = n
    <3>1. /\ Len(frames) \in Nat /\ DOMAIN frames = 1 .. Len(frames)
          /\ DOMAIN SetTop(g) = DOMAIN frames /\ Len(SetTop(g)) = Len(frames)
      BY <1>2, <2>1, ReadFrames
    <3> QED BY <3>1
  <2>5. f.pos = 0 /\ f.skip = <<FALSE>> /\ ~f.inComment
    BY DEF Frame
  <2>6. DOMAIN gs = 1 .. n + 1 /\ gs[n + 1] = f /\ \A i \in 1 .. n : gs[i] = fs[i]
    <3> HIDE DEF fs, f, n
    <3> QED BY <2>4 DEF gs
  <2> HIDE DEF gs, fs, f, n
  <2>8. GuardOpen(P, gs, defines', len, guard) /\ GuardOut(P, gs, out', defines', len, guard)
    BY <2>2, <2>4, <2>5, <2>6, GuardEnter, ZenonT(30)
  <2> QED BY <2>1, <2>8
<1>6. CASE Leaves
  <2> DEFINE n == Len(frames)
  <2>1. frames # <<>> /\ frames' = Front(frames) /\ UNCHANGED <<out, defines>>
    BY <1>6 DEF Leaves, Return
  <2>2. n \in Nat /\ DOMAIN frames = 1 .. n
    BY <1>2 DEF StateInv
  <2>3. DOMAIN frames' = 1 .. n - 1 /\ \A i \in 1 .. n - 1 : frames'[i] = frames[i]
    <3>1. Front(frames) \in Seq(FrameType) /\ Len(Front(frames)) = Len(frames) - 1
          /\ \A i \in 1 .. Len(frames) - 1 : Front(frames)[i] = frames[i]
      BY <1>2, <2>1, TopFacts
    <3>2. DOMAIN Front(frames) = 1 .. Len(Front(frames))
      BY <3>1
    <3> QED BY <2>1, <3>1, <3>2
  <2>4. Len(frames) = n
    OBVIOUS
  <2> HIDE DEF n
  <2>5. GuardOpen(P, frames', defines, len, guard) /\ GuardOut(P, frames', out, defines, len, guard)
    BY <1>2, <2>2, <2>3, <2>4, GuardLeave
  <2> QED BY <2>1, <2>5
<1> QED BY <1>1, <1>3, <1>4, <1>5, <1>6

LEMMA GuardInit == Init => GuardInv
<1> SUFFICES ASSUME Init, NEW p \in DOMAIN program, Guarded(p), NEW P
             PROVE  /\ GuardOpen(P, frames, defines, LinesOf(p), GuardOf(p))
                    /\ GuardOut(P, frames, out, defines, LinesOf(p), GuardOf(p))
  BY DEF GuardInv
<1> DEFINE f == Frame(Main, Main, 0)
<1>1. f.pos = 0 /\ f.skip = <<FALSE>> /\ ~f.inComment
  BY DEF Frame
<1>2. frames = <<f>> /\ out = <<>>
  BY DEF Init
<1> HIDE DEF f
<1>3. DOMAIN frames = {1} /\ frames[1] = f /\ DOMAIN out = {}
  BY <1>2
<1>4. ~Within(P, f, LinesOf(p))
  BY <1>1 DEF Within
<1>5. GuardOpen(P, frames, defines, LinesOf(p), GuardOf(p))
  <2>1. ASSUME NEW i \in DOMAIN frames PROVE frames[i] = f /\ ~Within(P, frames[i], LinesOf(p))
    BY <1>3, <1>4, <2>1
  <2>2. ~(f.pos > 0)
    BY <1>1
  <2>3. ASSUME NEW i \in DOMAIN frames
        PROVE  /\ frames[i].pos = 0 => frames[i].skip = <<FALSE>> /\ ~frames[i].inComment
               /\ frames[i].pos > 0 /\ frames[i].pos < LinesOf(p) =>
                     /\ Len(frames[i].skip) = 2
                     /\ frames[i].pos = 1 => ~frames[i].inComment
    BY <1>1, <2>1, <2>2, Zenon
  <2> QED BY <2>1, <2>3, Zenon DEF GuardOpen
<1>6. GuardOut(P, frames, out, defines, LinesOf(p), GuardOf(p))
  BY <1>3, <1>4 DEF GuardOut, InOrder, Behind, FirstIsNoText
<1> QED BY <1>5, <1>6

\* A header with an include guard leaves each of its lines once, along whatever chain of inclusions
\* and under whatever spellings of its path it is reached; one with #pragma once does so for each
\* spelling, the reader knowing it by that.  Whichever inclusion comes first keeps the others out,
\* and a header that is still open is kept out of itself.
THEOREM ReaderOnceContentOnce == Spec => []OnceContentOnce
<1>1. IInv /\ OnceInv /\ GuardInv => OnceContentOnce
  <2> SUFFICES ASSUME IInv, OnceInv, GuardInv, NEW i \in DOMAIN out, NEW j \in DOMAIN out,
                      out[i].what = "text", out[i].at[2] = out[j].at[2],
                      \/ File(out[i].at[1]) = File(out[j].at[1]) /\ Guarded(out[i].at[1])
                      \/ out[i].at[1] = out[j].at[1] /\ Once(out[i].at[1])
               PROVE  i = j
    BY DEF OnceContentOnce
  <2> DEFINE p == out[i].at[1]
             q == out[j].at[1]
             P == IF Once(p) /\ p = q THEN {p} ELSE Spellings(p)
  <2>1. DOMAIN out \subseteq Nat /\ p \in DOMAIN program /\ q \in DOMAIN program /\ out[i].at[2] \in Nat
    <3>1. out \in Seq(OutType)
      BY DEF IInv, StateInv, OutType
    <3>2. out[i] \in OutType /\ out[j] \in OutType
      BY <3>1
    <3>3. DOMAIN out \subseteq Nat
      BY <3>1
    <3>4. \A x \in (DOMAIN program) \X Nat : x[1] \in DOMAIN program /\ x[2] \in Nat
      OBVIOUS
    <3>5. out[i].at \in (DOMAIN program) \X Nat /\ out[j].at \in (DOMAIN program) \X Nat
      BY <3>2 DEF OutType
    <3> QED BY <3>3, <3>4, <3>5
  <2>2. InOrder(P, out) /\ FirstIsNoText(P, out)
    <3>1. CASE Once(p) /\ p = q
      BY <2>1, <3>1 DEF OnceInv, OnceOut
    <3>2. CASE ~(Once(p) /\ p = q)
      BY <2>1, <3>2 DEF GuardInv, GuardOut
    <3> QED BY <3>1, <3>2
  <2>5. p \in P /\ q \in P
    BY <2>1 DEF Spellings
  <2> HIDE DEF P
  <2>3. Body(out[i], P) /\ Body(out[j], P)
    BY <2>2, <2>5 DEF FirstIsNoText, Body
  <2>4. ~(i < j) /\ ~(j < i)
    BY <2>1, <2>2, <2>3 DEF InOrder
  <2> QED BY <2>1, <2>4
<1>2. Init => IInv /\ OnceInv /\ GuardInv
  BY InitIInv, OnceInit, GuardInit
<1>3. IInv /\ OnceInv /\ GuardInv /\ [Next]_vars => (IInv /\ OnceInv /\ GuardInv)'
  BY NextIInv, OnceNext, GuardNext
<1> QED BY <1>1, <1>2, <1>3, PTL DEF Spec
=============================================================================

---------------------- MODULE OverloadResolution_proofs ----------------------
(***************************************************************************)
(* For every program, call and order of declarations: the selection types,  *)
(* picks the best viable function where there is one, and picks nothing     *)
(* else where beating is transitive.                                        *)
(*                                                                         *)
(* The argument is that Beats is asymmetric.  So the scan can neither       *)
(* displace a function that beats all others nor leave one tied with it;    *)
(* and what the scan dropped was beaten by a best that only better ones     *)
(* have displaced since.  And a function that alone is beaten by none beats *)
(* the others, because each of them is beaten by one that none beats.       *)
(***************************************************************************)
EXTENDS OverloadResolution, FiniteSetTheorems, WellFoundedInduction, TLAPS

USE DEF Candidates, Pending, NotFound, Ambiguous, Selected

\* Beats is asymmetric, because a preferred constructor is preferred to an equal one only.
LEMMA BeatsAsymmetric ==
  ASSUME NEW a, NEW b, Beats(a, b)
  PROVE  ~Beats(b, a)
<1> DEFINE f == overloads[a]
           g == overloads[b]
<1>1. CASE Better(a, b) /\ ~Better(b, a)
  BY <1>1, Zenon DEF Beats
<1>2. CASE ~Better(a, b) /\ ~Better(b, a) /\ PreferredConstructor(f, g)
  <2>1. ~PreferredConstructor(g, f)
    <3>1. <<f, g>> \in MoreSpecialized => <<g, f>> \notin MoreSpecialized
      <4> SUFFICES ASSUME <<f, g>> \in MoreSpecialized
                   PROVE  <<g, f>> \notin MoreSpecialized
        OBVIOUS
      <4> DEFINE p == <<f, g>>
      <4>1. <<p[2], p[1]>> \notin MoreSpecialized
        BY OverloadsAssumption
      <4> QED
        BY <4>1
    <3> HIDE DEF f, g
    <3> QED
      BY <1>2, <3>1 DEF PreferredConstructor
  <2> QED
    BY <1>2, <2>1, Zenon DEF Beats
<1> QED
  BY <1>1, <1>2, Zenon DEF Beats

\* The overload sets are sequences.
LEMMA OverloadsAreSequences ==
  ASSUME overloads \in OverloadSets
  PROVE  Len(overloads) \in Nat
BY OverloadsAssumption

(***************************************************************************)
(* The inductive invariant.                                                 *)
(***************************************************************************)
Dropped(i) == i < position /\ i \in ViableCandidates /\ i \notin tied

\* A function that beats all the others is alone in front once it was examined.
WinnerLeads ==
  \A i \in Candidates : i < position /\ BeatsTheRest(i) => best = i /\ tied = {i}

\* Under transitivity, the best beats all that was dropped.
DroppedAreBeaten ==
  Ordered /\ kind # "member" => \A i \in Candidates : Dropped(i) => Beats(best, i)

Started == best = 0 => \A i \in Candidates : i < position => ~Viable(i)

\* What the outcome says of the state it was reached in.
OutcomeRight ==
  /\ BestIsChosen
  /\ OrderedChoiceBeatsTheRest

IInv == TypeOK /\ Started /\ WinnerLeads /\ DroppedAreBeaten /\ OutcomeRight

LEMMA InitIInv == Init => IInv
<1> SUFFICES ASSUME Init PROVE IInv
  OBVIOUS
<1> USE DEF Init
<1>1. Len(overloads) \in Nat
  BY OverloadsAreSequences
<1>2. TypeOK
  BY <1>1 DEF TypeOK
<1>3. \A i \in Candidates : ~(i < position)
  BY <1>1
<1>4. Started /\ WinnerLeads /\ DroppedAreBeaten
  BY <1>3 DEF Started, WinnerLeads, DroppedAreBeaten, Dropped
<1>5. OutcomeRight
  BY DEF OutcomeRight, BestIsChosen, OrderedChoiceBeatsTheRest
<1> QED
  BY <1>2, <1>4, <1>5 DEF IInv

\* What depends on the call and its functions alone does not change.
LEMMA CallStays ==
  ASSUME UNCHANGED <<kind, call, overloads>>
  PROVE  /\ \A i : Viable(i)' <=> Viable(i)
         /\ \A i, j : Beats(i, j)' <=> Beats(i, j)
         /\ ViableCandidates' = ViableCandidates
         /\ Undominated' = Undominated
         /\ \A i : BeatsTheRest(i)' <=> BeatsTheRest(i)
         /\ Ordered' <=> Ordered
<1>1. \A i : Viable(i)' <=> Viable(i)
  BY DEF Viable, TakesObject, TakesCount, Arguments, Rank
<1>2. \A i, j : Beats(i, j)' <=> Beats(i, j)
  BY DEF Beats, Better, ConversionOf, Rank, Arguments
<1>3. ViableCandidates' = ViableCandidates
  BY <1>1 DEF ViableCandidates
<1> QED
  BY <1>1, <1>2, <1>3, Zenon DEF Undominated, BeatsTheRest, Ordered

LEMMA ExaminesStep ==
  ASSUME IInv, NEW i \in Candidates, Examines(i)
  PROVE  /\ UNCHANGED <<kind, call, overloads, outcome>>
         /\ kind # "member"
         /\ i = position /\ position' = position + 1
         /\ position \in Nat /\ Len(overloads) \in Nat
         /\ i \in 1 .. Len(overloads)
         /\ OutcomeRight'
<1>1. OutcomeRight
  BY DEF IInv
<1>2. UNCHANGED <<kind, call, overloads, outcome>>
  BY DEF Examines
<1>3. BestIsChosen'
  BY <1>1, <1>2, CallStays DEF OutcomeRight, BestIsChosen
<1>4. OrderedChoiceBeatsTheRest <=> OrderedChoiceBeatsTheRest'
  BY <1>2, CallStays DEF OrderedChoiceBeatsTheRest
<1>5. Len(overloads) \in Nat
  BY OverloadsAreSequences DEF IInv, TypeOK
<1> QED
  BY <1>1, <1>2, <1>3, <1>4, <1>5 DEF Examines, OutcomeRight

(***************************************************************************)
(* Each branch of the scan.                                                 *)
(***************************************************************************)
LEMMA RejectStep ==
  ASSUME IInv, NEW i \in Candidates, Reject(i)
  PROVE  IInv'
<1>1. /\ UNCHANGED <<kind, call, overloads, outcome>>
      /\ i = position /\ position' = position + 1
      /\ position \in Nat /\ Len(overloads) \in Nat
      /\ i \in 1 .. Len(overloads)
      /\ OutcomeRight'
  BY ExaminesStep DEF Reject
<1>2. UNCHANGED <<best, tied>> /\ ~Viable(i)
  BY DEF Reject
<1>3. \A j : j \in Candidates /\ j < position' => j < position \/ j = i
  BY <1>1
<1>4. TypeOK'
  <2>1. position' \in 1 .. Len(overloads') + 1
    BY <1>1
  <2>2. tied' \subseteq {j \in Candidates' : j < position' /\ Viable(j)'}
    BY <1>1, <1>2, CallStays DEF IInv, TypeOK
  <2> QED
    BY <1>1, <1>2, <2>1, <2>2, CallStays DEF IInv, TypeOK
<1>5. i \notin ViableCandidates
  BY <1>2 DEF ViableCandidates
<1>6. Started'
  BY <1>1, <1>2, <1>3, CallStays DEF IInv, Started
<1>7. WinnerLeads'
  BY <1>1, <1>2, <1>3, <1>5, CallStays DEF IInv, WinnerLeads, BeatsTheRest
<1>8. DroppedAreBeaten'
  BY <1>1, <1>2, <1>3, <1>5, CallStays DEF IInv, DroppedAreBeaten, Dropped
<1> QED
  BY <1>1, <1>4, <1>6, <1>7, <1>8 DEF IInv

LEMMA FirstStep ==
  ASSUME IInv, NEW i \in Candidates, First(i)
  PROVE  IInv'
<1>1. /\ UNCHANGED <<kind, call, overloads, outcome>>
      /\ i = position /\ position' = position + 1
      /\ position \in Nat /\ Len(overloads) \in Nat
      /\ i \in 1 .. Len(overloads)
      /\ OutcomeRight'
  BY ExaminesStep DEF First
<1>2. best = 0 /\ best' = i /\ tied' = {i} /\ Viable(i)
  BY DEF First
<1>3. \A j : j \in Candidates /\ j < position' => j < position \/ j = i
  BY <1>1
<1>4. \A j \in Candidates : j < position => j \notin ViableCandidates
  BY <1>2 DEF IInv, Started, ViableCandidates
<1>5. TypeOK'
  <2>1. position' \in 1 .. Len(overloads') + 1
    BY <1>1
  <2>2. tied' \subseteq {j \in Candidates' : j < position' /\ Viable(j)'}
    BY <1>1, <1>2, CallStays
  <2>3. best' # 0
    BY <1>1, <1>2
  <2> QED
    BY <1>1, <1>2, <2>1, <2>2, <2>3, CallStays DEF IInv, TypeOK
<1>6. Started'
  BY <1>1, <1>2 DEF Started
<1>7. WinnerLeads'
  BY <1>1, <1>2, <1>3, <1>4, CallStays DEF WinnerLeads, BeatsTheRest
<1>8. DroppedAreBeaten'
  BY <1>1, <1>2, <1>3, <1>4, CallStays DEF DroppedAreBeaten, Dropped
<1> QED
  BY <1>1, <1>5, <1>6, <1>7, <1>8 DEF IInv

LEMMA DisplaceStep ==
  ASSUME IInv, NEW i \in Candidates, Displace(i)
  PROVE  IInv'
<1>1. /\ UNCHANGED <<kind, call, overloads, outcome>>
      /\ i = position /\ position' = position + 1
      /\ position \in Nat /\ Len(overloads) \in Nat
      /\ i \in 1 .. Len(overloads)
      /\ OutcomeRight'
  BY ExaminesStep DEF Displace
<1>2. /\ best # 0 /\ Beats(i, best) /\ Viable(i)
      /\ best' = i /\ tied' = {i} \cup StillTied(i)
  BY DEF Displace
<1>3. \A j : j \in Candidates /\ j < position' => j < position \/ j = i
  BY <1>1
<1>4. best \in Candidates /\ best \in tied /\ best \in ViableCandidates /\ best # i
  BY <1>1, <1>2 DEF IInv, TypeOK, ViableCandidates
<1>5. tied \subseteq {j \in Candidates : j < position /\ Viable(j)}
  BY DEF IInv, TypeOK
<1>6. i \in ViableCandidates
  BY <1>2 DEF ViableCandidates
<1>7. TypeOK'
  <2>1. position' \in 1 .. Len(overloads') + 1
    BY <1>1
  <2>2. \A j \in Candidates : j < position => j < position'
    BY <1>1
  <2>3. \A j \in tied' : j \in Candidates /\ j < position' /\ Viable(j)
    <3> TAKE j \in tied'
    <3>1. CASE j = i
      BY <1>1, <1>2, <3>1
    <3>2. CASE j \in tied
      BY <1>5, <2>2, <3>2
    <3> QED
      BY <1>2, <3>1, <3>2 DEF StillTied
  <2>4. best' # 0 /\ best' \in Candidates' /\ best' \in tied'
    BY <1>1, <1>2
  <2>5. tied' \subseteq {j \in Candidates' : j < position' /\ Viable(j)'}
    BY <1>1, <2>3, CallStays
  <2> QED
    BY <1>1, <2>1, <2>4, <2>5, CallStays DEF IInv, TypeOK
<1>8. Started'
  BY <1>1, <1>2 DEF Started
<1>9. WinnerLeads'
  <2> SUFFICES ASSUME NEW w \in Candidates, w < position', BeatsTheRest(w)
               PROVE  best' = w /\ tied' = {w}
    BY <1>1, CallStays DEF WinnerLeads
  <2>1. CASE w = i
    <3>1. \A j \in tied : j \in ViableCandidates \ {i}
      BY <1>1, <1>5 DEF ViableCandidates
    <3>2. StillTied(i) = {}
      BY <2>1, <3>1 DEF StillTied, BeatsTheRest
    <3> QED
      BY <1>2, <2>1, <3>2
  <2>2. CASE w < position
    <3>1. best = w /\ Beats(w, i)
      BY <1>4, <1>6, <2>2 DEF IInv, WinnerLeads, BeatsTheRest
    <3> QED
      BY <1>2, <3>1, BeatsAsymmetric
  <2> QED
    BY <1>3, <2>1, <2>2
<1>10. DroppedAreBeaten'
  <2> SUFFICES ASSUME Ordered, kind # "member", NEW j \in Candidates, j < position',
                      j \in ViableCandidates, j \notin tied'
               PROVE  Beats(i, j)
    BY <1>1, <1>2, CallStays DEF DroppedAreBeaten, Dropped
  <2>1. j < position
    BY <1>2, <1>3
  <2>2. CASE j \in tied
    BY <1>2, <2>2 DEF StillTied
  <2>3. CASE j \notin tied
    <3>1. Beats(best, j)
      BY <2>1, <2>3 DEF IInv, DroppedAreBeaten, Dropped
    <3> QED
      BY <1>2, <1>4, <1>6, <3>1 DEF Ordered
  <2> QED
    BY <2>2, <2>3
<1> QED
  BY <1>1, <1>7, <1>8, <1>9, <1>10 DEF IInv

LEMMA DiscardStep ==
  ASSUME IInv, NEW i \in Candidates, Discard(i)
  PROVE  IInv'
<1>1. /\ UNCHANGED <<kind, call, overloads, outcome>>
      /\ i = position /\ position' = position + 1
      /\ position \in Nat /\ Len(overloads) \in Nat
      /\ i \in 1 .. Len(overloads)
      /\ OutcomeRight'
  BY ExaminesStep DEF Discard
<1>2. best # 0 /\ Beats(best, i) /\ UNCHANGED <<best, tied>>
  BY DEF Discard
<1>3. \A j : j \in Candidates /\ j < position' => j < position \/ j = i
  BY <1>1
<1>4. best \in ViableCandidates /\ best # i
  BY <1>1, <1>2 DEF IInv, TypeOK, ViableCandidates
<1>5. TypeOK'
  <2>1. position' \in 1 .. Len(overloads') + 1
    BY <1>1
  <2>2. tied' \subseteq {j \in Candidates' : j < position' /\ Viable(j)'}
    BY <1>1, <1>2, CallStays DEF IInv, TypeOK
  <2> QED
    BY <1>1, <1>2, <2>1, <2>2, CallStays DEF IInv, TypeOK
<1>6. Started'
  BY <1>1, <1>2 DEF Started
<1>7. ~BeatsTheRest(i)
  BY <1>2, <1>4, BeatsAsymmetric DEF BeatsTheRest
<1>8. WinnerLeads'
  BY <1>1, <1>2, <1>3, <1>7, CallStays DEF IInv, WinnerLeads
<1>9. DroppedAreBeaten'
  BY <1>1, <1>2, <1>3, CallStays DEF IInv, DroppedAreBeaten, Dropped
<1> QED
  BY <1>1, <1>5, <1>6, <1>8, <1>9 DEF IInv

LEMMA TieStep ==
  ASSUME IInv, NEW i \in Candidates, Tie(i)
  PROVE  IInv'
<1>1. /\ UNCHANGED <<kind, call, overloads, outcome>>
      /\ i = position /\ position' = position + 1
      /\ position \in Nat /\ Len(overloads) \in Nat
      /\ i \in 1 .. Len(overloads)
      /\ OutcomeRight'
  BY ExaminesStep DEF Tie
<1>2. /\ best # 0 /\ ~Beats(i, best) /\ ~Beats(best, i) /\ Viable(i)
      /\ best' = best /\ tied' = tied \cup {i}
  BY DEF Tie
<1>3. \A j : j \in Candidates /\ j < position' => j < position \/ j = i
  BY <1>1
<1>4. best \in ViableCandidates /\ best # i
  BY <1>1, <1>2 DEF IInv, TypeOK, ViableCandidates
<1>5. i \in ViableCandidates
  BY <1>2 DEF ViableCandidates
<1>6. TypeOK'
  <2>1. position' \in 1 .. Len(overloads') + 1
    BY <1>1
  <2>2. tied' \subseteq {j \in Candidates' : j < position' /\ Viable(j)'}
    BY <1>1, <1>2, CallStays DEF IInv, TypeOK
  <2> QED
    BY <1>1, <1>2, <2>1, <2>2, CallStays DEF IInv, TypeOK
<1>7. Started'
  BY <1>1, <1>2 DEF Started
<1>8. WinnerLeads'
  <2> SUFFICES ASSUME NEW w \in Candidates, w < position', BeatsTheRest(w)
               PROVE  FALSE
    BY <1>1, CallStays DEF WinnerLeads
  <2>1. w # i
    BY <1>2, <1>4 DEF BeatsTheRest
  <2>2. best = w
    BY <1>3, <2>1 DEF IInv, WinnerLeads
  <2> QED
    BY <1>2, <1>5, <2>1, <2>2 DEF BeatsTheRest
<1>9. DroppedAreBeaten'
  BY <1>1, <1>2, <1>3, CallStays DEF IInv, DroppedAreBeaten, Dropped
<1> QED
  BY <1>1, <1>6, <1>7, <1>8, <1>9 DEF IInv

(***************************************************************************)
(* The answers.                                                             *)
(***************************************************************************)
LEMMA CandidatesAreFinite ==
  ASSUME IInv, NEW S \in SUBSET Candidates
  PROVE  IsFiniteSet(S) /\ Cardinality(S) \in Nat
<1>1. Len(overloads) \in Nat
  BY OverloadsAreSequences DEF IInv, TypeOK
<1>2. IsFiniteSet(Candidates)
  BY <1>1, FS_Interval
<1> QED
  BY <1>2, FS_Subset, FS_CardinalityType

LEMMA FinishStep ==
  ASSUME IInv, Finish
  PROVE  IInv'
<1>1. /\ UNCHANGED <<kind, call, overloads, position, best, tied>>
      /\ kind # "member"
      /\ position = Len(overloads) + 1
      /\ outcome' = IF best = 0 THEN NotFound
                    ELSE IF Cardinality(tied) > 1 THEN Ambiguous
                    ELSE Selected(best)
  BY DEF Finish
<1>2. Len(overloads) \in Nat
  BY OverloadsAreSequences DEF IInv, TypeOK
<1>3. \A i \in Candidates : i < position
  BY <1>1, <1>2
<1>4. /\ best \in Candidates \cup {0}
      /\ tied \subseteq ViableCandidates
      /\ IF best = 0 THEN tied = {} ELSE best \in tied
  BY DEF IInv, TypeOK, ViableCandidates
<1>5. TypeOK'
  BY <1>1, <1>4, CallStays DEF IInv, TypeOK
<1>6. Started' /\ WinnerLeads' /\ DroppedAreBeaten'
  BY <1>1, CallStays DEF IInv, Started, WinnerLeads, DroppedAreBeaten, Dropped
<1>7. BestIsChosen'
  <2> SUFFICES ASSUME NEW w \in Candidates, BeatsTheRest(w)
               PROVE  outcome' = Selected(w)
    BY <1>1, CallStays DEF BestIsChosen
  <2>1. best = w /\ tied = {w}
    BY <1>3 DEF IInv, WinnerLeads
  <2>2. Cardinality(tied) = 1
    BY <2>1, FS_Singleton
  <2>3. best # 0
    BY <1>2, <2>1
  <2> QED
    BY <1>1, <2>1, <2>2, <2>3
<1>8. OrderedChoiceBeatsTheRest'
  <2> SUFFICES ASSUME outcome'.verdict = "selected", Ordered
               PROVE  BeatsTheRest(outcome'.function)
    BY <1>1, CallStays DEF OrderedChoiceBeatsTheRest
  <2>1. best # 0 /\ ~(Cardinality(tied) > 1) /\ outcome' = Selected(best)
    BY <1>1
  <2>2. best \in tied /\ best \in ViableCandidates
    BY <1>4, <2>1
  <2>3. tied = {best}
    <3>1. tied \in SUBSET Candidates
      BY <1>4 DEF ViableCandidates
    <3>2. IsFiniteSet(tied) /\ Cardinality(tied) \in Nat
      BY <3>1, CandidatesAreFinite
    <3>3. Cardinality(tied) # 0
      BY <2>2, <3>2, FS_EmptySet
    <3>4. Cardinality(tied) = 1
      BY <2>1, <3>2, <3>3
    <3>5. \E x : tied = {x}
      BY <3>2, <3>4, FS_Singleton
    <3> QED
      BY <2>2, <3>5
  <2>4. \A j \in ViableCandidates \ {best} : Beats(best, j)
    <3> TAKE j \in ViableCandidates \ {best}
    <3>1. Dropped(j)
      BY <1>3, <2>3 DEF Dropped, ViableCandidates
    <3> QED
      BY <1>1, <3>1 DEF IInv, DroppedAreBeaten, ViableCandidates
  <2> QED
    BY <2>1, <2>2, <2>4 DEF BeatsTheRest
<1> QED
  BY <1>5, <1>6, <1>7, <1>8 DEF IInv, OutcomeRight

\* The viable functions that beat i.
Above(i) == {j \in ViableCandidates : Beats(j, i)}

\* Where beating is transitive, fewer functions beat the winner of a comparison.
LEMMA FewerAbove ==
  ASSUME IInv, Ordered, NEW i \in ViableCandidates, NEW j \in Above(i)
  PROVE  /\ Cardinality(Above(i)) \in Nat /\ Cardinality(Above(j)) \in Nat
         /\ Cardinality(Above(j)) < Cardinality(Above(i))
<1>1. IsFiniteSet(ViableCandidates)
  <2>1. ViableCandidates \subseteq Candidates
    BY DEF ViableCandidates
  <2>2. IsFiniteSet(Candidates)
    BY CandidatesAreFinite
  <2> QED
    BY <2>1, <2>2, FS_Subset
<1>2. IsFiniteSet(Above(i)) /\ IsFiniteSet(Above(j))
  <2>1. Above(i) \subseteq ViableCandidates /\ Above(j) \subseteq ViableCandidates
    BY DEF Above
  <2> QED
    BY <1>1, <2>1, FS_Subset
<1>3. Above(j) \subseteq Above(i)
  <2> SUFFICES ASSUME NEW k \in Above(j) PROVE k \in Above(i)
    OBVIOUS
  <2>1. k \in ViableCandidates /\ j \in ViableCandidates /\ Beats(k, j) /\ Beats(j, i)
    BY DEF Above
  <2>2. Beats(k, i)
    BY <2>1 DEF Ordered
  <2> QED
    BY <2>1, <2>2 DEF Above
<1>4. j \notin Above(j)
  BY BeatsAsymmetric DEF Above
<1>5. Above(j) # Above(i)
  BY <1>4
<1> QED
  BY <1>2, <1>3, <1>5, FS_Subset, FS_CardinalityType

\* There, a function that alone is beaten by none beats all the others.
LEMMA AloneBeatsTheRest ==
  ASSUME IInv, Ordered, NEW u, Undominated = {u}
  PROVE  BeatsTheRest(u)
<1> DEFINE T == {i \in ViableCandidates : i # u /\ ~Beats(u, i)}
           Ns == {Cardinality(Above(i)) : i \in T}
<1>1. u \in ViableCandidates
  BY DEF Undominated
<1>2. ASSUME NEW x \in T PROVE \E y \in T : y \in Above(x)
  <2>1. x \in ViableCandidates /\ x # u /\ ~Beats(u, x)
    OBVIOUS
  <2>2. x \notin Undominated
    BY <2>1
  <2>3. PICK y \in ViableCandidates : Beats(y, x)
    BY <2>1, <2>2 DEF Undominated
  <2>4. y # u
    BY <2>1, <2>3
  <2>5. ~Beats(u, y)
    BY <1>1, <2>1, <2>3 DEF Ordered
  <2> QED
    BY <2>3, <2>4, <2>5 DEF Above
<1>3. T = {}
  <2> SUFFICES ASSUME T # {} PROVE FALSE
    OBVIOUS
  <2>1. Ns \subseteq Nat
    <3> SUFFICES ASSUME NEW x \in T PROVE Cardinality(Above(x)) \in Nat
      OBVIOUS
    <3> QED
      BY <1>2, FewerAbove
  <2>2. PICK n \in Ns : \A k \in Ns : ~(<<k, n>> \in OpToRel(<, Nat))
    <3>1. Ns # {}
      OBVIOUS
    <3> HIDE DEF Ns
    <3> QED
      BY <2>1, <3>1, NatLessThanWellFounded, WFMin
  <2>3. \A k \in Ns : ~(k < n)
    <3> HIDE DEF Ns
    <3> QED
      BY <2>1, <2>2 DEF OpToRel
  <2>4. PICK x \in T : n = Cardinality(Above(x))
    OBVIOUS
  <2>5. PICK y \in T : y \in Above(x)
    BY <1>2
  <2>6. Cardinality(Above(y)) < n
    BY <2>4, <2>5, FewerAbove
  <2>7. Cardinality(Above(y)) \in Ns
    OBVIOUS
  <2> QED
    BY <2>3, <2>6, <2>7
<1> QED
  BY <1>1, <1>3 DEF BeatsTheRest

LEMMA SelectMemberStep ==
  ASSUME IInv, SelectMember
  PROVE  IInv'
<1>1. /\ UNCHANGED <<kind, call, overloads, position, best, tied>>
      /\ kind = "member"
      /\ outcome' \in IF Undominated = {} THEN {NotFound}
                      ELSE IF Cardinality(Undominated) > 1 THEN {Ambiguous}
                      ELSE {Selected(i) : i \in Undominated}
  BY DEF SelectMember
<1>2. Undominated \subseteq ViableCandidates
  BY DEF Undominated
<1>3. TypeOK'
  <2>1. outcome' \in {Pending, NotFound, Ambiguous} \cup {Selected(i) : i \in ViableCandidates}
    BY <1>1, <1>2
  <2> QED
    BY <1>1, <2>1, CallStays DEF IInv, TypeOK
<1>4. Started' /\ WinnerLeads' /\ DroppedAreBeaten'
  BY <1>1, CallStays DEF IInv, Started, WinnerLeads, DroppedAreBeaten, Dropped
<1>5. BestIsChosen'
  <2> SUFFICES ASSUME NEW w \in Candidates, BeatsTheRest(w)
               PROVE  outcome' = Selected(w)
    BY <1>1, CallStays DEF BestIsChosen
  <2>1. w \in ViableCandidates
    BY DEF BeatsTheRest
  <2>2. \A j \in ViableCandidates : ~Beats(j, w)
    BY BeatsAsymmetric DEF BeatsTheRest
  <2>3. Undominated = {w}
    BY <2>1, <2>2 DEF Undominated, BeatsTheRest
  <2>4. Cardinality(Undominated) = 1
    BY <2>3, FS_Singleton
  <2> QED
    BY <1>1, <2>3, <2>4
<1>6. OrderedChoiceBeatsTheRest'
  <2> SUFFICES ASSUME outcome'.verdict = "selected", Ordered
               PROVE  BeatsTheRest(outcome'.function)
    BY <1>1, CallStays DEF OrderedChoiceBeatsTheRest
  <2>1. PICK u \in Undominated : outcome' = Selected(u) /\ ~(Cardinality(Undominated) > 1)
    BY <1>1
  <2>2. Undominated = {u}
    <3>1. IsFiniteSet(Undominated)
      <4>1. Undominated \subseteq Candidates
        BY DEF Undominated, ViableCandidates
      <4>2. IsFiniteSet(Candidates)
        BY CandidatesAreFinite
      <4> QED
        BY <4>1, <4>2, FS_Subset
    <3>2. Cardinality(Undominated) \in Nat
      BY <3>1, FS_CardinalityType
    <3>3. Cardinality({u}) = 1 /\ {u} \subseteq Undominated
      BY FS_Singleton
    <3>4. Cardinality({u}) <= Cardinality(Undominated)
      BY <3>1, <3>3, FS_Subset
    <3> QED
      BY <2>1, <3>1, <3>2, <3>3, <3>4, FS_Subset
  <2>3. BeatsTheRest(u)
    BY <2>2, AloneBeatsTheRest
  <2> QED
    BY <2>1, <2>3
<1> QED
  BY <1>1, <1>3, <1>4, <1>5, <1>6 DEF IInv, OutcomeRight

LEMMA StutterStep ==
  ASSUME IInv, UNCHANGED vars
  PROVE  IInv'
BY CallStays DEF vars, IInv, TypeOK, Started, WinnerLeads, DroppedAreBeaten, Dropped,
                 OutcomeRight, BestIsChosen, OrderedChoiceBeatsTheRest

LEMMA Inductive == Spec => []IInv
<1>1. IInv /\ [Next]_vars => IInv'
  <2> SUFFICES ASSUME IInv, [Next]_vars PROVE IInv'
    OBVIOUS
  <2>1. CASE Finish
    BY <2>1, FinishStep
  <2>2. CASE SelectMember
    BY <2>2, SelectMemberStep
  <2>3. ASSUME NEW i \in Candidates, Scan(i)
        PROVE  IInv'
    BY <2>3, RejectStep, FirstStep, DisplaceStep, DiscardStep, TieStep DEF Scan
  <2>4. CASE UNCHANGED vars
    BY <2>4, StutterStep
  <2> QED
    BY <2>1, <2>2, <2>3, <2>4 DEF Next
<1> QED
  BY <1>1, InitIInv, PTL DEF Spec

(***************************************************************************)
(* The theorems.                                                            *)
(***************************************************************************)
\* The scan keeps its best function among those it is tied with, all of them viable.
THEOREM TypeCorrect == Spec => []TypeOK
<1>1. IInv => TypeOK
  BY DEF IInv
<1> QED
  BY <1>1, Inductive, PTL

\* All three searches select a function that beats all others, wherever it is declared.
THEOREM BestChosen == Spec => []BestIsChosen
<1>1. IInv => BestIsChosen
  BY DEF IInv, OutcomeRight
<1> QED
  BY <1>1, Inductive, PTL

\* All three select nothing else, where beating is transitive.
THEOREM ChoiceIsExact == Spec => []OrderedChoiceBeatsTheRest
<1>1. IInv => OrderedChoiceBeatsTheRest
  BY DEF IInv, OutcomeRight
<1> QED
  BY <1>1, Inductive, PTL
==============================================================================

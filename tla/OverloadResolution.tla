-------------------------- MODULE OverloadResolution --------------------------
(***************************************************************************)
(* How the compiler picks a function of an overload set: the three searches *)
(* of src/src/OverloadResolution.h over the conversions that                *)
(* ConversionRanks gives them.                                              *)
(*                                                                         *)
(*   "function"     resolve_overload_with_argument_nodes                    *)
(*   "constructor"  selectBestConstructorCandidate                          *)
(*   "member"       resolve_member_overload_with_argument_nodes             *)
(*                                                                         *)
(* The first two scan the declarations once and keep the best one so far    *)
(* and the ones it does not beat; the third compares every pair.  A         *)
(* function that is overloaded is known by its place in the declarations.   *)
(***************************************************************************)
EXTENDS ConversionRanks, Sequences, FiniteSets

CONSTANTS
  Kinds,            \* the searches made
  Calls,            \* the calls to resolve
  OverloadSets,     \* sequences of functions, in the order of declaration
  MoreSpecialized   \* pairs of constructor templates, by partial ordering

\* A parameter list may end in defaults (required counts the others) or "...".
Function ==
  [params : Seq(Type), required : Nat, variadic : BOOLEAN,
   template : BOOLEAN, cv : SUBSET {"const", "volatile"}]

\* The arguments and, for a member function, the qualifiers of the object.
Call == [arguments : Seq([type : Type, zero : BOOLEAN]), object : SUBSET {"const", "volatile"}]

ASSUME OverloadsAssumption ==
  /\ Kinds \subseteq {"function", "constructor", "member"}
  /\ \A c \in Calls : c \in Call
  /\ \A s \in OverloadSets : s \in Seq(Function)
  /\ \A p \in MoreSpecialized : <<p[2], p[1]>> \notin MoreSpecialized

VARIABLES
  kind, call, overloads,
  position,   \* of the scan
  best,       \* best_match, 0 is nullptr
  tied,       \* tied_candidates
  outcome     \* OverloadResolutionResult

vars == <<kind, call, overloads, position, best, tied, outcome>>

Candidates == 1 .. Len(overloads)
Arguments == 1 .. Len(call.arguments)

(***************************************************************************)
(* The conversions of a call.                                               *)
(***************************************************************************)
\* The parameter that takes an argument; constructors are not told the
\* expressions of their arguments.
Rank(f, k) ==
  IF kind = "constructor" THEN ConversionRank(call.arguments[k].type, f.params[k])
  ELSE ArgumentRank(call.arguments[k], f.params[k])

\* The conversion of argument k, the implicit object being argument 0.
ConversionOf(f, k) ==
  IF k = 0
    THEN [typed |-> FALSE,
          rank |-> IF f.cv \subseteq call.object THEN ExactMatch ELSE QualificationAdjustment]
  ELSE IF k > Len(f.params) THEN [typed |-> FALSE, rank |-> Ellipsis]
  ELSE [typed |-> TRUE, rank |-> Rank(f, k), type |-> f.params[k]]

TakesObject(f) == kind = "member" => call.object \subseteq f.cv

TakesCount(f) ==
  /\ Len(call.arguments) >= f.required
  /\ Len(call.arguments) > Len(f.params) => f.variadic /\ kind # "constructor"

Viable(i) ==
  LET f == overloads[i] IN
  /\ TakesObject(f)
  /\ TakesCount(f)
  /\ \A k \in Arguments : k <= Len(f.params) => Rank(f, k) # NoMatch

(***************************************************************************)
(* Comparing two viable functions.                                          *)
(***************************************************************************)
\* compareConversionInfoLists: lhs_is_better of a against b.
Better(a, b) ==
  \/ /\ kind = "member"
     /\ ConversionOf(overloads[a], 0).rank < ConversionOf(overloads[b], 0).rank
  \/ \E k \in Arguments :
       Prefers(call.arguments[k].type,
               ConversionOf(overloads[a], k), ConversionOf(overloads[b], k))

\* A constructor that is no template is preferred to one that is.
PreferredConstructor(f, g) ==
  \/ ~f.template /\ g.template
  \/ f.template = g.template /\ <<f, g>> \in MoreSpecialized

Beats(a, b) ==
  \/ Better(a, b) /\ ~Better(b, a)
  \/ /\ kind = "constructor"
     /\ ~Better(a, b) /\ ~Better(b, a)
     /\ PreferredConstructor(overloads[a], overloads[b])

(***************************************************************************)
(* The scan.                                                                *)
(***************************************************************************)
Pending == [verdict |-> "pending", function |-> 0]
NotFound == [verdict |-> "no_match", function |-> 0]
Ambiguous == [verdict |-> "ambiguous", function |-> 0]
Selected(i) == [verdict |-> "selected", function |-> i]

Init ==
  /\ kind \in Kinds /\ call \in Calls /\ overloads \in OverloadSets
  /\ position = 1 /\ best = 0 /\ tied = {}
  /\ outcome = Pending

Examines(i) ==
  /\ kind # "member"
  /\ i = position /\ i \in Candidates
  /\ position' = position + 1
  /\ UNCHANGED <<kind, call, overloads, outcome>>

Reject(i) ==
  /\ Examines(i) /\ ~Viable(i)
  /\ UNCHANGED <<best, tied>>

First(i) ==
  /\ Examines(i) /\ Viable(i)
  /\ best = 0
  /\ best' = i /\ tied' = {i}

\* Mutant: all of them stay.
AllStillTied(i) == tied

\* Mutant: none of them stays.
NoneStillTied(i) == {}

\* Those that were tied with the previous best stay, unless i beats them.
StillTied(i) == {j \in tied : ~Beats(i, j)}

\* Mutant: the new best is not among the tied.
DisplaceUncounted(i) ==
  /\ Examines(i) /\ Viable(i)
  /\ best # 0 /\ Beats(i, best)
  /\ best' = i /\ tied' = StillTied(i)

Displace(i) ==
  /\ Examines(i) /\ Viable(i)
  /\ best # 0 /\ Beats(i, best)
  /\ best' = i /\ tied' = {i} \cup StillTied(i)

Discard(i) ==
  /\ Examines(i) /\ Viable(i)
  /\ best # 0 /\ Beats(best, i)
  /\ UNCHANGED <<best, tied>>

Tie(i) ==
  /\ Examines(i) /\ Viable(i)
  /\ best # 0 /\ ~Beats(i, best) /\ ~Beats(best, i)
  /\ tied' = tied \cup {i}
  /\ UNCHANGED best

Finish ==
  /\ kind # "member"
  /\ position = Len(overloads) + 1 /\ outcome = Pending
  /\ outcome' = IF best = 0 THEN NotFound
                ELSE IF Cardinality(tied) > 1 THEN Ambiguous
                ELSE Selected(best)
  /\ UNCHANGED <<kind, call, overloads, position, best, tied>>

(***************************************************************************)
(* The comparison of every pair.                                            *)
(***************************************************************************)
ViableCandidates == {i \in Candidates : Viable(i)}
Undominated == {i \in ViableCandidates : ~\E j \in ViableCandidates : Beats(j, i)}

SelectMember ==
  /\ kind = "member" /\ outcome = Pending
  /\ outcome' \in IF Undominated = {} THEN {NotFound}
                  ELSE IF Cardinality(Undominated) > 1 THEN {Ambiguous}
                  ELSE {Selected(i) : i \in Undominated}
  /\ UNCHANGED <<kind, call, overloads, position, best, tied>>

Scan(i) == Reject(i) \/ First(i) \/ Displace(i) \/ Discard(i) \/ Tie(i)

Next == Finish \/ SelectMember \/ \E i \in Candidates : Scan(i)

Spec == Init /\ [][Next]_vars

(***************************************************************************)
(* Properties.                                                              *)
(***************************************************************************)
\* Every variable has its type; the best function so far is one of the viable
\* functions examined, and one of those it is tied with.
TypeOK ==
  /\ kind \in Kinds /\ call \in Calls /\ overloads \in OverloadSets
  /\ position \in 1 .. Len(overloads) + 1
  /\ best \in Candidates \cup {0}
  /\ tied \subseteq {i \in Candidates : i < position /\ Viable(i)}
  /\ IF best = 0 THEN tied = {} ELSE best \in tied
  /\ outcome \in {Pending, NotFound, Ambiguous} \cup {Selected(i) : i \in ViableCandidates}

\* What the standard calls the best viable function.
BeatsTheRest(i) ==
  /\ i \in ViableCandidates
  /\ \A j \in ViableCandidates \ {i} : Beats(i, j)

\* Whenever one viable function beats all the others it is the one selected,
\* wherever it is declared and whatever was best before it.
BestIsChosen ==
  outcome # Pending => \A i \in Candidates : BeatsTheRest(i) => outcome = Selected(i)

Ordered ==
  \A i, j, k \in ViableCandidates : Beats(i, j) /\ Beats(j, k) => Beats(i, k)

\* Where beating is transitive, the scan selects nothing but a function that
\* beats all the others: each one it dropped is beaten by the last best too.
OrderedChoiceBeatsTheRest ==
  outcome.verdict = "selected" /\ Ordered => BeatsTheRest(outcome.function)

\* A tie is found whatever the order of the declarations, as the comment on the
\* scan has it: "any that are not strictly worse must be kept".
ChoiceBeatsTheRest ==
  outcome.verdict = "selected" => BeatsTheRest(outcome.function)
==============================================================================

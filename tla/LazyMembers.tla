------------------------------ MODULE LazyMembers ------------------------------
(***************************************************************************)
(* The registry of lazy class-template members (src/TemplateRegistry_Lazy.h) *)
(* with the semantic analysis that marks members ODR-used, materializes     *)
(* them and drains what was only marked (src/SemanticAnalysis.cpp,          *)
(* src/Parser_Templates_Lazy.cpp).                                          *)
(*                                                                         *)
(* Materializing a member normalizes its body, and normalizing a body       *)
(* materializes the members it calls, so the state is a call stack of       *)
(* bodies.  A body is registered for code generation before it is           *)
(* normalized; the member leaves the registry only when its frame returns.  *)
(***************************************************************************)
EXTENDS Naturals, Sequences

CONSTANTS
  Member,       \* the member functions of the class-template instantiations
  Class,        \* the instantiation a member belongs to
  Name,         \* its name; overloads share it
  IsConst,      \* its constness
  Root,         \* a user-written function
  Programs,     \* what the bodies of a translation unit use
  MaxDepth,     \* bound on the nesting of materializations
  None

Body == Member \cup {Root}
Classes == {Class[m] : m \in Member}
UseKind == {"sibling", "call", "convert"}
Use == [kind : UseKind, target : Member]

ASSUME MemberAssumption == Root \notin Member /\ None \notin Body
ASSUME IsConstAssumption == IsConst \in [Member -> BOOLEAN]
ASSUME ProgramAssumption == Programs \subseteq [Body -> Seq(Use)]
\* The user's own code names instantiations; only their members name the pattern's.
ASSUME SiblingAssumption ==
  \A p \in Programs : \A i \in DOMAIN p[Root] : p[Root][i].kind # "sibling"
ASSUME DepthAssumption == MaxDepth \in Nat \ {0}

VARIABLES
  uses,          \* the program: the members each body uses, in order
  instantiated,  \* classes whose members have been registered
  lazy_members,  \* registered members without a body yet
  odr_used,      \* members marked as used
  stack,         \* bodies being normalized, the innermost one last
  phase,         \* "roots", "drain" or "done"
  snapshot,      \* what the drain's current pass has left
  progressed,    \* has that pass materialized anything?
  bodies         \* how often a member's body was registered for code generation: 0, 1, 2 or more

registry == <<instantiated, lazy_members, odr_used>>
drain == <<phase, snapshot, progressed>>
vars == <<uses, registry, stack, drain, bodies>>

UsesOf(b) == {uses[b][i] : i \in DOMAIN uses[b]}
ClassesNamed(b) == {Class[u.target] : u \in UsesOf(b)}
Frame(b, making) == [body |-> b, making |-> making, todo |-> uses[b], calling |-> FALSE]
Top == stack[Len(stack)]
Below == SubSeq(stack, 1, Len(stack) - 1)

\* Substituting a body instantiates the classes it names, once each.
MembersOf(classes) == {m \in Member : Class[m] \in classes}

\* Mutant: a class is registered again by each body that names it.
RegisteredAgain(b) == MembersOf(ClassesNamed(b))

Fresh(b) == MembersOf(ClassesNamed(b) \ instantiated)

\* Parsing has instantiated the classes the user's code names and any it only probed.
Init ==
  /\ uses \in Programs
  /\ \E probed \in SUBSET Classes : instantiated = ClassesNamed(Root) \cup probed
  /\ lazy_members = MembersOf(instantiated)
  /\ odr_used = {}
  /\ stack = <<Frame(Root, FALSE)>>
  /\ phase = "roots" /\ snapshot = {} /\ progressed = TRUE
  /\ bodies = [m \in Member |-> 0]

-------------------------------------------------------------------------------
(* The registry. *)

\* A key names a class, a name and a constness, and mostly one exact member.
ExactKey(class, m) == [class |-> class, name |-> Name[m], const |-> IsConst[m], exact |-> m]
NameKey(m) == [ExactKey(Class[m], m) EXCEPT !.exact = None]
OppositeConst(key) == [key EXCEPT !.exact = None, !.const = ~@]

LiveBucket(key) ==
  {m \in lazy_members : Class[m] = key.class /\ Name[m] = key.name /\ IsConst[m] = key.const}

\* With several overloads alive the bucket names none of them.
UniqueLive(key) == {m \in LiveBucket(key) : LiveBucket(key) = {m}}

NeedsInstantiation(key) == key.exact \in lazy_members \/ LiveBucket(key) # {}

\* getLazyMemberInfo and markOdrUsed: the exact member while it is alive, else the only
\* live overload of its bucket, if there is just one.
Resolved(key) == IF key.exact \in lazy_members THEN {key.exact} ELSE UniqueLive(key)

\* markLazyMemberOdrUsedForMatchingConstness.
MatchingConstness(key) ==
  IF NeedsInstantiation(key) THEN Resolved(key) ELSE UniqueLive(OppositeConst(key))

MarkOdrUsed(members) == odr_used' = odr_used \cup members

\* Mutant: the entry stays.
KeepEntry(m) == UNCHANGED lazy_members

\* markInstantiated erases the exact member.
MarkInstantiated(m) == lazy_members' = lazy_members \ {m}

-------------------------------------------------------------------------------
(* Normalizing a body. *)

\* registerAndNormalizeLateMaterializedTopLevelNode lists the node before it normalizes it.
RegisterBody(m) == bodies' = [bodies EXCEPT ![m] = IF @ = 0 THEN 1 ELSE 2]

\* Mutant: the classes a body instantiates are not recorded.
MaterializeUnrecorded(frames, m) ==
  /\ Len(frames) < MaxDepth
  /\ stack' = Append(frames, Frame(m, TRUE))
  /\ lazy_members' = lazy_members \cup Fresh(m)
  /\ RegisterBody(m)
  /\ UNCHANGED instantiated

\* instantiateLazyMemberFunction: the body is substituted, registered and normalized.
Materialize(frames, m) ==
  /\ Len(frames) < MaxDepth
  /\ stack' = Append(frames, Frame(m, TRUE))
  /\ lazy_members' = lazy_members \cup Fresh(m)
  /\ instantiated' = instantiated \cup ClassesNamed(m)
  /\ RegisterBody(m)

NextUse(kind) == stack # <<>> /\ ~Top.calling /\ Top.todo # <<>> /\ Head(Top.todo).kind = kind
Target == Head(Top.todo).target
UseDone == Append(Below, [Top EXCEPT !.todo = Tail(@), !.calling = FALSE])
UseCalling == Append(Below, [Top EXCEPT !.calling = TRUE])

\* Mutant: the callee is looked up by its name and constness alone.
ContextMarkByName ==
  IF Top.body = Root THEN {} ELSE UniqueLive([NameKey(Target) EXCEPT !.class = Class[Top.body]])

\* tryMaterializeLazyCallTarget, the remap: within a member of an instantiation the
\* callee is looked up in that instantiation.
ContextMark ==
  IF Top.body = Root THEN {} ELSE Resolved(ExactKey(Class[Top.body], Target))

\* A call of the template pattern's declaration only leaves the mark.
SiblingCall ==
  /\ NextUse("sibling")
  /\ MarkOdrUsed(ContextMark)
  /\ stack' = UseDone
  /\ UNCHANGED <<uses, instantiated, lazy_members, drain, bodies>>

\* A call through a receiver of a member that has no body yet marks and materializes it.
LazyReceiverCall ==
  /\ NextUse("call")
  /\ Target \in lazy_members
  /\ MarkOdrUsed({Target})
  /\ Materialize(UseCalling, Target)
  /\ UNCHANGED <<uses, drain>>

ReceiverCall ==
  /\ NextUse("call")
  /\ Target \notin lazy_members
  /\ MarkOdrUsed(ContextMark)
  /\ stack' = UseCalling
  /\ UNCHANGED <<uses, instantiated, lazy_members, drain, bodies>>

\* markLazyReceiverMemberOdrUsed, after the callee was materialized.
MarkReceiverMember ==
  /\ stack # <<>> /\ Top.calling
  /\ MarkOdrUsed(MatchingConstness(ExactKey(Class[Target], Target)))
  /\ stack' = UseDone
  /\ UNCHANGED <<uses, instantiated, lazy_members, drain, bodies>>

\* Mutant: the members of every class are marked.
ConversionMarksAll == UniqueLive(NameKey(Target)) \cup lazy_members

\* A selected conversion operator is marked by name, with all of its class.
ConversionMarks == UniqueLive(NameKey(Target)) \cup (MembersOf({Class[Target]}) \cap lazy_members)

Convert ==
  /\ NextUse("convert")
  /\ MarkOdrUsed(ConversionMarks)
  /\ IF Target \in lazy_members
     THEN Materialize(UseDone, Target)
     ELSE /\ stack' = UseDone
          /\ UNCHANGED <<instantiated, lazy_members, bodies>>
  /\ UNCHANGED <<uses, drain>>

BodyDone == stack # <<>> /\ ~Top.calling /\ Top.todo = <<>>

\* instantiateLazyMemberIfNeeded returns.  The drain normalizes the result once more.
FinishMaterialization ==
  /\ BodyDone /\ Top.making
  /\ MarkInstantiated(Top.body)
  /\ stack' = IF Below = <<>> THEN <<Frame(Top.body, FALSE)>> ELSE Below
  /\ UNCHANGED <<uses, instantiated, odr_used, drain, bodies>>

FinishNormalization ==
  /\ BodyDone /\ ~Top.making
  /\ stack' = <<>>
  /\ phase' = "drain"
  /\ UNCHANGED <<uses, registry, snapshot, progressed, bodies>>

-------------------------------------------------------------------------------
(* drainLazyMemberRegistry. *)

Draining == phase = "drain" /\ stack = <<>>
OdrUsedLazyEntries == odr_used \cap lazy_members

\* A pass works off a snapshot; the next one begins only if this one got anywhere.
TakeSnapshot ==
  /\ Draining /\ snapshot = {}
  /\ progressed /\ OdrUsedLazyEntries # {}
  /\ snapshot' = OdrUsedLazyEntries
  /\ progressed' = FALSE
  /\ UNCHANGED <<uses, registry, stack, phase, bodies>>

StopDraining ==
  /\ Draining /\ snapshot = {}
  /\ ~progressed \/ OdrUsedLazyEntries = {}
  /\ phase' = "done"
  /\ UNCHANGED <<uses, registry, stack, snapshot, progressed, bodies>>

\* The entries come in the order of a hash table.  An entry another body has consumed
\* meanwhile is looked up like any key.
DrainEntry(m) ==
  /\ Draining
  /\ m \in snapshot
  /\ snapshot' = snapshot \ {m}
  /\ LET key == ExactKey(Class[m], m)
     IN  IF NeedsInstantiation(key) /\ Resolved(key) # {}
         THEN /\ progressed' = TRUE
              /\ \E t \in Resolved(key) : Materialize(<<>>, t)
         ELSE UNCHANGED <<progressed, stack, instantiated, lazy_members, bodies>>
  /\ UNCHANGED <<uses, odr_used, phase>>

Terminated == phase = "done" /\ UNCHANGED vars

Next ==
  \/ SiblingCall \/ LazyReceiverCall \/ ReceiverCall \/ MarkReceiverMember \/ Convert
  \/ FinishMaterialization \/ FinishNormalization
  \/ TakeSnapshot \/ StopDraining
  \/ \E m \in Member : DrainEntry(m)
  \/ Terminated

Spec == Init /\ [][Next]_vars /\ WF_vars(Next)

-------------------------------------------------------------------------------
\* Every variable has its type; marks and live entries are of registered classes.
TypeOK ==
  /\ uses \in [Body -> Seq(Use)]
  /\ instantiated \subseteq Classes
  /\ lazy_members \subseteq MembersOf(instantiated)
  /\ odr_used \subseteq MembersOf(instantiated)
  /\ stack \in Seq([body : Body, making : BOOLEAN, todo : Seq(Use), calling : BOOLEAN])
  /\ Len(stack) <= MaxDepth
  /\ phase \in {"roots", "drain", "done"}
  /\ snapshot \subseteq odr_used
  /\ progressed \in BOOLEAN
  /\ bodies \in [Member -> 0 .. 2]

Begun == {Root} \cup {m \in Member : bodies[m] > 0} \cup {stack[i].body : i \in DOMAIN stack}
Used == UNION {{u.target : u \in UsesOf(b)} : b \in Begun}

\* No body is registered for code generation twice (a symbol defined twice), although it
\* is reached through calls, conversions, a stale snapshot and the overload fallback.
EachBodyOnce == \A m \in Member : bodies[m] <= 1

\* When the drain stops, every member a reachable body uses has its own body: the fixpoint
\* may not stop while a body it made has marked another member.
UsedMembersHaveBodies == phase = "done" => \A m \in Used : bodies[m] > 0

\* An instantiation no normalized body uses, one a SFINAE probe made, stays dormant: none
\* of its members is marked or materialized.
ProbedClassesStayDormant ==
  \A m \in Member : bodies[m] > 0 \/ m \in odr_used => Class[m] \in {Class[u] : u \in Used}

\* Semantic analysis gets through every translation unit.
Terminates == <>(phase = "done")

\* A member is marked only where semantic analysis has proved that it is needed.
OnlyUsedMembersAreMarked == odr_used \subseteq Used

\* Materializing a member never lands back in its own materialization.
NoReentrantMaterialization ==
  \A i, j \in DOMAIN stack : stack[i].body = stack[j].body => i = j
=============================================================================

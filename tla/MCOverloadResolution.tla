------------------------ MODULE MCOverloadResolution ------------------------
(* Functions of one and two parameters over integers, pointers, references   *)
(* and a class with two bases in a row, in every order of declaration.       *)
EXTENDS OverloadResolution, SequencesExt

CONSTANTS MaxOverloads

classes == {"A", "B", "C"}
derived == {<<"B", "A">>, <<"C", "B">>, <<"C", "A">>}
converts == {<<"int", "A">>, <<"A", "int">>}

T(base) == [base |-> base, pointer |-> FALSE, cv |-> {}, ref |-> "none"]
P(base) == [T(base) EXCEPT !.pointer = TRUE]
Const(t) == [t EXCEPT !.cv = {"const"}]
L(t) == [t EXCEPT !.ref = "lvalue"]
R(t) == [t EXCEPT !.ref = "rvalue"]

f(params) == [params |-> params, required |-> Len(params), variadic |-> FALSE,
              template |-> FALSE, cv |-> {}]
defaulted(params) == [f(params) EXCEPT !.required = 1]
variadic(params) == [f(params) EXCEPT !.variadic = TRUE]
template(params) == [f(params) EXCEPT !.template = TRUE]
const(params) == [f(params) EXCEPT !.cv = {"const"}]

int == T("int")
temporary(t) == [type |-> t, zero |-> FALSE]
zero == [type |-> int, zero |-> TRUE]
variable(t) == temporary(L(t))

\* One parameter: what is told apart are the conversions.
single ==
  {f(<<t>>) : t \in {int, T("long"), R(int), L(Const(int)), L(int), P("int"),
                     Const(P("int")), P("void"), P("A"), P("B"), L(T("A")), T("A")}}
  \cup {const(<<T("long")>>), template(<<int>>), variadic(<<>>)}

singleCalls ==
  {[arguments |-> <<a>>, object |-> {}] :
     a \in {temporary(int), zero, variable(int), temporary(T("char")), variable(P("int")),
            temporary(P("C")), variable(T("C")), temporary(T("enum"))}}

\* Three parameters: what is told apart is which function wins where.
triple ==
  {f(<<R(int), T("long"), T("long")>>), f(<<int, int, T("long")>>),
   f(<<L(Const(int)), int, int>>), f(<<T("long"), R(int), L(Const(int))>>),
   f(<<int, T("long"), int>>), defaulted(<<int, int, int, int>>),
   const(<<T("long"), int, int>>), template(<<int, int, T("long")>>),
   template(<<L(Const(int)), int, T("long")>>), variadic(<<int>>)}

tripleCalls == {[arguments |-> [k \in 1 .. 3 |-> temporary(int)], object |-> o] :
                  o \in {{}, {"const"}}}

calls == singleCalls \cup tripleCalls
Declarations(functions) ==
  {s \in UNION {[1 .. n -> functions] : n \in 1 .. MaxOverloads} : IsInjective(s)}
overloadSets == Declarations(single) \cup Declarations(triple)

moreSpecialized ==
  {<<template(<<L(Const(int)), int, T("long")>>), template(<<int, int, T("long")>>)>>}
==============================================================================

# FlashCpp in TLA+

FlashCpp is a C++20 compiler in one process and one thread. It reads a translation unit,
preprocesses it, parses it into a list of top-level AST nodes, runs semantic analysis over that
list, turns each node into an intermediate representation, and writes an ELF or COFF object.

There is no concurrency between threads. What makes the program hard is **re-entrancy**: the
parser parses speculatively and takes back what it did; a lookup during semantic analysis or code
generation may instantiate a template, which appends to, or inserts at the front of, the very list
the caller iterates over; materializing a lazy member normalizes a body that materializes further
members; emitting a function queues further functions. Each of these is an interleaving of a loop
with the code it calls, and that is what the first modules here model. The others model the places
where **several stacks or caches must agree**: the preprocessor's conditional groups, inclusions and line
map; the scopes that decide which destructor runs; the registers that cache stack slots; and the
scan of an overload set that must not depend on the order of the declarations.

All paths below are relative to `src/` of this repository unless they name a module.

## 1. Inventory

| Component | State | Operations | Interactions | What makes it correct |
|---|---|---|---|---|
| Token stream (`Parser_Core.cpp`, `Lexer.h`) | lexer position, `current_token_`, `injected_token_`, `saved_tokens_` | advance, consume, expect, peek(n), split `>>`, save, restore, discard | called by every parse function; a restore also cleans up the node list | a restored position is the saved one, wherever the `>>` was split |
| Top-level node list (`Parser.h`, `Parser_Core.cpp`) | `ast_nodes_`, `ast_node_is_instantiated_`, `instantiated_node_keys_`, `pending_semantic_roots_`, `ast_discarded_nodes_` | append, register late, register at the front, normalize, erase, restore | written by the parser, by instantiation from any pass; read by semantic analysis and the driver | tags exact, no node twice, nothing older than a save is lost, every instantiation normalized |
| Lazy member registry (`TemplateRegistry_Lazy.h`, `Parser_Templates_Lazy.cpp`) | exact entries, buckets per name and constness, ODR-use marks | register, look up, mark, mark a class, materialize, erase, snapshot | filled by class instantiation, marked by semantic analysis, drained at its end | a used member gets one body; an unused class stays dormant; the drain ends |
| Semantic analysis (`SemanticAnalysis.cpp`) | normalized bodies, pending roots, drain state | initial pass, late-root loop, nested normalization, conversions, lazy drain | calls the parser to instantiate; called by it through the late roots | every generated node was normalized |
| Code generation, deferred work (`AstToIr.h`, `IrGenerator_*.cpp`) | inline, member, lambda and local-struct queues with their cursors, generated names | request, queue, collect, visit, drain | filled while visiting; drained by the driver and by itself | what a generated body calls or defines is generated, the loops end |
| Code generation, statements and scopes (`IrGenerator_Stmt_Control.cpp`, `IrGenerator_Helpers.cpp`) | `scope_stack_`, `loop_depth_stack_`, `label_scope_depth_map_` | open and close a statement, declare, break, continue, goto, return, pre-scan the labels | emits the instructions the converter turns into jumps and calls | on every path each object is destroyed once, in reverse order, and alive exactly in its scope |
| Driver (`FlashCppMain.cpp`) | index of the node under generation, failure flag | the passes, recovery from an exception, the deferred loops | runs all of the above | no node is skipped or taken twice |
| Preprocessor (`FileReader*.cpp`) | macros, include stack, two conditional stacks, line map, packing state | directives, inclusion, comments, expansion | text and line map for the lexer, packing for the parser | a branch is read when the standard says so; a guarded header once; each line hangs on its `#include`; it ends |
| Strings (`StringTable.h`, `StringBuilder.h`) | interned strings, a stack of builders | intern, append, commit, reset | everywhere | builders end in stack order |
| Names (`NamespaceRegistry.h`, `SymbolTable.h`) | scope stack, overload sets, using-directives | enter, exit, insert, look up | parser and passes | a lookup finds the innermost declaration |
| Scope guards (`ParserScopeGuards.h`) | parser context fields | enter, leave on every exit | speculative parsing | state is put back on every path |
| Grammar (`Parser_Expr_*.cpp`, `Parser_Decl_*.cpp`, `Parser_Statements.cpp`) | AST under construction | recursive descent with speculation | token stream, node list | – |
| Template registry, instantiation queue (`TemplateRegistry_*.h`, `InstantiationQueue.h`) | patterns, specializations, caches, state per key | register, match, begin, complete, fail | instantiation | no key stays in progress; cycles are found |
| Template instantiation (`Parser_Templates_Inst_*.cpp`, `ExpressionSubstitutor.cpp`) | environment of arguments | deduce, substitute, register | registries, node list | – |
| Lazy member resolver (`LazyMemberResolver.h`) | cache of lookups | resolve, clear | semantic analysis | no stale negative answer |
| Overload resolution (`OverloadResolution.h`) | best candidate so far and those tied with it | rank, compare, select | parser, semantic analysis, constant evaluation | the function that beats all others is selected; a tie is ambiguous in every order of declarations |
| Concepts, constant evaluation | evaluation stack | evaluate | instantiation, semantic analysis | – |
| Code emission (`IRConverter_*`) | registers with the slots they cache, sections | load, bind, spill, flush, convert each instruction | object writers | a slot reads as what was last stored in it, wherever its value is |
| Name mangling (`NameMangling.h`) | – | mangle | object writers | – |
| Object and debug writers (`ElfFileWriter*`, `ObjFileWriter*`, `LSDAGenerator.h`, `CodeViewDebug*`) | sections, symbols | add, write | driver | – |
| Support (`Log.h`, `CrashHandler.h`, `AllocationTracker.cpp`), vendored `elfio`, `coffi` | – | – | – | – |

Behaviours that are hard to test, with their lines, are the `hazards` of `PROJECT.json`.

## 2. Modules

| Module | Models | Its state in the code |
|---|---|---|
| `BacktrackingReader` | what a caller of the token stream may rely on: one position, bookmarks | abstract specification |
| `TokenCursor` | the token stream | `cursor` = lexer position, `current_token_`, `injected_token_`; `saved_tokens`, `next_save_handle` as in `Parser.h` |
| `TokenCursor_proofs` | proofs about `TokenCursor` | |
| `TopLevelNodes` | the node list while parsing | the vectors, sets and queue of `Parser.h` under their own names; `symbols` is what `gSymbolTable` knows; `walk` is the loop of `cleanupAstNodesAfterRestore`; `since` and `fronts` are history |
| `TopLevelNodes_proofs` | proofs about `TopLevelNodes` | |
| `Preprocessor` | the line loop of the preprocessor over a set of files, and the second walk of the parser over packing pragmas | `frames` is the C++ call stack of `readFile` with the two stacks of each; macros, the line map and the packing state under their own names |
| `Preprocessor_proofs` | proofs about `Preprocessor` | |
| `LazyMembers` | lazy members from registration to the end of the drain | `lazy_members` and `odr_used` are the registry; `stack` is the C++ call stack of materializations and normalizations; `snapshot`, `progressed` are locals of `drainLazyMemberRegistry` |
| `LazyMembers_proofs` | proofs about `LazyMembers` | |
| `PostParse` | the initial semantic pass and the generation loop over the live list | `node_index` is the index of the loop under way, `stack` the visits and root batches on the C++ call stack |
| `PostParse_proofs` | proofs about `PostParse` | |
| `DeferredEmission` | the deferred queues and the loops that drain them | queues and cursors under the names of `AstToIr.h` |
| `ScopeCleanup` | the visitors of statements, the destructor calls they emit, and the execution of the emitted code | `scopes`, `loops`, `label` are the stacks and the map of `AstToIr.h`; `open` is the C++ call stack of visitors; `alive` is what the running function has constructed |
| `AstToIr_proofs` | proofs about `DeferredEmission` and `ScopeCleanup`, the two parts of `AstToIr.h` | |
| `RegisterCache` | the integer instructions of the converter and the registers they use | `machine` holds what each register and slot contains, what the allocator believes, and the values the IR gave; one action per handler |
| `RegisterCache_proofs` | proofs about `RegisterCache` | |
| `ConversionRanks` | the rank of a conversion and the comparison of two | pure operators |
| `OverloadResolution` | the three searches of an overload set | `best`, `tied`: `best_match`, `tied_candidates`; `position` is the loop |
| `OverloadResolution_proofs` | proofs about `OverloadResolution` | |
| `MC*` | instances for TLC | |

The modules keep the control of the code and abstract its data. A token is its place in the text;
a top-level node, a member function or a body is a model value. What the body of a function does is
given by a *program*: for each body, the sequence of uses (calls, conversions, definitions of
lambdas and local structs, requests for instantiations) that reach the modelled operations. TLC
checks **every** program up to a number of uses; the proofs do not bound anything. `Preprocessor` takes
files as sequences of lines, `ScopeCleanup` and `RegisterCache` choose the next statement or
instruction in each state, and `OverloadResolution` starts from every sequence of declarations.

Correspondence worth knowing:

- `restore_token_position` is one C++ call. `TokenCursor` models what it does to the cursor,
  `TopLevelNodes` what it does to the list. There one iteration of the cleanup walk is one step, and
  every other action waits for the walk to end, as the call does.
- `peek_token(n)` saves, consumes, restores and discards; it uses up a handle, because handles are
  never reused.
- `registerAndNormalizeLateMaterializedTopLevelNode` is one step in `TopLevelNodes`, which only asks
  where nodes end up. In `PostParse` it opens up: the batch is a frame of the call stack and
  each root is visited, because there the order matters. A batch is what several calls of
  `registerLateMaterializedTopLevelNode` register, node by node, before
  `normalizePendingSemanticRoots` takes it.
- An exception in a visit unwinds every frame (`Throw` in `PostParse`). Semantic analysis does not
  catch it and the compilation ends; the generation loop catches it, counts a failure (a warning for
  a function whose signature was never substituted or whose `noexcept` still has its expression, a
  *probe*, `AstNodeTypes_DeclNodes.h:3531`) and goes on. A probe may request instantiations before it
  throws, like any other node. `dropped` remembers the nodes whose normalization an exception cut
  short, `shifts` counts the nodes inserted at the front during the initial pass.
- In `LazyMembers`, a *sibling* use is a call that semantic analysis resolved to the pattern's own
  declaration: it is only marked, and the drain materializes the member. A *call* goes through a receiver
  object and materializes the member at once. A *convert* is a conversion operator, which marks
  by name and then the whole class.
- Generating one body is one step of `DeferredEmission`, because the loops only look at the queues
  between bodies. `LocalStep` has a second outcome after the vector has grown: the code iterates
  with iterators of a vector that may have moved, which C++ leaves undefined.

- A body is *registered* in `LazyMembers` when its frame is pushed, before its uses are normalized
  (`RegisterBody`), and its member leaves the registry when the frame returns
  (`FinishMaterialization`): in between, the member can be found again.
- `Preprocessor`: one step is one line of the innermost file. What a line expands to is left out: macro
  bodies, calls that span lines, raw strings, and the labels of `#pragma pack`. A path is a sequence of
  directory components and a name, **as spelled**: `#include` joins the spelling of the including file's
  directory or of an include directory to what the directive writes (`Join`), and `processedHeaders_`
  keeps that. A program gives each spelling that exists the lines of its file; `File` is the file behind
  a spelling, which only `#include_next` looks at (`weakly_canonical`). Symbolic links and rooted names are left out.
  The reader ignores a packing that is no alignment; the parser rejects `pack(3)` and pushes `pack(push, 3)`.
- `ScopeCleanup` builds a function and runs it. An object knows where it is declared, so the model has
  the C++ scope of each object beside the scope the visitor opened for it, and each jump its
  target as C++ means it beside the one emitted. A forward `goto` takes its depth from
  `prescanLabels`, the label being in one of the open bodies. `Shapes` names the kinds of program for
  which the visitor and C++ disagree. Left out: `try`, `catch` and SEH, temporaries of full expressions, the
  init-statement of a range-`for` and the object its range is materialized in, case labels inside other
  statements, and the check on names in `registerVariableWithDestructor`.
- `RegisterCache`: operands are integers, whose sizes matter only in conversions; a conversion is of one of
  four kinds, by the code its handler emits for the two sizes (`Convert`). Two kinds of zero extension and `~`
  and `-` are encoded wrongly for some registers: the model does what the bytes say, marks the result as
  *spoiled*, and every slot once they reach the stack or frame pointer or store through a
  register. A temporary is used once, in the order of a stack; a literal is a variable that is not cached; a call may overwrite every register. Not modelled are
  floating-point registers, references, globals, stack arguments, the registers of exception
  funclets, and the final check at `IRConverter_ConvertMain.cpp:1598`, which none of these
  instructions reaches. A slot whose temporary was used is set to `Junk`, which keeps states few.
- `OverloadResolution` compares positions of the overload set; a function is its parameters, the number
  of required ones, and whether it is variadic, a template, or qualified. `MoreSpecialized` is what
  partial ordering of constructor templates says. `ConversionRanks` takes complete classes,
  one pointer at most, and tables for derivation and user-defined conversions. The table of the instances
  joins `int` and one class only; it leaves out conversions the code would find as well, by an operator of a base
  class or from `char` by a constructor from `int`. The properties and proofs hold for any table.

## 3. What the runs show

Every passing run checks the type invariant of its module. All bounds are constants of the `.cfg`.

| Run | Bounds | Shows |
|---|---|---|
| `cursor` | 5 tokens, three of them `>>`, two adjacent and one last; 3 handles; lookahead 2 | `CursorCoherent`: a waiting `>` always belongs to the token under the cursor, now and in each saved position. `ReadsLikeOneCursor`: `TokenCursor` implements `BacktrackingReader` |
| `nodes` | 2 user nodes (a function, a global), 3 instantiations (a struct, a constructor, a variable), 2 handles | `TagsExact`, `NoDuplicateRoots`, `InstantiationsReachSema`, `OnlyShiftedNodesAreLost` (a restore takes an older node only if a front insertion pushed it beyond the saved length) |
| `preproc` | three files in two directories, one of them with three spellings (`a/h`, `a/./h`, `b/../a/h`), inclusion 4 deep; all groups of up to 5 directives; a main file of up to 3 lines with 28 pairs of headers that include each other, by `#include_next` too; all comments and packings of up to 3 and 4 lines, with a number that is no alignment | `SkipsAsTheStandardSays` (a line is read exactly when every enclosing group has chosen its branch), `LineMapIsATree` (each line hangs on the `#include` that brought it in), `OnceContentOnce` (the lines of a header come once, with an include guard whatever the spelling of its path, with `#pragma once` for each spelling; provided no block comment begins on the guarding directives: TLC finds the second reading if one opens on the line of `#pragma once`), `BalancedPackInForce` (provided only alignments are pushed), `Terminates` |
| `lazy` | 2 instantiations with 4 and 1 members (three overloads, one `const`; a conversion operator); all programs of 3 uses without mutual recursion through receivers | `EachBodyOnce`, `UsedMembersHaveBodies` (the drain does not stop too early), `ProbedClassesStayDormant`, `Terminates` |
| `postparse` | 7 nodes, 2 of them variables, 1 probe; all programs of 2 requests | `GeneratedOnce`, `NoNodeSkipped`, `OnlyShiftedRootsAreMissed`, `Terminates` |
| `emission` | functions of each kind; all programs of 3 uses, two orders of the list | `CalledFunctionsEmitted`, `CollectedInTimeIsEmitted`, `Terminates` |
| `cleanup` | 5 statements, 2 objects, 2 statements with bodies, one label; no shape of `Shapes` | `AliveIsInScope` (at a label the objects alive are those in scope), `DestroyedInReverse`, `PrescanMirrorsVisitor` (both walks count the same depth), `JumpsGoWhereMeant` |
| `cleanup_goto` | the same, with `goto` over declarations and into other blocks | *violation*: a jump between blocks of one depth keeps an object alive out of its scope |
| `registers` | 4 registers, those with a fixed use among them; 1 variable, 4 temporaries; up to the second slot that lost its value | `CachedMeansDirty`, `ReadsFindTheirValue` (a value is lost only to an instruction with fixed registers or one that is encoded wrongly, and to what is computed from such a value), `StoresAtAJoinHitNoOlderSlot` |
| `registers_fixed` | the same | *violation*: a shift, an increment or an assignment overwrites a register that caches a temporary |
| `overload` | every sequence of up to 3 of 15 functions of one parameter and of 10 of three, 10 calls, all three searches | `BestIsChosen`, `OrderedChoiceBeatsTheRest` |
| `overload_order` | the same, functions only | *violation*: a candidate that was dropped is not beaten by the one selected |

Further configurations show more of what goes wrong; the property of each is violated. They are not
among the runs of `PROJECT.json`.

| Configuration | Property | What happens |
|---|---|---|
| `MCTopLevelNodesShift` | `RestoreKeepsEarlierNodes` | a global listed before the save is erased by the restore |
| `MCTopLevelNodesLost` | `KnownInstantiationsListed` | a variable instantiation is erased while the symbol table keeps it, so no later use lists it again |
| `MCPreprocessorComment` | `CommentsRemoveOnlyThemselves` | code in front of a block comment that ends on a later line is dropped |
| `MCLazyMembersOverload` | `OnlyUsedMembersAreMarked` | marking an overload that was just materialized marks another one |
| `MCLazyMembersReentrant` | `NoReentrantMaterialization` | a materialization re-enters itself without end |
| `MCPostParseShift` | `NormalizedBeforeGenerated` | a front insertion under the initial pass hides a node from it |
| `MCDeferredEmissionScan` | `DeducedLambdasEmitted` | the scan window moves past a generic lambda that is deduced later |
| `MCDeferredEmissionSkipped` | `NothingCollectedIsSkipped` | a lambda in a deferred inline function is never generated |

`ScopeCleanup` with one shape at a time in `Shapes` violates, besides `goto`: `AliveIsInScope` and
`DestroyedInReverse` with `list`, `single`, `switch` and `if`; `JumpsGoWhereMeant` with `continue`.

Why the bounds are enough: the properties relate at most two saves, or one save and one insertion,
or a body and one it uses. Two handles give nested and overlapping saves; three `>>` give a split
next to another and a split at the end of the text; two variables and two functions give a batch, a
repeated request and an insertion on either side of the cursor; three uses give each chain *body
queues body queues body* and each *use before, while and after*. `MaxDepth` = 7 is above the
depth any program of `lazy` reaches, so it cuts nothing there; in `MCLazyMembersReentrant` it is where
the unbounded recursion is cut off.

In `preproc` the depth of 4 is passed by every file that includes itself. In `cleanup` two objects and
two nested bodies are the least in which a jump leaves an outer object alone and destroys an inner
one. In `registers` four temporaries in four registers, one of them busy with an operand, force a
spill while an operand of the same instruction is held. In `overload` three declarations are one that
is best, one that it displaces and one that was tied before.

What the violations show was reproduced with the built compiler. So were these, met on the way:

- Preprocessor: a macro that names itself is expanded about a thousand times; directives inside a
  multi-line raw string are executed; an unmatched `#else` is accepted, and a stray `#endif` fails on
  the next line only; `#pragma pack(push, 1)` without a pop is in force when the parser starts;
  a directory given twice makes `#include_next` go back; a header with `#pragma once` included as `"h.h"`,
  `"./h.h"` and `"sub/../h.h"` is read three times; after `#pragma pack(push, 1)`, `pack(push, 3)`, `pack(pop)`,
  `pack(2)`, `pack(pop)` the structs in front of them are laid out with a packing of 2.
- Scopes: a body of nothing but declarations gets no scope (a loop made 6 objects and destroyed 2); a
  declaration that is a body by itself, or stands directly in a `switch`, is destroyed on the wrong
  paths; an object in the head of an `if` in a loop without braces is destroyed once for three;
  `continue` in a `switch` in a loop leaves the `switch`.
- Registers: `(a+b)*((c+d)+(e<<g))`, `(a+b)+i++` and `(a+b)*(x=5)` compute a wrong value; `-x` and `~x` in
  R8 and above are encoded as another instruction, and so is `unsigned` widened to `unsigned long` there (with
  nine values pending it becomes a store through `rsp`); `unsigned char` widened to `unsigned long` copies the
  new register over the old; RBX is used without being saved.
- Overloads: `f(5)` takes `f(int*)` before `f(long)`; `f(&x)` takes `f(int)` before `f(const void*)`; an
  `int*` is passed to `f(int)`; a `char` is promoted to `unsigned`, so `f(int)` and `f(unsigned)` are
  ambiguous; for a variable of type `int`, `f(int)` is preferred to `f(const int&)` where the standard
  finds them ambiguous; of two bases the nearer one is not preferred. `ConversionRanks` says all
  of this, since it is translated from the code; no property here compares the ranks with the standard.
- Templates: two class templates of one name in two namespaces share their instantiations; a failed
  `static_assert` in a class template is logged and the class is used.
- Deferred work: members of a local struct that is defined in a member of another local struct are
  outside the range of the loop that generates them (`IrGenerator_Visitors_TypeInit.cpp:344`), which
  is why `CollectedInTimeIsEmitted` has its condition `~VectorGrew`.

Each property has a mutant: an operator of the module, marked *Mutant*, that changes one definition
the way a plausible slip would, and under which the run finds the property violated.

## 4. Fairness

The compiler is one thread that stops only when it is done, so the specifications of the loops
(`LazyMembers`, `PostParse`, `DeferredEmission`, `Preprocessor`) have weak fairness of `Next` and
nothing stronger: some step is taken as long as one is possible. No choice between steps is assumed
fair. The other modules have no fairness: `TokenCursor` and `TopLevelNodes` are libraries the
parser may stop calling, and in `ScopeCleanup`, `RegisterCache` and `OverloadResolution` nothing is
claimed to happen eventually.

Deadlock is checked, except where the end of a program is a state without a step: `Preprocessor`,
`ScopeCleanup` and `OverloadResolution`. In the other modules a finished compilation stutters in an explicit
last action (`Terminated`, `Stopped`, `Done`).

## 5. What is proved

TLAPS checks the following for every value of the constants that satisfies the named assumptions. The
assumptions speak of the input only (what the parser hands over, what a program may say), and TLC
evaluates them in every run.

`TokenCursor_proofs`, from `TextAssumption`, `BoundAssumption` and `NoneAssumption` (an empty slot
is not a token or a position):

- `TypeCorrect`: `TypeOK`, which is inductive alone.
- `Coherence`: `CursorCoherent`. Coherence of the cursor alone is not inductive, since a restore
  makes any saved position the cursor; the invariant says it of all live saves too. The lemma on
  `AheadOf` is not needed: `peek_token` puts back the position it saved.
- `Implements`: every step of the token stream is a step of the plain reader or a stutter. Needs
  coherence: the reader knows the next position from the current token alone, the code from the
  lexer and the injected token.

`TopLevelNodes_proofs`, from `NodeAssumption`, `BoundAssumption`, `NoneAssumption`:

- `TypeCorrect`: the list and its tags have one length and the walk stays inside.
- `TagsStayExact`, `RootsStayUnique`, `ReachSema` from one inductive invariant (`ListExact`,
  `VariablesKnown`): tags, keys and list agree, no node is listed twice, and a variable
  instantiation that is listed is in the symbol table. The last part is needed because a front
  insertion is guarded by the symbol table alone.
- `DeclarationsStay`: the only step that unlists a node is the erasure of `CleanupStep`
  (lemma `OnlyErasureUnlists`), and it spares functions and structs.
- `OnlyShifted`, `UnshiftedStay` from the inductive invariant `SavesInv`: nodes listed since a
  save are at most as far back as the saved length plus the front insertions since, they are all
  listed, and the floor of a walk is the length its handle saved.

`Preprocessor_proofs`, for any files, directories and depth, from `PreprocessorAssumption`:

- `ReaderTypeOK`, `ReaderSkippingNests`, `ReaderLineMapIsATree`: the two stacks of each file have one
  height; once reading is off, nothing inside the group turns it on; every line's parent is an earlier
  line, the `#include` of the file. The parent needs an invariant on the whole call stack: each frame
  knows the line it was entered from, and that line is mapped before the next frame is pushed.
- `ReaderSkipsAsTheStandardSays`. The standard's reading is defined on the directives seen so far, the
  code's on two stacks of flags. The invariant `MirrorInv` ties them level by level: the group at each
  height of the stacks is one that is open in the text, its flag is off exactly when the branch under
  way or an enclosing one is not chosen, and a branch is still untried exactly when none was chosen.
- `ReaderOnceContentOnce`, from two invariants of the whole call stack. `OnceInv`, for each spelling: a header
  with `#pragma once` is open at most once, is among the headers seen as soon as a line of it has been
  read, and its lines in the output are in order and behind its reader. `GuardInv` says the same of all
  spellings of a file together (`Spellings`) between the `#ifndef` and the `#endif` of its include guard, with
  the macro in the place of the set of headers; it needs that no file undefines that macro, which `Guarded` says,
  and that all spellings of a file have its lines, which `PreprocessorAssumption` says.
- `ReaderBalancedPackInForce`: the packing of the reader is that of all lines passed on, and the parser,
  which starts from it, is at each line where the packing written so far takes it, as long as nothing but
  alignments is pushed (`PackInv`).

`LazyMembers_proofs`, for any program, recursive ones included except where said, and any depth of the
stack:

- `TypeCorrect` and `Dormant` (`ProbedClassesStayDormant`). The invariant: every entry of the registry is of an
  instantiated class, every member on the call stack or marked is of a class that a begun body uses.
  Bodies once begun stay begun, so a class nobody uses is never reached, not even by the
  fallback by name and the marking of a whole class.
- `EveryUseServed` (`UsedMembersHaveBodies`), recursion included. The invariant `DrainInv`: each use of
  a begun body is served, marked, or still to come in a frame of the stack; a member of an
  instantiated class is registered as lazy until it has its body; a pass that materialized something is
  followed by another. `SiblingAssumption`, that the user's code names instantiations only, is needed:
  a sibling call is marked in the class of the body that makes it.
- `NoReentry` (`NoReentrantMaterialization`), for programs that are not recursive through receivers
  and conversions: a frame opens the next one by a use of its body (`Chained`), such a program ranks
  its bodies (`NonRecursive`), and ranks rise along the stack. The hypothesis cannot go, as
  `MCLazyMembersReentrant` shows.
- `RegisteredOnce` (`EachBodyOnce`), for the same programs. A body is registered before it is
  normalized, and its member stays in the registry until its frame returns: meanwhile every lookup
  still finds it and would register it again. The invariant `OnceInv` says that a live member with a
  body has its frame on the stack, and by `NoReentry` no second frame of it can be opened there. In a
  recursive program the re-entry does register the body again, so the hypothesis cannot go.

`PostParse_proofs`, for any program, any number of front insertions and exceptions:

- `TypeCorrect`, `OnceGenerated` (`GeneratedOnce`), `NothingSkipped` (`NoNodeSkipped`). The invariant: the list
  names each node once, and the cursor cuts it in two, in front of it what is generated or was
  inserted behind it, from it on what is not generated. A front insertion shifts the cut, and the
  loop finds it again by the identity of the node under generation. `OnceAssumption`: parsing lists
  no node twice, which is `NoDuplicateRoots` of `TopLevelNodes`, and no batch holds a node twice.
- `OnlyShiftedMissed` (`OnlyShiftedRootsAreMissed`): in the initial pass every known node is
  normalized, under way, or still to be visited below the bound of the loop (`MissedInv`). Each
  front insertion pushes at most one node beyond that bound, so what code generation meets without
  normalization is a set of at most `shifts` nodes, besides those an exception dropped.

`AstToIr_proofs` about `DeferredEmission`, for any functions, any order of the list and any program, recursive ones
included, from `KindAssumption`, `MembersAssumption` (a member is one of the members of its owner),
`ProgramAssumption` and `CallAssumption` (what is called as a static member is one, and the inline functions called are
nodes of the list):

- `TypeCorrect`, `CallsEmitted` (`CalledFunctionsEmitted`), `CollectedEmitted`
  (`CollectedInTimeIsEmitted`). One inductive invariant: what a generated body calls was requested
  (`CallsInv`); a request is generated or ahead of the cursor of one of the loops (`RequestsInv`); an
  inline function the first loop went by was generated or put aside, so a request that comes later
  finds it there (`VisitedInv`); the loops end in the order written, and the last two only together
  (`PhaseInv`); what lies behind the cursors of lambdas and local members is generated
  (`LambdaInv`, `LocalInv`, the latter until the vector grows under its loop).

`AstToIr_proofs` about `ScopeCleanup`, for any kinds and shapes of statements and any bounds on the program:

- `CleanupTypeCorrect` (`CleanupTypeOK`), `DepthsAgree` (`PrescanMirrorsVisitor`), and, where no
  `continue` stands in a `switch` in a loop (`"continue" \notin Shapes`; with it the property is
  violated, section 3), `JumpsGoRight` (`JumpsGoWhereMeant`). The invariant (`NestingInv`) relates the
  visitor's two stacks to the open statements: only the function lies at the bottom, the head of a
  statement always has a body on it (`Nested`); the scopes are as many as the entries that
  prescanLabels counts (`Fits`); and the stack of loops is the sequence of the open statements that
  `break` may leave, each with the depth at which its scope lies (`LoopsFit`), so its last entry is the
  innermost of them, which `break` and `continue` look for.
- `AliveAsInScope` (`AliveIsInScope`) and `YoungestDestroyed` (`DestroyedInReverse`), for the shapes the
  visitor is right about (`Shapes \subseteq {"continue"}`; each other shape violates one of them,
  section 3). The invariant (`ScopeInv`) gives every instruction emitted the sequence of
  objects alive when it is reached: from one instruction to the next it changes as the instruction says
  (`Trace`), and behind a jump it is what the visitor takes for granted, the objects in scope. All jumps to
  the labels of a construct agree on one sequence, recorded for its number (`At`); each open statement
  keeps the record true (`EntryHolds`), and what is in scope around it is what is registered in the scopes
  open around it (`Stack`), so leaving scopes (`FlowExit`) and leaving statements destroy the same objects.
  Nothing is known of a goto forward before its label is visited: the invariant keeps with each goto what
  it leaves alive and what is in scope at it, and an open body that may still hold the label agrees
  with every goto that C++ would let jump there (`Settles`); a declaration in that body ends that, since no
  goto before it had the object in scope. When the function runs, the invariant is
  that what is alive is what the instruction was given (`Running`).

`RegisterCache_proofs`, for any registers, variables and number of temporaries, from `SlotsAssumption` and
`RegistersAssumption`: RAX and RCX stand before RDX in the order of allocation (`IRConverter_ABI.h`), and
the search for a scratch register has, for each register to be avoided, another one to offer
(`IRConverter_ConvertMain.cpp:9700`). The first keeps RDX, which a division
overwrites, from holding one of its operands.

- `TypeCorrect`, `BoundIsDirty` (`CachedMeansDirty`), `StoresSafe` (`StoresAtAJoinHitNoOlderSlot`),
  `ReadsRight` (`ReadsFindTheirValue`). Each handler is a composition of few operations on the machine, and a
  lemma says of each operation what it keeps. The invariant: a register that caches a slot is allocated
  and dirty, and the slot is a temporary that no pending jump still needs (`Good`); every
  variable and pending temporary that was not spoiled reads as its true value, from each register bound to
  it or else from the frame (`Sound`); pending temporaries are distinct; and what a jump needs at its label
  was in the frame when it was taken (`Jumped`), since a jump flushes and its label unbinds. Of an
  instruction encoded wrongly the proof uses only that it binds no other register and spoils what it hits
  (`Upset`), so the numbers of the registers are arbitrary.

`OverloadResolution_proofs`, for any declarations, in any order, and any call:

- `TypeCorrect`, `BestChosen` (`BestIsChosen`), `ChoiceIsExact` (`OrderedChoiceBeatsTheRest`), for all three
  searches. The argument is that beating is asymmetric (lemma `BeatsAsymmetric`): a function that beats
  all others is alone in front once it was examined, and under transitivity what the scan dropped is beaten
  by whatever displaced its victor. The comparison of every pair keeps the only one that none beats. Each
  other one is beaten by one that none beats, hence by that one (`AloneBeatsTheRest`): otherwise take
  one that it does not beat and that the fewest beat; what beats it is beaten by fewer still (`FewerAbove`).

The provers cannot use an induction theorem, which takes an operator; where a proof needs induction on a number
(the folds of `PackWritten`, the queues, the last argument above) it uses that the natural numbers
are well-founded and takes a least element (lemma `NaturalInduction`).

Only model-checked: `Terminates`, since liveness under fairness is out of the prover's reach. What a
recursive definition returns for every input (`AheadOf`) is not stated either; no proof here needs it.

## 6. What is not modelled

- Data that no property here tells apart: characters, types, values, IR instructions, object bytes.
- The lexer's own state beyond its position, and the parts of `SavedToken` that restore error
  positions and the namespace context.
- `TopLevelNodes` does not model exceptions. One that is caught during parsing may drop the rest of a batch,
  but `run()` clears the queue (`SemanticAnalysis.cpp:1523`) and its first pass visits every listed
  node again; during code generation, where nothing visits them again, it is in `PostParse`.
- The retry of receiver calls between two drains and the second drain (`SemanticAnalysis.cpp:1543-1547`):
  `LazyMembers` models one drain. The number of rounds in the code is fixed, so a call that only a
  third round could resolve stays unresolved.
- The components listed as `not_modelled` in `PROJECT.json`, each with its reason.

## 7. Plan

Done, in this order: the token stream, the node list, lazy members, the two passes over the list,
deferred emission, the preprocessor, scopes and destructors, the register cache, overload resolution;
proofs about all of them.

Next, most important first:

1. `ConversionRanks` against the standard's own ranks for scalars and pointers, and binary operators
   (`OverloadResolution.h:2368-2970`), whose candidates are compared in two rounds.
2. `ScopeCleanup` with `try` and `catch`: the cleanup an exception runs on the way.
3. `RegisterCache` with floating-point registers and arguments on the stack.
4. `SpeculativeParse`: `TokenCursor` and `TopLevelNodes` composed, with the scope guards of
   `ParserScopeGuards.h`: a failed speculation leaves no trace but instantiations.
5. The cache of class instantiations, its keys and its early registration of incomplete classes.
6. `SymbolTable`: scopes, overload sets and using-directives against a reference lookup.

## 8. Running

    tlc -workers 2 -config MCTopLevelNodes.cfg MCTopLevelNodes.tla
    tlapm TopLevelNodes_proofs.tla

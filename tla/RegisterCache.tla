---------------------------- MODULE RegisterCache ----------------------------
(***************************************************************************)
(* The general-purpose registers as the code generator hands them out       *)
(* (RegisterAllocator in IRConverter_ABI.h and the instruction handlers of  *)
(* IRConverter_ConvertMain.cpp).  A register may be bound to a stack slot,  *)
(* whose value it then caches; a dirty register has still to be stored.     *)
(*                                                                          *)
(* One step of the model is one IR instruction: what its handler does to    *)
(* the allocator and, at once, what the machine code it emits does to the   *)
(* registers and to the frame.  Instructions follow the expressions of a    *)
(* C++ function: a temporary is the result of one instruction and the       *)
(* operand of one, and the pending ones form a stack.                       *)
(***************************************************************************)
EXTENDS Naturals, Sequences, FiniteSetsExt

CONSTANTS
  Order,        \* the general-purpose registers in the order they are tried
  RAX, RCX, RDX,
  CallerSaved,  \* the registers a call may overwrite by the convention
  ScratchOrder, \* registers a division may take for its divisor, in order
  Parameter,    \* the register of the first integer argument
  Number,       \* the number of each register in the encoding of an instruction
  Names,        \* the slots of the function's variables
  MaxTemps,     \* bound: temporaries of one function
  None,         \* no slot: stackVariableOffset is INT_MIN
  Junk          \* a value that is not the value of any slot

Registers == {Order[i] : i \in DOMAIN Order}
Temps     == 1..MaxTemps
Slots     == Names \cup Temps
Values    == Slots \cup {Junk}

ASSUME RegistersAssumption ==
  /\ Order \in Seq(Registers)
  /\ {RAX, RCX, RDX, Parameter} \cup CallerSaved \subseteq Registers
  /\ RAX # RCX /\ RCX # RDX /\ RAX # RDX
  /\ \A i, j \in DOMAIN Order : Order[i] = Order[j] => i = j
  /\ \A q \in {RAX, RCX} : \E i, j \in DOMAIN Order : Order[i] = q /\ Order[j] = RDX /\ i < j
  /\ ScratchOrder \in Seq(Registers \ {RAX, RDX})
  /\ \A r \in Registers : \E i \in DOMAIN ScratchOrder : ScratchOrder[i] # r
  /\ Number \in [Registers -> 0..15]

ASSUME SlotsAssumption ==
  /\ MaxTemps \in Nat
  /\ None \notin Slots /\ Junk \notin Slots
  /\ Names \cap Temps = {}

VARIABLES
  machine,  \* [regs, val, mem, spoiled]: see TypeOK
  truth,    \* what the IR says each slot holds
  pending,  \* the temporaries computed and not used yet, oldest first
  count,    \* the temporaries the function has used
  jump      \* the last conditional jump that has not arrived, or None

vars == <<machine, truth, pending, count, jump>>

Free     == [alloc |-> FALSE, dirty |-> FALSE, slot |-> None]
\* Mutant: a reserved register is taken for the cache of the slot at offset 0.
ReservedAtZero == [Free EXCEPT !.alloc = TRUE, !.slot = 0]
Reserved == [Free EXCEPT !.alloc = TRUE]

Machines == [regs    : [Registers -> [alloc : BOOLEAN, dirty : BOOLEAN, slot : Slots \cup {None}]],
             val     : [Registers -> Values],    \* the register's content
             mem     : [Slots -> Values],        \* the frame
             spoiled : SUBSET Slots]             \* slots whose value a handler lost

Live == {pending[i] : i \in DOMAIN pending}

-----------------------------------------------------------------------------
(* The allocator.  Every operator takes a machine and returns one.          *)

Bound(m, s) == {i \in DOMAIN Order : m.regs[Order[i]].slot = s}
Cached(m, s) == Bound(m, s) # {}
CachedIn(m, s) == Order[Min(Bound(m, s))]

\* A slot as the next instruction that uses it reads it.
Read(m, s) == IF Cached(m, s) THEN m.val[CachedIn(m, s)] ELSE m.mem[s]

Spill(m, r) == [m EXCEPT !.mem[m.regs[r].slot] = m.val[r]]

\* Mutant: a flushed register stays bound to its slot.
FlushKeepingBindings(m) ==
  LET dirty == {r \in Registers : m.regs[r].dirty} IN
  [m EXCEPT
     !.mem  = [s \in Slots |-> IF \E r \in dirty : m.regs[r].slot = s
                               THEN m.val[CHOOSE r \in dirty : m.regs[r].slot = s]
                               ELSE @[s]],
     !.regs = [r \in Registers |-> [@[r] EXCEPT !.dirty = FALSE]]]

\* flushAllDirtyRegisters: dirty registers are stored and no longer bound.
FlushAll(m) ==
  LET dirty == {r \in Registers : m.regs[r].dirty} IN
  [m EXCEPT
     !.mem  = [s \in Slots |-> IF \E r \in dirty : m.regs[r].slot = s
                               THEN m.val[CHOOSE r \in dirty : m.regs[r].slot = s]
                               ELSE @[s]],
     !.regs = [r \in Registers |-> IF r \in dirty
                                   THEN [@[r] EXCEPT !.dirty = FALSE, !.slot = None]
                                   ELSE @[r]]]

Release(m, r) == [m EXCEPT !.regs[r] = Free]

Forget(m, s, keep) ==
  [m EXCEPT !.regs = [r \in Registers |-> IF @[r].slot = s /\ r \notin keep
                                          THEN [@[r] EXCEPT !.slot = None, !.dirty = FALSE]
                                          ELSE @[r]]]

Bind(m, r, s) ==
  [Forget(m, s, {r}) EXCEPT !.regs[r] = [alloc |-> TRUE, dirty |-> TRUE, slot |-> s]]

\* The first free register, else the first clean one, else the first one.
Pick(m, exclude) ==
  LET usable == {i \in DOMAIN Order : Order[i] \notin exclude}
      free   == {i \in usable : ~m.regs[Order[i]].alloc}
      clean  == {i \in usable : ~m.regs[Order[i]].dirty}
  IN Order[Min(IF free # {} THEN free ELSE IF clean # {} THEN clean ELSE usable)]

\* A register as the allocator returns it.
Taken(m, r) == [m |-> [m EXCEPT !.regs[r] = [@ EXCEPT !.alloc = TRUE]], reg |-> r]

\* Mutant: a register in use is taken and its value not stored.
TakeWithoutStore(m, r) == [m |-> [m EXCEPT !.regs[r] = Reserved], reg |-> r]

\* Takes a register; one that is in use is stored, if dirty, and released.
Take(m, r) ==
  IF ~m.regs[r].alloc THEN Taken(m, r)
  ELSE IF m.regs[r].dirty /\ m.regs[r].slot # None THEN Taken(Release(Spill(m, r), r), r)
  ELSE Taken(Release(m, r), r)

Allocate(m, exclude) == Take(m, Pick(m, exclude))

\* A slot's value loaded into a register of its own, apart from those in busy.
Apart(taken, busy) == IF taken.reg \in busy THEN Allocate(taken.m, busy) ELSE taken
Loaded(taken, v) ==
  [taken EXCEPT !.m.val[taken.reg] = v, !.m.regs[taken.reg].dirty = FALSE]
Load(m, s, busy) == Loaded(Apart(Allocate(m, {}), busy), m.mem[s])

Operand(m, s, busy) ==
  IF Cached(m, s) THEN [m |-> m, reg |-> CachedIn(m, s)] ELSE Load(m, s, busy)

\* Code that writes a register without asking the allocator for it.
Overwrite(m, r, v) ==
  [m EXCEPT !.val[r] = v,
            !.spoiled = IF m.regs[r].slot # None /\ v # m.val[r] THEN @ \cup {m.regs[r].slot} ELSE @]

\* Code that writes a register by its number.  The allocator knows all but the
\* stack and the frame pointer: without those no slot is where it was.
Numbered(k) == {r \in Registers : Number[r] = k}
Lost(m) == [m EXCEPT !.spoiled = Slots]
OverwriteNumbered(m, k, v) ==
  IF Numbered(k) = {} THEN Lost(m) ELSE Overwrite(m, CHOOSE r \in Numbered(k) : TRUE, v)
Content(m, k) == IF Numbered(k) = {} THEN Junk ELSE m.val[CHOOSE r \in Numbered(k) : TRUE]
-----------------------------------------------------------------------------
(* Arithmetic.                                                              *)

\* Both operands in registers; the left one's becomes the temporary result's,
\* after what it cached has been stored.
Claim(m, r, dest) ==
  IF m.regs[r].dirty /\ m.regs[r].slot \notin {None, dest} THEN Bind(Spill(m, r), r, dest)
  ELSE Bind(m, r, dest)

BothOperands(lhs, rhs, dest) ==
  [m   |-> IF dest \in Temps THEN Claim(rhs.m, lhs.reg, dest) ELSE rhs.m,
   lhs |-> lhs.reg, rhs |-> rhs.reg]
RightOperand(lhs, r, dest) == BothOperands(lhs, Operand(lhs.m, r, {lhs.reg}), dest)
Setup(m, l, r, dest)       == RightOperand(Operand(m, l, {}), r, dest)

\* The result goes to its slot; a temporary's is cached too.  A register named
\* by the instruction (fixed) is released when the slot had another place.
StoreVariable(m, src, fixed) == IF fixed THEN Release(m, src) ELSE m

StoreTemporary(m, src, dest, fixed) ==
  IF Cached(m, dest) THEN StoreVariable(m, src, fixed) ELSE Bind(m, src, dest)

StoreResult(m, src, dest, fixed) ==
  IF dest \in Names THEN StoreVariable([m EXCEPT !.mem[dest] = m.val[src]], src, fixed)
  ELSE StoreTemporary(Forget([m EXCEPT !.mem[dest] = m.val[src]], dest, {src}), src, dest, fixed)

\* What an instruction computes: its own value from the right operands.
Computed(fresh, right) == IF right THEN fresh ELSE Junk

Combine(m, left, right, l, r, fresh) ==
  Computed(fresh, m.val[left] = truth[l] /\ m.val[right] = truth[r])

ReleaseUnless(m, r, kept) == IF r \in kept THEN m ELSE Release(m, r)

ArithmeticFrom(s, l, r, dest, fresh) ==
  ReleaseUnless(
    StoreResult([s.m EXCEPT !.val[s.lhs] = Combine(s.m, s.lhs, s.rhs, l, r, fresh)],
                s.lhs, dest, FALSE),
    s.rhs, {s.lhs})

ArithmeticCode(m, l, r, dest, fresh) == ArithmeticFrom(Setup(m, l, r, dest), l, r, dest, fresh)

\* A shift count has to be in RCX: the left operand leaves it first.
MoveFromRCX(taken, rhs, v) ==
  [m |-> Release([taken.m EXCEPT !.val[taken.reg] = v], RCX), lhs |-> taken.reg, rhs |-> rhs]
LeaveRCX(s) ==
  IF s.lhs # RCX THEN s
  ELSE MoveFromRCX(Allocate(FlushAll(s.m), {RCX, s.rhs}), s.rhs, s.m.val[RCX])

ShiftBy(m, s, first, l, r, dest, fresh) ==
  ReleaseUnless(
    StoreResult([m EXCEPT !.val[s.lhs] = Combine(m, s.lhs, RCX, l, r, fresh)],
                s.lhs, dest, FALSE),
    s.rhs, {s.lhs, first})

ShiftFrom(s, first, l, r, dest, fresh) ==
  ShiftBy(Overwrite(s.m, RCX, s.m.val[s.rhs]), s, first, l, r, dest, fresh)

ShiftOperands(s, l, r, dest, fresh) == ShiftFrom(LeaveRCX(s), s.lhs, l, r, dest, fresh)

ShiftCode(m, l, r, dest, fresh) == ShiftOperands(Setup(m, l, r, dest), l, r, dest, fresh)

\* Division works in RAX and RDX, which are emptied and reserved for it.
ReserveDivision(m) == [FlushAll(m) EXCEPT !.regs[RAX] = Reserved, !.regs[RDX] = Reserved]

\* The divisor moves out of RAX before the dividend moves in.
Scratch(lhs) == ScratchOrder[Min({i \in DOMAIN ScratchOrder : ScratchOrder[i] # lhs})]
MoveDivisor(s, scratch) ==
  [s EXCEPT !.rhs = scratch, !.m.regs[scratch] = Reserved, !.m.val[scratch] = s.m.val[RAX]]
KeepDivisor(s) == IF s.rhs # RAX THEN s ELSE MoveDivisor(s, Scratch(s.lhs))

\* RAX gets the dividend, RDX its sign, then they get quotient and remainder.
Dividend(s) == [s EXCEPT !.m = Overwrite(Overwrite(s.m, RAX, s.m.val[s.lhs]), RDX, Junk)]
Quotient(s, v) == [s EXCEPT !.m.val[RAX] = v, !.m.val[RDX] = v]
Divided(s, l, r, fresh) == Quotient(s, Combine(s.m, RAX, s.rhs, l, r, fresh))

Division(m, l, r, dest, fresh) ==
  Divided(Dividend(KeepDivisor(Setup(ReserveDivision(m), l, r, dest))), l, r, fresh)

DivideFrom(s, dest) ==
  Release(Release(StoreResult(s.m, RAX, dest, TRUE), s.rhs), RDX)

ModuloFrom(s, dest) ==
  Release(Release(Release([s.m EXCEPT !.mem[dest] = s.m.val[RDX]], s.lhs), s.rhs), RDX)

DivideCode(m, l, r, dest, fresh) == DivideFrom(Division(m, l, r, dest, fresh), dest)
ModuloCode(m, l, r, dest, fresh) == ModuloFrom(Division(m, l, r, dest, fresh), dest)

BinaryCode(kind, m, l, r, dest, fresh) ==
  CASE kind = "arithmetic" -> ArithmeticCode(m, l, r, dest, fresh)
    [] kind = "shift"      -> ShiftCode(m, l, r, dest, fresh)
    [] kind = "divide"     -> DivideCode(m, l, r, dest, fresh)
    [] kind = "modulo"     -> ModuloCode(m, l, r, dest, fresh)

-----------------------------------------------------------------------------
(* The IR instructions.                                                     *)

\* The operands of an instruction are variables or the youngest temporaries.
Rest(n) == SubSeq(pending, 1, Len(pending) - n)
Youngest(n) == pending[Len(pending) - n]

OperandPairs ==
  {<<x, y, 0>> : x \in Names, y \in Names}
    \cup (IF Len(pending) > 0
          THEN UNION {{<<x, Youngest(0), 1>>, <<Youngest(0), x, 1>>} : x \in Names} ELSE {})
    \cup (IF Len(pending) > 1 THEN {<<Youngest(1), Youngest(0), 2>>} ELSE {})

SingleOperands ==
  {<<x, 0>> : x \in Names} \cup (IF Len(pending) > 0 THEN {<<Youngest(0), 1>>} ELSE {})

\* A slot written from slots is spoiled if one of them was, and a variable that
\* is written soundly is no longer.
Inherit(m, dest, from) ==
  [m EXCEPT !.spoiled = IF from \cap @ # {} THEN @ \cup {dest} ELSE @ \ ({dest} \cap Names)]

\* What the temporaries that were used up left behind is not told apart.
KeepSlots(f, live)   == [s \in Slots |-> IF s \in Names \cup live THEN f[s] ELSE Junk]
KeepMachine(m, live) ==
  [m EXCEPT !.mem = KeepSlots(@, live), !.spoiled = @ \cap (Names \cup live),
            !.val = [r \in Registers |-> IF m.regs[r].slot \in Names \cup live THEN @[r] ELSE Junk]]

\* The end of an instruction: its result is in dest, computed from slots.
Finish(m, dest, from, value, rest) ==
  LET live == {rest[i] : i \in DOMAIN rest} IN
  /\ machine' = KeepMachine(Inherit(m, dest, from), live)
  /\ truth' = KeepSlots([truth EXCEPT ![dest] = value], live)
  /\ pending' = rest

Init ==
  /\ machine = [regs    |-> [r \in Registers |-> Free],
                val     |-> [r \in Registers |-> Junk],
                mem     |-> [s \in Slots |-> IF s \in Names THEN s ELSE Junk],
                spoiled |-> {}]
  /\ truth = [s \in Slots |-> IF s \in Names THEN s ELSE Junk]
  /\ pending = <<>>
  /\ count = 0
  /\ jump = None

\* l op r, into a temporary, or into l itself: a compound assignment.
Binary(kind) ==
  /\ count < MaxTemps
  /\ count' = count + 1
  /\ \E ops \in OperandPairs :
       LET l == ops[1] r == ops[2] IN
       \E dest \in {count'} \cup ({l} \cap Names) :
         Finish(BinaryCode(kind, machine, l, r, dest, count'), dest, {l, r}, count',
                IF dest = count' THEN Append(Rest(ops[3]), dest) ELSE Rest(ops[3]))
  /\ UNCHANGED jump

\* !o, ~o and -o, in the operand's register, which is bound to the result.
Applied(taken, o, fresh) ==
  Bind([taken.m EXCEPT !.val[taken.reg] = Computed(fresh, @ = truth[o])], taken.reg, fresh)

\* The result of an instruction encoded wrongly: its register is bound to it.
Extended(r) == Number[r] >= 8
Missed(m, r, fresh) == [Bind(m, r, fresh) EXCEPT !.spoiled = @ \cup {fresh}]

\* The encoding of ~ and - adds the register's number to an opcode extension:
\* for R8 and above the sum is another instruction, a NEG or a MUL.
MisEncoded(m, op, r) ==
  IF op = "complement" THEN OverwriteNumbered(m, Number[r] % 8, Junk)
  ELSE Overwrite(Overwrite(m, RAX, Junk), RDX, Junk)

UnaryIn(taken, op, o, fresh) ==
  IF op # "not" /\ Extended(taken.reg)
  THEN Missed(MisEncoded(taken.m, op, taken.reg), taken.reg, fresh)
  ELSE Applied(taken, o, fresh)

UnaryCode(m, op, o, fresh) ==
  UnaryIn(IF o \in Names THEN Load(m, o, {}) ELSE Operand(m, o, {}), op, o, fresh)

\* A conversion into a register of its own.
ConvertInto(taken, source, o, fresh) ==
  Bind([taken.m EXCEPT !.val[taken.reg] = Computed(fresh, taken.m.val[source] = truth[o])],
       taken.reg, fresh)

\* The mov of an unsigned 32-bit value into 64 bits adds both numbers to one
\* byte and has no prefix: with R8 and above it copies between other registers,
\* or, below 192, it stores through one.
MoveByte(source, dest) == (192 + 8 * Number[source] + Number[dest]) % 256
MisMoved(m, byte) ==
  IF byte < 192 THEN Lost(m) ELSE OverwriteNumbered(m, byte % 8, Content(m, (byte \div 8) % 8))
Zeroed(taken, source, o, fresh) ==
  IF Extended(source) \/ Extended(taken.reg)
  THEN Missed(MisMoved(taken.m, MoveByte(source, taken.reg)), taken.reg, fresh)
  ELSE ConvertInto(taken, source, o, fresh)

\* The mov of the sizes without an instruction of their own has its operands
\* swapped: it copies the new register over the source.
Copied(taken, source, fresh) ==
  Missed(Overwrite(taken.m, source, taken.m.val[taken.reg]), taken.reg, fresh)

ConvertFrom(kind, taken, source, o, fresh) ==
  CASE kind = "exact" -> ConvertInto(taken, source, o, fresh)
    [] kind = "zero"  -> Zeroed(taken, source, o, fresh)
    [] kind = "copy"  -> Copied(taken, source, fresh)

\* A conversion to the same size takes no register: the source's is the result's.
ConvertOperand(kind, source, o, fresh) ==
  IF kind = "same" THEN Applied(source, o, fresh)
  ELSE ConvertFrom(kind, Allocate(source.m, {}), source.reg, o, fresh)

ConvertCode(kind, m, o, fresh) == ConvertOperand(kind, Operand(m, o, {}), o, fresh)

Unary(op) ==
  /\ count < MaxTemps
  /\ count' = count + 1
  /\ \E o \in SingleOperands :
       Finish(UnaryCode(machine, op, o[1], count'), count', {o[1]}, count',
              Append(Rest(o[2]), count'))
  /\ UNCHANGED jump

\* exact: a sign extension, a truncation, and 8 or 16 bits zero-extended to 32;
\* zero: 32 bits to 64; copy: 8 bits to 16, and 8 or 16 unsigned ones to 64.
Convert(kind) ==
  /\ count < MaxTemps
  /\ count' = count + 1
  /\ \E op \in SingleOperands :
       Finish(ConvertCode(kind, machine, op[1], count'), count', {op[1]}, count',
              Append(Rest(op[2]), count'))
  /\ UNCHANGED jump

\* ++x, --x (the result is the new value) and x++, x-- (the old one), in RAX.
IncDec(post) ==
  /\ count < MaxTemps
  /\ count' = count + 1
  /\ \E x \in Names :
       LET loaded == Overwrite(machine, RAX, machine.mem[x])
           before == IF post THEN [loaded EXCEPT !.mem[count'] = loaded.val[RAX]] ELSE loaded
           stepped == Overwrite(before, RAX, Computed(count', before.val[RAX] = truth[x]))
           stored == [stepped EXCEPT !.mem[x] = stepped.val[RAX],
                                     !.mem[count'] = IF post THEN @ ELSE stepped.val[RAX]]
           live == Live \cup {count'}
       IN /\ machine' = KeepMachine(Inherit(stored, count', {x}), live)
          /\ truth' = KeepSlots([truth EXCEPT ![x] = count',
                                             ![count'] = IF post THEN truth[x] ELSE count'], live)
          /\ pending' = Append(pending, count')
  /\ UNCHANGED jump

\* x = o: from the operand's register, or through RAX.
Assign ==
  /\ \E x \in Names, op \in SingleOperands :
       LET o == op[1]
           cached == o \in Temps /\ Cached(machine, o)
           loaded == IF cached THEN machine ELSE Overwrite(machine, RAX, machine.mem[o])
           source == IF cached THEN CachedIn(machine, o) ELSE RAX
           stored == [loaded EXCEPT !.mem[x] = loaded.val[source]]
       IN Finish(Forget(stored, x, {}), x, {o}, truth[o], Rest(op[2]))
  /\ UNCHANGED <<count, jump>>

\* f(o): the argument is loaded from the frame, the result stored there.  The
\* prologue saves no register, so a callee compiled here may leave any content.
Call ==
  /\ count < MaxTemps
  /\ count' = count + 1
  /\ \E op \in SingleOperands :
       LET o == op[1]
           flushed == FlushAll(machine)
           passed == Overwrite(flushed, Parameter, flushed.mem[o])
           returned == [r \in Registers |-> IF r = RAX
                          THEN Computed(count', passed.val[Parameter] = truth[o]) ELSE Junk]
       IN Finish([passed EXCEPT
                    !.regs = [r \in Registers |-> IF r \in CallerSaved /\ @[r].alloc
                                                  THEN Reserved ELSE @[r]],
                    !.val = returned,
                    !.mem[count'] = returned[RAX]],
                 count', {o}, count', Append(Rest(op[2]), count'))
  /\ UNCHANGED jump

\* Mutant: a conditional jump leaves with values in registers.
BranchWithoutFlush ==
  /\ \E op \in SingleOperands :
       LET rest == Rest(op[2])
           live == {rest[i] : i \in DOMAIN rest}
       IN /\ machine' = KeepMachine(machine, live)
          /\ truth' = KeepSlots(truth, live)
          /\ pending' = rest
          /\ jump' = [mem |-> machine'.mem, spoiled |-> machine'.spoiled,
                      truth |-> truth', pending |-> rest]
  /\ UNCHANGED count

\* if (o): the jump leaves with the frame as it is, the code falls through.
ConditionalBranch ==
  /\ \E op \in SingleOperands :
       LET rest == Rest(op[2])
           live == {rest[i] : i \in DOMAIN rest}
           flushed == FlushAll(machine)
           tested == KeepMachine(Overwrite(flushed, RAX, flushed.mem[op[1]]), live)
       IN /\ machine' = tested
          /\ truth' = KeepSlots(truth, live)
          /\ pending' = rest
          /\ jump' = [mem |-> tested.mem, spoiled |-> tested.spoiled,
                      truth |-> truth', pending |-> rest]
  /\ UNCHANGED count

ResetAll(m) == [m EXCEPT !.regs = [r \in Registers |-> Free]]

\* A label, reached by falling through: flush, then forget every register.
Label ==
  /\ machine' = KeepMachine(ResetAll(FlushAll(machine)), Live)
  /\ UNCHANGED <<truth, pending, count, jump>>

\* The same label reached by the jump: the same stores run, from registers
\* that hold whatever the other path left in them.
LabelByJump ==
  /\ jump # None
  /\ jump.pending = pending
  /\ LET arrived == [machine EXCEPT !.mem = jump.mem, !.spoiled = jump.spoiled,
                                    !.val = [r \in Registers |-> Junk]]
     IN machine' = KeepMachine(ResetAll(FlushAll(arrived)), Live)
  /\ truth' = jump.truth
  /\ jump' = None
  /\ UNCHANGED <<pending, count>>

\* return: the function ends and the next one starts with an empty cache.
Return ==
  /\ machine' = [ResetAll(machine) EXCEPT
       !.val = [r \in Registers |-> Junk],
       !.mem = [s \in Slots |-> IF s \in Names THEN s ELSE Junk],
       !.spoiled = {}]
  /\ truth' = [s \in Slots |-> IF s \in Names THEN s ELSE Junk]
  /\ pending' = <<>>
  /\ count' = 0
  /\ jump' = None

Next ==
  \/ \E kind \in {"arithmetic", "shift", "divide", "modulo"} : Binary(kind)
  \/ \E op \in {"not", "complement", "negate"} : Unary(op)
  \/ \E kind \in {"exact", "zero", "copy", "same"} : Convert(kind)
  \/ \E post \in BOOLEAN : IncDec(post)
  \/ Assign
  \/ Call
  \/ ConditionalBranch
  \/ Label
  \/ LabelByJump
  \/ Return

Spec == Init /\ [][Next]_vars

-----------------------------------------------------------------------------
(* Properties.                                                              *)

TypeOK ==
  /\ machine \in Machines
  /\ truth \in [Slots -> Values]
  /\ count \in 0..MaxTemps
  /\ pending \in Seq(1..count)
  /\ jump = None \/ (/\ jump.mem \in [Slots -> Values] /\ jump.truth \in [Slots -> Values]
                     /\ jump.spoiled \subseteq Slots /\ jump.pending \in Seq(Temps))

\* A register that caches a slot is allocated and dirty.  Branches, calls and
\* divisions flush and then use fixed registers: only dirty ones are emptied by
\* flushAllDirtyRegisters, and a binding in a free one would outlive its value.
CachedMeansDirty ==
  \A r \in Registers :
    machine.regs[r].slot # None => machine.regs[r].alloc /\ machine.regs[r].dirty

\* Whatever was spilled, rebound, flushed, released or left at a join, every
\* variable and pending temporary reads as the value the IR gave it.  Spoiled are
\* the slots whose register an instruction with fixed registers, or one encoded
\* wrongly (~ and - of R8 and above, two kinds of zero extension), wrote over,
\* those computed by the latter or from spoiled ones, and all once it hit the frame.
ReadsFindTheirValue ==
  \A s \in (Names \cup Live) \ machine.spoiled : Read(machine, s) = truth[s]

\* The stores a label runs before it forgets the registers also run when a
\* jump arrives, from registers the other path left: no slot in use at that jump
\* may be cached in a register until it has arrived.
StoresAtAJoinHitNoOlderSlot ==
  jump # None =>
    \A r \in Registers :
      machine.regs[r].slot \notin Names \cup {jump.pending[i] : i \in DOMAIN jump.pending}


=============================================================================

------------------------- MODULE RegisterCache_proofs -------------------------
(***************************************************************************)
(* For any registers, variables and number of temporaries, and for every   *)
(* sequence of instructions: the allocator's descriptions stay well typed, *)
(* a bound register is allocated and dirty, the stores of a label hit no   *)
(* slot a jump to it still needs, and every variable and temporary reads   *)
(* as the value the IR gave it unless a handler spoiled it.                *)
(***************************************************************************)
EXTENDS RegisterCache, SequenceTheorems, WellFoundedInduction, TLAPS

RegisterType == [alloc : BOOLEAN, dirty : BOOLEAN, slot : Slots \cup {None}]
SlotOf(m, r) == m.regs[r].slot

\* A machine whose registers are bound to slots in B only; a bound register is dirty.
Good(m, B) ==
  /\ m \in Machines
  /\ \A r \in Registers :
       /\ SlotOf(m, r) \in B \cup {None}
       /\ SlotOf(m, r) # None => m.regs[r].alloc /\ m.regs[r].dirty

\* Slot s reads as v, from every register that is bound to it, else from the frame.
Reads(m, s, v) ==
  /\ \A r \in Registers : SlotOf(m, r) = s => m.val[r] = v
  /\ (\A r \in Registers : SlotOf(m, r) # s) => m.mem[s] = v

\* The slots in S read as t says, unless they are spoiled.
Sound(m, t, S) == \A s \in S \ m.spoiled : Reads(m, s, t[s])

\* The slots that have a value: those of S have one, and no register is bound to None.
LEMMA SlotsTyped == None \notin Slots /\ Names \subseteq Slots /\ Temps \subseteq Slots
                    /\ Names \cap Temps = {} /\ Slots \subseteq Values /\ Junk \in Values
BY SlotsAssumption DEF Slots, Values

LEMMA Fields ==
  ASSUME NEW m \in Machines
  PROVE  /\ m = [regs |-> m.regs, val |-> m.val, mem |-> m.mem, spoiled |-> m.spoiled]
         /\ m.regs \in [Registers -> RegisterType] /\ m.val \in [Registers -> Values]
         /\ m.mem \in [Slots -> Values] /\ m.spoiled \subseteq Slots
BY DEF Machines, RegisterType

-------------------------------------------------------------------------------
(* Single changes of a machine. *)

\* The content of a register.
Written(m, n, r, v) ==
  /\ n \in Machines /\ n.regs = m.regs /\ n.mem = m.mem /\ n.spoiled = m.spoiled
  /\ n.val = [m.val EXCEPT ![r] = v]

LEMMA SetVal ==
  ASSUME NEW m \in Machines, NEW r \in Registers, NEW v \in Values
  PROVE  Written(m, [m EXCEPT !.val[r] = v], r, v)
BY DEF Machines, Written

\* The frame.
LEMMA SetMem ==
  ASSUME NEW m \in Machines, NEW s, NEW v \in Values, NEW n, n = [m EXCEPT !.mem[s] = v]
  PROVE  /\ n \in Machines /\ n.regs = m.regs /\ n.val = m.val /\ n.spoiled = m.spoiled
         /\ n.mem = [m.mem EXCEPT ![s] = v]
BY DEF Machines

\* The description of a register.
Described(m, n, r, d) ==
  /\ n \in Machines /\ n.val = m.val /\ n.mem = m.mem /\ n.spoiled = m.spoiled
  /\ n.regs = [m.regs EXCEPT ![r] = d]

LEMMA SetReg ==
  ASSUME NEW m \in Machines, NEW r \in Registers, NEW d \in RegisterType
  PROVE  Described(m, [m EXCEPT !.regs[r] = d], r, d)
BY DEF Machines, RegisterType, Described

LEMMA SetRegs ==
  ASSUME NEW m \in Machines, NEW g \in [Registers -> RegisterType], NEW n, n = [m EXCEPT !.regs = g]
  PROVE  /\ n \in Machines /\ n.val = m.val /\ n.mem = m.mem /\ n.spoiled = m.spoiled /\ n.regs = g
BY DEF Machines, RegisterType

LEMMA SetSpoiled ==
  ASSUME NEW m \in Machines, NEW S \in SUBSET Slots, NEW n, n = [m EXCEPT !.spoiled = S]
  PROVE  /\ n \in Machines /\ n.val = m.val /\ n.mem = m.mem /\ n.spoiled = S /\ n.regs = m.regs
BY DEF Machines

\* A free or reserved register is bound to nothing.
LEMMA FreeTyped == Free \in RegisterType /\ Reserved \in RegisterType
                   /\ Free.slot = None /\ Reserved.slot = None
                   /\ ~Free.dirty /\ ~Reserved.dirty /\ Reserved.alloc
BY DEF Free, Reserved, RegisterType

-------------------------------------------------------------------------------
(* The allocator. *)

\* Nothing but unbindings, and no clean register becomes dirty.
Kept(m, n) ==
  /\ n.spoiled = m.spoiled
  /\ \A q \in Registers :
       /\ SlotOf(n, q) \in {SlotOf(m, q), None}
       /\ n.regs[q].dirty => m.regs[q].dirty
       /\ m.regs[q].alloc => n.regs[q].alloc

LEMMA SpillFacts ==
  ASSUME NEW B \in SUBSET Slots, NEW m, Good(m, B), NEW r \in Registers, NEW n, n = Spill(m, r)
  PROVE  /\ Good(n, B) /\ n.regs = m.regs /\ n.val = m.val /\ n.spoiled = m.spoiled
         /\ n.mem = [m.mem EXCEPT ![SlotOf(m, r)] = m.val[r]]
         /\ \A t, S : S \subseteq Slots /\ Sound(m, t, S) => Sound(n, t, S)
<1>1. m \in Machines /\ m.val[r] \in Values /\ m.mem \in [Slots -> Values]
  BY Fields DEF Good
<1>2. /\ n \in Machines /\ n.regs = m.regs /\ n.val = m.val /\ n.spoiled = m.spoiled
      /\ n.mem = [m.mem EXCEPT ![SlotOf(m, r)] = m.val[r]]
  <2>1. n = [m EXCEPT !.mem[SlotOf(m, r)] = m.val[r]]
    BY DEF Spill, SlotOf
  <2> QED BY <1>1, <2>1, SetMem
<1>3. \A q \in Registers : SlotOf(n, q) = SlotOf(m, q) /\ n.val[q] = m.val[q]
  BY <1>2 DEF SlotOf
<1>4. Good(n, B)
  BY <1>2, <1>3 DEF Good
<1>5. \A s \in Slots : s # SlotOf(m, r) => n.mem[s] = m.mem[s]
  BY <1>1, <1>2
<1>6. ASSUME NEW t, NEW S, S \subseteq Slots, Sound(m, t, S) PROVE Sound(n, t, S)
  BY <1>2, <1>3, <1>5, <1>6 DEF Sound, Reads
<1> QED BY <1>2, <1>4, <1>6

\* A released register is bound to nothing and clean.
Released(m, n, r) ==
  /\ n.val = m.val /\ n.mem = m.mem /\ n.spoiled = m.spoiled
  /\ SlotOf(n, r) = None /\ ~n.regs[r].dirty
  /\ \A q \in Registers : q # r => n.regs[q] = m.regs[q]

LEMMA UnbindFacts ==
  ASSUME NEW B \in SUBSET Slots, NEW m, Good(m, B), NEW r \in Registers, NEW d \in {Free, Reserved}
  PROVE  LET n == [m EXCEPT !.regs[r] = d] IN
         Good(n, B) /\ Released(m, n, r) /\ n.regs[r] = d
<1> DEFINE n == [m EXCEPT !.regs[r] = d]
<1>1. m \in Machines /\ m.regs \in [Registers -> RegisterType]
  BY Fields DEF Good
<1>2. Described(m, n, r, d)
  BY <1>1, FreeTyped, SetReg
<1> HIDE DEF n
<1>3. n.regs[r] = d /\ \A q \in Registers : q # r => n.regs[q] = m.regs[q]
  BY <1>1, <1>2 DEF Described
<1>4. SlotOf(n, r) = None /\ ~n.regs[r].dirty
      /\ \A q \in Registers : q # r => SlotOf(n, q) = SlotOf(m, q)
  BY <1>3, FreeTyped DEF SlotOf
<1>5. Good(n, B)
  <2> SUFFICES ASSUME NEW q \in Registers
               PROVE  /\ SlotOf(n, q) \in B \cup {None}
                      /\ SlotOf(n, q) # None => n.regs[q].alloc /\ n.regs[q].dirty
    BY <1>2 DEF Good, Described
  <2> QED BY <1>3, <1>4 DEF Good
<1> QED BY <1>2, <1>3, <1>4, <1>5 DEF Described, Released, n

LEMMA ReleaseFacts ==
  ASSUME NEW B \in SUBSET Slots, NEW m, Good(m, B), NEW r \in Registers
  PROVE  Good(Release(m, r), B) /\ Released(m, Release(m, r), r)
BY UnbindFacts DEF Release

\* No slot changes its value if what the register caches is in the frame too.
LEMMA ReleasedSound ==
  ASSUME NEW B \in SUBSET Slots, NEW m, Good(m, B), NEW r \in Registers,
         NEW v, NEW S \in SUBSET Slots, Sound(m, v, S), NEW n, Released(m, n, r),
         SlotOf(m, r) \in S => m.mem[SlotOf(m, r)] = m.val[r]
  PROVE  Sound(n, v, S)
<1>2. \A q \in Registers : q # r => SlotOf(n, q) = SlotOf(m, q)
  BY DEF Released, SlotOf
<1> SUFFICES ASSUME NEW s \in S \ m.spoiled PROVE Reads(n, s, v[s])
  BY DEF Sound, Released
<1>3. Reads(m, s, v[s]) /\ s # None
  BY SlotsTyped DEF Sound
<1>5. CASE SlotOf(m, r) = s
  BY <1>2, <1>3, <1>5 DEF Reads, Released
<1>6. CASE SlotOf(m, r) # s
  BY <1>2, <1>3, <1>6 DEF Reads, Released
<1> QED BY <1>5, <1>6

LEMMA ReleaseSound ==
  ASSUME NEW B \in SUBSET Slots, NEW m, Good(m, B), NEW r \in Registers,
         NEW v, NEW S \in SUBSET Slots, Sound(m, v, S),
         SlotOf(m, r) \in S => m.mem[SlotOf(m, r)] = m.val[r]
  PROVE  Sound(Release(m, r), v, S)
BY ReleaseFacts, ReleasedSound

\* flushAllDirtyRegisters empties every binding, because a bound register is dirty.
Flushed(m, n) ==
  /\ n.val = m.val /\ n.spoiled = m.spoiled
  /\ \A r \in Registers : SlotOf(n, r) = None /\ ~n.regs[r].dirty /\ n.regs[r].alloc = m.regs[r].alloc
  /\ \A t, S : S \subseteq Slots /\ Sound(m, t, S) => Sound(n, t, S)
  /\ \A s \in Slots : (\A r \in Registers : SlotOf(m, r) # s) => n.mem[s] = m.mem[s]

LEMMA FlushFacts ==
  ASSUME NEW B \in SUBSET Slots, NEW m, Good(m, B)
  PROVE  Good(FlushAll(m), {}) /\ Flushed(m, FlushAll(m))
<1> DEFINE n == FlushAll(m)
<1> DEFINE dirty == {r \in Registers : m.regs[r].dirty}
           f == [s \in Slots |-> IF \E r \in dirty : m.regs[r].slot = s
                                 THEN m.val[CHOOSE r \in dirty : m.regs[r].slot = s]
                                 ELSE m.mem[s]]
           g == [r \in Registers |-> IF r \in dirty
                                     THEN [m.regs[r] EXCEPT !.dirty = FALSE, !.slot = None]
                                     ELSE m.regs[r]]
<1>1. m \in Machines /\ m.regs \in [Registers -> RegisterType] /\ m.val \in [Registers -> Values]
      /\ m.mem \in [Slots -> Values]
  BY Fields DEF Good
<1>2. n = [m EXCEPT !.mem = f, !.regs = g]
  BY DEF FlushAll
<1>3. f \in [Slots -> Values]
  BY <1>1
<1>4. g \in [Registers -> RegisterType]
      /\ \A r \in Registers : g[r].slot = None /\ g[r].dirty = FALSE /\ g[r].alloc = m.regs[r].alloc
  BY <1>1, SlotsTyped DEF RegisterType, Good, SlotOf
<1>5. \A s \in Slots :
        \/ \E r \in Registers : m.regs[r].slot = s /\ f[s] = m.val[r]
        \/ (\A r \in dirty : m.regs[r].slot # s) /\ f[s] = m.mem[s]
  OBVIOUS
<1>6. \A s \in Slots, r \in Registers : m.regs[r].slot = s => r \in dirty
  BY SlotsTyped DEF Good, SlotOf
<1> HIDE DEF f, g, dirty, n
<1>7. n \in Machines /\ n.val = m.val /\ n.spoiled = m.spoiled /\ n.mem = f /\ n.regs = g
  <2>1. /\ n.val = m.val /\ n.spoiled = m.spoiled /\ n.mem = f /\ n.regs = g
    BY <1>1, <1>2 DEF Machines
  <2>2. n \in Machines
    BY <1>1, <1>2, <1>3, <1>4 DEF Machines, RegisterType
  <2> QED BY <2>1, <2>2
<1>8. \A r \in Registers : SlotOf(n, r) = None
  BY <1>4, <1>7 DEF SlotOf
<1>9. Good(n, {})
  BY <1>7, <1>8 DEF Good
<1>10. ASSUME NEW t, NEW S, S \subseteq Slots, Sound(m, t, S) PROVE Sound(n, t, S)
  <2> SUFFICES ASSUME NEW s \in S \ m.spoiled PROVE Reads(n, s, t[s])
    BY <1>7 DEF Sound
  <2>1. Reads(m, s, t[s]) /\ s \in Slots
    BY <1>10 DEF Sound
  <2>2. f[s] = t[s]
    <3>1. CASE \E r \in Registers : m.regs[r].slot = s /\ f[s] = m.val[r]
      BY <2>1, <3>1 DEF Reads, SlotOf
    <3>2. CASE (\A r \in dirty : m.regs[r].slot # s) /\ f[s] = m.mem[s]
      BY <1>6, <2>1, <3>2 DEF Reads, SlotOf
    <3> QED BY <1>5, <2>1, <3>1, <3>2
  <2>3. \A r \in Registers : SlotOf(n, r) # s
    BY <1>8, <2>1, SlotsTyped
  <2> QED BY <1>7, <2>2, <2>3 DEF Reads
<1>11. \A s \in Slots : (\A r \in Registers : SlotOf(m, r) # s) => n.mem[s] = m.mem[s]
  BY <1>5, <1>7 DEF SlotOf
<1>12. \A r \in Registers : ~n.regs[r].dirty /\ n.regs[r].alloc = m.regs[r].alloc
  BY <1>4, <1>7
<1>13. Flushed(m, n)
  BY <1>7, <1>8, <1>10, <1>11, <1>12 DEF Flushed
<1> QED BY <1>9, <1>13 DEF n

\* Unbinding a slot from all registers but those kept.
Forgotten(m, n, s, keep) ==
  /\ n.val = m.val /\ n.mem = m.mem /\ n.spoiled = m.spoiled
  /\ \A q \in Registers :
       SlotOf(n, q) = IF SlotOf(m, q) = s /\ q \notin keep THEN None ELSE SlotOf(m, q)
  /\ \A t, S : S \subseteq Slots /\ Sound(m, t, S) => Sound(n, t, S \ {s})

LEMMA ForgetFacts ==
  ASSUME NEW B \in SUBSET Slots, NEW m, Good(m, B), NEW s \in Slots, NEW keep
  PROVE  Good(Forget(m, s, keep), B) /\ Forgotten(m, Forget(m, s, keep), s, keep)
<1> DEFINE n == Forget(m, s, keep)
<1> DEFINE g == [r \in Registers |-> IF m.regs[r].slot = s /\ r \notin keep
                                     THEN [m.regs[r] EXCEPT !.slot = None, !.dirty = FALSE]
                                     ELSE m.regs[r]]
<1>1. m \in Machines /\ m.regs \in [Registers -> RegisterType]
  BY Fields DEF Good
<1>2. g \in [Registers -> RegisterType]
  BY <1>1 DEF RegisterType
<1>3. \A r \in Registers : g[r] = m.regs[r] \/ g[r].slot = None
  BY <1>1 DEF RegisterType
<1>4. \A q \in Registers :
        g[q].slot = IF m.regs[q].slot = s /\ q \notin keep THEN None ELSE m.regs[q].slot
  BY <1>1 DEF RegisterType
<1>5. n = [m EXCEPT !.regs = g]
  BY DEF Forget
<1> HIDE DEF g, n
<1>6. n \in Machines /\ n.val = m.val /\ n.mem = m.mem /\ n.spoiled = m.spoiled /\ n.regs = g
  BY <1>1, <1>2, <1>5, SetRegs
<1>7. \A q \in Registers :
        SlotOf(n, q) = IF SlotOf(m, q) = s /\ q \notin keep THEN None ELSE SlotOf(m, q)
  BY <1>4, <1>6 DEF SlotOf
<1>8. Good(n, B)
  BY <1>3, <1>6 DEF Good, SlotOf
<1>9. ASSUME NEW t, NEW S, S \subseteq Slots, Sound(m, t, S) PROVE Sound(n, t, S \ {s})
  <2> SUFFICES ASSUME NEW x \in S \ m.spoiled, x # s PROVE Reads(n, x, t[x])
    BY <1>6 DEF Sound
  <2>1. Reads(m, x, t[x]) /\ x # None
    BY <1>9, SlotsTyped DEF Sound
  <2>2. \A q \in Registers : SlotOf(n, q) = x <=> SlotOf(m, q) = x
    BY <1>7, <2>1
  <2> QED BY <1>6, <2>1, <2>2 DEF Reads
<1>10. Forgotten(m, n, s, keep)
  BY <1>6, <1>7, <1>9 DEF Forgotten
<1> QED BY <1>8, <1>10 DEF n

\* A bound register is the only one that caches its slot, and the slot reads as its content.
BoundTo(m, n, r, s) ==
  /\ n.val = m.val /\ n.mem = m.mem /\ n.spoiled = m.spoiled /\ SlotOf(n, r) = s
  /\ \A q \in Registers : q # r => SlotOf(n, q) = IF SlotOf(m, q) = s THEN None ELSE SlotOf(m, q)
  /\ Reads(n, s, m.val[r])
  /\ \A t, S : S \subseteq Slots /\ Sound(m, t, S)
               /\ (SlotOf(m, r) \in S /\ SlotOf(m, r) # s => m.mem[SlotOf(m, r)] = m.val[r])
                 => Sound(n, t, S \ {s})

LEMMA BindFacts ==
  ASSUME NEW B \in SUBSET Slots, NEW m, Good(m, B), NEW r \in Registers, NEW s \in Slots
  PROVE  Good(Bind(m, r, s), B \cup {s}) /\ BoundTo(m, Bind(m, r, s), r, s)
<1> DEFINE n == Bind(m, r, s)
<1> DEFINE k == Forget(m, s, {r})
           d == [alloc |-> TRUE, dirty |-> TRUE, slot |-> s]
<1>1. /\ Good(k, B) /\ k.val = m.val /\ k.mem = m.mem /\ k.spoiled = m.spoiled
      /\ \A q \in Registers :
           SlotOf(k, q) = IF SlotOf(m, q) = s /\ q \notin {r} THEN None ELSE SlotOf(m, q)
      /\ \A t, S : S \subseteq Slots /\ Sound(m, t, S) => Sound(k, t, S \ {s})
  <2>1. Good(k, B) /\ Forgotten(m, k, s, {r})
    BY ForgetFacts
  <2> HIDE DEF k
  <2> QED BY <2>1 DEF Forgotten
<1>2. d \in RegisterType /\ d.alloc /\ d.dirty /\ d.slot = s
  BY DEF RegisterType
<1>3. n = [k EXCEPT !.regs[r] = d]
  BY DEF Bind
<1> HIDE DEF k, d, n
<1>4. k \in Machines /\ k.regs \in [Registers -> RegisterType]
  BY <1>1, Fields DEF Good
<1>5. /\ n \in Machines /\ n.val = m.val /\ n.mem = m.mem /\ n.spoiled = m.spoiled
      /\ n.regs = [k.regs EXCEPT ![r] = d]
  BY <1>1, <1>2, <1>3, <1>4, SetReg DEF Described
<1>6. n.regs[r] = d /\ \A q \in Registers : q # r => n.regs[q] = k.regs[q]
  BY <1>4, <1>5
<1>7. SlotOf(n, r) = s
      /\ \A q \in Registers : q # r => SlotOf(n, q) = IF SlotOf(m, q) = s THEN None ELSE SlotOf(m, q)
  BY <1>1, <1>2, <1>6 DEF SlotOf
<1>8. Good(n, B \cup {s})
  <2> SUFFICES ASSUME NEW q \in Registers
               PROVE  /\ SlotOf(n, q) \in B \cup {s} \cup {None}
                      /\ SlotOf(n, q) # None => n.regs[q].alloc /\ n.regs[q].dirty
    BY <1>5 DEF Good
  <2>1. CASE q = r
    BY <1>2, <1>6, <1>7, <2>1
  <2>2. CASE q # r
    BY <1>1, <1>6, <2>2 DEF Good, SlotOf
  <2> QED BY <2>1, <2>2
<1>9. Reads(n, s, m.val[r])
  BY <1>5, <1>7, SlotsTyped DEF Reads
<1>10. ASSUME NEW t, NEW S, S \subseteq Slots, Sound(m, t, S),
              SlotOf(m, r) \in S /\ SlotOf(m, r) # s => m.mem[SlotOf(m, r)] = m.val[r]
       PROVE  Sound(n, t, S \ {s})
  <2> SUFFICES ASSUME NEW x \in S \ m.spoiled, x # s PROVE Reads(n, x, t[x])
    BY <1>5 DEF Sound
  <2>1. Reads(m, x, t[x]) /\ x # None
    BY <1>10, SlotsTyped DEF Sound
  <2>2. \A q \in Registers : q # r => (SlotOf(n, q) = x <=> SlotOf(m, q) = x)
    BY <1>7, <2>1
  <2>3. CASE SlotOf(m, r) = x
    BY <1>5, <1>7, <1>10, <2>1, <2>2, <2>3 DEF Reads
  <2>4. CASE SlotOf(m, r) # x
    BY <1>5, <1>7, <2>1, <2>2, <2>4 DEF Reads
  <2> QED BY <2>3, <2>4
<1>11. BoundTo(m, n, r, s)
  BY <1>5, <1>7, <1>9, <1>10 DEF BoundTo
<1> QED BY <1>8, <1>11 DEF n

\* Code behind the back of the allocator spoils the slot the register caches, at most.
Overwritten(m, n, r, v) ==
  /\ n.regs = m.regs /\ n.mem = m.mem
  /\ n.val[r] = v /\ \A q \in Registers \ {r} : n.val[q] = m.val[q]
  /\ m.spoiled \subseteq n.spoiled /\ n.spoiled \subseteq m.spoiled \cup ({SlotOf(m, r)} \ {None})
  /\ (v = m.val[r] => n.spoiled = m.spoiled)
  /\ \A q \in Registers : SlotOf(n, q) = SlotOf(m, q)
  /\ \A t, S : S \subseteq Slots /\ Sound(m, t, S) => Sound(n, t, S)

LEMMA OverwriteFacts ==
  ASSUME NEW B \in SUBSET Slots, NEW m, Good(m, B), NEW r \in Registers, NEW v \in Values
  PROVE  Good(Overwrite(m, r, v), B) /\ Overwritten(m, Overwrite(m, r, v), r, v)
<1> DEFINE P == IF m.regs[r].slot # None /\ v # m.val[r] THEN m.spoiled \cup {m.regs[r].slot} ELSE m.spoiled
           k == [m EXCEPT !.val[r] = v]
           n == Overwrite(m, r, v)
<1>1. m \in Machines /\ m.regs \in [Registers -> RegisterType] /\ m.spoiled \subseteq Slots
      /\ m.val \in [Registers -> Values]
  BY Fields DEF Good
<1>2. /\ k \in Machines /\ k.regs = m.regs /\ k.mem = m.mem /\ k.spoiled = m.spoiled
      /\ k.val = [m.val EXCEPT ![r] = v]
  BY <1>1, SetVal DEF Written
<1>3. P \in SUBSET Slots
  BY <1>1 DEF RegisterType
<1>4. n = [k EXCEPT !.spoiled = P]
  BY <1>1 DEF Overwrite, Machines
<1>5. m.spoiled \subseteq P /\ P \subseteq m.spoiled \cup ({SlotOf(m, r)} \ {None}) /\ (v = m.val[r] => P = m.spoiled)
  BY DEF SlotOf, Good
<1>6. \A x \in Slots \ P : SlotOf(m, r) = x => v = m.val[r]
  BY SlotsTyped DEF SlotOf
<1> HIDE DEF k, P, n
<1>7. /\ n \in Machines /\ n.regs = m.regs /\ n.mem = m.mem /\ n.spoiled = P
      /\ n.val = [m.val EXCEPT ![r] = v]
  BY <1>2, <1>3, <1>4, SetSpoiled
<1>8. \A q \in Registers : SlotOf(n, q) = SlotOf(m, q) /\ n.val[q] = IF q = r THEN v ELSE m.val[q]
  BY <1>1, <1>7 DEF SlotOf
<1>9. Good(n, B)
  BY <1>7, <1>8 DEF Good
<1>10. ASSUME NEW t, NEW S, S \subseteq Slots, Sound(m, t, S) PROVE Sound(n, t, S)
  BY <1>5, <1>6, <1>7, <1>8, <1>10 DEF Sound, Reads
<1>11. n.val[r] = v /\ \A q \in Registers \ {r} : n.val[q] = m.val[q]
  BY <1>1, <1>7
<1>12. Overwritten(m, n, r, v)
  BY <1>5, <1>7, <1>8, <1>10, <1>11 DEF Overwritten
<1> QED BY <1>9, <1>12 DEF n

-------------------------------------------------------------------------------
(* Taking registers. *)

\* Every set of positions has a first one.
LEMMA FirstOf ==
  ASSUME NEW S \in SUBSET Nat, S # {}
  PROVE  Min(S) \in S /\ \A i \in S : Min(S) <= i
<1>1. PICK x \in S : \A y \in S : ~(<<y, x>> \in OpToRel(<, Nat))
  BY NatLessThanWellFounded, WFMin
<1>2. \A y \in S : ~(y < x)
  BY <1>1 DEF OpToRel
<1>3. \A y \in S : x <= y
  BY <1>2
<1> QED BY <1>3 DEF Min

\* The registers by their positions.
LEMMA Positions ==
  /\ Len(Order) \in Nat /\ DOMAIN Order = 1 .. Len(Order)
  /\ \A i \in DOMAIN Order : i \in Nat /\ Order[i] \in Registers
  /\ \A r \in Registers : \E i \in DOMAIN Order : r = Order[i]
BY RegistersAssumption, LenProperties, ElementOfSeq DEF Registers

\* The allocator picks a register it may use.
LEMMA PickFacts ==
  ASSUME NEW m, NEW exclude, \E q \in Registers : q \notin exclude
  PROVE  Pick(m, exclude) \in Registers \ exclude
<1> DEFINE usable == {i \in DOMAIN Order : Order[i] \notin exclude}
           free   == {i \in usable : ~m.regs[Order[i]].alloc}
           clean  == {i \in usable : ~m.regs[Order[i]].dirty}
           from   == IF free # {} THEN free ELSE IF clean # {} THEN clean ELSE usable
<1>1. usable \in SUBSET Nat /\ usable # {}
  BY Positions
<1>2. from \in SUBSET usable /\ from # {}
  BY <1>1
<1>3. Pick(m, exclude) = Order[Min(from)]
  BY DEF Pick
<1>4. Min(from) \in usable
  <2> HIDE DEF from
  <2>1. from \in SUBSET Nat
    BY <1>1, <1>2
  <2> QED BY <1>2, <2>1, FirstOf
<1> QED BY <1>3, <1>4, Positions

\* It never picks a clean register in use when another one is before it.
LEMMA PickSkips ==
  ASSUME NEW B, NEW m, Good(m, B), NEW exclude,
         NEW i \in DOMAIN Order, NEW j \in DOMAIN Order, i < j,
         Order[i] \notin exclude, ~m.regs[Order[i]].dirty, m.regs[Order[j]].alloc
  PROVE  Pick(m, exclude) # Order[j]
<1> DEFINE usable == {k \in DOMAIN Order : Order[k] \notin exclude}
           free   == {k \in usable : ~m.regs[Order[k]].alloc}
           clean  == {k \in usable : ~m.regs[Order[k]].dirty}
           from   == IF free # {} THEN free ELSE IF clean # {} THEN clean ELSE usable
<1>1. free \in SUBSET Nat /\ clean \in SUBSET Nat /\ i \in clean /\ j \notin free
  BY Positions
<1>2. Pick(m, exclude) = Order[Min(from)]
  BY DEF Pick
<1>3. from = IF free # {} THEN free ELSE clean
  BY <1>1
<1> HIDE DEF free, clean, from
<1>4. CASE free # {}
  <2>1. Min(from) \in free
    BY <1>1, <1>3, <1>4, FirstOf
  <2>2. Min(from) \in DOMAIN Order /\ Min(from) # j
    BY <1>1, <2>1 DEF free
  <2> QED BY <1>2, <2>2, RegistersAssumption
<1>5. CASE free = {}
  <2>1. Min(from) \in clean /\ Min(from) <= i
    BY <1>1, <1>3, <1>5, FirstOf
  <2>2. Min(from) \in DOMAIN Order /\ Min(from) # j
    <3>1. Min(from) \in Nat /\ i \in Nat /\ j \in Nat
      BY <1>1, <2>1, Positions
    <3> QED BY <2>1, <3>1 DEF clean
  <2> QED BY <1>2, <2>2, RegistersAssumption
<1> QED BY <1>4, <1>5

\* A register as the allocator returns it: bound to nothing, with the others as they were.
Fresh(m, t) ==
  /\ t.reg \in Registers /\ SlotOf(t.m, t.reg) = None /\ t.m.val = m.val /\ Kept(m, t.m)

LEMMA TakenFacts ==
  ASSUME NEW B \in SUBSET Slots, NEW m, Good(m, B), NEW r \in Registers, SlotOf(m, r) = None
  PROVE  /\ Good(Taken(m, r).m, B) /\ Taken(m, r).reg = r /\ Fresh(m, Taken(m, r))
         /\ Taken(m, r).m.regs[r].alloc /\ Taken(m, r).m.mem = m.mem
         /\ DOMAIN Taken(m, r) = {"m", "reg"}
         /\ \A t, S : S \subseteq Slots /\ Sound(m, t, S) => Sound(Taken(m, r).m, t, S)
<1> DEFINE d == [m.regs[r] EXCEPT !.alloc = TRUE]
           n == [m EXCEPT !.regs[r] = d]
<1>1. m \in Machines /\ m.regs \in [Registers -> RegisterType]
  BY Fields DEF Good
<1>2. d \in RegisterType /\ d.alloc /\ d.slot = None /\ d.dirty = m.regs[r].dirty
  BY <1>1 DEF RegisterType, SlotOf
<1>3. Taken(m, r) = [m |-> n, reg |-> r]
  BY <1>1 DEF Taken, Machines
<1> HIDE DEF d
<1>4. /\ n \in Machines /\ n.val = m.val /\ n.mem = m.mem /\ n.spoiled = m.spoiled
      /\ n.regs = [m.regs EXCEPT ![r] = d]
  BY <1>1, <1>2, SetReg DEF Described
<1> HIDE DEF n
<1>5. n.regs[r] = d /\ \A q \in Registers : q # r => n.regs[q] = m.regs[q]
  BY <1>1, <1>4
<1>6. \A q \in Registers : SlotOf(n, q) = SlotOf(m, q)
  BY <1>2, <1>5 DEF SlotOf
<1>7. Good(n, B)
  <2> SUFFICES ASSUME NEW q \in Registers
               PROVE  /\ SlotOf(n, q) \in B \cup {None}
                      /\ SlotOf(n, q) # None => n.regs[q].alloc /\ n.regs[q].dirty
    BY <1>4 DEF Good
  <2> QED BY <1>5, <1>6 DEF Good
<1>8. Kept(m, n)
  BY <1>2, <1>4, <1>5, <1>6 DEF Kept
<1>9. \A t, S : S \subseteq Slots /\ Sound(m, t, S) => Sound(n, t, S)
  BY <1>4, <1>6 DEF Sound, Reads
<1>10. /\ Taken(m, r).m = n /\ Taken(m, r).reg = r /\ DOMAIN Taken(m, r) = {"m", "reg"}
  BY <1>3
<1>11. n.regs[r].alloc /\ SlotOf(n, r) = None
  BY <1>2, <1>5, <1>6
<1> QED BY <1>4, <1>7, <1>8, <1>9, <1>10, <1>11 DEF Fresh

\* Taking a free register, a dirty one after its store, or a clean one: no slot changes
\* its value.
LEMMA TakeFacts ==
  ASSUME NEW B \in SUBSET Slots, NEW m, Good(m, B), NEW r \in Registers, NEW t, t = Take(m, r)
  PROVE  /\ Good(t.m, B) /\ Fresh(m, t) /\ t.reg = r /\ DOMAIN t = {"m", "reg"}
         /\ \A v, S : S \subseteq Slots /\ Sound(m, v, S) => Sound(t.m, v, S)
<1> DEFINE IsTaken(n) ==
             /\ Good(n, B) /\ SlotOf(n, r) = None /\ n.val = m.val /\ n.spoiled = m.spoiled
             /\ \A q \in Registers : q # r => n.regs[q] = m.regs[q]
             /\ n.regs[r].dirty => m.regs[r].dirty
             /\ \A v, S : S \subseteq Slots /\ Sound(m, v, S) => Sound(n, v, S)
<1>1. ASSUME NEW n, IsTaken(n), t = Taken(n, r)
      PROVE  /\ Good(t.m, B) /\ Fresh(m, t) /\ t.reg = r /\ DOMAIN t = {"m", "reg"}
             /\ \A v, S : S \subseteq Slots /\ Sound(m, v, S) => Sound(t.m, v, S)
  <2>1. /\ Good(t.m, B) /\ t.reg = r /\ Fresh(n, t) /\ t.m.regs[r].alloc
        /\ DOMAIN t = {"m", "reg"}
        /\ \A v, S : S \subseteq Slots /\ Sound(n, v, S) => Sound(t.m, v, S)
    BY <1>1, TakenFacts
  <2>2. Kept(m, t.m)
    BY <1>1, <2>1 DEF Fresh, Kept, SlotOf
  <2>3. SlotOf(t.m, r) = None /\ t.m.val = m.val
    BY <1>1, <2>1 DEF Fresh
  <2>4. \A v, S : S \subseteq Slots /\ Sound(m, v, S) => Sound(t.m, v, S)
    BY <1>1, <2>1
  <2> QED BY <2>1, <2>2, <2>3, <2>4 DEF Fresh
<1>2. CASE ~m.regs[r].alloc
  <2>1. SlotOf(m, r) = None
    BY <1>2 DEF Good
  <2>2. IsTaken(m) /\ t = Taken(m, r)
    BY <1>2, <2>1 DEF Take
  <2> QED BY <1>1, <2>2
<1>3. CASE m.regs[r].alloc /\ m.regs[r].dirty /\ m.regs[r].slot # None
  <2> DEFINE k == Spill(m, r)
             n == Release(k, r)
  <2>1. /\ Good(k, B) /\ k.regs = m.regs /\ k.val = m.val /\ k.spoiled = m.spoiled
        /\ k.mem = [m.mem EXCEPT ![SlotOf(m, r)] = m.val[r]]
        /\ \A v, S : S \subseteq Slots /\ Sound(m, v, S) => Sound(k, v, S)
    BY SpillFacts
  <2>2. SlotOf(k, r) = SlotOf(m, r) /\ SlotOf(m, r) \in Slots /\ m.mem \in [Slots -> Values]
    BY <1>3, <2>1, Fields DEF SlotOf, Good, RegisterType
  <2>3. k.mem[SlotOf(k, r)] = k.val[r]
    BY <2>1, <2>2
  <2> HIDE DEF k
  <2>4. Good(n, B) /\ Released(k, n, r)
    BY <2>1, ReleaseFacts
  <2>5. ASSUME NEW v, NEW S, S \subseteq Slots, Sound(m, v, S) PROVE Sound(n, v, S)
    BY <2>1, <2>3, <2>5, ReleaseSound
  <2> HIDE DEF n
  <2>6. IsTaken(n)
    BY <1>3, <2>1, <2>4, <2>5 DEF Released
  <2>7. t = Taken(n, r)
    BY <1>3 DEF Take, k, n
  <2> HIDE DEF IsTaken
  <2> QED BY <1>1, <2>6, <2>7
<1>4. CASE m.regs[r].alloc /\ ~(m.regs[r].dirty /\ m.regs[r].slot # None)
  <2> DEFINE n == Release(m, r)
  <2>1. SlotOf(m, r) = None
    BY <1>4 DEF Good, SlotOf
  <2>2. Good(n, B) /\ Released(m, n, r)
    BY ReleaseFacts
  <2>3. ASSUME NEW v, NEW S, S \subseteq Slots, Sound(m, v, S) PROVE Sound(n, v, S)
    BY <2>1, <2>3, SlotsTyped, ReleaseSound
  <2> HIDE DEF n
  <2>4. IsTaken(n)
    BY <2>2, <2>3 DEF Released
  <2>5. t = Taken(n, r)
    BY <1>4 DEF Take, n
  <2> HIDE DEF IsTaken
  <2> QED BY <1>1, <2>4, <2>5
<1> QED BY <1>2, <1>3, <1>4

Allocated(m, t, exclude) ==
  /\ Fresh(m, t) /\ t.reg \notin exclude /\ DOMAIN t = {"m", "reg"} /\ t.reg = Pick(m, exclude)
  /\ \A v, S : S \subseteq Slots /\ Sound(m, v, S) => Sound(t.m, v, S)

LEMMA AllocateFacts ==
  ASSUME NEW B \in SUBSET Slots, NEW m, Good(m, B), NEW exclude, \E q \in Registers : q \notin exclude
  PROVE  Good(Allocate(m, exclude).m, B) /\ Allocated(m, Allocate(m, exclude), exclude)
<1> DEFINE t == Allocate(m, exclude)
<1>1. Pick(m, exclude) \in Registers \ exclude
  BY PickFacts
<1>2. t = Take(m, Pick(m, exclude))
  BY DEF Allocate
<1> HIDE DEF t
<1>3. /\ Good(t.m, B) /\ Fresh(m, t) /\ t.reg \notin exclude /\ DOMAIN t = {"m", "reg"}
      /\ t.reg = Pick(m, exclude)
      /\ \A v, S : S \subseteq Slots /\ Sound(m, v, S) => Sound(t.m, v, S)
  BY <1>1, <1>2, TakeFacts
<1> QED BY <1>3 DEF t, Allocated

\* There are three registers with jobs of their own, so one is left when two are in use.
LEMMA OneLeft == \A a, b : \E q \in Registers : q \notin {a, b}
BY RegistersAssumption

\* A slot that no register caches, loaded into a register of its own.
Loads(m, t, s, busy) ==
  /\ Kept(m, t.m) /\ DOMAIN t = {"m", "reg"}
  /\ t.reg \in Registers \ busy /\ SlotOf(t.m, t.reg) = None
  /\ t.m.val = [m.val EXCEPT ![t.reg] = m.mem[s]]
  /\ \A v, S : S \subseteq Slots /\ Sound(m, v, S) => Sound(t.m, v, S)
  /\ t.reg = Pick(m, {}) \/ t.reg = Pick(Allocate(m, {}).m, busy)

LEMMA LoadFacts ==
  ASSUME NEW B \in SUBSET Slots, NEW m, Good(m, B), NEW s \in Slots, NEW busy,
         busy = {} \/ \E q : busy = {q}
  PROVE  Good(Load(m, s, busy).m, B) /\ Loads(m, Load(m, s, busy), s, busy)
<1> DEFINE t == Load(m, s, busy)
<1> DEFINE a == Allocate(m, {})
           b == Allocate(a.m, busy)
           c == Apart(a, busy)
<1>1. (\E q \in Registers : q \notin {}) /\ (\E q \in Registers : q \notin busy)
  BY OneLeft
<1>2. /\ Good(a.m, B) /\ Fresh(m, a) /\ DOMAIN a = {"m", "reg"} /\ a.reg = Pick(m, {})
      /\ \A v, S : S \subseteq Slots /\ Sound(m, v, S) => Sound(a.m, v, S)
  BY <1>1, AllocateFacts DEF Allocated
<1> HIDE DEF a
<1>3. /\ Good(b.m, B) /\ Fresh(a.m, b) /\ DOMAIN b = {"m", "reg"} /\ b.reg \notin busy
      /\ b.reg = Pick(a.m, busy)
      /\ \A v, S : S \subseteq Slots /\ Sound(a.m, v, S) => Sound(b.m, v, S)
  <2>1. Good(b.m, B) /\ Allocated(a.m, b, busy)
    BY <1>1, <1>2, AllocateFacts
  <2> HIDE DEF b
  <2> QED BY <2>1 DEF Allocated
<1> HIDE DEF b
<1>4. /\ Good(c.m, B) /\ Fresh(m, c) /\ DOMAIN c = {"m", "reg"} /\ c.reg \notin busy
      /\ c.reg = Pick(m, {}) \/ c.reg = Pick(a.m, busy)
      /\ \A v, S : S \subseteq Slots /\ Sound(m, v, S) => Sound(c.m, v, S)
  <2>1. CASE a.reg \in busy
    <3>1. c = b
      BY <2>1 DEF Apart, b
    <3>2. Fresh(m, b)
      BY <1>2, <1>3 DEF Fresh, Kept
    <3> QED BY <1>2, <1>3, <3>1, <3>2
  <2>2. CASE a.reg \notin busy
    BY <1>2, <2>2 DEF Apart
  <2> QED BY <2>1, <2>2
<1> HIDE DEF c
<1> DEFINE r == c.reg
<1>5. c.m \in Machines /\ r \in Registers /\ m.mem[s] \in Values
  BY <1>4, Fields DEF Good, Fresh
<1>0. r = c.reg
  OBVIOUS
<1> HIDE DEF r
<1> DEFINE k == [c.m EXCEPT !.val[r] = m.mem[s]]
           d == [k.regs[r] EXCEPT !.dirty = FALSE]
           n == [k EXCEPT !.regs[r] = d]
<1>6. /\ k \in Machines /\ k.regs = c.m.regs /\ k.mem = c.m.mem /\ k.spoiled = c.m.spoiled
      /\ k.val = [c.m.val EXCEPT ![r] = m.mem[s]]
  BY <1>5, SetVal DEF Written
<1>7. t = [c EXCEPT !.m = n]
  <2>1. t = Loaded(c, m.mem[s])
    BY DEF Load, c, a
  <2>2. Loaded(c, m.mem[s]) = [c EXCEPT !.m = [k EXCEPT !.regs[r].dirty = FALSE]]
    BY <1>0, <1>4 DEF Loaded
  <2>3. [k EXCEPT !.regs[r].dirty = FALSE] = n
    <3>1. k.regs \in [Registers -> RegisterType]
      BY <1>6, Fields
    <3> QED BY <3>1
  <2> QED BY <2>1, <2>2, <2>3
<1> HIDE DEF k, t
<1>8. k.regs \in [Registers -> RegisterType] /\ SlotOf(k, r) = None /\ SlotOf(c.m, r) = None
  BY <1>0, <1>4, <1>6, Fields DEF Fresh, SlotOf
<1>9. d \in RegisterType /\ d.slot = None /\ ~d.dirty /\ d.alloc = k.regs[r].alloc
  BY <1>5, <1>8 DEF RegisterType, SlotOf
<1> HIDE DEF d
<1>10. /\ n \in Machines /\ n.val = k.val /\ n.mem = k.mem /\ n.spoiled = k.spoiled
       /\ n.regs = [k.regs EXCEPT ![r] = d]
  BY <1>5, <1>6, <1>9, SetReg DEF Described
<1> HIDE DEF n
<1>11. t.m = n /\ t.reg = r /\ DOMAIN t = {"m", "reg"}
  BY <1>0, <1>4, <1>7
<1>12. \A q \in Registers :
         /\ SlotOf(n, q) = SlotOf(c.m, q) /\ (n.regs[q].dirty => c.m.regs[q].dirty)
         /\ n.regs[q].alloc = c.m.regs[q].alloc
         /\ q # r => n.regs[q] = c.m.regs[q] /\ n.val[q] = c.m.val[q]
  <2>1. n.regs[r] = d /\ \A q \in Registers : q # r => n.regs[q] = k.regs[q]
    BY <1>5, <1>8, <1>10
  <2>2. c.m.val \in [Registers -> Values]
    BY <1>5, Fields
  <2> QED BY <1>5, <1>6, <1>8, <1>9, <1>10, <2>1, <2>2 DEF SlotOf
<1>13. Good(n, B)
  BY <1>4, <1>8, <1>10, <1>12 DEF Good
<1>14. Kept(m, n)
  BY <1>4, <1>6, <1>10, <1>12 DEF Kept, Fresh
<1>15. ASSUME NEW v, NEW S, S \subseteq Slots, Sound(m, v, S) PROVE Sound(n, v, S)
  <2>1. Sound(c.m, v, S)
    BY <1>4, <1>15
  <2> SUFFICES ASSUME NEW x \in S \ n.spoiled PROVE Reads(n, x, v[x])
    BY DEF Sound
  <2>2. Reads(c.m, x, v[x]) /\ x # None
    BY <1>6, <1>10, <1>15, <2>1, SlotsTyped DEF Sound
  <2> QED BY <1>6, <1>8, <1>10, <1>12, <2>2 DEF Reads
<1>16. n.val = [m.val EXCEPT ![r] = m.mem[s]]
  BY <1>4, <1>6, <1>10 DEF Fresh
<1>17. SlotOf(n, r) = None
  BY <1>5, <1>8, <1>12
<1>18. t.reg = Pick(m, {}) \/ t.reg = Pick(Allocate(m, {}).m, busy)
  BY <1>0, <1>4, <1>11 DEF a
<1>19. Loads(m, t, s, busy)
  BY <1>0, <1>4, <1>5, <1>11, <1>14, <1>15, <1>16, <1>17, <1>18 DEF Loads
<1> QED BY <1>11, <1>13, <1>19 DEF t

\* What is lost between m and n: bindings of other slots, and no slot's value.
Keeps(m, n) == Kept(m, n) /\ \A v, S : S \subseteq Slots /\ Sound(m, v, S) => Sound(n, v, S)

\* An operand is in a register that caches it, or in one that caches nothing.
Held(m, o, s) ==
  /\ o.reg \in Registers /\ Keeps(m, o.m) /\ SlotOf(o.m, o.reg) \in {s, None}
  /\ \A q \in Registers \ {o.reg} : o.m.val[q] = m.val[q]
  /\ \A t, S : S \subseteq Slots /\ Sound(m, t, S) /\ s \in S \ m.spoiled => o.m.val[o.reg] = t[s]

\* The register of a slot that is cached.
LEMMA CachedInFacts ==
  ASSUME NEW m, NEW s, Cached(m, s)
  PROVE  CachedIn(m, s) \in Registers /\ SlotOf(m, CachedIn(m, s)) = s
<1>1. Bound(m, s) \in SUBSET Nat /\ Bound(m, s) # {}
  BY Positions DEF Cached, Bound
<1>2. Min(Bound(m, s)) \in Bound(m, s)
  BY <1>1, FirstOf
<1> QED BY <1>2, Positions DEF CachedIn, Bound, SlotOf

LEMMA NotCached ==
  ASSUME NEW m, NEW s, ~Cached(m, s)
  PROVE  \A q \in Registers : SlotOf(m, q) # s
BY Positions DEF Cached, Bound, SlotOf

LEMMA LoadHeld ==
  ASSUME NEW B \in SUBSET Slots, NEW m, Good(m, B), NEW s \in Slots, NEW busy,
         busy = {} \/ \E q : busy = {q}, ~Cached(m, s)
  PROVE  LET o == Load(m, s, busy) IN
         /\ Good(o.m, B) /\ Held(m, o, s) /\ o.reg \notin busy /\ SlotOf(o.m, o.reg) = None
         /\ o.reg = Pick(m, {}) \/ o.reg = Pick(Allocate(m, {}).m, busy)
<1> DEFINE o == Load(m, s, busy)
<1>1. Good(o.m, B) /\ Loads(m, o, s, busy)
  BY LoadFacts
<1> HIDE DEF o
<1>2. m.val \in [Registers -> Values]
  BY Fields DEF Good
<1>3. ASSUME NEW t, NEW S, S \subseteq Slots, Sound(m, t, S), s \in S \ m.spoiled
      PROVE  o.m.val[o.reg] = t[s]
  BY <1>1, <1>2, <1>3, NotCached DEF Sound, Reads, Loads
<1>4. \A q \in Registers \ {o.reg} : o.m.val[q] = m.val[q]
  BY <1>1, <1>2 DEF Loads
<1>5. Held(m, o, s)
  BY <1>1, <1>3, <1>4 DEF Held, Keeps, Loads
<1> QED BY <1>1, <1>5 DEF o, Loads

LEMMA OperandFacts ==
  ASSUME NEW B \in SUBSET Slots, NEW m, Good(m, B), NEW s \in Slots, NEW busy,
         busy = {} \/ \E q : busy = {q}
  PROVE  LET o == Operand(m, s, busy) IN
         /\ Good(o.m, B) /\ Held(m, o, s) /\ (o.reg \in busy => SlotOf(m, o.reg) = s)
<1> DEFINE o == Operand(m, s, busy)
<1>1. CASE Cached(m, s)
  <2>1. o.m = m /\ o.reg = CachedIn(m, s)
    BY <1>1 DEF Operand
  <2>2. o.reg \in Registers /\ SlotOf(m, o.reg) = s
    BY <1>1, <2>1, CachedInFacts
  <2> HIDE DEF o
  <2>3. Keeps(m, m)
    BY DEF Keeps, Kept
  <2>4. \A t, S : S \subseteq Slots /\ Sound(m, t, S) /\ s \in S \ m.spoiled => m.val[o.reg] = t[s]
    BY <2>2 DEF Sound, Reads
  <2>5. Held(m, o, s)
    BY <2>1, <2>2, <2>3, <2>4 DEF Held
  <2> QED BY <2>1, <2>2, <2>5 DEF o
<1>2. CASE ~Cached(m, s)
  BY <1>2, LoadHeld DEF Operand
<1> QED BY <1>1, <1>2

-------------------------------------------------------------------------------
(* The operands of a binary operation. *)

\* The slots that may be bound when dest may be as well: variables never are.
With(B, dest) == B \cup ({dest} \cap Temps)

\* The register of the left operand becomes the result's.
Claimed(k, n, q, dest) ==
  /\ n.val = k.val /\ n.spoiled = k.spoiled
  /\ SlotOf(n, q) = dest
  /\ \A x \in Registers \ {q} : SlotOf(n, x) = SlotOf(k, x)
  /\ \A v, S : S \subseteq Slots /\ Sound(k, v, S) => Sound(n, v, S \ {dest})

\* It is bound to the slot whose value it holds; what it cached is in the frame.
LEMMA BindClaimed ==
  ASSUME NEW B \in SUBSET Temps, NEW k, Good(k, B), NEW q \in Registers,
         NEW dest \in Temps, dest \notin B,
         SlotOf(k, q) # None => k.mem[SlotOf(k, q)] = k.val[q]
  PROVE  Good(Bind(k, q, dest), With(B, dest)) /\ Claimed(k, Bind(k, q, dest), q, dest)
<1> DEFINE n == Bind(k, q, dest)
<1>0. n = Bind(k, q, dest)
  OBVIOUS
<1> HIDE DEF n
<1>1. B \in SUBSET Slots /\ dest \in Slots /\ With(B, dest) = B \cup {dest}
  BY SlotsTyped DEF With
<1>2. Good(n, B \cup {dest}) /\ BoundTo(k, n, q, dest)
  BY <1>0, <1>1, BindFacts
<1>4. \A x \in Registers : SlotOf(k, x) # dest
  BY SlotsTyped DEF Good
<1>5. ASSUME NEW v, NEW S, S \subseteq Slots, Sound(k, v, S) PROVE Sound(n, v, S \ {dest})
  <2>1. SlotOf(k, q) \in S /\ SlotOf(k, q) # dest => k.mem[SlotOf(k, q)] = k.val[q]
    BY <1>5, SlotsTyped
  <2> QED BY <1>2, <1>5, <2>1 DEF BoundTo
<1>6. Claimed(k, n, q, dest)
  BY <1>2, <1>4, <1>5 DEF Claimed, BoundTo
<1> QED BY <1>0, <1>1, <1>2, <1>6

LEMMA ClaimFacts ==
  ASSUME NEW B \in SUBSET Temps, NEW k, Good(k, B), NEW q \in Registers,
         NEW dest \in Temps, dest \notin B
  PROVE  Good(Claim(k, q, dest), With(B, dest)) /\ Claimed(k, Claim(k, q, dest), q, dest)
<1>1. B \in SUBSET Slots
  BY SlotsTyped
<1>2. CASE SlotOf(k, q) = None
  <2>1. Claim(k, q, dest) = Bind(k, q, dest)
    BY <1>2 DEF Claim, SlotOf
  <2> QED BY <1>2, <2>1, BindClaimed
<1>3. CASE SlotOf(k, q) # None
  <2> DEFINE j == Spill(k, q)
  <2>1. k.regs[q].dirty /\ SlotOf(k, q) \in B
    BY <1>3 DEF Good
  <2>2. Claim(k, q, dest) = Bind(j, q, dest)
    BY <1>3, <2>1 DEF Claim, SlotOf
  <2>0. j = Spill(k, q)
    OBVIOUS
  <2> HIDE DEF j
  <2>3. /\ Good(j, B) /\ j.regs = k.regs /\ j.val = k.val /\ j.spoiled = k.spoiled
        /\ j.mem = [k.mem EXCEPT ![SlotOf(k, q)] = k.val[q]]
        /\ \A v, S : S \subseteq Slots /\ Sound(k, v, S) => Sound(j, v, S)
    BY <1>1, <2>0, SpillFacts
  <2>4. SlotOf(j, q) = SlotOf(k, q) /\ k.mem \in [Slots -> Values] /\ SlotOf(k, q) \in Slots
    BY <1>1, <2>1, <2>3, Fields DEF SlotOf, Good
  <2>5. j.mem[SlotOf(j, q)] = j.val[q]
    BY <2>3, <2>4
  <2>6. Good(Bind(j, q, dest), With(B, dest)) /\ Claimed(j, Bind(j, q, dest), q, dest)
    BY <2>3, <2>5, BindClaimed
  <2>7. \A x \in Registers : SlotOf(j, x) = SlotOf(k, x)
    BY <2>3 DEF SlotOf
  <2> DEFINE n == Bind(j, q, dest)
  <2> HIDE DEF n
  <2>8. ASSUME Claimed(j, n, q, dest) PROVE Claimed(k, n, q, dest)
    BY <2>3, <2>7, <2>8 DEF Claimed
  <2> QED BY <2>2, <2>6, <2>8 DEF n
<1> QED BY <1>2, <1>3

\* Both operands are in registers of their own, the left one's for the result.
InHand(m, s, l, r, dest) ==
  /\ s.lhs \in Registers /\ s.rhs \in Registers /\ s.lhs # s.rhs
  /\ s.m.spoiled = m.spoiled
  /\ SlotOf(s.m, s.lhs) \in {dest, None} /\ SlotOf(s.m, s.rhs) \in {r, None}
  /\ \A q \in Registers \ {s.lhs} : SlotOf(s.m, q) # dest
  /\ \A v, S : S \subseteq Slots /\ Sound(m, v, S) => Sound(s.m, v, S \ {dest})
  /\ \A v, S : S \subseteq Slots /\ Sound(m, v, S) /\ {l, r} \subseteq S \ m.spoiled
                 => s.m.val[s.lhs] = v[l] /\ s.m.val[s.rhs] = v[r]

\* What an instruction may be given: two operands, the same one only if it is a
\* variable, and for the result a new temporary or the left operand.
MayCombine(B, l, r, dest) ==
  /\ B \subseteq Temps /\ l \in Slots /\ r \in Slots
  /\ l = r => l \notin B
  /\ dest \in Temps \ B \/ (dest = l /\ l \in Names)

LEMMA SetupFacts ==
  ASSUME NEW B, NEW m, Good(m, B), NEW l, NEW r, NEW dest, MayCombine(B, l, r, dest)
  PROVE  Good(Setup(m, l, r, dest).m, With(B, dest)) /\ InHand(m, Setup(m, l, r, dest), l, r, dest)
<1> DEFINE a == Operand(m, l, {})
           b == Operand(a.m, r, {a.reg})
           s == Setup(m, l, r, dest)
<1>1. B \in SUBSET Slots /\ B \in SUBSET Temps /\ l \in Slots /\ r \in Slots /\ dest \notin B
      /\ l # None /\ r # None
  BY SlotsTyped DEF MayCombine
<1>2. Good(a.m, B) /\ Held(m, a, l)
  BY <1>1, OperandFacts
<1>3. s = BothOperands(a, b, dest)
  BY DEF Setup, RightOperand
<1> HIDE DEF a
<1>4. Good(b.m, B) /\ Held(a.m, b, r) /\ (b.reg \in {a.reg} => SlotOf(a.m, b.reg) = r)
  BY <1>1, <1>2, OperandFacts
<1> HIDE DEF b, s
<1>5. s.lhs = a.reg /\ s.rhs = b.reg /\ s.m = IF dest \in Temps THEN Claim(b.m, a.reg, dest) ELSE b.m
  BY <1>3 DEF BothOperands
<1>6. a.reg \in Registers /\ b.reg \in Registers /\ a.reg # b.reg
  <2>1. a.reg = b.reg => SlotOf(a.m, a.reg) = r /\ SlotOf(a.m, a.reg) \in {l, None}
    BY <1>2, <1>4 DEF Held
  <2>2. a.reg \in Registers /\ SlotOf(a.m, a.reg) \in B \cup {None}
    BY <1>2 DEF Held, Good
  <2> QED BY <1>1, <1>2, <1>4, <2>1, <2>2 DEF Held, MayCombine
<1>7. SlotOf(b.m, a.reg) \in {l, None} /\ SlotOf(b.m, b.reg) \in {r, None} /\ b.m.spoiled = m.spoiled
  BY <1>2, <1>4 DEF Held, Keeps, Kept
<1>8. ASSUME NEW v, NEW S, S \subseteq Slots, Sound(m, v, S) PROVE Sound(b.m, v, S)
  BY <1>2, <1>4, <1>8 DEF Held, Keeps
<1>9. ASSUME NEW v, NEW S, S \subseteq Slots, Sound(m, v, S), {l, r} \subseteq S \ m.spoiled
      PROVE  b.m.val[a.reg] = v[l] /\ b.m.val[b.reg] = v[r]
  <2>1. Sound(a.m, v, S) /\ a.m.spoiled = m.spoiled
    BY <1>2, <1>9 DEF Held, Keeps, Kept
  <2>2. a.m.val[a.reg] = v[l]
    BY <1>2, <1>9 DEF Held
  <2>3. b.m.val[b.reg] = v[r]
    BY <1>4, <1>9, <2>1 DEF Held
  <2>4. b.m.val[a.reg] = a.m.val[a.reg]
    BY <1>4, <1>6 DEF Held
  <2> QED BY <2>2, <2>3, <2>4
<1>10. CASE dest \in Temps
  <2>1. Good(s.m, With(B, dest)) /\ Claimed(b.m, s.m, a.reg, dest)
    BY <1>1, <1>4, <1>5, <1>6, <1>10, ClaimFacts
  <2>2. \A q \in Registers : SlotOf(b.m, q) # dest
    BY <1>1, <1>4, <1>10, SlotsTyped DEF Good
  <2>3. ASSUME NEW v, NEW S, S \subseteq Slots, Sound(m, v, S) PROVE Sound(s.m, v, S \ {dest})
    BY <1>8, <2>1, <2>3 DEF Claimed
  <2>4. SlotOf(s.m, a.reg) = dest /\ s.m.val = b.m.val /\ s.m.spoiled = b.m.spoiled
        /\ \A q \in Registers \ {a.reg} : SlotOf(s.m, q) = SlotOf(b.m, q)
    BY <2>1 DEF Claimed
  <2>5. InHand(m, s, l, r, dest)
    BY <1>5, <1>6, <1>7, <1>9, <2>2, <2>3, <2>4 DEF InHand
  <2> QED BY <2>1, <2>5 DEF s
<1>11. CASE dest \notin Temps
  <2>1. s.m = b.m /\ dest = l /\ With(B, dest) = B
    BY <1>5, <1>11 DEF MayCombine, With
  <2>2. \A q \in Registers : SlotOf(b.m, q) # dest
    BY <1>1, <1>4, <2>1 DEF Good
  <2>3. ASSUME NEW v, NEW S, S \subseteq Slots, Sound(m, v, S) PROVE Sound(s.m, v, S \ {dest})
    BY <1>8, <2>1, <2>3 DEF Sound
  <2>4. InHand(m, s, l, r, dest)
    BY <1>5, <1>6, <1>7, <1>9, <2>1, <2>2, <2>3 DEF InHand
  <2> QED BY <1>4, <2>1, <2>4 DEF s
<1> QED BY <1>10, <1>11

-------------------------------------------------------------------------------
(* Results. *)

\* A store to the frame.
Stored(m, n, dest, v) ==
  /\ n.regs = m.regs /\ n.val = m.val /\ n.spoiled = m.spoiled
  /\ n.mem[dest] = v /\ \A s \in Slots \ {dest} : n.mem[s] = m.mem[s]
  /\ \A t, S : S \subseteq Slots \ {dest} /\ Sound(m, t, S) => Sound(n, t, S)

LEMMA MemFacts ==
  ASSUME NEW B \in SUBSET Slots, NEW m, Good(m, B), NEW dest \in Slots, NEW v \in Values
  PROVE  Good([m EXCEPT !.mem[dest] = v], B) /\ Stored(m, [m EXCEPT !.mem[dest] = v], dest, v)
<1> DEFINE n == [m EXCEPT !.mem[dest] = v]
<1>1. m \in Machines /\ m.mem \in [Slots -> Values]
  BY Fields DEF Good
<1>2. /\ n \in Machines /\ n.regs = m.regs /\ n.val = m.val /\ n.spoiled = m.spoiled
      /\ n.mem = [m.mem EXCEPT ![dest] = v]
  <2>1. n = [m EXCEPT !.mem[dest] = v]
    OBVIOUS
  <2> HIDE DEF n
  <2> QED BY <1>1, <2>1, SetMem
<1> HIDE DEF n
<1>3. \A q \in Registers : SlotOf(n, q) = SlotOf(m, q)
  BY <1>2 DEF SlotOf
<1>4. Good(n, B)
  BY <1>2, <1>3 DEF Good
<1>5. n.mem[dest] = v /\ \A s \in Slots \ {dest} : n.mem[s] = m.mem[s]
  BY <1>1, <1>2
<1>6. ASSUME NEW t, NEW S, S \subseteq Slots \ {dest}, Sound(m, t, S) PROVE Sound(n, t, S)
  BY <1>2, <1>3, <1>5, <1>6 DEF Sound, Reads
<1>7. Stored(m, n, dest, v)
  BY <1>2, <1>5, <1>6 DEF Stored
<1> QED BY <1>4, <1>7 DEF n

\* A result computed into a register.
Computes(m, n, r, v) ==
  /\ n.regs = m.regs /\ n.mem = m.mem /\ n.spoiled = m.spoiled
  /\ n.val[r] = v /\ \A q \in Registers \ {r} : n.val[q] = m.val[q]
  /\ \A t, S : S \subseteq Slots /\ SlotOf(m, r) \notin S /\ Sound(m, t, S) => Sound(n, t, S)

LEMMA ValFacts ==
  ASSUME NEW B \in SUBSET Slots, NEW m, Good(m, B), NEW r \in Registers, NEW v \in Values
  PROVE  Good([m EXCEPT !.val[r] = v], B) /\ Computes(m, [m EXCEPT !.val[r] = v], r, v)
<1> DEFINE n == [m EXCEPT !.val[r] = v]
<1>1. m \in Machines /\ m.val \in [Registers -> Values]
  BY Fields DEF Good
<1>2. Written(m, n, r, v)
  BY <1>1, SetVal
<1> HIDE DEF n
<1>3. \A q \in Registers : SlotOf(n, q) = SlotOf(m, q)
  BY <1>2 DEF SlotOf, Written
<1>4. Good(n, B)
  BY <1>2, <1>3 DEF Good, Written
<1>5. n.val[r] = v /\ \A q \in Registers \ {r} : n.val[q] = m.val[q]
  BY <1>1, <1>2 DEF Written
<1>6. ASSUME NEW t, NEW S, S \subseteq Slots, SlotOf(m, r) \notin S, Sound(m, t, S) PROVE Sound(n, t, S)
  BY <1>2, <1>3, <1>5, <1>6 DEF Sound, Reads, Written
<1>7. Computes(m, n, r, v)
  BY <1>2, <1>5, <1>6 DEF Computes, Written
<1> QED BY <1>4, <1>7 DEF n

\* A slot reads the same after the release of a register.
LEMMA ReleaseReads ==
  ASSUME NEW B \in SUBSET Slots, NEW m, Good(m, B), NEW r \in Registers,
         NEW s \in Slots, NEW v, Reads(m, s, v), SlotOf(m, r) = s => m.mem[s] = v
  PROVE  Reads(Release(m, r), s, v)
<1> DEFINE n == Release(m, r)
<1>1. Released(m, n, r) /\ s # None
  BY ReleaseFacts, SlotsTyped
<1> HIDE DEF n
<1>2. \A q \in Registers : q # r => SlotOf(n, q) = SlotOf(m, q)
  BY <1>1 DEF Released, SlotOf
<1>3. Reads(n, s, v)
  BY <1>1, <1>2 DEF Reads, Released
<1> QED BY <1>3 DEF n

\* The result is in the frame and, for a temporary, in its register.
ResultIn(m, n, src, dest) ==
  /\ n.spoiled = m.spoiled /\ n.val = m.val
  /\ Reads(n, dest, m.val[src]) /\ n.mem[dest] = m.val[src]
  /\ SlotOf(n, src) \in {dest, None}
  /\ \A q \in Registers \ {src} :
       SlotOf(n, q) = IF SlotOf(m, q) = dest THEN None ELSE SlotOf(m, q)
  /\ \A t, S : S \subseteq Slots \ {dest} /\ Sound(m, t, S) => Sound(n, t, S)

LEMMA StoreVariableFacts ==
  ASSUME NEW B \in SUBSET Slots, NEW m, Good(m, B), NEW src \in Registers, NEW dest \in Slots, NEW fixed,
         SlotOf(m, src) \in {dest, None}, m.mem[dest] = m.val[src],
         \A q \in Registers \ {src} : SlotOf(m, q) # dest
  PROVE  Good(StoreVariable(m, src, fixed), B) /\ ResultIn(m, StoreVariable(m, src, fixed), src, dest)
<1> DEFINE n == StoreVariable(m, src, fixed)
<1>1. Reads(m, dest, m.val[src])
  BY DEF Reads
<1>2. CASE ~fixed
  <2>1. n = m
    BY <1>2 DEF StoreVariable
  <2>2. ResultIn(m, m, src, dest)
    BY <1>1 DEF ResultIn
  <2> QED BY <2>1, <2>2
<1>3. CASE fixed
  <2>0. n = Release(m, src)
    BY <1>3 DEF StoreVariable
  <2>1. Good(n, B) /\ Released(m, n, src)
    BY <2>0, ReleaseFacts
  <2>2. Reads(n, dest, m.val[src])
    BY <1>1, <2>0, ReleaseReads
  <2>3. ASSUME NEW t, NEW S, S \subseteq Slots \ {dest}, Sound(m, t, S) PROVE Sound(n, t, S)
    <3>1. SlotOf(m, src) \notin S /\ S \in SUBSET Slots
      BY <2>3, SlotsTyped
    <3> QED BY <2>0, <2>3, <3>1, ReleaseSound
  <2> HIDE DEF n
  <2>4. \A q \in Registers \ {src} : SlotOf(n, q) = SlotOf(m, q)
    BY <2>1 DEF Released, SlotOf
  <2>5. ResultIn(m, n, src, dest)
    BY <2>1, <2>2, <2>3, <2>4 DEF ResultIn, Released
  <2> QED BY <2>1, <2>5 DEF n
<1> QED BY <1>2, <1>3

LEMMA StoreResultFacts ==
  ASSUME NEW B \in SUBSET Temps, NEW dest \in Slots, NEW m, Good(m, With(B, dest)),
         NEW src \in Registers, NEW fixed, SlotOf(m, src) \in {dest, None}
  PROVE  /\ Good(StoreResult(m, src, dest, fixed), With(B, dest))
         /\ ResultIn(m, StoreResult(m, src, dest, fixed), src, dest)
<1> DEFINE C == With(B, dest)
           v == m.val[src]
           k == [m EXCEPT !.mem[dest] = v]
           n == StoreResult(m, src, dest, fixed)
<1>1. C \in SUBSET Slots /\ C \in SUBSET Temps /\ v \in Values
  BY SlotsTyped, Fields DEF With, Good
<1>2. Good(k, C) /\ Stored(m, k, dest, v)
  BY <1>1, MemFacts
<1> HIDE DEF C, k, v
<1>3. /\ k.val = m.val /\ k.spoiled = m.spoiled /\ k.mem[dest] = v
      /\ \A q \in Registers : SlotOf(k, q) = SlotOf(m, q)
      /\ \A t, S : S \subseteq Slots \ {dest} /\ Sound(m, t, S) => Sound(k, t, S)
  BY <1>2 DEF Stored, SlotOf
<1>4. CASE dest \in Names
  <2>1. n = StoreVariable(k, src, fixed)
    BY <1>4 DEF StoreResult, k, v
  <2>2. \A q \in Registers : SlotOf(k, q) # dest
    BY <1>1, <1>2, <1>4, SlotsTyped DEF Good
  <2>3. Good(n, C) /\ ResultIn(k, n, src, dest)
    BY <1>1, <1>2, <1>3, <2>1, <2>2, StoreVariableFacts DEF v
  <2> HIDE DEF n
  <2>4. ResultIn(m, n, src, dest)
    BY <1>3, <2>2, <2>3 DEF ResultIn
  <2> QED BY <2>3, <2>4 DEF n, C
<1>5. CASE dest \notin Names
  <2> DEFINE f == Forget(k, dest, {src})
  <2>1. dest \in Temps /\ C = C \cup {dest}
    BY <1>5 DEF Slots, C, With
  <2>2. n = StoreTemporary(f, src, dest, fixed)
    BY <1>5 DEF StoreResult, k, v
  <2>0. f = Forget(k, dest, {src})
    OBVIOUS
  <2> HIDE DEF f
  <2>3. /\ Good(f, C) /\ f.val = k.val /\ f.mem = k.mem /\ f.spoiled = k.spoiled
        /\ \A q \in Registers :
             SlotOf(f, q) = IF SlotOf(k, q) = dest /\ q \notin {src} THEN None ELSE SlotOf(k, q)
        /\ \A t, S : S \subseteq Slots /\ Sound(k, t, S) => Sound(f, t, S \ {dest})
    <3>1. Good(f, C) /\ Forgotten(k, f, dest, {src})
      BY <1>1, <1>2, <2>0, ForgetFacts
    <3> QED BY <3>1 DEF Forgotten
  <2>4. SlotOf(f, src) \in {dest, None} /\ f.mem[dest] = f.val[src]
        /\ \A q \in Registers \ {src} : SlotOf(f, q) # dest
    BY <1>3, <2>3, SlotsTyped DEF v
  <2>5. ASSUME NEW t, NEW S, S \subseteq Slots \ {dest}, Sound(m, t, S) PROVE Sound(f, t, S)
    <3>1. Sound(k, t, S) /\ S \subseteq Slots /\ S \ {dest} = S
      BY <1>3, <2>5
    <3>2. Sound(f, t, S \ {dest})
      BY <2>3, <3>1
    <3> QED BY <3>1, <3>2
  <2>6. CASE Cached(f, dest)
    <3>1. n = StoreVariable(f, src, fixed)
      BY <2>2, <2>6 DEF StoreTemporary
    <3>2. Good(n, C) /\ ResultIn(f, n, src, dest)
      BY <1>1, <2>3, <2>4, <3>1, StoreVariableFacts
    <3> HIDE DEF n
    <3>3. ResultIn(m, n, src, dest)
      BY <1>3, <2>3, <2>4, <2>5, <3>2 DEF ResultIn
    <3> QED BY <3>2, <3>3 DEF n, C
  <2>7. CASE ~Cached(f, dest)
    <3>1. n = Bind(f, src, dest)
      BY <2>2, <2>7 DEF StoreTemporary
    <3>2. Good(n, C) /\ BoundTo(f, n, src, dest)
      BY <1>1, <2>1, <2>3, <3>1, BindFacts
    <3>3. SlotOf(f, src) = None
      BY <2>4, <2>7, NotCached
    <3> HIDE DEF n
    <3>4. ASSUME NEW t, NEW S, S \subseteq Slots \ {dest}, Sound(m, t, S) PROVE Sound(n, t, S)
      <4>1. Sound(f, t, S) /\ S \subseteq Slots /\ S \ {dest} = S /\ None \notin S
        BY <2>5, <3>4, SlotsTyped
      <4>2. Sound(n, t, S \ {dest})
        BY <3>2, <3>3, <4>1 DEF BoundTo
      <4> QED BY <4>1, <4>2
    <3>5. ResultIn(m, n, src, dest)
      BY <1>3, <2>3, <2>4, <3>2, <3>4 DEF ResultIn, BoundTo, v
    <3> QED BY <3>2, <3>5 DEF n, C
  <2> QED BY <2>6, <2>7
<1> QED BY <1>4, <1>5

\* What an instruction does to the slots: those of T keep their values, and dest
\* reads as v unless an operand is spoiled.
Effect(m, n, T, dest, from, v) ==
  /\ m.spoiled \subseteq n.spoiled
  /\ Sound(n, truth, T)
  /\ from \cap n.spoiled = {} => Reads(n, dest, v)

Elsewhere(k, n, src, dest) ==
  /\ SlotOf(n, src) \in {dest, None}
  /\ \A q \in Registers \ {src} : SlotOf(n, q) \in {SlotOf(k, q), None} \ {dest}

LEMMA ResultFacts ==
  ASSUME NEW B \in SUBSET Temps, NEW dest \in Slots, NEW m, NEW k, Good(k, With(B, dest)),
         m.spoiled \subseteq k.spoiled,
         NEW T, T \subseteq Slots \ {dest}, Sound(k, truth, T), NEW from, NEW v, NEW fixed,
         NEW src \in Registers, SlotOf(k, src) \in {dest, None},
         from \cap k.spoiled = {} => k.val[src] = v
  PROVE  LET n == StoreResult(k, src, dest, fixed) IN
         /\ Good(n, With(B, dest)) /\ Effect(m, n, T, dest, from, v)
         /\ Elsewhere(k, n, src, dest)
<1> DEFINE n == StoreResult(k, src, dest, fixed)
<1>1. Good(n, With(B, dest)) /\ ResultIn(k, n, src, dest)
  BY StoreResultFacts
<1> HIDE DEF n
<1>2. Effect(m, n, T, dest, from, v)
  BY <1>1 DEF Effect, ResultIn
<1>3. SlotOf(n, src) \in {dest, None}
  BY <1>1 DEF ResultIn
<1>4. \A q \in Registers \ {src} : SlotOf(n, q) \in {SlotOf(k, q), None} \ {dest}
  BY <1>1, SlotsTyped DEF ResultIn
<1> QED BY <1>1, <1>2, <1>3, <1>4 DEF n, Elsewhere

\* A register that holds neither the result nor a slot still in use is released.
LetGo(n, o, x) ==
  /\ o.spoiled = n.spoiled /\ o.val = n.val /\ o.mem = n.mem /\ SlotOf(o, x) = None
  /\ \A q \in Registers \ {x} : SlotOf(o, q) = SlotOf(n, q)

LEMMA LetGoFacts ==
  ASSUME NEW B \in SUBSET Slots, NEW dest \in Slots, NEW m, NEW n, Good(n, B),
         NEW T, T \subseteq Slots, NEW from, NEW v, Effect(m, n, T, dest, from, v),
         NEW x \in Registers, SlotOf(n, x) \notin T,
         SlotOf(n, x) = dest => from \cap n.spoiled # {} \/ n.mem[dest] = v
  PROVE  /\ Good(Release(n, x), B) /\ Effect(m, Release(n, x), T, dest, from, v)
         /\ LetGo(n, Release(n, x), x)
<1> DEFINE o == Release(n, x)
<1>1. Good(o, B) /\ Released(n, o, x)
  BY ReleaseFacts
<1>2. Sound(o, truth, T)
  BY ReleaseSound DEF Effect
<1>3. ASSUME from \cap n.spoiled = {} PROVE Reads(o, dest, v)
  BY <1>3, ReleaseReads DEF Effect
<1> HIDE DEF o
<1>4. Effect(m, o, T, dest, from, v)
  BY <1>1, <1>2, <1>3 DEF Effect, Released
<1>5. LetGo(n, o, x)
  BY <1>1 DEF LetGo, Released, SlotOf
<1> QED BY <1>1, <1>4, <1>5 DEF o

LEMMA ReleaseUnlessFacts ==
  ASSUME NEW B \in SUBSET Slots, NEW dest \in Slots, NEW m, NEW n, Good(n, B),
         NEW T, T \subseteq Slots, NEW from, NEW v, Effect(m, n, T, dest, from, v),
         NEW x \in Registers, NEW kept, SlotOf(n, x) \notin T \cup {dest}
  PROVE  LET o == ReleaseUnless(n, x, kept) IN Good(o, B) /\ Effect(m, o, T, dest, from, v)
BY LetGoFacts DEF ReleaseUnless

LEMMA CombineFacts ==
  ASSUME NEW m, NEW left, NEW right, NEW l, NEW r, NEW v \in Slots
  PROVE  /\ Combine(m, left, right, l, r, v) \in Values
         /\ m.val[left] = truth[l] /\ m.val[right] = truth[r] => Combine(m, left, right, l, r, v) = v
BY SlotsTyped DEF Combine, Computed

-------------------------------------------------------------------------------
(* Binary operations. *)

\* S has the slots with a value before the operation, T those needed after it.
Given(B, m, S, T, l, r, dest, v) ==
  /\ MayCombine(B, l, r, dest) /\ Good(m, B) /\ v \in Slots
  /\ S \subseteq Slots /\ Sound(m, truth, S) /\ {l, r} \subseteq S
  /\ T \subseteq S \ {dest} /\ (r \in T => r \notin B)

\* Both operands as the operation finds them in k, from left and right.
OperandsIn(B, m, k, T, l, r, dest, left, right) ==
  /\ Good(k, With(B, dest)) /\ m.spoiled \subseteq k.spoiled /\ Sound(k, truth, T)
  /\ left \in Registers /\ right \in Registers /\ left # right
  /\ SlotOf(k, left) \in {dest, None}
  /\ \A q \in Registers \ {left} : SlotOf(k, q) # dest
  /\ {l, r} \cap k.spoiled = {} => k.val[left] = truth[l] /\ k.val[right] = truth[r]

LEMMA GivenTyped ==
  ASSUME NEW B, NEW m, NEW S, NEW T, NEW l, NEW r, NEW dest, NEW v, Given(B, m, S, T, l, r, dest, v)
  PROVE  /\ B \in SUBSET Temps /\ dest \in Slots /\ T \subseteq Slots \ {dest} /\ dest # None
         /\ With(B, dest) \in SUBSET Slots /\ l \in Slots /\ r \in Slots
BY SlotsTyped DEF Given, MayCombine, With

LEMMA SetupOperands ==
  ASSUME NEW B, NEW m, NEW S, NEW T, NEW l, NEW r, NEW dest, NEW v, Given(B, m, S, T, l, r, dest, v)
  PROVE  LET s == Setup(m, l, r, dest) IN
         /\ OperandsIn(B, m, s.m, T, l, r, dest, s.lhs, s.rhs)
         /\ s.m.spoiled = m.spoiled /\ SlotOf(s.m, s.rhs) \notin T \cup {dest}
<1> DEFINE s == Setup(m, l, r, dest)
<1>1. Good(s.m, With(B, dest)) /\ InHand(m, s, l, r, dest)
  BY SetupFacts DEF Given
<1> HIDE DEF s
<1>2. Sound(s.m, truth, T)
  <2>1. Sound(s.m, truth, S \ {dest})
    BY <1>1 DEF InHand, Given
  <2> QED BY <2>1 DEF Sound, Given
<1>3. SlotOf(s.m, s.rhs) \notin T \cup {dest}
  <2>1. SlotOf(s.m, s.rhs) \in {r, None} /\ SlotOf(s.m, s.rhs) # dest
    BY <1>1 DEF InHand
  <2>2. SlotOf(s.m, s.rhs) \in With(B, dest) \cup {None}
    BY <1>1 DEF Good, InHand
  <2> QED BY <2>1, <2>2, GivenTyped, SlotsTyped DEF Given, With
<1>4. ASSUME {l, r} \cap s.m.spoiled = {}
      PROVE  s.m.val[s.lhs] = truth[l] /\ s.m.val[s.rhs] = truth[r]
  <2>1. {l, r} \subseteq S \ m.spoiled
    BY <1>1, <1>4 DEF InHand, Given
  <2> QED BY <1>1, <2>1 DEF InHand, Given
<1>5. OperandsIn(B, m, s.m, T, l, r, dest, s.lhs, s.rhs)
  BY <1>1, <1>2, <1>3, <1>4 DEF OperandsIn, InHand
<1> QED BY <1>1, <1>3, <1>5 DEF s, InHand

\* The result is computed into the left operand's register, and the right one's released.
LEMMA IntoLeft ==
  ASSUME NEW B, NEW m, NEW S, NEW T, NEW l, NEW r, NEW dest, NEW v, Given(B, m, S, T, l, r, dest, v),
         NEW k, NEW left, NEW right, NEW other \in Registers, NEW kept,
         OperandsIn(B, m, k, T, l, r, dest, left, right),
         other # left, SlotOf(k, other) \notin T \cup {dest}
  PROVE  LET n == ReleaseUnless(
                    StoreResult([k EXCEPT !.val[left] = Combine(k, left, right, l, r, v)],
                                left, dest, FALSE), other, kept)
         IN  Good(n, With(B, dest)) /\ Effect(m, n, T, dest, {l, r}, v)
<1> DEFINE w == Combine(k, left, right, l, r, v)
           j == [k EXCEPT !.val[left] = w]
           n == StoreResult(j, left, dest, FALSE)
<1>0. /\ v \in Slots /\ B \in SUBSET Temps /\ dest \in Slots /\ T \subseteq Slots \ {dest}
      /\ dest # None /\ With(B, dest) \in SUBSET Slots
  BY GivenTyped DEF Given
<1>1. w \in Values /\ ({l, r} \cap k.spoiled = {} => w = v)
  BY <1>0, CombineFacts DEF OperandsIn
<1> HIDE DEF w
<1>2. Good(j, With(B, dest)) /\ Computes(k, j, left, w)
  BY <1>1, GivenTyped, ValFacts DEF OperandsIn
<1> HIDE DEF j
<1>3. /\ j.spoiled = k.spoiled /\ j.val[left] = w /\ \A q \in Registers : SlotOf(j, q) = SlotOf(k, q)
      /\ Sound(j, truth, T)
  <2>1. SlotOf(k, left) \notin T /\ T \subseteq Slots
    BY GivenTyped, SlotsTyped DEF OperandsIn
  <2> QED BY <1>2, <2>1 DEF Computes, OperandsIn, SlotOf
<1>4. /\ Good(n, With(B, dest)) /\ Effect(m, n, T, dest, {l, r}, v)
      /\ Elsewhere(j, n, left, dest)
  <2>1. m.spoiled \subseteq j.spoiled /\ left \in Registers /\ SlotOf(j, left) \in {dest, None}
        /\ ({l, r} \cap j.spoiled = {} => j.val[left] = v)
    BY <1>1, <1>3 DEF OperandsIn
  <2> QED BY <1>0, <1>2, <1>3, <2>1, ResultFacts
<1> HIDE DEF n
<1>5. SlotOf(n, other) \notin T \cup {dest}
  BY <1>0, <1>3, <1>4, SlotsTyped DEF Elsewhere
<1>6. Good(ReleaseUnless(n, other, kept), With(B, dest))
      /\ Effect(m, ReleaseUnless(n, other, kept), T, dest, {l, r}, v)
  BY <1>0, <1>4, <1>5, ReleaseUnlessFacts
<1> QED BY <1>6 DEF n, j, w

LEMMA ArithmeticFacts ==
  ASSUME NEW B, NEW m, NEW S, NEW T, NEW l, NEW r, NEW dest, NEW v, Given(B, m, S, T, l, r, dest, v)
  PROVE  LET n == ArithmeticCode(m, l, r, dest, v) IN
         Good(n, With(B, dest)) /\ Effect(m, n, T, dest, {l, r}, v)
<1> DEFINE s == Setup(m, l, r, dest)
<1>1. OperandsIn(B, m, s.m, T, l, r, dest, s.lhs, s.rhs) /\ SlotOf(s.m, s.rhs) \notin T \cup {dest}
  BY SetupOperands
<1>2. ArithmeticCode(m, l, r, dest, v) =
        ReleaseUnless(StoreResult([s.m EXCEPT !.val[s.lhs] = Combine(s.m, s.lhs, s.rhs, l, r, v)],
                                  s.lhs, dest, FALSE), s.rhs, {s.lhs})
  BY DEF ArithmeticCode, ArithmeticFrom
<1> HIDE DEF s
<1>3. s.rhs \in Registers /\ s.rhs # s.lhs /\ SlotOf(s.m, s.rhs) \notin T \cup {dest}
  BY <1>1 DEF OperandsIn
<1> DEFINE n == ReleaseUnless(
                  StoreResult([s.m EXCEPT !.val[s.lhs] = Combine(s.m, s.lhs, s.rhs, l, r, v)],
                              s.lhs, dest, FALSE), s.rhs, {s.lhs})
<1>4. Good(n, With(B, dest)) /\ Effect(m, n, T, dest, {l, r}, v)
  BY <1>1, <1>3, IntoLeft
<1> QED BY <1>2, <1>4

\* The left operand leaves RCX after everything dirty has been stored.
LEMMA LeaveRCXFacts ==
  ASSUME NEW B, NEW m, NEW S, NEW T, NEW l, NEW r, NEW dest, NEW v, Given(B, m, S, T, l, r, dest, v),
         NEW s, OperandsIn(B, m, s.m, T, l, r, dest, s.lhs, s.rhs), SlotOf(s.m, s.rhs) \notin T \cup {dest}
  PROVE  LET k == LeaveRCX(s) IN
         /\ OperandsIn(B, m, k.m, T, l, r, dest, k.lhs, k.rhs) /\ SlotOf(k.m, k.rhs) \notin T \cup {dest}
         /\ k.lhs # RCX
<1>1. CASE s.lhs # RCX
  BY <1>1 DEF LeaveRCX
<1>2. CASE s.lhs = RCX
  <2> DEFINE f == FlushAll(s.m)
             a == Allocate(f, {RCX, s.rhs})
             j == [a.m EXCEPT !.val[a.reg] = s.m.val[RCX]]
             n == Release(j, RCX)
             k == LeaveRCX(s)
  <2>1. /\ B \in SUBSET Temps /\ T \subseteq Slots \ {dest} /\ dest # None
        /\ With(B, dest) \in SUBSET Slots /\ {} \in SUBSET Slots /\ T \subseteq Slots /\ None \notin T
    BY GivenTyped, SlotsTyped
  <2>2. Good(s.m, With(B, dest)) /\ s.rhs \in Registers /\ s.rhs # RCX
    BY <1>2 DEF OperandsIn
  <2>3. k = [m |-> n, lhs |-> a.reg, rhs |-> s.rhs]
    BY <1>2 DEF LeaveRCX, MoveFromRCX
  <2>4. k.m = n /\ k.lhs = a.reg /\ k.rhs = s.rhs
    BY <2>3
  <2>5. f = FlushAll(s.m)
    OBVIOUS
  <2> HIDE DEF f, k
  <2>6. Good(f, {}) /\ Flushed(s.m, f) /\ f.val = s.m.val /\ f.spoiled = s.m.spoiled
    <3>1. Good(f, {}) /\ Flushed(s.m, f)
      BY <2>1, <2>2, <2>5, FlushFacts
    <3> QED BY <3>1 DEF Flushed
  <2>7. Sound(f, truth, T)
    BY <2>1, <2>6 DEF OperandsIn, Flushed
  <2>8. \E q \in Registers : q \notin {RCX, s.rhs}
    BY OneLeft
  <2>9. Good(a.m, {}) /\ Allocated(f, a, {RCX, s.rhs})
    BY <2>1, <2>6, <2>8, AllocateFacts
  <2> HIDE DEF a
  <2>10. /\ Sound(a.m, truth, T) /\ a.reg \in Registers /\ SlotOf(a.m, a.reg) = None
         /\ a.m.val = s.m.val /\ a.m.spoiled = s.m.spoiled
    BY <2>1, <2>6, <2>7, <2>9 DEF Fresh, Kept, Allocated
  <2>11. RCX \in Registers /\ s.m.val[RCX] \in Values
    BY <2>2, Fields, RegistersAssumption DEF Good
  <2>12. Good(j, {}) /\ Computes(a.m, j, a.reg, s.m.val[RCX])
    BY <2>1, <2>9, <2>10, <2>11, ValFacts
  <2> HIDE DEF j
  <2>13. /\ Sound(j, truth, T) /\ j.val[a.reg] = s.m.val[RCX] /\ j.val[s.rhs] = s.m.val[s.rhs]
         /\ j.spoiled = s.m.spoiled
    BY <2>1, <2>2, <2>9, <2>10, <2>12 DEF Computes, Allocated
  <2>14. SlotOf(j, RCX) = None
    BY <2>11, <2>12 DEF Good
  <2>15. Good(n, {}) /\ Released(j, n, RCX) /\ Sound(n, truth, T)
    BY <2>1, <2>11, <2>12, <2>13, <2>14, ReleaseFacts, ReleaseSound
  <2> HIDE DEF n
  <2>16. n.val = j.val /\ n.spoiled = s.m.spoiled /\ n \in Machines
         /\ \A q \in Registers : SlotOf(n, q) = None
    BY <2>13, <2>15 DEF Released, Good
  <2>17. Good(n, With(B, dest))
    BY <2>15, <2>16 DEF Good
  <2>18. OperandsIn(B, m, n, T, l, r, dest, a.reg, s.rhs)
    BY <1>2, <2>1, <2>2, <2>9, <2>10, <2>13, <2>15, <2>16, <2>17 DEF OperandsIn, Allocated
  <2> QED BY <2>1, <2>2, <2>4, <2>9, <2>16, <2>18 DEF k, Allocated
<1> QED BY <1>1, <1>2

\* The count moves to RCX whatever RCX holds: a slot cached there may be spoiled.
LEMMA ShiftFacts ==
  ASSUME NEW B, NEW m, NEW S, NEW T, NEW l, NEW r, NEW dest, NEW v, Given(B, m, S, T, l, r, dest, v)
  PROVE  LET n == ShiftCode(m, l, r, dest, v) IN
         Good(n, With(B, dest)) /\ Effect(m, n, T, dest, {l, r}, v)
<1> DEFINE first == Setup(m, l, r, dest)
           s == LeaveRCX(first)
           k == Overwrite(s.m, RCX, s.m.val[s.rhs])
<1>1. /\ OperandsIn(B, m, first.m, T, l, r, dest, first.lhs, first.rhs)
      /\ SlotOf(first.m, first.rhs) \notin T \cup {dest}
  BY SetupOperands
<1> HIDE DEF first
<1>2. /\ OperandsIn(B, m, s.m, T, l, r, dest, s.lhs, s.rhs) /\ SlotOf(s.m, s.rhs) \notin T \cup {dest}
      /\ s.lhs # RCX
  BY <1>1, LeaveRCXFacts
<1> HIDE DEF s
<1>3. /\ With(B, dest) \in SUBSET Slots /\ T \subseteq Slots /\ Good(s.m, With(B, dest))
      /\ RCX \in Registers /\ s.rhs \in Registers
  BY <1>2, GivenTyped, RegistersAssumption DEF OperandsIn
<1>4. s.m.val \in [Registers -> Values]
  BY <1>3, Fields DEF Good
<1>5. s.m.val[s.rhs] \in Values
  BY <1>3, <1>4
<1>6. k = Overwrite(s.m, RCX, s.m.val[s.rhs])
  OBVIOUS
<1> HIDE DEF k
<1>7. Good(k, With(B, dest)) /\ Overwritten(s.m, k, RCX, s.m.val[s.rhs])
  BY <1>3, <1>5, <1>6, OverwriteFacts
<1>8. k.val[RCX] = s.m.val[s.rhs] /\ k.val[s.lhs] = s.m.val[s.lhs]
  BY <1>2, <1>7 DEF OperandsIn, Overwritten
<1>9. OperandsIn(B, m, k, T, l, r, dest, s.lhs, RCX)
  BY <1>2, <1>3, <1>7, <1>8 DEF OperandsIn, Overwritten
<1>10. s.rhs # s.lhs /\ SlotOf(k, s.rhs) \notin T \cup {dest}
  BY <1>2, <1>3, <1>7 DEF OperandsIn, Overwritten
<1> DEFINE n == ReleaseUnless(
                  StoreResult([k EXCEPT !.val[s.lhs] = Combine(k, s.lhs, RCX, l, r, v)],
                              s.lhs, dest, FALSE), s.rhs, {s.lhs, first.lhs})
<1>11. Good(n, With(B, dest)) /\ Effect(m, n, T, dest, {l, r}, v)
  BY <1>3, <1>9, <1>10, IntoLeft
<1>12. ShiftCode(m, l, r, dest, v) = n
  BY DEF ShiftCode, ShiftOperands, ShiftFrom, ShiftBy, first, s, k
<1> QED BY <1>11, <1>12

\* Nothing is dirty and RDX is reserved: the allocator finds RAX or RCX before RDX.
Emptied(m) == Good(m, {}) /\ (\A q \in Registers : ~m.regs[q].dirty) /\ m.regs[RDX].alloc

LEMMA EmptiedKept ==
  ASSUME NEW m, Emptied(m), NEW n, Good(n, {}), Kept(m, n)
  PROVE  Emptied(n)
BY RegistersAssumption DEF Emptied, Kept

LEMMA AvoidsRDX ==
  ASSUME NEW m, Emptied(m), NEW busy, busy = {} \/ \E q : busy = {q}
  PROVE  Pick(m, busy) # RDX
<1>1. PICK q \in {RAX, RCX} : q \notin busy
  BY RegistersAssumption
<1>2. PICK i \in DOMAIN Order, j \in DOMAIN Order : Order[i] = q /\ Order[j] = RDX /\ i < j
  BY RegistersAssumption
<1>3. q \in Registers
  BY RegistersAssumption
<1> QED BY <1>1, <1>2, <1>3, PickSkips DEF Emptied

\* So no operand of a division is loaded into RDX.
LEMMA LoadAvoidsRDX ==
  ASSUME NEW m, Emptied(m), NEW s \in Slots, NEW busy, busy = {} \/ \E q : busy = {q}
  PROVE  LET o == Operand(m, s, busy) IN Emptied(o.m) /\ o.reg # RDX
<1> DEFINE o == Operand(m, s, busy)
           a == Allocate(m, {})
<1>1. {} \in SUBSET Slots /\ Good(m, {}) /\ s # None
  BY SlotsTyped DEF Emptied
<1>2. ~Cached(m, s)
  <2>1. \A q \in Registers : SlotOf(m, q) # s
    BY <1>1 DEF Good
  <2> QED BY <2>1, CachedInFacts
<1>3. o = Load(m, s, busy)
  BY <1>2 DEF Operand
<1>4. Good(a.m, {}) /\ Allocated(m, a, {})
  BY <1>1, OneLeft, AllocateFacts
<1> HIDE DEF o
<1>5. /\ Good(o.m, {}) /\ Held(m, o, s)
      /\ o.reg = Pick(m, {}) \/ o.reg = Pick(a.m, busy)
  BY <1>1, <1>2, <1>3, LoadHeld
<1> HIDE DEF a
<1>6. Emptied(a.m)
  BY <1>4, EmptiedKept DEF Allocated, Fresh
<1>7. Emptied(o.m)
  BY <1>5, EmptiedKept DEF Held, Keeps
<1>8. Pick(m, {}) # RDX /\ Pick(a.m, busy) # RDX
  BY <1>6, AvoidsRDX
<1> QED BY <1>5, <1>7, <1>8 DEF o

\* RAX and RDX are emptied and reserved.
LEMMA ReserveFacts ==
  ASSUME NEW B \in SUBSET Slots, NEW m, Good(m, B)
  PROVE  LET n == ReserveDivision(m) IN
         /\ Emptied(n) /\ n.val = m.val /\ n.spoiled = m.spoiled
         /\ \A t, S : S \subseteq Slots /\ Sound(m, t, S) => Sound(n, t, S)
<1> DEFINE f == FlushAll(m)
           a == [f EXCEPT !.regs[RAX] = Reserved]
           n == [a EXCEPT !.regs[RDX] = Reserved]
<1>0. {} \in SUBSET Slots /\ RAX \in Registers /\ RDX \in Registers
  BY RegistersAssumption
<1>1. Good(f, {}) /\ Flushed(m, f)
  BY FlushFacts
<1>2. ReserveDivision(m) = n
  BY DEF ReserveDivision
<1> HIDE DEF f
<1>3. Good(a, {}) /\ Released(f, a, RAX)
  BY <1>0, <1>1, UnbindFacts
<1> HIDE DEF a
<1>4. Good(n, {}) /\ Released(a, n, RDX) /\ n.regs[RDX] = Reserved
  BY <1>0, <1>3, UnbindFacts
<1> HIDE DEF n
<1>5. \A q \in Registers : ~n.regs[q].dirty
  BY <1>1, <1>3, <1>4 DEF Flushed, Released
<1>6. Emptied(n)
  BY <1>4, <1>5, FreeTyped DEF Emptied
<1>7. ASSUME NEW t, NEW S, S \subseteq Slots, Sound(m, t, S) PROVE Sound(n, t, S)
  <2>1. Sound(f, t, S) /\ SlotOf(f, RAX) \notin S
    BY <1>0, <1>1, <1>7, SlotsTyped DEF Flushed
  <2>2. Sound(a, t, S) /\ SlotOf(a, RDX) \notin S
    BY <1>0, <1>1, <1>3, <1>7, <2>1, SlotsTyped, ReleasedSound DEF Good
  <2> QED BY <1>0, <1>3, <1>4, <1>7, <2>2, ReleasedSound
<1>8. n.val = m.val /\ n.spoiled = m.spoiled
  BY <1>1, <1>3, <1>4 DEF Flushed, Released
<1> QED BY <1>2, <1>6, <1>7, <1>8

\* Operand registers of a division: the divisor's is not written by it.
Divisible(m, s, T, l, r, dest) ==
  OperandsIn({}, m, s.m, T, l, r, dest, s.lhs, s.rhs) /\ s.rhs # RDX

LEMMA DivisionOperands ==
  ASSUME NEW B, NEW m, NEW S, NEW T, NEW l, NEW r, NEW dest, NEW v, Given(B, m, S, T, l, r, dest, v)
  PROVE  Divisible(m, Setup(ReserveDivision(m), l, r, dest), T, l, r, dest)
<1> DEFINE n == ReserveDivision(m)
           a == Operand(n, l, {})
           b == Operand(a.m, r, {a.reg})
           s == Setup(n, l, r, dest)
<1>1. B \in SUBSET Slots /\ Good(m, B)
  BY SlotsTyped DEF Given, MayCombine
<1>2. /\ Emptied(n) /\ n.val = m.val /\ n.spoiled = m.spoiled
      /\ \A t, X : X \subseteq Slots /\ Sound(m, t, X) => Sound(n, t, X)
  BY <1>1, ReserveFacts
<1>3. s.rhs = b.reg
  BY DEF Setup, RightOperand, BothOperands
<1> HIDE DEF n
<1>4. b.reg # RDX
  <2>1. l \in Slots /\ r \in Slots
    BY DEF Given, MayCombine
  <2>2. Emptied(a.m)
    BY <1>2, <2>1, LoadAvoidsRDX
  <2> HIDE DEF a
  <2> QED BY <2>1, <2>2, LoadAvoidsRDX
<1>5. Given({}, n, S, T, l, r, dest, v)
  BY <1>2 DEF Given, MayCombine, Emptied
<1>6. OperandsIn({}, n, s.m, T, l, r, dest, s.lhs, s.rhs)
  BY <1>5, SetupOperands
<1> HIDE DEF b, s
<1>7. OperandsIn({}, m, s.m, T, l, r, dest, s.lhs, s.rhs)
  BY <1>2, <1>6 DEF OperandsIn
<1>8. Divisible(m, s, T, l, r, dest)
  BY <1>3, <1>4, <1>7 DEF Divisible
<1> QED BY <1>8 DEF n, s

\* The divisor's move out of RAX takes a register that caches nothing.
LEMMA DivisorKept ==
  ASSUME NEW B, NEW m, NEW S, NEW T, NEW l, NEW r, NEW dest, NEW v, Given(B, m, S, T, l, r, dest, v),
         NEW s, Divisible(m, s, T, l, r, dest), DOMAIN s = {"m", "lhs", "rhs"}
  PROVE  Divisible(m, KeepDivisor(s), T, l, r, dest) /\ KeepDivisor(s).rhs # RAX
<1>1. CASE s.rhs # RAX
  BY <1>1 DEF KeepDivisor
<1>2. CASE s.rhs = RAX
  <2> DEFINE scratch == Scratch(s.lhs)
             other == {i \in DOMAIN ScratchOrder : ScratchOrder[i] # s.lhs}
             a == [s.m EXCEPT !.regs[scratch] = Reserved]
             n == [a EXCEPT !.val[scratch] = s.m.val[RAX]]
             k == KeepDivisor(s)
  <2>0. /\ {} \in SUBSET Temps /\ With({}, dest) \in SUBSET Slots /\ T \subseteq Slots /\ None \notin T
        /\ dest # None
    BY GivenTyped, SlotsTyped DEF With
  <2>1. /\ s.lhs \in Registers /\ RAX \in Registers /\ RDX \in Registers
        /\ Good(s.m, With({}, dest))
    BY RegistersAssumption DEF Divisible, OperandsIn
  <2>2. DOMAIN ScratchOrder \in SUBSET Nat
        /\ \A i \in DOMAIN ScratchOrder : ScratchOrder[i] \in Registers \ {RAX, RDX}
    <3>1. DOMAIN ScratchOrder = 1 .. Len(ScratchOrder) /\ Len(ScratchOrder) \in Nat
      BY RegistersAssumption, LenProperties
    <3>2. \A i \in 1 .. Len(ScratchOrder) : ScratchOrder[i] \in Registers \ {RAX, RDX}
      BY RegistersAssumption, ElementOfSeq
    <3> QED BY <3>1, <3>2
  <2>3. other \in SUBSET Nat /\ other # {}
    BY <2>1, <2>2, RegistersAssumption
  <2>4. Min(other) \in other
    <3> HIDE DEF other
    <3> QED BY <2>3, FirstOf
  <2>5. scratch \in Registers \ {RAX, RDX, s.lhs}
    BY <2>2, <2>4 DEF Scratch
  <2>6. k = [s EXCEPT !.rhs = scratch, !.m = n]
    <3>1. s.m \in Machines
      BY <2>1 DEF Good
    <3>2. KeepDivisor(s) = [s EXCEPT !.rhs = scratch, !.m.regs[scratch] = Reserved,
                                     !.m.val[scratch] = s.m.val[RAX]]
      BY <1>2 DEF KeepDivisor, MoveDivisor
    <3> QED BY <3>1, <3>2 DEF Machines
  <2> HIDE DEF scratch, k
  <2>7. Good(a, With({}, dest)) /\ Released(s.m, a, scratch)
    BY <2>0, <2>1, <2>5, UnbindFacts
  <2> HIDE DEF a
  <2>8. s.m.val[RAX] \in Values
    BY <2>1, Fields DEF Good
  <2>9. Good(n, With({}, dest)) /\ Computes(a, n, scratch, s.m.val[RAX])
    BY <2>0, <2>5, <2>7, <2>8, ValFacts
  <2> HIDE DEF n
  <2>10. k.m = n /\ k.lhs = s.lhs /\ k.rhs = scratch
    BY <2>6
  <2>11. SlotOf(s.m, scratch) = None
    BY <2>1, <2>5 DEF Divisible, OperandsIn, Good, With
  <2>12. Sound(n, truth, T)
    <3>1. Sound(a, truth, T)
      BY <2>0, <2>1, <2>5, <2>7, <2>11, ReleasedSound DEF Divisible, OperandsIn
    <3> QED BY <2>0, <2>7, <2>9, <3>1 DEF Computes, Released
  <2>13. /\ n.spoiled = s.m.spoiled /\ n.val[scratch] = s.m.val[RAX] /\ n.val[s.lhs] = s.m.val[s.lhs]
         /\ \A q \in Registers : SlotOf(n, q) = IF q = scratch THEN None ELSE SlotOf(s.m, q)
    BY <2>1, <2>5, <2>7, <2>9 DEF Computes, Released, SlotOf
  <2>14. OperandsIn({}, m, n, T, l, r, dest, s.lhs, scratch)
    BY <1>2, <2>0, <2>5, <2>9, <2>12, <2>13 DEF Divisible, OperandsIn
  <2> QED BY <2>5, <2>10, <2>14 DEF Divisible, k
<1> QED BY <1>1, <1>2

\* After the division RAX and RDX hold the result.
HasDivided(m, s, T, l, r, dest, v) ==
  /\ Good(s.m, With({}, dest)) /\ m.spoiled \subseteq s.m.spoiled /\ Sound(s.m, truth, T)
  /\ s.lhs \in Registers /\ s.rhs \in Registers \ {s.lhs, RAX, RDX}
  /\ SlotOf(s.m, s.lhs) \in {dest, None}
  /\ \A q \in Registers \ {s.lhs} : SlotOf(s.m, q) = None
  /\ s.m.val[RAX] = s.m.val[RDX]
  /\ {l, r} \cap s.m.spoiled = {} => s.m.val[RAX] = v

LEMMA DivisionFacts ==
  ASSUME NEW B, NEW m, NEW S, NEW T, NEW l, NEW r, NEW dest, NEW v, Given(B, m, S, T, l, r, dest, v)
  PROVE  HasDivided(m, Division(m, l, r, dest, v), T, l, r, dest, v)
<1> DEFINE first == Setup(ReserveDivision(m), l, r, dest)
           s == KeepDivisor(first)
           a == Overwrite(s.m, RAX, s.m.val[s.lhs])
           b == Overwrite(a, RDX, Junk)
           w == Combine(b, RAX, s.rhs, l, r, v)
           c == [b EXCEPT !.val[RAX] = w]
           n == [c EXCEPT !.val[RDX] = w]
           d == Division(m, l, r, dest, v)
<1>0. /\ With({}, dest) \in SUBSET Slots /\ T \subseteq Slots /\ None \notin T /\ dest \notin T
      /\ dest # None /\ v \in Slots /\ Junk \in Values
      /\ RAX \in Registers /\ RDX \in Registers /\ RAX # RDX
  <2>1. dest \in Slots /\ T \subseteq Slots \ {dest} /\ dest # None
    BY GivenTyped
  <2>2. v \in Slots
    BY DEF Given
  <2>3. RAX \in Registers /\ RDX \in Registers /\ RAX # RDX
    BY RegistersAssumption
  <2> QED BY <2>1, <2>2, <2>3, SlotsTyped DEF With
<1>1. Divisible(m, first, T, l, r, dest) /\ DOMAIN first = {"m", "lhs", "rhs"}
  BY DivisionOperands DEF Setup, RightOperand, BothOperands
<1>2. DOMAIN s = {"m", "lhs", "rhs"}
  BY <1>1 DEF KeepDivisor, MoveDivisor
<1>3. d = Divided(Dividend(s), l, r, v)
  BY DEF Division
<1> HIDE DEF first, d
<1>4. Divisible(m, s, T, l, r, dest) /\ s.rhs # RAX
  BY <1>1, DivisorKept
<1> HIDE DEF s
<1>5. /\ Good(s.m, With({}, dest)) /\ s.lhs \in Registers /\ s.rhs \in Registers \ {RAX, RDX, s.lhs}
      /\ s.m.val[s.lhs] \in Values /\ Sound(s.m, truth, T) /\ m.spoiled \subseteq s.m.spoiled
  BY <1>4, Fields DEF Divisible, OperandsIn, Good
<1>6. Good(a, With({}, dest)) /\ Overwritten(s.m, a, RAX, s.m.val[s.lhs])
  BY <1>0, <1>5, OverwriteFacts
<1>7. Dividend(s) = [s EXCEPT !.m = b]
  BY DEF Dividend
<1> HIDE DEF a
<1>8. Good(b, With({}, dest)) /\ Overwritten(a, b, RDX, Junk)
  BY <1>0, <1>6, OverwriteFacts
<1> HIDE DEF b
<1>9. d = [s EXCEPT !.m = n]
  <2>1. b \in Machines
    BY <1>8 DEF Good
  <2>2. d = Quotient([s EXCEPT !.m = b], w)
    BY <1>2, <1>3, <1>7 DEF Divided
  <2> HIDE DEF w
  <2>3. Quotient([s EXCEPT !.m = b], w) = [s EXCEPT !.m = n]
    BY <1>2, <2>1 DEF Quotient, Machines
  <2> QED BY <2>2, <2>3 DEF w
<1>10. w \in Values /\ (b.val[RAX] = truth[l] /\ b.val[s.rhs] = truth[r] => w = v)
  BY <1>0, CombineFacts
<1> HIDE DEF w
<1>11. Good(c, With({}, dest)) /\ Computes(b, c, RAX, w)
  BY <1>0, <1>8, <1>10, ValFacts
<1> HIDE DEF c
<1>12. Good(n, With({}, dest)) /\ Computes(c, n, RDX, w)
  BY <1>0, <1>10, <1>11, ValFacts
<1> HIDE DEF n
<1>13. Sound(b, truth, T)
  BY <1>0, <1>5, <1>6, <1>8 DEF Overwritten
<1>14. Sound(n, truth, T)
  <2>1. SlotOf(b, RAX) \notin T /\ SlotOf(c, RDX) \notin T
    BY <1>0, <1>8, <1>11 DEF Good, With
  <2> QED BY <1>0, <1>11, <1>12, <1>13, <2>1 DEF Computes
<1>15. n.val[RAX] = w /\ n.val[RDX] = w /\ n.spoiled = b.spoiled /\ s.m.spoiled \subseteq b.spoiled
  BY <1>0, <1>6, <1>8, <1>11, <1>12 DEF Computes, Overwritten
<1>16. ASSUME {l, r} \cap n.spoiled = {} PROVE w = v
  <2>1. b.val[RAX] = s.m.val[s.lhs] /\ b.val[s.rhs] = s.m.val[s.rhs]
    BY <1>0, <1>5, <1>6, <1>8 DEF Overwritten
  <2>2. s.m.val[s.lhs] = truth[l] /\ s.m.val[s.rhs] = truth[r]
    BY <1>4, <1>15, <1>16 DEF Divisible, OperandsIn
  <2> QED BY <1>10, <2>1, <2>2
<1>17. \A q \in Registers : SlotOf(n, q) = SlotOf(s.m, q)
  BY <1>6, <1>8, <1>11, <1>12 DEF Computes, Overwritten, SlotOf
<1>18. SlotOf(s.m, s.lhs) \in {dest, None} /\ \A q \in Registers \ {s.lhs} : SlotOf(s.m, q) = None
  BY <1>4, <1>5 DEF Divisible, OperandsIn, Good, With
<1>19. d.m = n /\ d.lhs = s.lhs /\ d.rhs = s.rhs
  BY <1>2, <1>9
<1>20. HasDivided(m, d, T, l, r, dest, v)
  BY <1>0, <1>5, <1>12, <1>14, <1>15, <1>16, <1>17, <1>18, <1>19 DEF HasDivided
<1> QED BY <1>20 DEF d

\* Everything the result is not in may be bound as before.
LEMMA GoodWith ==
  ASSUME NEW B, NEW dest, NEW n, Good(n, With({}, dest))
  PROVE  Good(n, With(B, dest))
BY DEF Good, With

\* The quotient is in RAX: the slot of the result keeps it or is in the frame.
LEMMA DivideFacts ==
  ASSUME NEW B, NEW m, NEW S, NEW T, NEW l, NEW r, NEW dest, NEW v, Given(B, m, S, T, l, r, dest, v)
  PROVE  LET n == DivideCode(m, l, r, dest, v) IN
         Good(n, With(B, dest)) /\ Effect(m, n, T, dest, {l, r}, v)
<1> DEFINE s == Division(m, l, r, dest, v)
           a == StoreResult(s.m, RAX, dest, TRUE)
           b == Release(a, s.rhs)
           n == Release(b, RDX)
<1>0. /\ {} \in SUBSET Temps /\ With({}, dest) \in SUBSET Slots /\ T \subseteq Slots
      /\ T \subseteq Slots \ {dest} /\ dest \in Slots /\ dest # None /\ None \notin T
  BY GivenTyped, SlotsTyped DEF With
<1>1. HasDivided(m, s, T, l, r, dest, v)
  BY DivisionFacts
<1>2. DivideCode(m, l, r, dest, v) = n
  BY DEF DivideCode, DivideFrom
<1> HIDE DEF s
<1>3. RAX \in Registers /\ RDX \in Registers /\ RAX # RDX
  BY RegistersAssumption
<1>4. SlotOf(s.m, RAX) \in {dest, None} /\ s.rhs \in Registers \ {RAX, RDX}
  BY <1>1, <1>3 DEF HasDivided
<1>5. Good(a, With({}, dest)) /\ Effect(m, a, T, dest, {l, r}, v) /\ Elsewhere(s.m, a, RAX, dest)
  BY <1>0, <1>1, <1>3, <1>4, ResultFacts DEF HasDivided
<1> HIDE DEF a
<1>6. \A q \in Registers \ {RAX} : SlotOf(a, q) = None
  BY <1>5 DEF Elsewhere, Good, With
<1>7. Good(b, With({}, dest)) /\ Effect(m, b, T, dest, {l, r}, v) /\ LetGo(a, b, s.rhs)
  BY <1>0, <1>4, <1>5, <1>6, LetGoFacts
<1> HIDE DEF b
<1>8. SlotOf(b, RDX) = None
  BY <1>3, <1>6, <1>7 DEF LetGo
<1>9. Good(n, With({}, dest)) /\ Effect(m, n, T, dest, {l, r}, v)
  BY <1>0, <1>3, <1>7, <1>8, LetGoFacts
<1> QED BY <1>2, <1>9, GoodWith

\* The remainder is in the frame, and the register claimed for it is released.
LEMMA ModuloFacts ==
  ASSUME NEW B, NEW m, NEW S, NEW T, NEW l, NEW r, NEW dest, NEW v, Given(B, m, S, T, l, r, dest, v)
  PROVE  LET n == ModuloCode(m, l, r, dest, v) IN
         Good(n, With(B, dest)) /\ Effect(m, n, T, dest, {l, r}, v)
<1> DEFINE s == Division(m, l, r, dest, v)
           k == [s.m EXCEPT !.mem[dest] = s.m.val[RDX]]
           a == Release(k, s.lhs)
           b == Release(a, s.rhs)
           n == Release(b, RDX)
<1>0. /\ {} \in SUBSET Temps /\ With({}, dest) \in SUBSET Slots /\ T \subseteq Slots
      /\ T \subseteq Slots \ {dest} /\ dest \in Slots /\ dest # None /\ None \notin T
  BY GivenTyped, SlotsTyped DEF With
<1>1. HasDivided(m, s, T, l, r, dest, v)
  BY DivisionFacts
<1>2. ModuloCode(m, l, r, dest, v) = n
  BY DEF ModuloCode, ModuloFrom
<1> HIDE DEF s
<1>3. RDX \in Registers /\ s.lhs \in Registers /\ s.rhs \in Registers \ {s.lhs, RDX}
      /\ s.m.val[RDX] \in Values
  BY <1>1, Fields, RegistersAssumption DEF HasDivided, Good
<1>4. Good(k, With({}, dest)) /\ Stored(s.m, k, dest, s.m.val[RDX])
  BY <1>0, <1>1, <1>3, MemFacts DEF HasDivided
<1> HIDE DEF k
<1>5. /\ SlotOf(k, s.lhs) \in {dest, None} /\ \A q \in Registers \ {s.lhs} : SlotOf(k, q) = None
      /\ Sound(k, truth, T) /\ k.mem[dest] = s.m.val[RDX] /\ k.spoiled = s.m.spoiled
  BY <1>0, <1>1, <1>3, <1>4 DEF HasDivided, Stored, SlotOf
<1>6. Good(a, With({}, dest)) /\ Released(k, a, s.lhs) /\ Sound(a, truth, T)
  <2>1. SlotOf(k, s.lhs) \notin T
    BY <1>0, <1>5
  <2> QED BY <1>0, <1>3, <1>4, <1>5, <2>1, ReleaseFacts, ReleaseSound
<1> HIDE DEF a
<1>7. \A q \in Registers : SlotOf(a, q) = None
  BY <1>5, <1>6 DEF Released, SlotOf
<1>8. Effect(m, a, T, dest, {l, r}, v)
  BY <1>0, <1>1, <1>5, <1>6, <1>7 DEF Effect, HasDivided, Released, Reads
<1>9. Good(b, With({}, dest)) /\ Effect(m, b, T, dest, {l, r}, v) /\ LetGo(a, b, s.rhs)
  <2>1. s.rhs \in Registers /\ SlotOf(a, s.rhs) \notin T /\ SlotOf(a, s.rhs) # dest
    BY <1>0, <1>3, <1>7
  <2> QED BY <1>0, <1>6, <1>8, <2>1, LetGoFacts
<1> HIDE DEF b
<1>10. SlotOf(b, RDX) = None
  BY <1>3, <1>7, <1>9 DEF LetGo
<1>11. Good(n, With({}, dest)) /\ Effect(m, n, T, dest, {l, r}, v)
  BY <1>0, <1>3, <1>9, <1>10, LetGoFacts
<1> QED BY <1>2, <1>11, GoodWith

LEMMA BinaryFacts ==
  ASSUME NEW B, NEW m, NEW S, NEW T, NEW l, NEW r, NEW dest, NEW v, Given(B, m, S, T, l, r, dest, v),
         NEW kind \in {"arithmetic", "shift", "divide", "modulo"}
  PROVE  LET n == BinaryCode(kind, m, l, r, dest, v) IN
         Good(n, With(B, dest)) /\ Effect(m, n, T, dest, {l, r}, v)
<1>1. CASE kind = "arithmetic"
  BY <1>1, ArithmeticFacts DEF BinaryCode
<1>2. CASE kind = "shift"
  BY <1>2, ShiftFacts DEF BinaryCode
<1>3. CASE kind = "divide"
  BY <1>3, DivideFacts DEF BinaryCode
<1>4. CASE kind = "modulo"
  BY <1>4, ModuloFacts DEF BinaryCode
<1> QED BY <1>1, <1>2, <1>3, <1>4

-------------------------------------------------------------------------------
(* Instructions with one operand. *)

\* A slot o that the instruction may use up, and a new temporary for the result.
GivenOne(B, m, S, T, o, dest) ==
  /\ B \subseteq Temps /\ Good(m, B) /\ o \in Slots /\ dest \in Temps \ B
  /\ S \subseteq Slots /\ Sound(m, truth, S) /\ o \in S
  /\ T \subseteq S \ {dest} /\ (o \in T => o \notin B)

LEMMA GivenOneTyped ==
  ASSUME NEW B, NEW m, NEW S, NEW T, NEW o, NEW dest, GivenOne(B, m, S, T, o, dest)
  PROVE  /\ B \in SUBSET Temps /\ B \in SUBSET Slots /\ dest \in Slots /\ dest \in Temps
         /\ T \subseteq Slots \ {dest} /\ T \in SUBSET Slots /\ None \notin T /\ dest # None
         /\ With(B, dest) = B \cup {dest} /\ dest \notin B /\ o \in Slots /\ o # None
         /\ Good(m, B) /\ Sound(m, truth, T) /\ dest \in Values
BY SlotsTyped DEF GivenOne, With, Sound

\* A result computed into a register that holds no slot still needed.
LEMMA BindResult ==
  ASSUME NEW B, NEW m, NEW S, NEW T, NEW o, NEW dest, GivenOne(B, m, S, T, o, dest),
         NEW k, Good(k, B), m.spoiled \subseteq k.spoiled, Sound(k, truth, T),
         NEW r \in Registers, SlotOf(k, r) \notin T, NEW w \in Values, {o} \cap k.spoiled = {} => w = dest
  PROVE  LET n == Bind([k EXCEPT !.val[r] = w], r, dest) IN
         Good(n, With(B, dest)) /\ Effect(m, n, T, dest, {o}, dest)
<1> DEFINE j == [k EXCEPT !.val[r] = w]
           n == Bind(j, r, dest)
<1>0. /\ B \in SUBSET Slots /\ dest \in Slots /\ T \subseteq Slots \ {dest} /\ T \subseteq Slots
      /\ T \ {dest} = T /\ With(B, dest) = B \cup {dest}
  BY GivenOneTyped
<1>1. Good(j, B) /\ Computes(k, j, r, w)
  BY <1>0, ValFacts
<1> HIDE DEF j
<1>2. Good(n, B \cup {dest}) /\ BoundTo(j, n, r, dest)
  BY <1>0, <1>1, BindFacts
<1> HIDE DEF n
<1>3. Sound(j, truth, T) /\ SlotOf(j, r) \notin T /\ j.val[r] = w /\ j.spoiled = k.spoiled
  BY <1>0, <1>1 DEF Computes, SlotOf
<1>4. Sound(n, truth, T)
  BY <1>0, <1>2, <1>3 DEF BoundTo
<1>5. n.spoiled = k.spoiled /\ Reads(n, dest, w)
  BY <1>2, <1>3 DEF BoundTo
<1>6. Effect(m, n, T, dest, {o}, dest)
  BY <1>4, <1>5 DEF Effect
<1> QED BY <1>0, <1>2, <1>6 DEF n, j

\* A held operand: what it was in does not change, and it is not needed any more.
LEMMA HeldFacts ==
  ASSUME NEW B, NEW m, NEW S, NEW T, NEW o, NEW dest, GivenOne(B, m, S, T, o, dest),
         NEW a, Good(a.m, B), Held(m, a, o)
  PROVE  /\ a.reg \in Registers /\ SlotOf(a.m, a.reg) \notin T /\ Sound(a.m, truth, T)
         /\ a.m.spoiled = m.spoiled /\ ({o} \cap m.spoiled = {} => a.m.val[a.reg] = truth[o])
<1>1. SlotOf(a.m, a.reg) \in {o, None} /\ SlotOf(a.m, a.reg) \in B \cup {None} /\ a.reg \in Registers
  BY DEF Held, Good
<1>2. SlotOf(a.m, a.reg) \notin T
  BY <1>1, GivenOneTyped DEF GivenOne
<1>3. Sound(a.m, truth, T) /\ a.m.spoiled = m.spoiled
  BY GivenOneTyped DEF Held, Keeps, Kept
<1>4. {o} \cap m.spoiled = {} => a.m.val[a.reg] = truth[o]
  BY DEF Held, GivenOne
<1> QED BY <1>1, <1>2, <1>3, <1>4

LEMMA ComputedFacts ==
  ASSUME NEW v \in Slots, NEW right
  PROVE  Computed(v, right) \in Values /\ (right => Computed(v, right) = v)
BY SlotsTyped DEF Computed

\* An instruction that is encoded wrongly writes other registers, or loses the
\* frame, and its result is spoiled.
Outcome(m, n, T, dest, from, v) ==
  /\ m.spoiled \subseteq n.spoiled /\ Sound(n, truth, T)
  /\ from \cap n.spoiled = {} /\ dest \notin n.spoiled \ Names => Reads(n, dest, v)

LEMMA EffectOutcome ==
  ASSUME NEW m, NEW n, NEW T, NEW dest, NEW from, NEW v, Effect(m, n, T, dest, from, v)
  PROVE  Outcome(m, n, T, dest, from, v)
BY DEF Effect, Outcome

\* What such an instruction leaves of a machine.
Upset(m, k) ==
  /\ m.spoiled \subseteq k.spoiled /\ \A q \in Registers : SlotOf(k, q) = SlotOf(m, q)
  /\ \A t, S : S \subseteq Slots /\ Sound(m, t, S) => Sound(k, t, S)

LEMMA OverwriteUpsets ==
  ASSUME NEW B \in SUBSET Slots, NEW m, Good(m, B), NEW r \in Registers, NEW v \in Values
  PROVE  Good(Overwrite(m, r, v), B) /\ Upset(m, Overwrite(m, r, v))
<1> DEFINE n == Overwrite(m, r, v)
<1>1. Good(n, B) /\ Overwritten(m, n, r, v)
  BY OverwriteFacts
<1> HIDE DEF n
<1>2. Upset(m, n)
  BY <1>1 DEF Upset, Overwritten
<1> QED BY <1>1, <1>2 DEF n

LEMMA LostUpsets ==
  ASSUME NEW B \in SUBSET Slots, NEW m, Good(m, B)
  PROVE  Good(Lost(m), B) /\ Upset(m, Lost(m))
<1> DEFINE n == Lost(m)
<1>1. m \in Machines /\ m.spoiled \subseteq Slots
  BY Fields DEF Good
<1>2. n \in Machines /\ n.val = m.val /\ n.mem = m.mem /\ n.spoiled = Slots /\ n.regs = m.regs
  BY <1>1, SetSpoiled DEF Lost
<1> HIDE DEF n
<1>3. Good(n, B)
  BY <1>2 DEF Good, SlotOf
<1>4. Upset(m, n)
  BY <1>1, <1>2 DEF Upset, Sound, SlotOf
<1> QED BY <1>3, <1>4 DEF n

LEMMA NumberedUpsets ==
  ASSUME NEW B \in SUBSET Slots, NEW m, Good(m, B), NEW k, NEW v \in Values
  PROVE  Good(OverwriteNumbered(m, k, v), B) /\ Upset(m, OverwriteNumbered(m, k, v))
<1>1. CASE Numbered(k) = {}
  BY <1>1, LostUpsets DEF OverwriteNumbered
<1>2. CASE Numbered(k) # {}
  <2> DEFINE r == CHOOSE r \in Numbered(k) : TRUE
  <2>1. r \in Registers
    BY <1>2 DEF Numbered
  <2>2. OverwriteNumbered(m, k, v) = Overwrite(m, r, v)
    BY <1>2 DEF OverwriteNumbered
  <2> HIDE DEF r
  <2> QED BY <2>1, <2>2, OverwriteUpsets
<1> QED BY <1>1, <1>2

LEMMA ContentTyped ==
  ASSUME NEW B, NEW m, Good(m, B), NEW k
  PROVE  Content(m, k) \in Values
<1>1. m.val \in [Registers -> Values] /\ Junk \in Values
  BY Fields, SlotsTyped DEF Good
<1>2. ASSUME Numbered(k) # {} PROVE (CHOOSE r \in Numbered(k) : TRUE) \in Registers
  BY <1>2 DEF Numbered
<1> QED BY <1>1, <1>2 DEF Content

LEMMA MisEncodedUpsets ==
  ASSUME NEW B \in SUBSET Slots, NEW m, Good(m, B), NEW op, NEW r
  PROVE  Good(MisEncoded(m, op, r), B) /\ Upset(m, MisEncoded(m, op, r))
<1>1. Junk \in Values /\ RAX \in Registers /\ RDX \in Registers
  BY SlotsTyped, RegistersAssumption
<1>2. CASE op = "complement"
  BY <1>1, <1>2, NumberedUpsets DEF MisEncoded
<1>3. CASE op # "complement"
  <2> DEFINE rax == Overwrite(m, RAX, Junk)
             rdx == Overwrite(rax, RDX, Junk)
  <2>1. Good(rax, B) /\ Upset(m, rax)
    BY <1>1, OverwriteUpsets
  <2> HIDE DEF rax
  <2>2. Good(rdx, B) /\ Upset(rax, rdx)
    BY <1>1, <2>1, OverwriteUpsets
  <2> HIDE DEF rdx
  <2>3. Upset(m, rdx)
    BY <2>1, <2>2 DEF Upset
  <2>4. MisEncoded(m, op, r) = rdx
    BY <1>3 DEF MisEncoded, rax, rdx
  <2> QED BY <2>2, <2>3, <2>4
<1> QED BY <1>2, <1>3

LEMMA MisMovedUpsets ==
  ASSUME NEW B \in SUBSET Slots, NEW m, Good(m, B), NEW byte
  PROVE  Good(MisMoved(m, byte), B) /\ Upset(m, MisMoved(m, byte))
<1>1. CASE byte < 192
  BY <1>1, LostUpsets DEF MisMoved
<1>2. CASE ~(byte < 192)
  <2> DEFINE v == Content(m, (byte \div 8) % 8)
             k == byte % 8
  <2>1. v \in Values
    BY ContentTyped
  <2>2. MisMoved(m, byte) = OverwriteNumbered(m, k, v)
    BY <1>2 DEF MisMoved
  <2> HIDE DEF v, k
  <2> QED BY <2>1, <2>2, NumberedUpsets
<1> QED BY <1>1, <1>2

\* The result is bound to a register that holds no slot still needed.
LEMMA MissedFacts ==
  ASSUME NEW B, NEW m, NEW S, NEW T, NEW o, NEW dest, GivenOne(B, m, S, T, o, dest),
         NEW k, Good(k, B), Sound(k, truth, T), m.spoiled \subseteq k.spoiled,
         NEW r \in Registers, SlotOf(k, r) \notin T
  PROVE  LET n == Missed(k, r, dest) IN
         Good(n, With(B, dest)) /\ Outcome(m, n, T, dest, {o}, dest)
<1> DEFINE j == Bind(k, r, dest)
           n == Missed(k, r, dest)
<1>0. /\ B \in SUBSET Slots /\ dest \in Slots /\ T \subseteq Slots /\ T \ {dest} = T
      /\ With(B, dest) = B \cup {dest} /\ dest \notin Names
  BY GivenOneTyped, SlotsTyped
<1>1. n = [j EXCEPT !.spoiled = @ \cup {dest}]
  BY DEF Missed
<1> HIDE DEF n
<1>2. Good(j, B \cup {dest}) /\ BoundTo(k, j, r, dest)
  BY <1>0, BindFacts
<1> HIDE DEF j
<1>3. Sound(j, truth, T) /\ m.spoiled \subseteq j.spoiled
  BY <1>0, <1>2 DEF BoundTo
<1>4. /\ n \in Machines /\ n.val = j.val /\ n.mem = j.mem /\ n.regs = j.regs
      /\ n.spoiled = j.spoiled \cup {dest}
  <2>1. j \in Machines /\ j.spoiled \cup {dest} \in SUBSET Slots
    BY <1>0, <1>2, Fields DEF Good
  <2> QED BY <1>1, <2>1, SetSpoiled
<1>5. Good(n, With(B, dest))
  BY <1>0, <1>2, <1>4 DEF Good, SlotOf
<1>6. Outcome(m, n, T, dest, {o}, dest)
  BY <1>0, <1>3, <1>4 DEF Outcome, Sound, Reads, SlotOf
<1> QED BY <1>5, <1>6 DEF n

LEMMA AppliedFacts ==
  ASSUME NEW B, NEW m, NEW S, NEW T, NEW o, NEW dest, GivenOne(B, m, S, T, o, dest),
         NEW a, Good(a.m, B), Held(m, a, o)
  PROVE  LET n == Applied(a, o, dest) IN
         Good(n, With(B, dest)) /\ Outcome(m, n, T, dest, {o}, dest)
<1> DEFINE w == Computed(dest, a.m.val[a.reg] = truth[o])
           n == Applied(a, o, dest)
<1>1. n = Bind([a.m EXCEPT !.val[a.reg] = w], a.reg, dest)
  <2>1. a.m \in Machines /\ a.reg \in Registers
    BY DEF Good, Held
  <2>2. [a.m EXCEPT !.val[a.reg] = Computed(dest, @ = truth[o])] = [a.m EXCEPT !.val[a.reg] = w]
    BY <2>1 DEF Machines
  <2> QED BY <2>2 DEF Applied
<1>2. w \in Values /\ (a.m.val[a.reg] = truth[o] => w = dest)
  BY GivenOneTyped, ComputedFacts
<1> HIDE DEF w, n
<1>3. /\ a.reg \in Registers /\ SlotOf(a.m, a.reg) \notin T /\ Sound(a.m, truth, T)
      /\ a.m.spoiled = m.spoiled /\ ({o} \cap m.spoiled = {} => a.m.val[a.reg] = truth[o])
  BY HeldFacts
<1>4. Good(n, With(B, dest)) /\ Effect(m, n, T, dest, {o}, dest)
  BY <1>1, <1>2, <1>3, BindResult
<1> QED BY <1>4, EffectOutcome DEF n

LEMMA UnaryFacts ==
  ASSUME NEW B, NEW m, NEW S, NEW T, NEW o, NEW dest, GivenOne(B, m, S, T, o, dest), NEW op
  PROVE  LET n == UnaryCode(m, op, o, dest) IN
         Good(n, With(B, dest)) /\ Outcome(m, n, T, dest, {o}, dest)
<1> DEFINE a == IF o \in Names THEN Load(m, o, {}) ELSE Operand(m, o, {})
           n == UnaryCode(m, op, o, dest)
<1>0. B \in SUBSET Slots /\ o \in Slots /\ Good(m, B) /\ T \subseteq Slots
  BY GivenOneTyped
<1>1. Good(a.m, B) /\ Held(m, a, o)
  <2>1. CASE o \in Names
    <3>1. ~Cached(m, o)
      <4>1. \A q \in Registers : SlotOf(m, q) # o
        BY <2>1, SlotsTyped DEF GivenOne, Good
      <4> QED BY <4>1, CachedInFacts
    <3> QED BY <1>0, <2>1, <3>1, LoadHeld
  <2>2. CASE o \notin Names
    BY <1>0, <2>2, OperandFacts
  <2> QED BY <2>1, <2>2
<1>2. n = UnaryIn(a, op, o, dest)
  BY DEF UnaryCode
<1> HIDE DEF a, n
<1>3. CASE op # "not" /\ Extended(a.reg)
  <2> DEFINE k == MisEncoded(a.m, op, a.reg)
  <2>1. n = Missed(k, a.reg, dest)
    BY <1>2, <1>3 DEF UnaryIn
  <2>2. Good(k, B) /\ Upset(a.m, k)
    BY <1>0, <1>1, MisEncodedUpsets
  <2> HIDE DEF k
  <2>3. /\ a.reg \in Registers /\ SlotOf(a.m, a.reg) \notin T /\ Sound(a.m, truth, T)
        /\ a.m.spoiled = m.spoiled
    BY <1>1, HeldFacts
  <2>4. Sound(k, truth, T) /\ m.spoiled \subseteq k.spoiled /\ SlotOf(k, a.reg) \notin T
    BY <1>0, <2>2, <2>3 DEF Upset
  <2>5. Good(n, With(B, dest)) /\ Outcome(m, n, T, dest, {o}, dest)
    BY <2>1, <2>2, <2>3, <2>4, MissedFacts
  <2> QED BY <2>5 DEF n
<1>4. CASE ~(op # "not" /\ Extended(a.reg))
  <2>1. n = Applied(a, o, dest)
    BY <1>2, <1>4 DEF UnaryIn
  <2>2. Good(n, With(B, dest)) /\ Outcome(m, n, T, dest, {o}, dest)
    BY <1>1, <2>1, AppliedFacts
  <2> QED BY <2>2 DEF n
<1> QED BY <1>3, <1>4 DEF n

\* A conversion of the operand in register a.reg, into the register b.reg.
LEMMA ConvertFromFacts ==
  ASSUME NEW B, NEW m, NEW S, NEW T, NEW o, NEW dest, GivenOne(B, m, S, T, o, dest),
         NEW a, Good(a.m, B), Held(m, a, o), NEW b, Good(b.m, B), Allocated(a.m, b, {}),
         NEW kind \in {"exact", "zero", "copy"}
  PROVE  LET n == ConvertFrom(kind, b, a.reg, o, dest) IN
         Good(n, With(B, dest)) /\ Outcome(m, n, T, dest, {o}, dest)
<1> DEFINE n == ConvertFrom(kind, b, a.reg, o, dest)
           into == ConvertInto(b, a.reg, o, dest)
<1>0. B \in SUBSET Slots /\ dest \in Slots /\ T \subseteq Slots /\ None \notin T
  BY GivenOneTyped
<1>1. /\ Sound(a.m, truth, T) /\ a.m.spoiled = m.spoiled /\ a.reg \in Registers
      /\ ({o} \cap m.spoiled = {} => a.m.val[a.reg] = truth[o])
  BY HeldFacts
<1>2. /\ b.reg \in Registers /\ SlotOf(b.m, b.reg) \notin T /\ Sound(b.m, truth, T)
      /\ b.m.spoiled = m.spoiled /\ b.m.val = a.m.val
  BY <1>0, <1>1 DEF Allocated, Fresh, Kept
<1>3. Good(into, With(B, dest)) /\ Outcome(m, into, T, dest, {o}, dest)
  <2> DEFINE w == Computed(dest, b.m.val[a.reg] = truth[o])
  <2>1. into = Bind([b.m EXCEPT !.val[b.reg] = w], b.reg, dest)
    BY DEF ConvertInto
  <2>2. w \in Values /\ (b.m.val[a.reg] = truth[o] => w = dest)
    BY <1>0, ComputedFacts
  <2> HIDE DEF w, into
  <2>3. Good(into, With(B, dest)) /\ Effect(m, into, T, dest, {o}, dest)
    BY <1>1, <1>2, <2>1, <2>2, BindResult
  <2> QED BY <2>3, EffectOutcome
<1> HIDE DEF into
<1>4. ASSUME NEW k, Good(k, B), Upset(b.m, k)
      PROVE  /\ Good(Missed(k, b.reg, dest), With(B, dest))
             /\ Outcome(m, Missed(k, b.reg, dest), T, dest, {o}, dest)
  <2>1. Sound(k, truth, T) /\ m.spoiled \subseteq k.spoiled /\ SlotOf(k, b.reg) \notin T
    BY <1>0, <1>2, <1>4 DEF Upset
  <2> QED BY <1>2, <1>4, <2>1, MissedFacts
<1>5. CASE kind = "exact"
  <2>1. n = into
    BY <1>5 DEF ConvertFrom, into
  <2> HIDE DEF n
  <2> QED BY <1>3, <2>1 DEF n
<1>6. CASE kind = "zero"
  <2> DEFINE k == MisMoved(b.m, MoveByte(a.reg, b.reg))
  <2>1. n = Zeroed(b, a.reg, o, dest)
    BY <1>6 DEF ConvertFrom
  <2>2. n = Missed(k, b.reg, dest) \/ n = into
    BY <2>1 DEF Zeroed, into
  <2>3. Good(k, B) /\ Upset(b.m, k)
    BY <1>0, MisMovedUpsets
  <2> HIDE DEF k, n
  <2>4. Good(n, With(B, dest)) /\ Outcome(m, n, T, dest, {o}, dest)
    BY <1>3, <1>4, <2>2, <2>3
  <2> QED BY <2>4 DEF n
<1>7. CASE kind = "copy"
  <2> DEFINE k == Overwrite(b.m, a.reg, b.m.val[b.reg])
  <2>1. n = Missed(k, b.reg, dest)
    BY <1>7 DEF ConvertFrom, Copied
  <2>2. b.m.val[b.reg] \in Values
    BY <1>2, Fields DEF Good
  <2>3. Good(k, B) /\ Upset(b.m, k)
    BY <1>0, <1>1, <2>2, OverwriteUpsets
  <2> HIDE DEF k, n
  <2>4. Good(n, With(B, dest)) /\ Outcome(m, n, T, dest, {o}, dest)
    BY <1>4, <2>1, <2>3
  <2> QED BY <2>4 DEF n
<1> QED BY <1>5, <1>6, <1>7

LEMMA ConvertFacts ==
  ASSUME NEW B, NEW m, NEW S, NEW T, NEW o, NEW dest, GivenOne(B, m, S, T, o, dest),
         NEW kind \in {"exact", "zero", "copy", "same"}
  PROVE  LET n == ConvertCode(kind, m, o, dest) IN
         Good(n, With(B, dest)) /\ Outcome(m, n, T, dest, {o}, dest)
<1> DEFINE a == Operand(m, o, {})
           b == Allocate(a.m, {})
           n == ConvertCode(kind, m, o, dest)
<1>0. B \in SUBSET Slots /\ o \in Slots /\ Good(m, B)
  BY GivenOneTyped
<1>1. Good(a.m, B) /\ Held(m, a, o)
  BY <1>0, OperandFacts
<1>2. n = ConvertOperand(kind, a, o, dest)
  BY DEF ConvertCode
<1> HIDE DEF a, n
<1>3. CASE kind = "same"
  <2>1. n = Applied(a, o, dest)
    BY <1>2, <1>3 DEF ConvertOperand
  <2>2. Good(n, With(B, dest)) /\ Outcome(m, n, T, dest, {o}, dest)
    BY <1>1, <2>1, AppliedFacts
  <2> QED BY <2>2 DEF n
<1>4. CASE kind # "same"
  <2>1. n = ConvertFrom(kind, b, a.reg, o, dest)
    BY <1>2, <1>4 DEF ConvertOperand
  <2>2. Good(b.m, B) /\ Allocated(a.m, b, {})
    BY <1>0, <1>1, OneLeft, AllocateFacts
  <2> HIDE DEF b
  <2>3. Good(n, With(B, dest)) /\ Outcome(m, n, T, dest, {o}, dest)
    BY <1>1, <1>4, <2>1, <2>2, ConvertFromFacts
  <2> QED BY <2>3 DEF n
<1> QED BY <1>3, <1>4

\* A slot that no register caches reads from the frame.
LEMMA InFrame ==
  ASSUME NEW m, NEW S, Sound(m, truth, S), NEW o \in S \ m.spoiled,
         \A q \in Registers : SlotOf(m, q) # o
  PROVE  m.mem[o] = truth[o]
BY DEF Sound, Reads

\* x = o: the variable x is in no register, before and after.
AssignCode(m, x, o) ==
  LET cached == o \in Temps /\ Cached(m, o)
      loaded == IF cached THEN m ELSE Overwrite(m, RAX, m.mem[o])
      source == IF cached THEN CachedIn(m, o) ELSE RAX
  IN  Forget([loaded EXCEPT !.mem[x] = loaded.val[source]], x, {})

LEMMA AssignFacts ==
  ASSUME NEW B, B \subseteq Temps, NEW m, Good(m, B), NEW S, S \subseteq Slots, Sound(m, truth, S),
         NEW o \in S, NEW x \in Names, NEW T, T \subseteq S \ {x}
  PROVE  LET n == AssignCode(m, x, o) IN
         Good(n, B) /\ Effect(m, n, T, x, {o}, truth[o])
<1> DEFINE cached == o \in Temps /\ Cached(m, o)
           loaded == IF cached THEN m ELSE Overwrite(m, RAX, m.mem[o])
           source == IF cached THEN CachedIn(m, o) ELSE RAX
           k == [loaded EXCEPT !.mem[x] = loaded.val[source]]
           n == Forget(k, x, {})
<1>0. /\ B \in SUBSET Slots /\ x \in Slots /\ x # None /\ x \notin B /\ T \subseteq Slots \ {x} /\ T \subseteq Slots
      /\ T \ {x} = T /\ Sound(m, truth, T) /\ o \in Slots /\ RAX \in Registers
  BY SlotsTyped, RegistersAssumption DEF Sound
<1>1. AssignCode(m, x, o) = n
  BY DEF AssignCode
<1>2. m.mem \in [Slots -> Values] /\ m.val \in [Registers -> Values]
  BY Fields DEF Good
<1>3. /\ Good(loaded, B) /\ Sound(loaded, truth, T) /\ m.spoiled \subseteq loaded.spoiled
      /\ source \in Registers /\ ({o} \cap loaded.spoiled = {} => loaded.val[source] = truth[o])
  <2>1. CASE cached
    <3>1. CachedIn(m, o) \in Registers /\ SlotOf(m, CachedIn(m, o)) = o
      BY <2>1, CachedInFacts
    <3>2. {o} \cap m.spoiled = {} => m.val[CachedIn(m, o)] = truth[o]
      BY <3>1 DEF Sound, Reads
    <3> QED BY <1>0, <2>1, <3>1, <3>2
  <2>2. CASE ~cached
    <3>1. \A q \in Registers : SlotOf(m, q) # o
      <4>1. CASE o \in Temps
        BY <2>2, <4>1, NotCached
      <4>2. CASE o \notin Temps
        BY <1>0, <4>2, SlotsTyped DEF Good
      <4> QED BY <4>1, <4>2
    <3>2. Good(Overwrite(m, RAX, m.mem[o]), B) /\ Overwritten(m, Overwrite(m, RAX, m.mem[o]), RAX, m.mem[o])
      BY <1>0, <1>2, OverwriteFacts
    <3>3. loaded = Overwrite(m, RAX, m.mem[o]) /\ source = RAX
      BY <2>2
    <3> HIDE DEF loaded, source
    <3>4. /\ loaded.val[RAX] = m.mem[o] /\ m.spoiled \subseteq loaded.spoiled /\ Sound(loaded, truth, T)
      BY <1>0, <3>2, <3>3 DEF Overwritten
    <3>5. ASSUME {o} \cap loaded.spoiled = {} PROVE m.mem[o] = truth[o]
      BY <3>1, <3>4, <3>5, InFrame
    <3> QED BY <1>0, <3>2, <3>3, <3>4, <3>5
  <2> QED BY <2>1, <2>2
<1> HIDE DEF loaded, source
<1>4. loaded.val[source] \in Values
  BY <1>3, Fields DEF Good
<1>5. Good(k, B) /\ Stored(loaded, k, x, loaded.val[source])
  BY <1>0, <1>3, <1>4, MemFacts
<1> HIDE DEF k
<1>6. Good(n, B) /\ Forgotten(k, n, x, {})
  BY <1>0, <1>5, ForgetFacts
<1> HIDE DEF n
<1>7. Sound(n, truth, T)
  <2>1. Sound(k, truth, T)
    BY <1>0, <1>3, <1>5 DEF Stored
  <2>2. Sound(n, truth, T \ {x})
    BY <1>0, <1>6, <2>1 DEF Forgotten
  <2> QED BY <1>0, <2>2
<1>8. \A q \in Registers : SlotOf(n, q) # x
  BY <1>0, <1>6 DEF Good
<1>9. n.mem[x] = loaded.val[source] /\ n.spoiled = loaded.spoiled
  BY <1>5, <1>6 DEF Stored, Forgotten
<1>10. Effect(m, n, T, x, {o}, truth[o])
  BY <1>3, <1>7, <1>8, <1>9 DEF Effect, Reads
<1> QED BY <1>1, <1>6, <1>10

\* A call: everything is in the frame, so no register needs to survive it.
CallCode(m, o, dest) ==
  LET flushed == FlushAll(m)
      passed == Overwrite(flushed, Parameter, flushed.mem[o])
      returned == [r \in Registers |-> IF r = RAX
                     THEN Computed(dest, passed.val[Parameter] = truth[o]) ELSE Junk]
  IN  [passed EXCEPT
         !.regs = [r \in Registers |-> IF r \in CallerSaved /\ @[r].alloc
                                       THEN Reserved ELSE @[r]],
         !.val = returned,
         !.mem[dest] = returned[RAX]]

LEMMA CallFacts ==
  ASSUME NEW B, NEW m, NEW S, NEW T, NEW o, NEW dest, GivenOne(B, m, S, T, o, dest)
  PROVE  LET n == CallCode(m, o, dest) IN
         Good(n, With(B, dest)) /\ Effect(m, n, T, dest, {o}, dest)
<1> DEFINE f == FlushAll(m)
           a == Overwrite(f, Parameter, f.mem[o])
           w == Computed(dest, a.val[Parameter] = truth[o])
           val == [r \in Registers |-> IF r = RAX THEN w ELSE Junk]
           regs == [r \in Registers |-> IF r \in CallerSaved /\ a.regs[r].alloc
                                        THEN Reserved ELSE a.regs[r]]
           n == CallCode(m, o, dest)
<1>0. /\ B \in SUBSET Slots /\ {} \in SUBSET Slots /\ o \in Slots /\ o # None /\ Good(m, B)
      /\ dest \in Slots /\ dest # None /\ T \subseteq Slots \ {dest} /\ None \notin T
      /\ Parameter \in Registers /\ RAX \in Registers /\ Sound(m, truth, {o} \cup T)
  <2>1. /\ B \in SUBSET Slots /\ o \in Slots /\ o # None /\ Good(m, B)
        /\ dest \in Slots /\ dest # None /\ T \subseteq Slots \ {dest} /\ None \notin T
    BY GivenOneTyped
  <2>2. Sound(m, truth, {o} \cup T)
    BY DEF GivenOne, Sound
  <2>3. Parameter \in Registers /\ RAX \in Registers
    BY RegistersAssumption
  <2> QED BY <2>1, <2>2, <2>3
<1>1. Good(f, {}) /\ Flushed(m, f)
  BY <1>0, FlushFacts
<1>2. n = [a EXCEPT !.regs = regs, !.val = val, !.mem[dest] = val[RAX]]
  BY DEF CallCode
<1> HIDE DEF f, n
<1>3. f.mem[o] \in Values
  BY <1>0, <1>1, Fields DEF Good
<1>4. Good(a, {}) /\ Overwritten(f, a, Parameter, f.mem[o])
  BY <1>0, <1>1, <1>3, OverwriteFacts
<1> HIDE DEF a
<1>5. w \in Values /\ (a.val[Parameter] = truth[o] => w = dest)
  BY <1>0, ComputedFacts
<1> HIDE DEF w
<1>6. val \in [Registers -> Values] /\ val[RAX] = w
  BY <1>0, <1>5, SlotsTyped
<1>7. /\ a \in Machines /\ a.regs \in [Registers -> RegisterType] /\ a.mem \in [Slots -> Values]
      /\ \A q \in Registers : SlotOf(a, q) = None
  BY <1>4, Fields DEF Good
<1>8. regs \in [Registers -> RegisterType] /\ \A q \in Registers : regs[q].slot = None
  BY <1>7, FreeTyped DEF SlotOf
<1> HIDE DEF val, regs
<1>9. /\ n \in Machines /\ n.regs = regs /\ n.spoiled = a.spoiled
      /\ n.mem = [a.mem EXCEPT ![dest] = w]
  BY <1>2, <1>5, <1>6, <1>7, <1>8 DEF Machines, RegisterType
<1>10. \A q \in Registers : SlotOf(n, q) = None
  BY <1>8, <1>9 DEF SlotOf
<1>11. n.mem[dest] = w /\ \A s \in T : n.mem[s] = a.mem[s]
  BY <1>0, <1>7, <1>9
<1>12. Good(n, With(B, dest))
  BY <1>9, <1>10 DEF Good
<1>13. Sound(a, truth, {o} \cup T) /\ Sound(f, truth, {o} \cup T)
  BY <1>0, <1>1, <1>4 DEF Flushed, Overwritten
<1>14. Sound(n, truth, T)
  BY <1>0, <1>7, <1>9, <1>10, <1>11, <1>13 DEF Sound, Reads
<1>15. m.spoiled \subseteq n.spoiled /\ f.spoiled \subseteq n.spoiled
  BY <1>1, <1>4, <1>9 DEF Flushed, Overwritten
<1>16. ASSUME {o} \cap n.spoiled = {} PROVE Reads(n, dest, dest)
  <2>1. f.mem[o] = truth[o]
    <3>1. \A q \in Registers : SlotOf(f, q) # o
      BY <1>0, <1>1 DEF Flushed
    <3>2. o \in ({o} \cup T) \ f.spoiled
      BY <1>15, <1>16
    <3> QED BY <1>13, <3>1, <3>2, InFrame
  <2>2. w = dest
    BY <1>4, <1>5, <2>1 DEF Overwritten
  <2> QED BY <1>0, <1>10, <1>11, <2>2 DEF Reads
<1>17. Effect(m, n, T, dest, {o}, dest)
  BY <1>14, <1>15, <1>16 DEF Effect
<1> QED BY <1>12, <1>17 DEF n

\* ++x and x++ write the variable and the temporary, through RAX.
IncDecCode(m, post, x, dest) ==
  LET loaded == Overwrite(m, RAX, m.mem[x])
      before == IF post THEN [loaded EXCEPT !.mem[dest] = loaded.val[RAX]] ELSE loaded
      stepped == Overwrite(before, RAX, Computed(dest, before.val[RAX] = truth[x]))
  IN  [stepped EXCEPT !.mem[x] = stepped.val[RAX],
                      !.mem[dest] = IF post THEN @ ELSE stepped.val[RAX]]

LEMMA IncDecFacts ==
  ASSUME NEW B, NEW m, NEW S, NEW T, NEW x \in Names, NEW dest, GivenOne(B, m, S, T, x, dest),
         x \notin T, NEW post \in BOOLEAN
  PROVE  LET n == IncDecCode(m, post, x, dest) IN
         /\ Good(n, B) /\ m.spoiled \subseteq n.spoiled /\ Sound(n, truth, T)
         /\ {x} \cap n.spoiled = {} =>
              Reads(n, x, dest) /\ Reads(n, dest, IF post THEN truth[x] ELSE dest)
<1> DEFINE a == Overwrite(m, RAX, m.mem[x])
           b == IF post THEN [a EXCEPT !.mem[dest] = a.val[RAX]] ELSE a
           w == Computed(dest, b.val[RAX] = truth[x])
           c == Overwrite(b, RAX, w)
           d == [c EXCEPT !.mem[x] = c.val[RAX]]
           last == IF post THEN d.mem[dest] ELSE c.val[RAX]
           n == IncDecCode(m, post, x, dest)
<1>0. /\ B \in SUBSET Slots /\ x \in Slots /\ dest \in Slots /\ dest # x /\ dest \notin B /\ x \notin B
      /\ Good(m, B) /\ x # None /\ dest # None
      /\ T \subseteq Slots /\ T \subseteq Slots \ {dest} /\ T \subseteq Slots \ {x}
  BY GivenOneTyped, SlotsTyped
<1>01. RAX \in Registers
  BY RegistersAssumption
<1>02. Sound(m, truth, {x} \cup T)
  BY DEF GivenOne, Sound
<1>1. m.mem[x] \in Values
  BY <1>0, Fields DEF Good
<1>2. Good(a, B) /\ Overwritten(m, a, RAX, m.mem[x])
  BY <1>0, <1>01, <1>1, OverwriteFacts
<1>3. n = [c EXCEPT !.mem[x] = c.val[RAX], !.mem[dest] = IF post THEN @ ELSE c.val[RAX]]
  BY DEF IncDecCode
<1> HIDE DEF a, n
<1>4. /\ Good(b, B) /\ b.val = a.val /\ b.spoiled = a.spoiled /\ (post => b.mem[dest] = m.mem[x])
      /\ \A t, X : X \subseteq Slots \ {dest} /\ Sound(a, t, X) => Sound(b, t, X)
  <2>1. CASE post
    <3>1. b = [a EXCEPT !.mem[dest] = a.val[RAX]]
      BY <2>1
    <3>2. a.val[RAX] \in Values
      BY <1>01, <1>2, Fields DEF Good
    <3> HIDE DEF b
    <3>3. Good(b, B) /\ Stored(a, b, dest, a.val[RAX])
      BY <1>0, <1>2, <3>1, <3>2, MemFacts
    <3> QED BY <1>2, <3>3 DEF Stored, Overwritten
  <2>2. CASE ~post
    BY <1>2, <2>2
  <2> QED BY <2>1, <2>2
<1> HIDE DEF b
<1>5. w \in Values /\ (b.val[RAX] = truth[x] => w = dest)
  BY <1>0, ComputedFacts
<1> HIDE DEF w
<1>6. Good(c, B) /\ Overwritten(b, c, RAX, w)
  BY <1>0, <1>01, <1>4, <1>5, OverwriteFacts
<1> HIDE DEF c
<1>7. c.val[RAX] = w /\ c.mem = b.mem
  BY <1>6 DEF Overwritten
<1>8. Good(d, B) /\ Stored(c, d, x, w)
  BY <1>0, <1>5, <1>6, <1>7, MemFacts
<1>9. n = [d EXCEPT !.mem[dest] = last]
  <2>1. c \in Machines
    BY <1>6 DEF Good
  <2>2. d.mem[dest] = c.mem[dest]
    BY <1>0, <1>8 DEF Stored
  <2> QED BY <1>0, <1>3, <2>1, <2>2 DEF Machines
<1> HIDE DEF d
<1>10. last \in Values /\ last = IF post THEN m.mem[x] ELSE w
  <2>1. d.mem[dest] = b.mem[dest] /\ d.mem[dest] \in Values
    BY <1>0, <1>7, <1>8, Fields DEF Stored, Good
  <2> QED BY <1>4, <1>5, <1>7, <2>1
<1> HIDE DEF last
<1>11. Good(n, B) /\ Stored(d, n, dest, last)
  BY <1>0, <1>8, <1>9, <1>10, MemFacts
<1>12. n.mem[x] = w /\ n.mem[dest] = last /\ n.spoiled = c.spoiled
  BY <1>0, <1>8, <1>11 DEF Stored
<1>13. m.spoiled \subseteq n.spoiled
  BY <1>2, <1>4, <1>6, <1>12 DEF Overwritten
<1>14. Sound(n, truth, T)
  <2>1. Sound(m, truth, T)
    BY <1>02 DEF Sound
  <2>2. Sound(b, truth, T)
    BY <1>0, <1>2, <1>4, <2>1 DEF Overwritten
  <2>3. Sound(d, truth, T)
    BY <1>0, <1>6, <1>8, <2>2 DEF Overwritten, Stored
  <2> QED BY <1>0, <1>11, <2>3 DEF Stored
<1>15. ASSUME {x} \cap n.spoiled = {}
       PROVE  Reads(n, x, dest) /\ Reads(n, dest, IF post THEN truth[x] ELSE dest)
  <2>1. m.mem[x] = truth[x]
    <3>1. \A q \in Registers : SlotOf(m, q) # x
      BY <1>0 DEF Good
    <3>2. x \in ({x} \cup T) \ m.spoiled
      BY <1>13, <1>15
    <3> QED BY <1>02, <3>1, <3>2, InFrame
  <2>2. w = dest
    BY <1>2, <1>4, <1>5, <2>1 DEF Overwritten
  <2>3. \A q \in Registers : SlotOf(n, q) # x /\ SlotOf(n, q) # dest
    BY <1>0, <1>11 DEF Good
  <2> QED BY <1>10, <1>12, <2>1, <2>2, <2>3 DEF Reads
<1> QED BY <1>11, <1>13, <1>14, <1>15 DEF n

-------------------------------------------------------------------------------
(* The end of an instruction and the joins. *)

\* Only what is not needed any more is forgotten.
KeptFor(n, k, live) ==
  /\ k.regs = n.regs /\ k.spoiled = n.spoiled \cap (Names \cup live)
  /\ \A s \in Names \cup live : k.mem[s] = n.mem[s]
  /\ \A q \in Registers : SlotOf(k, q) = SlotOf(n, q)
  /\ \A t : Sound(n, t, Names \cup live) => Sound(k, t, Names \cup live)

LEMMA KeepFacts ==
  ASSUME NEW B \in SUBSET Slots, NEW n, Good(n, B), NEW live \in SUBSET Slots
  PROVE  Good(KeepMachine(n, live), B) /\ KeptFor(n, KeepMachine(n, live), live)
<1> DEFINE mem == KeepSlots(n.mem, live)
           val == [r \in Registers |-> IF n.regs[r].slot \in Names \cup live THEN n.val[r] ELSE Junk]
           lost == n.spoiled \cap (Names \cup live)
           k == KeepMachine(n, live)
<1>0. Names \cup live \subseteq Slots /\ Junk \in Values
  BY SlotsTyped
<1>1. n \in Machines /\ n.mem \in [Slots -> Values] /\ n.val \in [Registers -> Values] /\ n.spoiled \subseteq Slots
  BY Fields DEF Good
<1>2. k = [n EXCEPT !.mem = mem, !.spoiled = lost, !.val = val]
  BY <1>1 DEF KeepMachine, Machines
<1>3. mem \in [Slots -> Values] /\ \A s \in Names \cup live : mem[s] = n.mem[s]
  BY <1>0, <1>1 DEF KeepSlots
<1>4. val \in [Registers -> Values]
      /\ \A q \in Registers : SlotOf(n, q) \in Names \cup live => val[q] = n.val[q]
  BY <1>0, <1>1 DEF SlotOf
<1>5. lost \subseteq Slots
  BY <1>1
<1>6. lost = n.spoiled \cap (Names \cup live)
  OBVIOUS
<1> HIDE DEF k, mem, val, lost
<1>7. k \in Machines /\ k.regs = n.regs /\ k.mem = mem /\ k.val = val /\ k.spoiled = lost
  BY <1>1, <1>2, <1>3, <1>4, <1>5 DEF Machines
<1>8. Good(k, B) /\ \A q \in Registers : SlotOf(k, q) = SlotOf(n, q)
  BY <1>7 DEF Good, SlotOf
<1>9. ASSUME NEW t, Sound(n, t, Names \cup live) PROVE Sound(k, t, Names \cup live)
  BY <1>3, <1>4, <1>6, <1>7, <1>8, <1>9 DEF Sound, Reads
<1>10. KeptFor(n, k, live)
  BY <1>3, <1>6, <1>7, <1>8, <1>9 DEF KeptFor
<1> QED BY <1>8, <1>10 DEF k

LEMMA KeepSlotsFacts ==
  ASSUME NEW t \in [Slots -> Values], NEW live \in SUBSET Slots
  PROVE  /\ KeepSlots(t, live) \in [Slots -> Values]
         /\ \A s \in Names \cup live : KeepSlots(t, live)[s] = t[s]
         /\ \A n : Sound(n, t, Names \cup live) => Sound(n, KeepSlots(t, live), Names \cup live)
BY SlotsTyped DEF KeepSlots, Sound

\* A result makes its slot sound, unless it comes from a spoiled one.
Inherited(n, k, dest, from) ==
  /\ k.regs = n.regs /\ k.mem = n.mem /\ k.val = n.val
  /\ k.spoiled = IF from \cap n.spoiled # {} THEN n.spoiled \cup {dest} ELSE n.spoiled \ ({dest} \cap Names)

LEMMA InheritFacts ==
  ASSUME NEW B \in SUBSET Slots, NEW n, Good(n, B), NEW dest \in Slots, NEW from
  PROVE  Good(Inherit(n, dest, from), B) /\ Inherited(n, Inherit(n, dest, from), dest, from)
<1> DEFINE lost == IF from \cap n.spoiled # {} THEN n.spoiled \cup {dest} ELSE n.spoiled \ ({dest} \cap Names)
           k == Inherit(n, dest, from)
<1>1. n \in Machines /\ n.spoiled \subseteq Slots
  BY Fields DEF Good
<1>2. lost \in SUBSET Slots
  BY <1>1
<1>3. k = [n EXCEPT !.spoiled = lost]
  BY <1>1 DEF Inherit, Machines
<1>4. lost = IF from \cap n.spoiled # {} THEN n.spoiled \cup {dest} ELSE n.spoiled \ ({dest} \cap Names)
  OBVIOUS
<1> HIDE DEF lost, k
<1>5. k \in Machines /\ k.regs = n.regs /\ k.mem = n.mem /\ k.val = n.val /\ k.spoiled = lost
  BY <1>1, <1>2, <1>3, SetSpoiled
<1>6. Good(k, B)
  BY <1>5 DEF Good, SlotOf
<1>7. Inherited(n, k, dest, from)
  BY <1>4, <1>5 DEF Inherited
<1> QED BY <1>6, <1>7 DEF k

LEMMA FinishFacts ==
  ASSUME NEW B \in SUBSET Slots, NEW n, Good(n, B), NEW live \in SUBSET Slots,
         truth \in [Slots -> Values], NEW dest \in Slots, NEW from, NEW v \in Values,
         Outcome(machine, n, (Names \cup live) \ {dest}, dest, from, v)
  PROVE  LET k == KeepMachine(Inherit(n, dest, from), live)
             t == KeepSlots([truth EXCEPT ![dest] = v], live)
         IN  Good(k, B) /\ t \in [Slots -> Values] /\ Sound(k, t, Names \cup live)
<1> DEFINE a == Inherit(n, dest, from)
           u == [truth EXCEPT ![dest] = v]
           k == KeepMachine(a, live)
           t == KeepSlots(u, live)
<1>1. Good(a, B) /\ Inherited(n, a, dest, from)
  BY InheritFacts
<1> HIDE DEF a
<1>2. u \in [Slots -> Values] /\ u[dest] = v /\ \A s \in Slots \ {dest} : u[s] = truth[s]
  OBVIOUS
<1> HIDE DEF u
<1>3. Sound(a, u, Names \cup live)
  <2> SUFFICES ASSUME NEW s \in (Names \cup live) \ a.spoiled PROVE Reads(a, s, u[s])
    BY DEF Sound
  <2>1. Reads(n, s, u[s])
    <3>1. CASE s = dest
      BY <1>1, <1>2, <3>1 DEF Outcome, Inherited
    <3>2. CASE s # dest
      BY <1>1, <1>2, <3>2, SlotsTyped DEF Outcome, Inherited, Sound
    <3> QED BY <3>1, <3>2
  <2> QED BY <1>1, <2>1 DEF Reads, Inherited, SlotOf
<1>4. Good(k, B) /\ KeptFor(a, k, live)
  BY <1>1, KeepFacts
<1> HIDE DEF k
<1>5. Sound(k, u, Names \cup live)
  BY <1>3, <1>4 DEF KeptFor
<1>6. t \in [Slots -> Values] /\ Sound(k, t, Names \cup live)
  BY <1>2, <1>5, KeepSlotsFacts
<1> QED BY <1>4, <1>6 DEF k, a, u

-------------------------------------------------------------------------------
(* The inductive invariant. *)

Elements(p) == {p[i] : i \in DOMAIN p}
Distinct(p) == \A i, j \in DOMAIN p : p[i] = p[j] => i = j

\* A pending jump: which slots it needs, and the frame it left them in.
JumpLive == Elements(jump.pending)
Jumped ==
  /\ jump.pending \in Seq(1..count)
  /\ jump.mem \in [Slots -> Values] /\ jump.truth \in [Slots -> Values] /\ jump.spoiled \subseteq Slots
  /\ \A s \in (Names \cup JumpLive) \ jump.spoiled : jump.mem[s] = jump.truth[s]

\* The slots a register may be bound to: the temporaries so far that no pending
\* jump needs.
Bindable == {s \in 1..count : jump # None => s \notin JumpLive}

IInv ==
  /\ count \in 0..MaxTemps /\ truth \in [Slots -> Values]
  /\ pending \in Seq(1..count) /\ Distinct(pending)
  /\ Good(machine, Bindable)
  /\ Sound(machine, truth, Names \cup Elements(pending))
  /\ jump # None => Jumped

\* The bound on temporaries.
LEMMA Bounds == MaxTemps \in Nat /\ Temps = 1..MaxTemps
BY SlotsAssumption DEF Temps

LEMMA Typed ==
  ASSUME IInv
  PROVE  /\ count \in Nat /\ 1..count \subseteq Temps /\ Bindable \in SUBSET Temps
         /\ Elements(pending) \subseteq Temps /\ DOMAIN pending = 1..Len(pending) /\ Len(pending) \in Nat
         /\ \A i \in DOMAIN pending : pending[i] \in 1..count
<1>1. count \in Nat /\ 1..count \subseteq Temps
  BY Bounds DEF IInv
<1>2. DOMAIN pending = 1..Len(pending) /\ Len(pending) \in Nat
  BY LenProperties DEF IInv
<1>3. \A i \in DOMAIN pending : pending[i] \in 1..count
  BY <1>2, ElementOfSeq DEF IInv
<1> QED BY <1>1, <1>2, <1>3 DEF Bindable, Elements

\* What is left of the pending temporaries, when the youngest n are used up.
LEMMA RestFacts ==
  ASSUME IInv, NEW n \in Nat, n <= Len(pending)
  PROVE  /\ Rest(n) \in Seq(1..count) /\ Distinct(Rest(n))
         /\ Elements(Rest(n)) \subseteq Elements(pending)
         /\ \A i \in 0..(n-1) : Youngest(i) \in Elements(pending) \ Elements(Rest(n))
<1> DEFINE p == Rest(n)
           len == Len(pending) - n
<1>1. len \in 0..Len(pending) /\ len \in Nat /\ Len(pending) \in Nat /\ DOMAIN pending = 1..Len(pending)
  BY Typed
<1>2. p \in Seq(1..count) /\ DOMAIN p = 1..len /\ \A i \in 1..len : p[i] = pending[i]
  <2>1. \A i \in 1..len : pending[i] \in 1..count
    BY <1>1, Typed
  <2>2. p = [i \in 1..len |-> pending[i]]
    BY <1>1, Typed DEF Rest, IInv
  <2> HIDE DEF p
  <2>3. p \in [1..len -> 1..count]
    BY <2>1, <2>2
  <2> QED BY <1>1, <2>2, <2>3, IsASeq
<1> HIDE DEF p
<1>0. \A i, j \in DOMAIN pending : pending[i] = pending[j] => i = j
  BY DEF IInv, Distinct
<1>3. Distinct(p) /\ Elements(p) \subseteq Elements(pending)
  <2>1. 1..len \subseteq DOMAIN pending
    BY <1>1
  <2> HIDE DEF len
  <2>2. Distinct(p)
    BY <1>0, <1>2, <2>1 DEF Distinct
  <2>3. Elements(p) \subseteq Elements(pending)
    BY <1>2, <2>1 DEF Elements
  <2> QED BY <2>2, <2>3
<1>4. ASSUME NEW i \in 0..(n-1) PROVE Youngest(i) \in Elements(pending) \ Elements(p)
  <2>1. Len(pending) - i \in 1..Len(pending) /\ Len(pending) - i \notin 1..len
    BY <1>1
  <2>2. Youngest(i) \in Elements(pending)
    BY <1>1, <2>1 DEF Youngest, Elements
  <2>3. \A j \in 1..len : pending[j] # pending[Len(pending) - i]
    BY <1>0, <1>1, <2>1
  <2> QED BY <1>2, <2>2, <2>3 DEF Youngest, Elements
<1> QED BY <1>2, <1>3, <1>4 DEF p

\* A new temporary becomes the youngest one.
LEMMA PushFacts ==
  ASSUME NEW c \in Nat, NEW p \in Seq(1..c), Distinct(p)
  PROVE  /\ Append(p, c + 1) \in Seq(1..(c + 1)) /\ Distinct(Append(p, c + 1))
         /\ Elements(Append(p, c + 1)) = Elements(p) \cup {c + 1}
<1> DEFINE q == Append(p, c + 1)
<1>1. /\ Len(p) \in Nat /\ DOMAIN p = 1..Len(p) /\ \A i \in DOMAIN p : p[i] \in 1..c
  BY LenProperties, ElementOfSeq
<1>2. p \in Seq(1..(c+1)) /\ c + 1 \in 1..(c+1)
  <2>1. p \in [1..Len(p) -> 1..(c+1)]
    <3>1. \A i \in 1..Len(p) : p[i] \in 1..(c+1)
      BY <1>1
    <3>2. p = [i \in DOMAIN p |-> p[i]]
      BY LenProperties
    <3> QED BY <1>1, <3>1, <3>2
  <2> QED BY <1>1, <2>1, IsASeq
<1>3. q \in Seq(1..(c+1)) /\ Len(q) = Len(p) + 1
  BY <1>2, AppendProperties
<1>4. DOMAIN q = 1..(Len(p) + 1)
  BY <1>3, LenProperties
<1>5. q[Len(p) + 1] = c + 1 /\ \A i \in 1..Len(p) : q[i] = p[i]
  BY <1>2, AppendProperties
<1> HIDE DEF q
<1>6. DOMAIN q = DOMAIN p \cup {Len(p) + 1} /\ Len(p) + 1 \notin DOMAIN p
  BY <1>1, <1>4
<1>7. \A i \in DOMAIN p : p[i] # c + 1 /\ q[i] = p[i]
  BY <1>1, <1>5
<1>8. Distinct(q)
  BY <1>5, <1>6, <1>7 DEF Distinct
<1>9. Elements(q) = Elements(p) \cup {c + 1}
  BY <1>5, <1>6, <1>7 DEF Elements
<1> QED BY <1>3, <1>8, <1>9 DEF q

\* The operands of an instruction are in use before it, and temporaries are not after it.
LEMMA PairFacts ==
  ASSUME IInv, NEW ops \in OperandPairs
  PROVE  /\ ops[3] \in Nat /\ ops[3] <= Len(pending)
         /\ \A x \in {ops[1], ops[2]} :
              x \in Names \cup (Elements(pending) \ Elements(Rest(ops[3])))
         /\ ops[1] = ops[2] => ops[1] \in Names
<1>0. Len(pending) \in Nat /\ DOMAIN pending = 1..Len(pending)
  BY Typed
<1>1. CASE ops \in {<<x, y, 0>> : x \in Names, y \in Names}
  BY <1>0, <1>1
<1>2. CASE Len(pending) > 0 /\ ops \in UNION {{<<x, Youngest(0), 1>>, <<Youngest(0), x, 1>>} : x \in Names}
  <2>1. PICK x \in Names : ops = <<x, Youngest(0), 1>> \/ ops = <<Youngest(0), x, 1>>
    BY <1>2
  <2>2. 1 \in Nat /\ 1 <= Len(pending) /\ 0 \in 0..(1 - 1)
    BY <1>0, <1>2
  <2>3. Youngest(0) \in Elements(pending) \ Elements(Rest(1))
    BY <2>2, RestFacts
  <2>4. Youngest(0) \notin Names
    BY <2>3, Typed, SlotsTyped
  <2> QED BY <2>1, <2>2, <2>3, <2>4
<1>3. CASE Len(pending) > 1 /\ ops = <<Youngest(1), Youngest(0), 2>>
  <2>1. 2 \in Nat /\ 2 <= Len(pending) /\ 0 \in 0..(2 - 1) /\ 1 \in 0..(2 - 1)
    BY <1>0, <1>3
  <2>2. Youngest(0) \in Elements(pending) \ Elements(Rest(2))
        /\ Youngest(1) \in Elements(pending) \ Elements(Rest(2))
    BY <2>1, RestFacts
  <2>3. Youngest(0) # Youngest(1)
    BY <1>0, <2>1 DEF Youngest, IInv, Distinct
  <2> QED BY <1>3, <2>1, <2>2, <2>3
<1> QED BY <1>1, <1>2, <1>3 DEF OperandPairs

LEMMA SingleFacts ==
  ASSUME IInv, NEW op \in SingleOperands
  PROVE  /\ op[2] \in Nat /\ op[2] <= Len(pending)
         /\ op[1] \in Names \cup (Elements(pending) \ Elements(Rest(op[2])))
<1>0. Len(pending) \in Nat
  BY Typed
<1>1. CASE op \in {<<x, 0>> : x \in Names}
  BY <1>0, <1>1
<1>2. CASE Len(pending) > 0 /\ op = <<Youngest(0), 1>>
  <2>2. 1 \in Nat /\ 1 <= Len(pending) /\ 0 \in 0..(1 - 1)
    BY <1>0, <1>2
  <2>3. Youngest(0) \in Elements(pending) \ Elements(Rest(1))
    BY <2>2, RestFacts
  <2> QED BY <1>2, <2>2, <2>3
<1> QED BY <1>1, <1>2 DEF SingleOperands

-------------------------------------------------------------------------------
(* The steps. *)

LEMMA SeqGrows ==
  ASSUME NEW c \in Nat, NEW p \in Seq(1..c)
  PROVE  p \in Seq(1..(c + 1))
<1>1. /\ Len(p) \in Nat /\ DOMAIN p = 1..Len(p) /\ \A i \in DOMAIN p : p[i] \in 1..c
      /\ p = [i \in DOMAIN p |-> p[i]]
  BY LenProperties, ElementOfSeq
<1>2. \A i \in 1..Len(p) : p[i] \in 1..(c+1)
  BY <1>1
<1>3. p \in [1..Len(p) -> 1..(c+1)]
  BY <1>1, <1>2
<1> QED BY <1>1, <1>3, IsASeq

\* A step that counts one more temporary.
LEMMA Counted ==
  ASSUME IInv, count < MaxTemps, count' = count + 1, jump' = jump,
         NEW dest \in Names \cup {count'}, Good(machine', With(Bindable, dest)),
         truth' \in [Slots -> Values], Sound(machine', truth', Names \cup Elements(pending')),
         pending' \in Seq(1..count'), Distinct(pending')
  PROVE  IInv'
<1>1. count \in Nat /\ count' \in 0..MaxTemps /\ 1..count \subseteq 1..count' /\ count' \in 1..count'
      /\ count' \notin 1..count
  BY Typed, Bounds
<1>2. ASSUME jump # None PROVE Jumped'
  <2>1. Jumped
    BY <1>2 DEF IInv
  <2>2. jump.pending \in Seq(1..count')
    BY <1>1, <2>1, SeqGrows DEF Jumped
  <2> QED BY <2>1, <2>2 DEF Jumped, JumpLive, Elements
<1>3. ASSUME jump # None PROVE count' \notin JumpLive
  <2>1. jump.pending \in Seq(1..count)
    BY <1>3 DEF IInv, Jumped
  <2>2. \A i \in DOMAIN jump.pending : jump.pending[i] \in 1..count
    BY <2>1, LenProperties, ElementOfSeq
  <2> QED BY <1>1, <2>2 DEF JumpLive, Elements
<1>4. With(Bindable, dest) \subseteq Bindable'
  <2>1. {dest} \cap Temps \subseteq {count'}
    BY SlotsTyped
  <2>2. Bindable \subseteq Bindable'
    BY <1>1 DEF Bindable, JumpLive
  <2>3. count' \in Bindable'
    BY <1>1, <1>3 DEF Bindable, JumpLive
  <2> QED BY <2>1, <2>2, <2>3 DEF With
<1>5. Good(machine', Bindable')
  BY <1>4 DEF Good
<1>6. Distinct(pending)' /\ Elements(pending)' = Elements(pending')
  BY DEF Distinct, Elements
<1>7. Good(machine, Bindable)' /\ Sound(machine, truth, Names \cup Elements(pending))'
  BY <1>5, <1>6 DEF Good, Sound, Reads, SlotOf
<1> QED BY <1>1, <1>2, <1>6, <1>7 DEF IInv

\* What an instruction with one operand and a new temporary is given.
NeededAfter(rest, dest) == (Names \cup Elements(rest)) \ {dest}

LEMMA NewTemporary ==
  ASSUME IInv, count < MaxTemps, count' = count + 1, NEW k \in Nat, k <= Len(pending)
  PROVE  /\ count' \in Temps \ Bindable /\ count' \in Slots
         /\ Append(Rest(k), count') \in Seq(1..count') /\ Distinct(Append(Rest(k), count'))
         /\ NeededAfter(Append(Rest(k), count'), count') = Names \cup Elements(Rest(k))
         /\ Elements(Append(Rest(k), count')) \in SUBSET Slots
<1>1. count \in Nat /\ count' \in Temps /\ count' \notin 1..count /\ count' \notin Bindable
  BY Typed, Bounds DEF Bindable
<1>2. Rest(k) \in Seq(1..count) /\ Distinct(Rest(k)) /\ Elements(Rest(k)) \subseteq Elements(pending)
  BY RestFacts
<1>3. /\ Append(Rest(k), count') \in Seq(1..count') /\ Distinct(Append(Rest(k), count'))
      /\ Elements(Append(Rest(k), count')) = Elements(Rest(k)) \cup {count'}
  BY <1>1, <1>2, PushFacts
<1>4. count' \notin Elements(Rest(k)) /\ Elements(Rest(k)) \subseteq Temps
  BY <1>1, <1>2, Typed DEF Elements
<1>5. count' \notin Names /\ count' \in Slots
  BY <1>1, SlotsTyped
<1> QED BY <1>1, <1>3, <1>4, <1>5, SlotsTyped DEF NeededAfter

LEMMA OneOperand ==
  ASSUME IInv, count < MaxTemps, count' = count + 1, NEW k \in Nat, k <= Len(pending),
         NEW o \in Names \cup (Elements(pending) \ Elements(Rest(k)))
  PROVE  GivenOne(Bindable, machine, Names \cup Elements(pending),
                  NeededAfter(Append(Rest(k), count'), count'), o, count')
<1>1. /\ count' \in Temps \ Bindable
      /\ NeededAfter(Append(Rest(k), count'), count') = Names \cup Elements(Rest(k))
  BY NewTemporary
<1>2. Elements(Rest(k)) \subseteq Elements(pending)
  BY RestFacts
<1>3. Bindable \subseteq Temps /\ Elements(pending) \subseteq Temps /\ Bindable \subseteq 1..count
  BY Typed DEF Bindable
<1>4. count' \notin Names \cup Elements(pending)
  <2>1. count \in Nat /\ \A i \in DOMAIN pending : pending[i] \in 1..count
    BY Typed
  <2> QED BY <1>1, <2>1, SlotsTyped DEF Elements
<1> QED BY <1>1, <1>2, <1>3, <1>4, SlotsTyped DEF GivenOne, IInv

\* It ends with the invariant if its code keeps the slots needed and computes the result.
LEMMA OneResult ==
  ASSUME IInv, count < MaxTemps, count' = count + 1, jump' = jump, NEW k \in Nat, k <= Len(pending),
         NEW n, Good(n, With(Bindable, count')), NEW from,
         Outcome(machine, n, NeededAfter(Append(Rest(k), count'), count'), count', from, count'),
         Finish(n, count', from, count', Append(Rest(k), count'))
  PROVE  IInv'
<1> DEFINE rest == Append(Rest(k), count')
           live == Elements(rest)
<1>1. /\ count' \in Slots /\ live \in SUBSET Slots /\ rest \in Seq(1..count') /\ Distinct(rest)
  BY NewTemporary
<1>2. /\ machine' = KeepMachine(Inherit(n, count', from), live)
      /\ truth' = KeepSlots([truth EXCEPT ![count'] = count'], live)
      /\ pending' = rest
  BY DEF Finish, Elements
<1>3. With(Bindable, count') \in SUBSET Slots /\ count' \in Values /\ truth \in [Slots -> Values]
  BY <1>1, Typed, SlotsTyped DEF With, IInv
<1>4. Outcome(machine, n, (Names \cup live) \ {count'}, count', from, count')
  BY DEF NeededAfter
<1> HIDE DEF rest, live
<1>5. /\ Good(machine', With(Bindable, count')) /\ truth' \in [Slots -> Values]
      /\ Sound(machine', truth', Names \cup live)
  BY <1>1, <1>2, <1>3, <1>4, FinishFacts
<1>6. Sound(machine', truth', Names \cup Elements(pending'))
  BY <1>2, <1>5 DEF live
<1> QED BY <1>1, <1>2, <1>5, <1>6, Counted

LEMMA UnaryStep ==
  ASSUME IInv, NEW op \in {"not", "complement", "negate"}, Unary(op)
  PROVE  IInv'
<1>1. PICK o \in SingleOperands :
        Finish(UnaryCode(machine, op, o[1], count'), count', {o[1]}, count', Append(Rest(o[2]), count'))
  BY DEF Unary
<1>2. count < MaxTemps /\ count' = count + 1 /\ jump' = jump
  BY DEF Unary
<1>3. /\ o[2] \in Nat /\ o[2] <= Len(pending)
      /\ o[1] \in Names \cup (Elements(pending) \ Elements(Rest(o[2])))
  BY SingleFacts
<1>4. GivenOne(Bindable, machine, Names \cup Elements(pending),
               NeededAfter(Append(Rest(o[2]), count'), count'), o[1], count')
  BY <1>2, <1>3, OneOperand
<1> DEFINE n == UnaryCode(machine, op, o[1], count')
<1>5. /\ Good(n, With(Bindable, count'))
      /\ Outcome(machine, n, NeededAfter(Append(Rest(o[2]), count'), count'), count', {o[1]}, count')
  BY <1>4, UnaryFacts
<1> QED BY <1>1, <1>2, <1>3, <1>5, OneResult

LEMMA ConvertStep ==
  ASSUME IInv, NEW kind \in {"exact", "zero", "copy", "same"}, Convert(kind)
  PROVE  IInv'
<1>1. PICK o \in SingleOperands :
        Finish(ConvertCode(kind, machine, o[1], count'), count', {o[1]}, count', Append(Rest(o[2]), count'))
  BY DEF Convert
<1>2. count < MaxTemps /\ count' = count + 1 /\ jump' = jump
  BY DEF Convert
<1>3. /\ o[2] \in Nat /\ o[2] <= Len(pending)
      /\ o[1] \in Names \cup (Elements(pending) \ Elements(Rest(o[2])))
  BY SingleFacts
<1>4. GivenOne(Bindable, machine, Names \cup Elements(pending),
               NeededAfter(Append(Rest(o[2]), count'), count'), o[1], count')
  BY <1>2, <1>3, OneOperand
<1> DEFINE n == ConvertCode(kind, machine, o[1], count')
<1>5. /\ Good(n, With(Bindable, count'))
      /\ Outcome(machine, n, NeededAfter(Append(Rest(o[2]), count'), count'), count', {o[1]}, count')
  BY <1>4, ConvertFacts
<1> QED BY <1>1, <1>2, <1>3, <1>5, OneResult

LEMMA CallStep ==
  ASSUME IInv, Call
  PROVE  IInv'
<1>1. PICK o \in SingleOperands :
        Finish(CallCode(machine, o[1], count'), count', {o[1]}, count', Append(Rest(o[2]), count'))
  BY DEF Call, CallCode
<1>2. count < MaxTemps /\ count' = count + 1 /\ jump' = jump
  BY DEF Call
<1>3. /\ o[2] \in Nat /\ o[2] <= Len(pending)
      /\ o[1] \in Names \cup (Elements(pending) \ Elements(Rest(o[2])))
  BY SingleFacts
<1>4. GivenOne(Bindable, machine, Names \cup Elements(pending),
               NeededAfter(Append(Rest(o[2]), count'), count'), o[1], count')
  BY <1>2, <1>3, OneOperand
<1> DEFINE n == CallCode(machine, o[1], count')
<1>5. /\ Good(n, With(Bindable, count'))
      /\ Effect(machine, n, NeededAfter(Append(Rest(o[2]), count'), count'), count', {o[1]}, count')
  BY <1>4, CallFacts
<1>6. Outcome(machine, n, NeededAfter(Append(Rest(o[2]), count'), count'), count', {o[1]}, count')
  BY <1>5, EffectOutcome
<1> QED BY <1>1, <1>2, <1>3, <1>5, <1>6, OneResult

LEMMA BinaryStep ==
  ASSUME IInv, NEW kind \in {"arithmetic", "shift", "divide", "modulo"}, Binary(kind)
  PROVE  IInv'
<1>1. PICK ops \in OperandPairs : \E dest \in {count'} \cup ({ops[1]} \cap Names) :
        Finish(BinaryCode(kind, machine, ops[1], ops[2], dest, count'), dest, {ops[1], ops[2]}, count',
               IF dest = count' THEN Append(Rest(ops[3]), dest) ELSE Rest(ops[3]))
  BY DEF Binary
<1> DEFINE l == ops[1]
           r == ops[2]
           k == ops[3]
<1>2. PICK dest \in {count'} \cup ({l} \cap Names) :
        Finish(BinaryCode(kind, machine, l, r, dest, count'), dest, {l, r}, count',
               IF dest = count' THEN Append(Rest(k), dest) ELSE Rest(k))
  BY <1>1
<1>3. count < MaxTemps /\ count' = count + 1 /\ jump' = jump
  BY DEF Binary
<1>4. /\ k \in Nat /\ k <= Len(pending)
      /\ l \in Names \cup (Elements(pending) \ Elements(Rest(k)))
      /\ r \in Names \cup (Elements(pending) \ Elements(Rest(k)))
      /\ (l = r => l \in Names)
  BY PairFacts
<1>45. dest = count' \/ (dest = l /\ l \in Names)
  BY <1>2
<1> HIDE DEF l, r, k
<1> DEFINE rest == IF dest = count' THEN Append(Rest(k), dest) ELSE Rest(k)
           live == Elements(rest)
           T == (Names \cup live) \ {dest}
           n == BinaryCode(kind, machine, l, r, dest, count')
<1>5. /\ count' \in Temps \ Bindable /\ count' \in Slots /\ count' \notin Names
      /\ Append(Rest(k), count') \in Seq(1..count') /\ Distinct(Append(Rest(k), count'))
      /\ NeededAfter(Append(Rest(k), count'), count') = Names \cup Elements(Rest(k))
      /\ Elements(Append(Rest(k), count')) \in SUBSET Slots
  BY <1>3, <1>4, NewTemporary, SlotsTyped
<1>6. Rest(k) \in Seq(1..count) /\ Distinct(Rest(k)) /\ Elements(Rest(k)) \subseteq Elements(pending)
  BY <1>4, RestFacts
<1>7. count \in Nat /\ Elements(pending) \subseteq Temps /\ Bindable \subseteq Temps /\ Bindable \subseteq 1..count
  BY Typed DEF Bindable
<1>8. rest \in Seq(1..count') /\ Distinct(rest) /\ live \in SUBSET Slots
  <2>1. Rest(k) \in Seq(1..count')
    BY <1>3, <1>6, <1>7, SeqGrows
  <2> QED BY <1>5, <1>6, <1>7, <2>1, SlotsTyped
<1>9. T \subseteq (Names \cup Elements(Rest(k))) \ {dest}
  <2>1. CASE dest = count'
    BY <1>5, <2>1 DEF NeededAfter
  <2>2. CASE dest # count'
    BY <2>2
  <2> QED BY <2>1, <2>2
<1>10. dest \in Slots /\ dest \in Names \cup {count'}
  BY <1>5, SlotsTyped
<1> HIDE DEF T
<1>11. Given(Bindable, machine, Names \cup Elements(pending), T, l, r, dest, count')
  <2>1. MayCombine(Bindable, l, r, dest)
    <3>1. l \in Slots /\ r \in Slots /\ (l = r => l \notin Bindable)
      BY <1>4, <1>7, SlotsTyped
    <3>2. dest \in Temps \ Bindable \/ (dest = l /\ l \in Names)
      BY <1>5, <1>45
    <3> QED BY <1>7, <3>1, <3>2 DEF MayCombine
  <2>2. Good(machine, Bindable) /\ Sound(machine, truth, Names \cup Elements(pending))
    BY DEF IInv
  <2>3. Names \cup Elements(pending) \subseteq Slots /\ {l, r} \subseteq Names \cup Elements(pending)
    BY <1>4, <1>7, SlotsTyped
  <2>4. T \subseteq (Names \cup Elements(pending)) \ {dest}
    <3>1. dest \notin Names => dest = count'
      BY <1>10
    <3> QED BY <1>6, <1>9, <3>1
  <2>5. r \in T => r \notin Bindable
    BY <1>4, <1>7, <1>9, SlotsTyped
  <2> QED BY <1>5, <2>1, <2>2, <2>3, <2>4, <2>5 DEF Given
<1>12. Good(n, With(Bindable, dest)) /\ Effect(machine, n, T, dest, {l, r}, count')
  BY <1>11, BinaryFacts
<1>13. Outcome(machine, n, T, dest, {l, r}, count')
  BY <1>12, EffectOutcome
<1> HIDE DEF n
<1>14. /\ machine' = KeepMachine(Inherit(n, dest, {l, r}), live)
       /\ truth' = KeepSlots([truth EXCEPT ![dest] = count'], live)
       /\ pending' = rest
  BY <1>2 DEF Finish, Elements, n
<1> HIDE DEF rest, live
<1>15. With(Bindable, dest) \in SUBSET Slots /\ count' \in Values /\ truth \in [Slots -> Values]
  BY <1>5, <1>7, SlotsTyped DEF With, IInv
<1>16. Outcome(machine, n, (Names \cup live) \ {dest}, dest, {l, r}, count')
  BY <1>13 DEF T
<1>17. /\ Good(machine', With(Bindable, dest)) /\ truth' \in [Slots -> Values]
       /\ Sound(machine', truth', Names \cup live)
  BY <1>8, <1>10, <1>12, <1>14, <1>15, <1>16, FinishFacts
<1>18. Sound(machine', truth', Names \cup Elements(pending'))
  BY <1>14, <1>17 DEF live
<1> QED BY <1>3, <1>8, <1>10, <1>14, <1>17, <1>18, Counted

LEMMA IncDecStep ==
  ASSUME IInv, NEW post \in BOOLEAN, IncDec(post)
  PROVE  IInv'
<1>1. PICK x \in Names :
        LET n == IncDecCode(machine, post, x, count')
            live == Live \cup {count'}
        IN  /\ machine' = KeepMachine(Inherit(n, count', {x}), live)
            /\ truth' = KeepSlots([truth EXCEPT ![x] = count',
                                                ![count'] = IF post THEN truth[x] ELSE count'], live)
            /\ pending' = Append(pending, count')
  BY DEF IncDec, IncDecCode
<1> DEFINE n == IncDecCode(machine, post, x, count')
           a == Inherit(n, count', {x})
           live == Elements(pending) \cup {count'}
           T == (Names \cup Elements(pending)) \ {x}
           old == IF post THEN truth[x] ELSE count'
           u == [truth EXCEPT ![x] = count', ![count'] = old]
<1>2. count < MaxTemps /\ count' = count + 1 /\ jump' = jump
  BY DEF IncDec
<1>3. /\ machine' = KeepMachine(a, live) /\ truth' = KeepSlots(u, live)
      /\ pending' = Append(pending, count')
  BY <1>1 DEF Live, Elements
<1>4. count \in Nat /\ Elements(pending) \subseteq Temps /\ Bindable \in SUBSET Temps /\ Len(pending) \in Nat
  BY Typed
<1>5. Rest(0) = pending
  BY <1>4, SubSeqFull DEF Rest, IInv
<1>6. 0 \in Nat /\ 0 <= Len(pending) /\ x \in Names \cup (Elements(pending) \ Elements(Rest(0)))
  BY <1>4
<1>7. /\ count' \in Temps \ Bindable /\ count' \in Slots
      /\ Append(pending, count') \in Seq(1..count') /\ Distinct(Append(pending, count'))
      /\ NeededAfter(Append(pending, count'), count') = Names \cup Elements(pending)
  BY <1>2, <1>5, <1>6, NewTemporary
<1>71. Elements(Append(pending, count')) = live
  BY <1>2, <1>4, PushFacts DEF IInv
<1>8. x \in Slots /\ count' # x /\ live \in SUBSET Slots /\ Bindable \in SUBSET Slots /\ count' \notin Names
      /\ With(Bindable, count') \in SUBSET Slots /\ count' \in Values
  BY <1>4, <1>7, SlotsTyped DEF With
<1>9. GivenOne(Bindable, machine, Names \cup Elements(pending), T, x, count')
  <2>1. GivenOne(Bindable, machine, Names \cup Elements(pending), Names \cup Elements(pending), x, count')
    BY <1>2, <1>5, <1>6, <1>7, OneOperand
  <2> QED BY <2>1 DEF GivenOne
<1>10. /\ Good(n, Bindable) /\ machine.spoiled \subseteq n.spoiled /\ Sound(n, truth, T)
       /\ ({x} \cap n.spoiled = {} => Reads(n, x, count') /\ Reads(n, count', old))
  BY <1>9, IncDecFacts
<1> HIDE DEF n
<1>11. Good(a, Bindable) /\ Inherited(n, a, count', {x})
  BY <1>7, <1>8, <1>10, InheritFacts
<1> HIDE DEF a
<1>12. /\ u \in [Slots -> Values] /\ u[x] = count' /\ u[count'] = old
       /\ \A s \in Slots \ {x, count'} : u[s] = truth[s]
  <2>1. truth \in [Slots -> Values] /\ old \in Values
    BY <1>8 DEF IInv
  <2> QED BY <1>7, <1>8, <2>1
<1> HIDE DEF u, old
<1>13. Sound(a, u, Names \cup live)
  <2> SUFFICES ASSUME NEW s \in (Names \cup live) \ a.spoiled PROVE Reads(a, s, u[s])
    BY DEF Sound
  <2>1. Reads(n, s, u[s])
    <3>1. CASE s = x
      BY <1>8, <1>10, <1>11, <1>12, <3>1 DEF Inherited
    <3>2. CASE s = count'
      BY <1>8, <1>10, <1>11, <1>12, <3>2 DEF Inherited
    <3>3. CASE s # x /\ s # count'
      <4>1. s \in T \ n.spoiled /\ s \in Slots \ {x, count'}
        BY <1>8, <1>11, <3>3, SlotsTyped DEF Inherited
      <4> QED BY <1>10, <1>12, <4>1 DEF Sound
    <3> QED BY <3>1, <3>2, <3>3
  <2> QED BY <1>11, <2>1 DEF Reads, Inherited, SlotOf
<1>14. Good(machine', Bindable) /\ KeptFor(a, machine', live)
  BY <1>3, <1>8, <1>11, KeepFacts
<1>15. Sound(machine', u, Names \cup live)
  BY <1>13, <1>14 DEF KeptFor
<1>16. truth' \in [Slots -> Values] /\ Sound(machine', truth', Names \cup live)
  BY <1>3, <1>8, <1>12, <1>15, KeepSlotsFacts
<1>17. Good(machine', With(Bindable, count')) /\ Sound(machine', truth', Names \cup Elements(pending'))
  BY <1>3, <1>71, <1>14, <1>16 DEF Good, With
<1> QED BY <1>2, <1>3, <1>7, <1>16, <1>17, Counted

\* A step that counts no temporary and leaves the pending jump.
LEMMA Uncounted ==
  ASSUME IInv, count' = count, jump' = jump,
         Good(machine', Bindable), truth' \in [Slots -> Values],
         Sound(machine', truth', Names \cup Elements(pending')),
         pending' \in Seq(1..count), Distinct(pending')
  PROVE  IInv'
<1>1. Bindable' = Bindable /\ (Jumped => Jumped') /\ Elements(pending)' = Elements(pending')
      /\ Distinct(pending)' = Distinct(pending')
  BY DEF Bindable, Jumped, JumpLive, Elements, Distinct
<1>2. Good(machine, Bindable)' /\ Sound(machine, truth, Names \cup Elements(pending))'
  BY <1>1 DEF Good, Sound, Reads, SlotOf
<1> QED BY <1>1, <1>2 DEF IInv

LEMMA AssignStep ==
  ASSUME IInv, Assign
  PROVE  IInv'
<1>1. PICK x \in Names, op \in SingleOperands :
        Finish(AssignCode(machine, x, op[1]), x, {op[1]}, truth[op[1]], Rest(op[2]))
  BY DEF Assign, AssignCode
<1> DEFINE o == op[1]
           rest == Rest(op[2])
           live == Elements(rest)
           n == AssignCode(machine, x, o)
<1>2. count' = count /\ jump' = jump
  BY DEF Assign
<1>3. /\ op[2] \in Nat /\ op[2] <= Len(pending)
      /\ o \in Names \cup (Elements(pending) \ live)
  BY SingleFacts
<1>4. rest \in Seq(1..count) /\ Distinct(rest) /\ live \subseteq Elements(pending)
  BY <1>3, RestFacts
<1>5. Elements(pending) \subseteq Temps /\ Bindable \in SUBSET Temps
  BY Typed
<1>6. /\ machine' = KeepMachine(Inherit(n, x, {o}), live)
      /\ truth' = KeepSlots([truth EXCEPT ![x] = truth[o]], live)
      /\ pending' = rest
  BY <1>1 DEF Finish, Elements
<1> HIDE DEF rest, live, o
<1>7. /\ Names \cup Elements(pending) \subseteq Slots /\ o \in Names \cup Elements(pending) /\ x \in Slots
      /\ (Names \cup live) \ {x} \subseteq (Names \cup Elements(pending)) \ {x}
      /\ Bindable \subseteq Temps /\ Bindable \in SUBSET Slots /\ live \in SUBSET Slots
  BY <1>3, <1>4, <1>5, SlotsTyped
<1>8. Good(n, Bindable) /\ Effect(machine, n, (Names \cup live) \ {x}, x, {o}, truth[o])
  <2>1. Good(machine, Bindable) /\ Sound(machine, truth, Names \cup Elements(pending))
    BY DEF IInv
  <2> QED BY <1>7, <2>1, AssignFacts
<1> HIDE DEF n
<1>9. Outcome(machine, n, (Names \cup live) \ {x}, x, {o}, truth[o])
  BY <1>8, EffectOutcome
<1>10. truth[o] \in Values /\ truth \in [Slots -> Values]
  BY <1>7 DEF IInv
<1>11. /\ Good(machine', Bindable) /\ truth' \in [Slots -> Values]
       /\ Sound(machine', truth', Names \cup live)
  BY <1>6, <1>7, <1>8, <1>9, <1>10, FinishFacts
<1>12. Sound(machine', truth', Names \cup Elements(pending'))
  BY <1>6, <1>11 DEF live
<1> QED BY <1>2, <1>4, <1>6, <1>11, <1>12, Uncounted

\* The joins: with nothing bound, forgetting every register loses nothing.
LEMMA GoodWider ==
  ASSUME NEW m, Good(m, {}), NEW B
  PROVE  Good(m, B)
BY DEF Good

HasReset(m, n) ==
  /\ n.val = m.val /\ n.mem = m.mem /\ n.spoiled = m.spoiled
  /\ \A t, S : S \subseteq Slots /\ Sound(m, t, S) => Sound(n, t, S)

LEMMA ResetFacts ==
  ASSUME NEW m, Good(m, {})
  PROVE  Good(ResetAll(m), {}) /\ HasReset(m, ResetAll(m))
<1> DEFINE g == [r \in Registers |-> Free]
           n == ResetAll(m)
<1>1. m \in Machines /\ g \in [Registers -> RegisterType] /\ \A r \in Registers : g[r].slot = None
  BY FreeTyped DEF Good
<1>2. n = [m EXCEPT !.regs = g]
  BY DEF ResetAll
<1> HIDE DEF g, n
<1>3. n \in Machines /\ n.val = m.val /\ n.mem = m.mem /\ n.spoiled = m.spoiled /\ n.regs = g
  BY <1>1, <1>2, SetRegs
<1>4. \A r \in Registers : SlotOf(n, r) = None /\ SlotOf(m, r) = None
  BY <1>1, <1>3 DEF SlotOf, Good
<1>5. Good(n, {})
  BY <1>3, <1>4 DEF Good
<1>6. ASSUME NEW t, NEW S, S \subseteq Slots, Sound(m, t, S) PROVE Sound(n, t, S)
  BY <1>3, <1>4, <1>6 DEF Sound, Reads
<1> QED BY <1>3, <1>5, <1>6 DEF n, HasReset

\* What the code of a label does: flush, forget every register.
LEMMA JoinFacts ==
  ASSUME NEW B \in SUBSET Slots, NEW m, Good(m, B), NEW t, NEW live, live \subseteq Slots,
         Sound(m, t, Names \cup live)
  PROVE  LET k == KeepMachine(ResetAll(FlushAll(m)), live) IN
         Good(k, {}) /\ Sound(k, t, Names \cup live)
<1> DEFINE a == FlushAll(m)
           b == ResetAll(a)
           k == KeepMachine(b, live)
<1>0. Names \cup live \subseteq Slots /\ live \in SUBSET Slots /\ {} \in SUBSET Slots
  BY SlotsTyped
<1>1. Good(a, {}) /\ Flushed(m, a)
  BY FlushFacts
<1> HIDE DEF a
<1>2. Good(b, {}) /\ HasReset(a, b)
  BY <1>1, ResetFacts
<1> HIDE DEF b
<1>3. Sound(b, t, Names \cup live)
  BY <1>0, <1>1, <1>2 DEF Flushed, HasReset
<1>4. Good(k, {}) /\ KeptFor(b, k, live)
  BY <1>0, <1>2, KeepFacts
<1> HIDE DEF k
<1>5. Sound(k, t, Names \cup live)
  BY <1>3, <1>4 DEF KeptFor
<1> QED BY <1>4, <1>5 DEF a, b, k

LEMMA LabelStep ==
  ASSUME IInv, Label
  PROVE  IInv'
<1>1. machine' = KeepMachine(ResetAll(FlushAll(machine)), Elements(pending))
  BY DEF Label, Live, Elements
<1>2. truth' = truth /\ pending' = pending /\ count' = count /\ jump' = jump
  BY DEF Label
<1>3. Bindable \in SUBSET Slots /\ Elements(pending) \subseteq Slots
  BY Typed, SlotsTyped
<1>4. Good(machine, Bindable) /\ Sound(machine, truth, Names \cup Elements(pending))
  BY DEF IInv
<1>5. Good(machine', {}) /\ Sound(machine', truth, Names \cup Elements(pending))
  BY <1>1, <1>3, <1>4, JoinFacts
<1>6. Good(machine', Bindable)
  BY <1>5, GoodWider
<1>7. Sound(machine', truth', Names \cup Elements(pending'))
  BY <1>2, <1>5
<1>8. truth' \in [Slots -> Values] /\ pending' \in Seq(1..count) /\ Distinct(pending')
  BY <1>2 DEF IInv
<1> QED BY <1>2, <1>6, <1>7, <1>8, Uncounted

\* A register bound when the jump arrives is bound to no slot the jump needs.
LEMMA JumpStep ==
  ASSUME IInv, LabelByJump
  PROVE  IInv'
<1> DEFINE v == [r \in Registers |-> Junk]
           a == [machine EXCEPT !.mem = jump.mem, !.spoiled = jump.spoiled, !.val = v]
<1>1. /\ jump # None /\ jump.pending = pending /\ truth' = jump.truth /\ jump' = None
      /\ pending' = pending /\ count' = count
  BY DEF LabelByJump
<1>2. Elements(pending) = JumpLive
  BY <1>1 DEF JumpLive
<1>3. machine' = KeepMachine(ResetAll(FlushAll(a)), JumpLive)
  BY <1>1 DEF LabelByJump, Live, Elements, JumpLive
<1>4. Bindable \in SUBSET Slots /\ JumpLive \subseteq Slots /\ Bindable \subseteq Temps
  BY <1>2, Typed, SlotsTyped
<1>5. Jumped /\ Good(machine, Bindable)
  BY <1>1 DEF IInv
<1>6. a.regs = machine.regs /\ a.mem = jump.mem /\ a.spoiled = jump.spoiled /\ a \in Machines
  <2>1. machine \in Machines /\ v \in [Registers -> Values]
    BY <1>5, SlotsTyped DEF Good
  <2>2. jump.mem \in [Slots -> Values] /\ jump.spoiled \subseteq Slots
    BY <1>5 DEF Jumped
  <2> HIDE DEF v
  <2> QED BY <2>1, <2>2 DEF Machines
<1> HIDE DEF a
<1>7. Good(a, Bindable)
  BY <1>5, <1>6 DEF Good, SlotOf
<1>8. Sound(a, jump.truth, Names \cup JumpLive)
  <2> SUFFICES ASSUME NEW s \in (Names \cup JumpLive) \ a.spoiled PROVE Reads(a, s, jump.truth[s])
    BY DEF Sound
  <2>1. s \notin Bindable /\ s # None
    BY <1>1, <1>4, SlotsTyped DEF Bindable
  <2>2. \A q \in Registers : SlotOf(a, q) # s
    BY <1>7, <2>1 DEF Good
  <2>3. a.mem[s] = jump.truth[s]
    BY <1>5, <1>6 DEF Jumped
  <2> QED BY <2>2, <2>3 DEF Reads
<1>9. Good(machine', {}) /\ Sound(machine', jump.truth, Names \cup JumpLive)
  BY <1>3, <1>4, <1>7, <1>8, JoinFacts
<1>10. Good(machine', Bindable')
  BY <1>9, GoodWider
<1>11. Elements(pending)' = JumpLive /\ Distinct(pending)' = Distinct(pending)
  BY <1>1, <1>2 DEF Elements, Distinct
<1>12. Good(machine, Bindable)' /\ Sound(machine, truth, Names \cup Elements(pending))'
  BY <1>1, <1>9, <1>10, <1>11 DEF Good, Sound, Reads, SlotOf
<1>13. count' \in 0..MaxTemps /\ truth' \in [Slots -> Values] /\ pending' \in Seq(1..count') /\ Distinct(pending)
  BY <1>1, <1>5 DEF IInv, Jumped
<1> QED BY <1>1, <1>11, <1>12, <1>13 DEF IInv

\* The jump leaves with every slot in the frame.
LEMMA BranchStep ==
  ASSUME IInv, ConditionalBranch
  PROVE  IInv'
<1>1. PICK op \in SingleOperands :
        LET rest == Rest(op[2])
            live == {rest[i] : i \in DOMAIN rest}
            flushed == FlushAll(machine)
            tested == KeepMachine(Overwrite(flushed, RAX, flushed.mem[op[1]]), live)
        IN  /\ machine' = tested
            /\ truth' = KeepSlots(truth, live)
            /\ pending' = rest
            /\ jump' = [mem |-> tested.mem, spoiled |-> tested.spoiled,
                        truth |-> truth', pending |-> rest]
  BY DEF ConditionalBranch
<1> DEFINE o == op[1]
           rest == Rest(op[2])
           live == Elements(rest)
           a == FlushAll(machine)
           b == Overwrite(a, RAX, a.mem[o])
           k == KeepMachine(b, live)
<1>2. /\ machine' = k /\ truth' = KeepSlots(truth, live) /\ pending' = rest
      /\ jump' = [mem |-> k.mem, spoiled |-> k.spoiled, truth |-> truth', pending |-> rest]
      /\ count' = count
  BY <1>1 DEF Elements, ConditionalBranch
<1>3. /\ op[2] \in Nat /\ op[2] <= Len(pending)
      /\ o \in Names \cup (Elements(pending) \ live)
  BY SingleFacts
<1>4. rest \in Seq(1..count) /\ Distinct(rest) /\ live \subseteq Elements(pending)
  BY <1>3, RestFacts
<1>5. /\ Elements(pending) \subseteq Slots /\ live \subseteq Slots /\ live \in SUBSET Slots
      /\ Bindable \in SUBSET Slots /\ o \in Slots /\ Names \cup live \subseteq Slots /\ {} \in SUBSET Slots
  BY <1>3, <1>4, Typed, SlotsTyped
<1> HIDE DEF rest, live, o
<1>6. Good(machine, Bindable) /\ Sound(machine, truth, Names \cup live) /\ truth \in [Slots -> Values]
  BY <1>4 DEF IInv, Sound
<1>7. Good(a, {}) /\ Flushed(machine, a)
  BY <1>5, <1>6, FlushFacts
<1> HIDE DEF a
<1>8. a.mem[o] \in Values /\ RAX \in Registers
  BY <1>5, <1>7, Fields, RegistersAssumption DEF Good
<1>9. Good(b, {}) /\ Overwritten(a, b, RAX, a.mem[o])
  BY <1>5, <1>7, <1>8, OverwriteFacts
<1> HIDE DEF b
<1>10. Sound(b, truth, Names \cup live)
  BY <1>5, <1>6, <1>7, <1>9 DEF Flushed, Overwritten
<1>11. Good(k, {}) /\ KeptFor(b, k, live)
  BY <1>5, <1>9, KeepFacts
<1> HIDE DEF k
<1>12. Sound(k, truth, Names \cup live)
  BY <1>10, <1>11 DEF KeptFor
<1>13. truth' \in [Slots -> Values] /\ Sound(k, truth', Names \cup live)
  BY <1>2, <1>5, <1>6, <1>12, KeepSlotsFacts
<1>14. /\ jump'.mem = k.mem /\ jump'.spoiled = k.spoiled /\ jump'.truth = truth' /\ jump'.pending = rest
  BY <1>2
<1>15. \A s \in (Names \cup live) \ k.spoiled : k.mem[s] = truth'[s]
  <2> SUFFICES ASSUME NEW s \in (Names \cup live) \ k.spoiled PROVE k.mem[s] = truth'[s]
    OBVIOUS
  <2>1. \A q \in Registers : SlotOf(k, q) # s
    BY <1>5, <1>11, SlotsTyped DEF Good
  <2> QED BY <1>13, <2>1 DEF Sound, Reads
<1>16. k.mem \in [Slots -> Values] /\ k.spoiled \subseteq Slots
  BY <1>11, Fields DEF Good
<1>17. JumpLive' = live /\ Elements(pending)' = live /\ Distinct(pending)' = Distinct(rest)
  BY <1>2, <1>14 DEF JumpLive, Elements, Distinct, live
<1>18. Jumped'
  BY <1>2, <1>4, <1>13, <1>14, <1>15, <1>16, <1>17 DEF Jumped
<1>19. Good(machine', Bindable')
  BY <1>2, <1>11, GoodWider
<1>20. Good(machine, Bindable)' /\ Sound(machine, truth, Names \cup Elements(pending))'
  BY <1>2, <1>13, <1>17, <1>19 DEF Good, Sound, Reads, SlotOf
<1>21. count' \in 0..MaxTemps /\ pending' \in Seq(1..count') /\ Distinct(pending)'
  BY <1>2, <1>4, <1>17 DEF IInv
<1> QED BY <1>13, <1>18, <1>20, <1>21 DEF IInv

\* A function starts with every variable in the frame.
Frame == [s \in Slots |-> IF s \in Names THEN s ELSE Junk]

LEMMA StartFacts ==
  ASSUME NEW m, m = [regs |-> [r \in Registers |-> Free], val |-> [r \in Registers |-> Junk],
                     mem |-> Frame, spoiled |-> {}]
  PROVE  /\ Good(m, {}) /\ Frame \in [Slots -> Values] /\ Sound(m, Frame, Slots)
         /\ <<>> \in Seq(1..0) /\ Distinct(<<>>) /\ Elements(<<>>) = {}
         /\ 0 \in 0..MaxTemps
<1>1. Frame \in [Slots -> Values]
  BY SlotsTyped DEF Frame
<1>2. m \in Machines
  BY <1>1, FreeTyped, SlotsTyped DEF Machines, RegisterType
<1>3. \A r \in Registers : SlotOf(m, r) = None
  BY FreeTyped DEF SlotOf
<1>4. Good(m, {})
  BY <1>2, <1>3 DEF Good
<1>5. Sound(m, Frame, Slots)
  BY <1>3, SlotsTyped DEF Sound, Reads
<1>6. <<>> \in Seq(1..0) /\ Distinct(<<>>) /\ Elements(<<>>) = {}
  <2>1. DOMAIN <<>> = {}
    BY EmptySeq
  <2> QED BY <2>1, EmptySeq DEF Distinct, Elements
<1> QED BY <1>1, <1>4, <1>5, <1>6, Bounds

LEMMA ReturnStep ==
  ASSUME IInv, Return
  PROVE  IInv'
<1>1. /\ truth' = Frame /\ pending' = <<>> /\ count' = 0 /\ jump' = None
  BY DEF Return, Frame
<1>2. machine' = [regs |-> [r \in Registers |-> Free], val |-> [r \in Registers |-> Junk],
                  mem |-> Frame, spoiled |-> {}]
  <2>1. machine = [regs |-> machine.regs, val |-> machine.val, mem |-> machine.mem, spoiled |-> machine.spoiled]
    BY Fields DEF IInv, Good
  <2> QED BY <2>1 DEF Return, ResetAll, Frame
<1>3. /\ Good(machine', {}) /\ Frame \in [Slots -> Values] /\ Sound(machine', Frame, Slots)
      /\ <<>> \in Seq(1..0) /\ Distinct(<<>>) /\ Elements(<<>>) = {} /\ 0 \in 0..MaxTemps
  BY <1>2, StartFacts
<1>4. Good(machine', Bindable')
  BY <1>3, GoodWider
<1>5. Sound(machine', truth', Names \cup Elements(pending'))
  BY <1>1, <1>3, SlotsTyped DEF Sound
<1>6. Elements(pending)' = Elements(pending') /\ Distinct(pending)' = Distinct(<<>>)
  BY <1>1 DEF Elements, Distinct
<1>7. Good(machine, Bindable)' /\ Sound(machine, truth, Names \cup Elements(pending))'
  BY <1>4, <1>5, <1>6 DEF Good, Sound, Reads, SlotOf
<1> QED BY <1>1, <1>3, <1>6, <1>7 DEF IInv

LEMMA Initially == Init => IInv
<1> SUFFICES ASSUME Init PROVE IInv
  OBVIOUS
<1>1. /\ truth = Frame /\ pending = <<>> /\ count = 0 /\ jump = None
      /\ machine = [regs |-> [r \in Registers |-> Free], val |-> [r \in Registers |-> Junk],
                    mem |-> Frame, spoiled |-> {}]
  BY DEF Init, Frame
<1>2. /\ Good(machine, {}) /\ Frame \in [Slots -> Values] /\ Sound(machine, Frame, Slots)
      /\ <<>> \in Seq(1..0) /\ Distinct(<<>>) /\ Elements(<<>>) = {} /\ 0 \in 0..MaxTemps
  BY <1>1, StartFacts
<1>3. Good(machine, Bindable)
  BY <1>2, GoodWider
<1>4. Sound(machine, truth, Names \cup Elements(pending))
  BY <1>1, <1>2, SlotsTyped DEF Sound
<1> QED BY <1>1, <1>2, <1>3, <1>4 DEF IInv

LEMMA Inductive == IInv /\ [Next]_vars => IInv'
<1> SUFFICES ASSUME IInv, [Next]_vars PROVE IInv'
  OBVIOUS
<1>1. CASE \E kind \in {"arithmetic", "shift", "divide", "modulo"} : Binary(kind)
  BY <1>1, BinaryStep
<1>2. CASE \E op \in {"not", "complement", "negate"} : Unary(op)
  BY <1>2, UnaryStep
<1>3. CASE \E kind \in {"exact", "zero", "copy", "same"} : Convert(kind)
  BY <1>3, ConvertStep
<1>4. CASE \E post \in BOOLEAN : IncDec(post)
  BY <1>4, IncDecStep
<1>5. CASE Assign
  BY <1>5, AssignStep
<1>6. CASE Call
  BY <1>6, CallStep
<1>7. CASE ConditionalBranch
  BY <1>7, BranchStep
<1>8. CASE Label
  BY <1>8, LabelStep
<1>9. CASE LabelByJump
  BY <1>9, JumpStep
<1>10. CASE Return
  BY <1>10, ReturnStep
<1>11. CASE UNCHANGED vars
  <2>1. machine' = machine /\ truth' = truth /\ pending' = pending /\ count' = count /\ jump' = jump
    BY <1>11 DEF vars
  <2>2. Good(machine', Bindable) /\ Sound(machine', truth', Names \cup Elements(pending'))
        /\ truth' \in [Slots -> Values] /\ pending' \in Seq(1..count) /\ Distinct(pending')
    BY <2>1 DEF IInv
  <2> QED BY <2>1, <2>2, Uncounted
<1> QED BY <1>1, <1>2, <1>3, <1>4, <1>5, <1>6, <1>7, <1>8, <1>9, <1>10, <1>11 DEF Next

LEMMA Invariant == Spec => []IInv
BY Initially, Inductive, PTL DEF Spec

-------------------------------------------------------------------------------
(* What the invariant says. *)

LEMMA TypeHolds == IInv => TypeOK
<1> SUFFICES ASSUME IInv PROVE TypeOK
  OBVIOUS
<1>1. machine \in Machines
  BY DEF IInv, Good
<1>2. ASSUME jump # None PROVE jump.pending \in Seq(Temps)
  <2>1. jump.pending \in Seq(1..count)
    BY <1>2 DEF IInv, Jumped
  <2>2. DOMAIN jump.pending = 1..Len(jump.pending) /\ \A i \in DOMAIN jump.pending : jump.pending[i] \in Temps
    BY <2>1, Typed, LenProperties, ElementOfSeq
  <2>3. jump.pending \in [1..Len(jump.pending) -> Temps] /\ Len(jump.pending) \in Nat
    BY <2>1, <2>2, LenProperties
  <2> QED BY <2>3, IsASeq
<1> QED BY <1>1, <1>2 DEF TypeOK, IInv, Jumped

LEMMA DirtyHolds == IInv => CachedMeansDirty
BY DEF IInv, Good, SlotOf, CachedMeansDirty

LEMMA JoinHolds == IInv => StoresAtAJoinHitNoOlderSlot
<1> SUFFICES ASSUME IInv, jump # None, NEW r \in Registers
             PROVE  machine.regs[r].slot \notin Names \cup JumpLive
  BY DEF StoresAtAJoinHitNoOlderSlot, JumpLive, Elements
<1>1. SlotOf(machine, r) \in Bindable \cup {None}
  BY DEF IInv, Good
<1>2. None \notin Names \cup JumpLive
  <2>1. jump.pending \in Seq(1..count)
    BY DEF IInv, Jumped
  <2>2. JumpLive \subseteq Temps
    BY <2>1, Typed, LenProperties, ElementOfSeq DEF JumpLive, Elements
  <2> QED BY <2>2, SlotsTyped
<1>3. Bindable \cap (Names \cup JumpLive) = {}
  BY Typed, SlotsTyped DEF Bindable
<1> QED BY <1>1, <1>2, <1>3 DEF SlotOf

LEMMA ReadHolds == IInv => ReadsFindTheirValue
<1> SUFFICES ASSUME IInv, NEW s \in (Names \cup Elements(pending)) \ machine.spoiled
             PROVE  Read(machine, s) = truth[s]
  BY DEF ReadsFindTheirValue, Live, Elements
<1>1. Reads(machine, s, truth[s])
  BY DEF IInv, Sound
<1>2. CASE Cached(machine, s)
  BY <1>1, <1>2, CachedInFacts DEF Reads, Read
<1>3. CASE ~Cached(machine, s)
  BY <1>1, <1>3, NotCached DEF Reads, Read
<1> QED BY <1>2, <1>3

\* Every reachable state of the allocator is well typed: instructions bind
\* registers only to slots, and count and number only temporaries in bounds.
THEOREM TypeCorrect == Spec => []TypeOK
BY Invariant, TypeHolds, PTL

\* A register that caches a slot is allocated and dirty, whatever the
\* instructions: flushAllDirtyRegisters leaves no binding behind.
THEOREM BoundIsDirty == Spec => []CachedMeansDirty
BY Invariant, DirtyHolds, PTL

\* Until a conditional jump arrives, no register caches a slot that was in use
\* when it left: the stores a label runs on arrival overwrite nothing older.
THEOREM StoresSafe == Spec => []StoresAtAJoinHitNoOlderSlot
BY Invariant, JoinHolds, PTL

\* Every variable and pending temporary reads as the value the IR gave it, for
\* any register set, through every spill, rebinding, flush, call and join, unless
\* an instruction handler spoiled the slot.
THEOREM ReadsRight == Spec => []ReadsFindTheirValue
BY Invariant, ReadHolds, PTL

================================================================================

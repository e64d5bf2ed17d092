------------------------------ MODULE RegSlots ------------------------------
(***************************************************************************)
(* The slot allocator of src/src/register/register.c: from the quadruples  *)
(* of the three-address code it computes the lifetimes of every key and    *)
(* every temporary, sorts them by start and gives each one a register or a *)
(* spilled slot with a linear scan (create_regslots).                      *)
(*                                                                         *)
(* One action is one iteration of one of the function's loops.  Quadruples *)
(* are 1..quadCount as in the C code, which skips the null quadruple 0 and *)
(* the null sentinel at the end; the C array `ranges` and the array        *)
(* `lifetime_active` start at 0, the sequences here at 1.                  *)
(***************************************************************************)
EXTENDS Integers, Sequences, FiniteSets

CONSTANTS
    CountReg,       \* registers of the target (REGMAP_COUNT_REG)
    CountSpilled,   \* spilled slots (REGMAP_COUNT_SPILLED)
    NodeCount,      \* nodes of the parse forest, without the two null nodes
    Temps,          \* the nodes whose value is a temporary; the others are keys
    Inputs,         \* the quadruples the TAC may hold
    MaxQuads        \* bound on the number of quadruples

Nodes == 1..NodeCount

(* An operand: the node of a KEY or TEMP item.  A literal, a count, a PAL   *)
(* and an absent operand are all NoItem: no lifetime is read or written.    *)
NoItem == 0
Item == Nodes \cup {NoItem}

(* ALU stands for ADD, SUB, MUL and DIV, SCOPE for the quadruples of scopes  *)
(* and of PAL prototypes, whose only operand is a label or PAL key.          *)
Ops == {"MOVE", "ALU", "ARG", "CALL", "PARAM", "SCOPE"}
Quad == [op : Ops, dst : Item, src1 : Item, src2 : Item]

ASSUME RegSlotsAssumption ==
    /\ CountReg \in Nat
    /\ CountSpilled \in Nat
    /\ NodeCount \in Nat
    /\ Temps \subseteq 1..NodeCount
    /\ MaxQuads \in Nat
    /\ Inputs \subseteq Quad

(* A definition whose name starts with Mut is no part of the model: it is   *)
(* the definition it precedes as a plausible mistake would write it, and the *)
(* properties below are checked to tell the two apart.                       *)

NullSlot == [spilled |-> FALSE, slot |-> 0]
RegSlot(r) == [spilled |-> FALSE, slot |-> r]
StackSlot(s) == [spilled |-> TRUE, slot |-> s]

Regs == 1..CountReg
MutSpills == 1..(CountSpilled - 1)
Spills == 0..(CountSpilled - 1)

AllSlots == {RegSlot(r) : r \in Regs} \cup {StackSlot(s) : s \in Spills}
Slot == {NullSlot} \cup AllSlots

SlotLifetime == [start : Nat, end : Nat, node : Nat, slot : Slot]
NoLifetime == [start |-> 0, end |-> 0, node |-> 0, slot |-> NullSlot]

VARIABLES
    pc,          \* the loop being run, or the outcome
    i,           \* index of the loop
    k,           \* index of the inner loop over the active intervals
    quadCount,   \* number of quadruples
    quads,       \* the quadruples scanned so far (the input, chosen as it is read)
    lifetimes,   \* regslots->lifetimes, by node
    ranges,      \* regslots->stack_range
    poolReg,     \* pool.reg: which registers are free
    poolStack,   \* pool.stack: which spilled slots are free
    active       \* lifetime_active: indices of the active intervals in ranges

vars == <<pc, i, k, quadCount, quads, lifetimes, ranges, poolReg, poolStack, active>>

Phases == {"create", "scan", "collect", "sort", "expire", "done", "failed"}

-----------------------------------------------------------------------------

Defined(n) == \E p \in DOMAIN quads : quads[p].dst = n

(* The quadruples tac.c and tac_expression.c emit.  The result of an        *)
(* operator or of a call is a fresh temporary, and a temporary is only read *)
(* once its operator was emitted.  MOVE writes a key (a temporary for       *)
(* `(a + b) = c`, nothing for `1 = c`), PARAM a key, ARG and SCOPE nothing. *)
(* The arguments of a call are emitted right before it.                     *)
Emitted(q) ==
    /\ \A n \in {q.src1, q.src2} \cap Temps : Defined(n)
    /\ quads # <<>> /\ quads[Len(quads)].op = "ARG" => q.op \in {"ARG", "CALL"}
    /\ q.op # "ALU" => q.src2 = NoItem
    /\ CASE q.op = "MOVE"  -> q.dst \in Temps => Defined(q.dst)
         [] q.op = "ALU"   -> q.dst \in Temps /\ ~Defined(q.dst)
         [] q.op = "CALL"  -> q.dst \in Temps /\ ~Defined(q.dst) /\ q.src1 = NoItem
         [] q.op = "PARAM" -> q.dst \in Nodes \ Temps /\ q.src1 = NoItem
         [] q.op = "ARG"   -> /\ q.dst = NoItem
                              /\ i < quadCount
                              /\ \E t \in Temps : ~Defined(t)
         [] q.op = "SCOPE" -> q.dst = NoItem /\ q.src1 \notin Temps

(* memory_stack_push: a full stack drops the item, and the callers ignore it *)
Push(s, x, capacity) == IF Len(s) < capacity THEN Append(s, x) ELSE s

MutOpen(lt, n, p) ==
    IF n = NoItem THEN lt
    ELSE [lt EXCEPT ![n] = [start |-> IF @.start = 0 THEN p ELSE @.start,
                            end |-> p, node |-> n, slot |-> NullSlot]]

(* A node is written: its lifetime starts again. *)
Open(lt, n, p) ==
    IF n = NoItem THEN lt
    ELSE [lt EXCEPT ![n] = [start |-> p, end |-> p, node |-> n, slot |-> NullSlot]]

(* A node is read: its lifetime reaches the quadruple p. *)
Extend(lt, n, p) == IF n = NoItem THEN lt ELSE [lt EXCEPT ![n].end = p]

MutEndedEarly(r, p) == r.end <= p
MutEndedLate(r, p) == r.end + 1 < p
Ended(r, p) == r.end < p

MutWithout(s, x) == [p \in 1..(Len(s) - 1) |-> s[p]]

(* The last item takes the place of item x. *)
Without(s, x) == [p \in 1..(Len(s) - 1) |-> IF p = x THEN s[Len(s)] ELSE s[p]]

MutGiveSlot(lt, n, slot) == IF lt[n].slot = NullSlot THEN [lt EXCEPT ![n].slot = slot] ELSE lt
GiveSlot(lt, n, slot) == [lt EXCEPT ![n].slot = slot]

(* tac->quadlist.quadruples.area.count: the null quadruples are counted     *)
Capacity == quadCount + 2

Init ==
    /\ pc = "create"
    /\ i = 0
    /\ k = 1
    /\ quadCount \in 0..MaxQuads
    /\ quads = <<>>
    /\ lifetimes = [n \in Nodes |-> NoLifetime]
    /\ ranges = <<>>
    /\ poolReg = [r \in Regs |-> FALSE]
    /\ poolStack = [s \in Spills |-> FALSE]
    /\ active = <<>>

(* The END label with error set: destroy_regslots gives everything back.    *)
Destroy ==
    /\ pc' = "failed"
    /\ lifetimes' = [n \in Nodes |-> NoLifetime]
    /\ ranges' = <<>>
    /\ poolReg' = [r \in Regs |-> FALSE]
    /\ poolStack' = [s \in Spills |-> FALSE]
    /\ active' = <<>>
    /\ UNCHANGED <<i, k, quadCount, quads>>

Create ==
    /\ pc = "create"
    /\ pc' = "scan"
    /\ i' = 1
    /\ poolReg' = [r \in Regs |-> TRUE]
    /\ poolStack' = [s \in Spills |-> TRUE]
    /\ UNCHANGED <<k, quadCount, quads, lifetimes, ranges, active>>

CreateOutOfMemory ==
    /\ pc = "create"
    /\ Destroy

ScanQuad(q) ==
    /\ pc = "scan"
    /\ i <= quadCount
    /\ Emitted(q)
    /\ quads' = Append(quads, q)
    /\ ranges' = IF q.dst # NoItem /\ lifetimes[q.dst].start # 0
                 THEN Push(ranges, lifetimes[q.dst], Capacity)
                 ELSE ranges
    /\ lifetimes' = Extend(Extend(Open(lifetimes, q.dst, i), q.src1, i), q.src2, i)
    /\ i' = i + 1
    /\ UNCHANGED <<pc, k, quadCount, poolReg, poolStack, active>>

EndScan ==
    /\ pc = "scan"
    /\ i > quadCount
    /\ pc' = "collect"
    /\ i' = 1
    /\ UNCHANGED <<k, quadCount, quads, lifetimes, ranges, poolReg, poolStack, active>>

(* Close the lifetime of node i. *)
Collect ==
    /\ pc = "collect"
    /\ i <= NodeCount
    /\ ranges' = IF lifetimes[i].start # 0
                 THEN Push(ranges, lifetimes[i], Capacity)
                 ELSE ranges
    /\ i' = i + 1
    /\ UNCHANGED <<pc, k, quadCount, quads, lifetimes, poolReg, poolStack, active>>

EndCollect ==
    /\ pc = "collect"
    /\ i > NodeCount
    /\ pc' = "sort"
    /\ i' = 2
    /\ UNCHANGED <<k, quadCount, quads, lifetimes, ranges, poolReg, poolStack, active>>

(* Where the inner loop of the insertion sort stops for ranges[i].           *)
InsertionPoint(j) ==
    /\ \A p \in j..(i - 1) : ranges[p].start > ranges[i].start
    /\ j > 1 => ranges[j - 1].start <= ranges[i].start

Inserted(j) ==
    [p \in DOMAIN ranges |-> IF p < j \/ p > i THEN ranges[p]
                             ELSE IF p = j THEN ranges[i]
                             ELSE ranges[p - 1]]

InsertKey ==
    /\ pc = "sort"
    /\ i <= Len(ranges)
    /\ \E j \in 1..i : InsertionPoint(j) /\ ranges' = Inserted(j)
    /\ i' = i + 1
    /\ UNCHANGED <<pc, k, quadCount, quads, lifetimes, poolReg, poolStack, active>>

EndSort ==
    /\ pc = "sort"
    /\ i > Len(ranges)
    /\ pc' = "expire"
    /\ i' = 1
    /\ k' = 1
    /\ UNCHANGED <<quadCount, quads, lifetimes, ranges, poolReg, poolStack, active>>

ActiveOutOfMemory ==
    /\ pc = "sort"
    /\ i > Len(ranges)
    /\ Destroy

MutExpire ==
    /\ pc = "expire" /\ i <= Len(ranges) /\ k <= Len(active)
    /\ LET old == ranges[active[k]]
       IN  /\ Ended(old, ranges[i].start)
           /\ poolReg' = [r \in Regs |-> poolReg[r] \/ RegSlot(r) = old.slot]
           /\ poolStack' = [s \in Spills |-> poolStack[s] \/ StackSlot(s) = old.slot]
    /\ active' = Without(active, k)
    /\ k' = k + 1
    /\ UNCHANGED <<pc, i, quadCount, quads, lifetimes, ranges>>

(* The interval at k ended before interval i starts: free its slot and move *)
(* the last active interval in its place, which is the next to be looked at.*)
Expire ==
    /\ pc = "expire"
    /\ i <= Len(ranges)
    /\ k <= Len(active)
    /\ LET old == ranges[active[k]]
       IN  /\ Ended(old, ranges[i].start)
           /\ poolReg' = IF old.slot.spilled THEN poolReg
                         ELSE [poolReg EXCEPT ![old.slot.slot] = TRUE]
           /\ poolStack' = IF old.slot.spilled
                           THEN [poolStack EXCEPT ![old.slot.slot] = TRUE]
                           ELSE poolStack
    /\ active' = Without(active, k)
    /\ UNCHANGED <<pc, i, k, quadCount, quads, lifetimes, ranges>>

KeepActive ==
    /\ pc = "expire"
    /\ i <= Len(ranges)
    /\ k <= Len(active)
    /\ ~Ended(ranges[active[k]], ranges[i].start)
    /\ k' = k + 1
    /\ UNCHANGED <<pc, i, quadCount, quads, lifetimes, ranges, poolReg, poolStack, active>>

(* What create_regslots does with the slot it got for interval i.           *)
Assign(slot) ==
    /\ ranges' = [ranges EXCEPT ![i].slot = slot]
    /\ lifetimes' = GiveSlot(lifetimes, ranges[i].node, slot)
    /\ active' = Append(active, i)
    /\ i' = i + 1
    /\ k' = 1
    /\ UNCHANGED <<pc, quadCount, quads>>

AllReady == pc = "expire" /\ i <= Len(ranges) /\ k > Len(active)

AllocRegister ==
    /\ AllReady
    /\ \E r \in Regs :
        /\ poolReg[r]
        /\ \A r2 \in 1..(r - 1) : ~poolReg[r2]
        /\ poolReg' = [poolReg EXCEPT ![r] = FALSE]
        /\ Assign(RegSlot(r))
    /\ UNCHANGED poolStack

AllocSpilled ==
    /\ AllReady
    /\ \A r \in Regs : ~poolReg[r]
    /\ \E s \in Spills :
        /\ poolStack[s]
        /\ \A s2 \in 0..(s - 1) : ~poolStack[s2]
        /\ poolStack' = [poolStack EXCEPT ![s] = FALSE]
        /\ Assign(StackSlot(s))
    /\ UNCHANGED poolReg

AllocFails ==
    /\ AllReady
    /\ \A r \in Regs : ~poolReg[r]
    /\ \A s \in Spills : ~poolStack[s]
    /\ Destroy

Finish ==
    /\ pc = "expire"
    /\ i > Len(ranges)
    /\ pc' = "done"
    /\ UNCHANGED <<i, k, quadCount, quads, lifetimes, ranges, poolReg, poolStack, active>>

(* create_regslots has returned. *)
Returned ==
    /\ pc \in {"done", "failed"}
    /\ UNCHANGED vars

Next ==
    \/ Create \/ CreateOutOfMemory
    \/ \E q \in Inputs : ScanQuad(q)
    \/ EndScan
    \/ Collect \/ EndCollect
    \/ InsertKey \/ EndSort \/ ActiveOutOfMemory
    \/ Expire \/ KeepActive
    \/ AllocRegister \/ AllocSpilled \/ AllocFails
    \/ Finish
    \/ Returned

Spec == Init /\ [][Next]_vars

-----------------------------------------------------------------------------

(* The index of a loop runs from the first item of what the loop walks to    *)
(* one past its last, where the loop stops: the quadruples, the nodes, the   *)
(* ranges from the second on (also when there are fewer), and for k the      *)
(* active intervals, which grow and shrink below it.                         *)
IndicesInside ==
    /\ pc = "scan" => i \in 1..(quadCount + 1)
    /\ pc = "collect" => i \in 1..(NodeCount + 1)
    /\ pc = "sort" => i = 2 \/ i \in 2..(Len(ranges) + 1)
    /\ pc \in {"expire", "done"} => i \in 1..(Len(ranges) + 1)
    /\ pc = "expire" => k \in 1..(Len(active) + 1)

(* Every variable holds what create_regslots can store in it: a slot is null *)
(* or one of the pool's, an active interval is one of the ranges, and the    *)
(* indices stay inside what they walk.                                       *)
TypeOK ==
    /\ pc \in Phases
    /\ i \in Nat
    /\ k \in Nat \ {0}
    /\ quadCount \in 0..MaxQuads
    /\ quads \in Seq(Quad)
    /\ lifetimes \in [Nodes -> SlotLifetime]
    /\ ranges \in Seq(SlotLifetime)
    /\ poolReg \in [Regs -> BOOLEAN]
    /\ poolStack \in [Spills -> BOOLEAN]
    /\ active \in Seq(DOMAIN ranges)
    /\ IndicesInside

-----------------------------------------------------------------------------
(* The lifetime a definition should have, read off the quadruples alone.     *)

Definitions == {p \in DOMAIN quads : quads[p].dst # NoItem}

Reads(p, n) == n \in {quads[p].src1, quads[p].src2}

(* The quadruples that read the value defined at d, and d itself.            *)
Uses(d) == {d} \cup
    {p \in (d + 1)..Len(quads) :
        /\ Reads(p, quads[d].dst)
        /\ \A p2 \in (d + 1)..p : quads[p2].dst # quads[d].dst}

LiveRange(d) ==
    [start |-> d,
     end   |-> CHOOSE p \in Uses(d) : \A p2 \in Uses(d) : p2 <= p,
     node  |-> quads[d].dst]

LifetimeOf(p) ==
    [start |-> ranges[p].start, end |-> ranges[p].end, node |-> ranges[p].node]

Sorted == pc \in {"expire", "done"}

(* Once sorted, stack_range holds the live range of every definition exactly *)
(* once, in the order of the definitions: the two pushes of create_regslots  *)
(* lose none (memory_stack_push drops silently when its area, sized by the   *)
(* number of quadruples, is full) and every read of a value lies inside its  *)
(* lifetime, but for the source of `x = x`.                                  *)
RangesAreLiveRanges ==
    Sorted =>
        /\ Len(ranges) = Cardinality(Definitions)
        /\ \A p, q \in DOMAIN ranges : p < q => ranges[p].start < ranges[q].start
        /\ \A d \in Definitions : \E p \in DOMAIN ranges :
              LifetimeOf(p) = LiveRange(d)

(* How many of the ranges have a slot: the ones before i.                    *)
Allocated == {p \in DOMAIN ranges : Sorted /\ p < i}

Overlap(p, q) ==
    /\ ranges[p].start <= ranges[q].end
    /\ ranges[q].start <= ranges[p].end

(* The point of the scan: two values alive at the same quadruple never share *)
(* a register or a spilled slot, whatever was freed and reused in between.   *)
OverlapDistinct ==
    \A p, q \in Allocated :
        p # q /\ Overlap(p, q) => ranges[p].slot # ranges[q].slot

Held == {ranges[active[p]].slot : p \in DOMAIN active}

(* The pool and the active intervals account for every slot: a slot is free  *)
(* exactly when no active interval holds it, so regslots_free after the      *)
(* swap with the last active interval loses none and frees none twice.       *)
PoolMatchesActive ==
    Sorted =>
        /\ \A r \in Regs : poolReg[r] <=> RegSlot(r) \notin Held
        /\ \A s \in Spills : poolStack[s] <=> StackSlot(s) \notin Held
        /\ Cardinality(Held) = Len(active)

(* The intervals up to p that are alive where interval p starts.             *)
Pressure(p) == Cardinality({q \in 1..p : ranges[q].end >= ranges[p].start})

Rank(slot) == IF slot.spilled THEN CountReg + slot.slot + 1 ELSE slot.slot

(* regslots_alloc takes the lowest free register, and a spilled slot only    *)
(* when no register is free: an interval never gets a higher slot than the   *)
(* number of values alive at its start requires.                             *)
NoNeedlessSpill == \A p \in Allocated : Rank(ranges[p].slot) \in 1..Pressure(p)

(* create_regslots gives up for want of a slot only when more values are     *)
(* alive at one quadruple than there are slots, never because a slot of an   *)
(* interval that ended was not given back.                                   *)
NoSpuriousFailure ==
    [][pc = "expire" /\ pc' = "failed" => Pressure(i) > CountReg + CountSpilled]_vars

(* The code generator finds the slot of a node in lifetimes, not in ranges:  *)
(* when the function returns true, a node that is written has there the slot *)
(* of the last of its live ranges, and a node that is never written has none.*)
LifetimeHasLastSlot ==
    pc = "done" =>
        \A n \in Nodes :
            LET own == {p \in DOMAIN ranges : ranges[p].node = n}
            IN  IF own = {} THEN lifetimes[n].slot = NullSlot
                ELSE \E p \in own : /\ \A q \in own : q <= p
                                    /\ lifetimes[n] = ranges[p]

-----------------------------------------------------------------------------
(* The refinement of SlotAssignment: its live ranges are the sorted ranges,  *)
(* its assignment the slots of the ranges before i.                          *)

Verdict == CASE pc = "expire" -> "open"
             [] pc = "done"   -> "assigned"
             [] pc = "failed" -> "refused"
             [] OTHER         -> "none"

Assignment == INSTANCE SlotAssignment WITH
    Slots   <- AllSlots,
    verdict <- Verdict,
    values  <- {LifetimeOf(p) : p \in {q \in DOMAIN ranges : Sorted}},
    slotOf  <- [v \in {LifetimeOf(p) : p \in Allocated} |->
                   ranges[CHOOSE p \in Allocated : LifetimeOf(p) = v].slot]

(* create_regslots implements SlotAssignment: the loops, the swap with the   *)
(* last active interval and the pool amount to giving each live range a slot *)
(* that no conflicting one has, and to refusing only where every slot is     *)
(* taken.                                                                    *)
ImplementsSlotAssignment == Assignment!SSpec

=============================================================================
